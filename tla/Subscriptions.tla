------------------------------ MODULE Subscriptions -----------------------------
(****************************************************************************)
(* Apps that notify somebody who is not connected, and how he stops them: a *)
(* text message "stop", or the link in a mail, delete the apps of his       *)
(* address in the engine of the anonymous user, one after the other; the    *)
(* link also deletes all apps of the user with this address.  Meanwhile     *)
(* apps are created and deleted, and others stop theirs.                    *)
(****************************************************************************)
EXTENDS Naturals

CONSTANTS App,          \* the apps there may be,
          Anonymous,    \* those in the engine of the anonymous user,
          To,           \* what each of them notifies, or NoAddress
          Phones, Mails, NoAddress,
          Owner,        \* the address of the user with an engine of his own
          Stops         \* requests to stop at a time

ASSUME SubscriptionsAssumption ==
    /\ Anonymous \subseteq App
    /\ To \in [App -> Phones \cup Mails \cup {NoAddress}]
    /\ Owner \in Mails /\ NoAddress \notin Phones \cup Mails /\ Phones \cap Mails = {}

VARIABLES apps,         \* the apps there are
          was,          \* those that were ever created
          stop,         \* per request to stop: where it is
          deleted,      \* apps that were deleted by name
          silenced,     \* addresses with a request to stop that has begun
          owed          \* apps that were there when a request began that is over

subscriptionVars == <<apps, was, stop, deleted, silenced, owed>>

NoStop == [pc |-> "none", address |-> NoAddress, own |-> FALSE, todo |-> {}, saw |-> {}]

SubscriptionsInit ==
    /\ apps = {} /\ was = {} /\ deleted = {} /\ silenced = {} /\ owed = {}
    /\ stop = [r \in Stops |-> NoStop]

InEngine(own) == {a \in apps : a \in Anonymous <=> ~own}

\* createAppAndReturnResults, or a command in a text message.
CreateApp(a) ==
    /\ a \notin was
    /\ apps' = apps \cup {a}
    /\ was' = was \cup {a}
    /\ UNCHANGED <<stop, deleted, silenced, owed>>

DeleteApp(a) ==
    /\ a \in apps
    /\ apps' = apps \ {a}
    /\ deleted' = deleted \cup {a}
    /\ UNCHANGED <<was, stop, silenced, owed>>

-----------------------------------------------------------------------------
\* Of the anonymous engine those that notify the address, of his own all.
Stopped(a, address, own) == own \/ To[a] = address

\* deleteAllApps begins with the apps there are.
DeleteAllApps(r, own) ==
    stop' = [stop EXCEPT ![r] = [@ EXCEPT !.pc = "deleting", !.own = own,
                                          !.todo = InEngine(own)]]

\* POST /sms with "stop", GET /notifications/unsubscribe
BeginStop(r, address) ==
    /\ stop[r].pc = "none"
    /\ stop' = [stop EXCEPT ![r] = [NoStop EXCEPT !.pc = "deleting", !.address = address,
                    !.todo = InEngine(FALSE),
                    !.saw = {a \in apps : To[a] = address /\ (a \in Anonymous \/ address = Owner)}]]
    /\ silenced' = silenced \cup {address}
    /\ UNCHANGED <<apps, was, deleted, owed>>

\* What is left of the list, and a bug to detect: it is the one that shrinks, and
\* each app that is removed hides the next.
RestOfList_Shrinking(todo, a, removed) ==
    {b \in todo \ {a} : removed => b # CHOOSE next \in todo \ {a} : TRUE}
RestOfList(todo, a, removed) == todo \ {a}

\* One app at a time: removeApp() is awaited, and does nothing for one that is
\* gone by now.
RemoveApp(r) ==
    /\ stop[r].pc = "deleting"
    /\ \E a \in stop[r].todo :
          LET removed == Stopped(a, stop[r].address, stop[r].own)
          IN  /\ apps' = IF removed THEN apps \ {a} ELSE apps
              /\ stop' = [stop EXCEPT ![r].todo = RestOfList(@, a, removed)]
    /\ UNCHANGED <<was, deleted, silenced, owed>>

\* The link in a mail goes on in the engine of the user with the address.
UserByEmail(r) ==
    /\ stop[r].pc = "deleting" /\ stop[r].todo = {}
    /\ stop[r].address = Owner /\ ~stop[r].own
    /\ DeleteAllApps(r, TRUE)
    /\ UNCHANGED <<apps, was, deleted, silenced, owed>>

StopReturns(r) ==
    /\ stop[r].pc = "deleting" /\ stop[r].todo = {}
    /\ stop[r].address = Owner => stop[r].own
    /\ stop' = [stop EXCEPT ![r] = NoStop]
    /\ owed' = owed \cup stop[r].saw
    /\ UNCHANGED <<apps, was, deleted, silenced>>

SubscriptionsNext ==
    \/ \E a \in App : CreateApp(a) \/ DeleteApp(a)
    \/ \E r \in Stops : \/ \E address \in Phones \cup Mails : BeginStop(r, address)
                        \/ RemoveApp(r) \/ UserByEmail(r) \/ StopReturns(r)

SubscriptionsSpec == SubscriptionsInit /\ [][SubscriptionsNext]_subscriptionVars

-----------------------------------------------------------------------------
SubscriptionsTypeOK ==
    /\ apps \cup was \cup deleted \cup owed \subseteq App
    /\ silenced \subseteq Phones \cup Mails
    /\ stop \in [Stops -> [pc : {"none", "deleting"}, address : Phones \cup Mails \cup {NoAddress},
                           own : BOOLEAN, todo : SUBSET App, saw : SUBSET App]]

\* engine.ts deleteAllApps, my_api.ts: when a request to stop is answered, no
\* app of the anonymous user runs that notified this address when it came, nor one
\* of the user with this address, if it is the link, and nobody has lost an app
\* but by deleting it, by a request of its address, or, in the engine of the
\* user with this address, by the link in the mail - though other requests
\* create and delete apps between the calls.
StoppedAreTheirs ==
    /\ apps \cap owed = {}
    /\ \A a \in was \ (apps \cup deleted) :
          IF a \in Anonymous THEN To[a] \in silenced ELSE Owner \in silenced
================================================================================
