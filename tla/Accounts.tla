-------------------------------- MODULE Accounts -------------------------------
(****************************************************************************)
(* The accounts of the site: the rows of the users, the developer           *)
(* organizations and their invitations, and what the engine of a user was   *)
(* given of the row when it was started: the developer key, which is that   *)
(* of the organization, and the locale.  An engine never looks again, so    *)
(* that whoever changes the row must restart it.                            *)
(*                                                                          *)
(* A request reads its user's row first, for the session, and every check   *)
(* of who may do this is a check of that copy.  Its serializable            *)
(* transaction is one step, except where it calls the engine manager in the *)
(* middle: then the row stays locked, and the engine, which is started over *)
(* a connection of its own, sees what is committed.  Passwords, mail, OAuth *)
(* and the sessions are left out.                                           *)
(****************************************************************************)
EXTENDS Naturals

CONSTANTS Users, Root,          \* Root is the user of the first installation,
          Companies, RootOrg,   \* in an organization for the administrators
          Locales, DefaultLocale,
          Nobody,               \* not an organization, not a row, not an engine
          Requests,             \* concurrent requests
          MaxAccountRequests    \* bound: requests in all

ASSUME AccountsAssumption ==
    /\ Root \in Users /\ RootOrg \in Companies /\ DefaultLocale \in Locales
    /\ Nobody \notin Companies \cup Users
    /\ MaxAccountRequests \in Nat

VARIABLES user,         \* the rows of the users
          founded,      \* the organizations that were created
          invitations,
          engine,       \* what the engine of a user was given, when it runs
          request,      \* the requests that are under way
          unseen,       \* why an engine may have an old row, if it may
          accountBudget \* bound: requests still to come

accountVars == <<user, founded, invitations, engine, request, unseen, accountBudget>>

\* DeveloperStatus
USER == 0
ORG_ADMIN == 2
Status == USER..ORG_ADMIN

Row == [org : Companies \cup {Nobody}, status : Status, locale : Locales]
Invitation == [user : Users, org : Companies, status : Status]
Given(row) == [org |-> row.org, locale |-> row.locale]

Stages == {"idle", "open", "restart", "inside", "deleting"}
Request == [stage : Stages, who : Users \cup {Nobody}, session : Row \cup {Nobody},
            about : Users \cup {Nobody}]
Idle == [stage |-> "idle", who |-> Nobody, session |-> Nobody, about |-> Nobody]

\* bootstrap
FirstRow == [org |-> RootOrg, status |-> ORG_ADMIN, locale |-> DefaultLocale]

AccountsInit ==
    /\ user = [u \in Users |-> IF u = Root THEN FirstRow ELSE Nobody]
    /\ founded = {RootOrg}
    /\ invitations = {}
    /\ engine = [u \in Users |-> Nobody]
    /\ request = [r \in Requests |-> Idle]
    /\ unseen = [u \in Users |-> "nothing"]
    /\ accountBudget = MaxAccountRequests

-----------------------------------------------------------------------------
(* Requests.                                                                *)

Exists(u) == user[u] # Nobody

\* A transaction that is open in the middle has this row locked.
Locked(u) == \E r \in Requests : request[r].stage = "inside" /\ request[r].about = u

Goes(r, stage, u) ==
    request' = [request EXCEPT ![r] =
        IF stage = "idle" THEN Idle ELSE [@ EXCEPT !.stage = stage, !.about = u]]

NewRequest(r) ==
    /\ request[r].stage = "idle"
    /\ accountBudget > 0 /\ accountBudget' = accountBudget - 1

\* A new user, who is logged in; the engine is started next.
Register(r, u) ==
    /\ NewRequest(r)
    /\ ~Exists(u) /\ unseen[u] # "deleted"
    /\ user' = [user EXCEPT ![u] = [org |-> Nobody, status |-> USER, locale |-> DefaultLocale]]
    /\ Goes(r, "restart", u)
    /\ UNCHANGED <<founded, invitations, engine, unseen>>

\* deserializeUser
Session(r, u) ==
    /\ NewRequest(r)
    /\ Exists(u)
    /\ request' = [request EXCEPT ![r] =
            [stage |-> "open", who |-> u, session |-> user[u], about |-> Nobody]]
    /\ UNCHANGED <<user, founded, invitations, engine, unseen>>

Open(r) == request[r].stage = "open"
Self(r) == request[r].who
Mine(r) == request[r].session.org

\* requireDeveloper(ORG_ADMIN)
IsOrgAdmin(r) == Mine(r) # Nobody /\ request[r].session.status = ORG_ADMIN

\* The roles of the administrators; a site has one, who has all.
IsSiteAdmin(r) == Self(r) = Root

\* One transaction that changes a row.
Updates(r, u, row, stage) ==
    /\ Open(r) /\ Exists(u) /\ ~Locked(u)
    /\ user' = [user EXCEPT ![u] = row]
    /\ Goes(r, stage, u)
    /\ UNCHANGED <<engine, unseen, accountBudget>>

\* makeDeveloper
MakeDeveloper(u, org, status) ==
    [user[u] EXCEPT !.org = org, !.status = IF org = Nobody THEN USER ELSE status]

\* A bug to detect: the founder's engine is not restarted.
AfterNewOrg_Idle(org) == "idle"
AfterNewOrg(org) == "restart"

RequestDeveloper(r, org) ==
    /\ Updates(r, Self(r), MakeDeveloper(Self(r), org, ORG_ADMIN), AfterNewOrg(org))
    /\ Mine(r) = Nobody
    /\ org \notin founded /\ founded' = founded \cup {org}
    /\ UNCHANGED invitations

AcceptInvitation(r, i) ==
    /\ Updates(r, Self(r), MakeDeveloper(Self(r), i.org, i.status), "restart")
    /\ Mine(r) = Nobody
    /\ i \in invitations /\ i.user = Self(r)
    /\ invitations' = {j \in invitations : j.user # Self(r)}
    /\ UNCHANGED founded

\* Of any user; the engine does not know of the status.
StatusChange(r, u, status) ==
    /\ Updates(r, u, [user[u] EXCEPT !.status = status], "idle")
    /\ UNCHANGED <<founded, invitations>>
InMyOrg(r, u) == Exists(u) /\ IsOrgAdmin(r) /\ user[u].org = Mine(r)
Promote(r, u) ==
    /\ Open(r) /\ InMyOrg(r, u) /\ user[u].status < ORG_ADMIN
    /\ StatusChange(r, u, user[u].status + 1)
Demote(r, u) ==
    /\ Open(r) /\ InMyOrg(r, u) /\ u # Self(r) /\ user[u].status > USER
    /\ StatusChange(r, u, user[u].status - 1)

\* The mail with it is sent before the row is inserted.
AddMember(r, u, status) ==
    /\ Open(r) /\ IsOrgAdmin(r)
    /\ Exists(u) /\ ~Locked(u) /\ user[u].org = Nobody
    /\ ~\E i \in invitations : i.user = u /\ i.org = Mine(r)
    /\ invitations' = invitations \cup {[user |-> u, org |-> Mine(r), status |-> status]}
    /\ Goes(r, "idle", u)
    /\ UNCHANGED <<user, founded, engine, unseen, accountBudget>>
RescindInvitation(r, u) ==
    /\ Open(r) /\ IsOrgAdmin(r) /\ Exists(u) /\ ~Locked(u)
    /\ invitations' = {i \in invitations : ~(i.user = u /\ i.org = Mine(r))}
    /\ Goes(r, "idle", u)
    /\ UNCHANGED <<user, founded, engine, unseen, accountBudget>>

\* Whether to restart is decided with the session's locale; the restart comes
\* when the transaction has ended, even when it was rolled back.
Profile(r, locale, commits) ==
    /\ Updates(r, Self(r), IF commits THEN [user[Self(r)] EXCEPT !.locale = locale] ELSE user[Self(r)],
               IF locale # request[r].session.locale THEN "restart" ELSE "idle")
    /\ UNCHANGED <<founded, invitations>>

-----------------------------------------------------------------------------
(* Requests of the site's administrators.                                   *)

AdminPromote(r, u, org) ==
    /\ Open(r) /\ IsSiteAdmin(r) /\ Exists(u) /\ user[u].status < ORG_ADMIN
    /\ UNCHANGED invitations
    /\ IF user[u].org = Nobody THEN
           /\ org \notin founded /\ founded' = founded \cup {org}
           /\ Updates(r, u, MakeDeveloper(u, org, ORG_ADMIN), "restart")
       ELSE Updates(r, u, [user[u] EXCEPT !.status = @ + 1], "idle") /\ UNCHANGED founded
AdminDemote(r, u) ==
    /\ Open(r) /\ IsSiteAdmin(r) /\ Exists(u) /\ u # Self(r) /\ user[u].status > USER
    /\ StatusChange(r, u, user[u].status - 1)
RevokeDeveloper(r, u) ==
    /\ Open(r) /\ IsSiteAdmin(r) /\ Exists(u) /\ u # Self(r)
    /\ Updates(r, u, MakeDeveloper(u, Nobody, USER), "restart")
    /\ UNCHANGED <<founded, invitations>>
AdminAddMember(r, u, org, status) ==
    /\ Open(r) /\ IsSiteAdmin(r) /\ Exists(u) /\ user[u].org \in {Nobody, org}
    /\ org \in founded
    /\ Updates(r, u, MakeDeveloper(u, org, status), "restart")
    /\ UNCHANGED <<founded, invitations>>

-----------------------------------------------------------------------------
(* Engines: the operations of the engine manager, and what starts and stops *)
(* them besides these requests.                                             *)

Starts(u) ==
    /\ engine' = [engine EXCEPT ![u] = Given(user[u])]
    /\ unseen' = [unseen EXCEPT ![u] = "nothing"]

\* The restart after the transaction.  It fails for a user who is deleted,
Restart(r) ==
    LET u == request[r].about
    IN  /\ request[r].stage = "restart" /\ Goes(r, "idle", u)
        /\ IF Exists(u) THEN Starts(u)
           ELSE engine' = [engine EXCEPT ![u] = Nobody] /\ UNCHANGED unseen
        /\ UNCHANGED <<user, founded, invitations, accountBudget>>
\* and when the manager cannot be reached, or the front end dies.
RestartFails(r) ==
    LET u == request[r].about
    IN  /\ request[r].stage = "restart" /\ Goes(r, "idle", u)
        /\ unseen' = [unseen EXCEPT ![u] = IF @ = "deleted" THEN @ ELSE "failed"]
        /\ UNCHANGED <<user, founded, invitations, engine, accountBudget>>

\* remove-member restarts the engine before its transaction commits.
RemoveMember(r, u) ==
    /\ Open(r) /\ InMyOrg(r, u) /\ u # Self(r) /\ ~Locked(u)
    /\ Starts(u)
    /\ Goes(r, "inside", u)
    /\ UNCHANGED <<user, founded, invitations, accountBudget>>
RemoveCommits(r) ==
    LET u == request[r].about
    IN  /\ request[r].stage = "inside" /\ Goes(r, "idle", u)
        /\ user' = [user EXCEPT ![u] = MakeDeveloper(u, Nobody, USER)]
        /\ unseen' = [unseen EXCEPT ![u] = IF @ = "failed" THEN @ ELSE "removed"]
        /\ UNCHANGED <<founded, invitations, engine, accountBudget>>

\* The engine is stopped and its files are gone, and then the row.
Deletes(r, u) ==
    /\ Open(r) /\ Exists(u) /\ (u = Self(r) \/ IsSiteAdmin(r))
    /\ engine' = [engine EXCEPT ![u] = Nobody]
    /\ Goes(r, "deleting", u)
    /\ UNCHANGED <<user, founded, invitations, unseen, accountBudget>>
DeleteCommits(r) ==
    LET u == request[r].about
    IN  /\ request[r].stage = "deleting" /\ Goes(r, "idle", u) /\ ~Locked(u)
        /\ user' = [user EXCEPT ![u] = Nobody]
        /\ unseen' = [unseen EXCEPT ![u] = "deleted"]
        /\ UNCHANGED <<founded, invitations, engine, accountBudget>>

\* Refused, or rolled back.
Refuse(r) ==
    /\ request[r].stage \in {"open", "inside", "deleting"} /\ Goes(r, "idle", Nobody)
    /\ UNCHANGED <<user, founded, invitations, engine, unseen, accountBudget>>

\* A start of the manager or by an administrator; a crash, or a stop.
EngineStarts(u) == /\ Exists(u) /\ engine[u] = Nobody /\ Starts(u)
                   /\ UNCHANGED <<user, founded, invitations, request, accountBudget>>
EngineStops(u) == /\ engine[u] # Nobody /\ engine' = [engine EXCEPT ![u] = Nobody]
                  /\ UNCHANGED <<user, founded, invitations, request, unseen, accountBudget>>

-----------------------------------------------------------------------------
Console(r) ==
    \/ \E u \in Users : \/ Promote(r, u) \/ Demote(r, u) \/ RescindInvitation(r, u)
                        \/ RemoveMember(r, u)
                        \/ \E s \in Status : AddMember(r, u, s)
    \/ \E i \in invitations : AcceptInvitation(r, i)
    \/ RemoveCommits(r)

Admins(r) ==
    \E u \in Users : \/ AdminDemote(r, u) \/ RevokeDeveloper(r, u)
                     \/ \E org \in Companies : AdminPromote(r, u, org)
                     \/ \E org \in Companies, s \in {USER, USER + 1} : AdminAddMember(r, u, org, s)

AccountsNext ==
    \/ \E r \in Requests :
          \/ \E u \in Users : Register(r, u) \/ Session(r, u) \/ Deletes(r, u)
          \/ \E org \in Companies : RequestDeveloper(r, org)
          \/ \E l \in Locales, commits \in BOOLEAN : Profile(r, l, commits)
          \/ Console(r) \/ Admins(r)
          \/ Restart(r) \/ RestartFails(r) \/ DeleteCommits(r) \/ Refuse(r)
    \/ \E u \in Users : EngineStarts(u) \/ EngineStops(u)

AccountsSpec == AccountsInit /\ [][AccountsNext]_accountVars

-----------------------------------------------------------------------------
AccountsTypeOK ==
    /\ user \in [Users -> Row \cup {Nobody}]
    /\ founded \subseteq Companies
    /\ invitations \subseteq Invitation
    /\ engine \in [Users -> [org : Companies \cup {Nobody}, locale : Locales] \cup {Nobody}]
    /\ request \in [Requests -> Request]
    /\ unseen \in [Users -> {"nothing", "failed", "removed", "deleted"}]

Restarting(u) == \E r \in Requests : /\ request[r].about = u
                                     /\ request[r].stage \in {"restart", "inside"}
HasKey(u) == Exists(u) /\ engine[u] # Nobody => engine[u].org = user[u].org

\* The routes that change the organization of a user: when no restart is still
\* to come and none has failed, the engine has the developer key of the row,
\* however requests cross, unless the member was removed in the console.
KeyIsCurrent == \A u \in Users : unseen[u] = "nothing" /\ ~Restarting(u) => HasKey(u)

\* routes/user.ts: the restart "must happen outside of the transaction, or the
\* restarted engine will not see the new" row.  So that after every restart
\* that did not fail the engine has the key of the row.
RestartSeesRow == \A u \in Users : unseen[u] \in {"nothing", "removed"} /\ ~Restarting(u) => HasKey(u)
================================================================================
