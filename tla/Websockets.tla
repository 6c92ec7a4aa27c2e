----------------------------- MODULE Websockets -----------------------------
(***************************************************************************)
(* The websockets of browsers and devices that the front end joins to an   *)
(* engine: doConversation() of src/routes/my_conversation.ts and           *)
(* CloudSyncWebsocketDelegate of src/routes/cloud-sync.ts, on top of the   *)
(* connections of EngineManagerClient.                                     *)
(*                                                                         *)
(* Until the engine's side of the websocket (the wrapper) exists, messages *)
(* are queued; then the queue is flushed, one call at a time.  The stages  *)
(* are the awaits: "engine" for getEngine(), "opening" for the call that   *)
(* makes the wrapper, "flushing" for a call of the flush loop.  A promise  *)
(* job runs before the next event.  Calls over one connection are carried  *)
(* out and answered in order; a call over an ended connection may fail or  *)
(* may never be answered.                                                  *)
(***************************************************************************)
EXTENDS EngineManagerClient, Sequences

CONSTANTS Ws,           \* the websockets
          UserOf,       \* whose they are
          Kind,         \* per websocket: "conversation" or "sync"
          MaxMsg        \* bound: messages, per websocket

ASSUME WebsocketAssumption ==
    /\ UserOf \in [Ws -> User]
    /\ Kind \in [Ws -> {"conversation", "sync"}]
    /\ MaxMsg \in [Ws -> Nat]

VARIABLES ws,           \* the websockets, with what their closures hold
          listening,    \* those that listen to 'socket-closed'
          deaf,         \* those whose listener the loss of another user's
                        \* connection took away; only properties read it
          calls         \* per connection: calls to the engine, oldest first

socketVars == <<ws, listening, deaf, calls>>
frontVars == <<clientVars, socketVars>>

\* browser: the websocket itself.  wrapper: what this side has of the
\* engine's object for it, remote: whether the engine has it.  queue: what
\* is left of initQueue, of _buffer.
Stage == {"idle", "engine", "opening", "flushing", "opened", "failed"}
Operations == {"open", "flush", "handle", "destroy"}

Websocket == [stage     : Stage,
              conn      : Conn \cup {None},
              browser   : {"open", "closing", "closed"},
              wrapper   : {"none", "live", "destroying", "freed"},
              remote    : {"none", "open", "gone"},
              sent      : Nat,
              queue     : Seq(Nat),
              delivered : Seq(Nat)]

Call == [op : Operations, ws : Ws, msg : Nat]

NewWebsocket == [stage     |-> "idle",
                 conn      |-> None,
                 browser   |-> "open",
                 wrapper   |-> "none",
                 remote    |-> "none",
                 sent      |-> 0,
                 queue     |-> <<>>,
                 delivered |-> <<>>]

FrontInit ==
    /\ ClientInit
    /\ ws = [w \in Ws |-> NewWebsocket]
    /\ listening = {}
    /\ deaf = {}
    /\ calls = [c \in Conn |-> <<>>]

\* The websockets that have a promise job to run.
Runnable(w) == ws[w].stage = "engine" /\ direct[ws[w].conn].promise # "pending"
Quiet == \A w \in Ws : ~Runnable(w)

\* ws.close(), ws.terminate(): the 'close' event will follow.
Closing(b) == IF b = "open" THEN "closing" ELSE b

\* What the rejection of calls of these kinds does to a websocket.
Rejected(s, ops) ==
    [s EXCEPT !.stage   = IF ops \cap {"open", "flush"} # {} THEN "failed" ELSE @,
              !.browser = IF ops \subseteq {"destroy"} THEN @ ELSE Closing(@),
              !.wrapper = IF "destroy" \in ops THEN "freed" ELSE @]

\* w, now s, calls the engine.
Calls(w, s, op, n) ==
    IF direct[s.conn].line = "open"
    THEN /\ ws' = [ws EXCEPT ![w] = s]
         /\ calls' = [calls EXCEPT ![s.conn] =
                Append(@, [op |-> op, ws |-> w, msg |-> n])]
    ELSE /\ ws' \in {[ws EXCEPT ![w] = s], [ws EXCEPT ![w] = Rejected(s, {op})]}
         /\ UNCHANGED calls

-----------------------------------------------------------------------------
(* The life of a websocket.                                                 *)

\* doConversation, setUser: the engine is asked for.
Open(w) ==
    /\ Quiet
    /\ ws[w].stage = "idle"
    /\ GetEngine(UserOf[w])
    /\ ws' = [ws EXCEPT ![w].stage = "engine", ![w].conn = EngineConn(UserOf[w])]
    /\ UNCHANGED <<listening, deaf, calls>>

\* getEngine() has returned: newConnection or getOrOpenConversationWebSocket
\* is called, or the websocket is closed.
GotEngine(w) ==
    /\ Runnable(w)
    /\ IF direct[ws[w].conn].promise = "engine"
       THEN /\ listening' = listening \cup {w}
            /\ UNCHANGED deaf
            /\ Calls(w, [ws[w] EXCEPT !.stage = "opening"], "open", 0)
       ELSE /\ ws' = [ws EXCEPT ![w] = Rejected(@, {"open"})]
            /\ UNCHANGED <<listening, deaf, calls>>
    /\ UNCHANGED clientVars

\* Does a message go to the engine at once?  A conversation waits until its
\* queue is empty; cloud sync has set _remote before it flushes.  A bug to
\* detect: the conversation opens when it has asked for its wrapper.
Direct_WhenAsked(w) == ws[w].stage \notin {"idle", "engine", "failed"}
Direct(w) == IF Kind[w] = "conversation" THEN ws[w].stage = "opened"
                                         ELSE ws[w].wrapper # "none"

\* initQueue.push(parsed), and a bug to detect: the flush loop runs over a
\* copy, and what comes meanwhile is left in a queue nobody reads.
Queued_Unseen(s, n) == IF s.stage = "flushing" THEN s
                       ELSE [s EXCEPT !.queue = Append(@, n)]
Queued(s, n) == [s EXCEPT !.queue = Append(@, n)]

Message(w) ==
    LET s == [ws[w] EXCEPT !.sent = @ + 1]
    IN  /\ Quiet
        /\ s.stage # "idle" \/ Kind[w] = "sync"
        /\ s.browser # "closed"
        /\ s.sent <= MaxMsg[w]
        /\ IF ~Direct(w)
           THEN /\ ws' = [ws EXCEPT ![w] = Queued(s, s.sent)]
                /\ UNCHANGED calls
           ELSE IF s.wrapper = "freed"
           THEN ws' = [ws EXCEPT ![w] = s] /\ UNCHANGED calls
           ELSE Calls(w, s, "handle", s.sent)
        /\ UNCHANGED <<clientVars, listening, deaf>>

\* The browser leaves, or a closing websocket is closed.  Without a wrapper
\* there is nothing to destroy; one that is obtained later stays.
BrowserClosed(w) ==
    /\ Quiet
    /\ ws[w].stage # "idle" \/ Kind[w] = "sync"
    /\ ws[w].browser # "closed"
    /\ LET s == [ws[w] EXCEPT !.browser = "closed"]
       IN  IF s.wrapper = "live"
           THEN Calls(w, [s EXCEPT !.wrapper = "destroying"], "destroy", 0)
           ELSE ws' = [ws EXCEPT ![w] = s] /\ UNCHANGED calls
    /\ UNCHANGED <<clientVars, listening, deaf>>

-----------------------------------------------------------------------------
(* The engine's answers.                                                    *)

\* The flush loop of s goes on, once the oldest call over c was answered.
\* wrapper.handle() of a conversation whose wrapper was freed in the meantime
\* throws.
GoesOn(c, w, s) ==
    LET rest == Tail(calls[c])
    IN  IF s.queue = <<>>
        THEN /\ ws' = [ws EXCEPT ![w] = [s EXCEPT !.stage = "opened"]]
             /\ calls' = [calls EXCEPT ![c] = rest]
        ELSE IF s.wrapper = "freed" /\ Kind[w] = "conversation"
        THEN /\ ws' = [ws EXCEPT ![w] = Rejected(s, {"flush"})]
             /\ calls' = [calls EXCEPT ![c] = rest]
        ELSE /\ ws' = [ws EXCEPT ![w] = [s EXCEPT !.stage = "flushing",
                                                  !.queue = Tail(@)]]
             /\ calls' = [calls EXCEPT ![c] = Append(rest,
                    [op |-> "flush", ws |-> w, msg |-> Head(s.queue)])]

\* The engine carries out the oldest call over c.
EngineAnswers(c) ==
    LET call == Head(calls[c])
        w == call.ws
        s == CASE call.op = "open"    -> [ws[w] EXCEPT !.wrapper = "live",
                                                       !.remote = "open"]
               [] call.op = "destroy" -> [ws[w] EXCEPT !.wrapper = "freed",
                                                       !.remote = "gone"]
               [] OTHER -> [ws[w] EXCEPT !.delivered = Append(@, call.msg)]
    IN  /\ Quiet
        /\ direct[c].line = "open"
        /\ calls[c] # <<>>
        /\ call.op \in {"flush", "handle"} => ws[w].remote = "open"
        /\ IF call.op \in {"open", "flush"}
           THEN GoesOn(c, w, s)
           ELSE /\ ws' = [ws EXCEPT ![w] = s]
                /\ calls' = [calls EXCEPT ![c] = Tail(@)]
        /\ UNCHANGED <<clientVars, listening, deaf>>

\* The oldest call over c fails in the engine, before or after its effect.
EngineRefuses(c) ==
    LET call == Head(calls[c])
        w == call.ws
    IN  /\ Quiet
        /\ direct[c].line = "open"
        /\ calls[c] # <<>>
        /\ ws' \in {[ws EXCEPT ![w] = Rejected(s, {call.op})] : s \in
               {ws[w]} \cup
               (IF call.op \in {"flush", "handle"} /\ ws[w].remote = "open"
                THEN {[ws[w] EXCEPT !.delivered = Append(@, call.msg)]} ELSE {})}
        /\ calls' = [calls EXCEPT ![c] = Tail(@)]
        /\ UNCHANGED <<clientVars, listening, deaf>>

-----------------------------------------------------------------------------
(* The connections below.                                                   *)

\* The kinds of the calls of w that are under way over c.
Pending(w, c) == {calls[c][i].op : i \in {j \in 1..Len(calls[c]) : calls[c][j].ws = w}}

\* The websockets when the connections in C are ended: their calls are never
\* answered, or are rejected.
Dropped(C, rejects) ==
    [w \in Ws |->
        IF rejects /\ ws[w].conn \in C /\ Pending(w, ws[w].conn) # {}
        THEN Rejected(ws[w], Pending(w, ws[w].conn)) ELSE ws[w]]

NoCalls(C) == [c \in Conn |-> IF c \in C THEN <<>> ELSE calls[c]]

\* onclosed() of w, now s, for the users in `users`, and a bug to detect:
\* the listener is taken away and nothing is closed.
Notified_NotClosed(w, s, users) == s
Notified(w, s, users) ==
    IF w \in listening /\ UserOf[w] \in users
    THEN [s EXCEPT !.browser = Closing(@)] ELSE s

Ready(c) == Quiet /\ EngineReady(c) /\ UNCHANGED socketVars

LineEnds(c) ==
    /\ Quiet
    /\ EngineError(c)
    /\ \E rejects \in BOOLEAN : ws' = Dropped({c}, rejects)
    /\ calls' = NoCalls({c})
    /\ UNCHANGED <<listening, deaf>>

\* 'close' of a connection.  Every websocket that listens hears of it, and
\* removes its listener, whoever the user is.
LineClosed(c) ==
    /\ Quiet
    /\ EngineClosed(c)
    /\ \E rejects \in BOOLEAN :
          ws' = [w \in Ws |-> Notified(w, Dropped({c}, rejects)[w], ClosedUsers(c))]
    /\ calls' = NoCalls({c})
    /\ IF ClosedUsers(c) = {} THEN UNCHANGED <<listening, deaf>>
       ELSE /\ listening' = {}
            /\ deaf' = deaf \cup {w \in listening : UserOf[w] \notin ClosedUsers(c)}

\* A page or a webhook asks for the engine.
Page(u) == Quiet /\ GetEngine(u) /\ UNCHANGED socketVars

Operation(u) == Quiet /\ Forget(u) /\ UNCHANGED socketVars

Control(s) ==
    /\ Quiet
    /\ ControlReady(s) \/ ControlClosed(s) \/ Reconnect(s)
    /\ UNCHANGED socketVars

StopFrontend ==
    LET ended == {c \in Conn : direct[c].line # direct'[c].line}
    IN  /\ Quiet
        /\ StopClient
        /\ \E rejects \in BOOLEAN : ws' = Dropped(ended, rejects)
        /\ calls' = NoCalls(ended)
        /\ UNCHANGED <<listening, deaf>>

-----------------------------------------------------------------------------
FrontNext ==
    \/ \E w \in Ws : Open(w) \/ GotEngine(w) \/ Message(w) \/ BrowserClosed(w)
    \/ \E c \in Conn : \/ EngineAnswers(c) \/ EngineRefuses(c)
                        \/ Ready(c) \/ LineEnds(c) \/ LineClosed(c)
    \/ \E u \in User : Operation(u) \/ Page(u)
    \/ \E s \in Shard : Control(s)
    \/ StopFrontend

FrontSpec == FrontInit /\ [][FrontNext]_frontVars

\* Promise jobs run, a request for an engine and every call are answered, a
\* master that runs accepts connections.
FrontFairSpec ==
    /\ FrontSpec
    /\ \A w \in Ws : WF_frontVars(GotEngine(w))
    /\ WF_frontVars(\E c \in Conn : Ready(c))
    /\ \A c \in Conn : WF_frontVars(EngineAnswers(c) \/ EngineRefuses(c))

-----------------------------------------------------------------------------
FrontTypeOK ==
    /\ cached \in [User -> Conn \cup {None}]
    /\ direct \in [Conn -> Connection]
    /\ opened \in 0..MaxConn
    /\ expectClose \in BOOLEAN
    /\ control \subseteq Shard /\ line \subseteq Shard
    /\ reconnects \in [Shard -> Nat]
    /\ severed \in [Shard -> 0..MaxSever]
    /\ ws \in [Ws -> Websocket]
    /\ listening \subseteq Ws /\ deaf \subseteq Ws
    /\ calls \in [Conn -> Seq(Call)]

\* getEngine: a cached engine is one whose connection is not closed, however
\* operations, new connections and the late 'close' of an old one alternate.
CachedIsOpen ==
    ~expectClose => \A u \in User :
        cached[u] # None => direct[cached[u]].line # "closed"

\* onclosed: a websocket is open although the connection to its engine is
\* closed only if, while it listened, the connection of another user was closed
\* and took its listener away - however old connections of its own user, which
\* are not its engine's, are closed before.
LostEngineClosesWebsocket ==
    \A w \in Ws :
        /\ ws[w].stage \notin {"idle", "engine"}
        /\ ws[w].browser = "open"
        /\ direct[ws[w].conn].line = "closed"
        /\ ~expectClose
        => w \in deaf

\* doConversation: what the user says reaches the engine in the order in
\* which it was said and nothing twice; nothing is left out in between as
\* long as the websocket is not closing.
ConversationInOrder ==
    \A w \in Ws : Kind[w] = "conversation" =>
        LET d == ws[w].delivered
        IN  /\ \A i, j \in 1..Len(d) : i < j => d[i] < d[j]
            /\ ws[w].browser = "open" => \A i \in 1..Len(d) : d[i] = i

\* ... and nothing stays behind in a queue: a message that was received is
\* delivered, unless the websocket closes or its engine is lost.  The browser
\* sends finitely many, so that all of them can be waited for.
Undelivered ==
    \E w \in Ws : \E n \in 1..ws[w].sent :
        /\ \A i \in 1..Len(ws[w].delivered) : ws[w].delivered[i] # n
        /\ ws[w].browser = "open"
        /\ ws[w].conn # None /\ direct[ws[w].conn].line = "open"
EveryMessageArrives == Undelivered ~> ~Undelivered
=============================================================================
