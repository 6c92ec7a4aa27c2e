------------------------- MODULE EngineManagerClient -------------------------
(***************************************************************************)
(* class EngineManagerClientImpl of src/almond/enginemanagerclient.ts: the *)
(* front end's side of the connections to the masters.                     *)
(*                                                                         *)
(* A direct connection leads to the engine of one user; getEngine() opens  *)
(* it, caches the promise of the engine, and gives the same promise to     *)
(* every caller until the entry leaves the cache.  The connection and the  *)
(* closure that handles its 'close' event outlive the entry.  Connections  *)
(* are numbered in the order in which they are opened.  A control          *)
(* connection per shard carries the operations on users.                   *)
(*                                                                         *)
(* The other side (ControlSocket of master.ts, EngineManager.sendSocket,   *)
(* handleDirectSocket of worker.ts) answers with an engine or with an      *)
(* error, and closes the connection when it likes.                         *)
(***************************************************************************)
EXTENDS Naturals

CONSTANTS User,         \* the users of this front end
          Shard,        \* the shards, each with a master
          MaxConn,      \* bound: direct connections ever opened
          MaxSever,     \* bound: losses of a control connection, per shard
          None          \* no cached engine

ASSUME ClientAssumption ==
    /\ MaxConn \in Nat
    /\ MaxSever \in Nat
    /\ None \notin 1..MaxConn

VARIABLES cached,       \* _cachedEngines
          direct,       \* the direct connections
          opened,       \* how many direct connections were opened
          expectClose,  \* _expectClose
          control,      \* the shards with a control object, _rpcControls
          line,         \* the shards with an open control connection
          reconnects,   \* per shard: 10 s timers that will call _connect
          severed       \* per shard: how often its connection was lost

clientVars == <<cached, direct, opened, expectClose, control, line,
                reconnects, severed>>

Conn == 1..MaxConn

\* promise: what getEngine returned.  line: "ending" when this side or the
\* other has ended the connection, or an error has, and 'close' will follow.
Connection == [user    : User \cup {None},
               promise : {"pending", "engine", "failed"},
               line    : {"none", "open", "ending", "closed"}]

ClientInit ==
    /\ cached = [u \in User |-> None]
    /\ direct = [c \in Conn |->
                    [user |-> None, promise |-> "pending", line |-> "none"]]
    /\ opened = 0
    /\ expectClose = FALSE
    /\ control = {}
    /\ line = Shard
    /\ reconnects = [s \in Shard |-> 0]
    /\ severed = [s \in Shard |-> 0]

controlVars == <<control, line, reconnects, severed>>

-----------------------------------------------------------------------------
\* The connection whose promise getEngine(u) returns.
EngineConn(u) == IF cached[u] # None THEN cached[u] ELSE opened + 1

GetEngine(u) ==
    /\ IF cached[u] # None
       THEN UNCHANGED <<cached, direct, opened>>
       ELSE /\ opened < MaxConn
            /\ opened' = opened + 1
            /\ cached' = [cached EXCEPT ![u] = opened + 1]
            /\ direct' = [direct EXCEPT ![opened + 1] =
                   [user |-> u, promise |-> "pending", line |-> "open"]]
    /\ UNCHANGED <<expectClose, controlVars>>

\* stub.ready(engine, ..)
EngineReady(c) ==
    /\ direct[c].line \in {"open", "ending"}
    /\ direct[c].promise = "pending"
    /\ direct' = [direct EXCEPT ![c].promise = "engine"]
    /\ UNCHANGED <<cached, opened, expectClose, controlVars>>

\* initError, stub.error and 'error' of the socket: whoever reports the
\* error ends the connection.  A promise is settled once.
EngineError(c) ==
    /\ direct[c].line = "open"
    /\ direct' = [direct EXCEPT ![c].line = "ending",
                    ![c].promise = IF @ = "pending" THEN "failed" ELSE @]
    /\ UNCHANGED <<cached, opened, expectClose, controlVars>>

\* A bug to detect: the entry is left in the cache.
CacheAfterClose_Kept(c) == cached

\* _cachedEngines.delete(userId): whatever entry the user has by then.
CacheAfterClose(c) ==
    IF expectClose THEN cached ELSE [cached EXCEPT ![direct[c].user] = None]

\* 'close' of a direct connection.  Its promise may never be settled.
EngineClosed(c) ==
    /\ direct[c].line \in {"open", "ending"}
    /\ direct' = [direct EXCEPT ![c].line = "closed"]
    /\ cached' = CacheAfterClose(c)
    /\ UNCHANGED <<opened, expectClose, controlVars>>

\* The users for whom the 'close' of c emits 'socket-closed'.
ClosedUsers(c) == IF expectClose THEN {} ELSE {direct[c].user}

\* killUser, deleteUser, clearCache, restartUser, restartUserWithoutCache:
\* the entry is forgotten, and its connection is not ended, whether or not
\* there is a control connection to send the operation over.
Forget(u) ==
    /\ cached' = [cached EXCEPT ![u] = None]
    /\ UNCHANGED <<direct, opened, expectClose, controlVars>>

-----------------------------------------------------------------------------
\* The master answers {control: 'master'} with {control: 'ready'}.
ControlReady(s) ==
    /\ s \in line \ control
    /\ control' = control \cup {s}
    /\ UNCHANGED <<cached, direct, opened, expectClose, line, reconnects, severed>>

\* What the 'close' of a control connection leaves.
ControlAfterClose(s) == control \ {s}

ControlClosed(s) ==
    /\ s \in line
    /\ severed[s] < MaxSever \/ expectClose
    /\ line' = line \ {s}
    /\ control' = ControlAfterClose(s)
    /\ IF expectClose
       THEN UNCHANGED <<reconnects, severed>>
       ELSE /\ reconnects' = [reconnects EXCEPT ![s] = @ + 1]
            /\ severed' = [severed EXCEPT ![s] = @ + 1]
    /\ UNCHANGED <<cached, direct, opened, expectClose>>

\* The timer calls _connect, which does nothing while there is a control
\* object; stop() does not cancel it.
Reconnect(s) ==
    /\ reconnects[s] > 0
    /\ reconnects' = [reconnects EXCEPT ![s] = @ - 1]
    /\ line' = IF s \in control THEN line ELSE line \cup {s}
    /\ UNCHANGED <<cached, direct, opened, expectClose, control, severed>>

\* stop() ends the cached connections, and those only.
StopClient ==
    /\ ~expectClose
    /\ expectClose' = TRUE
    /\ direct' = [c \in Conn |->
           IF direct[c].line = "open" /\ \E u \in User : cached[u] = c
           THEN [direct[c] EXCEPT !.line = "ending"] ELSE direct[c]]
    /\ cached' = [u \in User |-> None]
    /\ UNCHANGED <<opened, controlVars>>
=============================================================================
