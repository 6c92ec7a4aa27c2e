------------------------------ MODULE DirectSocket ------------------------------
(***************************************************************************)
(* How a front end reaches an engine on Kubernetes: getEngine() waits      *)
(* until the engine runs, opens a websocket to the worker (worker_k8s.ts)  *)
(* and keeps it in a cache; the worker leads it to the engine that it      *)
(* lists for the user, and ends it when it kills this engine.  Meanwhile   *)
(* other requests open further websockets, engines are killed, fail and    *)
(* are run again, and the worker itself may end.  One user, whose worker   *)
(* stays the same one: what moves users is in Kubernetes.                  *)
(***************************************************************************)
EXTENDS Naturals, Sequences

CONSTANTS Callers,      \* requests of the front end at a time
          MaxEngines, MaxLinks, MaxEngineFaults   \* bounds

ASSUME DirectSocketAssumption == {MaxEngines, MaxLinks, MaxEngineFaults} \subseteq Nat

VARIABLES
    phases,     \* of the engines of the user, in the order they were run
    listed,     \* the one in the worker's map engines, 0 if there is none
    left,       \* those that left the map by an error
    sockets,    \* the websockets, in the order they were opened
    cachedLink, \* the one in _cachedEngines, 0 if there is none
    caller,     \* per request: where it is, and the websocket whose promise it awaits
    engineFaults  \* bound: errors of engines, and ends of the worker

directVars == <<phases, listed, left, sockets, cachedLink, caller, engineFaults>>

Sockets == 1..Len(sockets)

\* One that has just been opened: the control message is under way.
Opened == [stage |-> "asked", answer |-> "none", engine |-> 0, up |-> TRUE]

NoCall == [pc |-> "idle", link |-> 0]

DirectInit ==
    /\ phases = <<>> /\ listed = 0 /\ left = {}
    /\ sockets = <<>> /\ cachedLink = 0
    /\ caller = [r \in Callers |-> NoCall]
    /\ engineFaults = 0

EngineFault == engineFaults < MaxEngineFaults /\ engineFaults' = engineFaults + 1
HasEngine(n) == n # 0 /\ phases[n] \in {"made", "running"}

-----------------------------------------------------------------------------
(* The worker.                                                              *)

RunDirect ==
    /\ listed = 0 /\ Len(phases) < MaxEngines
    /\ phases' = Append(phases, "init")
    /\ listed' = Len(phases) + 1
    /\ UNCHANGED <<left, sockets, cachedLink, caller, engineFaults>>

\* The Engine is made when its platform is ready, and runs when it is open.
EngineGoesOn(n) ==
    /\ n = listed
    /\ phases' = [phases EXCEPT ![n] = IF @ = "init" THEN "made" ELSE "running"]
    /\ phases[n] # "running"
    /\ UNCHANGED <<listed, left, sockets, cachedLink, caller, engineFaults>>

\* An error takes the user's entry off, whichever engine that is by now.
FatalError(n) ==
    /\ EngineFault
    /\ phases[n] \notin {"failed", "over"}
    /\ phases' = [phases EXCEPT ![n] = "failed"]
    /\ listed' = 0
    /\ left' = left \cup ({n, listed} \ {0})
    /\ UNCHANGED <<sockets, cachedLink, caller>>

\* The sockets of an engine, and a bug to detect: one is added when the front
\* end has taken the engine.
SocketsOf_Taken(n) == {c \in Sockets : sockets[c].engine = n /\ sockets[c].stage = "taken"}
SocketsOf(n) == {c \in Sockets : sockets[c].engine = n}

Ended(cs) == [c \in Sockets |-> IF c \in cs THEN [sockets[c] EXCEPT !.up = FALSE] ELSE sockets[c]]

KillDirect ==
    /\ listed # 0
    /\ sockets' = IF HasEngine(listed) THEN Ended(SocketsOf(listed)) ELSE sockets
    /\ listed' = 0
    /\ UNCHANGED <<phases, left, cachedLink, caller, engineFaults>>

\* An engine that was killed stops after a while, with no error.
StopDirect(n) ==
    /\ n # listed /\ phases[n] \notin {"failed", "over"}
    /\ phases' = [phases EXCEPT ![n] = "over"]
    /\ UNCHANGED <<listed, left, sockets, cachedLink, caller, engineFaults>>

\* handleDirectSocket: without an engine the socket is ended after the error.
HandleDirectSocket(c) ==
    /\ sockets[c].stage = "asked" /\ sockets[c].up
    /\ sockets' = [sockets EXCEPT ![c] =
                    IF HasEngine(listed)
                    THEN [@ EXCEPT !.stage = "answered", !.answer = "ready", !.engine = listed]
                    ELSE [@ EXCEPT !.stage = "answered", !.answer = "error", !.up = FALSE]]
    /\ UNCHANGED <<phases, listed, left, cachedLink, caller, engineFaults>>

\* By a signal, which ends every socket, or by a crash, after which answers on
\* their way do not arrive.
WorkerEnds(crash) ==
    /\ EngineFault
    /\ phases' = [n \in DOMAIN phases |-> "over"]
    /\ listed' = 0
    /\ sockets' = [c \in Sockets |->
                      IF crash /\ sockets[c].stage = "answered"
                      THEN [Opened EXCEPT !.up = FALSE] ELSE Ended(Sockets)[c]]
    /\ UNCHANGED <<left, cachedLink, caller>>

-----------------------------------------------------------------------------
(* The front end.                                                           *)

CallGetEngine(r) ==
    /\ caller[r].pc = "idle"
    /\ caller' = [caller EXCEPT ![r] = IF cachedLink # 0 THEN [pc |-> "awaits", link |-> cachedLink]
                                       ELSE [@ EXCEPT !.pc = "waiting"]]
    /\ UNCHANGED <<phases, listed, left, sockets, cachedLink, engineFaults>>

\* waitForUser and waitForEngine: until the engine runs, or no longer than 10 s.
WaitForEngine(r) ==
    /\ caller[r].pc = "waiting"
    /\ \/ /\ listed # 0 /\ phases[listed] = "running"
          /\ caller' = [caller EXCEPT ![r].pc = "polled"]
       \/ caller' = [caller EXCEPT ![r] = NoCall]
    /\ UNCHANGED <<phases, listed, left, sockets, cachedLink, engineFaults>>

\* The cache now holds this websocket, whatever it held.
ConnectDirect(r) ==
    /\ caller[r].pc = "polled" /\ Len(sockets) < MaxLinks
    /\ sockets' = Append(sockets, Opened)
    /\ cachedLink' = Len(sockets) + 1
    /\ caller' = [caller EXCEPT ![r] = [pc |-> "awaits", link |-> Len(sockets) + 1]]
    /\ UNCHANGED <<phases, listed, left, engineFaults>>

\* ready or error: the promise is settled.
TakeAnswer(c) ==
    /\ sockets[c].stage = "answered"
    /\ sockets' = [sockets EXCEPT ![c].stage = "taken"]
    /\ UNCHANGED <<phases, listed, left, cachedLink, caller, engineFaults>>

\* onError, once for each websocket, takes off the user's entry.
Uncached(c) == 0

\* What was sent before the end arrives before it.
LinkCloses(c) ==
    /\ ~sockets[c].up /\ sockets[c].stage \in {"asked", "taken"}
    /\ sockets' = [sockets EXCEPT ![c].stage = "closed"]
    /\ cachedLink' = Uncached(c)
    /\ UNCHANGED <<phases, listed, left, caller, engineFaults>>

\* The promise of a websocket that was closed with no answer and no error is
\* never settled, and then this request is not answered.
GetEngineReturns(r) ==
    /\ caller[r].pc = "awaits" /\ sockets[caller[r].link].stage \in {"taken", "closed"}
    /\ caller' = [caller EXCEPT ![r] = IF sockets[@.link].answer = "ready" THEN [@ EXCEPT !.pc = "calls"]
                                       ELSE NoCall]
    /\ UNCHANGED <<phases, listed, left, sockets, cachedLink, engineFaults>>

\* dispatchWebhook: the engine handles the callback and this is answered; or the
\* websocket closes, and so do the calls over it, with an error.
HandleCallback(r) ==
    /\ caller[r].pc = "calls"
    /\ sockets[caller[r].link].up \/ sockets[caller[r].link].stage = "closed"
    /\ caller' = [caller EXCEPT ![r] = NoCall]
    /\ UNCHANGED <<phases, listed, left, sockets, cachedLink, engineFaults>>

DirectNext ==
    \/ RunDirect \/ KillDirect
    \/ \E crash \in BOOLEAN : WorkerEnds(crash)
    \/ \E n \in DOMAIN phases : EngineGoesOn(n) \/ FatalError(n) \/ StopDirect(n)
    \/ \E c \in Sockets : HandleDirectSocket(c) \/ TakeAnswer(c) \/ LinkCloses(c)
    \/ \E r \in Callers : \/ CallGetEngine(r) \/ WaitForEngine(r)
                          \/ ConnectDirect(r) \/ GetEngineReturns(r)
                          \/ HandleCallback(r)

DirectSpec == DirectInit /\ [][DirectNext]_directVars

-----------------------------------------------------------------------------
DirectTypeOK ==
    /\ phases \in Seq({"init", "made", "running", "failed", "over"})
    /\ {listed, cachedLink} \subseteq Nat /\ left \subseteq Nat
    /\ sockets \in Seq([stage : {"asked", "answered", "taken", "closed"}, up : BOOLEAN,
                      answer : {"none", "ready", "error"}, engine : Nat])
    /\ caller \in [Callers -> [pc : {"idle", "waiting", "polled", "awaits", "calls"}, link : Nat]]

\* enginemanagerclient_k8s.ts getEngine, worker_k8s.ts handleDirectSocket: the
\* websocket in the cache leads to the engine that the worker lists, or its end
\* is on the way, so that calls never go to an engine that was killed - though
\* requests open websockets while engines are killed and run again, and each
\* websocket takes off whichever entry is there.  An engine that failed is let
\* off: the worker takes it off its map and leaves its sockets open.
CacheLeadsToListed ==
    cachedLink # 0 =>
        LET link == sockets[cachedLink]
        IN  /\ link.stage # "closed"
            /\ link.up /\ link.answer = "ready" => link.engine \in {listed} \cup left
================================================================================
