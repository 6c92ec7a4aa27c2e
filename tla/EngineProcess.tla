---------------------------- MODULE EngineProcess ----------------------------
(***************************************************************************)
(* class EngineProcess of src/almond/enginemanager.ts, with the listener   *)
(* that restarts shared processes and the parts of EngineManager (stop,    *)
(* killAllUsers) that act on processes alone.                              *)
(*                                                                         *)
(* An EngineProcess object outlives the operating-system processes it      *)
(* spawns.  The n-th call of start() spawns child n; everything the object *)
(* remembers (_child, _rpcSocket, _starting, _deadPromise, _dyingTimeout)  *)
(* is a number that says of which child or of which kill() it speaks, and  *)
(* the closures of older children and older kills are still there and act  *)
(* on the same object.  One record holds one object and its children:      *)
(*                                                                         *)
(*   child     _child: the child it refers to, 0 for null                  *)
(*   rpc       _rpcSocket: the child it talks to, 0 for null               *)
(*   starting  _starting: the attempt whose promise it holds, 0 for null   *)
(*   hadExit   _hadExit                                                    *)
(*   delaying  the timer of restart() is running                           *)
(*   spawned   how often start() ran                                       *)
(*   os        per child: what the operating system and IPC channel show   *)
(*   asked     per child: the strongest request to die that it was sent    *)
(*   attempt   per child: the promise start() returned                     *)
(*   handled   per attempt: somebody handles a rejection of its promise    *)
(*   kills     how often kill() found a child                              *)
(*   dead      per kill: its _deadPromise                                  *)
(*   timer     per kill: its 30 s timeout is running                       *)
(*   watched   per kill: somebody handles a rejection of its _deadPromise  *)
(*                                                                         *)
(* The events of one turn of the Node.js event loop are one step.          *)
(***************************************************************************)
EXTENDS Naturals

CONSTANTS Proc,         \* the EngineProcess objects
          SharedProc,   \* those that hold many users (cloudId = null)
          MaxSpawn,     \* bound: children per object
          MaxKill       \* bound: effective calls of kill() per object

ASSUME ProcessAssumption ==
    /\ SharedProc \subseteq Proc
    /\ MaxSpawn \in Nat \ {0}
    /\ MaxKill \in Nat \ {0}

VARIABLES proc,         \* the record of each object
          registered,   \* the objects listed in EngineManager._processes
          stopped,      \* EngineManager._stopped
          master,       \* the process that runs EngineManager
          stopWaits     \* per object: the kill whose _deadPromise stop() awaits

processVars == <<proc, registered, stopped, master, stopWaits>>

Child   == 1..MaxSpawn
Attempt == 1..MaxSpawn + 1
Kill    == 1..MaxKill

Process == [child    : 0..MaxSpawn,
            rpc      : 0..MaxSpawn,
            starting : 0..MaxSpawn + 1,
            hadExit  : BOOLEAN,
            delaying : BOOLEAN,
            spawned  : 0..MaxSpawn,
            os       : [Child -> {"none", "booting", "ready", "adrift", "dead"}],
            asked    : [Child -> {"no", "term", "kill"}],
            attempt  : [Attempt -> {"pending", "ready", "failed"}],
            handled  : [Attempt -> BOOLEAN],
            kills    : 0..MaxKill,
            dead     : [Kill -> {"none", "pending", "resolved", "rejected"}],
            timer    : [Kill -> BOOLEAN],
            watched  : [Kill -> BOOLEAN]]

\* constructor().  The first start() is called by code that waits for it.
NewProcess == [child    |-> 0,
               rpc      |-> 0,
               starting |-> 0,
               hadExit  |-> FALSE,
               delaying |-> FALSE,
               spawned  |-> 0,
               os       |-> [n \in Child |-> "none"],
               asked    |-> [n \in Child |-> "no"],
               attempt  |-> [n \in Attempt |-> "pending"],
               handled  |-> [n \in Attempt |-> n = 1],
               kills    |-> 0,
               dead     |-> [k \in Kill |-> "none"],
               timer    |-> [k \in Kill |-> FALSE],
               watched  |-> [k \in Kill |-> FALSE]]

Connected(r, n) == r.os[n] \in {"booting", "ready"}
Alive(r, n)     == r.os[n] \in {"booting", "ready", "adrift"}
\* A child that is there to run engines: connected, and not told to die.
Serving(r, n)   == Connected(r, n) /\ r.asked[n] = "no"

-----------------------------------------------------------------------------
(* What the methods and the event handlers do to one object.  `again` says  *)
(* that the 'exit' event of the object makes it restart, which is so for    *)
(* shared processes while EngineManager is not stopped.                     *)

\* start(): child, socket and promise are all replaced.
Started(r) ==
    LET n == r.spawned + 1
    IN  [r EXCEPT !.child = n, !.rpc = n, !.starting = n, !.spawned = n,
                  !.delaying = FALSE, !.os[n] = "booting"]

\* restart(5000), up to the delay.
Restarted(r) ==
    [r EXCEPT !.child = 0, !.rpc = 0, !.starting = r.spawned + 1,
              !.delaying = TRUE]

\* this._hadExit = true; this.emit('exit')
ExitEmitted(r, again) ==
    LET s == [r EXCEPT !.hadExit = TRUE]
    IN  IF again THEN Restarted(s) ELSE s

\* 'message' {type: 'ready'} from child n, be it the current one or not.
BecameReady(r, n) ==
    [r EXCEPT !.os[n] = "ready", !.starting = 0, !.attempt[n] = "ready"]

\* 'error' from a child that could not be spawned: no 'exit' will follow.
SpawnFailed(r, n) ==
    [r EXCEPT !.os[n] = "dead", !.attempt[n] = "failed"]

\* 'disconnect' from child n, which lives on without a channel.
Disconnected(r, n, again) ==
    LET s == [r EXCEPT !.os[n] = "adrift"]
    IN  IF r.hadExit THEN s ELSE ExitEmitted(s, again)

\* A bug to detect: the handler clears the timer and resolves nothing.
ChildGone_Unresolved(r, n, again) ==
    LET s == [r EXCEPT
                !.os[n] = "dead",
                !.child = 0,
                !.attempt[n] = IF @ = "pending" THEN "failed" ELSE @,
                !.timer = [k \in Kill |-> @[k] /\ k # r.kills]]
    IN  IF r.hadExit THEN s ELSE ExitEmitted(s, again)

\* 'exit' from child n: whichever child it was, the object forgets _child,
\* clears the timer of the last kill and resolves its promise.
ChildGone(r, n, again) ==
    LET s == [r EXCEPT
                !.os[n] = "dead",
                !.child = 0,
                !.attempt[n] = IF @ = "pending" THEN "failed" ELSE @,
                !.timer = [k \in Kill |-> @[k] /\ k # r.kills],
                !.dead = [k \in Kill |-> IF k = r.kills /\ @[k] = "pending"
                                         THEN "resolved" ELSE @[k]]]
    IN  IF r.hadExit THEN s ELSE ExitEmitted(s, again)

\* A bug to detect: kill() tells everybody but the child.
Killed_Unsent(r, sandboxed, isWatched, again) ==
    IF r.child = 0 THEN r
    ELSE LET k == r.kills + 1
         IN  ExitEmitted([r EXCEPT !.kills = k,
                                   !.dead[k] = "pending",
                                   !.timer[k] = TRUE,
                                   !.watched[k] = isWatched], again)

\* kill().  A sandboxed child is asked over its channel; if it has none,
\* SIGTERM does not reach it.
Killed(r, sandboxed, isWatched, again) ==
    IF r.child = 0 THEN r
    ELSE LET k == r.kills + 1
             reaches == ~sandboxed \/ Connected(r, r.child)
             s == [r EXCEPT
                     !.kills = k,
                     !.dead[k] = "pending",
                     !.timer[k] = TRUE,
                     !.watched[k] = isWatched,
                     !.asked[r.child] = IF reaches /\ @ = "no" THEN "term" ELSE @]
         IN  ExitEmitted(s, again)

\* The timeout of kill k: SIGKILL to the child the object has now.
TimedOut(r, k) ==
    [r EXCEPT !.timer[k] = FALSE,
              !.asked = [n \in Child |-> IF n = r.child /\ Alive(r, n)
                                      THEN "kill" ELSE @[n]],
              !.dead[k] = IF @ = "pending" THEN "rejected" ELSE @]

-----------------------------------------------------------------------------
(* The actions.  RestartsOnExit is the listener that _startSharedProcesses  *)
(* attaches; a rejected promise that nobody handles makes the               *)
(* unhandledRejection handler of main.ts throw, which ends the master.      *)

Sandboxed(p)      == p \notin SharedProc
RestartsOnExit(p) == p \in SharedProc /\ ~stopped

\* The promise of stop() is settled, by the last process that died or by the
\* first that did not in time.
DeadOf(p) == proc[p].dead[stopWaits[p]]
StopSettled ==
    /\ stopped
    /\ \/ \A p \in Proc : stopWaits[p] # 0 => DeadOf(p) = "resolved"
       \/ \E p \in Proc : stopWaits[p] # 0 /\ DeadOf(p) = "rejected"

\* An event is handled while the master is up and no promise job is left.
Up == master = "up" /\ ~StopSettled

Init == /\ proc = [p \in Proc |-> IF p \in SharedProc THEN Started(NewProcess)
                                                      ELSE NewProcess]
        /\ registered = SharedProc
        /\ stopped = FALSE
        /\ master = "up"
        /\ stopWaits = [p \in Proc |-> 0]

Set(p, r) == proc' = [proc EXCEPT ![p] = r]

\* _findProcessForUser for a user with a process of its own: the object is
\* registered, started, and its start is awaited.
StartSeparate(p) ==
    /\ Up
    /\ p \in Proc \ SharedProc
    /\ proc[p].spawned = 0
    /\ Set(p, Started(proc[p]))
    /\ registered' = registered \cup {p}
    /\ UNCHANGED <<stopped, master, stopWaits>>

\* waitReady() waits for the promise that _starting is.  During the delay of
\* restart() that is the promise restart() has made, which takes over that of
\* start(): from then on a rejection is handled.  After the delay it is that of
\* start(), and nobody has the other one, which the caller of restart() dropped.
WaitReady(p) ==
    /\ Up
    /\ p \in SharedProc
    /\ proc[p].starting # 0
    /\ Set(p, [proc[p] EXCEPT !.handled[proc[p].starting] = @ \/ proc[p].delaying])
    /\ UNCHANGED <<registered, stopped, master, stopWaits>>

ChildReady(p, n) ==
    /\ Up
    /\ proc[p].os[n] = "booting"
    /\ Set(p, BecameReady(proc[p], n))
    /\ UNCHANGED <<registered, stopped, master, stopWaits>>

\* What the failure of attempt n does to the master: start() of the shared
\* processes is awaited by EngineManager.start(), whose failure ends the
\* master with code 1; nobody may be waiting for a restart.
MasterAfterFailure(p, n) ==
    IF proc[p].attempt[n] # "pending" THEN master
    ELSE IF p \in SharedProc /\ n = 1 THEN "exited"
    ELSE IF ~proc[p].handled[n] THEN "crashed"
    ELSE master

ChildError(p, n) ==
    /\ Up
    /\ proc[p].os[n] = "booting"
    /\ proc[p].asked[n] = "no"
    /\ Set(p, SpawnFailed(proc[p], n))
    /\ master' = MasterAfterFailure(p, n)
    /\ UNCHANGED <<registered, stopped, stopWaits>>

\* 'exit' is emitted unless it was before; a separate process is then
\* taken off the list.
Unregister(p) ==
    registered' = IF ~proc[p].hadExit /\ p \notin SharedProc
                  THEN registered \ {p} ELSE registered

ChildDisconnect(p, n) ==
    /\ Up
    /\ Connected(proc[p], n)
    /\ Set(p, Disconnected(proc[p], n, RestartsOnExit(p)))
    /\ Unregister(p)
    /\ UNCHANGED <<stopped, master, stopWaits>>

ChildExit(p, n) ==
    /\ Up
    /\ Alive(proc[p], n)
    /\ Set(p, ChildGone(proc[p], n, RestartsOnExit(p)))
    /\ Unregister(p)
    /\ master' = MasterAfterFailure(p, n)
    /\ UNCHANGED <<stopped, stopWaits>>

\* restart(): the delay is over.
DelayElapsed(p) ==
    /\ Up
    /\ proc[p].delaying
    /\ proc[p].spawned < MaxSpawn
    /\ Set(p, Started(proc[p]))
    /\ UNCHANGED <<registered, stopped, master, stopWaits>>

CanKill(p) == proc[p].child = 0 \/ proc[p].kills < MaxKill

\* killEngine() of the one user of a separate process, which EngineManager
\* knows once its start() has returned: nobody looks at the _deadPromise.
KillOne(p) ==
    /\ Up
    /\ p \in registered \ SharedProc
    /\ proc[p].attempt[1] = "ready"
    /\ CanKill(p)
    /\ Set(p, Killed(proc[p], Sandboxed(p), FALSE, FALSE))
    /\ registered' = registered \ {p}
    /\ UNCHANGED <<stopped, master, stopWaits>>

\* killAllUsers(): kill() and waitDead() on every listed object.  A separate
\* process whose child is there emits 'exit' and leaves the list.
KilledAll(halting) ==
    [p \in Proc |->
        IF p \in registered
        THEN Killed(proc[p], Sandboxed(p), TRUE, p \in SharedProc /\ ~halting)
        ELSE proc[p]]

KillAll(halting) ==
    /\ \A p \in registered : CanKill(p)
    /\ proc' = KilledAll(halting)
    /\ registered' = {p \in registered : p \in SharedProc \/ proc[p].child = 0}

KillAllUsers ==
    /\ Up
    /\ KillAll(stopped)
    /\ UNCHANGED <<stopped, master, stopWaits>>

Stop ==
    /\ Up
    /\ ~stopped
    /\ stopped' = TRUE
    /\ KillAll(TRUE)
    /\ stopWaits' = [p \in Proc |-> IF p \in registered
                                    THEN proc'[p].kills ELSE 0]
    /\ UNCHANGED master

\* master.ts: the process exits as soon as EngineManager.stop() returns.
MasterExit ==
    /\ master = "up"
    /\ StopSettled
    /\ master' = "exited"
    /\ UNCHANGED <<proc, registered, stopped, stopWaits>>

DyingTimeout(p, k) ==
    /\ Up
    /\ proc[p].timer[k]
    /\ Set(p, TimedOut(proc[p], k))
    /\ master' = IF proc[p].dead[k] = "pending" /\ ~proc[p].watched[k]
                 THEN "crashed" ELSE master
    /\ UNCHANGED <<registered, stopped, stopWaits>>

ChildEvent(p, n) == \/ ChildReady(p, n) \/ ChildError(p, n)
                    \/ ChildDisconnect(p, n) \/ ChildExit(p, n)

Next == \/ \E p \in Proc : \/ StartSeparate(p) \/ WaitReady(p)
                            \/ DelayElapsed(p) \/ KillOne(p)
        \/ \E p \in Proc, n \in Child : ChildEvent(p, n)
        \/ \E p \in Proc, k \in Kill : DyingTimeout(p, k)
        \/ KillAllUsers
        \/ Stop
        \/ MasterExit

Spec == Init /\ [][Next]_processVars

\* Timers fire, a settled stop() continues, the kernel carries out SIGKILL,
\* and a worker that closed its channel is in its last call, process.exit().
\* A worker that was only asked to exit may hang, and no worker has to become
\* ready.  Each kind of event happens finitely often, so that fairness to the
\* kind is fairness to every event of it.
Fairness ==
    /\ WF_processVars(\E p \in Proc : DelayElapsed(p))
    /\ WF_processVars(\E p \in Proc, k \in Kill : DyingTimeout(p, k))
    /\ WF_processVars(\E p \in Proc, n \in Child :
          /\ proc[p].asked[n] = "kill" \/ proc[p].os[n] = "adrift"
          /\ ChildExit(p, n))
    /\ WF_processVars(MasterExit)

FairSpec == Spec /\ Fairness

-----------------------------------------------------------------------------
TypeOK == /\ proc \in [Proc -> Process]
          /\ registered \subseteq Proc
          /\ stopped \in BOOLEAN
          /\ master \in {"up", "exited", "crashed"}
          /\ stopWaits \in [Proc -> 0..MaxKill]

\* However kills, crashes, restarts and late events of old children mix, an
\* object never has two workers that both believe they are in service: the
\* users of a shared process could otherwise have an engine in each.
OneServingChild ==
    \A p \in Proc : \A m, n \in Child :
        Serving(proc[p], m) /\ Serving(proc[p], n) => m = n

\* The first loss of a shared worker, by crash, by a closed channel or by
\* kill(), always leaves a restart behind it (later losses need not: see
\* the findings of EngineManager).
FirstLossRestarts ==
    \A p \in SharedProc :
        /\ master = "up" /\ ~stopped
        /\ proc[p].spawned = 1
        /\ ~Serving(proc[p], 1)
        => proc[p].delaying

\* For a process that is never restarted, a resolved _deadPromise means that
\* the child is dead.
SeparateDeadIsDead ==
    \A p \in Proc \ SharedProc :
        (\E k \in Kill : proc[p].dead[k] = "resolved")
            => \A n \in Child : ~Alive(proc[p], n)

\* waitDead() always returns: a kill is settled by the exit of the child or
\* by its timeout, also when a later kill replaces _deadCallback.  A settled
\* kill stays settled, and kills are few, so that all can be waited for.
KillPending == \E p \in Proc, k \in Kill : proc[p].dead[k] = "pending"
EveryKillSettles == KillPending ~> (~KillPending \/ master # "up")

=============================================================================
