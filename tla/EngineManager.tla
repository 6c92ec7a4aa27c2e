---------------------------- MODULE EngineManager ----------------------------
(***************************************************************************)
(* class EngineManager of src/almond/enginemanager.ts, with the part of    *)
(* src/almond/worker.ts that runs and kills engines on its behalf.         *)
(*                                                                         *)
(* The master keeps one entry per user in _engines, and one lock per user  *)
(* in _locks.  An operation (startUser, killUser, ...) is an asynchronous  *)
(* call chain; it is modelled as a request that walks through the stages   *)
(* of its plan, one stage per await:                                       *)
(*                                                                         *)
(*   lock     await this._lockUser(userId)                                 *)
(*   kill     _killUserLocked, up to the call of the worker                *)
(*   path     _getUserCloudIdForPath, which also kills but does not wait   *)
(*   lookup   the database query of _getUserCloudIdForPath                 *)
(*   rm       /bin/rm -rf of the user's data or cache                      *)
(*   row      the database query of _startUserLocked                       *)
(*   process  _runUser, waiting for the process it found                   *)
(*   reply    a call of the worker is under way                            *)
(*   release  finally { releaseLock() }                                    *)
(*                                                                         *)
(* An EngineProxy object belongs to the request whose _runUser made it and *)
(* is named by it, and so is the EngineProcess of a user who gets one of   *)
(* his own.  The requests that start() makes for the users in the database *)
(* are named by their users.  Continuations of settled promises run before *)
(* the next event: an event is handled only when no request is Runnable.   *)
(* Calls to and replies from one worker are delivered in order.  The per-  *)
(* user lock is the first-come first-served lock that module Lock          *)
(* implements.  No database proxy is configured (DATABASE_PROXY_URL), so   *)
(* that runEngine() calls the worker in the turn in which it is called.    *)
(***************************************************************************)
EXTENDS EngineProcess, Sequences, FiniteSets

CONSTANTS User,          \* the users of this shard
          Slot,          \* the requests that may arrive, each once
          TimerSlot,     \* the requests that 10 s timers may make, each once
          Scenes,        \* what the master is put through, see Scene
          RoundRobin,    \* _rrproc, a sequence of the shared processes
          None           \* null, for entries and processes

Req == Slot \cup TimerSlot \cup User

(* A scene says what the rows of the users ask for at first, which          *)
(* operations are called, and what may happen around the master:            *)
(* arriveAtBoot  operations arrive before start() has returned              *)
(* killAll       killAllUsers is called                                     *)
(* killBooting   ... also while a worker is booting                         *)
(* timers        the 10 s timers of die() fire                              *)
(* stop          the master is told to stop                                 *)
(* editRows      the website edits and deletes the users' rows              *)
(* lose          workers crash or lose their channel                        *)
(* loseBusy      ... also while they have a call to answer                  *)
Events == {"arriveAtBoot", "killAll", "killBooting", "timers", "stop",
           "editRows", "lose", "loseBusy"}
Operations == {"startUser", "killUser", "restartUser", "deleteUser",
               "clearCache", "restartUserWithoutCache"}

ASSUME ManagerAssumption ==
    /\ Proc = SharedProc \cup Req
    /\ SharedProc \cap Req = {}
    /\ User \cap Slot = {} /\ TimerSlot \cap (User \cup Slot) = {}
    /\ None \notin Proc
    /\ RoundRobin \in Seq(SharedProc) /\ RoundRobin # <<>>
    /\ \A s \in Scenes :
          /\ s.rows \subseteq [User -> {"shared", "separate", "absent"}]
          /\ s.kinds \subseteq Operations /\ s.may \subseteq Events

VARIABLES engines,       \* _engines: per user the current entry, or None
          objProcess,    \* per entry: its process, None until it is known
          listening,     \* the entries whose die and onRemoved are attached
          locks,         \* per user: the lock objects _locks has held, the
                         \* current one last, each the queue of its requests
          nextProcess,   \* _nextProcess
          restarts,      \* per user: 10 s timers that will call restartUser
          req,           \* the requests
          calls,         \* per worker: the calls of it under way, oldest first
          engine,        \* per entry: its engine, in the worker
          row,           \* per user: the database row
          booted,        \* start() has its processes and its rows
          bootLeft,      \* the users that start() has read and not yet run
          scene          \* the scene of this behaviour

managerVars == <<engines, objProcess, listening, locks, nextProcess, restarts,
                 req, calls, engine, row, booted, bootLeft, scene>>
allVars == <<processVars, managerVars>>

\* A bug to detect: restartUser does not start the engine again.
Plan_RestartKillsOnly ==
    [startUser   |-> <<"lock", "row", "process", "release">>,
     killUser    |-> <<"lock", "kill", "release">>,
     restartUser |-> <<"lock", "kill", "release">>,
     deleteUser  |-> <<"lock", "kill", "path", "rm", "release">>,
     clearCache  |-> <<"lock", "path", "rm", "release">>]

Plan == [startUser |-> <<"lock", "row", "process", "release">>,
         killUser  |-> <<"lock", "kill", "release">>,
         restartUser |-> <<"lock", "kill", "row", "process", "release">>,
         deleteUser  |-> <<"lock", "kill", "path", "rm", "release">>,
         clearCache  |-> <<"lock", "path", "rm", "release">>,
         restartUserWithoutCache |->
             <<"lock", "kill", "path", "rm", "row", "process", "release">>]

\* todo: the stages left.  lock: which of the user's lock objects it queues
\* at.  target, attempt: the process it waits for and the promise of it.
\* auto: nobody handles its failure.
NoRequest == [kind |-> "none", user |-> None, todo |-> <<>>, lock |-> 0,
              target |-> None, attempt |-> 0, auto |-> FALSE, failed |-> FALSE]

\* An engine is mapped while the worker's _engines points at it; a second
\* runEngine for the user leaves the first one running and unmapped.
NoEngine == [state |-> "none", proc |-> None, child |-> 0]

ManagerInit ==
    /\ Init
    /\ engines = [u \in User |-> None]
    /\ objProcess = [r \in Req |-> None]
    /\ listening = {}
    /\ locks = [u \in User |-> <<<<>>>>]
    /\ nextProcess = 1
    /\ restarts = [u \in User |-> 0]
    /\ req = [r \in Req |-> NoRequest]
    /\ calls = [p \in Proc |-> [n \in Child |-> <<>>]]
    /\ engine = [r \in Req |-> NoEngine]
    /\ scene \in Scenes
    /\ row \in scene.rows
    /\ booted = FALSE
    /\ bootLeft = {}

-----------------------------------------------------------------------------
Stage(r) == IF req[r].todo = <<>> THEN "none" ELSE Head(req[r].todo)
Queue(r) == locks[req[r].user][req[r].lock]
Settled(r) == req[r].attempt # 0 =>
                  proc[req[r].target].attempt[req[r].attempt] # "pending"

\* The requests that have a promise job to run.
Runnable(r) == \/ Stage(r) \in {"kill", "path", "release"}
               \/ Stage(r) = "lock" /\ Head(Queue(r)) = r
               \/ Stage(r) = "process" /\ Settled(r)

Quiet == /\ Up
         /\ \A r \in Req : ~Runnable(r)
         /\ bootLeft = {}

\* isRunning(userId)
IsRunning(u) == engines[u] # None /\ objProcess[engines[u]] # None

\* A call of child n of p.
Send(p, n, c) == calls' = [calls EXCEPT ![p][n] = Append(@, c)]

Advance(r) == req' = [req EXCEPT ![r].todo = Tail(@)]
Fail(r)    == req' = [req EXCEPT ![r].todo = <<"release">>, ![r].failed = TRUE]

\* The listeners of the 'exit' event of the processes in P.
Listeners(P) == {e \in listening : objProcess[e] \in P}

\* die(manual) of every entry in E.  Only the current entry of a user leaves
\* _engines, and only the loss of a shared process that nobody asked for sets
\* the timer that restarts the user.
Die(E, manual) ==
    /\ listening' = listening \ E
    /\ engines' = [u \in User |-> IF engines[u] \in E THEN None ELSE engines[u]]
    /\ restarts' = [u \in User |->
           IF /\ engines[u] \in E
              /\ objProcess[engines[u]] \in SharedProc
              /\ ~manual /\ ~stopped
           THEN restarts[u] + 1 ELSE restarts[u]]

NobodyDies == UNCHANGED <<listening, engines, restarts>>

\* emit('engine-removed', u) on process p: onRemoved of the user's entries.
EngineRemoved(u, p) ==
    Die({e \in Listeners({p}) : req[e].user = u}, TRUE)

-----------------------------------------------------------------------------
(* What happens to processes.                                               *)

WorkerReady(p, n) ==
    /\ Quiet
    /\ ChildReady(p, n)
    /\ UNCHANGED managerVars

WorkerError(p, n) ==
    /\ Quiet
    /\ "lose" \in scene.may
    /\ ChildError(p, n)
    /\ UNCHANGED managerVars

\* The channel of child n of p is gone: calls under way are never settled,
\* and the first such event of p is its 'exit' event.
WorkerLost(p, n) ==
    /\ Quiet
    /\ "lose" \in scene.may \/ proc[p].asked[n] # "no"
    /\ calls[p][n] # <<>> => "loseBusy" \in scene.may
    /\ ChildDisconnect(p, n) \/ ChildExit(p, n)
    /\ calls' = [calls EXCEPT ![p][n] = <<>>]
    /\ IF proc[p].hadExit THEN NobodyDies ELSE Die(Listeners({p}), FALSE)
    /\ UNCHANGED <<objProcess, locks, nextProcess, req, engine, row, booted, bootLeft, scene>>

ProcessTimer(p) ==
    /\ Quiet
    /\ DelayElapsed(p) \/ \E k \in Kill : DyingTimeout(p, k)
    /\ UNCHANGED managerVars

\* killAllUsers() and stop(): each listed process that has a child emits
\* 'exit' with manual = true.
KillEveryone ==
    /\ Quiet
    /\ \/ /\ "killAll" \in scene.may
          /\ \A p \in registered, n \in Child :
             proc[p].os[n] = "booting" => "killBooting" \in scene.may
          /\ KillAllUsers
       \/ "stop" \in scene.may /\ Stop
    /\ Die(Listeners({p \in registered : proc[p].child # 0}), TRUE)
    /\ UNCHANGED <<objProcess, locks, nextProcess, req, calls, engine, row, booted, bootLeft, scene>>

ManagerExit == MasterExit /\ UNCHANGED managerVars

-----------------------------------------------------------------------------
(* What happens to requests.                                                *)

Enqueue(r, kind, u, auto) ==
    LET g == Len(locks[u])
    IN  /\ req' = [req EXCEPT ![r] =
              [NoRequest EXCEPT !.kind = kind, !.user = u, !.todo = Plan[kind],
                                !.lock = g, !.auto = auto]]
        /\ locks' = [locks EXCEPT ![u][g] = Append(@, r)]

BootDone == booted /\ \A u \in User : req[u].todo = <<>>

\* An operation is called over the control socket.
Arrive(r, kind, u) ==
    /\ Quiet
    /\ BootDone \/ "arriveAtBoot" \in scene.may
    /\ req[r].kind = "none"
    /\ Enqueue(r, kind, u, FALSE)
    /\ UNCHANGED <<processVars, engines, objProcess, listening, nextProcess,
                   restarts, calls, engine, row, booted, bootLeft, scene>>

\* The 10 s timer of die(): restartUser, whose failure nobody handles.
RestartTimer(r, u) ==
    /\ Quiet
    /\ "timers" \in scene.may
    /\ restarts[u] > 0
    /\ req[r].kind = "none"
    /\ restarts' = [restarts EXCEPT ![u] = @ - 1]
    /\ Enqueue(r, "restartUser", u, TRUE)
    /\ UNCHANGED <<processVars, engines, objProcess, listening, nextProcess,
                   calls, engine, row, booted, bootLeft, scene>>

\* A promise job of r runs, at stage s.
Job(r, s) == master = "up" /\ Stage(r) = s /\ Runnable(r)

TakeLock(r) ==
    /\ Job(r, "lock")
    /\ Advance(r)
    /\ UNCHANGED <<processVars, engines, objProcess, listening, locks,
                   nextProcess, restarts, calls, engine, row, booted, bootLeft, scene>>

\* _killUserLocked and _getUserCloudIdForPath when no process is known.
\* Without an entry the path has to be looked up in the database.
KillNobody(r, s) ==
    LET u == req[r].user
    IN  /\ Job(r, s)
        /\ ~IsRunning(u)
        /\ IF s = "path" /\ engines[u] = None
           THEN req' = [req EXCEPT ![r].todo = <<"lookup">> \o Tail(@)]
           ELSE Advance(r)
        /\ UNCHANGED <<processVars, engines, objProcess, listening, locks,
                       nextProcess, restarts, calls, engine, row, booted, bootLeft, scene>>

\* killEngine() of a separate process kills the process.
KillSeparate(r, s) ==
    LET u == req[r].user
        p == objProcess[engines[u]]
    IN  /\ Job(r, s)
        /\ IsRunning(u)
        /\ p \notin SharedProc
        /\ CanKill(p)
        /\ Set(p, Killed(proc[p], Sandboxed(p), FALSE, FALSE))
        /\ IF proc[p].child = 0
           THEN NobodyDies /\ UNCHANGED registered
           ELSE Die(Listeners({p}), TRUE) /\ registered' = registered \ {p}
        /\ Advance(r)
        /\ UNCHANGED <<stopped, master, stopWaits, objProcess, locks,
                       nextProcess, calls, engine, row, booted, bootLeft, scene>>

\* Does the operation wait for the worker's answer to killEngine()?
Waits_Never(s) == FALSE
Waits(s) == s = "kill"

\* killEngine() of a shared process calls the worker.  _killUserLocked waits
\* for the reply, _getUserCloudIdForPath does not.  A call that cannot be
\* written counts as the death of the engine; without a socket, killEngine
\* throws.
KillShared(r, s) ==
    LET u == req[r].user
        p == objProcess[engines[u]]
        n == proc[p].rpc
    IN  /\ Job(r, s)
        /\ IsRunning(u)
        /\ p \in SharedProc
        /\ \/ /\ n = 0
              /\ Fail(r)
              /\ NobodyDies /\ UNCHANGED calls
           \/ /\ n # 0 /\ ~Connected(proc[p], n)
              /\ EngineRemoved(u, p)
              /\ Advance(r) /\ UNCHANGED calls
           \/ /\ n # 0 /\ Connected(proc[p], n)
              /\ Send(p, n, [op |-> "kill", req |-> r, user |-> u, awaited |-> Waits(s)])
              /\ IF Waits(s)
                 THEN req' = [req EXCEPT ![r].todo = <<"reply">> \o Tail(@)]
                 ELSE Advance(r)
              /\ NobodyDies
        /\ UNCHANGED <<processVars, objProcess, locks, nextProcess, engine,
                       row, booted, bootLeft, scene>>

KillJob(r, s) == KillNobody(r, s) \/ KillSeparate(r, s) \/ KillShared(r, s)

\* The database answers _getUserCloudIdForPath.
PathFound(r) ==
    /\ Quiet
    /\ Stage(r) = "lookup"
    /\ IF row[req[r].user] = "absent" THEN Fail(r) ELSE Advance(r)
    /\ UNCHANGED <<processVars, engines, objProcess, listening, locks,
                   nextProcess, restarts, calls, engine, row, booted, bootLeft, scene>>

\* /bin/rm has removed the directory.
Removed(r) ==
    /\ Quiet
    /\ Stage(r) = "rm"
    /\ Advance(r)
    /\ UNCHANGED <<processVars, engines, objProcess, listening, locks,
                   nextProcess, restarts, calls, engine, row, booted, bootLeft, scene>>

\* this._nextProcess after it has been used.
NextProcess == (nextProcess % Len(RoundRobin)) + 1

\* _runUser(user), up to the await of _findProcessForUser: a new entry
\* replaces the user's entry, whatever that is, and a process is chosen.
\* q is the request that goes on when the promise of the process settles.
RunUser(r, q) ==
    LET u == q.user
        p == RoundRobin[nextProcess]
        a == proc[p].starting
    IN  /\ engines' = [engines EXCEPT ![u] = r]
        /\ IF row[u] = "shared"
           THEN /\ nextProcess' = NextProcess
                /\ req' = [req EXCEPT ![r] = [q EXCEPT !.target = p, !.attempt = a]]
                /\ IF a = 0 THEN UNCHANGED processVars ELSE WaitReady(p)
           ELSE /\ StartSeparate(r)
                /\ req' = [req EXCEPT ![r] = [q EXCEPT !.target = r, !.attempt = 1]]
                /\ UNCHANGED nextProcess

\* The database answers _startUserLocked.
RowFound(r) ==
    /\ Quiet
    /\ Stage(r) = "row"
    /\ IF row[req[r].user] = "absent"
       THEN /\ Fail(r)
            /\ UNCHANGED <<processVars, engines, nextProcess>>
       ELSE RunUser(r, [req[r] EXCEPT !.todo = Tail(@)])
    /\ UNCHANGED <<objProcess, listening, locks, restarts, calls, engine, row,
                   booted, bootLeft, scene>>

\* child.on('engine-removed', ..); child.on('exit', ..)
Listen(r) == listening' = listening \cup {r}

\* The promise of the process has settled: the rest of _runUser attaches the
\* listeners and calls runEngine, or _runUser is rejected.
ProcessFound(r) ==
    LET p == req[r].target
        a == req[r].attempt
        n == proc[p].rpc
    IN  /\ Job(r, "process")
        /\ IF a # 0 /\ proc[p].attempt[a] = "failed"
           THEN Fail(r) /\ UNCHANGED <<objProcess, listening, calls>>
           ELSE /\ objProcess' = [objProcess EXCEPT ![r] = p]
                /\ Listen(r)
                /\ IF n # 0 /\ Connected(proc[p], n)
                   THEN /\ Send(p, n, [op |-> "run", req |-> r, user |-> req[r].user,
                                       awaited |-> TRUE])
                        /\ req' = [req EXCEPT ![r].todo = <<"reply">> \o Tail(@)]
                   ELSE Fail(r) /\ UNCHANGED calls
        /\ UNCHANGED <<processVars, engines, locks, nextProcess, restarts,
                       engine, row, booted, bootLeft, scene>>

\* The locks once r has run its unlock callback, and a bug to detect: the
\* callback is not run by an operation that failed.
Unlocked_IfDone(r) ==
    IF req[r].lock = 0 \/ req[r].failed THEN locks
    ELSE [locks EXCEPT ![req[r].user][req[r].lock] = Tail(@)]
Unlocked(r) ==
    IF req[r].lock = 0 THEN locks
    ELSE [locks EXCEPT ![req[r].user][req[r].lock] = Tail(@)]

\* finally { releaseLock() }; deleteUser also drops the user's lock object,
\* and the next operation will make a new one.  The requests of start() hold
\* no lock and their failures are caught; nobody catches those of a timer.
Release(r) ==
    /\ Job(r, "release")
    /\ req' = [req EXCEPT ![r].todo = <<>>]
    /\ locks' = IF req[r].kind = "deleteUser"
                THEN [Unlocked(r) EXCEPT ![req[r].user] = Append(@, <<>>)]
                ELSE Unlocked(r)
    /\ master' = IF req[r].auto /\ req[r].failed THEN "crashed" ELSE master
    /\ UNCHANGED <<proc, registered, stopped, stopWaits, engines, objProcess,
                   listening, nextProcess, restarts, calls, engine, row,
                   booted, bootLeft, scene>>

-----------------------------------------------------------------------------
(* The worker's side, worker.ts: each call runs to its end and is answered. *)

MappedIn(u, p, n) ==
    {e \in Req : engine[e] = [state |-> "mapped", proc |-> p, child |-> n]
                 /\ req[e].user = u}

\* runEngine: _engines.set(userId, obj), over whatever was there.
WorkerRuns(p, n, c) ==
    /\ engine' = [e \in Req |->
          IF e = c.req THEN [state |-> "mapped", proc |-> p, child |-> n]
          ELSE IF e \in MappedIn(c.user, p, n)
               THEN [engine[e] EXCEPT !.state = "unmapped"] ELSE engine[e]]
    /\ NobodyDies

\* killEngine stops the engine that _engines points at, if any; its reply
\* makes the master emit 'engine-removed'.
WorkerKills(p, n, c) ==
    /\ engine' = [e \in Req |->
          IF e \in MappedIn(c.user, p, n)
          THEN [engine[e] EXCEPT !.state = "stopped"] ELSE engine[e]]
    /\ EngineRemoved(c.user, p)

WorkerAnswers(p, n) ==
    LET c == Head(calls[p][n])
    IN  /\ Quiet
        /\ calls[p][n] # <<>>
        /\ proc[p].os[n] = "ready"
        /\ \/ c.op = "run" /\ WorkerRuns(p, n, c)
           \/ c.op = "kill" /\ WorkerKills(p, n, c)
        /\ calls' = [calls EXCEPT ![p][n] = Tail(@)]
        /\ IF c.awaited THEN Advance(c.req) ELSE UNCHANGED req
        /\ UNCHANGED <<processVars, objProcess, locks, nextProcess, row, booted,
                       bootLeft, scene>>

-----------------------------------------------------------------------------
(* start(): the shared processes, then every user of the database, with no  *)
(* lock.                                                                    *)

RowsRead ==
    /\ Quiet
    /\ ~booted
    /\ \A p \in SharedProc : proc[p].attempt[1] = "ready"
    /\ booted' = TRUE
    /\ bootLeft' = {u \in User : row[u] # "absent"}
    /\ UNCHANGED <<processVars, engines, objProcess, listening, locks,
                   nextProcess, restarts, req, calls, engine, row, scene>>

BootUser(u) ==
    /\ master = "up"
    /\ u \in bootLeft
    /\ bootLeft' = bootLeft \ {u}
    /\ RunUser(u, [NoRequest EXCEPT !.kind = "boot", !.user = u,
                                    !.todo = <<"process", "release">>])
    /\ UNCHANGED <<objProcess, listening, locks, restarts, calls, engine, row,
                   booted, scene>>

\* The web site gives the user a developer key, takes it, or deletes the row.
RowChanges(u) ==
    /\ Quiet
    /\ "editRows" \in scene.may
    /\ row[u] # "absent"
    /\ row' \in {[row EXCEPT ![u] = v] :
                    v \in {"shared", "separate", "absent"} \ {row[u]}}
    /\ UNCHANGED <<processVars, engines, objProcess, listening, locks,
                   nextProcess, restarts, req, calls, engine, booted, bootLeft, scene>>

-----------------------------------------------------------------------------
RequestStep(r) ==
    \/ TakeLock(r)
    \/ \E s \in {"kill", "path"} : KillJob(r, s)
    \/ PathFound(r) \/ Removed(r) \/ RowFound(r) \/ ProcessFound(r)
    \/ Release(r)

ProcessStep ==
    \/ \E p \in Proc, n \in Child :
          WorkerReady(p, n) \/ WorkerError(p, n) \/ WorkerLost(p, n)
    \/ \E p \in Proc : ProcessTimer(p)
    \/ KillEveryone
    \/ ManagerExit

BootStep ==
    \/ RowsRead
    \/ \E u \in User : BootUser(u)

ManagerNext ==
    \/ ProcessStep
    \/ BootStep
    \/ \E r \in Slot, u \in User : \E k \in scene.kinds : Arrive(r, k, u)
    \/ \E r \in TimerSlot, u \in User : RestartTimer(r, u)
    \/ \E r \in Req : RequestStep(r)
    \/ \E p \in Proc, n \in Child : WorkerAnswers(p, n)
    \/ \E u \in User : RowChanges(u)

ManagerSpec == ManagerInit /\ [][ManagerNext]_allVars

\* Timers fire, promise jobs run, the database and /bin/rm answer, workers
\* become ready and answer their calls, and die when they are killed or have
\* closed their channel.
ManagerFairSpec ==
    /\ ManagerSpec
    /\ WF_allVars(BootStep)
    /\ WF_allVars(\E p \in Proc, n \in Child : WorkerAnswers(p, n))
    /\ \A r \in Req : WF_allVars(RequestStep(r))
    /\ WF_allVars(\E r \in TimerSlot, u \in User : RestartTimer(r, u))
    /\ WF_allVars(\E p \in Proc : ProcessTimer(p))
    /\ WF_allVars(\E p \in Proc, n \in Child : WorkerReady(p, n))
    /\ WF_allVars(\E p \in Proc, n \in Child :
                     /\ proc[p].os[n] = "adrift" \/ proc[p].asked[n] = "kill"
                     /\ WorkerLost(p, n))
    /\ WF_allVars(ManagerExit)

-----------------------------------------------------------------------------
Call == [op : {"run", "kill"}, req : Req, user : User, awaited : BOOLEAN]

ManagerTypeOK ==
    /\ TypeOK
    /\ engines \in [User -> Req \cup {None}]
    /\ objProcess \in [Req -> Proc \cup {None}]
    /\ listening \subseteq {e \in Req : objProcess[e] # None}
    /\ locks \in [User -> Seq(Seq(Req))]
    /\ nextProcess \in 1..Len(RoundRobin)
    /\ restarts \in [User -> Nat]
    /\ \A r \in Req :
          /\ req[r].user \in User \cup {None}
          /\ req[r].target \in Proc \cup {None}
          /\ req[r].attempt \in 0..MaxSpawn + 1
          /\ req[r].user # None => req[r].lock \in 0..Len(locks[req[r].user])
    /\ calls \in [Proc -> [Child -> Seq(Call)]]
    /\ \A e \in Req : engine[e].child \in 0..MaxSpawn
    /\ row \in [User -> {"shared", "separate", "absent"}]
    /\ booted \in BOOLEAN /\ bootLeft \subseteq User

\* The engines of a user that run: those in a worker that lives.
RunningEngines(u) ==
    {e \in Req : /\ req[e].user = u
                 /\ engine[e].state \in {"mapped", "unmapped"}
                 /\ Alive(proc[engine[e].proc], engine[e].child)}

\* A worker that lives and is given up: it has lost its channel and is in
\* process.exit(), or it was asked to die, a shared one by killAllUsers() or
\* stop(), the user's own by any kill, and then the 30 s timeout is running or
\* has sent it SIGKILL.
AskedToDie(p, n) ==
    /\ proc[p].asked[n] # "no"
    /\ p \notin SharedProc /\ proc[p].asked[n] = "term" =>
          \E k \in Kill : proc[p].timer[k]
GivenUp(p, n) == proc[p].os[n] = "adrift" \/ AskedToDie(p, n)

\* What is promised of engines is promised of operations that come one after
\* the other.  startUser() runs a user whether he runs or not, deleteUser()
\* throws the user's lock away, and start() runs its users without the locks.
OneAtATime ==
    /\ scene.kinds \cap {"startUser", "deleteUser", "clearCache"} = {}
    /\ "arriveAtBoot" \notin scene.may

\* Of the engines of a user that run, one at most is in a worker that is not
\* given up: both would act on the user's devices and write the user's
\* database.  A restart waits for the engine in a shared worker to stop.  It
\* does not wait for a worker of the user's own, as kill() returns nothing to
\* wait for: the new engine runs beside the old one until that worker ends.
OneEnginePerUser ==
    OneAtATime =>
        \A u \in User :
            Cardinality({e \in RunningEngines(u) :
                            ~GivenUp(engine[e].proc, engine[e].child)}) <= 1

\* When _killUserLocked has returned, and as long as the operation holds the
\* lock and has started nothing, the directory is removed and the new engine
\* started.  By then the user's engines in a shared worker have stopped, listed
\* or not, unless the worker is dying with all its users; an engine in a worker
\* of his own may still run, but that worker is given up and ends, which
\* nobody waits for (see NoOldEngine).  Nor has the user an entry whose process
\* is known, unless stop() or killAllUsers() came while a worker of his own was
\* booting: its 'exit' event is then over before the entry listens to it, and
\* the entry is left with a process that has no child.
KilledBeforeGoingOn ==
    OneAtATime =>
        \A r \in Req : Stage(r) \in {"path", "lookup", "rm", "row"} =>
            LET u == req[r].user
            IN  /\ \A e \in RunningEngines(u) :
                      GivenUp(engine[e].proc, engine[e].child)
                /\ IsRunning(u) => /\ stopped \/ "killBooting" \in scene.may
                                   /\ proc[objProcess[engines[u]]].child = 0

\* restartUserWithoutCache() is there to "restart a user with a clean cache
\* folder", for a user who lost the developer key and is moved to a shared
\* process: between the removal of the cache and the start of the new engine
\* no engine of the user runs that could fill the cache again.
NoOldEngine ==
    \A r \in Req :
        req[r].kind = "restartUserWithoutCache" /\ Stage(r) \in {"row", "process"}
            => RunningEngines(req[r].user) = {}

\* The user's entry has an engine, and the engine a worker in service.
RunsAsListed(u) ==
    /\ engines[u] # None
    /\ LET e == engine[engines[u]]
       IN  e.state = "mapped" /\ Serving(proc[e.proc], e.child)

\* die(): "if the process died, some user might have been killed as a side
\* effect; set timeout to restart the user 10 s in the future": a user for whom
\* the timer was set does run again, in a worker that is there, unless the
\* master stops or crashes, or killAllUsers() may be called.
LostUserRunsAgain ==
    \A u \in User :
        restarts[u] > 0 /\ "killAll" \notin scene.may
            ~> (RunsAsListed(u) \/ stopped \/ master # "up")

\* The same of every user who is lost with a worker: isRunning() does not say
\* for ever that the user runs when the worker with the engine is gone.
Stranded(u) ==
    /\ IsRunning(u)
    /\ LET e == engine[engines[u]]
       IN  e.state = "mapped" /\ proc[e.proc].os[e.child] = "dead"
NobodyIsStranded ==
    \A u \in User : Stranded(u) ~> (~Stranded(u) \/ stopped \/ master # "up")

\* Every operation comes to its end and gives the lock back.  Each request is
\* made once, so that all of them can be waited for.
Busy == \E r \in Req : req[r].todo # <<>>
EveryRequestReturns == Busy ~> (~Busy \/ master # "up")

=============================================================================
