-------------------------------- MODULE Worker --------------------------------
(***************************************************************************)
(* The engines inside a worker: src/almond/worker.ts, a process below the  *)
(* master, and src/almond/worker_k8s.ts, a pod of Kubernetes.  An engine   *)
(* is started by a chain of promises:                                      *)
(*                                                                         *)
(*   init     platform.init(): there is no Engine object yet               *)
(*   opening  engine.open()                                                *)
(*   running  engine.run(), which returns when the engine is stopped       *)
(*   closing  engine.close()                                               *)
(*                                                                         *)
(* and the calls that stop it come in between.  The map _engines has at    *)
(* most one engine of a user: the one that is listed.                      *)
(***************************************************************************)
EXTENDS Naturals, FiniteSets

CONSTANTS Users, Pods,
          Slots         \* bound: engines that a worker has at a time

ASSUME WorkerAssumption == Users # {} /\ Pods # {}

Kinds == {"process", "shared", "developer"}

VARIABLES kind,         \* worker.ts, or worker_k8s.ts for one of two kinds of user
          pod,          \* the worker processes
          eng,          \* their engines
          replaced      \* users whose listed engine was taken off by another's error

NoEngine == [user |-> CHOOSE u \in Users : TRUE, stage |-> "none",
             stopped |-> FALSE, listed |-> FALSE, idle |-> FALSE]
Engine == [user : Users, stage : {"none", "init", "opening", "running", "closing"},
           stopped : BOOLEAN, listed : BOOLEAN, idle : BOOLEAN]

WorkerInit == /\ kind \in Kinds
              /\ pod = [p \in Pods |-> IF kind = "shared" THEN "up" ELSE "down"]
              /\ eng = [p \in Pods |-> [s \in Slots |-> NoEngine]]
              /\ replaced = {}

Empty == [s \in Slots |-> NoEngine]
Listed(p, u) == {s \in Slots : eng[p][s].listed /\ eng[p][s].user = u}
Free(p) == {s \in Slots : eng[p][s].stage = "none"}

-----------------------------------------------------------------------------
(* Calls, as functions from the engines of a worker to the engines after.   *)

New(u) == [NoEngine EXCEPT !.user = u, !.stage = "init", !.listed = TRUE]

\* runEngine.  A process overwrites the entry of the map, a pod looks first.
RunEngine(p, u) ==
    IF kind # "process" /\ Listed(p, u) # {} THEN eng[p]
    ELSE LET new == CHOOSE s \in Free(p) : TRUE
         IN  [s \in Slots |-> IF s = new THEN New(u)
                              ELSE IF s \in Listed(p, u) THEN [eng[p][s] EXCEPT !.listed = FALSE]
                              ELSE eng[p][s]]
CanRun(p, u) == Free(p) # {} \/ (kind # "process" /\ Listed(p, u) # {})

\* killEngine, and a bug to detect: the flag is set only if there is an Engine.
\* engine.stop() makes run() return.
KillEngine_NotYet(p, u) ==
    [s \in Slots |-> IF s \notin Listed(p, u) THEN eng[p][s]
                     ELSE [eng[p][s] EXCEPT !.listed = FALSE, !.stopped = eng[p][s].stage # "init"]]
KillEngine(p, u) ==
    [s \in Slots |-> IF s \notin Listed(p, u) THEN eng[p][s]
                     ELSE [eng[p][s] EXCEPT !.listed = FALSE, !.stopped = TRUE, !.idle = FALSE]]

\* engineStatus: the activity monitor knows whether a running engine is idle.
Status(p, u) ==
    IF \E s \in Listed(p, u) : eng[p][s].stage \in {"running", "closing"}
    THEN IF \E s \in Listed(p, u) : eng[p][s].idle THEN "idle" ELSE "running"
    ELSE "stopped"

-----------------------------------------------------------------------------
(* What happens in a worker.                                                *)

\* The chain of promises of runEngine.  An engine that was stopped runs no
\* code of the user's any more while it is closed: only the entry of one that a
\* signal has stopped is still there.
Following(e, stopping) ==
    CASE e.stage = "running" \/ stopping \/ e.stopped -> IF e.listed THEN "closing" ELSE "none"
      [] e.stage = "init"                             -> "opening"
      [] e.stage = "opening"                          -> "running"

EngineStep(p, s) ==
    LET e == eng[p][s]
        after == Following(e, pod[p] = "stopping")
    IN  /\ pod[p] # "down"
        /\ e.stage \in {"init", "opening"} \/ (e.stage = "running" /\ e.stopped)
        /\ eng' = [eng EXCEPT ![p][s] = IF after = "none" THEN NoEngine
                                        ELSE [e EXCEPT !.stage = after, !.idle = FALSE]]
        /\ UNCHANGED <<kind, pod, replaced>>

GoesIdle(p, s) ==
    /\ kind # "process"
    /\ eng[p][s].stage = "running" /\ ~eng[p][s].idle
    /\ eng' = [eng EXCEPT ![p][s].idle = TRUE]
    /\ UNCHANGED <<kind, pod, replaced>>

\* A fatal error of an engine takes the user off the map, whoever is listed by
\* then; a process exits, with the engines of everybody else.
EngineFails(p, s) ==
    LET u == eng[p][s].user
        others == Listed(p, u) \ {s}
    IN  /\ pod[p] # "down" /\ eng[p][s].stage # "none"
        /\ IF kind = "process"
           THEN /\ pod' = [pod EXCEPT ![p] = "down"]
                /\ eng' = [eng EXCEPT ![p] = Empty]
                /\ UNCHANGED replaced
           ELSE /\ eng' = [eng EXCEPT ![p] =
                    [t \in Slots |-> IF t = s THEN NoEngine
                                     ELSE IF t \in others THEN [eng[p][t] EXCEPT !.listed = FALSE]
                                     ELSE eng[p][t]]]
                /\ replaced' = IF others = {} THEN replaced ELSE replaced \cup {u}
                /\ UNCHANGED pod
        /\ UNCHANGED kind

\* handleSignal.  The timer that is to give 10 s has no delay.
HandleSignal(p) ==
    /\ pod[p] = "up"
    /\ pod' = [pod EXCEPT ![p] = "stopping"]
    /\ eng' = [eng EXCEPT ![p] = [s \in Slots |->
                    IF eng[p][s].listed THEN [eng[p][s] EXCEPT !.stopped = TRUE] ELSE eng[p][s]]]
    /\ UNCHANGED <<kind, replaced>>

Dies(p) ==
    /\ pod' = [pod EXCEPT ![p] = "down"]
    /\ eng' = [eng EXCEPT ![p] = Empty]
    /\ UNCHANGED <<kind, replaced>>

WorkerExits(p) == pod[p] = "stopping" /\ Dies(p)

-----------------------------------------------------------------------------
WorkerTypeOK ==
    /\ kind \in Kinds
    /\ pod \in [Pods -> {"down", "up", "stopping"}]
    /\ eng \in [Pods -> [Slots -> Engine]]
    /\ replaced \subseteq Users

\* killEngine: an engine that runs, or is about to, and was not told to stop is
\* the one its worker knows, however starting, killing and running it again
\* interleave - unless a late error of an earlier engine of the user has taken
\* it off the map, or a process was told to run it a second time.
NoStrayEngine ==
    \A p \in Pods, s \in Slots :
        /\ eng[p][s].stage \in {"opening", "running"}
        /\ ~eng[p][s].stopped
        /\ pod[p] = "up"
        => eng[p][s].listed \/ eng[p][s].user \in replaced
===============================================================================
