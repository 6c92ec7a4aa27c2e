------------------------------ MODULE Kubernetes ------------------------------
(***************************************************************************)
(* Almond on Kubernetes: the custom resource User that a front end creates *)
(* and deletes (user_k8s.ts, enginemanagerclient_k8s.ts), the controller   *)
(* that reconciles it (go/k8s/controllers/user_controller.go) and the      *)
(* workers that run the engines (Worker).                                  *)
(*                                                                         *)
(* Reconcile() handles one user at a time.  Between its requests to the    *)
(* API server and to the workers everything else may happen:               *)
(*                                                                         *)
(*   get      it has read the resource                                     *)
(*   moved    the user's backend is another one than last time             *)
(*   decided  the state of the engine is known                             *)
(*   delete   an idle engine has been killed                               *)
(*   update   the status is about to be written                            *)
(*                                                                         *)
(* The deletion time stamp of a resource is never seen: it has no          *)
(* finalizers.  A worker of kind "process" gets its calls from the master. *)
(***************************************************************************)
EXTENDS Worker, Sequences

CONSTANTS Uid,          \* the number of a user
          EndpointLists,\* what the ready pods of the shared backend may be, in order
          NoPod,
          MaxFaults     \* bound: crashes, failed calls, changes of the endpoints

ASSUME KubernetesAssumption ==
    /\ Uid \in [Users -> Nat]
    /\ EndpointLists \subseteq Seq(Pods)
    /\ NoPod \notin Pods
    /\ MaxFaults \in Nat

VARIABLES
    endpoints,      \* shared-backend: the pods that are ready, in order
    deployment,     \* of a developer: "none", "created", "service" when it has both
    cr,             \* per user: the resource, with its status
    workqueue,      \* users the controller will reconcile
    rec,            \* the call of Reconcile
    missed,         \* a call of killEngine has failed, or was not made for an
                    \* engine of a deleted user that was only starting
    lost,           \* the controller has lost track of an engine
    faults

k8s  == <<endpoints, deployment, cr, workqueue, rec, missed, lost, faults>>
clusterVars == <<kind, pod, eng, replaced, k8s>>
worker == <<kind, pod, eng, replaced>>

NoUser == [exists |-> FALSE, backend |-> NoPod]
NoRec  == [pc |-> "none", user |-> CHOOSE u \in Users : TRUE, found |-> FALSE, old |-> NoPod,
           backend |-> NoPod, state |-> "", fresh |-> TRUE]

\* The pod of a developer's deployment.
Own == CHOOSE p \in Pods : TRUE

ClusterInit ==
    /\ WorkerInit
    /\ endpoints = <<>>
    /\ deployment = "none"
    /\ cr = [u \in Users |-> NoUser]
    /\ workqueue = {}
    /\ rec = NoRec
    /\ missed = FALSE /\ lost = FALSE /\ faults = 0

Fault == faults < MaxFaults /\ faults' = faults + 1

Backend(u) == IF kind = "developer" THEN Own
              ELSE IF endpoints = <<>> THEN NoPod
              ELSE endpoints[1 + (Uid[u] % Len(endpoints))]

\* The worker has an engine of the user on its map.
Knows(p, u) == Listed(p, u) # {}

\* An engine is lost when neither the status of the user nor the endpoints nor
\* the call of Reconcile under way lead to its pod.
Tracked(u) == {cr[u].backend, Backend(u)}
                \cup (IF rec.pc # "none" /\ rec.user = u THEN {rec.old, rec.backend} ELSE {})
Untracked == kind = "shared" /\ \E u \in Users, p \in Pods : Knows(p, u) /\ p \notin Tracked(u)

Tracking == lost' = (lost \/ Untracked')

-----------------------------------------------------------------------------
(* The resource.                                                            *)

\* Every change is an event for the controller, and makes what it has read old.
Write(u, value) ==
    /\ cr' = [cr EXCEPT ![u] = value]
    /\ workqueue' = workqueue \cup {u}

Touched(u) == rec' = IF rec.pc # "none" /\ rec.user = u THEN [rec EXCEPT !.fresh = FALSE] ELSE rec

\* createUser, startUser, getEngine: a resource that exists is left alone.
CreateUser(u) ==
    /\ kind # "process"
    /\ ~cr[u].exists
    /\ Write(u, [NoUser EXCEPT !.exists = TRUE])
    /\ Touched(u)
    /\ UNCHANGED <<worker, endpoints, deployment, missed, lost, faults>>

\* deleteUser, killUser, deleteAllUsers; restartUser is this and createUser.
DeleteUser(u) ==
    /\ cr[u].exists
    /\ Write(u, NoUser)
    /\ Touched(u)
    /\ UNCHANGED <<worker, endpoints, deployment, missed, faults>>
    /\ Tracking

-----------------------------------------------------------------------------
(* The controller.                                                          *)

Goes(pc) == rec' = [rec EXCEPT !.pc = pc, !.old = NoPod, !.state = IF pc = "decided" THEN @ ELSE ""]

\* Reconcile: the resource is read.
Reconcile(u) ==
    /\ kind # "process"
    /\ rec.pc = "none" /\ u \in workqueue
    /\ workqueue' = workqueue \ {u}
    /\ rec' = [NoRec EXCEPT !.pc = "get", !.user = u, !.found = cr[u].exists,
                            !.old = cr[u].backend]
    /\ UNCHANGED <<worker, endpoints, deployment, cr, missed, lost, faults>>

\* A bug to detect: the user is queued again only by an event.
Done_OnEvent(u, found, fresh, backend) ==
    /\ rec' = NoRec
    /\ cr' = IF found /\ fresh THEN [cr EXCEPT ![u].backend = backend] ELSE cr
    /\ workqueue' = IF cr' # cr THEN workqueue \cup {u} ELSE workqueue

\* The deferred function: the status is written, if the resource was there and
\* is still the one that was read.  In each case the user is queued again.
Done(u, found, fresh, backend) ==
    /\ rec' = NoRec
    /\ cr' = IF found /\ fresh THEN [cr EXCEPT ![u].backend = backend] ELSE cr
    /\ workqueue' = workqueue \cup {u}

\* handleDeveloper, before it knows the backend: the deployment, then the
\* service, are made, each in a call of Reconcile that has no backend.
MakeDeployment ==
    /\ kind = "developer" /\ rec.pc = "get" /\ rec.found
    /\ \/ deployment = "none" /\ deployment' = "created"
       \/ deployment = "created" /\ pod[Own] = "up" /\ deployment' = "service"
       \/ deployment # "none" /\ pod[Own] # "up" /\ UNCHANGED deployment
    /\ Done(rec.user, TRUE, rec.fresh, NoPod)
    /\ UNCHANGED <<worker, endpoints, missed, faults>>
    /\ Tracking

\* deleteDeploymentService, for a developer without resource: the engine is
\* killed, if there is a service and the call of killEngine does not fail, which
\* is only logged, and the deployment goes.
DeleteDeployment ==
    /\ kind = "developer" /\ rec.pc = "get" /\ ~rec.found
    /\ deployment' = "none"
    /\ rec' = NoRec
    /\ \/ /\ deployment = "service" /\ pod[Own] # "down"
          /\ eng' = [eng EXCEPT ![Own] = KillEngine(Own, rec.user)]
       \/ UNCHANGED eng
    /\ UNCHANGED <<kind, pod, replaced, endpoints, cr, workqueue, missed, lost, faults>>

\* The backend is chosen and asked for the state of the engine.
EngineStatus ==
    LET u == rec.user
        b == Backend(u)
        known == [rec EXCEPT !.backend = b, !.state = Status(b, u),
                             !.old = IF rec.found /\ @ # b THEN @ ELSE NoPod]
    IN  /\ rec.pc = "get"
        /\ kind = "developer" => deployment = "service" /\ rec.found
        /\ b # NoPod /\ pod[b] # "down"
        /\ rec' = [known EXCEPT !.pc =
                    IF ~rec.found THEN "gone"
                    ELSE IF known.old # NoPod THEN "moved" ELSE "decided"]
        /\ UNCHANGED <<worker, endpoints, deployment, cr, workqueue, missed, lost, faults>>

\* No endpoints, or nobody answers: tried again, but the backend of the status
\* is the new one, or none.
EngineStatusFails ==
    LET b == Backend(rec.user)
    IN  /\ rec.pc = "get"
        /\ kind = "developer" => deployment = "service" /\ rec.found
        /\ IF b = NoPod \/ pod[b] = "down" THEN UNCHANGED faults ELSE Fault
        /\ Done(rec.user, rec.found, rec.fresh, b)
        /\ UNCHANGED <<worker, endpoints, deployment, missed>>
        /\ Tracking

\* A call of killEngine, and what becomes of it: it arrives, or it fails, and
\* that is only logged.
KillCalled(p, u) ==
    \/ /\ pod[p] # "down"
       /\ eng' = [eng EXCEPT ![p] = KillEngine(p, u)]
       /\ UNCHANGED missed
    \/ /\ missed' = (missed \/ pod[p] # "down")
       /\ UNCHANGED eng

\* What still runs, and a bug to detect: not if it is idle.
StillRuns_NotIdle(state) == state = "running"
StillRuns(state) == state \in {"running", "idle"}

\* The user is already deleted: an engine that still runs is killed.
KillDeleted ==
    /\ rec.pc = "gone"
    /\ rec' = NoRec
    /\ IF StillRuns(rec.state) THEN KillCalled(rec.backend, rec.user)
       ELSE /\ missed' = (missed \/ (rec.state = "stopped" /\ Knows(rec.backend, rec.user)))
            /\ UNCHANGED eng
    /\ UNCHANGED <<kind, pod, replaced, endpoints, deployment, cr, workqueue, faults>>
    /\ Tracking

\* The backend has changed.
KillOld == KillCalled(rec.old, rec.user)

BackendChanged ==
    /\ rec.pc = "moved"
    /\ KillOld
    /\ Goes("decided")
    /\ UNCHANGED <<kind, pod, replaced, endpoints, deployment, cr, workqueue, lost, faults>>

\* A running engine is looked at again after 10 s.
StillRunning ==
    /\ rec.pc = "decided" /\ rec.state = "running"
    /\ Done(rec.user, TRUE, rec.fresh, rec.backend)
    /\ UNCHANGED <<worker, endpoints, deployment, missed, faults>>
    /\ Tracking

\* An idle one is killed, and its resource deleted, whichever is there by then.
KillIdle ==
    /\ rec.pc = "decided" /\ rec.state = "idle"
    /\ KillCalled(rec.backend, rec.user)
    /\ Goes("delete")
    /\ UNCHANGED <<kind, pod, replaced, endpoints, deployment, cr, workqueue, lost, faults>>

DeleteIdle ==
    /\ rec.pc = "delete"
    /\ rec' = NoRec
    /\ IF cr[rec.user].exists THEN Write(rec.user, NoUser) ELSE UNCHANGED <<cr, workqueue>>
    /\ UNCHANGED <<worker, endpoints, deployment, missed, faults>>
    /\ Tracking

\* Any other is run; an error becomes the state.
RunStopped ==
    LET u == rec.user  b == rec.backend
    IN  /\ rec.pc = "decided" /\ rec.state = "stopped"
        /\ Goes("update")
        /\ \/ /\ pod[b] # "down" /\ CanRun(b, u)
              /\ eng' = [eng EXCEPT ![b] = RunEngine(b, u)]
              /\ UNCHANGED faults
           \/ /\ IF pod[b] = "down" THEN UNCHANGED faults ELSE Fault
              /\ UNCHANGED eng
        /\ UNCHANGED <<kind, pod, replaced, endpoints, deployment, cr, workqueue, missed, lost>>

UpdateStatus ==
    /\ rec.pc = "update"
    /\ Done(rec.user, TRUE, rec.fresh, rec.backend)
    /\ UNCHANGED <<worker, endpoints, deployment, missed, faults>>
    /\ Tracking

Controller == \/ \E u \in Users : Reconcile(u)
              \/ MakeDeployment \/ DeleteDeployment
              \/ EngineStatus \/ EngineStatusFails
              \/ KillDeleted \/ BackendChanged \/ StillRunning
              \/ KillIdle \/ DeleteIdle \/ RunStopped \/ UpdateStatus

-----------------------------------------------------------------------------
(* The workers.                                                             *)

OfWorker(p, s) ==
    \/ EngineStep(p, s) /\ UNCHANGED k8s
    \/ GoesIdle(p, s) /\ UNCHANGED k8s
    \/ /\ EngineFails(p, s) /\ Fault
       /\ UNCHANGED <<endpoints, deployment, cr, workqueue, rec, missed, lost>>

PodStops(p) ==
    /\ HandleSignal(p)
    /\ IF kind = "process" \/ (kind = "developer" /\ deployment = "none")
       THEN UNCHANGED faults ELSE Fault
    /\ UNCHANGED <<endpoints, deployment, cr, workqueue, rec, missed, lost>>

\* Crashes, and the end of a worker that was told to stop.
PodDies(p) ==
    /\ \/ WorkerExits(p) /\ UNCHANGED faults
       \/ pod[p] # "down" /\ Dies(p) /\ Fault
    /\ UNCHANGED <<endpoints, deployment, cr, workqueue, rec, missed, lost>>

PodStarts(p) ==
    /\ pod[p] = "down"
    /\ kind = "process" => p = Own
    /\ kind = "developer" => p = Own /\ deployment # "none"
    /\ pod' = [pod EXCEPT ![p] = "up"]
    /\ UNCHANGED <<kind, eng, replaced, k8s>>

\* The shared backend is scaled, or a pod becomes ready or not.
EndpointsChange ==
    /\ kind = "shared"
    /\ IF endpoints = <<>> THEN UNCHANGED faults ELSE Fault
    /\ endpoints' \in EndpointLists \ {endpoints}
    /\ UNCHANGED <<worker, deployment, cr, workqueue, rec, missed>>
    /\ Tracking

\* The calls of the master to a worker process, in any order.
MasterCalls(p, u) ==
    /\ kind = "process" /\ pod[p] = "up"
    /\ \/ /\ CanRun(p, u)
          /\ eng' = [eng EXCEPT ![p] = RunEngine(p, u)]
          /\ replaced' = IF Listed(p, u) = {} THEN replaced ELSE replaced \cup {u}
       \/ eng' = [eng EXCEPT ![p] = KillEngine(p, u)] /\ UNCHANGED replaced
    /\ UNCHANGED <<kind, pod, k8s>>

-----------------------------------------------------------------------------
FrontEnd(u) == CreateUser(u) \/ DeleteUser(u)

ClusterNext ==
    \/ Controller
    \/ \E u \in Users : FrontEnd(u)
    \/ \E p \in Pods, s \in Slots : OfWorker(p, s)
    \/ \E p \in Pods : PodStops(p) \/ PodDies(p) \/ PodStarts(p)
    \/ \E p \in Pods, u \in Users : MasterCalls(p, u)
    \/ EndpointsChange

ClusterSpec == ClusterInit /\ [][ClusterNext]_clusterVars

\* The controller works off its queue and its calls are answered, engines start
\* and stop, pods are started again and become ready, and Kubernetes ends the
\* pod of a deployment that was deleted.
ClusterFairness ==
    /\ WF_clusterVars(Controller)
    /\ WF_clusterVars(endpoints = <<>> /\ EndpointsChange)
    /\ \A p \in Pods : /\ WF_clusterVars(PodStarts(p))
                       /\ WF_clusterVars(pod[p] = "stopping" /\ PodDies(p))
                       /\ WF_clusterVars(kind = "developer" /\ deployment = "none" /\ PodStops(p))
                       /\ \A s \in Slots : WF_clusterVars(EngineStep(p, s) /\ UNCHANGED k8s)

ClusterFairSpec == ClusterSpec /\ ClusterFairness

-----------------------------------------------------------------------------
KubernetesTypeOK ==
    /\ WorkerTypeOK
    /\ endpoints \in Seq(Pods)
    /\ deployment \in {"none", "created", "service"}
    /\ cr \in [Users -> [exists : BOOLEAN, backend : Pods \cup {NoPod}]]
    /\ workqueue \subseteq Users

\* The user's engine moves from one pod to another without running in both,
\* unless the controller loses track of it: the status that named its pod is
\* overwritten, never written, or deleted when the endpoints change too; or
\* unless the old pod itself does not know the engine (`replaced`).
OneBackend ==
    \A u \in Users, p, q \in Pods :
        kind = "shared" /\ ~lost /\ ~missed /\ Knows(p, u) /\ Knows(q, u) => p = q

\* Worker and controller together: no engine of a user that nobody would stop,
\* neither inside a worker nor in a second one.
EnginesAreKnown == NoStrayEngine /\ OneBackend

\* A resource that stays leads to a running engine where its status says.
RunsAtBackend(u) == /\ cr[u].backend # NoPod
                    /\ \E s \in Listed(cr[u].backend, u) : eng[cr[u].backend][s].stage = "running"
Served == \A u \in Users : []<>(kind = "process" \/ ~cr[u].exists \/ RunsAtBackend(u))

\* An engine that the fatal error of an earlier one of the user has taken off
\* the map: no call reaches it any more.
Displaced(p, s) == /\ eng[p][s].user \in replaced
                   /\ ~eng[p][s].listed /\ ~eng[p][s].stopped

\* The engine of a deleted user stops and is closed, whether its worker has it on
\* the map or not, and a developer's also where the call that was to kill it has
\* failed, as the pod goes.  Four exceptions: it was displaced; and, of a shared
\* pod, the controller has lost track of it, a call to kill it has failed, or
\* there was none because the engine was still starting.
DeletedStops ==
    \A u \in Users :
        []<>(\/ kind = "process" \/ cr[u].exists
             \/ kind = "shared" /\ (missed \/ lost)
             \/ \A p \in Pods, s \in Slots :
                   eng[p][s].user = u => eng[p][s].stage = "none" \/ Displaced(p, s))
===============================================================================
