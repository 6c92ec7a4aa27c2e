------------------------------ MODULE MCWorkers -------------------------------
(* The worker processes of one host, as their objects in the engine manager    *)
(* see them, and those of a cluster.  The two have no variable in common: each *)
(* behaviour is of one of them, and the other stays where it begins, where     *)
(* nothing is due.                                                             *)
EXTENDS EngineProcess, Kubernetes

CONSTANTS ProcessOnly, ClusterOnly, u1, p1, p2

\* The first of two pods is not the backend of user 1 when both are there.
Uid1 == [u \in Users |-> 1]
Lists == {<<>>, <<p1>>, <<p1, p2>>}

VARIABLE part   \* the part that runs

workersVars == <<processVars, clusterVars, part>>

\* A cluster that does not run has no pods that are due: a developer's are started
\* with his resource.
WorkersInit == /\ Init /\ ClusterInit
               /\ part \in {ProcessOnly, ClusterOnly}
               /\ part = ProcessOnly => kind = "developer"

WorkersNext ==
    \/ part = ProcessOnly /\ Next /\ UNCHANGED <<clusterVars, part>>
    \/ part = ClusterOnly /\ ClusterNext /\ UNCHANGED <<processVars, part>>

WorkersSpec == WorkersInit /\ [][WorkersNext]_workersVars /\ Fairness /\ ClusterFairness
===============================================================================
