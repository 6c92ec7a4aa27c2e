---------------------------- MODULE KubernetesProofs ---------------------------
(* Theorems about Almond on Kubernetes and the engines inside a worker, for    *)
(* any users, pods and lists of endpoints.                                     *)
EXTENDS Kubernetes, TLAPS

-----------------------------------------------------------------------------
(* The engines inside a worker.                                               *)

\* Stages from which an engine gets to run.
Starting == {"init", "opening", "running"}

(* A pod that is down has no engines, and an engine that is about to run and   *)
(* was not told to stop is known from its first stage on.                      *)
DeadIsEmpty == \A p \in Pods : pod[p] = "down" => \A s \in Slots : eng[p][s] = NoEngine
StartingIsKnown ==
    \A p \in Pods, s \in Slots :
        eng[p][s].stage \in Starting /\ ~eng[p][s].stopped /\ pod[p] = "up"
        => eng[p][s].listed \/ eng[p][s].user \in replaced

WorkerInv == WorkerTypeOK /\ DeadIsEmpty /\ StartingIsKnown

\* No user gets an engine where he had none.
Shrinks == \A p \in Pods, u \in Users : Knows(p, u)' => Knows(p, u)

LEMMA NoEngineType ==
    NoEngine \in Engine /\ NoEngine.stage = "none" /\ ~NoEngine.listed
BY WorkerAssumption DEF NoEngine, Engine

\* An engine goes, or is what it was to its user, and no more on the map.
LEMMA EnginesKeepInv ==
    ASSUME WorkerInv, kind' = kind, pod' \in [Pods -> {"down", "up", "stopping"}],
           eng' \in [Pods -> [Slots -> Engine]], replaced \subseteq replaced', replaced' \subseteq Users,
           \A p \in Pods, s \in Slots :
              \/ eng'[p][s] = NoEngine
              \/ /\ pod'[p] # "down" /\ eng'[p][s].user = eng[p][s].user
                 /\ eng'[p][s].listed => eng[p][s].listed
                 /\ eng'[p][s].stage \in Starting /\ ~eng'[p][s].stopped /\ pod'[p] = "up" =>
                       /\ eng[p][s].stage \in Starting /\ ~eng[p][s].stopped /\ pod[p] = "up"
                       /\ eng[p][s].listed => eng'[p][s].listed \/ eng[p][s].user \in replaced'
    PROVE  WorkerInv' /\ Shrinks
<1>1. WorkerTypeOK'
  BY DEF WorkerInv, WorkerTypeOK
<1>2. DeadIsEmpty'
  BY DEF DeadIsEmpty
<1>3. StartingIsKnown'
  BY NoEngineType DEF WorkerInv, StartingIsKnown, Starting
<1>4. Shrinks
  BY NoEngineType, SMTT(60) DEF Shrinks, Knows, Listed
<1> QED
  BY <1>1, <1>2, <1>3, <1>4 DEF WorkerInv

LEMMA WorkerInitInv == WorkerInit => WorkerInv
BY NoEngineType DEF WorkerInit, WorkerInv, WorkerTypeOK, DeadIsEmpty, StartingIsKnown, Starting, Kinds

LEMMA EngineStepKeepsInv ==
    ASSUME WorkerInv, NEW p \in Pods, NEW s \in Slots, EngineStep(p, s) \/ GoesIdle(p, s)
    PROVE  WorkerInv' /\ Shrinks
<1> USE DEF WorkerInv, WorkerTypeOK
<1> DEFINE e == eng[p][s]
<1>1. e \in Engine /\ pod[p] # "down"
  BY NoEngineType DEF EngineStep, GoesIdle, DeadIsEmpty
<1>2. PICK n \in Engine :
         /\ eng' = [eng EXCEPT ![p][s] = n] /\ UNCHANGED <<kind, pod, replaced>>
         /\ \/ n = NoEngine
            \/ /\ n.user = e.user /\ n.listed = e.listed /\ n.stopped = e.stopped
               /\ n.stage \in Starting /\ ~n.stopped => e.stage \in Starting
  <2>1. CASE EngineStep(p, s)
    <3> DEFINE after == Following(e, pod[p] = "stopping")
               m == [e EXCEPT !.stage = after, !.idle = FALSE]
    <3>1. e.stage \in {"init", "opening"} \/ (e.stage = "running" /\ e.stopped)
      BY <2>1 DEF EngineStep
    <3>2. after \in {"none", "closing", "opening", "running"}
      BY <3>1 DEF Following
    <3>3. /\ eng' = [eng EXCEPT ![p][s] = IF after = "none" THEN NoEngine ELSE m]
          /\ UNCHANGED <<kind, pod, replaced>>
      BY <2>1 DEF EngineStep
    <3>4. CASE after = "none"
      BY <3>3, <3>4, NoEngineType
    <3>5. CASE after # "none"
      <4> HIDE DEF after
      <4>1. m \in Engine /\ m.user = e.user /\ m.listed = e.listed /\ m.stopped = e.stopped
        BY <1>1, <3>2, <3>5 DEF Engine
      <4>2. e.stage \in Starting
        BY <3>1 DEF Starting
      <4> HIDE DEF m
      <4> QED
        BY <3>3, <3>5, <4>1, <4>2
    <3> QED
      BY <3>4, <3>5
  <2>2. CASE GoesIdle(p, s)
    <3> DEFINE m == [e EXCEPT !.idle = TRUE]
    <3>1. m \in Engine /\ m.user = e.user /\ m.listed = e.listed /\ m.stopped = e.stopped /\ m.stage = e.stage
      BY <1>1 DEF Engine
    <3>2. eng' = [eng EXCEPT ![p][s] = m] /\ UNCHANGED <<kind, pod, replaced>>
      BY <2>2 DEF GoesIdle
    <3> HIDE DEF m
    <3> QED
      BY <3>1, <3>2
  <2> QED
    BY <2>1, <2>2
<1>3. /\ eng' \in [Pods -> [Slots -> Engine]] /\ eng'[p][s] = n
      /\ \A q \in Pods, t \in Slots : q # p \/ t # s => eng'[q][t] = eng[q][t]
  BY <1>2
<1>4. ASSUME NEW q \in Pods, NEW t \in Slots
      PROVE  \/ eng'[q][t] = NoEngine
             \/ /\ pod'[q] # "down" /\ eng'[q][t].user = eng[q][t].user
                /\ eng'[q][t].listed => eng[q][t].listed
                /\ eng'[q][t].stage \in Starting /\ ~eng'[q][t].stopped /\ pod'[q] = "up" =>
                      /\ eng[q][t].stage \in Starting /\ ~eng[q][t].stopped /\ pod[q] = "up"
                      /\ eng[q][t].listed => eng'[q][t].listed \/ eng[q][t].user \in replaced'
  <2>1. CASE q = p /\ t = s
    BY <1>1, <1>2, <1>3, <2>1
  <2>2. CASE ~(q = p /\ t = s)
    BY <1>2, <1>3, <2>2 DEF DeadIsEmpty
  <2> QED
    BY <2>1, <2>2
<1> QED
  BY <1>2, <1>3, <1>4, EnginesKeepInv

\* A call of killEngine.
LEMMA KillEngineKeepsInv ==
    ASSUME WorkerInv, NEW p \in Pods, NEW u \in Users, eng' = [eng EXCEPT ![p] = KillEngine(p, u)],
           UNCHANGED <<kind, pod, replaced>>
    PROVE  WorkerInv' /\ Shrinks /\ ~Knows(p, u)'
<1> USE DEF WorkerInv, WorkerTypeOK
<1>1. ASSUME NEW s \in Slots
      PROVE  /\ KillEngine(p, u)[s] \in Engine
             /\ s \in Listed(p, u) => ~KillEngine(p, u)[s].listed /\ KillEngine(p, u)[s].stopped
             /\ KillEngine(p, u)[s].user = eng[p][s].user
             /\ s \notin Listed(p, u) => KillEngine(p, u)[s] = eng[p][s]
  <2>1. eng[p][s] \in Engine
    OBVIOUS
  <2> QED
    BY <2>1 DEF KillEngine, Engine
<1>2. KillEngine(p, u) \in [Slots -> Engine]
  <2>1. KillEngine(p, u) = [s \in Slots |-> KillEngine(p, u)[s]]
    BY DEF KillEngine
  <2> QED
    BY <1>1, <2>1
<1>3. /\ eng' \in [Pods -> [Slots -> Engine]] /\ eng'[p] = KillEngine(p, u)
      /\ \A q \in Pods : q # p => eng'[q] = eng[q]
  BY <1>2
<1>4. \A s \in Slots : eng[p][s] = NoEngine => s \notin Listed(p, u)
  BY NoEngineType DEF Listed
<1>5. ASSUME NEW q \in Pods, NEW t \in Slots
      PROVE  \/ eng'[q][t] = NoEngine
             \/ /\ pod'[q] # "down" /\ eng'[q][t].user = eng[q][t].user
                /\ eng'[q][t].listed => eng[q][t].listed
                /\ eng'[q][t].stage \in Starting /\ ~eng'[q][t].stopped /\ pod'[q] = "up" =>
                      /\ eng[q][t].stage \in Starting /\ ~eng[q][t].stopped /\ pod[q] = "up"
                      /\ eng[q][t].listed => eng'[q][t].listed \/ eng[q][t].user \in replaced'
  <2>1. CASE q = p /\ t \in Listed(p, u)
    <3>1. /\ eng'[q][t].user = eng[q][t].user /\ ~eng'[q][t].listed /\ eng'[q][t].stopped
      BY <1>1, <1>3, <2>1
    <3>2. pod[p] # "down"
      BY <1>4, <2>1 DEF DeadIsEmpty
    <3> QED
      BY <2>1, <3>1, <3>2
  <2>2. CASE ~(q = p /\ t \in Listed(p, u))
    <3>1. eng'[q][t] = eng[q][t]
      BY <1>1, <1>3, <2>2
    <3> QED
      BY <3>1 DEF DeadIsEmpty
  <2> QED
    BY <2>1, <2>2
<1>6. WorkerInv' /\ Shrinks
  BY <1>3, <1>5, EnginesKeepInv
<1>7. ~Knows(p, u)'
  <2>1. \A s \in Slots : ~(eng'[p][s].listed /\ eng'[p][s].user = u)
    BY <1>1, <1>3 DEF Listed
  <2> QED
    BY <2>1 DEF Knows, Listed
<1> QED
  BY <1>6, <1>7

\* A call of runEngine: one that comes in a process while another runs takes its place.
LEMMA RunEngineKeepsInv ==
    ASSUME WorkerInv, NEW p \in Pods, NEW u \in Users, CanRun(p, u), pod[p] # "down",
           eng' = [eng EXCEPT ![p] = RunEngine(p, u)], UNCHANGED <<kind, pod>>,
           replaced \subseteq replaced', replaced' \subseteq Users,
           kind = "process" /\ Listed(p, u) # {} => u \in replaced'
    PROVE  /\ WorkerInv'
           /\ \A q \in Pods, v \in Users : Knows(q, v)' => Knows(q, v) \/ (q = p /\ v = u)
<1> USE DEF WorkerInv, WorkerTypeOK
<1>1. CASE kind # "process" /\ Listed(p, u) # {}
  <2>1. eng' = eng
    BY <1>1 DEF RunEngine
  <2>2. \A q \in Pods, t \in Slots : eng[q][t] = NoEngine \/ pod[q] # "down"
    BY DEF DeadIsEmpty
  <2>3. WorkerInv' /\ Shrinks
    BY <2>1, <2>2, EnginesKeepInv
  <2> QED
    BY <2>3 DEF Shrinks
<1>2. CASE ~(kind # "process" /\ Listed(p, u) # {})
  <2> DEFINE new == CHOOSE s \in Free(p) : TRUE
  <2>1. new \in Slots /\ eng[p][new].stage = "none"
    BY <1>2 DEF CanRun, Free
  <2>2. RunEngine(p, u) = [s \in Slots |-> IF s = new THEN New(u)
                                          ELSE IF s \in Listed(p, u) THEN [eng[p][s] EXCEPT !.listed = FALSE]
                                          ELSE eng[p][s]]
    BY <1>2 DEF RunEngine
  <2> HIDE DEF new
  <2>3. New(u) \in Engine /\ New(u).user = u /\ New(u).listed
    BY NoEngineType DEF New, Engine
  <2>4. ASSUME NEW s \in Slots, s # new, s \in Listed(p, u)
        PROVE  /\ RunEngine(p, u)[s] \in Engine /\ ~RunEngine(p, u)[s].listed
               /\ RunEngine(p, u)[s].user = u /\ u \in replaced'
    <3>1. eng[p][s] \in Engine /\ eng[p][s].user = u
      BY <2>4 DEF Listed
    <3>2. RunEngine(p, u)[s] = [eng[p][s] EXCEPT !.listed = FALSE]
      BY <2>2, <2>4
    <3>3. kind = "process"
      BY <1>2, <2>4
    <3> QED
      BY <2>4, <3>1, <3>2, <3>3 DEF Engine
  <2>5. ASSUME NEW s \in Slots, s # new, s \notin Listed(p, u)
        PROVE  RunEngine(p, u)[s] = eng[p][s]
    BY <2>2, <2>5
  <2>6. RunEngine(p, u)[new] = New(u)
    BY <2>1, <2>2
  <2>7. RunEngine(p, u) \in [Slots -> Engine]
    <3>1. \A s \in Slots : RunEngine(p, u)[s] \in Engine
      BY <2>3, <2>4, <2>5, <2>6
    <3>2. RunEngine(p, u) = [s \in Slots |-> RunEngine(p, u)[s]]
      BY <2>2
    <3> QED
      BY <3>1, <3>2
  <2>8. /\ eng' \in [Pods -> [Slots -> Engine]] /\ eng'[p] = RunEngine(p, u)
        /\ \A q \in Pods : q # p => eng'[q] = eng[q]
    BY <2>7
  <2>9. WorkerTypeOK'
    BY <2>8
  <2>10. DeadIsEmpty'
    BY <2>8 DEF DeadIsEmpty
  <2>11. StartingIsKnown'
    <3> SUFFICES ASSUME NEW q \in Pods, NEW s \in Slots, eng'[q][s].stage \in Starting, ~eng'[q][s].stopped,
                        pod'[q] = "up"
                 PROVE  eng'[q][s].listed \/ eng'[q][s].user \in replaced'
      BY DEF StartingIsKnown
    <3>1. CASE q # p \/ (s # new /\ s \notin Listed(p, u))
      BY <2>5, <2>8, <3>1 DEF StartingIsKnown
    <3>2. CASE q = p /\ s = new
      BY <2>3, <2>6, <2>8, <3>2
    <3>3. CASE q = p /\ s # new /\ s \in Listed(p, u)
      BY <2>4, <2>8, <3>3
    <3> QED
      BY <3>1, <3>2, <3>3
  <2>12. ASSUME NEW q \in Pods, NEW v \in Users, Knows(q, v)', ~(q = p /\ v = u) PROVE Knows(q, v)
    <3>1. PICK s \in Slots : eng'[q][s].listed /\ eng'[q][s].user = v
      BY <2>12 DEF Knows, Listed
    <3>2. eng[q][s].listed /\ eng[q][s].user = v
      <4>1. CASE q # p
        BY <2>8, <3>1, <4>1
      <4>2. CASE q = p
        <5>1. s # new /\ s \notin Listed(p, u)
          BY <2>3, <2>4, <2>6, <2>8, <2>12, <3>1, <4>2
        <5> QED
          BY <2>5, <2>8, <3>1, <4>2, <5>1
      <4> QED
        BY <4>1, <4>2
    <3> QED
      BY <3>2 DEF Knows, Listed
  <2> QED
    BY <2>9, <2>10, <2>11, <2>12
<1> QED
  BY <1>1, <1>2

\* An engine fails, or the worker gets a signal, or dies.
LEMMA EngineFailsKeepsInv ==
    ASSUME WorkerInv, NEW p \in Pods, NEW s \in Slots, EngineFails(p, s)
    PROVE  WorkerInv' /\ Shrinks
<1> USE DEF WorkerInv, WorkerTypeOK
<1> DEFINE u == eng[p][s].user
           others == Listed(p, u) \ {s}
<1>1. eng[p][s] \in Engine /\ u \in Users /\ kind' = kind /\ pod[p] # "down"
  BY DEF Engine, EngineFails
<1>2. CASE kind = "process"
  <2>1. pod' = [pod EXCEPT ![p] = "down"] /\ eng' = [eng EXCEPT ![p] = Empty] /\ replaced' = replaced
    BY <1>2 DEF EngineFails
  <2>2. /\ eng' \in [Pods -> [Slots -> Engine]] /\ pod' \in [Pods -> {"down", "up", "stopping"}]
        /\ \A t \in Slots : eng'[p][t] = NoEngine
        /\ \A q \in Pods : q # p => eng'[q] = eng[q] /\ pod'[q] = pod[q]
    BY <2>1, NoEngineType DEF Empty
  <2>3. \A q \in Pods, t \in Slots : eng'[q][t] = NoEngine \/ (q # p /\ pod[q] # "down")
    BY <2>2 DEF DeadIsEmpty
  <2> QED
    BY <1>1, <2>1, <2>2, <2>3, EnginesKeepInv
<1>3. CASE kind # "process"
  <2> DEFINE after == [t \in Slots |-> IF t = s THEN NoEngine
                                       ELSE IF t \in others THEN [eng[p][t] EXCEPT !.listed = FALSE]
                                       ELSE eng[p][t]]
  <2>1. /\ eng' = [eng EXCEPT ![p] = after] /\ pod' = pod
        /\ replaced' = IF others = {} THEN replaced ELSE replaced \cup {u}
    BY <1>3 DEF EngineFails
  <2>2. ASSUME NEW t \in Slots, t \in others
        PROVE  /\ after[t] \in Engine /\ ~after[t].listed /\ after[t].stage = eng[p][t].stage
               /\ after[t].user = eng[p][t].user /\ after[t].user = u /\ after[t].stopped = eng[p][t].stopped
    <3>1. eng[p][t] \in Engine /\ eng[p][t].user = u /\ t # s
      BY <2>2 DEF Listed
    <3>2. after[t] = [eng[p][t] EXCEPT !.listed = FALSE]
      BY <2>2, <3>1
    <3> HIDE DEF after
    <3> QED
      BY <3>1, <3>2 DEF Engine
  <2>3. after[s] = NoEngine /\ \A t \in Slots : t # s /\ t \notin others => after[t] = eng[p][t]
    OBVIOUS
  <2>4. after \in [Slots -> Engine]
    <3>1. \A t \in Slots : after[t] \in Engine
      BY <2>2, <2>3, NoEngineType
    <3>2. after = [t \in Slots |-> after[t]]
      OBVIOUS
    <3> HIDE DEF after
    <3> QED
      BY <3>1, <3>2
  <2> HIDE DEF after
  <2>5. /\ eng' \in [Pods -> [Slots -> Engine]] /\ eng'[p] = after
        /\ \A q \in Pods : q # p => eng'[q] = eng[q]
    BY <2>1, <2>4
  <2>6. replaced \subseteq replaced' /\ replaced' \subseteq Users /\ (others # {} => u \in replaced')
    BY <1>1, <2>1
  <2>7. ASSUME NEW q \in Pods, NEW t \in Slots
        PROVE  \/ eng'[q][t] = NoEngine
               \/ /\ pod'[q] # "down" /\ eng'[q][t].user = eng[q][t].user
                  /\ eng'[q][t].listed => eng[q][t].listed
                  /\ eng'[q][t].stage \in Starting /\ ~eng'[q][t].stopped /\ pod'[q] = "up" =>
                        /\ eng[q][t].stage \in Starting /\ ~eng[q][t].stopped /\ pod[q] = "up"
                        /\ eng[q][t].listed => eng'[q][t].listed \/ eng[q][t].user \in replaced'
    <3>1. CASE q = p /\ t = s
      BY <2>3, <2>5, <3>1
    <3>2. CASE q = p /\ t # s /\ t \in others
      BY <1>1, <2>1, <2>2, <2>5, <2>6, <3>2
    <3>3. CASE q # p \/ (t # s /\ t \notin others)
      <4>1. eng'[q][t] = eng[q][t]
        BY <2>3, <2>5, <3>3
      <4> QED
        BY <2>1, <4>1 DEF DeadIsEmpty
    <3> QED
      BY <3>1, <3>2, <3>3
  <2> QED
    BY <1>1, <2>1, <2>5, <2>6, <2>7, EnginesKeepInv
<1> QED
  BY <1>2, <1>3

LEMMA HandleSignalKeepsInv ==
    ASSUME WorkerInv, NEW p \in Pods, HandleSignal(p)
    PROVE  WorkerInv' /\ Shrinks
<1> USE DEF WorkerInv, WorkerTypeOK
<1> DEFINE after == [s \in Slots |-> IF eng[p][s].listed THEN [eng[p][s] EXCEPT !.stopped = TRUE] ELSE eng[p][s]]
<1>1. /\ pod' = [pod EXCEPT ![p] = "stopping"] /\ eng' = [eng EXCEPT ![p] = after]
      /\ UNCHANGED <<kind, replaced>>
  BY DEF HandleSignal
<1>2. ASSUME NEW s \in Slots
      PROVE  /\ after[s] \in Engine /\ after[s].user = eng[p][s].user /\ after[s].listed = eng[p][s].listed
             /\ after[s].stage = eng[p][s].stage
  <2>1. eng[p][s] \in Engine
    OBVIOUS
  <2>2. after[s] = IF eng[p][s].listed THEN [eng[p][s] EXCEPT !.stopped = TRUE] ELSE eng[p][s]
    OBVIOUS
  <2> HIDE DEF after
  <2> QED
    BY <2>1, <2>2, ZenonT(60) DEF Engine
<1>3. after \in [Slots -> Engine]
  <2>1. after = [s \in Slots |-> after[s]]
    OBVIOUS
  <2> HIDE DEF after
  <2> QED
    BY <1>2, <2>1
<1> HIDE DEF after
<1>4. /\ eng' \in [Pods -> [Slots -> Engine]] /\ eng'[p] = after
      /\ pod' \in [Pods -> {"down", "up", "stopping"}] /\ pod'[p] = "stopping"
      /\ \A q \in Pods : q # p => eng'[q] = eng[q] /\ pod'[q] = pod[q]
  BY <1>1, <1>3
<1>5. ASSUME NEW q \in Pods, NEW t \in Slots
      PROVE  \/ eng'[q][t] = NoEngine
             \/ /\ pod'[q] # "down" /\ eng'[q][t].user = eng[q][t].user
                /\ eng'[q][t].listed => eng[q][t].listed
                /\ pod'[q] = "up" => q # p /\ eng'[q][t] = eng[q][t] /\ pod[q] = "up"
  <2>1. CASE q = p
    BY <1>2, <1>4, <2>1
  <2>2. CASE q # p
    BY <1>4, <2>2 DEF DeadIsEmpty
  <2> QED
    BY <2>1, <2>2
<1> QED
  BY <1>1, <1>4, <1>5, EnginesKeepInv

LEMMA DiesKeepsInv ==
    ASSUME WorkerInv, NEW p \in Pods, Dies(p)
    PROVE  WorkerInv' /\ Shrinks
<1> USE DEF WorkerInv, WorkerTypeOK
<1>1. /\ pod' = [pod EXCEPT ![p] = "down"] /\ eng' = [eng EXCEPT ![p] = Empty]
      /\ UNCHANGED <<kind, replaced>>
  BY DEF Dies
<1>2. /\ eng' \in [Pods -> [Slots -> Engine]] /\ pod' \in [Pods -> {"down", "up", "stopping"}]
      /\ \A t \in Slots : eng'[p][t] = NoEngine
      /\ \A q \in Pods : q # p => eng'[q] = eng[q] /\ pod'[q] = pod[q]
  BY <1>1, NoEngineType DEF Empty
<1>3. \A q \in Pods, t \in Slots : eng'[q][t] = NoEngine \/ (q # p /\ pod[q] # "down")
  BY <1>2 DEF DeadIsEmpty
<1> QED
  BY <1>1, <1>2, <1>3, EnginesKeepInv

LEMMA PodStartsKeepsInv ==
    ASSUME WorkerInv, NEW p \in Pods, PodStarts(p)
    PROVE  WorkerInv' /\ Shrinks
<1> USE DEF WorkerInv, WorkerTypeOK
<1>1. pod[p] = "down" /\ pod' = [pod EXCEPT ![p] = "up"] /\ UNCHANGED <<kind, eng, replaced>>
  BY DEF PodStarts
<1>2. pod' \in [Pods -> {"down", "up", "stopping"}] /\ \A q \in Pods : q # p => pod'[q] = pod[q]
  BY <1>1
<1>3. \A q \in Pods, t \in Slots : eng'[q][t] = NoEngine \/ (q # p /\ pod[q] # "down")
  BY <1>1 DEF DeadIsEmpty
<1> QED
  BY <1>1, <1>2, <1>3, EnginesKeepInv

\* What the master and the workers do, but for engines that are run for a user.
WorkerMoves ==
    \/ \E p \in Pods, s \in Slots : EngineStep(p, s) \/ GoesIdle(p, s) \/ EngineFails(p, s)
    \/ \E p \in Pods : HandleSignal(p) \/ Dies(p) \/ PodStarts(p)

LEMMA WorkerMovesKeepsInv == WorkerInv /\ WorkerMoves => WorkerInv' /\ Shrinks
BY EngineStepKeepsInv, EngineFailsKeepsInv, HandleSignalKeepsInv, DiesKeepsInv, PodStartsKeepsInv DEF WorkerMoves

-----------------------------------------------------------------------------
(* The controller and the resources.                                           *)

RecType == [pc : {"none", "get", "gone", "moved", "decided", "delete", "update"},
            user : Users, found : BOOLEAN, old : Pods \cup {NoPod}, backend : Pods \cup {NoPod},
            state : {"", "running", "idle", "stopped"}, fresh : BOOLEAN]

(* What Reconcile has read of a resource that has changed since is gone: the   *)
(* resource has no backend then.                                               *)
ReadIsKnown ==
    /\ \A u \in Users : ~cr[u].exists => cr[u].backend = NoPod
    /\ rec.pc # "none" =>
        /\ ~rec.fresh \/ ~rec.found => cr[rec.user].backend = NoPod
        /\ rec.fresh /\ rec.found => cr[rec.user].exists
        /\ ~rec.found => rec.pc \in {"get", "gone"} /\ rec.old = NoPod
        /\ rec.pc = "get" => cr[rec.user].backend \in {rec.old, NoPod} /\ rec.backend = NoPod
        /\ rec.pc = "gone" => ~rec.found

(* The calls of Reconcile go to pods.                                          *)
ReachesPods ==
    rec.pc # "none" =>
        /\ kind # "process"
        /\ rec.pc = "moved" => rec.old \in Pods
        /\ rec.pc # "get" => rec.backend \in Pods

(* The one pod where an engine of a user may run: the one that the status      *)
(* names, or else his backend; and while Reconcile is about him what it has    *)
(* read, and then has chosen.                                                  *)
Place(u) ==
    IF rec.pc # "none" /\ rec.user = u
    THEN IF rec.pc = "get" THEN IF rec.old # NoPod THEN rec.old ELSE Backend(u)
         ELSE IF rec.pc = "moved" THEN rec.old
         ELSE rec.backend
    ELSE IF cr[u].backend # NoPod THEN cr[u].backend ELSE Backend(u)
RunsInPlace == ~lost /\ ~missed => \A u \in Users, p \in Pods : Knows(p, u) => p = Place(u)

ClusterInv ==
    /\ KubernetesTypeOK /\ rec \in RecType /\ lost \in BOOLEAN /\ missed \in BOOLEAN
    /\ WorkerInv /\ ReachesPods
    /\ kind = "shared" => ReadIsKnown /\ RunsInPlace

LEMMA BackendType ==
    ASSUME KubernetesTypeOK, NEW u \in Users
    PROVE  Backend(u) \in Pods \cup {NoPod}
<1>1. Own \in Pods
  BY WorkerAssumption DEF Own
<1>2. ASSUME endpoints # <<>> PROVE endpoints[1 + (Uid[u] % Len(endpoints))] \in Pods
  <2>1. endpoints \in Seq(Pods) /\ Len(endpoints) \in Nat /\ Len(endpoints) >= 1
    BY <1>2 DEF KubernetesTypeOK
  <2>2. Uid[u] % Len(endpoints) \in 0..(Len(endpoints) - 1)
    <3>1. Uid[u] \in Nat
      BY KubernetesAssumption
    <3> QED
      BY <2>1, <3>1
  <2>3. 1 + (Uid[u] % Len(endpoints)) \in 1..Len(endpoints)
    BY <2>1, <2>2
  <2> QED
    BY <2>1, <2>3
<1> QED
  BY <1>1, <1>2 DEF Backend

LEMMA NoRecType ==
    NoRec \in RecType /\ NoRec.pc = "none" /\ NoRec.backend = NoPod /\ NoRec.fresh = TRUE
BY WorkerAssumption DEF NoRec, RecType

LEMMA ClusterInitInv == ClusterInit => ClusterInv
<1> SUFFICES ASSUME ClusterInit PROVE ClusterInv
  OBVIOUS
<1> USE DEF ClusterInit
<1>1. WorkerInv
  BY WorkerInitInv
<1>2. KubernetesTypeOK
  BY <1>1 DEF WorkerInv, KubernetesTypeOK, NoUser
<1>3. \A u \in Users, p \in Pods : ~Knows(p, u)
  BY NoEngineType DEF WorkerInit, Knows, Listed
<1>4. ReadIsKnown /\ RunsInPlace
  BY <1>3, NoRecType DEF ReadIsKnown, RunsInPlace, NoUser
<1> QED
  BY <1>1, <1>2, <1>4, NoRecType DEF ClusterInv, ReachesPods

\* Where an engine is that the controller has not lost track of.
LEMMA TrackedIsKnown ==
    ASSUME kind' = "shared", Tracking, ~lost', NEW u \in Users, NEW p \in Pods, Knows(p, u)'
    PROVE  p \in {cr'[u].backend, Backend(u)'}
                    \cup (IF rec'.pc # "none" /\ rec'.user = u THEN {rec'.old, rec'.backend} ELSE {})
BY DEF Tracking, Untracked, Tracked

\* Workers change nothing that the controller knows.
LEMMA WorkersKeepInv ==
    ASSUME ClusterInv, WorkerInv', kind' = kind, Shrinks,
           UNCHANGED <<endpoints, deployment, cr, workqueue, rec, missed, lost>>
    PROVE  ClusterInv'
<1>1. KubernetesTypeOK'
  BY DEF ClusterInv, KubernetesTypeOK, WorkerInv
<1>2. kind = "shared" => ReadIsKnown'
  BY DEF ClusterInv, ReadIsKnown
<1>3. ReachesPods'
  BY DEF ClusterInv, ReachesPods
<1>4. kind = "shared" => RunsInPlace'
  <2>1. \A u \in Users : Place(u)' = Place(u)
    BY DEF Place, Backend
  <2> QED
    BY <2>1 DEF ClusterInv, RunsInPlace, Shrinks
<1> QED
  BY <1>1, <1>2, <1>3, <1>4 DEF ClusterInv

\* A call of Reconcile is over: its resource is what it leaves in the status.
LEMMA FinishKeepsInv ==
    ASSUME ClusterInv, rec.pc # "none", rec' = NoRec, Tracking, UNCHANGED <<kind, endpoints>>,
           deployment' \in {"none", "created", "service"}, workqueue' \subseteq Users,
           NEW c \in [exists : BOOLEAN, backend : Pods \cup {NoPod}],
           cr' = [cr EXCEPT ![rec.user] = c], kind = "shared" /\ ~c.exists => c.backend = NoPod,
           missed' \in BOOLEAN, missed => missed', WorkerInv', kind = "shared" => Shrinks,
           kind = "shared" /\ ~lost' /\ ~missed' /\ c.backend # NoPod =>
                \A u \in Users, p \in Pods : u = rec.user /\ Knows(p, u)' => p = c.backend
    PROVE  ClusterInv'
<1> USE DEF ClusterInv, KubernetesTypeOK
<1>1. rec.user \in Users
  BY DEF RecType
<1>2. /\ cr' \in [Users -> [exists : BOOLEAN, backend : Pods \cup {NoPod}]]
      /\ cr'[rec.user] = c /\ \A u \in Users : u # rec.user => cr'[u] = cr[u]
  BY <1>1
<1>3. KubernetesTypeOK' /\ rec' \in RecType
  BY <1>2, NoRecType DEF WorkerInv
<1>4. lost' \in BOOLEAN /\ (lost => lost')
  BY DEF Tracking
<1>5. ASSUME kind = "shared" PROVE ReadIsKnown' /\ RunsInPlace'
  <2>1. ReadIsKnown'
    BY <1>2, <1>5, NoRecType DEF ReadIsKnown
  <2>2. ASSUME ~lost', ~missed', NEW u \in Users, NEW p \in Pods, Knows(p, u)' PROVE p = Place(u)'
    <3>1. p \in {cr'[u].backend, Backend(u)'} /\ NoPod \notin Pods /\ kind' = "shared"
      BY <1>5, <2>2, TrackedIsKnown, NoRecType, KubernetesAssumption
    <3>2. CASE u = rec.user
      <4>1. Place(u)' = IF c.backend # NoPod THEN c.backend ELSE Backend(u)'
        BY <1>2, <3>2, NoRecType DEF Place
      <4> QED
        BY <1>2, <1>5, <2>2, <3>1, <3>2, <4>1
    <3>3. CASE u # rec.user
      <4>1. Place(u)' = Place(u)
        BY <1>2, <3>3, NoRecType DEF Place, Backend
      <4>2. Knows(p, u)
        BY <1>5, <2>2 DEF Shrinks
      <4> QED
        BY <1>4, <1>5, <2>2, <4>1, <4>2 DEF RunsInPlace
    <3> QED
      BY <3>2, <3>3
  <2> QED
    BY <2>1, <2>2 DEF RunsInPlace
<1>6. ReachesPods'
  BY NoRecType DEF ReachesPods
<1> QED
  BY <1>3, <1>4, <1>5, <1>6

\* The status is written, or is not any more that of the resource that was read.
LEMMA DoneKeepsInv ==
    ASSUME ClusterInv, rec.pc # "none", NEW found \in BOOLEAN, NEW b \in Pods \cup {NoPod},
           Done(rec.user, found, rec.fresh, b), Tracking,
           UNCHANGED <<worker, endpoints, missed>>, deployment' \in {"none", "created", "service"},
           kind = "shared" => found = rec.found /\ (rec.pc = "get" => b = Backend(rec.user))
                              /\ (rec.pc # "get" => rec.pc \notin {"gone", "moved"} /\ b = rec.backend)
    PROVE  ClusterInv'
<1> USE DEF ClusterInv, KubernetesTypeOK, worker
<1> DEFINE u == rec.user
           c == IF found /\ rec.fresh THEN [cr[u] EXCEPT !.backend = b] ELSE cr[u]
<1>1. u \in Users /\ cr[u] \in [exists : BOOLEAN, backend : Pods \cup {NoPod}] /\ rec.fresh \in BOOLEAN
  BY DEF RecType
<1>2. /\ c \in [exists : BOOLEAN, backend : Pods \cup {NoPod}] /\ c.exists = cr[u].exists
      /\ c.backend = IF found /\ rec.fresh THEN b ELSE cr[u].backend
  BY <1>1
<1>3. rec' = NoRec /\ cr' = [cr EXCEPT ![u] = c] /\ workqueue' \subseteq Users
  BY <1>1 DEF Done
<1>4. WorkerInv' /\ Shrinks
  BY DEF WorkerInv, WorkerTypeOK, DeadIsEmpty, StartingIsKnown, Shrinks, Knows, Listed
<1>5. kind = "shared" /\ ~c.exists => c.backend = NoPod
  BY <1>1, <1>2, NoRecType DEF ReadIsKnown
<1> HIDE DEF c
<1>6. ASSUME kind = "shared", ~lost', ~missed', c.backend # NoPod,
             NEW v \in Users, NEW p \in Pods, v = rec.user, Knows(p, v)'
      PROVE  p = c.backend
  <2>1. found /\ rec.fresh /\ c.backend = b /\ rec.found = found
    BY <1>2, <1>6 DEF ReadIsKnown
  <2>2. Knows(p, v) /\ p = Place(v)
    BY <1>4, <1>6 DEF Shrinks, RunsInPlace, Tracking
  <2>3. CASE rec.pc = "get"
    <3>1. p \in {cr'[v].backend, Backend(v)'}
      BY <1>3, <1>6, TrackedIsKnown, NoRecType
    <3>2. Backend(v)' = Backend(v) /\ b = Backend(v) /\ cr'[v] = c
      BY <1>1, <1>3, <1>6, <2>3 DEF Backend
    <3> QED
      BY <2>1, <3>1, <3>2
  <2>4. CASE rec.pc # "get"
    BY <1>6, <2>1, <2>2, <2>4 DEF Place
  <2> QED
    BY <2>3, <2>4
<1> HIDE DEF u
<1>7. kind = "shared" /\ ~lost' /\ ~missed' /\ c.backend # NoPod =>
        \A v \in Users, p \in Pods : v = rec.user /\ Knows(p, v)' => p = c.backend
  BY <1>6
<1> QED
  BY <1>2, <1>3, <1>4, <1>5, <1>7, FinishKeepsInv DEF u

LEMMA KilledKeepsInv ==
    ASSUME ClusterInv, NEW p \in Pods, NEW u \in Users, KillCalled(p, u), UNCHANGED <<kind, pod, replaced>>
    PROVE  /\ WorkerInv' /\ Shrinks
           /\ missed' \in BOOLEAN /\ (missed => missed')
           /\ ~missed' => ~Knows(p, u)'
<1>1. CASE pod[p] # "down" /\ eng' = [eng EXCEPT ![p] = KillEngine(p, u)] /\ missed' = missed
  BY <1>1, KillEngineKeepsInv DEF ClusterInv
<1>2. CASE missed' = (missed \/ pod[p] # "down") /\ UNCHANGED eng
  <2>1. WorkerInv' /\ Shrinks
    BY <1>2 DEF ClusterInv, WorkerInv, WorkerTypeOK, DeadIsEmpty, StartingIsKnown, Shrinks, Knows, Listed
  <2>2. pod[p] = "down" => ~Knows(p, u)
    BY NoEngineType DEF ClusterInv, WorkerInv, DeadIsEmpty, Knows, Listed
  <2> QED
    BY <1>2, <2>1, <2>2 DEF ClusterInv, Shrinks
<1> QED
  BY <1>1, <1>2 DEF KillCalled

LEMMA SameWorkers ==
    ASSUME WorkerInv, UNCHANGED worker PROVE WorkerInv' /\ Shrinks /\ \A p \in Pods, u \in Users : Knows(p, u)' = Knows(p, u)
BY DEF worker, WorkerInv, WorkerTypeOK, DeadIsEmpty, StartingIsKnown, Shrinks, Knows, Listed

-----------------------------------------------------------------------------
(* The steps of Reconcile.                                                     *)

LEMMA ReconcileKeepsInv == ASSUME ClusterInv, NEW u \in Users, Reconcile(u) PROVE ClusterInv'
<1> USE DEF ClusterInv, KubernetesTypeOK, Reconcile
<1>1. /\ rec' \in RecType /\ rec'.pc = "get" /\ rec'.user = u /\ rec'.found = cr[u].exists
      /\ rec'.old = cr[u].backend /\ rec'.backend = NoPod /\ rec'.fresh = TRUE
  BY NoRecType DEF RecType
<1>2. WorkerInv' /\ Shrinks
  BY SameWorkers
<1>3. ReachesPods' /\ KubernetesTypeOK'
  BY <1>1, <1>2 DEF ReachesPods, WorkerInv, worker
<1>4. kind = "shared" => ReadIsKnown'
  BY <1>1 DEF ReadIsKnown
<1>5. \A v \in Users : Place(v)' = Place(v)
  BY <1>1 DEF Place, Backend, worker
<1>6. kind = "shared" => RunsInPlace'
  BY <1>2, <1>5 DEF RunsInPlace, Shrinks
<1> QED
  BY <1>1, <1>2, <1>3, <1>4, <1>6 DEF worker

LEMMA MakeDeploymentKeepsInv == ClusterInv /\ MakeDeployment => ClusterInv'
BY DoneKeepsInv DEF MakeDeployment, ClusterInv, KubernetesTypeOK

LEMMA DeleteDeploymentKeepsInv == ClusterInv /\ DeleteDeployment => ClusterInv'
<1> SUFFICES ASSUME ClusterInv, DeleteDeployment PROVE ClusterInv'
  OBVIOUS
<1> USE DEF ClusterInv, KubernetesTypeOK, DeleteDeployment
<1>1. Own \in Pods /\ rec.user \in Users
  BY WorkerAssumption DEF Own, RecType
<1>2. WorkerInv'
  <2>1. CASE eng' = [eng EXCEPT ![Own] = KillEngine(Own, rec.user)]
    BY <1>1, <2>1, KillEngineKeepsInv
  <2>2. CASE UNCHANGED eng
    BY <2>2, SameWorkers DEF worker
  <2> QED
    BY <2>1, <2>2
<1> QED
  BY <1>2, NoRecType DEF WorkerInv, ReachesPods

LEMMA EngineStatusKeepsInv == ClusterInv /\ EngineStatus => ClusterInv'
<1> SUFFICES ASSUME ClusterInv, EngineStatus PROVE ClusterInv'
  OBVIOUS
<1> USE DEF ClusterInv, KubernetesTypeOK
<1> DEFINE u == rec.user
           b == Backend(u)
           old == IF rec.found /\ rec.old # b THEN rec.old ELSE NoPod
           pc == IF ~rec.found THEN "gone" ELSE IF old # NoPod THEN "moved" ELSE "decided"
<1>1. rec \in RecType /\ rec.pc = "get" /\ u \in Users /\ b \in Pods
  BY BackendType DEF EngineStatus, RecType
<1>2. Status(b, u) \in {"running", "idle", "stopped"}
  BY DEF Status
<1>3. /\ rec' = [rec EXCEPT !.backend = b, !.state = Status(b, u), !.old = old, !.pc = pc]
      /\ UNCHANGED <<worker, endpoints, deployment, cr, workqueue, missed, lost, faults>>
  <2>1. rec.old \in Pods \cup {NoPod} /\ rec.found \in BOOLEAN
    BY DEF RecType
  <2>2. [rec EXCEPT !.backend = b, !.state = Status(b, u), !.old = old].old = old
    BY <1>1 DEF RecType
  <2>3. [rec EXCEPT !.backend = b, !.state = Status(b, u), !.old = old] =
        [rec EXCEPT !.backend = b, !.state = Status(b, u), !.old = IF rec.found /\ @ # b THEN @ ELSE NoPod]
    BY <1>1 DEF RecType
  <2> QED
    BY <1>1, <2>2, <2>3 DEF EngineStatus
<1>4. old \in Pods \cup {NoPod} /\ pc \in {"gone", "moved", "decided"}
  BY <1>1 DEF RecType
<1>5. rec' \in RecType /\ rec'.pc = pc /\ rec'.user = u /\ rec'.found = rec.found /\ rec'.old = old
      /\ rec'.backend = b /\ rec'.fresh = rec.fresh
  <2>1. b \in Pods \cup {NoPod} /\ rec.user = u
    BY <1>1
  <2>2. rec' = [rec EXCEPT !.backend = b, !.state = Status(b, u), !.old = old, !.pc = pc]
    BY <1>3
  <2> DEFINE st == Status(b, u)
  <2> HIDE DEF u, b, old, pc, st
  <2> QED
    BY <1>1, <1>2, <1>4, <2>1, <2>2, ZenonT(60) DEF RecType, st
<1>6. WorkerInv' /\ Shrinks
  BY <1>3, SameWorkers
<1>7. kind # "process"
  BY <1>1 DEF ReachesPods
<1>8. KubernetesTypeOK' /\ ReachesPods'
  BY <1>1, <1>3, <1>4, <1>5, <1>6, <1>7 DEF WorkerInv, ReachesPods, worker
<1>9. ASSUME kind = "shared" PROVE ReadIsKnown' /\ RunsInPlace'
  <2>1. ReadIsKnown'
    BY <1>1, <1>3, <1>5, <1>9 DEF ReadIsKnown
  <2>2. \A v \in Users : Place(v)' = Place(v)
    <3> SUFFICES ASSUME NEW v \in Users PROVE Place(v)' = Place(v)
      OBVIOUS
    <3>1. Backend(v)' = Backend(v)
      BY <1>3 DEF Backend, worker
    <3>2. CASE v = u
      <4>1. Place(v)' = IF pc = "moved" THEN old ELSE b
        BY <1>4, <1>5, <3>2 DEF Place
      <4>2. Place(v) = IF rec.old # NoPod THEN rec.old ELSE b
        BY <1>1, <3>2 DEF Place
      <4>3. ~rec.found => rec.old = NoPod
        BY <1>1, <1>9 DEF ReadIsKnown
      <4> QED
        BY <1>1, <4>1, <4>2, <4>3
    <3>3. CASE v # u
      <4>1. cr' = cr
        BY <1>3
      <4> HIDE DEF u
      <4> QED
        BY <1>5, <3>1, <3>3, <4>1 DEF Place, u
    <3> QED
      BY <3>2, <3>3
  <2> QED
    BY <1>3, <1>6, <1>9, <2>1, <2>2 DEF RunsInPlace, Shrinks
<1> QED
  BY <1>3, <1>5, <1>6, <1>8, <1>9 DEF worker

LEMMA EngineStatusFailsKeepsInv == ClusterInv /\ EngineStatusFails => ClusterInv'
<1> SUFFICES ASSUME ClusterInv, EngineStatusFails PROVE ClusterInv'
  OBVIOUS
<1> USE DEF ClusterInv, KubernetesTypeOK
<1>1. rec.user \in Users /\ rec.found \in BOOLEAN /\ rec.pc = "get"
  BY DEF RecType, EngineStatusFails
<1>2. Backend(rec.user) \in Pods \cup {NoPod}
  BY <1>1, BackendType
<1>3. /\ Done(rec.user, rec.found, rec.fresh, Backend(rec.user)) /\ Tracking
      /\ UNCHANGED <<worker, endpoints, deployment, missed>>
  BY DEF EngineStatusFails
<1> QED
  BY <1>1, <1>2, <1>3, DoneKeepsInv

LEMMA KillDeletedKeepsInv == ClusterInv /\ KillDeleted => ClusterInv'
<1> SUFFICES ASSUME ClusterInv, KillDeleted PROVE ClusterInv'
  OBVIOUS
<1> USE DEF ClusterInv, KubernetesTypeOK, KillDeleted
<1>1. rec.user \in Users /\ rec.backend \in Pods
  BY DEF RecType, ReachesPods
<1>2. WorkerInv' /\ Shrinks /\ missed' \in BOOLEAN /\ (missed => missed')
  <2>1. CASE KillCalled(rec.backend, rec.user)
    BY <1>1, <2>1, KilledKeepsInv
  <2>2. CASE UNCHANGED eng /\ missed' = (missed \/ (rec.state = "stopped" /\ Knows(rec.backend, rec.user)))
    BY <2>2, SameWorkers DEF worker
  <2> QED
    BY <2>1, <2>2
<1> DEFINE c == cr[rec.user]
<1>3. /\ c \in [exists : BOOLEAN, backend : Pods \cup {NoPod}] /\ cr' = [cr EXCEPT ![rec.user] = c]
      /\ kind = "shared" => c.backend = NoPod
  BY <1>1 DEF ReadIsKnown
<1> HIDE DEF c
<1> QED
  BY <1>2, <1>3, FinishKeepsInv

LEMMA BackendChangedKeepsInv == ClusterInv /\ BackendChanged => ClusterInv'
<1> SUFFICES ASSUME ClusterInv, BackendChanged PROVE ClusterInv'
  OBVIOUS
<1> USE DEF ClusterInv, KubernetesTypeOK
<1>1. /\ rec.user \in Users /\ rec.old \in Pods /\ rec.backend \in Pods /\ rec.pc = "moved"
      /\ KillCalled(rec.old, rec.user)
      /\ UNCHANGED <<kind, pod, replaced, endpoints, deployment, cr, workqueue, lost, faults>>
  BY DEF RecType, ReachesPods, BackendChanged, KillOld
<1>2. /\ WorkerInv' /\ Shrinks /\ missed' \in BOOLEAN /\ (missed => missed')
      /\ ~missed' => \A p \in Pods, u \in Users : p = rec.old /\ u = rec.user => ~Knows(p, u)'
  <2>1. \A p \in Pods, u \in Users : KillCalled(p, u) =>
          /\ WorkerInv' /\ Shrinks /\ missed' \in BOOLEAN /\ (missed => missed')
          /\ ~missed' => ~Knows(p, u)'
    BY <1>1, KilledKeepsInv
  <2> QED
    BY <1>1, <2>1
<1>3. /\ rec' \in RecType /\ rec'.pc = "decided" /\ rec'.user = rec.user /\ rec'.found = rec.found
      /\ rec'.fresh = rec.fresh /\ rec'.backend = rec.backend
  BY DEF RecType, BackendChanged, Goes
<1>4. KubernetesTypeOK' /\ ReachesPods'
  BY <1>1, <1>2, <1>3 DEF WorkerInv, ReachesPods
<1>5. ASSUME kind = "shared" PROVE ReadIsKnown' /\ RunsInPlace'
  <2>1. ReadIsKnown'
    BY <1>1, <1>3, <1>5 DEF ReadIsKnown
  <2>2. ASSUME ~lost', ~missed', NEW u \in Users, NEW p \in Pods, Knows(p, u)' PROVE p = Place(u)'
    <3>1. p = Place(u)
      BY <1>1, <1>2, <1>5, <2>2 DEF RunsInPlace, Shrinks
    <3>2. u # rec.user
      BY <1>1, <1>2, <2>2, <3>1 DEF Place
    <3>3. Place(u)' = Place(u)
      BY <1>1, <1>3, <3>2 DEF Place, Backend
    <3> QED
      BY <3>1, <3>3
  <2> QED
    BY <2>1, <2>2 DEF RunsInPlace
<1> QED
  BY <1>1, <1>2, <1>3, <1>4, <1>5

LEMMA StillRunningKeepsInv == ClusterInv /\ (StillRunning \/ UpdateStatus) => ClusterInv'
<1> SUFFICES ASSUME ClusterInv, StillRunning \/ UpdateStatus PROVE ClusterInv'
  OBVIOUS
<1> USE DEF ClusterInv, KubernetesTypeOK
<1>1. /\ rec.pc \in {"decided", "update"} /\ Done(rec.user, TRUE, rec.fresh, rec.backend) /\ Tracking
      /\ UNCHANGED <<worker, endpoints, deployment, missed>>
  BY DEF StillRunning, UpdateStatus
<1>2. rec.backend \in Pods \cup {NoPod} /\ rec.found \in BOOLEAN
  BY DEF RecType
<1>3. kind = "shared" => rec.found = TRUE
  BY <1>1, <1>2 DEF ReadIsKnown
<1> QED
  BY <1>1, <1>2, <1>3, DoneKeepsInv

LEMMA KillIdleKeepsInv == ClusterInv /\ KillIdle => ClusterInv'
<1> SUFFICES ASSUME ClusterInv, KillIdle PROVE ClusterInv'
  OBVIOUS
<1> USE DEF ClusterInv, KubernetesTypeOK
<1>1. /\ rec.user \in Users /\ rec.backend \in Pods /\ rec.pc = "decided"
      /\ KillCalled(rec.backend, rec.user)
      /\ UNCHANGED <<kind, pod, replaced, endpoints, deployment, cr, workqueue, lost, faults>>
  BY DEF RecType, ReachesPods, KillIdle
<1>2. WorkerInv' /\ Shrinks /\ missed' \in BOOLEAN /\ (missed => missed')
  BY <1>1, KilledKeepsInv
<1>3. /\ rec' \in RecType /\ rec'.pc = "delete" /\ rec'.user = rec.user /\ rec'.found = rec.found
      /\ rec'.fresh = rec.fresh /\ rec'.backend = rec.backend
  BY DEF RecType, KillIdle, Goes
<1>4. KubernetesTypeOK' /\ ReachesPods'
  BY <1>1, <1>2, <1>3 DEF WorkerInv, ReachesPods
<1>5. kind = "shared" => ReadIsKnown'
  BY <1>1, <1>3 DEF ReadIsKnown
<1>6. \A u \in Users : Place(u)' = Place(u)
  BY <1>1, <1>3 DEF Place, Backend
<1>7. kind = "shared" => RunsInPlace'
  BY <1>1, <1>2, <1>6 DEF RunsInPlace, Shrinks
<1> QED
  BY <1>1, <1>2, <1>3, <1>4, <1>5, <1>7

LEMMA DeleteIdleKeepsInv == ClusterInv /\ DeleteIdle => ClusterInv'
<1> SUFFICES ASSUME ClusterInv, DeleteIdle PROVE ClusterInv'
  OBVIOUS
<1> USE DEF ClusterInv, KubernetesTypeOK, DeleteIdle
<1> DEFINE c == IF cr[rec.user].exists THEN NoUser ELSE cr[rec.user]
<1>1. rec.user \in Users /\ cr[rec.user] \in [exists : BOOLEAN, backend : Pods \cup {NoPod}]
  BY DEF RecType
<1>2. /\ c \in [exists : BOOLEAN, backend : Pods \cup {NoPod}] /\ ~c.exists
      /\ kind = "shared" => c.backend = NoPod
  BY <1>1 DEF ReadIsKnown, NoUser
<1>3. cr' = [cr EXCEPT ![rec.user] = c] /\ workqueue' \subseteq Users
  BY <1>1 DEF Write
<1>4. WorkerInv' /\ Shrinks
  BY SameWorkers
<1> HIDE DEF c
<1> QED
  BY <1>2, <1>3, <1>4, FinishKeepsInv DEF worker

LEMMA RunStoppedKeepsInv == ClusterInv /\ RunStopped => ClusterInv'
<1> SUFFICES ASSUME ClusterInv, RunStopped PROVE ClusterInv'
  OBVIOUS
<1> USE DEF ClusterInv, KubernetesTypeOK
<1>1. /\ rec.user \in Users /\ rec.backend \in Pods /\ rec.pc = "decided" /\ kind # "process"
      /\ UNCHANGED <<kind, pod, replaced, endpoints, deployment, cr, workqueue, missed, lost>>
  BY DEF RecType, ReachesPods, RunStopped
<1>2. /\ WorkerInv'
      /\ \A p \in Pods, u \in Users : Knows(p, u)' => Knows(p, u) \/ (p = rec.backend /\ u = rec.user)
  <2>1. CASE UNCHANGED eng
    BY <1>1, <2>1, SameWorkers DEF worker
  <2>2. CASE /\ pod[rec.backend] # "down" /\ CanRun(rec.backend, rec.user)
             /\ eng' = [eng EXCEPT ![rec.backend] = RunEngine(rec.backend, rec.user)]
    <3>1. replaced \subseteq replaced' /\ replaced' \subseteq Users
      BY <1>1 DEF WorkerInv, WorkerTypeOK
    <3> QED
      BY <1>1, <2>2, <3>1, RunEngineKeepsInv, ZenonT(60)
  <2> QED
    BY <2>1, <2>2 DEF RunStopped
<1>3. /\ rec' \in RecType /\ rec'.pc = "update" /\ rec'.user = rec.user /\ rec'.found = rec.found
      /\ rec'.fresh = rec.fresh /\ rec'.backend = rec.backend
  BY DEF RecType, RunStopped, Goes
<1>4. KubernetesTypeOK' /\ ReachesPods'
  BY <1>1, <1>2, <1>3 DEF WorkerInv, ReachesPods
<1>5. kind = "shared" => ReadIsKnown'
  BY <1>1, <1>3 DEF ReadIsKnown
<1>6. \A u \in Users : Place(u)' = Place(u) /\ (u = rec.user => Place(u) = rec.backend)
  BY <1>1, <1>3 DEF Place, Backend
<1>7. kind = "shared" => RunsInPlace'
  BY <1>1, <1>2, <1>6 DEF RunsInPlace
<1> QED
  BY <1>1, <1>2, <1>3, <1>4, <1>5, <1>7

-----------------------------------------------------------------------------
(* The front end, the endpoints and the master.                                *)

LEMMA TouchedType ==
    ASSUME rec \in RecType, NEW u \in Users, Touched(u)
    PROVE  /\ rec' \in RecType /\ rec'.pc = rec.pc /\ rec'.user = rec.user /\ rec'.found = rec.found
           /\ rec'.old = rec.old /\ rec'.backend = rec.backend
           /\ rec'.fresh = (rec.fresh /\ ~(rec.pc # "none" /\ rec.user = u))
BY DEF RecType, Touched

LEMMA CreateUserKeepsInv == ASSUME ClusterInv, NEW u \in Users, CreateUser(u) PROVE ClusterInv'
<1> USE DEF ClusterInv, KubernetesTypeOK, CreateUser, Write
<1> DEFINE new == [NoUser EXCEPT !.exists = TRUE]
<1>1. new \in [exists : BOOLEAN, backend : Pods \cup {NoPod}] /\ new.exists /\ new.backend = NoPod
  BY DEF NoUser
<1>2. cr' = [cr EXCEPT ![u] = new] /\ workqueue' \subseteq Users
  OBVIOUS
<1> HIDE DEF new
<1>3. cr'[u] = new /\ \A v \in Users : v # u => cr'[v] = cr[v]
  BY <1>2
<1>4. WorkerInv' /\ Shrinks
  BY SameWorkers
<1>5. KubernetesTypeOK' /\ rec' \in RecType /\ ReachesPods'
  BY <1>1, <1>2, <1>4, TouchedType, ZenonT(200) DEF WorkerInv, ReachesPods, worker
<1>6. ASSUME kind = "shared" PROVE ReadIsKnown' /\ RunsInPlace'
  <2>1. cr[u].backend = NoPod /\ \A v \in Users : cr'[v].backend = cr[v].backend
    BY <1>1, <1>3, <1>6 DEF ReadIsKnown
  <2>2. rec.pc # "none" => rec.user \in Users
    BY DEF RecType
  <2>3. ReadIsKnown'
    BY <1>1, <1>3, <1>6, <2>1, <2>2, TouchedType DEF ReadIsKnown
  <2>4. \A v \in Users : Place(v)' = Place(v)
    BY <2>1, TouchedType DEF Place, Backend, worker
  <2> QED
    BY <1>4, <1>6, <2>3, <2>4 DEF RunsInPlace, Shrinks
<1> QED
  BY <1>4, <1>5, <1>6 DEF worker

LEMMA DeleteUserKeepsInv == ASSUME ClusterInv, NEW u \in Users, DeleteUser(u) PROVE ClusterInv'
<1> USE DEF ClusterInv, KubernetesTypeOK, DeleteUser, Write
<1>1. /\ cr' \in [Users -> [exists : BOOLEAN, backend : Pods \cup {NoPod}]]
      /\ cr'[u] = NoUser /\ \A v \in Users : v # u => cr'[v] = cr[v]
  BY DEF NoUser
<1>2. WorkerInv' /\ Shrinks
  BY SameWorkers
<1>3. KubernetesTypeOK' /\ rec' \in RecType /\ ReachesPods'
  BY <1>1, <1>2, TouchedType DEF WorkerInv, ReachesPods, worker
<1>4. lost' \in BOOLEAN /\ (lost => lost')
  BY DEF Tracking
<1>5. ASSUME kind = "shared" PROVE ReadIsKnown' /\ RunsInPlace'
  <2>1. ~NoUser.exists /\ NoUser.backend = NoPod
    BY DEF NoUser
  <2>2. rec.user \in Users /\ rec.fresh \in BOOLEAN
    BY DEF RecType
  <2>3. ReadIsKnown'
    BY <1>1, <1>5, <2>1, <2>2, TouchedType DEF ReadIsKnown
  <2>4. ASSUME ~lost', ~missed', NEW v \in Users, NEW p \in Pods, Knows(p, v)' PROVE p = Place(v)'
    <3>1. p = Place(v)
      BY <1>2, <1>4, <1>5, <2>4 DEF RunsInPlace, Shrinks
    <3>2. CASE v # u \/ (rec.pc # "none" /\ rec.user = v)
      <4>1. Place(v)' = Place(v)
        BY <1>1, <3>2, TouchedType DEF Place, Backend, worker
      <4> QED
        BY <3>1, <4>1
    <3>3. CASE v = u /\ ~(rec.pc # "none" /\ rec.user = v)
      <4>1. p \in {NoPod, Backend(v)'}
        BY <1>1, <1>5, <2>1, <2>4, <3>3, TrackedIsKnown, TouchedType DEF worker
      <4>2. Place(v)' = Backend(v)'
        BY <1>1, <2>1, <3>3, TouchedType DEF Place
      <4> QED
        BY <4>1, <4>2, KubernetesAssumption
    <3> QED
      BY <3>2, <3>3
  <2> QED
    BY <2>3, <2>4 DEF RunsInPlace
<1> QED
  BY <1>2, <1>3, <1>4, <1>5 DEF worker

LEMMA EndpointsChangeKeepsInv == ClusterInv /\ EndpointsChange => ClusterInv'
<1> SUFFICES ASSUME ClusterInv, EndpointsChange PROVE ClusterInv'
  OBVIOUS
<1> USE DEF ClusterInv, KubernetesTypeOK
<1>1. /\ kind = "shared" /\ endpoints' \in Seq(Pods) /\ UNCHANGED <<deployment, cr, workqueue, rec, missed>>
      /\ UNCHANGED worker /\ Tracking
  BY KubernetesAssumption DEF EndpointsChange
<1>2. WorkerInv' /\ Shrinks /\ kind' = "shared"
  BY <1>1, SameWorkers DEF worker
<1>3. KubernetesTypeOK' /\ ReachesPods' /\ ReadIsKnown'
  BY <1>1, <1>2 DEF WorkerInv, ReachesPods, ReadIsKnown
<1>4. lost' \in BOOLEAN /\ (lost => lost')
  BY <1>1 DEF Tracking
<1>5. ASSUME ~lost', ~missed', NEW u \in Users, NEW p \in Pods, Knows(p, u)' PROVE p = Place(u)'
  <2>1. p = Place(u) /\ NoPod \notin Pods
    BY <1>1, <1>2, <1>4, <1>5, KubernetesAssumption DEF RunsInPlace, Shrinks
  <2>2. p \in {cr[u].backend, Backend(u)'}
                 \cup (IF rec.pc # "none" /\ rec.user = u THEN {rec.old, rec.backend} ELSE {})
    BY <1>1, <1>2, <1>5, TrackedIsKnown
  <2>3. CASE rec.pc # "none" /\ rec.user = u
    <3>1. CASE rec.pc = "get"
      <4>1. cr[u].backend \in {rec.old, NoPod} /\ rec.backend = NoPod
        BY <1>1, <2>3, <3>1 DEF ReadIsKnown
      <4>2. Place(u)' = IF rec.old # NoPod THEN rec.old ELSE Backend(u)'
        BY <1>1, <2>3, <3>1 DEF Place
      <4>3. rec.old # NoPod => p = rec.old
        BY <2>1, <2>3, <3>1 DEF Place
      <4> QED
        BY <2>1, <2>2, <2>3, <4>1, <4>2, <4>3
    <3>2. CASE rec.pc # "get"
      <4>1. Place(u)' = Place(u)
        BY <1>1, <2>3, <3>2 DEF Place
      <4> QED
        BY <2>1, <4>1
    <3> QED
      BY <3>1, <3>2
  <2>4. CASE ~(rec.pc # "none" /\ rec.user = u)
    <3>1. Place(u)' = IF cr[u].backend # NoPod THEN cr[u].backend ELSE Backend(u)'
      BY <1>1, <2>4 DEF Place
    <3>2. cr[u].backend # NoPod => p = cr[u].backend
      BY <2>1, <2>4 DEF Place
    <3> QED
      BY <2>1, <2>2, <2>4, <3>1, <3>2
  <2> QED
    BY <2>3, <2>4
<1>6. RunsInPlace'
  BY <1>5 DEF RunsInPlace
<1> QED
  BY <1>1, <1>2, <1>3, <1>4, <1>6

LEMMA MasterCallsKeepsInv ==
    ASSUME ClusterInv, NEW p \in Pods, NEW u \in Users, MasterCalls(p, u) PROVE ClusterInv'
<1> USE DEF ClusterInv, KubernetesTypeOK
<1>1. kind = "process" /\ pod[p] = "up" /\ UNCHANGED <<kind, pod, k8s>>
  BY DEF MasterCalls
<1>2. CASE /\ CanRun(p, u) /\ eng' = [eng EXCEPT ![p] = RunEngine(p, u)]
           /\ replaced' = IF Listed(p, u) = {} THEN replaced ELSE replaced \cup {u}
  <2>1. replaced \subseteq replaced' /\ replaced' \subseteq Users /\ (Listed(p, u) # {} => u \in replaced')
    BY <1>2 DEF WorkerInv, WorkerTypeOK
  <2>2. WorkerInv'
    BY <1>1, <1>2, <2>1, RunEngineKeepsInv
  <2> QED
    BY <1>1, <2>2 DEF k8s, WorkerInv, ReachesPods
<1>3. CASE eng' = [eng EXCEPT ![p] = KillEngine(p, u)] /\ UNCHANGED replaced
  <2>1. WorkerInv'
    BY <1>1, <1>3, KillEngineKeepsInv
  <2> QED
    BY <1>1, <2>1 DEF k8s, WorkerInv, ReachesPods
<1> QED
  BY <1>2, <1>3 DEF MasterCalls

LEMMA WorkersMoveKeepsInv ==
    ASSUME ClusterInv, WorkerMoves, kind' = kind,
           UNCHANGED <<endpoints, deployment, cr, workqueue, rec, missed, lost>>
    PROVE  ClusterInv'
BY WorkersKeepInv, WorkerMovesKeepsInv DEF ClusterInv

LEMMA ClusterNextInv == ClusterInv /\ [ClusterNext]_clusterVars => ClusterInv'
<1> SUFFICES ASSUME ClusterInv, [ClusterNext]_clusterVars PROVE ClusterInv'
  OBVIOUS
<1>1. CASE Controller
  BY <1>1, ReconcileKeepsInv, MakeDeploymentKeepsInv, DeleteDeploymentKeepsInv, EngineStatusKeepsInv,
     EngineStatusFailsKeepsInv, KillDeletedKeepsInv, BackendChangedKeepsInv, StillRunningKeepsInv,
     KillIdleKeepsInv, DeleteIdleKeepsInv, RunStoppedKeepsInv DEF Controller
<1>2. CASE \E u \in Users : FrontEnd(u)
  BY <1>2, CreateUserKeepsInv, DeleteUserKeepsInv, SMTT(60) DEF FrontEnd
<1>3. CASE \E p \in Pods, s \in Slots : OfWorker(p, s)
  BY <1>3, WorkersMoveKeepsInv, ZenonT(200) DEF OfWorker, WorkerMoves, k8s, EngineStep, GoesIdle, EngineFails
<1>4. CASE \E p \in Pods : PodStops(p) \/ PodDies(p) \/ PodStarts(p)
  <2>1. WorkerMoves
    BY <1>4 DEF WorkerMoves, PodStops, PodDies, WorkerExits
  <2> QED
    BY <1>4, <2>1, WorkersMoveKeepsInv
       DEF PodStops, PodDies, PodStarts, k8s, HandleSignal, WorkerExits, Dies
<1>5. CASE \E p \in Pods, u \in Users : MasterCalls(p, u)
  BY <1>5, MasterCallsKeepsInv
<1>6. CASE EndpointsChange
  BY <1>6, EndpointsChangeKeepsInv
<1>7. CASE UNCHANGED clusterVars
  <2>1. WorkerInv' /\ Shrinks
    BY <1>7, SameWorkers DEF ClusterInv, clusterVars, worker
  <2> QED
    BY <1>7, <2>1, WorkersKeepInv DEF clusterVars, k8s
<1> QED
  BY <1>1, <1>2, <1>3, <1>4, <1>5, <1>6, <1>7 DEF ClusterNext

(* Almond on Kubernetes has no engine that nobody would stop: inside a worker   *)
(* (runEngine and killEngine of worker_k8s.ts and worker.ts) an engine that     *)
(* gets to run and was not told to stop is on the map, or a late error or a     *)
(* second start has taken it off; and with the calls of Reconcile of            *)
(* user_controller.go, while the endpoints change, no user has engines in two   *)
(* pods unless the controller has lost track of one or a call to kill it was    *)
(* missed.                                                                      *)
THEOREM EngineIsKnown == ClusterSpec => []EnginesAreKnown
<1>1. ClusterInv => EnginesAreKnown
  <2> SUFFICES ASSUME ClusterInv PROVE EnginesAreKnown
    OBVIOUS
  <2>1. NoStrayEngine
    BY DEF NoStrayEngine, ClusterInv, WorkerInv, StartingIsKnown, Starting
  <2>2. OneBackend
    BY DEF OneBackend, ClusterInv, RunsInPlace
  <2> QED
    BY <2>1, <2>2 DEF EnginesAreKnown
<1> QED
  BY <1>1, ClusterInitInv, ClusterNextInv, PTL DEF ClusterSpec
================================================================================
