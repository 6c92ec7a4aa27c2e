------------------------- MODULE EngineProcessProofs -------------------------
(* Theorems about EngineProcess objects, for any number of objects, children*)
(* and kills: a shared object never has two workers in service, the first   *)
(* loss of its worker leaves a restart behind, and the death that a         *)
(* separate process reports is real.                                        *)
EXTENDS EngineProcess, TLAPS

-----------------------------------------------------------------------------
(* What holds of one object.  OneServingChild alone is not inductive: an    *)
(* event of an old child may restart the object only while `hadExit` is     *)
(* FALSE, and then there was no other child (FirstLife); and kill() reaches *)
(* whatever child is in service because that is always the last one spawned *)
(* (ServingIsLast), to which _child refers if to any (ChildIsLast).         *)
ChildIsLast(r)   == r.child \in {0, r.spawned}
NotYetSpawned(r) == \A n \in Child : n > r.spawned =>
                        r.os[n] = "none" /\ r.asked[n] = "no"
ServingIsLast(r) == \A n \in Child :
                        Serving(r, n) => n = r.spawned /\ ~r.delaying
FirstLife(r)     == ~r.hadExit => /\ r.spawned \in {0, 1}
                                  /\ ~r.delaying
                                  /\ \A k \in Kill : ~r.timer[k]
BootingPending(r) == \A n \in Child :
                        r.os[n] \in {"none", "booting"} => r.attempt[n] = "pending"

TalksToLast(r) == r.rpc = r.spawned \/ r.delaying

ObjectInv(r) == /\ r \in Process
                /\ ChildIsLast(r)
                /\ NotYetSpawned(r)
                /\ ServingIsLast(r)
                /\ FirstLife(r)
                /\ BootingPending(r)
                /\ TalksToLast(r)

(* A shared object is started with EngineManager, and in its first life     *)
(* everything that ends the service of its child emits 'exit', which starts *)
(* the timer of restart().                                                  *)
LossRestarts(r) == r.spawned = 1 /\ (r.hadExit \/ ~Serving(r, 1)) => r.delaying

(* A worker that was asked to exit is still under the timeout of a kill().  *)
TermIsTimed(r) == \A n \in Child : Alive(r, n) /\ r.asked[n] = "term"
                                      => \E k \in Kill : r.timer[k]

(* A separate object has one child and is never restarted.                  *)
OneLife(r) == /\ r.spawned \in {0, 1}
              /\ ~r.delaying
              /\ r.spawned = 0 => \A k \in Kill : r.dead[k] = "none"
              /\ (\E k \in Kill : r.dead[k] = "resolved")
                     => \A n \in Child : ~Alive(r, n)
              /\ r.spawned = 1 /\ r.child = 0 => r.hadExit /\ r.os[1] = "dead"
              /\ TermIsTimed(r)

ProcessInv ==
    /\ TypeOK
    /\ \A p \in Proc : ObjectInv(proc[p])
    /\ \A p \in SharedProc : proc[p].spawned # 0
    /\ \A p \in SharedProc : master = "up" /\ ~stopped => LossRestarts(proc[p])
    /\ \A p \in Proc \ SharedProc : OneLife(proc[p])

-----------------------------------------------------------------------------
(* The effect of each handler on the fields that the invariants look at.    *)
LEMMA StartedFields ==
    ASSUME NEW r \in Process, r.spawned < MaxSpawn
    PROVE  LET s == Started(r)
           IN  /\ s \in Process
               /\ s.spawned = r.spawned + 1 /\ s.child = r.spawned + 1
               /\ s.os = [r.os EXCEPT ![r.spawned + 1] = "booting"]
               /\ s.asked = r.asked /\ s.attempt = r.attempt
               /\ s.timer = r.timer /\ s.dead = r.dead
               /\ s.hadExit = r.hadExit /\ ~s.delaying
               /\ s.rpc = r.spawned + 1
<1>1. /\ r.spawned + 1 \in Child
      /\ r.spawned + 1 \in 0..MaxSpawn
      /\ r.spawned + 1 \in 0..MaxSpawn + 1
  BY ProcessAssumption, SMTT(60) DEF Process, Child
<1>2. Started(r) \in Process
  BY <1>1, ZenonT(60) DEF Started, Process
<1> QED
  BY <1>1, <1>2 DEF Started, Process

LEMMA ExitEmittedFields ==
    ASSUME NEW r \in Process, NEW again \in BOOLEAN
    PROVE  LET s == ExitEmitted(r, again)
           IN  /\ s \in Process
               /\ s.spawned = r.spawned
               /\ s.child = IF again THEN 0 ELSE r.child
               /\ ~again => s.rpc = r.rpc
               /\ s.os = r.os /\ s.asked = r.asked /\ s.attempt = r.attempt
               /\ s.timer = r.timer /\ s.dead = r.dead
               /\ s.hadExit
               /\ (s.delaying <=> again \/ r.delaying)
<1> DEFINE t == [r EXCEPT !.hadExit = TRUE]
<1>1. t \in Process
  BY DEF Process
<1>2. 0 \in 0..MaxSpawn /\ r.spawned + 1 \in 0..MaxSpawn + 1
  BY ProcessAssumption DEF Process
<1>3. Restarted(t) \in Process
  BY <1>1, <1>2, ZenonT(60) DEF Restarted, Process
<1>4. ExitEmitted(r, again) \in Process
  BY <1>1, <1>3 DEF ExitEmitted
<1> QED
  BY <1>4, SMTT(60) DEF ExitEmitted, Restarted, Process

LEMMA BecameReadyFields ==
    ASSUME NEW r \in Process, NEW n \in Child
    PROVE  LET s == BecameReady(r, n)
           IN  /\ s \in Process
               /\ s.spawned = r.spawned /\ s.child = r.child /\ s.rpc = r.rpc
               /\ s.os = [r.os EXCEPT ![n] = "ready"]
               /\ s.attempt = [r.attempt EXCEPT ![n] = "ready"]
               /\ s.asked = r.asked /\ s.timer = r.timer /\ s.dead = r.dead
               /\ s.hadExit = r.hadExit /\ s.delaying = r.delaying
<1>1. n \in Attempt /\ 0 \in 0..MaxSpawn + 1
  BY ProcessAssumption DEF Child, Attempt
<1>2. BecameReady(r, n) \in Process
  BY <1>1 DEF BecameReady, Process
<1> QED
  BY <1>1, <1>2 DEF BecameReady, Process

LEMMA SpawnFailedFields ==
    ASSUME NEW r \in Process, NEW n \in Child
    PROVE  LET s == SpawnFailed(r, n)
           IN  /\ s \in Process
               /\ s.spawned = r.spawned /\ s.child = r.child /\ s.rpc = r.rpc
               /\ s.os = [r.os EXCEPT ![n] = "dead"]
               /\ s.attempt = [r.attempt EXCEPT ![n] = "failed"]
               /\ s.asked = r.asked /\ s.timer = r.timer /\ s.dead = r.dead
               /\ s.hadExit = r.hadExit /\ s.delaying = r.delaying
<1>1. n \in Attempt
  BY ProcessAssumption DEF Child, Attempt
<1>2. SpawnFailed(r, n) \in Process
  BY <1>1 DEF SpawnFailed, Process
<1> QED
  BY <1>1, <1>2 DEF SpawnFailed, Process

\* What is left of r when child n has closed its channel ...
LEMMA DisconnectedFields ==
    ASSUME NEW r \in Process, NEW n \in Child, NEW again \in BOOLEAN
    PROVE  LET s == Disconnected(r, n, again)
           IN  /\ s \in Process
               /\ s.spawned = r.spawned
               /\ s.child \in {0, r.child}
               /\ ~again => s.child = r.child
               /\ s.delaying \/ s.rpc = r.rpc
               /\ s.os = [r.os EXCEPT ![n] = "adrift"]
               /\ s.asked = r.asked /\ s.attempt = r.attempt
               /\ s.timer = r.timer /\ s.dead = r.dead
               /\ s.hadExit
               /\ (s.delaying <=> r.delaying \/ (again /\ ~r.hadExit))
<1> DEFINE t == [r EXCEPT !.os[n] = "adrift"]
<1>1. /\ t \in Process
      /\ t.os = [r.os EXCEPT ![n] = "adrift"]
      /\ t.spawned = r.spawned /\ t.child = r.child /\ t.rpc = r.rpc
      /\ t.asked = r.asked /\ t.attempt = r.attempt
      /\ t.timer = r.timer /\ t.dead = r.dead
      /\ t.hadExit = r.hadExit /\ t.delaying = r.delaying
  BY DEF Process
<1>2. Disconnected(r, n, again) = IF r.hadExit THEN t ELSE ExitEmitted(t, again)
  BY DEF Disconnected
<1>3. r.hadExit \in BOOLEAN /\ r.delaying \in BOOLEAN
  BY DEF Process
<1> HIDE DEF t
<1>4. CASE r.hadExit
  BY <1>1, <1>2, <1>4
<1>5. CASE ~r.hadExit
  <2> DEFINE e == ExitEmitted(t, again)
  <2>1. /\ e \in Process
        /\ e.spawned = t.spawned
        /\ e.child = IF again THEN 0 ELSE t.child
        /\ ~again => e.rpc = t.rpc
        /\ e.os = t.os /\ e.asked = t.asked /\ e.attempt = t.attempt
        /\ e.timer = t.timer /\ e.dead = t.dead
        /\ e.hadExit
        /\ (e.delaying <=> again \/ t.delaying)
    BY <1>1, ExitEmittedFields
  <2>2. Disconnected(r, n, again) = e
    BY <1>2, <1>5
  <2> HIDE DEF e
  <2> QED
    BY <1>1, <1>5, <2>1, <2>2
<1> QED
  BY <1>4, <1>5

\* ... or is gone.
LEMMA ChildGoneFields ==
    ASSUME NEW r \in Process, NEW n \in Child, NEW again \in BOOLEAN
    PROVE  LET s == ChildGone(r, n, again)
           IN  /\ s \in Process
               /\ s.spawned = r.spawned
               /\ s.child = 0
               /\ s.delaying \/ s.rpc = r.rpc
               /\ s.os = [r.os EXCEPT ![n] = "dead"]
               /\ s.asked = r.asked
               /\ \A m \in Child \ {n} : s.attempt[m] = r.attempt[m]
               /\ \A m \in Child : s.attempt[m] = "ready" => r.attempt[m] = "ready"
               /\ \A k \in Kill : s.timer[k] => r.timer[k]
               /\ \A k \in Kill : r.dead[k] = "none" => s.dead[k] = "none"
               /\ s.hadExit
               /\ (s.delaying <=> r.delaying \/ (again /\ ~r.hadExit))
<1> DEFINE t == [r EXCEPT
                   !.os[n] = "dead",
                   !.child = 0,
                   !.attempt[n] = IF @ = "pending" THEN "failed" ELSE @,
                   !.timer = [k \in Kill |-> @[k] /\ k # r.kills],
                   !.dead = [k \in Kill |-> IF k = r.kills /\ @[k] = "pending"
                                            THEN "resolved" ELSE @[k]]]
<1>1. t \in Process
  <2>1. n \in Attempt /\ 0 \in 0..MaxSpawn
    BY ProcessAssumption DEF Child, Attempt
  <2> QED
    BY <2>1, ZenonT(60) DEF Process
<1>2. /\ t.os = [r.os EXCEPT ![n] = "dead"]
      /\ t.attempt = [r.attempt EXCEPT ![n] = IF r.attempt[n] = "pending"
                                              THEN "failed" ELSE r.attempt[n]]
      /\ t.timer = [k \in Kill |-> r.timer[k] /\ k # r.kills]
      /\ t.dead = [k \in Kill |-> IF k = r.kills /\ r.dead[k] = "pending"
                                   THEN "resolved" ELSE r.dead[k]]
      /\ t.spawned = r.spawned /\ t.child = 0 /\ t.asked = r.asked
      /\ t.rpc = r.rpc
      /\ t.hadExit = r.hadExit /\ t.delaying = r.delaying
  BY DEF Process
<1>3. ChildGone(r, n, again) = IF r.hadExit THEN t ELSE ExitEmitted(t, again)
  BY DEF ChildGone
<1>4. /\ r.hadExit \in BOOLEAN /\ r.delaying \in BOOLEAN
      /\ Child \subseteq Attempt /\ r.attempt \in [Attempt -> {"pending", "ready", "failed"}]
  BY ProcessAssumption, SMTT(60) DEF Process, Child, Attempt
<1> HIDE DEF t
<1>5. /\ \A m \in Child \ {n} : t.attempt[m] = r.attempt[m]
      /\ \A m \in Child : t.attempt[m] = "ready" => r.attempt[m] = "ready"
      /\ \A k \in Kill : t.timer[k] => r.timer[k]
      /\ \A k \in Kill : r.dead[k] = "none" => t.dead[k] = "none"
  BY <1>2, <1>4, ZenonT(60)
<1>6. CASE r.hadExit
  <2>1. ChildGone(r, n, again) = t
    BY <1>3, <1>6
  <2> QED
    BY <1>1, <1>2, <1>5, <1>6, <2>1
<1>7. CASE ~r.hadExit
  <2> DEFINE e == ExitEmitted(t, again)
  <2>1. /\ e \in Process
        /\ e.spawned = t.spawned
        /\ e.child = IF again THEN 0 ELSE t.child
        /\ ~again => e.rpc = t.rpc
        /\ e.os = t.os /\ e.asked = t.asked /\ e.attempt = t.attempt
        /\ e.timer = t.timer /\ e.dead = t.dead
        /\ e.hadExit
        /\ (e.delaying <=> again \/ t.delaying)
    BY <1>1, ExitEmittedFields
  <2>2. ChildGone(r, n, again) = e
    BY <1>3, <1>7
  <2> HIDE DEF e
  <2>3. /\ \A m \in Child \ {n} : e.attempt[m] = r.attempt[m]
        /\ \A m \in Child : e.attempt[m] = "ready" => r.attempt[m] = "ready"
        /\ \A k \in Kill : e.timer[k] => r.timer[k]
        /\ \A k \in Kill : r.dead[k] = "none" => e.dead[k] = "none"
    BY <1>5, <2>1
  <2> QED
    BY <1>2, <1>7, <2>1, <2>2, <2>3, ZenonT(60)
<1> QED
  BY <1>6, <1>7, SMTT(200)

LEMMA KilledFields ==
    ASSUME NEW r \in Process, NEW sandboxed \in BOOLEAN, NEW w \in BOOLEAN,
           NEW again \in BOOLEAN, r.child # 0, r.kills < MaxKill
    PROVE  LET s == Killed(r, sandboxed, w, again)
               reaches == ~sandboxed \/ Connected(r, r.child)
           IN  /\ s \in Process
               /\ s.spawned = r.spawned
               /\ s.child \in {0, r.child}
               /\ ~again => s.child = r.child
               /\ s.delaying \/ s.rpc = r.rpc
               /\ s.os = r.os /\ s.attempt = r.attempt
               /\ s.asked = [r.asked EXCEPT ![r.child] =
                                IF reaches /\ r.asked[r.child] = "no"
                                THEN "term" ELSE r.asked[r.child]]
               /\ \A k \in Kill : s.dead[k] \in {"pending", r.dead[k]}
               /\ \E k \in Kill : s.timer[k]
               /\ s.hadExit
               /\ (s.delaying <=> again \/ r.delaying)
<1> DEFINE k == r.kills + 1
           reaches == ~sandboxed \/ Connected(r, r.child)
           t == [r EXCEPT
                   !.kills = k,
                   !.dead[k] = "pending",
                   !.timer[k] = TRUE,
                   !.watched[k] = w,
                   !.asked[r.child] = IF reaches /\ @ = "no" THEN "term" ELSE @]
<1>1. k \in Kill /\ k \in 0..MaxKill /\ r.child \in Child
  BY ProcessAssumption, SMTT(60) DEF Process, Kill, Child
<1> HIDE DEF k, reaches
<1>2. t \in Process
  BY <1>1, ZenonT(60) DEF Process
<1>3. /\ t.asked = [r.asked EXCEPT ![r.child] = IF reaches /\ r.asked[r.child] = "no"
                                                THEN "term" ELSE r.asked[r.child]]
      /\ t.dead = [r.dead EXCEPT ![k] = "pending"]
      /\ t.timer = [r.timer EXCEPT ![k] = TRUE]
      /\ t.os = r.os /\ t.attempt = r.attempt
      /\ t.spawned = r.spawned /\ t.child = r.child /\ t.rpc = r.rpc
      /\ t.delaying = r.delaying
  BY DEF Process
<1>4. r.dead \in [Kill -> {"none", "pending", "resolved", "rejected"}]
  BY DEF Process
<1>5. Killed(r, sandboxed, w, again) = ExitEmitted(t, again)
  BY DEF Killed, k, reaches
<1>6. \E j \in Kill : t.timer[j]
  BY <1>1, <1>3 DEF Process
<1> HIDE DEF t
<1> DEFINE e == ExitEmitted(t, again)
<1>7. /\ e \in Process
      /\ e.spawned = t.spawned
      /\ e.child = IF again THEN 0 ELSE t.child
      /\ ~again => e.rpc = t.rpc
      /\ e.os = t.os /\ e.asked = t.asked /\ e.attempt = t.attempt
      /\ e.timer = t.timer /\ e.dead = t.dead
      /\ e.hadExit
      /\ (e.delaying <=> again \/ t.delaying)
  BY <1>2, ExitEmittedFields
<1> HIDE DEF e
<1>8. \A j \in Kill : e.dead[j] \in {"pending", r.dead[j]}
  BY <1>3, <1>4, <1>7
<1>9. \E j \in Kill : e.timer[j]
  BY <1>6, <1>7
<1> QED
  BY <1>3, <1>5, <1>7, <1>8, <1>9 DEF reaches, e

LEMMA TimedOutFields ==
    ASSUME NEW r \in Process, NEW k \in Kill
    PROVE  LET s == TimedOut(r, k)
           IN  /\ s \in Process
               /\ s.spawned = r.spawned /\ s.child = r.child /\ s.rpc = r.rpc
               /\ s.os = r.os /\ s.attempt = r.attempt
               /\ s.asked = [n \in Child |-> IF n = r.child /\ Alive(r, n)
                                             THEN "kill" ELSE r.asked[n]]
               /\ \A j \in Kill : s.timer[j] => r.timer[j]
               /\ \A j \in Kill : s.dead[j] \in {"rejected", r.dead[j]}
               /\ \A j \in Kill : r.dead[j] = "none" => s.dead[j] = "none"
               /\ s.hadExit = r.hadExit /\ s.delaying = r.delaying
<1> DEFINE s == TimedOut(r, k)
<1>1. s \in Process
  BY ZenonT(60) DEF TimedOut, Process
<1>2. /\ s.spawned = r.spawned /\ s.child = r.child /\ s.rpc = r.rpc
      /\ s.os = r.os /\ s.attempt = r.attempt
      /\ s.asked = [n \in Child |-> IF n = r.child /\ Alive(r, n)
                                    THEN "kill" ELSE r.asked[n]]
      /\ s.timer = [r.timer EXCEPT ![k] = FALSE]
      /\ s.dead = [r.dead EXCEPT ![k] = IF r.dead[k] = "pending"
                                        THEN "rejected" ELSE r.dead[k]]
      /\ s.hadExit = r.hadExit /\ s.delaying = r.delaying
  BY DEF TimedOut, Process
<1>3. /\ r.timer \in [Kill -> BOOLEAN]
      /\ r.dead \in [Kill -> {"none", "pending", "resolved", "rejected"}]
  BY DEF Process
<1>4. \A j \in Kill : s.timer[j] => r.timer[j]
  BY <1>2, <1>3
<1>5. /\ \A j \in Kill : s.dead[j] \in {"rejected", r.dead[j]}
      /\ \A j \in Kill : r.dead[j] = "none" => s.dead[j] = "none"
  BY <1>2, <1>3
<1> QED
  BY <1>1, <1>2, <1>4, <1>5

-----------------------------------------------------------------------------
(* Each handler preserves the invariants of the object it works on.         *)
LEMMA StartedInv ==
    ASSUME NEW r, ObjectInv(r), r.spawned < MaxSpawn,
           r.delaying \/ r.spawned = 0
    PROVE  LET s == Started(r)
           IN  /\ ObjectInv(s)
               /\ s.spawned # 0
               /\ r.spawned # 0 => LossRestarts(s)
               /\ OneLife(r) => OneLife(s)
<1> DEFINE s == Started(r)
<1>1. /\ s \in Process
      /\ s.spawned = r.spawned + 1 /\ s.child = r.spawned + 1
      /\ s.os = [r.os EXCEPT ![r.spawned + 1] = "booting"]
      /\ s.asked = r.asked /\ s.attempt = r.attempt
      /\ s.timer = r.timer /\ s.dead = r.dead
      /\ s.hadExit = r.hadExit /\ ~s.delaying
      /\ s.rpc = r.spawned + 1
  BY StartedFields DEF ObjectInv
<1>2. /\ r \in Process /\ r.spawned \in Nat /\ r.os \in [Child -> {"none", "booting", "ready", "adrift", "dead"}]
      /\ r.asked \in [Child -> {"no", "term", "kill"}]
      /\ r.dead \in [Kill -> {"none", "pending", "resolved", "rejected"}]
  BY DEF ObjectInv, Process
<1> HIDE DEF s
<1>3. ObjectInv(s)
  <2>1. ChildIsLast(s) /\ NotYetSpawned(s)
    BY <1>1, <1>2 DEF ObjectInv, ChildIsLast, NotYetSpawned, Child
  <2>2. ServingIsLast(s)
    BY <1>1, <1>2 DEF ObjectInv, NotYetSpawned, ServingIsLast, Serving, Connected, Child
  <2>3. FirstLife(s)
    BY <1>1, <1>2 DEF ObjectInv, FirstLife
  <2>4. BootingPending(s)
    BY <1>1, <1>2 DEF ObjectInv, NotYetSpawned, BootingPending, Child
  <2> QED
    BY <1>1, <2>1, <2>2, <2>3, <2>4 DEF ObjectInv, TalksToLast
<1>4. s.spawned # 0 /\ (r.spawned # 0 => LossRestarts(s))
  BY <1>1, <1>2 DEF LossRestarts
<1>5. ASSUME OneLife(r) PROVE OneLife(s)
  <2>1. r.spawned = 0 /\ \A n \in Child : r.asked[n] = "no"
    <3>1. r.spawned = 0
      BY <1>2, <1>5 DEF OneLife, ObjectInv
    <3> QED
      BY <1>2, <3>1 DEF ObjectInv, NotYetSpawned, Child
  <2>2. TermIsTimed(s)
    BY <1>1, <2>1 DEF TermIsTimed
  <2> QED
    BY <1>1, <1>2, <1>5, <2>1, <2>2 DEF OneLife, Child
<1> QED
  BY <1>3, <1>4, <1>5 DEF s

LEMMA BecameReadyInv ==
    ASSUME NEW r, ObjectInv(r), NEW n \in Child, r.os[n] = "booting"
    PROVE  LET s == BecameReady(r, n)
           IN  /\ ObjectInv(s)
               /\ s.spawned = r.spawned
               /\ LossRestarts(r) => LossRestarts(s)
               /\ OneLife(r) => OneLife(s)
<1> DEFINE s == BecameReady(r, n)
<1>1. /\ s \in Process
      /\ s.spawned = r.spawned /\ s.child = r.child /\ s.rpc = r.rpc
      /\ s.os = [r.os EXCEPT ![n] = "ready"]
      /\ s.attempt = [r.attempt EXCEPT ![n] = "ready"]
      /\ s.asked = r.asked /\ s.timer = r.timer /\ s.dead = r.dead
      /\ s.hadExit = r.hadExit /\ s.delaying = r.delaying
  BY BecameReadyFields DEF ObjectInv
<1>2. /\ r.spawned \in Nat
      /\ r.os \in [Child -> {"none", "booting", "ready", "adrift", "dead"}]
      /\ r.attempt \in [Attempt -> {"pending", "ready", "failed"}]
      /\ Child \subseteq Attempt
  BY ProcessAssumption, SMTT(60) DEF ObjectInv, Process, Child, Attempt
<1> HIDE DEF s
<1>3. \A m \in Child : /\ Serving(s, m) <=> Serving(r, m)
                       /\ Alive(s, m) <=> Alive(r, m)
  BY <1>1, <1>2 DEF Serving, Connected, Alive
<1>4. ObjectInv(s)
  <2>1. ChildIsLast(s) /\ NotYetSpawned(s)
    BY <1>1, <1>2 DEF ObjectInv, ChildIsLast, NotYetSpawned
  <2>2. ServingIsLast(s) /\ FirstLife(s)
    BY <1>1, <1>3 DEF ObjectInv, ServingIsLast, FirstLife
  <2>3. BootingPending(s)
    BY <1>1, <1>2 DEF ObjectInv, BootingPending
  <2> QED
    BY <1>1, <2>1, <2>2, <2>3 DEF ObjectInv, TalksToLast
<1>5. ASSUME LossRestarts(r) PROVE LossRestarts(s)
  BY <1>1, <1>3, <1>5, ProcessAssumption DEF LossRestarts, Child
<1>6. ASSUME OneLife(r) PROVE OneLife(s)
  BY <1>1, <1>3, <1>6 DEF OneLife, TermIsTimed
<1> QED
  BY <1>1, <1>4, <1>5, <1>6 DEF s

LEMMA SpawnFailedInv ==
    ASSUME NEW r, ObjectInv(r), NEW n \in Child, r.os[n] = "booting"
    PROVE  LET s == SpawnFailed(r, n)
           IN  /\ ObjectInv(s)
               /\ s.spawned = r.spawned
               /\ LossRestarts(r) /\ n # 1 => LossRestarts(s)
               /\ OneLife(r) => OneLife(s)
<1> DEFINE s == SpawnFailed(r, n)
<1>1. /\ s \in Process
      /\ s.spawned = r.spawned /\ s.child = r.child /\ s.rpc = r.rpc
      /\ s.os = [r.os EXCEPT ![n] = "dead"]
      /\ s.attempt = [r.attempt EXCEPT ![n] = "failed"]
      /\ s.asked = r.asked /\ s.timer = r.timer /\ s.dead = r.dead
      /\ s.hadExit = r.hadExit /\ s.delaying = r.delaying
  BY SpawnFailedFields DEF ObjectInv
<1>2. /\ r.spawned \in Nat
      /\ r.os \in [Child -> {"none", "booting", "ready", "adrift", "dead"}]
      /\ r.attempt \in [Attempt -> {"pending", "ready", "failed"}]
      /\ Child \subseteq Attempt
  BY ProcessAssumption, SMTT(60) DEF ObjectInv, Process, Child, Attempt
<1> HIDE DEF s
<1>3. \A m \in Child : /\ Serving(s, m) => Serving(r, m)
                       /\ Alive(s, m) => Alive(r, m)
                       /\ m # n => (Serving(s, m) <=> Serving(r, m))
  BY <1>1, <1>2 DEF Serving, Connected, Alive
<1>4. ObjectInv(s)
  <2>1. ChildIsLast(s) /\ NotYetSpawned(s)
    BY <1>1, <1>2 DEF ObjectInv, ChildIsLast, NotYetSpawned
  <2>2. ServingIsLast(s) /\ FirstLife(s)
    BY <1>1, <1>3 DEF ObjectInv, ServingIsLast, FirstLife
  <2>3. BootingPending(s)
    BY <1>1, <1>2 DEF ObjectInv, BootingPending
  <2> QED
    BY <1>1, <2>1, <2>2, <2>3 DEF ObjectInv, TalksToLast
<1>5. ASSUME LossRestarts(r), n # 1 PROVE LossRestarts(s)
  BY <1>1, <1>3, <1>5, ProcessAssumption DEF LossRestarts, Child
<1>6. ASSUME OneLife(r) PROVE OneLife(s)
  BY <1>1, <1>3, <1>6 DEF OneLife, TermIsTimed
<1> QED
  BY <1>1, <1>4, <1>5, <1>6 DEF s

LEMMA DisconnectedInv ==
    ASSUME NEW r, ObjectInv(r), NEW n \in Child, NEW again \in BOOLEAN,
           Connected(r, n)
    PROVE  LET s == Disconnected(r, n, again)
           IN  /\ ObjectInv(s)
               /\ s.spawned = r.spawned
               /\ LossRestarts(r) /\ again => LossRestarts(s)
               /\ OneLife(r) /\ ~again => OneLife(s)
<1> DEFINE s == Disconnected(r, n, again)
<1>1. /\ s \in Process
      /\ s.spawned = r.spawned
      /\ s.child \in {0, r.child}
      /\ ~again => s.child = r.child
      /\ s.delaying \/ s.rpc = r.rpc
      /\ s.os = [r.os EXCEPT ![n] = "adrift"]
      /\ s.asked = r.asked /\ s.attempt = r.attempt
      /\ s.timer = r.timer /\ s.dead = r.dead
      /\ s.hadExit
      /\ (s.delaying <=> r.delaying \/ (again /\ ~r.hadExit))
  BY DisconnectedFields DEF ObjectInv
<1>2. /\ r.spawned \in Nat
      /\ r.os \in [Child -> {"none", "booting", "ready", "adrift", "dead"}]
  BY DEF ObjectInv, Process
<1>3. n <= r.spawned
  BY <1>2 DEF ObjectInv, NotYetSpawned, Connected, Child
<1> HIDE DEF s
<1>4. \A m \in Child : /\ Serving(s, m) => Serving(r, m) /\ m # n
                       /\ Alive(s, m) <=> Alive(r, m)
  BY <1>1, <1>2 DEF Serving, Connected, Alive
<1>5. ObjectInv(s)
  <2>1. ChildIsLast(s) /\ NotYetSpawned(s)
    BY <1>1, <1>2, <1>3 DEF ObjectInv, ChildIsLast, NotYetSpawned, Child
  <2>2. ServingIsLast(s)
    BY <1>1, <1>3, <1>4 DEF ObjectInv, ServingIsLast, FirstLife, Child
  <2>3. FirstLife(s) /\ BootingPending(s)
    BY <1>1, <1>2 DEF ObjectInv, FirstLife, BootingPending
  <2> QED
    BY <1>1, <2>1, <2>2, <2>3 DEF ObjectInv, TalksToLast
<1>6. ASSUME LossRestarts(r), again PROVE LossRestarts(s)
  BY <1>1, <1>6 DEF LossRestarts
<1>7. ASSUME OneLife(r), ~again PROVE OneLife(s)
  <2>1. r.spawned = 1 => n = 1
    BY <1>3 DEF Child
  <2>2. r.spawned = 1 => r.child # 0
    BY <1>7, <2>1 DEF OneLife, Connected
  <2> QED
    BY <1>1, <1>4, <1>7, <2>2 DEF OneLife, TermIsTimed
<1> QED
  BY <1>1, <1>5, <1>6, <1>7 DEF s

LEMMA ChildGoneInv ==
    ASSUME NEW r, ObjectInv(r), NEW n \in Child, NEW again \in BOOLEAN,
           Alive(r, n)
    PROVE  LET s == ChildGone(r, n, again)
           IN  /\ ObjectInv(s)
               /\ s.spawned = r.spawned
               /\ LossRestarts(r) /\ again => LossRestarts(s)
               /\ OneLife(r) /\ ~again => OneLife(s)
<1> DEFINE s == ChildGone(r, n, again)
<1>1. /\ s \in Process
      /\ s.spawned = r.spawned
      /\ s.child = 0
      /\ s.delaying \/ s.rpc = r.rpc
      /\ s.os = [r.os EXCEPT ![n] = "dead"]
      /\ s.asked = r.asked
      /\ \A m \in Child \ {n} : s.attempt[m] = r.attempt[m]
      /\ \A k \in Kill : r.dead[k] = "none" => s.dead[k] = "none"
      /\ s.hadExit
      /\ (s.delaying <=> r.delaying \/ (again /\ ~r.hadExit))
  BY ChildGoneFields DEF ObjectInv
<1>2. /\ r.spawned \in Nat
      /\ r.os \in [Child -> {"none", "booting", "ready", "adrift", "dead"}]
  BY DEF ObjectInv, Process
<1>3. n <= r.spawned
  BY <1>2 DEF ObjectInv, NotYetSpawned, Alive, Child
<1> HIDE DEF s
<1>4. \A m \in Child : /\ Serving(s, m) => Serving(r, m) /\ m # n
                       /\ Alive(s, m) => Alive(r, m) /\ m # n
  BY <1>1, <1>2 DEF Serving, Connected, Alive
<1>5. ObjectInv(s)
  <2>1. ChildIsLast(s) /\ NotYetSpawned(s)
    BY <1>1, <1>2, <1>3 DEF ObjectInv, ChildIsLast, NotYetSpawned, Child
  <2>2. ServingIsLast(s)
    BY <1>1, <1>3, <1>4 DEF ObjectInv, ServingIsLast, FirstLife, Child
  <2>3. FirstLife(s) /\ BootingPending(s)
    BY <1>1, <1>2 DEF ObjectInv, FirstLife, BootingPending
  <2> QED
    BY <1>1, <2>1, <2>2, <2>3 DEF ObjectInv, TalksToLast
<1>6. ASSUME LossRestarts(r), again PROVE LossRestarts(s)
  BY <1>1, <1>6 DEF LossRestarts
<1>7. ASSUME OneLife(r), ~again PROVE OneLife(s)
  <2>1. \A m \in Child : ~Alive(s, m)
    BY <1>1, <1>2, <1>3, <1>4, <1>7
       DEF OneLife, ObjectInv, NotYetSpawned, Alive, Child
  <2>2. r.spawned = 1 => n = 1
    BY <1>2, <1>3, ProcessAssumption DEF Child
  <2>3. r.spawned = 1 => s.os[1] = "dead"
    BY <1>1, <1>2, <2>2
  <2> QED
    BY <1>1, <1>7, <2>1, <2>3 DEF OneLife, TermIsTimed
<1> QED
  BY <1>1, <1>5, <1>6, <1>7 DEF s

LEMMA KilledInv ==
    ASSUME NEW r, ObjectInv(r), NEW sandboxed \in BOOLEAN, NEW w \in BOOLEAN,
           NEW again \in BOOLEAN, r.child = 0 \/ r.kills < MaxKill
    PROVE  LET s == Killed(r, sandboxed, w, again)
           IN  /\ ObjectInv(s)
               /\ s.spawned = r.spawned
               /\ LossRestarts(r) /\ again => LossRestarts(s)
               /\ OneLife(r) /\ ~again => OneLife(s)
<1> DEFINE s == Killed(r, sandboxed, w, again)
<1>1. CASE r.child = 0
  BY <1>1 DEF Killed
<1>2. CASE r.child # 0
  <2> DEFINE reaches == ~sandboxed \/ Connected(r, r.child)
  <2>1. /\ s \in Process
        /\ s.spawned = r.spawned
        /\ s.child \in {0, r.child}
        /\ ~again => s.child = r.child
        /\ s.delaying \/ s.rpc = r.rpc
        /\ s.os = r.os /\ s.attempt = r.attempt
        /\ s.asked = [r.asked EXCEPT ![r.child] =
                         IF reaches /\ r.asked[r.child] = "no"
                         THEN "term" ELSE r.asked[r.child]]
        /\ \A k \in Kill : s.dead[k] \in {"pending", r.dead[k]}
        /\ \E k \in Kill : s.timer[k]
        /\ s.hadExit
        /\ (s.delaying <=> again \/ r.delaying)
    BY <1>2, KilledFields DEF ObjectInv
  <2>2. /\ r.spawned \in Nat /\ r.child \in Child /\ r.child = r.spawned
        /\ r.asked \in [Child -> {"no", "term", "kill"}]
    BY <1>2 DEF ObjectInv, Process, ChildIsLast, Child
  <2> HIDE DEF s
  <2>3. \A m \in Child : ~Serving(s, m)
    <3>1. SUFFICES ASSUME NEW m \in Child, Serving(s, m) PROVE FALSE
      OBVIOUS
    <3>2. Serving(r, m)
      BY <2>1, <2>2, <3>1 DEF Serving, Connected
    <3>3. m = r.child /\ Connected(r, r.child) /\ r.asked[r.child] = "no"
      BY <2>2, <3>2 DEF ObjectInv, ServingIsLast, Serving
    <3>4. s.asked[m] = "term"
      BY <2>1, <2>2, <3>3
    <3> QED
      BY <3>1, <3>4 DEF Serving
  <2>4. ObjectInv(s)
    <3>1. ChildIsLast(s) /\ NotYetSpawned(s)
      BY <2>1, <2>2 DEF ObjectInv, ChildIsLast, NotYetSpawned, Child
    <3>2. ServingIsLast(s) /\ FirstLife(s) /\ BootingPending(s)
      BY <2>1, <2>3 DEF ObjectInv, ServingIsLast, FirstLife, BootingPending
    <3> QED
      BY <2>1, <3>1, <3>2 DEF ObjectInv, TalksToLast
  <2>5. ASSUME LossRestarts(r), again PROVE LossRestarts(s)
    BY <2>1, <2>5 DEF LossRestarts
  <2>6. ASSUME OneLife(r), ~again PROVE OneLife(s)
    <3>1. TermIsTimed(s)
      BY <2>1 DEF TermIsTimed
    <3> QED
      BY <1>2, <2>1, <2>2, <2>6, <3>1 DEF OneLife, Alive
  <2> QED
    BY <2>1, <2>4, <2>5, <2>6 DEF s
<1> QED
  BY <1>1, <1>2

LEMMA TimedOutInv ==
    ASSUME NEW r, ObjectInv(r), NEW k \in Kill, r.timer[k]
    PROVE  LET s == TimedOut(r, k)
           IN  /\ ObjectInv(s)
               /\ s.spawned = r.spawned
               /\ LossRestarts(r) => LossRestarts(s)
               /\ OneLife(r) => OneLife(s)
<1> DEFINE s == TimedOut(r, k)
<1>1. /\ s \in Process
      /\ s.spawned = r.spawned /\ s.child = r.child /\ s.rpc = r.rpc
      /\ s.os = r.os /\ s.attempt = r.attempt
      /\ s.asked = [n \in Child |-> IF n = r.child /\ Alive(r, n)
                                    THEN "kill" ELSE r.asked[n]]
      /\ \A j \in Kill : s.timer[j] => r.timer[j]
      /\ \A j \in Kill : s.dead[j] \in {"rejected", r.dead[j]}
      /\ \A j \in Kill : r.dead[j] = "none" => s.dead[j] = "none"
      /\ s.hadExit = r.hadExit /\ s.delaying = r.delaying
  BY TimedOutFields DEF ObjectInv
<1>2. r.hadExit
  BY DEF ObjectInv, FirstLife
<1>3. r.spawned \in Nat
  BY DEF ObjectInv, Process
<1> HIDE DEF s
<1>4. \A m \in Child : /\ Serving(s, m) => Serving(r, m)
                       /\ Alive(s, m) <=> Alive(r, m)
  BY <1>1 DEF Serving, Connected, Alive
<1>5. ObjectInv(s)
  <2>1. ChildIsLast(s) /\ NotYetSpawned(s)
    BY <1>1, <1>3 DEF ObjectInv, ChildIsLast, NotYetSpawned, Alive, Child
  <2>2. ServingIsLast(s) /\ FirstLife(s) /\ BootingPending(s)
    BY <1>1, <1>2, <1>4 DEF ObjectInv, ServingIsLast, FirstLife, BootingPending
  <2> QED
    BY <1>1, <2>1, <2>2 DEF ObjectInv, TalksToLast
<1>6. ASSUME LossRestarts(r) PROVE LossRestarts(s)
  BY <1>1, <1>2, <1>6 DEF LossRestarts
<1>7. ASSUME OneLife(r) PROVE OneLife(s)
  <2>1. \A j \in Kill : /\ r.dead[j] = "none" => s.dead[j] = "none"
                        /\ s.dead[j] = "resolved" => r.dead[j] = "resolved"
    BY <1>1
  <2>2. \A m \in Child : Alive(r, m) => m = r.child
    <3>1. SUFFICES ASSUME NEW m \in Child, Alive(r, m) PROVE m = r.child
      OBVIOUS
    <3>2. m = 1 /\ r.spawned = 1
      BY <1>3, <1>7, <3>1 DEF ObjectInv, OneLife, NotYetSpawned, Alive, Child
    <3>3. r.child # 0
      BY <1>7, <3>1, <3>2 DEF OneLife, Alive
    <3> QED
      BY <3>2, <3>3 DEF ObjectInv, ChildIsLast
  <2>3. TermIsTimed(s)
    BY <1>1, <1>4, <2>2 DEF TermIsTimed
  <2> QED
    BY <1>1, <1>4, <1>7, <2>1, <2>3 DEF OneLife
<1> QED
  BY <1>1, <1>5, <1>6, <1>7 DEF s

\* waitReady() changes nothing the invariants look at.
LEMMA HandledInv ==
    ASSUME NEW r, ObjectInv(r), NEW a \in Attempt, NEW b \in BOOLEAN
    PROVE  LET s == [r EXCEPT !.handled[a] = b]
           IN  /\ ObjectInv(s)
               /\ s.spawned = r.spawned
               /\ LossRestarts(r) => LossRestarts(s)
               /\ OneLife(r) => OneLife(s)
<1> DEFINE s == [r EXCEPT !.handled[a] = b]
<1>1. /\ s \in Process
      /\ s.spawned = r.spawned /\ s.child = r.child /\ s.rpc = r.rpc
      /\ s.os = r.os /\ s.attempt = r.attempt /\ s.asked = r.asked
      /\ s.timer = r.timer /\ s.dead = r.dead
      /\ s.hadExit = r.hadExit /\ s.delaying = r.delaying
  BY DEF ObjectInv, Process
<1> HIDE DEF s
<1>2. \A m \in Child : /\ Serving(s, m) <=> Serving(r, m)
                       /\ Alive(s, m) <=> Alive(r, m)
  BY <1>1 DEF Serving, Connected, Alive
<1>3. ObjectInv(s)
  BY <1>1, <1>2 DEF ObjectInv, ChildIsLast, NotYetSpawned, ServingIsLast,
                    FirstLife, BootingPending, TalksToLast
<1>4. LossRestarts(r) => LossRestarts(s)
  BY <1>1 DEF LossRestarts, Serving, Connected
<1>5. OneLife(r) => OneLife(s)
  BY <1>1, <1>2 DEF OneLife, TermIsTimed
<1> QED
  BY <1>1, <1>3, <1>4, <1>5 DEF s

-----------------------------------------------------------------------------
(* The initial state, and the steps.                                        *)
LEMMA NewProcessInv == ObjectInv(NewProcess) /\ OneLife(NewProcess)
<1>1. NewProcess \in Process
  <2>1. 0 \in 0..MaxSpawn /\ 0 \in 0..MaxSpawn + 1 /\ 0 \in 0..MaxKill
    BY ProcessAssumption
  <2> QED
    BY <2>1 DEF NewProcess, Process
<1>2. /\ NewProcess.child = 0 /\ NewProcess.spawned = 0 /\ NewProcess.rpc = 0
      /\ ~NewProcess.hadExit /\ ~NewProcess.delaying
      /\ \A n \in Child : NewProcess.os[n] = "none" /\ NewProcess.asked[n] = "no"
      /\ \A n \in Attempt : NewProcess.attempt[n] = "pending"
      /\ \A k \in Kill : NewProcess.dead[k] = "none" /\ ~NewProcess.timer[k]
  BY DEF NewProcess
<1>3. Child \subseteq Attempt
  BY ProcessAssumption DEF Child, Attempt
<1> QED
  BY <1>1, <1>2, <1>3
     DEF ObjectInv, ChildIsLast, NotYetSpawned, ServingIsLast, FirstLife,
         BootingPending, TalksToLast, OneLife, TermIsTimed,
         Serving, Connected, Alive

LEMMA InitInv == Init => ProcessInv
<1> SUFFICES ASSUME Init PROVE ProcessInv
  OBVIOUS
<1> USE ProcessAssumption
<1>1. /\ ObjectInv(NewProcess) /\ OneLife(NewProcess) /\ NewProcess \in Process
      /\ NewProcess.spawned = 0 /\ ~NewProcess.hadExit
  BY NewProcessInv DEF ObjectInv, NewProcess
<1> DEFINE s == Started(NewProcess)
<1>2. /\ ObjectInv(s) /\ s \in Process /\ s.spawned # 0
      /\ s.spawned = 1 /\ ~s.hadExit
      /\ s.os[1] = "booting" /\ s.asked[1] = "no"
  <2>1. ObjectInv(s) /\ s.spawned # 0
    BY <1>1, StartedInv
  <2>2. /\ s.spawned = 0 + 1
        /\ s.os = [NewProcess.os EXCEPT ![0 + 1] = "booting"]
        /\ s.asked = NewProcess.asked /\ s.hadExit = NewProcess.hadExit
    BY <1>1, StartedFields
  <2>3. /\ NewProcess.os = [n \in Child |-> "none"]
        /\ NewProcess.asked = [n \in Child |-> "no"]
        /\ 1 \in Child
    BY DEF NewProcess, Child
  <2> QED
    BY <1>1, <2>1, <2>2, <2>3 DEF ObjectInv
<1>3. LossRestarts(s)
  BY <1>2 DEF LossRestarts, Serving, Connected
<1> HIDE DEF s
<1>4. \A p \in Proc : proc[p] = IF p \in SharedProc THEN s ELSE NewProcess
  BY DEF Init, s
<1>5. TypeOK
  <2>1. proc \in [Proc -> Process]
    BY <1>1, <1>2 DEF Init, s
  <2>2. stopWaits \in [Proc -> 0..MaxKill]
    BY DEF Init
  <2> QED
    BY <2>1, <2>2 DEF Init, TypeOK
<1> QED
  BY <1>1, <1>2, <1>3, <1>4, <1>5 DEF ProcessInv

(* A step that gives object p the record s, where s is as a handler leaves  *)
(* it, preserves ProcessInv.                                                *)
LEMMA SetInv ==
    ASSUME ProcessInv, NEW p \in Proc, NEW s, Set(p, s), ObjectInv(s),
           p \in SharedProc => s.spawned # 0,
           p \in SharedProc /\ master' = "up" /\ ~stopped => LossRestarts(s),
           p \notin SharedProc => OneLife(s),
           registered' \subseteq Proc, UNCHANGED <<stopped, stopWaits>>,
           master' \in {master, "exited", "crashed"}
    PROVE  ProcessInv'
<1>1. /\ proc' = [proc EXCEPT ![p] = s] /\ s \in Process
      /\ proc \in [Proc -> Process]
  BY DEF Set, ObjectInv, ProcessInv, TypeOK
<1>2. TypeOK'
  BY <1>1 DEF ProcessInv, TypeOK
<1>3. \A q \in Proc : proc'[q] = IF q = p THEN s ELSE proc[q]
  BY <1>1
<1>4. (\A q \in Proc : ObjectInv(proc[q]))'
  BY <1>3 DEF ProcessInv
<1>5. (\A q \in SharedProc : proc[q].spawned # 0)'
  BY <1>3, ProcessAssumption DEF ProcessInv
<1>6. (\A q \in SharedProc : master = "up" /\ ~stopped => LossRestarts(proc[q]))'
  BY <1>3, ProcessAssumption DEF ProcessInv, TypeOK
<1>7. (\A q \in Proc \ SharedProc : OneLife(proc[q]))'
  BY <1>3 DEF ProcessInv
<1> QED
  BY <1>2, <1>4, <1>5, <1>6, <1>7 DEF ProcessInv

\* kill() of every listed object, in killAllUsers() and in stop().
LEMMA KillAllInv ==
    ASSUME ProcessInv, NEW halting \in BOOLEAN, KillAll(halting),
           ~stopped' => ~halting,
           stopped' \in BOOLEAN, stopped => stopped',
           UNCHANGED master,
           \/ UNCHANGED stopWaits
           \/ stopWaits' = [p \in Proc |-> IF p \in registered
                                           THEN proc'[p].kills ELSE 0]
    PROVE  ProcessInv'
<1>1. \A p \in Proc : LET s == proc'[p] IN
          /\ ObjectInv(s)
          /\ s.spawned = proc[p].spawned
          /\ p \in SharedProc /\ ~halting /\ LossRestarts(proc[p]) => LossRestarts(s)
          /\ p \notin SharedProc /\ OneLife(proc[p]) => OneLife(s)
  <2> SUFFICES ASSUME NEW p \in Proc
               PROVE  LET s == proc'[p] IN
                 /\ ObjectInv(s)
                 /\ s.spawned = proc[p].spawned
                 /\ p \in SharedProc /\ ~halting /\ LossRestarts(proc[p]) => LossRestarts(s)
                 /\ p \notin SharedProc /\ OneLife(proc[p]) => OneLife(s)
    OBVIOUS
  <2>1. ObjectInv(proc[p])
    BY DEF ProcessInv
  <2>2. CASE p \in registered
    <3> DEFINE again == p \in SharedProc /\ ~halting
    <3>1. proc'[p] = Killed(proc[p], Sandboxed(p), TRUE, again)
      BY <2>2 DEF KillAll, KilledAll
    <3>2. proc[p].child = 0 \/ proc[p].kills < MaxKill
      BY <2>2 DEF KillAll, CanKill
    <3>3. Sandboxed(p) \in BOOLEAN /\ again \in BOOLEAN
      BY DEF Sandboxed
    <3> HIDE DEF again
    <3>4. LET s == Killed(proc[p], Sandboxed(p), TRUE, again)
          IN  /\ ObjectInv(s)
              /\ s.spawned = proc[p].spawned
              /\ LossRestarts(proc[p]) /\ again => LossRestarts(s)
              /\ OneLife(proc[p]) /\ ~again => OneLife(s)
      BY <2>1, <3>2, <3>3, KilledInv, ZenonT(60)
    <3> QED
      BY <3>1, <3>4 DEF again
  <2>3. CASE p \notin registered
    <3>1. proc'[p] = proc[p]
      BY <2>3 DEF KillAll, KilledAll
    <3> QED
      BY <2>1, <3>1
  <2> QED
    BY <2>2, <2>3
<1>2. TypeOK'
  <2>1. proc' \in [Proc -> Process]
    <3>1. proc' = [p \in Proc |-> proc'[p]]
      BY DEF KillAll, KilledAll
    <3> QED
      BY <1>1, <3>1 DEF ObjectInv
  <2>2. registered' \subseteq Proc
    BY DEF KillAll, ProcessInv, TypeOK
  <2>3. stopWaits' \in [Proc -> 0..MaxKill]
    <3>1. \A p \in Proc : proc'[p].kills \in 0..MaxKill
      BY <1>1 DEF ObjectInv, Process
    <3>2. 0 \in 0..MaxKill
      BY ProcessAssumption
    <3> QED
      BY <3>1, <3>2 DEF ProcessInv, TypeOK
  <2> QED
    BY <2>1, <2>2, <2>3 DEF ProcessInv, TypeOK
<1>3. (\A p \in SharedProc : master = "up" /\ ~stopped => LossRestarts(proc[p]))'
  BY <1>1, ProcessAssumption DEF ProcessInv
<1> QED
  BY <1>1, <1>2, <1>3, ProcessAssumption DEF ProcessInv

LEMMA ChildEventInv ==
    ASSUME ProcessInv, NEW p \in Proc, NEW n \in Child, ChildEvent(p, n)
    PROVE  ProcessInv'
<1> DEFINE r == proc[p]
<1>1. /\ ObjectInv(r) /\ RestartsOnExit(p) \in BOOLEAN
      /\ p \in SharedProc => r.spawned # 0
      /\ p \in SharedProc /\ master = "up" /\ ~stopped =>
            LossRestarts(r) /\ RestartsOnExit(p)
      /\ p \notin SharedProc => OneLife(r) /\ ~RestartsOnExit(p)
      /\ registered \subseteq Proc /\ registered \ {p} \subseteq Proc
  BY DEF ProcessInv, TypeOK, RestartsOnExit
<1>2. MasterAfterFailure(p, n) \in {master, "exited", "crashed"}
  BY DEF MasterAfterFailure
<1>3. CASE ChildReady(p, n)
  BY <1>1, <1>3, BecameReadyInv, SetInv DEF ChildReady, Up
<1>4. CASE ChildError(p, n)
  <2> DEFINE s == SpawnFailed(r, n)
  <2>1. /\ ObjectInv(s) /\ s.spawned = r.spawned
        /\ LossRestarts(r) /\ n # 1 => LossRestarts(s)
        /\ OneLife(r) => OneLife(s)
    BY <1>1, <1>4, SpawnFailedInv DEF ChildError
  <2>2. p \in SharedProc /\ n = 1 => master' = "exited"
    <3>1. r.attempt[n] = "pending"
      BY <1>1, <1>4 DEF ChildError, ObjectInv, BootingPending
    <3> QED
      BY <1>4, <3>1 DEF ChildError, MasterAfterFailure
  <2>3. Set(p, s) /\ master = "up"
    BY <1>4 DEF ChildError, Up
  <2> HIDE DEF s
  <2> QED
    BY <1>1, <1>2, <1>4, <2>1, <2>2, <2>3, SetInv DEF ChildError
<1>5. CASE ChildDisconnect(p, n)
  <2> DEFINE s == Disconnected(r, n, RestartsOnExit(p))
  <2>1. /\ ObjectInv(s) /\ s.spawned = r.spawned
        /\ LossRestarts(r) /\ RestartsOnExit(p) => LossRestarts(s)
        /\ OneLife(r) /\ ~RestartsOnExit(p) => OneLife(s)
    BY <1>1, <1>5, DisconnectedInv DEF ChildDisconnect
  <2>2. Set(p, s) /\ master = "up"
    BY <1>5 DEF ChildDisconnect, Up
  <2> HIDE DEF s
  <2> QED
    BY <1>1, <1>5, <2>1, <2>2, SetInv DEF ChildDisconnect, Unregister
<1>6. CASE ChildExit(p, n)
  <2> DEFINE s == ChildGone(r, n, RestartsOnExit(p))
  <2>1. /\ ObjectInv(s) /\ s.spawned = r.spawned
        /\ LossRestarts(r) /\ RestartsOnExit(p) => LossRestarts(s)
        /\ OneLife(r) /\ ~RestartsOnExit(p) => OneLife(s)
    BY <1>1, <1>6, ChildGoneInv DEF ChildExit
  <2>2. Set(p, s) /\ master = "up"
    BY <1>6 DEF ChildExit, Up
  <2> HIDE DEF s
  <2> QED
    BY <1>1, <1>2, <1>6, <2>1, <2>2, SetInv DEF ChildExit, Unregister
<1> QED
  BY <1>3, <1>4, <1>5, <1>6 DEF ChildEvent

LEMMA ObjectStepInv ==
    ASSUME ProcessInv, NEW p \in Proc,
           \/ StartSeparate(p) \/ WaitReady(p) \/ DelayElapsed(p) \/ KillOne(p)
    PROVE  ProcessInv'
<1> DEFINE r == proc[p]
<1>1. /\ ObjectInv(r) /\ r \in Process
      /\ p \in SharedProc => r.spawned # 0
      /\ p \in SharedProc /\ master = "up" /\ ~stopped => LossRestarts(r)
      /\ p \notin SharedProc => OneLife(r)
      /\ registered \subseteq Proc
  BY DEF ProcessInv, TypeOK, ObjectInv
<1>2. CASE StartSeparate(p)
  <2> DEFINE s == Started(r)
  <2>1. r.spawned = 0 /\ r.spawned < MaxSpawn
    BY <1>2, ProcessAssumption DEF StartSeparate
  <2>2. ObjectInv(s) /\ (OneLife(r) => OneLife(s))
    BY <1>1, <2>1, StartedInv
  <2> HIDE DEF s
  <2> QED
    BY <1>1, <1>2, <2>2, SetInv DEF StartSeparate, s
<1>3. CASE WaitReady(p)
  <2> DEFINE b == r.handled[r.starting] \/ r.delaying
             s == [r EXCEPT !.handled[r.starting] = b]
  <2>1. r.starting \in Attempt /\ b \in BOOLEAN
    <3>1. r.starting \in Attempt
      BY <1>1, <1>3, ProcessAssumption, SMTT(60) DEF WaitReady, Process, Attempt
    <3> QED
      BY <3>1
  <2>2. /\ ObjectInv(s) /\ s.spawned = r.spawned
        /\ LossRestarts(r) => LossRestarts(s)
        /\ OneLife(r) => OneLife(s)
    BY <1>1, <2>1, HandledInv
  <2>3. Set(p, s)
    BY <1>3 DEF WaitReady
  <2> HIDE DEF b, s
  <2> QED
    BY <1>1, <1>3, <2>2, <2>3, SetInv DEF WaitReady
<1>4. CASE DelayElapsed(p)
  <2> DEFINE s == Started(r)
  <2>1. /\ ObjectInv(s) /\ s.spawned # 0
        /\ r.spawned # 0 => LossRestarts(s)
    BY <1>1, <1>4, StartedInv DEF DelayElapsed
  <2>2. p \in SharedProc
    BY <1>1, <1>4 DEF DelayElapsed, OneLife
  <2>3. Set(p, s)
    BY <1>4 DEF DelayElapsed
  <2> HIDE DEF s
  <2> QED
    BY <1>1, <1>4, <2>1, <2>2, <2>3, SetInv DEF DelayElapsed
<1>5. CASE KillOne(p)
  <2> DEFINE s == Killed(r, Sandboxed(p), FALSE, FALSE)
  <2>1. r.child = 0 \/ r.kills < MaxKill
    BY <1>5 DEF KillOne, CanKill
  <2>2. ObjectInv(s) /\ (OneLife(r) => OneLife(s))
    BY <1>1, <2>1, KilledInv DEF Sandboxed
  <2>3. Set(p, s) /\ p \notin SharedProc /\ registered' \subseteq Proc
    BY <1>1, <1>5 DEF KillOne
  <2> HIDE DEF s
  <2> QED
    BY <1>1, <1>5, <2>2, <2>3, SetInv DEF KillOne
<1> QED
  BY <1>2, <1>3, <1>4, <1>5

LEMMA DyingTimeoutInv ==
    ASSUME ProcessInv, NEW p \in Proc, NEW k \in Kill, DyingTimeout(p, k)
    PROVE  ProcessInv'
<1> DEFINE r == proc[p]
           s == TimedOut(r, k)
<1>1. /\ ObjectInv(r)
      /\ p \in SharedProc => r.spawned # 0
      /\ p \in SharedProc /\ master = "up" /\ ~stopped => LossRestarts(r)
      /\ p \notin SharedProc => OneLife(r)
      /\ registered \subseteq Proc
  BY DEF ProcessInv, TypeOK
<1>2. /\ ObjectInv(s) /\ s.spawned = r.spawned
      /\ LossRestarts(r) => LossRestarts(s)
      /\ OneLife(r) => OneLife(s)
  BY <1>1, TimedOutInv DEF DyingTimeout
<1>3. Set(p, s) /\ master = "up" /\ master' \in {master, "exited", "crashed"}
  BY DEF DyingTimeout, Up
<1> HIDE DEF s
<1> QED
  BY <1>1, <1>2, <1>3, SetInv DEF DyingTimeout

LEMMA StepInv == ProcessInv /\ [Next]_processVars => ProcessInv'
<1> SUFFICES ASSUME ProcessInv, [Next]_processVars PROVE ProcessInv'
  OBVIOUS
<1>1. ASSUME NEW p \in Proc,
             \/ StartSeparate(p) \/ WaitReady(p) \/ DelayElapsed(p) \/ KillOne(p)
      PROVE  ProcessInv'
  BY <1>1, ObjectStepInv
<1>2. ASSUME NEW p \in Proc, NEW n \in Child, ChildEvent(p, n) PROVE ProcessInv'
  BY <1>2, ChildEventInv
<1>3. ASSUME NEW p \in Proc, NEW k \in Kill, DyingTimeout(p, k) PROVE ProcessInv'
  BY <1>3, DyingTimeoutInv
<1>4. CASE KillAllUsers
  BY <1>4, KillAllInv DEF KillAllUsers, ProcessInv, TypeOK
<1>5. CASE Stop
  <2>1. KillAll(TRUE) /\ stopped'
    BY <1>5 DEF Stop
  <2> QED
    BY <1>5, <2>1, KillAllInv DEF Stop
<1>6. CASE MasterExit
  BY <1>6 DEF MasterExit, ProcessInv, TypeOK
<1>7. CASE UNCHANGED processVars
  BY <1>7 DEF processVars, ProcessInv, TypeOK
<1> QED
  BY <1>1, <1>2, <1>3, <1>4, <1>5, <1>6, <1>7 DEF Next

-----------------------------------------------------------------------------
(* The theorems.                                                            *)
LEMMA ProcessInvariant == Spec => []ProcessInv
<1> QED
  BY InitInv, StepInv, PTL DEF Spec

\* The state always has the shape that TypeOK describes: no handler, however
\* late, gives an object a child, an attempt or a kill that it never had.
THEOREM ProcessTypeCorrect == Spec => []TypeOK
<1>1. ProcessInv => TypeOK
  BY DEF ProcessInv
<1> QED
  BY <1>1, ProcessInvariant, PTL

\* However many objects there are and however often they are killed, lost and
\* restarted, late events of old children included, an object never has two
\* workers that both take themselves to be in service.
THEOREM OneChildServes == Spec => []OneServingChild
<1>1. ProcessInv => OneServingChild
  BY DEF ProcessInv, OneServingChild, ObjectInv, ServingIsLast
<1> QED
  BY <1>1, ProcessInvariant, PTL

\* Whatever ends the service of the first worker of a shared process, the
\* restart listener of _startSharedProcesses is there to replace it, unless
\* the master is stopping.
THEOREM FirstLossIsRepaired == Spec => []FirstLossRestarts
<1>1. ProcessInv => FirstLossRestarts
  BY DEF ProcessInv, FirstLossRestarts, LossRestarts
<1> QED
  BY <1>1, ProcessInvariant, PTL

\* When waitDead() resolves for the process of a single user, the worker of
\* that user is dead.
THEOREM SeparateDeathIsReal == Spec => []SeparateDeadIsDead
<1>1. ProcessInv => SeparateDeadIsDead
  BY DEF ProcessInv, SeparateDeadIsDead, OneLife
<1> QED
  BY <1>1, ProcessInvariant, PTL
=============================================================================
