------------------------ MODULE EngineManagerProofs ------------------------
EXTENDS EngineManager, EngineProcessProofs, FiniteSetTheorems

-----------------------------------------------------------------------------
(* What a step may do to an object: no child that was spawned comes into    *)
(* service, 'exit' stays emitted, a worker that is up stays up, and a start *)
(* succeeds when the worker has booted.                                     *)
Later(r, s) ==
    /\ r.spawned <= s.spawned
    /\ \A n \in Child : n <= r.spawned =>
          /\ Serving(s, n) => Serving(r, n)
          /\ s.os[n] = "booting" => r.os[n] = "booting"
          /\ r.os[n] \notin {"none", "booting"} => s.os[n] \notin {"none", "booting"}
          /\ s.attempt[n] = "ready" => r.attempt[n] = "ready" \/ r.os[n] = "booting"
    /\ r.hadExit => s.hadExit
    /\ s.hadExit => r.hadExit \/ r.spawned # 0

\* ... and what it leaves of an object that is not restarted.
NoNewChild(r, s) == r.spawned # 0 /\ r.child = 0 => s.child = 0

LEMMA LaterItself == ASSUME NEW r \in Process PROVE Later(r, r) /\ NoNewChild(r, r)
  BY DEF Later, NoNewChild, Process

LEMMA StartedLater ==
    ASSUME NEW r, ObjectInv(r), r.spawned < MaxSpawn
    PROVE  LET s == Started(r) IN Later(r, s) /\ (r.spawned = 0 => NoNewChild(r, s))
<1> DEFINE s == Started(r)
<1>0. r \in Process /\ r.spawned \in Nat
  BY DEF ObjectInv, Process
<1>1. /\ s.spawned = r.spawned + 1
      /\ s.os = [r.os EXCEPT ![r.spawned + 1] = "booting"]
      /\ s.asked = r.asked /\ s.attempt = r.attempt /\ s.hadExit = r.hadExit
  BY <1>0, StartedFields
<1>2. \A n \in Child : n <= r.spawned => s.os[n] = r.os[n]
  BY <1>0, <1>1 DEF Process, Child
<1> HIDE DEF s
<1>3. Later(r, s)
  BY <1>0, <1>1, <1>2 DEF Later, Serving, Connected
<1> QED
  BY <1>3 DEF s, NoNewChild

LEMMA BecameReadyLater ==
    ASSUME NEW r, ObjectInv(r), NEW n \in Child, r.os[n] = "booting"
    PROVE  LET s == BecameReady(r, n) IN Later(r, s) /\ NoNewChild(r, s)
<1> DEFINE s == BecameReady(r, n)
<1>0. r \in Process /\ r.spawned \in Nat
  BY DEF ObjectInv, Process
<1>1. /\ s.spawned = r.spawned /\ s.child = r.child
      /\ s.os = [r.os EXCEPT ![n] = "ready"]
      /\ s.attempt = [r.attempt EXCEPT ![n] = "ready"]
      /\ s.asked = r.asked /\ s.hadExit = r.hadExit
  BY <1>0, BecameReadyFields
<1>2. \A m \in Child : /\ s.os[m] = IF m = n THEN "ready" ELSE r.os[m]
                       /\ m # n => s.attempt[m] = r.attempt[m]
  BY <1>0, <1>1 DEF Process
<1> HIDE DEF s
<1> QED
  BY <1>0, <1>1, <1>2 DEF Later, NoNewChild, Serving, Connected, s

LEMMA SpawnFailedLater ==
    ASSUME NEW r, ObjectInv(r), NEW n \in Child
    PROVE  LET s == SpawnFailed(r, n) IN Later(r, s) /\ NoNewChild(r, s)
<1> DEFINE s == SpawnFailed(r, n)
<1>0. r \in Process /\ r.spawned \in Nat
  BY DEF ObjectInv, Process
<1>1. /\ s.spawned = r.spawned /\ s.child = r.child
      /\ s.os = [r.os EXCEPT ![n] = "dead"]
      /\ s.attempt = [r.attempt EXCEPT ![n] = "failed"]
      /\ s.asked = r.asked /\ s.hadExit = r.hadExit
  BY <1>0, SpawnFailedFields
<1>2. \A m \in Child : /\ s.os[m] = IF m = n THEN "dead" ELSE r.os[m]
                       /\ m # n => s.attempt[m] = r.attempt[m]
  BY <1>0, <1>1 DEF Process
<1> HIDE DEF s
<1> QED
  BY <1>0, <1>1, <1>2 DEF Later, NoNewChild, Serving, Connected, s

\* The end of the channel of child n, in the first life of the object, is the
\* end of its service.
LEMMA DisconnectedLater ==
    ASSUME NEW r, ObjectInv(r), NEW n \in Child, NEW again \in BOOLEAN, Connected(r, n)
    PROVE  LET s == Disconnected(r, n, again)
           IN  /\ Later(r, s) /\ NoNewChild(r, s) /\ s.hadExit
               /\ ~r.hadExit => r.spawned = 1 /\ n = 1 /\ \A m \in Child : ~Serving(s, m)
               /\ \A m \in Child : s.attempt[m] = "ready" => r.attempt[m] = "ready"
<1> DEFINE s == Disconnected(r, n, again)
<1>0. r \in Process /\ r.spawned \in Nat
  BY DEF ObjectInv, Process
<1>1. /\ s.spawned = r.spawned /\ s.child \in {0, r.child}
      /\ s.os = [r.os EXCEPT ![n] = "adrift"]
      /\ s.asked = r.asked /\ s.attempt = r.attempt /\ s.hadExit
  BY <1>0, DisconnectedFields
<1>2. \A m \in Child : s.os[m] = IF m = n THEN "adrift" ELSE r.os[m]
  BY <1>0, <1>1 DEF Process
<1>3. n <= r.spawned
  BY <1>0, <1>1 DEF ObjectInv, NotYetSpawned, Connected, Child
<1> HIDE DEF s
<1>4. ~r.hadExit => r.spawned = 1 /\ n = 1
  BY <1>0, <1>1, <1>3, ProcessAssumption DEF ObjectInv, FirstLife, Child
<1>5. \A m \in Child : m # 1 /\ ~r.hadExit => ~Serving(s, m)
  <2> SUFFICES ASSUME NEW m \in Child, m # 1, ~r.hadExit, Serving(s, m) PROVE FALSE
    OBVIOUS
  <2>1. Serving(r, m)
    BY <1>0, <1>1, <1>2 DEF Serving, Connected
  <2> QED
    BY <1>4, <2>1 DEF ObjectInv, ServingIsLast
<1> QED
  BY <1>0, <1>1, <1>2, <1>4, <1>5 DEF Later, NoNewChild, Serving, Connected, s

LEMMA ChildGoneLater ==
    ASSUME NEW r, ObjectInv(r), NEW n \in Child, NEW again \in BOOLEAN, Alive(r, n)
    PROVE  LET s == ChildGone(r, n, again)
           IN  /\ Later(r, s) /\ NoNewChild(r, s) /\ s.hadExit
               /\ ~r.hadExit => r.spawned = 1 /\ n = 1 /\ \A m \in Child : ~Serving(s, m)
               /\ \A m \in Child : s.attempt[m] = "ready" => r.attempt[m] = "ready"
<1> DEFINE s == ChildGone(r, n, again)
<1>0. r \in Process /\ r.spawned \in Nat
  BY DEF ObjectInv, Process
<1>1. /\ s.spawned = r.spawned /\ s.child = 0
      /\ s.os = [r.os EXCEPT ![n] = "dead"]
      /\ s.asked = r.asked /\ s.hadExit
      /\ \A m \in Child : s.attempt[m] = "ready" => r.attempt[m] = "ready"
  BY <1>0, ChildGoneFields, SMTT(60)
<1>2. \A m \in Child : s.os[m] = IF m = n THEN "dead" ELSE r.os[m]
  BY <1>0, <1>1 DEF Process
<1>3. n <= r.spawned
  BY <1>0, <1>1 DEF ObjectInv, NotYetSpawned, Alive, Child
<1> HIDE DEF s
<1>4. ~r.hadExit => r.spawned = 1 /\ n = 1
  BY <1>0, <1>1, <1>3, ProcessAssumption DEF ObjectInv, FirstLife, Child
<1>5. \A m \in Child : m # 1 /\ ~r.hadExit => ~Serving(s, m)
  <2> SUFFICES ASSUME NEW m \in Child, m # 1, ~r.hadExit, Serving(s, m) PROVE FALSE
    OBVIOUS
  <2>1. Serving(r, m)
    BY <1>0, <1>1, <1>2 DEF Serving, Connected
  <2> QED
    BY <1>4, <2>1 DEF ObjectInv, ServingIsLast
<1> QED
  BY <1>0, <1>1, <1>2, <1>4, <1>5 DEF Later, NoNewChild, Serving, Connected, s

\* kill() of an object that has a child ends the service of all of its children.
LEMMA KilledLater ==
    ASSUME NEW r, ObjectInv(r), NEW sandboxed \in BOOLEAN, NEW w \in BOOLEAN,
           NEW again \in BOOLEAN, r.child = 0 \/ r.kills < MaxKill
    PROVE  LET s == Killed(r, sandboxed, w, again)
           IN  /\ Later(r, s) /\ NoNewChild(r, s)
               /\ r.child = 0 => s = r
               /\ s.os = r.os /\ s.attempt = r.attempt /\ s.spawned = r.spawned
               /\ r.child # 0 => \A m \in Child : ~Serving(s, m)
<1> DEFINE s == Killed(r, sandboxed, w, again)
<1>1. CASE r.child = 0
  <2>1. s = r /\ r \in Process
    BY <1>1 DEF Killed, ObjectInv
  <2> QED
    BY <1>1, <2>1, LaterItself
<1>2. CASE r.child # 0
  <2> DEFINE reaches == ~sandboxed \/ Connected(r, r.child)
  <2>1. /\ s.spawned = r.spawned
        /\ s.child \in {0, r.child}
        /\ s.os = r.os /\ s.attempt = r.attempt
        /\ s.asked = [r.asked EXCEPT ![r.child] =
                         IF reaches /\ r.asked[r.child] = "no"
                         THEN "term" ELSE r.asked[r.child]]
        /\ s.hadExit
    BY <1>2, KilledFields DEF ObjectInv
  <2>2. /\ r.spawned \in Nat /\ r.child \in Child /\ r.child = r.spawned
        /\ r.asked \in [Child -> {"no", "term", "kill"}]
    BY <1>2 DEF ObjectInv, Process, ChildIsLast, Child
  <2> HIDE DEF s
  <2>3. \A m \in Child : ~Serving(s, m)
    <3> SUFFICES ASSUME NEW m \in Child, Serving(s, m) PROVE FALSE
      OBVIOUS
    <3>1. Serving(r, m)
      BY <2>1, <2>2 DEF Serving, Connected
    <3>2. m = r.child /\ Connected(r, r.child) /\ r.asked[r.child] = "no"
      BY <2>2, <3>1 DEF ObjectInv, ServingIsLast, Serving
    <3>3. s.asked[m] = "term"
      BY <2>1, <2>2, <3>2
    <3> QED
      BY <3>3 DEF Serving
  <2> QED
    BY <1>2, <2>1, <2>2, <2>3 DEF Later, NoNewChild, s
<1> QED
  BY <1>1, <1>2

LEMMA TimedOutLater ==
    ASSUME NEW r, ObjectInv(r), NEW k \in Kill
    PROVE  LET s == TimedOut(r, k) IN Later(r, s) /\ NoNewChild(r, s)
<1> DEFINE s == TimedOut(r, k)
<1>0. r \in Process /\ r.spawned \in Nat
  BY DEF ObjectInv, Process
<1>1. /\ s.spawned = r.spawned /\ s.child = r.child /\ s.os = r.os
      /\ s.attempt = r.attempt
      /\ s.asked = [n \in Child |-> IF n = r.child /\ Alive(r, n)
                                    THEN "kill" ELSE r.asked[n]]
      /\ s.hadExit = r.hadExit
  BY <1>0, TimedOutFields
<1> HIDE DEF s
<1> QED
  BY <1>0, <1>1 DEF Later, NoNewChild, Serving, Connected, s

-----------------------------------------------------------------------------
(* The stages that a request has left.                                      *)
ManagerStage == {"lock", "kill", "path", "lookup", "rm", "row", "process", "reply", "release"}

\* Which stage may come after which, and the last is always "release".
Follows == {<<"lock", "kill">>, <<"kill", "row">>, <<"kill", "path">>, <<"kill", "release">>,
            <<"path", "rm">>, <<"lookup", "rm">>, <<"rm", "row">>, <<"row", "process">>,
            <<"process", "release">>, <<"reply", "row">>, <<"reply", "path">>,
            <<"reply", "release">>}
Ordered(t) == \/ t = <<>>
              \/ /\ t[Len(t)] = "release"
                 /\ \A i \in 1..Len(t) - 1 : <<t[i], t[i + 1]>> \in Follows

LEMMA OrderedTail ==
    ASSUME NEW t \in Seq(ManagerStage), t # <<>>, Ordered(t)
    PROVE  /\ Head(t) \in ManagerStage /\ Head(t) = t[1]
           /\ Tail(t) \in Seq(ManagerStage) /\ Ordered(Tail(t))
           /\ Tail(t) = <<>> <=> Head(t) = "release"
           /\ Tail(t) # <<>> => <<Head(t), Head(Tail(t))>> \in Follows
<1> DEFINE v == Tail(t)
<1>1. Len(t) \in Nat \ {0} /\ Head(t) = t[1]
  OBVIOUS
<1>2. Len(v) = Len(t) - 1 /\ v \in Seq(ManagerStage) /\ (v = <<>> <=> Len(v) = 0)
  <2>1. v \in Seq(ManagerStage)
    OBVIOUS
  <2>2. Len(v) = Len(t) - 1
    OBVIOUS
  <2>3. v = <<>> <=> Len(v) = 0
    <3> HIDE DEF v
    <3> QED
      BY <2>1
  <2> QED
    BY <2>1, <2>2, <2>3
<1>3. \A i \in 1..Len(t) - 1 : v[i] = t[i + 1]
  BY <1>1, <1>2
<1>4. \A i \in 1..Len(t) : t[i] \in ManagerStage
  OBVIOUS
<1>5. v # <<>> => Head(v) = v[1]
  BY <1>2
<1> HIDE DEF v
<1>6. CASE Len(t) = 1
  <2>1. v = <<>> /\ t[1] = "release"
    BY <1>1, <1>2, <1>6 DEF Ordered
  <2> QED
    BY <1>1, <1>2, <1>4, <2>1 DEF Ordered, v
<1>7. CASE Len(t) # 1
  <2>1. v # <<>> /\ Head(v) = t[2]
    BY <1>1, <1>2, <1>3, <1>5, <1>7
  <2>2. /\ t[Len(t)] = "release" /\ <<t[1], t[2]>> \in Follows
        /\ \A i \in 1..Len(t) - 1 : <<t[i], t[i + 1]>> \in Follows
    <3>1. /\ t[Len(t)] = "release"
          /\ \A i \in 1..Len(t) - 1 : <<t[i], t[i + 1]>> \in Follows
      BY DEF Ordered
    <3>2. 1 \in 1..Len(t) - 1 /\ 1 + 1 = 2
      <4>1. \A k \in Nat \ {0} : k # 1 => 1 \in 1..k - 1
        OBVIOUS
      <4>2. Len(t) \in Nat \ {0}
        BY <1>1
      <4>3. 1 \in 1..Len(t) - 1
        BY <1>7, <4>1, <4>2
      <4> QED
        BY <4>3
    <3> QED
      BY <3>1, <3>2
  <2>3. v[Len(v)] = "release"
    BY <1>1, <1>2, <1>3, <1>7, <2>2
  <2>4. \A i \in 1..Len(v) - 1 : <<v[i], v[i + 1]>> \in Follows
    <3> TAKE i \in 1..Len(v) - 1
    <3>1. i \in 1..Len(t) - 1 /\ i + 1 \in 1..Len(t) - 1
      BY <1>1, <1>2
    <3> QED
      BY <1>3, <2>2, <3>1
  <2>5. t[1] # "release"
    BY <2>2 DEF Follows
  <2>6. Ordered(v)
    BY <2>1, <2>3, <2>4 DEF Ordered
  <2> QED
    BY <1>1, <1>2, <1>4, <2>1, <2>2, <2>5, <2>6 DEF v
<1> QED
  BY <1>6, <1>7

\* A stage is put in the place of the first.
LEMMA OrderedAgain ==
    ASSUME NEW t \in Seq(ManagerStage), t # <<>>, Ordered(t), Tail(t) # <<>>,
           NEW s \in ManagerStage, <<s, Head(Tail(t))>> \in Follows
    PROVE  LET w == <<s>> \o Tail(t)
           IN  w \in Seq(ManagerStage) /\ w # <<>> /\ Ordered(w) /\ Head(w) = s /\ Tail(w) = Tail(t)
<1> DEFINE v == Tail(t)
           w == <<s>> \o v
<1>1. v \in Seq(ManagerStage) /\ Ordered(v) /\ v # <<>>
  BY OrderedTail
<1> HIDE DEF v
<1>2. /\ w \in Seq(ManagerStage) /\ Len(w) = Len(v) + 1 /\ Len(v) \in Nat \ {0}
      /\ w[1] = s /\ \A i \in 2..Len(w) : w[i] = v[i - 1]
      /\ Head(v) = v[1]
  BY <1>1
<1>3. w # <<>> /\ Head(w) = s /\ Tail(w) = v
  BY <1>1, SMTT(60)
<1> HIDE DEF w
<1>4. w[Len(w)] = "release"
  BY <1>1, <1>2, SMTT(60) DEF Ordered
<1>5. \A i \in 1..Len(w) - 1 : <<w[i], w[i + 1]>> \in Follows
  <2> TAKE i \in 1..Len(w) - 1
  <2>1. CASE i = 1
    BY <1>2, <2>1, SMTT(200) DEF v
  <2>2. CASE i # 1
    <3>1. i - 1 \in 1..Len(v) - 1 /\ w[i] = v[i - 1] /\ w[i + 1] = v[i - 1 + 1]
      BY <1>2, <2>2, SMTT(200)
    <3> QED
      BY <1>1, <3>1 DEF Ordered
  <2> QED
    BY <2>1, <2>2
<1> QED
  BY <1>2, <1>3, <1>4, <1>5 DEF Ordered, v, w

LEMMA OrderedRelease ==
    LET w == <<"release">> IN w \in Seq(ManagerStage) /\ w # <<>> /\ Ordered(w) /\ Head(w) = "release"
  BY DEF Ordered, ManagerStage

LEMMA OrderedPlan ==
    /\ \A kind \in Operations \ {"startUser", "deleteUser", "clearCache"} :
          LET w == Plan[kind]
          IN  w \in Seq(ManagerStage) /\ w # <<>> /\ Ordered(w) /\ Head(w) = "lock"
    /\ LET w == <<"process", "release">>
       IN  w \in Seq(ManagerStage) /\ w # <<>> /\ Ordered(w) /\ Head(w) = "process"
<1>1. LET w == Plan["killUser"]
      IN  w \in Seq(ManagerStage) /\ w # <<>> /\ Ordered(w) /\ Head(w) = "lock"
  <2> DEFINE w == <<"lock", "kill", "release">>
  <2>1. Plan["killUser"] = w
    BY DEF Plan
  <2>2. w \in Seq(ManagerStage) /\ Len(w) = 3 /\ w # <<>> /\ Head(w) = "lock"
    BY DEF ManagerStage
  <2>3. \A i \in 1..2 : <<w[i], w[i + 1]>> \in Follows
    BY DEF Follows
  <2> QED
    BY <2>1, <2>2, <2>3 DEF Ordered
<1>2. LET w == Plan["restartUser"]
      IN  w \in Seq(ManagerStage) /\ w # <<>> /\ Ordered(w) /\ Head(w) = "lock"
  <2> DEFINE w == <<"lock", "kill", "row", "process", "release">>
  <2>1. Plan["restartUser"] = w
    BY DEF Plan
  <2>2. w \in Seq(ManagerStage) /\ Len(w) = 5 /\ w # <<>> /\ Head(w) = "lock"
    BY DEF ManagerStage
  <2>3. \A i \in 1..4 : <<w[i], w[i + 1]>> \in Follows
    BY DEF Follows
  <2> QED
    BY <2>1, <2>2, <2>3 DEF Ordered
<1>3. LET w == Plan["restartUserWithoutCache"]
      IN  w \in Seq(ManagerStage) /\ w # <<>> /\ Ordered(w) /\ Head(w) = "lock"
  <2> DEFINE w == <<"lock", "kill", "path", "rm", "row", "process", "release">>
  <2>1. Plan["restartUserWithoutCache"] = w
    BY DEF Plan
  <2>2. w \in Seq(ManagerStage) /\ Len(w) = 7 /\ w # <<>> /\ Head(w) = "lock"
    BY DEF ManagerStage
  <2>3. \A i \in 1..6 : <<w[i], w[i + 1]>> \in Follows
    BY DEF Follows
  <2> QED
    BY <2>1, <2>2, <2>3 DEF Ordered
<1>4. LET w == <<"process", "release">>
      IN  w \in Seq(ManagerStage) /\ w # <<>> /\ Ordered(w) /\ Head(w) = "process"
  BY DEF Ordered, Follows, ManagerStage
<1> QED
  BY <1>1, <1>2, <1>3, <1>4 DEF Operations

-----------------------------------------------------------------------------
(* The inductive invariant.  An engine, or a call that will start one in a  *)
(* worker in service, is always that of the user's current entry, and the   *)
(* entry listens to its process (Entries, Calls); whoever may replace the   *)
(* entry is alone: he is the first in the queue of the user's lock (Locked) *)
(* or is run by start(), before anybody else knows the user (AtStart); and  *)
(* he has killed, or waits for the answer to his call of killEngine, which  *)
(* went to the worker that has the engine (Calls, Cleared).  That the entry *)
(* is off the list when the operation goes on takes more of a process of    *)
(* the user's own: nobody listens to it once it has emitted 'exit' (Alone). *)
Request == [kind : Operations \cup {"none", "boot"}, user : User \cup {None},
            todo : Seq(ManagerStage), lock : {0, 1}, target : Proc \cup {None},
            attempt : 0..MaxSpawn + 1, auto : BOOLEAN, failed : BOOLEAN]
Engine  == [state : {"none", "mapped", "unmapped", "stopped"},
            proc : Proc \cup {None}, child : 0..MaxSpawn]

Types ==
    /\ engines \in [User -> Req \cup {None}]
    /\ objProcess \in [Req -> Proc \cup {None}]
    /\ listening \subseteq Req
    /\ locks \in [User -> Seq(Seq(Req))] /\ \A u \in User : Len(locks[u]) = 1
    /\ nextProcess \in 1..Len(RoundRobin)
    /\ restarts \in [User -> Nat]
    /\ req \in [Req -> Request]
    /\ calls \in [Proc -> [Child -> Seq(Call)]]
    /\ engine \in [Req -> Engine]
    /\ row \in [User -> {"shared", "separate", "absent"}]
    /\ booted \in BOOLEAN /\ bootLeft \subseteq User
    /\ scene \in Scenes

Inside(r) == Stage(r) \notin {"none", "lock"}

RequestInv(r) ==
    /\ Ordered(req[r].todo)
    /\ req[r].kind = "none" => req[r] = NoRequest
    /\ req[r].kind # "deleteUser"
    /\ req[r].kind # "none" => req[r].user \in User
    /\ req[r].target \in SharedProc \cup {r, None}
    /\ r \in User => /\ req[r].user \in {None, r} /\ req[r].lock = 0
                     /\ Stage(r) \in {"none", "process", "reply", "release"}
    /\ r \notin User /\ req[r].kind # "none" => req[r].lock = 1

Locked(r) ==
    /\ Stage(r) = "lock" => \E i \in 1..Len(Queue(r)) : Queue(r)[i] = r
    /\ Inside(r) => Queue(r) # <<>> /\ Head(Queue(r)) = r

Running(e) == /\ engine[e].state \in {"mapped", "unmapped"}
              /\ Serving(proc[engine[e].proc], engine[e].child)

CallInv(p, n, c) ==
    /\ c.awaited /\ c.user = req[c.req].user
    /\ Stage(c.req) = "reply" /\ n <= proc[p].spawned
    /\ c.op = "run" =>
          /\ Tail(req[c.req].todo) = <<"release">> /\ objProcess[c.req] = p
          /\ Serving(proc[p], n) => engines[c.user] = c.req
    /\ c.op = "kill" =>
          /\ c.req \notin User
          /\ IsRunning(c.user) => objProcess[engines[c.user]] = p
          /\ \A e \in Req : req[e].user = c.user /\ Running(e) =>
                engine[e].proc = p /\ engine[e].child = n

CallsInv ==
    /\ \A p \in Proc, n \in Child : \A i \in 1..Len(calls[p][n]) :
          CallInv(p, n, calls[p][n][i])
    /\ \A p, q \in Proc, m, n \in Child :
          \A i \in 1..Len(calls[p][m]), j \in 1..Len(calls[q][n]) :
             calls[p][m][i].req = calls[q][n][j].req => p = q /\ m = n /\ i = j

EngineInv(e) ==
    /\ engine[e].state # "none" =>
          /\ engine[e].proc \in Proc /\ engine[e].child \in Child
          /\ engine[e].child <= proc[engine[e].proc].spawned
          /\ objProcess[e] # None
    /\ Running(e) => /\ engine[e].state = "mapped"
                     /\ engines[req[e].user] = e /\ objProcess[e] = engine[e].proc
    /\ e \in listening => objProcess[e] # None
    /\ objProcess[e] # None =>
          /\ req[e].kind # "none" /\ objProcess[e] = req[e].target
          /\ Stage(e) \in {"none", "reply", "release"}
          /\ Stage(e) = "reply" => Tail(req[e].todo) = <<"release">>
    /\ Stage(e) = "process" =>
          engines[req[e].user] = e /\ objProcess[e] = None /\ req[e].target \in Proc

EntryInv(u) == engines[u] # None =>
                  /\ req[engines[u]].user = u
                  /\ objProcess[engines[u]] # None => engines[u] \in listening

Spared == stopped \/ "killBooting" \in scene.may

Cleared(u) == /\ \A e \in Req : req[e].user = u => ~Running(e)
              /\ IsRunning(u) => /\ Spared
                                 /\ objProcess[engines[u]] \notin SharedProc
                                 /\ proc[objProcess[engines[u]]].child = 0

HasKilled(r) == Stage(r) \in {"path", "lookup", "rm", "row"}

\* A call of r is under way.
InCall(r) == \E p \in Proc, n \in Child : \E i \in 1..Len(calls[p][n]) :
                calls[p][n][i].req = r

AtStart(u) ==
    /\ u \in bootLeft \/ ~booted =>
          engines[u] = None /\ restarts[u] = 0 /\ \A r \in Req : req[r].user # u
    /\ Stage(u) = "process" \/ InCall(u) =>
          restarts[u] = 0 /\ \A r \in Req \ {u} : req[r].user # u

Alone(p) ==
    /\ ~Spared =>
          /\ proc[p].os[1] = "booting" => ~proc[p].hadExit
          /\ \A e \in listening : objProcess[e] = p => ~proc[p].hadExit
          /\ \A r \in Req : Stage(r) = "process" /\ req[r].target = p
                            /\ proc[p].attempt[1] = "ready" => ~proc[p].hadExit
    /\ \A e \in Req : objProcess[e] = p => proc[p].os[1] \notin {"none", "booting"}
    /\ \A r \in Req : Stage(r) = "process" /\ req[r].target = p =>
          req[r].attempt = 1 /\ proc[p].spawned # 0
    /\ proc[p].spawned = 0 => ~proc[p].hadExit

RequestsInv  == \A r \in Req : RequestInv(r)
LocksInv     == \A r \in Req \ User : Locked(r)
EnginesInv   == /\ \A e \in Req : EngineInv(e)
                /\ \A u \in User : EntryInv(u)
ClearedInv   == \A r \in Req : HasKilled(r) => Cleared(req[r].user)
StartInv     == /\ \A u \in User : AtStart(u)
                /\ bootLeft # {} => booted
SeparateInv  == \A p \in Proc \ SharedProc : Alone(p)

ManagerInv == /\ ProcessInv
              /\ OneAtATime
              /\ Types
              /\ RequestsInv /\ LocksInv /\ CallsInv /\ EnginesInv
              /\ ClearedInv /\ StartInv /\ SeparateInv

-----------------------------------------------------------------------------
(* Who acts for a user: his requests that kill, remove, or start, and those *)
(* with a call under way.  There is one at a time.                          *)
Acts(r) == Stage(r) \in {"kill", "path", "lookup", "rm", "row", "process"} \/ InCall(r)

LEMMA Names ==
    /\ User \subseteq Req /\ Slot \subseteq Req /\ TimerSlot \subseteq Req
    /\ Req \subseteq Proc /\ SharedProc \subseteq Proc
    /\ None \notin Proc /\ None \notin Req /\ None \notin User
    /\ \A r \in Req : r \notin SharedProc
    /\ Slot \cap User = {} /\ TimerSlot \cap User = {}
  BY ManagerAssumption, ProcessAssumption DEF Req

LEMMA CallsAre ==
    ASSUME Types, CallsInv, NEW p \in Proc, NEW n \in Child, NEW i \in 1..Len(calls[p][n])
    PROVE  /\ calls[p][n][i] \in Call /\ calls[p][n][i].req \in Req
           /\ CallInv(p, n, calls[p][n][i])
           /\ InCall(calls[p][n][i].req)
<1>1. calls[p][n] \in Seq(Call)
  BY DEF Types
<1>2. calls[p][n][i] \in Call
  BY <1>1
<1>3. calls[p][n][i].req \in Req
  BY <1>2, SMTT(60) DEF Call
<1> QED
  BY <1>2, <1>3 DEF CallsInv, InCall

LEMMA InCallReplies ==
    ASSUME Types, CallsInv, NEW r, InCall(r)
    PROVE  Stage(r) = "reply" /\ r \in Req
<1>1. PICK p \in Proc, n \in Child : \E i \in 1..Len(calls[p][n]) : calls[p][n][i].req = r
  BY DEF InCall
<1>2. PICK i \in 1..Len(calls[p][n]) : calls[p][n][i].req = r
  BY <1>1
<1> QED
  BY <1>2, CallsAre DEF CallInv

LEMMA ActsInside ==
    ASSUME Types, CallsInv, NEW r, Acts(r)
    PROVE  Inside(r)
  BY InCallReplies DEF Acts, Inside

LEMMA KindOfStage ==
    ASSUME RequestsInv, NEW r \in Req, Stage(r) # "none"
    PROVE  /\ req[r].kind # "none" /\ req[r].user \in User
           /\ r \notin User => req[r].lock = 1
           /\ r \in User => req[r].user = r
<1>1. req[r].kind # "none"
  BY DEF RequestsInv, RequestInv, NoRequest, Stage
<1> QED
  BY <1>1, Names DEF RequestsInv, RequestInv

LEMMA OneActs ==
    ASSUME ManagerInv, NEW r \in Req, NEW q \in Req, Acts(r), Acts(q),
           req[r].user = req[q].user
    PROVE  r = q
<1>1. Types /\ CallsInv /\ RequestsInv /\ LocksInv /\ StartInv
  BY DEF ManagerInv
<1>2. Inside(r) /\ Inside(q)
  BY <1>1, ActsInside
<1>3. /\ Stage(r) # "none" /\ Stage(q) # "none"
      /\ req[r].user \in User
      /\ r \notin User => req[r].lock = 1
      /\ q \notin User => req[q].lock = 1
      /\ r \in User => req[r].user = r
      /\ q \in User => req[q].user = q
  BY <1>1, <1>2, KindOfStage DEF Inside
<1>4. CASE r \in User
  <2>1. Stage(r) = "process" \/ InCall(r)
    BY <1>1, <1>4 DEF Acts, RequestsInv, RequestInv
  <2> QED
    BY <1>1, <1>3, <1>4, <2>1 DEF StartInv, AtStart
<1>5. CASE q \in User
  <2>1. Stage(q) = "process" \/ InCall(q)
    BY <1>1, <1>5 DEF Acts, RequestsInv, RequestInv
  <2> QED
    BY <1>1, <1>3, <1>5, <2>1 DEF StartInv, AtStart
<1>6. CASE r \notin User /\ q \notin User
  <2>1. Queue(r) = Queue(q)
    BY <1>3, <1>6 DEF Queue
  <2>2. Head(Queue(r)) = r /\ Head(Queue(q)) = q
    BY <1>1, <1>2, <1>6 DEF LocksInv, Locked
  <2> QED
    BY <2>1, <2>2
<1> QED
  BY <1>4, <1>5, <1>6

-----------------------------------------------------------------------------
(* Most steps go the same way: objects grow older, the entries in E die,    *)
(* engines stop, calls end, and request r, if there is one, goes on.        *)
FewerCalls ==
    \A p \in Proc, n \in Child : \E d \in Nat : \A i \in 1..Len(calls'[p][n]) :
        /\ i + d \in 1..Len(calls[p][n])
        /\ calls'[p][n][i] = calls[p][n][i + d]

ObjectsLater == \A p \in Proc : /\ Later(proc[p], proc'[p])
                                /\ p \notin SharedProc => NoNewChild(proc[p], proc'[p])

SameRequest(e) == /\ req'[e].kind = req[e].kind /\ req'[e].user = req[e].user
                  /\ req'[e].lock = req[e].lock /\ req'[e].target = req[e].target
                  /\ req'[e].attempt = req[e].attempt

EnginesStop == \A e \in Req : \/ engine'[e] = engine[e]
                              \/ /\ engine'[e].state = "stopped" /\ engine[e].state # "none"
                                 /\ engine'[e].proc = engine[e].proc
                                 /\ engine'[e].child = engine[e].child

EntriesDie(E) ==
    /\ E \subseteq listening /\ listening' = listening \ E
    /\ engines' = [u \in User |-> IF engines[u] \in E THEN None ELSE engines[u]]
    /\ \A u \in User : restarts'[u] # restarts[u] =>
          engines[u] # None /\ Stage(u) # "process" /\ ~InCall(u)'
    /\ \A e \in E : ~Running(e)'
    /\ \A p \in Proc, n \in Child : \A i \in 1..Len(calls'[p][n]) :
          calls'[p][n][i].op = "run" /\ Serving(proc'[p], n) => calls'[p][n][i].req \notin E

GoesOn(r) ==
    r \in Req =>
        /\ Stage(r) # "none"
        /\ Stage(r) = "lock" => Queue(r) # <<>> /\ Head(Queue(r)) = r
        /\ Stage(r)' \in {"kill", "path", "lookup", "rm", "row", "release"}
        /\ Ordered(req'[r].todo)
        /\ r \in User \/ objProcess[r] # None => Stage(r)' = "release"
        /\ ~InCall(r)'
        /\ HasKilled(r)' => Cleared(req[r].user)'

Step(r, E) ==
    /\ ObjectsLater
    /\ stopped => stopped'
    /\ UNCHANGED <<objProcess, locks, booted, bootLeft, scene>>
    /\ FewerCalls /\ EnginesStop /\ EntriesDie(E)
    /\ \A e \in Req : SameRequest(e) /\ (e # r => req'[e] = req[e])
    /\ GoesOn(r)

\* What is still under way was so before.
LEMMA StepCalls ==
    ASSUME ManagerInv, Types', NEW r \in Req \cup {None}, NEW E, Step(r, E),
           NEW p \in Proc, NEW n \in Child, NEW i \in 1..Len(calls'[p][n])
    PROVE  LET c == calls'[p][n][i]
           IN  /\ c \in Call /\ c.req \in Req /\ CallInv(p, n, c) /\ InCall(c.req)
               /\ c.req # r
<1> DEFINE c == calls'[p][n][i]
<1>1. \E d \in Nat : \A j \in 1..Len(calls'[p][n]) :
          j + d \in 1..Len(calls[p][n]) /\ calls'[p][n][j] = calls[p][n][j + d]
  BY DEF Step, FewerCalls
<1>2. \E k \in 1..Len(calls[p][n]) : c = calls[p][n][k]
  BY <1>1
<1>3. PICK k \in 1..Len(calls[p][n]) : c = calls[p][n][k]
  BY <1>2
<1>4. c \in Call /\ c.req \in Req /\ CallInv(p, n, c) /\ InCall(c.req)
  <2>1. Types /\ CallsInv
    BY DEF ManagerInv
  <2>2. /\ calls[p][n][k] \in Call /\ calls[p][n][k].req \in Req
        /\ CallInv(p, n, calls[p][n][k]) /\ InCall(calls[p][n][k].req)
    BY <2>1, CallsAre
  <2> HIDE DEF c
  <2> QED
    BY <1>3, <2>2
<1>5. ASSUME NEW q, q = c.req PROVE InCall(q)'
  BY <1>5 DEF InCall
<1>6. c.req # r
  <2>1. PICK q : q = c.req
    OBVIOUS
  <2>2. InCall(q)' /\ q \in Req
    BY <1>4, <1>5, <2>1
  <2> QED
    BY <2>1, <2>2 DEF Step, GoesOn
<1> QED
  BY <1>4, <1>6

LEMMA StepInCall ==
    ASSUME ManagerInv, Types', NEW r \in Req \cup {None}, NEW E, Step(r, E),
           NEW q, InCall(q)'
    PROVE  InCall(q) /\ q # r
<1>1. PICK p \in Proc, n \in Child : \E i \in 1..Len(calls'[p][n]) : calls'[p][n][i].req = q
  BY DEF InCall
<1>2. PICK i \in 1..Len(calls'[p][n]) : calls'[p][n][i].req = q
  BY <1>1
<1> QED
  BY <1>2, StepCalls

\* No engine comes to run.
LEMMA StepRunning ==
    ASSUME ManagerInv, NEW r, NEW E, Step(r, E), NEW e \in Req, Running(e)'
    PROVE  Running(e) /\ engine'[e] = engine[e] /\ e \notin E
<1>1. engine'[e] = engine[e] /\ engine[e].state \in {"mapped", "unmapped"}
  BY DEF Running, Step, EnginesStop
<1>2. /\ engine[e].proc \in Proc /\ engine[e].child \in Child
      /\ engine[e].child <= proc[engine[e].proc].spawned
  BY <1>1 DEF ManagerInv, EnginesInv, EngineInv
<1>3. Serving(proc'[engine[e].proc], engine[e].child)
  BY <1>1 DEF Running
<1>4. Serving(proc[engine[e].proc], engine[e].child)
  BY <1>2, <1>3 DEF Step, ObjectsLater, Later
<1>5. e \notin E
  BY DEF Step, EntriesDie
<1> QED
  BY <1>1, <1>4, <1>5 DEF Running

\* Nor does an entry come up, or get a process.
LEMMA StepIsRunning ==
    ASSUME ManagerInv, NEW r, NEW E, Step(r, E), NEW u \in User
    PROVE  /\ engines'[u] \in {None, engines[u]}
           /\ IsRunning(u)' => IsRunning(u) /\ engines'[u] = engines[u]
                                /\ objProcess[engines[u]] \in Proc
<1>1. engines'[u] \in {None, engines[u]} /\ objProcess' = objProcess
  BY DEF Step, EntriesDie
<1>2. objProcess[engines[u]] \in Proc \cup {None} \/ engines[u] = None
  BY DEF ManagerInv, Types
<1> QED
  BY <1>1, <1>2 DEF IsRunning

LEMMA StepCleared ==
    ASSUME ManagerInv, NEW r, NEW E, Step(r, E), NEW u \in User, Cleared(u)
    PROVE  Cleared(u)'
<1>1. \A e \in Req : req'[e].user = u => ~Running(e)'
  <2> SUFFICES ASSUME NEW e \in Req, req'[e].user = u, Running(e)' PROVE FALSE
    OBVIOUS
  <2>1. req[e].user = u
    BY DEF Step, SameRequest
  <2> QED
    BY <2>1, StepRunning DEF Cleared
<1>2. ASSUME IsRunning(u)'
      PROVE  /\ Spared' /\ objProcess'[engines'[u]] \notin SharedProc
             /\ proc'[objProcess'[engines'[u]]].child = 0
  <2> DEFINE p == objProcess[engines[u]]
  <2>1. /\ IsRunning(u) /\ engines'[u] = engines[u] /\ p \in Proc /\ objProcess' = objProcess
    BY <1>2, StepIsRunning DEF Step
  <2>2. Spared /\ p \notin SharedProc /\ proc[p].child = 0
    BY <2>1 DEF Cleared
  <2>3. proc[p].os[1] \notin {"none", "booting"}
    <3>1. engines[u] \in Req
      BY <2>1, SMTT(60) DEF ManagerInv, Types, IsRunning
    <3> QED
      BY <2>1, <2>2, <3>1 DEF ManagerInv, SeparateInv, Alone
  <2>4. proc[p].spawned # 0
    <3>1. ObjectInv(proc[p]) /\ 1 \in Child
      BY <2>1, ProcessAssumption, SMTT(60) DEF ManagerInv, ProcessInv, Child
    <3>2. proc[p].spawned \in Nat
      BY <3>1 DEF ObjectInv, Process
    <3> QED
      BY <2>3, <3>1, <3>2 DEF ObjectInv, NotYetSpawned
  <2>5. proc'[p].child = 0
    BY <2>1, <2>2, <2>4 DEF Step, ObjectsLater, NoNewChild
  <2>6. Spared'
    BY <2>2 DEF Step, Spared
  <2> QED
    BY <2>1, <2>2, <2>5, <2>6
<1> QED
  BY <1>1, <1>2 DEF Cleared

LEMMA StepRequests ==
    ASSUME ManagerInv, NEW r \in Req \cup {None}, NEW E, Step(r, E)
    PROVE  RequestsInv'
<1>0. RequestsInv
  BY DEF ManagerInv
<1> SUFFICES ASSUME NEW e \in Req PROVE RequestInv(e)'
  BY DEF RequestsInv
<1>1. RequestInv(e) /\ SameRequest(e)
  BY <1>0 DEF RequestsInv, Step
<1>2. CASE e # r
  <2>1. req'[e] = req[e]
    BY <1>2 DEF Step
  <2> QED
    BY <1>1, <2>1 DEF RequestInv, Stage
<1>3. CASE e = r
  <2>1. /\ Stage(e) # "none" /\ Ordered(req'[e].todo)
        /\ e \in User => Stage(e)' = "release"
    BY <1>3 DEF Step, GoesOn
  <2>2. req[e].kind # "none"
    BY <1>0, <2>1, KindOfStage
  <2> QED
    BY <1>1, <2>1, <2>2 DEF RequestInv, SameRequest
<1> QED
  BY <1>2, <1>3

LEMMA StepLocks ==
    ASSUME ManagerInv, NEW r \in Req \cup {None}, NEW E, Step(r, E)
    PROVE  LocksInv'
<1> SUFFICES ASSUME NEW e \in Req \ User PROVE Locked(e)'
  BY DEF LocksInv
<1>1. Locked(e) /\ Queue(e)' = Queue(e)
  BY DEF ManagerInv, LocksInv, Step, SameRequest, Queue
<1>2. CASE e # r
  <2>1. Stage(e)' = Stage(e)
    BY <1>2 DEF Step, Stage
  <2> QED
    BY <1>1, <2>1 DEF Locked, Inside
<1>3. CASE e = r
  <2>1. /\ Stage(e) # "none" /\ Stage(e)' # "lock"
        /\ Stage(e) = "lock" => Queue(e) # <<>> /\ Head(Queue(e)) = e
    BY <1>3 DEF Step, GoesOn
  <2> QED
    BY <1>1, <2>1 DEF Locked, Inside
<1> QED
  BY <1>2, <1>3

\* A request has one call under way.
OneCallEach ==
    \A p, q \in Proc, m, n \in Child :
        \A i \in 1..Len(calls[p][m]), j \in 1..Len(calls[q][n]) :
            calls[p][m][i].req = calls[q][n][j].req => p = q /\ m = n /\ i = j

LEMMA FewerCallsEach ==
    ASSUME ManagerInv, FewerCalls
    PROVE  OneCallEach'
<1>1. ASSUME NEW p \in Proc, NEW q \in Proc, NEW m \in Child, NEW n \in Child,
             NEW i \in 1..Len(calls'[p][m]), NEW j \in 1..Len(calls'[q][n]),
             calls'[p][m][i].req = calls'[q][n][j].req
      PROVE  p = q /\ m = n /\ i = j
  <2>1. PICK d \in Nat : \A k \in 1..Len(calls'[p][m]) :
            k + d \in 1..Len(calls[p][m]) /\ calls'[p][m][k] = calls[p][m][k + d]
    BY DEF FewerCalls
  <2>2. PICK g \in Nat : \A k \in 1..Len(calls'[q][n]) :
            k + g \in 1..Len(calls[q][n]) /\ calls'[q][n][k] = calls[q][n][k + g]
    BY DEF FewerCalls
  <2>3. CallsInv
    BY DEF ManagerInv
  <2>4. p = q /\ m = n
    <3>1. i + d \in 1..Len(calls[p][m]) /\ calls'[p][m][i] = calls[p][m][i + d]
      BY <2>1
    <3>2. j + g \in 1..Len(calls[q][n]) /\ calls'[q][n][j] = calls[q][n][j + g]
      BY <2>2
    <3>3. calls[p][m][i + d].req = calls[q][n][j + g].req
      BY <1>1, <3>1, <3>2
    <3>4. \A k \in 1..Len(calls[p][m]), l \in 1..Len(calls[q][n]) :
              calls[p][m][k].req = calls[q][n][l].req => p = q /\ m = n
      BY <2>3 DEF CallsInv
    <3> QED
      BY <3>1, <3>2, <3>3, <3>4
  <2>5. j + d \in 1..Len(calls[p][m]) /\ calls'[p][m][j] = calls[p][m][j + d]
    BY <2>1, <2>4
  <2>6. i + d \in 1..Len(calls[p][m]) /\ calls'[p][m][i] = calls[p][m][i + d]
    BY <2>1
  <2>7. i + d = j + d
    BY <1>1, <2>3, <2>4, <2>5, <2>6, SMTT(60) DEF CallsInv
  <2>8. i \in Nat /\ j \in Nat
    BY <2>1
  <2> QED
    BY <2>4, <2>7, <2>8
<1> QED
  BY <1>1 DEF OneCallEach

LEMMA StepCallsInv ==
    ASSUME ManagerInv, ProcessInv', Types', NEW r \in Req \cup {None}, NEW E, Step(r, E)
    PROVE  CallsInv'
<1>1. ASSUME NEW p \in Proc, NEW n \in Child, NEW i \in 1..Len(calls'[p][n]),
             NEW c, c = calls'[p][n][i]
      PROVE  CallInv(p, n, c)'
  <2>1. c \in Call /\ c.req \in Req /\ CallInv(p, n, c) /\ InCall(c.req) /\ c.req # r
    BY <1>1, StepCalls
  <2>2. c.user \in User
    BY <2>1 DEF Call
  <2>3. req'[c.req] = req[c.req]
    BY <2>1, SMTT(60) DEF Step
  <2>4. /\ proc[p].spawned \in Nat /\ proc'[p].spawned \in Nat
        /\ n <= proc[p].spawned /\ n \in Nat
        /\ Later(proc[p], proc'[p])
    <3>1. ObjectInv(proc[p]) /\ ObjectInv(proc'[p])
      BY DEF ManagerInv, ProcessInv
    <3> QED
      BY <2>1, <3>1, SMTT(60) DEF ObjectInv, Process, Step, ObjectsLater, CallInv, Child
  <2>5. n <= proc'[p].spawned /\ (Serving(proc'[p], n) => Serving(proc[p], n))
    BY <2>4 DEF Later
  <2>6. /\ c.awaited /\ c.user = req'[c.req].user /\ Stage(c.req)' = "reply"
    BY <2>1, <2>3 DEF CallInv, Stage
  <2>7. ASSUME c.op = "run"
        PROVE  /\ Tail(req'[c.req].todo) = <<"release">> /\ objProcess'[c.req] = p
               /\ Serving(proc'[p], n) => engines'[c.user] = c.req
    <3>1. Tail(req'[c.req].todo) = <<"release">> /\ objProcess'[c.req] = p
      BY <2>1, <2>3, <2>7, SMTT(200) DEF CallInv, Step
    <3>2. Serving(proc'[p], n) => engines[c.user] = c.req /\ c.req \notin E
      BY <1>1, <2>1, <2>5, <2>7, Zenon DEF CallInv, Step, EntriesDie
    <3> QED
      BY <2>2, <3>1, <3>2 DEF Step, EntriesDie
  <2>8. ASSUME c.op = "kill"
        PROVE  /\ c.req \notin User
               /\ IsRunning(c.user)' => objProcess'[engines'[c.user]] = p
               /\ \A e \in Req : req'[e].user = c.user /\ Running(e)' =>
                     engine'[e].proc = p /\ engine'[e].child = n
    <3>1. /\ c.req \notin User
          /\ IsRunning(c.user) => objProcess[engines[c.user]] = p
          /\ \A e \in Req : req[e].user = c.user /\ Running(e) =>
                engine[e].proc = p /\ engine[e].child = n
      BY <2>1, <2>8 DEF CallInv
    <3>2. IsRunning(c.user)' => objProcess'[engines'[c.user]] = p
      BY <2>2, <3>1, StepIsRunning DEF Step
    <3>3. ASSUME NEW e \in Req, req'[e].user = c.user, Running(e)'
          PROVE  engine'[e].proc = p /\ engine'[e].child = n
      BY <3>1, <3>3, StepRunning DEF Step, SameRequest
    <3> QED
      BY <3>1, <3>2, <3>3
  <2> QED
    BY <2>5, <2>6, <2>7, <2>8 DEF CallInv
<1>2. OneCallEach'
  BY FewerCallsEach DEF Step
<1> QED
  BY <1>1, <1>2 DEF CallsInv, OneCallEach

LEMMA StepEngines ==
    ASSUME ManagerInv, ProcessInv', NEW r \in Req \cup {None}, NEW E, Step(r, E)
    PROVE  EnginesInv'
<1>0. \A e \in Req : EngineInv(e)
  BY DEF ManagerInv, EnginesInv
<1>1. ASSUME NEW e \in Req PROVE EngineInv(e)'
  <2>0. EngineInv(e) /\ SameRequest(e) /\ objProcess' = objProcess
    BY <1>0 DEF Step
  <2>1. ASSUME engine'[e].state # "none"
        PROVE  /\ engine'[e].proc \in Proc /\ engine'[e].child \in Child
               /\ engine'[e].child <= proc'[engine'[e].proc].spawned
               /\ objProcess'[e] # None
    <3>1. /\ engine[e].state # "none" /\ engine'[e].proc = engine[e].proc
          /\ engine'[e].child = engine[e].child
      BY <2>1 DEF Step, EnginesStop
    <3>2. /\ engine[e].proc \in Proc /\ engine[e].child \in Child
          /\ engine[e].child <= proc[engine[e].proc].spawned
          /\ objProcess[e] # None
      BY <2>0, <3>1 DEF EngineInv
    <3>3. /\ proc[engine[e].proc].spawned \in Nat /\ proc'[engine[e].proc].spawned \in Nat
          /\ proc[engine[e].proc].spawned <= proc'[engine[e].proc].spawned
      BY <3>2 DEF ManagerInv, ProcessInv, ObjectInv, Process, Step, ObjectsLater, Later
    <3> QED
      BY <2>0, <3>1, <3>2, <3>3 DEF Child
  <2>2. ASSUME Running(e)'
        PROVE  /\ engine'[e].state = "mapped"
               /\ engines'[req'[e].user] = e /\ objProcess'[e] = engine'[e].proc
    <3>1. Running(e) /\ engine'[e] = engine[e] /\ e \notin E
      BY <2>2, StepRunning
    <3>2. /\ engine[e].state = "mapped" /\ engines[req[e].user] = e
          /\ objProcess[e] = engine[e].proc /\ req[e].kind # "none"
      <4>1. engine[e].state # "none"
        BY <3>1 DEF Running
      <4> QED
        BY <2>0, <3>1, <4>1 DEF EngineInv
    <3>3. req[e].user \in User
      BY <3>2 DEF ManagerInv, RequestsInv, RequestInv
    <3> QED
      BY <2>0, <3>1, <3>2, <3>3 DEF SameRequest, Step, EntriesDie
  <2>3. e \in listening' => objProcess'[e] # None
    BY <2>0 DEF Step, EntriesDie, EngineInv
  <2>4. ASSUME objProcess'[e] # None
        PROVE  /\ req'[e].kind # "none" /\ objProcess'[e] = req'[e].target
               /\ Stage(e)' \in {"none", "reply", "release"}
               /\ Stage(e)' = "reply" => Tail(req'[e].todo) = <<"release">>
    <3>1. /\ req[e].kind # "none" /\ objProcess[e] = req[e].target
          /\ Stage(e) \in {"none", "reply", "release"}
          /\ Stage(e) = "reply" => Tail(req[e].todo) = <<"release">>
      BY <2>0, <2>4 DEF EngineInv
    <3>2. CASE e # r
      <4>1. req'[e] = req[e]
        BY <3>2 DEF Step
      <4> QED
        BY <2>0, <3>1, <4>1 DEF Stage
    <3>3. CASE e = r
      <4>1. Stage(e)' = "release"
        BY <2>0, <2>4, <3>3 DEF Step, GoesOn
      <4> QED
        BY <2>0, <3>1, <4>1 DEF SameRequest
    <3> QED
      BY <3>2, <3>3
  <2>5. ASSUME Stage(e)' = "process"
        PROVE  engines'[req'[e].user] = e /\ objProcess'[e] = None /\ req'[e].target \in Proc
    <3>1. e # r
      BY <2>5 DEF Step, GoesOn
    <3>2. req'[e] = req[e]
      BY <3>1 DEF Step
    <3>3. Stage(e) = "process"
      BY <2>5, <3>2 DEF Stage
    <3>4. engines[req[e].user] = e /\ objProcess[e] = None /\ req[e].target \in Proc
      BY <2>0, <3>3 DEF EngineInv
    <3>5. e \notin E /\ req[e].user \in User
      BY <2>0, <3>3, <3>4, KindOfStage DEF EngineInv, Step, EntriesDie, ManagerInv
    <3> QED
      BY <2>0, <3>2, <3>4, <3>5 DEF Step, EntriesDie
  <2> QED
    BY <2>1, <2>2, <2>3, <2>4, <2>5 DEF EngineInv
<1>2. ASSUME NEW u \in User PROVE EntryInv(u)'
  <2> SUFFICES ASSUME engines'[u] # None
               PROVE  /\ req'[engines'[u]].user = u
                      /\ objProcess'[engines'[u]] # None => engines'[u] \in listening'
    BY DEF EntryInv
  <2>1. engines'[u] = engines[u] /\ engines[u] \notin E
    BY DEF Step, EntriesDie
  <2>2. engines[u] \in Req
    BY <2>1 DEF ManagerInv, Types
  <2>3. EntryInv(u) /\ SameRequest(engines[u])
    BY <2>2 DEF ManagerInv, EnginesInv, Step
  <2> QED
    BY <2>1, <2>3 DEF EntryInv, SameRequest, Step, EntriesDie
<1> QED
  BY <1>1, <1>2 DEF EnginesInv

LEMMA StepClearedInv ==
    ASSUME ManagerInv, NEW r \in Req \cup {None}, NEW E, Step(r, E)
    PROVE  ClearedInv'
<1> SUFFICES ASSUME NEW e \in Req, HasKilled(e)' PROVE Cleared(req[e].user)'
  BY DEF ClearedInv
<1>1. CASE e = r
  BY <1>1 DEF Step, GoesOn
<1>2. CASE e # r
  <2>1. req'[e] = req[e]
    BY <1>2 DEF Step
  <2>2. HasKilled(e)
    BY <2>1 DEF HasKilled, Stage
  <2>3. req[e].user \in User
    BY <2>2, KindOfStage DEF HasKilled, ManagerInv
  <2>4. Cleared(req[e].user)
    BY <2>2 DEF ManagerInv, ClearedInv
  <2>5. ASSUME NEW u \in User, u = req[e].user PROVE Cleared(u)'
    BY <2>4, <2>5, StepCleared
  <2> QED
    BY <2>1, <2>3, <2>5
<1> QED
  BY <1>1, <1>2

LEMMA StepStart ==
    ASSUME ManagerInv, Types', NEW r \in Req \cup {None}, NEW E, Step(r, E)
    PROVE  StartInv'
<1>0. (bootLeft # {} => booted)'
  BY DEF ManagerInv, StartInv, Step
<1> SUFFICES ASSUME NEW u \in User PROVE AtStart(u)'
  BY <1>0 DEF StartInv
<1>1. AtStart(u) /\ (\A e \in Req : req'[e].user = req[e].user)
  BY DEF ManagerInv, StartInv, Step, SameRequest
<1>2. ASSUME u \in bootLeft' \/ ~booted'
      PROVE  engines'[u] = None /\ restarts'[u] = 0 /\ \A e \in Req : req'[e].user # u
  <2>1. engines[u] = None /\ restarts[u] = 0 /\ \A e \in Req : req[e].user # u
    BY <1>1, <1>2 DEF AtStart, Step
  <2>2. restarts'[u] = restarts[u]
    BY <2>1 DEF Step, EntriesDie
  <2> QED
    BY <1>1, <2>1, <2>2, StepIsRunning
<1>3. ASSUME Stage(u)' = "process" \/ InCall(u)'
      PROVE  restarts'[u] = 0 /\ \A e \in Req \ {u} : req'[e].user # u
  <2>1. Stage(u)' = "process" => Stage(u) = "process"
    BY Names DEF Step, GoesOn, Stage
  <2>2. InCall(u)' => InCall(u)
    BY StepInCall
  <2>3. restarts[u] = 0 /\ \A e \in Req \ {u} : req[e].user # u
    BY <1>1, <1>3, <2>1, <2>2 DEF AtStart
  <2>4. restarts'[u] = restarts[u]
    BY <1>3, <2>1 DEF Step, EntriesDie
  <2> QED
    BY <1>1, <2>3, <2>4
<1> QED
  BY <1>2, <1>3 DEF AtStart

\* A process of a user's own that emits 'exit' in this step has no worker that
\* boots, nobody who listens on, and nobody who will listen to it.
Heard(p) ==
    ~Spared' /\ proc'[p].hadExit /\ ~proc[p].hadExit =>
        /\ proc'[p].os[1] # "booting"
        /\ \A e \in listening' : objProcess[e] # p
        /\ \A r \in Req : Stage(r)' = "process" /\ req'[r].target = p =>
              proc'[p].attempt[1] # "ready"

LEMMA StepSeparate ==
    ASSUME ManagerInv, ProcessInv', NEW r \in Req \cup {None}, NEW E, Step(r, E),
           \A p \in Proc \ SharedProc : Heard(p)
    PROVE  SeparateInv'
<1> SUFFICES ASSUME NEW p \in Proc \ SharedProc PROVE Alone(p)'
  BY DEF SeparateInv
<1>1. Alone(p) /\ Heard(p) /\ Later(proc[p], proc'[p])
  BY DEF ManagerInv, SeparateInv, Step, ObjectsLater
<1>2. /\ proc[p].spawned \in Nat /\ proc'[p].spawned \in Nat /\ 1 \in Child
      /\ proc[p].spawned = 0 => proc[p].os[1] = "none"
  <2>1. ObjectInv(proc[p]) /\ ObjectInv(proc'[p]) /\ 1 \in Child
    BY ProcessAssumption DEF ManagerInv, ProcessInv, Child
  <2> QED
    BY <2>1 DEF ObjectInv, Process, NotYetSpawned
<1>3. objProcess' = objProcess /\ listening' \subseteq listening /\ (Spared => Spared')
  BY DEF Step, EntriesDie, Spared
<1>4. ASSUME NEW q \in Req, Stage(q)' = "process"
      PROVE  Stage(q) = "process" /\ req'[q] = req[q]
  <2>1. q # r
    BY <1>4 DEF Step, GoesOn
  <2>2. req'[q] = req[q]
    BY <2>1 DEF Step
  <2> QED
    BY <1>4, <2>2 DEF Stage
<1>5. \A e \in Req : objProcess'[e] = p => proc'[p].os[1] \notin {"none", "booting"}
  <2>1. ASSUME NEW e \in Req, objProcess[e] = p PROVE proc'[p].os[1] \notin {"none", "booting"}
    <3>1. proc[p].os[1] \notin {"none", "booting"}
      BY <1>1, <2>1 DEF Alone
    <3>2. 1 <= proc[p].spawned
      BY <1>2, <3>1
    <3> QED
      BY <1>1, <1>2, <3>1, <3>2 DEF Later
  <2> QED
    BY <1>3, <2>1
<1>6. \A q \in Req : Stage(q)' = "process" /\ req'[q].target = p =>
          req'[q].attempt = 1 /\ proc'[p].spawned # 0
  <2>1. proc[p].spawned # 0 => proc'[p].spawned # 0
    BY <1>1, <1>2 DEF Later
  <2> QED
    BY <1>1, <1>4, <2>1 DEF Alone
<1>7. proc'[p].spawned = 0 => ~proc'[p].hadExit
  <2>1. proc'[p].spawned = 0 => proc[p].spawned = 0
    BY <1>1, <1>2 DEF Later
  <2> QED
    BY <1>1, <2>1 DEF Alone, Later
<1>8. ASSUME ~Spared'
      PROVE  /\ proc'[p].os[1] = "booting" => ~proc'[p].hadExit
             /\ \A e \in listening' : objProcess'[e] = p => ~proc'[p].hadExit
             /\ \A q \in Req : Stage(q)' = "process" /\ req'[q].target = p
                               /\ proc'[p].attempt[1] = "ready" => ~proc'[p].hadExit
  <2>1. CASE ~proc[p].hadExit
    BY <1>1, <1>3, <1>8, <2>1 DEF Heard
  <2>2. CASE proc[p].hadExit
    <3>1. 1 <= proc[p].spawned
      BY <1>1, <1>2, <2>2 DEF Alone
    <3>2. proc[p].os[1] # "booting" /\ \A e \in listening : objProcess[e] # p
      BY <1>1, <1>3, <1>8, <2>2 DEF Alone
    <3>3. \A q \in Req : Stage(q) = "process" /\ req[q].target = p =>
              proc[p].attempt[1] # "ready"
      BY <1>1, <1>3, <1>8, <2>2 DEF Alone
    <3>4. /\ proc'[p].os[1] # "booting"
          /\ proc'[p].attempt[1] = "ready" => proc[p].attempt[1] = "ready"
      BY <1>1, <1>2, <3>1, <3>2 DEF Later
    <3> QED
      BY <1>3, <1>4, <3>2, <3>3, <3>4
  <2> QED
    BY <2>1, <2>2
<1> QED
  BY <1>5, <1>6, <1>7, <1>8 DEF Alone

LEMMA StepManagerInv ==
    ASSUME ManagerInv, ProcessInv', Types', NEW r \in Req \cup {None}, NEW E, Step(r, E),
           \A p \in Proc \ SharedProc : Heard(p)
    PROVE  ManagerInv'
<1>1. OneAtATime'
  BY DEF ManagerInv, OneAtATime, Step
<1>2. RequestsInv' /\ LocksInv' /\ CallsInv' /\ EnginesInv'
  BY StepRequests, StepLocks, StepCallsInv, StepEngines
<1>3. ClearedInv' /\ StartInv' /\ SeparateInv'
  BY StepClearedInv, StepStart, StepSeparate
<1> QED
  BY <1>1, <1>2, <1>3 DEF ManagerInv

-----------------------------------------------------------------------------
(* Steps of processes.                                                      *)
LEMMA SetLater ==
    ASSUME ProcessInv, NEW p \in Proc, NEW s, Set(p, s), Later(proc[p], s),
           p \notin SharedProc => NoNewChild(proc[p], s)
    PROVE  /\ ObjectsLater
           /\ \A q \in Proc : proc'[q] = IF q = p THEN s ELSE proc[q]
<1>1. \A q \in Proc : proc'[q] = IF q = p THEN s ELSE proc[q]
  BY DEF Set, ProcessInv, TypeOK
<1>2. \A q \in Proc : Later(proc[q], proc[q]) /\ NoNewChild(proc[q], proc[q])
  BY LaterItself DEF ProcessInv, TypeOK
<1> QED
  BY <1>1, <1>2 DEF ObjectsLater

\* Nothing changes but objects, and the rows of the database.
LEMMA QuietStep ==
    ASSUME ManagerInv, ProcessInv', ObjectsLater, stopped => stopped',
           UNCHANGED <<engines, objProcess, listening, locks, nextProcess, restarts, req,
                       calls, engine, booted, bootLeft, scene>>,
           row' \in [User -> {"shared", "separate", "absent"}],
           \A p \in Proc \ SharedProc : Heard(p)
    PROVE  ManagerInv'
<1>1. Types /\ Types'
  BY DEF ManagerInv, Types
<1>2. FewerCalls
  <2> SUFFICES ASSUME NEW p \in Proc, NEW n \in Child
               PROVE  \E d \in Nat : \A i \in 1..Len(calls'[p][n]) :
                         /\ i + d \in 1..Len(calls[p][n])
                         /\ calls'[p][n][i] = calls[p][n][i + d]
    BY DEF FewerCalls
  <2>1. \A i \in 1..Len(calls[p][n]) : i + 0 = i
    BY <1>1 DEF Types
  <2> WITNESS 0 \in Nat
  <2> QED
    BY <2>1
<1>3. EnginesStop
  BY DEF EnginesStop
<1>4. EntriesDie({})
  <2>1. engines' = [u \in User |-> engines[u]]
    BY <1>1 DEF Types
  <2> QED
    BY <1>1, <2>1 DEF EntriesDie, Types
<1>5. \A e \in Req : SameRequest(e) /\ (e # None => req'[e] = req[e])
  BY DEF SameRequest
<1>6. GoesOn(None)
  BY Names DEF GoesOn
<1>7. Step(None, {})
  BY <1>2, <1>3, <1>4, <1>5, <1>6 DEF Step
<1> QED
  BY <1>1, <1>7, StepManagerInv

LEMMA UnchangedInv == ManagerInv /\ UNCHANGED allVars => ManagerInv'
<1> SUFFICES ASSUME ManagerInv, UNCHANGED allVars PROVE ManagerInv'
  OBVIOUS
<1>1. ProcessInv'
  BY StepInv DEF ManagerInv, allVars
<1>2. ObjectsLater /\ \A p \in Proc \ SharedProc : Heard(p)
  BY LaterItself DEF ManagerInv, ProcessInv, TypeOK, ObjectsLater, Heard, allVars, processVars
<1> QED
  BY <1>1, <1>2, QuietStep DEF allVars, managerVars, processVars, ManagerInv, Types

LEMMA ObjectStep ==
    ASSUME ManagerInv, NEW p \in Proc, NEW s, Set(p, s), Later(proc[p], s),
           p \notin SharedProc => NoNewChild(proc[p], s),
           s.hadExit = proc[p].hadExit, [Next]_processVars, UNCHANGED managerVars
    PROVE  ManagerInv'
<1>1. ProcessInv /\ ProcessInv'
  BY StepInv DEF ManagerInv
<1>2. ObjectsLater /\ \A q \in Proc : proc'[q] = IF q = p THEN s ELSE proc[q]
  BY <1>1, SetLater
<1>3. \A q \in Proc \ SharedProc : Heard(q)
  BY <1>2 DEF Heard
<1>4. stopped => stopped'
  BY DEF Next, StartSeparate, WaitReady, DelayElapsed, KillOne, ChildEvent, ChildReady,
         ChildError, ChildDisconnect, ChildExit, DyingTimeout, KillAllUsers, Stop,
         MasterExit, processVars
<1> QED
  BY <1>1, <1>2, <1>3, <1>4, QuietStep DEF managerVars, ManagerInv, Types

LEMMA WorkerReadyInv ==
    ASSUME ManagerInv, NEW p \in Proc, NEW n \in Child, WorkerReady(p, n)
    PROVE  ManagerInv'
<1> DEFINE s == BecameReady(proc[p], n)
<1>1. /\ ObjectInv(proc[p]) /\ proc[p] \in Process /\ proc[p].os[n] = "booting"
      /\ Set(p, s) /\ UNCHANGED managerVars /\ Next
  BY DEF ManagerInv, ProcessInv, ObjectInv, WorkerReady, ChildReady, Next, ChildEvent
<1>2. Later(proc[p], s) /\ NoNewChild(proc[p], s) /\ s.hadExit = proc[p].hadExit
  BY <1>1, BecameReadyLater, BecameReadyFields
<1> HIDE DEF s
<1> QED
  BY <1>1, <1>2, ObjectStep

LEMMA WorkerErrorInv ==
    ASSUME ManagerInv, NEW p \in Proc, NEW n \in Child, WorkerError(p, n)
    PROVE  ManagerInv'
<1> DEFINE s == SpawnFailed(proc[p], n)
<1>1. /\ ObjectInv(proc[p]) /\ proc[p] \in Process
      /\ Set(p, s) /\ UNCHANGED managerVars /\ Next
  BY DEF ManagerInv, ProcessInv, ObjectInv, WorkerError, ChildError, Next, ChildEvent
<1>2. Later(proc[p], s) /\ NoNewChild(proc[p], s) /\ s.hadExit = proc[p].hadExit
  BY <1>1, SpawnFailedLater, SpawnFailedFields
<1> HIDE DEF s
<1> QED
  BY <1>1, <1>2, ObjectStep

LEMMA ProcessTimerInv ==
    ASSUME ManagerInv, NEW p \in Proc, ProcessTimer(p)
    PROVE  ManagerInv'
<1>1. /\ ObjectInv(proc[p]) /\ proc[p] \in Process /\ UNCHANGED managerVars
      /\ p \notin SharedProc => ~proc[p].delaying
  BY DEF ManagerInv, ProcessInv, ObjectInv, OneLife, ProcessTimer
<1>2. CASE DelayElapsed(p)
  <2> DEFINE s == Started(proc[p])
  <2>1. Set(p, s) /\ p \in SharedProc /\ proc[p].spawned < MaxSpawn /\ Next
    BY <1>1, <1>2 DEF DelayElapsed, Next
  <2>2. Later(proc[p], s) /\ s.hadExit = proc[p].hadExit
    BY <1>1, <2>1, StartedLater, StartedFields
  <2> HIDE DEF s
  <2> QED
    BY <1>1, <2>1, <2>2, ObjectStep
<1>3. ASSUME NEW k \in Kill, DyingTimeout(p, k) PROVE ManagerInv'
  <2> DEFINE s == TimedOut(proc[p], k)
  <2>1. Set(p, s) /\ Next
    BY <1>3 DEF DyingTimeout, Next
  <2>2. Later(proc[p], s) /\ NoNewChild(proc[p], s) /\ s.hadExit = proc[p].hadExit
    BY <1>1, TimedOutLater, TimedOutFields
  <2> HIDE DEF s
  <2> QED
    BY <1>1, <2>1, <2>2, ObjectStep
<1> QED
  BY <1>2, <1>3 DEF ProcessTimer

LEMMA ManagerExitInv == ManagerInv /\ ManagerExit => ManagerInv'
<1> SUFFICES ASSUME ManagerInv, ManagerExit PROVE ManagerInv'
  OBVIOUS
<1>1. ProcessInv' /\ UNCHANGED proc /\ UNCHANGED stopped /\ UNCHANGED managerVars
  BY StepInv DEF ManagerInv, ManagerExit, MasterExit, Next
<1>2. ObjectsLater /\ \A p \in Proc \ SharedProc : Heard(p)
  BY <1>1, LaterItself DEF ManagerInv, ProcessInv, TypeOK, ObjectsLater, Heard
<1> QED
  BY <1>1, <1>2, QuietStep DEF managerVars, ManagerInv, Types

LEMMA RowChangesInv ==
    ASSUME ManagerInv, NEW u \in User, RowChanges(u)
    PROVE  ManagerInv'
<1>1. ProcessInv' /\ UNCHANGED processVars
  BY StepInv DEF ManagerInv, RowChanges
<1>2. ObjectsLater /\ \A p \in Proc \ SharedProc : Heard(p)
  BY <1>1, LaterItself DEF ManagerInv, ProcessInv, TypeOK, ObjectsLater, Heard, processVars
<1>3. row' \in [User -> {"shared", "separate", "absent"}]
  BY DEF RowChanges, ManagerInv, Types
<1> QED
  BY <1>1, <1>2, <1>3, QuietStep DEF RowChanges, processVars

-----------------------------------------------------------------------------
(* die(), and the loss of workers.                                          *)
LEMMA DieTypes ==
    ASSUME ManagerInv, NEW E, E \subseteq listening, NEW manual, Die(E, manual)
    PROVE  /\ engines' \in [User -> Req \cup {None}]
           /\ listening' \subseteq Req
           /\ restarts' \in [User -> Nat]
           /\ \A u \in User : restarts'[u] # restarts[u] =>
                 /\ ~manual /\ engines[u] \in E /\ engines[u] # None
                 /\ objProcess[engines[u]] \in SharedProc
                 /\ Stage(u) # "process"
<1>1. /\ engines \in [User -> Req \cup {None}] /\ listening \subseteq Req
      /\ restarts \in [User -> Nat]
  BY DEF ManagerInv, Types
<1>2. /\ engines' \in [User -> Req \cup {None}] /\ listening' \subseteq Req
      /\ restarts' \in [User -> Nat]
  BY <1>1 DEF Die
<1>3. ASSUME NEW u \in User, restarts'[u] # restarts[u]
      PROVE  /\ ~manual /\ engines[u] \in E /\ engines[u] # None
             /\ objProcess[engines[u]] \in SharedProc
             /\ Stage(u) # "process"
  <2>1. ~manual /\ engines[u] \in E /\ objProcess[engines[u]] \in SharedProc
    BY <1>1, <1>3 DEF Die
  <2>2. engines[u] \in Req /\ engines[u] # None
    BY <1>1, <2>1, Names
  <2>3. Stage(u) = "process" => engines[u] = u /\ objProcess[u] = None
    BY KindOfStage, Names DEF ManagerInv, EnginesInv, EngineInv
  <2> QED
    BY <2>1, <2>2, <2>3, Names
<1> QED
  BY <1>2, <1>3

\* The entries of processes that are out of service have no engine that runs,
\* and none of their calls will start one.
LEMMA DeadProcesses ==
    ASSUME ManagerInv, ObjectsLater, EnginesStop, FewerCalls, NEW P \in SUBSET Proc,
           \A p \in P, m \in Child : ~Serving(proc'[p], m)
    PROVE  /\ \A e \in Listeners(P) : ~Running(e)'
           /\ \A p \in Proc, n \in Child : \A i \in 1..Len(calls'[p][n]) :
                 calls'[p][n][i].op = "run" /\ Serving(proc'[p], n)
                    => calls'[p][n][i].req \notin Listeners(P)
<1>1. Types /\ CallsInv /\ \A e \in Req : EngineInv(e)
  BY DEF ManagerInv, EnginesInv
<1>2. ASSUME NEW e \in Listeners(P), Running(e)' PROVE FALSE
  <2>1. e \in Req /\ objProcess[e] \in P
    BY <1>1 DEF Listeners, Types
  <2>2. engine'[e] = engine[e] /\ engine[e].state \in {"mapped", "unmapped"}
    BY <1>2, <2>1 DEF Running, EnginesStop
  <2>3. /\ engine[e].proc \in Proc /\ engine[e].child \in Child
        /\ engine[e].child <= proc[engine[e].proc].spawned
    BY <1>1, <2>1, <2>2 DEF EngineInv
  <2>4. Serving(proc'[engine[e].proc], engine[e].child)
    BY <1>2, <2>2 DEF Running
  <2>5. Running(e)
    BY <2>2, <2>3, <2>4 DEF Running, ObjectsLater, Later
  <2>6. objProcess[e] = engine[e].proc
    BY <1>1, <2>1, <2>5 DEF EngineInv
  <2> QED
    BY <2>1, <2>3, <2>4, <2>6
<1>3. ASSUME NEW p \in Proc, NEW n \in Child, NEW i \in 1..Len(calls'[p][n]),
             calls'[p][n][i].op = "run", Serving(proc'[p], n),
             calls'[p][n][i].req \in Listeners(P)
      PROVE  FALSE
  <2>1. PICK d \in Nat : \A j \in 1..Len(calls'[p][n]) :
            j + d \in 1..Len(calls[p][n]) /\ calls'[p][n][j] = calls[p][n][j + d]
    BY DEF FewerCalls
  <2>2. i + d \in 1..Len(calls[p][n]) /\ calls'[p][n][i] = calls[p][n][i + d]
    BY <2>1, SMTT(60)
  <2>3. CallInv(p, n, calls[p][n][i + d])
    BY <1>1, <2>2, CallsAre, SMTT(60)
  <2>4. objProcess[calls[p][n][i + d].req] = p
    BY <1>3, <2>2, <2>3, Zenon DEF CallInv
  <2> QED
    BY <1>3, <2>2, <2>4 DEF Listeners
<1> QED
  BY <1>2, <1>3

\* A step that lets processes in P go out of service, and their entries die.
LEMMA DyingStep ==
    ASSUME ManagerInv, ProcessInv', ObjectsLater, stopped => stopped',
           NEW P \in SUBSET Proc, NEW manual, Die(Listeners(P), manual),
           \A p \in P, m \in Child : ~Serving(proc'[p], m),
           \A u \in User : ~manual /\ engines[u] \in Listeners(P) => ~InCall(u)',
           FewerCalls, calls' \in [Proc -> [Child -> Seq(Call)]],
           UNCHANGED <<objProcess, locks, nextProcess, req, engine, row,
                       booted, bootLeft, scene>>,
           \A p \in Proc \ SharedProc : Heard(p)
    PROVE  ManagerInv'
<1> DEFINE E == Listeners(P)
<1>1. Types /\ E \subseteq listening
  BY DEF ManagerInv, Listeners
<1>2. /\ engines' \in [User -> Req \cup {None}]
      /\ listening' \subseteq Req
      /\ restarts' \in [User -> Nat]
      /\ \A u \in User : restarts'[u] # restarts[u] =>
            /\ ~manual /\ engines[u] \in E /\ engines[u] # None /\ Stage(u) # "process"
  BY <1>1, DieTypes
<1>3. Types'
  BY <1>1, <1>2 DEF Types
<1>4. EnginesStop
  BY DEF EnginesStop
<1>5. /\ \A e \in E : ~Running(e)'
      /\ \A p \in Proc, n \in Child : \A i \in 1..Len(calls'[p][n]) :
             calls'[p][n][i].op = "run" /\ Serving(proc'[p], n) => calls'[p][n][i].req \notin E
  BY <1>4, DeadProcesses
<1>6. /\ listening' = listening \ E
      /\ engines' = [u \in User |-> IF engines[u] \in E THEN None ELSE engines[u]]
  BY DEF Die
<1>7. \A u \in User : ~manual /\ engines[u] \in E => ~InCall(u)'
  OBVIOUS
<1> HIDE DEF E
<1>8. EntriesDie(E)
  BY <1>1, <1>2, <1>5, <1>6, <1>7 DEF EntriesDie
<1>9. \A e \in Req : SameRequest(e) /\ (e # None => req'[e] = req[e])
  BY DEF SameRequest
<1>10. GoesOn(None)
  BY Names DEF GoesOn
<1>11. Step(None, E)
  BY <1>4, <1>8, <1>9, <1>10 DEF Step
<1> QED
  BY <1>3, <1>11, StepManagerInv

\* While all are waiting, nobody's process has settled.
LEMMA NotSettled ==
    ASSUME ManagerInv, Quiet, NEW r \in Req, Stage(r) = "process",
           req[r].target \in Proc \ SharedProc
    PROVE  proc[req[r].target].attempt[1] = "pending"
<1>1. req[r].attempt = 1
  BY DEF ManagerInv, SeparateInv, Alone
<1>2. ~Settled(r)
  BY DEF Quiet, Runnable
<1> QED
  BY <1>1, <1>2 DEF Settled

\* Whoever is run by start() and waits for the worker is alone.
LEMMA OnlyEntry ==
    ASSUME ManagerInv, NEW u \in User, InCall(u), engines[u] # None
    PROVE  engines[u] = u
<1>1. AtStart(u) /\ EntryInv(u) /\ engines[u] \in Req
  BY DEF ManagerInv, StartInv, EnginesInv, Types
<1> QED
  BY <1>1 DEF AtStart, EntryInv

LEMMA NobodyDiesStep ==
    ASSUME ManagerInv, NobodyDies
    PROVE  Die(Listeners({}), TRUE)
<1>1. Listeners({}) = {} /\ engines = [u \in User |-> engines[u]]
      /\ restarts = [u \in User |-> restarts[u]]
  BY DEF Listeners, ManagerInv, Types
<1> QED
  BY <1>1 DEF Die, NobodyDies

LEMMA CallsEmptied ==
    ASSUME ManagerInv, NEW p \in Proc, NEW n \in Child,
           calls' = [calls EXCEPT ![p][n] = <<>>]
    PROVE  /\ calls' \in [Proc -> [Child -> Seq(Call)]] /\ FewerCalls
           /\ \A q \in Proc, m \in Child :
                 calls'[q][m] = IF q = p /\ m = n THEN <<>> ELSE calls[q][m]
<1>1. calls \in [Proc -> [Child -> Seq(Call)]] /\ <<>> \in Seq(Call)
  BY DEF ManagerInv, Types
<1>2. \A q \in Proc, m \in Child :
          calls'[q][m] = IF q = p /\ m = n THEN <<>> ELSE calls[q][m]
  BY <1>1
<1>3. calls' \in [Proc -> [Child -> Seq(Call)]]
  BY <1>1
<1>4. FewerCalls
  <2> SUFFICES ASSUME NEW q \in Proc, NEW m \in Child
               PROVE  \E d \in Nat : \A i \in 1..Len(calls'[q][m]) :
                         /\ i + d \in 1..Len(calls[q][m])
                         /\ calls'[q][m][i] = calls[q][m][i + d]
    BY DEF FewerCalls
  <2>1. Len(calls[q][m]) \in Nat
    BY <1>1
  <2>2. \A i \in 1..Len(calls'[q][m]) : /\ i + 0 \in 1..Len(calls[q][m])
                                       /\ calls'[q][m][i] = calls[q][m][i + 0]
    <3>1. CASE q = p /\ m = n
      <4>1. calls'[q][m] = <<>> /\ 1..Len(<<>>) = {}
        BY <1>2, <3>1
      <4> QED
        BY <4>1
    <3>2. CASE ~(q = p /\ m = n)
      <4>1. calls'[q][m] = calls[q][m] /\ \A i \in 1..Len(calls[q][m]) : i + 0 = i
        BY <1>2, <2>1, <3>2
      <4> QED
        BY <4>1
    <3> QED
      BY <3>1, <3>2
  <2> WITNESS 0 \in Nat
  <2> QED
    BY <2>2
<1> QED
  BY <1>2, <1>3, <1>4

LEMMA WorkerLostInv ==
    ASSUME ManagerInv, NEW p \in Proc, NEW n \in Child, WorkerLost(p, n)
    PROVE  ManagerInv'
<1>1. /\ ObjectInv(proc[p]) /\ proc[p] \in Process /\ Types /\ CallsInv
      /\ RestartsOnExit(p) \in BOOLEAN /\ proc[p].hadExit \in BOOLEAN
      /\ UNCHANGED <<objProcess, locks, nextProcess, req, engine, row, booted, bootLeft, scene>>
      /\ stopped => stopped'
  BY DEF ManagerInv, ProcessInv, ObjectInv, Process, WorkerLost, ChildDisconnect, ChildExit,
         RestartsOnExit
<1>2. /\ ProcessInv' /\ ProcessInv
      /\ calls' \in [Proc -> [Child -> Seq(Call)]] /\ FewerCalls
      /\ \A q \in Proc, m \in Child :
            calls'[q][m] = IF q = p /\ m = n THEN <<>> ELSE calls[q][m]
  BY ChildEventInv, CallsEmptied, ZenonT(200) DEF ManagerInv, WorkerLost, ChildEvent
<1>3. \E s : /\ Set(p, s) /\ Later(proc[p], s) /\ NoNewChild(proc[p], s) /\ s.hadExit
             /\ ~proc[p].hadExit => proc[p].spawned = 1 /\ n = 1 /\ \A m \in Child : ~Serving(s, m)
             /\ \A m \in Child : s.attempt[m] = "ready" => proc[p].attempt[m] = "ready"
             /\ s.os[n] # "booting"
  <2>1. CASE ChildDisconnect(p, n)
    <3> DEFINE s == Disconnected(proc[p], n, RestartsOnExit(p))
    <3>1. Connected(proc[p], n) /\ Set(p, s)
      BY <2>1 DEF ChildDisconnect
    <3>2. /\ Later(proc[p], s) /\ NoNewChild(proc[p], s) /\ s.hadExit
          /\ ~proc[p].hadExit => proc[p].spawned = 1 /\ n = 1 /\ \A m \in Child : ~Serving(s, m)
          /\ \A m \in Child : s.attempt[m] = "ready" => proc[p].attempt[m] = "ready"
      BY <1>1, <3>1, DisconnectedLater
    <3>3. s.os = [proc[p].os EXCEPT ![n] = "adrift"] /\ proc[p].os \in [Child -> {"none", "booting", "ready", "adrift", "dead"}]
      <4>1. s.os = [proc[p].os EXCEPT ![n] = "adrift"]
        BY <1>1, DisconnectedFields
      <4> QED
        BY <1>1, <4>1 DEF Process
    <3> HIDE DEF s
    <3>4. s.os[n] # "booting"
      BY <3>3
    <3> QED
      BY <3>1, <3>2, <3>4
  <2>2. CASE ChildExit(p, n)
    <3> DEFINE s == ChildGone(proc[p], n, RestartsOnExit(p))
    <3>1. Alive(proc[p], n) /\ Set(p, s)
      BY <2>2 DEF ChildExit
    <3>2. /\ Later(proc[p], s) /\ NoNewChild(proc[p], s) /\ s.hadExit
          /\ ~proc[p].hadExit => proc[p].spawned = 1 /\ n = 1 /\ \A m \in Child : ~Serving(s, m)
          /\ \A m \in Child : s.attempt[m] = "ready" => proc[p].attempt[m] = "ready"
      BY <1>1, <3>1, ChildGoneLater
    <3>3. s.os = [proc[p].os EXCEPT ![n] = "dead"] /\ proc[p].os \in [Child -> {"none", "booting", "ready", "adrift", "dead"}]
      <4>1. s.os = [proc[p].os EXCEPT ![n] = "dead"]
        BY <1>1, ChildGoneFields
      <4> QED
        BY <1>1, <4>1 DEF Process
    <3> HIDE DEF s
    <3>4. s.os[n] # "booting"
      BY <3>3
    <3> QED
      BY <3>1, <3>2, <3>4
  <2> QED
    BY <2>1, <2>2 DEF WorkerLost
<1>4. PICK s : /\ Set(p, s) /\ Later(proc[p], s) /\ NoNewChild(proc[p], s) /\ s.hadExit
               /\ ~proc[p].hadExit => proc[p].spawned = 1 /\ n = 1 /\ \A m \in Child : ~Serving(s, m)
               /\ \A m \in Child : s.attempt[m] = "ready" => proc[p].attempt[m] = "ready"
               /\ s.os[n] # "booting"
  BY <1>3
<1>5. ObjectsLater /\ \A q \in Proc : proc'[q] = IF q = p THEN s ELSE proc[q]
  BY <1>2, <1>4, SetLater
<1>6. CASE proc[p].hadExit
  <2>1. \A q \in Proc \ SharedProc : Heard(q)
    BY <1>5, <1>6 DEF Heard
  <2>2. Die(Listeners({}), TRUE)
    BY <1>6, NobodyDiesStep DEF WorkerLost
  <2>3. /\ {} \in SUBSET Proc /\ \A q \in {}, m \in Child : ~Serving(proc'[q], m)
        /\ \A u \in User : ~TRUE /\ engines[u] \in Listeners({}) => ~InCall(u)'
    OBVIOUS
  <2> QED
    BY <1>1, <1>2, <1>5, <2>1, <2>2, <2>3, DyingStep
<1>7. CASE ~proc[p].hadExit
  <2>1. Die(Listeners({p}), FALSE) /\ listening' = listening \ Listeners({p})
    BY <1>7 DEF WorkerLost, Die
  <2>2. ASSUME NEW q \in Proc \ SharedProc PROVE Heard(q)
    <3>1. CASE q # p
      BY <1>5, <3>1 DEF Heard
    <3>2. CASE q = p
      <4>1. proc'[p].os[1] # "booting"
        BY <1>4, <1>5, <1>7
      <4>2. \A e \in listening' : objProcess[e] # p
        BY <2>1 DEF Listeners
      <4>3. ASSUME NEW r \in Req, Stage(r)' = "process", req'[r].target = p
            PROVE  proc'[p].attempt[1] # "ready"
        <5>1. Stage(r) = "process" /\ req[r].target = p
          BY <1>1, <4>3 DEF Stage
        <5>2. proc[p].attempt[1] = "pending"
          BY <3>2, <5>1, NotSettled DEF WorkerLost
        <5>3. 1 \in Child
          BY ProcessAssumption DEF Child
        <5> QED
          BY <1>4, <1>5, <5>2, <5>3
      <4> QED
        BY <3>2, <4>1, <4>2, <4>3 DEF Heard
    <3> QED
      BY <3>1, <3>2
  <2>3. ASSUME NEW u \in User, engines[u] \in Listeners({p}), InCall(u)' PROVE FALSE
    <3>1. PICK q \in Proc, m \in Child : \E i \in 1..Len(calls'[q][m]) : calls'[q][m][i].req = u
      BY <2>3 DEF InCall
    <3>2. PICK i \in 1..Len(calls'[q][m]) : calls'[q][m][i].req = u
      BY <3>1
    <3>3. ~(q = p /\ m = n) /\ calls'[q][m] = calls[q][m]
      <4>1. q = p /\ m = n => calls'[q][m] = <<>> /\ 1..Len(<<>>) = {}
        BY <1>2
      <4> QED
        BY <1>2, <3>2, <4>1
    <3>4. i \in 1..Len(calls[q][m]) /\ calls[q][m][i].req = u
      BY <3>2, <3>3
    <3>5. CallInv(q, m, calls[q][m][i]) /\ InCall(u) /\ calls[q][m][i] \in Call
      BY <1>1, <3>4, CallsAre
    <3>6. objProcess[u] = q /\ m <= proc[q].spawned
      BY <3>4, <3>5 DEF CallInv, Call
    <3>7. engines[u] \in Req /\ engines[u] # None /\ objProcess[engines[u]] = p
      BY <1>1, <2>3, Names DEF Listeners, Types
    <3>8. q = p
      BY <3>5, <3>6, <3>7, OnlyEntry
    <3>9. m = n
      BY <1>4, <1>7, <3>6, <3>8 DEF Child
    <3> QED
      BY <3>3, <3>8, <3>9
  <2>4. \A q \in {p}, m \in Child : ~Serving(proc'[q], m)
    BY <1>4, <1>5, <1>7
  <2> QED
    BY <1>1, <1>2, <1>5, <2>1, <2>2, <2>3, <2>4, DyingStep
<1> QED
  BY <1>1, <1>6, <1>7

LEMMA SameCalls ==
    ASSUME ManagerInv, UNCHANGED calls
    PROVE  FewerCalls /\ calls' \in [Proc -> [Child -> Seq(Call)]]
<1>1. calls \in [Proc -> [Child -> Seq(Call)]]
  BY DEF ManagerInv, Types
<1> SUFFICES ASSUME NEW p \in Proc, NEW n \in Child
             PROVE  \E d \in Nat : \A i \in 1..Len(calls'[p][n]) :
                       /\ i + d \in 1..Len(calls[p][n])
                       /\ calls'[p][n][i] = calls[p][n][i + d]
  BY <1>1 DEF FewerCalls
<1>2. \A i \in 1..Len(calls[p][n]) : i + 0 = i
  BY <1>1
<1> WITNESS 0 \in Nat
<1> QED
  BY <1>2

LEMMA KillEveryoneInv == ManagerInv /\ KillEveryone => ManagerInv'
<1> SUFFICES ASSUME ManagerInv, KillEveryone PROVE ManagerInv'
  OBVIOUS
<1> DEFINE P == {p \in registered : proc[p].child # 0}
<1>1. /\ ProcessInv /\ ProcessInv' /\ P \in SUBSET Proc /\ registered \subseteq Proc
      /\ Die(Listeners(P), TRUE) /\ listening' = listening \ Listeners(P)
      /\ UNCHANGED <<objProcess, locks, nextProcess, req, calls, engine, row, booted, bootLeft, scene>>
      /\ Quiet
  <2>1. ProcessInv'
    BY StepInv DEF ManagerInv, KillEveryone, Next
  <2> QED
    BY <2>1 DEF ManagerInv, ProcessInv, TypeOK, KillEveryone, Die
<1>2. \E halting \in BOOLEAN :
         /\ KillAll(halting)
         /\ stopped => stopped'
         /\ ~Spared' => \A p \in registered, n \in Child : proc[p].os[n] # "booting"
  <2>1. CASE KillAllUsers
    BY <1>1, <2>1 DEF KillEveryone, KillAllUsers, Stop, ProcessInv, TypeOK, Spared
  <2>2. CASE Stop
    BY <2>2 DEF Stop, Spared
  <2> QED
    BY <2>1, <2>2 DEF KillEveryone
<1>3. PICK halting \in BOOLEAN :
         /\ KillAll(halting)
         /\ stopped => stopped'
         /\ ~Spared' => \A p \in registered, n \in Child : proc[p].os[n] # "booting"
  BY <1>2
<1>4. ASSUME NEW p \in Proc
      PROVE  /\ Later(proc[p], proc'[p]) /\ NoNewChild(proc[p], proc'[p])
             /\ p \notin P => proc'[p] = proc[p]
             /\ p \in P => /\ proc'[p].os = proc[p].os /\ proc'[p].attempt = proc[p].attempt
                           /\ \A m \in Child : ~Serving(proc'[p], m)
  <2>1. ObjectInv(proc[p]) /\ proc[p] \in Process
    BY <1>1 DEF ProcessInv, ObjectInv
  <2>2. CASE p \in registered
    <3> DEFINE again == p \in SharedProc /\ ~halting
               s == Killed(proc[p], Sandboxed(p), TRUE, again)
    <3>1. proc'[p] = s /\ (proc[p].child = 0 \/ proc[p].kills < MaxKill)
      BY <1>3, <2>2 DEF KillAll, KilledAll, CanKill
    <3>2. Sandboxed(p) \in BOOLEAN /\ again \in BOOLEAN
      BY DEF Sandboxed
    <3> HIDE DEF again
    <3>3. /\ Later(proc[p], s) /\ NoNewChild(proc[p], s)
          /\ proc[p].child = 0 => s = proc[p]
          /\ s.os = proc[p].os /\ s.attempt = proc[p].attempt
          /\ proc[p].child # 0 => \A m \in Child : ~Serving(s, m)
      BY <2>1, <3>1, <3>2, KilledLater, ZenonT(200)
    <3> HIDE DEF s
    <3> QED
      BY <2>2, <3>1, <3>3
  <2>3. CASE p \notin registered
    <3>1. proc'[p] = proc[p]
      BY <1>3, <2>3 DEF KillAll, KilledAll
    <3> QED
      BY <2>1, <2>3, <3>1, LaterItself
  <2> QED
    BY <2>2, <2>3
<1>5. ObjectsLater
  BY <1>4 DEF ObjectsLater
<1> HIDE DEF P
<1>6. ASSUME NEW p \in Proc \ SharedProc PROVE Heard(p)
  <2>1. CASE p \notin P
    BY <1>4, <2>1 DEF Heard
  <2>2. CASE p \in P
    <3>1. 1 \in Child /\ p \in registered
      BY <2>2, ProcessAssumption DEF Child, P
    <3>2. ~Spared' => proc'[p].os[1] # "booting"
      BY <1>3, <1>4, <2>2, <3>1
    <3>3. \A e \in listening' : objProcess[e] # p
      BY <1>1, <2>2 DEF Listeners
    <3>4. ASSUME NEW r \in Req, Stage(r)' = "process", req'[r].target = p
          PROVE  proc'[p].attempt[1] # "ready"
      <4>1. Stage(r) = "process" /\ req[r].target = p
        BY <1>1, <3>4 DEF Stage
      <4>2. proc[p].attempt[1] = "pending"
        BY <1>1, <4>1, NotSettled
      <4> QED
        BY <1>4, <2>2, <4>2
    <3> QED
      BY <3>2, <3>3, <3>4 DEF Heard
  <2> QED
    BY <2>1, <2>2
<1>7. FewerCalls /\ calls' \in [Proc -> [Child -> Seq(Call)]]
  BY <1>1, SameCalls
<1>8. /\ \A p \in P, m \in Child : ~Serving(proc'[p], m)
      /\ \A u \in User : ~TRUE /\ engines[u] \in Listeners(P) => ~InCall(u)'
      /\ stopped => stopped'
  BY <1>1, <1>3, <1>4
<1> QED
  BY <1>1, <1>5, <1>6, <1>7, <1>8, DyingStep

-----------------------------------------------------------------------------
(* Steps of requests: what is left of the plan of request r becomes t.      *)
Goes(r, t) == \/ req' = [req EXCEPT ![r].todo = t]
              \/ req' = [req EXCEPT ![r].todo = t, ![r].failed = TRUE]

LEMMA Going ==
    ASSUME ManagerInv, NEW r \in Req, NEW t \in Seq(ManagerStage), Goes(r, t)
    PROVE  /\ req' \in [Req -> Request] /\ req'[r].todo = t
           /\ \A e \in Req : SameRequest(e) /\ (e # r => req'[e] = req[e])
<1>1. req \in [Req -> Request]
  BY DEF ManagerInv, Types
<1>2. req[r] \in Request
  BY <1>1
<1> DEFINE q1 == [req[r] EXCEPT !.todo = t]
           q2 == [req[r] EXCEPT !.todo = t, !.failed = TRUE]
<1>3. /\ q1 \in Request /\ q2 \in Request /\ q1.todo = t /\ q2.todo = t
      /\ q1.kind = req[r].kind /\ q1.user = req[r].user /\ q1.lock = req[r].lock
      /\ q1.target = req[r].target /\ q1.attempt = req[r].attempt
      /\ q2.kind = req[r].kind /\ q2.user = req[r].user /\ q2.lock = req[r].lock
      /\ q2.target = req[r].target /\ q2.attempt = req[r].attempt
  BY <1>2 DEF Request
<1>4. req' = [req EXCEPT ![r] = q1] \/ req' = [req EXCEPT ![r] = q2]
  BY DEF Goes
<1> HIDE DEF q1, q2
<1> QED
  BY <1>1, <1>3, <1>4 DEF SameRequest

LEMMA Todo ==
    ASSUME ManagerInv, NEW r \in Req, Stage(r) # "none"
    PROVE  LET t == req[r].todo
           IN  /\ t \in Seq(ManagerStage) /\ t # <<>> /\ Ordered(t)
               /\ Stage(r) = Head(t) /\ Stage(r) \in ManagerStage
<1>1. req[r] \in Request /\ RequestInv(r)
  BY DEF ManagerInv, Types, RequestsInv
<1>2. req[r].todo \in Seq(ManagerStage) /\ Ordered(req[r].todo) /\ req[r].todo # <<>>
  BY <1>1 DEF Request, RequestInv, Stage
<1> QED
  BY <1>2, OrderedTail DEF Stage

\* The next stage of the plan.
LEMMA Forward ==
    ASSUME ManagerInv, NEW r \in Req, Stage(r) \notin {"none", "release"},
           Advance(r)
    PROVE  /\ req' \in [Req -> Request] /\ req'[r].todo = Tail(req[r].todo)
           /\ \A e \in Req : SameRequest(e) /\ (e # r => req'[e] = req[e])
           /\ Ordered(req'[r].todo) /\ <<Stage(r), Stage(r)'>> \in Follows
           /\ Tail(req[r].todo) # <<>>
<1> DEFINE t == req[r].todo
           v == Tail(t)
<1>1. /\ t \in Seq(ManagerStage) /\ t # <<>> /\ Ordered(t) /\ Stage(r) = Head(t)
  BY Todo
<1>2. /\ v \in Seq(ManagerStage) /\ Ordered(v)
      /\ v = <<>> <=> Head(t) = "release"
      /\ v # <<>> => <<Head(t), Head(v)>> \in Follows
  BY <1>1, OrderedTail
<1>3. Goes(r, v)
  BY DEF Advance, Goes
<1> HIDE DEF v, t
<1>4. /\ req' \in [Req -> Request] /\ req'[r].todo = v
      /\ \A e \in Req : SameRequest(e) /\ (e # r => req'[e] = req[e])
  BY <1>2, <1>3, Going
<1>5. v # <<>> /\ Stage(r)' = Head(v)
  BY <1>1, <1>2, <1>4 DEF Stage
<1> QED
  BY <1>1, <1>2, <1>4, <1>5 DEF v, t

\* The end of it.
LEMMA ToRelease ==
    ASSUME ManagerInv, NEW r \in Req, Fail(r)
    PROVE  /\ req' \in [Req -> Request]
           /\ \A e \in Req : SameRequest(e) /\ (e # r => req'[e] = req[e])
           /\ Ordered(req'[r].todo) /\ Stage(r)' = "release"
<1> DEFINE w == <<"release">>
<1>1. w \in Seq(ManagerStage) /\ w # <<>> /\ Ordered(w) /\ Head(w) = "release"
  BY OrderedRelease
<1>2. Goes(r, w)
  BY DEF Fail, Goes
<1> HIDE DEF w
<1>3. /\ req' \in [Req -> Request] /\ req'[r].todo = w
      /\ \A e \in Req : SameRequest(e) /\ (e # r => req'[e] = req[e])
  BY <1>1, <1>2, Going
<1> QED
  BY <1>1, <1>3 DEF Stage

\* A stage that takes the place of the present one.
LEMMA Instead ==
    ASSUME ManagerInv, NEW r \in Req, Stage(r) \notin {"none", "release"},
           NEW s \in ManagerStage,
           \A v \in ManagerStage : <<Stage(r), v>> \in Follows => <<s, v>> \in Follows,
           req' = [req EXCEPT ![r].todo = <<s>> \o Tail(@)]
    PROVE  /\ req' \in [Req -> Request] /\ Tail(req'[r].todo) = Tail(req[r].todo)
           /\ \A e \in Req : SameRequest(e) /\ (e # r => req'[e] = req[e])
           /\ Ordered(req'[r].todo) /\ Stage(r)' = s
<1> DEFINE t == req[r].todo
           w == <<s>> \o Tail(t)
<1>1. /\ t \in Seq(ManagerStage) /\ t # <<>> /\ Ordered(t) /\ Stage(r) = Head(t)
  BY Todo
<1>2. Goes(r, w)
  BY DEF Goes
<1>3. /\ Tail(t) \in Seq(ManagerStage) /\ Tail(t) # <<>>
      /\ <<Head(t), Head(Tail(t))>> \in Follows
  BY <1>1, OrderedTail
<1>4. Head(Tail(t)) \in ManagerStage
  BY <1>3
<1>5. <<s, Head(Tail(t))>> \in Follows
  BY <1>1, <1>3, <1>4
<1>6. w \in Seq(ManagerStage) /\ w # <<>> /\ Ordered(w) /\ Head(w) = s /\ Tail(w) = Tail(t)
  BY <1>1, <1>3, <1>5, OrderedAgain
<1> HIDE DEF w
<1>7. /\ req' \in [Req -> Request] /\ req'[r].todo = w
      /\ \A e \in Req : SameRequest(e) /\ (e # r => req'[e] = req[e])
  BY <1>2, <1>6, Going
<1> QED
  BY <1>6, <1>7 DEF Stage

\* An operation that is in the way of nothing goes on: what is said of r then
\* follows from the stage it leaves.
LEMMA GoesOnFacts ==
    ASSUME ManagerInv, NEW r \in Req,
           Stage(r) \in {"lock", "kill", "path", "lookup", "rm", "row", "process"},
           Stage(r) = "lock" => Head(Queue(r)) = r,
           UNCHANGED objProcess,
           \A e \in Req : SameRequest(e),
           Stage(r)' \in {"kill", "path", "lookup", "rm", "row", "release"},
           Stage(r) = "process" => Stage(r)' = "release",
           Ordered(req'[r].todo),
           ~InCall(r)',
           NEW u \in User, u = req[r].user, HasKilled(r)' => Cleared(u)'
    PROVE  GoesOn(r)
<1>1. RequestInv(r) /\ EngineInv(r)
  BY DEF ManagerInv, RequestsInv, EnginesInv
<1>2. Stage(r) = "lock" => Queue(r) # <<>>
  <2> SUFFICES ASSUME Stage(r) = "lock" PROVE Queue(r) # <<>>
    OBVIOUS
  <2>1. r \notin User
    BY <1>1 DEF RequestInv
  <2>2. \E i \in 1..Len(Queue(r)) : Queue(r)[i] = r
    BY <2>1 DEF ManagerInv, LocksInv, Locked
  <2>3. 1..Len(<<>>) = {}
    OBVIOUS
  <2> QED
    BY <2>2, <2>3
<1>3. r \in User \/ objProcess[r] # None => Stage(r) = "process"
  <2>1. r \in User => Stage(r) \in {"none", "process", "reply", "release"}
    BY <1>1 DEF RequestInv
  <2>2. objProcess[r] # None => Stage(r) \in {"none", "reply", "release"}
    BY <1>1 DEF EngineInv
  <2> QED
    BY <2>1, <2>2
<1>4. r \in User \/ objProcess[r] # None => Stage(r)' = "release"
  BY <1>3
<1>5. Stage(r) # "none" /\ (Stage(r) = "lock" => Queue(r) # <<>> /\ Head(Queue(r)) = r)
  BY <1>2
<1>6. HasKilled(r)' => Cleared(req[r].user)'
  <2>1. u = req'[r].user
    BY DEF SameRequest
  <2> QED
    BY <2>1
<1> QED
  BY <1>4, <1>5, <1>6 DEF GoesOn

\* ... and when it only goes on, what it leaves behind is as it was.
LEMMA WaitingStep ==
    ASSUME ManagerInv, NEW r \in Req,
           Stage(r) \in {"lock", "kill", "path", "lookup", "rm", "row", "process"},
           Stage(r) = "lock" => Head(Queue(r)) = r,
           UNCHANGED <<processVars, engines, objProcess, listening, locks, nextProcess,
                       restarts, calls, engine, row, booted, bootLeft, scene>>,
           req' \in [Req -> Request],
           \A e \in Req : SameRequest(e) /\ (e # r => req'[e] = req[e]),
           Stage(r)' \in {"kill", "path", "lookup", "rm", "row", "release"},
           Stage(r) = "process" => Stage(r)' = "release",
           Ordered(req'[r].todo),
           HasKilled(r)' => Cleared(req[r].user)
    PROVE  ManagerInv'
<1>1. ProcessInv' /\ Types /\ CallsInv /\ RequestsInv
  BY StepInv DEF ManagerInv
<1>2. ObjectsLater /\ \A p \in Proc \ SharedProc : Heard(p)
  BY LaterItself DEF ManagerInv, ProcessInv, TypeOK, ObjectsLater, Heard, processVars
<1>3. Types'
  BY <1>1 DEF Types
<1>4. FewerCalls /\ EnginesStop
  BY SameCalls DEF EnginesStop
<1>5. ASSUME NEW q, InCall(q)' PROVE InCall(q)
  BY <1>5 DEF InCall
<1>6. ~InCall(r)'
  BY <1>1, <1>5, InCallReplies
<1>7. req[r].user \in User
  BY <1>1, KindOfStage
<1>8. ASSUME NEW u \in User, u = req[r].user, HasKilled(r)' PROVE Cleared(u)'
  <2>1. Cleared(u)
    BY <1>8
  <2> QED
    BY <2>1 DEF Cleared, Running, IsRunning, Spared, SameRequest, processVars
<1>9. GoesOn(r)
  <2>1. PICK u \in User : u = req[r].user
    BY <1>7
  <2>2. HasKilled(r)' => Cleared(u)'
    BY <1>8, <2>1
  <2> QED
    BY <1>6, <2>1, <2>2, GoesOnFacts
<1>10. EntriesDie({})
  <2>1. engines' = [u \in User |-> engines[u]]
    BY <1>1 DEF Types
  <2> QED
    BY <1>1, <2>1 DEF EntriesDie, Types
<1>11. Step(r, {})
  BY <1>2, <1>4, <1>9, <1>10 DEF Step, processVars
<1> QED
  BY <1>1, <1>2, <1>3, <1>11, StepManagerInv

LEMMA TakeLockInv ==
    ASSUME ManagerInv, NEW r \in Req, TakeLock(r)
    PROVE  ManagerInv'
<1>1. Stage(r) = "lock" /\ Advance(r) /\ Head(Queue(r)) = r
  BY DEF TakeLock, Job, Runnable
<1>2. /\ req' \in [Req -> Request]
      /\ \A e \in Req : SameRequest(e) /\ (e # r => req'[e] = req[e])
      /\ Ordered(req'[r].todo) /\ <<Stage(r), Stage(r)'>> \in Follows
  BY <1>1, Forward
<1>3. Stage(r)' = "kill"
  BY <1>1, <1>2 DEF Follows
<1> QED
  BY <1>1, <1>2, <1>3, WaitingStep DEF TakeLock, HasKilled

\* No entry has a process: no engine runs.
LEMMA NobodyRuns ==
    ASSUME ManagerInv, NEW u \in User, ~IsRunning(u)
    PROVE  Cleared(u)
<1> SUFFICES ASSUME NEW e \in Req, req[e].user = u, Running(e) PROVE FALSE
  BY DEF Cleared
<1>1. /\ engine[e].state # "none" /\ EngineInv(e)
  BY DEF Running, ManagerInv, EnginesInv
<1>2. engines[u] = e /\ objProcess[e] # None
  BY <1>1 DEF EngineInv
<1> QED
  BY <1>2, Names DEF IsRunning

LEMMA KillNobodyInv ==
    ASSUME ManagerInv, NEW r \in Req, NEW s \in {"kill", "path"}, KillNobody(r, s)
    PROVE  ManagerInv'
<1>1. Stage(r) = s /\ ~IsRunning(req[r].user)
  BY DEF KillNobody, Job
<1>2. Cleared(req[r].user)
  BY <1>1, NobodyRuns, KindOfStage DEF ManagerInv
<1>3. CASE Advance(r)
  <2>1. /\ req' \in [Req -> Request]
        /\ \A e \in Req : SameRequest(e) /\ (e # r => req'[e] = req[e])
        /\ Ordered(req'[r].todo) /\ <<Stage(r), Stage(r)'>> \in Follows
    BY <1>1, <1>3, Forward
  <2>2. Stage(r)' \in {"kill", "path", "lookup", "rm", "row", "release"}
    BY <1>1, <2>1 DEF Follows
  <2> QED
    BY <1>1, <1>2, <2>1, <2>2, WaitingStep DEF KillNobody
<1>4. CASE s = "path" /\ req' = [req EXCEPT ![r].todo = <<"lookup">> \o Tail(@)]
  <2>1. \A v \in ManagerStage : <<Stage(r), v>> \in Follows => <<"lookup", v>> \in Follows
    BY <1>1, <1>4, SMTT(60) DEF Follows
  <2>2. /\ req' \in [Req -> Request]
        /\ \A e \in Req : SameRequest(e) /\ (e # r => req'[e] = req[e])
        /\ Ordered(req'[r].todo) /\ Stage(r)' = "lookup"
    BY <1>1, <1>4, <2>1, Instead, Zenon DEF ManagerStage
  <2> QED
    BY <1>1, <1>2, <2>2, WaitingStep DEF KillNobody
<1> QED
  BY <1>3, <1>4 DEF KillNobody

LEMMA PathFoundInv ==
    ASSUME ManagerInv, NEW r \in Req, PathFound(r)
    PROVE  ManagerInv'
<1>1. Stage(r) = "lookup" /\ Cleared(req[r].user)
  BY DEF PathFound, ManagerInv, ClearedInv, HasKilled
<1>2. CASE Advance(r)
  <2>1. /\ req' \in [Req -> Request]
        /\ \A e \in Req : SameRequest(e) /\ (e # r => req'[e] = req[e])
        /\ Ordered(req'[r].todo) /\ <<Stage(r), Stage(r)'>> \in Follows
    BY <1>1, <1>2, Forward
  <2>2. Stage(r)' = "rm"
    BY <1>1, <2>1 DEF Follows
  <2> QED
    BY <1>1, <2>1, <2>2, WaitingStep DEF PathFound
<1>3. CASE Fail(r)
  BY <1>1, <1>3, ToRelease, WaitingStep DEF PathFound
<1> QED
  BY <1>2, <1>3 DEF PathFound

LEMMA RemovedInv ==
    ASSUME ManagerInv, NEW r \in Req, Removed(r)
    PROVE  ManagerInv'
<1>1. Stage(r) = "rm" /\ Cleared(req[r].user) /\ Advance(r)
  BY DEF Removed, ManagerInv, ClearedInv, HasKilled
<1>2. /\ req' \in [Req -> Request]
      /\ \A e \in Req : SameRequest(e) /\ (e # r => req'[e] = req[e])
      /\ Ordered(req'[r].todo) /\ <<Stage(r), Stage(r)'>> \in Follows
  BY <1>1, Forward
<1>3. Stage(r)' \in {"row", "release"}
  BY <1>1, <1>2 DEF Follows
<1> QED
  BY <1>1, <1>2, <1>3, WaitingStep DEF Removed

\* What _killUserLocked finds: the current entry listens to its process, and
\* only it may have an engine that runs.
LEMMA KillTarget ==
    ASSUME ManagerInv, NEW u \in User, IsRunning(u)
    PROVE  /\ engines[u] \in Req /\ engines[u] # None /\ req[engines[u]].user = u
           /\ engines[u] \in listening /\ objProcess[engines[u]] \in Proc
           /\ \A e \in Req : req[e].user = u /\ Running(e) =>
                 e = engines[u] /\ engine[e].proc = objProcess[engines[u]]
<1>1. /\ engines[u] # None /\ objProcess[engines[u]] # None
      /\ EntryInv(u) /\ engines[u] \in Req
  BY DEF IsRunning, ManagerInv, EnginesInv, Types
<1>2. objProcess[engines[u]] \in Proc
  BY <1>1 DEF ManagerInv, Types
<1>3. ASSUME NEW e \in Req, req[e].user = u, Running(e)
      PROVE  e = engines[u] /\ engine[e].proc = objProcess[engines[u]]
  BY <1>3 DEF ManagerInv, EnginesInv, EngineInv
<1> QED
  BY <1>1, <1>2, <1>3 DEF EntryInv

LEMMA KillJobFacts ==
    ASSUME ManagerInv, NEW r \in Req, NEW s \in {"kill", "path"}, Job(r, s)
    PROVE  /\ Stage(r) = s /\ req[r].user \in User /\ r \notin User
           /\ ~InCall(r) /\ Acts(r)
           /\ IsRunning(req[r].user) /\ objProcess[engines[req[r].user]] \in SharedProc
                 => s = "kill"
<1>1. Stage(r) = s /\ Types /\ CallsInv /\ RequestsInv
  BY DEF Job, ManagerInv
<1>2. req[r].user \in User /\ r \notin User
  BY <1>1, KindOfStage DEF RequestsInv, RequestInv
<1>3. ~InCall(r) /\ Acts(r)
  BY <1>1, InCallReplies DEF Acts
<1>4. s = "path" => Cleared(req[r].user)
  BY <1>1 DEF ManagerInv, ClearedInv, HasKilled
<1> QED
  BY <1>1, <1>2, <1>3, <1>4 DEF Cleared

\* The process of a user's entry and the user of a request, the entries that
\* hear that the engine of u is removed from p, and those that hear that the
\* process p is killed.
ProcessOf(u)     == objProcess[engines[u]]
UserOf(r)        == req[r].user
RemovedFor(u, p) == {e \in Listeners({p}) : req[e].user = u}
KilledWith(p)    == IF proc[p].child = 0 THEN {} ELSE Listeners({p})

\* The entries of the user whose engine is killed die.
LEMMA RemovedEntries ==
    ASSUME ManagerInv, NEW u \in User, NEW p, NEW E,
           \/ E = {e \in Listeners({p}) : req[e].user = u}
           \/ E = Listeners({p}),
           Die(E, TRUE), UNCHANGED objProcess,
           IsRunning(u) => objProcess[engines[u]] = p
    PROVE  /\ E \subseteq listening /\ listening' = listening \ E
           /\ engines' = [v \in User |-> IF engines[v] \in E THEN None ELSE engines[v]]
           /\ restarts' = restarts
           /\ engines' \in [User -> Req \cup {None}] /\ listening' \subseteq Req
           /\ ~IsRunning(u)'
<1>1. E \subseteq listening
  BY DEF Listeners
<1>2. /\ engines' \in [User -> Req \cup {None}] /\ listening' \subseteq Req
      /\ restarts' \in [User -> Nat]
      /\ \A v \in User : restarts'[v] = restarts[v]
  BY <1>1, DieTypes
<1>3. restarts \in [User -> Nat]
  BY DEF ManagerInv, Types
<1>4. listening' = listening \ E
      /\ engines' = [v \in User |-> IF engines[v] \in E THEN None ELSE engines[v]]
  BY DEF Die
<1>5. ~IsRunning(u)'
  <2>1. CASE IsRunning(u)
    <3>1. engines[u] \in E
      BY <2>1, KillTarget DEF Listeners
    <3> QED
      BY <1>4, <3>1 DEF IsRunning
  <2>2. CASE ~IsRunning(u)
    BY <1>4, <2>2, SMTT(60) DEF IsRunning
  <2> QED
    BY <2>1, <2>2
<1> QED
  BY <1>1, <1>2, <1>3, <1>4, <1>5

\* killEngine() throws, or the worker has no channel.
LEMMA KillSharedDeadInv ==
    ASSUME ManagerInv, NEW r \in Req, NEW s \in {"kill", "path"}, KillShared(r, s),
           NEW u \in User, u = UserOf(r),
           NEW p, p = ProcessOf(u),
           NEW n, n = proc[p].rpc, n = 0 \/ ~Connected(proc[p], n),
           NEW E, E = RemovedFor(u, p)
    PROVE  ManagerInv'
<1>0. u = req[r].user /\ p = objProcess[engines[u]]
  BY ONLY u = UserOf(r), p = ProcessOf(u) DEF UserOf, ProcessOf
<1>1. /\ Stage(r) = s /\ r \notin User /\ ~InCall(r) /\ Acts(r) /\ s = "kill"
      /\ IsRunning(u) /\ p \in SharedProc
  BY <1>0, KillJobFacts, Zenon DEF KillShared
<1>2. CASE Fail(r) /\ NobodyDies /\ UNCHANGED calls
  <2>1. /\ req' \in [Req -> Request]
        /\ \A e \in Req : SameRequest(e) /\ (e # r => req'[e] = req[e])
        /\ Ordered(req'[r].todo) /\ Stage(r)' = "release"
    BY <1>2, ToRelease
  <2> QED
    BY <1>1, <1>2, <2>1, WaitingStep, Zenon DEF KillShared, HasKilled, NobodyDies
<1>3. CASE /\ n # 0 /\ ~Connected(proc[p], n)
           /\ EngineRemoved(u, p)
           /\ Advance(r) /\ UNCHANGED calls
  <2>1. /\ req' \in [Req -> Request]
        /\ \A e \in Req : SameRequest(e) /\ (e # r => req'[e] = req[e])
        /\ Ordered(req'[r].todo) /\ <<Stage(r), Stage(r)'>> \in Follows
    BY <1>1, <1>3, Forward
  <2>2. Stage(r)' \in {"path", "row", "release"}
    BY <1>1, <2>1, SMTT(60) DEF Follows
  <2>3. /\ ProcessInv' /\ Types /\ CallsInv
        /\ UNCHANGED <<processVars, objProcess, locks, nextProcess, engine, row,
                       booted, bootLeft, scene>>
    BY StepInv, Zenon DEF ManagerInv, KillShared
  <2>4. ObjectsLater /\ \A q \in Proc \ SharedProc : Heard(q)
    BY <2>3, LaterItself, SMTT(60) DEF ManagerInv, ProcessInv, TypeOK, ObjectsLater, Heard, processVars
  <2>5. Die(E, TRUE)
    BY <1>3 DEF RemovedFor, EngineRemoved
  <2>6. /\ E \subseteq listening /\ listening' = listening \ E
        /\ engines' = [v \in User |-> IF engines[v] \in E THEN None ELSE engines[v]]
        /\ restarts' = restarts
        /\ engines' \in [User -> Req \cup {None}] /\ listening' \subseteq Req
        /\ ~IsRunning(u)'
    <3>1. UNCHANGED objProcess
      BY <2>3
    <3>2. \/ E = {e \in Listeners({p}) : req[e].user = u}
          \/ E = Listeners({p})
      BY DEF RemovedFor
    <3>3. IsRunning(u) => objProcess[engines[u]] = p
      BY <1>0
    <3> QED
      BY ONLY ManagerInv, <2>5, <3>1, <3>2, <3>3, RemovedEntries
  <2>7. Types'
    BY <1>3, <2>1, <2>3, <2>6, ZenonT(60) DEF Types
  <2>8. FewerCalls /\ EnginesStop
    BY <1>3, <2>3, SameCalls, SMTT(60) DEF EnginesStop
  <2>9. ASSUME NEW q, InCall(q)' PROVE InCall(q)
    BY <1>3, <2>9, SMTT(60) DEF InCall
  <2>10. ASSUME NEW e \in Req, req[e].user = u, Running(e)' PROVE FALSE
    <3>1. Running(e)
      BY <2>3, <2>10, SMTT(60) DEF Running, processVars
    <3>2. engine[e].proc = p /\ Serving(proc[p], engine[e].child) /\ engine[e].child \in Child
      <4>1. engine[e].proc = p
        BY <1>0, <1>1, <2>10, <3>1, KillTarget
      <4>2. engine[e].state # "none"
        BY <3>1 DEF Running
      <4> QED
        BY <3>1, <4>1, <4>2 DEF Running, ManagerInv, EnginesInv, EngineInv
    <3>3. ObjectInv(proc[p])
      BY <1>1, Names, SMTT(60) DEF ManagerInv, ProcessInv
    <3>4. engine[e].child = n
      BY <3>2, <3>3, ZenonT(60) DEF ObjectInv, ServingIsLast, TalksToLast
    <3> QED
      BY <1>3, <3>2, <3>4, Zenon DEF Serving
  <2>11. \A e \in E : ~Running(e)'
    BY <2>3, <2>6, <2>10 DEF RemovedFor, Types
  <2>12. ASSUME NEW q \in Proc, NEW m \in Child, NEW i \in 1..Len(calls'[q][m]),
                calls'[q][m][i].req \in E
         PROVE  FALSE
    <3>1. i \in 1..Len(calls[q][m]) /\ calls'[q][m][i] = calls[q][m][i]
      BY <1>3
    <3>2. InCall(calls[q][m][i].req) /\ calls[q][m][i].req \in Req
      BY <2>3, <3>1, CallsAre, SMTT(60)
    <3>3. calls[q][m][i].req = r
      <4> DEFINE d == calls[q][m][i].req
      <4>1. d \in E /\ InCall(d) /\ d \in Req
        BY <2>12, <3>1, <3>2
      <4> HIDE DEF d
      <4>2. req[d].user = req[r].user
        BY <1>0, <4>1 DEF RemovedFor
      <4>3. Acts(d)
        BY <4>1 DEF Acts
      <4>4. d = r
        BY ONLY ManagerInv, r \in Req, <1>1, <4>1, <4>2, <4>3, OneActs
      <4> QED
        BY <4>4 DEF d
    <3> QED
      BY <1>1, <3>2, <3>3
  <2>13. EntriesDie(E)
    BY <2>6, <2>11, <2>12, Zenon DEF EntriesDie
  <2>14. HasKilled(r)' => Cleared(u)'
    <3>1. \A e \in Req : req'[e].user = u => ~Running(e)'
      BY <2>1, <2>10 DEF SameRequest
    <3> QED
      BY <2>6, <3>1, ZenonT(60) DEF Cleared
  <2>15. GoesOn(r)
    <3>1. ~InCall(r)'
      BY <1>1, <2>9
    <3>2. \A e \in Req : SameRequest(e)
      BY <2>1, SMTT(60)
    <3> QED
      BY <1>0, <1>1, <2>1, <2>2, <2>3, <2>14, <3>1, <3>2, GoesOnFacts
  <2>16. Step(r, E)
    BY <2>1, <2>3, <2>4, <2>8, <2>13, <2>15 DEF Step, processVars
  <2> QED
    BY <2>3, <2>4, <2>7, <2>16, StepManagerInv, SMTT(60)
<1> QED
  BY <1>0, <1>2, <1>3, ZenonT(120) DEF KillShared

\* killEngine() of a process of the user's own.  One that has no child left
\* has emitted 'exit' before, and only its entry that came too late to listen
\* to that is still there.
LEMMA KillSeparateInv ==
    ASSUME ManagerInv, NEW r \in Req, NEW s \in {"kill", "path"}, KillSeparate(r, s),
           NEW u \in User, u = UserOf(r), NEW p, p = ProcessOf(u),
           NEW E, E = KilledWith(p)
    PROVE  ManagerInv'
<1> DEFINE x == Killed(proc[p], Sandboxed(p), FALSE, FALSE)
<1>0. u = req[r].user /\ p = objProcess[engines[u]]
  BY ONLY u = UserOf(r), p = ProcessOf(u) DEF UserOf, ProcessOf
<1>1. /\ Stage(r) = s /\ r \notin User /\ ~InCall(r) /\ Acts(r)
      /\ IsRunning(u) /\ p \notin SharedProc
  BY <1>0, KillJobFacts, ZenonT(120) DEF KillSeparate
<1>2. /\ engines[u] \in Req /\ engines[u] # None /\ engines[u] \in listening /\ p \in Proc
      /\ \A e \in Req : req[e].user = u /\ Running(e) =>
            e = engines[u] /\ engine[e].proc = p
  BY <1>0, <1>1, KillTarget
<1>3. /\ ProcessInv /\ Types /\ CallsInv /\ ObjectInv(proc[p]) /\ OneLife(proc[p])
      /\ Alone(p) /\ EngineInv(engines[u]) /\ RequestsInv
  BY <1>1, <1>2, SMTT(60) DEF ManagerInv, ProcessInv, SeparateInv, EnginesInv
<1>4. proc[p].spawned = 1 /\ proc[p].os[1] \notin {"none", "booting"}
  <2>1. \A e \in Req : objProcess[e] = p => proc[p].os[1] \notin {"none", "booting"}
    BY <1>3, Zenon DEF Alone
  <2>2. proc[p].os[1] \notin {"none", "booting"}
    <3>1. engines[u] \in Req
      BY <1>2
    <3>2. objProcess[engines[u]] = p
      BY <1>0
    <3> QED
      BY ONLY <2>1, <3>1, <3>2
  <2>3. 1 \in Child /\ proc[p].spawned \in {0, 1}
    <3>1. 1 \in Child
      BY ONLY ProcessAssumption DEF Child
    <3>2. OneLife(proc[p])
      BY <1>3, SMTT(60)
    <3> QED
      BY ONLY <3>1, <3>2 DEF OneLife
  <2>4. 1 > proc[p].spawned => proc[p].os[1] = "none"
    BY <1>3, <2>3, Zenon DEF ObjectInv, NotYetSpawned
  <2> QED
    BY <2>2, <2>3, <2>4, SMTT(60)
<1>5. /\ Later(proc[p], x) /\ NoNewChild(proc[p], x)
      /\ proc[p].child = 0 => x = proc[p]
      /\ x.os = proc[p].os /\ x.attempt = proc[p].attempt
      /\ proc[p].child # 0 => \A m \in Child : ~Serving(x, m)
      /\ ObjectInv(x) /\ OneLife(x)
  <2>1. proc[p].child = 0 \/ proc[p].kills < MaxKill
    BY <1>0, <1>1, ZenonT(120) DEF KillSeparate, CanKill
  <2>2. Sandboxed(p) \in BOOLEAN
    BY DEF Sandboxed
  <2> QED
    BY <1>3, <2>1, <2>2, KilledLater, KilledInv, ZenonT(60)
<1> HIDE DEF x
<1>6. /\ Set(p, x) /\ registered' \subseteq Proc
      /\ UNCHANGED <<stopped, master, stopWaits, objProcess, locks, nextProcess, calls,
                     engine, row, booted, bootLeft, scene>>
      /\ Advance(r)
  BY <1>0, <1>3, ZenonT(120) DEF KillSeparate, x, ProcessInv, TypeOK
<1>7. ProcessInv'
  BY <1>1, <1>2, <1>3, <1>5, <1>6, SetInv, Zenon
<1>8. ObjectsLater /\ \A q \in Proc : proc'[q] = IF q = p THEN x ELSE proc[q]
  BY <1>2, <1>3, <1>5, <1>6, SetLater, Zenon
<1>9. /\ req' \in [Req -> Request]
      /\ \A e \in Req : SameRequest(e) /\ (e # r => req'[e] = req[e])
      /\ Ordered(req'[r].todo) /\ <<Stage(r), Stage(r)'>> \in Follows
  BY <1>1, <1>6, Forward
<1>10. Stage(r)' \in {"path", "rm", "row", "release"}
  BY <1>1, <1>9, SMTT(60) DEF Follows
<1>11. /\ E \subseteq listening /\ listening' = listening \ E
       /\ engines' = [v \in User |-> IF engines[v] \in E THEN None ELSE engines[v]]
       /\ restarts' = restarts
       /\ engines' \in [User -> Req \cup {None}] /\ listening' \subseteq Req
       /\ proc[p].child # 0 => ~IsRunning(u)'
  <2>1. CASE proc[p].child = 0
    <3>1. E = {} /\ NobodyDies
      BY <1>0, <2>1 DEF KilledWith, KillSeparate
    <3>2. engines = [v \in User |-> engines[v]]
      BY <1>3 DEF Types
    <3> QED
      BY <1>3, <2>1, <3>1, <3>2 DEF NobodyDies, Types
  <2>2. CASE proc[p].child # 0
    <3>1. E = Listeners({p}) /\ Die(E, TRUE)
      BY <1>0, <2>2 DEF KilledWith, KillSeparate
    <3>2. UNCHANGED objProcess /\ (IsRunning(u) => objProcess[engines[u]] = p)
      BY <1>0, <1>6, SMTT(60)
    <3>3. \/ E = {e \in Listeners({p}) : req[e].user = u}
          \/ E = Listeners({p})
      BY <3>1
    <3>4. Die(E, TRUE)
      BY <3>1, Zenon
    <3> QED
      BY ONLY ManagerInv, <3>2, <3>3, <3>4, RemovedEntries
  <2> QED
    BY <2>1, <2>2
<1>12. Types'
  BY <1>3, <1>6, <1>9, <1>11, Zenon DEF Types
<1>13. FewerCalls /\ EnginesStop
  BY <1>6, SameCalls DEF EnginesStop
<1>14. ASSUME NEW e \in Req, req[e].user = u, Running(e)' PROVE FALSE
  <2>1. engine'[e] = engine[e] /\ engine[e].state \in {"mapped", "unmapped"}
    BY <1>6, <1>14 DEF Running
  <2>2. /\ engine[e].proc \in Proc /\ engine[e].child \in Child
        /\ engine[e].child <= proc[engine[e].proc].spawned
    BY <2>1 DEF ManagerInv, EnginesInv, EngineInv
  <2>3. Serving(proc'[engine[e].proc], engine[e].child)
    BY <1>14, <2>1 DEF Running
  <2>4. Running(e)
    BY <1>8, <2>1, <2>2, <2>3 DEF Running, ObjectsLater, Later
  <2>5. engine[e].proc = p
    BY <1>2, <1>14, <2>4, SMTT(60)
  <2>6. proc[p].child = 0
    BY <1>5, <1>8, <2>2, <2>3, <2>5, SMTT(60)
  <2>7. engine[e].child = 1 /\ proc[p].os[1] = "dead"
    <3>1. engine[e].child \in Nat \ {0} /\ engine[e].child <= 1
      BY <1>4, <2>2, <2>5, SMTT(60) DEF Child
    <3>2. OneLife(proc[p])
      BY <1>3, ZenonT(60)
    <3> QED
      BY ONLY <1>4, <2>6, <3>1, <3>2 DEF OneLife
  <2> QED
    BY <2>4, <2>5, <2>7 DEF Running, Serving, Connected
<1>15. IsRunning(u)' => /\ Spared' /\ objProcess'[engines'[u]] \notin SharedProc
                        /\ proc'[objProcess'[engines'[u]]].child = 0
  <2> SUFFICES ASSUME IsRunning(u)'
               PROVE  /\ Spared' /\ objProcess'[engines'[u]] \notin SharedProc
                      /\ proc'[objProcess'[engines'[u]]].child = 0
    BY SMTT(60)
  <2>1. proc[p].child = 0
    BY <1>11
  <2>2. engines'[u] = engines[u]
    BY <1>11, <2>1, SMTT(60) DEF KilledWith
  <2>3. proc[p].hadExit
    BY <1>3, <1>4, <2>1, SMTT(60) DEF OneLife
  <2>4. Spared
    BY <1>0, <1>2, <1>3, <2>3 DEF Alone
  <2>5. Spared'
    BY <1>6, <2>4 DEF Spared
  <2> QED
    BY <1>0, <1>1, <1>2, <1>5, <1>6, <1>8, <2>1, <2>2, <2>5
<1>16. Cleared(u)'
  <2>1. \A e \in Req : req'[e].user = u => ~Running(e)'
    BY <1>9, <1>14 DEF SameRequest
  <2> QED
    BY <1>15, <2>1 DEF Cleared
<1>17. GoesOn(r)
  <2>1. ASSUME NEW q, InCall(q)' PROVE InCall(q)
    BY <1>6, <2>1 DEF InCall
  <2>2. ~InCall(r)'
    BY <1>1, <2>1
  <2>3. UNCHANGED objProcess /\ \A e \in Req : SameRequest(e)
    BY <1>6, <1>9
  <2> QED
    BY <1>0, <1>1, <1>9, <1>10, <1>16, <2>2, <2>3, GoesOnFacts
<1>18. EntriesDie(E)
  <2>1. CASE proc[p].child = 0
    BY <1>11, <2>1, SMTT(60) DEF KilledWith, EntriesDie
  <2>2. CASE proc[p].child # 0
    <3>1. \A q \in {p}, m \in Child : ~Serving(proc'[q], m)
      BY <1>2, <1>5, <1>8, <2>2
    <3>2. /\ \A e \in Listeners({p}) : ~Running(e)'
          /\ \A q \in Proc, n \in Child : \A i \in 1..Len(calls'[q][n]) :
                calls'[q][n][i].op = "run" /\ Serving(proc'[q], n)
                   => calls'[q][n][i].req \notin Listeners({p})
      BY <1>2, <1>8, <1>13, <3>1, DeadProcesses, SMTT(60)
    <3> QED
      BY <1>11, <2>2, <3>2 DEF KilledWith, EntriesDie
  <2> QED
    BY <2>1, <2>2
<1>19. Step(r, E)
  BY <1>6, <1>8, <1>9, <1>13, <1>17, <1>18 DEF Step
<1>20. ASSUME NEW q \in Proc \ SharedProc PROVE Heard(q)
  <2>1. CASE q # p \/ proc[p].child = 0
    BY <1>5, <1>8, <2>1, SMTT(60) DEF Heard
  <2>2. CASE q = p /\ proc[p].child # 0
    <3>1. proc'[p].os[1] # "booting"
      BY <1>2, <1>4, <1>5, <1>8, SMTT(60)
    <3>2. \A e \in listening' : objProcess[e] # p
      BY <1>11, <2>2 DEF KilledWith, Listeners
    <3>3. ASSUME NEW e \in Req, Stage(e)' = "process", req'[e].target = p
          PROVE  FALSE
      <4>1. e # r
        BY <1>10, <3>3
      <4>2. req'[e] = req[e]
        BY <1>9, <4>1
      <4>3. Stage(e) = "process" /\ req[e].target = p
        BY <3>3, <4>2, SMTT(60) DEF Stage
      <4>4. p \in SharedProc \cup {e, None} /\ objProcess[e] = None
        BY <1>3, <4>3, Zenon DEF RequestsInv, RequestInv, ManagerInv, EnginesInv, EngineInv
      <4>5. p = e
        BY <1>1, <1>2, <4>4, Names
      <4>6. p = engines[u]
        <5>1. objProcess[engines[u]] = p /\ p # None
          BY <1>0, <1>2, Names, SMTT(60)
        <5>2. req[engines[u]].target = p
          BY <1>3, <5>1, ZenonT(60) DEF EngineInv
        <5>3. p \in SharedProc \cup {engines[u], None}
          BY <1>2, <1>3, <5>2 DEF RequestsInv, RequestInv
        <5> QED
          BY <1>1, <5>1, <5>3
      <4> QED
        BY <1>0, <1>2, <4>4, <4>5, <4>6, Names
    <3> QED
      BY <2>2, <3>1, <3>2, <3>3, SMTT(60) DEF Heard
  <2> QED
    BY <2>1, <2>2, SMTT(60)
<1> QED
  BY <1>7, <1>12, <1>19, <1>20, StepManagerInv, SMTT(60)

\* The calls that go on are not those of request r.
NotOf(r) == \A q \in Proc, m \in Child : \A i \in 1..Len(calls'[q][m]) :
               \E k \in 1..Len(calls[q][m]) :
                  /\ calls'[q][m][i] = calls[q][m][k]
                  /\ calls[q][m][k].req # r

\* The call that a worker answers is the first, and it was the only one of
\* its request.
LEMMA CallAnswered ==
    ASSUME ManagerInv, NEW p \in Proc, NEW n \in Child, calls[p][n] # <<>>,
           calls' = [calls EXCEPT ![p][n] = Tail(@)],
           NEW c, c = Head(calls[p][n])
    PROVE  /\ c \in Call /\ c.req \in Req /\ c.user \in User /\ CallInv(p, n, c) /\ InCall(c.req)
           /\ calls' \in [Proc -> [Child -> Seq(Call)]] /\ FewerCalls
           /\ NotOf(c.req)
<1>0. Types /\ CallsInv
  BY DEF ManagerInv
<1>1. calls \in [Proc -> [Child -> Seq(Call)]]
  BY <1>0 DEF Types
<1>2. calls[p][n] \in Seq(Call) /\ Len(calls[p][n]) \in Nat \ {0} /\ Tail(calls[p][n]) \in Seq(Call)
  BY <1>1
<1>3. c = calls[p][n][1] /\ 1 \in 1..Len(calls[p][n])
  BY <1>2
<1>4. c \in Call /\ c.req \in Req /\ CallInv(p, n, c) /\ InCall(c.req)
  BY <1>0, <1>3, CallsAre
<1>5. c.user \in User
  BY <1>4 DEF Call
<1>6. \A q \in Proc, m \in Child :
          calls'[q][m] = IF q = p /\ m = n THEN Tail(calls[p][n]) ELSE calls[q][m]
  BY <1>1
<1>7. calls' \in [Proc -> [Child -> Seq(Call)]]
  BY <1>1, <1>2
<1>8. ASSUME NEW q \in Proc, NEW m \in Child
      PROVE  \E d \in Nat : \A i \in 1..Len(calls'[q][m]) :
                /\ i + d \in 1..Len(calls[q][m])
                /\ calls'[q][m][i] = calls[q][m][i + d]
                /\ q = p /\ m = n => i + d # 1
  <2>1. CASE q = p /\ m = n
    <3>1. calls'[q][m] = Tail(calls[q][m]) /\ calls[q][m] \in Seq(Call) /\ calls[q][m] # <<>>
      BY <1>2, <1>6, <2>1
    <3>2. \A i \in 1..Len(calls'[q][m]) :
                /\ i + 1 \in 1..Len(calls[q][m])
                /\ calls'[q][m][i] = calls[q][m][i + 1]
                /\ i + 1 # 1
      <4> DEFINE t == calls[q][m]
      <4>1. calls'[q][m] = Tail(t) /\ t \in Seq(Call) /\ t # <<>>
        BY <3>1
      <4> HIDE DEF t
      <4>2. /\ Len(Tail(t)) = Len(t) - 1 /\ Len(t) \in Nat
            /\ \A i \in 1..Len(Tail(t)) : Tail(t)[i] = t[i + 1]
        BY <4>1
      <4>3. \A k \in Nat : \A i \in 1..k - 1 : i + 1 \in 1..k /\ i + 1 # 1
        OBVIOUS
      <4> QED
        BY <4>1, <4>2, <4>3 DEF t
    <3> WITNESS 1 \in Nat
    <3> QED
      BY <3>2
  <2>2. CASE ~(q = p /\ m = n)
    <3>1. calls'[q][m] = calls[q][m] /\ Len(calls[q][m]) \in Nat
      BY <1>1, <1>6, <2>2
    <3>2. \A i \in 1..Len(calls'[q][m]) : /\ i + 0 \in 1..Len(calls[q][m])
                                         /\ calls'[q][m][i] = calls[q][m][i + 0]
      <4>1. \A i \in 1..Len(calls[q][m]) : i + 0 = i
        BY <3>1
      <4> QED
        BY <3>1, <4>1
    <3> WITNESS 0 \in Nat
    <3> QED
      BY <2>2, <3>2
  <2> QED
    BY <2>1, <2>2
<1>9. FewerCalls
  <2> SUFFICES ASSUME NEW q \in Proc, NEW m \in Child
               PROVE  \E d \in Nat : \A i \in 1..Len(calls'[q][m]) :
                         /\ i + d \in 1..Len(calls[q][m])
                         /\ calls'[q][m][i] = calls[q][m][i + d]
    BY DEF FewerCalls
  <2>1. PICK d \in Nat : \A i \in 1..Len(calls'[q][m]) :
                /\ i + d \in 1..Len(calls[q][m])
                /\ calls'[q][m][i] = calls[q][m][i + d]
    BY <1>8, ZenonT(60)
  <2> WITNESS d \in Nat
  <2> QED
    BY <2>1
<1>10. ASSUME NEW q \in Proc, NEW m \in Child, NEW i \in 1..Len(calls'[q][m])
       PROVE  \E k \in 1..Len(calls[q][m]) :
                 /\ calls'[q][m][i] = calls[q][m][k]
                 /\ calls[q][m][k].req # c.req
  <2>1. PICK d \in Nat : \A j \in 1..Len(calls'[q][m]) :
                /\ j + d \in 1..Len(calls[q][m])
                /\ calls'[q][m][j] = calls[q][m][j + d]
                /\ q = p /\ m = n => j + d # 1
    BY <1>8
  <2>2. /\ i + d \in 1..Len(calls[q][m])
        /\ calls'[q][m][i] = calls[q][m][i + d]
        /\ q = p /\ m = n => i + d # 1
    BY <2>1
  <2>3. \A k \in 1..Len(calls[q][m]) :
            calls[q][m][k].req = calls[p][n][1].req => q = p /\ m = n /\ k = 1
    BY <1>0, <1>3, SMTT(60) DEF CallsInv
  <2>4. calls[q][m][i + d].req # c.req
    BY <1>3, <2>2, <2>3
  <2> QED
    BY <2>2, <2>4
<1>11. NotOf(c.req)
  BY <1>10 DEF NotOf
<1> QED
  BY <1>4, <1>5, <1>7, <1>9, <1>11

LEMMA AnsweredCallGone ==
    ASSUME NEW r, NotOf(r)
    PROVE  ~InCall(r)'
  BY DEF InCall, NotOf

\* The answer to killEngine: the engine that the worker had is stopped, and
\* the user's entry dies.
LEMMA WorkerKillsInv ==
    ASSUME ManagerInv, NEW p \in Proc, NEW n \in Child, WorkerAnswers(p, n),
           NEW c, c = Head(calls[p][n]), c.op = "kill",
           NEW r, r = c.req, NEW u, u = c.user,
           NEW E, E = RemovedFor(u, p)
    PROVE  ManagerInv'
<1>0. /\ ProcessInv' /\ Types /\ CallsInv /\ calls[p][n] # <<>>
      /\ calls' = [calls EXCEPT ![p][n] = Tail(@)]
      /\ UNCHANGED <<processVars, objProcess, locks, nextProcess, row, booted, bootLeft, scene>>
      /\ c.op = "kill" /\ WorkerKills(p, n, c)
  BY StepInv DEF ManagerInv, WorkerAnswers
<1>1. /\ r \in Req /\ u \in User /\ CallInv(p, n, c) /\ InCall(r)
      /\ calls' \in [Proc -> [Child -> Seq(Call)]] /\ FewerCalls /\ NotOf(r)
  <2>1. calls[p][n] # <<>> /\ calls' = [calls EXCEPT ![p][n] = Tail(@)]
    BY <1>0
  <2>2. /\ c.req \in Req /\ c.user \in User /\ CallInv(p, n, c) /\ InCall(c.req)
        /\ calls' \in [Proc -> [Child -> Seq(Call)]] /\ FewerCalls /\ NotOf(c.req)
    BY <2>1, CallAnswered
  <2> QED
    BY <2>2
<1>2. /\ c.awaited /\ u = req[r].user /\ Stage(r) = "reply" /\ r \notin User
      /\ IsRunning(u) => objProcess[engines[u]] = p
      /\ \A e \in Req : req[e].user = u /\ Running(e) =>
            engine[e].proc = p /\ engine[e].child = n
  BY <1>0, <1>1 DEF CallInv
<1>3. Advance(r)
  BY <1>2, SMTT(60) DEF WorkerAnswers
<1>4. /\ req' \in [Req -> Request] /\ req'[r].todo = Tail(req[r].todo)
      /\ \A e \in Req : SameRequest(e) /\ (e # r => req'[e] = req[e])
      /\ Ordered(req'[r].todo) /\ <<Stage(r), Stage(r)'>> \in Follows
  BY <1>1, <1>2, <1>3, Forward, SMTT(200)
<1>5. Stage(r)' \in {"path", "row", "release"}
  BY <1>2, <1>4, ZenonT(120) DEF Follows
<1>6. objProcess[r] # None => Stage(r)' = "release"
  <2> SUFFICES ASSUME objProcess[r] # None PROVE Stage(r)' = "release"
    BY SMTT(60)
  <2>1. req'[r].todo = <<"release">>
    BY <1>1, <1>2, <1>4, Zenon DEF ManagerInv, EnginesInv, EngineInv
  <2> QED
    BY <2>1 DEF Stage
<1>7. ObjectsLater /\ \A q \in Proc \ SharedProc : Heard(q)
  BY <1>0, LaterItself DEF ManagerInv, ProcessInv, TypeOK, ObjectsLater, Heard, processVars
<1>8. Die(E, TRUE)
  BY <1>0 DEF RemovedFor, WorkerKills, EngineRemoved
<1>9. /\ E \subseteq listening /\ listening' = listening \ E
      /\ engines' = [v \in User |-> IF engines[v] \in E THEN None ELSE engines[v]]
      /\ restarts' = restarts
      /\ engines' \in [User -> Req \cup {None}] /\ listening' \subseteq Req
      /\ ~IsRunning(u)'
  <2>1. UNCHANGED objProcess /\ u \in User
    BY <1>0, <1>1
  <2>2. \/ E = {e \in Listeners({p}) : req[e].user = u}
        \/ E = Listeners({p})
    BY DEF RemovedFor
  <2>3. IsRunning(u) => objProcess[engines[u]] = p
    BY <1>2
  <2> QED
    BY ONLY ManagerInv, <1>8, <2>1, <2>2, <2>3, RemovedEntries
<1>10. \A e \in Req : engine'[e] = IF e \in MappedIn(u, p, n)
                                   THEN [engine[e] EXCEPT !.state = "stopped"] ELSE engine[e]
  BY <1>0 DEF WorkerKills
<1>11. ASSUME NEW e \in Req
       PROVE  /\ engine[e] \in Engine /\ engine'[e] \in Engine
              /\ \/ engine'[e] = engine[e] /\ e \notin MappedIn(u, p, n)
                 \/ /\ engine'[e].state = "stopped" /\ engine[e].state # "none"
                    /\ engine'[e].proc = engine[e].proc
                    /\ engine'[e].child = engine[e].child
  <2>1. engine[e] \in Engine
    BY <1>0 DEF Types
  <2>2. CASE e \in MappedIn(u, p, n)
    <3> DEFINE x == [engine[e] EXCEPT !.state = "stopped"]
    <3>1. engine'[e] = x /\ engine[e].state = "mapped"
      BY <1>10, <2>2 DEF MappedIn
    <3>2. /\ x \in Engine /\ x.state = "stopped"
          /\ x.proc = engine[e].proc /\ x.child = engine[e].child
      BY <2>1 DEF Engine
    <3> HIDE DEF x
    <3> QED
      BY <2>1, <3>1, <3>2
  <2>3. CASE e \notin MappedIn(u, p, n)
    BY <1>10, <2>1, <2>3
  <2> QED
    BY <2>2, <2>3
<1>12. engine' \in [Req -> Engine]
  <2>1. engine' = [e \in Req |-> engine'[e]]
    BY <1>0, SMTT(60) DEF WorkerKills
  <2> QED
    BY <1>11, <2>1
<1>13. Types'
  BY <1>0, <1>1, <1>4, <1>9, <1>12, ZenonT(120) DEF Types
<1>14. EnginesStop
  BY <1>11 DEF EnginesStop
<1>15. ASSUME NEW e \in Req, req[e].user = u, Running(e)' PROVE FALSE
  <2>1. engine'[e] = engine[e] /\ e \notin MappedIn(u, p, n)
    BY <1>11, <1>15 DEF Running
  <2>2. Running(e)
    BY <1>0, <1>15, <2>1 DEF Running, processVars
  <2>3. engine[e].proc = p /\ engine[e].child = n /\ engine[e].state = "mapped"
    <3>1. engine[e].state = "mapped"
      BY <2>2 DEF ManagerInv, EnginesInv, EngineInv
    <3> QED
      BY <1>2, <1>15, <2>2, <3>1
  <2>4. engine[e] = [state |-> "mapped", proc |-> p, child |-> n]
    BY <1>11, <2>3 DEF Engine
  <2> QED
    BY <1>15, <2>1, <2>4 DEF MappedIn
<1>16. \A e \in E : ~Running(e)'
  <2>1. \A e \in E : e \in Req /\ req[e].user = u
    BY <1>0, <1>9 DEF RemovedFor, Types
  <2> QED
    BY <1>15, <2>1
<1>17. ASSUME NEW q \in Proc, NEW m \in Child, NEW i \in 1..Len(calls'[q][m]),
              calls'[q][m][i].req \in E
       PROVE  FALSE
  <2>1. PICK k \in 1..Len(calls[q][m]) : /\ calls'[q][m][i] = calls[q][m][k]
                                         /\ calls[q][m][k].req # r
    BY <1>1 DEF NotOf
  <2>2. InCall(calls[q][m][k].req) /\ calls[q][m][k].req \in Req
    BY <1>0, <2>1, CallsAre
  <2>3. req[calls[q][m][k].req].user = req[r].user
    BY <1>2, <1>17, <2>1 DEF RemovedFor
  <2> QED
    BY <1>1, <2>1, <2>2, <2>3, OneActs DEF Acts
<1>18. EntriesDie(E)
  BY <1>9, <1>16, <1>17, Zenon DEF EntriesDie
<1>19. Cleared(u)'
  <2>1. ASSUME NEW e \in Req, req'[e].user = u PROVE ~Running(e)'
    <3>1. SameRequest(e)
      BY ONLY <1>4, <2>1, Zenon
    <3>2. req[e].user = u
      BY ONLY <2>1, <3>1, Zenon DEF SameRequest
    <3> QED
      BY ONLY <1>15, <2>1, <3>2, Zenon
  <2> QED
    BY <1>9, <2>1, Zenon DEF Cleared
<1>20. GoesOn(r)
  <2>1. ~InCall(r)'
    BY <1>1, AnsweredCallGone
  <2>2. Cleared(req[r].user)'
    <3>1. r \in Req
      BY ONLY <1>1, r = c.req, Zenon
    <3>2. SameRequest(r)
      BY ONLY <1>4, <3>1, Zenon
    <3>3. req'[r].user = req[r].user
      BY ONLY <3>2, Zenon DEF SameRequest
    <3>4. u = req'[r].user
      BY ONLY <1>2, <3>3, ZenonT(60)
    <3> QED
      BY ONLY <1>19, <3>3, <3>4, Zenon
  <2> QED
    BY <1>2, <1>4, <1>5, <1>6, <2>1, <2>2, Zenon DEF GoesOn
<1>21. Step(r, E)
  BY <1>0, <1>1, <1>4, <1>7, <1>14, <1>18, <1>20, ZenonT(120) DEF Step, processVars
<1> QED
  BY <1>0, <1>1, <1>7, <1>13, <1>21, StepManagerInv

-----------------------------------------------------------------------------
(* Steps that start something.                                              *)

\* A call of another request stays what it is when little of its user changes.
LEMMA KeptCall ==
    ASSUME NEW p \in Proc, NEW n \in Child, NEW c \in Call, CallInv(p, n, c),
           req'[c.req] = req[c.req],
           n <= proc'[p].spawned, Serving(proc'[p], n) => Serving(proc[p], n),
           objProcess'[c.req] = objProcess[c.req],
           engines'[c.user] = engines[c.user],
           IsRunning(c.user)' =>
               /\ IsRunning(c.user)
               /\ objProcess'[engines[c.user]] = objProcess[engines[c.user]],
           \A e \in Req : req'[e].user = c.user /\ Running(e)' =>
               /\ req[e].user = c.user /\ Running(e)
               /\ engine'[e].proc = engine[e].proc /\ engine'[e].child = engine[e].child
    PROVE  CallInv(p, n, c)'
<1>1. c.awaited /\ c.user = req'[c.req].user /\ Stage(c.req)' = "reply"
  BY DEF CallInv, Stage
<1>2. c.op = "run" =>
          /\ Tail(req'[c.req].todo) = <<"release">> /\ objProcess'[c.req] = p
          /\ Serving(proc'[p], n) => engines'[c.user] = c.req
  BY DEF CallInv
<1>3. c.op = "kill" =>
          /\ c.req \notin User
          /\ IsRunning(c.user)' => objProcess'[engines'[c.user]] = p
          /\ \A e \in Req : req'[e].user = c.user /\ Running(e)' =>
                engine'[e].proc = p /\ engine'[e].child = n
  BY DEF CallInv
<1> QED
  BY <1>1, <1>2, <1>3 DEF CallInv

\* A call is made.
LEMMA CallMade ==
    ASSUME ManagerInv, NEW p \in Proc, NEW n \in Child, NEW c \in Call, Send(p, n, c),
           ~InCall(c.req), CallInv(p, n, c)',
           \A q \in Proc, m \in Child : \A i \in 1..Len(calls[q][m]) :
               \A d : d = calls[q][m][i] => CallInv(q, m, d)'
    PROVE  /\ calls' \in [Proc -> [Child -> Seq(Call)]] /\ CallsInv'
           /\ \A x : InCall(x)' => InCall(x) \/ x = c.req
<1>1. /\ calls \in [Proc -> [Child -> Seq(Call)]] /\ CallsInv
      /\ calls' = [calls EXCEPT ![p][n] = Append(@, c)]
  BY DEF ManagerInv, Types, Send
<1>2. calls[p][n] \in Seq(Call) /\ Append(calls[p][n], c) \in Seq(Call)
  BY <1>1
<1>3. calls' \in [Proc -> [Child -> Seq(Call)]]
  BY <1>1, <1>2
<1>4. /\ calls'[p][n] = Append(calls[p][n], c)
      /\ \A q \in Proc, m \in Child : ~(q = p /\ m = n) => calls'[q][m] = calls[q][m]
  BY <1>1
<1>5. ASSUME NEW q \in Proc, NEW m \in Child, NEW i \in 1..Len(calls'[q][m])
      PROVE  \/ i \in 1..Len(calls[q][m]) /\ calls'[q][m][i] = calls[q][m][i]
             \/ q = p /\ m = n /\ i = Len(calls[p][n]) + 1 /\ calls'[q][m][i] = c
  <2>1. CASE q = p /\ m = n
    <3> DEFINE t == calls[p][n]
    <3>1. /\ t \in Seq(Call) /\ Append(t, c) \in Seq(Call)
          /\ calls'[q][m] = Append(t, c)
      BY <1>2, <1>4, <2>1
    <3> HIDE DEF t
    <3>2. /\ Len(Append(t, c)) = Len(t) + 1 /\ Len(t) \in Nat
          /\ \A j \in 1..Len(t) + 1 : Append(t, c)[j] = IF j = Len(t) + 1 THEN c ELSE t[j]
      BY <3>1
    <3>3. i \in 1..Len(t) + 1
      BY <3>1, <3>2
    <3>4. i = Len(t) + 1 \/ i \in 1..Len(t)
      BY <3>2, <3>3
    <3>5. CASE i = Len(t) + 1
      BY <2>1, <3>1, <3>2, <3>3, <3>5 DEF t
    <3>6. CASE i \in 1..Len(t) /\ i # Len(t) + 1
      <4>1. calls'[q][m][i] = t[i]
        BY <3>1, <3>2, <3>3, <3>6
      <4> QED
        BY <2>1, <3>6, <4>1 DEF t
    <3> QED
      BY <3>4, <3>5, <3>6
  <2>2. CASE ~(q = p /\ m = n)
    <3>1. calls'[q][m] = calls[q][m]
      BY <1>4, <2>2
    <3> QED
      BY <3>1
  <2> QED
    BY <2>1, <2>2
<1>6. ASSUME NEW q \in Proc, NEW m \in Child, NEW i \in 1..Len(calls'[q][m]),
             NEW d, d = calls'[q][m][i]
      PROVE  CallInv(q, m, d)'
  <2>1. CASE i \in 1..Len(calls[q][m]) /\ calls'[q][m][i] = calls[q][m][i]
    BY <1>6, <2>1
  <2>2. CASE q = p /\ m = n /\ calls'[q][m][i] = c
    <3>1. d = c
      BY <1>6, <2>2
    <3> QED
      BY <2>2, <3>1
  <2> QED
    BY <1>5, <2>1, <2>2
<1>7. \A q \in Proc, m \in Child : \A i \in 1..Len(calls[q][m]) :
          calls[q][m][i].req # c.req
  BY DEF InCall
<1>8. OneCallEach'
  <2> SUFFICES ASSUME NEW q \in Proc, NEW v \in Proc, NEW m \in Child, NEW w \in Child,
                      NEW i \in 1..Len(calls'[q][m]), NEW j \in 1..Len(calls'[v][w]),
                      calls'[q][m][i].req = calls'[v][w][j].req
               PROVE  q = v /\ m = w /\ i = j
    BY DEF OneCallEach
  <2>1. CASE i \in 1..Len(calls[q][m]) /\ calls'[q][m][i] = calls[q][m][i]
    <3>1. calls'[v][w][j].req # c.req
      BY <1>7, <2>1
    <3>2. j \in 1..Len(calls[v][w]) /\ calls'[v][w][j] = calls[v][w][j]
      BY <1>5, <3>1
    <3>3. calls[q][m][i].req = calls[v][w][j].req
      BY <2>1, <3>2
    <3> QED
      BY <1>1, <2>1, <3>2, <3>3 DEF CallsInv
  <2>2. CASE q = p /\ m = n /\ i = Len(calls[p][n]) + 1 /\ calls'[q][m][i] = c
    <3>1. calls'[v][w][j].req = c.req
      BY <2>2
    <3>2. ~(j \in 1..Len(calls[v][w]) /\ calls'[v][w][j] = calls[v][w][j])
      <4> SUFFICES ASSUME j \in 1..Len(calls[v][w]), calls'[v][w][j] = calls[v][w][j]
                   PROVE  FALSE
        OBVIOUS
      <4>1. calls[v][w][j].req # c.req
        BY <1>7
      <4> QED
        BY <3>1, <4>1
    <3>3. v = p /\ w = n /\ j = Len(calls[p][n]) + 1
      BY <1>5, <3>2
    <3> QED
      BY <2>2, <3>3
  <2> QED
    BY <1>5, <2>1, <2>2
<1>9. CallsInv'
  BY <1>6, <1>8 DEF CallsInv, OneCallEach
<1>10. ASSUME NEW x, InCall(x)' PROVE InCall(x) \/ x = c.req
  <2>1. PICK q \in Proc, m \in Child : \E i \in 1..Len(calls'[q][m]) : calls'[q][m][i].req = x
    BY <1>10 DEF InCall
  <2>2. PICK i \in 1..Len(calls'[q][m]) : calls'[q][m][i].req = x
    BY <2>1
  <2> QED
    BY <1>5, <2>2 DEF InCall
<1> QED
  BY <1>3, <1>9, <1>10

\* A call is answered, or none is.
LEMMA CallsLeft ==
    ASSUME ManagerInv, FewerCalls, NEW x, NotOf(x),
           \A q \in Proc, m \in Child : \A i \in 1..Len(calls[q][m]) :
               \A d : d = calls[q][m][i] /\ d.req # x => CallInv(q, m, d)'
    PROVE  CallsInv'
<1>1. OneCallEach'
  BY FewerCallsEach
<1>2. ASSUME NEW q \in Proc, NEW m \in Child, NEW i \in 1..Len(calls'[q][m]),
             NEW d, d = calls'[q][m][i]
      PROVE  CallInv(q, m, d)'
  <2>1. PICK k \in 1..Len(calls[q][m]) : calls'[q][m][i] = calls[q][m][k] /\ calls[q][m][k].req # x
    BY DEF NotOf
  <2>2. d = calls[q][m][k] /\ d.req # x
    BY <1>2, <2>1
  <2> QED
    BY <2>2
<1> QED
  BY <1>1, <1>2 DEF CallsInv, OneCallEach

\* Only the request r changes, and its user unless it had none: it comes to
\* stage "lock" or "reply" or to its end.
RequestOnly(r) ==
    /\ UNCHANGED <<proc, stopped, engines, objProcess, listening, engine, booted,
                   bootLeft, scene>>
    /\ \A u \in User : restarts'[u] # 0 => restarts[u] # 0
    /\ \A e \in Req : e # r => req'[e] = req[e]
    /\ \A v : v = req'[r].user =>
          \/ v = req[r].user /\ req[r].kind # "none"
          \/ /\ req[r].kind = "none" /\ booted /\ bootLeft = {}
             /\ Stage(v) # "process" /\ ~InCall(v)

LEMMA RequestOnlyFacts ==
    ASSUME ManagerInv, NEW r \in Req, RequestOnly(r)
    PROVE  /\ \A e \in Req : Running(e)' <=> Running(e)
           /\ \A u \in User : IsRunning(u)' <=> IsRunning(u)
           /\ \A e \in Req, u \in User : req'[e].user = u /\ Running(e) => req[e].user = u
           /\ \A e \in Req : e # r => Stage(e)' = Stage(e)
<1>1. \A e \in Req : Running(e)' <=> Running(e)
  <2> TAKE e \in Req
  <2>1. Serving(proc[engine[e].proc], engine[e].child)' <=>
        Serving(proc[engine[e].proc], engine[e].child)
    BY DEF RequestOnly, Serving, Connected
  <2>2. engine'[e].state = engine[e].state
    BY DEF RequestOnly
  <2> QED
    BY <2>1, <2>2 DEF Running
<1>2. \A u \in User : IsRunning(u)' <=> IsRunning(u)
  BY DEF RequestOnly, IsRunning
<1>3. req[r].kind = "none" => ~Running(r)
  BY DEF ManagerInv, EnginesInv, EngineInv, Running
<1>4. ASSUME NEW e \in Req, NEW u \in User, req'[e].user = u, Running(e)
      PROVE  req[e].user = u
  BY <1>3, <1>4 DEF RequestOnly
<1>5. \A e \in Req : e # r => Stage(e)' = Stage(e)
  BY DEF RequestOnly, Stage
<1> QED
  BY <1>1, <1>2, <1>4, <1>5

LEMMA RequestOnlyKeeps ==
    ASSUME ManagerInv, NEW r \in Req, RequestOnly(r), RequestInv(r)',
           req'[r].kind # "none", Stage(r)' \in {"lock", "reply", "none"},
           objProcess[r] # None => /\ req'[r].target = req[r].target
                                   /\ Stage(r)' = "none",
           \A v \in User : InCall(v)' => InCall(v) /\ v # r
    PROVE  RequestsInv' /\ EnginesInv' /\ ClearedInv' /\ StartInv' /\ SeparateInv'
<1>1. /\ Types /\ RequestsInv /\ EnginesInv /\ ClearedInv /\ StartInv /\ SeparateInv
  BY DEF ManagerInv
<1>2. /\ UNCHANGED <<proc, stopped, engines, objProcess, listening, engine, booted,
                     bootLeft, scene>>
      /\ \A u \in User : restarts'[u] # 0 => restarts[u] # 0
      /\ \A e \in Req : e # r => req'[e] = req[e]
  BY DEF RequestOnly
<1>3. /\ \A e \in Req : Running(e)' <=> Running(e)
      /\ \A u \in User : IsRunning(u)' <=> IsRunning(u)
      /\ \A e \in Req, u \in User : req'[e].user = u /\ Running(e) => req[e].user = u
      /\ \A e \in Req : e # r => Stage(e)' = Stage(e)
  BY RequestOnlyFacts
<1>4. RequestsInv'
  <2> SUFFICES ASSUME NEW e \in Req PROVE RequestInv(e)'
    BY DEF RequestsInv
  <2>1. CASE e = r
    BY <2>1
  <2>2. CASE e # r
    <3>1. RequestInv(e)
      BY <1>1 DEF RequestsInv
    <3>2. req'[e] = req[e] /\ Stage(e)' = Stage(e)
      BY <1>2, <1>3, <2>2
    <3> QED
      BY <3>1, <3>2 DEF RequestInv
  <2> QED
    BY <2>1, <2>2
<1>5. \A e \in Req : EngineInv(e)'
  <2> SUFFICES ASSUME NEW e \in Req PROVE EngineInv(e)'
    OBVIOUS
  <2>1. EngineInv(e)
    BY <1>1 DEF EnginesInv
  <2>2. /\ engine'[e].state # "none" =>
             /\ engine'[e].proc \in Proc /\ engine'[e].child \in Child
             /\ engine'[e].child <= proc'[engine'[e].proc].spawned
             /\ objProcess'[e] # None
        /\ e \in listening' => objProcess'[e] # None
    BY <1>2, <2>1 DEF EngineInv
  <2>3. CASE e = r
    <3>1. Running(e)' => /\ engine'[e].state = "mapped"
                         /\ engines'[req'[e].user] = e /\ objProcess'[e] = engine'[e].proc
      <4> SUFFICES ASSUME Running(e)' PROVE /\ engine'[e].state = "mapped"
                         /\ engines'[req'[e].user] = e /\ objProcess'[e] = engine'[e].proc
        OBVIOUS
      <4>1. Running(e) /\ engine[e].state # "none"
        BY <1>3 DEF Running
      <4>2. req[e].kind # "none"
        BY <2>1, <4>1 DEF EngineInv
      <4>3. req'[e].user = req[e].user
        BY <2>3, <4>2 DEF RequestOnly
      <4> QED
        BY <1>2, <2>1, <4>1, <4>3 DEF EngineInv
    <3>2. objProcess'[e] # None =>
             /\ req'[e].kind # "none" /\ objProcess'[e] = req'[e].target
             /\ Stage(e)' = "none"
      BY <1>2, <2>1, <2>3 DEF EngineInv
    <3>3. Stage(e)' # "process"
      BY <2>3
    <3> QED
      BY <2>2, <3>1, <3>2, <3>3 DEF EngineInv
  <2>4. CASE e # r
    <3>1. req'[e] = req[e] /\ Stage(e)' = Stage(e) /\ (Running(e)' <=> Running(e))
      BY <1>2, <1>3, <2>4
    <3> QED
      BY <1>2, <2>1, <2>2, <3>1 DEF EngineInv
  <2> QED
    BY <2>3, <2>4
<1>6. \A u \in User : EntryInv(u)'
  <2> SUFFICES ASSUME NEW u \in User PROVE EntryInv(u)'
    OBVIOUS
  <2>1. EntryInv(u) /\ engines[u] \in Req \cup {None}
    BY <1>1 DEF EnginesInv, Types
  <2>2. engines[u] # None => req'[engines[u]].user = u
    <3> SUFFICES ASSUME engines[u] # None, engines[u] = r PROVE req'[r].user = u
      BY <1>2, <2>1 DEF EntryInv
    <3>1. req[r].user = u
      BY <2>1 DEF EntryInv
    <3>2. req[r].kind # "none"
      BY <1>1, <3>1, Names DEF RequestsInv, RequestInv, NoRequest
    <3> QED
      BY <3>1, <3>2 DEF RequestOnly
  <2> QED
    BY <1>2, <2>1, <2>2 DEF EntryInv
<1>7. ClearedInv'
  <2> SUFFICES ASSUME NEW q \in Req, HasKilled(q)', NEW u, u = req'[q].user
               PROVE  Cleared(u)'
    BY DEF ClearedInv
  <2>1. q # r
    BY DEF HasKilled
  <2>2. HasKilled(q) /\ req[q].user = u
    BY <1>2, <1>3, <2>1 DEF HasKilled
  <2>3. Cleared(u) /\ u \in User
    BY <1>1, <2>2, KindOfStage DEF ClearedInv, HasKilled
  <2>4. \A e \in Req : req'[e].user = u => ~Running(e)'
    BY <1>3, <2>3 DEF Cleared
  <2>5. IsRunning(u)' => IsRunning(u)
    BY <1>3, <2>3
  <2> QED
    BY <1>2, <2>3, <2>4, <2>5 DEF Cleared, Spared
<1>8. StartInv'
  <2>1. (bootLeft # {} => booted)'
    BY <1>1, <1>2 DEF StartInv
  <2> SUFFICES ASSUME NEW u \in User PROVE AtStart(u)'
    BY <2>1 DEF StartInv
  <2>2. AtStart(u)
    BY <1>1 DEF StartInv
  <2>3. restarts[u] = 0 => restarts'[u] = 0
    BY <1>2
  <2>4. (u \in bootLeft \/ ~booted) => \A e \in Req : req'[e].user # u
    BY <1>2, <2>2 DEF AtStart, RequestOnly
  <2>5. Stage(u)' = "process" \/ InCall(u)' => (Stage(u) = "process" \/ InCall(u)) /\ u # r
    BY <1>3, Names
  <2>6. Stage(u) = "process" \/ InCall(u) => \A e \in Req \ {u} : req'[e].user # u
    BY <1>2, <2>2 DEF AtStart, RequestOnly
  <2> QED
    BY <1>2, <2>2, <2>3, <2>4, <2>5, <2>6 DEF AtStart
<1>9. SeparateInv'
  <2> SUFFICES ASSUME NEW p \in Proc \ SharedProc PROVE Alone(p)'
    BY DEF SeparateInv
  <2>1. Alone(p)
    BY <1>1 DEF SeparateInv
  <2>2. \A e \in Req : Stage(e)' = "process" => Stage(e) = "process" /\ req'[e] = req[e]
    BY <1>2, <1>3
  <2> QED
    BY <1>2, <2>1, <2>2 DEF Alone, Spared
<1> QED
  BY <1>4, <1>5, <1>6, <1>7, <1>8, <1>9 DEF EnginesInv

LEMMA RequestOnlyCalls ==
    ASSUME ManagerInv, NEW r \in Req, RequestOnly(r), ~InCall(r),
           NEW q \in Proc, NEW m \in Child, NEW i \in 1..Len(calls[q][m]),
           NEW d, d = calls[q][m][i]
    PROVE  CallInv(q, m, d)'
<1>1. /\ d \in Call /\ d.req \in Req /\ d.user \in User /\ CallInv(q, m, d) /\ d.req # r
  <2>1. d \in Call /\ d.req \in Req /\ CallInv(q, m, d) /\ InCall(d.req)
    BY CallsAre DEF ManagerInv
  <2> QED
    BY <2>1 DEF Call
<1>2. /\ req'[d.req] = req[d.req] /\ objProcess' = objProcess /\ engines' = engines
      /\ proc' = proc /\ engine' = engine
  BY <1>1 DEF RequestOnly
<1>3. /\ \A e \in Req : Running(e)' <=> Running(e)
      /\ IsRunning(d.user)' <=> IsRunning(d.user)
      /\ \A e \in Req : req'[e].user = d.user /\ Running(e) => req[e].user = d.user
  BY <1>1, RequestOnlyFacts, SMTT(60)
<1>4. m <= proc'[q].spawned
  BY <1>1, <1>2, ZenonT(120) DEF CallInv
<1>5. Serving(proc'[q], m) => Serving(proc[q], m)
  BY <1>2
<1>6. IsRunning(d.user)' =>
         IsRunning(d.user) /\ objProcess'[engines[d.user]] = objProcess[engines[d.user]]
  BY <1>2, <1>3
<1>7. \A e \in Req : req'[e].user = d.user /\ Running(e)' =>
         /\ req[e].user = d.user /\ Running(e)
         /\ engine'[e].proc = engine[e].proc /\ engine'[e].child = engine[e].child
  BY <1>2, <1>3
<1> QED
  BY ONLY <1>1, <1>2, <1>4, <1>5, <1>6, <1>7, KeptCall

\* killEngine() of a shared process calls the worker that has the engine, if
\* any worker has.
LEMMA KillSharedLiveInv ==
    ASSUME ManagerInv, NEW r \in Req, NEW s \in {"kill", "path"}, KillShared(r, s),
           NEW u \in User, u = UserOf(r),
           NEW p, p = ProcessOf(u),
           NEW n, n = proc[p].rpc, n # 0, Connected(proc[p], n),
           NEW c, c = [op |-> "kill", req |-> r, user |-> u, awaited |-> Waits(s)]
    PROVE  ManagerInv'
<1>0. u = req[r].user /\ p = objProcess[engines[u]]
  BY ONLY u = UserOf(r), p = ProcessOf(u) DEF UserOf, ProcessOf
<1>1. /\ Stage(r) = s /\ r \notin User /\ ~InCall(r) /\ s = "kill"
      /\ IsRunning(u) /\ p \in SharedProc
  BY <1>0, KillJobFacts, Zenon DEF KillShared
<1>2. /\ Types /\ RequestsInv /\ LocksInv /\ EnginesInv /\ ProcessInv /\ p \in Proc
  BY <1>1, Names, SMTT(60) DEF ManagerInv
<1>3. /\ Send(p, n, c)
      /\ UNCHANGED <<processVars, engines, objProcess, listening, locks, nextProcess,
                     restarts, engine, row, booted, bootLeft, scene>>
  BY ONLY <1>0, <1>1, KillShared(r, s), n = proc[p].rpc, n # 0, Connected(proc[p], n),
          c = [op |-> "kill", req |-> r, user |-> u, awaited |-> Waits(s)], ZenonT(120)
     DEF KillShared, NobodyDies
<1>4. req' = [req EXCEPT ![r].todo = <<"reply">> \o Tail(@)]
  BY <1>0, <1>1, ZenonT(120) DEF KillShared, Waits
<1>5. \A v \in ManagerStage : <<Stage(r), v>> \in Follows => <<"reply", v>> \in Follows
  BY <1>1 DEF Follows
<1>6. /\ req' \in [Req -> Request] /\ Tail(req'[r].todo) = Tail(req[r].todo)
      /\ \A e \in Req : SameRequest(e) /\ (e # r => req'[e] = req[e])
      /\ Ordered(req'[r].todo) /\ Stage(r)' = "reply"
  <2>1. Stage(r) \notin {"none", "release"} /\ "reply" \in ManagerStage
    BY <1>1 DEF ManagerStage
  <2> QED
    BY ONLY ManagerInv, r \in Req, <1>4, <1>5, <2>1, Instead
<1>7. req[r].kind # "none" /\ req'[r].user = u /\ req'[r].kind # "none"
  BY <1>0, <1>1, <1>2, <1>6, KindOfStage, SMTT(60) DEF SameRequest
<1>8. RequestOnly(r)
  BY <1>0, <1>3, <1>6, <1>7, SMTT(60) DEF RequestOnly, processVars
<1>9. RequestInv(r)'
  <2>1. RequestInv(r)
    BY <1>2, SMTT(60) DEF RequestsInv
  <2> QED
    BY <1>1, <1>6, <1>7, <2>1 DEF RequestInv, SameRequest
<1>10. n \in Child /\ n <= proc[p].spawned /\ ObjectInv(proc[p])
  <2>1. ObjectInv(proc[p])
    BY <1>2, SMTT(60) DEF ProcessInv
  <2>2. n \in 0..MaxSpawn /\ proc[p].spawned \in 0..MaxSpawn
    BY <2>1, ZenonT(60) DEF ObjectInv, Process
  <2>3. n \in Child
    BY <2>2, ProcessAssumption, SMTT(60) DEF Child
  <2>4. ~(n > proc[p].spawned)
    BY <2>1, <2>3, ZenonT(60) DEF ObjectInv, NotYetSpawned, Connected
  <2>5. n <= proc[p].spawned
    BY <2>2, <2>4, ProcessAssumption
  <2> QED
    BY <2>1, <2>3, <2>5
<1>11. c \in Call /\ c.op = "kill" /\ c.req = r /\ c.user = u /\ c.awaited
  BY <1>1, Zenon DEF Call, Waits
<1>12. CallInv(p, n, c)'
  <2>1. ASSUME NEW e \in Req, req'[e].user = u, Running(e)'
        PROVE  engine[e].proc = p /\ engine[e].child = n
    <3>1. req[e].user = u /\ Running(e)
      BY <1>8, <2>1, RequestOnlyFacts
    <3>2. engine[e].proc = p
      BY <1>0, <1>1, <3>1, KillTarget, SMTT(60)
    <3>3. engine[e].child \in Child
      BY <1>2, <3>1, SMTT(60) DEF EnginesInv, EngineInv, Running
    <3>4. Serving(proc[p], engine[e].child)
      BY <3>1, <3>2, SMTT(60) DEF Running
    <3> QED
      BY <1>10, <3>2, <3>3, <3>4, Zenon DEF ObjectInv, ServingIsLast, TalksToLast
  <2>2. objProcess'[engines'[u]] = p
    BY <1>0, <1>3, SMTT(60)
  <2>3. n <= proc'[p].spawned
    BY <1>3, <1>10, Zenon DEF processVars
  <2> QED
    BY <1>1, <1>3, <1>6, <1>7, <1>11, <2>1, <2>2, <2>3, Zenon DEF CallInv
<1>13. \A q \in Proc, m \in Child : \A i \in 1..Len(calls[q][m]) :
           \A d : d = calls[q][m][i] => CallInv(q, m, d)'
  BY <1>1, <1>8, RequestOnlyCalls, SMTT(60)
<1>14. /\ calls' \in [Proc -> [Child -> Seq(Call)]] /\ CallsInv'
       /\ \A x : InCall(x)' => InCall(x) \/ x = r
  <2>1. ManagerInv /\ p \in Proc /\ n \in Child /\ c \in Call /\ Send(p, n, c) /\ ~InCall(c.req)
    BY <1>1, <1>2, <1>3, <1>10, <1>11, Zenon
  <2>2. /\ calls' \in [Proc -> [Child -> Seq(Call)]] /\ CallsInv'
        /\ \A x : InCall(x)' => InCall(x) \/ x = c.req
    BY ONLY <2>1, <1>12, <1>13, CallMade
  <2> QED
    BY <1>11, <2>2, SMTT(60)
<1>15. RequestsInv' /\ EnginesInv' /\ ClearedInv' /\ StartInv' /\ SeparateInv'
  <2>1. objProcess[r] = None
    BY <1>1, <1>2 DEF EnginesInv, EngineInv
  <2>2. \A v \in User : InCall(v)' => InCall(v) /\ v # r
    BY <1>1, <1>14, SMTT(60)
  <2>3. Stage(r)' \in {"lock", "reply", "none"}
    BY <1>6
  <2> QED
    BY ONLY ManagerInv, r \in Req, <1>7, <1>8, <1>9, <2>1, <2>2, <2>3, RequestOnlyKeeps, SMTT(60)
<1>16. LocksInv'
  <2> SUFFICES ASSUME NEW e \in Req \ User PROVE Locked(e)'
    BY SMTT(60) DEF LocksInv
  <2>1. Locked(e) /\ Queue(e)' = Queue(e)
    BY <1>2, <1>3, <1>6, ZenonT(60) DEF LocksInv, Queue, SameRequest
  <2>2. CASE e = r
    BY <1>1, <1>6, <2>1, <2>2, SMTT(60) DEF Locked, Inside
  <2>3. CASE e # r
    BY <1>6, <2>1, <2>3, SMTT(60) DEF Locked, Inside, Stage
  <2> QED
    BY <2>2, <2>3
<1>17. Types'
  BY <1>2, <1>3, <1>6, <1>14, SMTT(60) DEF Types
<1>18. ProcessInv' /\ OneAtATime'
  <2>1. ProcessInv'
    BY <1>2, <1>3, StepInv
  <2> QED
    BY <1>3, <2>1, SMTT(60) DEF ManagerInv, OneAtATime
<1> QED
  BY <1>14, <1>15, <1>16, <1>17, <1>18, SMTT(60) DEF ManagerInv

\* The user's one lock object.
LEMMA TheLock ==
    ASSUME NEW S, NEW t \in Seq(S), Len(t) = 1
    PROVE  t[1] \in S
<1>1. 1 \in 1..Len(t)
  OBVIOUS
<1>2. \A i \in 1..Len(t) : t[i] \in S
  OBVIOUS
<1> QED
  BY <1>1, <1>2

LEMMA OneLock ==
    ASSUME NEW S, NEW t \in Seq(S), Len(t) = 1, NEW v \in S
    PROVE  /\ [t EXCEPT ![1] = v] \in Seq(S) /\ Len([t EXCEPT ![1] = v]) = 1
           /\ [t EXCEPT ![1] = v][1] = v
<1>1. [t EXCEPT ![1] = v] \in Seq(S)
  OBVIOUS
<1>2. Len([t EXCEPT ![1] = v]) = 1 /\ [t EXCEPT ![1] = v][1] = v
  OBVIOUS
<1> QED
  BY <1>1, <1>2

\* A new request queues at the user's lock.
LEMMA EnqueueInv ==
    ASSUME ManagerInv, NEW r \in Req \ User, NEW u \in User,
           NEW kind \in Operations \ {"startUser", "deleteUser", "clearCache"},
           NEW auto \in BOOLEAN,
           req[r].kind = "none", booted, bootLeft = {}, Stage(u) # "process", ~InCall(u),
           Enqueue(r, kind, u, auto),
           restarts' \in [User -> Nat],
           \A v \in User : restarts'[v] # 0 => restarts[v] # 0,
           UNCHANGED <<processVars, engines, objProcess, listening, nextProcess, calls,
                       engine, row, booted, bootLeft, scene>>
    PROVE  ManagerInv'
<1> DEFINE new == [NoRequest EXCEPT !.kind = kind, !.user = u, !.todo = Plan[kind],
                                    !.lock = 1, !.auto = auto]
<1>1. /\ Types /\ RequestsInv /\ LocksInv /\ EnginesInv /\ ProcessInv /\ CallsInv
      /\ r \in Req /\ r \notin User
  BY DEF ManagerInv
<1>2. Len(locks[u]) = 1 /\ locks[u] \in Seq(Seq(Req)) /\ locks \in [User -> Seq(Seq(Req))]
  BY <1>1 DEF Types
<1>3. req' = [req EXCEPT ![r] = new] /\ locks' = [locks EXCEPT ![u][1] = Append(@, r)]
  BY <1>2 DEF Enqueue
<1>4. /\ new.kind = kind /\ new.user = u /\ new.todo = Plan[kind] /\ new.lock = 1
      /\ new.target = None
  BY DEF NoRequest
<1>5. LET w == Plan[kind]
      IN  w \in Seq(ManagerStage) /\ w # <<>> /\ Ordered(w) /\ Head(w) = "lock"
  BY OrderedPlan
<1>6. new \in Request
  <2>1. 0 \in 0..MaxSpawn + 1
    BY ProcessAssumption
  <2>2. kind \in Operations \cup {"none", "boot"} /\ u \in User \cup {None}
    OBVIOUS
  <2>3. NoRequest \in Request
    BY <2>1 DEF NoRequest, Request
  <2>4. Plan[kind] \in Seq(ManagerStage)
    BY <1>5
  <2> QED
    BY <2>2, <2>3, <2>4 DEF Request
<1> HIDE DEF new
<1>7. /\ req'[r] = new /\ \A e \in Req : e # r => req'[e] = req[e]
      /\ req' \in [Req -> Request]
  BY <1>1, <1>3, <1>6 DEF Types
<1>8. Stage(r)' = "lock" /\ \A e \in Req : e # r => Stage(e)' = Stage(e)
  BY <1>4, <1>5, <1>7 DEF Stage
<1>9. locks[u][1] \in Seq(Req) /\ Append(locks[u][1], r) \in Seq(Req)
  <2>1. locks[u][1] \in Seq(Req)
    BY <1>2, TheLock
  <2> QED
    BY <1>1, <2>1
<1>10. /\ locks'[u][1] = Append(locks[u][1], r)
       /\ \A v \in User : v # u => locks'[v] = locks[v]
       /\ locks' \in [User -> Seq(Seq(Req))] /\ \A v \in User : Len(locks'[v]) = 1
  <2>1. /\ [locks[u] EXCEPT ![1] = Append(@, r)] \in Seq(Seq(Req))
        /\ Len([locks[u] EXCEPT ![1] = Append(@, r)]) = 1
        /\ [locks[u] EXCEPT ![1] = Append(@, r)][1] = Append(locks[u][1], r)
    BY <1>2, <1>9, OneLock
  <2>2. locks' = [locks EXCEPT ![u] = [locks[u] EXCEPT ![1] = Append(@, r)]]
    BY <1>3
  <2>3. \A v \in User : Len(locks[v]) = 1
    BY <1>1 DEF Types
  <2> QED
    BY <1>2, <2>1, <2>2, <2>3
<1>11. Types'
  BY <1>1, <1>7, <1>10 DEF Types
<1>12. RequestOnly(r)
  BY <1>4, <1>7 DEF RequestOnly, processVars
<1>13. RequestInv(r)'
  BY <1>1, <1>4, <1>5, <1>7 DEF RequestInv, Operations
<1>14. req'[r].kind # "none" /\ objProcess[r] = None /\ Stage(r) = "none"
  <2>1. req'[r].kind # "none"
    BY <1>4, <1>7 DEF Operations
  <2>2. objProcess[r] = None
    BY <1>1 DEF EnginesInv, EngineInv
  <2>3. req[r] = NoRequest
    BY <1>1 DEF RequestsInv, RequestInv
  <2> QED
    BY <2>1, <2>2, <2>3 DEF Stage, NoRequest
<1>15. RequestsInv' /\ EnginesInv' /\ ClearedInv' /\ StartInv' /\ SeparateInv'
  <2>1. \A v \in User : InCall(v)' => InCall(v) /\ v # r
    BY <1>1 DEF InCall
  <2>2. Stage(r)' \in {"lock", "reply", "none"}
    BY <1>8
  <2> QED
    BY ONLY ManagerInv, <1>1, <1>12, <1>13, <1>14, <2>1, <2>2, RequestOnlyKeeps
<1>16. LocksInv'
  <2> SUFFICES ASSUME NEW e \in Req \ User PROVE Locked(e)'
    BY DEF LocksInv
  <2>1. CASE e = r
    <3>1. Queue(e)' = Append(locks[u][1], r)
      BY <1>4, <1>7, <1>10, <2>1 DEF Queue
    <3>2. /\ Len(Append(locks[u][1], r)) = Len(locks[u][1]) + 1 /\ Len(locks[u][1]) \in Nat
          /\ Append(locks[u][1], r)[Len(locks[u][1]) + 1] = r
      BY <1>9
    <3>3. Len(locks[u][1]) + 1 \in 1..Len(locks[u][1]) + 1
      BY <3>2
    <3>4. \E i \in 1..Len(Queue(e)') : Queue(e)'[i] = r
      BY <3>1, <3>2, <3>3
    <3> QED
      BY <1>8, <2>1, <3>4 DEF Locked, Inside
  <2>2. CASE e # r /\ Stage(e) # "none"
    <3>1. req'[e] = req[e] /\ Stage(e)' = Stage(e) /\ req[e].user \in User /\ req[e].lock = 1
      BY <1>1, <1>7, <1>8, <2>2, KindOfStage
    <3>2. Locked(e)
      BY <1>1 DEF LocksInv
    <3>3. CASE req[e].user # u
      BY <1>10, <3>1, <3>2, <3>3 DEF Locked, Inside, Queue
    <3>4. CASE req[e].user = u
      <4> DEFINE t == locks[u][1]
      <4>1. Queue(e) = t /\ Queue(e)' = Append(t, r) /\ t \in Seq(Req)
        BY <1>9, <1>10, <3>1, <3>4 DEF Queue
      <4> HIDE DEF t
      <4>2. \A i \in 1..Len(t) : i \in 1..Len(Append(t, r)) /\ Append(t, r)[i] = t[i]
        BY <4>1
      <4>3. t # <<>> => Append(t, r) # <<>> /\ Head(Append(t, r)) = Head(t)
        BY <4>1
      <4> QED
        BY <3>1, <3>2, <4>1, <4>2, <4>3 DEF Locked, Inside
    <3> QED
      BY <3>3, <3>4
  <2>3. CASE e # r /\ Stage(e) = "none"
    BY <1>8, <2>3 DEF Locked, Inside
  <2> QED
    BY <2>1, <2>2, <2>3
<1>17. CallsInv'
  <2>1. ~InCall(r)
    BY <1>1, <1>14, InCallReplies
  <2>2. \A q \in Proc, m \in Child : \A i \in 1..Len(calls[q][m]) :
            \A d : d = calls[q][m][i] => CallInv(q, m, d)'
    BY <1>1, <1>12, <2>1, RequestOnlyCalls
  <2>3. calls' = calls
    OBVIOUS
  <2>4. ASSUME NEW q \in Proc, NEW m \in Child, NEW i \in 1..Len(calls'[q][m]),
               NEW d, d = calls'[q][m][i]
        PROVE  CallInv(q, m, d)'
    BY <2>2, <2>3, <2>4
  <2> QED
    BY <1>1, <2>3, <2>4 DEF CallsInv
<1>18. ProcessInv' /\ OneAtATime'
  <2>1. ProcessInv'
    BY <1>1, StepInv
  <2> QED
    BY <2>1 DEF ManagerInv, OneAtATime
<1> QED
  BY <1>11, <1>15, <1>16, <1>17, <1>18 DEF ManagerInv

LEMMA ArriveInv ==
    ASSUME ManagerInv, NEW r \in Slot, NEW u \in User, NEW k \in scene.kinds, Arrive(r, k, u)
    PROVE  ManagerInv'
<1>1. r \in Req \ User
  BY Names
<1>2. k \in Operations \ {"startUser", "deleteUser", "clearCache"}
  <2>1. scene.kinds \subseteq Operations
    BY ManagerAssumption DEF ManagerInv, Types
  <2> QED
    BY <2>1 DEF ManagerInv, OneAtATime
<1>3. /\ booted /\ bootLeft = {} /\ Stage(u) = "none" /\ req[r].kind = "none"
      /\ Enqueue(r, k, u, FALSE)
  BY DEF Arrive, BootDone, Quiet, ManagerInv, OneAtATime, Stage
<1>4. ~InCall(u)
  BY <1>3, InCallReplies DEF ManagerInv
<1>5. restarts' \in [User -> Nat] /\ \A v \in User : restarts'[v] # 0 => restarts[v] # 0
  BY DEF Arrive, ManagerInv, Types
<1>6. UNCHANGED <<processVars, engines, objProcess, listening, nextProcess, calls,
                  engine, row, booted, bootLeft, scene>>
  BY DEF Arrive
<1>7. Stage(u) # "process" /\ FALSE \in BOOLEAN
  BY <1>3
<1> QED
  BY ONLY ManagerInv, u \in User, <1>1, <1>2, <1>3, <1>4, <1>5, <1>6, <1>7, EnqueueInv

LEMMA RestartTimerInv ==
    ASSUME ManagerInv, NEW r \in TimerSlot, NEW u \in User, RestartTimer(r, u)
    PROVE  ManagerInv'
<1>1. r \in Req \ User
  BY Names
<1>2. "restartUser" \in Operations \ {"startUser", "deleteUser", "clearCache"}
  BY DEF Operations
<1>3. restarts \in [User -> Nat] /\ restarts[u] > 0 /\ restarts[u] # 0
  <2>1. restarts \in [User -> Nat] /\ restarts[u] > 0
    BY DEF RestartTimer, ManagerInv, Types
  <2> QED
    BY <2>1
<1>4. AtStart(u)
  BY DEF ManagerInv, StartInv
<1>5. booted /\ bootLeft = {} /\ Stage(u) # "process" /\ ~InCall(u)
  BY <1>3, <1>4 DEF AtStart, RestartTimer, Quiet
<1>6. restarts' \in [User -> Nat] /\ \A v \in User : restarts'[v] # 0 => restarts[v] # 0
  <2>1. restarts' = [restarts EXCEPT ![u] = @ - 1]
    BY DEF RestartTimer
  <2> QED
    BY <1>3, <2>1
<1>7. UNCHANGED <<processVars, engines, objProcess, listening, nextProcess, calls,
                  engine, row, booted, bootLeft, scene>>
  BY DEF RestartTimer
<1>8. req[r].kind = "none" /\ Enqueue(r, "restartUser", u, TRUE) /\ TRUE \in BOOLEAN
  BY DEF RestartTimer
<1> QED
  BY ONLY ManagerInv, u \in User, <1>1, <1>2, <1>5, <1>6, <1>7, <1>8, EnqueueInv

LEMMA MasterCrashes ==
    ASSUME ProcessInv, UNCHANGED <<proc, registered, stopped, stopWaits>>,
           master' \in {master, "crashed"}
    PROVE  ProcessInv'
<1>1. TypeOK'
  BY DEF ProcessInv, TypeOK
<1>2. master' = "up" => master = "up"
  OBVIOUS
<1> QED
  BY <1>1, <1>2 DEF ProcessInv

\* finally { releaseLock() }
LEMMA ReleaseInv ==
    ASSUME ManagerInv, NEW r \in Req, Release(r), NEW u, u = req[r].user
    PROVE  ManagerInv'
<1>1. /\ Types /\ RequestsInv /\ LocksInv /\ EnginesInv /\ ProcessInv /\ CallsInv
      /\ Stage(r) = "release"
  BY DEF ManagerInv, Release, Job
<1>2. /\ req[r].kind # "none" /\ u \in User /\ req[r].kind # "deleteUser"
      /\ r \in User => req[r].lock = 0
      /\ r \notin User => req[r].lock = 1
  BY <1>1, KindOfStage DEF RequestsInv, RequestInv
<1>3. /\ req' = [req EXCEPT ![r].todo = <<>>]
      /\ locks' = IF r \in User THEN locks ELSE [locks EXCEPT ![u][1] = Tail(@)]
      /\ UNCHANGED <<proc, registered, stopped, stopWaits, engines, objProcess,
                     listening, nextProcess, restarts, calls, engine, row,
                     booted, bootLeft, scene>>
      /\ master' \in {master, "crashed"}
  <2>1. locks' = Unlocked(r)
    BY <1>2 DEF Release
  <2>2. Unlocked(r) = IF r \in User THEN locks ELSE [locks EXCEPT ![u][1] = Tail(@)]
    <3>1. CASE r \in User
      BY <1>2, <3>1 DEF Unlocked
    <3>2. CASE r \notin User
      <4>1. req[r].lock = 1 /\ req[r].lock # 0 /\ req[r].user = u
        BY <1>2, <3>2
      <4>2. Unlocked(r) = [locks EXCEPT ![u][1] = Tail(@)]
        BY <4>1, Zenon DEF Unlocked
      <4> QED
        BY <3>2, <4>2
    <3> QED
      BY <3>1, <3>2
  <2> QED
    BY <2>1, <2>2 DEF Release
<1>4. /\ req' \in [Req -> Request] /\ req'[r].todo = <<>>
      /\ \A e \in Req : SameRequest(e) /\ (e # r => req'[e] = req[e])
  <2>1. <<>> \in Seq(ManagerStage) /\ Goes(r, <<>>)
    BY <1>3 DEF Goes
  <2> QED
    BY <2>1, Going
<1>5. Stage(r)' = "none" /\ \A e \in Req : e # r => Stage(e)' = Stage(e)
  BY <1>4 DEF Stage
<1>6. RequestOnly(r)
  BY <1>2, <1>3, <1>4 DEF RequestOnly, SameRequest
<1>7. RequestInv(r)'
  <2>1. RequestInv(r) /\ Ordered(req'[r].todo)
    BY <1>1, <1>4 DEF RequestsInv, Ordered
  <2> QED
    BY <1>2, <1>4, <1>5, <2>1 DEF RequestInv, SameRequest
<1>8. RequestsInv' /\ EnginesInv' /\ ClearedInv' /\ StartInv' /\ SeparateInv'
  <2>1. req'[r].kind # "none" /\ req'[r].target = req[r].target
    BY <1>2, <1>4 DEF SameRequest
  <2>2. \A v \in User : InCall(v)' => InCall(v) /\ v # r
    <3>1. \A v \in User : InCall(v)' => InCall(v)
      BY <1>3 DEF InCall
    <3> QED
      BY <1>1, <3>1, InCallReplies
  <2>3. Stage(r)' \in {"lock", "reply", "none"}
    BY <1>5
  <2> QED
    BY ONLY ManagerInv, r \in Req, <1>5, <1>6, <1>7, <2>1, <2>2, <2>3, RequestOnlyKeeps
<1>9. CallsInv'
  <2>1. ~InCall(r)
    BY <1>1, InCallReplies
  <2>2. \A q \in Proc, m \in Child : \A i \in 1..Len(calls[q][m]) :
            \A d : d = calls[q][m][i] => CallInv(q, m, d)'
    BY <1>6, <2>1, RequestOnlyCalls
  <2>3. calls' = calls
    BY <1>3
  <2>4. ASSUME NEW q \in Proc, NEW m \in Child, NEW i \in 1..Len(calls'[q][m]),
               NEW d, d = calls'[q][m][i]
        PROVE  CallInv(q, m, d)'
    BY <2>2, <2>3, <2>4
  <2> QED
    BY <1>1, <2>3, <2>4 DEF CallsInv
<1>10. ProcessInv' /\ OneAtATime'
  <2>1. ProcessInv'
    BY <1>1, <1>3, MasterCrashes
  <2> QED
    BY <1>3, <2>1 DEF ManagerInv, OneAtATime
<1>11. CASE r \in User
  <2>1. Types'
    BY <1>1, <1>3, <1>4, <1>11 DEF Types
  <2>2. LocksInv'
    <3> SUFFICES ASSUME NEW e \in Req \ User PROVE Locked(e)'
      BY DEF LocksInv
    <3>1. Locked(e) /\ req'[e] = req[e] /\ Stage(e)' = Stage(e) /\ locks' = locks
      BY <1>1, <1>3, <1>4, <1>5, <1>11 DEF LocksInv
    <3> QED
      BY <3>1 DEF Locked, Inside, Queue
  <2> QED
    BY <1>8, <1>9, <1>10, <2>1, <2>2 DEF ManagerInv
<1>12. CASE r \notin User
  <2> DEFINE t == locks[u][1]
  <2>1. /\ locks \in [User -> Seq(Seq(Req))] /\ locks[u] \in Seq(Seq(Req))
        /\ \A v \in User : Len(locks[v]) = 1
    BY <1>1, <1>2 DEF Types
  <2>2. t \in Seq(Req) /\ t # <<>> /\ Head(t) = r
    <3>1. t \in Seq(Req)
      BY <1>2, <2>1, TheLock
    <3>2. Locked(r) /\ Queue(r) = t
      BY <1>1, <1>2, <1>12 DEF LocksInv, Queue
    <3> QED
      BY <1>1, <3>1, <3>2 DEF Locked, Inside
  <2>3. Tail(t) \in Seq(Req)
    BY <2>2
  <2>4. /\ locks'[u][1] = Tail(t)
        /\ \A v \in User : v # u => locks'[v] = locks[v]
        /\ locks' \in [User -> Seq(Seq(Req))] /\ \A v \in User : Len(locks'[v]) = 1
    <3>1. /\ [locks[u] EXCEPT ![1] = Tail(t)] \in Seq(Seq(Req))
          /\ Len([locks[u] EXCEPT ![1] = Tail(t)]) = 1
          /\ [locks[u] EXCEPT ![1] = Tail(t)][1] = Tail(t)
      BY <1>2, <2>1, <2>3, OneLock
    <3>2. locks' = [locks EXCEPT ![u] = [locks[u] EXCEPT ![1] = Tail(t)]]
      BY <1>3, <1>12
    <3> QED
      BY <1>2, <2>1, <3>1, <3>2
  <2>5. Types'
    BY <1>1, <1>3, <1>4, <2>4 DEF Types
  <2>6. LocksInv'
    <3> SUFFICES ASSUME NEW e \in Req \ User PROVE Locked(e)'
      BY DEF LocksInv
    <3>1. CASE e = r
      BY <1>5, <3>1 DEF Locked, Inside
    <3>2. CASE e # r /\ Stage(e) # "none"
      <4>1. /\ req'[e] = req[e] /\ Stage(e)' = Stage(e)
            /\ req[e].user \in User /\ req[e].lock = 1 /\ Locked(e)
        BY <1>1, <1>4, <1>5, <3>2, KindOfStage DEF LocksInv
      <4>2. CASE req[e].user # u
        BY <2>4, <4>1, <4>2 DEF Locked, Inside, Queue
      <4>3. CASE req[e].user = u
        <5>1. Queue(e) = t /\ Queue(e)' = Tail(t)
          BY <2>4, <4>1, <4>3 DEF Queue
        <5> HIDE DEF t
        <5>2. ~Inside(e)
          BY <2>2, <3>2, <4>1, <5>1 DEF Locked
        <5>3. ASSUME NEW i \in 1..Len(t), t[i] = e
              PROVE  \E j \in 1..Len(Tail(t)) : Tail(t)[j] = e
          <6>1. t[1] = r /\ i # 1
            BY <2>2, <3>2, <5>3
          <6>2. i - 1 \in 1..Len(Tail(t)) /\ Tail(t)[i - 1] = t[i]
            BY <2>2, <6>1
          <6> QED
            BY <5>3, <6>2
        <5>4. Stage(e) = "lock" => \E j \in 1..Len(Queue(e)') : Queue(e)'[j] = e
          BY <4>1, <5>1, <5>3 DEF Locked
        <5> QED
          BY <4>1, <5>2, <5>4 DEF Locked, Inside
      <4> QED
        BY <4>2, <4>3
    <3>3. CASE e # r /\ Stage(e) = "none"
      BY <1>5, <3>3 DEF Locked, Inside
    <3> QED
      BY <3>1, <3>2, <3>3
  <2> QED
    BY <1>8, <1>9, <1>10, <2>5, <2>6 DEF ManagerInv
<1> QED
  BY <1>11, <1>12

\* The worker answers a call of runEngine.  When it is in service, the call is
\* that of the user's current entry, and no other engine of the user runs.
LEMMA WorkerRunsInv ==
    ASSUME ManagerInv, NEW p \in Proc, NEW n \in Child, WorkerAnswers(p, n),
           NEW c, c = Head(calls[p][n]), c.op = "run",
           NEW r, r = c.req, NEW u, u = c.user
    PROVE  ManagerInv'
<1>1. /\ Types /\ RequestsInv /\ LocksInv /\ EnginesInv /\ ProcessInv /\ CallsInv
      /\ ClearedInv /\ StartInv /\ SeparateInv
  BY DEF ManagerInv
<1>2. /\ calls[p][n] # <<>>
      /\ WorkerRuns(p, n, c)
      /\ calls' = [calls EXCEPT ![p][n] = Tail(@)]
      /\ IF c.awaited THEN Advance(r) ELSE UNCHANGED req
      /\ UNCHANGED <<processVars, objProcess, locks, nextProcess, row, booted,
                     bootLeft, scene>>
  BY DEF WorkerAnswers
<1>3. /\ r \in Req /\ u \in User /\ CallInv(p, n, c) /\ InCall(r)
      /\ calls' \in [Proc -> [Child -> Seq(Call)]] /\ FewerCalls
      /\ NotOf(r)
  BY <1>2, CallAnswered
<1>4. /\ c.awaited /\ u = req[r].user /\ Stage(r) = "reply" /\ n <= proc[p].spawned
      /\ Tail(req[r].todo) = <<"release">> /\ objProcess[r] = p
      /\ Serving(proc[p], n) => engines[u] = r
  BY <1>3, ZenonT(120) DEF CallInv
<1>5. /\ UNCHANGED <<engines, listening, restarts>>
      /\ engine' = [e \in Req |->
             IF e = r THEN [state |-> "mapped", proc |-> p, child |-> n]
             ELSE IF e \in MappedIn(u, p, n)
                  THEN [engine[e] EXCEPT !.state = "unmapped"] ELSE engine[e]]
  BY <1>2, SMTT(60) DEF WorkerRuns, NobodyDies
<1>6. /\ req' \in [Req -> Request] /\ req'[r].todo = <<"release">>
      /\ \A e \in Req : SameRequest(e) /\ (e # r => req'[e] = req[e])
      /\ Ordered(req'[r].todo)
  <2>1. Stage(r) \notin {"none", "release"} /\ Advance(r)
    BY <1>2, <1>4
  <2> QED
    BY <1>3, <1>4, <2>1, Forward, ZenonT(120)
<1>7. Stage(r)' = "release" /\ \A e \in Req : e # r => Stage(e)' = Stage(e)
  BY <1>6 DEF Stage
<1>8. engine[r] \in Engine /\ engine \in [Req -> Engine]
  BY <1>1, <1>3 DEF Types
<1>9. /\ engine'[r] = [state |-> "mapped", proc |-> p, child |-> n]
      /\ \A e \in Req : e # r =>
            \/ engine'[e] = engine[e]
            \/ /\ e \in MappedIn(u, p, n)
               /\ engine'[e] = [engine[e] EXCEPT !.state = "unmapped"]
  BY <1>3, <1>5
<1>10. engine' \in [Req -> Engine]
  <2>1. [state |-> "mapped", proc |-> p, child |-> n] \in Engine
    BY ProcessAssumption DEF Engine, Child
  <2>2. \A e \in Req : [engine[e] EXCEPT !.state = "unmapped"] \in Engine
    BY <1>8 DEF Engine
  <2> QED
    BY <1>5, <1>8, <2>1, <2>2
<1>11. ASSUME NEW e \in Req, e # r, e \in MappedIn(u, p, n), Running(e)' PROVE FALSE
  <2>1. /\ engine[e].state = "mapped" /\ engine[e].proc = p /\ engine[e].child = n
        /\ req[e].user = u
    BY <1>11 DEF MappedIn
  <2>2. engine'[e].proc = p /\ engine'[e].child = n
    BY <1>8, <1>9, <1>11, <2>1 DEF Engine
  <2>3. Serving(proc[p], n)
    BY <1>2, <1>11, <2>2 DEF Running, processVars
  <2>4. Running(e)
    BY <2>1, <2>3 DEF Running
  <2>5. engines[u] = e
    BY <1>1, <2>1, <2>4 DEF EnginesInv, EngineInv
  <2> QED
    BY <1>4, <1>11, <2>3, <2>5
<1>12. ASSUME NEW e \in Req, e # r, Running(e)'
       PROVE  Running(e) /\ engine'[e] = engine[e]
  <2>1. engine'[e] = engine[e]
    BY <1>9, <1>11, <1>12
  <2> QED
    BY <1>2, <1>12, <2>1 DEF Running, processVars
<1>13. Running(r)' => engines[u] = r
  <2>1. Running(r)' => Serving(proc[p], n)
    BY <1>2, <1>9 DEF Running, processVars
  <2> QED
    BY <1>4, <2>1
<1>14. RequestsInv'
  <2> SUFFICES ASSUME NEW e \in Req PROVE RequestInv(e)'
    BY DEF RequestsInv
  <2>1. RequestInv(e)
    BY <1>1, SMTT(60) DEF RequestsInv
  <2>2. CASE e = r
    <3>1. req[r].kind # "none"
      BY <1>1, <1>3, <1>4, KindOfStage
    <3> QED
      BY <1>6, <1>7, <2>1, <2>2, <3>1, Zenon DEF RequestInv, SameRequest
  <2>3. CASE e # r
    BY <1>6, <1>7, <2>1, <2>3 DEF RequestInv
  <2> QED
    BY <2>2, <2>3
<1>15. LocksInv'
  <2> SUFFICES ASSUME NEW e \in Req \ User PROVE Locked(e)'
    BY DEF LocksInv
  <2>1. Locked(e) /\ Queue(e)' = Queue(e)
    BY <1>1, <1>2, <1>6 DEF LocksInv, Queue, SameRequest
  <2> QED
    BY <1>4, <1>7, <2>1 DEF Locked, Inside
<1>16. \A e \in Req : EngineInv(e)'
  <2> SUFFICES ASSUME NEW e \in Req PROVE EngineInv(e)'
    OBVIOUS
  <2>1. EngineInv(e)
    BY <1>1, SMTT(60) DEF EnginesInv
  <2>2. CASE e = r
    <3>1. /\ engine'[e].state = "mapped" /\ engine'[e].proc = p /\ engine'[e].child = n
          /\ objProcess'[e] = p /\ p # None /\ n <= proc'[p].spawned
      <4>1. engine'[e] = [state |-> "mapped", proc |-> p, child |-> n]
        BY ONLY <1>9, <2>2, Zenon
      <4>2. proc' = proc /\ objProcess' = objProcess
        BY ONLY <1>2, Zenon DEF processVars
      <4>3. p # None
        BY ONLY p \in Proc, Names, Zenon
      <4>4. objProcess'[e] = p /\ n <= proc'[p].spawned
        BY ONLY <1>4, <2>2, <4>2, Zenon
      <4> QED
        BY ONLY <4>1, <4>3, <4>4, SMTT(60)
    <3>2. req'[e].user = u /\ req'[e].kind = req[e].kind /\ req'[e].target = req[e].target
      BY <1>4, <1>6, <2>2, ZenonT(120) DEF SameRequest
    <3>3. Running(e)' => engines'[req'[e].user] = e
      BY <1>5, <1>13, <2>2, <3>2, SMTT(60)
    <3>4. req[e].kind # "none" /\ objProcess[e] = req[e].target
      BY <1>4, <2>1, <2>2, Names, ZenonT(120) DEF EngineInv
    <3>5. objProcess'[e] = req'[e].target
      BY <1>2, <3>2, <3>4
    <3> QED
      BY <1>7, <2>2, <3>1, <3>2, <3>3, <3>4, <3>5, ZenonT(60) DEF EngineInv
  <2>3. CASE e # r
    <3>1. /\ req'[e] = req[e] /\ Stage(e)' = Stage(e) /\ objProcess' = objProcess
          /\ engines' = engines /\ listening' = listening /\ proc' = proc
      BY <1>2, <1>5, <1>6, <1>7, <2>3 DEF processVars
    <3>2. /\ engine'[e].proc = engine[e].proc /\ engine'[e].child = engine[e].child
          /\ engine'[e].state # "none" => engine[e].state # "none"
      <4>1. CASE engine'[e] = engine[e]
        BY <4>1
      <4>2. CASE /\ e \in MappedIn(u, p, n)
                 /\ engine'[e] = [engine[e] EXCEPT !.state = "unmapped"]
        <5>1. engine[e].state # "none" /\ engine[e] \in Engine
          BY <1>8, <4>2 DEF MappedIn
        <5>2. engine'[e].proc = engine[e].proc /\ engine'[e].child = engine[e].child
          BY <4>2, <5>1 DEF Engine
        <5> QED
          BY <5>1, <5>2
      <4> QED
        BY <1>9, <2>3, <4>1, <4>2
    <3>3. Running(e)' => Running(e) /\ engine'[e] = engine[e]
      BY <1>12, <2>3
    <3> QED
      BY <2>1, <3>1, <3>2, <3>3, SMTT(60) DEF EngineInv
  <2> QED
    BY <2>2, <2>3
<1>17. \A v \in User : EntryInv(v)'
  <2> SUFFICES ASSUME NEW v \in User PROVE EntryInv(v)'
    OBVIOUS
  <2>1. EntryInv(v) /\ engines[v] \in Req \cup {None}
    BY <1>1 DEF EnginesInv, Types
  <2> QED
    BY <1>2, <1>5, <1>6, <2>1 DEF EntryInv, SameRequest
<1>18. ASSUME NEW q \in Req, q # r, Acts(q) PROVE req[q].user # u
  <2>1. Acts(r)
    BY <1>3 DEF Acts
  <2> QED
    BY <1>3, <1>4, <1>18, <2>1, OneActs
<1>19. ClearedInv'
  <2> SUFFICES ASSUME NEW q \in Req, HasKilled(q)', NEW v, v = req'[q].user
               PROVE  Cleared(v)'
    BY DEF ClearedInv
  <2>1. q # r /\ HasKilled(q) /\ req[q].user = v
    BY <1>6, <1>7 DEF HasKilled
  <2>2. Cleared(v) /\ v # u
    BY <1>1, <1>18, <2>1 DEF ClearedInv, HasKilled, Acts
  <2>3. ASSUME NEW e \in Req, req'[e].user = v PROVE ~Running(e)'
    <3>1. req[e].user = v
      BY ONLY <1>6, <2>3, Zenon DEF SameRequest
    <3>2. e # r
      BY ONLY <1>4, <2>2, <3>1, Zenon
    <3>3. ASSUME Running(e)' PROVE FALSE
      <4>1. Running(e)
        BY ONLY <1>12, <2>3, <3>2, <3>3, Zenon
      <4> QED
        BY ONLY <2>2, <2>3, <3>1, <4>1, Zenon DEF Cleared
    <3> QED
      BY ONLY <3>3, Zenon
  <2> QED
    BY <1>2, <1>5, <2>2, <2>3 DEF Cleared, IsRunning, Spared, processVars
<1>20. ASSUME NEW v, InCall(v)' PROVE InCall(v)
  <2>1. PICK q \in Proc, m \in Child : \E i \in 1..Len(calls'[q][m]) : calls'[q][m][i].req = v
    BY <1>20 DEF InCall
  <2>2. PICK i \in 1..Len(calls'[q][m]) : calls'[q][m][i].req = v
    BY <2>1
  <2>3. \E k \in 1..Len(calls[q][m]) : calls'[q][m][i] = calls[q][m][k]
    BY <1>3 DEF NotOf
  <2> QED
    BY <2>2, <2>3 DEF InCall
<1>21. StartInv'
  <2>1. (bootLeft # {} => booted)'
    BY <1>1, <1>2 DEF StartInv
  <2> SUFFICES ASSUME NEW v \in User PROVE AtStart(v)'
    BY <2>1 DEF StartInv
  <2>2. AtStart(v)
    BY <1>1 DEF StartInv
  <2>3. Stage(v)' = "process" \/ InCall(v)' => Stage(v) = "process" \/ InCall(v)
    BY <1>7, <1>20, Names
  <2>4. \A e \in Req : req'[e].user = req[e].user
    BY <1>6 DEF SameRequest
  <2> QED
    BY <1>2, <1>5, <2>2, <2>3, <2>4 DEF AtStart
<1>22. SeparateInv'
  <2> SUFFICES ASSUME NEW q \in Proc \ SharedProc PROVE Alone(q)'
    BY DEF SeparateInv
  <2>1. Alone(q)
    BY <1>1 DEF SeparateInv
  <2>2. \A e \in Req : Stage(e)' = "process" => Stage(e) = "process" /\ req'[e] = req[e]
    BY <1>6, <1>7
  <2> QED
    BY <1>2, <1>5, <2>1, <2>2 DEF Alone, Spared, processVars
<1>23. CallsInv'
  <2>1. ASSUME NEW q \in Proc, NEW m \in Child, NEW i \in 1..Len(calls[q][m]),
               NEW d, d = calls[q][m][i], d.req # r
        PROVE  CallInv(q, m, d)'
    <3>1. /\ d \in Call /\ d.req \in Req /\ d.user \in User /\ CallInv(q, m, d)
          /\ InCall(d.req)
      <4>1. d \in Call /\ d.req \in Req /\ CallInv(q, m, d) /\ InCall(d.req)
        BY <1>1, <2>1, CallsAre, SMTT(60)
      <4> QED
        BY <4>1 DEF Call
    <3>2. /\ req'[d.req] = req[d.req] /\ m <= proc'[q].spawned
          /\ Serving(proc'[q], m) => Serving(proc[q], m)
          /\ objProcess'[d.req] = objProcess[d.req]
          /\ engines'[d.user] = engines[d.user]
      BY <1>2, <1>5, <1>6, <2>1, <3>1, Zenon DEF CallInv, processVars
    <3>3. IsRunning(d.user)' =>
             IsRunning(d.user) /\ objProcess'[engines[d.user]] = objProcess[engines[d.user]]
      BY <1>2, <1>5, SMTT(60) DEF IsRunning
    <3>4. d.user # u
      <4>1. d.user = req[d.req].user /\ Acts(d.req)
        BY ONLY <3>1, Zenon DEF Acts, CallInv
      <4> QED
        BY ONLY <1>18, <2>1, <3>1, <4>1, Zenon
    <3>5. \A e \in Req : req'[e].user = d.user /\ Running(e)' =>
             /\ req[e].user = d.user /\ Running(e)
             /\ engine'[e].proc = engine[e].proc /\ engine'[e].child = engine[e].child
      <4> SUFFICES ASSUME NEW e \in Req, req'[e].user = d.user, Running(e)'
                   PROVE  /\ req[e].user = d.user /\ Running(e)
                          /\ engine'[e].proc = engine[e].proc
                          /\ engine'[e].child = engine[e].child
        OBVIOUS
      <4>1. req[e].user = d.user
        BY ONLY <1>6, e \in Req, req'[e].user = d.user, Zenon DEF SameRequest
      <4>2. e # r
        BY ONLY <1>4, <3>4, <4>1, Zenon
      <4>3. Running(e) /\ engine'[e] = engine[e]
        BY ONLY <1>12, <4>2, e \in Req, Running(e)', Zenon
      <4> QED
        BY ONLY <4>1, <4>3, Zenon
    <3> QED
      BY ONLY <2>1, <3>1, <3>2, <3>3, <3>5, KeptCall, ZenonT(120)
  <2> QED
    BY <1>3, <2>1, CallsLeft
<1>24. Types'
  BY <1>1, <1>2, <1>3, <1>5, <1>6, <1>10 DEF Types
<1>25. ProcessInv' /\ OneAtATime'
  <2>1. ProcessInv'
    BY <1>1, <1>2, StepInv
  <2> QED
    BY <1>2, <2>1 DEF ManagerInv, OneAtATime
<1> QED
  BY <1>14, <1>15, <1>16, <1>17, <1>19, <1>21, <1>22, <1>23, <1>24, <1>25
     DEF ManagerInv, EnginesInv

LEMMA ProcessLast ==
    ASSUME ManagerInv, NEW r \in Req, Stage(r) = "process"
    PROVE  Tail(req[r].todo) = <<"release">>
<1> DEFINE t == req[r].todo
           v == Tail(t)
<1>1. t \in Seq(ManagerStage) /\ t # <<>> /\ Ordered(t) /\ Head(t) = "process"
  BY Todo
<1> HIDE DEF t
<1>2. v \in Seq(ManagerStage) /\ v # <<>> /\ Ordered(v) /\ <<"process", Head(v)>> \in Follows
  BY <1>1, OrderedTail
<1>3. Head(v) = "release"
  BY <1>2 DEF Follows
<1> HIDE DEF v
<1>4. Tail(v) = <<>>
  BY <1>2, <1>3, OrderedTail
<1>5. v = <<Head(v)>>
  <2>1. Len(Tail(v)) = Len(v) - 1 /\ Len(v) \in Nat
    BY <1>2
  <2>2. Len(Tail(v)) = 0
    <3>1. Len(Tail(v)) = Len(<<>>)
      BY <1>4, Zenon
    <3> QED
      BY <3>1
  <2>3. Len(v) = 1
    BY <2>1, <2>2
  <2>4. v = <<v[1]>> /\ Head(v) = v[1]
    BY <1>2, <2>3
  <2> QED
    BY <2>4
<1> QED
  BY <1>3, <1>5 DEF t, v

\* The process is there: the entry listens to it and, unless its channel is
\* gone already, the worker is called.
LEMMA ProcessFoundLiveInv ==
    ASSUME ManagerInv, NEW r \in Req, ProcessFound(r),
           NEW u, u = req[r].user, NEW p, p = req[r].target, NEW n, n = proc[p].rpc,
           NEW a, a = req[r].attempt, ~(a # 0 /\ proc[p].attempt[a] = "failed"),
           NEW c, c = [op |-> "run", req |-> r, user |-> u, awaited |-> TRUE]
    PROVE  ManagerInv'
<1>1. /\ Types /\ RequestsInv /\ LocksInv /\ EnginesInv /\ ProcessInv /\ CallsInv
      /\ ClearedInv /\ StartInv /\ SeparateInv
  BY DEF ManagerInv
<1>2. /\ Stage(r) = "process" /\ Settled(r)
      /\ objProcess' = [objProcess EXCEPT ![r] = p]
      /\ listening' = listening \cup {r}
      /\ \/ /\ n # 0 /\ Connected(proc[p], n)
            /\ Send(p, n, c)
            /\ req' = [req EXCEPT ![r].todo = <<"reply">> \o Tail(@)]
         \/ Fail(r) /\ UNCHANGED calls
      /\ UNCHANGED <<processVars, engines, locks, nextProcess, restarts,
                     engine, row, booted, bootLeft, scene>>
  <2>1. Stage(r) = "process" /\ Settled(r)
    BY DEF ProcessFound, Job, Runnable
  <2> QED
    BY <2>1 DEF ProcessFound, Listen
<1>3. /\ req[r].kind # "none" /\ u \in User /\ (r \in User => u = r)
      /\ p \in Proc /\ engines[u] = r /\ objProcess[r] = None
      /\ Tail(req[r].todo) = <<"release">>
      /\ r # None /\ p # None /\ Acts(r) /\ ~InCall(r)
  <2>1. /\ req[r].kind # "none" /\ u \in User /\ (r \in User => u = r)
    BY <1>1, <1>2, KindOfStage
  <2>2. p \in Proc /\ engines[u] = r /\ objProcess[r] = None
    BY <1>1, <1>2 DEF EnginesInv, EngineInv
  <2>3. Acts(r) /\ ~InCall(r)
    BY <1>1, <1>2, InCallReplies, SMTT(60) DEF Acts
  <2> QED
    BY <1>2, <2>1, <2>2, <2>3, ProcessLast, Names
<1>4. /\ req' \in [Req -> Request] /\ Ordered(req'[r].todo)
      /\ \A e \in Req : SameRequest(e) /\ (e # r => req'[e] = req[e])
      /\ \/ /\ Stage(r)' = "reply" /\ Tail(req'[r].todo) = <<"release">>
            /\ n # 0 /\ Connected(proc[p], n) /\ Send(p, n, c)
         \/ Stage(r)' = "release" /\ calls' = calls
  <2>1. CASE /\ n # 0 /\ Connected(proc[p], n) /\ Send(p, n, c)
             /\ req' = [req EXCEPT ![r].todo = <<"reply">> \o Tail(@)]
    <3>1. \A v \in ManagerStage : <<Stage(r), v>> \in Follows => <<"reply", v>> \in Follows
      BY <1>2 DEF Follows
    <3>2. Stage(r) \notin {"none", "release"} /\ "reply" \in ManagerStage
      BY <1>2 DEF ManagerStage
    <3>3. /\ req' \in [Req -> Request] /\ Tail(req'[r].todo) = Tail(req[r].todo)
          /\ \A e \in Req : SameRequest(e) /\ (e # r => req'[e] = req[e])
          /\ Ordered(req'[r].todo) /\ Stage(r)' = "reply"
      BY ONLY ManagerInv, r \in Req, <2>1, <3>1, <3>2, Instead
    <3> QED
      BY <1>3, <2>1, <3>3
  <2>2. CASE Fail(r) /\ UNCHANGED calls
    BY <2>2, ToRelease
  <2> QED
    BY <1>2, <2>1, <2>2
<1>5. Stage(r)' \in {"reply", "release"} /\ \A e \in Req : e # r => Stage(e)' = Stage(e)
  BY <1>4 DEF Stage
<1>6. \A e \in Req : Running(e)' <=> Running(e)
  BY <1>2 DEF Running, processVars
<1>7. ~Running(r) /\ engine[r].state = "none"
  BY <1>1, <1>3 DEF EnginesInv, EngineInv, Running
<1>8. /\ objProcess'[r] = p
      /\ \A e \in Req : e # r => objProcess'[e] = objProcess[e]
      /\ objProcess' \in [Req -> Proc \cup {None}]
  BY <1>1, <1>2, <1>3 DEF Types
<1>9. ASSUME NEW q \in Req, q # r, Acts(q) PROVE req[q].user # u
  BY <1>3, <1>9, OneActs
<1>10. ASSUME NEW v \in User, v # u, IsRunning(v)'
       PROVE  IsRunning(v) /\ objProcess'[engines[v]] = objProcess[engines[v]]
  <2>1. engines[v] # None /\ engines[v] \in Req /\ objProcess'[engines[v]] # None
    BY <1>1, <1>2, <1>10 DEF IsRunning, Types
  <2>2. engines[v] # r
    BY <1>1, <1>3, <1>10, <2>1 DEF EnginesInv, EntryInv
  <2> QED
    BY <1>8, <2>1, <2>2 DEF IsRunning
<1>11. RequestsInv'
  <2> SUFFICES ASSUME NEW e \in Req PROVE RequestInv(e)'
    BY DEF RequestsInv
  <2>1. RequestInv(e)
    BY <1>1 DEF RequestsInv
  <2>2. CASE e = r
    BY <1>3, <1>4, <1>5, <2>1, <2>2 DEF RequestInv, SameRequest
  <2>3. CASE e # r
    BY <1>4, <1>5, <2>1, <2>3 DEF RequestInv
  <2> QED
    BY <2>2, <2>3
<1>12. LocksInv'
  <2> SUFFICES ASSUME NEW e \in Req \ User PROVE Locked(e)'
    BY DEF LocksInv
  <2>1. Locked(e) /\ Queue(e)' = Queue(e)
    BY <1>1, <1>2, <1>4 DEF LocksInv, Queue, SameRequest
  <2> QED
    BY <1>2, <1>5, <2>1 DEF Locked, Inside
<1>13. \A e \in Req : EngineInv(e)'
  <2> SUFFICES ASSUME NEW e \in Req PROVE EngineInv(e)'
    OBVIOUS
  <2>1. EngineInv(e)
    BY <1>1 DEF EnginesInv
  <2>2. CASE e = r
    <3>1. engine'[e].state = "none" /\ ~Running(e)'
      BY <1>2, <1>6, <1>7, <2>2
    <3>2. /\ objProcess'[e] # None /\ objProcess'[e] = req'[e].target
          /\ req'[e].kind # "none"
      BY <1>3, <1>4, <1>8, <2>2 DEF SameRequest
    <3>3. /\ Stage(e)' \in {"reply", "release"}
          /\ Stage(e)' = "reply" => Tail(req'[e].todo) = <<"release">>
      BY <1>4, <1>5, <2>2
    <3> QED
      BY <3>1, <3>2, <3>3 DEF EngineInv
  <2>3. CASE e # r
    <3>1. /\ req'[e] = req[e] /\ Stage(e)' = Stage(e) /\ objProcess'[e] = objProcess[e]
          /\ engines' = engines /\ proc' = proc /\ engine' = engine
          /\ (Running(e)' <=> Running(e))
      BY <1>2, <1>4, <1>5, <1>6, <1>8, <2>3 DEF processVars
    <3>2. e \in listening' => e \in listening
      BY <1>2, <2>3
    <3> QED
      BY <2>1, <3>1, <3>2 DEF EngineInv
  <2> QED
    BY <2>2, <2>3
<1>14. \A v \in User : EntryInv(v)'
  <2> SUFFICES ASSUME NEW v \in User PROVE EntryInv(v)'
    OBVIOUS
  <2>1. EntryInv(v) /\ engines[v] \in Req \cup {None}
    BY <1>1 DEF EnginesInv, Types
  <2> QED
    BY <1>2, <1>4, <1>8, <2>1 DEF EntryInv, SameRequest
<1>15. ClearedInv'
  <2> SUFFICES ASSUME NEW q \in Req, HasKilled(q)', NEW v, v = req'[q].user
               PROVE  Cleared(v)'
    BY DEF ClearedInv
  <2>1. q # r /\ HasKilled(q) /\ req[q].user = v
    BY <1>4, <1>5 DEF HasKilled
  <2>2. Cleared(v) /\ v # u /\ v \in User
    BY <1>1, <1>9, <2>1, KindOfStage DEF ClearedInv, HasKilled, Acts
  <2>3. ASSUME NEW e \in Req, req'[e].user = v PROVE ~Running(e)'
    <3>1. req[e].user = v
      BY <1>4, <2>3 DEF SameRequest
    <3> QED
      BY <1>6, <2>2, <3>1 DEF Cleared
  <2>4. IsRunning(v)' => IsRunning(v) /\ objProcess'[engines'[v]] = objProcess[engines[v]]
    BY <1>2, <1>10, <2>2, SMTT(60)
  <2> QED
    BY <1>2, <2>2, <2>3, <2>4 DEF Cleared, Spared, processVars
<1>16. ASSUME NEW q \in Proc, NEW m \in Child, NEW i \in 1..Len(calls[q][m]),
             NEW d, d = calls[q][m][i]
      PROVE  CallInv(q, m, d)'
  <2>1. /\ d \in Call /\ d.req \in Req /\ d.user \in User /\ CallInv(q, m, d)
        /\ InCall(d.req)
    <3>1. d \in Call /\ d.req \in Req /\ CallInv(q, m, d) /\ InCall(d.req)
      BY <1>1, <1>16, CallsAre
    <3> QED
      BY <3>1 DEF Call
  <2>2. d.req # r /\ d.user # u
    BY <1>3, <1>9, <2>1 DEF Acts, CallInv
  <2>3. /\ req'[d.req] = req[d.req] /\ m <= proc'[q].spawned
        /\ Serving(proc'[q], m) => Serving(proc[q], m)
        /\ objProcess'[d.req] = objProcess[d.req]
        /\ engines'[d.user] = engines[d.user]
    BY <1>2, <1>4, <1>8, <2>1, <2>2 DEF CallInv, processVars
  <2>4. IsRunning(d.user)' =>
           IsRunning(d.user) /\ objProcess'[engines[d.user]] = objProcess[engines[d.user]]
    BY <1>10, <2>1, <2>2
  <2>5. \A e \in Req : req'[e].user = d.user /\ Running(e)' =>
           /\ req[e].user = d.user /\ Running(e)
           /\ engine'[e].proc = engine[e].proc /\ engine'[e].child = engine[e].child
    BY <1>2, <1>4, <1>6 DEF SameRequest
  <2> QED
    BY ONLY <1>16, <2>1, <2>3, <2>4, <2>5, KeptCall, ZenonT(120)
<1>17. ASSUME n # 0, Connected(proc[p], n), Send(p, n, c),
              Stage(r)' = "reply", Tail(req'[r].todo) = <<"release">>
       PROVE  /\ calls' \in [Proc -> [Child -> Seq(Call)]] /\ CallsInv'
             /\ \A x : InCall(x)' => InCall(x) \/ x = r
  <2>1. n \in Child /\ n <= proc[p].spawned
    <3>1. ObjectInv(proc[p])
      BY <1>1, <1>3 DEF ProcessInv
    <3>2. n \in 0..MaxSpawn /\ proc[p].spawned \in 0..MaxSpawn
      BY <3>1 DEF ObjectInv, Process
    <3>3. n \in Child
      BY <1>17, <3>2, ProcessAssumption, SMTT(60) DEF Child
    <3>4. ~(n > proc[p].spawned)
      BY <1>17, <3>1, <3>3 DEF ObjectInv, NotYetSpawned, Connected
    <3>5. n <= proc[p].spawned
      BY <3>2, <3>4, ProcessAssumption
    <3> QED
      BY <3>3, <3>5
  <2>2. c \in Call /\ c.op = "run" /\ c.req = r /\ c.user = u /\ c.awaited
    BY <1>3 DEF Call
  <2>3. CallInv(p, n, c)'
    <3>1. /\ req'[r].user = u /\ Tail(req'[r].todo) = <<"release">>
          /\ n <= proc'[p].spawned /\ objProcess'[r] = p /\ engines'[u] = r
      BY <1>2, <1>3, <1>4, <1>8, <1>17, <2>1 DEF SameRequest, processVars
    <3> QED
      BY <1>17, <2>2, <3>1, SMTT(60) DEF CallInv
  <2>4. /\ calls' \in [Proc -> [Child -> Seq(Call)]] /\ CallsInv'
        /\ \A x : InCall(x)' => InCall(x) \/ x = c.req
    <3>1. /\ ManagerInv /\ p \in Proc /\ n \in Child /\ c \in Call /\ Send(p, n, c)
          /\ ~InCall(c.req)
      BY <1>3, <1>17, <2>1, <2>2
    <3>2. \A q \in Proc, m \in Child : \A i \in 1..Len(calls[q][m]) :
              \A d : d = calls[q][m][i] => CallInv(q, m, d)'
      BY <1>16
    <3> QED
      BY ONLY <3>1, <3>2, <2>3, CallMade
  <2> QED
    BY <2>2, <2>4
<1>18. ASSUME calls' = calls
       PROVE  /\ calls' \in [Proc -> [Child -> Seq(Call)]] /\ CallsInv'
             /\ \A x : InCall(x)' => InCall(x) \/ x = r
  <2>1. calls' \in [Proc -> [Child -> Seq(Call)]] /\ OneCallEach'
    BY <1>1, <1>18 DEF Types, CallsInv, OneCallEach
  <2>2. \A x : InCall(x)' => InCall(x)
    BY <1>18 DEF InCall
  <2>3. ASSUME NEW q \in Proc, NEW m \in Child, NEW i \in 1..Len(calls'[q][m]),
               NEW d, d = calls'[q][m][i]
        PROVE  CallInv(q, m, d)'
    BY <1>16, <1>18, <2>3
  <2> QED
    BY <2>1, <2>2, <2>3 DEF CallsInv, OneCallEach
<1>19. /\ calls' \in [Proc -> [Child -> Seq(Call)]] /\ CallsInv'
       /\ \A x : InCall(x)' => InCall(x) \/ x = r
  BY <1>4, <1>17, <1>18
<1>20. StartInv'
  <2>1. (bootLeft # {} => booted)'
    BY <1>1, <1>2 DEF StartInv
  <2> SUFFICES ASSUME NEW v \in User PROVE AtStart(v)'
    BY <2>1 DEF StartInv
  <2>2. AtStart(v)
    BY <1>1 DEF StartInv
  <2>3. Stage(v)' = "process" \/ InCall(v)' => Stage(v) = "process" \/ InCall(v)
    BY <1>2, <1>5, <1>19, Names
  <2>4. \A e \in Req : req'[e].user = req[e].user
    BY <1>4 DEF SameRequest
  <2> QED
    BY <1>2, <2>2, <2>3, <2>4 DEF AtStart
<1>21. SeparateInv'
  <2> SUFFICES ASSUME NEW q \in Proc \ SharedProc PROVE Alone(q)'
    BY DEF SeparateInv
  <2>1. Alone(q)
    BY <1>1 DEF SeparateInv
  <2>2. \A e \in Req : Stage(e)' = "process" => Stage(e) = "process" /\ req'[e] = req[e]
    BY <1>4, <1>5
  <2>3. proc' = proc /\ (Spared' <=> Spared)
    BY <1>2, SMTT(60) DEF Spared, processVars
  <2>4. q = p => /\ a = 1 /\ proc[q].attempt[1] = "ready"
                 /\ proc[q].os[1] \notin {"none", "booting"}
                 /\ ~Spared => ~proc[q].hadExit
    <3> SUFFICES ASSUME q = p
                 PROVE  /\ a = 1 /\ proc[q].attempt[1] = "ready"
                        /\ proc[q].os[1] \notin {"none", "booting"}
                        /\ ~Spared => ~proc[q].hadExit
      BY SMTT(60)
    <3>1. a = 1
      BY <1>2, <2>1 DEF Alone
    <3>2. ObjectInv(proc[q])
      BY <1>1 DEF ProcessInv
    <3>3. proc[q].attempt[1] \in {"pending", "ready", "failed"} /\ 1 \in Child
      BY <3>2, ProcessAssumption, SMTT(60) DEF ObjectInv, Process, Attempt, Child
    <3>4. proc[q].attempt[1] = "ready"
      BY <1>2, <3>1, <3>3 DEF Settled
    <3>5. proc[q].os[1] \notin {"none", "booting"}
      BY <3>2, <3>3, <3>4 DEF ObjectInv, BootingPending
    <3> QED
      BY <1>2, <2>1, <3>1, <3>4, <3>5 DEF Alone
  <2>5. ASSUME NEW e \in listening', objProcess'[e] = q, q # p
        PROVE  e \in listening /\ objProcess[e] = q
    <3>1. e \in Req /\ (e = r \/ e \in listening)
      BY <1>1, <1>2, <2>5 DEF Types
    <3> QED
      BY <1>8, <2>5, <3>1
  <2>6. \A e \in Req : objProcess'[e] = q => (q = p \/ objProcess[e] = q)
    BY <1>8
  <2> QED
    BY <2>1, <2>2, <2>3, <2>4, <2>5, <2>6 DEF Alone
<1>22. Types'
  BY <1>1, <1>2, <1>4, <1>8, <1>19 DEF Types
<1>23. ProcessInv' /\ OneAtATime'
  <2>1. ProcessInv'
    BY <1>1, <1>2, StepInv
  <2> QED
    BY <1>2, <2>1 DEF ManagerInv, OneAtATime
<1> QED
  BY <1>11, <1>12, <1>13, <1>14, <1>15, <1>19, <1>20, <1>21, <1>22, <1>23
     DEF ManagerInv, EnginesInv

LEMMA ProcessFoundInv ==
    ASSUME ManagerInv, NEW r \in Req, ProcessFound(r)
    PROVE  ManagerInv'
<1> DEFINE p == req[r].target
           a == req[r].attempt
<1>1. CASE a # 0 /\ proc[p].attempt[a] = "failed"
  <2>1. /\ Stage(r) = "process" /\ Fail(r) /\ UNCHANGED <<objProcess, listening, calls>>
        /\ UNCHANGED <<processVars, engines, locks, nextProcess, restarts,
                       engine, row, booted, bootLeft, scene>>
    BY <1>1 DEF ProcessFound, Job
  <2>2. /\ req' \in [Req -> Request]
        /\ \A e \in Req : SameRequest(e) /\ (e # r => req'[e] = req[e])
        /\ Ordered(req'[r].todo) /\ Stage(r)' = "release"
    BY <2>1, ToRelease
  <2> QED
    BY <2>1, <2>2, WaitingStep DEF HasKilled
<1>2. CASE ~(a # 0 /\ proc[p].attempt[a] = "failed")
  BY <1>2, ProcessFoundLiveInv
<1> QED
  BY <1>1, <1>2

LEMMA HandledLater ==
    ASSUME NEW r, ObjectInv(r), NEW a, NEW b
    PROVE  LET s == [r EXCEPT !.handled[a] = b]
           IN  Later(r, s) /\ NoNewChild(r, s) /\ s.hadExit = r.hadExit
<1> DEFINE s == [r EXCEPT !.handled[a] = b]
<1>0. r \in Process /\ r.spawned \in Nat
  BY DEF ObjectInv, Process
<1>1. /\ s.spawned = r.spawned /\ s.child = r.child /\ s.os = r.os /\ s.asked = r.asked
      /\ s.attempt = r.attempt /\ s.hadExit = r.hadExit
  BY <1>0 DEF Process
<1> HIDE DEF s
<1>2. Later(r, s) /\ NoNewChild(r, s)
  BY <1>0, <1>1 DEF Later, NoNewChild, Serving, Connected
<1> QED
  BY <1>1, <1>2 DEF s

LEMMA ProcessesInTurn ==
    ASSUME Types
    PROVE  /\ RoundRobin[nextProcess] \in SharedProc
           /\ NextProcess \in 1..Len(RoundRobin)
<1>1. RoundRobin \in Seq(SharedProc) /\ Len(RoundRobin) \in Nat \ {0}
  BY ManagerAssumption
<1>2. nextProcess \in 1..Len(RoundRobin) /\ nextProcess \in Nat
  BY <1>1 DEF Types
<1>3. RoundRobin[nextProcess] \in SharedProc
  BY <1>1, <1>2
<1>4. \A m \in Nat, k \in Nat \ {0} : (m % k) + 1 \in 1..k
  OBVIOUS
<1> QED
  BY <1>1, <1>2, <1>3, <1>4 DEF NextProcess

\* A process is chosen for the new entry: a shared one, whose start is from
\* now on waited for, or one of the user's own, which is started.
LEMMA ProcessChosen ==
    ASSUME ManagerInv, NEW r \in Req, NEW q, NEW u \in User, u = q.user, RunUser(r, q)
    PROVE  /\ ProcessInv' /\ ObjectsLater /\ stopped' = stopped
           /\ engines' = [engines EXCEPT ![u] = r]
           /\ nextProcess' \in 1..Len(RoundRobin)
           /\ \E t \in SharedProc \cup {r}, a \in 0..MaxSpawn + 1 :
                 /\ req' = [req EXCEPT ![r] = [q EXCEPT !.target = t, !.attempt = a]]
                 /\ t = r => /\ a = 1 /\ proc[r].spawned = 0
                             /\ Set(r, Started(proc[r]))
                 /\ t # r => \A p \in Proc \ SharedProc : proc'[p] = proc[p]
<1>1. Types /\ ProcessInv /\ r \in Proc /\ r \notin SharedProc
  BY Names DEF ManagerInv
<1>2. engines' = [engines EXCEPT ![u] = r]
  BY DEF RunUser
<1>3. CASE row[u] = "shared"
  <2> DEFINE t == RoundRobin[nextProcess]
             a == proc[t].starting
  <2>1. /\ nextProcess' = NextProcess
        /\ req' = [req EXCEPT ![r] = [q EXCEPT !.target = t, !.attempt = a]]
        /\ IF a = 0 THEN UNCHANGED processVars ELSE WaitReady(t)
    BY <1>3 DEF RunUser
  <2>2. t \in SharedProc /\ t \in Proc /\ t # r /\ nextProcess' \in 1..Len(RoundRobin)
    BY <1>1, <2>1, ProcessesInTurn, Names
  <2> HIDE DEF t
  <2>3. ObjectInv(proc[t]) /\ a \in 0..MaxSpawn + 1
    BY <1>1, <2>2 DEF ProcessInv, ObjectInv, Process
  <2>4. CASE a = 0
    <3>1. UNCHANGED processVars
      BY <2>1, <2>4
    <3>2. ProcessInv'
      BY <1>1, <3>1, StepInv
    <3>3. ObjectsLater
      BY <1>1, <3>1, LaterItself DEF ProcessInv, TypeOK, ObjectsLater, processVars
    <3> QED
      BY <1>2, <2>1, <2>2, <2>3, <3>1, <3>2, <3>3 DEF processVars
  <2>5. CASE a # 0
    <3> DEFINE b == proc[t].handled[a] \/ proc[t].delaying
               s == [proc[t] EXCEPT !.handled[a] = b]
    <3>1. WaitReady(t) /\ Set(t, s) /\ stopped' = stopped
      BY <2>1, <2>5 DEF WaitReady
    <3>2. ProcessInv'
      BY <1>1, <2>2, <3>1, ObjectStepInv
    <3>3. Later(proc[t], s)
      BY <2>3, HandledLater
    <3> HIDE DEF b, s
    <3>4. ObjectsLater /\ \A p \in Proc : proc'[p] = IF p = t THEN s ELSE proc[p]
      BY <1>1, <2>2, <3>1, <3>3, SetLater
    <3>5. \A p \in Proc \ SharedProc : proc'[p] = proc[p]
      BY <2>2, <3>4
    <3> QED
      BY <1>2, <2>1, <2>2, <2>3, <3>1, <3>2, <3>4, <3>5
  <2> QED
    BY <2>4, <2>5
<1>4. CASE row[u] # "shared"
  <2>1. /\ StartSeparate(r) /\ UNCHANGED nextProcess
        /\ req' = [req EXCEPT ![r] = [q EXCEPT !.target = r, !.attempt = 1]]
    BY <1>4 DEF RunUser
  <2>2. /\ proc[r].spawned = 0 /\ Set(r, Started(proc[r])) /\ stopped' = stopped
    BY <2>1 DEF StartSeparate
  <2>3. ObjectInv(proc[r]) /\ proc[r].spawned < MaxSpawn
    BY <1>1, <2>2, ProcessAssumption DEF ProcessInv
  <2>4. Later(proc[r], Started(proc[r])) /\ NoNewChild(proc[r], Started(proc[r]))
    BY <2>2, <2>3, StartedLater
  <2>5. ObjectsLater
    BY <1>1, <2>2, <2>4, SetLater
  <2>6. ProcessInv'
    BY <1>1, <2>1, ObjectStepInv
  <2>7. 1 \in 0..MaxSpawn + 1 /\ nextProcess' \in 1..Len(RoundRobin)
    BY <1>1, <2>1, ProcessAssumption DEF Types
  <2> QED
    BY <1>2, <2>1, <2>2, <2>5, <2>6, <2>7
<1> QED
  BY <1>3, <1>4

\* _runUser for a user who has no running engine and for whom nobody else
\* acts: his new entry has no process yet.
LEMMA RunUserInv ==
    ASSUME ManagerInv, NEW r \in Req, NEW u \in User, NEW q \in Request, u = q.user,
           RunUser(r, q),
           q.kind \notin {"none", "deleteUser"}, q.todo # <<>>, Ordered(q.todo),
           Head(q.todo) = "process",
           q.lock = IF r \in User THEN 0 ELSE 1,
           r \in User => u = r /\ \A e \in Req \ {r} : req[e].user # r,
           r \in User => restarts[r] = 0,
           r \notin User => Inside(r) /\ req[r].lock = 1 /\ req[r].user = u,
           req[r].user = u \/ (req[r].user = None /\ r = u),
           objProcess[r] = None, ~InCall(r), Cleared(u),
           \A e \in Req : e # r /\ Acts(e) => req[e].user # u,
           booted, bootLeft' \subseteq bootLeft, u \notin bootLeft',
           UNCHANGED <<objProcess, listening, locks, restarts, calls, engine, row,
                       booted, scene>>
    PROVE  ManagerInv'
<1>1. /\ Types /\ RequestsInv /\ LocksInv /\ EnginesInv /\ ProcessInv /\ CallsInv
      /\ ClearedInv /\ StartInv /\ SeparateInv
  BY DEF ManagerInv
<1>2. /\ ProcessInv' /\ ObjectsLater /\ stopped' = stopped
      /\ engines' = [engines EXCEPT ![u] = r]
      /\ nextProcess' \in 1..Len(RoundRobin)
      /\ \E t \in SharedProc \cup {r}, a \in 0..MaxSpawn + 1 :
            /\ req' = [req EXCEPT ![r] = [q EXCEPT !.target = t, !.attempt = a]]
            /\ t = r => /\ a = 1 /\ proc[r].spawned = 0
                        /\ Set(r, Started(proc[r]))
            /\ t # r => \A p \in Proc \ SharedProc : proc'[p] = proc[p]
  BY ONLY ManagerInv, r \in Req, u \in User, u = q.user, RunUser(r, q), ProcessChosen
<1>3. PICK t \in SharedProc \cup {r}, a \in 0..MaxSpawn + 1 :
            /\ req' = [req EXCEPT ![r] = [q EXCEPT !.target = t, !.attempt = a]]
            /\ t = r => /\ a = 1 /\ proc[r].spawned = 0
                        /\ Set(r, Started(proc[r]))
            /\ t # r => \A p \in Proc \ SharedProc : proc'[p] = proc[p]
  BY <1>2
<1>4. t \in Proc /\ r \in Proc /\ r \notin SharedProc /\ r # None /\ t # None
  BY Names
<1> DEFINE new == [q EXCEPT !.target = t, !.attempt = a]
<1>5. /\ new \in Request /\ new.kind = q.kind /\ new.user = u /\ new.todo = q.todo
      /\ new.lock = q.lock /\ new.target = t /\ new.attempt = a
  BY <1>4 DEF Request
<1> HIDE DEF new
<1>6. /\ req' \in [Req -> Request] /\ req'[r] = new
      /\ \A e \in Req : e # r => req'[e] = req[e]
  BY <1>1, <1>3, <1>5 DEF Types, new
<1>7. Stage(r)' = "process" /\ \A e \in Req : e # r => Stage(e)' = Stage(e)
  BY <1>5, <1>6 DEF Stage
<1>8. /\ engines'[u] = r /\ \A v \in User : v # u => engines'[v] = engines[v]
      /\ engines' \in [User -> Req \cup {None}]
  BY <1>1, <1>2 DEF Types
<1>9. \A p \in Proc, n \in Child : n <= proc[p].spawned =>
          /\ Serving(proc'[p], n) => Serving(proc[p], n)
          /\ n <= proc'[p].spawned
  <2> TAKE p \in Proc, n \in Child
  <2>1. Later(proc[p], proc'[p])
    BY <1>2 DEF ObjectsLater
  <2>2. proc[p].spawned \in 0..MaxSpawn /\ proc'[p].spawned \in 0..MaxSpawn
    BY <1>1, <1>2 DEF ProcessInv, ObjectInv, Process
  <2>3. proc[p].spawned <= proc'[p].spawned
    BY <2>1 DEF Later
  <2>4. n <= proc[p].spawned => n <= proc'[p].spawned
    BY <2>2, <2>3, ProcessAssumption DEF Child
  <2> QED
    BY <2>1, <2>4 DEF Later
<1>10. ASSUME NEW e \in Req, Running(e)'
       PROVE  Running(e)
  <2>1. /\ engine'[e] = engine[e] /\ engine[e].state # "none"
    BY <1>10 DEF Running
  <2>2. /\ engine[e].proc \in Proc /\ engine[e].child \in Child
        /\ engine[e].child <= proc[engine[e].proc].spawned
    BY <1>1, <2>1 DEF EnginesInv, EngineInv
  <2> QED
    BY <1>9, <1>10, <2>1, <2>2 DEF Running
<1>11. ASSUME NEW e \in Req, Running(e)
       PROVE  req[e].user # u /\ e # r
  <2>1. engine[e].state # "none" /\ objProcess[e] # None
    BY <1>1, <1>11 DEF EnginesInv, EngineInv, Running
  <2> QED
    BY <1>11, <2>1 DEF Cleared
<1>12. \A v \in User : engines[v] = r => v = u
  BY <1>1, <1>4, Names DEF EnginesInv, EntryInv
<1>13. RequestsInv'
  <2> SUFFICES ASSUME NEW e \in Req PROVE RequestInv(e)'
    BY DEF RequestsInv
  <2>1. RequestInv(e)
    BY <1>1 DEF RequestsInv
  <2>2. CASE e = r
    <3>1. Ordered(req'[e].todo) /\ req'[e].kind \notin {"none", "deleteUser"}
      BY <1>5, <1>6, <2>2
    <3>2. req'[e].user \in User /\ req'[e].target \in SharedProc \cup {e, None}
      BY <1>5, <1>6, <2>2
    <3>3. e \in User => /\ req'[e].user \in {None, e} /\ req'[e].lock = 0
                        /\ Stage(e)' \in {"none", "process", "reply", "release"}
      BY <1>5, <1>6, <1>7, <2>2
    <3>4. e \notin User => req'[e].lock = 1
      BY <1>5, <1>6, <2>2
    <3> QED
      BY <3>1, <3>2, <3>3, <3>4 DEF RequestInv
  <2>3. CASE e # r
    BY <1>6, <1>7, <2>1, <2>3 DEF RequestInv
  <2> QED
    BY <2>2, <2>3
<1>14. LocksInv'
  <2> SUFFICES ASSUME NEW e \in Req \ User PROVE Locked(e)'
    BY DEF LocksInv
  <2>1. Locked(e)
    BY <1>1 DEF LocksInv
  <2>2. Queue(e)' = Queue(e)
    BY <1>5, <1>6 DEF Queue
  <2>3. CASE e = r
    BY <1>7, <2>1, <2>2, <2>3 DEF Locked, Inside
  <2>4. CASE e # r
    BY <1>7, <2>1, <2>2, <2>4 DEF Locked, Inside
  <2> QED
    BY <2>3, <2>4
<1>15. \A e \in Req : EngineInv(e)'
  <2> SUFFICES ASSUME NEW e \in Req PROVE EngineInv(e)'
    OBVIOUS
  <2>1. EngineInv(e)
    BY <1>1 DEF EnginesInv
  <2>2. CASE e = r
    <3>1. engine'[e].state = "none" /\ ~Running(e)' /\ objProcess'[e] = None /\ e \notin listening'
      BY <2>1, <2>2 DEF EngineInv, Running
    <3>2. engines'[req'[e].user] = e /\ req'[e].target \in Proc
      BY <1>4, <1>5, <1>6, <1>8, <2>2
    <3> QED
      BY <3>1, <3>2 DEF EngineInv
  <2>3. CASE e # r
    <3>1. req'[e] = req[e] /\ Stage(e)' = Stage(e)
      BY <1>6, <1>7, <2>3
    <3>2. engine[e].state # "none" =>
             /\ engine[e].proc \in Proc /\ engine[e].child \in Child
             /\ engine[e].child <= proc'[engine[e].proc].spawned
             /\ objProcess[e] # None
      BY <1>9, <2>1 DEF EngineInv
    <3>3. Running(e)' => /\ engine[e].state = "mapped"
                         /\ engines'[req[e].user] = e /\ objProcess[e] = engine[e].proc
      <4> SUFFICES ASSUME Running(e)' PROVE /\ engine[e].state = "mapped"
                         /\ engines'[req[e].user] = e /\ objProcess[e] = engine[e].proc
        OBVIOUS
      <4>1. Running(e) /\ req[e].user # u
        BY <1>10, <1>11
      <4>2. /\ engine[e].state = "mapped" /\ engines[req[e].user] = e
            /\ objProcess[e] = engine[e].proc /\ req[e].kind # "none"
        BY <2>1, <4>1 DEF EngineInv, Running
      <4>3. req[e].user \in User
        BY <1>1, <4>2 DEF RequestsInv, RequestInv
      <4> QED
        BY <1>8, <4>1, <4>2, <4>3
    <3>4. Stage(e) = "process" =>
             engines'[req[e].user] = e /\ objProcess[e] = None /\ req[e].target \in Proc
      <4> SUFFICES ASSUME Stage(e) = "process"
                   PROVE  engines'[req[e].user] = e /\ objProcess[e] = None /\ req[e].target \in Proc
        OBVIOUS
      <4>1. Acts(e) /\ req[e].user \in User
        BY <1>1, KindOfStage DEF Acts
      <4>2. req[e].user # u
        BY <2>3, <4>1
      <4>3. engines[req[e].user] = e /\ objProcess[e] = None /\ req[e].target \in Proc
        BY <2>1 DEF EngineInv
      <4> QED
        BY <1>8, <4>1, <4>2, <4>3
    <3> QED
      BY <2>1, <3>1, <3>2, <3>3, <3>4 DEF EngineInv
  <2> QED
    BY <2>2, <2>3
<1>16. \A v \in User : EntryInv(v)'
  <2> SUFFICES ASSUME NEW v \in User PROVE EntryInv(v)'
    OBVIOUS
  <2>1. CASE v = u
    BY <1>5, <1>6, <1>8, <2>1 DEF EntryInv
  <2>2. CASE v # u
    <3>1. EntryInv(v) /\ engines[v] \in Req \cup {None} /\ engines'[v] = engines[v]
      BY <1>1, <1>8, <2>2 DEF EnginesInv, Types
    <3>2. engines[v] # r
      BY <1>12, <2>2
    <3> QED
      BY <1>6, <3>1, <3>2 DEF EntryInv
  <2> QED
    BY <2>1, <2>2
<1>17. ClearedInv'
  <2> SUFFICES ASSUME NEW x \in Req, HasKilled(x)', NEW v, v = req'[x].user
               PROVE  Cleared(v)'
    BY DEF ClearedInv
  <2>1. x # r /\ HasKilled(x) /\ req[x].user = v
    BY <1>6, <1>7 DEF HasKilled
  <2>2. Cleared(v) /\ v # u /\ v \in User
    BY <1>1, <2>1, KindOfStage DEF ClearedInv, HasKilled, Acts
  <2>3. ASSUME NEW e \in Req, req'[e].user = v PROVE ~Running(e)'
    <3>1. req[e].user = v
      BY <1>5, <1>6, <2>2, <2>3
    <3> QED
      BY <1>10, <2>2, <3>1 DEF Cleared
  <2>4. IsRunning(v)' => /\ Spared' /\ objProcess'[engines'[v]] \notin SharedProc
                         /\ proc'[objProcess'[engines'[v]]].child = 0
    <3> SUFFICES ASSUME IsRunning(v)'
                 PROVE  /\ Spared' /\ objProcess'[engines'[v]] \notin SharedProc
                        /\ proc'[objProcess'[engines'[v]]].child = 0
      OBVIOUS
    <3> DEFINE e == engines[v]
               p == objProcess[e]
    <3>1. engines'[v] = e /\ objProcess' = objProcess /\ IsRunning(v) /\ e \in Req
      BY <1>1, <1>8, <2>2 DEF IsRunning, Types
    <3>2. Spared' /\ p \notin SharedProc /\ proc[p].child = 0 /\ p \in Proc
      BY <1>1, <1>2, <2>2, <3>1 DEF Cleared, Spared, IsRunning, Types
    <3>3. proc[p].os[1] # "none"
      BY <1>1, <3>1, <3>2, SMTT(60) DEF SeparateInv, Alone
    <3>4. proc[p].spawned # 0
      <4>1. ObjectInv(proc[p])
        BY <1>1, <3>2 DEF ProcessInv
      <4>2. 1 \in Child /\ 1 > 0
        BY ProcessAssumption DEF Child
      <4> QED
        BY <3>3, <4>1, <4>2, Zenon DEF ObjectInv, NotYetSpawned
    <3>5. NoNewChild(proc[p], proc'[p])
      BY <1>2, <3>2 DEF ObjectsLater
    <3>6. proc'[p].child = 0
      BY <3>2, <3>4, <3>5 DEF NoNewChild
    <3> QED
      BY <3>1, <3>2, <3>6
  <2> QED
    BY <2>3, <2>4 DEF Cleared
<1>18. StartInv'
  <2>1. (bootLeft # {} => booted)'
    OBVIOUS
  <2> SUFFICES ASSUME NEW v \in User PROVE AtStart(v)'
    BY <2>1 DEF StartInv
  <2>2. AtStart(v)
    BY <1>1 DEF StartInv
  <2>3. v \in bootLeft' => engines'[v] = None /\ restarts'[v] = 0 /\ \A e \in Req : req'[e].user # v
    <3> SUFFICES ASSUME v \in bootLeft'
                 PROVE  engines'[v] = None /\ restarts'[v] = 0 /\ \A e \in Req : req'[e].user # v
      OBVIOUS
    <3>1. v # u /\ v \in bootLeft
      OBVIOUS
    <3> QED
      BY <1>5, <1>6, <1>8, <2>2, <3>1 DEF AtStart
  <2>4. ASSUME Stage(v)' = "process" \/ InCall(v)'
        PROVE  restarts'[v] = 0 /\ \A e \in Req \ {v} : req'[e].user # v
    <3>1. CASE v = r
      BY <1>6, <3>1
    <3>2. CASE v # r
      <4>1. Stage(v) = "process" \/ InCall(v)
        BY <1>7, <2>4, <3>2, Names DEF InCall
      <4>2. restarts[v] = 0 /\ \A e \in Req \ {v} : req[e].user # v
        BY <2>2, <4>1 DEF AtStart
      <4>3. u # v
        BY <3>2, <4>2
      <4> QED
        BY <1>5, <1>6, <4>2, <4>3
    <3> QED
      BY <3>1, <3>2
  <2> QED
    BY <2>3, <2>4 DEF AtStart
<1>19. CallsInv'
  <2>1. ASSUME NEW x \in Proc, NEW m \in Child, NEW i \in 1..Len(calls'[x][m]),
               NEW d, d = calls'[x][m][i]
        PROVE  CallInv(x, m, d)'
    <3>1. /\ d \in Call /\ d.req \in Req /\ d.user \in User /\ CallInv(x, m, d)
          /\ InCall(d.req)
      <4>1. i \in 1..Len(calls[x][m]) /\ d = calls[x][m][i]
        BY <2>1
      <4>2. d \in Call /\ d.req \in Req /\ CallInv(x, m, d) /\ InCall(d.req)
        BY <1>1, <4>1, CallsAre
      <4> QED
        BY <4>2 DEF Call
    <3>2. d.req # r /\ d.user # u
      <4>1. d.req # r
        BY <3>1
      <4>2. Acts(d.req) /\ d.user = req[d.req].user
        BY <3>1 DEF Acts, CallInv
      <4> QED
        BY <3>1, <4>1, <4>2
    <3>3. /\ req'[d.req] = req[d.req] /\ m <= proc'[x].spawned
          /\ Serving(proc'[x], m) => Serving(proc[x], m)
          /\ objProcess'[d.req] = objProcess[d.req]
          /\ engines'[d.user] = engines[d.user]
      BY <1>6, <1>8, <1>9, <3>1, <3>2 DEF CallInv
    <3>4. IsRunning(d.user)' =>
             IsRunning(d.user) /\ objProcess'[engines[d.user]] = objProcess[engines[d.user]]
      BY <3>3 DEF IsRunning
    <3>5. \A e \in Req : req'[e].user = d.user /\ Running(e)' =>
             /\ req[e].user = d.user /\ Running(e)
             /\ engine'[e].proc = engine[e].proc /\ engine'[e].child = engine[e].child
      BY <1>5, <1>6, <1>10, <3>2
    <3> QED
      BY ONLY <2>1, <3>1, <3>3, <3>4, <3>5, KeptCall, ZenonT(120)
  <2> QED
    BY <1>1, <2>1, SMTT(60) DEF CallsInv
<1>20. SeparateInv'
  <2> SUFFICES ASSUME NEW p \in Proc \ SharedProc PROVE Alone(p)'
    BY DEF SeparateInv
  <2>1. Alone(p) /\ ObjectInv(proc[p]) /\ (Spared' <=> Spared)
    BY <1>1, <1>2 DEF SeparateInv, ProcessInv, Spared
  <2>2. ASSUME NEW e \in Req, Stage(e)' = "process", req'[e].target = p, e # r
        PROVE  Stage(e) = "process" /\ req[e].target = p /\ p = e
    <3>1. Stage(e) = "process" /\ req[e].target = p
      BY <1>6, <1>7, <2>2
    <3> QED
      BY <1>1, <3>1, Names DEF RequestsInv, RequestInv
  <2>3. req'[r].target = p => t = r /\ p = r
    BY <1>5, <1>6
  <2>4. CASE t = r /\ p = r
    <3>1. /\ a = 1 /\ proc[r].spawned = 0 /\ proc'[p] = Started(proc[r])
          /\ proc[r] \in Process /\ 0 < MaxSpawn
      BY <1>1, <1>3, <2>4, ProcessAssumption DEF Set, ProcessInv, TypeOK
    <3>2. /\ proc'[p].attempt = proc[r].attempt /\ proc'[p].hadExit = proc[r].hadExit
          /\ proc'[p].spawned = 1
      <4> DEFINE s == Started(proc[r])
      <4>1. s.attempt = proc[r].attempt /\ s.hadExit = proc[r].hadExit /\ s.spawned = proc[r].spawned + 1
        BY <3>1, StartedFields
      <4>2. proc'[p] = s
        BY <3>1
      <4> HIDE DEF s
      <4> QED
        BY <3>1, <4>1, <4>2
    <3>3. /\ ~proc[r].hadExit /\ proc[r].os[1] = "none"
          /\ proc[r].attempt[1] = "pending"
      <4>1. 1 \in Child /\ 1 > 0
        BY ProcessAssumption DEF Child
      <4> QED
        BY <2>1, <2>4, <3>1, <4>1 DEF Alone, ObjectInv, NotYetSpawned, BootingPending
    <3>4. \A e \in Req : objProcess'[e] # p
      BY <2>1, <2>4, <3>3 DEF Alone
    <3>5. \A e \in listening' : objProcess'[e] # p
      BY <1>1, <3>4 DEF Types
    <3>6. \A e \in Req : Stage(e)' = "process" /\ req'[e].target = p => e = r /\ req'[e].attempt = 1
      BY <1>5, <1>6, <2>2, <2>4, <3>1
    <3> QED
      BY <3>2, <3>3, <3>4, <3>5, <3>6 DEF Alone
  <2>5. CASE ~(t = r /\ p = r)
    <3>1. proc'[p] = proc[p]
      <4>1. CASE t # r
        BY <1>3, <4>1
      <4>2. CASE t = r /\ p # r
        BY <1>1, <1>3, <4>2 DEF Set, ProcessInv, TypeOK
      <4> QED
        BY <2>5, <4>1, <4>2
    <3>2. \A e \in Req : Stage(e)' = "process" /\ req'[e].target = p =>
             Stage(e) = "process" /\ req[e].target = p /\ req'[e] = req[e]
      BY <1>6, <2>2, <2>3, <2>5
    <3> QED
      BY <2>1, <3>1, <3>2 DEF Alone
  <2> QED
    BY <2>4, <2>5
<1>21. Types'
  <2>1. bootLeft' \subseteq User
    BY <1>1 DEF Types
  <2> QED
    BY <1>1, <1>2, <1>6, <1>8, <2>1 DEF Types
<1>22. ProcessInv' /\ OneAtATime'
  BY <1>2 DEF ManagerInv, OneAtATime
<1> QED
  BY <1>13, <1>14, <1>15, <1>16, <1>17, <1>18, <1>19, <1>20, <1>21, <1>22
     DEF ManagerInv, EnginesInv

LEMMA RowFoundInv ==
    ASSUME ManagerInv, NEW r \in Req, RowFound(r)
    PROVE  ManagerInv'
<1> DEFINE u == req[r].user
<1>1. /\ Types /\ RequestsInv /\ EnginesInv /\ CallsInv /\ ClearedInv /\ StartInv
      /\ Stage(r) = "row" /\ bootLeft = {}
      /\ UNCHANGED <<objProcess, listening, locks, restarts, calls, engine, row,
                     booted, bootLeft, scene>>
  BY DEF ManagerInv, RowFound, Quiet
<1>2. CASE row[u] = "absent"
  <2>1. Fail(r) /\ UNCHANGED <<processVars, engines, nextProcess>>
    BY <1>2 DEF RowFound
  <2>2. /\ req' \in [Req -> Request]
        /\ \A e \in Req : SameRequest(e) /\ (e # r => req'[e] = req[e])
        /\ Ordered(req'[r].todo) /\ Stage(r)' = "release"
    BY <2>1, ToRelease
  <2> QED
    BY <1>1, <2>1, <2>2, WaitingStep DEF HasKilled
<1>3. CASE row[u] # "absent"
  <2> DEFINE q == [req[r] EXCEPT !.todo = Tail(@)]
  <2>1. RunUser(r, q)
    BY <1>3 DEF RowFound
  <2>2. /\ req[r].kind # "none" /\ u \in User /\ r \notin User /\ req[r].lock = 1
        /\ req[r].kind # "deleteUser"
    BY <1>1, KindOfStage DEF RequestsInv, RequestInv
  <2>3. LET t == req[r].todo
        IN  /\ Tail(t) \in Seq(ManagerStage) /\ Ordered(Tail(t)) /\ Tail(t) # <<>>
            /\ Head(Tail(t)) = "process"
    <3>1. LET t == req[r].todo
          IN  /\ t \in Seq(ManagerStage) /\ t # <<>> /\ Ordered(t) /\ Head(t) = "row"
      BY <1>1, Todo
    <3>2. LET t == req[r].todo
          IN  /\ Tail(t) \in Seq(ManagerStage) /\ Ordered(Tail(t)) /\ Tail(t) # <<>>
              /\ <<"row", Head(Tail(t))>> \in Follows
      BY <3>1, OrderedTail
    <3> QED
      BY <3>2 DEF Follows
  <2>4. req[r] \in Request
    BY <1>1 DEF Types
  <2>5. /\ q \in Request /\ u = q.user /\ q.kind = req[r].kind /\ q.lock = 1
        /\ q.todo = Tail(req[r].todo)
    BY <2>2, <2>3, <2>4 DEF Request
  <2> HIDE DEF q
  <2>6. /\ q.kind \notin {"none", "deleteUser"} /\ q.todo # <<>> /\ Ordered(q.todo)
        /\ Head(q.todo) = "process" /\ q.lock = IF r \in User THEN 0 ELSE 1
    BY <2>2, <2>3, <2>5
  <2>7. /\ r \in User => u = r /\ \A e \in Req \ {r} : req[e].user # r
        /\ r \in User => restarts[r] = 0
        /\ r \notin User => Inside(r) /\ req[r].lock = 1 /\ req[r].user = u
        /\ req[r].user = u \/ (req[r].user = None /\ r = u)
    BY <1>1, <2>2 DEF Inside
  <2>8. objProcess[r] = None /\ ~InCall(r) /\ Cleared(u)
    BY <1>1, InCallReplies DEF EnginesInv, EngineInv, ClearedInv, HasKilled
  <2>9. \A e \in Req : e # r /\ Acts(e) => req[e].user # u
    <3>1. Acts(r)
      BY <1>1 DEF Acts
    <3> QED
      BY <3>1, OneActs
  <2>10. booted /\ bootLeft' \subseteq bootLeft /\ u \notin bootLeft'
    BY <1>1, <2>2 DEF StartInv, AtStart
  <2>11. UNCHANGED <<objProcess, listening, locks, restarts, calls, engine, row,
                     booted, scene>>
    BY <1>1
  <2>12. ManagerInv /\ r \in Req /\ u \in User
    BY <2>2
  <2> HIDE DEF u
  <2> QED
    BY ONLY <2>1, <2>5, <2>6, <2>7, <2>8, <2>9, <2>10, <2>11, <2>12, RunUserInv
<1> QED
  BY <1>2, <1>3

LEMMA BootUserInv ==
    ASSUME ManagerInv, NEW u \in User, BootUser(u)
    PROVE  ManagerInv'
<1> DEFINE q == [NoRequest EXCEPT !.kind = "boot", !.user = u,
                                  !.todo = <<"process", "release">>]
<1>1. /\ Types /\ RequestsInv /\ EnginesInv /\ CallsInv /\ StartInv
      /\ u \in bootLeft /\ u \in Req
      /\ bootLeft' = bootLeft \ {u} /\ RunUser(u, q)
      /\ UNCHANGED <<objProcess, listening, locks, restarts, calls, engine, row,
                     booted, scene>>
  BY Names DEF ManagerInv, BootUser
<1>2. /\ booted /\ engines[u] = None /\ restarts[u] = 0
      /\ \A e \in Req : req[e].user # u
  BY <1>1 DEF StartInv, AtStart
<1>3. req[u].kind = "none" /\ req[u].user = None
  BY <1>1, <1>2, Names DEF RequestsInv, RequestInv, NoRequest
<1>4. q \in Request /\ q.user = u /\ q.kind = "boot" /\ q.lock = 0
      /\ q.todo = <<"process", "release">>
  <2>1. 0 \in 0..MaxSpawn + 1
    BY ProcessAssumption
  <2>2. NoRequest \in Request
    BY <2>1 DEF NoRequest, Request
  <2>3. <<"process", "release">> \in Seq(ManagerStage)
    BY OrderedPlan
  <2>4. NoRequest.lock = 0
    BY DEF NoRequest
  <2> QED
    BY <2>2, <2>3, <2>4 DEF Request
<1> HIDE DEF q
<1>5. /\ q.kind \notin {"none", "deleteUser"} /\ q.todo # <<>> /\ Ordered(q.todo)
      /\ Head(q.todo) = "process" /\ q.lock = IF u \in User THEN 0 ELSE 1
  BY <1>4, OrderedPlan
<1>6. /\ u \in User => u = u /\ \A e \in Req \ {u} : req[e].user # u
      /\ u \in User => restarts[u] = 0
      /\ u \notin User => Inside(u) /\ req[u].lock = 1 /\ req[u].user = u
      /\ req[u].user = u \/ (req[u].user = None /\ u = u)
  BY <1>2, <1>3
<1>7. objProcess[u] = None /\ ~InCall(u) /\ Cleared(u)
  <2>1. objProcess[u] = None
    BY <1>1, <1>3 DEF EnginesInv, EngineInv
  <2>2. Stage(u) = "none"
    BY <1>1, <1>3, KindOfStage
  <2>3. Cleared(u)
    BY <1>2 DEF Cleared, IsRunning
  <2> QED
    BY <1>1, <2>1, <2>2, <2>3, InCallReplies
<1>8. \A e \in Req : e # u /\ Acts(e) => req[e].user # u
  BY <1>2
<1>9. booted /\ bootLeft' \subseteq bootLeft /\ u \notin bootLeft'
  BY <1>1, <1>2
<1> QED
  BY <1>1, <1>4, <1>5, <1>6, <1>7, <1>8, <1>9, RunUserInv

\* Until start() has read the rows, nobody has done anything.
LEMMA RowsReadInv == ManagerInv /\ RowsRead => ManagerInv'
<1> SUFFICES ASSUME ManagerInv, RowsRead PROVE ManagerInv'
  OBVIOUS
<1>1. /\ ~booted /\ booted' = TRUE /\ bootLeft' \subseteq User
      /\ UNCHANGED <<processVars, engines, objProcess, listening, locks,
                     nextProcess, restarts, req, calls, engine, row, scene>>
  BY DEF RowsRead
<1>2. ProcessInv'
  BY <1>1, StepInv DEF ManagerInv
<1>3. Types'
  BY <1>1 DEF ManagerInv, Types
<1>4. \A e \in Req : Stage(e)' = Stage(e) /\ Queue(e)' = Queue(e) /\ (Running(e)' <=> Running(e))
  BY <1>1 DEF Stage, Queue, Running, processVars
<1>5. RequestsInv'
  BY <1>1, <1>4 DEF ManagerInv, RequestsInv, RequestInv
<1>6. LocksInv'
  BY <1>1, <1>4 DEF ManagerInv, LocksInv, Locked, Inside
<1>7. \A v : InCall(v)' <=> InCall(v)
  BY <1>1, SMTT(60) DEF InCall
<1>8. ASSUME NEW p \in Proc, NEW n \in Child, NEW i \in 1..Len(calls'[p][n]),
             NEW d, d = calls'[p][n][i]
      PROVE  CallInv(p, n, d)'
  <2>1. d \in Call /\ d.req \in Req /\ d.user \in User /\ CallInv(p, n, d)
    <3>1. i \in 1..Len(calls[p][n]) /\ d = calls[p][n][i]
      BY <1>1, <1>8
    <3>2. d \in Call /\ d.req \in Req /\ CallInv(p, n, d)
      BY <3>1, CallsAre DEF ManagerInv
    <3> QED
      BY <3>2 DEF Call
  <2>2. /\ req'[d.req] = req[d.req] /\ n <= proc'[p].spawned
        /\ Serving(proc'[p], n) => Serving(proc[p], n)
        /\ objProcess'[d.req] = objProcess[d.req]
        /\ engines'[d.user] = engines[d.user]
    BY <1>1, <2>1 DEF CallInv, processVars
  <2>3. IsRunning(d.user)' =>
           IsRunning(d.user) /\ objProcess'[engines[d.user]] = objProcess[engines[d.user]]
    BY <1>1 DEF IsRunning
  <2>4. \A e \in Req : req'[e].user = d.user /\ Running(e)' =>
           /\ req[e].user = d.user /\ Running(e)
           /\ engine'[e].proc = engine[e].proc /\ engine'[e].child = engine[e].child
    BY <1>1, <1>4
  <2> QED
    BY ONLY <1>8, <2>1, <2>2, <2>3, <2>4, KeptCall
<1>9. CallsInv'
  BY <1>1, <1>8 DEF ManagerInv, CallsInv
<1>10. EnginesInv'
  BY <1>1, <1>4 DEF ManagerInv, EnginesInv, EngineInv, EntryInv, processVars
<1>11. ClearedInv'
  <2> SUFFICES ASSUME NEW q \in Req, HasKilled(q)', NEW u, u = req'[q].user
               PROVE  Cleared(u)'
    BY DEF ClearedInv
  <2>1. HasKilled(q) /\ u = req[q].user
    BY <1>1, <1>4 DEF HasKilled
  <2>2. Cleared(u)
    BY <2>1 DEF ManagerInv, ClearedInv
  <2> QED
    BY <1>1, <1>4, <2>2 DEF Cleared, IsRunning, Spared, processVars
<1>12. StartInv'
  <2> SUFFICES ASSUME NEW u \in User PROVE AtStart(u)'
    BY <1>1 DEF StartInv
  <2>1. AtStart(u) /\ u \in Req
    BY Names DEF ManagerInv, StartInv
  <2> QED
    BY <1>1, <1>4, <1>7, <2>1 DEF AtStart
<1>13. SeparateInv'
  BY <1>1, <1>4 DEF ManagerInv, SeparateInv, Alone, Spared, processVars
<1>14. OneAtATime'
  BY <1>1 DEF ManagerInv, OneAtATime
<1> QED
  BY <1>2, <1>3, <1>5, <1>6, <1>9, <1>10, <1>11, <1>12, <1>13, <1>14 DEF ManagerInv

LEMMA ManagerInitInv == ManagerInit /\ OneAtATime => ManagerInv
<1> SUFFICES ASSUME ManagerInit, OneAtATime PROVE ManagerInv
  OBVIOUS
<1>1. ProcessInv
  BY InitInv DEF ManagerInit
<1>2. /\ engines = [u \in User |-> None] /\ objProcess = [r \in Req |-> None]
      /\ listening = {} /\ locks = [u \in User |-> <<<<>>>>] /\ nextProcess = 1
      /\ restarts = [u \in User |-> 0] /\ req = [r \in Req |-> NoRequest]
      /\ calls = [p \in Proc |-> [n \in Child |-> <<>>]]
      /\ engine = [r \in Req |-> NoEngine]
      /\ scene \in Scenes /\ row \in scene.rows /\ booted = FALSE /\ bootLeft = {}
  BY DEF ManagerInit
<1>3. NoRequest \in Request /\ NoEngine \in Engine
  <2>1. 0 \in 0..MaxSpawn + 1 /\ 0 \in 0..MaxSpawn
    BY ProcessAssumption
  <2>2. <<>> \in Seq(ManagerStage)
    OBVIOUS
  <2> QED
    BY <2>1, <2>2 DEF NoRequest, Request, NoEngine, Engine
<1>4. <<<<>>>> \in Seq(Seq(Req)) /\ Len(<<<<>>>>) = 1
  <2>1. <<>> \in Seq(Req)
    OBVIOUS
  <2> QED
    BY <2>1
<1>5. Types
  <2>1. row \in [User -> {"shared", "separate", "absent"}]
    BY <1>2, ManagerAssumption
  <2>2. nextProcess \in 1..Len(RoundRobin)
    <3>1. Len(RoundRobin) \in Nat \ {0}
      BY ManagerAssumption
    <3> QED
      BY <1>2, <3>1
  <2>3. \A n \in Child : <<>> \in Seq(Call)
    OBVIOUS
  <2>4. calls \in [Proc -> [Child -> Seq(Call)]]
    BY <1>2, <2>3
  <2>5. locks \in [User -> Seq(Seq(Req))] /\ \A u \in User : Len(locks[u]) = 1
    BY <1>2, <1>4
  <2>6. req \in [Req -> Request] /\ engine \in [Req -> Engine]
    BY <1>2, <1>3
  <2> QED
    BY <1>2, <2>1, <2>2, <2>4, <2>5, <2>6 DEF Types
<1>6. \A r \in Req : req[r] = NoRequest /\ Stage(r) = "none" /\ objProcess[r] = None
  BY <1>2 DEF Stage, NoRequest
<1>7. \A p \in Proc, n \in Child : Len(calls[p][n]) = 0
  <2>1. Len(<<>>) = 0
    OBVIOUS
  <2> QED
    BY <1>2, <2>1
<1>8. \A p \in Proc, n \in Child : 1..Len(calls[p][n]) = {}
  BY <1>7
<1>9. \A r : ~InCall(r)
  BY <1>8 DEF InCall
<1>10. \A e \in Req : engine[e].state = "none" /\ ~Running(e)
  BY <1>2 DEF NoEngine, Running
<1>11. RequestsInv
  <2> SUFFICES ASSUME NEW r \in Req PROVE RequestInv(r)
    BY DEF RequestsInv
  <2>1. /\ req[r].kind = "none" /\ req[r].user = None /\ req[r].lock = 0
        /\ req[r].target = None /\ req[r].todo = <<>>
    BY <1>6 DEF NoRequest
  <2>2. Ordered(req[r].todo)
    BY <2>1 DEF Ordered
  <2> QED
    BY <1>6, <2>1, <2>2 DEF RequestInv
<1>12. LocksInv
  BY <1>6 DEF LocksInv, Locked, Inside
<1>13. CallsInv
  BY <1>8 DEF CallsInv
<1>14. EnginesInv
  BY <1>2, <1>6, <1>10 DEF EnginesInv, EngineInv, EntryInv
<1>15. ClearedInv
  BY <1>6 DEF ClearedInv, HasKilled
<1>16. StartInv
  BY <1>2, <1>6, <1>9, Names DEF StartInv, AtStart, NoRequest
<1>17. SeparateInv
  <2> SUFFICES ASSUME NEW p \in Proc \ SharedProc PROVE Alone(p)
    BY DEF SeparateInv
  <2>1. ~proc[p].hadExit
    BY DEF ManagerInit, Init, NewProcess
  <2>2. p # None
    BY Names
  <2> QED
    BY <1>2, <1>6, <2>1, <2>2 DEF Alone
<1> QED
  BY <1>1, <1>5, <1>11, <1>12, <1>13, <1>14, <1>15, <1>16, <1>17 DEF ManagerInv

-----------------------------------------------------------------------------
LEMMA KillJobInv ==
    ASSUME ManagerInv, NEW r \in Req, NEW s \in {"kill", "path"}, KillJob(r, s)
    PROVE  ManagerInv'
<1> DEFINE u == req[r].user
           p == objProcess[engines[u]]
           n == proc[p].rpc
<1>1. u \in User
  BY KillJobFacts, Zenon DEF KillJob, KillNobody, KillSeparate, KillShared
<1>2. CASE KillNobody(r, s)
  BY <1>2, KillNobodyInv
<1>3. CASE KillSeparate(r, s)
  BY <1>1, <1>3, KillSeparateInv DEF UserOf, ProcessOf
<1>4. CASE KillShared(r, s)
  <2>1. CASE n = 0 \/ ~Connected(proc[p], n)
    BY <1>1, <1>4, <2>1, KillSharedDeadInv DEF UserOf, ProcessOf
  <2>2. CASE n # 0 /\ Connected(proc[p], n)
    BY <1>1, <1>4, <2>2, KillSharedLiveInv DEF UserOf, ProcessOf
  <2> QED
    BY <2>1, <2>2
<1> QED
  BY <1>2, <1>3, <1>4, SMTT(60) DEF KillJob

LEMMA WorkerAnswersInv ==
    ASSUME ManagerInv, NEW p \in Proc, NEW n \in Child, WorkerAnswers(p, n)
    PROVE  ManagerInv'
<1> DEFINE c == Head(calls[p][n])
<1>1. CASE c.op = "run"
  BY <1>1, WorkerRunsInv
<1>2. CASE c.op = "kill"
  BY <1>2, WorkerKillsInv
<1> QED
  BY <1>1, <1>2 DEF WorkerAnswers

LEMMA ManagerStepInv == ManagerInv /\ ManagerNext => ManagerInv'
<1> SUFFICES ASSUME ManagerInv, ManagerNext PROVE ManagerInv'
  OBVIOUS
<1>1. CASE ProcessStep
  BY <1>1, WorkerReadyInv, WorkerErrorInv, WorkerLostInv, ProcessTimerInv, KillEveryoneInv,
     ManagerExitInv DEF ProcessStep
<1>2. CASE BootStep
  BY <1>2, RowsReadInv, BootUserInv DEF BootStep
<1>3. ASSUME NEW r \in Slot, NEW u \in User, NEW k \in scene.kinds, Arrive(r, k, u)
      PROVE  ManagerInv'
  BY <1>3, ArriveInv
<1>4. ASSUME NEW r \in TimerSlot, NEW u \in User, RestartTimer(r, u)
      PROVE  ManagerInv'
  BY <1>4, RestartTimerInv
<1>5. ASSUME NEW r \in Req, RequestStep(r)
      PROVE  ManagerInv'
  BY <1>5, TakeLockInv, KillJobInv, PathFoundInv, RemovedInv, RowFoundInv, ProcessFoundInv,
     ReleaseInv DEF RequestStep
<1>6. ASSUME NEW p \in Proc, NEW n \in Child, WorkerAnswers(p, n)
      PROVE  ManagerInv'
  BY <1>6, WorkerAnswersInv
<1>7. ASSUME NEW u \in User, RowChanges(u)
      PROVE  ManagerInv'
  BY <1>7, RowChangesInv
<1> QED
  BY <1>1, <1>2, <1>3, <1>4, <1>5, <1>6, <1>7 DEF ManagerNext

\* The scene is that of the whole behaviour.
LEMMA SceneStays == [ManagerNext]_allVars => UNCHANGED scene
<1> SUFFICES ASSUME [ManagerNext]_allVars PROVE UNCHANGED scene
  OBVIOUS
<1>1. CASE UNCHANGED allVars
  BY <1>1 DEF allVars, managerVars
<1>2. CASE ProcessStep
  BY <1>2 DEF ProcessStep, WorkerReady, WorkerError, WorkerLost, ProcessTimer, KillEveryone,
              ManagerExit, managerVars
<1>3. CASE BootStep
  BY <1>3 DEF BootStep, RowsRead, BootUser
<1>4. ASSUME NEW r, NEW k, NEW u, Arrive(r, k, u) \/ RestartTimer(r, u) \/ RowChanges(u)
      PROVE  UNCHANGED scene
  BY <1>4, Zenon DEF Arrive, RestartTimer, RowChanges
<1>5. ASSUME NEW r, RequestStep(r) PROVE UNCHANGED scene
  BY <1>5, Zenon DEF RequestStep, TakeLock, KillJob, KillNobody, KillSeparate, KillShared, PathFound,
              Removed, RowFound, ProcessFound, Release
<1>6. ASSUME NEW p, NEW n, WorkerAnswers(p, n) PROVE UNCHANGED scene
  BY <1>6 DEF WorkerAnswers
<1> QED
  BY <1>1, <1>2, <1>3, <1>4, <1>5, <1>6 DEF ManagerNext

LEMMA ManagerInvariant == ManagerSpec => [](OneAtATime => ManagerInv)
<1> DEFINE I == OneAtATime => ManagerInv
<1>1. ManagerInit => I
  BY ManagerInitInv
<1>2. I /\ [ManagerNext]_allVars => I'
  <2> SUFFICES ASSUME I, [ManagerNext]_allVars, OneAtATime' PROVE ManagerInv'
    OBVIOUS
  <2>1. OneAtATime
    BY SceneStays DEF OneAtATime
  <2>2. ManagerInv
    BY <2>1
  <2> QED
    BY <2>2, ManagerStepInv, UnchangedInv
<1> QED
  BY <1>1, <1>2, PTL DEF ManagerSpec

\* An engine that runs without being listed is in a worker that is given up.
LEMMA UnlistedEngineIsGivenUp ==
    ASSUME ManagerInv, NEW e \in Req,
           e \in RunningEngines(req[e].user), ~Running(e)
    PROVE  GivenUp(engine[e].proc, engine[e].child)
<1> DEFINE p == engine[e].proc
           n == engine[e].child
<1>1. p \in Proc /\ n \in Child /\ Alive(proc[p], n) /\ ~Serving(proc[p], n)
  BY DEF RunningEngines, Running, ManagerInv, EnginesInv, EngineInv
<1>2. proc[p].os[n] # "adrift" => proc[p].asked[n] # "no"
  BY <1>1 DEF Alive, Serving, Connected
<1>3. p \notin SharedProc /\ proc[p].asked[n] = "term" => \E k \in Kill : proc[p].timer[k]
  BY <1>1 DEF ManagerInv, ProcessInv, OneLife, TermIsTimed
<1> QED
  BY <1>2, <1>3 DEF GivenUp, AskedToDie

\* Where nobody calls startUser(), deleteUser() or clearCache(), and nobody
\* calls anything before start() is done, no user ever has two engines that
\* run in workers that are not given up, however his kills and restarts, those
\* of other users on the same worker, the 10 s timers of die(), and the
\* crashes, restarts and kills of the workers interleave: _runUser is only
\* reached once _killUserLocked has its answer and while the user's lock is
\* held.  A worker of the user's own that was killed is not waited for: it is
\* given up, closing or under the timeout of its kill.
THEOREM UsersHaveOneEngine == ManagerSpec => []OneEnginePerUser
<1>1. (OneAtATime => ManagerInv) => OneEnginePerUser
  <2> SUFFICES ASSUME ManagerInv, NEW u \in User
               PROVE  Cardinality({e \in RunningEngines(u) :
                          ~GivenUp(engine[e].proc, engine[e].child)}) <= 1
    BY DEF OneEnginePerUser
  <2> DEFINE kept == {e \in RunningEngines(u) :
                          ~GivenUp(engine[e].proc, engine[e].child)}
  <2>1. ASSUME NEW e \in kept PROVE e = engines[u]
    <3>1. e \in Req /\ req[e].user = u /\ e \in RunningEngines(u)
      BY DEF RunningEngines
    <3>2. Running(e)
      BY <3>1, UnlistedEngineIsGivenUp
    <3> QED
      BY <3>1, <3>2 DEF ManagerInv, EnginesInv, EngineInv
  <2> HIDE DEF kept
  <2>2. kept \subseteq {engines[u]}
    BY <2>1
  <2>3. IsFiniteSet({engines[u]}) /\ Cardinality({engines[u]}) = 1
    BY FS_Singleton
  <2>4. Cardinality(kept) <= 1
    BY <2>2, <2>3, FS_Subset
  <2> QED
    BY <2>4 DEF kept
<1> QED
  BY <1>1, ManagerInvariant, PTL

\* _killUserLocked and what follows it: until the operation that has killed
\* the user's engine runs him again, every engine of his that still runs is in
\* a worker that is given up, that is, one that has closed its channel, a
\* shared one told to die with all its users, or his own, and then under the
\* 30 s timeout of the kill or sent SIGKILL; nothing waits for that one.  An
\* entry that is left is only that of a worker that was stopped while it
\* booted.
THEOREM KilledEnginesAreGone == ManagerSpec => []KilledBeforeGoingOn
<1>1. (OneAtATime => ManagerInv) => KilledBeforeGoingOn
  <2> SUFFICES ASSUME ManagerInv, NEW r \in Req,
                      Stage(r) \in {"path", "lookup", "rm", "row"}
               PROVE  LET u == req[r].user
                      IN  /\ \A e \in RunningEngines(u) :
                                GivenUp(engine[e].proc, engine[e].child)
                          /\ IsRunning(u) => /\ stopped \/ "killBooting" \in scene.may
                                             /\ proc[objProcess[engines[u]]].child = 0
    BY DEF KilledBeforeGoingOn
  <2>1. Cleared(req[r].user)
    BY DEF ManagerInv, ClearedInv, HasKilled
  <2>2. ASSUME NEW e \in RunningEngines(req[r].user)
        PROVE  GivenUp(engine[e].proc, engine[e].child)
    <3>1. e \in Req /\ req[e].user = req[r].user
      BY DEF RunningEngines
    <3>2. ~Running(e)
      BY <2>1, <3>1 DEF Cleared
    <3> QED
      BY <3>1, <3>2, UnlistedEngineIsGivenUp
  <2> QED
    BY <2>1, <2>2 DEF Cleared, Spared
<1> QED
  BY <1>1, ManagerInvariant, PTL

\* The state of the manager keeps its type in these scenes: an entry that
\* listens has a process, a request waits for a lock that there is, and each
\* worker has a queue of calls.
THEOREM ManagerTypeCorrect == ManagerSpec => [](OneAtATime => ManagerTypeOK)
<1>1. (OneAtATime => ManagerInv) => (OneAtATime => ManagerTypeOK)
  <2> SUFFICES ASSUME ManagerInv PROVE ManagerTypeOK
    OBVIOUS
  <2>1. Types /\ ProcessInv /\ RequestsInv /\ EnginesInv
    BY DEF ManagerInv
  <2>2. \A e \in Req : e \in listening => objProcess[e] # None
    BY <2>1 DEF EnginesInv, EngineInv
  <2>3. ASSUME NEW r \in Req
        PROVE  /\ req[r].user \in User \cup {None}
               /\ req[r].target \in Proc \cup {None}
               /\ req[r].attempt \in 0..MaxSpawn + 1
               /\ req[r].lock \in 0..1
    BY <2>1 DEF Types, Request
  <2>4. ASSUME NEW r \in Req, req[r].user # None
        PROVE  req[r].lock \in 0..Len(locks[req[r].user])
    <3>1. req[r].user \in User
      BY <2>3, <2>4
    <3> QED
      BY <2>1, <2>3, <3>1 DEF Types
  <2> QED
    BY <2>1, <2>2, <2>3, <2>4 DEF ManagerTypeOK, Types, Engine, ProcessInv
<1> QED
  BY <1>1, ManagerInvariant, PTL
=============================================================================
