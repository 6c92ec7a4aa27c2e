------------------------------ MODULE FrontProofs ------------------------------
(* Theorems about the front end and what it is connected with, for any numbers *)
(* of requests, engines, websockets, apps and messages.                        *)
EXTENDS DirectSocket, Subscriptions, ChatForm, Assistant, TLAPS

-----------------------------------------------------------------------------
(* Websockets to an engine, and the cache of them.                            *)

SocketType == [stage : {"asked", "answered", "taken", "closed"}, up : BOOLEAN,
               answer : {"none", "ready", "error"}, engine : Nat]
PhasesType == {"init", "made", "running", "failed", "over"}

(* The worker lists engines that are alive, and tells nobody of an engine that *)
(* is not made yet; each websocket that is up leads to the engine it lists, or *)
(* to one that it took off its map by an error.                                *)
ListedIsAlive == listed # 0 => listed \in 1..Len(phases) /\ phases[listed] \in {"init", "made", "running"}
SocketsLeadToListed ==
    \A c \in Sockets : sockets[c].answer = "ready" =>
        /\ sockets[c].engine \in 1..Len(phases) /\ phases[sockets[c].engine] # "init"
        /\ sockets[c].up => sockets[c].engine \in {listed} \cup left
CachedIsOpen == cachedLink # 0 => cachedLink \in Sockets /\ sockets[cachedLink].stage # "closed"

DirectInv ==
    /\ phases \in Seq(PhasesType) /\ sockets \in Seq(SocketType)
    /\ listed \in Nat /\ left \subseteq Nat /\ cachedLink \in Nat
    /\ ListedIsAlive /\ SocketsLeadToListed /\ CachedIsOpen

LEMMA DirectInitInv == DirectInit => DirectInv
<1> SUFFICES ASSUME DirectInit PROVE DirectInv
  OBVIOUS
<1> USE DEF DirectInit
<1>1. phases \in Seq(PhasesType) /\ sockets \in Seq(SocketType) /\ Sockets = {}
  BY DEF Sockets
<1> QED
  BY <1>1 DEF DirectInv, ListedIsAlive, SocketsLeadToListed, CachedIsOpen

\* The worker runs an engine, which goes on, fails or stops.
LEMMA EngineActionKeepsInv ==
    ASSUME DirectInv,
           RunDirect \/ \E n \in DOMAIN phases : EngineGoesOn(n) \/ FatalError(n) \/ StopDirect(n)
    PROVE  DirectInv'
<1> USE DEF DirectInv, ListedIsAlive, SocketsLeadToListed, CachedIsOpen, Sockets
<1>1. CASE RunDirect
  <2>1. /\ phases' = Append(phases, "init") /\ listed' = Len(phases) + 1 /\ listed = 0
        /\ UNCHANGED <<left, sockets, cachedLink>>
    BY <1>1 DEF RunDirect
  <2>2. /\ phases' \in Seq(PhasesType) /\ Len(phases') = Len(phases) + 1
        /\ phases'[Len(phases) + 1] = "init"
        /\ \A n \in 1..Len(phases) : phases'[n] = phases[n]
    BY <2>1 DEF PhasesType
  <2>3. \A c \in Sockets : sockets[c].answer = "ready" /\ sockets[c].up => sockets[c].engine \in left
    BY <2>1
  <2> QED
    BY <2>1, <2>2, <2>3
<1>2. ASSUME NEW n \in DOMAIN phases, EngineGoesOn(n) PROVE DirectInv'
  <2>1. /\ n = listed /\ n \in 1..Len(phases) /\ phases[n] \in {"init", "made"}
        /\ UNCHANGED <<listed, left, sockets, cachedLink>>
    BY <1>2 DEF EngineGoesOn
  <2>2. /\ phases' \in Seq(PhasesType) /\ Len(phases') = Len(phases)
        /\ phases'[n] \in {"made", "running"}
        /\ \A m \in 1..Len(phases) : m # n => phases'[m] = phases[m]
    BY <1>2, <2>1 DEF EngineGoesOn, PhasesType
  <2> QED
    BY <2>1, <2>2
<1>3. ASSUME NEW n \in DOMAIN phases, FatalError(n) PROVE DirectInv'
  <2>1. /\ listed' = 0 /\ left' = left \cup ({n, listed} \ {0}) /\ n \in 1..Len(phases)
        /\ UNCHANGED <<sockets, cachedLink>>
    BY <1>3 DEF FatalError
  <2>2. /\ phases' \in Seq(PhasesType) /\ Len(phases') = Len(phases)
        /\ phases'[n] = "failed"
        /\ \A m \in 1..Len(phases) : m # n => phases'[m] = phases[m]
    BY <1>3, <2>1 DEF FatalError, PhasesType
  <2>3. {listed} \cup left \subseteq left' \cup {0} /\ left' \subseteq Nat
    <3>1. n \in Nat /\ listed \in Nat
      BY <2>1
    <3>2. left' \subseteq Nat
      BY <2>1, <3>1
    <3> QED
      BY <2>1, <3>1, <3>2
  <2>4. SocketsLeadToListed'
    BY <2>1, <2>2, <2>3, SMTT(60)
  <2> QED
    BY <2>1, <2>2, <2>3, <2>4
<1>4. ASSUME NEW n \in DOMAIN phases, StopDirect(n) PROVE DirectInv'
  <2>1. /\ n # listed /\ n \in 1..Len(phases)
        /\ UNCHANGED <<listed, left, sockets, cachedLink>>
    BY <1>4 DEF StopDirect
  <2>2. /\ phases' \in Seq(PhasesType) /\ Len(phases') = Len(phases)
        /\ phases'[n] = "over"
        /\ \A m \in 1..Len(phases) : m # n => phases'[m] = phases[m]
    BY <1>4, <2>1 DEF StopDirect, PhasesType
  <2> QED
    BY <2>1, <2>2, SMTT(200)
<1> QED
  BY <1>1, <1>2, <1>3, <1>4

\* Sockets that end are what they were, but not up.
LEMMA EndedType ==
    ASSUME sockets \in Seq(SocketType), NEW cs
    PROVE  /\ Ended(cs) \in Seq(SocketType) /\ Len(Ended(cs)) = Len(sockets)
           /\ \A c \in Sockets :
                 /\ Ended(cs)[c].stage = sockets[c].stage /\ Ended(cs)[c].answer = sockets[c].answer
                 /\ Ended(cs)[c].engine = sockets[c].engine
                 /\ Ended(cs)[c].up <=> sockets[c].up /\ c \notin cs
<1>1. ASSUME NEW c \in Sockets
      PROVE  LET e == IF c \in cs THEN [sockets[c] EXCEPT !.up = FALSE] ELSE sockets[c]
             IN  /\ e \in SocketType /\ e.stage = sockets[c].stage /\ e.answer = sockets[c].answer
                 /\ e.engine = sockets[c].engine
                 /\ e.up <=> sockets[c].up /\ c \notin cs
  <2>1. sockets[c] \in SocketType
    BY DEF Sockets
  <2>2. CASE c \in cs
    BY <2>1, <2>2 DEF SocketType
  <2>3. CASE c \notin cs
    BY <2>1, <2>3
  <2> QED
    BY <2>2, <2>3
<1>2. Ended(cs) \in [1..Len(sockets) -> SocketType] /\ Len(sockets) \in Nat
  BY <1>1 DEF Ended, Sockets
<1>3. Ended(cs) \in Seq(SocketType) /\ Len(Ended(cs)) = Len(sockets)
  BY <1>2
<1> QED
  BY <1>1, <1>3, Zenon DEF Ended

\* An engine is killed, or the worker ends.
LEMMA KillKeepsInv ==
    ASSUME DirectInv, KillDirect \/ \E crash \in BOOLEAN : WorkerEnds(crash)
    PROVE  DirectInv'
<1> USE DEF DirectInv
<1>1. CASE KillDirect
  <2>1. /\ listed # 0 /\ listed' = 0 /\ UNCHANGED <<phases, left, cachedLink>>
        /\ sockets' = IF HasEngine(listed) THEN Ended(SocketsOf(listed)) ELSE sockets
    BY <1>1 DEF KillDirect
  <2>2. /\ sockets' \in Seq(SocketType) /\ Len(sockets') = Len(sockets)
        /\ \A c \in Sockets :
              /\ sockets'[c].stage = sockets[c].stage /\ sockets'[c].answer = sockets[c].answer
              /\ sockets'[c].engine = sockets[c].engine
              /\ sockets'[c].up => sockets[c].up
    <3>1. CASE HasEngine(listed)
      BY <2>1, <3>1, EndedType
    <3>2. CASE ~HasEngine(listed)
      BY <2>1, <3>2
    <3> QED
      BY <3>1, <3>2
  <2>3. \A c \in Sockets : sockets[c].answer = "ready" /\ sockets'[c].up => sockets[c].engine # listed
    <3>1. CASE HasEngine(listed)
      BY <2>1, <3>1, EndedType DEF SocketsOf
    <3>2. CASE ~HasEngine(listed)
      <4>1. phases[listed] = "init"
        BY <2>1, <3>2 DEF HasEngine, ListedIsAlive
      <4> QED
        BY <4>1 DEF SocketsLeadToListed
    <3> QED
      BY <3>1, <3>2
  <2>4. SocketsLeadToListed'
    BY <2>1, <2>2, <2>3, SMTT(60) DEF SocketsLeadToListed, Sockets
  <2> QED
    BY <2>1, <2>2, <2>4 DEF ListedIsAlive, CachedIsOpen, Sockets
<1>2. ASSUME NEW crash \in BOOLEAN, WorkerEnds(crash) PROVE DirectInv'
  <2>1. /\ phases' = [n \in DOMAIN phases |-> "over"] /\ listed' = 0 /\ UNCHANGED <<left, cachedLink>>
        /\ sockets' = [c \in Sockets |->
                          IF crash /\ sockets[c].stage = "answered"
                          THEN [Opened EXCEPT !.up = FALSE] ELSE Ended(Sockets)[c]]
    BY <1>2 DEF WorkerEnds
  <2>2. /\ phases' \in Seq(PhasesType) /\ Len(phases') = Len(phases)
        /\ \A n \in 1..Len(phases) : phases'[n] = "over"
    <3>1. phases' \in [1..Len(phases) -> PhasesType] /\ Len(phases) \in Nat
      BY <2>1 DEF PhasesType
    <3> QED
      BY <2>1, <3>1
  <2>3. ASSUME NEW c \in Sockets
        PROVE  /\ sockets'[c] \in SocketType /\ ~sockets'[c].up
               /\ sockets'[c].stage = "closed" => sockets[c].stage = "closed"
               /\ sockets'[c].answer = "ready" =>
                     sockets[c].answer = "ready" /\ sockets'[c].engine = sockets[c].engine
    <3>1. CASE crash /\ sockets[c].stage = "answered"
      BY <2>1, <3>1 DEF Opened, SocketType
    <3>2. CASE ~(crash /\ sockets[c].stage = "answered")
      <4>1. sockets'[c] = Ended(Sockets)[c]
        BY <2>1, <3>2
      <4>2. Ended(Sockets)[c] \in SocketType
        BY EndedType DEF Sockets
      <4> QED
        BY <4>1, <4>2, EndedType
    <3> QED
      BY <3>1, <3>2
  <2>4. sockets' \in Seq(SocketType) /\ Len(sockets') = Len(sockets)
    <3>1. DOMAIN sockets' = Sockets /\ sockets' = [c \in Sockets |-> sockets'[c]]
      BY <2>1
    <3>2. sockets' \in [Sockets -> SocketType]
      BY <2>3, <3>1
    <3> QED
      BY <3>2, SMTT(60) DEF Sockets
  <2>5. SocketsLeadToListed'
    BY <2>2, <2>3, <2>4 DEF SocketsLeadToListed, Sockets
  <2> QED
    BY <2>1, <2>2, <2>3, <2>4, <2>5 DEF ListedIsAlive, CachedIsOpen, Sockets
<1> QED
  BY <1>1, <1>2

\* What happens to one websocket.
LEMMA SocketKeepsInv ==
    ASSUME DirectInv, NEW c \in Sockets, HandleDirectSocket(c) \/ TakeAnswer(c) \/ LinkCloses(c)
    PROVE  DirectInv'
<1> USE DEF DirectInv
<1>1. PICK s \in SocketType :
           /\ sockets' = [sockets EXCEPT ![c] = s]
           /\ s.answer = "ready" =>
                 \/ sockets[c].answer = "ready" /\ s.engine = sockets[c].engine /\ (s.up => sockets[c].up)
                 \/ HasEngine(listed) /\ s.engine = listed
           /\ s.stage = "closed" => cachedLink' = 0
  <2>1. sockets[c] \in SocketType
    BY DEF Sockets
  <2>2. CASE HandleDirectSocket(c)
    <3>1. CASE HasEngine(listed)
      <4> DEFINE s == [sockets[c] EXCEPT !.stage = "answered", !.answer = "ready", !.engine = listed]
      <4>1. s \in SocketType /\ s.engine = listed /\ s.stage = "answered"
        BY <2>1 DEF SocketType
      <4>2. sockets' = [sockets EXCEPT ![c] = s]
        BY <2>2, <3>1 DEF HandleDirectSocket
      <4> HIDE DEF s
      <4> QED
        BY <3>1, <4>1, <4>2
    <3>2. CASE ~HasEngine(listed)
      <4> DEFINE s == [sockets[c] EXCEPT !.stage = "answered", !.answer = "error", !.up = FALSE]
      <4>1. s \in SocketType /\ s.answer = "error" /\ s.stage = "answered"
        BY <2>1 DEF SocketType
      <4>2. sockets' = [sockets EXCEPT ![c] = s]
        BY <2>2, <3>2 DEF HandleDirectSocket
      <4> HIDE DEF s
      <4> QED
        BY <4>1, <4>2
    <3> QED
      BY <3>1, <3>2
  <2>3. CASE TakeAnswer(c) \/ LinkCloses(c)
    <3>1. PICK stage \in {"taken", "closed"} :
              /\ sockets' = [sockets EXCEPT ![c].stage = stage]
              /\ stage = "closed" => cachedLink' = 0
      BY <2>3 DEF TakeAnswer, LinkCloses, Uncached
    <3> DEFINE s == [sockets[c] EXCEPT !.stage = stage]
    <3>2. /\ s \in SocketType /\ s.answer = sockets[c].answer /\ s.engine = sockets[c].engine
          /\ s.up = sockets[c].up /\ s.stage = stage
      BY <2>1 DEF SocketType
    <3>3. sockets' = [sockets EXCEPT ![c] = s]
      BY <3>1
    <3> HIDE DEF s
    <3> QED
      BY <3>1, <3>2, <3>3
  <2> QED
    BY <2>2, <2>3
<1>2. /\ UNCHANGED <<phases, listed, left>> /\ cachedLink' \in {0, cachedLink}
  BY DEF HandleDirectSocket, TakeAnswer, LinkCloses, Uncached
<1>3. /\ sockets' \in Seq(SocketType) /\ Len(sockets') = Len(sockets) /\ sockets'[c] = s
      /\ \A d \in Sockets : d # c => sockets'[d] = sockets[d]
  BY <1>1 DEF Sockets
<1>4. HasEngine(listed) => listed \in 1..Len(phases) /\ phases[listed] # "init"
  BY DEF HasEngine, ListedIsAlive
<1>5. SocketsLeadToListed'
  BY <1>1, <1>2, <1>3, <1>4 DEF SocketsLeadToListed, Sockets
<1>6. CachedIsOpen'
  BY <1>1, <1>2, <1>3 DEF CachedIsOpen, Sockets
<1> QED
  BY <1>2, <1>3, <1>5, <1>6 DEF ListedIsAlive

\* What requests of the front end do.
LEMMA CallerKeepsInv ==
    ASSUME DirectInv, NEW r \in Callers,
           \/ CallGetEngine(r) \/ WaitForEngine(r) \/ ConnectDirect(r)
           \/ GetEngineReturns(r) \/ HandleCallback(r)
    PROVE  DirectInv'
<1> USE DEF DirectInv, ListedIsAlive, SocketsLeadToListed, CachedIsOpen, Sockets
<1>1. CASE ConnectDirect(r)
  <2>1. /\ sockets' = Append(sockets, Opened) /\ cachedLink' = Len(sockets) + 1
        /\ UNCHANGED <<phases, listed, left>>
    BY <1>1 DEF ConnectDirect
  <2>2. Opened \in SocketType /\ Opened.answer = "none" /\ Opened.stage = "asked"
    BY DEF Opened, SocketType
  <2>3. /\ sockets' \in Seq(SocketType) /\ Len(sockets') = Len(sockets) + 1
        /\ sockets'[Len(sockets) + 1] = Opened
        /\ \A c \in 1..Len(sockets) : sockets'[c] = sockets[c]
    BY <2>1, <2>2
  <2>4. \A c \in 1..Len(sockets') : c \in 1..Len(sockets) \/ c = Len(sockets) + 1
    BY <2>3, SMTT(60)
  <2> QED
    BY <2>1, <2>2, <2>3, <2>4
<1>2. CASE CallGetEngine(r) \/ WaitForEngine(r) \/ GetEngineReturns(r) \/ HandleCallback(r)
  BY <1>2 DEF CallGetEngine, WaitForEngine, GetEngineReturns, HandleCallback
<1> QED
  BY <1>1, <1>2

LEMMA DirectNextInv == DirectInv /\ [DirectNext]_directVars => DirectInv'
<1> SUFFICES ASSUME DirectInv, [DirectNext]_directVars PROVE DirectInv'
  OBVIOUS
<1>1. CASE UNCHANGED directVars
  BY <1>1 DEF directVars, DirectInv, ListedIsAlive, SocketsLeadToListed, CachedIsOpen, Sockets
<1> QED
  BY <1>1, EngineActionKeepsInv, KillKeepsInv, SocketKeepsInv, CallerKeepsInv DEF DirectNext

(* enginemanagerclient_k8s.ts getEngine, worker_k8s.ts handleDirectSocket: the *)
(* websocket in the cache leads to the engine that the worker lists, or its    *)
(* end is on the way, however requests open websockets while engines are       *)
(* killed and run again.                                                       *)
THEOREM CachedLinkIsListed == DirectSpec => []CacheLeadsToListed
<1>1. DirectInv => CacheLeadsToListed
  BY DEF DirectInv, CachedIsOpen, SocketsLeadToListed, CacheLeadsToListed
<1> QED
  BY <1>1, DirectInitInv, DirectNextInv, PTL DEF DirectSpec

-----------------------------------------------------------------------------
(* Apps that notify somebody, and requests to stop them.                       *)

(* A request removes apps of one engine at a time, and each of them it may     *)
(* remove: those of its address in the engine of the anonymous user, and all   *)
(* in that of the user with its address.  What it saw and runs still is ahead  *)
(* of it.                                                                      *)
RemovesItsOwn ==
    \A r \in Stops : stop[r].pc = "deleting" =>
        /\ stop[r].address \in silenced
        /\ stop[r].own => stop[r].address = Owner
        /\ \A a \in stop[r].todo : a \in Anonymous <=> ~stop[r].own
SawIsAhead ==
    \A r \in Stops : \A a \in stop[r].saw \cap apps :
        /\ stop[r].pc = "deleting"
        /\ \/ a \in stop[r].todo /\ Stopped(a, stop[r].address, stop[r].own)
           \/ a \notin Anonymous /\ stop[r].address = Owner /\ ~stop[r].own
WasSeen == apps \cup owed \cup UNION {stop[r].saw : r \in Stops} \subseteq was

SubscriptionsInv ==
    /\ SubscriptionsTypeOK
    /\ RemovesItsOwn /\ SawIsAhead /\ WasSeen /\ StoppedAreTheirs

LEMMA SubscriptionsInitInv == SubscriptionsInit => SubscriptionsInv
BY DEF SubscriptionsInit, SubscriptionsInv, SubscriptionsTypeOK, NoStop, RemovesItsOwn, SawIsAhead,
       WasSeen, StoppedAreTheirs

\* Apps come and go by their names.
LEMMA AppsKeepInv ==
    ASSUME SubscriptionsInv, NEW a \in App, CreateApp(a) \/ DeleteApp(a)
    PROVE  SubscriptionsInv'
<1> USE DEF SubscriptionsInv, SubscriptionsTypeOK, RemovesItsOwn, SawIsAhead, WasSeen, StoppedAreTheirs,
            Stopped
<1>1. CASE CreateApp(a)
  BY <1>1 DEF CreateApp
<1>2. CASE DeleteApp(a)
  BY <1>2 DEF DeleteApp
<1> QED
  BY <1>1, <1>2

\* What a request to stop does.
LEMMA StopKeepsInv ==
    ASSUME SubscriptionsInv, NEW r \in Stops,
           \/ \E address \in Phones \cup Mails : BeginStop(r, address)
           \/ RemoveApp(r) \/ UserByEmail(r) \/ StopReturns(r)
    PROVE  SubscriptionsInv'
<1> USE SubscriptionsAssumption DEF SubscriptionsInv, SubscriptionsTypeOK
<1>1. ASSUME NEW address \in Phones \cup Mails, BeginStop(r, address) PROVE SubscriptionsInv'
  <2> DEFINE s == [NoStop EXCEPT !.pc = "deleting", !.address = address, !.todo = InEngine(FALSE),
                       !.saw = {a \in apps : To[a] = address /\ (a \in Anonymous \/ address = Owner)}]
  <2>1. /\ s.pc = "deleting" /\ s.address = address /\ s.own = FALSE
        /\ s.todo = {a \in apps : a \in Anonymous}
        /\ s.saw = {a \in apps : To[a] = address /\ (a \in Anonymous \/ address = Owner)}
        /\ s \in [pc : {"none", "deleting"}, address : Phones \cup Mails \cup {NoAddress},
                  own : BOOLEAN, todo : SUBSET App, saw : SUBSET App]
    BY ZenonT(200) DEF NoStop, InEngine
  <2>2. /\ stop' = [stop EXCEPT ![r] = s] /\ silenced' = silenced \cup {address}
        /\ UNCHANGED <<apps, was, deleted, owed>>
    BY <1>1, Zenon DEF BeginStop
  <2> HIDE DEF s
  <2>3. /\ stop'[r] = s /\ \A q \in Stops : q # r => stop'[q] = stop[q]
    BY <2>2
  <2>4. SubscriptionsTypeOK'
    BY <2>1, <2>2
  <2>5. RemovesItsOwn'
    BY <2>1, <2>2, <2>3 DEF RemovesItsOwn
  <2>6. SawIsAhead'
    BY <2>1, <2>2, <2>3 DEF SawIsAhead, Stopped
  <2>7. WasSeen'
    BY <2>1, <2>2, <2>3 DEF WasSeen
  <2>8. StoppedAreTheirs'
    BY <2>2 DEF StoppedAreTheirs
  <2> QED
    BY <2>4, <2>5, <2>6, <2>7, <2>8
<1>2. CASE RemoveApp(r)
  <2>1. PICK a \in stop[r].todo :
           /\ apps' = IF Stopped(a, stop[r].address, stop[r].own) THEN apps \ {a} ELSE apps
           /\ stop' = [stop EXCEPT ![r].todo = @ \ {a}]
    BY <1>2 DEF RemoveApp, RestOfList
  <2>2. stop[r].pc = "deleting" /\ UNCHANGED <<was, deleted, silenced, owed>>
    BY <1>2 DEF RemoveApp
  <2>3. /\ \A q \in Stops : q # r => stop'[q] = stop[q]
        /\ stop'[r] = [stop[r] EXCEPT !.todo = @ \ {a}]
    BY <2>1
  <2>4. /\ stop'[r].pc = stop[r].pc /\ stop'[r].address = stop[r].address /\ stop'[r].own = stop[r].own
        /\ stop'[r].saw = stop[r].saw /\ stop'[r].todo = stop[r].todo \ {a}
    BY <2>3
  <2>5. SubscriptionsTypeOK'
    BY <2>1, <2>2, SMTT(60)
  <2>6. RemovesItsOwn'
    BY <2>2, <2>3, <2>4 DEF RemovesItsOwn
  <2>7. SawIsAhead'
    BY <2>1, <2>2, <2>3, <2>4 DEF SawIsAhead
  <2>8. WasSeen'
    BY <2>1, <2>2, <2>3, <2>4 DEF WasSeen
  <2>9. StoppedAreTheirs'
    <3>1. /\ stop[r].address \in silenced
          /\ stop[r].own => stop[r].address = Owner /\ a \notin Anonymous
          /\ ~stop[r].own => a \in Anonymous
      BY <2>1, <2>2 DEF RemovesItsOwn
    <3>2. CASE Stopped(a, stop[r].address, stop[r].own)
      <4>1. IF a \in Anonymous THEN To[a] \in silenced ELSE Owner \in silenced
        BY <3>1, <3>2 DEF Stopped
      <4>2. apps' = apps \ {a}
        BY <2>1, <3>2
      <4> QED
        BY <2>2, <4>1, <4>2 DEF StoppedAreTheirs
    <3>3. CASE ~Stopped(a, stop[r].address, stop[r].own)
      BY <2>1, <2>2, <3>3 DEF StoppedAreTheirs
    <3> QED
      BY <3>2, <3>3
  <2> QED
    BY <2>5, <2>6, <2>7, <2>8, <2>9
<1>3. CASE UserByEmail(r)
  <2> DEFINE s == [stop[r] EXCEPT !.pc = "deleting", !.own = TRUE, !.todo = InEngine(TRUE)]
  <2>1. /\ s.pc = "deleting" /\ s.address = stop[r].address /\ s.own = TRUE
        /\ s.todo = {a \in apps : a \notin Anonymous} /\ s.saw = stop[r].saw
        /\ s \in [pc : {"none", "deleting"}, address : Phones \cup Mails \cup {NoAddress},
                  own : BOOLEAN, todo : SUBSET App, saw : SUBSET App]
    BY ZenonT(200) DEF InEngine
  <2>2. /\ stop' = [stop EXCEPT ![r] = s] /\ UNCHANGED <<apps, was, deleted, silenced, owed>>
        /\ stop[r].pc = "deleting" /\ stop[r].todo = {} /\ stop[r].address = Owner /\ ~stop[r].own
    BY <1>3 DEF UserByEmail, DeleteAllApps
  <2> HIDE DEF s
  <2>3. /\ stop'[r] = s /\ \A q \in Stops : q # r => stop'[q] = stop[q]
    BY <2>2
  <2>4. SubscriptionsTypeOK'
    BY <2>1, <2>2
  <2>5. RemovesItsOwn'
    BY <2>1, <2>2, <2>3 DEF RemovesItsOwn
  <2>6. SawIsAhead'
    BY <2>1, <2>2, <2>3 DEF SawIsAhead, Stopped
  <2>7. WasSeen'
    BY <2>1, <2>2, <2>3 DEF WasSeen
  <2>8. StoppedAreTheirs'
    BY <2>2 DEF StoppedAreTheirs
  <2> QED
    BY <2>4, <2>5, <2>6, <2>7, <2>8
<1>4. CASE StopReturns(r)
  <2>1. /\ stop' = [stop EXCEPT ![r] = NoStop] /\ owed' = owed \cup stop[r].saw
        /\ UNCHANGED <<apps, was, deleted, silenced>>
        /\ stop[r].pc = "deleting" /\ stop[r].todo = {} /\ (stop[r].address = Owner => stop[r].own)
    BY <1>4 DEF StopReturns
  <2>2. /\ stop'[r] = NoStop /\ \A q \in Stops : q # r => stop'[q] = stop[q]
    BY <2>1
  <2>3. stop[r].saw \cap apps = {}
    BY <2>1 DEF SawIsAhead
  <2>4. SubscriptionsTypeOK'
    BY <2>1 DEF NoStop
  <2>5. RemovesItsOwn' /\ SawIsAhead' /\ WasSeen'
    BY <2>1, <2>2 DEF RemovesItsOwn, SawIsAhead, Stopped, WasSeen, NoStop
  <2>6. StoppedAreTheirs'
    BY <2>1, <2>3 DEF StoppedAreTheirs
  <2> QED
    BY <2>4, <2>5, <2>6
<1> QED
  BY <1>1, <1>2, <1>3, <1>4

LEMMA SubscriptionsNextInv == SubscriptionsInv /\ [SubscriptionsNext]_subscriptionVars => SubscriptionsInv'
<1> SUFFICES ASSUME SubscriptionsInv, [SubscriptionsNext]_subscriptionVars PROVE SubscriptionsInv'
  OBVIOUS
<1>1. CASE UNCHANGED subscriptionVars
  BY <1>1 DEF subscriptionVars, SubscriptionsInv, SubscriptionsTypeOK, RemovesItsOwn, SawIsAhead, WasSeen,
              StoppedAreTheirs, Stopped
<1> QED
  BY <1>1, AppsKeepInv, StopKeepsInv DEF SubscriptionsNext

(* engine.ts deleteAllApps, my_api.ts: a request to stop is answered only when *)
(* the apps it is about are gone, and removes no others, for any apps, in any  *)
(* order of the removals of several requests.                                  *)
THEOREM StopRemovesItsApps == SubscriptionsSpec => []StoppedAreTheirs
<1>1. SubscriptionsInv => StoppedAreTheirs
  BY DEF SubscriptionsInv
<1> QED
  BY <1>1, SubscriptionsInitInv, SubscriptionsNextInv, PTL DEF SubscriptionsSpec

-----------------------------------------------------------------------------
(* The page of a conversation.                                                 *)

(* The microphone was asked for twice when there is more than one stream to    *)
(* come, each upload is of a stream that was closed, and whatever leads to a   *)
(* recording follows a confirmation or a connection.                           *)
ClicksAreHasty ==
    /\ streams \subseteq {n \in {stream} : isRecording} \/ hasty
    /\ asks > 1 \/ (asks > 0 /\ isRecording) => hasty
AudioWasRecorded == audio + (IF isRecording THEN 1 ELSE 0) <= stream
StartIsConfirmed ==
    mode = "on" \/ warned \/ "start" \in requests \/ "yes" \in replies => confirmed \/ unasked

ChatFormInv == ChatFormTypeOK /\ AudioWasRecorded /\ CanType /\ ClicksAreHasty /\ StartIsConfirmed

\* What a change does to the form.
LEMMA ItemsChange ==
    ASSUME NEW it \in [Items -> BOOLEAN], NEW sts \in {1, 2, 3, 5, 6, 7, 8}
    PROVE  /\ ManInputTextCommand(it, sts) \in [Items -> BOOLEAN]
           /\ sts \in {3, 5, 6, 8} => ManInputTextCommand(it, sts)["text"]
<1> DEFINE Text(g) == "text" \in DOMAIN g /\ g["text"]
           Booleans(g) == \A i \in DOMAIN g : g[i] \in BOOLEAN
<1>1. Booleans(ItemChanges(sts)) /\ (sts \in {3, 5, 6, 8} => Text(ItemChanges(sts)))
  <2>1. CASE sts = 1
    <3>1. ItemChanges(sts) = [i \in {"text", "mic"} |-> FALSE]
      BY <2>1 DEF ItemChanges
    <3>2. Booleans([i \in {"text", "mic"} |-> FALSE])
      BY DEF Items
    <3>3. sts \notin {3, 5, 6, 8}
      BY <2>1
    <3> HIDE DEF Text, Booleans
    <3> QED
      BY <3>1, <3>2, <3>3
  <2>2. CASE sts = 2
    <3>1. ItemChanges(sts) = [i \in {"text"} |-> FALSE]
      BY <2>2 DEF ItemChanges
    <3>2. Booleans([i \in {"text"} |-> FALSE])
      BY DEF Items
    <3>3. sts \notin {3, 5, 6, 8}
      BY <2>2
    <3> HIDE DEF Text, Booleans
    <3> QED
      BY <3>1, <3>2, <3>3
  <2>3. CASE sts = 3
    <3>1. ItemChanges(sts) = [i \in {"text", "mic"} |-> TRUE]
      BY <2>3 DEF ItemChanges
    <3>2. Booleans([i \in {"text", "mic"} |-> TRUE])
      BY DEF Items
    <3>3. Text([i \in {"text", "mic"} |-> TRUE])
      BY DEF Items
    <3> QED
      BY <3>1, <3>2, <3>3
  <2>4. CASE sts = 5
    <3>1. ItemChanges(sts) = [i \in Items |-> i \in {"text", "cancel"}]
      BY <2>4 DEF ItemChanges
    <3>2. Booleans([i \in Items |-> i \in {"text", "cancel"}])
      <4>1. \A i \in Items : (i \in {"text", "cancel"}) \in BOOLEAN
        OBVIOUS
      <4> QED
        BY <4>1
    <3>3. Text([i \in Items |-> i \in {"text", "cancel"}])
      BY DEF Items
    <3> QED
      BY <3>1, <3>2, <3>3
  <2>5. CASE sts = 6
    <3>1. ItemChanges(sts) = [i \in {"text", "cancel"} |-> i = "text"]
      BY <2>5 DEF ItemChanges
    <3>2. Booleans([i \in {"text", "cancel"} |-> i = "text"])
      BY DEF Items
    <3>3. Text([i \in {"text", "cancel"} |-> i = "text"])
      BY DEF Items
    <3> QED
      BY <3>1, <3>2, <3>3
  <2>6. CASE sts = 7
    <3>1. ItemChanges(sts) = [i \in Items |-> i = "icon"]
      BY <2>6 DEF ItemChanges
    <3>2. Booleans([i \in Items |-> i = "icon"])
      BY DEF Items
    <3>3. sts \notin {3, 5, 6, 8}
      BY <2>6
    <3> HIDE DEF Text, Booleans
    <3> QED
      BY <3>1, <3>2, <3>3
  <2>7. CASE sts = 8
    <3>1. ItemChanges(sts) = [i \in {"text", "icon"} |-> i = "text"]
      BY <2>7 DEF ItemChanges
    <3>2. Booleans([i \in {"text", "icon"} |-> i = "text"])
      BY DEF Items
    <3>3. Text([i \in {"text", "icon"} |-> i = "text"])
      BY DEF Items
    <3> QED
      BY <3>1, <3>2, <3>3
  <2> QED
    BY <2>1, <2>2, <2>3, <2>4, <2>5, <2>6, <2>7
<1> QED
  BY <1>1 DEF ManInputTextCommand, Items

LEMMA FormsChange ==
    ASSUME NEW it \in [Items -> BOOLEAN]
    PROVE  /\ ShowCancel(it) \in [Items -> BOOLEAN] /\ ShowCancel(it)["text"]
           /\ \A asked : SyncCancelButton(it, asked) \in [Items -> BOOLEAN] /\ SyncCancelButton(it, asked)["text"]
<1>1. ManInputTextCommand(it, 1) \in [Items -> BOOLEAN] /\ ManInputTextCommand(it, 3) \in [Items -> BOOLEAN]
  BY ItemsChange
<1>2. ShowCancel(it) \in [Items -> BOOLEAN] /\ ShowCancel(it)["text"]
  BY <1>1, ItemsChange DEF ShowCancel
<1>3. /\ ManInputTextCommand(ManInputTextCommand(it, 3), 6) \in [Items -> BOOLEAN]
      /\ ManInputTextCommand(ManInputTextCommand(it, 3), 6)["text"]
  BY <1>1, ItemsChange
<1> QED
  BY <1>2, <1>3 DEF SyncCancelButton

LEMMA FeedbackChanges ==
    ASSUME items \in [Items -> BOOLEAN]
    PROVE  /\ UpdateConnectionFeedback \in [Items -> BOOLEAN]
           /\ ~online => UpdateConnectionFeedback["text"]
<1>1. ManInputTextCommand(items, 3) \in [Items -> BOOLEAN]
  BY ItemsChange
<1>2. /\ ManInputTextCommand(ManInputTextCommand(items, 3), 8) \in [Items -> BOOLEAN]
      /\ ManInputTextCommand(ManInputTextCommand(items, 3), 8)["text"]
  BY <1>1, ItemsChange
<1>3. CASE online
  BY <1>3 DEF UpdateConnectionFeedback
<1>4. CASE ~online
  <2>1. UpdateConnectionFeedback = ManInputTextCommand(ManInputTextCommand(items, 3), 8)
    BY <1>4 DEF UpdateConnectionFeedback
  <2> QED
    BY <1>2, <2>1
<1> QED
  BY <1>3, <1>4

LEMMA ChatFormInitInv == ChatFormInit => ChatFormInv
<1> SUFFICES ASSUME ChatFormInit PROVE ChatFormInv
  OBVIOUS
<1>1. items \in [Items -> BOOLEAN]
  <2>1. \A i \in Items : (i \in {"text", "mic"}) \in BOOLEAN
    OBVIOUS
  <2> QED
    BY <2>1 DEF ChatFormInit
<1>2. ChatFormTypeOK
  <2>1. /\ online \in BOOLEAN /\ identified \in BOOLEAN /\ isRecording \in BOOLEAN /\ hasty \in BOOLEAN
        /\ checked \in BOOLEAN /\ warning \in BOOLEAN /\ warned \in BOOLEAN
        /\ confirmed \in BOOLEAN /\ unasked \in BOOLEAN
    BY Zenon DEF ChatFormInit
  <2>2. /\ asks \in Nat /\ stream \in Nat /\ audio \in Nat /\ streams \subseteq 1..stream
        /\ asks + stream <= MaxStreams /\ audio <= stream
    BY ChatFormAssumption DEF ChatFormInit
  <2> QED
    BY <1>1, <2>1, <2>2 DEF ChatFormInit, ChatFormTypeOK
<1>3. AudioWasRecorded
  <2>1. audio = 0 /\ stream = 0 /\ ~isRecording
    BY DEF ChatFormInit
  <2> QED
    BY <2>1 DEF AudioWasRecorded
<1>4. CanType /\ ClicksAreHasty /\ StartIsConfirmed
  BY DEF ChatFormInit, CanType, ClicksAreHasty, StartIsConfirmed
<1> QED
  BY <1>2, <1>3, <1>4 DEF ChatFormInv

\* The voice changes only the form and the streams.
LEMMA VoiceKeepsInv ==
    ASSUME ChatFormInv,
           \/ AskMicrophone \/ StartVoice \/ Denied \/ StopVoice
           \/ \E understood \in BOOLEAN : PostAudioReturns(understood)
    PROVE  ChatFormInv'
<1> USE ChatFormAssumption DEF ChatFormInv, ChatFormTypeOK, AudioWasRecorded, CanType, ClicksAreHasty,
        StartIsConfirmed, modeVars
<1>1. CASE AskMicrophone
  <2>1. /\ asks + stream < MaxStreams /\ asks' = asks + 1 /\ ~isRecording
        /\ UNCHANGED <<online, identified, items, streams, stream, isRecording, audio, modeVars>>
    BY <1>1 DEF AskMicrophone
  <2>2. hasty' \in BOOLEAN /\ (hasty' <=> hasty \/ asks > 0)
    BY <1>1 DEF AskMicrophone
  <2>3. ChatFormTypeOK'
    BY <2>1, <2>2
  <2>4. ClicksAreHasty'
    BY <2>1, <2>2
  <2> QED
    BY <2>1, <2>3, <2>4
<1>2. CASE StartVoice
  <2>1. /\ asks > 0 /\ asks' = asks - 1 /\ items' \in [Items -> BOOLEAN]
        /\ isRecording' = TRUE /\ stream' = stream + 1 /\ streams' = streams \cup {stream + 1}
        /\ UNCHANGED <<online, identified, audio, hasty, modeVars>>
    BY <1>2, ItemsChange DEF StartVoice
  <2>2. ChatFormTypeOK'
    BY <2>1
  <2>3. ClicksAreHasty'
    BY <2>1
  <2> QED
    BY <2>1, <2>2, <2>3
<1>3. CASE Denied
  <2>1. items' \in [Items -> BOOLEAN] /\ items'["text"]
    BY <1>3, FormsChange DEF Denied
  <2> QED
    BY <1>3, <2>1 DEF Denied
<1>4. CASE StopVoice
  <2>1. items' \in [Items -> BOOLEAN] /\ items'["text"]
    BY <1>4, FormsChange DEF StopVoice
  <2>2. /\ isRecording /\ isRecording' = FALSE /\ streams' = streams \ {stream} /\ audio' = audio + 1
        /\ UNCHANGED <<online, identified, asks, stream, hasty, modeVars>>
    BY <1>4 DEF StopVoice
  <2>3. AudioWasRecorded' /\ audio' <= stream'
    <3>1. audio + 1 <= stream
      BY <2>2
    <3> QED
      BY <2>2, <3>1
  <2>4. ChatFormTypeOK'
    <3>1. isRecording' \in BOOLEAN
      BY <2>2, Zenon
    <3>2. /\ asks' \in Nat /\ stream' \in Nat /\ audio' \in Nat /\ streams' \subseteq 1..stream'
          /\ asks' + stream' <= MaxStreams
      BY <2>2
    <3> QED
      BY <2>1, <2>2, <2>3, <3>1, <3>2, ZenonT(60)
  <2>5. ClicksAreHasty'
    BY <2>2
  <2> QED
    BY <2>1, <2>2, <2>3, <2>4, <2>5
<1>5. ASSUME NEW understood \in BOOLEAN, PostAudioReturns(understood) PROVE ChatFormInv'
  <2>1. items' \in [Items -> BOOLEAN] /\ items'["text"]
    BY <1>5, FormsChange, ItemsChange DEF PostAudioReturns
  <2> QED
    BY <1>5, <2>1 DEF PostAudioReturns
<1> QED
  BY <1>1, <1>2, <1>3, <1>4, <1>5

\* Connections and messages.
LEMMA ConnectionKeepsInv ==
    ASSUME ChatFormInv,
           OnClose \/ OnOther \/ OnId \/ \E asked \in BOOLEAN : OnAskSpecial(asked)
    PROVE  ChatFormInv'
<1> USE DEF ChatFormInv, ChatFormTypeOK, AudioWasRecorded, CanType, ClicksAreHasty, StartIsConfirmed,
        voiceVars, modeVars
<1>1. CASE OnClose
  <2>1. items' \in [Items -> BOOLEAN] /\ online' = FALSE
    BY <1>1, ItemsChange DEF OnClose
  <2> QED
    BY <1>1, <2>1, ZenonT(200) DEF OnClose
<1>2. CASE OnOther
  <2>1. items' \in [Items -> BOOLEAN] /\ (~isRecording => items'["text"])
    <3>1. items' = UpdateConnectionFeedback /\ isRecording' = isRecording
      BY <1>2 DEF OnOther, OnMessage
    <3>2. online => UpdateConnectionFeedback = items
      BY DEF UpdateConnectionFeedback
    <3> QED
      BY <3>1, <3>2, FeedbackChanges
  <2> QED
    BY <1>2, <2>1 DEF OnOther, OnMessage, RefreshToolbar
<1>3. CASE OnId
  <2>1. items' \in [Items -> BOOLEAN] /\ (~isRecording => items'["text"])
    <3>1. items' = UpdateConnectionFeedback /\ isRecording' = isRecording
      BY <1>3 DEF OnId, OnMessage
    <3>2. online => UpdateConnectionFeedback = items
      BY DEF UpdateConnectionFeedback
    <3> QED
      BY <3>1, <3>2, FeedbackChanges
  <2> QED
    BY <1>3, <2>1 DEF OnId, OnMessage
<1>4. ASSUME NEW asked \in BOOLEAN, OnAskSpecial(asked) PROVE ChatFormInv'
  <2>1. items' \in [Items -> BOOLEAN] /\ items'["text"]
    BY <1>4, FeedbackChanges, FormsChange DEF OnAskSpecial, OnMessage
  <2> QED
    BY <1>4, <2>1 DEF OnAskSpecial, OnMessage, RefreshToolbar
<1> QED
  BY <1>1, <1>2, <1>3, <1>4

\* The box, the dialog, and what they ask of the engine.
LEMMA RecordingKeepsInv ==
    ASSUME ChatFormInv,
           \/ Toggle \/ ConfirmRecording \/ CancelRecording
           \/ \E what \in requests : Handle(what)
           \/ \E given \in replies : TakeAnswerOf(given)
    PROVE  ChatFormInv'
<1> USE DEF ChatFormInv, ChatFormTypeOK, AudioWasRecorded, CanType, ClicksAreHasty, StartIsConfirmed,
        voiceVars, formVars
<1>1. CASE Toggle
  BY <1>1 DEF Toggle, FirstRequest
<1>2. CASE ConfirmRecording
  BY <1>2, ZenonT(60) DEF ConfirmRecording
<1>3. CASE CancelRecording
  BY <1>3, ZenonT(60) DEF CancelRecording
<1>4. ASSUME NEW what \in requests, Handle(what) PROVE ChatFormInv'
  BY <1>4 DEF Handle
<1>5. ASSUME NEW given \in replies, TakeAnswerOf(given) PROVE ChatFormInv'
  BY <1>5, ZenonT(60) DEF TakeAnswerOf, RefreshToolbar
<1> QED
  BY <1>1, <1>2, <1>3, <1>4, <1>5

LEMMA ChatFormNextInv == ChatFormInv /\ [ChatFormNext]_chatFormVars => ChatFormInv'
<1> SUFFICES ASSUME ChatFormInv, [ChatFormNext]_chatFormVars PROVE ChatFormInv'
  OBVIOUS
<1>1. CASE UNCHANGED chatFormVars
  BY <1>1 DEF chatFormVars, formVars, voiceVars, modeVars, ChatFormInv, ChatFormTypeOK, AudioWasRecorded,
              CanType, ClicksAreHasty, StartIsConfirmed
<1> QED
  BY <1>1, VoiceKeepsInv, ConnectionKeepsInv, RecordingKeepsInv DEF ChatFormNext

(* browser/conversation.js: the user of a page that is connected can type      *)
(* unless he speaks, a stream of the microphone is lost only by a second click *)
(* before access was granted, and nothing is recorded before he has confirmed  *)
(* it, or a connection with the box checked has begun it, in any order of      *)
(* messages, answers and clicks.                                               *)
THEOREM PageStaysUsable == ChatFormSpec => []PageIsUsable
<1>1. ChatFormInv => PageIsUsable
  BY DEF ChatFormInv, CanType, ClicksAreHasty, StartIsConfirmed, PageIsUsable, MicrophoneIsOff,
         RecordingIsConfirmed
<1> QED
  BY <1>1, ChatFormInitInv, ChatFormNextInv, PTL DEF ChatFormSpec

-----------------------------------------------------------------------------
(* Requests that share the assistant of an engine.                             *)

WireType == [what : {"wrapper", "messages", "reply"}, of : Visitors, to : SUBSET Visitors]

(* Who has not got his object yet has no output and hears nothing, and who has *)
(* one hears his conversation, until he leaves it.                             *)
NewcomersHearNothing ==
    \A c \in Are({"none", "asked"}) :
        /\ c \notin outputs \cup notified /\ answer[c] = {}
        /\ \A k \in DOMAIN wire : c # wire[k].of /\ c \notin wire[k].to
GuestsAreAttached ==
    \A c \in Visitors :
        /\ visitor[c].kind \in Sessions /\ visitor[c].pc \in {"adding", "open", "leaving", "leaked"} => Attached(c)
        /\ visitor[c].kind = "conversation" /\ visitor[c].pc \in {"adding", "open"} =>
              visitor[c].conv # 0 /\ visitor[c].conv \in {current["main"]} \cup cutOff
        /\ visitor[c].kind \in Sessions /\ visitor[c].pc = "left" => ~Attached(c)
        /\ visitor[c].kind \in Turns /\ visitor[c].pc \notin {"none", "asked"} => c \in outputs
        /\ visitor[c].kind \notin Sessions => c \notin notified
        /\ visitor[c].kind = "results" => c \notin outputs
        /\ visitor[c].kind = "conversation" => c \notin notified

PlacesFitKinds ==
    \A c \in Visitors :
        /\ visitor[c].pc \in {"open", "leaving", "leaked"} => visitor[c].kind \in Sessions
        /\ visitor[c].pc \in {"controls", "used"} => visitor[c].kind = "recording"
        /\ visitor[c].pc \in {"commands", "handled", "replied", "flushed"} => visitor[c].kind \in Turns

(* What is on its way to a turn comes in the order of its steps: a wrapper,    *)
(* then the messages of its command, then the reply.                           *)
WireIsOfTurns ==
    \A k \in DOMAIN wire :
        LET c == wire[k].of
        IN  IF wire[k].what = "wrapper"
            THEN visitor[c].kind \in Turns /\ visitor[c].pc = "adding"
            ELSE visitor[c].kind = "turn" /\ visitor[c].pc = "handled"
WireIsInOrder ==
    \A k \in DOMAIN wire : \A j \in 1..(k - 1) :
        wire[j].of = wire[k].of => wire[j].what = "messages" /\ wire[k].what = "reply"
RepliesAreLast ==
    \A k \in DOMAIN wire : wire[k].what = "reply" =>
        \/ wire[k].of \in answer[wire[k].of]
        \/ \E j \in 1..(k - 1) :
              wire[j].what = "messages" /\ wire[j].of = wire[k].of /\ wire[k].of \in wire[j].to

(* A turn that was replied to has its messages, and none of those before it    *)
(* unless it is told the history.                                              *)
TurnsAreAnswered ==
    \A c \in Visitors :
        /\ visitor[c].kind = "turn" /\ visitor[c].pc \in {"replied", "flushed"} => c \in answer[c]
        /\ visitor[c].pc = "commands" => visitor[c].kind = "turn"
        /\ c \notin Replayed => answer[c] \cap earlier[c] = {}
        /\ \A d \in earlier[c] : visitor[d].pc = "flushed"

AssistantInv ==
    /\ AssistantTypeOK /\ wire \in Seq(WireType)
    /\ NewcomersHearNothing /\ GuestsAreAttached /\ PlacesFitKinds
    /\ WireIsOfTurns /\ WireIsInOrder /\ RepliesAreLast /\ TurnsAreAnswered

LEMMA AssistantInitInv == AssistantInit => AssistantInv
<1> SUFFICES ASSUME AssistantInit PROVE AssistantInv
  OBVIOUS
<1> USE DEF AssistantInit, NoVisitor
<1>1. AssistantTypeOK
  BY DEF AssistantTypeOK, VisitorKinds, Places, ConversationIds
<1>2. wire \in Seq(WireType) /\ DOMAIN wire = {}
  OBVIOUS
<1>3. NewcomersHearNothing /\ GuestsAreAttached /\ PlacesFitKinds
  BY <1>2 DEF NewcomersHearNothing, GuestsAreAttached, PlacesFitKinds, Attached, Are, Sessions, Turns
<1>4. WireIsOfTurns /\ WireIsInOrder /\ RepliesAreLast /\ TurnsAreAnswered
  BY <1>2 DEF WireIsOfTurns, WireIsInOrder, RepliesAreLast, TurnsAreAnswered
<1> QED
  BY <1>1, <1>2, <1>3, <1>4 DEF AssistantInv

\* A visitor goes to another place.
LEMMA BecomesMoves ==
    ASSUME AssistantTypeOK, NEW c \in Visitors, NEW pc \in Places, Becomes(c, pc)
    PROVE  /\ visitor' \in [Visitors -> [kind : VisitorKinds, pc : Places, conv : Nat]]
           /\ visitor'[c].pc = pc /\ visitor'[c].kind = visitor[c].kind /\ visitor'[c].conv = visitor[c].conv
           /\ \A d \in Visitors : d # c => visitor'[d] = visitor[d]
<1> DEFINE s == [visitor[c] EXCEPT !.pc = pc]
<1>1. visitor \in [Visitors -> [kind : VisitorKinds, pc : Places, conv : Nat]]
  BY DEF AssistantTypeOK
<1>2. /\ s \in [kind : VisitorKinds, pc : Places, conv : Nat]
      /\ s.pc = pc /\ s.kind = visitor[c].kind /\ s.conv = visitor[c].conv
  BY <1>1
<1>3. visitor' = [visitor EXCEPT ![c] = s]
  BY DEF Becomes
<1> HIDE DEF s
<1> QED
  BY <1>1, <1>2, <1>3

\* A conversation that is open stays the one of its id.
LEMMA OpenForMoves ==
    ASSUME AssistantTypeOK, NEW c \in Visitors, NEW pc \in Places, OpenFor(c, pc)
    PROVE  /\ visitor' \in [Visitors -> [kind : VisitorKinds, pc : Places, conv : Nat]]
           /\ visitor'[c].pc = pc /\ visitor'[c].kind = visitor[c].kind
           /\ visitor'[c].conv # 0 /\ visitor'[c].conv = current'[Id(visitor[c].kind)]
           /\ \A d \in Visitors : d # c => visitor'[d] = visitor[d]
           /\ current' \in [ConversationIds -> 0..opened'] /\ opened' \in Nat
           /\ \A i \in ConversationIds : current[i] # 0 => current'[i] = current[i]
<1> DEFINE i == Id(visitor[c].kind)
           n == Conversation(i)
           s == [visitor[c] EXCEPT !.pc = pc, !.conv = n]
<1>1. /\ visitor \in [Visitors -> [kind : VisitorKinds, pc : Places, conv : Nat]]
      /\ current \in [ConversationIds -> 0..opened] /\ opened \in Nat
  BY DEF AssistantTypeOK
<1>2. i \in ConversationIds
  BY DEF Id, ConversationIds
<1>3. n \in 1..(opened + 1) /\ (current[i] # 0 => n = current[i])
  BY <1>1, <1>2 DEF Conversation
<1> HIDE DEF n, i
<1>4. /\ s \in [kind : VisitorKinds, pc : Places, conv : Nat]
      /\ s.pc = pc /\ s.kind = visitor[c].kind /\ s.conv = n
  <2>1. n \in Nat
    BY <1>1, <1>3
  <2>2. visitor[c] \in [kind : VisitorKinds, pc : Places, conv : Nat]
    BY <1>1
  <2> QED
    BY <2>1, <2>2
<1>5. /\ visitor' = [visitor EXCEPT ![c] = s] /\ current' = [current EXCEPT ![i] = n]
      /\ opened' = IF n > opened THEN n ELSE opened
  BY DEF OpenFor, n, i
<1> HIDE DEF s
<1>6. opened' \in Nat /\ opened <= opened' /\ n \in 0..opened'
  BY <1>1, <1>3, <1>5
<1>7. current' \in [ConversationIds -> 0..opened']
  BY <1>1, <1>2, <1>5, <1>6
<1>8. current'[i] = n /\ \A j \in ConversationIds : current[j] # 0 => current'[j] = current[j]
  BY <1>1, <1>2, <1>3, <1>5
<1> QED
  BY <1>1, <1>2, <1>3, <1>4, <1>5, <1>6, <1>7, <1>8 DEF i

\* What is on its way is about others than a visitor who moves.
LEMMA WireStays ==
    ASSUME AssistantInv, NEW c \in Visitors, \A k \in DOMAIN wire : wire[k].of # c,
           \A d \in Visitors : d # c => visitor'[d] = visitor[d],
           UNCHANGED <<wire, answer>>
    PROVE  wire' \in Seq(WireType) /\ WireIsOfTurns' /\ WireIsInOrder' /\ RepliesAreLast'
<1>1. \A k \in DOMAIN wire : wire[k].of \in Visitors
  <2>1. \A k \in DOMAIN wire : wire[k] \in WireType
    BY DEF AssistantInv
  <2> QED
    BY <2>1 DEF WireType
<1>2. WireIsOfTurns'
  BY <1>1 DEF AssistantInv, WireIsOfTurns
<1>3. WireIsInOrder' /\ RepliesAreLast'
  BY DEF AssistantInv, WireIsInOrder, RepliesAreLast
<1> QED
  BY <1>2, <1>3 DEF AssistantInv

\* A request comes.
LEMMA ArriveKeepsInv ==
    ASSUME AssistantInv, NEW c \in Visitors, NEW kind \in VisitorKinds, Arrive(c, kind)
    PROVE  AssistantInv'
<1> USE DEF AssistantInv
<1>1. visitor[c].pc = "none" /\ UNCHANGED <<current, opened, outputs, notified, wire, answer, early, cutOff>>
  BY DEF Arrive
<1>2. /\ visitor' \in [Visitors -> [kind : VisitorKinds, pc : Places, conv : Nat]]
      /\ visitor'[c].pc = "asked" /\ visitor'[c].kind = kind
      /\ \A d \in Visitors : d # c => visitor'[d] = visitor[d]
  <2> DEFINE s == [visitor[c] EXCEPT !.kind = kind, !.pc = "asked"]
  <2>1. s \in [kind : VisitorKinds, pc : Places, conv : Nat] /\ s.pc = "asked" /\ s.kind = kind
    BY ZenonT(60) DEF AssistantTypeOK, Places
  <2>2. visitor' = [visitor EXCEPT ![c] = s]
    BY DEF Arrive
  <2> HIDE DEF s
  <2> QED
    BY <2>1, <2>2 DEF AssistantTypeOK
<1>3. earlier' = [earlier EXCEPT ![c] = OfKind({"turn"}) \cap Are({"flushed"})]
  BY DEF Arrive
<1>4. /\ c \notin outputs \cup notified /\ answer[c] = {}
      /\ \A k \in DOMAIN wire : c # wire[k].of /\ c \notin wire[k].to
  BY <1>1 DEF NewcomersHearNothing, Are
<1>5. wire' \in Seq(WireType) /\ WireIsOfTurns' /\ WireIsInOrder' /\ RepliesAreLast'
  BY <1>1, <1>2, <1>4, WireStays
<1>6. AssistantTypeOK'
  <2>1. OfKind({"turn"}) \cap Are({"flushed"}) \in SUBSET Visitors
    BY DEF OfKind
  <2> QED
    BY <1>1, <1>2, <1>3, <2>1 DEF AssistantTypeOK
<1>7. NewcomersHearNothing'
  BY <1>1, <1>2, <1>4, SMTT(60) DEF NewcomersHearNothing, Are
<1>8. GuestsAreAttached' /\ PlacesFitKinds'
  BY <1>1, <1>2, <1>4, SMTT(60) DEF GuestsAreAttached, PlacesFitKinds, Attached
<1>9. TurnsAreAnswered'
  <2>1. \A d \in OfKind({"turn"}) \cap Are({"flushed"}) : d \in Visitors /\ d # c /\ visitor'[d].pc = "flushed"
    BY <1>1, <1>2 DEF Are
  <2>2. \A d \in Visitors : \A e \in earlier[d] : e \in Visitors /\ e # c /\ visitor'[e].pc = "flushed"
    BY <1>1, <1>2 DEF TurnsAreAnswered, AssistantTypeOK
  <2>3. /\ earlier'[c] = OfKind({"turn"}) \cap Are({"flushed"})
        /\ \A d \in Visitors : d # c => earlier'[d] = earlier[d]
    BY <1>3 DEF AssistantTypeOK
  <2> QED
    BY <1>1, <1>2, <1>4, <2>1, <2>2, <2>3 DEF TurnsAreAnswered
<1> QED
  BY <1>5, <1>6, <1>7, <1>8, <1>9

\* The engine makes the objects.
LEMMA GetObjectKeepsInv ==
    ASSUME AssistantInv, NEW c \in Visitors,
           \/ AddNotificationOutput(c) \/ GetOrOpenConversationWebSocket(c)
           \/ GetOrOpenConversation(c) \/ GetRecordingController(c)
    PROVE  AssistantInv'
<1> USE DEF AssistantInv
<1>1. visitor[c].pc = "asked" /\ UNCHANGED <<answer, earlier, early, cutOff>>
  BY DEF AddNotificationOutput, GetOrOpenConversationWebSocket, GetOrOpenConversation, GetRecordingController
<1>2. /\ c \notin outputs \cup notified /\ answer[c] = {}
      /\ \A k \in DOMAIN wire : c # wire[k].of /\ c \notin wire[k].to
  BY <1>1 DEF NewcomersHearNothing, Are
<1>3. \A d \in Visitors : \A e \in earlier[d] : e \in Visitors /\ e # c
  BY <1>1 DEF TurnsAreAnswered, AssistantTypeOK
<1>4. CASE AddNotificationOutput(c)
  <2>1. /\ visitor[c].kind = "results" /\ notified' = notified \cup {c} /\ Becomes(c, "adding")
        /\ UNCHANGED <<current, opened, outputs, wire>>
    BY <1>4 DEF AddNotificationOutput
  <2>2. "adding" \in Places
    BY DEF Places
  <2>3. /\ visitor' \in [Visitors -> [kind : VisitorKinds, pc : Places, conv : Nat]]
        /\ visitor'[c].pc = "adding" /\ visitor'[c].kind = visitor[c].kind
        /\ \A d \in Visitors : d # c => visitor'[d] = visitor[d]
    BY <2>1, <2>2, BecomesMoves
  <2>4. wire' \in Seq(WireType) /\ WireIsOfTurns' /\ WireIsInOrder' /\ RepliesAreLast'
    BY <1>1, <1>2, <2>1, <2>3, WireStays
  <2>5. AssistantTypeOK'
    BY <1>1, <2>1, <2>3 DEF AssistantTypeOK
  <2>6. NewcomersHearNothing'
    BY <1>1, <2>1, <2>3, SMTT(60) DEF NewcomersHearNothing, Are
  <2>7. GuestsAreAttached' /\ PlacesFitKinds'
    BY <1>1, <1>2, <2>1, <2>3, SMTT(60) DEF GuestsAreAttached, PlacesFitKinds, Attached, Sessions, Turns
  <2>8. TurnsAreAnswered'
    BY <1>1, <1>3, <2>1, <2>3, SMTT(60) DEF TurnsAreAnswered
  <2> QED
    BY <2>4, <2>5, <2>6, <2>7, <2>8
<1>5. CASE GetOrOpenConversationWebSocket(c) \/ GetOrOpenConversation(c) \/ GetRecordingController(c)
  <2>1. PICK pc \in {"adding", "controls"} :
           /\ OpenFor(c, pc) /\ visitor[c].kind # "results" /\ notified' = notified
           /\ pc = "controls" <=> visitor[c].kind = "recording"
           /\ outputs' = IF pc = "controls" THEN outputs ELSE outputs \cup {c}
           /\ wire' = IF visitor[c].kind \in Turns
                      THEN Append(wire, [what |-> "wrapper", of |-> c, to |-> {c}]) ELSE wire
    BY <1>5 DEF GetOrOpenConversationWebSocket, GetOrOpenConversation, GetRecordingController, Turns
  <2>2. pc \in Places
    BY DEF Places
  <2>3. /\ visitor' \in [Visitors -> [kind : VisitorKinds, pc : Places, conv : Nat]]
        /\ visitor'[c].pc = pc /\ visitor'[c].kind = visitor[c].kind
        /\ visitor'[c].conv # 0 /\ visitor'[c].conv = current'[Id(visitor[c].kind)]
        /\ \A d \in Visitors : d # c => visitor'[d] = visitor[d]
        /\ current' \in [ConversationIds -> 0..opened'] /\ opened' \in Nat
        /\ \A i \in ConversationIds : current[i] # 0 => current'[i] = current[i]
    BY <2>1, <2>2, OpenForMoves
  <2>4. wire' \in Seq(WireType) /\ NewcomersHearNothing' /\ WireIsOfTurns' /\ WireIsInOrder' /\ RepliesAreLast'
    <3>1. CASE visitor[c].kind \in Turns
      <4> DEFINE m == [what |-> "wrapper", of |-> c, to |-> {c}]
      <4>1. m \in WireType /\ m.what = "wrapper" /\ m.of = c /\ m.to = {c}
        BY DEF WireType
      <4>2. wire' = Append(wire, m)
        BY <2>1, <3>1
      <4> HIDE DEF m
      <4>3. /\ wire' \in Seq(WireType) /\ DOMAIN wire' = 1..(Len(wire) + 1) /\ wire'[Len(wire) + 1] = m
            /\ DOMAIN wire = 1..Len(wire) /\ Len(wire) \in Nat
            /\ \A k \in 1..Len(wire) : wire'[k] = wire[k]
        BY <4>1, <4>2
      <4>4. \A k \in DOMAIN wire' : k \in 1..Len(wire) \/ k = Len(wire) + 1
        BY <4>3
      <4>5. \A k \in DOMAIN wire : wire[k].of \in Visitors
        <5>1. \A k \in DOMAIN wire : wire[k] \in WireType
          OBVIOUS
        <5> QED
          BY <5>1 DEF WireType
      <4>6. pc = "adding"
        BY <2>1, <3>1 DEF Turns
      <4>7. NewcomersHearNothing'
        BY <1>1, <1>2, <2>1, <2>3, <4>1, <4>3, <4>4, <4>6, SMTT(60) DEF NewcomersHearNothing, Are
      <4>8. WireIsOfTurns'
        BY <1>2, <2>3, <3>1, <4>1, <4>3, <4>4, <4>5, <4>6, SMTT(60) DEF WireIsOfTurns
      <4>9. WireIsInOrder'
        BY <1>2, <4>1, <4>3, <4>4, SMTT(60) DEF WireIsInOrder
      <4>10. RepliesAreLast'
        BY <1>1, <4>1, <4>3, <4>4, SMTT(60) DEF RepliesAreLast
      <4> QED
        BY <4>3, <4>7, <4>8, <4>9, <4>10 DEF AssistantInv
    <3>2. CASE visitor[c].kind \notin Turns
      <4>1. wire' \in Seq(WireType) /\ WireIsOfTurns' /\ WireIsInOrder' /\ RepliesAreLast'
        BY <1>1, <1>2, <2>1, <2>3, <3>2, WireStays
      <4>2. NewcomersHearNothing'
        <5>1. wire' = wire /\ outputs' \subseteq outputs \cup {c} /\ notified' = notified /\ answer' = answer
          BY <1>1, <2>1, <3>2
        <5>2. visitor'[c].pc \notin {"none", "asked"}
          BY <2>1, <2>3
        <5> QED
          BY <2>3, <5>1, <5>2 DEF NewcomersHearNothing, Are
      <4> QED
        BY <4>1, <4>2
    <3> QED
      BY <3>1, <3>2
  <2>6. AssistantTypeOK'
    BY <1>1, <2>1, <2>3, SMTT(60) DEF AssistantTypeOK
  <2>7. GuestsAreAttached'
    <3>1. "main" \in ConversationIds
      BY DEF ConversationIds
    <3>2. visitor[c].kind = "conversation" => Id(visitor[c].kind) = "main"
      BY DEF Id, Turns
    <3>3. ASSUME NEW d \in Visitors, d # c PROVE (d \in outputs' <=> d \in outputs) /\ notified' = notified
      BY <2>1, <3>3
    <3>4. visitor[c].kind \in Turns \cup Sessions => c \in outputs'
      BY <2>1 DEF Turns, Sessions
    <3>5. visitor'[c].pc \in {"adding", "controls"} /\ (visitor'[c].pc = "adding" => visitor[c].kind # "recording")
      BY <2>1, <2>3
    <3> QED
      BY <1>1, <1>2, <2>1, <2>3, <3>1, <3>2, <3>3, <3>4, <3>5 DEF GuestsAreAttached, Attached, Sessions
  <2>8. PlacesFitKinds'
    BY <2>1, <2>3 DEF PlacesFitKinds
  <2>9. TurnsAreAnswered'
    <3>1. visitor'[c].pc \in {"adding", "controls"} /\ answer' = answer /\ earlier' = earlier
      BY <1>1, <2>1, <2>3
    <3>2. ASSUME NEW d \in Visitors
          PROVE  /\ visitor'[d].kind = "turn" /\ visitor'[d].pc \in {"replied", "flushed"} => d \in answer[d]
                 /\ visitor'[d].pc = "commands" => visitor'[d].kind = "turn"
      BY <2>3, <3>1 DEF TurnsAreAnswered
    <3>3. ASSUME NEW d \in Visitors, NEW e \in earlier[d] PROVE visitor'[e].pc = "flushed"
      BY <1>3, <2>3, <3>3 DEF TurnsAreAnswered
    <3>4. \A d \in Visitors : d \notin Replayed => answer[d] \cap earlier[d] = {}
      BY DEF TurnsAreAnswered
    <3> QED
      BY ONLY <3>1, <3>2, <3>3, <3>4 DEF TurnsAreAnswered
  <2> QED
    BY <2>4, <2>6, <2>7, <2>8, <2>9
<1> QED
  BY <1>4, <1>5

\* What a visitor does who has an object and no part in what is on its way.
LEMMA VisitorMovesKeepsInv ==
    ASSUME AssistantInv, NEW c \in Visitors, NEW pc \in Places \ {"none", "asked"}, Becomes(c, pc),
           visitor[c].pc \notin {"none", "asked", "flushed"}, \A k \in DOMAIN wire : wire[k].of # c,
           UNCHANGED <<opened, wire, answer, earlier>>, early' \subseteq Visitors,
           current' \in [ConversationIds -> 0..opened], outputs' \subseteq outputs, notified' \subseteq notified,
           GuestsAreAttached', PlacesFitKinds',
           visitor[c].kind = "turn" => pc \notin {"replied", "flushed"} \/ visitor[c].pc = "replied",
           pc = "commands" => visitor[c].kind = "turn"
    PROVE  AssistantInv'
<1> USE DEF AssistantInv
<1>1. /\ visitor' \in [Visitors -> [kind : VisitorKinds, pc : Places, conv : Nat]]
      /\ visitor'[c].pc = pc /\ visitor'[c].kind = visitor[c].kind
      /\ \A d \in Visitors : d # c => visitor'[d] = visitor[d]
  BY BecomesMoves
<1>2. wire' \in Seq(WireType) /\ WireIsOfTurns' /\ WireIsInOrder' /\ RepliesAreLast'
  BY <1>1, WireStays
<1>3. AssistantTypeOK'
  BY <1>1 DEF AssistantTypeOK
<1>4. NewcomersHearNothing'
  BY <1>1, SMTT(200) DEF NewcomersHearNothing, Are
<1>5. TurnsAreAnswered'
  <2>1. \A d \in Visitors : \A e \in earlier[d] : e \in Visitors /\ e # c
    BY DEF TurnsAreAnswered, AssistantTypeOK
  <2> QED
    BY <1>1, <2>1, SMTT(60) DEF TurnsAreAnswered
<1> QED
  BY <1>2, <1>3, <1>4, <1>5

LEMMA WebsocketKeepsInv ==
    ASSUME AssistantInv, NEW c \in Visitors, HasWrapper(c) \/ CloseWebsocket(c) \/ DestroyWrapper(c)
    PROVE  AssistantInv'
<1> USE DEF AssistantInv
<1>1. visitor[c].kind \in Sessions
  BY DEF HasWrapper, CloseWebsocket, DestroyWrapper, PlacesFitKinds
<1>2. visitor[c].kind \notin Turns /\ \A k \in DOMAIN wire : wire[k].of # c
  BY <1>1 DEF WireIsOfTurns, Sessions, Turns
<1>3. current \in [ConversationIds -> 0..opened] /\ early \subseteq Visitors
  BY DEF AssistantTypeOK
<1>4. CASE HasWrapper(c)
  <2>1. PICK pc \in {"leaked", "open"} : Becomes(c, pc)
    BY <1>4 DEF HasWrapper
  <2>2. /\ visitor[c].pc = "adding"
        /\ UNCHANGED <<current, opened, outputs, notified, wire, answer, earlier, early, cutOff>>
    BY <1>4 DEF HasWrapper
  <2>3. pc \in Places \ {"none", "asked"}
    BY DEF Places
  <2>4. /\ visitor'[c].pc = pc /\ visitor'[c].kind = visitor[c].kind /\ visitor'[c].conv = visitor[c].conv
        /\ \A d \in Visitors : d # c => visitor'[d] = visitor[d]
    BY <2>1, <2>3, BecomesMoves
  <2>5. GuestsAreAttached' /\ PlacesFitKinds'
    BY <1>1, <1>2, <2>2, <2>4 DEF GuestsAreAttached, PlacesFitKinds, Attached
  <2> QED
    BY <1>2, <1>3, <2>1, <2>2, <2>3, <2>5, VisitorMovesKeepsInv DEF Turns
<1>5. CASE CloseWebsocket(c) /\ visitor[c].pc = "open"
  <2>1. /\ Becomes(c, "leaving")
        /\ UNCHANGED <<current, opened, outputs, notified, wire, answer, earlier, early, cutOff>>
    BY <1>5 DEF CloseWebsocket
  <2>2. "leaving" \in Places \ {"none", "asked"}
    BY DEF Places
  <2>3. /\ visitor'[c].pc = "leaving" /\ visitor'[c].kind = visitor[c].kind /\ visitor'[c].conv = visitor[c].conv
        /\ \A d \in Visitors : d # c => visitor'[d] = visitor[d]
    BY <2>1, <2>2, BecomesMoves
  <2>4. GuestsAreAttached' /\ PlacesFitKinds'
    BY <1>1, <1>2, <1>5, <2>1, <2>3 DEF GuestsAreAttached, PlacesFitKinds, Attached
  <2> QED
    BY <1>2, <1>3, <1>5, <2>1, <2>2, <2>4, VisitorMovesKeepsInv DEF Turns
<1>6. CASE CloseWebsocket(c) /\ visitor[c].pc # "open"
  <2>1. /\ early' = early \cup {c}
        /\ UNCHANGED <<visitor, current, opened, outputs, notified, wire, answer, earlier, cutOff>>
    BY <1>6 DEF CloseWebsocket
  <2>2. AssistantTypeOK'
    BY <2>1 DEF AssistantTypeOK
  <2> QED
    BY <2>1, <2>2 DEF NewcomersHearNothing, GuestsAreAttached, PlacesFitKinds, Attached, Are, WireIsOfTurns,
                      WireIsInOrder, RepliesAreLast, TurnsAreAnswered
<1>7. CASE DestroyWrapper(c)
  <2>1. /\ visitor[c].pc = "leaving" /\ Becomes(c, "left")
        /\ outputs' = outputs \ {c} /\ notified' = notified \ {c}
        /\ UNCHANGED <<current, opened, wire, answer, earlier, early, cutOff>>
    BY <1>7 DEF DestroyWrapper
  <2>2. "left" \in Places \ {"none", "asked"}
    BY DEF Places
  <2>3. /\ visitor'[c].pc = "left" /\ visitor'[c].kind = visitor[c].kind /\ visitor'[c].conv = visitor[c].conv
        /\ \A d \in Visitors : d # c => visitor'[d] = visitor[d]
    BY <2>1, <2>2, BecomesMoves
  <2>4. GuestsAreAttached' /\ PlacesFitKinds'
    BY <1>1, <1>2, <2>1, <2>3 DEF GuestsAreAttached, PlacesFitKinds, Attached
  <2> QED
    BY <1>2, <1>3, <2>1, <2>2, <2>4, VisitorMovesKeepsInv DEF Turns
<1> QED
  BY <1>4, <1>5, <1>6, <1>7

LEMMA ControllerKeepsInv ==
    ASSUME AssistantInv, NEW c \in Visitors, UseController(c) \/ DestroyController(c)
    PROVE  AssistantInv'
<1> USE DEF AssistantInv
<1>1. visitor[c].kind = "recording" /\ visitor[c].pc \in {"controls", "used"}
  BY DEF UseController, DestroyController, PlacesFitKinds
<1>2. \A k \in DOMAIN wire : wire[k].of # c
  BY <1>1 DEF WireIsOfTurns, Turns
<1>3. PICK pc \in {"used", "left"} : Becomes(c, pc)
  BY DEF UseController, DestroyController
<1>4. /\ UNCHANGED <<opened, outputs, notified, wire, answer, earlier, early>>
      /\ \/ current' = current /\ cutOff' = cutOff
         \/ current' = [current EXCEPT !["main"] = 0] /\ cutOff' = cutOff \cup ({current["main"]} \ {0})
  BY DEF UseController, DestroyController
<1>5. current' \in [ConversationIds -> 0..opened] /\ early' \subseteq Visitors
  BY <1>4 DEF AssistantTypeOK
<1>6. pc \in Places \ {"none", "asked"}
  BY DEF Places
<1>7. /\ visitor'[c].pc = pc /\ visitor'[c].kind = visitor[c].kind /\ visitor'[c].conv = visitor[c].conv
      /\ \A d \in Visitors : d # c => visitor'[d] = visitor[d]
  BY <1>3, <1>6, BecomesMoves
<1>8. \A n : n # 0 /\ n \in {current["main"]} \cup cutOff => n \in {current'["main"]} \cup cutOff'
  BY <1>4
<1>9. GuestsAreAttached' /\ PlacesFitKinds'
  BY <1>1, <1>4, <1>7, <1>8 DEF GuestsAreAttached, PlacesFitKinds, Attached, Sessions, Turns
<1> QED
  BY <1>1, <1>2, <1>3, <1>4, <1>5, <1>6, <1>9, VisitorMovesKeepsInv

LEMMA FlushKeepsInv ==
    ASSUME AssistantInv, NEW c \in Visitors, Flush(c)
    PROVE  AssistantInv'
<1> USE DEF AssistantInv
<1>1. /\ visitor[c].pc = "replied" /\ Becomes(c, "flushed")
      /\ UNCHANGED <<current, opened, outputs, notified, wire, answer, earlier, early, cutOff>>
  BY DEF Flush, HasAnswer
<1>2. \A k \in DOMAIN wire : wire[k].of # c
  BY <1>1 DEF WireIsOfTurns
<1>3. "flushed" \in Places \ {"none", "asked"}
  BY DEF Places
<1>4. /\ visitor'[c].pc = "flushed" /\ visitor'[c].kind = visitor[c].kind /\ visitor'[c].conv = visitor[c].conv
      /\ \A d \in Visitors : d # c => visitor'[d] = visitor[d]
  BY <1>1, <1>3, BecomesMoves
<1>5. GuestsAreAttached' /\ PlacesFitKinds'
  BY <1>1, <1>4 DEF GuestsAreAttached, PlacesFitKinds, Attached
<1>6. current' \in [ConversationIds -> 0..opened] /\ early' \subseteq Visitors
  BY <1>1 DEF AssistantTypeOK
<1> QED
  BY <1>1, <1>2, <1>3, <1>5, <1>6, VisitorMovesKeepsInv

\* The messages of a command go out before its reply.
LEMMA HandleCommandKeepsInv ==
    ASSUME AssistantInv, NEW c \in Visitors, HandleCommand(c)
    PROVE  AssistantInv'
<1> USE DEF AssistantInv
<1> DEFINE m == [what |-> "messages", of |-> c, to |-> Hear(visitor[c].conv)]
           r == [what |-> "reply", of |-> c, to |-> {c}]
           n == Len(wire)
<1>1. /\ visitor[c].pc = "commands" /\ Becomes(c, "handled") /\ wire' = wire \o <<m, r>>
      /\ UNCHANGED <<current, opened, outputs, notified, answer, earlier, early, cutOff>>
  BY DEF HandleCommand
<1>2. visitor[c].kind = "turn" /\ \A k \in DOMAIN wire : wire[k].of # c
  BY <1>1 DEF TurnsAreAnswered, WireIsOfTurns
<1>3. "handled" \in Places
  BY DEF Places
<1>4. /\ visitor' \in [Visitors -> [kind : VisitorKinds, pc : Places, conv : Nat]]
      /\ visitor'[c].pc = "handled" /\ visitor'[c].kind = visitor[c].kind /\ visitor'[c].conv = visitor[c].conv
      /\ \A d \in Visitors : d # c => visitor'[d] = visitor[d]
  BY <1>1, <1>3, BecomesMoves
<1>5. c \in Hear(visitor[c].conv) /\ Hear(visitor[c].conv) \subseteq outputs /\ outputs \subseteq Visitors
  BY <1>1, <1>2 DEF GuestsAreAttached, Hear, Turns, AssistantTypeOK
<1>6. /\ m \in WireType /\ m.what = "messages" /\ m.of = c /\ c \in m.to /\ m.to \subseteq outputs
      /\ r \in WireType /\ r.what = "reply" /\ r.of = c /\ r.to = {c}
  BY <1>5 DEF WireType
<1> HIDE DEF m, r
<1>7. <<m, r>> \in Seq(WireType) /\ Len(<<m, r>>) = 2 /\ <<m, r>>[1] = m /\ <<m, r>>[2] = r
  BY <1>6
<1>8. /\ wire' \in Seq(WireType) /\ DOMAIN wire' = 1..(n + 2) /\ DOMAIN wire = 1..n /\ n \in Nat
      /\ wire'[n + 1] = m /\ wire'[n + 2] = r /\ \A k \in 1..n : wire'[k] = wire[k]
  BY <1>1, <1>7
<1> HIDE DEF n
<1>9. \A k \in DOMAIN wire' : k \in 1..n \/ k = n + 1 \/ k = n + 2
  BY <1>8
<1>10. \A k \in 1..n : wire[k].of \in Visitors
  <2>1. \A k \in 1..n : wire[k] \in WireType
    BY <1>8
  <2> QED
    BY <2>1 DEF WireType
<1>11. AssistantTypeOK'
  BY <1>1, <1>4 DEF AssistantTypeOK
<1>12. NewcomersHearNothing'
  <2>1. ASSUME NEW d \in Are({"none", "asked"})'
        PROVE  /\ d \notin outputs \cup notified /\ answer[d] = {}
               /\ \A k \in 1..n : d # wire[k].of /\ d \notin wire[k].to
               /\ d # c
    BY <1>4, <1>8, <2>1 DEF NewcomersHearNothing, Are
  <2> QED
    BY <1>1, <1>6, <1>8, <1>9, <2>1, SMTT(60) DEF NewcomersHearNothing
<1>13. GuestsAreAttached' /\ PlacesFitKinds'
  BY <1>1, <1>2, <1>4, ZenonT(60) DEF GuestsAreAttached, PlacesFitKinds, Attached, Sessions
<1>14. WireIsOfTurns'
  BY <1>2, <1>4, <1>6, <1>8, <1>9, <1>10, SMTT(60) DEF WireIsOfTurns
<1>15. WireIsInOrder'
  <2> SUFFICES ASSUME NEW k \in DOMAIN wire', NEW j \in 1..(k - 1), wire'[j].of = wire'[k].of
               PROVE  wire'[j].what = "messages" /\ wire'[k].what = "reply"
    BY DEF WireIsInOrder
  <2>1. CASE k \in 1..n
    BY <1>8, <2>1 DEF WireIsInOrder
  <2>2. CASE k = n + 1
    BY <1>2, <1>6, <1>8, <2>2
  <2>3. CASE k = n + 2
    <3>1. j \in 1..n \/ j = n + 1
      BY <1>8, <2>3
    <3> QED
      BY <1>2, <1>6, <1>8, <2>3, <3>1
  <2> QED
    BY <1>9, <2>1, <2>2, <2>3
<1>16. RepliesAreLast'
  <2> SUFFICES ASSUME NEW k \in DOMAIN wire', wire'[k].what = "reply"
               PROVE  \/ wire'[k].of \in answer'[wire'[k].of]
                      \/ \E j \in 1..(k - 1) : /\ wire'[j].what = "messages" /\ wire'[j].of = wire'[k].of
                                               /\ wire'[k].of \in wire'[j].to
    BY DEF RepliesAreLast
  <2>1. CASE k \in 1..n
    <3>1. wire'[k] = wire[k] /\ k \in DOMAIN wire /\ answer' = answer
      BY <1>1, <1>8, <2>1
    <3>2. CASE wire[k].of \in answer[wire[k].of]
      BY <3>1, <3>2
    <3>3. CASE wire[k].of \notin answer[wire[k].of]
      <4>1. PICK j \in 1..(k - 1) :
               wire[j].what = "messages" /\ wire[j].of = wire[k].of /\ wire[k].of \in wire[j].to
        BY <3>1, <3>3 DEF RepliesAreLast
      <4>2. wire'[j] = wire[j]
        BY <1>8, <2>1
      <4> QED
        BY <3>1, <4>1, <4>2
    <3> QED
      BY <3>2, <3>3
  <2>2. CASE k = n + 1
    BY <1>6, <1>8, <2>2
  <2>3. CASE k = n + 2
    <3>1. n + 1 \in 1..(k - 1)
      BY <1>8, <2>3
    <3> QED
      BY <1>6, <1>8, <2>3, <3>1
  <2> QED
    BY <1>9, <2>1, <2>2, <2>3
<1>17. TurnsAreAnswered'
  <2>1. \A d \in Visitors : \A e \in earlier[d] : e \in Visitors /\ e # c
    BY <1>1 DEF TurnsAreAnswered, AssistantTypeOK
  <2> QED
    BY <1>1, <1>2, <1>4, <2>1, ZenonT(200) DEF TurnsAreAnswered
<1> QED
  BY <1>8, <1>11, <1>12, <1>13, <1>14, <1>15, <1>16, <1>17

\* Who takes the head of what is on its way to him goes on.
LEMMA TakeForOneKeepsInv ==
    ASSUME AssistantInv, wire # <<>>, wire' = Tail(wire), Head(wire).what # "messages",
           NEW pc \in {"replied", "commands"}, Becomes(Head(wire).of, pc),
           pc = "commands" => Head(wire).what = "wrapper" /\ visitor[Head(wire).of].kind = "turn",
           pc = "replied" => Head(wire).what = "reply" \/ visitor[Head(wire).of].kind = "welcome",
           UNCHANGED <<answer, current, opened, outputs, notified, earlier, early, cutOff>>
    PROVE  AssistantInv'
<1> USE DEF AssistantInv
<1> DEFINE h == Head(wire)
           c == h.of
<1>1. /\ wire' \in Seq(WireType) /\ Len(wire) \in Nat /\ Len(wire) >= 1
      /\ DOMAIN wire' = 1..(Len(wire) - 1) /\ DOMAIN wire = 1..Len(wire)
      /\ h = wire[1] /\ h \in WireType /\ 1 \in DOMAIN wire
      /\ \A k \in DOMAIN wire' : k + 1 \in DOMAIN wire /\ wire'[k] = wire[k + 1] /\ k \in Nat /\ k >= 1
  OBVIOUS
<1>2. c \in Visitors
  BY <1>1 DEF WireType
<1>3. /\ Becomes(c, pc) /\ h.what # "messages"
      /\ pc = "commands" => h.what = "wrapper" /\ visitor[c].kind = "turn"
      /\ pc = "replied" => h.what = "reply" \/ visitor[c].kind = "welcome"
  OBVIOUS
<1> HIDE DEF h
<1>4. /\ visitor[c].kind \in Turns /\ visitor[c].pc \in {"adding", "handled"}
      /\ h.what = "wrapper" \/ (visitor[c].kind = "turn" /\ visitor[c].pc = "handled")
      /\ h.what = "wrapper" => visitor[c].pc = "adding"
  BY <1>1 DEF WireIsOfTurns, Turns
<1>5. ASSUME NEW k \in DOMAIN wire' PROVE wire'[k].of # c
  <2>1. 1 \in 1..((k + 1) - 1)
    BY <1>1
  <2> QED
    BY <1>1, <1>3, <2>1 DEF WireIsInOrder
<1>6. pc \in Places
  BY DEF Places
<1>7. /\ visitor' \in [Visitors -> [kind : VisitorKinds, pc : Places, conv : Nat]]
      /\ visitor'[c].pc = pc /\ visitor'[c].kind = visitor[c].kind /\ visitor'[c].conv = visitor[c].conv
      /\ \A d \in Visitors : d # c => visitor'[d] = visitor[d]
  BY <1>2, <1>3, <1>6, BecomesMoves
<1>8. \A k \in DOMAIN wire' : wire'[k].of \in Visitors
  <2>1. \A k \in DOMAIN wire' : wire'[k] \in WireType
    BY <1>1
  <2> QED
    BY <2>1 DEF WireType
<1> HIDE DEF c
<1>9. AssistantTypeOK'
  BY <1>7 DEF AssistantTypeOK
<1>10. NewcomersHearNothing'
  <2>1. ASSUME NEW d \in Are({"none", "asked"})'
        PROVE  /\ d \notin outputs \cup notified /\ answer[d] = {}
               /\ \A k \in DOMAIN wire : d # wire[k].of /\ d \notin wire[k].to
    BY <1>2, <1>7, <2>1 DEF NewcomersHearNothing, Are
  <2> QED
    BY <1>1, <2>1 DEF NewcomersHearNothing
<1>11. GuestsAreAttached' /\ PlacesFitKinds'
  BY <1>2, <1>4, <1>7, SMTT(200) DEF GuestsAreAttached, PlacesFitKinds, Attached, Sessions, Turns
<1>12. WireIsOfTurns'
  BY <1>1, <1>2, <1>5, <1>7, <1>8, SMTT(60) DEF WireIsOfTurns
<1>13. WireIsInOrder'
  <2> SUFFICES ASSUME NEW k \in DOMAIN wire', NEW j \in 1..(k - 1), wire'[j].of = wire'[k].of
               PROVE  wire'[j].what = "messages" /\ wire'[k].what = "reply"
    BY DEF WireIsInOrder
  <2>1. j \in DOMAIN wire' /\ j + 1 \in 1..((k + 1) - 1)
    BY <1>1
  <2>2. wire[j + 1].of = wire[k + 1].of
    BY <1>1, <2>1
  <2> QED
    BY <1>1, <2>1, <2>2, SMTT(60) DEF WireIsInOrder
<1>14. RepliesAreLast'
  <2> SUFFICES ASSUME NEW k \in DOMAIN wire', wire'[k].what = "reply", wire'[k].of \notin answer[wire'[k].of]
               PROVE  \E j \in 1..(k - 1) : /\ wire'[j].what = "messages" /\ wire'[j].of = wire'[k].of
                                            /\ wire'[k].of \in wire'[j].to
    BY DEF RepliesAreLast
  <2>1. PICK i \in 1..((k + 1) - 1) :
           wire[i].what = "messages" /\ wire[i].of = wire[k + 1].of /\ wire[k + 1].of \in wire[i].to
    BY <1>1 DEF RepliesAreLast
  <2>2. i # 1
    BY <1>1, <1>3, <2>1
  <2>3. i - 1 \in 1..(k - 1) /\ i - 1 \in DOMAIN wire' /\ (i - 1) + 1 = i
    BY <1>1, <2>1, <2>2
  <2>4. wire'[i - 1] = wire[i]
    BY <1>1, <2>3
  <2> QED
    BY <1>1, <2>1, <2>3, <2>4
<1>15. TurnsAreAnswered'
  <2>1. \A d \in Visitors : \A e \in earlier[d] : e \in Visitors /\ e # c
    BY <1>2, <1>4 DEF TurnsAreAnswered, AssistantTypeOK
  <2>2. visitor[c].kind = "turn" /\ pc = "replied" => c \in answer[c]
    <3>1. h.what = "reply" => c \in answer[c]
      BY <1>1 DEF RepliesAreLast, c
    <3> QED
      BY <1>3, <3>1
  <2> QED
    BY <1>2, <1>3, <1>7, <2>1, <2>2, SMTT(60) DEF TurnsAreAnswered
<1> QED
  BY <1>1, <1>9, <1>10, <1>11, <1>12, <1>13, <1>14, <1>15

LEMMA TakeMessagesKeepsInv ==
    ASSUME AssistantInv, wire # <<>>, wire' = Tail(wire), Head(wire).what = "messages", TakeMessages(Head(wire)),
           UNCHANGED <<current, opened, outputs, notified, earlier, early, cutOff>>
    PROVE  AssistantInv'
<1> USE DEF AssistantInv
<1> DEFINE h == Head(wire)
<1>1. /\ wire' \in Seq(WireType) /\ Len(wire) \in Nat /\ Len(wire) >= 1
      /\ DOMAIN wire' = 1..(Len(wire) - 1) /\ DOMAIN wire = 1..Len(wire)
      /\ h = wire[1] /\ h \in WireType /\ 1 \in DOMAIN wire
      /\ \A k \in DOMAIN wire' : k + 1 \in DOMAIN wire /\ wire'[k] = wire[k + 1] /\ k \in Nat /\ k >= 1
  OBVIOUS
<1>2. h.of \in Visitors /\ h.to \subseteq Visitors
  BY <1>1 DEF WireType
<1>3. /\ h.what = "messages" /\ visitor' = visitor
      /\ answer' = [c \in Visitors |-> IF c \in h.to /\ visitor[c].pc # "flushed"
                                       THEN answer[c] \cup {h.of} ELSE answer[c]]
  BY DEF TakeMessages
<1> HIDE DEF h
<1>4. visitor[h.of].pc = "handled"
  BY <1>1, <1>3 DEF WireIsOfTurns
<1>5. \A k \in DOMAIN wire' : wire'[k].of \in Visitors
  <2>1. \A k \in DOMAIN wire' : wire'[k] \in WireType
    BY <1>1
  <2> QED
    BY <2>1 DEF WireType
<1>6. AssistantTypeOK'
  <2>1. answer' \in [Visitors -> SUBSET Visitors]
    BY <1>2, <1>3 DEF AssistantTypeOK
  <2> QED
    BY <1>3, <2>1 DEF AssistantTypeOK
<1>7. NewcomersHearNothing'
  <2>1. ASSUME NEW d \in Are({"none", "asked"})
        PROVE  /\ d \in Visitors /\ d \notin outputs \cup notified /\ answer[d] = {}
               /\ \A k \in DOMAIN wire : d # wire[k].of /\ d \notin wire[k].to
    BY DEF NewcomersHearNothing, Are
  <2> QED
    BY <1>1, <1>3, <2>1 DEF NewcomersHearNothing, Are
<1>8. GuestsAreAttached' /\ PlacesFitKinds'
  BY <1>3 DEF GuestsAreAttached, PlacesFitKinds, Attached
<1>9. WireIsOfTurns'
  BY <1>1, <1>3 DEF WireIsOfTurns
<1>10. WireIsInOrder'
  <2> SUFFICES ASSUME NEW k \in DOMAIN wire', NEW j \in 1..(k - 1), wire'[j].of = wire'[k].of
               PROVE  wire'[j].what = "messages" /\ wire'[k].what = "reply"
    BY DEF WireIsInOrder
  <2>1. j \in DOMAIN wire' /\ j + 1 \in 1..((k + 1) - 1)
    BY <1>1
  <2>2. wire[j + 1].of = wire[k + 1].of
    BY <1>1, <2>1
  <2> QED
    BY <1>1, <2>1, <2>2, SMTT(60) DEF WireIsInOrder
<1>11. RepliesAreLast'
  <2> SUFFICES ASSUME NEW k \in DOMAIN wire', wire'[k].what = "reply", wire'[k].of \notin answer'[wire'[k].of]
               PROVE  \E j \in 1..(k - 1) : /\ wire'[j].what = "messages" /\ wire'[j].of = wire'[k].of
                                            /\ wire'[k].of \in wire'[j].to
    BY DEF RepliesAreLast
  <2> DEFINE d == wire[k + 1].of
  <2>1. d \in Visitors /\ d = wire'[k].of /\ d \notin answer'[d] /\ visitor[d].pc = "handled"
    BY <1>1, <1>5 DEF WireIsOfTurns
  <2>2. d \notin answer[d] /\ ~(d \in h.to /\ h.of = d)
    BY <1>3, <2>1
  <2>3. PICK i \in 1..((k + 1) - 1) : wire[i].what = "messages" /\ wire[i].of = d /\ d \in wire[i].to
    BY <1>1, <2>2 DEF RepliesAreLast
  <2>4. i # 1
    BY <1>1, <2>2, <2>3
  <2>5. i - 1 \in 1..(k - 1) /\ i - 1 \in DOMAIN wire' /\ (i - 1) + 1 = i
    BY <1>1, <2>3, <2>4
  <2>6. wire'[i - 1] = wire[i]
    BY <1>1, <2>5
  <2> QED
    BY <2>1, <2>3, <2>5, <2>6
<1>12. TurnsAreAnswered'
  <2>1. \A d \in Visitors : answer[d] \subseteq answer'[d] /\ answer'[d] \subseteq answer[d] \cup {h.of}
    BY <1>3
  <2>2. \A d \in Visitors : h.of \notin earlier[d]
    BY <1>4 DEF TurnsAreAnswered
  <2> QED
    BY <1>3, <2>1, <2>2 DEF TurnsAreAnswered
<1> QED
  BY <1>1, <1>6, <1>7, <1>8, <1>9, <1>10, <1>11, <1>12

LEMMA TakeFromWireKeepsInv == AssistantInv /\ TakeFromWire => AssistantInv'
<1> SUFFICES ASSUME AssistantInv, TakeFromWire PROVE AssistantInv'
  OBVIOUS
<1>1. /\ wire # <<>> /\ wire' = Tail(wire)
      /\ UNCHANGED <<current, opened, outputs, notified, earlier, early, cutOff>>
  BY DEF TakeFromWire
<1>2. Head(wire) = wire[1] /\ 1 \in DOMAIN wire /\ wire[1] \in WireType
  BY <1>1 DEF AssistantInv
<1>3. Head(wire).what \in {"wrapper", "messages", "reply"}
  BY <1>2 DEF WireType
<1>4. CASE Head(wire).what = "wrapper"
  <2>1. /\ Becomes(Head(wire).of, IF visitor[Head(wire).of].kind = "welcome" THEN "replied" ELSE "commands")
        /\ answer' = answer
    BY <1>4 DEF TakeFromWire, TakeWrapper
  <2>2. visitor[Head(wire).of].kind \in Turns
    BY <1>2, <1>4 DEF AssistantInv, WireIsOfTurns
  <2>3. CASE visitor[Head(wire).of].kind = "welcome"
    BY <1>1, <1>4, <2>1, <2>3, TakeForOneKeepsInv
  <2>4. CASE visitor[Head(wire).of].kind = "turn"
    BY <1>1, <1>4, <2>1, <2>4, TakeForOneKeepsInv
  <2> QED
    BY <2>2, <2>3, <2>4 DEF Turns
<1>5. CASE Head(wire).what = "messages"
  BY <1>1, <1>5, TakeMessagesKeepsInv DEF TakeFromWire
<1>6. CASE Head(wire).what = "reply"
  BY <1>1, <1>6, TakeForOneKeepsInv DEF TakeFromWire
<1> QED
  BY <1>3, <1>4, <1>5, <1>6

\* A turn is told what was said before it came.
LEMMA ReplayHistoryKeepsInv ==
    ASSUME AssistantInv, NEW c \in Visitors, ReplayHistory(c)
    PROVE  AssistantInv'
<1> USE DEF AssistantInv
<1>1. /\ c \in Replayed /\ visitor[c].pc \notin {"none", "asked", "flushed"}
      /\ UNCHANGED <<visitor, current, opened, outputs, notified, wire, earlier, early, cutOff>>
  BY DEF ReplayHistory
<1>2. PICK d \in Visitors : answer' = [answer EXCEPT ![c] = @ \cup {d}]
  BY DEF ReplayHistory, OfKind
<1>3. /\ answer' \in [Visitors -> SUBSET Visitors]
      /\ \A e \in Visitors : answer[e] \subseteq answer'[e] /\ (e # c => answer'[e] = answer[e])
  BY <1>2 DEF AssistantTypeOK
<1>4. AssistantTypeOK'
  BY <1>1, <1>3 DEF AssistantTypeOK
<1>5. NewcomersHearNothing' /\ GuestsAreAttached' /\ PlacesFitKinds'
  BY <1>1, <1>3 DEF NewcomersHearNothing, GuestsAreAttached, PlacesFitKinds, Attached, Are
<1>6. WireIsOfTurns' /\ WireIsInOrder'
  BY <1>1 DEF WireIsOfTurns, WireIsInOrder
<1>7. RepliesAreLast'
  <2>1. \A k \in DOMAIN wire : wire[k] \in WireType
    OBVIOUS
  <2>2. \A k \in DOMAIN wire : wire[k].of \in Visitors
    BY <2>1 DEF WireType
  <2> QED
    BY <1>1, <1>3, <2>2 DEF RepliesAreLast
<1>8. TurnsAreAnswered'
  BY <1>1, <1>3 DEF TurnsAreAnswered
<1> QED
  BY <1>1, <1>4, <1>5, <1>6, <1>7, <1>8

\* The conversation of a dialogue is recycled.
LEMMA RecycleKeepsInv == AssistantInv /\ Recycle => AssistantInv'
<1> SUFFICES ASSUME AssistantInv, Recycle PROVE AssistantInv'
  OBVIOUS
<1> USE DEF AssistantInv
<1>1. /\ current' = [current EXCEPT !["google_assistant"] = 0]
      /\ UNCHANGED <<visitor, opened, outputs, notified, wire, answer, earlier, early, cutOff>>
  BY DEF Recycle
<1>2. current'["main"] = current["main"] /\ current' \in [ConversationIds -> 0..opened]
  BY <1>1 DEF AssistantTypeOK, ConversationIds
<1>3. AssistantTypeOK'
  BY <1>1, <1>2 DEF AssistantTypeOK
<1>4. NewcomersHearNothing' /\ GuestsAreAttached' /\ PlacesFitKinds'
  BY <1>1, <1>2 DEF NewcomersHearNothing, GuestsAreAttached, PlacesFitKinds, Attached, Are
<1>5. WireIsOfTurns' /\ WireIsInOrder' /\ RepliesAreLast' /\ TurnsAreAnswered'
  BY <1>1 DEF WireIsOfTurns, WireIsInOrder, RepliesAreLast, TurnsAreAnswered
<1> QED
  BY <1>1, <1>3, <1>4, <1>5

LEMMA AssistantNextInv == AssistantInv /\ [AssistantNext]_assistantVars => AssistantInv'
<1> SUFFICES ASSUME AssistantInv, [AssistantNext]_assistantVars PROVE AssistantInv'
  OBVIOUS
<1>1. CASE UNCHANGED assistantVars
  BY <1>1 DEF assistantVars, AssistantInv, AssistantTypeOK, NewcomersHearNothing, GuestsAreAttached, PlacesFitKinds,
              Attached, Are, WireIsOfTurns, WireIsInOrder, RepliesAreLast, TurnsAreAnswered
<1> QED
  BY <1>1, ArriveKeepsInv, GetObjectKeepsInv, WebsocketKeepsInv, ControllerKeepsInv, FlushKeepsInv,
     HandleCommandKeepsInv, TakeFromWireKeepsInv, ReplayHistoryKeepsInv, RecycleKeepsInv DEF AssistantNext

(* engine.ts, my_conversation.ts, bridges/gassistant: a websocket has an       *)
(* output from when the engine made its object until that is destroyed, and    *)
(* those of one time are in one conversation unless the recording page closed  *)
(* what was open; the answer of a turn has its own messages and none of those  *)
(* before it came, unless the library tells it the history; for any number of  *)
(* requests, in any order of their calls.                                      *)
THEOREM VisitorsGetTheirs == AssistantSpec => []VisitorsAreServed
<1>1. AssistantInv => VisitorsAreServed
  <2> SUFFICES ASSUME AssistantInv PROVE VisitorsAreServed
    OBVIOUS
  <2> USE DEF AssistantInv
  <2>1. ASSUME NEW c \in OfKind(Sessions)
        PROVE  Attached(c) <=> visitor[c].pc \in {"adding", "open", "leaving", "leaked"}
    <3>1. c \in Visitors /\ visitor[c].kind \in Sessions /\ visitor[c].pc \in Places
      BY <2>1 DEF OfKind, AssistantTypeOK
    <3>2. visitor[c].pc \in {"none", "asked"} => ~Attached(c)
      BY <3>1 DEF NewcomersHearNothing, Are, Attached
    <3>3. visitor[c].pc = "left" => ~Attached(c)
      BY <3>1 DEF GuestsAreAttached
    <3>4. visitor[c].pc \in {"none", "asked", "left", "adding", "open", "leaving", "leaked"}
      BY <3>1 DEF PlacesFitKinds, Places, Sessions, Turns
    <3>5. visitor[c].pc \in {"adding", "open", "leaving", "leaked"} => Attached(c)
      BY <3>1 DEF GuestsAreAttached
    <3> QED
      BY <3>2, <3>3, <3>4, <3>5
  <2>2. ASSUME NEW c \in OfKind({"conversation"}) \cap Are({"adding", "open"}),
               NEW d \in OfKind({"conversation"}) \cap Are({"adding", "open"}),
               visitor[c].conv # visitor[d].conv
        PROVE  {visitor[c].conv, visitor[d].conv} \cap cutOff # {}
    <3>1. /\ visitor[c].conv \in {current["main"]} \cup cutOff
          /\ visitor[d].conv \in {current["main"]} \cup cutOff
      BY DEF GuestsAreAttached, OfKind, Are
    <3> QED
      BY <2>2, <3>1
  <2>3. AnswerIsOfTurn
    BY DEF TurnsAreAnswered, AnswerIsOfTurn, OfKind, Are
  <2> QED
    BY <2>1, <2>2, <2>3 DEF VisitorsAreServed, SessionsAreAttached
<1> QED
  BY <1>1, AssistantInitInv, AssistantNextInv, PTL DEF AssistantSpec
================================================================================
