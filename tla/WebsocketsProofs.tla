--------------------------- MODULE WebsocketsProofs ---------------------------
(***************************************************************************)
(* What holds of the front end's connections and websockets for any number *)
(* of users, websockets, connections and messages.                         *)
(*                                                                         *)
(* No property is inductive.  That a cached engine has an open             *)
(* connection needs that the connection is the user's own, so that its     *)
(* 'close' takes this entry and no other away.  That a lost engine closes  *)
(* its websockets needs that an open websocket listens, or lost its        *)
(* listener to somebody else's connection, and that it started to listen   *)
(* before the connection could close: between the answer that settles the  *)
(* engine's promise and the promise job that attaches the listener no      *)
(* event is handled.                                                       *)
(*                                                                         *)
(* That messages arrive in order is a matter of all the places where they  *)
(* can be: the queue of the websocket holds the last ones that were sent,  *)
(* the calls of its connection those before them, what was delivered comes *)
(* first, and as long as the websocket and the connection are open no      *)
(* number is missing between the three.                                    *)
(***************************************************************************)
EXTENDS Websockets, Integers, TLAPS

Attached(w) == ws[w].stage \notin {"idle", "engine"}

\* The cache speaks of the user's own connection, which is open.
CacheInv ==
    \A u \in User : cached[u] # None =>
        /\ cached[u] <= opened
        /\ direct[cached[u]].user = u
        /\ ~expectClose => direct[cached[u]].line # "closed"

\* Connections are opened in order.
FreshInv == \A c \in Conn : c > opened => direct[c].line = "none"

\* A websocket that has asked for its engine has a connection of its user.
ConnInv ==
    \A w \in Ws : ws[w].stage # "idle" =>
        /\ ws[w].conn \in Conn
        /\ ws[w].conn <= opened
        /\ direct[ws[w].conn].user = UserOf[w]

\* Only websockets with an engine have wrappers and calls.
WrapperInv == \A w \in Ws : ws[w].wrapper # "none" => Attached(w)
CallsInv   == \A c \in Conn : \A i \in 1..Len(calls[c]) : Attached(calls[c][i].ws)

\* The engine of a promise job that has not run is still there.
EngineInv ==
    \A w \in Ws :
        /\ ws[w].stage = "engine"
        /\ direct[ws[w].conn].promise = "engine"
        /\ ~expectClose
        => direct[ws[w].conn].line # "closed"

\* Who listens has an engine, and who does not was robbed of its listener.
ListenInv ==
    \A w \in listening :
        /\ Attached(w)
        /\ ~expectClose => direct[ws[w].conn].line # "closed"

LossInv ==
    \A w \in Ws :
        /\ Attached(w)
        /\ ws[w].browser = "open"
        /\ ~expectClose
        => w \in listening \cup deaf

FrontInv == /\ FrontTypeOK
            /\ CacheInv /\ FreshInv /\ ConnInv /\ WrapperInv /\ CallsInv
            /\ EngineInv /\ ListenInv /\ LossInv

-----------------------------------------------------------------------------
\* What a step may do to a websocket that is not asking for its engine.
SocketStep(w) ==
    /\ ws'[w].conn = ws[w].conn
    /\ ws'[w].stage = ws[w].stage \/ (Attached(w) /\ Attached(w)')
    /\ ws'[w].browser = "open" => ws[w].browser = "open"
    /\ ws'[w].wrapper # "none" => Attached(w)'

\* A rejection fails a websocket or leaves it as it is, and opens nothing.
LEMMA RejectedFacts ==
    ASSUME NEW s \in Websocket, NEW ops
    PROVE  /\ Rejected(s, ops) \in Websocket
           /\ Rejected(s, ops).conn = s.conn
           /\ Rejected(s, ops).stage \in {s.stage, "failed"}
           /\ Rejected(s, ops).browser = "open" => s.browser = "open"
           /\ Rejected(s, ops).wrapper \in {s.wrapper, "freed"}
           /\ "open" \in ops => Rejected(s, ops).browser # "open"
  BY ZenonT(200) DEF Rejected, Closing, Websocket, Stage

\* Initially nobody has an engine.
LEMMA FrontInitInv == FrontInit => FrontInv
  <1> SUFFICES ASSUME FrontInit PROVE FrontInv
      OBVIOUS
  <1> USE ClientAssumption, WebsocketAssumption
  <1>1. NewWebsocket \in Websocket
      BY DEF NewWebsocket, Websocket, Stage
  <1>2. FrontTypeOK
    <2>1. direct \in [Conn -> Connection]
        BY DEF FrontInit, ClientInit, Connection
    <2>2. ws \in [Ws -> Websocket] /\ calls \in [Conn -> Seq(Call)]
        BY <1>1 DEF FrontInit
    <2>3. opened \in 0..MaxConn /\ severed \in [Shard -> 0..MaxSever]
        BY DEF FrontInit, ClientInit
    <2> QED BY <2>1, <2>2, <2>3 DEF FrontInit, ClientInit, FrontTypeOK
  <1>3. CacheInv /\ FreshInv /\ ConnInv /\ WrapperInv /\ CallsInv /\ EngineInv /\ ListenInv /\ LossInv
      BY DEF FrontInit, ClientInit, CacheInv, FreshInv, ConnInv, WrapperInv, CallsInv,
             EngineInv, ListenInv, LossInv, Attached, NewWebsocket
  <1> QED BY <1>2, <1>3 DEF FrontInv

\* A call keeps the types, moves one websocket, and adds at most a call of it.
LEMMA CallsFacts ==
    ASSUME FrontInv, NEW w \in Ws, NEW s \in Websocket, NEW op \in Operations,
           NEW n \in Nat, Calls(w, s, op, n),
           s.stage \notin {"idle", "engine"}, s.conn \in Conn,
           Attached(w) \/ ws[w].stage = "engine"
    PROVE  /\ ws' \in [Ws -> Websocket]
           /\ calls' \in [Conn -> Seq(Call)]
           /\ \A x \in Ws \ {w} : ws'[x] = ws[x]
           /\ ws'[w].conn = s.conn
           /\ ws'[w].stage \in {s.stage, "failed"}
           /\ ws'[w].browser = "open" => s.browser = "open"
           /\ CallsInv'
  <1>1. ws \in [Ws -> Websocket] /\ calls \in [Conn -> Seq(Call)] /\ CallsInv
      BY DEF FrontInv, FrontTypeOK
  <1>2. PICK t \in Websocket : /\ ws' = [ws EXCEPT ![w] = t]
                               /\ t.conn = s.conn
                               /\ t.stage \in {s.stage, "failed"}
                               /\ t.browser = "open" => s.browser = "open"
      BY RejectedFacts DEF Calls
  <1>3. /\ ws' \in [Ws -> Websocket]
        /\ \A x \in Ws \ {w} : ws'[x] = ws[x]
        /\ ws'[w] = t
      BY <1>1, <1>2
  <1>4. \A x \in Ws : Attached(x) => Attached(x)'
      BY <1>2, <1>3 DEF Attached
  <1>5. Attached(w)'
      BY <1>2, <1>3 DEF Attached
  <1> DEFINE call == [op |-> op, ws |-> w, msg |-> n]
  <1>6. call \in Call
      BY DEF Call
  <1>7. calls' = calls \/ calls' = [calls EXCEPT ![s.conn] = Append(@, call)]
      BY DEF Calls
  <1> HIDE DEF call
  <1>8. calls' \in [Conn -> Seq(Call)]
    <2>1. calls[s.conn] \in Seq(Call)
        BY <1>1
    <2>2. Append(calls[s.conn], call) \in Seq(Call)
        BY <1>6, <2>1
    <2> QED BY <1>1, <1>7, <2>2
  <1>9. CallsInv'
    <2> SUFFICES ASSUME NEW c \in Conn, NEW i \in 1..Len(calls'[c])
                 PROVE  ws'[calls'[c][i].ws].stage \notin {"idle", "engine"}
        BY DEF CallsInv, Attached
    <2>1. CASE calls' = calls
      <3>1. calls[c][i] \in Call
          BY <1>1, <2>1
      <3>2. calls[c][i].ws \in Ws /\ Attached(calls[c][i].ws)
          BY <1>1, <2>1, <3>1 DEF CallsInv, Call
      <3> QED BY <1>4, <2>1, <3>2 DEF Attached
    <2>2. CASE calls' = [calls EXCEPT ![s.conn] = Append(@, call)]
      <3>1. CASE c = s.conn /\ i = Len(calls[c]) + 1
        <4>1. calls'[c][i] = call
            BY <1>1, <1>6, <2>2, <3>1
        <4>2. call.ws = w
            BY DEF call
        <4> QED BY <1>5, <4>1, <4>2 DEF Attached
      <3>2. CASE c # s.conn \/ i # Len(calls[c]) + 1
        <4>1. i \in 1..Len(calls[c]) /\ calls'[c][i] = calls[c][i]
            BY <1>1, <1>6, <2>2, <3>2
        <4>2. calls[c][i] \in Call
            BY <1>1, <4>1
        <4>3. calls[c][i].ws \in Ws /\ Attached(calls[c][i].ws)
            BY <1>1, <4>1, <4>2 DEF CallsInv, Call
        <4> QED BY <1>4, <4>1, <4>3 DEF Attached
      <3> QED BY <3>1, <3>2
    <2> QED BY <1>7, <2>1, <2>2
  <1> QED BY <1>2, <1>3, <1>8, <1>9

\* Steps that move websockets along, and open and close no connection, keep
\* the invariant.
LEMMA GentleStep ==
    ASSUME FrontInv, FrontTypeOK', CallsInv',
           UNCHANGED <<opened, listening, deaf>>, expectClose => expectClose',
           \A u \in User : cached'[u] \in {cached[u], None},
           \A c \in Conn :
               /\ direct'[c].user = direct[c].user
               /\ direct[c].line = "none" => direct'[c].line = "none"
               /\ direct'[c].line = "closed" <=> direct[c].line = "closed"
               /\ direct'[c].promise = "engine" =>
                      direct[c].promise = "engine" \/ direct[c].line # "closed",
           \A w \in Ws : SocketStep(w)
    PROVE  FrontInv'
  <1>0. /\ FrontTypeOK /\ CacheInv /\ FreshInv /\ ConnInv
        /\ EngineInv /\ ListenInv /\ LossInv
      BY DEF FrontInv
  <1>u. opened' = opened /\ listening' = listening /\ deaf' = deaf
      OBVIOUS
  <1>c. \A u \in User : cached'[u] # None => cached[u] # None /\ cached'[u] = cached[u]
      OBVIOUS
  <1>d. \A c \in Conn :
           /\ direct'[c].user = direct[c].user
           /\ direct[c].line = "none" => direct'[c].line = "none"
           /\ direct'[c].line = "closed" <=> direct[c].line = "closed"
           /\ direct'[c].promise = "engine" =>
                  direct[c].promise = "engine" \/ direct[c].line # "closed"
      OBVIOUS
  <1>1. CacheInv'
    <2> SUFFICES ASSUME NEW u \in User, cached'[u] # None
                 PROVE  /\ cached'[u] <= opened
                        /\ direct'[cached'[u]].user = u
                        /\ ~expectClose' => direct'[cached'[u]].line # "closed"
        BY <1>u DEF CacheInv
    <2>1. cached[u] # None /\ cached'[u] = cached[u] /\ cached[u] \in Conn
        BY <1>0, <1>c DEF FrontTypeOK
    <2>2. /\ cached[u] <= opened
          /\ direct[cached[u]].user = u
          /\ ~expectClose => direct[cached[u]].line # "closed"
        BY <1>0, <2>1 DEF CacheInv
    <2> QED BY <1>d, <2>1, <2>2
  <1>f. FreshInv'
      BY <1>0, <1>u, <1>d DEF FreshInv
  <1>2. \A w \in Ws : /\ ws'[w].conn = ws[w].conn
                      /\ (ws'[w].stage = "idle") <=> (ws[w].stage = "idle")
                      /\ (ws'[w].stage = "engine") <=> (ws[w].stage = "engine")
      BY DEF SocketStep, Attached
  <1>3. ConnInv'
    <2> SUFFICES ASSUME NEW w \in Ws, ws'[w].stage # "idle"
                 PROVE  /\ ws'[w].conn \in Conn
                        /\ ws'[w].conn <= opened
                        /\ direct'[ws'[w].conn].user = UserOf[w]
        BY <1>u DEF ConnInv
    <2>1. /\ ws[w].conn \in Conn /\ ws[w].conn <= opened
          /\ direct[ws[w].conn].user = UserOf[w]
        BY <1>0, <1>2 DEF ConnInv
    <2> QED BY <1>2, <1>d, <2>1
  <1>4. WrapperInv'
      BY DEF WrapperInv, SocketStep
  <1>5. EngineInv'
    <2> SUFFICES ASSUME NEW w \in Ws, ws'[w].stage = "engine", ~expectClose',
                        direct'[ws'[w].conn].promise = "engine"
                 PROVE  direct'[ws'[w].conn].line # "closed"
        BY DEF EngineInv
    <2>1. ws'[w].conn = ws[w].conn /\ ws[w].conn \in Conn /\ ws[w].stage = "engine"
        BY <1>0, <1>2 DEF ConnInv
    <2>2. CASE direct[ws[w].conn].promise = "engine"
        BY <1>0, <1>d, <2>1, <2>2 DEF EngineInv
    <2>3. CASE direct[ws[w].conn].promise # "engine"
        BY <1>d, <2>1, <2>3
    <2> QED BY <2>2, <2>3
  <1>6. ListenInv'
    <2> SUFFICES ASSUME NEW w \in listening
                 PROVE  /\ Attached(w)'
                        /\ ~expectClose' => direct'[ws'[w].conn].line # "closed"
        BY <1>u DEF ListenInv
    <2>1. w \in Ws /\ Attached(w) /\ ws[w].conn \in Conn
        BY <1>0 DEF FrontTypeOK, ListenInv, ConnInv, Attached
    <2>2. Attached(w)' /\ ws'[w].conn = ws[w].conn
        BY <1>2, <2>1 DEF Attached
    <2> QED BY <1>0, <1>d, <2>1, <2>2 DEF ListenInv
  <1>7. LossInv'
    <2> SUFFICES ASSUME NEW w \in Ws, Attached(w)', ws'[w].browser = "open", ~expectClose'
                 PROVE  w \in listening \cup deaf
        BY <1>u DEF LossInv
    <2>1. Attached(w) /\ ws[w].browser = "open"
        BY <1>2 DEF Attached, SocketStep
    <2> QED BY <1>0, <2>1 DEF LossInv
  <1> QED BY <1>1, <1>f, <1>3, <1>4, <1>5, <1>6, <1>7 DEF FrontInv

\* ... among them those that only concern websockets,
LEMMA SocketsOnly ==
    ASSUME FrontInv, UNCHANGED <<clientVars, listening, deaf>>,
           ws' \in [Ws -> Websocket], calls' \in [Conn -> Seq(Call)],
           CallsInv', \A w \in Ws : SocketStep(w)
    PROVE  FrontInv'
  <1>1. FrontTypeOK'
      BY DEF FrontInv, FrontTypeOK, clientVars
  <1>2. UNCHANGED <<opened, listening, deaf, expectClose, cached, direct>>
      BY DEF clientVars
  <1> QED BY <1>1, <1>2, GentleStep

\* ... and those that only concern the client.
LEMMA ClientOnly ==
    ASSUME FrontInv, UNCHANGED socketVars
    PROVE  CallsInv' /\ \A w \in Ws : SocketStep(w)
  BY DEF socketVars, FrontInv, CallsInv, WrapperInv, SocketStep, Attached

\* getEngine(): a cached engine is open, a new one has the next number.
LEMMA GetEngineFacts ==
    ASSUME FrontInv, NEW u \in User, GetEngine(u)
    PROVE  /\ EngineConn(u) \in Conn
           /\ opened \in Nat /\ opened' \in 0..MaxConn /\ opened <= opened'
           /\ EngineConn(u) <= opened'
           /\ cached' \in [User -> Conn \cup {None}]
           /\ cached' = [cached EXCEPT ![u] = EngineConn(u)]
           /\ direct' \in [Conn -> Connection]
           /\ \A c \in Conn : c <= opened => direct'[c] = direct[c]
           /\ \A c \in Conn : c # EngineConn(u) => direct'[c] = direct[c]
           /\ direct'[EngineConn(u)].user = u
           /\ ~expectClose => direct'[EngineConn(u)].line # "closed"
           /\ UNCHANGED <<expectClose, control, line, reconnects, severed>>
  <1> USE ClientAssumption
  <1>1. /\ cached \in [User -> Conn \cup {None}] /\ direct \in [Conn -> Connection]
        /\ opened \in 0..MaxConn
        /\ CacheInv
      BY DEF FrontInv, FrontTypeOK
  <1>2. UNCHANGED <<expectClose, control, line, reconnects, severed>>
      BY DEF GetEngine, controlVars
  <1>3. CASE cached[u] # None
    <2>1. cached[u] \in Conn /\ EngineConn(u) = cached[u]
        BY <1>1, <1>3 DEF EngineConn
    <2>2. UNCHANGED <<cached, direct, opened>>
        BY <1>3 DEF GetEngine
    <2> QED BY <1>1, <1>2, <1>3, <2>1, <2>2 DEF CacheInv, Conn
  <1>4. CASE cached[u] = None
    <2> DEFINE n == opened + 1
               d == [user |-> u, promise |-> "pending", line |-> "open"]
    <2>1. /\ opened < MaxConn /\ opened' = n
          /\ cached' = [cached EXCEPT ![u] = n]
          /\ direct' = [direct EXCEPT ![n] = d]
          /\ EngineConn(u) = n
        BY <1>4 DEF GetEngine, EngineConn
    <2>2. n \in Conn /\ n > opened /\ n \in Nat /\ opened \in Nat /\ n <= MaxConn
        BY <1>1, <2>1 DEF Conn
    <2>3. d \in Connection /\ d.user = u /\ d.line # "closed"
        BY DEF Connection
    <2> HIDE DEF n, d
    <2>4. direct' \in [Conn -> Connection] /\ direct'[n] = d
        BY <1>1, <2>1, <2>2, <2>3
    <2>5. \A c \in Conn : c # n => direct'[c] = direct[c]
        BY <1>1, <2>1
    <2>6. \A c \in Conn : c <= opened => c # n
        BY <2>2 DEF Conn
    <2>7. cached' \in [User -> Conn \cup {None}]
        BY <1>1, <2>1, <2>2
    <2> QED BY <1>2, <2>1, <2>2, <2>3, <2>4, <2>5, <2>6, <2>7
  <1> QED BY <1>3, <1>4

\* The new connection disturbs nobody else's.
LEMMA GetEngineStep ==
    ASSUME FrontInv, Quiet, NEW u \in User, GetEngine(u), UNCHANGED <<listening, deaf>>,
           UNCHANGED calls,
           ws' \in [Ws -> Websocket],
           \A w \in Ws : \/ ws'[w] = ws[w]
                         \/ /\ ws[w].stage = "idle" /\ ws'[w].stage = "engine"
                            /\ ws'[w].conn = EngineConn(u) /\ UserOf[w] = u
                            /\ ws'[w].wrapper = ws[w].wrapper
    PROVE  FrontInv'
  <1> DEFINE n == EngineConn(u)
  <1>0. FrontTypeOK /\ CacheInv /\ FreshInv /\ ConnInv /\ WrapperInv /\ CallsInv
        /\ EngineInv /\ ListenInv /\ LossInv
      BY DEF FrontInv
  <1>g. /\ n \in Conn
        /\ opened \in Nat /\ opened' \in 0..MaxConn /\ opened <= opened'
        /\ n <= opened'
        /\ cached' \in [User -> Conn \cup {None}]
        /\ cached' = [cached EXCEPT ![u] = n]
        /\ direct' \in [Conn -> Connection]
        /\ \A c \in Conn : c <= opened => direct'[c] = direct[c]
        /\ \A c \in Conn : c # n => direct'[c] = direct[c]
        /\ direct'[n].user = u
        /\ ~expectClose => direct'[n].line # "closed"
        /\ UNCHANGED <<expectClose, control, line, reconnects, severed>>
      BY GetEngineFacts
  <1>w. \A w \in Ws : \/ ws'[w] = ws[w]
                     \/ /\ ws[w].stage = "idle" /\ ws'[w].stage = "engine"
                        /\ ws'[w].conn = n /\ UserOf[w] = u
                        /\ ws'[w].wrapper = ws[w].wrapper
      OBVIOUS
  <1> HIDE DEF n
  <1>c. \A c \in Conn : c \in Nat
      BY ClientAssumption DEF Conn
  <1>1. FrontTypeOK'
      BY <1>0, <1>g DEF FrontTypeOK
  <1>2. CacheInv'
    <2> SUFFICES ASSUME NEW v \in User, cached'[v] # None
                 PROVE  /\ cached'[v] <= opened'
                        /\ direct'[cached'[v]].user = v
                        /\ ~expectClose' => direct'[cached'[v]].line # "closed"
        BY DEF CacheInv
    <2>1. CASE v = u
        BY <1>0, <1>g, <2>1 DEF FrontTypeOK
    <2>2. CASE v # u
      <3>1. cached'[v] = cached[v] /\ cached[v] \in Conn /\ cached[v] <= opened
          BY <1>0, <1>g, <2>2 DEF FrontTypeOK, CacheInv
      <3>2. cached'[v] <= opened' /\ direct'[cached'[v]] = direct[cached[v]]
          BY <1>g, <1>c, <3>1
      <3> QED BY <1>0, <1>g, <3>1, <3>2 DEF CacheInv
    <2> QED BY <2>1, <2>2
  <1>f. FreshInv'
    <2> SUFFICES ASSUME NEW c \in Conn, c > opened'
                 PROVE  direct'[c].line = "none"
        BY DEF FreshInv
    <2>1. c # n /\ c > opened
        BY <1>g, <1>c
    <2> QED BY <1>0, <1>g, <2>1 DEF FreshInv
  <1>s. \A w \in Ws : ws[w].stage # "idle" =>
            /\ ws'[w] = ws[w]
            /\ ws[w].conn \in Conn /\ ws[w].conn <= opened
            /\ direct'[ws[w].conn] = direct[ws[w].conn]
      BY <1>0, <1>g, <1>w DEF ConnInv
  <1>3. ConnInv'
    <2> SUFFICES ASSUME NEW w \in Ws, ws'[w].stage # "idle"
                 PROVE  /\ ws'[w].conn \in Conn
                        /\ ws'[w].conn <= opened'
                        /\ direct'[ws'[w].conn].user = UserOf[w]
        BY DEF ConnInv
    <2>1. CASE ws[w].stage # "idle"
        BY <1>0, <1>g, <1>s, <1>c, <2>1 DEF ConnInv
    <2>2. CASE ws[w].stage = "idle"
        BY <1>g, <1>w, <2>2
    <2> QED BY <2>1, <2>2
  <1>4. WrapperInv'
      BY <1>0, <1>w DEF WrapperInv, Attached
  <1>5. \A w \in Ws : Attached(w)' <=> Attached(w)
      BY <1>s, <1>w DEF Attached
  <1>6. CallsInv'
    <2> SUFFICES ASSUME NEW c \in Conn, NEW i \in 1..Len(calls[c])
                 PROVE  Attached(calls[c][i].ws)'
        BY DEF CallsInv
    <2>1. calls[c][i] \in Call
        BY <1>0 DEF FrontTypeOK
    <2>2. calls[c][i].ws \in Ws /\ Attached(calls[c][i].ws)
        BY <1>0, <2>1 DEF CallsInv, Call
    <2> QED BY <1>5, <2>2 DEF Attached
  <1>7. EngineInv'
    <2> SUFFICES ASSUME NEW w \in Ws, ws'[w].stage = "engine", ~expectClose',
                        direct'[ws'[w].conn].promise = "engine"
                 PROVE  direct'[ws'[w].conn].line # "closed"
        BY DEF EngineInv
    <2>1. CASE ws[w].stage = "idle"
        BY <1>g, <1>w, <2>1
    <2>2. CASE ws[w].stage # "idle"
        BY <1>s, <2>2 DEF Quiet, Runnable
    <2> QED BY <2>1, <2>2
  <1>8. ListenInv'
    <2> SUFFICES ASSUME NEW w \in listening
                 PROVE  /\ Attached(w)'
                        /\ ~expectClose => direct'[ws'[w].conn].line # "closed"
        BY <1>g DEF ListenInv
    <2>1. w \in Ws /\ Attached(w) /\ ws[w].stage # "idle"
        BY <1>0 DEF FrontTypeOK, ListenInv, Attached
    <2>2. ws'[w] = ws[w] /\ direct'[ws[w].conn] = direct[ws[w].conn]
        BY <1>s, <2>1
    <2> QED BY <1>0, <1>5, <2>1, <2>2 DEF ListenInv
  <1>9. LossInv'
    <2> SUFFICES ASSUME NEW w \in Ws, Attached(w)', ws'[w].browser = "open", ~expectClose
                 PROVE  w \in listening \cup deaf
        BY <1>g DEF LossInv
    <2>1. Attached(w) /\ ws'[w] = ws[w]
        BY <1>5, <1>s DEF Attached
    <2> QED BY <1>0, <2>1 DEF LossInv
  <1> QED BY <1>1, <1>2, <1>f, <1>3, <1>4, <1>6, <1>7, <1>8, <1>9 DEF FrontInv

-----------------------------------------------------------------------------
(* The steps.                                                               *)

\* doConversation, setUser, and pages that ask for an engine.
LEMMA OpenStep == ASSUME FrontInv, NEW w \in Ws, Open(w) PROVE FrontInv'
  <1> DEFINE u == UserOf[w]
             s == [ws[w] EXCEPT !.stage = "engine", !.conn = EngineConn(u)]
  <1>0. u \in User
      BY WebsocketAssumption
  <1>1. GetEngine(u) /\ Quiet /\ UNCHANGED <<listening, deaf, calls>> /\ ws[w].stage = "idle"
      BY DEF Open
  <1>2. EngineConn(u) \in Conn
      BY <1>0, <1>1, GetEngineFacts
  <1>3. ws \in [Ws -> Websocket]
      BY DEF FrontInv, FrontTypeOK
  <1>4. /\ s \in Websocket /\ s.stage = "engine" /\ s.conn = EngineConn(u)
        /\ s.wrapper = ws[w].wrapper
      BY <1>2, <1>3, ZenonT(200) DEF Websocket, Stage
  <1>5. ws' = [ws EXCEPT ![w] = s]
      BY <1>3 DEF Open
  <1> HIDE DEF s
  <1>6. /\ ws' \in [Ws -> Websocket] /\ ws'[w] = s
        /\ \A x \in Ws \ {w} : ws'[x] = ws[x]
      BY <1>3, <1>4, <1>5
  <1>7. \A x \in Ws : \/ ws'[x] = ws[x]
                     \/ /\ ws[x].stage = "idle" /\ ws'[x].stage = "engine"
                        /\ ws'[x].conn = EngineConn(u) /\ UserOf[x] = u
                        /\ ws'[x].wrapper = ws[x].wrapper
      BY <1>1, <1>4, <1>6
  <1> HIDE DEF u
  <1> QED BY <1>0, <1>1, <1>6, <1>7, GetEngineStep

LEMMA PageStep == ASSUME FrontInv, NEW u \in User, Page(u) PROVE FrontInv'
  <1>1. GetEngine(u) /\ Quiet /\ UNCHANGED <<ws, listening, deaf, calls>>
      BY DEF Page, socketVars
  <1>2. ws' \in [Ws -> Websocket]
      BY <1>1 DEF FrontInv, FrontTypeOK
  <1> QED BY <1>1, <1>2, GetEngineStep

\* The promise job that attaches the listener.
LEMMA GotEngineStep == ASSUME FrontInv, NEW w \in Ws, GotEngine(w) PROVE FrontInv'
  <1>0. FrontTypeOK /\ CacheInv /\ FreshInv /\ ConnInv /\ WrapperInv /\ CallsInv
        /\ EngineInv /\ ListenInv /\ LossInv
      BY DEF FrontInv
  <1>1. /\ ws \in [Ws -> Websocket] /\ ws[w] \in Websocket
        /\ ws[w].stage = "engine" /\ ws[w].conn \in Conn
      BY <1>0 DEF GotEngine, Runnable, FrontTypeOK, ConnInv
  <1>2. UNCHANGED <<cached, direct, opened, expectClose, control, line, reconnects, severed>>
      BY DEF GotEngine, clientVars
  <1>3. /\ ws' \in [Ws -> Websocket]
        /\ calls' \in [Conn -> Seq(Call)]
        /\ \A x \in Ws \ {w} : ws'[x] = ws[x]
        /\ ws'[w].conn = ws[w].conn
        /\ Attached(w)'
        /\ CallsInv'
        /\ deaf' = deaf
        /\ \/ /\ listening' = listening \cup {w}
              /\ direct[ws[w].conn].promise = "engine"
           \/ listening' = listening /\ ws'[w].browser # "open"
    <2>1. CASE direct[ws[w].conn].promise = "engine"
      <3> DEFINE s == [ws[w] EXCEPT !.stage = "opening"]
      <3>1. s \in Websocket /\ s.stage = "opening" /\ s.conn = ws[w].conn
          BY <1>1 DEF Websocket, Stage
      <3>2. Calls(w, s, "open", 0) /\ listening' = listening \cup {w} /\ deaf' = deaf
          BY <2>1 DEF GotEngine
      <3> HIDE DEF s
      <3>3. "open" \in Operations /\ 0 \in Nat
          BY DEF Operations
      <3>4. /\ ws' \in [Ws -> Websocket]
            /\ calls' \in [Conn -> Seq(Call)]
            /\ \A x \in Ws \ {w} : ws'[x] = ws[x]
            /\ ws'[w].conn = s.conn
            /\ ws'[w].stage \in {s.stage, "failed"}
            /\ CallsInv'
          BY <1>1, <3>1, <3>2, <3>3, CallsFacts
      <3> QED BY <2>1, <3>1, <3>2, <3>4 DEF Attached
    <2>2. CASE direct[ws[w].conn].promise # "engine"
      <3> DEFINE s == Rejected(ws[w], {"open"})
      <3>1. s \in Websocket /\ s.conn = ws[w].conn /\ s.browser # "open"
          BY <1>1, RejectedFacts
      <3>2. s.stage = "failed"
          BY <1>1 DEF Rejected, Websocket
      <3>3. ws' = [ws EXCEPT ![w] = s] /\ UNCHANGED <<listening, deaf, calls>>
          BY <1>1, <2>2 DEF GotEngine
      <3> HIDE DEF s
      <3>4. /\ ws' \in [Ws -> Websocket] /\ ws'[w] = s
            /\ \A x \in Ws \ {w} : ws'[x] = ws[x]
          BY <1>1, <3>1, <3>3
      <3>5. CallsInv'
        <4> SUFFICES ASSUME NEW c \in Conn, NEW i \in 1..Len(calls[c])
                     PROVE  Attached(calls[c][i].ws)'
            BY <3>3 DEF CallsInv
        <4>1. calls[c][i] \in Call
            BY <1>0 DEF FrontTypeOK
        <4>2. calls[c][i].ws \in Ws /\ Attached(calls[c][i].ws)
            BY <1>0, <4>1 DEF CallsInv, Call
        <4> QED BY <1>1, <3>3, <3>4, <4>2 DEF Attached
      <3> QED BY <1>0, <3>1, <3>2, <3>3, <3>4, <3>5 DEF Attached, FrontTypeOK
    <2> QED BY <2>1, <2>2
  <1>4. FrontTypeOK'
      BY <1>0, <1>2, <1>3 DEF FrontTypeOK
  <1>5. CacheInv' /\ FreshInv'
      BY <1>0, <1>2 DEF CacheInv, FreshInv
  <1>6. ConnInv'
      BY <1>0, <1>1, <1>2, <1>3 DEF ConnInv
  <1>7. WrapperInv'
      BY <1>0, <1>3 DEF WrapperInv, Attached
  <1>8. EngineInv'
      BY <1>0, <1>2, <1>3 DEF EngineInv, Attached
  <1>9. ListenInv'
    <2> SUFFICES ASSUME NEW x \in listening'
                 PROVE  /\ Attached(x)'
                        /\ ~expectClose => direct[ws'[x].conn].line # "closed"
        BY <1>2 DEF ListenInv
    <2>1. CASE x = w
        BY <1>0, <1>1, <1>3, <2>1 DEF EngineInv, ListenInv, Attached
    <2>2. CASE x # w
        BY <1>0, <1>3, <2>2 DEF ListenInv, Attached, FrontTypeOK
    <2> QED BY <2>1, <2>2
  <1>10. LossInv'
    <2> SUFFICES ASSUME NEW x \in Ws, Attached(x)', ws'[x].browser = "open", ~expectClose
                 PROVE  x \in listening' \cup deaf'
        BY <1>2 DEF LossInv
    <2>1. CASE x = w
        BY <1>3, <2>1
    <2>2. CASE x # w
        BY <1>0, <1>2, <1>3, <2>2 DEF LossInv, Attached
    <2> QED BY <2>1, <2>2
  <1> QED BY <1>3, <1>4, <1>5, <1>6, <1>7, <1>8, <1>9, <1>10 DEF FrontInv

-----------------------------------------------------------------------------
(* Steps that move one websocket.                                           *)

LEMMA OneMoves ==
    ASSUME FrontInv, NEW w \in Ws, NEW t \in Websocket,
           ws' = [ws EXCEPT ![w] = t],
           t.conn = ws[w].conn,
           t.stage = ws[w].stage \/ (Attached(w) /\ t.stage \notin {"idle", "engine"}),
           t.browser = "open" => ws[w].browser = "open",
           t.wrapper # "none" => ws[w].wrapper # "none" \/ Attached(w)
    PROVE  ws' \in [Ws -> Websocket] /\ \A x \in Ws : SocketStep(x)
  <1>1. ws \in [Ws -> Websocket] /\ WrapperInv
      BY DEF FrontInv, FrontTypeOK
  <1>2. /\ ws' \in [Ws -> Websocket] /\ ws'[w] = t
        /\ \A x \in Ws : x # w => ws'[x] = ws[x]
      BY <1>1
  <1>3. SocketStep(w)
      BY <1>1, <1>2 DEF SocketStep, WrapperInv, Attached
  <1>4. \A x \in Ws : x # w => SocketStep(x)
      BY <1>1, <1>2 DEF SocketStep, WrapperInv, Attached
  <1> QED BY <1>2, <1>3, <1>4

\* Who was called has an engine still.
LEMMA CallsStay ==
    ASSUME FrontInv, \A w \in Ws : SocketStep(w),
           \A c \in Conn : \A i \in 1..Len(calls'[c]) :
               \/ calls'[c][i].ws \in Ws /\ Attached(calls'[c][i].ws)
               \/ \E j \in 1..Len(calls[c]) : calls'[c][i] = calls[c][j]
    PROVE  CallsInv'
  <1>1. calls \in [Conn -> Seq(Call)] /\ CallsInv
      BY DEF FrontInv, FrontTypeOK
  <1>2. \A w \in Ws : Attached(w) => ws'[w].stage \notin {"idle", "engine"}
      BY DEF SocketStep, Attached
  <1> SUFFICES ASSUME NEW c \in Conn, NEW i \in 1..Len(calls'[c])
               PROVE  ws'[calls'[c][i].ws].stage \notin {"idle", "engine"}
      BY DEF CallsInv, Attached
  <1>3. CASE calls'[c][i].ws \in Ws /\ Attached(calls'[c][i].ws)
      BY <1>2, <1>3
  <1>4. CASE \E j \in 1..Len(calls[c]) : calls'[c][i] = calls[c][j]
    <2>1. PICK j \in 1..Len(calls[c]) : calls'[c][i] = calls[c][j]
        BY <1>4
    <2>2. calls[c][j] \in Call
        BY <1>1
    <2>3. calls[c][j].ws \in Ws /\ Attached(calls[c][j].ws)
        BY <1>1, <2>2 DEF CallsInv, Call
    <2> QED BY <1>2, <2>1, <2>3
  <1> QED BY <1>3, <1>4

\* A websocket with an engine calls it.
LEMMA CallStep ==
    ASSUME FrontInv, NEW w \in Ws, NEW s \in Websocket, NEW op \in Operations,
           NEW n \in Nat, Calls(w, s, op, n), UNCHANGED <<clientVars, listening, deaf>>,
           Attached(w), s.stage = ws[w].stage, s.conn = ws[w].conn,
           s.browser = "open" => ws[w].browser = "open"
    PROVE  FrontInv'
  <1>1. s.conn \in Conn /\ s.stage \notin {"idle", "engine"}
      BY DEF FrontInv, ConnInv, Attached
  <1>2. /\ ws' \in [Ws -> Websocket]
        /\ calls' \in [Conn -> Seq(Call)]
        /\ \A x \in Ws \ {w} : ws'[x] = ws[x]
        /\ ws'[w].conn = s.conn
        /\ ws'[w].stage \in {s.stage, "failed"}
        /\ ws'[w].browser = "open" => s.browser = "open"
        /\ CallsInv'
      BY <1>1, CallsFacts
  <1>3. \A x \in Ws : SocketStep(x)
      BY <1>1, <1>2, ZenonT(60) DEF SocketStep, Attached, FrontInv, WrapperInv
  <1> QED BY <1>2, <1>3, SocketsOnly

\* A message of the browser.
LEMMA MessageStep == ASSUME FrontInv, NEW w \in Ws, Message(w) PROVE FrontInv'
  <1> DEFINE s == [ws[w] EXCEPT !.sent = @ + 1]
  <1>0. ws \in [Ws -> Websocket] /\ calls \in [Conn -> Seq(Call)]
        /\ WrapperInv /\ CallsInv
      BY DEF FrontInv, FrontTypeOK
  <1>1. /\ s \in Websocket /\ s.stage = ws[w].stage /\ s.conn = ws[w].conn
        /\ s.browser = ws[w].browser /\ s.wrapper = ws[w].wrapper
        /\ s.sent \in Nat /\ s.queue \in Seq(Nat)
    <2>1. ws[w] \in Websocket /\ ws[w].sent + 1 \in Nat
        BY <1>0 DEF Websocket
    <2> QED BY <2>1 DEF Websocket
  <1>2. UNCHANGED <<clientVars, listening, deaf>>
      BY DEF Message
  <1>3. \/ ~Direct(w) /\ ws' = [ws EXCEPT ![w] = Queued(s, s.sent)] /\ UNCHANGED calls
        \/ ws' = [ws EXCEPT ![w] = s] /\ UNCHANGED calls
        \/ Direct(w) /\ Calls(w, s, "handle", s.sent)
      BY DEF Message
  <1> HIDE DEF s
  <1>4. Queued(s, s.sent) \in Websocket /\ Queued(s, s.sent).stage = s.stage
        /\ Queued(s, s.sent).conn = s.conn /\ Queued(s, s.sent).browser = s.browser
        /\ Queued(s, s.sent).wrapper = s.wrapper
    <2>1. Append(s.queue, s.sent) \in Seq(Nat)
        BY <1>1
    <2> QED BY <1>1, <2>1 DEF Queued, Websocket
  <1>5. CASE \E t \in {s, Queued(s, s.sent)} : ws' = [ws EXCEPT ![w] = t] /\ UNCHANGED calls
    <2>1. PICK t \in {s, Queued(s, s.sent)} : ws' = [ws EXCEPT ![w] = t] /\ UNCHANGED calls
        BY <1>5
    <2>2. /\ t \in Websocket /\ t.stage = ws[w].stage /\ t.conn = ws[w].conn
          /\ t.browser = ws[w].browser /\ t.wrapper = ws[w].wrapper
        BY <1>1, <1>4
    <2>3. ws' \in [Ws -> Websocket] /\ \A x \in Ws : SocketStep(x)
        BY <2>1, <2>2, OneMoves
    <2>4. CallsInv'
        BY <2>1, <2>3, CallsStay
    <2> QED BY <1>0, <1>2, <2>1, <2>3, <2>4, SocketsOnly
  <1>6. CASE Direct(w) /\ Calls(w, s, "handle", s.sent)
    <2>1. Attached(w)
        BY <1>0, <1>6 DEF Direct, WrapperInv, Attached
    <2>2. "handle" \in Operations
        BY DEF Operations
    <2> QED BY <1>1, <1>2, <1>6, <2>1, <2>2, CallStep
  <1> QED BY <1>3, <1>5, <1>6

\* The browser leaves.
LEMMA BrowserClosedStep == ASSUME FrontInv, NEW w \in Ws, BrowserClosed(w) PROVE FrontInv'
  <1> DEFINE s == [ws[w] EXCEPT !.browser = "closed"]
             d == [s EXCEPT !.wrapper = "destroying"]
  <1>0. ws \in [Ws -> Websocket] /\ calls \in [Conn -> Seq(Call)]
        /\ WrapperInv /\ CallsInv
      BY DEF FrontInv, FrontTypeOK
  <1>1. /\ s \in Websocket /\ s.stage = ws[w].stage /\ s.conn = ws[w].conn
        /\ s.browser = "closed" /\ s.wrapper = ws[w].wrapper
        /\ d \in Websocket /\ d.stage = ws[w].stage /\ d.conn = ws[w].conn
        /\ d.browser = "closed"
      BY <1>0, ZenonT(60) DEF Websocket
  <1>2. UNCHANGED <<clientVars, listening, deaf>>
      BY DEF BrowserClosed
  <1>3. \/ ws' = [ws EXCEPT ![w] = s] /\ UNCHANGED calls
        \/ ws[w].wrapper = "live" /\ Calls(w, d, "destroy", 0)
      BY <1>1 DEF BrowserClosed
  <1> HIDE DEF s, d
  <1>4. CASE ws' = [ws EXCEPT ![w] = s] /\ UNCHANGED calls
    <2>1. ws' \in [Ws -> Websocket] /\ \A x \in Ws : SocketStep(x)
        BY <1>1, <1>4, OneMoves
    <2>2. CallsInv'
        BY <1>4, <2>1, CallsStay
    <2> QED BY <1>0, <1>2, <1>4, <2>1, <2>2, SocketsOnly
  <1>5. CASE ws[w].wrapper = "live" /\ Calls(w, d, "destroy", 0)
    <2>1. Attached(w)
        BY <1>0, <1>5 DEF WrapperInv
    <2>2. "destroy" \in Operations /\ 0 \in Nat
        BY DEF Operations
    <2> QED BY <1>1, <1>2, <1>5, <2>1, <2>2, CallStep
  <1> QED BY <1>3, <1>4, <1>5

\* The oldest call over c is answered, and perhaps the next one is made.
LEMMA AnswerStep ==
    ASSUME FrontInv, NEW c \in Conn, calls[c] # <<>>,
           NEW w, w = Head(calls[c]).ws, NEW t \in Websocket,
           UNCHANGED <<clientVars, listening, deaf>>,
           ws' = [ws EXCEPT ![w] = t],
           t.conn = ws[w].conn,
           t.stage = ws[w].stage \/ t.stage \notin {"idle", "engine"},
           t.browser = "open" => ws[w].browser = "open",
           \/ calls' = [calls EXCEPT ![c] = Tail(calls[c])]
           \/ \E k \in Call : /\ k.ws = w
                              /\ calls' = [calls EXCEPT ![c] = Append(Tail(calls[c]), k)]
    PROVE  FrontInv'
  <1>0. calls \in [Conn -> Seq(Call)] /\ calls[c] \in Seq(Call) /\ CallsInv
      BY DEF FrontInv, FrontTypeOK
  <1>1. Head(calls[c]) = calls[c][1] /\ 1 \in 1..Len(calls[c]) /\ calls[c][1] \in Call
      BY <1>0
  <1>2. w \in Ws /\ Attached(w)
      BY <1>0, <1>1, SMTT(60) DEF CallsInv, Call
  <1>3. ws' \in [Ws -> Websocket] /\ \A x \in Ws : SocketStep(x)
      BY <1>2, OneMoves
  <1>4. Tail(calls[c]) \in Seq(Call) /\ Len(Tail(calls[c])) = Len(calls[c]) - 1
        /\ \A i \in 1..Len(Tail(calls[c])) : /\ i + 1 \in 1..Len(calls[c])
                                             /\ Tail(calls[c])[i] = calls[c][i + 1]
      BY <1>0, <1>1
  <1> DEFINE rest == Tail(calls[c])
  <1>5. rest \in Seq(Call) /\ \A i \in 1..Len(rest) : \E j \in 1..Len(calls[c]) : rest[i] = calls[c][j]
      BY <1>4, SMTT(60)
  <1>6. \/ calls' = [calls EXCEPT ![c] = rest]
        \/ \E k \in Call : k.ws = w /\ calls' = [calls EXCEPT ![c] = Append(rest, k)]
      BY SMTT(60)
  <1> HIDE DEF rest
  <1>7. CASE calls' = [calls EXCEPT ![c] = rest]
    <2>1. calls' \in [Conn -> Seq(Call)] /\ calls'[c] = rest
          /\ \A d \in Conn : d # c => calls'[d] = calls[d]
        BY <1>0, <1>5, <1>7
    <2>2. \A d \in Conn : \A i \in 1..Len(calls'[d]) :
              \E j \in 1..Len(calls[d]) : calls'[d][i] = calls[d][j]
      <3> SUFFICES ASSUME NEW d \in Conn, NEW i \in 1..Len(calls'[d])
                   PROVE  \E j \in 1..Len(calls[d]) : calls'[d][i] = calls[d][j]
          OBVIOUS
      <3>1. CASE d = c
          BY <1>5, <2>1, <3>1
      <3>2. CASE d # c
          BY <2>1, <3>2, SMTT(60)
      <3> QED BY <3>1, <3>2
    <2>3. CallsInv'
        BY <1>3, <2>2, CallsStay
    <2> QED BY <1>3, <2>1, <2>3, SocketsOnly
  <1>8. CASE \E k \in Call : k.ws = w /\ calls' = [calls EXCEPT ![c] = Append(rest, k)]
    <2>0. PICK k \in Call : k.ws = w /\ calls' = [calls EXCEPT ![c] = Append(rest, k)]
        BY <1>8
    <2> DEFINE new == Append(rest, k)
    <2>1. new \in Seq(Call)
          /\ \A i \in 1..Len(new) : new[i] = k \/ (i \in 1..Len(rest) /\ new[i] = rest[i])
        BY <1>5, SMTT(60)
    <2>2. calls' = [calls EXCEPT ![c] = new]
        BY <2>0
    <2> HIDE DEF new
    <2>3. calls' \in [Conn -> Seq(Call)] /\ calls'[c] = new
          /\ \A d \in Conn : d # c => calls'[d] = calls[d]
        BY <1>0, <2>1, <2>2, SMTT(60)
    <2>4. \A d \in Conn : \A i \in 1..Len(calls'[d]) :
              \/ calls'[d][i].ws \in Ws /\ Attached(calls'[d][i].ws)
              \/ \E j \in 1..Len(calls[d]) : calls'[d][i] = calls[d][j]
      <3> SUFFICES ASSUME NEW d \in Conn, NEW i \in 1..Len(calls'[d])
                   PROVE  \/ calls'[d][i].ws \in Ws /\ Attached(calls'[d][i].ws)
                          \/ \E j \in 1..Len(calls[d]) : calls'[d][i] = calls[d][j]
          BY SMTT(60)
      <3>1. CASE d = c /\ calls'[d][i] = k
          BY <1>2, <2>0, <3>1, SMTT(60)
      <3>2. CASE d = c /\ calls'[d][i] # k
          BY <1>5, <2>1, <2>3, <3>2
      <3>3. CASE d # c
          BY <2>3, <3>3, SMTT(60)
      <3> QED BY <3>1, <3>2, <3>3, SMTT(60)
    <2>a. \A x \in Ws : SocketStep(x)
        BY ONLY <1>3
    <2>5. CallsInv'
        BY ONLY FrontInv, <2>a, <2>4, CallsStay, SMTT(60)
    <2> QED BY <1>3, <2>3, <2>5, SocketsOnly
  <1> QED BY <1>6, <1>7, <1>8

\* The oldest call fails in the engine.
LEMMA EngineRefusesStep == ASSUME FrontInv, NEW c \in Conn, EngineRefuses(c) PROVE FrontInv'
  <1> DEFINE call == Head(calls[c])
             w == call.ws
  <1>0. ws \in [Ws -> Websocket] /\ calls \in [Conn -> Seq(Call)] /\ CallsInv
      BY DEF FrontInv, FrontTypeOK
  <1>1. /\ calls[c] # <<>>
        /\ calls' = [calls EXCEPT ![c] = Tail(calls[c])]
        /\ UNCHANGED <<clientVars, listening, deaf>>
      BY <1>0 DEF EngineRefuses
  <1>2. call = calls[c][1] /\ 1 \in 1..Len(calls[c]) /\ calls[c][1] \in Call
      BY <1>0, <1>1
  <1>3. w \in Ws /\ Attached(w) /\ call.msg \in Nat
      BY <1>0, <1>2 DEF CallsInv, Call
  <1>4. ws[w] \in Websocket
      BY <1>0, <1>3, SMTT(60)
  <1> DEFINE d == [ws[w] EXCEPT !.delivered = Append(@, call.msg)]
  <1>5. /\ d \in Websocket /\ d.stage = ws[w].stage /\ d.conn = ws[w].conn
        /\ d.browser = ws[w].browser
    <2>1. Append(ws[w].delivered, call.msg) \in Seq(Nat)
        BY <1>3, <1>4 DEF Websocket
    <2> QED BY <1>4, <2>1, ZenonT(120) DEF Websocket
  <1>6. \E s \in {ws[w], d} : ws' = [ws EXCEPT ![w] = Rejected(s, {call.op})]
      BY ZenonT(120) DEF EngineRefuses
  <1> HIDE DEF d
  <1>7. PICK s \in {ws[w], d} : ws' = [ws EXCEPT ![w] = Rejected(s, {call.op})]
      BY <1>6
  <1> DEFINE t == Rejected(s, {call.op})
  <1>8. /\ t \in Websocket /\ t.conn = ws[w].conn
        /\ t.stage = ws[w].stage \/ t.stage \notin {"idle", "engine"}
        /\ t.browser = "open" => ws[w].browser = "open"
      BY <1>4, <1>5, RejectedFacts
  <1>9. ws' = [ws EXCEPT ![w] = t] /\ w = Head(calls[c]).ws
      BY <1>7
  <1> HIDE DEF t, w, call
  <1> QED BY <1>1, <1>8, <1>9, AnswerStep

\* The oldest call is carried out.
LEMMA EngineAnswersStep == ASSUME FrontInv, NEW c \in Conn, EngineAnswers(c) PROVE FrontInv'
  <1> DEFINE call == Head(calls[c])
             w == call.ws
             s == CASE call.op = "open"    -> [ws[w] EXCEPT !.wrapper = "live",
                                                            !.remote = "open"]
                    [] call.op = "destroy" -> [ws[w] EXCEPT !.wrapper = "freed",
                                                            !.remote = "gone"]
                    [] OTHER -> [ws[w] EXCEPT !.delivered = Append(@, call.msg)]
  <1>0. ws \in [Ws -> Websocket] /\ calls \in [Conn -> Seq(Call)] /\ CallsInv
      BY DEF FrontInv, FrontTypeOK
  <1>1. calls[c] # <<>> /\ UNCHANGED <<clientVars, listening, deaf>>
      BY ZenonT(120) DEF EngineAnswers
  <1>2. call = calls[c][1] /\ 1 \in 1..Len(calls[c]) /\ calls[c][1] \in Call
      BY <1>0, <1>1, SMTT(200)
  <1>3. w \in Ws /\ Attached(w) /\ call.msg \in Nat
      BY <1>0, <1>2 DEF CallsInv, Call
  <1>4. ws[w] \in Websocket
      BY ONLY <1>0, <1>3
  <1>5. /\ s \in Websocket /\ s.stage = ws[w].stage /\ s.conn = ws[w].conn
        /\ s.browser = ws[w].browser
    <2>1. Append(ws[w].delivered, call.msg) \in Seq(Nat)
        BY <1>3, <1>4 DEF Websocket
    <2> QED BY <1>4, <2>1, ZenonT(60) DEF Websocket
  <1>6. \/ GoesOn(c, w, s)
        \/ ws' = [ws EXCEPT ![w] = s] /\ calls' = [calls EXCEPT ![c] = Tail(calls[c])]
      BY <1>0, SMTT(60) DEF EngineAnswers
  <1>7. w = Head(calls[c]).ws
      OBVIOUS
  <1> HIDE DEF s, w, call
  <1>8. CASE ws' = [ws EXCEPT ![w] = s] /\ calls' = [calls EXCEPT ![c] = Tail(calls[c])]
      BY <1>1, <1>5, <1>7, <1>8, AnswerStep
  <1>9. CASE GoesOn(c, w, s)
    <2> DEFINE t1 == [s EXCEPT !.stage = "opened"]
               t2 == Rejected(s, {"flush"})
               t3 == [s EXCEPT !.stage = "flushing", !.queue = Tail(@)]
               k  == [op |-> "flush", ws |-> w, msg |-> Head(s.queue)]
    <2>1. CASE s.queue = <<>>
      <3>1. /\ t1 \in Websocket /\ t1.stage = "opened" /\ t1.conn = ws[w].conn
            /\ t1.browser = ws[w].browser
          BY <1>5 DEF Websocket, Stage
      <3>2. ws' = [ws EXCEPT ![w] = t1] /\ calls' = [calls EXCEPT ![c] = Tail(calls[c])]
          BY <1>0, <1>9, <2>1 DEF GoesOn
      <3> HIDE DEF t1
      <3> QED BY <1>1, <1>7, <3>1, <3>2, AnswerStep
    <2>2. CASE s.queue # <<>> /\ s.wrapper = "freed" /\ Kind[w] = "conversation"
      <3>1. /\ t2 \in Websocket /\ t2.conn = ws[w].conn
            /\ t2.stage = ws[w].stage \/ t2.stage \notin {"idle", "engine"}
            /\ t2.browser = "open" => ws[w].browser = "open"
          BY <1>5, RejectedFacts
      <3>2. ws' = [ws EXCEPT ![w] = t2] /\ calls' = [calls EXCEPT ![c] = Tail(calls[c])]
          BY <1>0, <1>9, <2>2 DEF GoesOn
      <3> HIDE DEF t2
      <3> QED BY <1>1, <1>7, <3>1, <3>2, AnswerStep
    <2>3. CASE s.queue # <<>> /\ ~(s.wrapper = "freed" /\ Kind[w] = "conversation")
      <3>0. s.queue \in Seq(Nat) /\ Tail(s.queue) \in Seq(Nat) /\ Head(s.queue) \in Nat
          BY <1>5, <2>3 DEF Websocket
      <3>1. /\ t3 \in Websocket /\ t3.stage = "flushing" /\ t3.conn = ws[w].conn
            /\ t3.browser = ws[w].browser
          BY <1>5, <3>0 DEF Websocket, Stage
      <3>2. k \in Call /\ k.ws = w
          BY <1>3, <3>0 DEF Call, Operations
      <3>3. /\ ws' = [ws EXCEPT ![w] = t3]
            /\ calls' = [calls EXCEPT ![c] = Append(Tail(calls[c]), k)]
          BY <1>0, <1>9, <2>3 DEF GoesOn
      <3> HIDE DEF t3, k
      <3>4. \E q \in Call : /\ q.ws = w
                            /\ calls' = [calls EXCEPT ![c] = Append(Tail(calls[c]), q)]
          BY <3>2, <3>3
      <3> QED BY <1>1, <1>7, <3>1, <3>3, <3>4, AnswerStep
    <2> QED BY <2>1, <2>2, <2>3
  <1> QED BY <1>6, <1>8, <1>9, SMTT(60)

-----------------------------------------------------------------------------
(* Steps of connections, and the client's own.                              *)

LEMMA ReadyStep == ASSUME FrontInv, NEW c \in Conn, Ready(c) PROVE FrontInv'
  <1>1. CallsInv' /\ \A w \in Ws : SocketStep(w)
      BY ClientOnly DEF Ready
  <1>2. direct \in [Conn -> Connection] /\ FrontTypeOK
      BY DEF FrontInv, FrontTypeOK
  <1>3. /\ direct' = [direct EXCEPT ![c].promise = "engine"]
        /\ direct[c].line # "closed"
        /\ UNCHANGED <<cached, opened, expectClose, control, line, reconnects, severed>>
        /\ UNCHANGED <<ws, listening, deaf, calls>>
      BY DEF Ready, EngineReady, controlVars, socketVars
  <1>4. direct' \in [Conn -> Connection]
      BY <1>2, <1>3 DEF Connection
  <1>5. FrontTypeOK'
      BY <1>2, <1>3, <1>4 DEF FrontTypeOK
  <1>6. \A d \in Conn :
           /\ direct'[d].user = direct[d].user
           /\ direct[d].line = "none" => direct'[d].line = "none"
           /\ direct'[d].line = "closed" <=> direct[d].line = "closed"
           /\ direct'[d].promise = "engine" =>
                  direct[d].promise = "engine" \/ direct[d].line # "closed"
      BY <1>2, <1>3 DEF Connection
  <1>7. \A u \in User : cached'[u] \in {cached[u], None}
      BY <1>3
  <1> QED BY <1>1, <1>3, <1>5, <1>6, <1>7, GentleStep

LEMMA OperationStep == ASSUME FrontInv, NEW u \in User, Operation(u) PROVE FrontInv'
  <1>1. CallsInv' /\ \A w \in Ws : SocketStep(w)
      BY ClientOnly DEF Operation
  <1>2. cached \in [User -> Conn \cup {None}] /\ FrontTypeOK
      BY DEF FrontInv, FrontTypeOK
  <1>3. /\ cached' = [cached EXCEPT ![u] = None]
        /\ UNCHANGED <<direct, opened, expectClose, control, line, reconnects, severed>>
        /\ UNCHANGED <<ws, listening, deaf, calls>>
      BY DEF Operation, Forget, controlVars, socketVars
  <1>4. FrontTypeOK'
      BY <1>2, <1>3 DEF FrontTypeOK
  <1>5. \A v \in User : cached'[v] \in {cached[v], None}
      BY <1>2, <1>3
  <1> QED BY <1>1, <1>3, <1>4, <1>5, GentleStep

LEMMA ControlStep == ASSUME FrontInv, NEW s \in Shard, Control(s) PROVE FrontInv'
  <1>1. CallsInv' /\ \A w \in Ws : SocketStep(w)
      BY ClientOnly DEF Control
  <1>2. FrontTypeOK
      BY DEF FrontInv
  <1>3. /\ UNCHANGED <<cached, direct, opened, expectClose>>
        /\ UNCHANGED <<ws, listening, deaf, calls>>
      BY DEF Control, ControlReady, ControlClosed, Reconnect, socketVars
  <1>4. /\ control' \subseteq Shard /\ line' \subseteq Shard
        /\ reconnects' \in [Shard -> Nat]
        /\ severed' \in [Shard -> 0..MaxSever]
    <2>0. MaxSever \in Nat
        BY ClientAssumption
    <2>1. CASE ControlReady(s)
        BY <1>2, <2>1 DEF ControlReady, FrontTypeOK
    <2>2. CASE ControlClosed(s)
      <3>1. control' \subseteq Shard /\ line' \subseteq Shard
          BY <1>2, <2>2 DEF ControlClosed, ControlAfterClose, FrontTypeOK
      <3>2. CASE expectClose
          BY <1>2, <2>2, <3>1, <3>2 DEF ControlClosed, FrontTypeOK
      <3>3. CASE ~expectClose
        <4>1. /\ severed[s] < MaxSever
              /\ reconnects' = [reconnects EXCEPT ![s] = reconnects[s] + 1]
              /\ severed' = [severed EXCEPT ![s] = severed[s] + 1]
            BY <2>2, <3>3 DEF ControlClosed
        <4>2. /\ reconnects \in [Shard -> Nat] /\ severed \in [Shard -> 0..MaxSever]
              /\ reconnects[s] + 1 \in Nat /\ severed[s] + 1 \in 0..MaxSever
            BY <1>2, <2>0, <4>1, SMTT(60) DEF FrontTypeOK
        <4> QED BY <3>1, <4>1, <4>2
      <3> QED BY <3>2, <3>3
    <2>3. CASE Reconnect(s)
        BY <1>2, <2>3 DEF Reconnect, FrontTypeOK
    <2> QED BY <2>1, <2>2, <2>3 DEF Control
  <1>5. FrontTypeOK'
      BY <1>2, <1>3, <1>4 DEF FrontTypeOK
  <1>6. \A v \in User : cached'[v] \in {cached[v], None}
      BY <1>3
  <1> QED BY <1>1, <1>3, <1>5, <1>6, GentleStep

\* What the end of the connections in C does to the websockets.
LEMMA DroppedFacts ==
    ASSUME FrontInv, NEW C \in SUBSET Conn, NEW rejects \in BOOLEAN,
           ws' \in [Ws -> {ws'[w] : w \in Ws}],
           \A w \in Ws : \E users :
               ws'[w] = Notified(w, Dropped(C, rejects)[w], users),
           calls' = NoCalls(C)
    PROVE  /\ ws' \in [Ws -> Websocket] /\ calls' \in [Conn -> Seq(Call)]
           /\ CallsInv'
           /\ \A w \in Ws : SocketStep(w)
  <1>0. /\ ws \in [Ws -> Websocket] /\ calls \in [Conn -> Seq(Call)]
        /\ CallsInv /\ WrapperInv /\ ConnInv
      BY DEF FrontInv, FrontTypeOK
  <1>1. \A w \in Ws : ws'[w] \in Websocket /\ SocketStep(w)
    <2> SUFFICES ASSUME NEW w \in Ws PROVE ws'[w] \in Websocket /\ SocketStep(w)
        OBVIOUS
    <2> DEFINE d == Dropped(C, rejects)[w]
    <2>1. ws[w] \in Websocket
        BY <1>0
    <2>2. \/ d = ws[w]
          \/ /\ ws[w].conn \in C /\ Pending(w, ws[w].conn) # {}
             /\ d = Rejected(ws[w], Pending(w, ws[w].conn))
        BY DEF Dropped
    <2>3. CASE d = ws[w]
        <3>1. PICK users : ws'[w] = Notified(w, d, users)
            OBVIOUS
        <3> HIDE DEF d
        <3>2. /\ ws'[w] \in Websocket /\ ws'[w].stage = ws[w].stage
              /\ ws'[w].conn = ws[w].conn /\ ws'[w].wrapper = ws[w].wrapper
              /\ ws'[w].browser = "open" => ws[w].browser = "open"
            BY <2>1, <2>3, <3>1, ZenonT(200) DEF Notified, Closing, Websocket
        <3> QED BY <1>0, <3>2 DEF SocketStep, WrapperInv, Attached
    <2>4. CASE /\ ws[w].conn \in C /\ Pending(w, ws[w].conn) # {}
               /\ d = Rejected(ws[w], Pending(w, ws[w].conn))
      <3>1. PICK users : ws'[w] = Notified(w, d, users)
          OBVIOUS
      <3>2. Attached(w)
        <4>1. PICK i \in 1..Len(calls[ws[w].conn]) : calls[ws[w].conn][i].ws = w
            BY <2>4 DEF Pending
        <4> QED BY <1>0, <2>4, <4>1 DEF CallsInv
      <3>3. /\ d \in Websocket /\ d.conn = ws[w].conn /\ d.stage \in {ws[w].stage, "failed"}
            /\ d.browser = "open" => ws[w].browser = "open"
          BY <2>1, <2>4, RejectedFacts
      <3> HIDE DEF d
      <3>4. /\ ws'[w] \in Websocket /\ ws'[w].stage = d.stage /\ ws'[w].conn = d.conn
            /\ ws'[w].browser = "open" => d.browser = "open"
          BY <3>1, <3>3, ZenonT(200) DEF Notified, Closing, Websocket
      <3> QED BY <3>2, <3>3, <3>4 DEF SocketStep, Attached
    <2> QED BY <2>2, <2>3, <2>4
  <1>2. ws' \in [Ws -> Websocket]
      BY <1>1
  <1>3. \A c \in Conn : calls'[c] = <<>> \/ calls'[c] = calls[c]
      BY DEF NoCalls
  <1>4. calls' \in [Conn -> Seq(Call)]
    <2>1. <<>> \in Seq(Call)
        OBVIOUS
    <2>2. \A c \in Conn : calls'[c] \in Seq(Call)
        BY <1>0, <1>3, <2>1
    <2>3. calls' = [c \in Conn |-> calls'[c]]
        BY DEF NoCalls
    <2> QED BY <2>2, <2>3
  <1>5. \A c \in Conn : \A i \in 1..Len(calls'[c]) :
            \E j \in 1..Len(calls[c]) : calls'[c][i] = calls[c][j]
      BY <1>3
  <1>6. CallsInv'
      BY <1>1, <1>5, CallsStay
  <1> QED BY <1>1, <1>2, <1>4, <1>6

\* The same without a 'socket-closed'.
LEMMA DroppedOnly ==
    ASSUME FrontInv, NEW C \in SUBSET Conn, NEW rejects \in BOOLEAN,
           ws' = Dropped(C, rejects), calls' = NoCalls(C)
    PROVE  /\ ws' \in [Ws -> Websocket] /\ calls' \in [Conn -> Seq(Call)]
           /\ CallsInv'
           /\ \A w \in Ws : SocketStep(w)
  <1>1. \A w \in Ws : ws'[w] = Notified(w, Dropped(C, rejects)[w], {})
      BY DEF Notified
  <1>2. ws' \in [Ws -> {ws'[w] : w \in Ws}]
      BY DEF Dropped
  <1> QED BY <1>1, <1>2, DroppedFacts, SMTT(60)

\* An error ends a connection, on either side.
LEMMA LineEndsStep == ASSUME FrontInv, NEW c \in Conn, LineEnds(c) PROVE FrontInv'
  <1>0. direct \in [Conn -> Connection] /\ FrontTypeOK
      BY DEF FrontInv, FrontTypeOK
  <1>1. /\ direct[c].line = "open"
        /\ direct' = [direct EXCEPT ![c].line = "ending",
                         ![c].promise = IF @ = "pending" THEN "failed" ELSE @]
        /\ UNCHANGED <<cached, opened, expectClose, control, line, reconnects, severed>>
        /\ UNCHANGED <<listening, deaf>>
      BY DEF LineEnds, EngineError, controlVars
  <1>2. PICK rejects \in BOOLEAN : ws' = Dropped({c}, rejects) /\ calls' = NoCalls({c})
      BY DEF LineEnds
  <1>3. /\ ws' \in [Ws -> Websocket] /\ calls' \in [Conn -> Seq(Call)]
        /\ CallsInv'
        /\ \A w \in Ws : SocketStep(w)
      BY <1>2, DroppedOnly
  <1>4. /\ direct' \in [Conn -> Connection]
        /\ \A d \in Conn :
              /\ direct'[d].user = direct[d].user
              /\ direct[d].line = "none" => direct'[d].line = "none"
              /\ direct'[d].line = "closed" <=> direct[d].line = "closed"
              /\ direct'[d].promise = "engine" => direct[d].promise = "engine"
      BY <1>0, <1>1, ZenonT(60) DEF Connection
  <1>5. FrontTypeOK'
      BY <1>0, <1>1, <1>3, <1>4 DEF FrontTypeOK
  <1>6. \A v \in User : cached'[v] \in {cached[v], None}
      BY <1>1
  <1> QED BY <1>1, <1>3, <1>4, <1>5, <1>6, GentleStep

\* stop(): the connections that it ends are not closed yet.
LEMMA StopStep == ASSUME FrontInv, StopFrontend PROVE FrontInv'
  <1>0. direct \in [Conn -> Connection] /\ FrontTypeOK
      BY DEF FrontInv, FrontTypeOK
  <1>1. /\ ~expectClose /\ expectClose' = TRUE
        /\ direct' = [c \in Conn |->
               IF direct[c].line = "open" /\ \E u \in User : cached[u] = c
               THEN [direct[c] EXCEPT !.line = "ending"] ELSE direct[c]]
        /\ cached' = [u \in User |-> None]
        /\ UNCHANGED <<opened, control, line, reconnects, severed>>
        /\ UNCHANGED <<listening, deaf>>
      BY DEF StopFrontend, StopClient, controlVars
  <1> DEFINE ended == {c \in Conn : direct[c].line # direct'[c].line}
  <1>2. PICK rejects \in BOOLEAN : ws' = Dropped(ended, rejects) /\ calls' = NoCalls(ended)
      BY DEF StopFrontend
  <1>3. ended \in SUBSET Conn
      OBVIOUS
  <1> HIDE DEF ended
  <1>4. /\ ws' \in [Ws -> Websocket] /\ calls' \in [Conn -> Seq(Call)]
        /\ CallsInv'
        /\ \A w \in Ws : SocketStep(w)
      BY <1>2, <1>3, DroppedOnly
  <1>5. \A d \in Conn :
              /\ direct'[d] \in Connection
              /\ direct'[d].user = direct[d].user
              /\ direct[d].line = "none" => direct'[d].line = "none"
              /\ direct'[d].line = "closed" <=> direct[d].line = "closed"
              /\ direct'[d].promise = direct[d].promise
    <2> SUFFICES ASSUME NEW d \in Conn
                 PROVE  /\ direct'[d] \in Connection
                        /\ direct'[d].user = direct[d].user
                        /\ direct[d].line = "none" => direct'[d].line = "none"
                        /\ direct'[d].line = "closed" <=> direct[d].line = "closed"
                        /\ direct'[d].promise = direct[d].promise
        OBVIOUS
    <2>1. direct[d] \in Connection
        BY <1>0
    <2>2. \/ direct'[d] = direct[d]
          \/ direct[d].line = "open" /\ direct'[d] = [direct[d] EXCEPT !.line = "ending"]
        BY <1>1
    <2> QED BY <2>1, <2>2 DEF Connection
  <1>6. direct' \in [Conn -> Connection]
      BY <1>1, <1>5
  <1>7. FrontTypeOK'
      BY <1>0, <1>1, <1>4, <1>6 DEF FrontTypeOK
  <1>8. \A v \in User : cached'[v] \in {cached[v], None}
      BY <1>1
  <1> QED BY <1>1, <1>4, <1>5, <1>7, <1>8, GentleStep

\* 'close': the user's own websockets are closed, everybody's listeners go.
LEMMA LineClosedStep == ASSUME FrontInv, NEW c \in Conn, LineClosed(c) PROVE FrontInv'
  <1>0. /\ FrontTypeOK /\ CacheInv /\ FreshInv /\ ConnInv /\ WrapperInv
        /\ EngineInv /\ ListenInv /\ LossInv
        /\ direct \in [Conn -> Connection] /\ cached \in [User -> Conn \cup {None}]
        /\ ws \in [Ws -> Websocket]
      BY DEF FrontInv, FrontTypeOK
  <1>1. /\ direct[c].line \in {"open", "ending"}
        /\ direct' = [direct EXCEPT ![c].line = "closed"]
        /\ cached' = CacheAfterClose(c)
        /\ UNCHANGED <<opened, expectClose, control, line, reconnects, severed>>
        /\ Quiet
        /\ IF expectClose THEN UNCHANGED <<listening, deaf>>
           ELSE /\ listening' = {}
                /\ deaf' = deaf \cup {w \in listening : UserOf[w] # direct[c].user}
      BY DEF LineClosed, EngineClosed, ClosedUsers, controlVars
  <1>2. PICK rejects \in BOOLEAN :
            ws' = [w \in Ws |-> Notified(w, Dropped({c}, rejects)[w], ClosedUsers(c))]
      BY DEF LineClosed
  <1>3. \A w \in Ws : ws'[w] = Notified(w, Dropped({c}, rejects)[w], ClosedUsers(c))
      BY <1>2
  <1>4. /\ ws' \in [Ws -> Websocket] /\ calls' \in [Conn -> Seq(Call)]
        /\ CallsInv'
        /\ \A w \in Ws : SocketStep(w)
    <2>1. ws' \in [Ws -> {ws'[w] : w \in Ws}]
        BY <1>2
    <2>2. calls' = NoCalls({c})
        BY DEF LineClosed
    <2> QED BY <1>3, <2>1, <2>2, DroppedFacts
  <1>5. /\ direct' \in [Conn -> Connection]
        /\ \A d \in Conn : /\ direct'[d].user = direct[d].user
                           /\ direct'[d].promise = direct[d].promise
                           /\ d # c => direct'[d] = direct[d]
        /\ direct'[c].line = "closed"
      BY <1>0, <1>1 DEF Connection
  <1>6. /\ cached' \in [User -> Conn \cup {None}]
        /\ \A u \in User : cached'[u] # None =>
               /\ cached[u] # None /\ cached'[u] = cached[u]
               /\ ~expectClose => u # direct[c].user
      BY <1>0, <1>1 DEF CacheAfterClose
  <1>7. FrontTypeOK'
      BY <1>0, <1>1, <1>4, <1>5, <1>6 DEF FrontTypeOK
  <1>8. CacheInv'
    <2> SUFFICES ASSUME NEW u \in User, cached'[u] # None
                 PROVE  /\ cached'[u] <= opened
                        /\ direct'[cached'[u]].user = u
                        /\ ~expectClose => direct'[cached'[u]].line # "closed"
        BY <1>1 DEF CacheInv
    <2>1. /\ cached[u] # None /\ cached'[u] = cached[u] /\ cached[u] \in Conn
          /\ ~expectClose => u # direct[c].user
        BY <1>0, <1>6
    <2>2. /\ cached[u] <= opened /\ direct[cached[u]].user = u
          /\ ~expectClose => direct[cached[u]].line # "closed"
        BY <1>0, <2>1 DEF CacheInv
    <2>3. ~expectClose => direct'[cached[u]] = direct[cached[u]]
        BY <1>5, <2>1, <2>2
    <2> QED BY <1>5, <2>1, <2>2, <2>3
  <1>9. FreshInv'
      BY <1>0, <1>1, <1>5 DEF FreshInv
  <1>10. \A w \in Ws : /\ ws'[w].conn = ws[w].conn
                       /\ (ws'[w].stage = "idle") <=> (ws[w].stage = "idle")
                       /\ (ws'[w].stage = "engine") <=> (ws[w].stage = "engine")
      BY <1>4 DEF SocketStep, Attached
  <1>11. ConnInv'
    <2> SUFFICES ASSUME NEW w \in Ws, ws'[w].stage # "idle"
                 PROVE  /\ ws'[w].conn \in Conn
                        /\ ws'[w].conn <= opened
                        /\ direct'[ws'[w].conn].user = UserOf[w]
        BY <1>1 DEF ConnInv
    <2>1. /\ ws[w].conn \in Conn /\ ws[w].conn <= opened
          /\ direct[ws[w].conn].user = UserOf[w]
        BY <1>0, <1>10 DEF ConnInv
    <2> QED BY <1>10, <1>5, <2>1
  <1>12. WrapperInv'
      BY <1>4 DEF WrapperInv, SocketStep
  <1>13. EngineInv'
    <2> SUFFICES ASSUME NEW w \in Ws, ws'[w].stage = "engine",
                        direct'[ws'[w].conn].promise = "engine"
                 PROVE  FALSE
        BY DEF EngineInv
    <2>1. ws'[w].conn = ws[w].conn /\ ws[w].conn \in Conn /\ ws[w].stage = "engine"
        BY <1>0, <1>10 DEF ConnInv
    <2>2. direct[ws[w].conn].promise = "engine"
        BY <1>5, <2>1
    <2> QED BY <1>1, <2>1, <2>2 DEF Quiet, Runnable
  <1>14. ListenInv'
    <2> SUFFICES ASSUME NEW w \in listening'
                 PROVE  Attached(w)' /\ expectClose
        BY <1>1 DEF ListenInv
    <2>1. expectClose /\ w \in listening
        BY <1>1
    <2>2. w \in Ws /\ Attached(w)
        BY <1>0, <2>1 DEF ListenInv, FrontTypeOK
    <2> QED BY <1>10, <2>1, <2>2 DEF Attached
  <1>15. LossInv'
    <2> SUFFICES ASSUME NEW w \in Ws, Attached(w)', ws'[w].browser = "open", ~expectClose
                 PROVE  w \in deaf'
        BY <1>1 DEF LossInv
    <2>1. Attached(w) /\ ws[w].browser = "open"
        BY <1>4, <1>10 DEF Attached, SocketStep
    <2>2. CASE w \in listening
      <3>1. UserOf[w] # direct[c].user
        <4> SUFFICES ASSUME UserOf[w] = direct[c].user PROVE FALSE
            OBVIOUS
        <4> DEFINE d == Dropped({c}, rejects)[w]
        <4>1. ws'[w] = [d EXCEPT !.browser = Closing(@)]
            BY <1>3, <2>2 DEF Notified, ClosedUsers
        <4>2. d \in Websocket
          <5>1. ws[w] \in Websocket
              BY <1>0
          <5> QED BY <5>1, RejectedFacts DEF Dropped
        <4> HIDE DEF d
        <4> QED BY <4>1, <4>2 DEF Closing, Websocket
      <3> QED BY <1>1, <2>2, <3>1
    <2>3. CASE w \in deaf
        BY <1>1, <2>3
    <2> QED BY <1>0, <2>1, <2>2, <2>3 DEF LossInv
  <1> QED BY <1>4, <1>7, <1>8, <1>9, <1>11, <1>12, <1>13, <1>14, <1>15 DEF FrontInv

-----------------------------------------------------------------------------
(* The invariant, and what it implies.                                      *)

LEMMA FrontNextInv == FrontInv /\ [FrontNext]_frontVars => FrontInv'
  <1> SUFFICES ASSUME FrontInv, [FrontNext]_frontVars PROVE FrontInv'
      OBVIOUS
  <1>1. ASSUME NEW w \in Ws, Open(w) PROVE FrontInv'
      BY <1>1, OpenStep
  <1>2. ASSUME NEW w \in Ws, GotEngine(w) PROVE FrontInv'
      BY <1>2, GotEngineStep
  <1>3. ASSUME NEW w \in Ws, Message(w) PROVE FrontInv'
      BY <1>3, MessageStep
  <1>4. ASSUME NEW w \in Ws, BrowserClosed(w) PROVE FrontInv'
      BY <1>4, BrowserClosedStep
  <1>5. ASSUME NEW c \in Conn, EngineAnswers(c) PROVE FrontInv'
      BY <1>5, EngineAnswersStep
  <1>6. ASSUME NEW c \in Conn, EngineRefuses(c) PROVE FrontInv'
      BY <1>6, EngineRefusesStep
  <1>7. ASSUME NEW c \in Conn, Ready(c) PROVE FrontInv'
      BY <1>7, ReadyStep
  <1>8. ASSUME NEW c \in Conn, LineEnds(c) PROVE FrontInv'
      BY <1>8, LineEndsStep
  <1>9. ASSUME NEW c \in Conn, LineClosed(c) PROVE FrontInv'
      BY <1>9, LineClosedStep
  <1>10. ASSUME NEW u \in User, Operation(u) PROVE FrontInv'
      BY <1>10, OperationStep
  <1>11. ASSUME NEW u \in User, Page(u) PROVE FrontInv'
      BY <1>11, PageStep
  <1>12. ASSUME NEW s \in Shard, Control(s) PROVE FrontInv'
      BY <1>12, ControlStep
  <1>13. CASE StopFrontend
      BY <1>13, StopStep
  <1>14. CASE UNCHANGED frontVars
    <2>1. UNCHANGED <<cached, direct, opened, expectClose, control, line, reconnects,
                      severed, ws, listening, deaf, calls>>
        BY <1>14 DEF frontVars, clientVars, socketVars
    <2>2. UNCHANGED <<clientVars, listening, deaf>> /\ ws' \in [Ws -> Websocket]
          /\ calls' \in [Conn -> Seq(Call)]
        BY <2>1 DEF clientVars, FrontInv, FrontTypeOK
    <2>3. CallsInv' /\ \A w \in Ws : SocketStep(w)
        BY <2>1, ClientOnly DEF socketVars
    <2> QED BY <2>2, <2>3, SocketsOnly
  <1> QED BY <1>1, <1>2, <1>3, <1>4, <1>5, <1>6, <1>7, <1>8, <1>9, <1>10, <1>11,
             <1>12, <1>13, <1>14 DEF FrontNext

\* The state of connections and websockets keeps its types.
THEOREM FrontTypeCorrect == FrontSpec => []FrontTypeOK
  <1>1. FrontInv => FrontTypeOK
      BY DEF FrontInv
  <1> QED BY <1>1, FrontInitInv, FrontNextInv, PTL DEF FrontSpec

\* getEngine() never gives out an engine whose connection is closed, whatever
\* old connections close late.
THEOREM CachedEngineIsOpen == FrontSpec => []CachedIsOpen
  <1>1. FrontInv => CachedIsOpen
      BY DEF FrontInv, CacheInv, CachedIsOpen
  <1> QED BY <1>1, FrontInitInv, FrontNextInv, PTL DEF FrontSpec

\* A websocket outlives the connection to its engine only if it lost its
\* listener to the engine of another user.
THEOREM LostEngineIsNoticed == FrontSpec => []LostEngineClosesWebsocket
  <1>1. FrontInv => LostEngineClosesWebsocket
    <2> SUFFICES ASSUME FrontInv, NEW w \in Ws, Attached(w), ws[w].browser = "open",
                        direct[ws[w].conn].line = "closed", ~expectClose
                 PROVE  w \in deaf
        BY DEF LostEngineClosesWebsocket, Attached
    <2>1. LossInv /\ ListenInv
        BY DEF FrontInv
    <2>2. w \notin listening
        BY <2>1 DEF ListenInv
    <2> QED BY <2>1, <2>2 DEF LossInv
  <1> QED BY <1>1, FrontInitInv, FrontNextInv, PTL DEF FrontSpec

-----------------------------------------------------------------------------
(* The messages of a conversation, from the queue of its websocket through   *)
(* the calls of its connection to the engine.                                *)

\* The calls of w that carry a message.
IsData(k, w) == k.ws = w /\ k.op \in {"flush", "handle"}
DataIn(q, w) == {i \in 1..Len(q) : IsData(q[i], w)}

\* The messages that were taken from the queue, or never were in it.
Taken(s) == s.sent - Len(s.queue)

\* The queue holds the messages that were sent last.
QueueIsLast(s) == /\ Len(s.queue) <= s.sent
                  /\ \A k \in 1..Len(s.queue) : s.queue[k] = Taken(s) + k

\* What was delivered, and then what is on its way, is in order.
InOrder(s, q, w) ==
    /\ \A i \in 1..Len(s.delivered) : s.delivered[i] \in 1..Taken(s)
    /\ \A i, j \in 1..Len(s.delivered) : i < j => s.delivered[i] < s.delivered[j]
    /\ \A i \in DataIn(q, w) :
          /\ q[i].msg \in 1..Taken(s)
          /\ \A k \in 1..Len(s.delivered) : s.delivered[k] < q[i].msg
          /\ \A j \in DataIn(q, w) : i < j => q[i].msg < q[j].msg

\* Of an open websocket nothing was left out,
AllThere(s) == s.browser = "open" => \A k \in 1..Len(s.delivered) : s.delivered[k] = k

\* ... and nothing will be, from what was delivered to what is in the queue.
NoneBetween(s, q, w, live) ==
    s.browser = "open" /\ live =>
        /\ \A i \in DataIn(q, w) :
              \/ q[i].msg = Len(s.delivered) + 1
              \/ \E j \in DataIn(q, w) : j < i /\ q[j].msg = q[i].msg - 1
        /\ \/ Taken(s) = Len(s.delivered)
           \/ \E i \in DataIn(q, w) : q[i].msg = Taken(s)

Pipeline(s, q, w, live) ==
    QueueIsLast(s) /\ InOrder(s, q, w) /\ AllThere(s) /\ NoneBetween(s, q, w, live)

\* A conversation that has not asked for its engine has said nothing, one that
\* is open has an empty queue, and its wrapper goes only after the websocket.
Shape(s) ==
    /\ s.stage = "idle" => s.sent = 0 /\ s.delivered = <<>> /\ s.queue = <<>>
    /\ s.stage = "opened" => s.queue = <<>>
    /\ s.wrapper \in {"destroying", "freed"} => s.browser = "closed"

\* Only open connections have calls, and each is of a websocket that has it; a
\* wrapper is destroyed after its websocket.
LinesInv == \A c \in Conn : /\ direct[c].line # "open" => calls[c] = <<>>
                            /\ c <= opened => direct[c].line # "none"
IsHome(k, c) == /\ ws[k.ws].conn = c
                /\ k.op = "destroy" => ws[k.ws].browser = "closed"
HomeInv == \A c \in Conn : \A i \in 1..Len(calls[c]) : IsHome(calls[c][i], c)

Live(w) == direct[ws[w].conn].line = "open"
Said(w) == /\ Shape(ws[w])
           /\ ws[w].stage # "idle" => Pipeline(ws[w], calls[ws[w].conn], w, Live(w))
SaidInv == \A w \in Ws : Kind[w] = "conversation" => Said(w)

OrderInv == FrontInv /\ LinesInv /\ HomeInv /\ SaidInv

\* t has said what s has, and is not open if s is not.
Like(t, s) == /\ t.sent = s.sent /\ t.queue = s.queue /\ t.delivered = s.delivered
              /\ t.browser = "open" => s.browser = "open"

-----------------------------------------------------------------------------
(* What may happen to the messages.                                          *)

LEMMA TailData ==
    ASSUME NEW q \in Seq(Call), q # <<>>, NEW w
    PROVE  /\ Tail(q) \in Seq(Call)
           /\ Head(q) = q[1] /\ q[1] \in Call
           /\ \A i \in DataIn(Tail(q), w) :
                 i \in Nat /\ i >= 1 /\ i + 1 \in DataIn(q, w) /\ Tail(q)[i] = q[i + 1]
           /\ \A i \in DataIn(q, w) :
                 i \in Nat /\ (i = 1 \/ (i > 1 /\ i - 1 \in DataIn(Tail(q), w)
                                         /\ Tail(q)[i - 1] = q[i]))
<1>1. /\ Tail(q) \in Seq(Call) /\ Len(q) \in Nat /\ Len(q) >= 1
      /\ Len(Tail(q)) = Len(q) - 1
      /\ \A i \in 1..Len(Tail(q)) : Tail(q)[i] = q[i + 1]
      /\ Head(q) = q[1] /\ q[1] \in Call
  OBVIOUS
<1>2. \A i \in DataIn(Tail(q), w) :
         i \in Nat /\ i >= 1 /\ i + 1 \in DataIn(q, w) /\ Tail(q)[i] = q[i + 1]
  BY <1>1 DEF DataIn
<1>3. ASSUME NEW i \in DataIn(q, w)
      PROVE  i \in Nat /\ (i = 1 \/ (i > 1 /\ i - 1 \in DataIn(Tail(q), w)
                                         /\ Tail(q)[i - 1] = q[i]))
  <2>1. i \in 1..Len(q) /\ IsData(q[i], w)
    BY DEF DataIn
  <2>2. CASE i = 1
    BY <2>2
  <2>3. CASE i # 1
    <3>1. i \in Nat /\ i > 1 /\ i - 1 \in 1..Len(Tail(q)) /\ (i - 1) + 1 = i
      BY <1>1, <2>1, <2>3
    <3>2. Tail(q)[i - 1] = q[i]
      BY <1>1, <3>1
    <3> QED
      BY <2>1, <3>1, <3>2 DEF DataIn
  <2> QED
    BY <2>2, <2>3
<1> QED
  BY <1>1, <1>2, <1>3

LEMMA AppendData ==
    ASSUME NEW q \in Seq(Call), NEW k \in Call, NEW w
    PROVE  /\ Append(q, k) \in Seq(Call)
           /\ DataIn(q, w) \subseteq 1..Len(q) /\ Len(q) \in Nat
           /\ DataIn(Append(q, k), w) =
                 DataIn(q, w) \cup (IF IsData(k, w) THEN {Len(q) + 1} ELSE {})
           /\ \A i \in DataIn(q, w) : Append(q, k)[i] = q[i]
           /\ Append(q, k)[Len(q) + 1] = k
<1>1. /\ Append(q, k) \in Seq(Call) /\ Len(q) \in Nat
      /\ Len(Append(q, k)) = Len(q) + 1
      /\ \A i \in 1..Len(q) : Append(q, k)[i] = q[i]
      /\ Append(q, k)[Len(q) + 1] = k
  OBVIOUS
<1> DEFINE a == Append(q, k)
<1> HIDE DEF a
<1>2. 1..Len(a) = 1..Len(q) \cup {Len(q) + 1}
  BY <1>1 DEF a
<1>3. /\ \A i \in 1..Len(q) : i # Len(q) + 1 /\ a[i] = q[i]
      /\ a[Len(q) + 1] = k
  BY <1>1 DEF a
<1>4. DataIn(a, w) = DataIn(q, w) \cup (IF IsData(k, w) THEN {Len(q) + 1} ELSE {})
  BY <1>2, <1>3, Zenon DEF DataIn
<1> QED
  BY <1>1, <1>4 DEF a, DataIn

LEMMA SaidTypes ==
    ASSUME NEW s \in Websocket
    PROVE  /\ s.sent \in Nat /\ s.queue \in Seq(Nat) /\ s.delivered \in Seq(Nat)
           /\ Len(s.queue) \in Nat /\ Len(s.delivered) \in Nat /\ Taken(s) \in Int
  BY DEF Websocket, Taken

\* What does not concern the messages.
LEMMA LikeKeeps ==
    ASSUME NEW s, NEW t, NEW q, NEW w, NEW live,
           Pipeline(s, q, w, live), Like(t, s)
    PROVE  Pipeline(t, q, w, live)
<1>1. Taken(t) = Taken(s)
  BY DEF Like, Taken
<1> QED
  BY <1>1 DEF Pipeline, Like, QueueIsLast, InOrder, AllThere, NoneBetween

\* A connection that is lost has no calls any more.
LEMMA LostKeeps ==
    ASSUME NEW s, NEW q, NEW w, NEW live, Pipeline(s, q, w, live)
    PROVE  Pipeline(s, <<>>, w, FALSE)
<1>1. DataIn(<<>>, w) = {}
  BY DEF DataIn
<1> QED
  BY <1>1 DEF Pipeline, InOrder, NoneBetween

\* A call that carries no message of this websocket.
LEMMA OthersCalled ==
    ASSUME NEW s, NEW q \in Seq(Call), NEW w, NEW live, NEW k \in Call,
           ~IsData(k, w), Pipeline(s, q, w, live)
    PROVE  Pipeline(s, Append(q, k), w, live)
<1> DEFINE a == Append(q, k)
<1>1. DataIn(a, w) = DataIn(q, w) /\ \A i \in DataIn(q, w) : a[i] = q[i]
  <2>1. /\ DataIn(Append(q, k), w) = DataIn(q, w) \cup (IF IsData(k, w) THEN {Len(q) + 1} ELSE {})
        /\ \A i \in DataIn(q, w) : Append(q, k)[i] = q[i]
    BY ONLY q \in Seq(Call), k \in Call, AppendData
  <2>2. DataIn(q, w) \cup (IF IsData(k, w) THEN {Len(q) + 1} ELSE {}) = DataIn(q, w)
    OBVIOUS
  <2> QED
    BY ONLY <2>1, <2>2
<1> HIDE DEF a
<1>2. InOrder(s, a, w)
  BY <1>1 DEF Pipeline, InOrder
<1>3. NoneBetween(s, a, w, live)
  BY <1>1 DEF Pipeline, NoneBetween
<1> QED
  BY <1>2, <1>3 DEF Pipeline, a

\* The oldest call is gone: it carried no message of this websocket, or the
\* websocket is not open any more.
LEMMA CallSkipped ==
    ASSUME NEW s, NEW q \in Seq(Call), NEW w, NEW live, q # <<>>,
           ~IsData(Head(q), w) \/ s.browser # "open", Pipeline(s, q, w, live)
    PROVE  Pipeline(s, Tail(q), w, live)
<1> DEFINE r == Tail(q)
<1>1. /\ \A i \in DataIn(r, w) : i \in Nat /\ i + 1 \in DataIn(q, w) /\ r[i] = q[i + 1]
      /\ \A i \in DataIn(q, w) :
            i \in Nat /\ (i = 1 \/ (i > 1 /\ i - 1 \in DataIn(r, w) /\ r[i - 1] = q[i]))
      /\ Head(q) = q[1]
  BY TailData, ZenonT(60)
<1> HIDE DEF r
<1>2. InOrder(s, r, w)
  <2>1. \A i, j \in DataIn(r, w) : i < j => i + 1 < j + 1
    BY <1>1
  <2> QED
    BY <1>1, <2>1, ZenonT(60) DEF Pipeline, InOrder
<1>3. NoneBetween(s, r, w, live)
  <2> SUFFICES ASSUME s.browser = "open", live
               PROVE  /\ \A i \in DataIn(r, w) :
                            \/ r[i].msg = Len(s.delivered) + 1
                            \/ \E j \in DataIn(r, w) : j < i /\ r[j].msg = r[i].msg - 1
                      /\ \/ Taken(s) = Len(s.delivered)
                         \/ \E i \in DataIn(r, w) : r[i].msg = Taken(s)
    BY DEF NoneBetween
  <2>1. \A i \in DataIn(q, w) : i # 1
    BY <1>1 DEF DataIn
  <2>2. \A i \in DataIn(q, w) : i \in Nat /\ i - 1 \in DataIn(r, w) /\ r[i - 1] = q[i]
    BY <1>1, <2>1
  <2>3. ASSUME NEW i \in DataIn(r, w), r[i].msg # Len(s.delivered) + 1
        PROVE  \E j \in DataIn(r, w) : j < i /\ r[j].msg = r[i].msg - 1
    <3>1. i \in Nat /\ i + 1 \in DataIn(q, w) /\ r[i] = q[i + 1]
      BY <1>1
    <3>2. PICK j \in DataIn(q, w) : j < i + 1 /\ q[j].msg = q[i + 1].msg - 1
      BY <2>3, <3>1 DEF Pipeline, NoneBetween
    <3>3. j \in Nat /\ j - 1 \in DataIn(r, w) /\ r[j - 1] = q[j] /\ j - 1 < i
      BY <2>2, <3>1, <3>2
    <3> QED
      BY <3>1, <3>2, <3>3
  <2>4. Taken(s) = Len(s.delivered) \/ \E i \in DataIn(r, w) : r[i].msg = Taken(s)
    BY <2>2, Zenon DEF Pipeline, NoneBetween
  <2> QED
    BY <2>3, <2>4
<1> QED
  BY <1>2, <1>3 DEF Pipeline, r

\* The oldest call delivers its message.
LEMMA CallDelivered ==
    ASSUME NEW s \in Websocket, NEW q \in Seq(Call), NEW w, q # <<>>,
           IsData(Head(q), w), Pipeline(s, q, w, TRUE),
           NEW t \in Websocket, t.delivered = Append(s.delivered, Head(q).msg),
           t.sent = s.sent, t.queue = s.queue, t.browser = s.browser
    PROVE  Pipeline(t, Tail(q), w, TRUE)
<1> DEFINE r == Tail(q)
           n == Len(s.delivered)
           m == q[1].msg
<1>1. /\ \A i \in DataIn(r, w) : i \in Nat /\ i >= 1 /\ i + 1 \in DataIn(q, w) /\ r[i] = q[i + 1]
      /\ \A i \in DataIn(q, w) :
            i \in Nat /\ (i = 1 \/ (i > 1 /\ i - 1 \in DataIn(r, w) /\ r[i - 1] = q[i]))
      /\ Head(q) = q[1]
  BY TailData
<1>2. 1 \in DataIn(q, w)
  BY <1>1 DEF DataIn
<1>3. s.delivered \in Seq(Nat) /\ n \in Nat /\ Taken(s) \in Int /\ Taken(t) = Taken(s)
  BY SaidTypes DEF Taken
<1>4. m \in 1..Taken(s) /\ \A k \in 1..n : s.delivered[k] < m
  BY <1>2 DEF Pipeline, InOrder
<1>5. /\ Len(t.delivered) = n + 1 /\ t.delivered[n + 1] = m
      /\ \A k \in 1..n : t.delivered[k] = s.delivered[k]
  BY <1>1, <1>3, <1>4
<1>6. ASSUME NEW i \in DataIn(r, w) PROVE m < r[i].msg /\ r[i].msg \in 1..Taken(s)
  <2> HIDE DEF r
  <2>1. i + 1 \in DataIn(q, w) /\ r[i] = q[i + 1] /\ 1 < i + 1
    BY <1>1
  <2>2. /\ \A j \in DataIn(q, w) : 1 < j => q[1].msg < q[j].msg
        /\ \A j \in DataIn(q, w) : q[j].msg \in 1..Taken(s)
    BY <1>2 DEF Pipeline, InOrder
  <2> QED
    BY <2>1, <2>2
<1> HIDE DEF r, n, m
<1>7. InOrder(t, r, w)
  <2>1. \A i \in 1..Len(t.delivered) : i \in 1..n \/ i = n + 1
    BY <1>3, <1>5
  <2>2. \A i \in 1..n : s.delivered[i] \in 1..Taken(s)
    BY DEF Pipeline, InOrder, n
  <2>3. \A i \in 1..Len(t.delivered) : t.delivered[i] \in 1..Taken(t)
    BY <1>3, <1>4, <1>5, <2>1, <2>2
  <2>4. ASSUME NEW i \in 1..Len(t.delivered), NEW j \in 1..Len(t.delivered), i < j
        PROVE  t.delivered[i] < t.delivered[j]
    <3>1. i \in 1..n
      BY <1>3, <1>5, <2>4
    <3>2. CASE j \in 1..n
      <4>1. s.delivered[i] < s.delivered[j]
        BY <2>4, <3>1, <3>2 DEF Pipeline, InOrder, n
      <4> QED
        BY <1>5, <3>1, <3>2, <4>1
    <3>3. CASE j = n + 1
      BY <1>4, <1>5, <3>1, <3>3
    <3> QED
      BY <2>1, <3>2, <3>3
  <2>5. ASSUME NEW i \in DataIn(r, w)
        PROVE  /\ r[i].msg \in 1..Taken(t)
               /\ \A k \in 1..Len(t.delivered) : t.delivered[k] < r[i].msg
    <3>1. i + 1 \in DataIn(q, w) /\ r[i] = q[i + 1]
      BY <1>1
    <3>2. \A k \in 1..n : s.delivered[k] < r[i].msg
      BY <3>1 DEF Pipeline, InOrder, n
    <3> QED
      BY <1>3, <1>5, <1>6, <2>1, <3>2
  <2>6. ASSUME NEW i \in DataIn(r, w), NEW j \in DataIn(r, w), i < j
        PROVE  r[i].msg < r[j].msg
    <3>1. /\ i + 1 \in DataIn(q, w) /\ r[i] = q[i + 1]
          /\ j + 1 \in DataIn(q, w) /\ r[j] = q[j + 1] /\ i + 1 < j + 1
      BY <1>1, <2>6
    <3> QED
      BY <3>1 DEF Pipeline, InOrder
  <2> QED
    BY <2>3, <2>4, <2>5, <2>6 DEF InOrder
\* the next message of an open websocket
<1>8. s.browser = "open" => m = n + 1
  <2> SUFFICES ASSUME s.browser = "open", m # n + 1 PROVE FALSE
    OBVIOUS
  <2>1. PICK j \in DataIn(q, w) : j < 1
    BY <1>2 DEF Pipeline, NoneBetween, n, m
  <2> QED
    BY <1>1, <2>1
<1>9. AllThere(t)
  <2> SUFFICES ASSUME t.browser = "open", NEW k \in 1..Len(t.delivered)
               PROVE  t.delivered[k] = k
    BY DEF AllThere
  <2>1. CASE k = n + 1
    BY <1>5, <1>8, <2>1
  <2>2. CASE k \in 1..n
    BY <1>5, <2>2 DEF Pipeline, AllThere, n
  <2> QED
    BY <1>3, <1>5, <2>1, <2>2
<1>10. NoneBetween(t, r, w, TRUE)
  <2> SUFFICES ASSUME s.browser = "open"
               PROVE  /\ \A i \in DataIn(r, w) :
                            \/ r[i].msg = Len(t.delivered) + 1
                            \/ \E j \in DataIn(r, w) : j < i /\ r[j].msg = r[i].msg - 1
                      /\ \/ Taken(t) = Len(t.delivered)
                         \/ \E i \in DataIn(r, w) : r[i].msg = Taken(t)
    BY DEF NoneBetween
  <2>0. /\ \A i \in DataIn(q, w) :
              \/ q[i].msg = n + 1
              \/ \E j \in DataIn(q, w) : j < i /\ q[j].msg = q[i].msg - 1
        /\ \/ Taken(s) = n
           \/ \E i \in DataIn(q, w) : q[i].msg = Taken(s)
    BY DEF Pipeline, NoneBetween, n
  <2>1. ASSUME NEW i \in DataIn(r, w), r[i].msg # Len(t.delivered) + 1
        PROVE  \E j \in DataIn(r, w) : j < i /\ r[j].msg = r[i].msg - 1
    <3>1. i \in Nat /\ i + 1 \in DataIn(q, w) /\ r[i] = q[i + 1] /\ m < r[i].msg
          /\ r[i].msg \in Int /\ m \in Int
      BY <1>1, <1>3, <1>4, <1>6
    <3>2. PICK j \in DataIn(q, w) : j < i + 1 /\ q[j].msg = r[i].msg - 1
      BY <1>8, <2>0, <3>1
    <3>3. j # 1
      <4> SUFFICES ASSUME j = 1 PROVE FALSE
        OBVIOUS
      <4>1. m = r[i].msg - 1
        BY <3>2 DEF m
      <4>2. r[i].msg = m + 1
        BY <3>1, <4>1
      <4>3. Len(t.delivered) = m
        BY <1>5, <1>8
      <4> QED
        BY <2>1, <4>2, <4>3
    <3>4. j \in Nat /\ j - 1 \in DataIn(r, w) /\ r[j - 1] = q[j] /\ j - 1 < i
      BY <1>1, <3>1, <3>2, <3>3
    <3> QED
      BY <3>2, <3>4
  <2>2. Taken(t) = Len(t.delivered) \/ \E i \in DataIn(r, w) : r[i].msg = Taken(t)
    <3>1. CASE Taken(s) = n
      BY <1>3, <1>4, <1>8, <3>1
    <3>2. CASE \E i \in DataIn(q, w) : q[i].msg = Taken(s)
      <4>1. PICK i \in DataIn(q, w) : q[i].msg = Taken(s)
        BY <3>2
      <4>2. CASE i = 1
        BY <1>3, <1>5, <1>8, <4>1, <4>2 DEF m
      <4>3. CASE i # 1
        BY <1>1, <1>3, <4>1, <4>3
      <4> QED
        BY <4>2, <4>3
    <3> QED
      BY <2>0, <3>1, <3>2
  <2> QED
    BY <2>1, <2>2
<1> QED
  BY <1>3, <1>7, <1>9, <1>10 DEF Pipeline, QueueIsLast, r

\* A message joins the queue.
LEMMA MessageQueued ==
    ASSUME NEW s \in Websocket, NEW q \in Seq(Call), NEW w, NEW live,
           Pipeline(s, q, w, live),
           NEW t \in Websocket, t.sent = s.sent + 1, t.queue = Append(s.queue, t.sent),
           t.delivered = s.delivered, t.browser = s.browser
    PROVE  Pipeline(t, q, w, live)
<1>1. s.sent \in Nat /\ s.queue \in Seq(Nat) /\ Len(s.queue) \in Nat /\ t.sent \in Nat
  BY SaidTypes
<1>2. /\ Len(t.queue) = Len(s.queue) + 1 /\ t.queue[Len(s.queue) + 1] = s.sent + 1
      /\ \A k \in 1..Len(s.queue) : t.queue[k] = s.queue[k]
  BY <1>1
<1>3. Taken(t) = Taken(s)
  BY <1>1, <1>2, SMTT(30) DEF Taken
<1>4. QueueIsLast(t)
  <2>1. \A k \in 1..Len(t.queue) : k \in 1..Len(s.queue) \/ k = Len(s.queue) + 1
    BY <1>1, <1>2
  <2>2. Taken(s) + (Len(s.queue) + 1) = s.sent + 1 /\ Len(t.queue) <= t.sent
    BY <1>1, <1>2 DEF Taken, Pipeline, QueueIsLast
  <2>3. \A k \in 1..Len(s.queue) : s.queue[k] = Taken(s) + k
    BY DEF Pipeline, QueueIsLast
  <2> QED
    BY <1>2, <1>3, <2>1, <2>2, <2>3 DEF QueueIsLast
<1> QED
  BY <1>3, <1>4 DEF Pipeline, InOrder, AllThere, NoneBetween

\* A message is called for: the next one that there is.
LEMMA NextCalled ==
    ASSUME NEW s \in Websocket, NEW q \in Seq(Call), NEW w, NEW live,
           Pipeline(s, q, w, live), Taken(s) >= 0,
           NEW t \in Websocket, QueueIsLast(t), Taken(t) = Taken(s) + 1,
           t.delivered = s.delivered, t.browser = s.browser,
           NEW k \in Call, IsData(k, w), k.msg = Taken(t)
    PROVE  Pipeline(t, Append(q, k), w, live)
<1> DEFINE a == Append(q, k)
           e == Len(q) + 1
<1>1. /\ DataIn(q, w) \subseteq 1..Len(q) /\ Len(q) \in Nat
      /\ DataIn(a, w) = DataIn(q, w) \cup {e}
      /\ \A i \in DataIn(q, w) : a[i] = q[i]
      /\ a[e] = k
  BY AppendData
<1>2. \A i \in DataIn(q, w) : i < e /\ i \in Nat
  BY <1>1
<1>3. Taken(s) \in Int /\ Taken(t) \in Int /\ Len(s.delivered) \in Nat
  BY SaidTypes
<1> HIDE DEF a, e
<1>4. \A i \in 1..Len(s.delivered) : s.delivered[i] \in 1..Taken(s)
  BY DEF Pipeline, InOrder
<1>5. \A i \in DataIn(q, w) : q[i].msg \in 1..Taken(s)
  BY DEF Pipeline, InOrder
<1>6. InOrder(t, a, w)
  <2>1. \A i \in 1..Len(t.delivered) : t.delivered[i] \in 1..Taken(t)
    BY <1>3, <1>4
  <2>2. \A i, j \in 1..Len(t.delivered) : i < j => t.delivered[i] < t.delivered[j]
    BY DEF Pipeline, InOrder
  <2>3. ASSUME NEW i \in DataIn(a, w)
        PROVE  /\ a[i].msg \in 1..Taken(t)
               /\ \A l \in 1..Len(t.delivered) : t.delivered[l] < a[i].msg
    <3>1. CASE i = e
      BY <1>1, <1>3, <1>4, <3>1
    <3>2. CASE i \in DataIn(q, w)
      <4>1. \A l \in 1..Len(t.delivered) : t.delivered[l] < q[i].msg
        BY <3>2 DEF Pipeline, InOrder
      <4> QED
        BY <1>1, <1>3, <1>5, <3>2, <4>1
    <3> QED
      BY <1>1, <3>1, <3>2
  <2>4. ASSUME NEW i \in DataIn(a, w), NEW j \in DataIn(a, w), i < j
        PROVE  a[i].msg < a[j].msg
    <3>1. i # e
      <4> SUFFICES ASSUME i = e PROVE FALSE
        OBVIOUS
      <4> QED
        BY <1>1, <1>2, <2>4 DEF e
    <3>2. i \in DataIn(q, w) /\ a[i] = q[i]
      BY <1>1, <3>1
    <3>3. CASE j = e
      BY <1>1, <1>3, <1>5, <3>2, <3>3
    <3>4. CASE j \in DataIn(q, w)
      <4>1. q[i].msg < q[j].msg
        BY <2>4, <3>2, <3>4 DEF Pipeline, InOrder
      <4> QED
        BY <1>1, <3>2, <3>4, <4>1
    <3> QED
      BY <1>1, <3>3, <3>4
  <2> QED
    BY <2>1, <2>2, <2>3, <2>4 DEF InOrder
<1>7. NoneBetween(t, a, w, live)
  <2> SUFFICES ASSUME s.browser = "open", live
               PROVE  /\ \A i \in DataIn(a, w) :
                            \/ a[i].msg = Len(t.delivered) + 1
                            \/ \E j \in DataIn(a, w) : j < i /\ a[j].msg = a[i].msg - 1
                      /\ \E i \in DataIn(a, w) : a[i].msg = Taken(t)
    BY DEF NoneBetween
  <2>0. /\ \A i \in DataIn(q, w) :
              \/ q[i].msg = Len(s.delivered) + 1
              \/ \E j \in DataIn(q, w) : j < i /\ q[j].msg = q[i].msg - 1
        /\ \/ Taken(s) = Len(s.delivered)
           \/ \E i \in DataIn(q, w) : q[i].msg = Taken(s)
    BY DEF Pipeline, NoneBetween
  <2>1. ASSUME NEW i \in DataIn(q, w)
        PROVE  \/ a[i].msg = Len(t.delivered) + 1
               \/ \E j \in DataIn(a, w) : j < i /\ a[j].msg = a[i].msg - 1
    BY <1>1, <2>0
  <2>2. \/ a[e].msg = Len(t.delivered) + 1
        \/ \E j \in DataIn(a, w) : j < e /\ a[j].msg = a[e].msg - 1
    <3>1. CASE Taken(s) = Len(s.delivered)
      BY <1>1, <3>1
    <3>2. CASE \E i \in DataIn(q, w) : q[i].msg = Taken(s)
      <4>1. PICK i \in DataIn(q, w) : q[i].msg = Taken(s)
        BY <3>2
      <4>2. i \in DataIn(a, w) /\ i < e /\ a[i].msg = Taken(s) /\ a[e].msg - 1 = Taken(s)
        BY <1>1, <1>2, <1>3, <4>1
      <4> QED
        BY <4>2
    <3> QED
      BY <2>0, <3>1, <3>2
  <2>3. e \in DataIn(a, w) /\ a[e].msg = Taken(t)
    BY <1>1
  <2> QED
    BY <1>1, <2>1, <2>2, <2>3
<1> QED
  BY <1>6, <1>7 DEF Pipeline, AllThere, a

\* A message is dropped, since the websocket is not open or its connection lost.
LEMMA MessageDropped ==
    ASSUME NEW s \in Websocket, NEW q \in Seq(Call), NEW w, NEW live,
           Pipeline(s, q, w, live), ~live \/ s.browser # "open",
           NEW t \in Websocket, QueueIsLast(t), Taken(t) >= Taken(s),
           t.delivered = s.delivered, t.browser = "open" => s.browser = "open"
    PROVE  Pipeline(t, q, w, live)
<1>1. Taken(s) \in Int /\ Taken(t) \in Int
  BY SaidTypes
<1>2. InOrder(t, q, w)
  BY <1>1 DEF Pipeline, InOrder
<1> QED
  BY <1>2 DEF Pipeline, AllThere, NoneBetween

-----------------------------------------------------------------------------
(* What the steps do to the conversations.                                   *)

LEMMA OrderTypes ==
    ASSUME OrderInv
    PROVE  /\ ws \in [Ws -> Websocket] /\ calls \in [Conn -> Seq(Call)]
           /\ direct \in [Conn -> Connection] /\ opened \in Nat
           /\ CallsInv /\ ConnInv /\ FreshInv /\ WrapperInv
           /\ LinesInv /\ HomeInv /\ SaidInv
  BY DEF OrderInv, FrontInv, FrontTypeOK

\* A rejection says nothing, and closes who is not closed.
LEMMA RejectedLike ==
    ASSUME NEW s \in Websocket, NEW ops, Shape(s), "destroy" \in ops => s.browser = "closed"
    PROVE  /\ Like(Rejected(s, ops), s) /\ Shape(Rejected(s, ops))
           /\ s.browser = "closed" => Rejected(s, ops).browser = "closed"
           /\ ~(ops \subseteq {"destroy"}) => Rejected(s, ops).browser # "open"
<1> DEFINE t == Rejected(s, ops)
<1>1. /\ t.sent = s.sent /\ t.queue = s.queue /\ t.delivered = s.delivered
      /\ t.stage \in {s.stage, "failed"}
      /\ t.browser = IF ops \subseteq {"destroy"} THEN s.browser ELSE Closing(s.browser)
      /\ t.wrapper = IF "destroy" \in ops THEN "freed" ELSE s.wrapper
  BY ZenonT(60) DEF Rejected, Websocket
<1> HIDE DEF t
<1>2. /\ t.browser = "open" => s.browser = "open"
      /\ s.browser = "closed" => t.browser = "closed"
      /\ ~(ops \subseteq {"destroy"}) => t.browser # "open"
  BY <1>1 DEF Closing
<1>3. Like(t, s)
  BY <1>1, <1>2 DEF Like
<1>4. Shape(t)
  BY <1>1, <1>2 DEF Shape
<1> QED
  BY <1>2, <1>3, <1>4 DEF t

\* What was answered and called, other than messages of w; heard is not open.
Passes(q, r, w, isOpen) ==
    \/ r = q
    \/ /\ q # <<>> /\ (~IsData(Head(q), w) \/ ~isOpen)
       /\ r = Tail(q) \/ \E k \in Call : ~IsData(k, w) /\ r = Append(Tail(q), k)
    \/ \E k \in Call : ~IsData(k, w) /\ r = Append(q, k)

LEMMA PassesKeeps ==
    ASSUME NEW s, NEW q \in Seq(Call), NEW r, NEW w, NEW live,
           Pipeline(s, q, w, live), Passes(q, r, w, s.browser = "open")
    PROVE  Pipeline(s, r, w, live)
<1>1. q # <<>> => Tail(q) \in Seq(Call)
  BY TailData
<1>2. q # <<>> /\ (~IsData(Head(q), w) \/ s.browser # "open") => Pipeline(s, Tail(q), w, live)
  BY CallSkipped
<1>3. ASSUME NEW k \in Call, ~IsData(k, w)
      PROVE  /\ Pipeline(s, Append(q, k), w, live)
             /\ q # <<>> /\ (~IsData(Head(q), w) \/ s.browser # "open")
                   => Pipeline(s, Append(Tail(q), k), w, live)
  BY <1>1, <1>2, <1>3, OthersCalled
<1> QED
  BY <1>2, <1>3, Zenon DEF Passes

LEMMA LessLive ==
    ASSUME NEW s, NEW q, NEW w, NEW live, NEW now,
           Pipeline(s, q, w, live), now => live
    PROVE  Pipeline(s, q, w, now)
  BY DEF Pipeline, NoneBetween

\* A conversation that says nothing.
LEMMA SilentStep ==
    ASSUME OrderInv, NEW x \in Ws, Kind[x] = "conversation",
           Like(ws'[x], ws[x]), Shape(ws'[x]),
           ws'[x].stage # "idle" => ws[x].stage # "idle" /\ ws'[x].conn = ws[x].conn,
           NEW c, c = ws[x].conn, ws[x].stage # "idle" =>
              \/ (Live(x)' => Live(x)) /\ Passes(calls[c], calls'[c], x, ws'[x].browser = "open")
              \/ ~Live(x)' /\ calls'[c] = <<>>
    PROVE  Said(x)'
<1> SUFFICES ASSUME ws'[x].stage # "idle"
             PROVE  Pipeline(ws'[x], calls'[c], x, Live(x)')
  BY DEF Said
<1>1. Pipeline(ws[x], calls[c], x, Live(x)) /\ c \in Conn /\ calls[c] \in Seq(Call)
  BY OrderTypes DEF SaidInv, Said, ConnInv
<1>2. Pipeline(ws'[x], calls[c], x, Live(x))
  BY <1>1, LikeKeeps
<1>3. CASE (Live(x)' => Live(x)) /\ Passes(calls[c], calls'[c], x, ws'[x].browser = "open")
  <2>1. Pipeline(ws'[x], calls'[c], x, Live(x))
    BY <1>1, <1>2, <1>3, PassesKeeps
  <2> QED
    BY <1>3, <2>1, LessLive
<1>4. CASE ~Live(x)' /\ calls'[c] = <<>>
  <2>1. Pipeline(ws'[x], <<>>, x, FALSE)
    BY <1>2, LostKeeps
  <2> QED
    BY <1>4, <2>1, LessLive
<1> QED
  BY <1>3, <1>4

\* Calls of a websocket that has the connection.
LEMMA HomeStays ==
    ASSUME OrderInv,
           \A w \in Ws : Attached(w) => /\ ws'[w].conn = ws[w].conn
                                        /\ ws[w].browser = "closed" => ws'[w].browser = "closed",
           \A c \in Conn : \A i \in 1..Len(calls'[c]) :
               \/ \E j \in 1..Len(calls[c]) : calls'[c][i] = calls[c][j]
               \/ IsHome(calls[c][i], c)'
    PROVE  HomeInv'
<1> SUFFICES ASSUME NEW c \in Conn, NEW i \in 1..Len(calls'[c]),
                    NEW j \in 1..Len(calls[c]), calls'[c][i] = calls[c][j]
             PROVE  IsHome(calls[c][i], c)'
  BY DEF HomeInv
<1>1. calls[c][j] \in Call /\ Attached(calls[c][j].ws) /\ IsHome(calls[c][j], c)
  BY OrderTypes DEF CallsInv, HomeInv
<1>2. calls[c][j].ws \in Ws
  BY <1>1 DEF Call
<1> QED
  BY <1>1, <1>2 DEF IsHome

LEMMA WasThereOrNew ==
    ASSUME NEW q \in Seq(Call), NEW k \in Call, NEW r,
           r = Append(q, k) \/ (q # <<>> /\ r \in {Tail(q), Append(Tail(q), k)})
    PROVE  \A i \in 1..Len(r) : r[i] = k \/ \E j \in 1..Len(q) : r[i] = q[j]
<1>1. CASE r = Append(q, k)
  BY <1>1
<1>2. CASE q # <<>> /\ r \in {Tail(q), Append(Tail(q), k)}
  <2>1. /\ Tail(q) \in Seq(Call)
        /\ \A i \in 1..Len(Tail(q)) : i + 1 \in 1..Len(q) /\ Tail(q)[i] = q[i + 1]
    BY <1>2
  <2>2. \A i \in 1..Len(Append(Tail(q), k)) :
           Append(Tail(q), k)[i] = k \/ (i \in 1..Len(Tail(q)) /\ Append(Tail(q), k)[i] = Tail(q)[i])
    BY <2>1
  <2> QED
    BY <1>2, <2>1, <2>2
<1> QED
  BY <1>1, <1>2

\* A call over a connection, an answer, or both.
MayBecome(q, k, w) ==
    {Append(q, k)} \cup (IF q # <<>> /\ Head(q).ws = w
                         THEN {Tail(q), Append(Tail(q), k)} ELSE {})

\* w, whose websocket is in state b now, speaks to its engine, if at all.
Speaks(w, b) ==
    \/ calls' = calls
    \/ /\ ws[w].stage # "idle" /\ Live(w)
       /\ \E k \in Call : /\ k.ws = w /\ (k.op = "destroy" => b = "closed")
                          /\ \E r \in MayBecome(calls[ws[w].conn], k, w) :
                                calls' = [calls EXCEPT ![ws[w].conn] = r]

LEMMA OneSpeaks ==
    ASSUME OrderInv, NEW w \in Ws, NEW t \in Websocket,
           ws' = [ws EXCEPT ![w] = t], t.conn = ws[w].conn,
           ws[w].browser = "closed" => t.browser = "closed",
           UNCHANGED clientVars, Speaks(w, t.browser)
    PROVE  /\ LinesInv' /\ HomeInv'
           /\ \A x \in Ws \ {w} : Kind[x] = "conversation" => Said(x)'
           /\ ws'[w] = t
<1>0. /\ ws' \in [Ws -> Websocket] /\ ws'[w] = t /\ \A x \in Ws : x # w => ws'[x] = ws[x]
      /\ calls \in [Conn -> Seq(Call)]
  BY OrderTypes
<1>1. UNCHANGED <<direct, opened>>
  BY DEF clientVars
<1>2. \A x \in Ws : Live(x)' = (direct[ws'[x].conn].line = "open")
  BY <1>1 DEF Live
<1>3. ASSUME NEW x \in Ws, NEW c, c = ws[x].conn, x # w, Kind[x] = "conversation",
             ws[x].stage # "idle" => Passes(calls[c], calls'[c], x, ws'[x].browser = "open")
      PROVE  Said(x)'
  <2>1. Like(ws'[x], ws[x]) /\ Shape(ws'[x])
    BY <1>0, <1>3, OrderTypes DEF Like, SaidInv, Said
  <2>2. Live(x)' => Live(x)
    BY <1>0, <1>1, <1>3 DEF Live
  <2> QED
    BY <1>0, <1>3, <2>1, <2>2, SilentStep
<1>4. \A x \in Ws : /\ ws'[x].conn = ws[x].conn
                    /\ ws[x].browser = "closed" => ws'[x].browser = "closed"
  BY <1>0
<1>5. CASE calls' = calls
  <2>1. LinesInv'
    BY <1>1, <1>5, OrderTypes DEF LinesInv
  <2>2. HomeInv'
    BY <1>4, <1>5, HomeStays
  <2>3. ASSUME NEW x \in Ws \ {w}, Kind[x] = "conversation" PROVE Said(x)'
    BY <1>3, <1>5, <2>3 DEF Passes
  <2> QED
    BY <1>0, <2>1, <2>2, <2>3
<1>6. CASE ~(calls' = calls)
  <2> DEFINE d == ws[w].conn
             q == calls[d]
  <2>0. ws[w].stage # "idle" /\ Live(w)
    BY <1>6, Zenon DEF Speaks
  <2>a. PICK k \in Call : /\ k.ws = w /\ (k.op = "destroy" => t.browser = "closed")
                          /\ \E r \in MayBecome(q, k, w) : calls' = [calls EXCEPT ![d] = r]
    BY <1>6, Zenon DEF Speaks
  <2>1. PICK r \in MayBecome(q, k, w) : calls' = [calls EXCEPT ![d] = r]
    BY ONLY <2>a, Zenon
  <2>2. /\ d \in Conn /\ q \in Seq(Call)
        /\ r = Append(q, k) \/ (q # <<>> /\ Head(q).ws = w /\ r \in {Tail(q), Append(Tail(q), k)})
    <3>1. d \in Conn
      BY <2>0, OrderTypes DEF ConnInv
    <3>2. q \in Seq(Call)
      BY ONLY <1>0, <3>1
    <3> HIDE DEF q
    <3>3. r = Append(q, k) \/ (q # <<>> /\ Head(q).ws = w /\ r \in {Tail(q), Append(Tail(q), k)})
      BY ONLY r \in MayBecome(q, k, w), Zenon DEF MayBecome
    <3> QED
      BY ONLY <3>1, <3>2, <3>3, Zenon
  <2> HIDE DEF d, q
  <2>3. calls'[d] = r /\ \A c \in Conn : c # d => calls'[c] = calls[c]
    BY ONLY <1>0, <2>1, <2>2
  <2>4. LinesInv'
    <3>1. direct[d].line = "open"
      BY <2>0 DEF Live, d
    <3> QED
      BY <1>1, <2>3, <3>1, OrderTypes DEF LinesInv
  <2>5. \A i \in 1..Len(r) : r[i] = k \/ \E j \in 1..Len(q) : r[i] = q[j]
    <3>1. k \in Call /\ q \in Seq(Call)
      BY <2>2
    <3>2. r = Append(q, k) \/ (q # <<>> /\ r \in {Tail(q), Append(Tail(q), k)})
      BY <2>2
    <3> QED
      BY ONLY <3>1, <3>2, WasThereOrNew
  <2>6. HomeInv'
    <3>1. ASSUME NEW c \in Conn, NEW i \in 1..Len(calls'[c])
          PROVE  \/ \E j \in 1..Len(calls[c]) : calls'[c][i] = calls[c][j]
                 \/ IsHome(calls[c][i], c)'
      <4>1. CASE c # d
        BY <2>3, <4>1
      <4>2. CASE c = d
        <5>1. i \in 1..Len(r) /\ calls'[c][i] = r[i]
          BY <2>3, <4>2
        <5>2. CASE r[i] = k
          <6>1. ws'[k.ws].conn = d /\ (k.op = "destroy" => ws'[k.ws].browser = "closed")
            BY <1>0, <2>a DEF d
          <6> QED
            BY ONLY <4>2, <5>1, <5>2, <6>1, Zenon DEF IsHome
        <5>3. CASE \E j \in 1..Len(q) : r[i] = q[j]
          BY <4>2, <5>1, <5>3 DEF q
        <5> QED
          BY <2>5, <5>1, <5>2, <5>3
      <4> QED
        BY <4>1, <4>2
    <3> QED
      BY <1>4, <3>1, HomeStays
  <2>7. ASSUME NEW x \in Ws \ {w}, Kind[x] = "conversation" PROVE Said(x)'
    <3>1. CASE ws[x].stage # "idle"
      <4>1. ws[x].conn \in Conn
        BY <3>1, OrderTypes DEF ConnInv
      <4>2. CASE ws[x].conn # d
        BY <1>3, <2>3, <2>7, <4>1, <4>2 DEF Passes
      <4>3. CASE ws[x].conn = d
        <5>1. ~IsData(k, x) /\ (Head(q).ws = w => ~IsData(Head(q), x))
          BY <2>7, <2>a, Zenon DEF IsData
        <5>2. Passes(q, r, x, ws'[x].browser = "open")
          BY <2>2, <5>1, Zenon DEF Passes
        <5> QED
          BY <1>3, <2>3, <2>7, <4>3, <5>2 DEF q
      <4> QED
        BY <4>2, <4>3
    <3>2. CASE ws[x].stage = "idle"
      BY <1>3, <2>7, <3>2
    <3> QED
      BY <3>1, <3>2
  <2> QED
    BY <1>0, <2>4, <2>6, <2>7
<1> QED
  BY <1>5, <1>6

\* ... and says nothing by it.
LEMMA CallSays ==
    ASSUME OrderInv, NEW w \in Ws, NEW s \in Websocket, NEW op \in {"open", "destroy"},
           Calls(w, s, op, 0), UNCHANGED clientVars,
           ws[w].stage # "idle", s.conn = ws[w].conn, s.stage # "idle",
           op = "destroy" => s.browser = "closed",
           ws[w].browser = "closed" => s.browser = "closed",
           Kind[w] = "conversation" => Like(s, ws[w]) /\ Shape(s)
    PROVE  LinesInv' /\ HomeInv' /\ SaidInv'
<1>0. /\ calls \in [Conn -> Seq(Call)] /\ ws[w].conn \in Conn /\ ws \in [Ws -> Websocket]
      /\ UNCHANGED direct
  BY OrderTypes DEF ConnInv, clientVars
<1> DEFINE k == [op |-> op, ws |-> w, msg |-> 0]
<1>1. k \in Call /\ k.op = op /\ k.ws = w /\ ~IsData(k, w)
  BY DEF Call, Operations, IsData
<1>2. \/ /\ Live(w) /\ ws' = [ws EXCEPT ![w] = s]
         /\ calls' = [calls EXCEPT ![ws[w].conn] = Append(@, k)]
      \/ /\ ws' \in {[ws EXCEPT ![w] = s], [ws EXCEPT ![w] = Rejected(s, {op})]}
         /\ calls' = calls
  BY DEF Calls, Live
<1> HIDE DEF k
<1>3. PICK t \in {s, Rejected(s, {op})} : ws' = [ws EXCEPT ![w] = t]
  BY <1>2
<1>4. /\ t \in Websocket /\ t.conn = ws[w].conn
      /\ s.browser = "closed" => t.browser = "closed"
      /\ t.stage # "idle"
      /\ Kind[w] = "conversation" => Like(t, ws[w]) /\ Shape(t)
  <2>1. CASE t = s
    BY <2>1
  <2>2. CASE t = Rejected(s, {op})
    <3>1. t \in Websocket /\ t.conn = s.conn /\ t.stage \in {s.stage, "failed"}
      BY <2>2, RejectedFacts
    <3>2. t.browser = IF op = "destroy" THEN s.browser ELSE Closing(s.browser)
      BY <2>2, ZenonT(60) DEF Rejected, Websocket
    <3>3. s.browser = "closed" => t.browser = "closed"
      BY <3>2 DEF Closing
    <3>4. Kind[w] = "conversation" => Like(t, s) /\ Shape(t)
      BY <2>2, RejectedLike
    <3> QED
      BY <3>1, <3>3, <3>4 DEF Like
  <2> QED
    BY <2>1, <2>2
<1>5. /\ LinesInv' /\ HomeInv'
      /\ \A x \in Ws \ {w} : Kind[x] = "conversation" => Said(x)'
      /\ ws'[w] = t
  <2>1. Speaks(w, t.browser)
    <3>1. CASE calls' = [calls EXCEPT ![ws[w].conn] = Append(@, k)] /\ Live(w)
      <4>1. calls' = [calls EXCEPT ![ws[w].conn] = Append(calls[ws[w].conn], k)]
        BY <3>1
      <4>2. k.op = "destroy" => t.browser = "closed"
        BY <1>1, <1>4
      <4> QED
        BY <1>1, <3>1, <4>1, <4>2, Zenon DEF Speaks, MayBecome
    <3> QED
      BY <1>2, <3>1, Zenon DEF Speaks
  <2>2. ws[w].browser = "closed" => t.browser = "closed"
    BY <1>4
  <2> QED
    BY <1>3, <1>4, <2>1, <2>2, OneSpeaks
<1>6. Kind[w] = "conversation" => Said(w)'
  <2> SUFFICES ASSUME Kind[w] = "conversation" PROVE Said(w)'
    OBVIOUS
  <2>1. Live(w)' => Live(w)
    BY <1>0, <1>4, <1>5 DEF Live
  <2>2. Passes(calls[ws[w].conn], calls'[ws[w].conn], w, ws'[w].browser = "open")
    <3>1. calls' = calls \/ calls'[ws[w].conn] = Append(calls[ws[w].conn], k)
      BY <1>0, <1>2
    <3> QED
      BY <1>1, <3>1 DEF Passes
  <2>3. Like(ws'[w], ws[w]) /\ Shape(ws'[w]) /\ ws'[w].conn = ws[w].conn
    BY <1>4, <1>5
  <2> QED
    BY <2>1, <2>2, <2>3, SilentStep
<1> QED
  BY <1>5, <1>6 DEF SaidInv

LEMMA QueueTaken ==
    ASSUME NEW s \in Websocket, QueueIsLast(s), s.queue # <<>>,
           NEW t \in Websocket, t.queue = Tail(s.queue), t.sent = s.sent
    PROVE  /\ QueueIsLast(t) /\ Taken(t) = Taken(s) + 1
           /\ Head(s.queue) = Taken(t) /\ Taken(s) >= 0
<1>1. s.sent \in Nat /\ s.queue \in Seq(Nat) /\ Len(s.queue) \in Nat
  BY SaidTypes
<1>2. /\ Len(s.queue) >= 1 /\ Len(Tail(s.queue)) = Len(s.queue) - 1
      /\ \A k \in 1..Len(Tail(s.queue)) : k + 1 \in 1..Len(s.queue) /\ Tail(s.queue)[k] = s.queue[k + 1]
      /\ Head(s.queue) = s.queue[1] /\ 1 \in 1..Len(s.queue)
  BY <1>1
<1>3. Taken(t) = Taken(s) + 1 /\ Taken(s) \in Int /\ Taken(s) >= 0
  BY <1>1, <1>2 DEF Taken, QueueIsLast
<1>4. Head(s.queue) = Taken(s) + 1
  BY <1>2 DEF QueueIsLast
<1>5. Len(t.queue) <= t.sent
  BY <1>1, <1>2 DEF QueueIsLast
<1>6. ASSUME NEW k \in 1..Len(t.queue) PROVE t.queue[k] = Taken(t) + k
  <2>1. k + 1 \in 1..Len(s.queue) /\ t.queue[k] = s.queue[k + 1]
    BY <1>2
  <2>2. s.queue[k + 1] = Taken(s) + (k + 1)
    BY <2>1 DEF QueueIsLast
  <2> QED
    BY <1>3, <2>1, <2>2
<1> QED
  BY <1>3, <1>4, <1>5, <1>6 DEF QueueIsLast

-----------------------------------------------------------------------------
(* The steps of websockets.                                                  *)

LEMMA GotEngineSays == ASSUME OrderInv, NEW w \in Ws, GotEngine(w) PROVE LinesInv' /\ HomeInv' /\ SaidInv'
<1>0. /\ ws \in [Ws -> Websocket] /\ ws[w] \in Websocket
      /\ ws[w].stage = "engine" /\ ws[w].conn \in Conn /\ UNCHANGED clientVars
  BY OrderTypes DEF GotEngine, Runnable, ConnInv
<1>1. CASE direct[ws[w].conn].promise = "engine"
  <2> DEFINE s == [ws[w] EXCEPT !.stage = "opening"]
  <2>1. /\ s \in Websocket /\ s.stage = "opening" /\ s.conn = ws[w].conn
        /\ s.browser = ws[w].browser /\ s.wrapper = ws[w].wrapper
        /\ s.sent = ws[w].sent /\ s.queue = ws[w].queue /\ s.delivered = ws[w].delivered
    BY <1>0, ZenonT(60) DEF Websocket, Stage
  <2>2. Calls(w, s, "open", 0)
    BY <1>1 DEF GotEngine
  <2> HIDE DEF s
  <2>3. Kind[w] = "conversation" => Like(s, ws[w]) /\ Shape(s)
    <3>1. Kind[w] = "conversation" => Shape(ws[w])
      BY OrderTypes DEF SaidInv, Said
    <3> QED
      BY <2>1, <3>1 DEF Like, Shape
  <2> QED
    BY <1>0, <2>1, <2>2, <2>3, CallSays
<1>2. CASE direct[ws[w].conn].promise # "engine"
  <2> DEFINE t == Rejected(ws[w], {"open"})
  <2>1. ws' = [ws EXCEPT ![w] = t] /\ calls' = calls
    BY <1>0, <1>2 DEF GotEngine
  <2>2. t \in Websocket /\ t.conn = ws[w].conn /\ t.stage \in {ws[w].stage, "failed"}
    BY <1>0, RejectedFacts
  <2>3. ws[w].browser = "closed" => t.browser = "closed"
    <3>1. t.browser = Closing(ws[w].browser)
      BY <1>0, ZenonT(60) DEF Rejected, Websocket
    <3> QED
      BY <3>1 DEF Closing
  <2>4. Kind[w] = "conversation" => Like(t, ws[w]) /\ Shape(t)
    <3>1. Kind[w] = "conversation" => Shape(ws[w])
      BY OrderTypes DEF SaidInv, Said
    <3> QED
      BY <1>0, <3>1, RejectedLike
  <2> HIDE DEF t
  <2>5. /\ LinesInv' /\ HomeInv'
        /\ \A x \in Ws \ {w} : Kind[x] = "conversation" => Said(x)'
        /\ ws'[w] = t
    BY <1>0, <2>1, <2>2, <2>3, OneSpeaks DEF Speaks
  <2>6. Kind[w] = "conversation" => Said(w)'
    <3> SUFFICES ASSUME Kind[w] = "conversation" PROVE Said(w)'
      OBVIOUS
    <3>1. Live(w)' => Live(w)
      BY <1>0, <2>2, <2>5 DEF Live, clientVars
    <3>2. Passes(calls[ws[w].conn], calls'[ws[w].conn], w, ws'[w].browser = "open")
      BY <2>1 DEF Passes
    <3> QED
      BY <1>0, <2>2, <2>4, <2>5, <3>1, <3>2, SilentStep
  <2> QED
    BY <2>5, <2>6 DEF SaidInv
<1> QED
  BY <1>1, <1>2

LEMMA BrowserClosedSays ==
    ASSUME OrderInv, NEW w \in Ws, BrowserClosed(w) PROVE LinesInv' /\ HomeInv' /\ SaidInv'
<1> DEFINE s == [ws[w] EXCEPT !.browser = "closed"]
           d == [s EXCEPT !.wrapper = "destroying"]
<1>0. ws \in [Ws -> Websocket] /\ ws[w] \in Websocket /\ UNCHANGED clientVars
  BY OrderTypes DEF BrowserClosed
<1>1. \A t \in {s, d} : /\ t \in Websocket /\ t.stage = ws[w].stage /\ t.conn = ws[w].conn
                        /\ t.sent = ws[w].sent /\ t.queue = ws[w].queue
                        /\ t.delivered = ws[w].delivered /\ t.browser = "closed"
  BY <1>0, ZenonT(60) DEF Websocket
<1>2. \/ ws' = [ws EXCEPT ![w] = s] /\ calls' = calls
      \/ ws[w].wrapper = "live" /\ Calls(w, d, "destroy", 0)
  <2>1. s.wrapper = ws[w].wrapper
    BY <1>0 DEF Websocket
  <2> QED
    BY <2>1 DEF BrowserClosed
<1> HIDE DEF s, d
<1>3. ASSUME NEW t \in {s, d}, Kind[w] = "conversation" PROVE Like(t, ws[w]) /\ Shape(t)
  <2>1. Shape(ws[w])
    BY <1>3, OrderTypes DEF SaidInv, Said
  <2> QED
    BY <1>1, <2>1 DEF Like, Shape
<1>4. CASE ws' = [ws EXCEPT ![w] = s] /\ calls' = calls
  <2>1. /\ LinesInv' /\ HomeInv'
        /\ \A x \in Ws \ {w} : Kind[x] = "conversation" => Said(x)'
        /\ ws'[w] = s
    BY <1>0, <1>1, <1>4, OneSpeaks DEF Speaks
  <2>2. Kind[w] = "conversation" => Said(w)'
    <3> SUFFICES ASSUME Kind[w] = "conversation" PROVE Said(w)'
      OBVIOUS
    <3>1. Live(w)' => Live(w)
      BY <1>0, <1>1, <2>1 DEF Live, clientVars
    <3>2. Passes(calls[ws[w].conn], calls'[ws[w].conn], w, ws'[w].browser = "open")
      BY <1>4 DEF Passes
    <3> QED
      BY <1>1, <1>3, <2>1, <3>1, <3>2, SilentStep
  <2> QED
    BY <2>1, <2>2 DEF SaidInv
<1>5. CASE ws[w].wrapper = "live" /\ Calls(w, d, "destroy", 0)
  <2>1. ws[w].stage # "idle"
    BY <1>5, OrderTypes DEF WrapperInv, Attached
  <2> QED
    BY <1>0, <1>1, <1>3, <1>5, <2>1, CallSays
<1> QED
  BY <1>2, <1>4, <1>5

LEMMA MessageSays == ASSUME OrderInv, NEW w \in Ws, Message(w) PROVE LinesInv' /\ HomeInv' /\ SaidInv'
<1> DEFINE s == [ws[w] EXCEPT !.sent = @ + 1]
           k == [op |-> "handle", ws |-> w, msg |-> s.sent]
           c == ws[w].conn
<1>0. ws \in [Ws -> Websocket] /\ ws[w] \in Websocket /\ UNCHANGED <<direct, clientVars>>
      /\ calls \in [Conn -> Seq(Call)]
  BY OrderTypes DEF Message, clientVars
<1>1. ws[w].sent \in Nat /\ ws[w].queue \in Seq(Nat) /\ Len(ws[w].queue) \in Nat
  BY <1>0, SaidTypes
<1>2. /\ s \in Websocket /\ s.stage = ws[w].stage /\ s.conn = ws[w].conn
      /\ s.sent = ws[w].sent + 1 /\ s.queue = ws[w].queue /\ s.delivered = ws[w].delivered
      /\ s.browser = ws[w].browser /\ s.wrapper = ws[w].wrapper
  <2>1. ws[w] \in Websocket /\ ws[w].sent + 1 \in Nat
    BY <1>0, <1>1
  <2> QED
    BY <2>1, ZenonT(60) DEF Websocket
<1>3. /\ ws[w].stage # "idle" \/ Kind[w] = "sync"
      /\ ws[w].browser # "closed"
      /\ \/ ~Direct(w) /\ ws' = [ws EXCEPT ![w] = Queued(s, s.sent)] /\ calls' = calls
         \/ Direct(w) /\ s.wrapper = "freed" /\ ws' = [ws EXCEPT ![w] = s] /\ calls' = calls
         \/ Direct(w) /\ Calls(w, s, "handle", s.sent)
  BY <1>2 DEF Message
<1>4. /\ k.op = "handle" /\ k.ws = w /\ k.msg = ws[w].sent + 1 /\ IsData(k, w) /\ k \in Call
  BY <1>1, <1>2 DEF IsData, Call, Operations
<1>5. Kind[w] = "conversation" =>
         Shape(ws[w]) /\ ws[w].stage # "idle" /\ Pipeline(ws[w], calls[c], w, Live(w)) /\ c \in Conn
  BY <1>3, OrderTypes DEF SaidInv, Said, ConnInv
<1> HIDE DEF s
<1>6. CASE ~Direct(w) /\ ws' = [ws EXCEPT ![w] = Queued(s, s.sent)] /\ calls' = calls
  <2> DEFINE t == Queued(s, s.sent)
  <2>1. /\ t \in Websocket /\ t.stage = s.stage /\ t.conn = s.conn /\ t.sent = s.sent
        /\ t.queue = Append(s.queue, s.sent) /\ t.delivered = s.delivered
        /\ t.browser = s.browser /\ t.wrapper = s.wrapper
    <3>1. Append(s.queue, s.sent) \in Seq(Nat)
      BY <1>1, <1>2
    <3> QED
      BY <1>2, <3>1 DEF Queued, Websocket
  <2> HIDE DEF t
  <2>2. /\ LinesInv' /\ HomeInv'
        /\ \A x \in Ws \ {w} : Kind[x] = "conversation" => Said(x)'
        /\ ws'[w] = t
    BY <1>0, <1>2, <1>6, <2>1, OneSpeaks DEF Speaks, t
  <2>3. Kind[w] = "conversation" => Said(w)'
    <3> SUFFICES ASSUME Kind[w] = "conversation" PROVE Said(w)'
      OBVIOUS
    <3>1. Live(w)' = Live(w)
      BY <1>0, <1>2, <2>1, <2>2 DEF Live
    <3>2. Pipeline(t, calls[c], w, Live(w))
      BY <1>0, <1>2, <1>5, <2>1, MessageQueued
    <3>3. Shape(t)
      BY <1>2, <1>5, <1>6, <2>1 DEF Shape, Direct
    <3> QED
      BY <1>2, <1>6, <2>1, <2>2, <3>1, <3>2, <3>3 DEF Said
  <2> QED
    BY <2>2, <2>3 DEF SaidInv
<1>7. CASE Direct(w) /\ s.wrapper = "freed" /\ ws' = [ws EXCEPT ![w] = s] /\ calls' = calls
  <2>1. Kind[w] # "conversation"
    BY <1>2, <1>3, <1>5, <1>7 DEF Shape
  <2>2. /\ LinesInv' /\ HomeInv'
        /\ \A x \in Ws \ {w} : Kind[x] = "conversation" => Said(x)'
    BY <1>0, <1>2, <1>7, OneSpeaks DEF Speaks
  <2> QED
    BY <2>1, <2>2 DEF SaidInv
<1>8. CASE Direct(w) /\ Calls(w, s, "handle", s.sent)
  <2>1. ws[w].stage # "idle"
    BY <1>8, OrderTypes DEF Direct, WrapperInv, Attached
  <2>2. \/ /\ Live(w) /\ ws' = [ws EXCEPT ![w] = s]
           /\ calls' = [calls EXCEPT ![c] = Append(calls[c], k)]
        \/ /\ ~Live(w) /\ calls' = calls
           /\ ws' = [ws EXCEPT ![w] = s] \/ ws' = [ws EXCEPT ![w] = Rejected(s, {"handle"})]
    BY <1>2, <1>8 DEF Calls, Live
  <2> HIDE DEF k
  <2>3. PICK t \in {s, Rejected(s, {"handle"})} :
            /\ ws' = [ws EXCEPT ![w] = t]
            /\ calls' = calls \/ t = s
    BY <2>2
  <2>4. /\ t \in Websocket /\ t.conn = ws[w].conn /\ t.stage \in {s.stage, "failed"}
        /\ ws[w].browser = "closed" => t.browser = "closed"
        /\ Kind[w] = "conversation" => Like(t, s) /\ Shape(t)
    <3>0. Kind[w] = "conversation" => Shape(s)
      BY <1>2, <1>3, <1>5 DEF Shape
    <3>1. CASE t = s
      BY <1>2, <3>0, <3>1 DEF Like
    <3>2. CASE t = Rejected(s, {"handle"})
      <4>1. t \in Websocket /\ t.conn = s.conn /\ t.stage \in {s.stage, "failed"}
        BY <1>2, <3>2, RejectedFacts
      <4>2. Kind[w] = "conversation" => Like(t, s) /\ Shape(t)
        BY <1>2, <3>0, <3>2, RejectedLike
      <4> QED
        BY <1>2, <1>3, <4>1, <4>2
    <3> QED
      BY <3>1, <3>2
  <2>5. Speaks(w, t.browser)
    <3>1. k.op # "destroy"
      BY ONLY <1>4
    <3> QED
      BY ONLY <1>4, <2>1, <2>2, <3>1, Zenon DEF Speaks, MayBecome
  <2>6. /\ LinesInv' /\ HomeInv'
        /\ \A x \in Ws \ {w} : Kind[x] = "conversation" => Said(x)'
        /\ ws'[w] = t
    BY <1>0, <2>3, <2>4, <2>5, OneSpeaks
  <2>7. Kind[w] = "conversation" => Said(w)'
    <3> SUFFICES ASSUME Kind[w] = "conversation" PROVE Said(w)'
      OBVIOUS
    <3>1. Live(w)' = Live(w)
      BY <1>0, <2>4, <2>6 DEF Live
    <3>2. s.queue = <<>> /\ Len(s.queue) = 0
      BY <1>2, <1>5, <1>8 DEF Shape, Direct
    <3>3. QueueIsLast(s) /\ Taken(s) = Taken(ws[w]) + 1 /\ Taken(ws[w]) >= 0 /\ k.msg = Taken(s)
      BY <1>1, <1>2, <1>4, <3>2 DEF QueueIsLast, Taken
    <3>4. Pipeline(s, calls'[c], w, Live(w))
      <4>1. CASE calls' = [calls EXCEPT ![c] = Append(calls[c], k)]
        <5>1. Pipeline(s, Append(calls[c], k), w, Live(w))
          BY <1>0, <1>2, <1>4, <1>5, <3>3, NextCalled
        <5> QED
          BY <1>0, <1>5, <4>1, <5>1
      <4>2. CASE ~Live(w) /\ calls' = calls
        <5>1. Taken(s) >= Taken(ws[w])
          BY <1>1, <1>2, <3>2, <3>3 DEF Taken
        <5>2. calls[c] \in Seq(Call)
          BY <1>0, <1>5
        <5> QED
          BY <1>0, <1>2, <1>5, <3>3, <4>2, <5>1, <5>2, MessageDropped
      <4> QED
        BY <2>2, <4>1, <4>2
    <3>5. Pipeline(t, calls'[c], w, Live(w))
      BY <2>4, <3>4, LikeKeeps
    <3> QED
      BY <2>4, <2>6, <3>1, <3>5 DEF Said
  <2> QED
    BY <2>6, <2>7 DEF SaidInv
<1> QED
  BY <1>3, <1>6, <1>7, <1>8

-----------------------------------------------------------------------------
(* The engine's answers.                                                    *)

\* The oldest call over a connection, of a websocket that has it.
IsOldest(c, q, w) ==
    /\ q \in Seq(Call) /\ Head(q) \in Call /\ Tail(q) \in Seq(Call) /\ w \in Ws
    /\ ws[w] \in Websocket /\ Attached(w) /\ ws[w].conn = c /\ Live(w)
    /\ Head(q).op = "destroy" => ws[w].browser = "closed"
    /\ Kind[w] = "conversation" => Shape(ws[w]) /\ Pipeline(ws[w], q, w, TRUE)

LEMMA OldestCall ==
    ASSUME OrderInv, NEW c \in Conn, calls[c] # <<>>, direct[c].line = "open"
    PROVE  IsOldest(c, calls[c], Head(calls[c]).ws)
<1> DEFINE q == calls[c]
           w == Head(q).ws
<1>1. q \in Seq(Call) /\ Head(q) = q[1] /\ 1 \in 1..Len(q) /\ Tail(q) \in Seq(Call)
  BY OrderTypes
<1>2. q[1] \in Call
  BY <1>1
<1>3. w \in Ws
  BY <1>1, <1>2 DEF Call
<1>4. Attached(w) /\ IsHome(q[1], c)
  BY <1>1, OrderTypes DEF CallsInv, HomeInv
<1>5. ws[w] \in Websocket /\ ws[w].conn = c /\ ws[w].stage # "idle"
  BY <1>1, <1>3, <1>4, OrderTypes DEF IsHome, Attached
<1>6. Live(w)
  BY <1>5 DEF Live
<1>7. Head(q).op = "destroy" => ws[w].browser = "closed"
  BY <1>1, <1>4 DEF IsHome
<1>8. Kind[w] = "conversation" => Shape(ws[w]) /\ Pipeline(ws[w], q, w, TRUE)
  <2>1. Kind[w] = "conversation" => Said(w)
    BY <1>3, OrderTypes DEF SaidInv
  <2>2. Live(w) = TRUE
    BY <1>6 DEF Live
  <2> QED
    BY <1>5, <2>1, <2>2 DEF Said
<1> QED
  BY ONLY <1>1, <1>2, <1>3, <1>4, <1>5, <1>6, <1>7, <1>8, Zenon DEF IsOldest

\* It is answered, and the websocket may call again.
LEMMA AnsweredSays ==
    ASSUME OrderInv, NEW c \in Conn, calls[c] # <<>>, direct[c].line = "open",
           NEW q, q = calls[c], NEW w, w = Head(q).ws, UNCHANGED clientVars,
           NEW k \in Call, k.ws = w, k.op # "destroy",
           NEW r \in {Tail(q), Append(Tail(q), k)}, NEW t \in Websocket,
           ws' = [ws EXCEPT ![w] = t], calls' = [calls EXCEPT ![c] = r],
           t.conn = c, ws[w].browser = "closed" => t.browser = "closed",
           Kind[w] = "conversation" => Shape(t) /\ Pipeline(t, r, w, TRUE)
    PROVE  LinesInv' /\ HomeInv' /\ SaidInv'
<1>0. w \in Ws /\ Attached(w) /\ ws[w].conn = c /\ Live(w)
  <2>1. IsOldest(c, q, w)
    BY ONLY OrderInv, c \in Conn, calls[c] # <<>>, direct[c].line = "open",
            q = calls[c], w = Head(q).ws, OldestCall, Zenon
  <2> QED
    BY ONLY <2>1, Zenon DEF IsOldest
<1>1. w \in Ws /\ Attached(w) /\ ws[w].conn = c /\ Live(w) /\ ws[w].stage # "idle"
  BY ONLY <1>0, Zenon DEF Attached
<1>2. /\ LinesInv' /\ HomeInv'
      /\ \A x \in Ws \ {w} : Kind[x] = "conversation" => Said(x)'
      /\ ws'[w] = t
  <2>1. r \in MayBecome(q, k, w)
    BY Zenon DEF MayBecome
  <2>2. Speaks(w, t.browser)
    BY <1>1, <2>1, Zenon DEF Speaks
  <2> QED
    BY <1>1, <2>2, OneSpeaks, ZenonT(120)
<1>3. Kind[w] = "conversation" => Said(w)'
  <2>1. calls'[c] = r
    BY OrderTypes
  <2>2. direct'[c].line = "open"
    BY DEF clientVars
  <2>3. Live(w)' = TRUE
    BY <1>2, <2>2 DEF Live
  <2> QED
    BY <1>2, <2>1, <2>3 DEF Said
<1> QED
  BY <1>2, <1>3 DEF SaidInv

LEMMA EngineRefusesSays ==
    ASSUME OrderInv, NEW c \in Conn, EngineRefuses(c) PROVE LinesInv' /\ HomeInv' /\ SaidInv'
<1> DEFINE q == calls[c]
           call == Head(q)
           w == call.ws
           d == [ws[w] EXCEPT !.delivered = Append(@, call.msg)]
<1>1. /\ calls[c] # <<>> /\ direct[c].line = "open" /\ UNCHANGED clientVars
      /\ calls' = [calls EXCEPT ![c] = Tail(q)]
  BY DEF EngineRefuses
<1>2. PICK s : /\ ws' = [ws EXCEPT ![w] = Rejected(s, {call.op})]
               /\ s = ws[w] \/ (call.op \in {"flush", "handle"} /\ s = d)
  BY DEF EngineRefuses
<1>3. /\ q \in Seq(Call) /\ call \in Call /\ Tail(q) \in Seq(Call) /\ w \in Ws
      /\ ws[w] \in Websocket /\ Attached(w) /\ ws[w].conn = c
      /\ call.op = "destroy" => ws[w].browser = "closed"
      /\ Kind[w] = "conversation" => Shape(ws[w]) /\ Pipeline(ws[w], q, w, TRUE)
  <2>1. IsOldest(c, q, w)
    BY ONLY OrderInv, c \in Conn, <1>1, OldestCall, Zenon
  <2> QED
    BY ONLY <2>1, Zenon DEF IsOldest
<1>4. call.op \in Operations /\ call.msg \in Nat
  BY <1>3 DEF Call
<1>5. /\ d \in Websocket /\ d.stage = ws[w].stage /\ d.conn = ws[w].conn /\ d.browser = ws[w].browser
      /\ d.wrapper = ws[w].wrapper /\ d.sent = ws[w].sent /\ d.queue = ws[w].queue
      /\ d.delivered = Append(ws[w].delivered, call.msg)
  <2>1. Append(ws[w].delivered, call.msg) \in Seq(Nat)
    BY <1>3, <1>4, SaidTypes
  <2> QED
    BY <1>3, <2>1 DEF Websocket
<1> HIDE DEF d
<1>6. /\ s \in Websocket /\ s.conn = c /\ s.browser = ws[w].browser
      /\ call.op = "destroy" => s.browser = "closed"
  BY <1>2, <1>3, <1>5
<1> DEFINE t == Rejected(s, {call.op})
<1>7. t \in Websocket /\ t.conn = c
  BY <1>6, RejectedFacts
<1>8. ws[w].browser = "closed" => t.browser = "closed"
  <2>1. t.browser = IF {call.op} \subseteq {"destroy"} THEN s.browser ELSE Closing(s.browser)
    BY <1>6, ZenonT(60) DEF Rejected, Websocket
  <2> QED
    BY <1>6, <2>1 DEF Closing
<1>9. ASSUME Kind[w] = "conversation" PROVE Shape(t) /\ Pipeline(t, Tail(q), w, TRUE)
  <2>1. Shape(s) /\ s.stage # "idle"
    BY <1>2, <1>3, <1>5, <1>9 DEF Shape, Attached
  <2>2. /\ Like(t, s) /\ Shape(t)
        /\ call.op # "destroy" => t.browser # "open"
    <3>1. "destroy" \in {call.op} => s.browser = "closed"
      BY <1>6
    <3>2. call.op # "destroy" => ~({call.op} \subseteq {"destroy"})
      OBVIOUS
    <3> QED
      BY <1>6, <2>1, <3>1, <3>2, RejectedLike
  <2>3. IsData(call, w) <=> call.op \in {"flush", "handle"}
    BY DEF IsData
  <2>4. CASE s = ws[w]
    <3>1. Pipeline(t, q, w, TRUE)
      BY <1>3, <1>9, <2>2, <2>4, LikeKeeps
    <3>2. ~IsData(call, w) \/ t.browser # "open"
      BY <2>2, <2>3
    <3> QED
      BY <1>1, <1>3, <2>2, <3>1, <3>2, CallSkipped
  <2>5. CASE call.op \in {"flush", "handle"} /\ s = d
    <3>1. Pipeline(d, Tail(q), w, TRUE)
      BY <1>1, <1>3, <1>5, <1>9, <2>3, <2>5, CallDelivered
    <3> QED
      BY <2>2, <2>5, <3>1, LikeKeeps
  <2> QED
    BY <1>2, <2>4, <2>5
<1> HIDE DEF t
<1> DEFINE k == [op |-> "open", ws |-> w, msg |-> 0]
<1>10. k \in Call /\ k.ws = w /\ k.op # "destroy"
  BY <1>3 DEF Call, Operations
<1>11. ws' = [ws EXCEPT ![w] = t]
  BY <1>2 DEF t
<1> HIDE DEF k
<1> QED
  BY <1>1, <1>7, <1>8, <1>9, <1>10, <1>11, AnsweredSays, ZenonT(200)

LEMMA EngineAnswersSays ==
    ASSUME OrderInv, NEW c \in Conn, EngineAnswers(c) PROVE LinesInv' /\ HomeInv' /\ SaidInv'
<1> DEFINE q == calls[c]
           call == Head(q)
           w == call.ws
           a == [ws[w] EXCEPT !.wrapper = "live", !.remote = "open"]
           b == [ws[w] EXCEPT !.wrapper = "freed", !.remote = "gone"]
           d == [ws[w] EXCEPT !.delivered = Append(@, call.msg)]
           s == CASE call.op = "open" -> a [] call.op = "destroy" -> b [] OTHER -> d
<1>1. /\ calls[c] # <<>> /\ direct[c].line = "open" /\ UNCHANGED clientVars
      /\ IF call.op \in {"open", "flush"} THEN GoesOn(c, w, s)
         ELSE ws' = [ws EXCEPT ![w] = s] /\ calls' = [calls EXCEPT ![c] = Tail(@)]
  BY Zenon DEF EngineAnswers
<1>2. IsOldest(c, q, w)
  BY ONLY OrderInv, c \in Conn, <1>1, OldestCall, Zenon
<1>3. /\ q \in Seq(Call) /\ call \in Call /\ Tail(q) \in Seq(Call) /\ w \in Ws
      /\ ws[w] \in Websocket /\ Attached(w) /\ ws[w].conn = c
      /\ call.op = "destroy" => ws[w].browser = "closed"
      /\ Kind[w] = "conversation" => Shape(ws[w]) /\ Pipeline(ws[w], q, w, TRUE)
  BY ONLY <1>2, Zenon DEF IsOldest
<1>4. call.op \in Operations /\ call.msg \in Nat
  BY ONLY <1>3 DEF Call
<1> DEFINE Same(t) == /\ t \in Websocket /\ t.stage = ws[w].stage /\ t.conn = ws[w].conn
                      /\ t.browser = ws[w].browser /\ t.sent = ws[w].sent
                      /\ t.queue = ws[w].queue
<1>5. Same(d) /\ d.wrapper = ws[w].wrapper /\ d.delivered = Append(ws[w].delivered, call.msg)
  <2>1. Append(ws[w].delivered, call.msg) \in Seq(Nat)
    BY <1>3, <1>4, SaidTypes
  <2> QED
    BY ONLY <1>3, <2>1, ZenonT(60) DEF Websocket
<1>6. Same(a) /\ a.wrapper = "live" /\ a.delivered = ws[w].delivered
  BY ONLY <1>3, ZenonT(60) DEF Websocket
<1>7. Same(b) /\ b.wrapper = "freed" /\ b.delivered = ws[w].delivered
  BY ONLY <1>3, ZenonT(60) DEF Websocket
<1>8. \/ call.op = "open" /\ s = a
      \/ call.op = "destroy" /\ s = b
      \/ call.op \in {"flush", "handle"} /\ s = d
  <2>1. call.op = "open" => s = a
    OBVIOUS
  <2>2. call.op = "destroy" => s = b
    OBVIOUS
  <2>3. call.op \notin {"open", "destroy"} => s = d
    OBVIOUS
  <2> QED
    BY ONLY <1>4, <2>1, <2>2, <2>3 DEF Operations
<1> HIDE DEF a, b, d, s
<1>9. Same(s) /\ ws[w].stage # "idle"
  BY ONLY <1>3, <1>5, <1>6, <1>7, <1>8, Zenon DEF Attached
<1> HIDE DEF Same
<1>10. /\ s \in Websocket /\ s.stage = ws[w].stage /\ s.conn = c /\ s.browser = ws[w].browser
       /\ s.sent = ws[w].sent /\ s.queue = ws[w].queue /\ s.stage # "idle"
  BY ONLY <1>3, <1>9, Zenon DEF Same
<1>11. ASSUME Kind[w] = "conversation" PROVE Shape(s) /\ Pipeline(s, Tail(q), w, TRUE)
  <2>1. Shape(ws[w]) /\ Pipeline(ws[w], q, w, TRUE)
    BY ONLY <1>3, <1>11, Zenon
  <2>2. s.wrapper \in {"destroying", "freed"} => s.browser = "closed"
    <3>1. CASE call.op = "open" /\ s = a
      BY ONLY <1>6, <3>1
    <3>2. CASE call.op = "destroy" /\ s = b
      BY ONLY <1>3, <1>10, <3>2, Zenon
    <3>3. CASE call.op \in {"flush", "handle"} /\ s = d
      <4>1. s.wrapper = ws[w].wrapper
        BY ONLY <1>5, <3>3, Zenon
      <4> QED
        BY ONLY <1>10, <2>1, <4>1, Zenon DEF Shape
    <3> QED
      BY ONLY <1>8, <3>1, <3>2, <3>3, Zenon
  <2>3. Shape(s)
    BY ONLY <1>10, <2>1, <2>2, Zenon DEF Shape
  <2>4. CASE s.delivered = ws[w].delivered /\ call.op \notin {"flush", "handle"}
    <3>1. Pipeline(ws[w], Tail(q), w, TRUE)
      <4>1. ~IsData(call, w)
        BY ONLY <2>4, Zenon DEF IsData
      <4> QED
        BY ONLY <1>1, <1>3, <2>1, <4>1, CallSkipped
    <3>2. Like(s, ws[w])
      BY ONLY <1>10, <2>4, Zenon DEF Like
    <3> QED
      BY ONLY <2>3, <3>1, <3>2, LikeKeeps
  <2>5. CASE call.op \in {"flush", "handle"} /\ s = d
    <3>1. s.delivered = Append(ws[w].delivered, Head(q).msg)
      BY ONLY <1>5, <2>5, Zenon
    <3>2. IsData(Head(q), w)
      BY ONLY <2>5, Zenon DEF IsData
    <3>3. Pipeline(s, Tail(q), w, TRUE)
      BY ONLY <1>1, <1>3, <1>10, <2>1, <3>1, <3>2, CallDelivered
    <3> QED
      BY ONLY <2>3, <3>3
  <2> QED
    BY ONLY <1>6, <1>7, <1>8, <2>4, <2>5
<1> DEFINE o == [s EXCEPT !.stage = "opened"]
           f == [s EXCEPT !.stage = "flushing", !.queue = Tail(@)]
           x == Rejected(s, {"flush"})
           k == [op |-> "flush", ws |-> w, msg |-> Head(s.queue)]
           z == [op |-> "open", ws |-> w, msg |-> 0]
<1>12. z \in Call /\ z.ws = w /\ z.op # "destroy"
  BY ONLY <1>3 DEF Call, Operations
<1>13. CASE ws' = [ws EXCEPT ![w] = s] /\ calls' = [calls EXCEPT ![c] = Tail(q)]
  <2>1. ws[w].browser = "closed" => s.browser = "closed"
    BY ONLY <1>10
  <2> HIDE DEF z
  <2> QED
    BY ONLY OrderInv, c \in Conn, <1>1, <1>10, <1>11, <1>12, <1>13, <2>1, AnsweredSays, ZenonT(200)
<1>14. CASE s.queue = <<>> /\ ws' = [ws EXCEPT ![w] = o] /\ calls' = [calls EXCEPT ![c] = Tail(q)]
  <2>1. /\ o \in Websocket /\ o.stage = "opened" /\ o.conn = c /\ o.browser = s.browser
        /\ o.sent = s.sent /\ o.queue = s.queue /\ o.delivered = s.delivered
        /\ o.wrapper = s.wrapper
    BY ONLY <1>10, ZenonT(60) DEF Websocket, Stage
  <2> HIDE DEF o, z
  <2>2. Kind[w] = "conversation" => Shape(o) /\ Pipeline(o, Tail(q), w, TRUE)
    <3> SUFFICES ASSUME Kind[w] = "conversation" PROVE Shape(o) /\ Pipeline(o, Tail(q), w, TRUE)
      OBVIOUS
    <3>1. Shape(o)
      BY ONLY <1>11, <1>14, <2>1, Kind[w] = "conversation" DEF Shape
    <3>2. Like(o, s)
      BY ONLY <2>1, Zenon DEF Like
    <3> QED
      BY ONLY <1>11, <3>1, <3>2, Kind[w] = "conversation", LikeKeeps
  <2>3. ws[w].browser = "closed" => o.browser = "closed"
    BY ONLY <1>10, <2>1
  <2> QED
    BY ONLY OrderInv, c \in Conn, <1>1, <1>12, <1>14, <2>1, <2>2, <2>3, AnsweredSays, ZenonT(200)
<1>15. CASE /\ ws' = [ws EXCEPT ![w] = x]
            /\ calls' = [calls EXCEPT ![c] = Tail(q)]
  <2>1. x \in Websocket /\ x.conn = c
    BY ONLY <1>10, RejectedFacts
  <2>2. Kind[w] = "conversation" => Shape(x) /\ Pipeline(x, Tail(q), w, TRUE)
    <3> SUFFICES ASSUME Kind[w] = "conversation" PROVE Shape(x) /\ Pipeline(x, Tail(q), w, TRUE)
      OBVIOUS
    <3>1. Like(x, s) /\ Shape(x)
      BY ONLY <1>10, <1>11, Kind[w] = "conversation", RejectedLike
    <3> QED
      BY ONLY <1>11, <3>1, Kind[w] = "conversation", LikeKeeps
  <2>3. ws[w].browser = "closed" => x.browser = "closed"
    <3>1. x.browser = Closing(s.browser)
      BY ONLY <1>10, ZenonT(60) DEF Rejected, Websocket
    <3> QED
      BY ONLY <1>10, <3>1 DEF Closing
  <2> HIDE DEF x, z
  <2> QED
    BY ONLY OrderInv, c \in Conn, <1>1, <1>12, <1>15, <2>1, <2>2, <2>3, AnsweredSays, ZenonT(200)
<1>16. CASE /\ s.queue # <<>> /\ ws' = [ws EXCEPT ![w] = f]
            /\ calls' = [calls EXCEPT ![c] = Append(Tail(q), k)]
  <2>1. s.queue \in Seq(Nat) /\ Tail(s.queue) \in Seq(Nat) /\ Head(s.queue) \in Nat
    BY ONLY <1>10, <1>16, SaidTypes
  <2>2. /\ f \in Websocket /\ f.stage = "flushing" /\ f.conn = c /\ f.browser = s.browser
        /\ f.sent = s.sent /\ f.queue = Tail(s.queue) /\ f.delivered = s.delivered
        /\ f.wrapper = s.wrapper
    BY ONLY <1>10, <2>1, ZenonT(60) DEF Websocket, Stage
  <2>3. k \in Call /\ k.ws = w /\ k.op = "flush" /\ k.op # "destroy" /\ k.msg = Head(s.queue)
        /\ IsData(k, w)
    BY ONLY <1>3, <2>1 DEF Call, Operations, IsData
  <2> HIDE DEF f, k
  <2>4. Kind[w] = "conversation" => Shape(f) /\ Pipeline(f, Append(Tail(q), k), w, TRUE)
    <3> SUFFICES ASSUME Kind[w] = "conversation"
                 PROVE  Shape(f) /\ Pipeline(f, Append(Tail(q), k), w, TRUE)
      OBVIOUS
    <3>1. Shape(f)
      BY ONLY <1>11, <2>2, Kind[w] = "conversation" DEF Shape
    <3>2. Pipeline(s, Tail(q), w, TRUE) /\ QueueIsLast(s)
      BY ONLY <1>11, Kind[w] = "conversation", Zenon DEF Pipeline
    <3>3. QueueIsLast(f) /\ Taken(f) = Taken(s) + 1 /\ Head(s.queue) = Taken(f) /\ Taken(s) >= 0
      BY ONLY <1>10, <1>16, <2>2, <3>2, QueueTaken
    <3>4. k.msg = Taken(f)
      BY ONLY <2>3, <3>3
    <3> QED
      BY ONLY <1>3, <1>10, <2>2, <2>3, <3>1, <3>2, <3>3, <3>4, NextCalled
  <2>5. ws[w].browser = "closed" => f.browser = "closed"
    BY ONLY <1>10, <2>2
  <2> QED
    BY ONLY OrderInv, c \in Conn, <1>1, <1>16, <2>2, <2>3, <2>4, <2>5, AnsweredSays, ZenonT(200)
<1> HIDE DEF o, f, x, z
<1> QED
  <2>1. calls' = [calls EXCEPT ![c] = Tail(@)] => calls' = [calls EXCEPT ![c] = Tail(q)]
    OBVIOUS
  <2>2. GoesOn(c, w, s) =>
           \/ s.queue = <<>> /\ ws' = [ws EXCEPT ![w] = o] /\ calls' = [calls EXCEPT ![c] = Tail(q)]
           \/ ws' = [ws EXCEPT ![w] = x] /\ calls' = [calls EXCEPT ![c] = Tail(q)]
           \/ /\ s.queue # <<>> /\ ws' = [ws EXCEPT ![w] = f]
              /\ calls' = [calls EXCEPT ![c] = Append(Tail(q), k)]
    BY ONLY TRUE, ZenonT(60) DEF GoesOn, o, f, x, k
  <2> QED
    BY ONLY <1>1, <1>13, <1>14, <1>15, <1>16, <2>1, <2>2, Zenon

-----------------------------------------------------------------------------
(* The connections below.                                                   *)

\* A websocket when connections are ended and it may hear of it.
LEMMA EndedOne ==
    ASSUME OrderInv, NEW C \in SUBSET Conn, NEW rejects \in BOOLEAN, NEW w \in Ws, NEW users,
           NEW s, s = Notified(w, Dropped(C, rejects)[w], users)
    PROVE  /\ ws[w].browser = "closed" => s.browser = "closed"
           /\ Kind[w] = "conversation" => Like(s, ws[w]) /\ Shape(s)
<1> DEFINE d == Dropped(C, rejects)[w]
           c == ws[w].conn
           P == Pending(w, c)
<1>1. ws[w] \in Websocket
  BY OrderTypes
<1>2. d = ws[w] \/ (c \in C /\ P # {} /\ d = Rejected(ws[w], P))
  BY DEF Dropped
<1>3. Kind[w] = "conversation" => Shape(ws[w])
  BY OrderTypes DEF SaidInv, Said
<1>4. s = d \/ s = [d EXCEPT !.browser = Closing(@)]
  BY DEF Notified
<1> HIDE DEF d
<1>5. /\ d \in Websocket
      /\ ws[w].browser = "closed" => d.browser = "closed"
      /\ Kind[w] = "conversation" => Like(d, ws[w]) /\ Shape(d)
  <2>1. CASE d = ws[w]
    BY ONLY <1>1, <1>3, <2>1, Zenon DEF Like
  <2>2. CASE c \in C /\ P # {} /\ d = Rejected(ws[w], P)
    <3>1. "destroy" \in P => ws[w].browser = "closed"
      <4> SUFFICES ASSUME "destroy" \in P PROVE ws[w].browser = "closed"
        OBVIOUS
      <4>1. PICK j \in 1..Len(calls[c]) : calls[c][j].ws = w /\ calls[c][j].op = "destroy"
        BY DEF Pending
      <4>2. IsHome(calls[c][j], c)
        BY <2>2, <4>1, OrderTypes DEF HomeInv
      <4> QED
        BY <4>1, <4>2 DEF IsHome
    <3> HIDE DEF P
    <3>2. Kind[w] = "conversation" => Like(d, ws[w]) /\ Shape(d)
      BY ONLY <1>1, <1>3, <2>2, <3>1, RejectedLike
    <3>3. d \in Websocket
      BY ONLY <1>1, <2>2, RejectedFacts
    <3>4. d.browser = IF P \subseteq {"destroy"} THEN ws[w].browser ELSE Closing(ws[w].browser)
      BY ONLY <1>1, <2>2, ZenonT(60) DEF Rejected, Websocket
    <3>5. ws[w].browser = "closed" => d.browser = "closed"
      BY ONLY <3>4, Zenon DEF Closing
    <3> QED
      BY ONLY <3>2, <3>3, <3>5, Zenon
  <2> QED
    BY ONLY <1>2, <2>1, <2>2, Zenon
<1>6. CASE s = d
  BY ONLY <1>5, <1>6, Zenon
<1>7. CASE s = [d EXCEPT !.browser = Closing(@)]
  <2>1. /\ s.browser = Closing(d.browser) /\ s.stage = d.stage /\ s.wrapper = d.wrapper
        /\ s.sent = d.sent /\ s.queue = d.queue /\ s.delivered = d.delivered
    BY ONLY <1>5, <1>7, ZenonT(60) DEF Websocket
  <2>2. /\ d.browser = "closed" => s.browser = "closed"
        /\ s.browser = "open" => d.browser = "open"
    BY ONLY <2>1 DEF Closing
  <2>3. Shape(d) => Shape(s)
    BY ONLY <2>1, <2>2, Zenon DEF Shape
  <2>4. Like(d, ws[w]) => Like(s, ws[w])
    BY ONLY <2>1, <2>2, Zenon DEF Like
  <2> QED
    BY ONLY <1>5, <2>2, <2>3, <2>4, Zenon
<1> QED
  BY ONLY <1>4, <1>6, <1>7, Zenon

\* Connections are ended, or otherwise none is opened.
LEMMA LinesSay ==
    ASSUME OrderInv, NEW C \in SUBSET Conn, NEW rejects \in BOOLEAN,
           ws' \in [Ws -> {ws'[w] : w \in Ws}],
           \A w \in Ws : \E users : ws'[w] = Notified(w, Dropped(C, rejects)[w], users),
           calls' = NoCalls(C), opened' = opened,
           \A c \in Conn : /\ c \in C => direct'[c].line # "open"
                           /\ c \notin C => (direct'[c].line = "open" <=> direct[c].line = "open")
                           /\ direct[c].line # "none" => direct'[c].line # "none"
    PROVE  LinesInv' /\ HomeInv' /\ SaidInv'
<1>1. \A w \in Ws : SocketStep(w)
  BY DroppedFacts DEF OrderInv
<1>2. ASSUME NEW w \in Ws
      PROVE  /\ ws[w].browser = "closed" => ws'[w].browser = "closed"
             /\ Kind[w] = "conversation" => Like(ws'[w], ws[w]) /\ Shape(ws'[w])
             /\ ws'[w].conn = ws[w].conn
             /\ ws'[w].stage # "idle" => ws[w].stage # "idle"
  <2>1. PICK users : ws'[w] = Notified(w, Dropped(C, rejects)[w], users)
    OBVIOUS
  <2>2. /\ ws[w].browser = "closed" => ws'[w].browser = "closed"
        /\ Kind[w] = "conversation" => Like(ws'[w], ws[w]) /\ Shape(ws'[w])
    BY ONLY OrderInv, C \in SUBSET Conn, rejects \in BOOLEAN, w \in Ws, <2>1, EndedOne
  <2> QED
    BY <1>1, <2>2 DEF SocketStep, Attached
<1>3. \A c \in Conn : calls'[c] = IF c \in C THEN <<>> ELSE calls[c]
  BY DEF NoCalls
<1>4. LinesInv'
  BY <1>3, OrderTypes DEF LinesInv
<1>5. HomeInv'
  <2>1. \A c \in Conn : \A i \in 1..Len(calls'[c]) :
            \E j \in 1..Len(calls[c]) : calls'[c][i] = calls[c][j]
    BY <1>3
  <2>2. \A w \in Ws : Attached(w) => /\ ws'[w].conn = ws[w].conn
                                     /\ ws[w].browser = "closed" => ws'[w].browser = "closed"
    BY <1>2
  <2> QED
    BY ONLY OrderInv, <2>1, <2>2, HomeStays, ZenonT(60)
<1>6. SaidInv'
  <2> SUFFICES ASSUME NEW x \in Ws, Kind[x] = "conversation" PROVE Said(x)'
    BY DEF SaidInv
  <2> DEFINE c == ws[x].conn
  <2>1. CASE ws[x].stage = "idle"
    BY <1>2, <2>1 DEF Said
  <2>2. CASE ws[x].stage # "idle"
    <3>1. c \in Conn
      BY <2>2, OrderTypes DEF ConnInv
    <3>2. \/ (Live(x)' => Live(x)) /\ Passes(calls[c], calls'[c], x, ws'[x].browser = "open")
          \/ ~Live(x)' /\ calls'[c] = <<>>
      <4>1. ws'[x].conn = c
        BY <1>2
      <4>2. CASE c \in C
        BY <1>3, <3>1, <4>1, <4>2 DEF Live
      <4>3. CASE c \notin C
        <5>1. calls'[c] = calls[c]
          BY <1>3, <3>1, <4>3
        <5>2. Live(x)' => Live(x)
          BY <3>1, <4>1, <4>3 DEF Live
        <5> QED
          BY <5>1, <5>2 DEF Passes
      <4> QED
        BY <4>2, <4>3
    <3> QED
      BY <1>2, <3>2, SilentStep
  <2> QED
    BY <2>1, <2>2
<1> QED
  BY <1>4, <1>5, <1>6

\* What does not concern the websockets, and ends no connection.
LEMMA NothingSaid ==
    ASSUME OrderInv, UNCHANGED socketVars, opened' = opened,
           \A c \in Conn : direct'[c].line = direct[c].line
    PROVE  LinesInv' /\ HomeInv' /\ SaidInv'
<1>1. ws' = ws /\ calls' = calls
  BY DEF socketVars
<1>2. ws \in [Ws -> Websocket] /\ calls \in [Conn -> Seq(Call)]
  BY OrderTypes
<1>3. \A w \in Ws : ws'[w] = Notified(w, Dropped({}, FALSE)[w], {})
  BY <1>1 DEF Notified, Dropped
<1>4. ws' \in [Ws -> {ws'[w] : w \in Ws}]
  BY <1>1, <1>2
<1>5. calls' = NoCalls({})
  BY <1>1, <1>2 DEF NoCalls
<1>6. {} \in SUBSET Conn /\ FALSE \in BOOLEAN
  OBVIOUS
<1>7. \A w \in Ws : \E users : ws'[w] = Notified(w, Dropped({}, FALSE)[w], users)
  BY <1>3
<1>8. \A c \in Conn : /\ c \in {} => direct'[c].line # "open"
                      /\ c \notin {} => (direct'[c].line = "open" <=> direct[c].line = "open")
                      /\ direct[c].line # "none" => direct'[c].line # "none"
  OBVIOUS
<1> QED
  BY ONLY OrderInv, opened' = opened, <1>4, <1>5, <1>6, <1>7, <1>8, LinesSay

\* A websocket that has said nothing.
LEMMA NothingYet ==
    ASSUME NEW t, NEW q, NEW x, NEW live,
           t.sent = 0, t.queue = <<>>, t.delivered = <<>>, DataIn(q, x) = {}
    PROVE  Pipeline(t, q, x, live)
<1>1. Taken(t) = 0 /\ Len(t.delivered) = 0 /\ Len(t.queue) = 0
  <2>1. Len(<<>>) = 0 /\ 0 - 0 = 0
    OBVIOUS
  <2> QED
    BY <2>1, Zenon DEF Taken
<1>2. QueueIsLast(t)
  BY <1>1 DEF QueueIsLast
<1>3. InOrder(t, q, x) /\ AllThere(t) /\ NoneBetween(t, q, x, live)
  BY <1>1 DEF InOrder, AllThere, NoneBetween
<1> QED
  BY <1>2, <1>3 DEF Pipeline

\* The engine is asked for, by a websocket or by a page.
LEMMA AskedSays ==
    ASSUME OrderInv, NEW u \in User, GetEngine(u), UNCHANGED calls,
           \A x \in Ws : \/ ws'[x] = ws[x]
                         \/ /\ ws[x].stage = "idle"
                            /\ ws'[x] = [ws[x] EXCEPT !.stage = "engine", !.conn = EngineConn(u)]
    PROVE  LinesInv' /\ HomeInv' /\ SaidInv'
<1>0. /\ EngineConn(u) \in Conn /\ opened \in Nat
      /\ \A c \in Conn : c <= opened => direct'[c] = direct[c]
      /\ \A c \in Conn : c # EngineConn(u) => direct'[c] = direct[c]
  BY GetEngineFacts DEF OrderInv
<1>1. \/ direct' = direct /\ opened' = opened
      \/ /\ EngineConn(u) = opened + 1 /\ opened' = opened + 1
         /\ direct'[opened + 1].line = "open"
  <2>1. CASE cached[u] # None
    BY <2>1 DEF GetEngine
  <2>2. CASE cached[u] = None
    <3>1. /\ EngineConn(u) = opened + 1 /\ opened' = opened + 1
          /\ direct' = [direct EXCEPT ![opened + 1] =
                 [user |-> u, promise |-> "pending", line |-> "open"]]
      BY <2>2 DEF GetEngine, EngineConn
    <3> QED
      BY <1>0, <3>1, OrderTypes
  <2> QED
    BY <2>1, <2>2
<1>2. LinesInv'
  <2> SUFFICES ASSUME NEW c \in Conn
               PROVE  /\ direct'[c].line # "open" => calls[c] = <<>>
                      /\ c <= opened' => direct'[c].line # "none"
    BY DEF LinesInv
  <2>1. direct[c].line # "open" => calls[c] = <<>>
    BY OrderTypes DEF LinesInv
  <2>2. c <= opened => direct[c].line # "none"
    BY OrderTypes DEF LinesInv
  <2>3. c > opened => direct[c].line = "none"
    BY OrderTypes DEF FreshInv
  <2>4. CASE direct' = direct /\ opened' = opened
    BY ONLY <2>1, <2>2, <2>4
  <2>5. CASE /\ EngineConn(u) = opened + 1 /\ opened' = opened + 1
             /\ direct'[opened + 1].line = "open"
    <3>1. CASE c = opened + 1
      BY ONLY <2>5, <3>1, <2>1
    <3>2. CASE c # opened + 1
      <4>1. direct'[c] = direct[c]
        BY <1>0, <2>5, <3>2
      <4>2. c <= opened' => c <= opened
        <5>1. c \in Int
          BY ONLY c \in Conn, ClientAssumption DEF Conn
        <5> QED
          BY ONLY <1>0, <2>5, <3>2, <5>1
      <4> QED
        BY ONLY <2>1, <2>2, <4>1, <4>2
    <3> QED
      BY <3>1, <3>2
  <2> QED
    BY ONLY <1>1, <2>4, <2>5
<1>3. ASSUME NEW x \in Ws, Attached(x) PROVE ws'[x] = ws[x]
  BY <1>3 DEF Attached
<1>4. HomeInv'
  <2>1. \A c \in Conn : \A i \in 1..Len(calls'[c]) :
            \E j \in 1..Len(calls[c]) : calls'[c][i] = calls[c][j]
    OBVIOUS
  <2>2. \A w \in Ws : Attached(w) => /\ ws'[w].conn = ws[w].conn
                                     /\ ws[w].browser = "closed" => ws'[w].browser = "closed"
    BY <1>3
  <2> QED
    BY ONLY OrderInv, <2>1, <2>2, HomeStays, ZenonT(60)
<1>5. SaidInv'
  <2> SUFFICES ASSUME NEW x \in Ws, Kind[x] = "conversation" PROVE Said(x)'
    BY DEF SaidInv
  <2>1. Said(x) /\ ws[x] \in Websocket
    BY OrderTypes DEF SaidInv
  <2>2. CASE ws'[x] = ws[x]
    <3>1. CASE ws[x].stage = "idle"
      BY <2>1, <2>2, <3>1 DEF Said
    <3>2. CASE ws[x].stage # "idle"
      <4>1. ws[x].conn \in Conn /\ ws[x].conn <= opened
        BY <3>2, OrderTypes DEF ConnInv
      <4>2. direct'[ws[x].conn] = direct[ws[x].conn]
        BY <1>0, <4>1
      <4>3. Live(x)' = Live(x)
        BY <2>2, <4>2 DEF Live
      <4> QED
        BY <2>1, <2>2, <4>3 DEF Said
    <3> QED
      BY <3>1, <3>2
  <2>3. CASE /\ ws[x].stage = "idle"
             /\ ws'[x] = [ws[x] EXCEPT !.stage = "engine", !.conn = EngineConn(u)]
    <3> DEFINE t == ws'[x]
               q == calls[EngineConn(u)]
    <3>1. /\ t.stage = "engine" /\ t.conn = EngineConn(u) /\ t.wrapper = ws[x].wrapper
          /\ t.sent = ws[x].sent /\ t.queue = ws[x].queue /\ t.delivered = ws[x].delivered
      BY ONLY <2>1, <2>3, ZenonT(60) DEF Websocket
    <3>2. t.sent = 0 /\ t.queue = <<>> /\ t.delivered = <<>>
      BY <2>1, <2>3, <3>1 DEF Said, Shape
    <3>3. t.wrapper = "none"
      BY <2>3, <3>1, OrderTypes DEF WrapperInv, Attached
    <3>4. Shape(t)
      BY ONLY <3>1, <3>3 DEF Shape
    <3>5. DataIn(q, x) = {}
      <4>1. \A i \in 1..Len(q) : Attached(q[i].ws)
        BY <1>0, OrderTypes DEF CallsInv
      <4>2. ~Attached(x)
        BY <2>3 DEF Attached
      <4> QED
        BY ONLY <4>1, <4>2 DEF DataIn, IsData
    <3> HIDE DEF t, q
    <3>6. Pipeline(t, q, x, Live(x)')
      BY ONLY <3>2, <3>5, NothingYet
    <3>7. calls'[t.conn] = q
      BY <3>1 DEF q
    <3> QED
      BY <3>4, <3>6, <3>7 DEF Said, t
  <2> QED
    BY <2>2, <2>3
<1> QED
  BY <1>2, <1>4, <1>5

LEMMA OpenSays == ASSUME OrderInv, NEW w \in Ws, Open(w) PROVE LinesInv' /\ HomeInv' /\ SaidInv'
<1>1. /\ UserOf[w] \in User /\ GetEngine(UserOf[w]) /\ UNCHANGED calls
      /\ ws[w].stage = "idle" /\ ws \in [Ws -> Websocket]
      /\ ws' = [ws EXCEPT ![w].stage = "engine", ![w].conn = EngineConn(UserOf[w])]
  BY WebsocketAssumption, OrderTypes DEF Open
<1>2. \A x \in Ws : \/ ws'[x] = ws[x]
                    \/ /\ ws[x].stage = "idle"
                       /\ ws'[x] = [ws[x] EXCEPT !.stage = "engine",
                                                 !.conn = EngineConn(UserOf[w])]
  BY <1>1
<1> QED
  BY ONLY OrderInv, <1>1, <1>2, AskedSays, ZenonT(60)

LEMMA PageSays == ASSUME OrderInv, NEW u \in User, Page(u) PROVE LinesInv' /\ HomeInv' /\ SaidInv'
<1>1. GetEngine(u) /\ UNCHANGED calls /\ ws' = ws
  BY DEF Page, socketVars
<1> QED
  BY ONLY OrderInv, u \in User, <1>1, AskedSays, ZenonT(60)

LEMMA ReadySays == ASSUME OrderInv, NEW c \in Conn, Ready(c) PROVE LinesInv' /\ HomeInv' /\ SaidInv'
<1>1. /\ direct' = [direct EXCEPT ![c].promise = "engine"] /\ opened' = opened
      /\ UNCHANGED socketVars
  BY DEF Ready, EngineReady
<1>2. \A d \in Conn : direct'[d].line = direct[d].line
  BY <1>1, OrderTypes DEF Connection
<1> QED
  BY <1>1, <1>2, NothingSaid

LEMMA OperationSays == ASSUME OrderInv, NEW u \in User, Operation(u) PROVE LinesInv' /\ HomeInv' /\ SaidInv'
<1>1. UNCHANGED socketVars /\ opened' = opened /\ direct' = direct
  BY DEF Operation, Forget
<1> QED
  BY <1>1, NothingSaid

LEMMA ControlSays == ASSUME OrderInv, NEW s \in Shard, Control(s) PROVE LinesInv' /\ HomeInv' /\ SaidInv'
<1>1. UNCHANGED socketVars /\ opened' = opened /\ direct' = direct
  BY DEF Control, ControlReady, ControlClosed, Reconnect
<1> QED
  BY <1>1, NothingSaid

LEMMA LineEndsSays == ASSUME OrderInv, NEW c \in Conn, LineEnds(c) PROVE LinesInv' /\ HomeInv' /\ SaidInv'
<1>1. /\ direct[c].line = "open" /\ opened' = opened
      /\ direct' = [direct EXCEPT ![c].line = "ending",
                       ![c].promise = IF @ = "pending" THEN "failed" ELSE @]
  BY DEF LineEnds, EngineError
<1>2. PICK rejects \in BOOLEAN : ws' = Dropped({c}, rejects) /\ calls' = NoCalls({c})
  BY DEF LineEnds
<1>3. \A w \in Ws : ws'[w] = Notified(w, Dropped({c}, rejects)[w], {})
  BY <1>2 DEF Notified
<1>4. \A w \in Ws : \E users : ws'[w] = Notified(w, Dropped({c}, rejects)[w], users)
  BY <1>3
<1>5. ws' \in [Ws -> {ws'[w] : w \in Ws}]
  BY <1>2 DEF Dropped
<1>6. direct'[c].line = "ending" /\ \A d \in Conn : d # c => direct'[d] = direct[d]
  BY <1>1, OrderTypes DEF Connection
<1>7. \A d \in Conn : /\ d \in {c} => direct'[d].line # "open"
                      /\ d \notin {c} => (direct'[d].line = "open" <=> direct[d].line = "open")
                      /\ direct[d].line # "none" => direct'[d].line # "none"
  BY <1>6
<1>8. {c} \in SUBSET Conn
  OBVIOUS
<1> QED
  BY ONLY OrderInv, rejects \in BOOLEAN, <1>1, <1>2, <1>4, <1>5, <1>7, <1>8, LinesSay

LEMMA LineClosedSays == ASSUME OrderInv, NEW c \in Conn, LineClosed(c) PROVE LinesInv' /\ HomeInv' /\ SaidInv'
<1>1. direct' = [direct EXCEPT ![c].line = "closed"] /\ opened' = opened
  BY DEF LineClosed, EngineClosed
<1>2. PICK rejects \in BOOLEAN :
          ws' = [w \in Ws |-> Notified(w, Dropped({c}, rejects)[w], ClosedUsers(c))]
  BY DEF LineClosed
<1>3. calls' = NoCalls({c})
  BY DEF LineClosed
<1>4. \A w \in Ws : \E users : ws'[w] = Notified(w, Dropped({c}, rejects)[w], users)
  BY <1>2
<1>5. ws' \in [Ws -> {ws'[w] : w \in Ws}]
  BY <1>2
<1>6. direct'[c].line = "closed" /\ \A d \in Conn : d # c => direct'[d] = direct[d]
  BY <1>1, OrderTypes DEF Connection
<1>7. \A d \in Conn : /\ d \in {c} => direct'[d].line # "open"
                      /\ d \notin {c} => (direct'[d].line = "open" <=> direct[d].line = "open")
                      /\ direct[d].line # "none" => direct'[d].line # "none"
  BY <1>6
<1>8. {c} \in SUBSET Conn
  OBVIOUS
<1> QED
  BY ONLY OrderInv, rejects \in BOOLEAN, <1>1, <1>3, <1>4, <1>5, <1>7, <1>8, LinesSay

LEMMA StopSays == ASSUME OrderInv, StopFrontend PROVE LinesInv' /\ HomeInv' /\ SaidInv'
<1> DEFINE ended == {c \in Conn : direct[c].line # direct'[c].line}
<1>1. /\ opened' = opened
      /\ direct' = [c \in Conn |->
             IF direct[c].line = "open" /\ \E u \in User : cached[u] = c
             THEN [direct[c] EXCEPT !.line = "ending"] ELSE direct[c]]
  BY DEF StopFrontend, StopClient
<1>2. PICK rejects \in BOOLEAN : ws' = Dropped(ended, rejects) /\ calls' = NoCalls(ended)
  BY DEF StopFrontend
<1>3. \A d \in Conn : \/ direct'[d] = direct[d]
                      \/ direct[d].line = "open" /\ direct'[d].line = "ending"
  BY <1>1, OrderTypes DEF Connection
<1>4. ended \in SUBSET Conn /\ \A d \in Conn : d \in ended <=> direct[d].line # direct'[d].line
  OBVIOUS
<1> HIDE DEF ended
<1>5. \A w \in Ws : ws'[w] = Notified(w, Dropped(ended, rejects)[w], {})
  BY <1>2 DEF Notified
<1>6. \A w \in Ws : \E users : ws'[w] = Notified(w, Dropped(ended, rejects)[w], users)
  BY <1>5
<1>7. ws' \in [Ws -> {ws'[w] : w \in Ws}]
  BY <1>2 DEF Dropped
<1>8. \A d \in Conn : /\ d \in ended => direct'[d].line # "open"
                      /\ d \notin ended => (direct'[d].line = "open" <=> direct[d].line = "open")
                      /\ direct[d].line # "none" => direct'[d].line # "none"
  BY ONLY <1>3, <1>4
<1> QED
  BY ONLY OrderInv, rejects \in BOOLEAN, <1>1, <1>2, <1>4, <1>6, <1>7, <1>8, LinesSay

-----------------------------------------------------------------------------
(* The conversations, and what their invariant implies.                     *)

LEMMA OrderInitInv == FrontInit => OrderInv
<1> SUFFICES ASSUME FrontInit PROVE OrderInv
  OBVIOUS
<1>1. /\ \A w \in Ws : ws[w] = NewWebsocket
      /\ \A c \in Conn : calls[c] = <<>>
      /\ opened = 0
  BY DEF FrontInit, ClientInit
<1>2. LinesInv
  BY <1>1, ClientAssumption DEF LinesInv, Conn
<1>3. HomeInv
  BY <1>1 DEF HomeInv
<1>4. SaidInv
  BY <1>1 DEF SaidInv, Said, Shape, NewWebsocket
<1> QED
  BY <1>2, <1>3, <1>4, FrontInitInv DEF OrderInv

LEMMA OrderNextInv == OrderInv /\ [FrontNext]_frontVars => OrderInv'
<1> SUFFICES ASSUME OrderInv, [FrontNext]_frontVars PROVE OrderInv'
  OBVIOUS
<1>1. FrontInv'
  BY FrontNextInv DEF OrderInv
<1> DEFINE Says == LinesInv' /\ HomeInv' /\ SaidInv'
<1>2. ASSUME NEW w \in Ws, Open(w) \/ GotEngine(w) \/ Message(w) \/ BrowserClosed(w)
      PROVE  Says
  BY <1>2, OpenSays, GotEngineSays, MessageSays, BrowserClosedSays
<1>3. ASSUME NEW c \in Conn,
             EngineAnswers(c) \/ EngineRefuses(c) \/ Ready(c) \/ LineEnds(c) \/ LineClosed(c)
      PROVE  Says
  BY <1>3, EngineAnswersSays, EngineRefusesSays, ReadySays, LineEndsSays, LineClosedSays
<1>4. ASSUME NEW u \in User, Operation(u) \/ Page(u) PROVE Says
  BY <1>4, OperationSays, PageSays
<1>5. ASSUME NEW s \in Shard, Control(s) PROVE Says
  BY <1>5, ControlSays
<1>6. ASSUME StopFrontend PROVE Says
  BY <1>6, StopSays
<1>7. ASSUME UNCHANGED frontVars PROVE Says
  <2>1. UNCHANGED socketVars /\ opened' = opened /\ direct' = direct
    BY <1>7 DEF frontVars, clientVars
  <2> QED
    BY <2>1, NothingSaid
<1>8. Says
  BY <1>2, <1>3, <1>4, <1>5, <1>6, <1>7 DEF FrontNext
<1> QED
  BY <1>1, <1>8 DEF OrderInv

\* What the user says reaches the engine in order and nothing twice, and of a
\* websocket that is open nothing is left out, for any number of websockets,
\* connections and messages.
THEOREM ConversationsAreInOrder == FrontSpec => []ConversationInOrder
<1>1. OrderInv => ConversationInOrder
  <2> SUFFICES ASSUME OrderInv, NEW w \in Ws, Kind[w] = "conversation",
                      NEW d, d = ws[w].delivered
               PROVE  /\ \A i, j \in 1..Len(d) : i < j => d[i] < d[j]
                      /\ ws[w].browser = "open" => \A i \in 1..Len(d) : d[i] = i
    BY DEF ConversationInOrder
  <2>1. Said(w)
    BY OrderTypes DEF SaidInv
  <2>2. CASE ws[w].stage = "idle"
    <3>1. Len(d) = 0
      BY <2>1, <2>2 DEF Said, Shape
    <3> QED
      BY ONLY <3>1
  <2>3. CASE ws[w].stage # "idle"
    BY <2>1, <2>3 DEF Said, Pipeline, InOrder, AllThere
  <2> QED
    BY <2>2, <2>3
<1> QED
  BY <1>1, OrderInitInv, OrderNextInv, PTL DEF FrontSpec
=============================================================================
