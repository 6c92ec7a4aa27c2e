---------------------------------- MODULE Pool ---------------------------------
(*****************************************************************************)
(* The connections to the database (util/db.ts): withClient and              *)
(* withTransaction take one from a pool of a fixed size, run a callback with *)
(* it and give it back, whichever of the queries around the callback fails.  *)
(* A callback may ask for a second connection while it holds the first, as   *)
(* that of POST /user/profile does when it renders the page of its errors.   *)
(*                                                                           *)
(* The pool is the library's: it hands connections out in the order of the   *)
(* requests, and a connection that is destroyed makes room for a new one.    *)
(*****************************************************************************)
EXTENDS Naturals, Sequences, FiniteSets, TLC

CONSTANTS Calls,        \* of withClient or withTransaction
          Nesting,      \* those whose callback asks for another connection
          Limit         \* connectionLimit

\* With as many nesting calls at a time as connections, each may hold one and
\* wait for another.
ASSUME PoolAssumption == /\ Nesting \subseteq Calls /\ IsFiniteSet(Nesting)
                         /\ Limit \in Nat /\ Cardinality(Nesting) < Limit

VARIABLES used,         \* connections that are given out
          queue,        \* calls that wait for one
          call,         \* where each call is
          broken        \* requests that got a connection which was destroyed meanwhile

poolVars == <<used, queue, call, broken>>

PoolInit == used = 0 /\ queue = <<>> /\ call = [c \in Calls |-> "none"] /\ broken = {}

\* What a call does while it waits, and what it does when it has its connection.
Granted == "waiting" :> "begun" @@ "asking" :> "both"

-----------------------------------------------------------------------------
(* The pool.                                                                *)

\* getConnection
Asks(c, how) ==
    /\ IF used < Limit
       THEN /\ used' = used + 1 /\ call' = [call EXCEPT ![c] = Granted[how]]
            /\ UNCHANGED queue
       ELSE /\ queue' = Append(queue, c) /\ call' = [call EXCEPT ![c] = how]
            /\ UNCHANGED used
    /\ UNCHANGED broken

\* There is a connection, or room for one: the first of those who wait gets it.
GoesTo(waiting, calls) ==
    IF waiting = <<>>
    THEN used' = used - 1 /\ queue' = <<>> /\ call' = calls
    ELSE /\ used' = used /\ queue' = Tail(waiting)
         /\ call' = [calls EXCEPT ![Head(waiting)] = Granted[@]]

\* connection.release(), or destroy(); one that was destroyed is not the pool's.
GivesBack(c, how, then) ==
    LET calls == [call EXCEPT ![c] = then]
    IN  IF <<c, how>> \in broken
        THEN /\ broken' = broken \ {<<c, how>>} /\ call' = calls
             /\ UNCHANGED <<used, queue>>
        ELSE GoesTo(queue, calls) /\ UNCHANGED broken

\* release(), and then destroy() when the connection is somebody else's already: it
\* makes room for another one, and he has one on which every query fails.
GivesBackTwice(c, then) ==
    LET d == Head(queue)
    IN  /\ queue # <<>>
        /\ GoesTo(Tail(queue), [call EXCEPT ![c] = then, ![d] = Granted[@]])
        /\ broken' = broken \cup {<<d, call[d]>>}

-----------------------------------------------------------------------------
(* The calls.                                                               *)

\* connect
Connects(c) == call[c] = "none" /\ Asks(c, "waiting")

\* The callback of a nesting call, and the end of the call that it makes.
ConnectsAgain(c) == c \in Nesting /\ call[c] = "begun" /\ Asks(c, "asking")
NestedEnds(c) == call[c] = "both" /\ GivesBack(c, "asking", "resumed")

\* The callback, and `commit`, succeed or fail.  A transaction that cannot begin
\* has no callback, and is not rolled back.
CallbackEnds(c) ==
    /\ call[c] \in {"begun", "resumed"}
    /\ \/ GivesBack(c, "waiting", "none")
       \/ /\ <<c, "waiting">> \notin broken
          /\ call' = [call EXCEPT ![c] = "rollback"] /\ UNCHANGED <<used, queue, broken>>

\* A bug to detect: a connection that cannot roll back is kept.
AfterRollback_Kept(c, fails) ==
    IF fails THEN call' = [call EXCEPT ![c] = "none"] /\ UNCHANGED <<used, queue, broken>>
    ELSE GivesBack(c, "waiting", "none")

\* rollback calls done(), with the error if there is one, and withTransaction calls it
\* again with its own error: the second destroys what the first may have released.
AfterRollback(c, fails) ==
    GivesBack(c, "waiting", "none") \/ (~fails /\ GivesBackTwice(c, "none"))

RollbackEnds(c) == call[c] = "rollback" /\ \E fails \in BOOLEAN : AfterRollback(c, fails)

PoolNext == \E c \in Calls : \/ Connects(c) \/ ConnectsAgain(c) \/ NestedEnds(c)
                             \/ CallbackEnds(c) \/ RollbackEnds(c)

\* Queries and callbacks end.
PoolFairness == \A c \in Calls : /\ WF_poolVars(CallbackEnds(c)) /\ WF_poolVars(NestedEnds(c))
                                 /\ WF_poolVars(RollbackEnds(c))

PoolSpec == PoolInit /\ [][PoolNext]_poolVars /\ PoolFairness

-----------------------------------------------------------------------------
PoolTypeOK ==
    /\ used \in 0..Limit
    /\ call \in [Calls -> {"none", "waiting", "begun", "asking", "both", "resumed", "rollback"}]
    /\ Len(queue) <= Cardinality(Calls) /\ broken \subseteq Calls \X {"waiting", "asking"}

\* withClient, withTransaction: no failure loses a connection, also where one is given
\* back twice, and so every call gets one, as long as there are fewer nesting calls than connections.
EveryConnectReturns ==
    \A c \in Calls : call[c] \in {"waiting", "asking"} ~> call[c] \in {"begun", "both"}
================================================================================
