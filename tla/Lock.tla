-------------------------------- MODULE Lock --------------------------------
(***************************************************************************)
(* class Lock of src/util/lock.ts: a lock made of a chain of promises.     *)
(*                                                                         *)
(* The n-th call of acquire() creates the promise ourTurn (turn[n]), which *)
(* its unlock callback resolves, and replaces _queue by                    *)
(*     Q(n) == Q(n-1).then(() => turn[n])        Q(0) resolved             *)
(* It then awaits Q(n-1).  Q(n) is fulfilled by a reaction job that runs   *)
(* some time after both Q(n-1) and turn[n] are, never before: `drained` is *)
(* the number of the last link of the chain that is fulfilled, and         *)
(* _queue is the link Q(Len(turn)).  No link is ever rejected, since no    *)
(* turn is.                                                                *)
(***************************************************************************)
EXTENDS Naturals, Sequences

CONSTANTS Client,        \* call chains that acquire and release the lock
          NoClient,      \* not a client: "nobody" in the abstract lock
          MaxAcquires    \* bound: calls of acquire() in one behaviour

ASSUME LockAssumption == NoClient \notin Client /\ MaxAcquires \in Nat

VARIABLES turn,      \* sequence: turn[n] is the state of the n-th ourTurn
          drained,   \* the last fulfilled link of the chain
          pc,        \* where each client is in acquire() .. unlock
          ticket     \* the number of the client's latest acquire()

vars == <<turn, drained, pc, ticket>>

Init == /\ turn = <<>>
        /\ drained = 0
        /\ pc = [c \in Client |-> "idle"]
        /\ ticket = [c \in Client |-> 0]

\* acquire(), up to its `await oldQueue`: runs without interruption.
Acquire(c) ==
    /\ pc[c] = "idle"
    /\ Len(turn) < MaxAcquires
    /\ turn' = Append(turn, "pending")
    /\ ticket' = [ticket EXCEPT ![c] = Len(turn) + 1]
    /\ pc' = [pc EXCEPT ![c] = "awaiting"]
    /\ UNCHANGED drained

\* The next link of the chain is fulfilled once its turn is.
Drain ==
    /\ drained < Len(turn)
    /\ turn[drained + 1] = "fulfilled"
    /\ drained' = drained + 1
    /\ UNCHANGED <<turn, pc, ticket>>

\* A bug to detect: a waiter looks for a free lock instead of for its turn.
Resume_WhenFree(c) ==
    /\ pc[c] = "awaiting"
    /\ \A d \in Client : pc[d] # "holding"
    /\ pc' = [pc EXCEPT ![c] = "holding"]
    /\ UNCHANGED <<turn, drained, ticket>>

\* `await oldQueue` returns: oldQueue is the link before the client's own.
Resume(c) ==
    /\ pc[c] = "awaiting"
    /\ ticket[c] - 1 <= drained
    /\ pc' = [pc EXCEPT ![c] = "holding"]
    /\ UNCHANGED <<turn, drained, ticket>>

\* The caller runs the unlock callback it got from acquire().
Unlock(c) ==
    /\ pc[c] = "holding"
    /\ turn' = [turn EXCEPT ![ticket[c]] = "fulfilled"]
    /\ pc' = [pc EXCEPT ![c] = "idle"]
    /\ UNCHANGED <<drained, ticket>>

Next == \/ Drain
        \/ \E c \in Client : Acquire(c) \/ Resume(c) \/ Unlock(c)

Spec == Init /\ [][Next]_vars

\* The job queue runs every reaction job, and a caller that holds the lock
\* reaches its `finally { releaseLock() }`.
LockFairness == /\ WF_vars(Drain)
                /\ \A c \in Client : WF_vars(Resume(c)) /\ WF_vars(Unlock(c))
FairSpec == Spec /\ LockFairness

-----------------------------------------------------------------------------
TypeOK == /\ turn \in Seq({"pending", "fulfilled"})
          /\ drained \in 0..Len(turn)
          /\ pc \in [Client -> {"idle", "awaiting", "holding"}]
          /\ ticket \in [Client -> 0..Len(turn)]

\* "when acquire() returns, the lock is owned by the calling promise chain":
\* no two call chains are between their acquire() and their unlock callback.
MutualExclusion ==
    \A c, d \in Client : pc[c] = "holding" /\ pc[d] = "holding" => c = d

\* The lock is never lost: every turn that is still pending belongs to a
\* client that is waiting or holding, so somebody is left to resolve it, and
\* the links up to the first pending turn can all be drained.
TurnHasOwner ==
    \A n \in 1..Len(turn) :
        turn[n] = "pending" => \E c \in Client : pc[c] # "idle" /\ ticket[c] = n

\* The chain of promises implements the first-come first-served lock.
Waiting == {c \in Client : pc[c] = "awaiting"}
Owner == IF \E c \in Client : pc[c] = "holding"
         THEN CHOOSE c \in Client : pc[c] = "holding"
         ELSE NoClient
Before == {p \in Waiting \X Waiting : ticket[p[1]] < ticket[p[2]]}

Abstract == INSTANCE FifoMutex
                WITH owner <- Owner, waiting <- Waiting, before <- Before

\* Every behaviour of the promise chain is one of the abstract lock: acquire()
\* asks, the return of `await oldQueue` grants, the callback gives back.
ImplementsFifoMutex == Abstract!Spec

\* Nobody waits for ever behind `await oldQueue`.
EveryAcquireReturns ==
    \A c \in Client : pc[c] = "awaiting" ~> pc[c] = "holding"
=============================================================================
