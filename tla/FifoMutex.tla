----------------------------- MODULE FifoMutex -----------------------------
(***************************************************************************)
(* What src/util/lock.ts promises its callers: a mutual-exclusion lock     *)
(* that serves its callers in the order in which they asked for it.        *)
(* EngineManager takes one such lock per user around every operation on    *)
(* that user's engine.                                                     *)
(*                                                                         *)
(* The order of arrival is kept as a relation ("asked before") and not as  *)
(* a queue, so that nothing in the specification depends on how an         *)
(* implementation numbers or stores its waiters.                           *)
(***************************************************************************)
CONSTANTS Client,     \* the asynchronous call chains that use the lock
          NoClient    \* the owner of a free lock

VARIABLES owner,      \* the client that holds the lock, or NoClient
          waiting,    \* the clients that asked and have not been served
          before      \* <<c, d>> : c and d are waiting and c asked first

vars == <<owner, waiting, before>>

Init == /\ owner = NoClient
        /\ waiting = {}
        /\ before = {}

\* A client asks for the lock: it goes behind everyone who is waiting.
Ask(c) ==
    /\ c # owner
    /\ c \notin waiting
    /\ waiting' = waiting \cup {c}
    /\ before' = before \cup (waiting \X {c})
    /\ UNCHANGED owner

\* The free lock goes to a waiter nobody is in front of.
Grant(c) ==
    /\ owner = NoClient
    /\ c \in waiting
    /\ \A d \in waiting : <<d, c>> \notin before
    /\ owner' = c
    /\ waiting' = waiting \ {c}
    /\ before' = {p \in before : p[1] # c /\ p[2] # c}

\* The owner gives the lock back.
GiveBack(c) ==
    /\ owner = c
    /\ owner' = NoClient
    /\ UNCHANGED <<waiting, before>>

Next == \E c \in Client : Ask(c) \/ Grant(c) \/ GiveBack(c)

Spec == Init /\ [][Next]_vars
=============================================================================
