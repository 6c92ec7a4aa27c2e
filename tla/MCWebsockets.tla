---------------------------- MODULE MCWebsockets ----------------------------
(* A conversation and the cloud sync of one user over one connection to the *)
(* engine, which is lost at any time; and the conversation beside a second  *)
(* connection, of the same user, who has forgotten the first one, or of     *)
(* another user.                                                            *)
EXTENDS Websockets, TLC
CONSTANTS u1, u2, w1, w2

Kinds     == w1 :> "conversation" @@ w2 :> "sync"
OneOwner  == w1 :> u1 @@ w2 :> u1
ShortSync == w1 :> 2 @@ w2 :> 1

\* The control connection is lost, or a second connection opened, only while
\* the cloud sync is not in use; beside a second one little is said.
OneThingAtATime ==
    /\ (\E s \in Shard : severed[s] > 0) \/ opened = 2 => ws[w2].stage = "idle"
    /\ opened = 2 => /\ ws[w1].sent + ws[w2].sent <= 1
                     /\ \A s \in Shard : severed[s] = 0 /\ s \in control
=============================================================================
