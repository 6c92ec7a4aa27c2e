--------------------------- MODULE MCEngineManager ---------------------------
(* One user, the shared worker that its row asks for or a worker of its     *)
(* own, and a few requests: what is hard here is the interleaving of the    *)
(* requests of one user with the life of its worker.  Each scene puts the   *)
(* manager through one kind of trouble.                                     *)
EXTENDS EngineManager, TLC
CONSTANTS s1, u1, r1, r2, t1

OneShared == {s1}
OneRobin  == <<s1>>
Requests  == Permutations(Slot)
Procs     == SharedProc \cup User \cup Slot \cup TimerSlot

Shared   == [u \in User |-> "shared"]
Separate == [u \in User |-> "separate"]

Calm   == [rows  |-> {Shared},
           kinds |-> {"restartUser", "killUser", "restartUserWithoutCache"},
           may   |-> {"killAll", "stop", "lose", "loseBusy"}]
Timed  == [rows  |-> {Shared},
           kinds |-> {"restartUser"},
           may   |-> {"timers", "lose", "loseBusy"}]
Edited == [rows  |-> {Separate},
           kinds |-> {"restartUser", "killUser"},
           may   |-> {"lose", "loseBusy", "editRows"}]
Own    == [rows  |-> {Separate},
           kinds |-> {"restartUserWithoutCache"},
           may   |-> {"lose", "loseBusy"}]
Booting == [rows  |-> {Separate},
            kinds |-> {"restartUser"},
            may   |-> {"killAll", "killBooting"}]

AtBoot       == [rows  |-> {Shared},
                 kinds |-> {"startUser", "killUser"},
                 may   |-> {"arriveAtBoot", "timers", "lose"}]
Lossy(kinds) == [rows  |-> {Shared},
                 kinds |-> kinds,
                 may   |-> {"timers", "lose"}]
AllKilled    == [rows  |-> {Shared},
                 kinds |-> {"restartUser", "deleteUser"},
                 may   |-> {"timers", "killAll"}]

Cached       == [rows  |-> {Separate},
                 kinds |-> {"restartUserWithoutCache"},
                 may   |-> {"editRows"}]

SafetyScenes == {Calm, Timed, Edited, Own, Booting}
LiveScenes   == {AtBoot, Lossy({"restartUser", "deleteUser"}),
                 Lossy({"killUser", "clearCache"}), AllKilled}
HangScenes   == {Timed}
LostScenes   == {Lossy({"killUser"})}
CachedScenes == {Cached}
=============================================================================
