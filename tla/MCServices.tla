------------------------------- MODULE MCServices ------------------------------
(******************************************************************************)
(* The small services whose point is that something happens in the end: the   *)
(* lock of the engine manager, the pool of database connections, the          *)
(* synchronised tables, speech recognition, the page of a conversation and    *)
(* the training daemon.                                                       *)
(* These parts have no variable in common, and no property relates two of     *)
(* them, so that a behaviour of all shows nothing that behaviours of one part *)
(* do not: each behaviour is of one of them, and the others stay where they   *)
(* begin, where nothing is due.                                               *)
(******************************************************************************)
EXTENDS Lock, Pool, SyncTable, Voice, ChatPage, Training

CONSTANTS LockOnly, PoolOnly, SyncOnly, VoiceOnly, ChatOnly, TrainingOnly

\* Of the daemon there is the one job type of job_specs.js, with its two tasks; a
\* 'train' row is queued behind it and never run.
Types == {"update-dataset"}
Specs == [t \in Types |-> <<"external", "function">>]

\* Only the first row may be for some of the devices.
FirstIsPartial == \A i \in DOMAIN rows : ~rows[i].all => i = 1

VARIABLE part   \* the part that runs

servicesVars == <<vars, poolVars, syncVars, voiceVars, chatVars, trainingVars, part>>

ServicesInit == /\ Init /\ PoolInit /\ SyncInit /\ VoiceInit /\ ChatInit
                /\ TrainingInit
                /\ part \in {LockOnly, PoolOnly, SyncOnly, VoiceOnly, ChatOnly, TrainingOnly}

ServicesNext ==
    \/ /\ part = LockOnly /\ Next
       /\ UNCHANGED <<poolVars, syncVars, voiceVars, chatVars, trainingVars, part>>
    \/ /\ part = PoolOnly /\ PoolNext
       /\ UNCHANGED <<vars, syncVars, voiceVars, chatVars, trainingVars, part>>
    \/ /\ part = SyncOnly /\ SyncNext
       /\ UNCHANGED <<vars, poolVars, voiceVars, chatVars, trainingVars, part>>
    \/ /\ part = VoiceOnly /\ VoiceNext
       /\ UNCHANGED <<vars, poolVars, syncVars, chatVars, trainingVars, part>>
    \/ /\ part = ChatOnly /\ ChatNext
       /\ UNCHANGED <<vars, poolVars, syncVars, voiceVars, trainingVars, part>>
    \/ /\ part = TrainingOnly /\ TrainingNext
       /\ UNCHANGED <<vars, poolVars, syncVars, voiceVars, chatVars, part>>

\* SyncFairness and that the daemon is started, while they are the part that runs.
ServicesFairness ==
    /\ LockFairness /\ PoolFairness /\ VoiceFairness /\ ChatFairness
    /\ \A r \in Replicas :
          /\ WF_syncVars(part = SyncOnly /\ \E changes \in Changes : SyncAt(r, changes))
          /\ SF_syncVars(Answered(r))
    /\ WF_trainingVars(part = TrainingOnly /\ Start)
    /\ WF_trainingVars(\E t \in JobTypes : StartNextJob(t))
    /\ \A i \in JobId : WF_trainingVars(JobStep(i))

ServicesSpec == ServicesInit /\ [][ServicesNext]_servicesVars /\ ServicesFairness

\* Converges, of replicas that do synchronise.
ReplicasConverge == part = SyncOnly => Converges

\* Nobody waits for ever, neither for the lock of a user nor for a connection of the
\* pool, though one may be asked for by who holds another.
EveryCallReturns == EveryAcquireReturns /\ EveryConnectReturns

-----------------------------------------------------------------------------
Ext == INSTANCE SequencesExt

\* handleChanges as the loop it is.
OneByOne(d, changes) ==
    Ext!FoldLeft(LAMBDA e, ch : IF Recent(e, ch) THEN [e EXCEPT ![ch.key] = EntryOf(ch)] ELSE e,
             d, changes)

\* The definition of handleChanges by its result is that of the loop.
ASSUME LoopAgrees ==
    \A d \in [Keys -> Entry], changes \in UNION {[1..n -> Change] : n \in 0..2} :
        Later(d, Pushed(d, changes)) = OneByOne(d, changes)
================================================================================
