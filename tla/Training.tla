------------------------------- MODULE Training -------------------------------
(***************************************************************************)
(* The training daemon: src/training/daemon.js, training_job.js and their  *)
(* back ends, over the training_jobs table of src/model/training_job.ts.   *)
(*                                                                         *)
(* A job is a row of the table; a job that was started also has a Job      *)
(* object in the daemon, which walks through the tasks of its type:        *)
(*                                                                         *)
(*   saving     recording that the next task begins                        *)
(*   spawning   waiting for the back end to create the task's process      *)
(*   waiting    that process runs                                          *)
(*   calling    a task that is a function of the daemon runs               *)
(*   recording  recording that the task is complete                        *)
(*   ending     it is no longer the current job; its completion is not yet *)
(*              in the database                                            *)
(*                                                                         *)
(* withTransaction() is serializable: a transaction is one step.  Only the *)
(* job types of job_specs.js are ever run.  Every job is of one language   *)
(* and the language has one model to train.                                *)
(***************************************************************************)
EXTENDS Naturals, Sequences, FiniteSets

CONSTANTS JobTypes,     \* JOB_TYPES
          Tasks,        \* JobSpecs: per job type, the sequence of its tasks
          MaxJobs,      \* bound: rows of the table
          MaxFaults     \* bound: crashes of the daemon and failed queries of jobs

Templates == {"update-dataset", "train", "update-dataset,train"}
Kinds     == {"external", "function"}
ASSUME TrainingAssumption ==
    /\ JobTypes \subseteq {"update-dataset", "train"}
    /\ Tasks \in [JobTypes -> Seq(Kinds) \ {<<>>}]
    /\ MaxJobs \in Nat /\ MaxFaults \in Nat

VARIABLES rows,         \* the table, a sequence: the id is the index
          up,           \* the daemon runs
          current,      \* _currentJobs: per type an id, 0 for undefined
          job,          \* per id: its Job object
          pending,      \* the types for which a _startNextJob is under way
          processes,    \* the ids of the jobs that have a process of a task
          orphans,      \* those whose process has survived the daemon
          stuck,        \* jobs whose completion could not be recorded
          faults

trainingVars == <<rows, up, current, job, pending, processes, orphans, stuck, faults>>

JobId == 1..MaxJobs
Row == [type : {"update-dataset", "train"},
        status : {"queued", "started", "success", "error"},
        dependsOn : 0..MaxJobs,
        all : BOOLEAN]
Stages == {"none", "saving", "spawning", "waiting", "calling", "recording", "ending"}

NoJob == [stage |-> "none", task |-> 0, killed |-> FALSE, status |-> "started"]

TrainingInit ==
    /\ rows = <<>>
    /\ up = FALSE
    /\ current = [t \in JobTypes |-> 0]
    /\ job = [i \in JobId |-> NoJob]
    /\ pending = {}
    /\ processes = {} /\ orphans = {} /\ stuck = {}
    /\ faults = 0

-----------------------------------------------------------------------------
(* The table.                                                               *)

\* _recordJobCompletion of the jobs in `done`: the jobs that depend on one of
\* them fail with it, and depend on nothing in the end.  (A job that others
\* depend on depends on none, so that there is no need to recur.)
Completed(r, done, status) ==
    [i \in DOMAIN r |->
        IF i \in done THEN [r[i] EXCEPT !.status = status]
        ELSE IF r[i].dependsOn \in done
        THEN [r[i] EXCEPT !.status = IF status = "error" THEN "error" ELSE @,
                          !.dependsOn = 0]
        ELSE r[i]]

Queued(r, type) == {i \in DOMAIN r : r[i].type = type /\ r[i].status = "queued"}
First(S) == CHOOSE i \in S : \A j \in S : i <= j

\* create(): forDevices = null asks for all devices.
NewRow(type, dependsOn, all) ==
    [type |-> type, status |-> "queued", dependsOn |-> dependsOn, all |-> all]

\* _jobTypeIsMergeable, and no dependency.
Mergeable(type, dependsOn) == dependsOn = 0

\* _queueOrMergeJob: the id of the job, and the table after it.  (Merging adds
\* the devices asked for to those of the job that is queued.)
QueueOrMerge(r, type, dependsOn, all) ==
    IF ~Mergeable(type, dependsOn) \/ Queued(r, type) = {}
    THEN [id |-> Len(r) + 1, rows |-> Append(r, NewRow(type, dependsOn, all))]
    ELSE [id |-> First(Queued(r, type)), rows |-> r]

\* makeForAllDevices names a column that training_jobs has not: merging a
\* request for all devices into a job for some is an error.
CannotMerge(r, type, dependsOn, all) ==
    /\ Mergeable(type, dependsOn)
    /\ all /\ Queued(r, type) # {}
    /\ ~r[First(Queued(r, type))].all

-----------------------------------------------------------------------------
(* Requests to the daemon.                                                  *)

\* scheduleJob: update-dataset, train, or both, the second depending on the
\* first.  An error rolls the transaction back and is the caller's answer.
Schedule(template, all) ==
    LET both == template = "update-dataset,train"
        first == QueueOrMerge(rows, IF both THEN "update-dataset" ELSE template,
                              0, all)
        second == QueueOrMerge(first.rows, "train", first.id, all)
        result == IF both THEN second.rows ELSE first.rows
    IN  /\ up
        /\ Len(result) <= MaxJobs
        /\ IF CannotMerge(rows, IF both THEN "update-dataset" ELSE template, 0, all)
           THEN UNCHANGED <<rows, pending>>
           ELSE rows' = result /\ pending' = JobTypes
        /\ UNCHANGED <<up, current, job, processes, orphans, stuck, faults>>

\* killJob: the current job is told to stop, any other row is set to 'error',
\* whatever its status.
Kill(i) ==
    /\ up
    /\ i \in DOMAIN rows
    /\ IF rows[i].status = "started" /\ i \in {current[t] : t \in JobTypes}
       THEN job' = [job EXCEPT ![i].killed = TRUE] /\ UNCHANGED rows
       ELSE rows' = Completed(rows, {i}, "error") /\ UNCHANGED job
    /\ UNCHANGED <<up, current, pending, processes, orphans, stuck, faults>>

-----------------------------------------------------------------------------
(* The daemon.                                                              *)

\* checkExistingJobs, when the daemon starts; and a bug to detect.
Recovered_Left == rows
Recovered == Completed(rows, {i \in DOMAIN rows : rows[i].status = "started"}, "error")

Start == /\ ~up
         /\ up' = TRUE
         /\ rows' = Recovered
         /\ pending' = JobTypes
         /\ UNCHANGED <<current, job, processes, orphans, stuck, faults>>

\* What is left of the daemon when it is gone: the table, and the processes
\* of tasks, which nobody waits for any more.
Down ==
    /\ up' = FALSE
    /\ current' = [t \in JobTypes |-> 0]
    /\ job' = [i \in JobId |-> NoJob]
    /\ pending' = {}
    /\ orphans' = orphans \cup processes
    /\ UNCHANGED <<processes, stuck>>

Crash == /\ up
         /\ faults < MaxFaults
         /\ faults' = faults + 1
         /\ Down
         /\ UNCHANGED rows

\* getNextJob
Startable(t) == {i \in Queued(rows, t) : rows[i].dependsOn = 0}

\* if (this._currentJobs[jobType]) return
Running(t) == current[t] # 0

\* _startNextJob: the check for races and everything after it are one
\* transaction that holds the row.
StartNextJob(t) ==
    /\ up /\ t \in pending
    /\ pending' = pending \ {t}
    /\ IF Running(t) \/ Startable(t) = {}
       THEN UNCHANGED <<rows, current, job>>
       ELSE LET i == First(Startable(t))
            IN  /\ rows' = [rows EXCEPT ![i].status = "started"]
                /\ current' = [current EXCEPT ![t] = i]
                /\ job' = [job EXCEPT ![i] = [NoJob EXCEPT !.stage = "saving", !.task = 1]]
    /\ UNCHANGED <<up, processes, orphans, stuck, faults>>

-----------------------------------------------------------------------------
(* A job: _doRun.                                                           *)

\* fail() and the end of _doRun, up to the transaction of jobComplete().
Ends(i, status) ==
    /\ job' = [job EXCEPT ![i].stage = "ending", ![i].status = status]
    /\ current' = [t \in JobTypes |-> IF current[t] = i THEN 0 ELSE current[t]]

Goes(i, stage) == job' = [job EXCEPT ![i].stage = stage] /\ UNCHANGED current

\* A query of a job fails, and with it the job.
QueryFails(i) ==
    /\ up /\ job[i].stage \in {"saving", "recording"}
    /\ faults < MaxFaults
    /\ faults' = faults + 1
    /\ Ends(i, "error")
    /\ UNCHANGED <<rows, up, pending, processes, orphans, stuck>>

TaskBegins(i) ==
    /\ up /\ job[i].stage = "saving"
    /\ Goes(i, IF Tasks[rows[i].type][job[i].task] = "external"
               THEN "spawning" ELSE "calling")
    /\ UNCHANGED <<rows, up, pending, processes, orphans, stuck, faults>>

\* The back end has created the process or the Kubernetes job, or it fails.
\* A kill that came before this found no child to kill.
TaskSpawned(i) ==
    /\ up /\ job[i].stage = "spawning"
    /\ \/ Goes(i, "waiting") /\ processes' = processes \cup {i}
       \/ Ends(i, "error") /\ UNCHANGED processes
    /\ UNCHANGED <<rows, up, pending, orphans, stuck, faults>>

\* How the process of a task may end for the daemon: a task that is told to
\* stop dies quietly, with code 0, once it handles signals.
Exit == {"recording", "error"}

WaitOver(i, outcome) ==
    /\ up /\ job[i].stage = "waiting"
    /\ processes' = processes \ {i}
    /\ IF outcome = "error" THEN Ends(i, "error") ELSE Goes(i, outcome)
    /\ UNCHANGED <<rows, up, pending, orphans, stuck, faults>>

\* The local back end: 'exit' of the child, by itself or killed by a signal.
TaskExits(i) == \E outcome \in Exit : WaitOver(i, outcome)

\* The Kubernetes back end: the Kubernetes job succeeds, fails or is deleted,
\* which is what becomes of it when the job is killed.
JobReported(i) ==
    \/ ~job[i].killed /\ WaitOver(i, "recording")
    \/ WaitOver(i, "error")

\* The Kubernetes back end gives up watching: the Kubernetes job runs on.
WatchGivesUp(i) ==
    /\ up /\ job[i].stage = "waiting"
    /\ Ends(i, "error")
    /\ orphans' = orphans \cup {i}
    /\ UNCHANGED <<rows, up, pending, processes, stuck, faults>>

OrphanExits(i) ==
    /\ i \in orphans
    /\ orphans' = orphans \ {i}
    /\ processes' = processes \ {i}
    /\ UNCHANGED <<rows, up, current, job, pending, stuck, faults>>

\* 'reloading-exact' eats its errors.
TaskReturns(i) ==
    /\ up /\ job[i].stage = "calling"
    /\ Goes(i, "recording")
    /\ UNCHANGED <<rows, up, pending, processes, orphans, stuck, faults>>

\* if (this._killed) throw, before each task and after the last.
KilledAtEnd(i) == job[i].killed

TaskRecorded(i) ==
    /\ up /\ job[i].stage = "recording"
    /\ IF KilledAtEnd(i) THEN Ends(i, "error")
       ELSE IF job[i].task = Len(Tasks[rows[i].type]) THEN Ends(i, "success")
       ELSE /\ job' = [job EXCEPT ![i].stage = "saving", ![i].task = @ + 1]
            /\ UNCHANGED current
    /\ UNCHANGED <<rows, up, pending, processes, orphans, stuck, faults>>

\* The end of jobComplete, and a bug to detect: nobody looks for the next job.
Next_NotStarted == pending
NextStarted == JobTypes

CompletionRecorded(i) ==
    /\ up /\ job[i].stage = "ending"
    /\ rows' = Completed(rows, {i}, job[i].status)
    /\ job' = [job EXCEPT ![i] = NoJob]
    /\ pending' = NextStarted
    /\ UNCHANGED <<up, current, processes, orphans, stuck, faults>>

\* The transaction of jobComplete fails.  Of a success, fail() makes nothing,
\* since the job is no longer current; of an error, the rejection is not
\* handled and ends the daemon.
CompletionFails(i) ==
    /\ up /\ job[i].stage = "ending"
    /\ faults < MaxFaults
    /\ faults' = faults + 1
    /\ IF job[i].status = "success"
       THEN /\ job' = [job EXCEPT ![i] = NoJob]
            /\ stuck' = stuck \cup {i}
            /\ UNCHANGED <<up, current, pending, processes, orphans>>
       ELSE Down
    /\ UNCHANGED rows

JobStep(i) == \/ TaskBegins(i) \/ TaskSpawned(i)
              \/ TaskExits(i) \/ JobReported(i)
              \/ TaskReturns(i) \/ TaskRecorded(i) \/ CompletionRecorded(i)

TrainingNext ==
    \/ Start \/ Crash
    \/ \E template \in Templates, all \in BOOLEAN : Schedule(template, all)
    \/ \E i \in JobId : Kill(i)
    \/ \E t \in JobTypes : StartNextJob(t)
    \/ \E i \in JobId : \/ JobStep(i) \/ QueryFails(i) \/ CompletionFails(i)
                     \/ WatchGivesUp(i) \/ OrphanExits(i)

TrainingSpec == TrainingInit /\ [][TrainingNext]_trainingVars

\* The daemon is restarted when it crashes, its callbacks run, and tasks end.
TrainingFairness ==
    /\ WF_trainingVars(Start)
    /\ WF_trainingVars(\E t \in JobTypes : StartNextJob(t))
    /\ \A i \in JobId : WF_trainingVars(JobStep(i))

TrainingFairSpec == TrainingSpec /\ TrainingFairness

-----------------------------------------------------------------------------
TrainingTypeOK ==
    /\ rows \in Seq(Row) /\ Len(rows) <= MaxJobs
    /\ up \in BOOLEAN
    /\ current \in [JobTypes -> 0..Len(rows)]
    /\ job \in [JobId -> [stage : Stages, task : Nat, killed : BOOLEAN,
                       status : {"started", "success", "error"}]]
    /\ pending \subseteq JobTypes
    /\ orphans \subseteq processes /\ processes \subseteq JobId
    /\ stuck \subseteq JobId

\* A started row is looked after: the daemon runs the job or is recording its
\* end, or the daemon is down and will find it, unless recording failed.
StartedIsRun ==
    \A i \in DOMAIN rows :
        up /\ rows[i].status = "started" /\ i \notin stuck
            => \/ i \in {current[t] : t \in JobTypes}
               \/ job[i].stage = "ending"

\* Every job of a type the daemon knows is run or fails, unless the recording
\* of a completion failed: the jobs behind that one wait for the next request.
RowsWait == \E t \in JobTypes : Queued(rows, t) # {}
QueueDrains == RowsWait ~> (~RowsWait \/ stuck # {})
===============================================================================
