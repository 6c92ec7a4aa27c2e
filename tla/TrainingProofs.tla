----------------------------- MODULE TrainingProofs ----------------------------
(* Theorems about the training daemon, for any number of jobs, tasks and      *)
(* faults, about the commands that users find in Thingpedia: the rows of a    *)
(* device, their likes, and the form in which a developer edits them, for any *)
(* users, requests and datasets; and about the queries that find devices, for *)
(* any devices, classes and organizations.                                    *)
EXTENDS Training, Commands, Devices, WellFoundedInduction, FiniteSetTheorems, TLAPS

\* There is a first of some jobs.
LEMMA FirstExists ==
    ASSUME NEW S \in SUBSET Nat, S # {}
    PROVE  First(S) \in S /\ \A y \in S : First(S) <= y
<1> DEFINE R == {p \in Nat \X Nat : p[1] < p[2]}
<1>1. IsWellFoundedOn(R, Nat)
  BY NatLessThanWellFounded DEF OpToRel
<1> HIDE DEF R
<1>2. PICK x \in S : \A y \in S : <<y, x>> \notin R
  BY <1>1, WFMin
<1>3. \A y \in S : x <= y
  <2>1. \A y \in S : ~(y < x)
    BY <1>2 DEF R
  <2> QED
    BY <2>1
<1> QED
  BY <1>3 DEF First

JobType == [stage : Stages, task : Nat, killed : BOOLEAN, status : {"started", "success", "error"}]

(* A job that is to be recorded has ended well or badly: its row is not left   *)
(* as it was started.                                                          *)
EndingHasOutcome == \A i \in JobId : job[i].stage = "ending" => job[i].status \in {"success", "error"}

(* No job is begun twice: a row that has a job or a process is queued no more, *)
(* and nobody waits for a process that has survived.                           *)
BegunOnce ==
    \A i \in JobId : job[i].stage # "none" \/ i \in processes =>
        i \in DOMAIN rows /\ rows[i].status # "queued"
OrphansAreAlone ==
    /\ \A i \in orphans : job[i].stage \in {"none", "ending"}
    /\ \A i \in JobId : job[i].stage = "waiting" => i \in processes

TrainingInv == TrainingTypeOK /\ EndingHasOutcome /\ BegunOnce /\ OrphansAreAlone /\ StartedIsRun

LEMMA TrainingInitInv == TrainingInit => TrainingInv
<1> SUFFICES ASSUME TrainingInit PROVE TrainingInv
  OBVIOUS
<1> USE DEF TrainingInit, NoJob
<1>m. MaxJobs \in Nat
  BY TrainingAssumption
<1>0. NoJob \in JobType /\ rows \in Seq(Row) /\ Len(rows) = 0
  BY DEF JobType, Stages
<1>1. TrainingTypeOK
  <2>1. 0 \in 0..Len(rows) /\ Len(rows) <= MaxJobs
    BY <1>m, <1>0
  <2>2. job \in [JobId -> JobType] /\ current \in [JobTypes -> 0..Len(rows)]
    BY <1>0, <2>1
  <2> QED
    BY <1>0, <2>1, <2>2 DEF TrainingTypeOK, JobType
<1>2. EndingHasOutcome /\ BegunOnce /\ OrphansAreAlone /\ StartedIsRun
  BY DEF EndingHasOutcome, BegunOnce, OrphansAreAlone, StartedIsRun
<1> QED
  BY <1>1, <1>2 DEF TrainingInv

\* What the completion of some jobs makes of the table: none of them is started.
LEMMA CompletedType ==
    ASSUME NEW r \in Seq(Row), NEW done, NEW status \in {"success", "error"}
    PROVE  /\ Completed(r, done, status) \in Seq(Row)
           /\ Len(Completed(r, done, status)) = Len(r)
           /\ DOMAIN Completed(r, done, status) = DOMAIN r
           /\ \A i \in DOMAIN r : Completed(r, done, status)[i].status = "started" =>
                                     r[i].status = "started" /\ i \notin done
           /\ \A i \in DOMAIN r : r[i].status # "queued" => Completed(r, done, status)[i].status # "queued"
<1> DEFINE c == Completed(r, done, status)
<1>1. DOMAIN r = 1..Len(r) /\ DOMAIN c = 1..Len(r) /\ Len(r) \in Nat
  BY DEF Completed
<1>2. ASSUME NEW i \in 1..Len(r)
      PROVE  /\ c[i] \in Row /\ (c[i].status = "started" => r[i].status = "started" /\ i \notin done)
             /\ r[i].status # "queued" => c[i].status # "queued"
  <2>1. r[i] \in Row
    OBVIOUS
  <2>2. c[i] = IF i \in done THEN [r[i] EXCEPT !.status = status]
               ELSE IF r[i].dependsOn \in done
               THEN [r[i] EXCEPT !.status = IF status = "error" THEN "error" ELSE @, !.dependsOn = 0]
               ELSE r[i]
    BY <1>1 DEF Completed
  <2> HIDE DEF c
  <2>3. CASE i \in done
    BY <2>1, <2>2, <2>3, SMTT(60) DEF Row
  <2>4. CASE i \notin done /\ r[i].dependsOn \in done
    <3>1. MaxJobs \in Nat
      BY TrainingAssumption
    <3>2. c[i] = [r[i] EXCEPT !.status = IF status = "error" THEN "error" ELSE r[i].status, !.dependsOn = 0]
      BY <2>2, <2>4
    <3> DEFINE s == IF status = "error" THEN "error" ELSE r[i].status
               x == [r[i] EXCEPT !.status = s]
    <3>3. x \in Row /\ 0 \in 0..MaxJobs /\ x.status = s
      BY <2>1, <3>1, SMTT(60) DEF Row
    <3>4. c[i] = [x EXCEPT !.dependsOn = 0]
      BY <3>2
    <3> HIDE DEF x
    <3>5. c[i] \in Row /\ c[i].status = x.status
      BY <3>3, <3>4 DEF Row
    <3> QED
      BY <2>4, <3>3, <3>5
  <2>5. CASE i \notin done /\ r[i].dependsOn \notin done
    BY <2>1, <2>2, <2>5
  <2> QED
    BY <2>3, <2>4, <2>5
<1> HIDE DEF c
<1>3. c \in [1..Len(r) -> Row]
  <2>1. c = [i \in 1..Len(r) |-> c[i]]
    BY <1>1 DEF c, Completed
  <2> QED
    BY <1>2, <2>1
<1>4. c \in Seq(Row) /\ Len(c) = Len(r)
  BY <1>1, <1>3
<1> QED
  BY <1>1, <1>2, <1>4 DEF c

LEMMA QueueOrMergeLength ==
    ASSUME NEW r \in Seq(Row), NEW type, NEW dependsOn, NEW all
    PROVE  Len(r) <= Len(QueueOrMerge(r, type, dependsOn, all).rows)
BY DEF QueueOrMerge

\* A request is merged into a job that is queued, or queued itself.
LEMMA QueueOrMergeType ==
    ASSUME NEW r \in Seq(Row), NEW type \in {"update-dataset", "train"},
           NEW dependsOn \in 0..MaxJobs, NEW all \in BOOLEAN
    PROVE  LET q == QueueOrMerge(r, type, dependsOn, all) IN
           /\ q.rows \in Seq(Row) /\ q.id \in 1..Len(q.rows)
           /\ Len(r) <= Len(q.rows)
           /\ \A i \in DOMAIN q.rows : q.rows[i].status = "started" =>
                                          i \in DOMAIN r /\ r[i].status = "started"
           /\ \A i \in DOMAIN r : i \in DOMAIN q.rows /\ q.rows[i] = r[i]
<1> DEFINE q == QueueOrMerge(r, type, dependsOn, all)
<1>1. CASE ~Mergeable(type, dependsOn) \/ Queued(r, type) = {}
  <2> DEFINE n == NewRow(type, dependsOn, all)
  <2>1. n \in Row /\ n.status = "queued"
    BY DEF NewRow, Row
  <2>2. q.rows = Append(r, n) /\ q.id = Len(r) + 1
    BY <1>1 DEF QueueOrMerge
  <2> HIDE DEF n, q
  <2>3. /\ q.rows \in Seq(Row) /\ Len(q.rows) = Len(r) + 1 /\ Len(r) \in Nat
        /\ q.rows[Len(r) + 1] = n
        /\ \A i \in 1..Len(r) : q.rows[i] = r[i]
    BY <2>1, <2>2
  <2>4. ASSUME NEW i \in DOMAIN q.rows, q.rows[i].status = "started"
        PROVE  i \in DOMAIN r /\ r[i].status = "started"
    BY <2>1, <2>3, <2>4, SMTT(60)
  <2> QED
    BY <2>2, <2>3, <2>4 DEF q
<1>2. CASE Mergeable(type, dependsOn) /\ Queued(r, type) # {}
  <2>1. q.rows = r /\ q.id = First(Queued(r, type))
    BY <1>2 DEF QueueOrMerge
  <2>2. Queued(r, type) \subseteq DOMAIN r /\ Queued(r, type) \in SUBSET Nat
    BY DEF Queued
  <2>3. First(Queued(r, type)) \in DOMAIN r
    BY <1>2, <2>2, FirstExists
  <2> QED
    BY <2>1, <2>3
<1> QED
  BY <1>1, <1>2

-----------------------------------------------------------------------------
(* Steps.                                                                     *)

\* The table changes, and no row gets to be started.
LEMMA TableKeepsInv ==
    ASSUME TrainingInv, rows' \in Seq(Row), Len(rows') <= MaxJobs, Len(rows) <= Len(rows'),
           \A i \in DOMAIN rows' : rows'[i].status = "started" =>  i \in DOMAIN rows /\ rows[i].status = "started",
           \A i \in DOMAIN rows : rows[i].status # "queued" => i \in DOMAIN rows' /\ rows'[i].status # "queued",
           pending' \subseteq JobTypes,
           UNCHANGED <<up, current, job, processes, orphans, stuck>>
    PROVE  TrainingInv'
<1> USE DEF TrainingInv
<1>1. TrainingTypeOK'
  <2>1. Len(rows) \in Nat /\ Len(rows') \in Nat /\ 0..Len(rows) \subseteq 0..Len(rows')
    BY DEF TrainingTypeOK
  <2>2. current' \in [JobTypes -> 0..Len(rows')]
    BY <2>1 DEF TrainingTypeOK
  <2> QED
    BY <2>2 DEF TrainingTypeOK
<1>2. EndingHasOutcome' /\ BegunOnce' /\ OrphansAreAlone' /\ StartedIsRun'
  BY DEF EndingHasOutcome, BegunOnce, OrphansAreAlone, StartedIsRun
<1> QED
  BY <1>1, <1>2

LEMMA ScheduleKeepsInv ==
    ASSUME TrainingInv, NEW template \in Templates, NEW all \in BOOLEAN, Schedule(template, all)
    PROVE  TrainingInv'
<1> DEFINE both == template = "update-dataset,train"
           type == IF both THEN "update-dataset" ELSE template
           first == QueueOrMerge(rows, type, 0, all)
           second == QueueOrMerge(first.rows, "train", first.id, all)
           result == IF both THEN second.rows ELSE first.rows
<1>1. rows \in Seq(Row) /\ Len(rows) \in Nat /\ Len(rows) <= MaxJobs /\ pending \subseteq JobTypes /\ MaxJobs \in Nat
  BY TrainingAssumption DEF TrainingInv, TrainingTypeOK
<1>2. type \in {"update-dataset", "train"} /\ 0 \in 0..MaxJobs
  <2>1. template \in {"update-dataset", "train", "update-dataset,train"}
    BY DEF Templates
  <2>2. 0 \in 0..MaxJobs
    BY <1>1
  <2>3. type \in {"update-dataset", "train"}
    BY ONLY <2>1
  <2> QED
    BY <2>2, <2>3
<1>3. /\ Len(result) <= MaxJobs /\ UNCHANGED <<up, current, job, processes, orphans, stuck>>
      /\ \/ UNCHANGED <<rows, pending>>
         \/ rows' = result /\ pending' = JobTypes
  BY DEF Schedule
<1> HIDE DEF type, first, both
<1>4. /\ first.rows \in Seq(Row) /\ first.id \in 1..Len(first.rows) /\ Len(rows) <= Len(first.rows)
      /\ \A i \in DOMAIN first.rows : first.rows[i].status = "started" =>
                                         i \in DOMAIN rows /\ rows[i].status = "started"
      /\ \A i \in DOMAIN rows : i \in DOMAIN first.rows /\ first.rows[i] = rows[i]
  BY <1>1, <1>2, QueueOrMergeType, SMTT(60) DEF first
<1>5. CASE UNCHANGED <<rows, pending>>
  <2> HIDE DEF result
  <2> QED
    BY <1>1, <1>3, <1>5, TableKeepsInv
<1>6. CASE ~both /\ rows' = result /\ pending' = JobTypes
  BY <1>3, <1>4, <1>6, TableKeepsInv
<1>7. CASE both /\ rows' = result /\ pending' = JobTypes
  <2>1. rows' = second.rows /\ Len(second.rows) <= MaxJobs
    BY <1>3, <1>7
  <2>2. Len(first.rows) <= Len(second.rows) /\ Len(first.rows) \in Nat
    BY <1>4, QueueOrMergeLength
  <2> HIDE DEF second
  <2>3. /\ second.rows \in Seq(Row)
        /\ \A i \in DOMAIN second.rows : second.rows[i].status = "started" =>
                                           i \in DOMAIN first.rows /\ first.rows[i].status = "started"
        /\ \A i \in DOMAIN first.rows : i \in DOMAIN second.rows /\ second.rows[i] = first.rows[i]
    <3>1. first.id \in 0..MaxJobs
      <4>1. Len(second.rows) \in Nat
        BY <1>1, <2>1, <2>2 DEF second, QueueOrMerge
      <4> QED
        BY <1>1, <1>4, <2>1, <2>2, <4>1
    <3> QED
      BY <1>4, <3>1, QueueOrMergeType, SMTT(60) DEF second
  <2>4. Len(rows) <= Len(rows')
    BY <1>1, <1>4, <2>1, <2>2, <2>3
  <2> QED
    BY <1>3, <1>4, <1>7, <2>1, <2>3, <2>4, TableKeepsInv
<1> QED
  BY <1>3, <1>5, <1>6, <1>7

\* The daemon starts: what was started has failed.
LEMMA StartKeepsInv ==
    ASSUME TrainingInv, Start
    PROVE  TrainingInv'
<1> USE DEF TrainingInv
<1> DEFINE done == {i \in DOMAIN rows : rows[i].status = "started"}
<1>1. rows' = Completed(rows, done, "error")
  BY DEF Start, Recovered
<1> HIDE DEF done
<1>2. /\ rows' \in Seq(Row) /\ Len(rows') = Len(rows) /\ DOMAIN rows' = DOMAIN rows
      /\ \A i \in DOMAIN rows : rows'[i].status = "started" => rows[i].status = "started" /\ i \notin done
      /\ \A i \in DOMAIN rows : rows[i].status # "queued" => rows'[i].status # "queued"
  BY <1>1, CompletedType DEF TrainingTypeOK
<1>3. \A i \in DOMAIN rows' : rows'[i].status # "started"
  BY <1>2 DEF done
<1>4. TrainingTypeOK'
  BY <1>2 DEF Start, TrainingTypeOK
<1>5. EndingHasOutcome' /\ BegunOnce' /\ OrphansAreAlone' /\ StartedIsRun'
  BY <1>2, <1>3 DEF Start, EndingHasOutcome, BegunOnce, OrphansAreAlone, StartedIsRun
<1> QED
  BY <1>4, <1>5

LEMMA DownKeepsInv ==
    ASSUME TrainingInv, Down, UNCHANGED rows
    PROVE  TrainingInv'
<1> USE DEF TrainingInv, Down
<1>1. TrainingTypeOK'
  <2>1. NoJob \in JobType /\ 0 \in 0..Len(rows)
    BY DEF JobType, NoJob, Stages, TrainingTypeOK
  <2>2. orphans' \subseteq processes' /\ processes' \subseteq JobId
    BY DEF TrainingTypeOK
  <2> QED
    BY <2>1, <2>2 DEF TrainingTypeOK, JobType
<1>2. EndingHasOutcome' /\ BegunOnce' /\ OrphansAreAlone' /\ StartedIsRun'
  BY DEF TrainingTypeOK, EndingHasOutcome, BegunOnce, OrphansAreAlone, StartedIsRun, NoJob
<1> QED
  BY <1>1, <1>2

LEMMA KillKeepsInv ==
    ASSUME TrainingInv, NEW i \in JobId, Kill(i)
    PROVE  TrainingInv'
<1>1. UNCHANGED <<up, current, pending, processes, orphans, stuck>>
  BY DEF Kill
<1>2. CASE job' = [job EXCEPT ![i].killed = TRUE] /\ UNCHANGED rows
  <2> USE DEF TrainingInv
  <2>1. job \in [JobId -> JobType]
    BY DEF TrainingTypeOK, JobType
  <2>2. /\ job' \in [JobId -> JobType]
        /\ \A j \in JobId : job'[j].stage = job[j].stage /\ job'[j].status = job[j].status
    BY <1>2, <2>1, ZenonT(60) DEF JobType
  <2>3. TrainingTypeOK'
    BY <1>1, <1>2, <2>2 DEF TrainingTypeOK, JobType
  <2>4. \A j \in DOMAIN rows : j \in JobId
    BY TrainingAssumption DEF TrainingTypeOK, JobId
  <2>5. EndingHasOutcome' /\ BegunOnce' /\ OrphansAreAlone' /\ StartedIsRun'
    BY <1>1, <1>2, <2>2, <2>4 DEF TrainingTypeOK, EndingHasOutcome, BegunOnce, OrphansAreAlone, StartedIsRun
  <2> QED
    BY <2>3, <2>5
<1>3. CASE rows' = Completed(rows, {i}, "error") /\ UNCHANGED job
  <2>1. rows \in Seq(Row) /\ Len(rows) <= MaxJobs /\ Len(rows) \in Nat /\ pending \subseteq JobTypes
    BY DEF TrainingInv, TrainingTypeOK
  <2>2. /\ rows' \in Seq(Row) /\ Len(rows') = Len(rows) /\ DOMAIN rows' = DOMAIN rows
        /\ \A j \in DOMAIN rows : rows'[j].status = "started" => rows[j].status = "started"
        /\ \A j \in DOMAIN rows : rows[j].status # "queued" => rows'[j].status # "queued"
    BY <1>3, <2>1, CompletedType
  <2>3. /\ Len(rows') <= MaxJobs /\ Len(rows) <= Len(rows')
        /\ \A j \in DOMAIN rows' : rows'[j].status = "started" => j \in DOMAIN rows /\ rows[j].status = "started"
    BY <2>1, <2>2
  <2> QED
    BY <1>1, <1>3, <2>1, <2>2, <2>3, TableKeepsInv
<1> QED
  BY <1>2, <1>3 DEF Kill

\* A job is started that was queued.
LEMMA StartNextJobKeepsInv ==
    ASSUME TrainingInv, NEW t \in JobTypes, StartNextJob(t)
    PROVE  TrainingInv'
<1> USE DEF TrainingInv
<1>0. UNCHANGED <<up, processes, orphans, stuck>> /\ pending' \subseteq JobTypes
  BY DEF StartNextJob, TrainingTypeOK
<1>1. CASE UNCHANGED <<rows, current, job>>
  BY <1>0, <1>1 DEF TrainingTypeOK, EndingHasOutcome, BegunOnce, OrphansAreAlone, StartedIsRun
<1>2. CASE ~(Running(t) \/ Startable(t) = {})
  <2> DEFINE i == First(Startable(t))
  <2>1. i \in Startable(t)
    <3>1. Startable(t) \in SUBSET Nat
      BY DEF Startable, Queued, TrainingTypeOK
    <3> QED
      BY <1>2, <3>1, FirstExists
  <2>2. i \in DOMAIN rows /\ rows[i].status = "queued" /\ i \in 1..Len(rows) /\ rows[i] \in Row /\ i \in JobId
    BY <2>1, TrainingAssumption, SMTT(60) DEF Startable, Queued, TrainingTypeOK, JobId
  <2> DEFINE begun == [NoJob EXCEPT !.stage = "saving", !.task = 1]
  <2>3. /\ rows' = [rows EXCEPT ![i].status = "started"]
        /\ current' = [current EXCEPT ![t] = i] /\ current[t] = 0
        /\ job' = [job EXCEPT ![i] = begun]
    BY <1>2 DEF StartNextJob, Running
  <2>4. begun \in JobType /\ begun.stage = "saving"
    BY DEF NoJob, JobType, Stages
  <2> HIDE DEF i, begun
  <2>5. /\ rows' \in Seq(Row) /\ Len(rows') = Len(rows) /\ DOMAIN rows' = DOMAIN rows
        /\ \A j \in DOMAIN rows : j # i => rows'[j] = rows[j]
        /\ rows'[i].status = "started"
    <3>1. [rows[i] EXCEPT !.status = "started"] \in Row
      BY <2>2 DEF Row
    <3>2. rows' = [rows EXCEPT ![i] = [rows[i] EXCEPT !.status = "started"]]
      BY <2>3
    <3> QED
      BY <2>2, <3>1, <3>2, SMTT(60) DEF TrainingTypeOK, Row
  <2>6. /\ job' \in [JobId -> JobType] /\ job'[i] = begun
        /\ \A j \in JobId : j # i => job'[j] = job[j]
    BY <2>2, <2>3, <2>4 DEF TrainingTypeOK, JobType
  <2>7. /\ current' \in [JobTypes -> 0..Len(rows)] /\ current'[t] = i
        /\ \A k \in JobTypes : k # t => current'[k] = current[k]
    BY <2>2, <2>3 DEF TrainingTypeOK
  <2>8. TrainingTypeOK'
    BY <1>0, <2>5, <2>6, <2>7 DEF TrainingTypeOK, JobType
  <2>9. EndingHasOutcome' /\ BegunOnce' /\ OrphansAreAlone'
    <3>1. i \notin processes
      BY <2>2 DEF BegunOnce
    <3>2. i \notin orphans /\ orphans \subseteq JobId
      BY <3>1 DEF TrainingTypeOK
    <3>3. EndingHasOutcome'
      BY <2>4, <2>6 DEF EndingHasOutcome
    <3>4. BegunOnce'
      BY <1>0, <2>2, <2>5, <2>6 DEF BegunOnce
    <3>5. OrphansAreAlone'
      BY <1>0, <2>4, <2>6, <3>2 DEF OrphansAreAlone
    <3> QED
      BY <3>3, <3>4, <3>5
  <2>10. StartedIsRun'
    <3> SUFFICES ASSUME NEW j \in DOMAIN rows, up, rows'[j].status = "started", j \notin stuck
                 PROVE  j \in {current'[k] : k \in JobTypes} \/ job'[j].stage = "ending"
      BY <1>0, <2>5 DEF StartedIsRun
    <3>1. CASE j = i
      BY <2>7, <3>1
    <3>2. CASE j # i
      <4>1. j \in {current[k] : k \in JobTypes} \/ job[j].stage = "ending"
        BY <2>5, <3>2 DEF StartedIsRun
      <4>2. j # 0 /\ j \in JobId
        BY TrainingAssumption, SMTT(60) DEF TrainingTypeOK, JobId
      <4>3. CASE j \in {current[k] : k \in JobTypes}
        BY <2>3, <2>7, <4>2, <4>3
      <4>4. CASE job[j].stage = "ending"
        BY <2>6, <3>2, <4>2, <4>4
      <4> QED
        BY <4>1, <4>3, <4>4
    <3> QED
      BY <3>1, <3>2
  <2> QED
    BY <2>8, <2>9, <2>10
<1> QED
  BY <1>1, <1>2 DEF StartNextJob

(* A job goes on, and stays the current one; or it ends, in an outcome that is *)
(* to be recorded.                                                             *)
LEMMA JobGoesOnKeepsInv ==
    ASSUME TrainingInv, NEW i \in JobId, job[i].stage \notin {"none", "ending"},
           NEW n \in JobType, job' = [job EXCEPT ![i] = n],
           \/ n.stage # "ending" /\ UNCHANGED current
           \/ /\ n.stage = "ending" /\ n.status \in {"success", "error"}
              /\ current' = [t \in JobTypes |-> IF current[t] = i THEN 0 ELSE current[t]],
           processes' \subseteq processes \cup {i}, processes \subseteq processes' \cup {i},
           n.stage = "waiting" => i \in processes',
           orphans' \subseteq orphans \cup {i},
           i \in orphans' => i \in processes' /\ n.stage = "ending",
           UNCHANGED <<rows, up, pending, stuck>>
    PROVE  TrainingInv'
<1> USE DEF TrainingInv
<1>1. job' \in [JobId -> JobType] /\ job'[i] = n /\ \A j \in JobId : j # i => job'[j] = job[j]
  BY DEF TrainingTypeOK, JobType
<1>2. current' \in [JobTypes -> 0..Len(rows)]
  BY DEF TrainingTypeOK
<1>3. TrainingTypeOK'
  <2>1. orphans' \subseteq processes' /\ processes' \subseteq JobId
    BY DEF TrainingTypeOK
  <2> QED
    BY <1>1, <1>2, <2>1 DEF TrainingTypeOK, JobType
<1>4. EndingHasOutcome' /\ BegunOnce' /\ OrphansAreAlone'
  BY <1>1 DEF EndingHasOutcome, BegunOnce, OrphansAreAlone
<1>5. StartedIsRun'
  <2> SUFFICES ASSUME NEW j \in DOMAIN rows, up, rows[j].status = "started", j \notin stuck
               PROVE  j \in {current'[k] : k \in JobTypes} \/ job'[j].stage = "ending"
    BY DEF StartedIsRun
  <2>1. j \in {current[k] : k \in JobTypes} \/ job[j].stage = "ending"
    BY DEF StartedIsRun
  <2>2. j \in JobId
    BY TrainingAssumption DEF TrainingTypeOK, JobId
  <2>3. CASE j = i
    BY <1>1, <2>1, <2>3
  <2>4. CASE j # i
    BY <1>1, <2>1, <2>2, <2>4
  <2> QED
    BY <2>3, <2>4
<1> QED
  BY <1>3, <1>4, <1>5

LEMMA JobStepKeepsInv ==
    ASSUME TrainingInv, NEW i \in JobId,
           \/ TaskBegins(i) \/ TaskSpawned(i) \/ TaskExits(i) \/ JobReported(i)
           \/ TaskReturns(i) \/ TaskRecorded(i) \/ QueryFails(i) \/ WatchGivesUp(i)
    PROVE  TrainingInv'
<1>0. /\ job \in [JobId -> JobType] /\ job[i] \in JobType /\ orphans \subseteq processes /\ processes \subseteq JobId
      /\ job[i].stage \notin {"none", "ending"} => i \notin orphans
  BY DEF TrainingInv, TrainingTypeOK, JobType, OrphansAreAlone
<1>1. ASSUME NEW status \in {"success", "error"}, Ends(i, status)
      PROVE  \E n \in JobType :
                /\ job' = [job EXCEPT ![i] = n] /\ n.stage = "ending" /\ n.status \in {"success", "error"}
                /\ current' = [t \in JobTypes |-> IF current[t] = i THEN 0 ELSE current[t]]
  <2> DEFINE n == [job[i] EXCEPT !.stage = "ending", !.status = status]
  <2>1. n \in JobType /\ n.stage = "ending" /\ n.status = status
    BY <1>0 DEF JobType, Stages
  <2>2. job' = [job EXCEPT ![i] = n]
    BY <1>0, <1>1 DEF Ends
  <2> QED
    BY <1>1, <2>1, <2>2 DEF Ends
<1>2. ASSUME NEW stage \in Stages \ {"none", "ending"}, Goes(i, stage)
      PROVE  \E n \in JobType :
                job' = [job EXCEPT ![i] = n] /\ n.stage = stage /\ UNCHANGED current
  <2> DEFINE n == [job[i] EXCEPT !.stage = stage]
  <2>1. n \in JobType /\ n.stage = stage
    BY <1>0 DEF JobType
  <2>2. job' = [job EXCEPT ![i] = n]
    BY <1>0, <1>2 DEF Goes
  <2> QED
    BY <1>2, <2>1, <2>2 DEF Goes
<1>3. /\ UNCHANGED <<rows, up, pending, stuck>>
      /\ job[i].stage \in {"saving", "spawning", "waiting", "calling", "recording"}
  BY DEF TaskBegins, TaskSpawned, TaskExits, JobReported, WaitOver, TaskReturns, TaskRecorded,
         QueryFails, WatchGivesUp
<1>4. i \notin orphans /\ (job[i].stage = "waiting" => i \in processes)
  BY <1>0, <1>3 DEF TrainingInv, OrphansAreAlone
\* The job has ended.
<1>5. ASSUME NEW status \in {"success", "error"}, Ends(i, status),
             \/ UNCHANGED <<processes, orphans>>
             \/ processes' = processes \ {i} /\ UNCHANGED orphans
             \/ orphans' = orphans \cup {i} /\ UNCHANGED processes /\ i \in processes
      PROVE  TrainingInv'
  <2>1. PICK n \in JobType :
                /\ job' = [job EXCEPT ![i] = n] /\ n.stage = "ending" /\ n.status \in {"success", "error"}
                /\ current' = [t \in JobTypes |-> IF current[t] = i THEN 0 ELSE current[t]]
    BY <1>1, <1>5
  <2>2. /\ processes' \subseteq processes \cup {i} /\ processes \subseteq processes' \cup {i}
        /\ orphans' \subseteq orphans \cup {i} /\ (i \in orphans' => i \in processes')
    BY <1>4, <1>5
  <2> QED
    BY <1>3, <2>1, <2>2, JobGoesOnKeepsInv
\* It goes on.
<1>6. ASSUME NEW stage \in Stages \ {"none", "ending"}, NEW n \in JobType, n.stage = stage,
             job' = [job EXCEPT ![i] = n], UNCHANGED <<current, orphans>>,
             \/ stage # "waiting" /\ UNCHANGED processes
             \/ stage # "waiting" /\ processes' = processes \ {i}
             \/ processes' = processes \cup {i}
      PROVE  TrainingInv'
  <2>1. /\ processes' \subseteq processes \cup {i} /\ processes \subseteq processes' \cup {i}
        /\ stage = "waiting" => i \in processes'
    BY <1>6
  <2> QED
    BY <1>3, <1>4, <1>6, <2>1, JobGoesOnKeepsInv
<1>7. CASE TaskBegins(i)
  <2>1. PICK stage \in {"spawning", "calling"} : Goes(i, stage)
    BY <1>7 DEF TaskBegins
  <2> QED
    BY <1>2, <1>6, <1>7, <2>1 DEF TaskBegins, Stages
<1>8. CASE TaskSpawned(i)
  <2>1. CASE Goes(i, "waiting") /\ processes' = processes \cup {i}
    BY <1>2, <1>6, <1>8, <2>1 DEF TaskSpawned, Stages
  <2>2. CASE Ends(i, "error") /\ UNCHANGED processes
    BY <1>5, <1>8, <2>2 DEF TaskSpawned
  <2> QED
    BY <1>8, <2>1, <2>2 DEF TaskSpawned
<1>9. CASE \E outcome \in Exit : WaitOver(i, outcome)
  <2>1. PICK outcome \in Exit : WaitOver(i, outcome)
    BY <1>9
  <2>2. processes' = processes \ {i} /\ UNCHANGED orphans
    BY <2>1 DEF WaitOver
  <2>3. CASE outcome = "error"
    BY <1>5, <2>1, <2>2, <2>3 DEF WaitOver
  <2>4. CASE outcome = "recording"
    BY <1>2, <1>6, <2>1, <2>2, <2>4 DEF WaitOver, Stages
  <2> QED
    BY <2>3, <2>4 DEF Exit
<1>10. CASE TaskReturns(i)
  BY <1>2, <1>6, <1>10 DEF TaskReturns, Stages
<1>11. CASE TaskRecorded(i)
  <2>1. CASE Ends(i, "error") \/ Ends(i, "success")
    BY <1>5, <1>11, <2>1 DEF TaskRecorded
  <2>2. CASE job' = [job EXCEPT ![i].stage = "saving", ![i].task = @ + 1] /\ UNCHANGED current
    <3> DEFINE m == [job[i] EXCEPT !.stage = "saving"]
               n == [m EXCEPT !.task = job[i].task + 1]
    <3>1. m \in JobType /\ m.stage = "saving" /\ m.task = job[i].task /\ m.task + 1 \in Nat
      BY <1>0 DEF JobType, Stages
    <3>2. job' = [job EXCEPT ![i] = n]
      BY <1>0, <2>2 DEF JobType
    <3> HIDE DEF m
    <3>3. n \in JobType /\ n.stage = "saving"
      BY <3>1 DEF JobType
    <3> HIDE DEF n
    <3> QED
      BY <1>6, <1>11, <2>2, <3>2, <3>3 DEF TaskRecorded, Stages
  <2> QED
    BY <1>11, <2>1, <2>2 DEF TaskRecorded
<1>12. CASE QueryFails(i)
  BY <1>5, <1>12 DEF QueryFails
<1>13. CASE WatchGivesUp(i)
  BY <1>4, <1>5, <1>13 DEF WatchGivesUp
<1>14. TaskExits(i) \/ JobReported(i) => \E outcome \in Exit : WaitOver(i, outcome)
  BY DEF TaskExits, JobReported, Exit
<1> QED
  BY <1>7, <1>8, <1>9, <1>10, <1>11, <1>12, <1>13, <1>14

\* A process that nobody waits for ends.
LEMMA OrphanKeepsInv ==
    ASSUME TrainingInv, NEW i \in JobId, OrphanExits(i)
    PROVE  TrainingInv'
<1> USE DEF TrainingInv, OrphanExits
<1>1. TrainingTypeOK'
  BY DEF TrainingTypeOK
<1>2. EndingHasOutcome' /\ BegunOnce' /\ OrphansAreAlone' /\ StartedIsRun'
  BY SMTT(60) DEF TrainingTypeOK, EndingHasOutcome, BegunOnce, OrphansAreAlone, StartedIsRun
<1> QED
  BY <1>1, <1>2

\* The end of a job is recorded, or cannot be.
LEMMA CompletionKeepsInv ==
    ASSUME TrainingInv, NEW i \in JobId, CompletionRecorded(i) \/ CompletionFails(i)
    PROVE  TrainingInv'
<1>0. NoJob \in JobType /\ NoJob.stage = "none"
  BY DEF NoJob, JobType, Stages
<1>1. CASE CompletionRecorded(i)
  <2> USE DEF TrainingInv
  <2>1. /\ rows' = Completed(rows, {i}, job[i].status) /\ job' = [job EXCEPT ![i] = NoJob]
        /\ pending' = JobTypes /\ UNCHANGED <<up, current, processes, orphans, stuck>>
        /\ job[i].status \in {"success", "error"}
    BY <1>1 DEF CompletionRecorded, NextStarted, EndingHasOutcome
  <2>2. /\ rows' \in Seq(Row) /\ Len(rows') = Len(rows) /\ DOMAIN rows' = DOMAIN rows
        /\ \A j \in DOMAIN rows : rows'[j].status = "started" => rows[j].status = "started" /\ j # i
        /\ \A j \in DOMAIN rows : rows[j].status # "queued" => rows'[j].status # "queued"
    BY <2>1, CompletedType DEF TrainingTypeOK
  <2>3. /\ job' \in [JobId -> JobType] /\ job'[i] = NoJob
        /\ \A j \in JobId : j # i => job'[j] = job[j]
    BY <1>0, <2>1 DEF TrainingTypeOK, JobType
  <2>4. TrainingTypeOK'
    BY <2>1, <2>2, <2>3 DEF TrainingTypeOK, JobType
  <2>5. \A j \in DOMAIN rows : j \in JobId
    BY TrainingAssumption DEF TrainingTypeOK, JobId
  <2>6. EndingHasOutcome' /\ BegunOnce' /\ OrphansAreAlone'
    <3>1. EndingHasOutcome'
      BY <1>0, <2>3 DEF EndingHasOutcome
    <3>2. BegunOnce'
      <4> SUFFICES ASSUME NEW j \in JobId, job'[j].stage # "none" \/ j \in processes
                   PROVE  j \in DOMAIN rows' /\ rows'[j].status # "queued"
        BY <2>1 DEF BegunOnce
      <4>1. job[j].stage # "none" \/ j \in processes
        BY <1>0, <2>3
      <4>2. j \in DOMAIN rows /\ rows[j].status # "queued"
        BY <4>1 DEF BegunOnce
      <4> QED
        BY <2>2, <4>2
    <3>3. OrphansAreAlone'
      BY <1>0, <2>1, <2>3 DEF TrainingTypeOK, OrphansAreAlone
    <3> QED
      BY <3>1, <3>2, <3>3
  <2>7. StartedIsRun'
    <3> SUFFICES ASSUME NEW j \in DOMAIN rows', up', rows'[j].status = "started", j \notin stuck'
                 PROVE  j \in {current'[k] : k \in JobTypes} \/ job'[j].stage = "ending"
      BY Zenon DEF StartedIsRun
    <3>1. j \in DOMAIN rows /\ j \in JobId /\ j # i /\ rows[j].status = "started"
      BY <2>2, <2>5
    <3>2. j \in {current[k] : k \in JobTypes} \/ job[j].stage = "ending"
      BY <2>1, <3>1 DEF StartedIsRun
    <3> QED
      BY <2>1, <2>3, <3>1, <3>2
  <2> QED
    BY <2>4, <2>6, <2>7
<1>2. CASE CompletionFails(i)
  <2>1. CASE job[i].status = "success"
    <3> USE DEF TrainingInv
    <3>1. /\ job' = [job EXCEPT ![i] = NoJob] /\ stuck' = stuck \cup {i}
          /\ UNCHANGED <<rows, up, current, pending, processes, orphans>>
      BY <1>2, <2>1 DEF CompletionFails
    <3>2. /\ job' \in [JobId -> JobType] /\ job'[i] = NoJob
          /\ \A j \in JobId : j # i => job'[j] = job[j]
      BY <1>0, <3>1 DEF TrainingTypeOK, JobType
    <3>3. TrainingTypeOK'
      BY <3>1, <3>2 DEF TrainingTypeOK, JobType
    <3>4. \A j \in DOMAIN rows : j \in JobId
      BY TrainingAssumption DEF TrainingTypeOK, JobId
    <3>5. EndingHasOutcome' /\ BegunOnce' /\ OrphansAreAlone'
      BY <1>0, <3>1, <3>2 DEF TrainingTypeOK, EndingHasOutcome, BegunOnce, OrphansAreAlone
    <3>6. StartedIsRun'
      BY <3>1, <3>2, <3>4 DEF StartedIsRun
    <3> QED
      BY <3>3, <3>5, <3>6
  <2>2. CASE job[i].status # "success"
    BY <1>2, <2>2, DownKeepsInv DEF CompletionFails
  <2> QED
    BY <2>1, <2>2
<1> QED
  BY <1>1, <1>2

LEMMA TrainingInvariant == TrainingSpec => []TrainingInv
<1>1. ASSUME TrainingInv, [TrainingNext]_trainingVars PROVE TrainingInv'
  <2>1. CASE UNCHANGED trainingVars
    BY <1>1, <2>1 DEF trainingVars, TrainingInv, TrainingTypeOK, EndingHasOutcome, BegunOnce, OrphansAreAlone,
                      StartedIsRun
  <2>2. CASE Start
    BY <1>1, <2>2, StartKeepsInv
  <2>3. CASE Crash
    BY <1>1, <2>3, DownKeepsInv DEF Crash
  <2>4. CASE \E template \in Templates, all \in BOOLEAN : Schedule(template, all)
    BY <1>1, <2>4, ScheduleKeepsInv
  <2>5. CASE \E i \in JobId : Kill(i)
    BY <1>1, <2>5, KillKeepsInv
  <2>6. CASE \E t \in JobTypes : StartNextJob(t)
    BY <1>1, <2>6, StartNextJobKeepsInv
  <2>7. CASE \E i \in JobId : \/ JobStep(i) \/ QueryFails(i) \/ CompletionFails(i)
                          \/ WatchGivesUp(i) \/ OrphanExits(i)
    BY <1>1, <2>7, JobStepKeepsInv, OrphanKeepsInv, CompletionKeepsInv DEF JobStep
  <2> QED
    BY <1>1, <2>1, <2>2, <2>3, <2>4, <2>5, <2>6, <2>7 DEF TrainingNext
<1> QED
  BY <1>1, TrainingInitInv, PTL DEF TrainingSpec

(* The table, the jobs of the daemon and the processes of tasks have the       *)
(* declared shape through crashes and failures: in particular a process that   *)
(* has survived is one that was there.                                         *)
THEOREM TrainingTypeCorrect == TrainingSpec => []TrainingTypeOK
<1>1. TrainingInv => TrainingTypeOK
  BY DEF TrainingInv
<1> QED
  BY <1>1, TrainingInvariant, PTL

(* daemon.js: a started row is the current job of the daemon or is being       *)
(* recorded, for any number of jobs, crashes, kills and failed queries, unless *)
(* the recording itself failed.                                                *)
THEOREM StartedJobsAreRun == TrainingSpec => []StartedIsRun
<1>1. TrainingInv => StartedIsRun
  BY DEF TrainingInv
<1> QED
  BY <1>1, TrainingInvariant, PTL

-----------------------------------------------------------------------------
(* The commands of a device and their likes.                                  *)

\* What each row is; a row has no other columns.
RowsAreRecords ==
    \A r \in utterances :
        r = [id |-> r.id, name |-> r.name, code |-> r.code, phrase |-> r.phrase,
             synthetic |-> r.synthetic, likes |-> r.likes]

Asked(q) == underWay[q] # NoRequest
Busy == {q \in LikeRequests : Asked(q)}
AllFinite == IsFiniteSet(liked) /\ IsFiniteSet(Busy)

(* A request is about a row that there was, or is; from the page, about one    *)
(* that the page shows; and a like that is half done was new.                  *)
RequestsAreAboutRows ==
    \A q \in LikeRequests : Asked(q) =>
        /\ underWay[q].id \in 1..nextId - 1
        /\ underWay[q].user = Reader => underWay[q].id \in DOMAIN page
        /\ underWay[q].up /\ underWay[q].stage = "half" => underWay[q].ok

(* Where a heart was not clicked both ways at a time, what the requests have   *)
(* done so far is what they ask for, and the heart shows it, or one of them    *)
(* has done it and is to be answered.                                          *)
OfReader(id) == {q \in LikeRequests : Asked(q) /\ underWay[q].user = Reader /\ underWay[q].id = id}
Took(q) == underWay[q].stage = "done" \/ (underWay[q].up /\ underWay[q].stage = "half")
ReaderLikes(id) == <<Reader, id>> \in liked
Follows(id, q) ==
    /\ (page[id].heart <=> underWay[q].up) \/ Took(q) => (ReaderLikes(id) <=> underWay[q].up)
    /\ ~(page[id].heart <=> underWay[q].up) /\ (ReaderLikes(id) <=> underWay[q].up) =>
          \E p \in OfReader(id) : Took(p) /\ underWay[p].ok
HeartFollows(id) ==
    /\ OfReader(id) = {} => (page[id].heart <=> ReaderLikes(id))
    /\ \A p, q \in OfReader(id) : underWay[p].up <=> underWay[q].up
    /\ \A q \in OfReader(id) : Follows(id, q)
HeartsFollow ==
    \A id \in DOMAIN page \ hastyClicks : Reader \in accounts /\ IsThere(id) => HeartFollows(id)

\* The number of likes of a row, but for what is between two statements.
CountsAreRight ==
    \A r \in utterances : r.id \notin crossed =>
        r.likes = Cardinality(LikesOf(r.id)) - Cardinality(HalfDone(r.id))

DatasetsAreThose ==
    remaining \in [datasets : SUBSET Datasets, uploads : Nat, deleted : Nat, likes : Nat]

CommandsInv ==
    /\ CommandsTypeOK /\ RowsAreRecords /\ AllFinite /\ RequestsAreAboutRows
    /\ HeartsFollow /\ CountsAreRight /\ DatasetsAreThose

LEMMA CommandsInitInv == CommandsInit => CommandsInv
<1> SUFFICES ASSUME CommandsInit PROVE CommandsInv
  OBVIOUS
<1> USE DEF CommandsInit
<1>1. DOMAIN page = {} /\ page \in [{} -> Heart]
  OBVIOUS
<1>2. CommandsTypeOK
  BY <1>1 DEF CommandsTypeOK
<1>3. Busy = {}
  BY DEF Busy, Asked
<1>4. AllFinite
  BY <1>3, FS_EmptySet DEF AllFinite
<1>5. RowsAreRecords /\ CountsAreRight
  BY DEF RowsAreRecords, CountsAreRight
<1>6. RequestsAreAboutRows /\ HeartsFollow
  BY <1>1 DEF RequestsAreAboutRows, HeartsFollow, Asked
<1>7. DatasetsAreThose
  BY CommandsAssumption DEF DatasetsAreThose
<1> QED
  BY <1>2, <1>4, <1>5, <1>6, <1>7 DEF CommandsInv

\* The phrases to create have places of their own.
LEMMA PlacesDiffer ==
    ASSUME NEW ps \in SUBSET (Nat \X Nat), IsFiniteSet(ps)
    PROVE  /\ Cardinality(ps) \in Nat
           /\ \A p \in ps : PlaceIn(ps, p) \in 0..Cardinality(ps) - 1
           /\ \A p, q \in ps : PlaceIn(ps, p) = PlaceIn(ps, q) => p = q
<1> DEFINE B(p) == {q \in ps : Before(q, p)}
<1>1. Cardinality(ps) \in Nat
  BY FS_CardinalityType
<1>2. \A p \in ps : IsFiniteSet(B(p)) /\ Cardinality(B(p)) \in Nat
  BY FS_Subset, FS_CardinalityType
<1>3. ASSUME NEW p \in ps
      PROVE  Cardinality(B(p)) < Cardinality(ps)
  <2>1. B(p) \subseteq ps /\ p \notin B(p)
    BY DEF Before
  <2> QED
    BY <1>1, <1>2, <2>1, FS_Subset
<1>4. ASSUME NEW p \in ps, NEW q \in ps, Before(p, q)
      PROVE  Cardinality(B(p)) < Cardinality(B(q))
  <2>1. B(p) \subseteq B(q)
    <3> SUFFICES ASSUME NEW x \in ps, Before(x, p) PROVE Before(x, q)
      OBVIOUS
    <3>1. /\ x[1] \in Nat /\ x[2] \in Nat /\ p[1] \in Nat /\ p[2] \in Nat /\ q[1] \in Nat /\ q[2] \in Nat
      OBVIOUS
    <3> QED
      BY <1>4, <3>1 DEF Before
  <2>2. p \in B(q) /\ p \notin B(p)
    BY <1>4 DEF Before
  <2> HIDE DEF B
  <2> QED
    BY <1>2, <2>1, <2>2, FS_Subset
<1>5. ASSUME NEW p \in ps, NEW q \in ps, p # q
      PROVE  Before(p, q) \/ Before(q, p)
  <2>1. /\ p = <<p[1], p[2]>> /\ q = <<q[1], q[2]>>
        /\ p[1] \in Nat /\ p[2] \in Nat /\ q[1] \in Nat /\ q[2] \in Nat
    OBVIOUS
  <2> QED
    BY <1>5, <2>1 DEF Before
<1>6. \A p \in ps : PlaceIn(ps, p) = Cardinality(B(p))
  BY DEF PlaceIn
<1> HIDE DEF B
<1> QED
  BY <1>1, <1>2, <1>3, <1>4, <1>5, <1>6

\* A sequence of examples with their phrases.
HasPhrases(d) ==
    \E n \in Nat : /\ DOMAIN d = 1..n
                   /\ \A i \in 1..n : \E m \in Nat : DOMAIN d[i].phrases = 1..m

LEMMA NewPhrasesType ==
    ASSUME NEW d, HasPhrases(d)
    PROVE  /\ NewPhrases(d) \in SUBSET (Nat \X Nat) /\ IsFiniteSet(NewPhrases(d))
           /\ \A p \in NewPhrases(d) : p[1] \in DOMAIN d /\ p[2] \in DOMAIN d[p[1]].phrases
<1>1. PICK n \in Nat : /\ DOMAIN d = 1..n
                       /\ \A i \in 1..n : \E m \in Nat : DOMAIN d[i].phrases = 1..m
  BY DEF HasPhrases
<1> DEFINE P(i) == {i} \X DOMAIN d[i].phrases
           Ps == {P(i) : i \in 1..n}
<1>2. IsFiniteSet(Ps)
  <2>1. IsFiniteSet(1..n)
    BY FS_Interval
  <2>2. [i \in 1..n |-> P(i)] \in Surjection(1..n, Ps)
    BY DEF Surjection
  <2> QED
    BY <2>1, <2>2, FS_Surjection
<1>3. \A x \in Ps : IsFiniteSet(x)
  <2> SUFFICES ASSUME NEW i \in 1..n PROVE IsFiniteSet(P(i))
    OBVIOUS
  <2>1. PICK m \in Nat : DOMAIN d[i].phrases = 1..m
    BY <1>1
  <2>2. IsFiniteSet(1..m)
    BY FS_Interval
  <2>3. IsFiniteSet({i})
    BY FS_Singleton
  <2> QED
    BY <2>1, <2>2, <2>3, FS_Product
<1>4. PhrasesOf(d) = UNION Ps
  BY <1>1 DEF PhrasesOf
<1>5. IsFiniteSet(PhrasesOf(d))
  BY <1>2, <1>3, <1>4, FS_UNION
<1>6. \A p \in PhrasesOf(d) : p[1] \in DOMAIN d /\ p[2] \in DOMAIN d[p[1]].phrases /\ p = <<p[1], p[2]>>
  BY DEF PhrasesOf
<1>7. \A p \in PhrasesOf(d) : p \in Nat \X Nat
  <2> SUFFICES ASSUME NEW p \in PhrasesOf(d) PROVE p \in Nat \X Nat
    OBVIOUS
  <2>1. p[1] \in 1..n
    BY <1>1, <1>6
  <2>2. PICK m \in Nat : DOMAIN d[p[1]].phrases = 1..m
    BY <1>1, <2>1
  <2> QED
    BY <1>6, <2>1, <2>2
<1>8. NewPhrases(d) \in SUBSET PhrasesOf(d)
  BY DEF NewPhrases
<1> QED
  BY <1>5, <1>6, <1>7, <1>8, FS_Subset

\* There are finitely many rows.
LEMMA RowsAreFinite ==
    ASSUME CommandsTypeOK
    PROVE  IsFiniteSet(utterances)
<1>1. IsFiniteSet(1..nextId - 1)
  BY FS_Interval DEF CommandsTypeOK
<1> DEFINE f == [r \in utterances |-> r.id]
<1>2. f \in [utterances -> 1..nextId - 1] /\ \A r, s \in utterances : f[r] = f[s] => r = s
  BY DEF CommandsTypeOK
<1>3. f \in Injection(utterances, 1..nextId - 1)
  BY <1>2 DEF Injection, IsInjective
<1> QED
  BY <1>1, <1>3, FS_Injection

\* The form of the device is a dataset.
LEMMA FormHasPhrases ==
    ASSUME CommandsTypeOK
    PROVE  HasPhrases(Coalesced(Base))
<1>1. IsFiniteSet(utterances)
  BY RowsAreFinite
<1>2. ASSUME NEW S \in SUBSET utterances
      PROVE  Cardinality(S) \in Nat /\ DOMAIN ById(S) = 1..Cardinality(S)
  BY <1>1, FS_Subset, FS_CardinalityType DEF ById
<1> DEFINE F == {r \in Base : \A s \in Base : s.code = r.code => r.id <= s.id}
           Of(c) == {r \in Base : r.code = c}
<1>3. F \in SUBSET utterances /\ \A c : Of(c) \in SUBSET utterances
  BY DEF Base
<1>4. DOMAIN Coalesced(Base) = DOMAIN ById(F)
  BY SMTT(60) DEF Coalesced
<1>5. ASSUME NEW i \in DOMAIN ById(F)
      PROVE  DOMAIN Coalesced(Base)[i].phrases = DOMAIN ById(Of(ById(F)[i].code))
  BY <1>5, ZenonT(120) DEF Coalesced
<1> HIDE DEF F, Of
<1> QED
  BY <1>2, <1>3, <1>4, <1>5 DEF HasPhrases

\* What a row is, alone.
IsRecord(r) ==
    r = [id |-> r.id, name |-> r.name, code |-> r.code, phrase |-> r.phrase,
         synthetic |-> r.synthetic, likes |-> r.likes]

(* What may take the place of the rows: some of them, reworded, and new ones,  *)
(* which nobody likes, before the given id.                                    *)
Replaces(held, next) ==
    /\ \A r \in held :
          /\ IsRecord(r)
          /\ \/ \E s \in utterances : s.id = r.id /\ s.likes = r.likes
             \/ r.id \in nextId..next - 1 /\ r.likes = 0
    /\ \A r, s \in held : r.id = s.id => r = s

\* An upload replaces the rows by others.
LEMMA EnsuredReplaces ==
    ASSUME CommandsTypeOK, RowsAreRecords, NEW d, HasPhrases(d), ValidDataset(d)
    PROVE  LET next == nextId + Len(Canonical) + Cardinality(NewPhrases(d))
           IN  next \in Nat /\ nextId <= next /\ Replaces(Ensured(d), next)
<1> DEFINE new == NewPhrases(d)
           c == Len(Canonical)
           next == nextId + c + Cardinality(new)
           stay == UNION {{[r EXCEPT !.phrase = d[i].phrases[1]] : r \in Stays(d[i])} : i \in DOMAIN d}
           forms == {PhraseRow(Canonical[n], 1, TRUE, nextId + n - 1) : n \in 1..c}
           made == {PhraseRow(d[p[1]], p[2], FALSE, nextId + c + PlaceIn(new, p)) : p \in new}
<1>1. c \in Nat /\ nextId \in Nat
  BY CommandsAssumption DEF CommandsTypeOK
<1>2. new \in SUBSET (Nat \X Nat) /\ IsFiniteSet(new)
  BY NewPhrasesType
<1>3. /\ Cardinality(new) \in Nat
      /\ \A p \in new : PlaceIn(new, p) \in 0..Cardinality(new) - 1
      /\ \A p, q \in new : PlaceIn(new, p) = PlaceIn(new, q) => p = q
  <2> HIDE DEF new
  <2> QED
    BY <1>2, PlacesDiffer
<1>4. Ensured(d) = stay \cup forms \cup made
  BY DEF Ensured
<1>5. ASSUME NEW r \in stay
      PROVE  \E i \in DOMAIN d : \E s \in utterances :
                /\ s.name # NoName /\ s.name = d[i].name
                /\ r = [id |-> s.id, name |-> s.name, code |-> s.code, phrase |-> d[i].phrases[1],
                        synthetic |-> s.synthetic, likes |-> s.likes]
  <2>1. PICK i \in DOMAIN d : \E s \in Stays(d[i]) : r = [s EXCEPT !.phrase = d[i].phrases[1]]
    BY <1>5
  <2>2. PICK s \in Stays(d[i]) : r = [s EXCEPT !.phrase = d[i].phrases[1]]
    BY <2>1
  <2>3. s \in utterances /\ s.name # NoName /\ s.name = d[i].name
    BY DEF Stays, Base
  <2>4. s = [id |-> s.id, name |-> s.name, code |-> s.code, phrase |-> s.phrase,
             synthetic |-> s.synthetic, likes |-> s.likes]
    BY <2>3 DEF RowsAreRecords
  <2>5. r = [id |-> s.id, name |-> s.name, code |-> s.code, phrase |-> d[i].phrases[1],
             synthetic |-> s.synthetic, likes |-> s.likes]
    BY <2>2, <2>4
  <2> QED
    BY <2>3, <2>5
<1>6. ASSUME NEW r \in forms
      PROVE  \E n \in 1..c : r = PhraseRow(Canonical[n], 1, TRUE, nextId + n - 1)
  BY <1>6
<1>7. ASSUME NEW r \in made
      PROVE  \E p \in new : r = PhraseRow(d[p[1]], p[2], FALSE, nextId + c + PlaceIn(new, p))
  BY <1>7
<1> HIDE DEF new, stay, forms, made, next, c
<1>8. next \in Nat /\ nextId <= next
  BY <1>1, <1>3 DEF next
<1>9. \A r \in stay : IsRecord(r) /\ \E s \in utterances : s.id = r.id /\ s.likes = r.likes
  <2> SUFFICES ASSUME NEW r \in stay
               PROVE  IsRecord(r) /\ \E s \in utterances : s.id = r.id /\ s.likes = r.likes
    OBVIOUS
  <2>1. PICK i \in DOMAIN d, s \in utterances :
                r = [id |-> s.id, name |-> s.name, code |-> s.code, phrase |-> d[i].phrases[1],
                     synthetic |-> s.synthetic, likes |-> s.likes]
    BY <1>5
  <2> QED
    BY <2>1 DEF IsRecord
<1>10. \A r \in forms : /\ IsRecord(r) /\ r.likes = 0 /\ r.id \in nextId..nextId + c - 1
                        /\ r.id \in nextId..next - 1
  <2> SUFFICES ASSUME NEW r \in forms
               PROVE  /\ IsRecord(r) /\ r.likes = 0 /\ r.id \in nextId..nextId + c - 1
                      /\ r.id \in nextId..next - 1
    OBVIOUS
  <2>1. PICK n \in 1..c : r = PhraseRow(Canonical[n], 1, TRUE, nextId + n - 1)
    BY <1>6
  <2>2. IsRecord(r) /\ r.likes = 0 /\ r.id = nextId + n - 1
    BY <2>1 DEF PhraseRow, IsRecord
  <2> QED
    BY <1>1, <1>3, <2>2 DEF next
<1>11. \A r \in made : /\ IsRecord(r) /\ r.likes = 0 /\ r.id \in nextId + c..next - 1
                       /\ r.id \in nextId..next - 1
  <2> SUFFICES ASSUME NEW r \in made
               PROVE  /\ IsRecord(r) /\ r.likes = 0 /\ r.id \in nextId + c..next - 1
                      /\ r.id \in nextId..next - 1
    OBVIOUS
  <2>1. PICK p \in new : r = PhraseRow(d[p[1]], p[2], FALSE, nextId + c + PlaceIn(new, p))
    BY <1>7
  <2>2. IsRecord(r) /\ r.likes = 0 /\ r.id = nextId + c + PlaceIn(new, p)
    BY <2>1 DEF PhraseRow, IsRecord
  <2> QED
    BY <1>1, <1>3, <2>2 DEF next
<1>12. \A r, s \in stay : r.id = s.id => r = s
  <2> SUFFICES ASSUME NEW r \in stay, NEW s \in stay, r.id = s.id
               PROVE  r = s
    OBVIOUS
  <2>1. PICK i \in DOMAIN d, x \in utterances :
            /\ x.name # NoName /\ x.name = d[i].name
            /\ r = [id |-> x.id, name |-> x.name, code |-> x.code, phrase |-> d[i].phrases[1],
                    synthetic |-> x.synthetic, likes |-> x.likes]
    BY <1>5
  <2>2. PICK j \in DOMAIN d, y \in utterances :
            /\ y.name # NoName /\ y.name = d[j].name
            /\ s = [id |-> y.id, name |-> y.name, code |-> y.code, phrase |-> d[j].phrases[1],
                    synthetic |-> y.synthetic, likes |-> y.likes]
    BY <1>5
  <2>3. r.id = x.id /\ s.id = y.id
    BY <2>1, <2>2
  <2>4. x = y
    BY <2>3 DEF CommandsTypeOK
  <2>5. i = j
    BY <2>1, <2>2, <2>4 DEF ValidDataset
  <2> QED
    BY <2>1, <2>2, <2>4, <2>5
<1>13. \A r, s \in forms : r.id = s.id => r = s
  <2> SUFFICES ASSUME NEW r \in forms, NEW s \in forms, r.id = s.id PROVE r = s
    OBVIOUS
  <2>1. PICK n \in 1..c : r = PhraseRow(Canonical[n], 1, TRUE, nextId + n - 1)
    BY <1>6
  <2>2. PICK m \in 1..c : s = PhraseRow(Canonical[m], 1, TRUE, nextId + m - 1)
    BY <1>6
  <2>3. nextId + n - 1 = nextId + m - 1
    BY <2>1, <2>2 DEF PhraseRow
  <2>4. n = m
    BY <1>1, <2>3
  <2> QED
    BY <2>1, <2>2, <2>4
<1>14. \A r, s \in made : r.id = s.id => r = s
  <2> SUFFICES ASSUME NEW r \in made, NEW s \in made, r.id = s.id PROVE r = s
    OBVIOUS
  <2>1. PICK p \in new : r = PhraseRow(d[p[1]], p[2], FALSE, nextId + c + PlaceIn(new, p))
    BY <1>7
  <2>2. PICK q \in new : s = PhraseRow(d[q[1]], q[2], FALSE, nextId + c + PlaceIn(new, q))
    BY <1>7
  <2>3. nextId + c + PlaceIn(new, p) = nextId + c + PlaceIn(new, q)
    BY <2>1, <2>2 DEF PhraseRow
  <2>4. p = q
    BY <1>1, <1>3, <2>3
  <2> QED
    BY <2>1, <2>2, <2>4
<1>15. \A r \in stay : r.id \in 1..nextId - 1
  BY <1>9 DEF CommandsTypeOK
<1>16. \A r, s \in Ensured(d) : r.id = s.id => r = s
  BY <1>1, <1>4, <1>8, <1>10, <1>11, <1>12, <1>13, <1>14, <1>15
<1>17. Replaces(Ensured(d), next)
  BY <1>4, <1>9, <1>10, <1>11, <1>16 DEF Replaces
<1> QED
  BY <1>8, <1>17 DEF next, new, c

\* What does not touch a heart, its like and its requests leaves it as it follows.
LEMMA HeartIsLeft ==
    ASSUME NEW id, HeartFollows(id), page'[id] = page[id],
           ReaderLikes(id)' <=> ReaderLikes(id),
           OfReader(id)' = OfReader(id),
           \A q \in OfReader(id) : underWay'[q] = underWay[q]
    PROVE  HeartFollows(id)'
BY DEF HeartFollows, Follows, Took

LEMMA ReplacedKeepsInv ==
    ASSUME CommandsInv, NEW held, NEW next \in Nat, nextId <= next, Replaces(held, next),
           RowsReplaced(held), nextId' = next, DatasetsAreThose',
           UNCHANGED <<accounts, underWay, page, crossed, hastyClicks>>
    PROVE  CommandsInv'
<1> USE DEF CommandsInv
<1>1. nextId \in Nat \ {0} /\ \A r \in utterances : r.id \in 1..nextId - 1 /\ r.likes \in Int
  BY DEF CommandsTypeOK
<1>2. utterances' = held /\ liked' \in SUBSET liked
      /\ \A l \in liked : l \in liked' <=> \E r \in held : r.id = l[2]
  BY DEF RowsReplaced
<1>3. \A l \in liked : /\ l = <<l[1], l[2]>> /\ l[1] \in accounts
                       /\ \E s \in utterances : s.id = l[2]
  BY DEF CommandsTypeOK
<1>4. \A r \in held : r.id \in 1..next - 1 /\ r.likes \in Int
  BY <1>1 DEF Replaces
<1>5. CommandsTypeOK'
  <2>1. liked' \subseteq accounts \X {r.id : r \in held}
    BY <1>2, <1>3
  <2>2. \A r, s \in held : r.id = s.id => r = s
    BY DEF Replaces
  <2>3. DOMAIN page \subseteq 1..next - 1
    BY <1>1 DEF CommandsTypeOK
  <2> QED
    BY <1>1, <1>2, <1>4, <2>1, <2>2, <2>3 DEF CommandsTypeOK
<1>6. RowsAreRecords'
  BY <1>2 DEF RowsAreRecords, Replaces, IsRecord
<1>7. Busy' = Busy /\ \A q : Asked(q)' <=> Asked(q)
  BY DEF Busy, Asked
<1>8. AllFinite'
  BY <1>2, <1>7, FS_Subset DEF AllFinite
<1>9. RequestsAreAboutRows'
  BY <1>1, <1>7 DEF RequestsAreAboutRows
<1>10. CountsAreRight'
  <2> SUFFICES ASSUME NEW r \in held, r.id \notin crossed
               PROVE  r.likes = Cardinality(LikesOf(r.id)') - Cardinality(HalfDone(r.id)')
    BY <1>2 DEF CountsAreRight
  <2>1. HalfDone(r.id)' = HalfDone(r.id)
    BY DEF HalfDone
  <2>2. CASE \E s \in utterances : s.id = r.id /\ s.likes = r.likes
    <3>1. LikesOf(r.id)' = LikesOf(r.id)
      BY <1>2 DEF LikesOf
    <3> QED
      BY <2>1, <2>2, <3>1 DEF CountsAreRight
  <2>3. CASE r.id \in nextId..next - 1 /\ r.likes = 0
    <3>1. LikesOf(r.id)' = {}
      BY <1>1, <1>2, <1>3, <2>3 DEF LikesOf
    <3>2. HalfDone(r.id) = {}
      BY <1>1, <2>3 DEF HalfDone, RequestsAreAboutRows, Asked
    <3> QED
      BY <2>1, <2>3, <3>1, <3>2, FS_EmptySet
  <2> QED
    BY <2>2, <2>3 DEF Replaces
<1>11. HeartsFollow'
  <2> SUFFICES ASSUME NEW id \in DOMAIN page \ hastyClicks, Reader \in accounts, IsThere(id)'
               PROVE  HeartFollows(id)'
    BY DEF HeartsFollow
  <2>1. id < nextId
    BY <1>1 DEF CommandsTypeOK
  <2>2. PICK r \in held : r.id = id
    BY <1>2 DEF IsThere
  <2>3. \E s \in utterances : s.id = id
    BY <1>1, <2>1, <2>2 DEF Replaces
  <2>4. HeartFollows(id)
    BY <2>3 DEF HeartsFollow, IsThere
  <2>5. ReaderLikes(id)' <=> ReaderLikes(id)
    BY <1>2, <2>2 DEF ReaderLikes
  <2>6. OfReader(id)' = OfReader(id)
    BY <1>7 DEF OfReader
  <2> QED
    BY <2>4, <2>5, <2>6, HeartIsLeft
<1> QED
  BY <1>5, <1>6, <1>8, <1>9, <1>10, <1>11

LEMMA UploadKeepsInv ==
    ASSUME CommandsInv, NEW d, HasPhrases(d), UploadDataset(d)
    PROVE  CommandsInv'
<1> DEFINE next == nextId + Len(Canonical) + Cardinality(NewPhrases(d))
<1>1. next \in Nat /\ nextId <= next /\ Replaces(Ensured(d), next)
  BY EnsuredReplaces DEF UploadDataset, CommandsInv
<1>2. DatasetsAreThose'
  BY SMTT(60) DEF UploadDataset, CommandsInv, DatasetsAreThose
<1>3. /\ RowsReplaced(Ensured(d)) /\ nextId' = next
      /\ UNCHANGED <<accounts, underWay, page, crossed, hastyClicks>>
  BY DEF UploadDataset
<1> QED
  BY <1>1, <1>2, <1>3, ReplacedKeepsInv

LEMMA DeleteByIdKeepsInv ==
    ASSUME CommandsInv, NEW id, DeleteById(id)
    PROVE  CommandsInv'
<1> DEFINE held == {r \in utterances : r.id # id}
<1>1. Replaces(held, nextId) /\ nextId \in Nat
  BY DEF CommandsInv, CommandsTypeOK, RowsAreRecords, Replaces, IsRecord
<1>2. DatasetsAreThose'
  BY DEF DeleteById, CommandsInv, DatasetsAreThose
<1>3. /\ RowsReplaced(held) /\ nextId' = nextId
      /\ UNCHANGED <<accounts, underWay, page, crossed, hastyClicks>>
  BY DEF DeleteById
<1> QED
  BY <1>1, <1>2, <1>3, ReplacedKeepsInv

\* A request is begun; what it does to the heart remains to be shown.
LEMMA BeginKeepsInv ==
    ASSUME CommandsInv, NEW q \in LikeRequests, NEW user \in Likers, NEW id \in 1..nextId - 1,
           NEW liking \in BOOLEAN, NEW shown \in Int, BeginRequest(q, user, id, liking, shown),
           user = Reader => id \in DOMAIN page, HeartsFollow'
    PROVE  CommandsInv'
<1> USE DEF CommandsInv
<1> DEFINE n == [user |-> user, id |-> id, up |-> liking, current |-> shown, stage |-> "asked", ok |-> FALSE]
<1>1. /\ ~Asked(q) /\ underWay' = [underWay EXCEPT ![q] = n]
      /\ UNCHANGED <<utterances, liked, accounts, page, nextId, crossed>>
  BY DEF BeginRequest, Asked
<1>2. n \in LikeRequest /\ n # NoRequest
  <2>1. id \in Nat
    BY DEF CommandsTypeOK
  <2>2. n \in LikeRequest
    BY <2>1 DEF LikeRequest
  <2> HIDE DEF n
  <2> QED
    BY <2>2, CommandsAssumption
<1>3. /\ underWay' \in [LikeRequests -> LikeRequest \cup {NoRequest}]
      /\ underWay'[q] = n /\ \A p \in LikeRequests : p # q => underWay'[p] = underWay[p]
  BY <1>1, <1>2 DEF CommandsTypeOK
<1>4. CommandsTypeOK'
  BY <1>1, <1>3 DEF CommandsTypeOK
<1>5. RowsAreRecords'
  BY <1>1 DEF RowsAreRecords
<1>6. Busy' = Busy \cup {q}
  BY <1>1, <1>2, <1>3 DEF Busy, Asked
<1>7. AllFinite'
  BY <1>1, <1>6, FS_AddElement DEF AllFinite
<1>8. RequestsAreAboutRows'
  <2> SUFFICES ASSUME NEW p \in LikeRequests, Asked(p)'
               PROVE  /\ underWay'[p].id \in 1..nextId - 1
                      /\ underWay'[p].user = Reader => underWay'[p].id \in DOMAIN page
                      /\ underWay'[p].up /\ underWay'[p].stage = "half" => underWay'[p].ok
    BY <1>1 DEF RequestsAreAboutRows
  <2>1. CASE p = q
    BY <1>3, <2>1
  <2>2. CASE p # q
    BY <1>3, <2>2 DEF RequestsAreAboutRows, Asked
  <2> QED
    BY <2>1, <2>2
<1>9. CountsAreRight'
  <2>1. ASSUME NEW r PROVE HalfDone(r)' = HalfDone(r) /\ LikesOf(r)' = LikesOf(r)
    BY <1>1, <1>2, <1>3 DEF HalfDone, LikesOf, Asked
  <2> QED
    BY <1>1, <2>1 DEF CountsAreRight
<1>10. DatasetsAreThose'
  BY DEF BeginRequest, DatasetsAreThose
<1> QED
  BY <1>4, <1>5, <1>7, <1>8, <1>9, <1>10

\* The hearts of commands that a new request is not about.
LEMMA BegunLeavesOthers ==
    ASSUME CommandsInv, NEW q \in LikeRequests, NEW user, NEW id, NEW liking, NEW shown,
           BeginRequest(q, user, id, liking, shown),
           NEW other \in DOMAIN page \ hastyClicks, Reader \in accounts, IsThere(other),
           user # Reader \/ other # id
    PROVE  HeartFollows(other)'
<1> USE DEF CommandsInv
<1>1. /\ ~Asked(q) /\ \A p \in LikeRequests : p # q => underWay'[p] = underWay[p]
      /\ UNCHANGED <<liked, page>>
      /\ underWay'[q].user = user /\ underWay'[q].id = id
  BY DEF BeginRequest, Asked, CommandsTypeOK
<1>2. OfReader(other)' = OfReader(other)
  BY <1>1 DEF OfReader, Asked
<1>3. HeartFollows(other)
  BY DEF HeartsFollow
<1>4. ReaderLikes(other)' <=> ReaderLikes(other)
  BY <1>1 DEF ReaderLikes
<1>5. \A p \in OfReader(other) : underWay'[p] = underWay[p]
  BY <1>1 DEF OfReader
<1> QED
  BY <1>1, <1>2, <1>3, <1>4, <1>5, HeartIsLeft

LEMMA ElsewhereKeepsInv ==
    ASSUME CommandsInv, NEW q \in LikeRequests, NEW user \in Likers, NEW r \in utterances,
           NEW liking \in BOOLEAN, Elsewhere(q, user, r.id, liking)
    PROVE  CommandsInv'
<1>1. /\ BeginRequest(q, user, r.id, liking, 0) /\ hastyClicks' = hastyClicks /\ user # Reader
      /\ UNCHANGED <<page, accounts, utterances>>
  BY DEF Elsewhere, BeginRequest
<1>2. r.id \in 1..nextId - 1
  BY DEF CommandsInv, CommandsTypeOK
<1>3. HeartsFollow'
  <2> SUFFICES ASSUME NEW id \in DOMAIN page \ hastyClicks, Reader \in accounts, IsThere(id)
               PROVE  HeartFollows(id)'
    BY <1>1 DEF HeartsFollow, IsThere
  <2> QED
    BY <1>1, BegunLeavesOthers
<1> QED
  BY <1>1, <1>2, <1>3, BeginKeepsInv

\* A click asks for the opposite of what the heart shows.
LEMMA ClickKeepsInv ==
    ASSUME CommandsInv, NEW q \in LikeRequests, NEW id \in DOMAIN page, ClickHeart(q, id)
    PROVE  CommandsInv'
<1>1. /\ BeginRequest(q, Reader, id, ~page[id].heart, page[id].count)
      /\ UNCHANGED <<page, accounts, utterances, liked>>
      /\ hastyClicks \subseteq hastyClicks' /\ (id \notin hastyClicks' => ~Pending(Reader, id, page[id].heart))
  BY DEF ClickHeart, BeginRequest
<1>2. id \in 1..nextId - 1 /\ page[id] \in Heart /\ Reader \in Likers
  <2>1. page[id] \in Heart /\ id \in 1..nextId - 1
    BY DEF CommandsInv, CommandsTypeOK
  <2> QED
    BY <2>1, CommandsAssumption
<1>3. (~page[id].heart) \in BOOLEAN /\ page[id].heart \in BOOLEAN /\ page[id].count \in Int
  BY <1>2 DEF Heart
<1>4. HeartsFollow'
  <2> SUFFICES ASSUME NEW other \in DOMAIN page \ hastyClicks', Reader \in accounts, IsThere(other)
               PROVE  HeartFollows(other)'
    BY <1>1 DEF HeartsFollow, IsThere
  <2>1. CASE other # id
    BY <1>1, <2>1, BegunLeavesOthers
  <2>2. CASE other = id
    <3>1. HeartFollows(id) /\ ~Pending(Reader, id, page[id].heart)
      BY <1>1, <2>2 DEF HeartsFollow, CommandsInv
    <3> DEFINE n == [user |-> Reader, id |-> id, up |-> ~page[id].heart, current |-> page[id].count,
                     stage |-> "asked", ok |-> FALSE]
    <3>2. ~Asked(q) /\ underWay' = [underWay EXCEPT ![q] = n]
      BY <1>1 DEF BeginRequest, Asked
    <3>3. n \in LikeRequest /\ n # NoRequest
      <4>1. id \in Nat
        BY <1>2 DEF CommandsInv, CommandsTypeOK
      <4>2. n \in LikeRequest
        BY <1>2, <1>3, <4>1 DEF LikeRequest
      <4> HIDE DEF n
      <4> QED
        BY <4>2, CommandsAssumption
    <3>4. underWay'[q] = n /\ \A p \in LikeRequests : p # q => underWay'[p] = underWay[p]
      BY <3>2 DEF CommandsInv, CommandsTypeOK
    <3>5. n.user = Reader /\ n.id = id /\ n.stage = "asked" /\ ~n.ok /\ (n.up <=> ~page[id].heart)
      OBVIOUS
    <3> HIDE DEF n
    <3>6. OfReader(id)' = OfReader(id) \cup {q} /\ q \notin OfReader(id)
      BY <3>2, <3>3, <3>4, <3>5 DEF OfReader, Asked
    <3>7. \A p \in OfReader(id) : /\ underWay'[p] = underWay[p]
                                  /\ underWay[p].up <=> ~page[id].heart
      <4>1. \A p \in OfReader(id) : underWay[p].up \in BOOLEAN
        BY DEF OfReader, CommandsInv, CommandsTypeOK, LikeRequest, Asked
      <4>2. \A p \in OfReader(id) : underWay[p].up # page[id].heart
        BY <3>1 DEF OfReader, Pending, Asked
      <4> QED
        BY <1>3, <3>4, <3>6, <4>1, <4>2 DEF OfReader
    <3>8. ReaderLikes(id)' <=> ReaderLikes(id)
      BY <1>1 DEF ReaderLikes
    <3>9. \A p \in OfReader(id)' : Follows(id, p)'
      BY <1>1, <3>1, <3>4, <3>5, <3>6, <3>7, <3>8 DEF HeartFollows, Follows, Took
    <3> QED
      BY <2>2, <3>4, <3>5, <3>6, <3>7, <3>9 DEF HeartFollows
  <2> QED
    BY <2>1, <2>2
<1> QED
  BY <1>1, <1>2, <1>3, <1>4, BeginKeepsInv

\* A request goes on: it stays the same otherwise, and so do the others.
LEMMA GoesOnFacts ==
    ASSUME CommandsInv, NEW q \in LikeRequests, Asked(q), NEW stage \in {"asked", "half", "done"},
           NEW ok \in BOOLEAN, GoesOn(q, stage, ok)
    PROVE  /\ underWay' \in [LikeRequests -> LikeRequest \cup {NoRequest}]
           /\ underWay'[q] = [underWay[q] EXCEPT !.stage = stage, !.ok = ok]
           /\ underWay'[q].user = underWay[q].user /\ underWay'[q].id = underWay[q].id
           /\ underWay'[q].up = underWay[q].up /\ underWay'[q].stage = stage /\ underWay'[q].ok = ok
           /\ \A p \in LikeRequests : p # q => underWay'[p] = underWay[p]
           /\ \A p \in LikeRequests : Asked(p)' <=> Asked(p)
           /\ \A id : /\ OfReader(id)' = OfReader(id)
                     /\ id # underWay[q].id => HalfDone(id)' = HalfDone(id)
           /\ HalfDone(underWay[q].id)' = IF stage = "half" /\ ok THEN HalfDone(underWay[q].id) \cup {q}
                                          ELSE HalfDone(underWay[q].id) \ {q}
<1> DEFINE n == [underWay[q] EXCEPT !.stage = stage, !.ok = ok]
<1>1. underWay \in [LikeRequests -> LikeRequest \cup {NoRequest}] /\ underWay[q] \in LikeRequest
  BY DEF CommandsInv, CommandsTypeOK, Asked
<1>2. /\ n \in LikeRequest /\ n.user = underWay[q].user /\ n.id = underWay[q].id
      /\ n.up = underWay[q].up /\ n.stage = stage /\ n.ok = ok
  <2> DEFINE m == [underWay[q] EXCEPT !.stage = stage]
  <2>1. /\ m \in LikeRequest /\ m.user = underWay[q].user /\ m.id = underWay[q].id
        /\ m.up = underWay[q].up /\ m.stage = stage
    BY <1>1 DEF LikeRequest
  <2>2. n = [m EXCEPT !.ok = ok]
    BY <1>1
  <2> HIDE DEF m, n
  <2> QED
    BY <2>1, <2>2 DEF LikeRequest
<1>3. n # NoRequest
  <2> HIDE DEF n
  <2> QED
    BY <1>2, CommandsAssumption
<1>4. underWay' = [underWay EXCEPT ![q] = n]
  BY <1>1 DEF GoesOn
<1> HIDE DEF n
<1>5. /\ underWay'[q] = n /\ \A p \in LikeRequests : p # q => underWay'[p] = underWay[p]
      /\ underWay' \in [LikeRequests -> LikeRequest \cup {NoRequest}]
  BY <1>1, <1>2, <1>4
<1>6. \A p \in LikeRequests : Asked(p)' <=> Asked(p)
  BY <1>3, <1>5 DEF Asked
<1>7. ASSUME NEW id
      PROVE  /\ OfReader(id)' = OfReader(id)
             /\ id # underWay[q].id => HalfDone(id)' = HalfDone(id)
  <2>1. OfReader(id)' = OfReader(id)
    BY <1>2, <1>5, <1>6 DEF OfReader
  <2>2. id # underWay[q].id => HalfDone(id)' = HalfDone(id)
    BY <1>2, <1>5, <1>6 DEF HalfDone, Asked
  <2> QED
    BY <2>1, <2>2
<1>8. HalfDone(underWay[q].id)' = IF stage = "half" /\ ok THEN HalfDone(underWay[q].id) \cup {q}
                                 ELSE HalfDone(underWay[q].id) \ {q}
  <2>1. n.id = underWay[q].id
    BY <1>2
  <2>2. \A p \in LikeRequests : p # q => (p \in HalfDone(underWay[q].id)' <=> p \in HalfDone(underWay[q].id))
    BY <1>5, <1>6, <2>1 DEF HalfDone, Asked
  <2>3. q \in HalfDone(underWay[q].id)' <=> stage = "half" /\ ok
    BY <1>2, <1>3, <1>5 DEF HalfDone
  <2>4. HalfDone(underWay[q].id) \subseteq LikeRequests /\ HalfDone(underWay[q].id)' \subseteq LikeRequests
    BY DEF HalfDone
  <2> QED
    BY <2>2, <2>3, <2>4
<1>9. n = [underWay[q] EXCEPT !.stage = stage, !.ok = ok]
  BY DEF n
<1> QED
  BY <1>2, <1>5, <1>6, <1>7, <1>8, <1>9

LEMMA LikesAreFinite ==
    ASSUME CommandsInv, NEW id
    PROVE  /\ IsFiniteSet(LikesOf(id)) /\ Cardinality(LikesOf(id)) \in Nat
           /\ IsFiniteSet(HalfDone(id)) /\ Cardinality(HalfDone(id)) \in Nat
<1>1. LikesOf(id) \in SUBSET liked /\ HalfDone(id) \in SUBSET Busy
  BY DEF LikesOf, HalfDone, Busy, Asked
<1> QED
  BY <1>1, FS_Subset, FS_CardinalityType DEF CommandsInv, AllFinite

\* Some rows are counted up or down.
CountedBy(ids, n) == {IF r.id \in ids THEN [r EXCEPT !.likes = @ + n] ELSE r : r \in utterances}

LEMMA CountedRows ==
    ASSUME CommandsTypeOK, RowsAreRecords, NEW ids, NEW n \in Int
    PROVE  /\ \A r \in CountedBy(ids, n) : \E s \in utterances :
                 /\ r.id = s.id /\ IsRecord(r)
                 /\ r.likes = s.likes + (IF s.id \in ids THEN n ELSE 0)
           /\ \A r, s \in CountedBy(ids, n) : r.id = s.id => r = s
           /\ \A s \in utterances : \E r \in CountedBy(ids, n) : r.id = s.id
<1> DEFINE F(s) == IF s.id \in ids THEN [s EXCEPT !.likes = s.likes + n] ELSE s
<1>1. CountedBy(ids, n) = {F(s) : s \in utterances}
  BY DEF CountedBy, RowsAreRecords
<1>2. ASSUME NEW s \in utterances
      PROVE  /\ F(s).id = s.id /\ IsRecord(F(s))
             /\ F(s).likes = s.likes + (IF s.id \in ids THEN n ELSE 0)
  <2>1. /\ s.likes \in Int
        /\ s = [id |-> s.id, name |-> s.name, code |-> s.code, phrase |-> s.phrase,
                synthetic |-> s.synthetic, likes |-> s.likes]
    BY DEF CommandsTypeOK, RowsAreRecords
  <2>2. CASE s.id \in ids
    <3>1. F(s) = [id |-> s.id, name |-> s.name, code |-> s.code, phrase |-> s.phrase,
                  synthetic |-> s.synthetic, likes |-> s.likes + n]
      BY <2>1, <2>2
    <3> HIDE DEF F
    <3> QED
      BY <2>2, <3>1 DEF IsRecord
  <2>3. CASE s.id \notin ids
    BY <2>1, <2>3 DEF IsRecord
  <2> QED
    BY <2>2, <2>3
<1> HIDE DEF F
<1>3. \A r, s \in utterances : r.id = s.id => r = s
  BY DEF CommandsTypeOK
<1> QED
  BY <1>1, <1>2, <1>3

\* A step after which there are the same rows, counted or not.
SameRows ==
    /\ \A r \in utterances' : /\ IsRecord(r) /\ r.likes \in Int
                              /\ \E s \in utterances : r.id = s.id
    /\ \A r, s \in utterances' : r.id = s.id => r = s
    /\ \A s \in utterances : \E r \in utterances' : r.id = s.id

LEMMA UncountedRows ==
    ASSUME CommandsTypeOK, RowsAreRecords, utterances' = utterances
    PROVE  SameRows
BY DEF SameRows, CommandsTypeOK, RowsAreRecords, IsRecord

LEMMA CountedAreSame ==
    ASSUME CommandsTypeOK, RowsAreRecords, NEW ids, NEW n \in Int, utterances' = CountedBy(ids, n)
    PROVE  SameRows
<1>1. \A s \in utterances : s.likes \in Int
  BY DEF CommandsTypeOK
<1> QED
  BY <1>1, CountedRows DEF SameRows

Ids == {r.id : r \in utterances}

(* A step between two statements of a request keeps the invariant, if the      *)
(* counts are right after it and the hearts follow.                            *)
LEMMA StepKeepsInv ==
    ASSUME CommandsInv, NEW q \in LikeRequests, Asked(q), NEW stage \in {"asked", "half", "done"},
           NEW ok \in BOOLEAN, GoesOn(q, stage, ok), underWay[q].up /\ stage = "half" => ok,
           SameRows,
           liked' \subseteq accounts \X Ids, IsFiniteSet(liked'),
           UNCHANGED <<accounts, page, nextId, hastyClicks, remaining>>, CountsAreRight', HeartsFollow'
    PROVE  CommandsInv'
<1> USE DEF CommandsInv
<1>1. /\ underWay' \in [LikeRequests -> LikeRequest \cup {NoRequest}]
      /\ underWay'[q].user = underWay[q].user /\ underWay'[q].id = underWay[q].id
      /\ underWay'[q].up = underWay[q].up /\ underWay'[q].stage = stage /\ underWay'[q].ok = ok
      /\ \A x \in LikeRequests : x # q => underWay'[x] = underWay[x]
      /\ \A x \in LikeRequests : Asked(x)' <=> Asked(x)
  BY GoesOnFacts, ZenonT(60)
<1>2. CommandsTypeOK'
  <2>1. \A r \in utterances' : r.id \in 1..nextId - 1 /\ r.likes \in Int
    BY DEF SameRows, CommandsTypeOK
  <2>2. Ids \subseteq {r.id : r \in utterances'}
    BY DEF SameRows, Ids
  <2>3. liked' \subseteq accounts \X {r.id : r \in utterances'}
    BY <2>2
  <2> QED
    BY <1>1, <2>1, <2>3 DEF SameRows, CommandsTypeOK
<1>3. RowsAreRecords'
  BY DEF SameRows, RowsAreRecords, IsRecord
<1>4. Busy' = Busy
  BY <1>1 DEF Busy
<1>5. AllFinite'
  BY <1>4 DEF AllFinite
<1>6. RequestsAreAboutRows'
  BY <1>1 DEF RequestsAreAboutRows
<1>7. DatasetsAreThose'
  BY DEF DatasetsAreThose
<1> QED
  BY <1>2, <1>3, <1>5, <1>6, <1>7, SMTT(60)

\* The hearts of commands that the step is not about.
LEMMA StepLeavesOthers ==
    ASSUME CommandsInv, NEW q \in LikeRequests, Asked(q), NEW stage \in {"asked", "half", "done"},
           NEW ok \in BOOLEAN, GoesOn(q, stage, ok), page' = page,
           NEW id, HeartFollows(id), ReaderLikes(id)' <=> ReaderLikes(id),
           underWay[q].user # Reader \/ underWay[q].id # id
    PROVE  HeartFollows(id)'
<1>1. /\ underWay'[q].user = underWay[q].user /\ underWay'[q].id = underWay[q].id
      /\ \A x \in LikeRequests : x # q => underWay'[x] = underWay[x]
      /\ \A x \in LikeRequests : Asked(x)' <=> Asked(x)
  BY GoesOnFacts, ZenonT(60)
<1>2. OfReader(id)' = OfReader(id)
  BY <1>1 DEF OfReader
<1>3. q \notin OfReader(id) /\ OfReader(id) \subseteq LikeRequests
  BY DEF OfReader
<1> QED
  BY <1>1, <1>2, <1>3, HeartIsLeft, SMTT(60)

\* The half-done requests about a command, after a step of one of them.
LEMMA HalfDoneAfter ==
    ASSUME CommandsInv, NEW q \in LikeRequests, Asked(q), NEW stage \in {"asked", "half", "done"},
           NEW ok \in BOOLEAN, GoesOn(q, stage, ok), NEW id
    PROVE  Cardinality(HalfDone(id)') =
               Cardinality(HalfDone(id)) - (IF q \in HalfDone(id) THEN 1 ELSE 0)
                   + (IF underWay[q].id = id /\ stage = "half" /\ ok THEN 1 ELSE 0)
<1>1. /\ underWay'[q].id = underWay[q].id /\ underWay'[q].stage = stage /\ underWay'[q].ok = ok
      /\ \A x \in LikeRequests : x # q => underWay'[x] = underWay[x]
      /\ \A x \in LikeRequests : Asked(x)' <=> Asked(x)
  BY GoesOnFacts, Zenon
<1>2. /\ q \in HalfDone(id)' <=> underWay[q].id = id /\ stage = "half" /\ ok
      /\ \A x : x # q => (x \in HalfDone(id)' <=> x \in HalfDone(id))
  BY <1>1 DEF HalfDone, Asked
<1> DEFINE rest == HalfDone(id) \ {q}
<1>3. HalfDone(id)' = IF underWay[q].id = id /\ stage = "half" /\ ok THEN rest \cup {q} ELSE rest
  BY <1>2
<1>4. IsFiniteSet(HalfDone(id)) /\ Cardinality(HalfDone(id)) \in Nat
  BY LikesAreFinite
<1>5. /\ IsFiniteSet(rest)
      /\ Cardinality(rest) = IF q \in HalfDone(id) THEN Cardinality(HalfDone(id)) - 1 ELSE Cardinality(HalfDone(id))
  BY <1>4, FS_RemoveElement
<1>6. Cardinality(rest \cup {q}) = Cardinality(rest) + 1
  <2>1. q \notin rest
    OBVIOUS
  <2> HIDE DEF rest
  <2> QED
    BY <1>5, <2>1, FS_AddElement
<1> HIDE DEF rest
<1> QED
  BY <1>3, <1>4, <1>5, <1>6

\* The likes of a command, after one of them was added or withdrawn.
LEMMA LikesOfAfter ==
    ASSUME CommandsInv, NEW user, NEW about, NEW id
    PROVE  /\ liked' = liked \cup {<<user, about>>} /\ <<user, about>> \notin liked =>
                  Cardinality(LikesOf(id)') = Cardinality(LikesOf(id)) + (IF id = about THEN 1 ELSE 0)
           /\ liked' = liked \ {<<user, about>>} /\ <<user, about>> \in liked =>
                  Cardinality(LikesOf(id)') = Cardinality(LikesOf(id)) - (IF id = about THEN 1 ELSE 0)
           /\ liked' = liked => LikesOf(id)' = LikesOf(id)
<1>0. IsFiniteSet(LikesOf(id)) /\ Cardinality(LikesOf(id)) \in Nat
  BY LikesAreFinite
<1>1. ASSUME liked' = liked \cup {<<user, about>>}, <<user, about>> \notin liked
      PROVE  Cardinality(LikesOf(id)') = Cardinality(LikesOf(id)) + (IF id = about THEN 1 ELSE 0)
  <2>1. LikesOf(id)' = IF id = about THEN LikesOf(id) \cup {<<user, about>>} ELSE LikesOf(id)
    BY <1>1 DEF LikesOf
  <2>2. <<user, about>> \notin LikesOf(id)
    BY <1>1 DEF LikesOf
  <2> QED
    BY <1>0, <2>1, <2>2, FS_AddElement, SMTT(60)
<1>2. ASSUME liked' = liked \ {<<user, about>>}, <<user, about>> \in liked
      PROVE  Cardinality(LikesOf(id)') = Cardinality(LikesOf(id)) - (IF id = about THEN 1 ELSE 0)
  <2>1. LikesOf(id)' = IF id = about THEN LikesOf(id) \ {<<user, about>>} ELSE LikesOf(id)
    BY <1>2 DEF LikesOf
  <2>2. id = about => <<user, about>> \in LikesOf(id)
    BY <1>2 DEF LikesOf
  <2> QED
    BY <1>0, <2>1, <2>2, FS_RemoveElement, SMTT(60)
<1>3. liked' = liked => LikesOf(id)' = LikesOf(id)
  BY DEF LikesOf
<1> QED
  BY <1>1, <1>2, <1>3

LEMMA InsertLikeKeepsInv ==
    ASSUME CommandsInv, NEW q \in LikeRequests, InsertLike(q)
    PROVE  CommandsInv'
<1> DEFINE t == underWay[q]
<1>1. /\ Asked(q) /\ t.up /\ t.stage = "asked"
      /\ UNCHANGED <<utterances, accounts, page, nextId, crossed, hastyClicks, remaining>>
      /\ t \in LikeRequest
  BY DEF InsertLike, Asked, CommandsInv, CommandsTypeOK
<1>2. SameRows
  BY <1>1, UncountedRows DEF CommandsInv
<1>3. q \notin HalfDone(t.id) /\ \A i : q \notin HalfDone(i)
  BY <1>1 DEF HalfDone
<1>4. CASE IsNewLike(t)
  <2>1. /\ liked' = liked \cup {<<t.user, t.id>>} /\ <<t.user, t.id>> \notin liked
        /\ GoesOn(q, "half", TRUE) /\ t.user \in accounts /\ IsThere(t.id)
    BY <1>4 DEF InsertLike, IsNewLike
  <2>2. liked' \subseteq accounts \X Ids
    BY <2>1 DEF CommandsInv, CommandsTypeOK, IsThere, Ids
  <2>3. IsFiniteSet(liked')
    BY <2>1, FS_AddElement DEF CommandsInv, AllFinite
  <2>4. CountsAreRight'
    <3> SUFFICES ASSUME NEW r \in utterances, r.id \notin crossed
                 PROVE  r.likes = Cardinality(LikesOf(r.id)') - Cardinality(HalfDone(r.id)')
      BY <1>1 DEF CountsAreRight
    <3>1. Cardinality(HalfDone(r.id)') = Cardinality(HalfDone(r.id)) + (IF t.id = r.id THEN 1 ELSE 0)
      <4>1. Cardinality(HalfDone(r.id)') =
                Cardinality(HalfDone(r.id)) - (IF q \in HalfDone(r.id) THEN 1 ELSE 0)
                    + (IF underWay[q].id = r.id /\ "half" = "half" /\ TRUE THEN 1 ELSE 0)
        BY <1>1, <2>1, HalfDoneAfter, ZenonT(60)
      <4> QED
        BY <1>3, <4>1, LikesAreFinite
    <3>2. Cardinality(LikesOf(r.id)') = Cardinality(LikesOf(r.id)) + (IF r.id = t.id THEN 1 ELSE 0)
      BY <2>1, LikesOfAfter
    <3> QED
      BY <3>1, <3>2, LikesAreFinite DEF CountsAreRight, CommandsInv
  <2>5. HeartsFollow'
    <3> SUFFICES ASSUME NEW id \in DOMAIN page \ hastyClicks, Reader \in accounts, IsThere(id)
                 PROVE  HeartFollows(id)'
      BY <1>1 DEF HeartsFollow, IsThere
    <3>1. HeartFollows(id)
      BY DEF HeartsFollow, CommandsInv
    <3>2. CASE t.user # Reader \/ t.id # id
      <4>1. ReaderLikes(id)' <=> ReaderLikes(id)
        BY <2>1, <3>2 DEF ReaderLikes
      <4> QED
        BY <1>1, <2>1, <3>1, <3>2, <4>1, StepLeavesOthers
    <3>3. CASE t.user = Reader /\ t.id = id
      <4>1. /\ underWay'[q].user = t.user /\ underWay'[q].id = t.id /\ underWay'[q].up = t.up
            /\ underWay'[q].stage = "half" /\ underWay'[q].ok
            /\ \A x \in LikeRequests : x # q => underWay'[x] = underWay[x]
            /\ \A x \in LikeRequests : Asked(x)' <=> Asked(x)
        BY <1>1, <2>1, GoesOnFacts, Zenon
      <4>2. OfReader(id)' = OfReader(id) /\ q \in OfReader(id)
        BY <1>1, <3>3, <4>1 DEF OfReader
      <4>3. \A x \in OfReader(id) : x \in LikeRequests
        BY DEF OfReader
      <4>4. ReaderLikes(id)'
        BY <2>1, <3>3 DEF ReaderLikes
      <4>5. \A x \in OfReader(id) : underWay'[x].up /\ (underWay'[x].up <=> underWay[x].up)
        BY <1>1, <3>1, <4>1, <4>2, <4>3 DEF HeartFollows
      <4>6. Took(q)'
        BY <1>1, <4>1 DEF Took
      <4>7. \A x \in OfReader(id) : Follows(id, x)'
        BY <4>1, <4>2, <4>4, <4>5, <4>6 DEF Follows
      <4> QED
        BY <4>2, <4>5, <4>7 DEF HeartFollows
    <3> QED
      BY <3>2, <3>3
  <2> QED
    BY <1>1, <1>2, <2>1, <2>2, <2>3, <2>4, <2>5, StepKeepsInv
<1>5. CASE ~IsNewLike(t)
  <2>1. liked' = liked /\ GoesOn(q, "done", FALSE)
    BY <1>5 DEF InsertLike
  <2>2. liked' \subseteq accounts \X Ids /\ IsFiniteSet(liked')
    BY <2>1 DEF CommandsInv, CommandsTypeOK, AllFinite, Ids
  <2>3. CountsAreRight'
    <3> SUFFICES ASSUME NEW r \in utterances, r.id \notin crossed
                 PROVE  r.likes = Cardinality(LikesOf(r.id)') - Cardinality(HalfDone(r.id)')
      BY <1>1 DEF CountsAreRight
    <3>1. Cardinality(HalfDone(r.id)') = Cardinality(HalfDone(r.id))
      <4>1. Cardinality(HalfDone(r.id)') =
                Cardinality(HalfDone(r.id)) - (IF q \in HalfDone(r.id) THEN 1 ELSE 0)
                    + (IF underWay[q].id = r.id /\ "done" = "half" /\ FALSE THEN 1 ELSE 0)
        BY <1>1, <2>1, HalfDoneAfter, ZenonT(60)
      <4> QED
        BY <1>3, <4>1, LikesAreFinite
    <3>2. LikesOf(r.id)' = LikesOf(r.id)
      BY <2>1 DEF LikesOf
    <3> QED
      BY <3>1, <3>2 DEF CountsAreRight, CommandsInv
  <2>4. HeartsFollow'
    <3> SUFFICES ASSUME NEW id \in DOMAIN page \ hastyClicks, Reader \in accounts, IsThere(id)
                 PROVE  HeartFollows(id)'
      BY <1>1 DEF HeartsFollow, IsThere
    <3>1. HeartFollows(id)
      BY DEF HeartsFollow, CommandsInv
    <3>2. ReaderLikes(id)' <=> ReaderLikes(id)
      BY <2>1 DEF ReaderLikes
    <3>3. CASE t.user # Reader \/ t.id # id
      BY <1>1, <2>1, <3>1, <3>2, <3>3, StepLeavesOthers
    <3>4. CASE t.user = Reader /\ t.id = id
      <4>1. /\ underWay'[q].user = t.user /\ underWay'[q].id = t.id /\ underWay'[q].up = t.up
            /\ underWay'[q].stage = "done" /\ ~underWay'[q].ok
            /\ \A x \in LikeRequests : x # q => underWay'[x] = underWay[x]
            /\ \A x \in LikeRequests : Asked(x)' <=> Asked(x)
        BY <1>1, <2>1, GoesOnFacts, Zenon
      <4>2. OfReader(id)' = OfReader(id) /\ q \in OfReader(id)
        BY <1>1, <3>4, <4>1 DEF OfReader
      <4>3. \A x \in OfReader(id) : x \in LikeRequests
        BY DEF OfReader
      <4>4. ReaderLikes(id)
        BY <1>5, <3>4 DEF ReaderLikes, IsNewLike
      <4>5. \A x \in OfReader(id) : underWay'[x].up /\ (underWay'[x].up <=> underWay[x].up)
        BY <1>1, <3>1, <4>1, <4>2, <4>3 DEF HeartFollows
      <4>6. ~Took(q) /\ \A x \in OfReader(id) : Took(x) => Took(x)' /\ underWay'[x] = underWay[x]
        BY <1>1, <4>1, <4>3 DEF Took
      <4>7. \A x \in OfReader(id) : Follows(id, x)'
        BY <1>1, <3>1, <3>2, <4>2, <4>4, <4>5, <4>6 DEF Follows, HeartFollows
      <4> QED
        BY <4>2, <4>5, <4>7 DEF HeartFollows
    <3> QED
      BY <3>3, <3>4
  <2> QED
    BY <1>1, <1>2, <2>1, <2>2, <2>3, <2>4, StepKeepsInv
<1> QED
  BY <1>4, <1>5

LEMMA CountLikeKeepsInv ==
    ASSUME CommandsInv, NEW q \in LikeRequests, CountLike(q)
    PROVE  CommandsInv'
<1> DEFINE t == underWay[q]
<1>1. /\ Asked(q) /\ t.up /\ t.stage = "half" /\ t.ok
      /\ UNCHANGED <<liked, accounts, page, nextId, crossed, hastyClicks, remaining>>
      /\ utterances' = Counts(t.id, 1) /\ GoesOn(q, "done", TRUE)
  BY DEF CountLike, Asked, CommandsInv, RequestsAreAboutRows
<1>2. utterances' = CountedBy({t.id}, 1)
  BY <1>1 DEF Counts, CountedBy
<1>3. SameRows
  BY <1>2, CountedAreSame DEF CommandsInv
<1>4. liked' \subseteq accounts \X Ids /\ IsFiniteSet(liked')
  BY <1>1 DEF CommandsInv, CommandsTypeOK, AllFinite, Ids
<1>5. CountsAreRight'
  <2> SUFFICES ASSUME NEW r \in utterances', r.id \notin crossed
               PROVE  r.likes = Cardinality(LikesOf(r.id)') - Cardinality(HalfDone(r.id)')
    BY <1>1 DEF CountsAreRight
  <2>1. PICK s \in utterances : /\ r.id = s.id
                               /\ r.likes = s.likes + (IF s.id \in {t.id} THEN 1 ELSE 0)
    BY <1>2, CountedRows DEF CommandsInv
  <2>2. Cardinality(HalfDone(s.id)') =
            Cardinality(HalfDone(s.id)) - (IF q \in HalfDone(s.id) THEN 1 ELSE 0)
                + (IF underWay[q].id = s.id /\ "done" = "half" /\ TRUE THEN 1 ELSE 0)
    BY <1>1, HalfDoneAfter, ZenonT(60)
  <2>3. q \in HalfDone(s.id) <=> s.id = t.id
    BY <1>1 DEF HalfDone, Asked
  <2>4. LikesOf(s.id)' = LikesOf(s.id)
    BY <1>1 DEF LikesOf
  <2>5. s.likes = Cardinality(LikesOf(s.id)) - Cardinality(HalfDone(s.id))
    BY <2>1 DEF CommandsInv, CountsAreRight
  <2>6. r.likes = Cardinality(LikesOf(s.id)') - Cardinality(HalfDone(s.id)')
    BY <2>1, <2>2, <2>3, <2>4, <2>5, LikesAreFinite
  <2> QED
    BY <2>1, <2>6
<1>6. HeartsFollow'
  <2> SUFFICES ASSUME NEW id \in DOMAIN page \ hastyClicks, Reader \in accounts, IsThere(id)'
               PROVE  HeartFollows(id)'
    BY <1>1 DEF HeartsFollow
  <2>1. HeartFollows(id)
    BY <1>3 DEF HeartsFollow, CommandsInv, IsThere, SameRows
  <2>2. ReaderLikes(id)' <=> ReaderLikes(id)
    BY <1>1, SMTT(60) DEF ReaderLikes
  <2>3. /\ underWay'[q].user = t.user /\ underWay'[q].id = t.id /\ underWay'[q].up = t.up
        /\ underWay'[q].stage = "done" /\ underWay'[q].ok
        /\ \A x \in LikeRequests : x # q => underWay'[x] = underWay[x]
        /\ \A x \in LikeRequests : Asked(x)' <=> Asked(x)
    BY <1>1, GoesOnFacts, Zenon
  <2>4. OfReader(id)' = OfReader(id) /\ \A x \in OfReader(id) : x \in LikeRequests
    BY <2>3 DEF OfReader
  <2>5. \A x \in OfReader(id) : /\ underWay'[x].up = underWay[x].up
                                /\ Took(x)' <=> Took(x)
                                /\ underWay[x].ok => underWay'[x].ok
    BY <1>1, <2>3, <2>4 DEF Took
  <2>6. \A x \in OfReader(id) : Follows(id, x)'
    BY <1>1, <2>1, <2>2, <2>4, <2>5 DEF Follows, HeartFollows
  <2> QED
    BY <1>1, <2>1, <2>2, <2>4, <2>5, <2>6 DEF HeartFollows
<1> QED
  BY <1>1, <1>3, <1>4, <1>5, <1>6, StepKeepsInv

LEMMA CountUnlikeKeepsInv ==
    ASSUME CommandsInv, NEW q \in LikeRequests, CountUnlike(q)
    PROVE  CommandsInv'
<1> DEFINE t == underWay[q]
           there == <<t.user, t.id>> \in liked
           ids == IF there THEN {t.id} ELSE {}
<1>1. /\ Asked(q) /\ ~t.up /\ t.stage = "asked"
      /\ UNCHANGED <<liked, accounts, page, nextId, hastyClicks, remaining>> /\ crossed \subseteq crossed'
      /\ there \in BOOLEAN /\ GoesOn(q, "half", there)
  BY DEF CountUnlike, Asked
<1>2. utterances' = CountedBy(ids, -1)
  BY DEF CountUnlike, Counts, CountedBy
<1>3. SameRows
  BY <1>2, CountedAreSame DEF CommandsInv
<1>4. liked' \subseteq accounts \X Ids /\ IsFiniteSet(liked')
  BY <1>1 DEF CommandsInv, CommandsTypeOK, AllFinite, Ids
<1>5. CountsAreRight'
  <2> SUFFICES ASSUME NEW r \in utterances', r.id \notin crossed
               PROVE  r.likes = Cardinality(LikesOf(r.id)') - Cardinality(HalfDone(r.id)')
    BY <1>1 DEF CountsAreRight
  <2>1. PICK s \in utterances : /\ r.id = s.id
                               /\ r.likes = s.likes + (IF s.id \in ids THEN -1 ELSE 0)
    BY <1>2, CountedRows DEF CommandsInv
  <2>2. Cardinality(HalfDone(s.id)') =
            Cardinality(HalfDone(s.id)) - (IF q \in HalfDone(s.id) THEN 1 ELSE 0)
                + (IF underWay[q].id = s.id /\ "half" = "half" /\ there THEN 1 ELSE 0)
    BY <1>1, HalfDoneAfter, ZenonT(60)
  <2>3. q \notin HalfDone(s.id)
    BY <1>1 DEF HalfDone
  <2>4. LikesOf(s.id)' = LikesOf(s.id)
    BY <1>1 DEF LikesOf
  <2>5. s.likes = Cardinality(LikesOf(s.id)) - Cardinality(HalfDone(s.id))
    BY <2>1 DEF CommandsInv, CountsAreRight
  <2>6. s.id \in ids <=> s.id = t.id /\ there
    OBVIOUS
  <2>7. r.likes = Cardinality(LikesOf(s.id)') - Cardinality(HalfDone(s.id)')
    BY <2>1, <2>2, <2>3, <2>4, <2>5, <2>6, LikesAreFinite
  <2> QED
    BY <2>1, <2>7
<1>6. HeartsFollow'
  <2> SUFFICES ASSUME NEW id \in DOMAIN page \ hastyClicks, Reader \in accounts, IsThere(id)'
               PROVE  HeartFollows(id)'
    BY <1>1 DEF HeartsFollow
  <2>1. HeartFollows(id)
    BY <1>3 DEF HeartsFollow, CommandsInv, IsThere, SameRows
  <2>2. ReaderLikes(id)' <=> ReaderLikes(id)
    BY <1>1, SMTT(60) DEF ReaderLikes
  <2>3. /\ underWay'[q].user = t.user /\ underWay'[q].id = t.id /\ underWay'[q].up = t.up
        /\ underWay'[q].stage = "half"
        /\ \A x \in LikeRequests : x # q => underWay'[x] = underWay[x]
        /\ \A x \in LikeRequests : Asked(x)' <=> Asked(x)
    BY <1>1, GoesOnFacts, Zenon
  <2>4. OfReader(id)' = OfReader(id) /\ \A x \in OfReader(id) : x \in LikeRequests
    BY <2>3 DEF OfReader
  <2>5. \A x \in OfReader(id) : /\ underWay'[x].up = underWay[x].up
                                /\ Took(x)' <=> Took(x)
                                /\ Took(x) => underWay'[x] = underWay[x]
    BY <1>1, <2>3, <2>4 DEF Took
  <2>6. \A x \in OfReader(id) : Follows(id, x)'
    BY <1>1, <2>1, <2>2, <2>4, <2>5 DEF Follows, HeartFollows
  <2> QED
    BY <1>1, <2>1, <2>2, <2>4, <2>5, <2>6 DEF HeartFollows
<1> QED
  BY <1>1, <1>3, <1>4, <1>5, <1>6, StepKeepsInv

LEMMA DeleteLikeKeepsInv ==
    ASSUME CommandsInv, NEW q \in LikeRequests, DeleteLike(q)
    PROVE  CommandsInv'
<1> DEFINE t == underWay[q]
           there == <<t.user, t.id>> \in liked
<1>1. /\ Asked(q) /\ ~t.up /\ t.stage = "half"
      /\ UNCHANGED <<utterances, accounts, page, nextId, hastyClicks, remaining>>
      /\ liked' = liked \ {<<t.user, t.id>>}
      /\ crossed \subseteq crossed' /\ (t.id \notin crossed' => (there <=> t.ok))
      /\ there \in BOOLEAN /\ GoesOn(q, "done", there)
  <2>1. t.ok \in BOOLEAN
    BY DEF DeleteLike, CommandsInv, CommandsTypeOK, LikeRequest
  <2> QED
    BY <2>1 DEF DeleteLike, Asked
<1>2. SameRows
  BY <1>1, UncountedRows DEF CommandsInv
<1>3. liked' \subseteq accounts \X Ids /\ IsFiniteSet(liked')
  BY <1>1, FS_RemoveElement DEF CommandsInv, CommandsTypeOK, AllFinite, Ids
<1>4. CountsAreRight'
  <2> SUFFICES ASSUME NEW r \in utterances, r.id \notin crossed'
               PROVE  r.likes = Cardinality(LikesOf(r.id)') - Cardinality(HalfDone(r.id)')
    BY <1>1 DEF CountsAreRight
  <2>1. Cardinality(HalfDone(r.id)') =
            Cardinality(HalfDone(r.id)) - (IF q \in HalfDone(r.id) THEN 1 ELSE 0)
                + (IF underWay[q].id = r.id /\ "done" = "half" /\ there THEN 1 ELSE 0)
    BY <1>1, HalfDoneAfter, ZenonT(60)
  <2>2. q \in HalfDone(r.id) <=> r.id = t.id /\ there
    BY <1>1 DEF HalfDone, Asked
  <2>3. Cardinality(LikesOf(r.id)') =
            Cardinality(LikesOf(r.id)) - (IF r.id = t.id /\ there THEN 1 ELSE 0)
    <3>1. CASE there
      BY <1>1, <3>1, LikesOfAfter
    <3>2. CASE ~there
      <4>1. liked' = liked
        BY <1>1, <3>2
      <4>2. LikesOf(r.id)' = LikesOf(r.id)
        BY <4>1 DEF LikesOf
      <4> QED
        BY <3>2, <4>2, LikesAreFinite
    <3> QED
      BY <3>1, <3>2
  <2>4. r.likes = Cardinality(LikesOf(r.id)) - Cardinality(HalfDone(r.id))
    BY <1>1 DEF CommandsInv, CountsAreRight
  <2> QED
    BY <2>1, <2>2, <2>3, <2>4, LikesAreFinite
<1>5. HeartsFollow'
  <2> SUFFICES ASSUME NEW id \in DOMAIN page \ hastyClicks, Reader \in accounts, IsThere(id)
               PROVE  HeartFollows(id)'
    BY <1>1 DEF HeartsFollow, IsThere
  <2>1. HeartFollows(id)
    BY DEF HeartsFollow, CommandsInv
  <2>2. CASE t.user # Reader \/ t.id # id
    <3>1. ReaderLikes(id)' <=> ReaderLikes(id)
      BY <1>1, <2>2 DEF ReaderLikes
    <3> QED
      BY <1>1, <2>1, <2>2, <3>1, StepLeavesOthers
  <2>3. CASE t.user = Reader /\ t.id = id
    <3>1. /\ underWay'[q].user = t.user /\ underWay'[q].id = t.id /\ underWay'[q].up = t.up
          /\ underWay'[q].stage = "done" /\ underWay'[q].ok = there
          /\ \A x \in LikeRequests : x # q => underWay'[x] = underWay[x]
          /\ \A x \in LikeRequests : Asked(x)' <=> Asked(x)
      BY <1>1, GoesOnFacts, ZenonT(60)
    <3>2. OfReader(id)' = OfReader(id) /\ q \in OfReader(id)
      BY <1>1, <2>3, <3>1 DEF OfReader
    <3>3. \A x \in OfReader(id) : x \in LikeRequests
      BY DEF OfReader
    <3>4. ~ReaderLikes(id)' /\ (ReaderLikes(id) <=> there)
      BY <1>1, <2>3 DEF ReaderLikes
    <3>5. \A x \in OfReader(id) : ~underWay[x].up /\ (underWay'[x].up <=> underWay[x].up)
      BY <1>1, <2>1, <3>1, <3>2, <3>3 DEF HeartFollows
    <3>6. /\ ~Took(q) /\ Took(q)'
          /\ \A x \in OfReader(id) : Took(x) => Took(x)' /\ underWay'[x] = underWay[x]
      BY <1>1, <3>1, <3>3 DEF Took
    <3>7. \A x \in OfReader(id) : Follows(id, x)'
      BY <1>1, <2>1, <3>1, <3>2, <3>4, <3>5, <3>6 DEF Follows, HeartFollows
    <3> QED
      BY <3>2, <3>5, <3>7 DEF HeartFollows
  <2> QED
    BY <2>2, <2>3
<1> QED
  BY <1>1, <1>2, <1>3, <1>4, <1>5, StepKeepsInv

LEMMA DeleteLikerKeepsInv ==
    ASSUME CommandsInv, NEW user, DeleteLiker(user)
    PROVE  CommandsInv'
<1> USE DEF CommandsInv
<1> DEFINE his == {l[2] : l \in {l \in liked : l[1] = user}}
<1>1. /\ accounts' = accounts \ {user} /\ liked' = {l \in liked : l[1] # user}
      /\ crossed \subseteq crossed'
      /\ UNCHANGED <<underWay, page, nextId, hastyClicks, remaining>>
  BY DEF DeleteLiker
<1>2. utterances' = CountedBy(his, -1)
  BY DEF DeleteLiker, CountedBy
<1>3. SameRows
  BY <1>2, CountedAreSame
<1>4. \A l \in liked : /\ l = <<l[1], l[2]>> /\ l[1] \in accounts
                       /\ \E s \in utterances : s.id = l[2]
  BY DEF CommandsTypeOK
<1>5. CommandsTypeOK'
  <2>1. \A r \in utterances' : r.id \in 1..nextId - 1 /\ r.likes \in Int
    BY <1>3 DEF SameRows, CommandsTypeOK
  <2>2. \A l \in liked' : /\ l = <<l[1], l[2]>> /\ l[1] \in accounts'
                          /\ \E r \in utterances' : r.id = l[2]
    BY <1>1, <1>3, <1>4 DEF SameRows
  <2>3. liked' \subseteq accounts' \X {r.id : r \in utterances'}
    BY <2>2
  <2>4. accounts' \subseteq Likers
    BY <1>1 DEF CommandsTypeOK
  <2> QED
    BY <1>1, <1>3, <2>1, <2>3, <2>4 DEF SameRows, CommandsTypeOK
<1>6. RowsAreRecords'
  BY <1>3 DEF SameRows, RowsAreRecords, IsRecord
<1>7. Busy' = Busy
  BY <1>1 DEF Busy, Asked
<1>8. AllFinite'
  <2>1. liked' \in SUBSET liked
    BY <1>1
  <2> QED
    BY <1>7, <2>1, FS_Subset DEF AllFinite
<1>9. RequestsAreAboutRows'
  BY <1>1 DEF RequestsAreAboutRows, Asked
<1>10. CountsAreRight'
  <2> SUFFICES ASSUME NEW r \in utterances', r.id \notin crossed
               PROVE  r.likes = Cardinality(LikesOf(r.id)') - Cardinality(HalfDone(r.id)')
    BY <1>1 DEF CountsAreRight
  <2>1. PICK s \in utterances : /\ r.id = s.id
                               /\ r.likes = s.likes + (IF s.id \in his THEN -1 ELSE 0)
    BY <1>2, CountedRows
  <2>2. HalfDone(s.id)' = HalfDone(s.id)
    BY <1>1 DEF HalfDone
  <2>3. s.id \in his <=> <<user, s.id>> \in LikesOf(s.id)
    BY <1>4 DEF LikesOf
  <2>4. LikesOf(s.id)' = LikesOf(s.id) \ {<<user, s.id>>}
    BY <1>1, <1>4 DEF LikesOf
  <2>5. Cardinality(LikesOf(s.id)') =
            IF s.id \in his THEN Cardinality(LikesOf(s.id)) - 1 ELSE Cardinality(LikesOf(s.id))
    <3> HIDE DEF his
    <3>1. IsFiniteSet(LikesOf(s.id))
      BY LikesAreFinite
    <3>2. Cardinality(LikesOf(s.id) \ {<<user, s.id>>}) =
              IF <<user, s.id>> \in LikesOf(s.id)
              THEN Cardinality(LikesOf(s.id)) - 1 ELSE Cardinality(LikesOf(s.id))
      BY <3>1, FS_RemoveElement
    <3> QED
      BY <2>3, <2>4, <3>2
  <2>6. s.likes = Cardinality(LikesOf(s.id)) - Cardinality(HalfDone(s.id))
    BY <2>1 DEF CountsAreRight
  <2> HIDE DEF his
  <2>7. r.likes = Cardinality(LikesOf(s.id)') - Cardinality(HalfDone(s.id)')
    BY <2>1, <2>2, <2>5, <2>6, LikesAreFinite
  <2> QED
    BY <2>1, <2>7
<1>11. HeartsFollow'
  <2> SUFFICES ASSUME NEW id \in DOMAIN page \ hastyClicks, Reader \in accounts', IsThere(id)'
               PROVE  HeartFollows(id)'
    BY <1>1 DEF HeartsFollow
  <2>1. Reader \in accounts /\ Reader # user
    BY <1>1
  <2>2. HeartFollows(id)
    BY <1>3, <2>1 DEF HeartsFollow, IsThere, SameRows
  <2>3. ReaderLikes(id)' <=> ReaderLikes(id)
    BY <1>1, <2>1 DEF ReaderLikes
  <2>4. OfReader(id)' = OfReader(id)
    BY <1>1 DEF OfReader, Asked
  <2> QED
    BY <1>1, <2>2, <2>3, <2>4, HeartIsLeft
<1>12. DatasetsAreThose'
  BY <1>1 DEF DatasetsAreThose
<1> QED
  BY <1>5, <1>6, <1>8, <1>9, <1>10, <1>11, <1>12

LEMMA OpenCommandsKeepsInv ==
    ASSUME CommandsInv, OpenCommands
    PROVE  CommandsInv'
<1> USE DEF CommandsInv
<1> DEFINE count(id) == (CHOOSE r \in utterances : r.id = id).likes
           ids == {r.id : r \in utterances}
<1>1. /\ DOMAIN page = {}
      /\ page' = [id \in ids |-> [heart |-> LikedBy(Reader, id), count |-> count(id)]]
      /\ UNCHANGED <<utterances, liked, accounts, underWay, nextId, crossed, hastyClicks, remaining>>
  BY DEF OpenCommands
<1>2. ASSUME NEW id \in ids
      PROVE  count(id) \in Int /\ id \in 1..nextId - 1
  <2>1. PICK r \in utterances : r.id = id
    OBVIOUS
  <2>2. (CHOOSE x \in utterances : x.id = id) \in utterances
    BY <2>1
  <2> QED
    BY <2>1, <2>2 DEF CommandsTypeOK
<1>3. \A id \in ids : LikedBy(Reader, id) \in BOOLEAN
  BY DEF LikedBy
<1> HIDE DEF count, ids
<1>4. DOMAIN page' = ids /\ page' \in [ids -> Heart]
  BY <1>1, <1>2, <1>3 DEF Heart
<1>5. CommandsTypeOK'
  BY <1>1, <1>2, <1>4 DEF CommandsTypeOK
<1>6. RowsAreRecords' /\ CountsAreRight' /\ DatasetsAreThose'
  BY <1>1 DEF RowsAreRecords, CountsAreRight, DatasetsAreThose, LikesOf, HalfDone
<1>7. Busy' = Busy
  BY <1>1 DEF Busy, Asked
<1>8. AllFinite'
  BY <1>1, <1>7 DEF AllFinite
<1>9. RequestsAreAboutRows'
  BY <1>1 DEF RequestsAreAboutRows, Asked
<1>10. HeartsFollow'
  <2> SUFFICES ASSUME NEW id \in ids PROVE HeartFollows(id)'
    BY <1>4 DEF HeartsFollow
  <2>1. OfReader(id)' = {}
    BY <1>1 DEF OfReader, RequestsAreAboutRows, Asked
  <2>2. page'[id].heart <=> ReaderLikes(id)'
    BY <1>1 DEF LikedBy, ReaderLikes
  <2> QED
    BY <2>1, <2>2 DEF HeartFollows
<1> QED
  BY <1>5, <1>6, <1>8, <1>9, <1>10

LEMMA LikeAnsweredKeepsInv ==
    ASSUME CommandsInv, NEW q \in LikeRequests, LikeAnswered(q)
    PROVE  CommandsInv'
<1> USE DEF CommandsInv
<1> DEFINE t == underWay[q]
           shown == [heart |-> t.up, count |-> t.current + (IF t.up THEN 1 ELSE -1)]
           told == t.user = Reader /\ t.ok /\ t.id \in DOMAIN page
<1>1. /\ Asked(q) /\ t.stage = "done" /\ underWay' = [underWay EXCEPT ![q] = NoRequest]
      /\ page' = IF told THEN [page EXCEPT ![t.id] = shown] ELSE page
      /\ UNCHANGED <<utterances, liked, accounts, nextId, crossed, hastyClicks, remaining>>
  BY DEF LikeAnswered, Asked
<1>2. t \in LikeRequest /\ t.up \in BOOLEAN /\ t.current \in Int /\ t.ok \in BOOLEAN
  <2>1. t \in LikeRequest
    BY <1>1 DEF CommandsTypeOK, Asked
  <2> QED
    BY <2>1 DEF LikeRequest
<1>3. shown \in Heart /\ shown.heart = t.up
  BY <1>2 DEF Heart
<1> HIDE DEF shown
<1>4. /\ DOMAIN page' = DOMAIN page /\ page' \in [DOMAIN page -> Heart]
      /\ told => page'[t.id] = shown
      /\ \A id \in DOMAIN page : id # t.id \/ ~told => page'[id] = page[id]
  BY <1>1, <1>3 DEF CommandsTypeOK
<1>5. /\ underWay' \in [LikeRequests -> LikeRequest \cup {NoRequest}]
      /\ underWay'[q] = NoRequest /\ \A x \in LikeRequests : x # q => underWay'[x] = underWay[x]
  BY <1>1 DEF CommandsTypeOK
<1>6. CommandsTypeOK'
  BY <1>1, <1>4, <1>5 DEF CommandsTypeOK
<1>7. RowsAreRecords' /\ DatasetsAreThose'
  BY <1>1 DEF RowsAreRecords, DatasetsAreThose
<1>8. Busy' = Busy \ {q}
  BY <1>5 DEF Busy, Asked
<1>9. AllFinite'
  BY <1>1, <1>8, FS_RemoveElement DEF AllFinite
<1>10. RequestsAreAboutRows'
  BY <1>1, <1>4, <1>5 DEF RequestsAreAboutRows, Asked
<1>11. CountsAreRight'
  <2>1. ASSUME NEW id PROVE HalfDone(id)' = HalfDone(id) /\ LikesOf(id)' = LikesOf(id)
    BY <1>1, <1>5 DEF HalfDone, LikesOf
  <2> QED
    BY <1>1, <2>1 DEF CountsAreRight
<1>12. HeartsFollow'
  <2> SUFFICES ASSUME NEW id \in DOMAIN page \ hastyClicks, Reader \in accounts, IsThere(id)
               PROVE  HeartFollows(id)'
    BY <1>1, <1>4 DEF HeartsFollow, IsThere
  <2>1. HeartFollows(id)
    BY DEF HeartsFollow
  <2>2. ReaderLikes(id)' <=> ReaderLikes(id)
    BY <1>1 DEF ReaderLikes
  <2>3. CASE t.user # Reader \/ t.id # id
    <3>1. OfReader(id)' = OfReader(id) /\ \A x \in OfReader(id) : underWay'[x] = underWay[x]
      BY <1>5, <2>3 DEF OfReader, Asked
    <3>2. page'[id] = page[id]
      BY <1>4, <2>3
    <3> QED
      BY <2>1, <2>2, <3>1, <3>2, HeartIsLeft
  <2>4. CASE t.user = Reader /\ t.id = id
    <3>1. OfReader(id)' = OfReader(id) \ {q} /\ q \in OfReader(id)
      BY <1>1, <1>5, <2>4 DEF OfReader, Asked
    <3>2. \A x \in OfReader(id)' : /\ underWay'[x] = underWay[x] /\ x \in OfReader(id)
                                   /\ underWay[x].up <=> t.up
                                   /\ Took(x)' <=> Took(x)
      BY <1>5, <2>1, <3>1 DEF OfReader, HeartFollows, Took
    <3>3. Took(q) /\ (ReaderLikes(id) <=> t.up)
      BY <1>1, <2>1, <3>1 DEF Took, HeartFollows, Follows
    <3>4. IF t.ok THEN page'[id].heart <=> t.up ELSE page'[id] = page[id]
      BY <1>3, <1>4, <2>4
    <3>5. ASSUME NEW x \in OfReader(id)' PROVE Follows(id, x)'
      BY <2>1, <2>2, <3>1, <3>2, <3>3, <3>4 DEF Follows, HeartFollows
    <3>6. ASSUME OfReader(id)' = {} PROVE page'[id].heart <=> ReaderLikes(id)'
      BY <2>1, <2>2, <3>1, <3>3, <3>4, <3>6 DEF Follows, HeartFollows
    <3> QED
      BY <3>1, <3>2, <3>5, <3>6 DEF HeartFollows
  <2> QED
    BY <2>3, <2>4
<1> QED
  BY <1>6, <1>7, <1>9, <1>10, <1>11, <1>12

LEMMA CommandsInvariant == CommandsSpec => []CommandsInv
<1>1. ASSUME CommandsInv, [CommandsNext]_commandsVars PROVE CommandsInv'
  <2>1. CASE UNCHANGED commandsVars
    BY <1>1, <2>1 DEF commandsVars, CommandsInv, CommandsTypeOK, RowsAreRecords, AllFinite,
       RequestsAreAboutRows, HeartsFollow, CountsAreRight, DatasetsAreThose, HeartFollows, Follows,
       OfReader, Took, ReaderLikes, Asked, Busy, LikesOf, HalfDone, IsThere
  <2>2. ASSUME NEW d \in remaining.datasets, UploadDataset(d) PROVE CommandsInv'
    <3>1. d \in Datasets
      BY <1>1 DEF CommandsInv, DatasetsAreThose
    <3>2. HasPhrases(d)
      BY <3>1, CommandsAssumption DEF HasPhrases, IsSequence
    <3> QED
      BY <1>1, <2>2, <3>2, UploadKeepsInv
  <2>3. CASE UploadDataset(Coalesced(Base))
    BY <1>1, <2>3, FormHasPhrases, UploadKeepsInv DEF CommandsInv
  <2>4. ASSUME NEW r \in utterances, DeleteById(r.id) PROVE CommandsInv'
    BY <1>1, <2>4, DeleteByIdKeepsInv
  <2>5. ASSUME NEW q \in LikeRequests, NEW id \in DOMAIN page, ClickHeart(q, id) PROVE CommandsInv'
    BY <1>1, <2>5, ClickKeepsInv
  <2>6. ASSUME NEW q \in LikeRequests, NEW user \in Likers, NEW r \in utterances, NEW liking \in BOOLEAN,
               Elsewhere(q, user, r.id, liking)
        PROVE  CommandsInv'
    BY <1>1, <2>6, ElsewhereKeepsInv
  <2>7. ASSUME NEW q \in LikeRequests,
               InsertLike(q) \/ CountLike(q) \/ CountUnlike(q) \/ DeleteLike(q) \/ LikeAnswered(q)
        PROVE  CommandsInv'
    BY <1>1, <2>7, InsertLikeKeepsInv, CountLikeKeepsInv, CountUnlikeKeepsInv, DeleteLikeKeepsInv,
       LikeAnsweredKeepsInv
  <2>8. ASSUME NEW user \in Likers, DeleteLiker(user) PROVE CommandsInv'
    BY <1>1, <2>8, DeleteLikerKeepsInv
  <2>9. CASE OpenCommands
    BY <1>1, <2>9, OpenCommandsKeepsInv
  <2> QED
    BY <1>1, <2>1, <2>2, <2>3, <2>4, <2>5, <2>6, <2>7, <2>8, <2>9 DEF CommandsNext
<1> QED
  BY <1>1, CommandsInitInv, PTL DEF CommandsSpec

(* The rows of commands and likes, the requests about them and the page have   *)
(* the declared shape through uploads of datasets, deletions and requests that *)
(* cross: a like is always of a row and an account that are there.             *)
THEOREM CommandsTypeCorrect == CommandsSpec => []CommandsTypeOK
<1>1. CommandsInv => CommandsTypeOK
  BY DEF CommandsInv
<1> QED
  BY <1>1, CommandsInvariant, PTL

(* example.ts: the number beside a command is that of its likes, but for the   *)
(* requests between their two statements and the rows with which a withdrawal  *)
(* crossed; and the heart shows whether the reader likes the command when all  *)
(* clicks were answered, for any users, requests and datasets.                 *)
THEOREM CommandLikesAreCounted == CommandsSpec => []LikesAreCounted
<1>1. ASSUME CommandsInv PROVE LikesAreCounted
  <2>1. \A r \in utterances : r.id \notin crossed =>
            r.likes = Cardinality(LikesOf(r.id)) - Cardinality(HalfDone(r.id))
    BY <1>1 DEF CommandsInv, CountsAreRight
  <2>2. ASSUME NEW id \in DOMAIN page \ hastyClicks, Reader \in accounts, IsThere(id),
               ~Pending(Reader, id, TRUE), ~Pending(Reader, id, FALSE)
        PROVE  page[id].heart = (<<Reader, id>> \in liked)
    <3>1. OfReader(id) = {}
      BY <1>1, <2>2 DEF OfReader, Pending, Asked, CommandsInv, CommandsTypeOK, LikeRequest
    <3>2. page[id].heart <=> <<Reader, id>> \in liked
      BY <1>1, <2>2, <3>1 DEF CommandsInv, HeartsFollow, HeartFollows, ReaderLikes
    <3>3. page[id].heart \in BOOLEAN
      BY <1>1 DEF CommandsInv, CommandsTypeOK, Heart
    <3> QED
      BY <3>2, <3>3
  <2> QED
    BY <2>1, <2>2 DEF LikesAreCounted
<1> QED
  BY <1>1, CommandsInvariant, PTL

-----------------------------------------------------------------------------
(* The form of a device, submitted as it is shown.                           *)

\* A row that has a name is the only one with it among those that are not synthetic.
NamesDiffer == \A r, s \in Base : r.name # NoName /\ r.name = s.name => r = s

\* The rows of the commands after an upload: one that stays for an example, with the
\* first phrase of it, and one that is made of a new phrase.
Stayed(d, i, s) ==
    [id |-> s.id, name |-> s.name, code |-> s.code, phrase |-> d[i].phrases[1],
     synthetic |-> s.synthetic, likes |-> s.likes]
Made(d, p) ==
    PhraseRow(d[p[1]], p[2], FALSE, nextId + Len(Canonical) + PlaceIn(NewPhrases(d), p))
RowsAfter(d) == {r \in Ensured(d) : ~r.synthetic}

LEMMA UploadedRows ==
    ASSUME RowsAreRecords, NEW d
    PROVE  /\ \A i \in DOMAIN d : \A s \in Stays(d[i]) : Stayed(d, i, s) \in RowsAfter(d)
           /\ \A p \in NewPhrases(d) : Made(d, p) \in RowsAfter(d)
           /\ \A r \in RowsAfter(d) :
                 \/ \E i \in DOMAIN d : \E s \in Stays(d[i]) : r = Stayed(d, i, s)
                 \/ \E p \in NewPhrases(d) : r = Made(d, p)
<1> DEFINE stay == UNION {{[r EXCEPT !.phrase = d[i].phrases[1]] : r \in Stays(d[i])} : i \in DOMAIN d}
           forms == {PhraseRow(Canonical[n], 1, TRUE, nextId + n - 1) : n \in 1..Len(Canonical)}
           made == {Made(d, p) : p \in NewPhrases(d)}
<1>1. Ensured(d) = stay \cup forms \cup made
  BY DEF Ensured, Made
<1>2. ASSUME NEW i \in DOMAIN d, NEW s \in Stays(d[i])
      PROVE  [s EXCEPT !.phrase = d[i].phrases[1]] = Stayed(d, i, s)
  <2>1. s = [id |-> s.id, name |-> s.name, code |-> s.code, phrase |-> s.phrase,
             synthetic |-> s.synthetic, likes |-> s.likes]
    BY DEF Stays, Base, RowsAreRecords
  <2> QED
    BY <2>1 DEF Stayed
<1>3. \A r \in stay : \E i \in DOMAIN d : \E s \in Stays(d[i]) : r = Stayed(d, i, s)
  BY <1>2
<1>4. \A i \in DOMAIN d : \A s \in Stays(d[i]) : Stayed(d, i, s) \in stay
  BY <1>2
<1>5. \A r \in forms : r.synthetic
  BY DEF PhraseRow
<1>6. \A p \in NewPhrases(d) : ~Made(d, p).synthetic
  BY DEF Made, PhraseRow
<1>7. \A i \in DOMAIN d : \A s \in Stays(d[i]) : ~Stayed(d, i, s).synthetic
  BY DEF Stays, Base, Stayed
<1>8. \A r \in made : \E p \in NewPhrases(d) : r = Made(d, p)
  OBVIOUS
<1>9. \A p \in NewPhrases(d) : Made(d, p) \in made
  OBVIOUS
<1> HIDE DEF stay, forms, made
<1> QED
  BY <1>1, <1>3, <1>4, <1>5, <1>6, <1>7, <1>8, <1>9 DEF RowsAfter

\* The name and the contents of them.
LEMMA NameOfStayed ==
    ASSUME NEW d, NEW i, NEW s \in Stays(d[i])
    PROVE  /\ s \in Base /\ s \in utterances /\ d[i].name # NoName
           /\ s.name = d[i].name /\ s.code = d[i].code
           /\ Stayed(d, i, s).id = s.id /\ Stayed(d, i, s).name = d[i].name
           /\ Stayed(d, i, s).code = d[i].code /\ Stayed(d, i, s).phrase = d[i].phrases[1]
           /\ Stayed(d, i, s).likes = s.likes
BY DEF Stays, Base, Stayed

LEMMA NameOfMade ==
    ASSUME NEW d, NEW p \in NewPhrases(d)
    PROVE  /\ p \in PhrasesOf(d) /\ (p[2] > 1 \/ Stays(d[p[1]]) = {})
           /\ Made(d, p).id = nextId + Len(Canonical) + PlaceIn(NewPhrases(d), p)
           /\ Made(d, p).name = IF p[2] = 1 THEN d[p[1]].name ELSE NoName
           /\ Made(d, p).code = d[p[1]].code /\ Made(d, p).phrase = d[p[1]].phrases[p[2]]
BY DEF NewPhrases, Made, PhraseRow

LEMMA UploadKeepsNames ==
    ASSUME NamesDiffer, RowsAreRecords, NEW d, HasPhrases(d), UploadDataset(d)
    PROVE  NamesDiffer'
<1>1. ValidDataset(d) /\ utterances' = Ensured(d)
  BY DEF UploadDataset, RowsReplaced
<1>2. Base' = RowsAfter(d)
  BY <1>1 DEF Base, RowsAfter
<1> SUFFICES ASSUME NEW r \in RowsAfter(d), NEW s \in RowsAfter(d), r.name # NoName, r.name = s.name
             PROVE  r = s
  BY <1>2 DEF NamesDiffer
<1> DEFINE IsStayed(x, i) == \E y \in Stays(d[i]) : x = Stayed(d, i, y)
           IsMade(x, i) == <<i, 1>> \in NewPhrases(d) /\ x = Made(d, <<i, 1>>) /\ Stays(d[i]) = {}
<1>3. ASSUME NEW x \in RowsAfter(d), x.name # NoName
      PROVE  \E i \in DOMAIN d : x.name = d[i].name /\ (IsStayed(x, i) \/ IsMade(x, i))
  <2>1. ASSUME NEW i \in DOMAIN d, NEW y \in Stays(d[i]), x = Stayed(d, i, y)
        PROVE  x.name = d[i].name /\ IsStayed(x, i)
    <3>1. Stayed(d, i, y).name = d[i].name
      BY NameOfStayed
    <3> QED
      BY <2>1, <3>1
  <2>2. ASSUME NEW p \in NewPhrases(d), x = Made(d, p)
        PROVE  x.name = d[p[1]].name /\ IsMade(x, p[1]) /\ p[1] \in DOMAIN d
    <3>0. /\ p[2] > 1 \/ Stays(d[p[1]]) = {}
          /\ Made(d, p).name = IF p[2] = 1 THEN d[p[1]].name ELSE NoName
      BY NameOfMade, Zenon
    <3>1. p[2] = 1 /\ x.name = d[p[1]].name /\ Stays(d[p[1]]) = {}
      BY <1>3, <2>2, <3>0
    <3>2. p \in Nat \X Nat /\ p[1] \in DOMAIN d
      BY NewPhrasesType
    <3>3. p = <<p[1], 1>>
      BY <3>1, <3>2
    <3> QED
      BY <2>2, <3>1, <3>2, <3>3
  <2> QED
    BY <2>1, <2>2, UploadedRows
<1>4. PICK i \in DOMAIN d : r.name = d[i].name /\ (IsStayed(r, i) \/ IsMade(r, i))
  BY <1>3
<1>5. PICK j \in DOMAIN d : s.name = d[j].name /\ (IsStayed(s, j) \/ IsMade(s, j))
  BY <1>3
<1>6. i = j
  BY <1>1, <1>4, <1>5 DEF ValidDataset
<1>7. CASE Stays(d[i]) = {}
  BY <1>4, <1>5, <1>6, <1>7
<1>8. CASE Stays(d[i]) # {}
  <2>1. PICK x \in Stays(d[i]) : r = Stayed(d, i, x)
    BY <1>4, <1>8
  <2>2. PICK y \in Stays(d[i]) : s = Stayed(d, i, y)
    BY <1>5, <1>6, <1>8
  <2>3. x = y
    BY <2>1, <2>2, NameOfStayed DEF NamesDiffer
  <2> QED
    BY <2>1, <2>2, <2>3
<1> QED
  BY <1>7, <1>8

\* A step after which the rows have the names that they had.
LEMMA SameNames ==
    ASSUME NamesDiffer, \A r, s \in utterances' : r.id = s.id => r = s,
           \A r \in utterances' : \E s \in utterances :
               r.id = s.id /\ r.name = s.name /\ (r.synthetic <=> s.synthetic),
           CommandsTypeOK
    PROVE  NamesDiffer'
<1> SUFFICES ASSUME NEW r \in Base', NEW s \in Base', r.name # NoName, r.name = s.name
             PROVE  r = s
  BY DEF NamesDiffer
<1>1. r \in utterances' /\ s \in utterances' /\ ~r.synthetic /\ ~s.synthetic
  BY DEF Base
<1>2. PICK x \in utterances : r.id = x.id /\ r.name = x.name /\ ~x.synthetic
  BY <1>1
<1>3. PICK y \in utterances : s.id = y.id /\ s.name = y.name /\ ~y.synthetic
  BY <1>1
<1>4. x = y
  <2>1. x \in Base /\ y \in Base
    BY <1>2, <1>3 DEF Base
  <2>2. x.name # NoName /\ x.name = y.name
    BY <1>2, <1>3
  <2>3. \A u, v \in Base : u.name # NoName /\ u.name = v.name => u = v
    BY DEF NamesDiffer
  <2> QED
    BY <2>1, <2>2, <2>3, Zenon
<1> QED
  BY <1>1, <1>2, <1>3, <1>4

LEMMA CountedNames ==
    ASSUME RowsAreRecords, NEW ids, NEW n, utterances' = CountedBy(ids, n)
    PROVE  \A r \in utterances' : \E s \in utterances :
               r.id = s.id /\ r.name = s.name /\ (r.synthetic <=> s.synthetic)
<1> DEFINE F(s) == IF s.id \in ids THEN [s EXCEPT !.likes = s.likes + n] ELSE s
<1>1. utterances' = {F(s) : s \in utterances}
  BY DEF CountedBy, RowsAreRecords
<1>2. ASSUME NEW s \in utterances
      PROVE  F(s).id = s.id /\ F(s).name = s.name /\ F(s).synthetic = s.synthetic
  <2>1. s = [id |-> s.id, name |-> s.name, code |-> s.code, phrase |-> s.phrase,
             synthetic |-> s.synthetic, likes |-> s.likes]
    BY DEF RowsAreRecords
  <2>2. CASE s.id \in ids
    <3>1. F(s) = [id |-> s.id, name |-> s.name, code |-> s.code, phrase |-> s.phrase,
                  synthetic |-> s.synthetic, likes |-> s.likes + n]
      BY <2>1, <2>2
    <3> HIDE DEF F
    <3> QED
      BY <3>1
  <2> QED
    BY <2>2
<1> HIDE DEF F
<1> QED
  BY <1>1, <1>2

LEMMA NamesInvariant == CommandsSpec => []NamesDiffer
<1>1. CommandsInit => NamesDiffer
  BY DEF CommandsInit, NamesDiffer, Base
<1>2. ASSUME CommandsInv, CommandsInv', NamesDiffer, [CommandsNext]_commandsVars PROVE NamesDiffer'
  <2>1. /\ RowsAreRecords /\ CommandsTypeOK
        /\ \A r, s \in utterances' : r.id = s.id => r = s
    BY <1>2 DEF CommandsInv, CommandsTypeOK
  <2>2. ASSUME \A r \in utterances' : r \in utterances PROVE NamesDiffer'
    BY <1>2, <2>1, <2>2, SameNames
  <2>3. ASSUME NEW ids, NEW n, utterances' = CountedBy(ids, n) PROVE NamesDiffer'
    BY <1>2, <2>1, <2>3, SameNames, CountedNames
  <2>4. ASSUME NEW d \in remaining.datasets, UploadDataset(d) PROVE NamesDiffer'
    <3>1. d \in Datasets
      BY <1>2 DEF CommandsInv, DatasetsAreThose
    <3>2. HasPhrases(d)
      BY <3>1, CommandsAssumption DEF HasPhrases, IsSequence
    <3> QED
      BY <1>2, <2>1, <2>4, <3>2, UploadKeepsNames
  <2>5. CASE UploadDataset(Coalesced(Base))
    BY <1>2, <2>1, <2>5, FormHasPhrases, UploadKeepsNames
  <2>6. ASSUME NEW r \in utterances, DeleteById(r.id) PROVE NamesDiffer'
    BY <2>2, <2>6 DEF DeleteById, RowsReplaced
  <2>7. ASSUME NEW q \in LikeRequests, NEW id, ClickHeart(q, id) PROVE NamesDiffer'
    BY <2>2, <2>7 DEF ClickHeart, BeginRequest
  <2>8. ASSUME NEW q \in LikeRequests, NEW user, NEW id, NEW liking, Elsewhere(q, user, id, liking)
        PROVE  NamesDiffer'
    BY <2>2, <2>8 DEF Elsewhere, BeginRequest
  <2>9. ASSUME NEW q \in LikeRequests, InsertLike(q) \/ DeleteLike(q) \/ LikeAnswered(q)
        PROVE  NamesDiffer'
    BY <2>2, <2>9 DEF InsertLike, DeleteLike, LikeAnswered
  <2>10. ASSUME NEW q \in LikeRequests, CountLike(q) PROVE NamesDiffer'
    <3>1. utterances' = CountedBy({underWay[q].id}, 1)
      BY <2>10 DEF CountLike, Counts, CountedBy
    <3> QED
      BY <2>3, <3>1
  <2>11. ASSUME NEW q \in LikeRequests, CountUnlike(q) PROVE NamesDiffer'
    <3>1. CASE <<underWay[q].user, underWay[q].id>> \in liked
      <4>1. utterances' = CountedBy({underWay[q].id}, -1)
        BY <2>11, <3>1 DEF CountUnlike, Counts, CountedBy
      <4> QED
        BY <2>3, <4>1
    <3>2. CASE <<underWay[q].user, underWay[q].id>> \notin liked
      BY <2>2, <2>11, <3>2 DEF CountUnlike
    <3> QED
      BY <3>1, <3>2
  <2>12. ASSUME NEW user \in Likers, DeleteLiker(user) PROVE NamesDiffer'
    <3> DEFINE his == {l[2] : l \in {l \in liked : l[1] = user}}
    <3>1. utterances' = CountedBy(his, -1)
      BY <2>12 DEF DeleteLiker, CountedBy
    <3> QED
      BY <2>3, <3>1
  <2>13. CASE OpenCommands
    BY <2>2, <2>13 DEF OpenCommands
  <2>14. CASE UNCHANGED commandsVars
    BY <2>2, <2>14 DEF commandsVars
  <2> QED
    BY <1>2, <2>4, <2>5, <2>6, <2>7, <2>8, <2>9, <2>10, <2>11, <2>12, <2>13, <2>14 DEF CommandsNext
<1> QED
  BY <1>1, <1>2, CommandsInvariant, PTL DEF CommandsSpec

(* ById lists each of the rows once.                                           *)
LEMMA ListedOnce ==
    ASSUME CommandsTypeOK, NEW S \in SUBSET utterances
    PROVE  /\ Cardinality(S) \in Nat /\ DOMAIN ById(S) = 1..Cardinality(S)
           /\ \A n \in DOMAIN ById(S) : ById(S)[n] \in S
           /\ \A n, m \in DOMAIN ById(S) : ById(S)[n] = ById(S)[m] => n = m
           /\ \A r \in S : \E n \in DOMAIN ById(S) : ById(S)[n] = r
<1> DEFINE lower(r) == {s \in S : s.id < r.id}
           rank(r) == Cardinality(lower(r))
           k == Cardinality(S)
           f == [r \in S |-> rank(r) + 1]
<1>1. IsFiniteSet(S) /\ k \in Nat
  BY RowsAreFinite, FS_Subset, FS_CardinalityType
<1>2. \A r \in S : r.id \in Int
  BY DEF CommandsTypeOK
<1>3. \A r, s \in S : r.id = s.id => r = s
  BY DEF CommandsTypeOK
<1>4. ASSUME NEW r \in S
      PROVE  IsFiniteSet(lower(r)) /\ rank(r) \in Nat /\ rank(r) < k
  <2>1. lower(r) \in SUBSET S /\ r \notin lower(r)
    BY <1>2
  <2>2. IsFiniteSet(lower(r)) /\ rank(r) \in Nat
    BY <1>1, <2>1, FS_Subset, FS_CardinalityType
  <2> HIDE DEF lower
  <2> QED
    BY <1>1, <2>1, <2>2, FS_Subset
<1>5. ASSUME NEW r \in S, NEW s \in S, r.id < s.id
      PROVE  rank(r) < rank(s)
  <2>1. lower(r) \in SUBSET lower(s) /\ r \in lower(s) /\ r \notin lower(r)
    BY <1>2, <1>5
  <2>2. IsFiniteSet(lower(s)) /\ rank(r) \in Nat /\ rank(s) \in Nat
    BY <1>4
  <2> HIDE DEF lower
  <2> QED
    BY <2>1, <2>2, FS_Subset
<1>6. \A r, s \in S : rank(r) = rank(s) => r = s
  <2> SUFFICES ASSUME NEW r \in S, NEW s \in S, rank(r) = rank(s), r # s PROVE FALSE
    OBVIOUS
  <2>1. r.id < s.id \/ s.id < r.id
    BY <1>2, <1>3
  <2>2. rank(r) \in Nat /\ rank(s) \in Nat
    BY <1>4
  <2> HIDE DEF rank
  <2> QED
    BY <1>5, <2>1, <2>2
<1>7. \A n \in 1..k : \E r \in S : rank(r) = n - 1
  <2>1. \A r \in S : rank(r) + 1 \in 1..k
    <3> SUFFICES ASSUME NEW r \in S PROVE rank(r) + 1 \in 1..k
      OBVIOUS
    <3>1. rank(r) \in Nat /\ rank(r) < k /\ k \in Nat
      BY <1>1, <1>4
    <3> HIDE DEF rank, k
    <3> QED
      BY <3>1
  <2>2. f \in [S -> 1..k] /\ \A r, s \in S : f[r] = f[s] => r = s
    <3>1. \A r \in S : rank(r) \in Nat
      BY <1>4
    <3> HIDE DEF rank, k
    <3> QED
      BY <1>6, <2>1, <3>1
  <2>3. f \in Injection(S, 1..k)
    BY <2>2 DEF Injection, IsInjective
  <2>4. IsFiniteSet(1..k) /\ Cardinality(1..k) = Cardinality(S)
    <3>1. IsFiniteSet(1..k) /\ Cardinality(1..k) = IF 1 > k THEN 0 ELSE k - 1 + 1
      BY <1>1, FS_Interval
    <3> QED
      BY <1>1, <3>1
  <2>5. f \in Surjection(S, 1..k)
    <3> HIDE DEF f, k
    <3> QED
      BY <2>3, <2>4, FS_Injection
  <2>6. \A n \in 1..k : \E r \in S : f[r] = n
    BY <2>5 DEF Surjection
  <2>7. \A r \in S : rank(r) \in Nat /\ f[r] = rank(r) + 1
    BY <1>4
  <2> HIDE DEF f, rank, k
  <2> QED
    BY <1>1, <2>6, <2>7
<1>8. ById(S) = [n \in 1..k |-> CHOOSE r \in S : rank(r) = n - 1]
  BY DEF ById
<1> HIDE DEF rank, k, f
<1>9. DOMAIN ById(S) = 1..k
  BY <1>8
<1>10. \A n \in 1..k : ById(S)[n] \in S /\ rank(ById(S)[n]) = n - 1
  <2> SUFFICES ASSUME NEW n \in 1..k PROVE ById(S)[n] \in S /\ rank(ById(S)[n]) = n - 1
    OBVIOUS
  <2>1. ById(S)[n] = CHOOSE r \in S : rank(r) = n - 1
    BY <1>8
  <2>2. \E r \in S : rank(r) = n - 1
    BY <1>7
  <2> QED
    BY <2>1, <2>2
<1>11. \A n, m \in 1..k : ById(S)[n] = ById(S)[m] => n = m
  <2> SUFFICES ASSUME NEW n \in 1..k, NEW m \in 1..k, ById(S)[n] = ById(S)[m] PROVE n = m
    OBVIOUS
  <2>1. n - 1 = m - 1
    BY <1>10
  <2> QED
    BY <1>1, <2>1
<1>12. \A r \in S : \E n \in 1..k : ById(S)[n] = r
  <2> SUFFICES ASSUME NEW r \in S PROVE \E n \in 1..k : ById(S)[n] = r
    OBVIOUS
  <2>1. rank(r) \in Nat /\ rank(r) < k /\ k \in Nat
    BY <1>1, <1>4
  <2>2. PICK n \in 1..k : n = rank(r) + 1
    BY <2>1
  <2>3. ById(S)[n] \in S /\ rank(ById(S)[n]) = rank(r)
    BY <1>10, <2>1, <2>2
  <2>4. ById(S)[n] = r
    BY <1>6, <2>3
  <2> QED
    BY <2>4
<1> QED
  BY <1>1, <1>9, <1>10, <1>11, <1>12 DEF k

\* The rows of which the form has an example, and those of the same code; with a name.
Firsts == {r \in Base : \A s \in Base : s.code = r.code => r.id <= s.id}
OfCode(code) == {r \in Base : r.code = code}
NamedOf(code) == {r \in Base : r.code = code /\ r.name # NoName}

LEMMA FormExamples ==
    ASSUME CommandsTypeOK
    PROVE  LET form == Coalesced(Base)
           IN  /\ DOMAIN form = DOMAIN ById(Firsts)
               /\ \A i \in DOMAIN form :
                     /\ form[i].code = ById(Firsts)[i].code
                     /\ DOMAIN form[i].phrases = DOMAIN ById(OfCode(form[i].code))
                     /\ \A n \in DOMAIN form[i].phrases :
                           form[i].phrases[n] = ById(OfCode(form[i].code))[n].phrase
                     /\ form[i].name = IF ById(NamedOf(form[i].code)) = <<>> THEN NoName
                                       ELSE ById(NamedOf(form[i].code))[1].name
<1> DEFINE Example(code) ==
        [name |-> IF ById(NamedOf(code)) = <<>> THEN NoName ELSE ById(NamedOf(code))[1].name,
         code |-> code,
         phrases |-> [n \in DOMAIN ById(OfCode(code)) |-> ById(OfCode(code))[n].phrase]]
<1>1. Coalesced(Base) = [i \in DOMAIN ById(Firsts) |-> Example(ById(Firsts)[i].code)]
  BY ZenonT(60) DEF Coalesced, Firsts, OfCode, NamedOf
<1>2. ASSUME NEW code
      PROVE  /\ Example(code).code = code
             /\ DOMAIN Example(code).phrases = DOMAIN ById(OfCode(code))
             /\ \A n \in DOMAIN ById(OfCode(code)) :
                   Example(code).phrases[n] = ById(OfCode(code))[n].phrase
             /\ Example(code).name = IF ById(NamedOf(code)) = <<>> THEN NoName
                                     ELSE ById(NamedOf(code))[1].name
  OBVIOUS
<1> HIDE DEF Example
<1>3. DOMAIN Coalesced(Base) = DOMAIN ById(Firsts)
  BY <1>1
<1>4. \A i \in DOMAIN ById(Firsts) : Coalesced(Base)[i] = Example(ById(Firsts)[i].code)
  BY <1>1
<1> QED
  BY <1>2, <1>3, <1>4

LEMMA FirstOfCode ==
    ASSUME CommandsTypeOK, NEW r \in Base
    PROVE  \E s \in Firsts : s.code = r.code
<1> DEFINE S == {s.id : s \in OfCode(r.code)}
<1>1. S \in SUBSET Nat /\ r.id \in S
  BY DEF OfCode, Base, CommandsTypeOK
<1>2. First(S) \in S /\ \A x \in S : First(S) <= x
  <2> HIDE DEF S
  <2> QED
    BY <1>1, FirstExists
<1>3. PICK s \in OfCode(r.code) : s.id = First(S)
  BY <1>2
<1>4. \A t \in Base : t.code = s.code => s.id <= t.id
  <2> SUFFICES ASSUME NEW t \in Base, t.code = s.code PROVE s.id <= t.id
    OBVIOUS
  <2>1. t.id \in S
    BY DEF OfCode
  <2> QED
    BY <1>2, <1>3, <2>1
<1> QED
  BY <1>3, <1>4 DEF Firsts, OfCode

(* Each row of the commands is one phrase of the form, and each phrase a row.  *)
LEMMA FormIsTheRows ==
    ASSUME CommandsTypeOK
    PROVE  LET form == Coalesced(Base)
           IN  /\ \A i \in DOMAIN form : 1 \in DOMAIN form[i].phrases
               /\ \E g \in Bijection(PhrasesOf(form), Base) :
                     \A p \in PhrasesOf(form) : /\ g[p].code = form[p[1]].code
                                                /\ g[p].phrase = form[p[1]].phrases[p[2]]
<1> DEFINE form == Coalesced(Base)
           P == PhrasesOf(form)
           RowFor(p) == ById(OfCode(form[p[1]].code))[p[2]]
           g == [p \in P |-> RowFor(p)]
<1>1. Firsts \in SUBSET utterances /\ \A code : OfCode(code) \in SUBSET utterances
  BY DEF Firsts, OfCode, Base
<1>2. /\ DOMAIN form = DOMAIN ById(Firsts)
      /\ \A i \in DOMAIN form :
            /\ form[i].code = ById(Firsts)[i].code
            /\ DOMAIN form[i].phrases = DOMAIN ById(OfCode(form[i].code))
            /\ \A n \in DOMAIN form[i].phrases :
                  form[i].phrases[n] = ById(OfCode(form[i].code))[n].phrase
  BY FormExamples
<1>3. /\ \A n \in DOMAIN ById(Firsts) : ById(Firsts)[n] \in Firsts
      /\ \A n, m \in DOMAIN ById(Firsts) : ById(Firsts)[n] = ById(Firsts)[m] => n = m
      /\ \A r \in Firsts : \E n \in DOMAIN ById(Firsts) : ById(Firsts)[n] = r
  BY <1>1, ListedOnce
<1>4. ASSUME NEW code
      PROVE  LET S == OfCode(code)
             IN  /\ Cardinality(S) \in Nat /\ DOMAIN ById(S) = 1..Cardinality(S)
                 /\ \A n \in DOMAIN ById(S) : ById(S)[n] \in S
                 /\ \A n, m \in DOMAIN ById(S) : ById(S)[n] = ById(S)[m] => n = m
                 /\ \A r \in S : \E n \in DOMAIN ById(S) : ById(S)[n] = r
  BY <1>1, ListedOnce
<1> HIDE DEF form
<1>5. ASSUME NEW i \in DOMAIN form
      PROVE  1 \in DOMAIN form[i].phrases
  <2>1. ById(Firsts)[i] \in OfCode(form[i].code)
    BY <1>2, <1>3 DEF Firsts, OfCode
  <2>2. PICK n \in DOMAIN ById(OfCode(form[i].code)) : TRUE
    BY <1>4, <2>1
  <2>3. /\ Cardinality(OfCode(form[i].code)) \in Nat
        /\ DOMAIN ById(OfCode(form[i].code)) = 1..Cardinality(OfCode(form[i].code))
    BY <1>4
  <2>4. 1 \in DOMAIN ById(OfCode(form[i].code))
    BY <2>2, <2>3
  <2> QED
    BY <1>2, <2>4
<1>6. \A p \in P : /\ p = <<p[1], p[2]>> /\ p[1] \in DOMAIN form
                   /\ p[2] \in DOMAIN form[p[1]].phrases
  BY DEF PhrasesOf
<1>7. \A i \in DOMAIN form : \A n \in DOMAIN form[i].phrases : <<i, n>> \in P
  BY DEF PhrasesOf
<1>8. \A p \in P : /\ RowFor(p) \in Base /\ RowFor(p).code = form[p[1]].code
                   /\ RowFor(p).phrase = form[p[1]].phrases[p[2]]
  <2> SUFFICES ASSUME NEW p \in P
               PROVE  /\ RowFor(p) \in Base /\ RowFor(p).code = form[p[1]].code
                      /\ RowFor(p).phrase = form[p[1]].phrases[p[2]]
    OBVIOUS
  <2>1. p[1] \in DOMAIN form /\ p[2] \in DOMAIN form[p[1]].phrases
    BY <1>6
  <2>2. p[2] \in DOMAIN ById(OfCode(form[p[1]].code))
    BY <1>2, <2>1
  <2>3. RowFor(p) \in OfCode(form[p[1]].code)
    BY <1>4, <2>2
  <2>4. RowFor(p) \in Base /\ RowFor(p).code = form[p[1]].code
    BY <2>3 DEF OfCode
  <2>5. RowFor(p).phrase = form[p[1]].phrases[p[2]]
    BY <1>2, <2>1
  <2> QED
    BY <2>4, <2>5
<1>9. ASSUME NEW p \in P, NEW q \in P, RowFor(p) = RowFor(q)
      PROVE  p = q
  <2>1. /\ p[1] \in DOMAIN ById(Firsts) /\ q[1] \in DOMAIN ById(Firsts)
        /\ form[p[1]].code = ById(Firsts)[p[1]].code /\ form[q[1]].code = ById(Firsts)[q[1]].code
    BY <1>2, <1>6
  <2>2. form[p[1]].code = form[q[1]].code
    <3>1. RowFor(p).code = form[p[1]].code /\ RowFor(q).code = form[q[1]].code
      BY <1>8
    <3> QED
      BY <1>9, <3>1
  <2>3. \A r, s \in Firsts : r.code = s.code => r = s
    <3> SUFFICES ASSUME NEW r \in Firsts, NEW s \in Firsts, r.code = s.code PROVE r = s
      OBVIOUS
    <3>1. r.id <= s.id /\ s.id <= r.id
      BY DEF Firsts
    <3>2. r \in utterances /\ s \in utterances
      BY <1>1
    <3>3. r.id \in Int /\ s.id \in Int
      BY <3>2 DEF CommandsTypeOK
    <3>4. r.id = s.id
      BY <3>1, <3>3
    <3>5. \A x, y \in utterances : x.id = y.id => x = y
      BY DEF CommandsTypeOK
    <3> QED
      BY <3>2, <3>4, <3>5
  <2>4. p[1] = q[1]
    <3>1. ById(Firsts)[p[1]] \in Firsts /\ ById(Firsts)[q[1]] \in Firsts
      BY <1>3, <2>1
    <3>2. ById(Firsts)[p[1]].code = ById(Firsts)[q[1]].code
      BY <2>1, <2>2
    <3>3. ById(Firsts)[p[1]] = ById(Firsts)[q[1]]
      BY <2>3, <3>1, <3>2
    <3> QED
      BY <1>3, <2>1, <3>3
  <2>5. /\ p[2] \in DOMAIN ById(OfCode(form[p[1]].code))
        /\ q[2] \in DOMAIN ById(OfCode(form[p[1]].code))
    BY <1>2, <1>6, <2>4
  <2>6. p[2] = q[2]
    BY <1>4, <1>9, <2>4, <2>5
  <2> QED
    BY <1>6, <2>4, <2>6
<1>10. ASSUME NEW r \in Base
       PROVE  \E p \in P : RowFor(p) = r
  <2>1. PICK s \in Firsts : s.code = r.code
    BY FirstOfCode
  <2>2. PICK i \in DOMAIN form : ById(Firsts)[i] = s
    BY <1>2, <1>3
  <2>3. form[i].code = r.code
    BY <1>2, <2>1, <2>2
  <2>4. r \in OfCode(form[i].code)
    BY <2>3 DEF OfCode
  <2>5. PICK n \in DOMAIN ById(OfCode(form[i].code)) : ById(OfCode(form[i].code))[n] = r
    BY <1>4, <2>4
  <2>6. <<i, n>> \in P /\ RowFor(<<i, n>>) = r
    BY <1>2, <1>7, <2>5
  <2> QED
    BY <2>6
<1> HIDE DEF P, RowFor
<1>11. g \in [P -> Base] /\ \A p \in P : g[p] = RowFor(p)
  BY <1>8
<1>12. g \in Bijection(P, Base)
  <2>1. g \in Injection(P, Base)
    BY <1>9, <1>11 DEF Injection, IsInjective
  <2>2. g \in Surjection(P, Base)
    BY <1>10, <1>11 DEF Surjection
  <2> QED
    BY <2>1, <2>2 DEF Bijection
<1>13. \A p \in P : g[p].code = form[p[1]].code /\ g[p].phrase = form[p[1]].phrases[p[2]]
  BY <1>8, <1>11
<1> HIDE DEF g
<1> QED
  BY <1>5, <1>12, <1>13 DEF P, form

(* Each row of the commands after an upload is one phrase of the dataset, if   *)
(* its examples have phrases, and each phrase a row.                           *)
LEMMA UploadIsTheRows ==
    ASSUME CommandsTypeOK, RowsAreRecords, NamesDiffer, NEW d, HasPhrases(d), ValidDataset(d),
           \A i \in DOMAIN d : 1 \in DOMAIN d[i].phrases
    PROVE  \E h \in Bijection(PhrasesOf(d), RowsAfter(d)) :
               \A p \in PhrasesOf(d) : /\ h[p].code = d[p[1]].code
                                       /\ h[p].phrase = d[p[1]].phrases[p[2]]
<1> DEFINE P == PhrasesOf(d)
           N == NewPhrases(d)
           first(p) == CHOOSE s \in Stays(d[p[1]]) : TRUE
           Old(p) == Stayed(d, p[1], first(p))
           RowFor(p) == IF p \in N THEN Made(d, p) ELSE Old(p)
           h == [p \in P |-> RowFor(p)]
<1>1. /\ N \in SUBSET (Nat \X Nat) /\ IsFiniteSet(N)
      /\ \A p, q \in N : PlaceIn(N, p) = PlaceIn(N, q) => p = q
      /\ \A p \in N : PlaceIn(N, p) \in Nat
  <2>1. N \in SUBSET (Nat \X Nat) /\ IsFiniteSet(N)
    BY NewPhrasesType
  <2> HIDE DEF N
  <2> QED
    BY <2>1, PlacesDiffer
<1>2. \A p \in P : /\ p = <<p[1], p[2]>> /\ p[1] \in DOMAIN d /\ p[2] \in DOMAIN d[p[1]].phrases
                   /\ p[2] \in Nat \ {0}
  <2> SUFFICES ASSUME NEW p \in P
               PROVE  /\ p = <<p[1], p[2]>> /\ p[1] \in DOMAIN d /\ p[2] \in DOMAIN d[p[1]].phrases
                      /\ p[2] \in Nat \ {0}
    OBVIOUS
  <2>1. p = <<p[1], p[2]>> /\ p[1] \in DOMAIN d /\ p[2] \in DOMAIN d[p[1]].phrases
    BY DEF PhrasesOf
  <2>2. PICK m \in Nat : DOMAIN d[p[1]].phrases = 1..m
    BY <2>1 DEF HasPhrases
  <2> QED
    BY <2>1, <2>2
<1>3. \A p \in P : p \notin N => p[2] = 1 /\ first(p) \in Stays(d[p[1]])
  <2> SUFFICES ASSUME NEW p \in P, p \notin N PROVE p[2] = 1 /\ Stays(d[p[1]]) # {}
    OBVIOUS
  <2>1. ~(p[2] > 1) /\ Stays(d[p[1]]) # {}
    BY DEF NewPhrases
  <2> QED
    BY <1>2, <2>1
<1>4. \A p \in N : /\ p \in P /\ (p[2] > 1 \/ Stays(d[p[1]]) = {})
                   /\ Made(d, p).id = nextId + Len(Canonical) + PlaceIn(N, p)
                   /\ Made(d, p).code = d[p[1]].code /\ Made(d, p).phrase = d[p[1]].phrases[p[2]]
  BY NameOfMade
<1>5. ASSUME NEW p \in P, p \notin N
      PROVE  LET s == first(p)
             IN  /\ s \in utterances /\ s \in Base /\ s.name = d[p[1]].name /\ s.name # NoName
                 /\ Old(p).id = s.id /\ Old(p).code = d[p[1]].code
                 /\ Old(p).phrase = d[p[1]].phrases[p[2]]
  <2>1. p[2] = 1 /\ first(p) \in Stays(d[p[1]])
    BY <1>3, <1>5
  <2> HIDE DEF first
  <2> QED
    BY <2>1, NameOfStayed
<1>6. nextId \in Nat /\ Len(Canonical) \in Nat /\ \A s \in utterances : s.id \in Int /\ s.id < nextId
  BY CommandsAssumption DEF CommandsTypeOK
<1>7. \A p \in P : RowFor(p) \in RowsAfter(d)
  <2>1. ASSUME NEW p \in P, p \in N PROVE RowFor(p) \in RowsAfter(d)
    BY <2>1, UploadedRows
  <2>2. ASSUME NEW p \in P, p \notin N PROVE RowFor(p) \in RowsAfter(d)
    <3>1. first(p) \in Stays(d[p[1]]) /\ p[1] \in DOMAIN d
      BY <1>2, <1>3, <2>2
    <3> HIDE DEF first, N
    <3>2. Old(p) \in RowsAfter(d)
      BY <3>1, UploadedRows
    <3> HIDE DEF Old
    <3> QED
      BY <2>2, <3>2
  <2> QED
    BY <2>1, <2>2
<1>8. \A p \in P : RowFor(p).code = d[p[1]].code /\ RowFor(p).phrase = d[p[1]].phrases[p[2]]
  <2> SUFFICES ASSUME NEW p \in P
               PROVE  RowFor(p).code = d[p[1]].code /\ RowFor(p).phrase = d[p[1]].phrases[p[2]]
    OBVIOUS
  <2>1. CASE p \in N
    <3>1. RowFor(p) = Made(d, p)
      BY <2>1
    <3> QED
      BY <1>4, <2>1, <3>1
  <2>2. CASE p \notin N
    <3>1. RowFor(p) = Old(p)
      BY <2>2
    <3> HIDE DEF RowFor, Old
    <3> QED
      BY <1>5, <2>2, <3>1
  <2> QED
    BY <2>1, <2>2
<1> HIDE DEF first, Old, N
<1>9. ASSUME NEW p \in P, NEW q \in P, RowFor(p) = RowFor(q)
      PROVE  p = q
  <2>1. CASE p \in N /\ q \in N
    <3>1. Made(d, p).id = Made(d, q).id
      BY <1>9, <2>1
    <3>2. PlaceIn(N, p) = PlaceIn(N, q)
      BY <1>1, <1>4, <1>6, <2>1, <3>1
    <3> QED
      BY <1>1, <2>1, <3>2
  <2>2. ASSUME NEW x \in N, NEW y \in P, y \notin N
        PROVE  Made(d, x).id # Old(y).id
    <3>1. Made(d, x).id = nextId + Len(Canonical) + PlaceIn(N, x) /\ PlaceIn(N, x) \in Nat
      BY <1>1, <1>4
    <3>2. Old(y).id \in Int /\ Old(y).id < nextId
      BY <1>5, <1>6, <2>2
    <3> QED
      BY <1>6, <3>1, <3>2
  <2>3. CASE p \in N /\ q \notin N
    BY <1>9, <2>2, <2>3
  <2>4. CASE p \notin N /\ q \in N
    BY <1>9, <2>2, <2>4
  <2>5. CASE p \notin N /\ q \notin N
    <3>1. Old(p).id = Old(q).id
      BY <1>9, <2>5
    <3>2. first(p) = first(q)
      BY <1>5, <2>5, <3>1 DEF CommandsTypeOK
    <3>3. d[p[1]].name = d[q[1]].name
      BY <1>5, <2>5, <3>2
    <3>4. p[1] = q[1]
      BY <1>2, <3>3 DEF ValidDataset
    <3>5. p[2] = 1 /\ q[2] = 1
      BY <1>3, <2>5
    <3> QED
      BY <1>2, <3>4, <3>5
  <2> QED
    BY <2>1, <2>3, <2>4, <2>5
<1>10. ASSUME NEW r \in RowsAfter(d)
       PROVE  \E p \in P : RowFor(p) = r
  <2>1. ASSUME NEW p \in N, r = Made(d, p) PROVE \E x \in P : RowFor(x) = r
    <3>1. p \in P /\ RowFor(p) = r
      BY <1>4, <2>1
    <3> QED
      BY <3>1
  <2>2. ASSUME NEW i \in DOMAIN d, NEW s \in Stays(d[i]), r = Stayed(d, i, s)
        PROVE  \E x \in P : RowFor(x) = r
    <3>0. <<i, 1>> \in P
      <4>1. 1 \in DOMAIN d[i].phrases
        OBVIOUS
      <4> QED
        BY <4>1 DEF PhrasesOf
    <3>1. PICK p \in P : p = <<i, 1>>
      BY <3>0
    <3>2. p[1] = i /\ p[2] = 1
      BY <3>1
    <3>3. p \notin N
      BY <1>4, <3>2
    <3>4. first(p) = s
      <4>0. first(p) \in Base /\ first(p).name = d[p[1]].name /\ first(p).name # NoName
        BY <1>5, <3>3
      <4>1. first(p) \in Base /\ first(p).name = d[i].name /\ first(p).name # NoName
        BY <3>2, <4>0
      <4>2. s \in Base /\ s.name = d[i].name
        BY DEF Stays
      <4> QED
        BY <4>1, <4>2 DEF NamesDiffer
    <3>5. Old(p) = r
      BY <2>2, <3>2, <3>4 DEF Old
    <3> QED
      BY <3>3, <3>5
  <2> QED
    BY <2>1, <2>2, UploadedRows DEF N
<1> HIDE DEF P, RowFor
<1>11. h \in [P -> RowsAfter(d)] /\ \A p \in P : h[p] = RowFor(p)
  BY <1>7
<1>12. h \in Bijection(P, RowsAfter(d))
  <2>1. h \in Injection(P, RowsAfter(d))
    BY <1>9, <1>11 DEF Injection, IsInjective
  <2>2. h \in Surjection(P, RowsAfter(d))
    BY <1>10, <1>11 DEF Surjection
  <2> QED
    BY <2>1, <2>2 DEF Bijection
<1>13. \A p \in P : h[p].code = d[p[1]].code /\ h[p].phrase = d[p[1]].phrases[p[2]]
  BY <1>8, <1>11
<1> HIDE DEF h
<1> QED
  BY <1>12, <1>13 DEF P

\* The name of an example of the form is that of a row that stays for it.
LEMMA NamedStay ==
    ASSUME CommandsTypeOK, NEW i \in DOMAIN Coalesced(Base), Coalesced(Base)[i].name # NoName
    PROVE  Stays(Coalesced(Base)[i]) # {}
<1> DEFINE form == Coalesced(Base)
           S == NamedOf(form[i].code)
<1>1. ById(S) # <<>> /\ form[i].name = ById(S)[1].name
  BY FormExamples
<1>2. S \in SUBSET utterances
  BY DEF NamedOf, Base
<1> HIDE DEF form
<1>3. /\ Cardinality(S) \in Nat /\ DOMAIN ById(S) = 1..Cardinality(S)
      /\ \A n \in DOMAIN ById(S) : ById(S)[n] \in S
  <2> HIDE DEF S
  <2> QED
    BY <1>2, ListedOnce
<1>4. Cardinality(S) # 0
  <2> SUFFICES ASSUME Cardinality(S) = 0 PROVE ById(S) = <<>>
    BY <1>1
  <2> DEFINE k == Cardinality(S)
             At(n) == CHOOSE r \in S : Cardinality({s \in S : s.id < r.id}) = n - 1
  <2>1. ById(S) = [n \in 1..k |-> At(n)]
    BY DEF ById
  <2>2. k = 0
    OBVIOUS
  <2> HIDE DEF k, At, S
  <2>3. 1..k = {}
    BY <2>2
  <2>4. ById(S) = [n \in {} |-> At(n)]
    BY <2>1, <2>3
  <2> QED
    BY <2>4
<1>5. 1 \in DOMAIN ById(S)
  BY <1>3, <1>4
<1>6. ById(S)[1] \in S
  BY <1>3, <1>5
<1>7. ById(S)[1] \in Stays(form[i])
  BY <1>1, <1>6 DEF NamedOf, Stays
<1> QED
  BY <1>7 DEF form

(* The contents of rows, and those of the phrases that they are.               *)
LEMMA ContentOfRows ==
    ASSUME NEW d, NEW kept, NEW f \in Bijection(PhrasesOf(d), kept),
           \A p \in PhrasesOf(d) : f[p].code = d[p[1]].code /\ f[p].phrase = d[p[1]].phrases[p[2]]
    PROVE  {<<r.code, r.phrase>> : r \in kept} =
               {<<d[p[1]].code, d[p[1]].phrases[p[2]]>> : p \in PhrasesOf(d)}
<1>1. f \in [PhrasesOf(d) -> kept] /\ \A r \in kept : \E p \in PhrasesOf(d) : f[p] = r
  BY DEF Bijection, Surjection
<1>2. ASSUME NEW r \in kept
      PROVE  \E p \in PhrasesOf(d) : <<r.code, r.phrase>> = <<d[p[1]].code, d[p[1]].phrases[p[2]]>>
  BY <1>1
<1>3. ASSUME NEW p \in PhrasesOf(d)
      PROVE  f[p] \in kept /\ <<f[p].code, f[p].phrase>> = <<d[p[1]].code, d[p[1]].phrases[p[2]]>>
  BY <1>1
<1> QED
  BY <1>2, <1>3

LEMMA EditIsKept ==
    ASSUME CommandsTypeOK, RowsAreRecords, NamesDiffer
    PROVE  EditKeepsCommands
<1> DEFINE form == Coalesced(Base)
           after == Ensured(form)
           Content(kept) == {<<r.code, r.phrase>> : r \in {r \in kept : ~r.synthetic}}
<1> SUFFICES ASSUME ValidDataset(form)
             PROVE  /\ Content(after) = Content(utterances)
                    /\ Cardinality({r \in after : ~r.synthetic}) = Cardinality(Base)
                    /\ \A i \in DOMAIN form : form[i].name # NoName =>
                          \E r \in Base, s \in after :
                              /\ r.name = form[i].name /\ s.name = r.name
                              /\ s.id = r.id /\ s.likes = r.likes
  BY DEF EditKeepsCommands
<1>1. /\ {r \in after : ~r.synthetic} = RowsAfter(form)
      /\ {r \in utterances : ~r.synthetic} = Base
  BY DEF RowsAfter, Base
<1>2. /\ Content(after) = {<<r.code, r.phrase>> : r \in RowsAfter(form)}
      /\ Content(utterances) = {<<r.code, r.phrase>> : r \in Base}
  BY <1>1
<1>3. HasPhrases(form)
  BY FormHasPhrases
<1>4. \A i \in DOMAIN form : 1 \in DOMAIN form[i].phrases
  BY FormIsTheRows
<1>5. PICK g \in Bijection(PhrasesOf(form), Base) :
          \A p \in PhrasesOf(form) : /\ g[p].code = form[p[1]].code
                                     /\ g[p].phrase = form[p[1]].phrases[p[2]]
  BY FormIsTheRows
<1>6. \A i \in DOMAIN form : form[i].name # NoName => Stays(form[i]) # {}
  BY NamedStay
<1> HIDE DEF form, Content
<1>7. PICK h \in Bijection(PhrasesOf(form), RowsAfter(form)) :
          \A p \in PhrasesOf(form) : /\ h[p].code = form[p[1]].code
                                     /\ h[p].phrase = form[p[1]].phrases[p[2]]
  BY <1>3, <1>4, UploadIsTheRows
<1>8. Content(after) = Content(utterances)
  <2>1. {<<r.code, r.phrase>> : r \in Base} =
            {<<form[p[1]].code, form[p[1]].phrases[p[2]]>> : p \in PhrasesOf(form)}
    BY <1>5, ContentOfRows, ZenonT(60)
  <2>2. {<<r.code, r.phrase>> : r \in RowsAfter(form)} =
            {<<form[p[1]].code, form[p[1]].phrases[p[2]]>> : p \in PhrasesOf(form)}
    BY <1>7, ContentOfRows, ZenonT(60)
  <2> QED
    BY <1>2, <2>1, <2>2
<1>9. Cardinality({r \in after : ~r.synthetic}) = Cardinality(Base)
  <2>1. IsFiniteSet(Base)
    BY RowsAreFinite, FS_Subset DEF Base
  <2>2. IsFiniteSet(PhrasesOf(form))
    <3>1. g \in Injection(PhrasesOf(form), Base)
      BY DEF Bijection
    <3> QED
      BY <2>1, <3>1, FS_Injection
  <2>3. Cardinality(Base) = Cardinality(PhrasesOf(form))
    BY <2>2, FS_Bijection DEF ExistsBijection
  <2>4. Cardinality(RowsAfter(form)) = Cardinality(PhrasesOf(form))
    BY <2>2, FS_Bijection DEF ExistsBijection
  <2> QED
    BY <1>1, <2>3, <2>4
<1>10. ASSUME NEW i \in DOMAIN form, form[i].name # NoName
       PROVE  \E r \in Base, s \in after :
                  /\ r.name = form[i].name /\ s.name = r.name
                  /\ s.id = r.id /\ s.likes = r.likes
  <2>1. PICK r \in Stays(form[i]) : TRUE
    BY <1>6, <1>10
  <2>2. Stayed(form, i, r) \in RowsAfter(form)
    BY UploadedRows
  <2>3. Stayed(form, i, r) \in after
    BY <2>2 DEF RowsAfter
  <2>4. /\ r \in Base /\ r.name = form[i].name /\ Stayed(form, i, r).name = r.name
        /\ Stayed(form, i, r).id = r.id /\ Stayed(form, i, r).likes = r.likes
    BY NameOfStayed
  <2> QED
    BY <2>3, <2>4
<1> QED
  BY <1>8, <1>9, <1>10

(* thingpedia_upload.ts and example.ts: the form of a device, submitted as it  *)
(* is shown, changes none of its commands and keeps the rows that have a name, *)
(* and so the likes of them, and likes are counted; for any datasets, users    *)
(* and requests, however the rows came to be.                                  *)
THEOREM CommandsAreAlwaysKept == CommandsSpec => []CommandsAreKept
<1>1. CommandsInv /\ NamesDiffer => EditKeepsCommands
  BY EditIsKept DEF CommandsInv
<1>2. LikesAreCounted /\ EditKeepsCommands => CommandsAreKept
  BY DEF CommandsAreKept
<1> QED
  BY <1>1, <1>2, CommandsInvariant, NamesInvariant, CommandLikesAreCounted, PTL

\* The versions that a device of a kind can have, of the classes that are uploaded.
VersionRows(k) ==
    {[class |-> o.class, factory |-> FactoryOf(k, o.class)] : o \in {o \in DeviceOffers : o.kind = k}}

(* The row of a device is of its newest version, but for the kinds that went    *)
(* with their own rows; and the kinds that it still names are devices.          *)
RowIsOfNewest(k) ==
    /\ devices[k] \in DeviceRow
    /\ codeVersions[k] # <<>>
    /\ devices[k].developer_version = Len(codeVersions[k]) - 1
    /\ devices[k].approved_version \in 0..Len(codeVersions[k]) - 1 \cup {NoVersion}
    /\ devices[k].category = CategoryOf(NewestClass(k))
    /\ devices[k].discovery = DiscoveryType(NewestClass(k))
    /\ devices[k].services = DiscoveryServices(NewestClass(k))
    /\ devices[k].extends = NewestClass(k).extends \ dropped[k]
    /\ devices[k].child_types = NewestClass(k).child_types \ dropped[k]
    /\ KindsOf(devices[k]) \subseteq Present

DevicesInv ==
    /\ DOMAIN devices = DeviceKinds /\ DOMAIN codeVersions = DeviceKinds /\ DOMAIN dropped = DeviceKinds
    /\ \A k \in DeviceKinds : codeVersions[k] \in Seq(VersionRows(k))
    /\ \A k \in DeviceKinds \ Present : codeVersions[k] = <<>> /\ dropped[k] = {}
    /\ \A k \in Present : RowIsOfNewest(k)

\* What is made of a class that is uploaded has the types of the columns.
LEMMA ClassColumns ==
    ASSUME NEW o \in DeviceOffers
    PROVE  /\ o.kind \in DeviceKinds /\ CategoryOf(o.class) \in Categories
           /\ DiscoveryType(o.class) \in {"bluetooth", "upnp", "none"}
           /\ DiscoveryServices(o.class) \in SUBSET (UUIDs \cup {0})
<1>1. CategoryOf(o.class) \in Categories
  BY DEF CategoryOf, Categories
<1>2. o.kind \in DeviceKinds /\ o.class.services \in SUBSET (UUIDs \cup {0})
  BY DevicesAssumption
<1>3. DiscoveryServices(o.class) \in SUBSET (UUIDs \cup {0})
  BY <1>2 DEF DiscoveryServices
<1>4. DiscoveryType(o.class) \in {"bluetooth", "upnp", "none"}
  BY DEF DiscoveryType
<1> QED
  BY <1>1, <1>2, <1>3, <1>4

\* At first there are no devices.
LEMMA DevicesInitInv == DevicesInit => DevicesInv
<1> SUFFICES ASSUME DevicesInit PROVE DevicesInv
  OBVIOUS
<1>1. DOMAIN devices = DeviceKinds /\ DOMAIN codeVersions = DeviceKinds /\ DOMAIN dropped = DeviceKinds
  BY DEF DevicesInit
<1>2. \A k \in DeviceKinds : devices[k] = NoDevice /\ codeVersions[k] = <<>> /\ dropped[k] = {}
  BY DEF DevicesInit
<1>3. Present = {}
  BY <1>2 DEF Present
<1>4. \A S : <<>> \in Seq(S)
  OBVIOUS
<1> QED
  BY <1>1, <1>2, <1>3, <1>4 DEF DevicesInv

\* The row that an upload leaves is of its class.
LEMMA UploadedColumns ==
    ASSUME NEW old, NEW o \in DeviceOffers, NEW org \in Organizations, NEW approve \in BOOLEAN,
           old = NoDevice \/ old \in DeviceRow
    PROVE  LET row == UploadedRow(old, o.kind, org, o.class, approve)
           IN  /\ row.owner \in Organizations
               /\ row.developer_version = IF old = NoDevice THEN 0 ELSE old.developer_version + 1
               /\ \/ row.approved_version = row.developer_version
                  \/ old = NoDevice /\ row.approved_version = NoVersion
                  \/ old # NoDevice /\ row.approved_version = old.approved_version
               /\ row.category = CategoryOf(o.class)
               /\ row.discovery = DiscoveryType(o.class) /\ row.services = DiscoveryServices(o.class)
               /\ row.extends = o.class.extends /\ row.child_types = o.class.child_types
<1>1. old # NoDevice => old.owner \in Organizations
  BY DEF DeviceRow
<1> QED
  BY <1>1 DEF UploadedRow

\* ... and a row of the table if the kinds of the class are kinds.
LEMMA UploadedIsRow ==
    ASSUME NEW old, NEW o \in DeviceOffers, NEW org \in Organizations, NEW approve \in BOOLEAN,
           old = NoDevice \/ old \in DeviceRow, KindsOf(o.class) \subseteq DeviceKinds
    PROVE  UploadedRow(old, o.kind, org, o.class, approve) \in DeviceRow
<1> DEFINE row == UploadedRow(old, o.kind, org, o.class, approve)
<1>1. old # NoDevice => /\ old.developer_version \in Nat
                        /\ old.approved_version \in Nat \cup {NoVersion}
                        /\ old.owner \in Organizations
  BY DEF DeviceRow
<1>2. /\ row.owner \in Organizations /\ row.developer_version \in Nat
      /\ row.approved_version \in Nat \cup {NoVersion}
  BY <1>1, UploadedColumns
<1>3. /\ row.category \in Categories /\ row.services \in SUBSET (UUIDs \cup {0})
      /\ row.extends \in SUBSET DeviceKinds /\ row.child_types \in SUBSET DeviceKinds
      /\ row.discovery \in {"bluetooth", "upnp", "none"}
  <2>1. /\ CategoryOf(o.class) \in Categories /\ DiscoveryServices(o.class) \in SUBSET (UUIDs \cup {0})
        /\ DiscoveryType(o.class) \in {"bluetooth", "upnp", "none"}
    BY ClassColumns
  <2>2. o.class.extends \in SUBSET DeviceKinds /\ o.class.child_types \in SUBSET DeviceKinds
    BY DEF KindsOf
  <2>3. /\ row.category = CategoryOf(o.class)
        /\ row.discovery = DiscoveryType(o.class) /\ row.services = DiscoveryServices(o.class)
        /\ row.extends = o.class.extends /\ row.child_types = o.class.child_types
    BY ONLY TRUE DEF UploadedRow
  <2> QED
    BY ONLY <2>1, <2>2, <2>3
<1>4. row = [owner |-> row.owner, developer_version |-> row.developer_version,
             approved_version |-> row.approved_version, category |-> row.category,
             extends |-> row.extends, child_types |-> row.child_types,
             discovery |-> row.discovery, services |-> row.services]
  BY DEF UploadedRow
<1> HIDE DEF row
<1>5. row \in DeviceRow
  BY ONLY <1>2, <1>3, <1>4 DEF DeviceRow
<1> QED
  BY <1>5 DEF row

\* A row is as its newest version is as long as it, its versions, the kinds that went
\* and what the kinds it names are stay the same.
LEMMA SameRow ==
    ASSUME NEW k \in Present, RowIsOfNewest(k),
           devices'[k] = devices[k], codeVersions'[k] = codeVersions[k], dropped'[k] = dropped[k],
           Present \subseteq Present'
    PROVE  RowIsOfNewest(k)'
<1>1. NewestClass(k)' = NewestClass(k)
  BY DEF NewestClass, Version1
<1>2. KindsOf(devices[k])' \subseteq Present'
  BY DEF RowIsOfNewest
<1> QED
  BY <1>1, <1>2 DEF RowIsOfNewest

\* An upload makes a version, and a device.
LEMMA UploadKeepsDevices ==
    ASSUME DevicesInv, NEW org \in Organizations, NEW o \in DeviceOffers, NEW approve \in BOOLEAN,
           UploadDevice(org, o, approve)
    PROVE  DevicesInv'
<1> DEFINE k == o.kind
           c == o.class
           row == UploadedRow(devices[k], k, org, c, approve)
           version == [class |-> c, factory |-> FactoryOf(k, c)]
<1>1. k \in DeviceKinds
  BY ClassColumns
<1>2. /\ devices' = [devices EXCEPT ![k] = row]
      /\ codeVersions' = [codeVersions EXCEPT ![k] = Append(@, version)]
      /\ dropped' = [dropped EXCEPT ![k] = {}]
      /\ KindsOf(c) \subseteq Present \cup {k}
  BY DEF UploadDevice
<1>3. /\ DOMAIN devices = DeviceKinds /\ DOMAIN codeVersions = DeviceKinds /\ DOMAIN dropped = DeviceKinds
      /\ \A d \in DeviceKinds : codeVersions[d] \in Seq(VersionRows(d))
      /\ \A d \in DeviceKinds \ Present : codeVersions[d] = <<>> /\ dropped[d] = {}
      /\ \A d \in Present : RowIsOfNewest(d)
  BY DEF DevicesInv
<1>4. \A d : d \in Present <=> d \in DeviceKinds /\ devices[d] # NoDevice
  BY Zenon DEF Present
<1>5. devices[k] = NoDevice \/ devices[k] \in DeviceRow
  BY <1>1, <1>3, <1>4 DEF RowIsOfNewest
<1>6. KindsOf(c) \subseteq DeviceKinds
  BY <1>1, <1>2, <1>4
<1>7. row \in DeviceRow
  BY <1>5, <1>6, UploadedIsRow
<1>8. version \in VersionRows(k)
  BY DEF VersionRows
<1> DEFINE vs == codeVersions[k]
<1>9. vs \in Seq(VersionRows(k))
  BY <1>1, <1>3
<1>10. /\ devices[k] = NoDevice => Len(vs) = 0
       /\ devices[k] # NoDevice => /\ Len(vs) > 0 /\ devices[k].developer_version = Len(vs) - 1
                                   /\ devices[k].approved_version \in 0..Len(vs) - 1 \cup {NoVersion}
  <2>1. devices[k] = NoDevice => vs = <<>>
    BY <1>1, <1>3, <1>4
  <2>2. devices[k] # NoDevice => RowIsOfNewest(k)
    BY <1>1, <1>3, <1>4
  <2> QED
    BY <1>9, <2>1, <2>2 DEF RowIsOfNewest
<1>11. /\ row.developer_version = Len(vs)
       /\ row.approved_version \in 0..Len(vs) \cup {NoVersion}
       /\ row.category = CategoryOf(c)
       /\ row.discovery = DiscoveryType(c) /\ row.services = DiscoveryServices(c)
       /\ row.extends = c.extends /\ row.child_types = c.child_types
  <2>1. /\ row.developer_version = IF devices[k] = NoDevice THEN 0 ELSE devices[k].developer_version + 1
        /\ \/ row.approved_version = row.developer_version
           \/ devices[k] = NoDevice /\ row.approved_version = NoVersion
           \/ devices[k] # NoDevice /\ row.approved_version = devices[k].approved_version
        /\ row.category = CategoryOf(c)
        /\ row.discovery = DiscoveryType(c) /\ row.services = DiscoveryServices(c)
        /\ row.extends = c.extends /\ row.child_types = c.child_types
    BY <1>5, UploadedColumns
  <2>2. Len(vs) \in Nat
    BY <1>9
  <2> HIDE DEF row, vs
  <2>3. row.developer_version = Len(vs)
    BY ONLY <1>10, <2>1, <2>2
  <2>4. row.approved_version \in 0..Len(vs) \cup {NoVersion}
    BY ONLY <1>10, <2>1, <2>2, <2>3
  <2> QED
    BY ONLY <2>1, <2>3, <2>4
<1> HIDE DEF row, version
<1>12. /\ devices'[k] = row /\ codeVersions'[k] = Append(vs, version) /\ dropped'[k] = {}
       /\ \A d \in DeviceKinds \ {k} : /\ devices'[d] = devices[d] /\ codeVersions'[d] = codeVersions[d]
                                       /\ dropped'[d] = dropped[d]
  BY <1>1, <1>2, <1>3
<1>13. Present' = Present \cup {k}
  <2>1. row # NoDevice
    BY <1>7, NoRowAssumption
  <2> QED
    BY <1>1, <1>4, <1>12, <2>1 DEF Present
<1>14. /\ Append(vs, version) \in Seq(VersionRows(k)) /\ Len(Append(vs, version)) = Len(vs) + 1
       /\ Append(vs, version)[Len(vs) + 1] = version /\ Append(vs, version) # <<>> /\ Len(vs) \in Nat
  BY <1>8, <1>9
<1>15. NewestClass(k)' = c
  <2>1. codeVersions'[k][Len(codeVersions'[k])].class = c
    BY <1>12, <1>14 DEF version
  <2>2. Len(codeVersions'[k]) - 1 + 1 = Len(codeVersions'[k])
    BY <1>12, <1>14
  <2> QED
    BY <2>1, <2>2 DEF NewestClass, Version1
<1>16. RowIsOfNewest(k)'
  <2>1. /\ devices'[k] = row /\ dropped'[k] = {} /\ codeVersions'[k] = Append(vs, version)
        /\ Len(codeVersions'[k]) - 1 = Len(vs)
    BY <1>12, <1>14
  <2>2. KindsOf(row) \subseteq Present'
    BY <1>2, <1>11, <1>13 DEF KindsOf
  <2> HIDE DEF vs
  <2>3. devices'[k] \in DeviceRow /\ codeVersions'[k] # <<>>
    BY <1>7, <1>14, <2>1
  <2>4. /\ devices'[k].developer_version = Len(codeVersions'[k]) - 1
        /\ devices'[k].approved_version \in 0..Len(codeVersions'[k]) - 1 \cup {NoVersion}
    BY <1>11, <2>1
  <2>5. /\ devices'[k].category = CategoryOf(NewestClass(k)')
        /\ devices'[k].discovery = DiscoveryType(NewestClass(k)')
        /\ devices'[k].services = DiscoveryServices(NewestClass(k)')
        /\ devices'[k].extends = NewestClass(k)' .extends \ dropped'[k]
        /\ devices'[k].child_types = NewestClass(k)' .child_types \ dropped'[k]
    BY <1>11, <1>15, <2>1
  <2>6. KindsOf(devices'[k]) \subseteq Present'
    BY <2>1, <2>2
  <2> QED
    BY <2>3, <2>4, <2>5, <2>6 DEF RowIsOfNewest, CategoryOf, DiscoveryType, DiscoveryServices, KindsOf
<1>17. \A d \in Present \ {k} : RowIsOfNewest(d)'
  BY <1>3, <1>4, <1>12, <1>13, SameRow
<1>18. DOMAIN devices' = DeviceKinds /\ DOMAIN codeVersions' = DeviceKinds /\ DOMAIN dropped' = DeviceKinds
  BY <1>2, <1>3
<1>19. \A d \in DeviceKinds : codeVersions'[d] \in Seq(VersionRows(d))
  BY <1>3, <1>12, <1>14
<1>20. \A d \in DeviceKinds \ Present' : codeVersions'[d] = <<>> /\ dropped'[d] = {}
  BY <1>3, <1>12, <1>13
<1>21. \A d : VersionRows(d)' = VersionRows(d)
  BY DEF VersionRows, FactoryOf, CategoryOf
<1> QED
  BY <1>13, <1>16, <1>17, <1>18, <1>19, <1>20, <1>21 DEF DevicesInv

\* Approval changes nothing else.
LEMMA ApprovalKeepsDevices ==
    ASSUME DevicesInv, NEW k \in Present, NEW v \in 0..Len(codeVersions[k]) - 1 \cup {NoVersion},
           devices' = [devices EXCEPT ![k].approved_version = v], UNCHANGED <<codeVersions, dropped>>
    PROVE  DevicesInv'
<1>1. /\ DOMAIN devices = DeviceKinds /\ DOMAIN codeVersions = DeviceKinds /\ DOMAIN dropped = DeviceKinds
      /\ \A d \in DeviceKinds : codeVersions[d] \in Seq(VersionRows(d))
      /\ \A d \in DeviceKinds \ Present : codeVersions[d] = <<>> /\ dropped[d] = {}
      /\ \A d \in Present : RowIsOfNewest(d)
  BY DEF DevicesInv
<1>2. \A d : d \in Present <=> d \in DeviceKinds /\ devices[d] # NoDevice
  BY Zenon DEF Present
<1> DEFINE row == [devices[k] EXCEPT !.approved_version = v]
<1>3. /\ devices' = [devices EXCEPT ![k] = row] /\ codeVersions' = codeVersions /\ dropped' = dropped
  OBVIOUS
<1>4. devices[k] \in DeviceRow /\ v \in Nat \cup {NoVersion}
  <2>1. devices[k] \in DeviceRow
    BY <1>1 DEF RowIsOfNewest
  <2>2. codeVersions[k] \in Seq(VersionRows(k))
    BY <1>1, <1>2
  <2> QED
    BY <2>1, <2>2
<1>5. /\ row \in DeviceRow /\ row.approved_version = v
      /\ row.developer_version = devices[k].developer_version
      /\ row.category = devices[k].category
      /\ row.discovery = devices[k].discovery /\ row.services = devices[k].services
      /\ row.extends = devices[k].extends /\ row.child_types = devices[k].child_types
  BY <1>4 DEF DeviceRow
<1> HIDE DEF row
<1>6. devices'[k] = row /\ \A d \in DeviceKinds \ {k} : devices'[d] = devices[d]
  BY <1>1, <1>2, <1>3
<1>7. Present' = Present
  <2>1. row # NoDevice
    BY <1>5, NoRowAssumption
  <2> QED
    BY <1>2, <1>6, <2>1 DEF Present
<1>8. NewestClass(k)' = NewestClass(k)
  BY <1>3 DEF NewestClass, Version1
<1>9. RowIsOfNewest(k)'
  <2>1. RowIsOfNewest(k)
    BY <1>1
  <2>2. KindsOf(devices[k])' = KindsOf(devices[k])
    BY <1>5, <1>6 DEF KindsOf
  <2>3. CategoryOf(NewestClass(k))' = CategoryOf(NewestClass(k))
    BY <1>8 DEF CategoryOf
  <2>4. /\ DiscoveryServices(NewestClass(k))' = DiscoveryServices(NewestClass(k))
        /\ DiscoveryType(NewestClass(k))' = DiscoveryType(NewestClass(k))
    BY <1>8 DEF DiscoveryServices, DiscoveryType
  <2> QED
    BY <1>3, <1>5, <1>6, <1>7, <1>8, <2>1, <2>2, <2>3, <2>4 DEF RowIsOfNewest
<1>10. \A d \in Present \ {k} : RowIsOfNewest(d)'
  BY <1>1, <1>2, <1>3, <1>6, <1>7, SameRow
<1>11. \A d : VersionRows(d)' = VersionRows(d)
  BY DEF VersionRows, FactoryOf, CategoryOf
<1> QED
  BY <1>1, <1>3, <1>7, <1>9, <1>10, <1>11 DEF DevicesInv

\* What goes with a device is the device and the rows that name its kind.
LEMMA DeleteKeepsDevices ==
    ASSUME DevicesInv, NEW org, NEW k \in DeviceKinds, DeleteDevice(org, k)
    PROVE  DevicesInv'
<1>1. /\ DOMAIN devices = DeviceKinds /\ DOMAIN codeVersions = DeviceKinds /\ DOMAIN dropped = DeviceKinds
      /\ \A d \in DeviceKinds : codeVersions[d] \in Seq(VersionRows(d))
      /\ \A d \in DeviceKinds \ Present : codeVersions[d] = <<>> /\ dropped[d] = {}
      /\ \A d \in Present : RowIsOfNewest(d)
  BY DEF DevicesInv
<1>2. \A d : d \in Present <=> d \in DeviceKinds /\ devices[d] # NoDevice
  BY Zenon DEF Present
<1>3. /\ DOMAIN devices' = DeviceKinds /\ DOMAIN codeVersions' = DeviceKinds /\ DOMAIN dropped' = DeviceKinds
      /\ k \in Present
      /\ \A d \in DeviceKinds : d = k \/ d \notin Present => devices'[d] = NoDevice /\ dropped'[d] = {}
      /\ \A d \in Present \ {k} :
            /\ devices'[d] = [devices[d] EXCEPT !.extends = @ \ {k}, !.child_types = @ \ {k}]
            /\ dropped'[d] = dropped[d] \cup (KindsOf(devices[d]) \cap {k})
  BY <1>1, <1>2, Zenon DEF DeleteDevice, Without
<1>4. codeVersions'[k] = <<>> /\ \A d \in DeviceKinds \ {k} : codeVersions'[d] = codeVersions[d]
  BY <1>1 DEF DeleteDevice
<1>5. ASSUME NEW d \in Present, d # k
      PROVE  /\ devices'[d] \in DeviceRow /\ devices'[d].developer_version = devices[d].developer_version
             /\ devices'[d].approved_version = devices[d].approved_version
             /\ devices'[d].category = devices[d].category
             /\ devices'[d].discovery = devices[d].discovery /\ devices'[d].services = devices[d].services
             /\ devices'[d].extends = devices[d].extends \ {k}
             /\ devices'[d].child_types = devices[d].child_types \ {k}
  <2>1. devices[d] \in DeviceRow
    BY <1>1, <1>5 DEF RowIsOfNewest
  <2>2. devices'[d] = [devices[d] EXCEPT !.extends = @ \ {k}, !.child_types = @ \ {k}]
    BY <1>3, <1>5, Zenon
  <2> QED
    BY <2>1, <2>2 DEF DeviceRow
<1>6. Present' = Present \ {k}
  <2>1. \A d \in Present \ {k} : devices'[d] # NoDevice
    BY <1>5, NoRowAssumption
  <2> QED
    BY <1>2, <1>3, <2>1, Zenon DEF Present
<1>7. ASSUME NEW d \in Present', d # k PROVE RowIsOfNewest(d)'
  <2>1. d \in Present /\ d \in DeviceKinds /\ RowIsOfNewest(d)
    BY <1>1, <1>2, <1>6, <1>7
  <2>2. codeVersions'[d] = codeVersions[d]
    BY <1>4, <1>7, <2>1
  <2>3. NewestClass(d)' = NewestClass(d)
    BY <2>2 DEF NewestClass, Version1
  <2>4. CategoryOf(NewestClass(d))' = CategoryOf(NewestClass(d))
    BY <2>3 DEF CategoryOf
  <2>5. /\ DiscoveryServices(NewestClass(d))' = DiscoveryServices(NewestClass(d))
        /\ DiscoveryType(NewestClass(d))' = DiscoveryType(NewestClass(d))
    BY <2>3 DEF DiscoveryServices, DiscoveryType
  <2>6. dropped'[d] = dropped[d] \cup (KindsOf(devices[d]) \cap {k})
    BY <1>3, <1>7, <2>1, Zenon
  <2>7. /\ devices'[d] \in DeviceRow /\ devices'[d].developer_version = devices[d].developer_version
        /\ devices'[d].approved_version = devices[d].approved_version
        /\ devices'[d].category = devices[d].category
        /\ devices'[d].discovery = devices[d].discovery /\ devices'[d].services = devices[d].services
        /\ devices'[d].extends = devices[d].extends \ {k}
        /\ devices'[d].child_types = devices[d].child_types \ {k}
    BY <1>5, <1>7, <2>1
  <2>8. /\ devices[d].extends = NewestClass(d).extends \ dropped[d]
        /\ devices[d].child_types = NewestClass(d).child_types \ dropped[d]
        /\ KindsOf(devices[d]) \subseteq Present
    BY <2>1 DEF RowIsOfNewest
  <2>9. /\ devices'[d].extends = NewestClass(d).extends \ dropped'[d]
        /\ devices'[d].child_types = NewestClass(d).child_types \ dropped'[d]
    BY <2>6, <2>7, <2>8 DEF KindsOf
  <2>10. KindsOf(devices[d])' \subseteq Present'
    BY <1>6, <2>7, <2>8 DEF KindsOf
  <2>11. /\ codeVersions'[d] # <<>>
         /\ devices'[d].developer_version = Len(codeVersions'[d]) - 1
         /\ devices'[d].approved_version \in 0..Len(codeVersions'[d]) - 1 \cup {NoVersion}
         /\ devices'[d].category = CategoryOf(NewestClass(d))'
         /\ devices'[d].discovery = DiscoveryType(NewestClass(d))'
         /\ devices'[d].services = DiscoveryServices(NewestClass(d))'
    BY <2>1, <2>2, <2>4, <2>5, <2>7 DEF RowIsOfNewest
  <2> QED
    BY <2>3, <2>7, <2>9, <2>10, <2>11 DEF RowIsOfNewest
<1>8. \A d \in DeviceKinds : codeVersions'[d] \in Seq(VersionRows(d))
  <2>1. <<>> \in Seq(VersionRows(k))
    OBVIOUS
  <2> QED
    BY <1>1, <1>4, <2>1
<1>9. \A d \in DeviceKinds \ Present' : codeVersions'[d] = <<>> /\ dropped'[d] = {}
  BY <1>1, <1>3, <1>4, <1>6, Zenon
<1>10. \A d : VersionRows(d)' = VersionRows(d)
  BY DEF VersionRows, FactoryOf, CategoryOf
<1>11. \A d \in Present' : RowIsOfNewest(d)'
  BY <1>6, <1>7
<1> QED
  BY <1>3, <1>8, <1>9, <1>10, <1>11, Zenon DEF DevicesInv

\* The rows of Thingpedia always are of their newest versions.
LEMMA DevicesInvariant == DevicesSpec => []DevicesInv
<1>1. ASSUME DevicesInv, [DevicesNext]_devicesVars PROVE DevicesInv'
  <2>1. ASSUME NEW org \in Organizations, NEW offer \in DeviceOffers, NEW approve \in BOOLEAN,
               UploadDevice(org, offer, approve)
        PROVE  DevicesInv'
    BY <1>1, <2>1, UploadKeepsDevices
  <2>2. ASSUME NEW org, NEW k \in DeviceKinds, DeleteDevice(org, k) PROVE DevicesInv'
    BY <1>1, <2>2, DeleteKeepsDevices
  <2>3. ASSUME NEW k \in DeviceKinds, ApproveDevice(k) PROVE DevicesInv'
    <3>1. k \in Present /\ RowIsOfNewest(k) /\ codeVersions[k] \in Seq(VersionRows(k))
      BY <1>1, <2>3 DEF DevicesInv, ApproveDevice
    <3>2. devices[k].developer_version \in 0..Len(codeVersions[k]) - 1 \cup {NoVersion}
      <4>1. devices[k].developer_version = Len(codeVersions[k]) - 1 /\ codeVersions[k] # <<>>
        BY <3>1 DEF RowIsOfNewest
      <4>2. Len(codeVersions[k]) \in Nat /\ Len(codeVersions[k]) > 0
        BY <3>1, <4>1
      <4> QED
        BY <4>1, <4>2
    <3> QED
      BY <1>1, <2>3, <3>1, <3>2, ApprovalKeepsDevices DEF ApproveDevice
  <2>4. ASSUME NEW k \in DeviceKinds, UnapproveDevice(k) PROVE DevicesInv'
    BY <1>1, <2>4, ApprovalKeepsDevices DEF UnapproveDevice
  <2>5. CASE UNCHANGED devicesVars
    <3>1. Present' = Present
      BY <2>5 DEF Present, devicesVars
    <3>2. \A k : VersionRows(k)' = VersionRows(k)
      BY DEF VersionRows, FactoryOf, CategoryOf
    <3>3. \A k \in Present' : RowIsOfNewest(k)'
      BY <1>1, <2>5, <3>1, SameRow DEF DevicesInv, devicesVars
    <3> QED
      BY <1>1, <2>5, <3>1, <3>2, <3>3 DEF DevicesInv, devicesVars
  <2> QED
    BY <1>1, <2>1, <2>2, <2>3, <2>4, <2>5 DEF DevicesNext, Organizations
<1> QED
  BY <1>1, DevicesInitInv, PTL DEF DevicesSpec

\* A row, and the classes of its versions.
LEMMA OneDevice ==
    ASSUME DevicesInv, NEW k \in Present
    PROVE  /\ k \in DeviceKinds /\ k \in Nat /\ RowIsOfNewest(k) /\ devices[k].owner \in Organizations
           /\ Len(codeVersions[k]) \in Nat /\ Len(codeVersions[k]) > 0
           /\ \A v \in 0..Len(codeVersions[k]) - 1 :
                 \E o \in DeviceOffers : /\ o.kind = k /\ Version1(k, v).class = o.class
                                         /\ Version1(k, v).factory = FactoryOf(k, o.class)
           /\ devices[k].developer_version \in 0..Len(codeVersions[k]) - 1
           /\ devices[k].approved_version \in 0..Len(codeVersions[k]) - 1 \cup {NoVersion}
           /\ \A v \in 0..Len(codeVersions[k]) - 1 : v \in Nat /\ v # NoVersion
<1>1. k \in DeviceKinds /\ k \in Nat /\ RowIsOfNewest(k) /\ codeVersions[k] \in Seq(VersionRows(k))
  BY DevicesAssumption DEF DevicesInv, Present
<1>2. /\ devices[k] \in DeviceRow /\ codeVersions[k] # <<>>
      /\ devices[k].developer_version = Len(codeVersions[k]) - 1
      /\ devices[k].approved_version \in 0..Len(codeVersions[k]) - 1 \cup {NoVersion}
  BY <1>1 DEF RowIsOfNewest
<1>3. Len(codeVersions[k]) \in Nat /\ Len(codeVersions[k]) > 0
  BY <1>1, <1>2
<1>4. devices[k].owner \in Organizations
  BY <1>2 DEF DeviceRow
<1>5. ASSUME NEW v \in 0..Len(codeVersions[k]) - 1
      PROVE  \E o \in DeviceOffers : /\ o.kind = k /\ Version1(k, v).class = o.class
                                     /\ Version1(k, v).factory = FactoryOf(k, o.class)
  <2>1. v + 1 \in 1..Len(codeVersions[k])
    BY <1>3
  <2>2. Version1(k, v) \in VersionRows(k)
    BY <1>1, <2>1 DEF Version1
  <2>3. PICK o \in DeviceOffers : o.kind = k /\ Version1(k, v) = [class |-> o.class, factory |-> FactoryOf(k, o.class)]
    BY <2>2, Zenon DEF VersionRows
  <2> QED
    BY <2>3
<1>6. devices[k].developer_version \in 0..Len(codeVersions[k]) - 1
  BY <1>2, <1>3
<1>7. \A v \in 0..Len(codeVersions[k]) - 1 : v \in Nat /\ v # NoVersion
  BY <1>3, DevicesAssumption
<1> QED
  BY <1>1, <1>2, <1>3, <1>4, <1>5, <1>6, <1>7

\* One organization sees one version of a device at most, that of its page, and it sees
\* one if and only if the device is listed.
LEMMA OneVersion ==
    ASSUME DevicesInv, NEW k \in Present, NEW key \in Keyholders
    PROVE  /\ VersionsOf(key, k) \in SUBSET {DetailsVersion(key, k)}
           /\ DetailsVersion(key, k) \in VersionsOf(key, k) <=> DetailsVersion(key, k) # NoVersion
           /\ MayList(key, k) <=> DetailsVersion(key, k) # NoVersion
           /\ DetailsVersion(key, k) # NoVersion => DetailsVersion(key, k) \in 0..Len(codeVersions[k]) - 1
<1> DEFINE n == Len(codeVersions[k]) - 1
           d == devices[k].developer_version
           a == devices[k].approved_version
           owner == devices[k].owner
<1>1. /\ d \in 0..n /\ a \in 0..n \cup {NoVersion} /\ NoVersion \notin 0..n
      /\ owner \in Developers \cup {Administrators}
  BY OneDevice DEF Organizations
<1>2. /\ Administrators \notin Developers /\ Stranger \notin Developers \cup {Administrators}
      /\ key \in Developers \cup {Administrators, Stranger}
  BY DevicesAssumption DEF Keyholders
<1>3. VersionsOf(key, k) = {v \in 0..n : IF key = Administrators THEN v = d
                                        ELSE IF key # Stranger
                                        THEN (v = d /\ owner = key) \/ (v = a /\ owner # key)
                                        ELSE v = a}
  BY DEF VersionsOf
<1>4. DetailsVersion(key, k) = IF key \in {owner, Administrators} THEN d ELSE a
  BY DEF DetailsVersion
<1>5. MayList(key, k) <=> key = Administrators \/ a # NoVersion \/ (key # Stranger /\ owner = key)
  BY DEF MayList
<1> HIDE DEF n, d, a, owner
<1>6. CASE key \in {owner, Administrators}
  <2>1. DetailsVersion(key, k) = d /\ MayList(key, k)
    BY ONLY <1>1, <1>2, <1>4, <1>5, <1>6
  <2>2. VersionsOf(key, k) = {v \in 0..n : v = d}
    BY ONLY <1>1, <1>2, <1>3, <1>6
  <2> QED
    BY ONLY <1>1, <2>1, <2>2 DEF n
<1>7. CASE key \notin {owner, Administrators}
  <2>1. DetailsVersion(key, k) = a /\ (MayList(key, k) <=> a # NoVersion)
    BY ONLY <1>1, <1>2, <1>4, <1>5, <1>7
  <2>2. VersionsOf(key, k) = {v \in 0..n : v = a}
    BY ONLY <1>1, <1>2, <1>3, <1>7
  <2> QED
    BY ONLY <1>1, <2>1, <2>2 DEF n
<1> QED
  BY <1>6, <1>7

\* The devices of which an organization sees a version are those that it may list.
LEMMA SeenAreListed ==
    ASSUME DevicesInv, NEW key \in Keyholders
    PROVE  /\ VisibleRows(key) = {<<k, DetailsVersion(key, k)>> : k \in AllApproved(key)}
           /\ {r[1] : r \in VisibleRows(key)} = AllApproved(key)
           /\ AllApproved(key) \in SUBSET Present
           /\ \A k \in AllApproved(key) : /\ DetailsVersion(key, k) \in 0..Len(codeVersions[k]) - 1
                                          /\ <<k, DetailsVersion(key, k)>> \in VisibleRows(key)
           /\ \A r \in VisibleRows(key) : /\ r[1] \in AllApproved(key) /\ r = <<r[1], r[2]>>
                                          /\ r[2] = DetailsVersion(key, r[1])
<1>1. \A k \in Present : /\ VersionsOf(key, k) \in SUBSET {DetailsVersion(key, k)}
                         /\ k \in AllApproved(key) <=> DetailsVersion(key, k) \in VersionsOf(key, k)
                         /\ k \in AllApproved(key) => DetailsVersion(key, k) \in 0..Len(codeVersions[k]) - 1
  BY OneVersion DEF AllApproved
<1>2. AllApproved(key) \in SUBSET Present
  BY DEF AllApproved
<1>3. ASSUME NEW r \in VisibleRows(key)
      PROVE  r[1] \in AllApproved(key) /\ r = <<r[1], r[2]>> /\ r[2] = DetailsVersion(key, r[1])
  <2>1. PICK k \in Present : r \in {<<k, v>> : v \in VersionsOf(key, k)}
    BY Zenon DEF VisibleRows
  <2>2. PICK v \in VersionsOf(key, k) : r = <<k, v>>
    BY <2>1
  <2>3. r[1] = k /\ r[2] = v
    BY <2>2
  <2> QED
    BY <1>1, <2>2, <2>3
<1>4. ASSUME NEW k \in AllApproved(key) PROVE <<k, DetailsVersion(key, k)>> \in VisibleRows(key)
  <2>1. k \in Present /\ DetailsVersion(key, k) \in VersionsOf(key, k)
    BY <1>1, <1>2
  <2>2. <<k, DetailsVersion(key, k)>> \in {<<k, v>> : v \in VersionsOf(key, k)}
    BY <2>1
  <2> QED
    BY <2>1, <2>2 DEF VisibleRows
<1>5. VisibleRows(key) = {<<k, DetailsVersion(key, k)>> : k \in AllApproved(key)}
  <2>1. ASSUME NEW r \in VisibleRows(key) PROVE r \in {<<k, DetailsVersion(key, k)>> : k \in AllApproved(key)}
    <3>1. r = <<r[1], DetailsVersion(key, r[1])>> /\ r[1] \in AllApproved(key)
      BY <1>3
    <3> QED
      BY ONLY <3>1, Zenon
  <2> QED
    BY <1>4, <2>1
<1>6. {r[1] : r \in VisibleRows(key)} = AllApproved(key)
  <2>1. ASSUME NEW k \in AllApproved(key) PROVE k \in {r[1] : r \in VisibleRows(key)}
    <3>1. PICK r \in VisibleRows(key) : r = <<k, DetailsVersion(key, k)>>
      BY <1>4
    <3> QED
      BY <3>1
  <2> QED
    BY <1>3, <2>1
<1> QED
  BY <1>1, <1>2, <1>3, <1>4, <1>5, <1>6

\* Some numbers in their order are each of them once.
LEMMA SortedOnce ==
    ASSUME NEW S \in SUBSET Nat, IsFiniteSet(S)
    PROVE  /\ Cardinality(S) \in Nat /\ Sorted(S) \in [1..Cardinality(S) -> S]
           /\ \A x \in S : \E n \in 1..Cardinality(S) : Sorted(S)[n] = x
<1> DEFINE lower(x) == {j \in S : j < x}
           rank(x) == Cardinality(lower(x))
           k == Cardinality(S)
           f == [x \in S |-> rank(x) + 1]
<1>1. k \in Nat
  BY FS_CardinalityType
<1>2. ASSUME NEW x \in S
      PROVE  IsFiniteSet(lower(x)) /\ rank(x) \in Nat /\ rank(x) < k
  <2>1. lower(x) \in SUBSET S /\ x \notin lower(x)
    OBVIOUS
  <2>2. IsFiniteSet(lower(x)) /\ rank(x) \in Nat
    BY <2>1, FS_Subset, FS_CardinalityType
  <2> HIDE DEF lower
  <2>3. Cardinality(lower(x)) <= k /\ (k = Cardinality(lower(x)) => S = lower(x))
    BY <2>1, FS_Subset
  <2>4. k # Cardinality(lower(x))
    BY <2>1, <2>3
  <2> QED
    BY ONLY <1>1, <2>2, <2>3, <2>4
<1>3. ASSUME NEW x \in S, NEW y \in S, x < y
      PROVE  rank(x) < rank(y)
  <2>1. lower(x) \in SUBSET lower(y) /\ x \in lower(y) /\ x \notin lower(x)
    <3>0. x \in Nat /\ y \in Nat /\ \A j \in S : j \in Nat
      OBVIOUS
    <3>1. \A j \in S : j < x => j < y
      BY <1>3, <3>0
    <3>2. lower(x) \subseteq lower(y)
      BY <3>1
    <3>3. x \in lower(y) /\ x \notin lower(x)
      BY <1>3, <3>0
    <3> QED
      BY <3>2, <3>3
  <2>2. IsFiniteSet(lower(y)) /\ rank(x) \in Nat /\ rank(y) \in Nat
    BY <1>2
  <2> HIDE DEF lower
  <2> QED
    BY <2>1, <2>2, FS_Subset
<1>4. ASSUME NEW x \in S, NEW y \in S, rank(x) = rank(y) PROVE x = y
  <2>1. ~(x < y) /\ ~(y < x)
    <3>1. rank(x) \in Nat /\ rank(y) \in Nat
      BY <1>2
    <3> HIDE DEF rank
    <3> QED
      BY <1>3, <1>4, <3>1
  <2> QED
    BY <2>1
<1>5. \A x \in S : rank(x) \in Nat /\ f[x] = rank(x) + 1 /\ f[x] \in 1..k
  <2> SUFFICES ASSUME NEW x \in S PROVE rank(x) \in Nat /\ f[x] = rank(x) + 1 /\ f[x] \in 1..k
    OBVIOUS
  <2>1. rank(x) \in Nat /\ rank(x) < k /\ f[x] = rank(x) + 1
    BY <1>2
  <2> HIDE DEF rank, k, f
  <2> QED
    BY ONLY <1>1, <2>1
<1>6. DOMAIN f = S /\ f = [x \in S |-> f[x]]
  OBVIOUS
<1> HIDE DEF rank, k, f
<1>7. \A n \in 1..k : \E x \in S : f[x] = n
  <2>1. f \in [S -> 1..k]
    BY ONLY <1>5, <1>6
  <2>2. \A x, y \in S : f[x] = f[y] => x = y
    BY <1>4, <1>5
  <2>3. f \in Injection(S, 1..k)
    BY ONLY <2>1, <2>2 DEF Injection, IsInjective
  <2>4. IsFiniteSet(1..k) /\ Cardinality(1..k) = Cardinality(S)
    <3>1. IsFiniteSet(1..k) /\ Cardinality(1..k) = IF 1 > k THEN 0 ELSE k - 1 + 1
      BY <1>1, FS_Interval
    <3>2. Cardinality(1..k) = k
      BY ONLY <1>1, <3>1
    <3> QED
      BY ONLY <3>1, <3>2 DEF k
  <2>5. \A g \in Injection(S, 1..k) : g \in Surjection(S, 1..k)
    <3> SUFFICES ASSUME NEW g \in Injection(S, 1..k) PROVE g \in Surjection(S, 1..k)
      OBVIOUS
    <3> HIDE DEF f
    <3> QED
      BY <2>4, FS_Injection
  <2> QED
    BY ONLY <2>3, <2>5 DEF Surjection
<1>8. Sorted(S) = [n \in 1..k |-> CHOOSE x \in S : rank(x) = n - 1]
  BY DEF Sorted, rank, k
<1>9. ASSUME NEW n \in 1..k PROVE Sorted(S)[n] \in S /\ rank(Sorted(S)[n]) = n - 1
  <2>1. Sorted(S)[n] = CHOOSE x \in S : rank(x) = n - 1
    BY <1>8
  <2>2. \E x \in S : rank(x) = n - 1
    <3>1. PICK x \in S : f[x] = n
      BY <1>7
    <3>2. rank(x) = n - 1
      BY <1>5, <3>1
    <3> QED
      BY <3>2
  <2> QED
    BY <2>1, <2>2
<1>10. ASSUME NEW x \in S PROVE \E n \in 1..k : Sorted(S)[n] = x
  <2>1. f[x] \in 1..k /\ rank(x) = f[x] - 1
    BY <1>5
  <2>2. Sorted(S)[f[x]] \in S /\ rank(Sorted(S)[f[x]]) = rank(x)
    BY <1>9, <2>1
  <2> QED
    BY <1>4, <2>1, <2>2
<1>11. Sorted(S) \in [1..k -> S]
  BY <1>8, <1>9
<1> QED
  BY <1>1, <1>10, <1>11 DEF k

\* A page of a list has the devices of the page, and one of the next if there is one.
LEMMA PageOfList ==
    ASSUME NEW S \in SUBSET Nat, IsFiniteSet(S), NEW size \in Nat, NEW p \in Nat,
           p * size <= Len(Sorted(S)), size > 0
    PROVE  /\ Len(DeviceList(S, p, size)) <= size + 1
           /\ Len(DeviceList(S, p, size)) = size + 1 <=> (p + 1) * size < Len(Sorted(S))
           /\ \A i \in 1..size : i <= Len(DeviceList(S, p, size)) <=> p * size + i <= Len(Sorted(S))
           /\ \A i \in 1..Len(DeviceList(S, p, size)) :
                 DeviceList(S, p, size)[i] = Sorted(S)[p * size + i]
<1>1. PICK n \in Nat : n = Cardinality(S)
  BY SortedOnce
<1>2. PICK list \in Seq(S) : list = Sorted(S) /\ Len(list) = n
  <2>1. Sorted(S) \in [1..n -> S]
    BY <1>1, SortedOnce
  <2> QED
    BY <2>1
<1>3. PICK a \in Nat : a = p * size
  OBVIOUS
<1>4. (p + 1) * size = a + size
  BY <1>3
<1>5. PICK last \in Nat : last = IF a + size + 1 < n THEN a + size + 1 ELSE n
  OBVIOUS
<1>6. DeviceList(S, p, size) = SubSeq(list, a + 1, last)
  BY <1>1, <1>2, <1>3, <1>4, <1>5 DEF DeviceList
<1>7. a <= n /\ size > 0 /\ size \in Nat
  BY <1>2, <1>3
<1>8. a <= last /\ last <= n
  BY ONLY <1>5, <1>7
<1>9. PICK shown : shown = SubSeq(list, a + 1, last)
  OBVIOUS
<1>10. /\ Len(shown) = last - a
       /\ \A i \in 1..last - a : shown[i] = list[a + i]
  BY ONLY <1>2, <1>3, <1>5, <1>7, <1>8, <1>9
<1>11. /\ last - a <= size + 1 /\ (last - a = size + 1 <=> a + size < n)
       /\ \A i \in 1..size : i <= last - a <=> a + i <= n
  BY ONLY <1>5, <1>7, <1>8
<1> QED
  BY ONLY <1>2, <1>3, <1>4, <1>6, <1>9, <1>10, <1>11

\* The factories of some rows.
LEMMA FactoriesOfRows ==
    ASSUME NEW some, NEW f
    PROVE  f \in Factories(some) <=> f # NoFactory /\ \E r \in some : f = Version1(r[1], r[2]).factory
<1> QED
  BY Zenon DEF Factories

\* What the lists, the search and the pages have of an organization.
LEMMA ListsAgree ==
    ASSUME DevicesInv, NEW key \in Keyholders
    PROVE  /\ Cardinality(VisibleRows(key)) = Cardinality(AllApproved(key))
           /\ UNION {ByCategory(key, c) : c \in Categories} = AllApproved(key)
           /\ \A tag \in DeviceKinds : ByFuzzySearch(key, tag) \subseteq AllApproved(key)
           /\ \A k \in AllApproved(key) : k \notin ByFuzzySearch(key, k) =>
                 SearchLimit <= Cardinality({j \in AllApproved(key) : j < k /\ k \in KindsOf(NewestClass(j))})
           /\ DeviceFactories(key) = UNION {DeviceFactoriesIn(key, c) : c \in Categories}
<1> DEFINE mine == AllApproved(key)
           details == [k \in mine |-> <<k, DetailsVersion(key, k)>>]
<1>1. /\ VisibleRows(key) = {<<k, DetailsVersion(key, k)>> : k \in mine}
      /\ mine \in SUBSET Present
      /\ \A r \in VisibleRows(key) : r[1] \in mine
  BY SeenAreListed
<1>2. Present \in SUBSET DeviceKinds /\ \A k \in Present : devices[k].category \in Categories
  <2>1. \A k \in Present : devices[k] \in DeviceRow
    BY DEF DevicesInv, RowIsOfNewest
  <2> QED
    BY <2>1 DEF DeviceRow, Present
<1>3. Cardinality(VisibleRows(key)) = Cardinality(mine)
  <2>1. details \in [mine -> VisibleRows(key)]
    BY <1>1
  <2>2. \A k, j \in mine : details[k] = details[j] => k = j
    OBVIOUS
  <2>3. \A r \in VisibleRows(key) : \E k \in mine : details[k] = r
    BY <1>1
  <2> HIDE DEF mine, details
  <2>4. details \in Bijection(mine, VisibleRows(key))
    BY <2>1, <2>2, <2>3 DEF Bijection, Injection, Surjection, IsInjective
  <2>5. ExistsBijection(mine, VisibleRows(key))
    BY <2>4 DEF ExistsBijection
  <2>6. IsFiniteSet(mine)
    BY <1>1, <1>2, DevicesAssumption, FS_Subset
  <2> QED
    BY <2>5, <2>6, FS_Bijection
<1>4. UNION {ByCategory(key, c) : c \in Categories} = mine
  <2>1. \A c : \A k \in ByCategory(key, c) : k \in mine
    BY DEF ByCategory, AllApproved
  <2>2. \A k \in mine : k \in ByCategory(key, devices[k].category)
    BY DEF ByCategory, AllApproved
  <2> HIDE DEF mine
  <2> QED
    BY <1>1, <1>2, <2>1, <2>2
<1>5. \A tag \in DeviceKinds : ByFuzzySearch(key, tag) \subseteq mine
  BY DEF ByFuzzySearch, Matches, AllApproved
<1>6. ASSUME NEW k \in mine, k \notin ByFuzzySearch(key, k)
      PROVE  SearchLimit <= Cardinality({j \in mine : j < k /\ k \in KindsOf(NewestClass(j))})
  <2> DEFINE found == {d \in Matches(k) : MayList(key, d)}
             earlier == {j \in found : j < k}
             named == {j \in mine : j < k /\ k \in KindsOf(NewestClass(j))}
  <2>1. k \in found
    BY DEF Matches, AllApproved
  <2>2. ~(Cardinality(earlier) < SearchLimit)
    BY <1>6, <2>1 DEF ByFuzzySearch
  <2>3. earlier \subseteq named
    <3> SUFFICES ASSUME NEW j \in earlier PROVE j \in named
      OBVIOUS
    <3>1. j \in mine /\ j < k /\ j \in Matches(k)
      BY DEF Matches, AllApproved
    <3>2. j \in Nat /\ k \in Nat
      BY <1>1, <1>2, <3>1, DevicesAssumption
    <3>3. j # k /\ k \in KindsOf(devices[j])
      BY <3>1, <3>2 DEF Matches
    <3>4. RowIsOfNewest(j)
      BY <1>1, <3>1 DEF DevicesInv
    <3>5. k \in KindsOf(NewestClass(j))
      BY <3>3, <3>4 DEF RowIsOfNewest, KindsOf
    <3> QED
      BY <3>1, <3>5
  <2>4. IsFiniteSet(named)
    <3>1. named \subseteq DeviceKinds
      BY <1>1, <1>2
    <3> QED
      BY <3>1, DevicesAssumption, FS_Subset
  <2> HIDE DEF earlier, named
  <2>5. Cardinality(earlier) \in Nat /\ Cardinality(named) \in Nat /\ Cardinality(earlier) <= Cardinality(named)
    BY <2>3, <2>4, FS_Subset, FS_CardinalityType
  <2>6. SearchLimit <= Cardinality(named)
    BY <2>2, <2>5, DevicesAssumption
  <2> QED
    BY <2>6 DEF named
<1> DEFINE In(c) == {r \in VisibleRows(key) : devices[r[1]].category = c}
<1>7. DeviceFactories(key) = UNION {DeviceFactoriesIn(key, c) : c \in Categories}
  <2>1. \A c : In(c) \subseteq VisibleRows(key)
    OBVIOUS
  <2>2. \A r \in VisibleRows(key) : r \in In(devices[r[1]].category) /\ devices[r[1]].category \in Categories
    BY <1>1, <1>2
  <2>3. \A c : DeviceFactoriesIn(key, c) = Factories(In(c))
    BY DEF DeviceFactoriesIn
  <2>4. DeviceFactories(key) = Factories(VisibleRows(key))
    BY DEF DeviceFactories
  <2> HIDE DEF In
  <2>5. ASSUME NEW f \in DeviceFactories(key)
        PROVE  f \in UNION {DeviceFactoriesIn(key, c) : c \in Categories}
    <3>1. PICK r \in VisibleRows(key) : f = Version1(r[1], r[2]).factory /\ f # NoFactory
      BY <2>4, FactoriesOfRows
    <3>2. f \in Factories(In(devices[r[1]].category))
      BY <2>2, <3>1, FactoriesOfRows
    <3>3. f \in DeviceFactoriesIn(key, devices[r[1]].category) /\ devices[r[1]].category \in Categories
      BY <2>2, <2>3, <3>2
    <3> QED
      BY ONLY <3>3
  <2>6. ASSUME NEW c \in Categories, NEW f \in DeviceFactoriesIn(key, c)
        PROVE  f \in DeviceFactories(key)
    <3>1. PICK r \in In(c) : f = Version1(r[1], r[2]).factory /\ f # NoFactory
      BY <2>3, FactoriesOfRows
    <3> QED
      BY <2>1, <2>4, <3>1, FactoriesOfRows
  <2> QED
    BY <2>5, <2>6
<1> QED
  BY <1>3, <1>4, <1>5, <1>6, <1>7

\* A device has the commands of the devices that it extends, and that are known to it.
LEMMA ExamplesAgree ==
    ASSUME DevicesInv, NEW key \in Keyholders, NEW k \in Present
    PROVE  ExamplesByKind(key, k) =
              IF k \notin AllApproved(key) THEN {}
              ELSE ({k} \cup (NewestClass(k).extends \ dropped[k])) \cap AllApproved(key)
<1>1. devices[k].extends = NewestClass(k).extends \ dropped[k]
  BY DEF DevicesInv, RowIsOfNewest
<1>2. \A d : d \in AllApproved(key) <=> d \in Present /\ MayList(key, d)
  BY DEF AllApproved
<1>3. \A d : d \in ExamplesByKind(key, k) <=>
          d \in Present /\ ((d = k /\ MayList(key, d))
                            \/ (d \in devices[k].extends /\ MayList(key, d) /\ MayList(key, k)))
  BY DEF ExamplesByKind
<1> QED
  BY ONLY <1>1, <1>2, <1>3, k \in Present

\* A device whose newest version everybody sees needs no review, and no other.
LEMMA QueueAgrees ==
    ASSUME DevicesInv
    PROVE  Present \ ReviewQueue =
              {k \in Present : \A a, b \in Keyholders : VersionsOf(a, k) = VersionsOf(b, k)}
<1> SUFFICES ASSUME NEW k \in Present
             PROVE  k \notin ReviewQueue <=> \A a, b \in Keyholders : VersionsOf(a, k) = VersionsOf(b, k)
  BY DEF ReviewQueue
<1> DEFINE approved == devices[k].approved_version
           developed == devices[k].developer_version
<1>1. k \notin ReviewQueue <=> approved # NoVersion /\ approved = developed
  BY DEF ReviewQueue
<1>2. developed # NoVersion
  BY OneDevice
<1>3. /\ Administrators \in Keyholders /\ Stranger \in Keyholders
      /\ DetailsVersion(Administrators, k) = developed
      /\ DetailsVersion(Stranger, k) = approved
  <2>1. Stranger # Administrators /\ Stranger \notin Organizations /\ devices[k].owner \in Organizations
    BY DevicesAssumption, OneDevice DEF Organizations
  <2> QED
    BY <2>1 DEF Keyholders, DetailsVersion
<1>4. \A key \in Keyholders : DetailsVersion(key, k) \in {approved, developed}
  BY DEF DetailsVersion
<1>5. \A key \in Keyholders : /\ VersionsOf(key, k) \in SUBSET {DetailsVersion(key, k)}
                              /\ DetailsVersion(key, k) \in VersionsOf(key, k) <=> DetailsVersion(key, k) # NoVersion
  BY OneVersion
<1> HIDE DEF approved, developed
<1>6. ASSUME approved # NoVersion, approved = developed, NEW key \in Keyholders
      PROVE  VersionsOf(key, k) = {developed}
  <2>1. DetailsVersion(key, k) = developed
    BY <1>4, <1>6
  <2> QED
    BY ONLY <1>2, <1>5, <2>1, key \in Keyholders
<1>7. ASSUME VersionsOf(Administrators, k) = VersionsOf(Stranger, k)
      PROVE  approved # NoVersion /\ approved = developed
  <2>1. developed \in VersionsOf(Administrators, k)
    BY <1>2, <1>3, <1>5
  <2>2. VersionsOf(Stranger, k) \in SUBSET {approved}
    BY <1>3, <1>5
  <2> QED
    BY <1>2, <1>7, <2>1, <2>2
<1> QED
  BY <1>1, <1>3, <1>6, <1>7

\* The first part of DevicesAreFound.
LEMMA QueriesAlwaysAgree == DevicesInv => QueriesAgree
<1> SUFFICES ASSUME DevicesInv PROVE QueriesAgree
  OBVIOUS
<1>1. ASSUME NEW key \in Keyholders
      PROVE  LET mine == {r[1] : r \in VisibleRows(key)}
                 list == Sorted(mine)
             IN  /\ Cardinality(VisibleRows(key)) = Cardinality(mine)
                 /\ AllApproved(key) = mine
                 /\ UNION {ByCategory(key, c) : c \in Categories} = mine
                 /\ \A tag \in DeviceKinds : ByFuzzySearch(key, tag) \subseteq mine
                 /\ \A k \in mine : k \notin ByFuzzySearch(key, k) =>
                       SearchLimit <= Cardinality({j \in mine : j < k /\ k \in KindsOf(NewestClass(j))})
                 /\ \A k \in Present :
                       VersionsOf(key, k) = IF DetailsVersion(key, k) = NoVersion THEN {}
                                            ELSE {DetailsVersion(key, k)}
                 /\ \A size \in 1..Len(list), p \in 0..Len(list) : p * size <= Len(list) =>
                       LET shown == DeviceList(mine, p, size)
                       IN  /\ Len(shown) <= size + 1
                           /\ Len(shown) = size + 1 <=> (p + 1) * size < Len(list)
                           /\ \A i \in 1..size :
                                 i <= Len(shown) <=> p * size + i <= Len(list)
                           /\ \A i \in 1..Len(shown) : shown[i] = list[p * size + i]
                 /\ DeviceFactories(key) = UNION {DeviceFactoriesIn(key, c) : c \in Categories}
                 /\ \A k \in Present :
                       ExamplesByKind(key, k) = IF k \notin mine THEN {}
                           ELSE ({k} \cup (NewestClass(k).extends \ dropped[k])) \cap mine
  <2> DEFINE mine == {r[1] : r \in VisibleRows(key)}
  <2>1. mine = AllApproved(key)
    BY SeenAreListed
  <2> HIDE DEF mine
  <2>2. /\ Cardinality(VisibleRows(key)) = Cardinality(mine)
        /\ UNION {ByCategory(key, c) : c \in Categories} = mine
        /\ \A tag \in DeviceKinds : ByFuzzySearch(key, tag) \subseteq mine
        /\ \A k \in mine : k \notin ByFuzzySearch(key, k) =>
              SearchLimit <= Cardinality({j \in mine : j < k /\ k \in KindsOf(NewestClass(j))})
        /\ DeviceFactories(key) = UNION {DeviceFactoriesIn(key, c) : c \in Categories}
    BY <2>1, ListsAgree
  <2>3. ASSUME NEW k \in Present
        PROVE  VersionsOf(key, k) = IF DetailsVersion(key, k) = NoVersion THEN {}
                                    ELSE {DetailsVersion(key, k)}
    <3>1. /\ VersionsOf(key, k) \in SUBSET {DetailsVersion(key, k)}
          /\ DetailsVersion(key, k) \in VersionsOf(key, k) <=> DetailsVersion(key, k) # NoVersion
      BY OneVersion
    <3> QED
      BY ONLY <3>1
  <2>4. mine \in SUBSET Nat /\ IsFiniteSet(mine)
    <3>1. mine \in SUBSET DeviceKinds
      BY <2>1 DEF AllApproved, Present
    <3> QED
      BY <3>1, DevicesAssumption, FS_Subset
  <2>5. Len(Sorted(mine)) \in Nat
    <3>1. Sorted(mine) \in [1..Cardinality(mine) -> mine] /\ Cardinality(mine) \in Nat
      BY <2>4, SortedOnce
    <3>2. Sorted(mine) \in Seq(mine)
      BY ONLY <3>1
    <3> QED
      BY <3>2
  <2>6. ASSUME NEW size \in 1..Len(Sorted(mine)), NEW p \in 0..Len(Sorted(mine)),
               p * size <= Len(Sorted(mine))
        PROVE  LET shown == DeviceList(mine, p, size)
               IN  /\ Len(shown) <= size + 1
                   /\ Len(shown) = size + 1 <=> (p + 1) * size < Len(Sorted(mine))
                   /\ \A i \in 1..size : i <= Len(shown) <=> p * size + i <= Len(Sorted(mine))
                   /\ \A i \in 1..Len(shown) : shown[i] = Sorted(mine)[p * size + i]
    <3>1. size \in Nat /\ size > 0 /\ p \in Nat
      BY <2>5
    <3> QED
      BY <2>4, <2>6, <3>1, PageOfList
  <2>7. \A k \in Present :
           ExamplesByKind(key, k) = IF k \notin mine THEN {}
               ELSE ({k} \cup (NewestClass(k).extends \ dropped[k])) \cap mine
    BY <2>1, ExamplesAgree, Zenon
  <2> QED
    BY ONLY <2>1, <2>2, <2>3, <2>6, <2>7, Zenon DEF mine
<1>2. Present \ ReviewQueue =
         {k \in Present : \A a, b \in Keyholders : VersionsOf(a, k) = VersionsOf(b, k)}
  BY QueueAgrees
<1> QED
  BY <1>1, <1>2, Zenon DEF QueriesAgree

\* The factory of a class is of the device, and never a choice of factories.
LEMMA FactoryIsOfKind ==
    ASSUME NEW o \in DeviceOffers
    PROVE  /\ FactoryOf(o.kind, o.class) = NoFactory <=> o.class.config \in {"abstract", "builtin"}
           /\ FactoryOf(o.kind, o.class) # NoFactory =>
                 FactoryOf(o.kind, o.class).kind = o.kind /\ FactoryOf(o.kind, o.class).type # "multiple"
<1> DEFINE config == o.class.config
           type == IF config \in {"bluetooth", "upnp"} THEN "discovery" ELSE config
           f == [type |-> type, kind |-> o.kind, category |-> CategoryOf(o.class)]
<1>1. config # "multiple"
  BY DevicesAssumption
<1>2. type \in {"discovery"} \cup {x.class.config : x \in DeviceOffers} /\ type # "multiple"
  BY <1>1
<1>3. o.kind \in DeviceKinds /\ CategoryOf(o.class) \in Categories
  BY ClassColumns
<1>4. FactoryOf(o.kind, o.class) = IF config \in {"abstract", "builtin"} THEN NoFactory ELSE f
  BY DEF FactoryOf
<1>5. f.kind = o.kind /\ f.type = type
  OBVIOUS
<1> HIDE DEF type
<1>6. f \in Factory
  BY <1>2, <1>3 DEF Factory
<1> HIDE DEF f
<1>7. f # NoFactory
  BY <1>6, NoRowAssumption
<1> QED
  BY <1>2, <1>4, <1>5, <1>7

\* The factory of a version that an organization sees.
LEMMA FactoryOfVersion ==
    ASSUME DevicesInv, NEW key \in Keyholders, NEW r \in VisibleRows(key)
    PROVE  /\ Version1(r[1], r[2]).factory = NoFactory <=>
                 Version1(r[1], r[2]).class.config \in {"abstract", "builtin"}
           /\ Version1(r[1], r[2]).factory # NoFactory =>
                 /\ Version1(r[1], r[2]).factory.kind = r[1]
                 /\ Version1(r[1], r[2]).factory.type # "multiple"
<1>1. r[1] \in Present /\ r[2] \in 0..Len(codeVersions[r[1]]) - 1
  BY SeenAreListed
<1>2. PICK o \in DeviceOffers : /\ o.kind = r[1] /\ Version1(r[1], r[2]).class = o.class
                                /\ Version1(r[1], r[2]).factory = FactoryOf(r[1], o.class)
  BY <1>1, OneDevice
<1> QED
  BY <1>2, FactoryIsOfKind

\* The kinds of a device are those of its newest class that it still knows.
LEMMA KindsAreKnown ==
    ASSUME DevicesInv, NEW k \in Present
    PROVE  /\ KindsOf(devices[k]) = KindsOf(NewestClass(k)) \ dropped[k]
           /\ KindsOf(devices[k]) \subseteq Present
<1> QED
  BY DEF DevicesInv, RowIsOfNewest, KindsOf

\* The factories of some of the rows that an organization sees: those of the devices
\* that can be set up, one of each.
LEMMA OneFactoryOfDevice ==
    ASSUME DevicesInv, NEW key \in Keyholders, NEW some \in SUBSET VisibleRows(key)
    PROVE  /\ IsFiniteSet(Factories(some))
           /\ \A f \in Factories(some) : f.type # "multiple"
           /\ \A r \in VisibleRows(key) :
                 r[1] \in {f.kind : f \in Factories(some)} <=>
                    r \in some /\ Version1(r[1], r[2]).class.config \notin {"abstract", "builtin"}
<1> DEFINE all == Factories(some)
<1>1. \A r, s \in VisibleRows(key) : r[1] = s[1] => r = s
  <2>1. \A r \in VisibleRows(key) : r = <<r[1], r[2]>> /\ r[2] = DetailsVersion(key, r[1])
    BY SeenAreListed
  <2> QED
    BY ONLY <2>1
<1>2. ASSUME NEW f \in all
      PROVE  \E r \in some : /\ f = Version1(r[1], r[2]).factory /\ f # NoFactory
                             /\ f.kind = r[1] /\ f.type # "multiple"
  <2>1. PICK r \in some : f = Version1(r[1], r[2]).factory /\ f # NoFactory
    BY FactoriesOfRows
  <2> QED
    BY <2>1, FactoryOfVersion
<1>3. ASSUME NEW f \in all PROVE f.kind \in DeviceKinds
  <2>1. PICK r \in some : f.kind = r[1]
    BY <1>2
  <2>2. r[1] \in Present
    BY SeenAreListed
  <2> QED
    BY <2>1, <2>2 DEF Present
<1>4. ASSUME NEW f \in all, NEW g \in all, f.kind = g.kind PROVE f = g
  <2>1. PICK r \in some : f = Version1(r[1], r[2]).factory /\ f.kind = r[1]
    BY <1>2
  <2>2. PICK s \in some : g = Version1(s[1], s[2]).factory /\ g.kind = s[1]
    BY <1>2
  <2>3. r = s
    BY <1>1, <1>4, <2>1, <2>2
  <2> QED
    BY <2>1, <2>2, <2>3
<1>5. IsFiniteSet(all)
  <2> DEFINE kinds == [f \in all |-> f.kind]
  <2> HIDE DEF all
  <2>1. kinds \in [all -> DeviceKinds] /\ \A f, g \in all : kinds[f] = kinds[g] => f = g
    BY <1>3, <1>4
  <2> HIDE DEF kinds
  <2>2. kinds \in Injection(all, DeviceKinds)
    BY <2>1 DEF Injection, IsInjective
  <2> QED
    BY <2>2, DevicesAssumption, FS_Injection
<1>6. ASSUME NEW r \in VisibleRows(key)
      PROVE  r[1] \in {f.kind : f \in all} <=>
                r \in some /\ Version1(r[1], r[2]).class.config \notin {"abstract", "builtin"}
  <2>1. ASSUME NEW f \in all, f.kind = r[1]
        PROVE  r \in some /\ Version1(r[1], r[2]).class.config \notin {"abstract", "builtin"}
    <3>1. PICK s \in some : f = Version1(s[1], s[2]).factory /\ f # NoFactory /\ f.kind = s[1]
      BY <1>2
    <3>2. r = s
      BY <1>1, <2>1, <3>1
    <3> QED
      BY <3>1, <3>2, FactoryOfVersion
  <2>2. ASSUME r \in some, Version1(r[1], r[2]).class.config \notin {"abstract", "builtin"}
        PROVE  \E f \in all : f.kind = r[1]
    <3>1. Version1(r[1], r[2]).factory # NoFactory /\ Version1(r[1], r[2]).factory.kind = r[1]
      BY <2>2, FactoryOfVersion
    <3>2. Version1(r[1], r[2]).factory \in all
      BY <2>2, <3>1, FactoriesOfRows
    <3> QED
      BY <3>1, <3>2
  <2> HIDE DEF all
  <2> QED
    BY <2>1, <2>2
<1> QED
  BY <1>2, <1>5, <1>6

\* The kinds of the factories that are offered for a kind, be it one of them or not.
LEMMA SetupOffers ==
    ASSUME DevicesInv, NEW key \in Keyholders, NEW kind \in DeviceKinds
    PROVE  LET setup == DeviceSetup(key, kind)
           IN  IF setup.type = "multiple"
               THEN setup.choices = Factories(SetupRows(key, kind))
               ELSE {setup.kind} = {f.kind : f \in Factories(SetupRows(key, kind))}
<1> DEFINE choices == Factories(SetupRows(key, kind))
           setup == DeviceSetup(key, kind)
<1>1. IsFiniteSet(choices) /\ \A f \in choices : f.type # "multiple"
  BY OneFactoryOfDevice DEF SetupRows
<1>2. setup = IF Cardinality(choices) = 1 THEN CHOOSE f \in choices : TRUE
              ELSE [type |-> "multiple", choices |-> choices]
  BY DEF DeviceSetup
<1> HIDE DEF choices, setup
<1>3. CASE Cardinality(choices) = 1
  <2>1. PICK f : choices = {f}
    BY <1>1, <1>3, FS_Singleton
  <2>2. setup = f
    BY <1>2, <1>3, <2>1
  <2>3. setup.type # "multiple" /\ {setup.kind} = {g.kind : g \in choices}
    BY <1>1, <2>1, <2>2
  <2> QED
    BY ONLY <2>3 DEF setup, choices
<1>4. CASE Cardinality(choices) # 1
  <2>1. setup.type = "multiple" /\ setup.choices = choices
    BY <1>2, <1>4
  <2> QED
    BY ONLY <2>1 DEF setup, choices
<1> QED
  BY <1>3, <1>4

\* The second part of DevicesAreFound.
LEMMA SetupAlwaysIsOfKind == DevicesInv => SetupIsOfKind
<1> SUFFICES ASSUME DevicesInv, NEW key \in Keyholders, NEW kind \in DeviceKinds,
                    NEW r \in VisibleRows(key), r[2] = devices[r[1]].developer_version
             PROVE  LET class == Version1(r[1], r[2]).class
                        Known(k) == KindsOf(NewestClass(k)) \ dropped[k]
                        setup == DeviceSetup(key, kind)
                        offered == IF setup.type = "multiple" THEN {f.kind : f \in setup.choices}
                                   ELSE {setup.kind}
                    IN  r[1] \in offered <=>
                          /\ class.config \notin {"abstract", "builtin"}
                          /\ kind \in {r[1]} \cup Known(r[1]) \cup UNION {Known(k) : k \in Known(r[1])}
  BY DEF SetupIsOfKind
<1> DEFINE Known(k) == KindsOf(NewestClass(k)) \ dropped[k]
           setup == DeviceSetup(key, kind)
           offered == IF setup.type = "multiple" THEN {f.kind : f \in setup.choices}
                      ELSE {setup.kind}
           class == Version1(r[1], r[2]).class
<1>1. r[1] \in Present
  BY SeenAreListed
<1>2. \A k \in Present : KindsOf(devices[k]) = Known(k) /\ Known(k) \subseteq Present
  BY KindsAreKnown
<1>3. r \in SetupRows(key, kind) <=>
         \/ r[1] = kind
         \/ kind \in KindsOf(devices[r[1]])
         \/ \E k \in KindsOf(devices[r[1]]) : kind \in KindsOf(devices[k])
  BY DEF SetupRows
<1>4. offered = {f.kind : f \in Factories(SetupRows(key, kind))}
  BY SetupOffers
<1>5. SetupRows(key, kind) \in SUBSET VisibleRows(key)
  BY DEF SetupRows
<1>6. r[1] \in offered <=> r \in SetupRows(key, kind) /\ class.config \notin {"abstract", "builtin"}
  BY <1>4, <1>5, OneFactoryOfDevice
<1> HIDE DEF Known, offered, class, setup
<1>7. r \in SetupRows(key, kind) <=>
         kind \in {r[1]} \cup Known(r[1]) \cup UNION {Known(k) : k \in Known(r[1])}
  BY <1>1, <1>2, <1>3
<1>8. r[1] \in offered <=>
         /\ class.config \notin {"abstract", "builtin"}
         /\ kind \in {r[1]} \cup Known(r[1]) \cup UNION {Known(k) : k \in Known(r[1])}
  BY <1>6, <1>7
<1> QED
  BY ONLY <1>8, Zenon DEF Known, offered, class, setup

\* The services of devices are of the UUIDs, and finitely many.
LEMMA ServicesAreFinite ==
    ASSUME DevicesInv, NEW k \in Present
    PROVE  /\ devices[k].services = DiscoveryServices(NewestClass(k))
           /\ devices[k].discovery = DiscoveryType(NewestClass(k))
           /\ devices[k].services \in SUBSET (UUIDs \cup {0}) /\ devices[k].services \in SUBSET Nat
           /\ IsFiniteSet(devices[k].services) /\ k # NoDevice
<1>1. RowIsOfNewest(k) /\ k \in DeviceKinds
  BY OneDevice
<1>2. /\ devices[k].services = DiscoveryServices(NewestClass(k)) /\ devices[k] \in DeviceRow
      /\ devices[k].discovery = DiscoveryType(NewestClass(k))
  BY <1>1 DEF RowIsOfNewest
<1>3. devices[k].services \in SUBSET (UUIDs \cup {0})
  BY <1>2 DEF DeviceRow
<1>4. IsFiniteSet(UUIDs \cup {0}) /\ UUIDs \cup {0} \in SUBSET Nat
  BY DevicesAssumption, FS_AddElement
<1>5. IsFiniteSet(devices[k].services)
  BY <1>3, <1>4, FS_Subset
<1>6. k # NoDevice
  BY <1>1, NoRowAssumption
<1> QED
  BY <1>2, <1>3, <1>4, <1>5, <1>6

\* A list in order says which numbers it is of.
LEMMA SortedDiffer ==
    ASSUME NEW S \in SUBSET Nat, NEW T \in SUBSET Nat, IsFiniteSet(S), IsFiniteSet(T),
           Sorted(S) = Sorted(T)
    PROVE  S = T
<1>1. PICK s : s = Sorted(S) /\ s = Sorted(T)
  OBVIOUS
<1>2. DOMAIN s = 1..Cardinality(S) /\ \A n \in DOMAIN s : s[n] \in S
  BY <1>1, SortedOnce
<1>3. DOMAIN s = 1..Cardinality(T) /\ \A n \in DOMAIN s : s[n] \in T
  BY <1>1, SortedOnce
<1>4. \A x \in S : \E n \in DOMAIN s : s[n] = x
  BY <1>1, <1>2, SortedOnce
<1>5. \A x \in T : \E n \in DOMAIN s : s[n] = x
  BY <1>1, <1>3, SortedOnce
<1>6. \A x \in S : x \in T
  BY ONLY <1>3, <1>4
<1>7. \A x \in T : x \in S
  BY ONLY <1>2, <1>5
<1> QED
  BY <1>6, <1>7

\* The best results are some of the results, and the perfect ones if there are any.
LEMMA BestAreResults ==
    ASSUME NEW results, NEW uuids
    PROVE  /\ BestResults(results, uuids) \subseteq results
           /\ (\E k \in results : ServicesOf(k) = uuids) =>
                 \A k \in BestResults(results, uuids) : ServicesOf(k) = uuids
<1> QED
  BY DEF BestResults

\* A service that is known decides: what is found has it, and has just the services that
\* were announced if something has.
LEMMA FoundByServices ==
    ASSUME DevicesInv, NEW type, NEW announced \in SUBSET Nat, KnownAmong(type, announced) # {}
    PROVE  /\ ByServices(type, announced) # {}
           /\ \A a \in ByServices(type, announced) :
                 a \in Present /\ devices[a].services \cap announced # {}
<1> DEFINE known == KnownAmong(type, announced)
<1>1. known \in SUBSET Nat /\ known # {}
  BY DEF KnownAmong
<1>2. First(known) \in known
  BY <1>1, FirstExists
<1>3. ByServices(type, announced) = BestResults(WithService(type, First(known)), Sorted(announced))
  BY Zenon DEF ByServices, First
<1>4. First(known) \in announced /\ WithService(type, First(known)) # {}
  BY <1>2 DEF KnownAmong
<1>5. /\ ByServices(type, announced) # {}
      /\ ByServices(type, announced) \subseteq WithService(type, First(known))
  <2>1. BestResults(WithService(type, First(known)), Sorted(announced)) # {}
    BY <1>4 DEF BestResults
  <2> QED
    BY <1>3, <2>1, BestAreResults
<1> QED
  BY <1>4, <1>5 DEF WithService

LEMMA FoundExactly ==
    ASSUME DevicesInv, NEW k \in Present, NEW type,
           devices[k].discovery = type, devices[k].services # {}
    PROVE  /\ KnownAmong(type, devices[k].services) # {}
           /\ \A a \in ByServices(type, devices[k].services) :
                 a \in Present /\ devices[a].services = devices[k].services
<1>1. PICK services : services = devices[k].services
  OBVIOUS
<1>2. services \in SUBSET Nat /\ IsFiniteSet(services) /\ services # {}
  BY <1>1, ServicesAreFinite
<1>3. \A u \in services : k \in WithService(type, u)
  BY <1>1 DEF WithService
<1>4. KnownAmong(type, services) = services
  BY <1>3 DEF KnownAmong
<1>5. First(services) \in services
  BY <1>2, FirstExists
<1>6. ByServices(type, services) = BestResults(WithService(type, First(services)), Sorted(services))
  BY <1>4, Zenon DEF ByServices, First
<1>7. k \in WithService(type, First(services)) /\ ServicesOf(k) = Sorted(services)
  BY <1>1, <1>3, <1>5 DEF ServicesOf
<1>8. ASSUME NEW a \in ByServices(type, services)
      PROVE  a \in Present /\ devices[a].services = services
  <2>1. a \in WithService(type, First(services)) /\ ServicesOf(a) = Sorted(services)
    BY ONLY <1>6, <1>7, <1>8, BestAreResults
  <2>2. a \in Present /\ Sorted(devices[a].services) = Sorted(services)
    BY <2>1 DEF WithService, ServicesOf
  <2> QED
    BY <1>2, <2>2, ServicesAreFinite, SortedDiffer
<1> QED
  BY <1>1, <1>2, <1>4, <1>8

\* Bluetooth hardware.
LEMMA BluetoothMatches ==
    ASSUME DevicesInv, NEW k \in Present, NewestClass(k).config = "bluetooth"
    PROVE  /\ NewestClass(k).services # {} /\ 0 \notin NewestClass(k).services =>
                 \A a \in DecodeBluetooth(NewestClass(k).services, FALSE) :
                     a # NoDevice /\ devices[a].services = NewestClass(k).services
           /\ \A announced \in SUBSET UUIDs, hasClass \in BOOLEAN :
                 LET all == announced \cup (IF hasClass THEN {0} ELSE {})
                 IN  all \cap NewestClass(k).services # {} =>
                       \A a \in DecodeBluetooth(announced, hasClass) :
                           a # NoDevice /\ devices[a].services \cap all # {}
<1>1. /\ devices[k].services = NewestClass(k).services /\ devices[k].discovery = "bluetooth"
  BY ServicesAreFinite DEF DiscoveryServices, DiscoveryType
<1>2. PICK services : services = devices[k].services /\ services = NewestClass(k).services
  BY <1>1
<1>3. services \in SUBSET (UUIDs \cup {0}) /\ \A a \in Present : a # NoDevice
  BY <1>2, ServicesAreFinite
<1>4. ASSUME services # {}, NEW a \in DecodeBluetooth(services, FALSE)
      PROVE  a # NoDevice /\ devices[a].services = services
  <2>1. /\ KnownAmong("bluetooth", services) # {}
        /\ \A b \in ByServices("bluetooth", services) : b \in Present /\ devices[b].services = services
    BY <1>1, <1>2, <1>4, FoundExactly
  <2>2. a \in ByServices("bluetooth", services)
    BY <1>4, <2>1 DEF DecodeBluetooth
  <2> QED
    BY <1>3, <2>1, <2>2
<1>5. ASSUME NEW announced \in SUBSET UUIDs, NEW hasClass \in BOOLEAN,
             (announced \cup (IF hasClass THEN {0} ELSE {})) \cap services # {},
             NEW a \in DecodeBluetooth(announced, hasClass)
      PROVE  a # NoDevice /\ devices[a].services \cap (announced \cup (IF hasClass THEN {0} ELSE {})) # {}
  <2>1. announced \in SUBSET Nat
    BY DevicesAssumption
  <2>2. CASE KnownAmong("bluetooth", announced) # {}
    <3>1. a \in ByServices("bluetooth", announced)
      BY <1>5, <2>2 DEF DecodeBluetooth
    <3>2. a \in Present /\ devices[a].services \cap announced # {}
      BY <2>1, <2>2, <3>1, FoundByServices
    <3> QED
      BY <1>3, <3>2
  <2>3. CASE KnownAmong("bluetooth", announced) = {}
    <3>1. \A v \in announced : v \notin services
      <4>1. \A v \in announced : WithService("bluetooth", v) = {}
        BY <2>3 DEF KnownAmong
      <4> QED
        BY <1>1, <1>2, <4>1 DEF WithService
    <3>2. hasClass /\ 0 \in services
      BY <1>5, <3>1
    <3>3. WithService("bluetooth", 0) # {}
      BY <1>1, <1>2, <3>2 DEF WithService
    <3>4. a \in BestResults(WithService("bluetooth", 0), Sorted(announced))
      BY <1>5, <2>3, <3>2, <3>3 DEF DecodeBluetooth
    <3>5. a \in WithService("bluetooth", 0)
      BY ONLY <3>4, BestAreResults
    <3>6. a \in Present /\ 0 \in devices[a].services
      BY <3>5 DEF WithService
    <3> QED
      BY <1>3, <3>2, <3>6
  <2> QED
    BY <2>2, <2>3
<1> QED
  BY ONLY <1>2, <1>4, <1>5, Zenon

\* UPnP hardware.
LEMMA UpnpMatches ==
    ASSUME DevicesInv, NEW k \in Present, NewestClass(k).config = "upnp"
    PROVE  /\ NewestClass(k).services # {} =>
                 \A a \in DecodeUpnp(NewestClass(k).services, FALSE) :
                     devices[a].services = NewestClass(k).services
           /\ \A announced \in SUBSET UUIDs, isHue \in BOOLEAN :
                 announced \cap NewestClass(k).services # {} =>
                     IF isHue THEN DecodeUpnp(announced, isHue) \subseteq {Hue}
                     ELSE /\ DecodeUpnp(announced, isHue) # {}
                          /\ \A a \in DecodeUpnp(announced, isHue) :
                                devices[a].services \cap announced # {}
<1>1. /\ devices[k].services = NewestClass(k).services /\ devices[k].discovery = "upnp"
  BY ServicesAreFinite DEF DiscoveryServices, DiscoveryType
<1>2. PICK services : services = devices[k].services /\ services = NewestClass(k).services
  BY <1>1
<1>3. ASSUME services # {}, NEW a \in DecodeUpnp(services, FALSE)
      PROVE  devices[a].services = services
  <2>1. /\ KnownAmong("upnp", services) # {}
        /\ \A b \in ByServices("upnp", services) : b \in Present /\ devices[b].services = services
    BY <1>1, <1>2, <1>3, FoundExactly
  <2>2. a \in ByServices("upnp", services)
    BY <1>3, <2>1 DEF DecodeUpnp
  <2> QED
    BY <2>1, <2>2
<1>4. ASSUME NEW announced \in SUBSET UUIDs, announced \cap services # {}
      PROVE  /\ DecodeUpnp(announced, FALSE) # {}
             /\ \A a \in DecodeUpnp(announced, FALSE) : devices[a].services \cap announced # {}
  <2>1. announced \in SUBSET Nat
    BY DevicesAssumption
  <2>2. KnownAmong("upnp", announced) # {}
    <3>1. PICK v : v \in announced /\ v \in services
      BY <1>4
    <3>2. k \in WithService("upnp", v)
      BY <1>1, <1>2, <3>1 DEF WithService
    <3> QED
      BY <3>1, <3>2 DEF KnownAmong
  <2>3. DecodeUpnp(announced, FALSE) = ByServices("upnp", announced)
    BY <2>2 DEF DecodeUpnp
  <2> QED
    BY <2>1, <2>2, <2>3, FoundByServices
<1>5. \A announced : DecodeUpnp(announced, TRUE) \subseteq {Hue}
  BY DEF DecodeUpnp
<1>6. ASSUME NEW announced \in SUBSET UUIDs, NEW isHue \in BOOLEAN, announced \cap services # {}
      PROVE  IF isHue THEN DecodeUpnp(announced, isHue) \subseteq {Hue}
             ELSE /\ DecodeUpnp(announced, isHue) # {}
                  /\ \A a \in DecodeUpnp(announced, isHue) : devices[a].services \cap announced # {}
  BY <1>4, <1>5, <1>6
<1> QED
  BY ONLY <1>2, <1>3, <1>6, Zenon

\* The last part of DevicesAreFound.
LEMMA ExactMatchAlwaysWins == DevicesInv => ExactMatchWins
<1> QED
  BY BluetoothMatches, UpnpMatches, Zenon DEF ExactMatchWins

(* The type of the rows: a device has its versions in a row, the newest of     *)
(* which is its developer_version, and the approved one is one of them.        *)
THEOREM DevicesTypeCorrect == DevicesSpec => []DevicesTypeOK
<1>1. DevicesInv => DevicesTypeOK
  <2> SUFFICES ASSUME DevicesInv, NEW k \in DeviceKinds
               PROVE  IF k \notin Present THEN codeVersions[k] = <<>>
                      ELSE /\ devices[k].developer_version = Len(codeVersions[k]) - 1
                           /\ devices[k].approved_version \in 0..Len(codeVersions[k]) - 1 \cup {NoVersion}
    BY DEF DevicesTypeOK
  <2>1. k \notin Present => codeVersions[k] = <<>>
    BY DEF DevicesInv
  <2>2. k \in Present => RowIsOfNewest(k)
    BY DEF DevicesInv
  <2> QED
    BY <2>1, <2>2 DEF RowIsOfNewest
<1> QED
  BY <1>1, DevicesInvariant, PTL

(* Devices are found by what they are: the lists, the search, the factories,   *)
(* the pages of devices and the queue of reviews agree, for every organization *)
(* (thingpedia-client.ts); who asks for a kind is offered the devices of that  *)
(* kind (getDeviceSetup); and hardware is taken for a device that has its      *)
(* services, and just these if there is one (discovery).  A search leaves a    *)
(* device out if as many of its kind as it gives come first, and what calls    *)
(* itself a Hue is none but that.                                              *)
THEOREM DevicesAreAlwaysFound == DevicesSpec => []DevicesAreFound
<1>1. DevicesInv => DevicesAreFound
  BY QueriesAlwaysAgree, SetupAlwaysIsOfKind, ExactMatchAlwaysWins DEF DevicesAreFound
<1> QED
  BY <1>1, DevicesInvariant, PTL
================================================================================
