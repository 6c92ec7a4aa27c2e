-------------------------------- MODULE Learning -------------------------------
(******************************************************************************)
(* Commands that users teach (nlp/learn.ts).  The replicas of the NLP server  *)
(* of one language keep, each in its memory, a matcher of the exact commands; *)
(* a command is stored in the database, added to the matcher of the replica   *)
(* that has the request, and sent to the other replicas there are (admin.ts,  *)
(* proxy.ts).  Beside that the training task update-dataset writes all exact  *)
(* commands of the database to a file, which replicas load when they start    *)
(* and when they are told to, and which may be older than what they know.     *)
(******************************************************************************)
EXTENDS Naturals, FiniteSets

CONSTANTS TaughtCommands, NlpReplicas,
          NoReplica,    \* of a command that nobody has taught
          MaxStarts     \* bound: starts and reloads of replicas

ASSUME LearningAssumption == NoReplica \notin NlpReplicas /\ MaxStarts \in Nat

VARIABLES exampleRows,  \* per command: its row is "none", "exact" or "inexact"
          file,         \* the commands in the file
          updater,      \* update-dataset: "idle", "reading" or "writing"
          updaterRows,  \* what it has read
          replica,      \* "down", "starting" or "up"
          loading,      \* the file that a replica has downloaded, as a set of sets
          matcher,      \* what a replica knows
          learning,     \* per command: where its request is
          at,           \* the replica that has it
          unanswered,   \* the replicas that have not answered yet
          told,         \* those that were sent the command and have not loaded a
                        \* file without it since
          starts        \* bound

learningVars == <<exampleRows, file, updater, updaterRows, replica, loading, matcher, learning, at,
                  unanswered, told, starts>>
updaterVars == <<file, updater, updaterRows>>
requestVars == <<learning, at, unanswered>>

LearningInit ==
    /\ exampleRows = [c \in TaughtCommands |-> "none"] /\ file = {}
    /\ updater = "idle" /\ updaterRows = {}
    /\ replica = [q \in NlpReplicas |-> "up"] /\ loading = [q \in NlpReplicas |-> {}]
    /\ matcher = [q \in NlpReplicas |-> {}]
    /\ learning = [c \in TaughtCommands |-> "none"] /\ at = [c \in TaughtCommands |-> NoReplica]
    /\ unanswered = [c \in TaughtCommands |-> {}] /\ told = [c \in TaughtCommands |-> {}]
    /\ starts = 0

-----------------------------------------------------------------------------
(* POST /learn                                                              *)

\* The transaction that stores the command.  Stores that are not for training
\* are answered at once.
Learn(c, q) ==
    /\ learning[c] = "none" /\ replica[q] = "up"
    /\ at' = [at EXCEPT ![c] = q]
    /\ \/ /\ exampleRows' = [exampleRows EXCEPT ![c] = "exact"]
          /\ learning' = [learning EXCEPT ![c] = "stored"]
          /\ matcher' = [matcher EXCEPT ![q] = @ \cup {c}]
          /\ told' = [told EXCEPT ![c] = {q}]
       \/ /\ exampleRows' = [exampleRows EXCEPT ![c] = "inexact"]
          /\ learning' = [learning EXCEPT ![c] = "done"]
          /\ UNCHANGED <<matcher, told>>
    /\ UNCHANGED <<updaterVars, replica, loading, unanswered, starts>>

\* getEndpoints(skipLocal): the replicas that are ready, and a request to each.
FanOut(c) ==
    /\ learning[c] = "stored"
    /\ LET others == {q \in NlpReplicas \ {at[c]} : replica[q] = "up"}
       IN  /\ unanswered' = [unanswered EXCEPT ![c] = others]
           /\ told' = [told EXCEPT ![c] = @ \cup others]
    /\ learning' = [learning EXCEPT ![c] = "sent"]
    /\ UNCHANGED <<updaterVars, exampleRows, replica, loading, matcher, at, starts>>

\* POST /admin/reload/exact with an example_id, at a replica.
AddExample(c, q) ==
    /\ learning[c] = "sent" /\ q \in unanswered[c] /\ replica[q] = "up"
    /\ matcher' = [matcher EXCEPT ![q] = @ \cup {c}]
    /\ unanswered' = [unanswered EXCEPT ![c] = @ \ {q}]
    /\ UNCHANGED <<updaterVars, exampleRows, replica, loading, learning, at, told, starts>>

\* A bug to detect: nobody waits for the other replicas.
AllAnswered_NotAwaited(c) == TRUE
AllAnswered(c) == unanswered[c] = {}

Answer(c) ==
    /\ learning[c] = "sent" /\ AllAnswered(c)
    /\ learning' = [learning EXCEPT ![c] = "ok"]
    /\ UNCHANGED <<updaterVars, exampleRows, replica, loading, matcher, at, unanswered, told, starts>>

\* The list of endpoints, or a request to one of them, fails: so does the request,
\* and the command stays where it has got to.
LearnFails(c) ==
    /\ learning[c] \in {"stored", "sent"}
    /\ learning' = [learning EXCEPT ![c] = "failed"]
    /\ unanswered' = [unanswered EXCEPT ![c] = {}]
    /\ UNCHANGED <<updaterVars, exampleRows, replica, loading, matcher, at, told, starts>>

-----------------------------------------------------------------------------
(* Replicas.                                                                   *)

\* The process ends, with the requests that it had and those sent to it.
Crash(q) ==
    /\ replica[q] # "down"
    /\ replica' = [replica EXCEPT ![q] = "down"]
    /\ matcher' = [matcher EXCEPT ![q] = {}] /\ loading' = [loading EXCEPT ![q] = {}]
    /\ told' = [c \in TaughtCommands |-> told[c] \ {q}]
    /\ learning' = [c \in TaughtCommands |->
          IF learning[c] \in {"stored", "sent"} /\ (at[c] = q \/ q \in unanswered[c])
          THEN "failed" ELSE learning[c]]
    /\ unanswered' = [c \in TaughtCommands |-> IF learning'[c] = "failed" THEN {} ELSE unanswered[c]]
    /\ UNCHANGED <<updaterVars, exampleRows, at, starts>>

\* loadExactMatcher: on start, and for POST /admin/reload/exact without an
\* example.  The file is downloaded first, and read then.
Download(q) ==
    /\ starts < MaxStarts /\ starts' = starts + 1
    /\ \/ replica[q] = "down" /\ replica' = [replica EXCEPT ![q] = "starting"]
       \/ replica[q] = "up" /\ UNCHANGED replica
    /\ loading' = [loading EXCEPT ![q] = @ \cup {file}]
    /\ UNCHANGED <<updaterVars, requestVars, exampleRows, matcher, told>>

\* matcher.load is the library's: what was added before is kept, or not.
Load(q, f) ==
    /\ f \in loading[q]
    /\ loading' = [loading EXCEPT ![q] = @ \ {f}]
    /\ \/ matcher' = [matcher EXCEPT ![q] = f]
       \/ matcher' = [matcher EXCEPT ![q] = @ \cup f]
    /\ told' = [c \in TaughtCommands |-> IF c \in f THEN told[c] ELSE told[c] \ {q}]
    /\ replica' = [replica EXCEPT ![q] = "up"]
    /\ UNCHANGED <<updaterVars, requestVars, exampleRows, starts>>

-----------------------------------------------------------------------------
(* The task update-dataset.                                                 *)

\* One transaction replaces the generated commands, and marks those for training
\* that do not typecheck any more as obsolete; neither changes what getExact
\* reads of the commands that users taught.
UpdateDataset ==
    /\ updater = "idle" /\ updater' = "reading"
    /\ UNCHANGED <<requestVars, exampleRows, file, updaterRows, replica, loading, matcher, told, starts>>

\* getExact
ReadExact ==
    /\ updater = "reading" /\ updater' = "writing"
    /\ updaterRows' = {c \in TaughtCommands : exampleRows[c] = "exact"}
    /\ UNCHANGED <<requestVars, exampleRows, file, replica, loading, matcher, told, starts>>

WriteFile ==
    /\ updater = "writing" /\ updater' = "idle"
    /\ file' = updaterRows
    /\ UNCHANGED <<requestVars, exampleRows, updaterRows, replica, loading, matcher, told, starts>>

UpdateFails ==
    /\ updater # "idle" /\ updater' = "idle"
    /\ UNCHANGED <<requestVars, exampleRows, file, updaterRows, replica, loading, matcher, told, starts>>

-----------------------------------------------------------------------------
LearningNext ==
    \/ \E c \in TaughtCommands :
          \/ FanOut(c) \/ Answer(c) \/ LearnFails(c)
          \/ \E q \in NlpReplicas : Learn(c, q) \/ AddExample(c, q)
    \/ \E q \in NlpReplicas : \/ Crash(q) \/ Download(q)
                             \/ \E f \in SUBSET TaughtCommands : Load(q, f)
    \/ UpdateDataset \/ ReadExact \/ WriteFile \/ UpdateFails

LearningSpec == LearningInit /\ [][LearningNext]_learningVars

-----------------------------------------------------------------------------
LearningTypeOK ==
    /\ exampleRows \in [TaughtCommands -> {"none", "exact", "inexact"}]
    /\ {file, updaterRows} \subseteq SUBSET TaughtCommands
    /\ updater \in {"idle", "reading", "writing"}
    /\ replica \in [NlpReplicas -> {"down", "starting", "up"}]
    /\ matcher \in [NlpReplicas -> SUBSET TaughtCommands]
    /\ learning \in [TaughtCommands -> {"none", "stored", "sent", "ok", "done", "failed"}]
    /\ {unanswered, told} \subseteq [TaughtCommands -> SUBSET NlpReplicas]

\* "call other replicas to reload the new example": when the user is told that a
\* command was learnt, every replica that was there knows it, whichever the next
\* request gets to, unless it has been restarted or has loaded an older file.
LearntEverywhere ==
    \A c \in TaughtCommands : learning[c] = "ok" => \A q \in told[c] : c \in matcher[q]
================================================================================
