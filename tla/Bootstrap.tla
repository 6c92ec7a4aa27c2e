------------------------------- MODULE Bootstrap -------------------------------
(******************************************************************************)
(* `main.js bootstrap` (scripts/bootstrap.ts): a job that waits for the       *)
(* database, looks whether it is an installation already, runs schema.sql and *)
(* fills the tables in one transaction.  schema.sql is not a transaction: it  *)
(* drops and creates one table after the other, and each statement is there   *)
(* at once.  The job may be run on a site that is in use, and the database    *)
(* and the job may go away at any time.  One job runs at a time (parallelism  *)
(* 1 in bootstrap.job.yaml).                                                  *)
(*                                                                            *)
(* A table stands for those that schema.sql has in that part of the file.     *)
(******************************************************************************)
EXTENDS Naturals, Sequences, FiniteSets

CONSTANT MaxJobs            \* bound: times that the job is run

ASSUME BootstrapAssumption == MaxJobs \in Nat

VARIABLES job,              \* where the job is, or "none"
          forced,           \* --force
          database,         \* "up" or "down"
          exists,           \* the tables that there are
          contents,         \* "none", "default", or what the "site" has added to that
          statement,        \* of schema.sql, the next to execute
          inserted,         \* the tables that the open transaction has filled
          cut,              \* schema.sql was cut off on a site with accounts
          jobs              \* bound: times that the job was run

bootstrapVars == <<job, forced, database, exists, contents, statement, inserted, cut, jobs>>
dataVars == <<exists, contents, cut>>

\* In the order of schema.sql; the last have no default data.
SchemaSql == <<"catalogue", "users", "engines">>
Tables == {"catalogue", "users", "engines"}
\* In the order of main(): createRootOrg and createDefaultUsers, then the rest.
Filling == <<"users", "catalogue">>
Filled == {"users", "catalogue"}

BootstrapInit ==
    /\ job = "none" /\ forced = FALSE
    /\ database = "up"
    /\ exists = {} /\ contents = [t \in Tables |-> "none"]
    /\ statement = 1 /\ inserted = {}
    /\ cut = FALSE
    /\ jobs = 0

-----------------------------------------------------------------------------
DatabaseComesOrGoes ==
    /\ database' = IF database = "up" THEN "down" ELSE "up"
    /\ UNCHANGED <<dataVars, job, forced, statement, inserted, jobs>>

\* The site is in use, and its users write to a table.  (What they write while
\* the tables are being replaced is left out.)
Use(t) ==
    /\ database = "up" /\ job \notin {"schema", "filling"}
    /\ exists = Tables /\ contents["users"] # "none"
    /\ contents[t] # "site"
    /\ contents' = [contents EXCEPT ![t] = "site"]
    /\ UNCHANGED <<job, forced, database, exists, statement, inserted, cut, jobs>>

-----------------------------------------------------------------------------
(* The job.                                                                 *)

GoesTo(stage) == job' = stage /\ UNCHANGED <<forced, database, jobs>>

StartJob(force) ==
    /\ job = "none" /\ jobs < MaxJobs
    /\ job' = "waiting" /\ forced' = force /\ jobs' = jobs + 1
    /\ statement' = 1 /\ inserted' = {}
    /\ UNCHANGED <<dataVars, database>>

\* waitForDB
Connects ==
    /\ job = "waiting" /\ database = "up"
    /\ GoesTo(IF forced THEN "schema" ELSE "checking")
    /\ UNCHANGED <<dataVars, statement, inserted>>

WaitTimesOut ==
    /\ job = "waiting" /\ database = "down"
    /\ GoesTo("none")
    /\ UNCHANGED <<dataVars, statement, inserted>>

\* Any error means that there are no tables yet.
IsAlreadyBootstrapped ==
    /\ database = "up" /\ "users" \in exists /\ contents["users"] # "none"

Check ==
    /\ job = "checking"
    /\ GoesTo(IF IsAlreadyBootstrapped THEN "none" ELSE "schema")
    /\ UNCHANGED <<dataVars, statement, inserted>>

\* schema.sql: drop table if exists and create table, one table after another.
ExecStatement ==
    /\ job = "schema" /\ database = "up" /\ statement <= 2 * Len(SchemaSql)
    /\ LET t == SchemaSql[(statement + 1) \div 2]
       IN  IF statement % 2 = 1
           THEN /\ exists' = exists \ {t}
                /\ contents' = [contents EXCEPT ![t] = "none"]
           ELSE exists' = exists \cup {t} /\ UNCHANGED contents
    /\ statement' = statement + 1
    /\ UNCHANGED <<job, forced, database, inserted, cut, jobs>>

StartFilling ==
    /\ job = "schema" /\ statement > 2 * Len(SchemaSql)
    /\ GoesTo("filling")
    /\ cut' = FALSE
    /\ UNCHANGED <<exists, contents, statement, inserted>>

\* A bug to detect: every insert is committed by itself.
Fill_Autocommit(t) == contents' = [contents EXCEPT ![t] = "default"]
Fill(t) == UNCHANGED contents

InsertDefaults ==
    /\ job = "filling" /\ database = "up" /\ inserted # Filled
    /\ LET t == Filling[Cardinality(inserted) + 1]
       IN  inserted' = inserted \cup {t} /\ Fill(t)
    /\ UNCHANGED <<job, forced, database, exists, statement, cut, jobs>>

CommitDefaults ==
    /\ job = "filling" /\ database = "up" /\ inserted = Filled
    /\ GoesTo("none")
    /\ contents' = [t \in Tables |-> IF t \in inserted THEN "default" ELSE contents[t]]
    /\ UNCHANGED <<exists, statement, inserted, cut>>

\* An error, or the job is killed: the transaction is rolled back.
Aborts ==
    /\ job # "none"
    /\ GoesTo("none")
    /\ cut' = (cut \/ (job = "schema" /\ contents["users"] # "none"))
    /\ UNCHANGED <<exists, contents, statement, inserted>>

-----------------------------------------------------------------------------
BootstrapNext ==
    \/ DatabaseComesOrGoes \/ \E t \in Tables : Use(t)
    \/ \E force \in BOOLEAN : StartJob(force)
    \/ Connects \/ WaitTimesOut \/ Check \/ ExecStatement \/ StartFilling
    \/ InsertDefaults \/ CommitDefaults \/ Aborts

BootstrapSpec == BootstrapInit /\ [][BootstrapNext]_bootstrapVars

-----------------------------------------------------------------------------
BootstrapTypeOK ==
    /\ job \in {"none", "waiting", "checking", "schema", "filling"}
    /\ database \in {"up", "down"}
    /\ exists \subseteq Tables
    /\ contents \in [Tables -> {"none", "default", "site"}]
    /\ statement \in 1..(2 * Len(SchemaSql) + 1)
    /\ inserted \subseteq Filled
    /\ forced \in BOOLEAN /\ cut \in BOOLEAN

\* isAlreadyBootstrapped looks for the user root only, and refuses to repair
\* anything if there is one: so a root user means that every table is there and
\* has its default data, wherever a job before was cut off - except in
\* schema.sql on a site that had accounts, which drops the catalogue first.
RootMeansComplete ==
    job = "none" /\ contents["users"] # "none" /\ ~cut =>
        exists = Tables /\ \A t \in Filled : contents[t] # "none"

\* "--force: Force bootstrapping even if it appears to have occurred already":
\* without it the job never removes what the site has.  The code does.
BootstrapKeepsData ==
    [][\A t \in Tables : contents[t] = "site" /\ contents'[t] # "site" => forced]_bootstrapVars
================================================================================
