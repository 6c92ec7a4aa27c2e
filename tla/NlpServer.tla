------------------------------- MODULE NlpServer -------------------------------
(*****************************************************************************)
(* One model of the NLP inference server, and the requests that reload it    *)
(* when training has made a newer one: the training daemon, retries of it    *)
(* and administrators call, nothing keeps the calls apart, and each waits    *)
(* for the download in between.  A load makes a temporary directory, unless  *)
(* the model is on another server, and a predictor, which is a process;      *)
(* both have the number of the load.  Queries are given to the predictor     *)
(* that they find, unless the cache of Redis, which knows neither models nor *)
(* loads, has an answer: all queries here are about one sentence.  The exact *)
(* matchers are left out.                                                    *)
(*****************************************************************************)
EXTENDS Naturals

CONSTANTS Reloads,      \* concurrent requests
          Downloaded,   \* the model is downloaded to a directory of its own
          MaxReloads,   \* bound: requests in all
          Queries,      \* at a time
          WithCache     \* the server has Redis

ASSUME NlpAssumption == {Downloaded, WithCache} \subseteq BOOLEAN /\ MaxReloads \in Nat

VARIABLES predictor, localdir,  \* of the model
          running,              \* the predictors that were not stopped
          dirs,                 \* the temporary directories that exist
          reload,               \* the requests that are under way
          reloads,              \* counts them
          overlapped,           \* two reloads were under way at the same time
          query,                \* the queries, with the predictor that each was given to
          cachedAnswer          \* the load whose answer is in the cache, or NoDir

reloadVars == <<predictor, localdir, running, dirs, reload, reloads, overlapped>>
queryVars == <<query, cachedAnswer>>
nlpVars == <<reloadVars, queryVars>>

Loads == 0..MaxReloads
NoDir == MaxReloads + 1
Done == [stage |-> "done", oldpredictor |-> 0, oldlocaldir |-> NoDir, number |-> 0]
Reload == [stage : {"done", "loading", "cleaning"}, oldpredictor : Loads \cup {NoDir},
           oldlocaldir : Loads \cup {NoDir}, number : Loads]

NoQuery == [stage |-> "none", predictor |-> 0]

NewDir(n) == IF Downloaded THEN n ELSE NoDir
DirsOf(n) == {n} \ {NoDir}

\* load, of the server; requests are served after it.
NlpInit ==
    /\ predictor = 0 /\ localdir = NewDir(0)
    /\ running = {0} /\ dirs = DirsOf(NewDir(0))
    /\ reload = [c \in Reloads |-> Done]
    /\ reloads = 0
    /\ overlapped = FALSE
    /\ query = [q \in Queries |-> NoQuery] /\ cachedAnswer = NoDir

-----------------------------------------------------------------------------
Quiet == \A c \in Reloads : reload[c].stage = "done"

\* What to stop and remove is remembered, and the download begins.
StartReload(c) ==
    /\ reload[c].stage = "done" /\ reloads < MaxReloads
    /\ reloads' = reloads + 1
    /\ overlapped' = (overlapped \/ ~Quiet)
    /\ reload' = [reload EXCEPT ![c] =
            [stage |-> "loading", oldpredictor |-> predictor, oldlocaldir |-> localdir,
             number |-> reloads + 1]]
    /\ UNCHANGED <<queryVars, predictor, localdir, running, dirs>>

\* A bug to detect: what the model has after the load is cleaned up.
Replaced_Late(r) == [r EXCEPT !.stage = "cleaning", !.oldpredictor = r.number, !.oldlocaldir = NewDir(r.number)]
Replaced_ByLoad(r) == [r EXCEPT !.stage = "cleaning"]

\* The download ends: the model has the new directory and predictor.
Loaded(c) ==
    LET n == reload[c].number
    IN  /\ reload[c].stage = "loading"
        /\ predictor' = n /\ localdir' = NewDir(n)
        /\ running' = running \cup {n} /\ dirs' = dirs \cup DirsOf(NewDir(n))
        /\ reload' = [reload EXCEPT ![c] = Replaced_ByLoad(@)]
        /\ UNCHANGED <<queryVars, reloads, overlapped>>

\* It fails, and the request with it; what was downloaded is left behind.
LoadFails(c) ==
    /\ reload[c].stage = "loading" /\ Downloaded
    /\ reload' = [reload EXCEPT ![c] = Done]
    /\ dirs' = dirs \cup {reload[c].number}
    /\ UNCHANGED <<queryVars, predictor, localdir, running, reloads, overlapped>>

\* The two halves of Promise.all; the answer does not wait for the second of
\* them when the first fails, which changes nothing here.
StopOld(c) ==
    /\ reload[c].stage = "cleaning" /\ reload[c].oldpredictor \in running
    /\ running' = running \ {reload[c].oldpredictor}
    /\ UNCHANGED <<queryVars, predictor, localdir, dirs, reload, reloads, overlapped>>
RemoveOld(c) ==
    /\ reload[c].stage = "cleaning" /\ reload[c].oldlocaldir \in dirs
    /\ dirs' = dirs \ {reload[c].oldlocaldir}
    /\ UNCHANGED <<queryVars, predictor, localdir, running, reload, reloads, overlapped>>

\* Both are done, or another reload had the same to clean up and was faster.
ReloadEnds(c) ==
    /\ reload[c].stage = "cleaning"
    /\ reload[c].oldpredictor \notin running /\ reload[c].oldlocaldir \notin dirs
    /\ reload' = [reload EXCEPT ![c] = Done]
    /\ UNCHANGED <<queryVars, predictor, localdir, running, dirs, reloads, overlapped>>

-----------------------------------------------------------------------------
\* runNLU gives the query to the predictor that the model has at this moment.
RunNLU(q) ==
    /\ query[q].stage \in {"none", "over", "failed"}
    /\ query' = [query EXCEPT ![q] = [stage |-> "given", predictor |-> predictor]]
    /\ UNCHANGED <<reloadVars, cachedAnswer>>

\* cacheGet, after the query is tokenized; a hit is the answer, whoever gave it.
CacheGet(q) ==
    /\ query[q].stage = "given"
    /\ query' = [query EXCEPT ![q].stage =
            IF WithCache /\ cachedAnswer # NoDir THEN "over" ELSE "predicting"]
    /\ UNCHANGED <<reloadVars, cachedAnswer>>

\* A predictor that is stopped fails its queries.
Predict(q) ==
    /\ query[q].stage = "predicting"
    /\ query' = [query EXCEPT ![q].stage =
            IF query[q].predictor \in running THEN "predicted" ELSE "failed"]
    /\ UNCHANGED <<reloadVars, cachedAnswer>>

\* The cache may come to hold the answer of an older predictor than it had.
CacheSet(q) ==
    /\ query[q].stage = "predicted"
    /\ cachedAnswer' = IF WithCache THEN query[q].predictor ELSE cachedAnswer
    /\ query' = [query EXCEPT ![q].stage = "over"]
    /\ UNCHANGED reloadVars

\* After a day.
CacheExpires ==
    /\ cachedAnswer # NoDir /\ cachedAnswer' = NoDir
    /\ UNCHANGED <<reloadVars, query>>

NlpNext == \/ \E c \in Reloads : \/ StartReload(c) \/ Loaded(c) \/ LoadFails(c)
                                 \/ StopOld(c) \/ RemoveOld(c) \/ ReloadEnds(c)
           \/ \E q \in Queries : RunNLU(q) \/ CacheGet(q) \/ Predict(q) \/ CacheSet(q)
           \/ CacheExpires

NlpSpec == NlpInit /\ [][NlpNext]_nlpVars

-----------------------------------------------------------------------------
NlpTypeOK ==
    /\ predictor \in Loads /\ localdir \in Loads \cup {NoDir}
    /\ running \subseteq Loads /\ dirs \subseteq Loads
    /\ reload \in [Reloads -> Reload]
    /\ overlapped \in BOOLEAN
    /\ query \in [Queries -> [stage : {"none", "given", "predicting", "predicted", "over", "failed"},
                              predictor : Loads]]
    /\ cachedAnswer \in Loads \cup {NoDir}

\* NLPModel.reload: at every moment queries find a predictor that runs on
\* files that exist, however reloads cross and fail; and when reloads do not
\* overlap they leave no other predictor running.  A query fails only if the
\* model was reloaded while it was under way.
ServesItsModel ==
    /\ predictor \in running
    /\ Downloaded => localdir = predictor /\ localdir \in dirs
    /\ Quiet /\ ~overlapped => running = {predictor}
    /\ \A q \in Queries : query[q].stage = "failed" => query[q].predictor # predictor
================================================================================
