--------------------------------- MODULE Upload --------------------------------
(****************************************************************************)
(* The upload of a file of values, of an entity or of strings               *)
(* (util/upload_dataset.ts): inside one transaction the old values are      *)
(* deleted, and the file goes through a parser, a transformer and a writer, *)
(* three streams that run ahead of each other, fail by themselves and are   *)
(* ended from outside when the one before them fails.  "we need to do a     *)
(* somewhat complex error handling dance to ensure that we don't have any   *)
(* inflight requests by the time we terminate the transaction".             *)
(*                                                                          *)
(* There is one entity or string type, in one language.  Its row is written *)
(* first, so that a second transaction waits for it.  Rows of a file are    *)
(* numbers, and an ill-formed row is skipped.                               *)
(****************************************************************************)
EXTENDS Naturals, Sequences, FiniteSets

CONSTANTS Files,        \* requests, each with its file
          NoFile,
          Length,       \* of a file
          MaxWaiting    \* highWaterMark of the streams

ASSUME UploadAssumption == /\ NoFile \notin Files
                           /\ Length \in Nat /\ MaxWaiting \in Nat \ {0}

VARIABLES upload,       \* per request: where it is
          parsed,       \* rows that the parser has read
          broken,       \* the parser has failed: `error` is set
          transforming, \* what waits in the transformer,
          ended,        \* no row will come after it
          writing,      \* and in the writer
          inflight,     \* an insert that the database has not answered yet
          keptRows,     \* the rows that were not skipped
          pending,      \* what the transaction has inserted
          stored,       \* committed values, pairs of a file and a row
          latest        \* the file whose request was the last to be answered well

uploadVars == <<upload, parsed, broken, transforming, ended, writing, inflight, keptRows,
                pending, stored, latest>>
streamVars == <<parsed, broken, transforming, ended, writing, inflight, keptRows>>

UploadInit ==
    /\ upload = [f \in Files |-> "none"]
    /\ parsed = [f \in Files |-> 0] /\ broken = [f \in Files |-> FALSE]
    /\ transforming = [f \in Files |-> <<>>] /\ ended = [f \in Files |-> FALSE]
    /\ writing = [f \in Files |-> <<>>] /\ inflight = [f \in Files |-> {}]
    /\ keptRows = [f \in Files |-> {}] /\ pending = [f \in Files |-> {}]
    /\ stored = {} /\ latest = NoFile

-----------------------------------------------------------------------------
(* The transaction.                                                         *)

InTransaction(f) == upload[f] \in {"streaming", "resolved", "rejected"}

\* The checks, the row of the type, deleteValues, and the streams.
BeginUpload(f) ==
    /\ upload[f] = "none" /\ \A g \in Files : ~InTransaction(g)
    /\ upload' = [upload EXCEPT ![f] = "streaming"]
    /\ UNCHANGED <<streamVars, pending, stored, latest>>

CommitUpload(f) ==
    /\ upload[f] = "resolved"
    /\ upload' = [upload EXCEPT ![f] = "ok"]
    /\ stored' = pending[f] /\ latest' = f
    /\ UNCHANGED <<streamVars, pending>>

\* Also when the commit fails.  The connection is destroyed: withTransaction
\* calls done() again, with the error.
RollbackUpload(f) ==
    /\ upload[f] \in {"resolved", "rejected"}
    /\ upload' = [upload EXCEPT ![f] = "failed"]
    /\ UNCHANGED <<streamVars, pending, stored, latest>>

-----------------------------------------------------------------------------
(* The streams.  They go on, as far as they can, when the promise that waits  *)
(* for them is settled.                                                     *)

Runs(f) == upload[f] \notin {"none", "failed"}

Parse(f) ==
    /\ Runs(f) /\ ~broken[f] /\ parsed[f] < Length /\ Len(transforming[f]) < MaxWaiting
    /\ parsed' = [parsed EXCEPT ![f] = @ + 1]
    /\ transforming' = [transforming EXCEPT ![f] = Append(@, parsed[f] + 1)]
    /\ UNCHANGED <<upload, broken, ended, writing, inflight, keptRows, pending, stored, latest>>

\* parser 'end', and its 'error'
ParserEnds(f) ==
    /\ Runs(f) /\ ~ended[f]
    /\ \/ parsed[f] = Length /\ UNCHANGED broken
       \/ parsed[f] < Length /\ broken' = [broken EXCEPT ![f] = TRUE]
    /\ ended' = [ended EXCEPT ![f] = TRUE]
    /\ UNCHANGED <<upload, parsed, transforming, writing, inflight, keptRows, pending, stored, latest>>

Transform(f, skip) ==
    /\ Runs(f) /\ transforming[f] # <<>> /\ Len(writing[f]) < MaxWaiting
    /\ transforming' = [transforming EXCEPT ![f] = Tail(@)]
    /\ IF skip THEN UNCHANGED <<writing, keptRows>>
       ELSE /\ writing' = [writing EXCEPT ![f] = Append(@, Head(transforming[f]))]
            /\ keptRows' = [keptRows EXCEPT ![f] = @ \cup {Head(transforming[f])}]
    /\ UNCHANGED <<upload, parsed, broken, ended, inflight, pending, stored, latest>>

\* write, and writev of all that waits.
WriteRows(f) ==
    /\ Runs(f) /\ writing[f] # <<>> /\ inflight[f] = {}
    /\ \E n \in {1, Len(writing[f])} :
          /\ inflight' = [inflight EXCEPT ![f] = {<<f, writing[f][i]>> : i \in 1..n}]
          /\ writing' = [writing EXCEPT ![f] = SubSeq(@, n + 1, Len(@))]
    /\ UNCHANGED <<upload, parsed, broken, transforming, ended, keptRows, pending, stored, latest>>

\* After the commit the connection is somebody else's, and the insert is not
\* part of any transaction of this request.
Inserted(f) ==
    /\ Runs(f) /\ inflight[f] # {}
    /\ IF InTransaction(f)
       THEN pending' = [pending EXCEPT ![f] = @ \cup inflight[f]] /\ UNCHANGED stored
       ELSE stored' = stored \cup inflight[f] /\ UNCHANGED pending
    /\ inflight' = [inflight EXCEPT ![f] = {}]
    /\ UNCHANGED <<upload, parsed, broken, transforming, ended, writing, keptRows, latest>>

\* The writer is destroyed.
InsertFails(f) ==
    /\ upload[f] = "streaming" /\ inflight[f] # {}
    /\ inflight' = [inflight EXCEPT ![f] = {}]
    /\ upload' = [upload EXCEPT ![f] = "rejected"]
    /\ UNCHANGED <<parsed, broken, transforming, ended, writing, keptRows, pending, stored, latest>>

\* A bug to detect: what was read before the error is good enough.
Outcome_Resolved(f) == "resolved"
Outcome(f) == IF broken[f] THEN "rejected" ELSE "resolved"

\* writer 'finish'
WriterFinishes(f) ==
    /\ upload[f] = "streaming" /\ ended[f]
    /\ transforming[f] = <<>> /\ writing[f] = <<>> /\ inflight[f] = {}
    /\ upload' = [upload EXCEPT ![f] = Outcome(f)]
    /\ UNCHANGED <<streamVars, pending, stored, latest>>

-----------------------------------------------------------------------------
UploadNext ==
    \E f \in Files :
        \/ BeginUpload(f) \/ CommitUpload(f) \/ RollbackUpload(f) \/ Parse(f) \/ ParserEnds(f)
        \/ \E skip \in BOOLEAN : Transform(f, skip)
        \/ WriteRows(f) \/ Inserted(f) \/ InsertFails(f) \/ WriterFinishes(f)

UploadSpec == UploadInit /\ [][UploadNext]_uploadVars

-----------------------------------------------------------------------------
UploadTypeOK ==
    /\ upload \in [Files -> {"none", "streaming", "resolved", "rejected", "ok", "failed"}]
    /\ parsed \in [Files -> 0..Length]
    /\ broken \in [Files -> BOOLEAN] /\ ended \in [Files -> BOOLEAN]
    /\ keptRows \in [Files -> SUBSET (1..Length)]
    /\ latest \in Files \cup {NoFile}

\* uploadEntities, uploadStringDataset: whichever stream fails, and wherever the
\* others are then, the values are those of one whole file, of the request that
\* was answered last: nothing of another file, nothing missing, and no insert
\* comes after the transaction.
StoredIsOneFile ==
    IF latest = NoFile THEN stored = {}
    ELSE /\ stored = {latest} \X keptRows[latest]
         /\ parsed[latest] = Length /\ transforming[latest] = <<>>
         /\ writing[latest] = <<>> /\ inflight[latest] = {}
================================================================================
