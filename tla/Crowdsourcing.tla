----------------------------- MODULE Crowdsourcing -----------------------------
(*****************************************************************************)
(* A batch of sentences that workers of Mechanical Turk paraphrase, and      *)
(* whose paraphrases other workers compare with the sentences before they    *)
(* are used for training.  Every request is a serializable transaction, and  *)
(* so one step; what makes this hard is the order of requests of many        *)
(* people, their repetition when an answer was lost, and counters that are   *)
(* stored twice.  Which task the tasks of the validation put a paraphrase in *)
(* is Genie's choice; programs, wording and the pages are left out.          *)
(*****************************************************************************)
EXTENDS Naturals, Sequences, FiniteSets

CONSTANTS Hits,                 \* tasks of the validation
          Workers,              \* who validate
          Target,               \* answers that are asked for
          PerSubmission,        \* paraphrases of one submission
          MaxParaphrases        \* bound: paraphrases in all

ASSUME CrowdAssumption == /\ IsFiniteSet(Workers)
                          /\ Target \in Nat \ {0}    \* routes/mturk.ts: 3
                          /\ PerSubmission \in Nat /\ MaxParaphrases \in Nat

VARIABLES batch,        \* the status of the batch
          paraphrases,  \* the rows of mturk_output and example_utterances
          log,          \* the rows of mturk_validation_log
          answers       \* who said what of a paraphrase

crowdVars == <<batch, paraphrases, log, answers>>

NoHit == 0
Paraphrase == [hit : Hits \cup {NoHit}, accept_count : Nat, reject_count : Nat, training : BOOLEAN]
Fresh == [hit |-> NoHit, accept_count |-> 0, reject_count |-> 0, training |-> FALSE]
Answers == {"same", "different"}
Ids == 1..MaxParaphrases

\* createMTurkBatch, with whole tasks of four sentences.
CrowdInit ==
    /\ batch = "created"
    /\ paraphrases = <<>>
    /\ log = {}
    /\ answers = [p \in Ids |-> [w \in Workers |-> {}]]

-----------------------------------------------------------------------------
(* A submission of paraphrases, without those that say "no idea".  Nothing   *)
(* tells it from the repetition of one.                                      *)
Submit(n) ==
    /\ batch \in {"created", "paraphrasing"}
    /\ Len(paraphrases) + n <= MaxParaphrases
    /\ batch' = "paraphrasing"
    /\ paraphrases' = paraphrases \o [i \in 1..n |-> Fresh]
    /\ UNCHANGED <<log, answers>>

\* streamUnvalidated
Unvalidated(p) == p.accept_count + p.reject_count < Target /\ ~p.training

\* A batch that is validated already is left as it is; others are refused.
StartValidation ==
    /\ batch = "paraphrasing" /\ batch' = "validating"
    /\ \E hit \in [DOMAIN paraphrases -> Hits] :
          paraphrases' = [p \in DOMAIN paraphrases |->
              IF Unvalidated(paraphrases[p]) THEN [paraphrases[p] EXCEPT !.hit = hit[p]]
              ELSE paraphrases[p]]
    /\ UNCHANGED <<log, answers>>

\* Whatever the status is.  With "autoapprove" nothing happens: the statement
\* that would set the flags is not valid SQL, and the status is rolled back.
CloseBatch == batch' = "complete" /\ UNCHANGED <<paraphrases, log, answers>>

-----------------------------------------------------------------------------
(* A submission of answers: about every paraphrase of the task.              *)

InHit(h) == {p \in DOMAIN paraphrases : paraphrases[p].hit = h}

\* markSentencesGood, markSentencesBad
MarkGood(p) ==
    [p EXCEPT !.accept_count = @ + 1,
              !.training = @ \/ (p.accept_count + 1 >= Target /\ p.reject_count = 0)]
MarkBad(p) == [p EXCEPT !.reject_count = @ + 1, !.training = FALSE]

\* getExistingValidationSubmission: a second submission is answered with the
\* first, and a bug to detect.
AlreadySubmitted_Never(w, h) == FALSE
AlreadySubmitted(w, h) == <<h, w>> \in log

\* It is refused with more than two wrong answers about fake paraphrases.
Validate(w, h) ==
    /\ ~AlreadySubmitted(w, h)
    /\ batch = "validating"
    /\ log' = log \cup {<<h, w>>}
    /\ \E answer \in [InHit(h) -> Answers] :
          /\ paraphrases' = [p \in DOMAIN paraphrases |->
                IF p \notin InHit(h) THEN paraphrases[p]
                ELSE IF answer[p] = "same" THEN MarkGood(paraphrases[p]) ELSE MarkBad(paraphrases[p])]
          /\ answers' = [p \in Ids |->
                IF p \in InHit(h) THEN [answers[p] EXCEPT ![w] = @ \cup {answer[p]}] ELSE answers[p]]
    /\ UNCHANGED batch

CrowdNext ==
    \/ \E n \in 0..PerSubmission : Submit(n)
    \/ StartValidation \/ CloseBatch
    \/ \E w \in Workers, h \in Hits : Validate(w, h)

CrowdSpec == CrowdInit /\ [][CrowdNext]_crowdVars

-----------------------------------------------------------------------------
CrowdTypeOK ==
    /\ batch \in {"created", "paraphrasing", "validating", "complete"}
    /\ paraphrases \in Seq(Paraphrase) /\ Len(paraphrases) <= MaxParaphrases
    /\ log \subseteq Hits \X Workers
    /\ answers \in [Ids -> [Workers -> SUBSET Answers]]

\* routes/mturk.ts: a paraphrase is used for training exactly when enough
\* different workers found it the same as the sentence and nobody found it
\* different, in whatever order answers arrive and are repeated.
Said(p, a) == {w \in Workers : a \in answers[p][w]}
TrainingIsUnanimous ==
    \A p \in DOMAIN paraphrases :
        paraphrases[p].training <=> /\ Cardinality(Said(p, "same")) >= Target
                                    /\ Said(p, "different") = {}
================================================================================
