------------------------------- MODULE Commands --------------------------------
(********************************************************************************)
(* The example commands of a device and their likes: example_utterances and     *)
(* example_likes.  A developer uploads the dataset of the device, as a file or  *)
(* as the form of the device shows it; users like commands and withdraw it,     *)
(* with two statements each that are not a transaction; an account is deleted   *)
(* with all of its likes.  A reader has the page of Commandpedia open, where a  *)
(* heart and a number stand beside a command.                                   *)
(*                                                                              *)
(* An example is a name, a code and phrases; each phrase is a row, and only the *)
(* first one has the name.  The canonical forms of the functions are rows, too, *)
(* which are called synthetic.                                                  *)
(********************************************************************************)
EXTENDS Integers, FiniteSets, Sequences

CONSTANTS Datasets,      \* what developers upload: sequences of examples
          Canonical,     \* the synthetic examples: a sequence of examples, of one phrase each
          NoName,        \* null, or the empty string
          Likers, Reader,  \* users; the one whose page is open
          LikeRequests,  \* concurrent requests of users
          NoRequest,
          CommandsScenes    \* bounds: which datasets; how many uploads, deleted rows, requests

IsSequence(s) == Len(s) \in Nat /\ DOMAIN s = 1..Len(s)

\* A request of a user for or against a command; what the page shows beside one.
LikeRequest == [user : Likers, id : Nat, up : BOOLEAN, current : Int,
                stage : {"asked", "half", "done"}, ok : BOOLEAN]
Heart == [heart : BOOLEAN, count : Int]

ASSUME CommandsAssumption ==
    /\ Reader \in Likers
    /\ \A d \in Datasets :
          /\ IsSequence(d) /\ \A i \in DOMAIN d : IsSequence(d[i].phrases)
          /\ \A i, j \in DOMAIN d : i # j => d[i].name # d[j].name \/ d[i].name = NoName
    /\ Len(Canonical) \in Nat
    /\ CommandsScenes \subseteq [datasets : SUBSET Datasets, uploads : Nat, deleted : Nat, likes : Nat]
    /\ NoRequest \notin LikeRequest

VARIABLES utterances,   \* the rows of the device's commands
          liked,      \* the rows of example_likes: user and id
          accounts,   \* the users that are left
          underWay,   \* requests under way
          page,       \* the hearts on the page, by id
          nextId,
          crossed,    \* history: the rows of a like with which a withdrawal crossed
          hastyClicks,  \* history: the hearts that were clicked both ways at a time
          remaining   \* counts down uploads, deleted rows and requests

commandsVars == <<utterances, liked, accounts, underWay, page, nextId, crossed, hastyClicks, remaining>>

CommandsInit ==
    /\ utterances = {} /\ liked = {} /\ accounts = Likers
    /\ underWay = [q \in LikeRequests |-> NoRequest]
    /\ page = <<>>
    /\ nextId = 1
    /\ crossed = {} /\ hastyClicks = {}
    /\ remaining \in CommandsScenes

ById(rows) ==
    [n \in 1..Cardinality(rows) |->
        CHOOSE r \in rows : Cardinality({s \in rows : s.id < r.id}) = n - 1]
Base == {r \in utterances : ~r.synthetic}

-----------------------------------------------------------------------------
(* The dataset.                                                              *)

\* rowsToExamples: the rows with the same code are one example, with the first name
\* among theirs.
Coalesced(rows) ==
    LET firsts == ById({r \in rows : \A s \in rows : s.code = r.code => r.id <= s.id})
        Of(code) == ById({r \in rows : r.code = code})
        Named(code) == ById({r \in rows : r.code = code /\ r.name # NoName})
    IN  [n \in DOMAIN firsts |->
            LET code == firsts[n].code
            IN  [name |-> IF Named(code) = <<>> THEN NoName ELSE Named(code)[1].name,
                 code |-> code,
                 phrases |-> [i \in DOMAIN Of(code) |-> Of(code)[i].phrase]]]

\* validateDataset: no name twice, the empty one of the form neither.
ValidDataset(d) == \A i, j \in DOMAIN d : i # j => d[i].name # d[j].name

\* The row that stays for an example: that of its name, if it has its code.
Stays(ex) == {r \in Base : r.name # NoName /\ r.name = ex.name /\ r.code = ex.code}

PhraseRow(ex, i, synthetic, id) ==
    [id |-> id, name |-> IF i = 1 THEN ex.name ELSE NoName, code |-> ex.code,
     phrase |-> ex.phrases[i], synthetic |-> synthetic, likes |-> 0]

\* The phrases of a dataset, by example and number; those that become new rows: all
\* but the first ones of the examples whose rows stay.
\* A bug to detect: none of an example whose row stays.
PhrasesOf(d) == UNION {{i} \X DOMAIN d[i].phrases : i \in DOMAIN d}
NewPhrases_NoneIfStays(d) == {p \in PhrasesOf(d) : Stays(d[p[1]]) = {}}
NewPhrases(d) == {p \in PhrasesOf(d) : p[2] > 1 \/ Stays(d[p[1]]) = {}}

\* The place of a phrase among those to create, from 0 on.
Before(p, q) == p[1] < q[1] \/ (p[1] = q[1] /\ p[2] < q[2])
PlaceIn(ps, p) == Cardinality({q \in ps : Before(q, p)})

\* ensureDataset: what stays, with the first phrase of its example; and, after the
\* rest was deleted, new rows for the canonical forms and for the new phrases.
Ensured(d) ==
    LET stay == UNION {{[r EXCEPT !.phrase = d[i].phrases[1]] : r \in Stays(d[i])} : i \in DOMAIN d}
        new == NewPhrases(d)
        c == Len(Canonical)
    IN  stay \cup {PhraseRow(Canonical[n], 1, TRUE, nextId + n - 1) : n \in 1..c}
             \cup {PhraseRow(d[p[1]], p[2], FALSE, nextId + c + PlaceIn(new, p)) : p \in new}

\* The likes of a row go with it.
RowsReplaced(rows) ==
    /\ utterances' = rows
    /\ liked' = {l \in liked : \E r \in rows : r.id = l[2]}

\* uploadDevice
UploadDataset(d) ==
    /\ remaining.uploads > 0 /\ remaining' = [remaining EXCEPT !.uploads = @ - 1]
    /\ ValidDataset(d)
    /\ RowsReplaced(Ensured(d))
    /\ nextId' = nextId + Len(Canonical) + Cardinality(NewPhrases(d))
    /\ UNCHANGED <<accounts, underWay, page, crossed, hastyClicks>>

\* An administrator deletes a command from Commandpedia.
DeleteById(id) ==
    /\ remaining.deleted > 0 /\ remaining' = [remaining EXCEPT !.deleted = @ - 1]
    /\ RowsReplaced({r \in utterances : r.id # id})
    /\ UNCHANGED <<accounts, underWay, page, nextId, crossed, hastyClicks>>

-----------------------------------------------------------------------------
(* Likes.                                                                    *)

Counts(id, n) == {IF r.id = id THEN [r EXCEPT !.likes = @ + n] ELSE r : r \in utterances}
IsThere(id) == \E r \in utterances : r.id = id

\* A request comes from the page (current is the number that it shows), or from
\* elsewhere.
BeginRequest(q, user, id, up, current) ==
    /\ underWay[q] = NoRequest
    /\ remaining.likes > 0 /\ remaining' = [remaining EXCEPT !.likes = @ - 1]
    /\ underWay' = [underWay EXCEPT ![q] =
            [user |-> user, id |-> id, up |-> up, current |-> current, stage |-> "asked", ok |-> FALSE]]
    /\ UNCHANGED <<utterances, liked, accounts, page, nextId, crossed>>

GoesOn(q, stage, ok) == underWay' = [underWay EXCEPT ![q].stage = stage, ![q].ok = ok]

\* like: a row that is there already, or whose user or command is gone, is ignored.
IsNewLike(t) == t.user \in accounts /\ IsThere(t.id) /\ <<t.user, t.id>> \notin liked

InsertLike(q) ==
    LET t == underWay[q]
    IN  /\ t # NoRequest /\ t.up /\ t.stage = "asked"
        /\ IF IsNewLike(t)
           THEN /\ liked' = liked \cup {<<t.user, t.id>>}
                /\ GoesOn(q, "half", TRUE)
           ELSE GoesOn(q, "done", FALSE) /\ UNCHANGED liked
        /\ UNCHANGED <<utterances, accounts, page, nextId, crossed, hastyClicks, remaining>>

CountLike(q) ==
    /\ underWay[q] # NoRequest /\ underWay[q].up /\ underWay[q].stage = "half"
    /\ utterances' = Counts(underWay[q].id, 1)
    /\ GoesOn(q, "done", TRUE)
    /\ UNCHANGED <<liked, accounts, page, nextId, crossed, hastyClicks, remaining>>

\* The same like is being withdrawn by another request, which has counted it down.
Withdrawn(user, id) ==
    \E q \in LikeRequests : /\ underWay[q] # NoRequest
                            /\ underWay[q].user = user /\ underWay[q].id = id
                            /\ ~underWay[q].up /\ underWay[q].stage = "half" /\ underWay[q].ok

\* unlike: the count goes down if there is a like, which is deleted then.
CountUnlike(q) ==
    LET t == underWay[q]
        there == <<t.user, t.id>> \in liked
    IN  /\ t # NoRequest /\ ~t.up /\ t.stage = "asked"
        /\ utterances' = IF there THEN Counts(t.id, -1) ELSE utterances
        /\ crossed' = IF there /\ Withdrawn(t.user, t.id) THEN crossed \cup {t.id} ELSE crossed
        /\ GoesOn(q, "half", there)
        /\ UNCHANGED <<liked, accounts, page, nextId, hastyClicks, remaining>>

DeleteLike(q) ==
    LET t == underWay[q]
    IN  /\ t # NoRequest /\ ~t.up /\ t.stage = "half"
        /\ liked' = liked \ {<<t.user, t.id>>}
        /\ GoesOn(q, "done", <<t.user, t.id>> \in liked)
        \* one that was counted down by this request, and has been deleted and made
        \* again since, or that was not there when this one began
        /\ crossed' = IF (<<t.user, t.id>> \in liked) = t.ok THEN crossed ELSE crossed \cup {t.id}
        /\ UNCHANGED <<utterances, accounts, page, nextId, hastyClicks, remaining>>

\* deleteAllLikesFromUser, and the row of the user: a transaction.
DeleteLiker(user) ==
    LET his == {l[2] : l \in {l \in liked : l[1] = user}}
    IN  /\ user \in accounts
        /\ accounts' = accounts \ {user}
        /\ utterances' = {IF r.id \in his THEN [r EXCEPT !.likes = @ - 1] ELSE r : r \in utterances}
        /\ liked' = {l \in liked : l[1] # user}
        /\ crossed' = crossed \cup {id \in his : Withdrawn(user, id)}
        /\ UNCHANGED <<underWay, page, nextId, hastyClicks, remaining>>

-----------------------------------------------------------------------------
(* The page.                                                                 *)

\* getCommandsForUser: "liked", and the count
LikedBy(user, id) == <<user, id>> \in liked

OpenCommands ==
    /\ Reader \in accounts /\ page = <<>>
    /\ page' = [id \in {r.id : r \in utterances} |->
                   [heart |-> LikedBy(Reader, id),
                    count |-> (CHOOSE r \in utterances : r.id = id).likes]]
    /\ UNCHANGED <<utterances, liked, accounts, underWay, nextId, crossed, hastyClicks, remaining>>

Pending(user, id, up) ==
    \E q \in LikeRequests : /\ underWay[q] # NoRequest
                            /\ underWay[q].user = user /\ underWay[q].id = id /\ underWay[q].up = up

\* heart.click
ClickHeart(q, id) ==
    /\ id \in DOMAIN page
    /\ BeginRequest(q, Reader, id, ~page[id].heart, page[id].count)
    /\ hastyClicks' = IF Pending(Reader, id, page[id].heart) THEN hastyClicks \cup {id} ELSE hastyClicks

Elsewhere(q, user, id, up) ==
    /\ user \in accounts \ {Reader} /\ IsThere(id)
    /\ BeginRequest(q, user, id, up, 0) /\ UNCHANGED hastyClicks

\* The answer is 'ok' or 'no_change'.
LikeAnswered(q) ==
    LET t == underWay[q]
        shown == [heart |-> t.up, count |-> t.current + (IF t.up THEN 1 ELSE -1)]
    IN  /\ t # NoRequest /\ t.stage = "done"
        /\ underWay' = [underWay EXCEPT ![q] = NoRequest]
        /\ page' = IF t.user = Reader /\ t.ok /\ t.id \in DOMAIN page
                   THEN [page EXCEPT ![t.id] = shown] ELSE page
        /\ UNCHANGED <<utterances, liked, accounts, nextId, crossed, hastyClicks, remaining>>

CommandsNext ==
    \/ \E d \in remaining.datasets : UploadDataset(d)
    \/ utterances # {} /\ UploadDataset(Coalesced(Base))
    \/ \E r \in utterances : DeleteById(r.id)
    \/ \E q \in LikeRequests :
          \/ \E id \in DOMAIN page : ClickHeart(q, id)
          \/ \E user \in Likers, r \in utterances, up \in BOOLEAN : Elsewhere(q, user, r.id, up)
          \/ InsertLike(q) \/ CountLike(q) \/ CountUnlike(q) \/ DeleteLike(q) \/ LikeAnswered(q)
    \/ \E user \in Likers : DeleteLiker(user)
    \/ OpenCommands

CommandsSpec == CommandsInit /\ [][CommandsNext]_commandsVars

-----------------------------------------------------------------------------
CommandsTypeOK ==
    /\ nextId \in Nat \ {0}
    /\ \A r \in utterances : r.id \in 1..nextId - 1 /\ r.likes \in Int
    /\ \A r, s \in utterances : r.id = s.id => r = s
    /\ liked \subseteq accounts \X {r.id : r \in utterances}
    /\ accounts \subseteq Likers
    /\ underWay \in [LikeRequests -> LikeRequest \cup {NoRequest}]
    /\ page \in [DOMAIN page -> Heart] /\ DOMAIN page \subseteq 1..nextId - 1

\* The likes of a command; the requests between their two statements.
LikesOf(id) == {l \in liked : l[2] = id}
HalfDone(id) ==
    {q \in LikeRequests : /\ underWay[q] # NoRequest /\ underWay[q].id = id
                          /\ underWay[q].stage = "half" /\ underWay[q].ok}

\* example.ts, like and unlike: the number of likes of a command is that of the users
\* who like it, but for the requests that are between their two statements; only a
\* withdrawal that crosses another one, a new like or the deletion of the account
\* sets them apart.  And the heart on the page, where it is clicked twice or more often
\* in a row, shows whether the user likes the command.
LikesAreCounted ==
    /\ \A r \in utterances : r.id \notin crossed =>
          r.likes = Cardinality(LikesOf(r.id)) - Cardinality(HalfDone(r.id))
    /\ \A id \in DOMAIN page \ hastyClicks :
          /\ Reader \in accounts /\ IsThere(id)
          /\ ~Pending(Reader, id, TRUE) /\ ~Pending(Reader, id, FALSE)
          => page[id].heart = (<<Reader, id>> \in liked)

\* thingpedia_upload.ts, ensureDataset: the form of a device, when it is submitted as
\* it is shown, changes none of its commands, and those with a name keep the row that
\* their likes are of; unless more than one has lost its name, when it is refused.
EditKeepsCommands ==
    LET form == Coalesced(Base)
        after == Ensured(form)
        Content(rows) == {<<r.code, r.phrase>> : r \in {r \in rows : ~r.synthetic}}
    IN  ValidDataset(form) =>
            /\ Content(after) = Content(utterances)
            /\ Cardinality({r \in after : ~r.synthetic}) = Cardinality(Base)
            /\ \A i \in DOMAIN form : form[i].name # NoName =>
                  \E r \in Base, s \in after :
                      /\ r.name = form[i].name /\ s.name = r.name
                      /\ s.id = r.id /\ s.likes = r.likes

\* A command stays what it is, with the likes that users gave it, whatever is done to
\* the others and to the dataset that it is in.
CommandsAreKept == LikesAreCounted /\ EditKeepsCommands
================================================================================
