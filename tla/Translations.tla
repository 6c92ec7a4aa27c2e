------------------------------ MODULE Translations -----------------------------
(******************************************************************************)
(* The versions of a schema over time: what snapshots of Thingpedia keep of   *)
(* them, and the translations of their functions that anybody who is logged   *)
(* in may contribute (model/schema.ts, model/snapshot.ts,                     *)
(* routes/thingpedia_translate.ts).  A snapshot copies the rows of schemas    *)
(* with their version numbers, not the functions; whoever asks for it may     *)
(* keep the answer for six months, and the server confirms it ever after by   *)
(* its number alone.  A translation is made on a form, for the functions that *)
(* its translator sees, and stored for the newest version.                    *)
(*                                                                            *)
(* One kind of device, and one language beside English.  The texts of the     *)
(* form, which is filled in from an older version, are not told apart.  The   *)
(* requests are serializable transactions, one step each.                     *)
(******************************************************************************)
EXTENDS Naturals, Sequences, FiniteSets

CONSTANTS Functions,
          SchemaClasses,    \* bound: the sets of functions that are uploaded
          RecognisedSchemas,  \* those that are known again when they are uploaded once more: see Manifest
          NoRow,            \* no schema; no answer; no form
          Readers,          \* developer organizations, or none
          Author,           \* the owner of the schema
          SchemaIds,              \* bound: 1..n; schemas of this kind, one after the other
          MaxVersion,       \* bound: the last version of the first schema; one less of the next
          MaxSnapshots      \* bound

ASSUME TranslationsAssumption ==
    /\ IsFiniteSet(Functions) /\ SchemaClasses \subseteq SUBSET Functions
    /\ RecognisedSchemas \subseteq SchemaClasses
    /\ Author \in Readers
    /\ SchemaIds \subseteq Nat /\ {MaxVersion, MaxSnapshots} \subseteq Nat

VARIABLES row,          \* of device_schema
          deletions,    \* counts them; the ids of schemas are not used again
          channels,     \* per id and version: the functions
          canonicals,   \* per id and version: the functions that are translated
          snapshots,    \* the copies of the row
          cached,       \* an answer that somebody keeps
          form,         \* the open form: its translator and functions
          mixed         \* versions with translations that were made for another

translationVars == <<row, deletions, channels, canonicals, snapshots, cached, form, mixed>>
schemaVars == <<row, deletions, channels>>

\* A row of device_schema: its id, the newest version and the approved one, or null.
SchemaRow == [id : SchemaIds, developer_version : 0..MaxVersion,
              approved_version : (0..MaxVersion) \cup {NoRow}]
ASSUME NoRowIsNoSchema == NoRow \notin Nat \cup SchemaRow

SchemaVersions == SchemaIds \X (0..MaxVersion)
Newest(r) == <<r.id, r.developer_version>>

TranslationsInit ==
    /\ row = NoRow /\ deletions = 0
    /\ channels = [v \in SchemaVersions |-> {}]
    /\ canonicals = [v \in SchemaVersions |-> {}]
    /\ snapshots = <<>> /\ cached = NoRow
    /\ form = NoRow
    /\ mixed = {}

-----------------------------------------------------------------------------
(* Queries.                                                                 *)

\* The version of a row that an organization is shown, or none.
ShownVersion(r, org) ==
    IF r = NoRow THEN {}
    ELSE IF org = Author THEN {Newest(r)}
    ELSE {<<r.id, v>> : v \in {r.approved_version} \ {NoRow}}

\* getTypesAndNamesByKinds, getMetasByKinds, getCurrentSnapshotTypes and Meta:
\* a set, empty or of one class, that is a set of functions.
CurrentFor(org) == {channels[v] : v \in ShownVersion(row, org)}

\* A bug to detect: the versions are those of today.
SnapshotFor_Today(n, org) ==
    IF snapshots[n] = NoRow THEN {} ELSE {channels[v] : v \in ShownVersion(row, org)}

\* getSnapshotTypes, and getSnapshotMeta in English.  (An administrator's answer
\* has the classes of every snapshot; there is none among the readers.)
SnapshotFor(n, org) == {channels[v] : v \in ShownVersion(snapshots[n], org)}

\* isKindTranslated
IsTranslated(v) == Cardinality(channels[v]) <= Cardinality(canonicals[v])

-----------------------------------------------------------------------------
(* The schema.                                                              *)

\* insertChannels
Inserts(r, functions) ==
    /\ r.developer_version + r.id <= MaxVersion + 1
    /\ row' = r /\ channels' = [channels EXCEPT ![Newest(r)] = functions]

\* ensurePrimarySchema, of an upload: create, update, or nothing but the
\* approval if it is the same class.
UploadSchema(functions, approve) ==
    /\ IF row = NoRow
       THEN /\ deletions + 1 \in SchemaIds
            /\ Inserts([id |-> deletions + 1, developer_version |-> 0,
                        approved_version |-> IF approve THEN 0 ELSE NoRow], functions)
       ELSE IF channels[Newest(row)] = functions /\ functions \in RecognisedSchemas
       THEN /\ approve /\ row.approved_version = NoRow
            /\ row' = [row EXCEPT !.approved_version = row.developer_version]
            /\ UNCHANGED channels
       ELSE LET next == row.developer_version + 1
            IN  Inserts([row EXCEPT !.developer_version = next,
                                    !.approved_version = IF approve THEN next ELSE @], functions)
    /\ UNCHANGED <<deletions, canonicals, snapshots, cached, form, mixed>>

\* approveByKind, unapproveByKind
SetSchemaApproval(v) ==
    /\ row # NoRow
    /\ row' = [row EXCEPT !.approved_version = v]
    /\ UNCHANGED <<deletions, channels, canonicals, snapshots, cached, form, mixed>>
ApproveSchema == row # NoRow /\ SetSchemaApproval(row.developer_version)
UnapproveSchema == SetSchemaApproval(NoRow)

\* Neither the functions nor the snapshots go with the row.
DeleteSchema ==
    /\ row # NoRow
    /\ row' = NoRow /\ deletions' = deletions + 1
    /\ UNCHANGED <<channels, canonicals, snapshots, cached, form, mixed>>

-----------------------------------------------------------------------------
(* Snapshots.                                                               *)

\* POST /thingpedia/snapshots/create
CreateSnapshot ==
    /\ Len(snapshots) < MaxSnapshots
    /\ snapshots' = Append(snapshots, row)
    /\ UNCHANGED <<schemaVars, canonicals, cached, form, mixed>>

\* getSnapshot of the API: an answer with classes is kept.
GetSnapshot(n, org) ==
    /\ cached = NoRow /\ n \in DOMAIN snapshots
    /\ SnapshotFor(n, org) # {}
    /\ cached' = [snapshot |-> n, org |-> org, classes |-> SnapshotFor(n, org)]
    /\ UNCHANGED <<schemaVars, canonicals, snapshots, form, mixed>>

-----------------------------------------------------------------------------
(* Translations.                                                            *)

\* GET /by-id/:kind: the translator fills in the form, or part of it.
OpenForm(t, names) ==
    /\ \E class \in CurrentFor(t) : names \subseteq class
    /\ form = NoRow /\ form' = [by |-> t, functions |-> names]
    /\ UNCHANGED <<schemaVars, canonicals, snapshots, cached, mixed>>

\* computeTranslations: every function must be there.  A bug to detect: what is
\* there is taken.
Refuses_Nothing(names, class) == FALSE
Refuses(names, class) == ~(class \subseteq names)

\* POST /by-id/:kind, for the functions that the translator sees by now; those
\* that the form has beside them are ignored.
Contribute ==
    /\ form # NoRow
    /\ \E v \in ShownVersion(row, form.by) :
          /\ ~Refuses(form.functions, channels[v])
          /\ canonicals' = [canonicals EXCEPT
                                ![Newest(row)] = @ \cup (channels[v] \cap form.functions)]
          /\ mixed' = IF v = Newest(row) THEN mixed ELSE mixed \cup {Newest(row)}
    /\ form' = NoRow
    /\ UNCHANGED <<schemaVars, snapshots, cached>>

\* The form is refused, or its page is closed.
CloseForm == form # NoRow /\ form' = NoRow
             /\ UNCHANGED <<schemaVars, canonicals, snapshots, cached, mixed>>

-----------------------------------------------------------------------------
TranslationsNext ==
    \/ \E functions \in SchemaClasses, approve \in BOOLEAN : UploadSchema(functions, approve)
    \/ ApproveSchema \/ UnapproveSchema \/ DeleteSchema \/ CreateSnapshot
    \/ \E org \in Readers, n \in 1..MaxSnapshots : GetSnapshot(n, org)
    \/ \E t \in Readers, names \in SUBSET Functions \ {{}} : OpenForm(t, names)
    \/ Contribute \/ CloseForm

TranslationsSpec == TranslationsInit /\ [][TranslationsNext]_translationVars

-----------------------------------------------------------------------------
TranslationsTypeOK ==
    /\ row \in SchemaRow \cup {NoRow} /\ snapshots \in Seq(SchemaRow \cup {NoRow})
    /\ deletions \in Nat
    /\ channels \in [SchemaVersions -> SUBSET Functions]
    /\ canonicals \in [SchemaVersions -> SUBSET Functions]
    /\ mixed \subseteq SchemaVersions

\* getSnapshot: "snapshot-N", with the key and the language, is all that the ETag
\* says, so an answer that somebody keeps is what the server would answer again,
\* whatever is uploaded, approved, deleted and created anew since.  That holds of
\* the functions, and of their English texts.
SnapshotIsStable ==
    cached # NoRow => SnapshotFor(cached.snapshot, cached.org) = cached.classes

\* computeTranslations, isKindTranslated: a version is translated whole or not at
\* all, though forms are older than the versions they are stored for - except by
\* translators who see another version than the newest.
TranslatedWhole ==
    \A v \in SchemaVersions \ mixed :
        canonicals[v] # {} => channels[v] \subseteq canonicals[v] /\ IsTranslated(v)
================================================================================
