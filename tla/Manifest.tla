-------------------------------- MODULE Manifest -------------------------------
(******************************************************************************)
(* What becomes of the manifest that a developer uploads for a device: it is  *)
(* checked and completed (util/validation.ts), reduced to a schema, which is  *)
(* compared with the one that is there (util/manifest_to_schema.ts), and      *)
(* taken apart into rows, two per function: one with its signature, and one   *)
(* for each language with its texts (model/schema.ts).  Whoever asks for the  *)
(* types gets a class that is put together from the first rows; for all there *)
(* is to know, one from both; and in other languages than English, the        *)
(* manifest itself with the texts of the rows.                                *)
(*                                                                            *)
(* Versions, their owners and who sees which are in Catalogue and             *)
(* Translations: here everybody sees the newest.  A text is English, or the   *)
(* translation of it; a name without underscores and capitals is a text.      *)
(* What a manifest lacks is Missing, which is undefined to the code, and      *)
(* neither null nor "".                                                       *)
(******************************************************************************)
EXTENDS Integers, Sequences

CONSTANTS ManifestOffers,   \* the manifests that are uploaded
          Naming,           \* the naming of kinds: what validateTag tells apart
          EntityTypes, WellKnown,  \* ids, and those that are there from the beginning
          ConfirmModes,     \* "confirm", "auto", "display_result"
          Missing, Null, Empty,
          MaxManifests      \* bound: uploads

Languages == {"en", "it"}
TextIn(words, language) == [words |-> words, language |-> language]

\* A manifest as it is read: a text is neither null nor empty nor missing.
IsName(n) == \A l \in Languages : TextIn(n, l) \notin {Missing, Null, Empty}
IsText(t) == t = TextIn(t.words, "en") /\ IsName(t.words)
IsArgument(a) ==
    /\ a = [name |-> a.name, type |-> a.type, direction |-> a.direction, canonical |-> a.canonical,
            prompt |-> a.prompt, string_values |-> a.string_values]
    /\ a.direction \in {"in req", "in opt", "out"} /\ IsName(a.name)
    /\ \A t \in {a.canonical, a.prompt} : t = Missing \/ IsText(t)
IsList(s) == s \in Seq({s[i] : i \in DOMAIN s})
IsFunction(f) ==
    /\ f = [what |-> f.what, extends |-> f.extends, is_monitorable |-> f.is_monitorable,
            poll_interval |-> f.poll_interval, url |-> f.url, confirm |-> f.confirm,
            canonical |-> f.canonical, confirmation |-> f.confirmation, args |-> f.args]
    /\ f.extends # Null /\ f.confirmation # Null
    /\ IsList(f.canonical) /\ \A i \in DOMAIN f.canonical : IsText(f.canonical[i])
    /\ IsList(f.args) /\ \A i \in DOMAIN f.args : IsArgument(f.args[i])
IsManifest(m) ==
    /\ m = [kind |-> m.kind, wellFormed |-> m.wellFormed, abstract |-> m.abstract, loader |-> m.loader,
            entities |-> m.entities, functions |-> m.functions, utterances |-> m.utterances]
    /\ m.kind \in DOMAIN Naming /\ DOMAIN m.entities \subseteq EntityTypes
    /\ \A n \in DOMAIN m.functions : IsName(n) /\ IsFunction(m.functions[n])

ASSUME ManifestAssumption ==
    /\ WellKnown \subseteq EntityTypes /\ MaxManifests \in Nat
    /\ \A m \in ManifestOffers : IsManifest(m)

VARIABLES manifests,      \* the completed manifest of each device, or Missing
          channelRows,    \* device_schema_channels, of the newest version
          canonicalRows,  \* device_schema_channel_canonicals, by language
          entityNames,    \* entity_names
          manifestsLeft

manifestVars == <<manifests, channelRows, canonicalRows, entityNames, manifestsLeft>>

ManifestKinds == DOMAIN Naming

ManifestInit ==
    /\ manifests = [k \in ManifestKinds |-> Missing]
    /\ channelRows = [k \in ManifestKinds |-> <<>>]
    /\ canonicalRows = [k \in ManifestKinds |-> [l \in Languages |-> Null]]
    /\ entityNames = WellKnown
    /\ manifestsLeft = MaxManifests

-----------------------------------------------------------------------------
(* Validation.                                                              *)

\* validateTag: for others than administrators there are naming conventions, and
\* the namespace of Thingpedia, except for its tests, is that of the root
\* organization.
MayName(who, naming) ==
    /\ naming # "malformed"
    /\ \/ who = "admin"
       \/ who = "root" /\ naming # "single"
       \/ naming \in {"dotted", "test"}

\* A loader that is no package of JavaScript has no code: all is in the manifest.
Fullcode(m) == ~m.abstract /\ m.loader # "javascript"

ValidArgument(a) ==
    a.string_values # Missing => a.type = "String" \/ a.type \in EntityTypes

\* validateInvocation
ValidFunction(m, f) ==
    /\ f.confirm \in BOOLEAN \cup {Missing} \cup ConfirmModes
    /\ (~m.abstract /\ f.what = "query" /\ f.is_monitorable) =>
          f.poll_interval # Missing /\ f.poll_interval >= 0
    /\ Fullcode(m) => f.url
    /\ \A i \in 1..Len(f.args) : ValidArgument(f.args[i])

\* validateUtterance: the placeholders are the arguments, all of them.
ValidUtterance(args, placeholders) == placeholders \subseteq args /\ args \subseteq placeholders

\* The types of arguments, and what the declared entities extend.
EntitiesUsed(m) ==
    UNION {m.entities[e] : e \in DOMAIN m.entities}
        \cup (EntityTypes \cap UNION {{m.functions[n].args[i].type : i \in 1..Len(m.functions[n].args)} :
                                        n \in DOMAIN m.functions})

\* validateDevice.  Well-formed is what is syntax, has just one class, of that
\* kind, at most one dataset, likewise and in English, describes its entities and
\* has no annotations but those that are known; on a form with all of its fields.
ValidManifest(m, who) ==
    /\ m.wellFormed
    /\ MayName(who, Naming[m.kind])
    /\ m.abstract \/ m.loader # Missing
    /\ \A n \in DOMAIN m.functions : ValidFunction(m, m.functions[n])
    /\ (EntitiesUsed(m) \ DOMAIN m.entities) \subseteq entityNames
    /\ \A u \in m.utterances : ValidUtterance(u.args, u.placeholders)

\* What is missing is made of the names; only actions are confirmed.
CompletedArgument(a) ==
    [a EXCEPT !.canonical = IF @ = Missing THEN TextIn(a.name, "en") ELSE @]
CompletedFunction(name, f) ==
    [f EXCEPT !.canonical = IF @ = <<>> THEN <<TextIn(name, "en")>> ELSE @,
              !.confirm = IF @ = Missing THEN f.what = "action" ELSE @,
              !.args = [i \in 1..Len(f.args) |-> CompletedArgument(f.args[i])]]
Completed(m) ==
    [m EXCEPT !.functions = [n \in DOMAIN m.functions |-> CompletedFunction(n, m.functions[n])]]

-----------------------------------------------------------------------------
(* Schemas, and their rows.                                                 *)

Column(args, Of(_)) == [i \in 1..Len(args) |-> Of(args[i])]

\* classDefToSchema
SchemaOfFunction(f) ==
    [what |-> f.what, extends |-> f.extends, is_monitorable |-> f.is_monitorable,
     confirm |-> f.confirm,
     canonical |-> Head(f.canonical), confirmation |-> f.confirmation,
     types |-> Column(f.args, LAMBDA a : a.type),
     args |-> Column(f.args, LAMBDA a : a.name),
     required |-> Column(f.args, LAMBDA a : a.direction = "in req"),
     is_input |-> Column(f.args, LAMBDA a : a.direction # "out"),
     string_values |-> Column(f.args, LAMBDA a : IF a.string_values = Missing THEN Null ELSE a.string_values),
     argcanonicals |-> Column(f.args, LAMBDA a : a.canonical),
     questions |-> Column(f.args, LAMBDA a : IF a.prompt = Missing THEN Empty ELSE a.prompt)]
SchemaOfManifest(m) == [n \in DOMAIN m.functions |-> SchemaOfFunction(m.functions[n])]

\* insertChannels: an empty list of what a function extends is stored as null, a
\* confirmation that is undefined too, and any mode of confirmation as true.
ChannelRow(s) ==
    [what |-> s.what, is_monitorable |-> s.is_monitorable, confirm |-> s.confirm # FALSE,
     extends |-> IF s.extends = <<>> THEN Null ELSE s.extends,
     types |-> s.types, args |-> s.args, required |-> s.required, is_input |-> s.is_input,
     string_values |-> s.string_values]
CanonicalRow(s) ==
    [canonical |-> s.canonical, argcanonicals |-> s.argcanonicals, questions |-> s.questions,
     confirmation |-> IF s.confirmation = Missing THEN Null ELSE s.confirmation]

\* Rows are not null.
ASSUME ManifestRowsAssumption ==
    \A m \in ManifestOffers :
        LET functions == Completed(m).functions
        IN  [n \in DOMAIN functions |-> CanonicalRow(SchemaOfFunction(functions[n]))] # Null

\* The left join, where a language has no row.
NoCanonicalRow == [canonical |-> Null, argcanonicals |-> <<>>, questions |-> <<>>, confirmation |-> Null]

\* processMetaRows, processTypeRows: the rows are what they say.
MetaOf(row, texts) ==
    [what |-> row.what, extends |-> row.extends, is_monitorable |-> row.is_monitorable,
     confirm |-> row.confirm, canonical |-> texts.canonical, confirmation |-> texts.confirmation,
     types |-> row.types, args |-> row.args, required |-> row.required, is_input |-> row.is_input,
     string_values |-> row.string_values,
     argcanonicals |-> texts.argcanonicals, questions |-> texts.questions]

\* getMetasByKinds
Metas(k, language) ==
    [n \in DOMAIN channelRows[k] |->
        MetaOf(channelRows[k][n],
               IF canonicalRows[k][language] = Null THEN NoCanonicalRow
               ELSE canonicalRows[k][language][n])]

\* areMetaIdentical, strictly.  A bug to detect: the arguments are not compared.
AreMetaIdentical_NoArgs(one, two) ==
    /\ DOMAIN one = DOMAIN two
    /\ \A n \in DOMAIN one : one[n].types = two[n].types /\ one[n].what = two[n].what
AreMetaIdentical(one, two) ==
    DOMAIN one = DOMAIN two /\ \A n \in DOMAIN one : one[n] = two[n]

\* makeSchemaFunctionDef: what the types are enough for, and what not.
DirectionOf(s, i) == IF s.required[i] THEN "in req" ELSE IF s.is_input[i] THEN "in opt" ELSE "out"
TypesOf(s) ==
    [what |-> s.what, extends |-> IF s.extends = Null THEN <<>> ELSE s.extends,
     is_monitorable |-> s.is_monitorable,
     args |-> [i \in 1..Len(s.types) |->
                  [name |-> s.args[i], type |-> s.types[i], direction |-> DirectionOf(s, i)]]]
TextsOf(s) ==
    [confirm |-> s.confirm, canonical |-> s.canonical,
     args |-> [i \in 1..Len(s.types) |->
                  [canonical |-> s.argcanonicals[i],
                   prompt |-> IF s.questions[i] = Empty THEN Missing ELSE s.questions[i]]]]

\* mergeFunctionDefAndSchema: the texts that there are, but not the confirmation.
HasText(texts, i) == i \in 1..Len(texts) /\ texts[i] # Empty
MergedFunction(f, s) ==
    [f EXCEPT !.canonical = IF s.canonical = Null THEN @ ELSE <<s.canonical>>,
              !.args = [i \in 1..Len(f.args) |->
                  [f.args[i] EXCEPT
                      !.canonical = IF HasText(s.argcanonicals, i) THEN s.argcanonicals[i] ELSE @,
                      !.prompt = IF HasText(s.questions, i) THEN s.questions[i] ELSE @]]]
CompleteFunction(f, s) ==
    s.canonical # Null /\ \A i \in 1..Len(f.args) : HasText(s.argcanonicals, i)

-----------------------------------------------------------------------------
(* Requests.                                                                *)

\* For a new version.
InsertChannels(k, schema) ==
    /\ channelRows' = [channelRows EXCEPT ![k] = [n \in DOMAIN schema |-> ChannelRow(schema[n])]]
    /\ canonicalRows' = [canonicalRows EXCEPT ![k] =
            [l \in Languages |-> IF l # "en" THEN Null
                                 ELSE [n \in DOMAIN schema |-> CanonicalRow(schema[n])]]]

\* In place of those that there are, for the newest version.
InsertTranslations(k, language, translations) ==
    canonicalRows' = [canonicalRows EXCEPT ![k][language] = translations]

\* importDevice, as uploadDevice; with ensurePrimarySchema: a schema that is identical is left as it
\* is, with its translations; else there is a new version that has none.
UploadManifest(who, m) ==
    LET k == m.kind
        schema == SchemaOfManifest(Completed(m))
        same == manifests[k] # Missing /\ AreMetaIdentical(Metas(k, "en"), schema)
    IN  /\ manifestsLeft > 0 /\ manifestsLeft' = manifestsLeft - 1
        /\ ValidManifest(m, who)
        /\ manifests' = [manifests EXCEPT ![k] = Completed(m)]
        /\ entityNames' = entityNames \cup DOMAIN m.entities
        /\ IF same THEN UNCHANGED <<channelRows, canonicalRows>> ELSE InsertChannels(k, schema)

\* computeTranslations: every text that there is in English has to be filled in, and
\* a confirmation always.
InItalian(text) == IF text = Empty THEN Empty ELSE [text EXCEPT !.language = "it"]
Translated(s) ==
    [canonical |-> InItalian(s.canonical), confirmation |-> TextIn("confirmation", "it"),
     argcanonicals |-> [i \in 1..Len(s.argcanonicals) |-> InItalian(s.argcanonicals[i])],
     questions |-> [i \in 1..Len(s.questions) |-> InItalian(s.questions[i])]]
TranslateManifest(k) ==
    /\ manifests[k] # Missing
    /\ LET english == Metas(k, "en")
       IN  InsertTranslations(k, "it", [n \in DOMAIN english |-> Translated(english[n])])
    /\ UNCHANGED <<manifests, channelRows, entityNames, manifestsLeft>>

\* The device goes with its schema and all rows; its entities stay.
DeleteManifest(k) ==
    /\ manifests[k] # Missing
    /\ manifests' = [manifests EXCEPT ![k] = Missing]
    /\ channelRows' = [channelRows EXCEPT ![k] = <<>>]
    /\ canonicalRows' = [canonicalRows EXCEPT ![k] = [l \in Languages |-> Null]]
    /\ UNCHANGED <<entityNames, manifestsLeft>>

ManifestNext ==
    \/ \E who \in {"admin", "root", "developer"}, m \in ManifestOffers : UploadManifest(who, m)
    \/ \E k \in ManifestKinds : TranslateManifest(k) \/ DeleteManifest(k)

ManifestSpec == ManifestInit /\ [][ManifestNext]_manifestVars

-----------------------------------------------------------------------------
\* What is said of a function without its texts.
Signature(f) ==
    [what |-> f.what, extends |-> f.extends, is_monitorable |-> f.is_monitorable,
     args |-> [i \in 1..Len(f.args) |->
                  [name |-> f.args[i].name, type |-> f.args[i].type, direction |-> f.args[i].direction]]]

\* thingpedia-client.ts, getSchemas and getDeviceCode: of the newest manifest of a
\* device, all who ask get the same functions, though one asks for its types, which
\* are in rows that may be of an earlier upload, another one for the snapshot with
\* its texts, and a third for the manifest in his language: which is whole just if
\* it was translated since the functions changed last.
ManifestIsServed ==
    \A k \in ManifestKinds : manifests[k] # Missing =>
        LET functions == manifests[k].functions
            english == Metas(k, "en")
            italian == Metas(k, "it")
        IN  /\ DOMAIN channelRows[k] = DOMAIN functions
            /\ \A n \in DOMAIN functions :
                  LET fn == functions[n]
                      merged == MergedFunction(fn, italian[n])
                  IN  /\ TypesOf(english[n]) = Signature(fn)
                      /\ TextsOf(english[n]) =
                            [confirm |-> fn.confirm # FALSE, canonical |-> Head(fn.canonical),
                             args |-> Column(fn.args, LAMBDA a : [canonical |-> a.canonical, prompt |-> a.prompt])]
                      /\ Signature(merged) = Signature(fn)
                      /\ CompleteFunction(fn, italian[n]) <=> canonicalRows[k]["it"] # Null
                      /\ LET language == IF CompleteFunction(fn, italian[n]) THEN "it" ELSE "en"
                         IN  /\ Head(merged.canonical).language = language
                             /\ \A i \in 1..Len(fn.args) :
                                   /\ merged.args[i].canonical.language = language
                                   /\ merged.args[i].prompt # Missing => merged.args[i].prompt.language = language

\* validateDevice, "Invalid entity types": the entities that a manifest of a device
\* speaks of are there, in whatever order devices that share them come and go.
EntitiesExist ==
    \A k \in ManifestKinds :
        manifests[k] # Missing => EntitiesUsed(manifests[k]) \subseteq entityNames

\* import_device.ts, "Skipped updating of schema: identical to previous version": a
\* manifest that is uploaded once more is only known to be the same if each of its
\* functions extends one, has a confirmation text and is just confirmed or not: the
\* others are not the same any more when they come back from their rows.
KnownAgain ==
    \A k \in ManifestKinds : manifests[k] # Missing =>
        (AreMetaIdentical(Metas(k, "en"), SchemaOfManifest(manifests[k]))
         <=> \A n \in DOMAIN manifests[k].functions :
                LET fn == manifests[k].functions[n]
                IN  fn.extends # <<>> /\ fn.confirmation # Missing /\ fn.confirm \in BOOLEAN)

\* What a developer uploads is what others get.
UploadIsServed == ManifestIsServed /\ EntitiesExist /\ KnownAgain
================================================================================
