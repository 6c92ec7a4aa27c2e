------------------------------- MODULE Catalogue -------------------------------
(****************************************************************************)
(* Thingpedia's catalogue, for one kind of device: the device and its       *)
(* versions (device_class, device_code_version), its schema, which has      *)
(* versions of its own, its example commands, and the packages, which are   *)
(* files outside of the database.  A developer's uploads are versions that  *)
(* an administrator approves; who asks without a developer key sees the     *)
(* approved version, the owner and the administrators the newest one.       *)
(*                                                                          *)
(* A class is abstracted to its functions.  An upload is a transaction with *)
(* REPEATABLE READ: a snapshot is read and checked first, and the rows it   *)
(* writes stay locked until it commits.  Approve, unapprove and delete are  *)
(* serializable transactions, one step each.                                *)
(****************************************************************************)
EXTENDS Naturals

CONSTANTS Classes,      \* sets of functions
          Recognised,   \* those that are known again when they are uploaded once more: see Manifest
          Packages,     \* contents of zip files
          Keep,         \* instead of a package: that of the version before
          None,         \* no package; no version; no developer key
          Offers,       \* the classes and packages that developers upload
          Orgs, Admin,  \* developer organizations, one of administrators
          Uploads,      \* concurrent requests
          MaxCommits    \* bound: uploads that succeed

ASSUME CatalogueAssumption ==
    /\ None \notin Classes \cup Packages \cup Orgs \cup {Keep}
    /\ Keep \notin Packages /\ Recognised \subseteq Classes
    /\ Offers \subseteq [class : Classes, package : Packages \cup {Keep, None}]
    /\ Admin \in Orgs
    /\ MaxCommits \in Nat

VARIABLES device,       \* the row of the device
          code,         \* its versions
          schema,       \* the row of the schema
          metas,        \* the functions of its versions
          examples,     \* the functions its example commands use
          zip,          \* the stored packages, by version
          uploads,      \* the open transactions
          commits,      \* counts the uploads that succeeded; makes ids
          skewed        \* the approvals of device and schema were set apart

rows == <<device, code, schema, metas, examples>>
vars == <<device, code, schema, metas, examples, zip, uploads, commits, skewed>>

Versions == 0..MaxCommits - 1
Version == Versions \cup {None}

\* A version: its class, and the package it was meant to have.
Code == [class : Classes, package : Packages \cup {None}]
Device == [id : 1..MaxCommits, owner : Orgs, developer_version : Versions, approved_version : Version]
Schema == [developer_version : Versions, approved_version : Version]

\* null is none of the rows, and no number.
ASSUME NoneIsNoRow == None \notin Nat \cup Code \cup Device \cup Schema

Closed == [open |-> FALSE]

Init == /\ device = None /\ schema = None /\ examples = None
        /\ code = [v \in Versions |-> None]
        /\ metas = [v \in Versions |-> None]
        /\ zip = [v \in Versions |-> None]
        /\ uploads = [u \in Uploads |-> Closed]
        /\ commits = 0
        /\ skewed = FALSE

-----------------------------------------------------------------------------
(* Queries.                                                                 *)

\* An organization's own devices, and all devices for administrators.
MaySeeNewest(org) == org = Admin \/ org = device.owner

\* The version of a row (of the device, of its schema) that an organization
\* sees.
VersionFor(row, org) ==
    IF device = None THEN None
    ELSE IF MaySeeNewest(org) THEN row.developer_version ELSE row.approved_version

\* getFullCodeByPrimaryKinds
CodeFor(org) ==
    LET v == VersionFor(device, org) IN IF v = None THEN None ELSE code[v]

\* getTypesAndNamesByKinds, getMetasByKinds
MetasFor(org) ==
    LET v == VersionFor(schema, org) IN IF v = None THEN None ELSE metas[v]

\* getAllApproved and the other lists
ListedFor(org) ==
    device # None /\ (MaySeeNewest(org) \/ device.approved_version # None)

\* getModuleLocation, of a version
MayDownload(org, v) ==
    /\ CodeFor(org) # None
    /\ CodeFor(org).package # None
    /\ v <= VersionFor(device, org)

\* getCommands: the base examples of devices with an approved schema
Commands ==
    IF schema = None \/ examples = None THEN {}
    ELSE IF schema.approved_version = None THEN {} ELSE examples

-----------------------------------------------------------------------------
(* An upload.                                                               *)

\* The device is read, who may change it is checked, and the class is
\* validated.  A new device needs its package in the request; approving needs a
\* role that any developer may have or not.
Begin(u, org, new, approve) ==
    /\ ~uploads[u].open /\ commits < MaxCommits
    /\ IF device = None THEN new.package # Keep ELSE MaySeeNewest(org)
    /\ uploads' = [uploads EXCEPT ![u] =
            [open |-> TRUE, new |-> new, approve |-> approve, device |-> device, schema |-> schema,
             owner |-> IF device = None THEN org ELSE device.owner]]
    /\ UNCHANGED <<rows, zip, commits, skewed>>

\* The rows that were read are gone or have a newer version: a duplicate key or
\* a foreign key fails.  A bug to detect: versions are not unique.
Conflict_NotUnique(t) ==
    IF t.device = None THEN device # None
    ELSE device = None \/ device.id # t.device.id
Conflict(t) ==
    IF t.device = None THEN device # None
    ELSE \/ device = None
         \/ device.id # t.device.id
         \/ device.developer_version # t.device.developer_version

NewVersion(t) == IF t.device = None THEN 0 ELSE t.device.developer_version + 1

\* The approval is that of this upload, or the one that was read.
DeviceAfter(t) ==
    [id |-> IF t.device = None THEN commits + 1 ELSE t.device.id,
     owner |-> t.owner,
     developer_version |-> NewVersion(t),
     approved_version |-> IF t.approve THEN NewVersion(t)
                          ELSE IF t.device = None THEN None ELSE t.device.approved_version]

\* ensurePrimarySchema
SameSchema(t) ==
    /\ t.schema # None /\ metas[t.schema.developer_version] = t.new.class
    /\ t.new.class \in Recognised

Approved(s) == [s EXCEPT !.approved_version = s.developer_version]

\* A schema that did not change is approved too.
SchemaAfter(t) ==
    IF t.schema = None THEN
        [developer_version |-> 0, approved_version |-> IF t.approve THEN 0 ELSE None]
    ELSE IF SameSchema(t) THEN
        IF t.approve /\ t.schema.approved_version = None THEN Approved(schema) ELSE schema
    ELSE LET next == [schema EXCEPT !.developer_version = t.schema.developer_version + 1]
         IN  IF t.approve THEN Approved(next) ELSE next

\* The package in the request, or the file of the version before.
PackageOf(t) ==
    IF t.new.package = Keep THEN zip[t.device.developer_version] ELSE t.new.package

ZipAfter(t) ==
    IF PackageOf(t) = None THEN zip ELSE [zip EXCEPT ![NewVersion(t)] = PackageOf(t)]

\* What it should be: the file is that of the version before, unless that one
\* had no package and a file of an older device is found in its place.
MeantPackage(t) ==
    LET before == code[t.device.developer_version].package
    IN  IF t.new.package = Keep /\ before # None THEN before ELSE PackageOf(t)

\* The two ways in which device and schema part: an approval that was changed
\* since it was read is written back, or it is given to a class that is that of
\* the newest schema, when an older schema is approved.
SetsApart(t) ==
    /\ t.device # None
    /\ \/ device.approved_version # t.device.approved_version
       \/ schema.approved_version # t.schema.approved_version
       \/ /\ t.approve /\ SameSchema(t)
          /\ t.schema.approved_version # None
          /\ metas[t.schema.approved_version] # t.new.class

\* The package is stored when the rows are written, and is found.
Stores(t) == ~Conflict(t) /\ (t.new.package = Keep => PackageOf(t) # None)

\* The rows are written, then the package, and the transaction commits.
Commit(u) ==
    LET t == uploads[u]
        s == SchemaAfter(t)
    IN  /\ t.open /\ Stores(t)
        /\ commits < MaxCommits /\ commits' = commits + 1
        /\ device' = DeviceAfter(t)
        /\ code' = [code EXCEPT ![NewVersion(t)] = [class |-> t.new.class, package |-> MeantPackage(t)]]
        /\ schema' = s
        /\ metas' = [metas EXCEPT ![s.developer_version] = t.new.class]
        /\ examples' = t.new.class
        /\ zip' = ZipAfter(t)
        /\ skewed' = (skewed \/ SetsApart(t))
        /\ uploads' = [uploads EXCEPT ![u] = Closed]

Ends(u) == /\ uploads' = [uploads EXCEPT ![u] = Closed]
           /\ UNCHANGED <<rows, commits, skewed>>

\* The transaction is rolled back: the class is not valid, or rows conflict,
Refused(u) == uploads[u].open /\ Ends(u) /\ UNCHANGED zip

\* or storing the package failed, or the server did, when it was stored.
FailsLate(u) ==
    /\ uploads[u].open /\ Stores(uploads[u])
    /\ Ends(u)
    /\ zip' = ZipAfter(uploads[u])

-----------------------------------------------------------------------------
(* Administration.                                                          *)

SetApproval(d, s) ==
    /\ device # None
    /\ device' = [device EXCEPT !.approved_version = d]
    /\ schema' = [schema EXCEPT !.approved_version = s]
    /\ skewed' = FALSE
    /\ UNCHANGED <<code, metas, examples, zip, uploads, commits>>

Approve == SetApproval(device.developer_version, schema.developer_version)
Unapprove == SetApproval(None, None)

\* Versions and examples go with their rows; packages stay.
Delete ==
    /\ device # None
    /\ device' = None /\ schema' = None /\ examples' = None
    /\ code' = [v \in Versions |-> None]
    /\ metas' = [v \in Versions |-> None]
    /\ skewed' = FALSE
    /\ UNCHANGED <<zip, uploads, commits>>

-----------------------------------------------------------------------------
Next ==
    \/ \E u \in Uploads :
          \/ \E org \in Orgs, new \in Offers, approve \in BOOLEAN : Begin(u, org, new, approve)
          \/ Commit(u) \/ Refused(u) \/ FailsLate(u)
    \/ Approve \/ Unapprove \/ Delete

Spec == Init /\ [][Next]_vars

-----------------------------------------------------------------------------
CatalogueTypeOK ==
    /\ device \in Device \cup {None} /\ schema \in Schema \cup {None}
    /\ code \in [Versions -> Code \cup {None}]
    /\ metas \in [Versions -> Classes \cup {None}]
    /\ examples \in Classes \cup {None}
    /\ zip \in [Versions -> Packages \cup {None}]
    /\ skewed \in BOOLEAN

\* import_device, thingpedia_devices: everyone is given a class and a schema
\* with the same functions, or neither, and the device is listed then: though
\* uploads, approvals and deletions cross, and the versions of the two differ.
SchemaMatchesClass ==
    skewed \/ \A key \in Orgs \cup {None} :
                 /\ ListedFor(key) <=> MetasFor(key) # None
                 /\ CodeFor(key) = None => MetasFor(key) = None
                 /\ CodeFor(key) # None => MetasFor(key) = CodeFor(key).class

\* uploadDevice, getModuleLocation: who has the class of a version and may
\* download its package gets the one that was uploaded for it, whatever uploads
\* failed, and however uploads and deletions crossed.
PackageOfVersion ==
    \A key \in Orgs \cup {None}, v \in Versions :
        device # None /\ code[v] # None /\ MayDownload(key, v) /\ code[v].package # None
            => zip[v] = code[v].package

\* The two parts of an upload, its class and its package, agree for everyone.
UploadIsWhole == SchemaMatchesClass /\ PackageOfVersion

\* HISTORY.md: "Commandpedia now only shows commands that are valid for the
\* approved subset of devices".
CommandsAreApproved ==
    Commands # {} => Commands \subseteq metas[schema.approved_version]
===============================================================================
