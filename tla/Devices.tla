-------------------------------- MODULE Devices --------------------------------
(*********************************************************************************)
(* The devices of Thingpedia as those see them who look for some: lists,         *)
(* search, the factories with which a user sets devices up, the device that a    *)
(* discovered piece of hardware is, and the queue of versions to review.         *)
(* Catalogue shows how the rows of one device come about when requests cross;    *)
(* here uploads, approvals and deletions are one step each, there are several    *)
(* devices, some of which are of the kind of others, and the point is that the   *)
(* columns a query goes by are of the newest version, whereas the class and      *)
(* the factory it gives out are of the version the organization may see.         *)
(*                                                                               *)
(* Kinds are numbers, in the order of the devices' names; a device's name and    *)
(* description have the words of its kind in them.  UUIDs are numbers, too,      *)
(* and 0 is the Bluetooth class, "class-...", which comes before any "uuid-...". *)
(*********************************************************************************)
EXTENDS Integers, FiniteSets, Sequences

CONSTANTS DeviceKinds,   \* kinds, some of which are devices
          DeviceOffers,  \* the classes that developers upload, by kind
          Developers, Administrators,  \* organizations
          UUIDs,         \* of Bluetooth, or services of UPnP
          Stranger,      \* who has no developer key
          Hue,           \* com.hue
          SearchLimit,   \* of the devices that a search finds, 20 in the code
          NoVersion, NoDevice, NoFactory,
          MaxVersions    \* bound: versions of a kind

ASSUME DevicesAssumption ==
    /\ DeviceKinds \subseteq Nat /\ IsFiniteSet(DeviceKinds)
    /\ UUIDs \subseteq Nat \ {0} /\ IsFiniteSet(UUIDs)
    /\ \A o \in DeviceOffers : /\ o.kind \in DeviceKinds /\ o.class.services \subseteq UUIDs \cup {0}
                               /\ o.class.config # "multiple"
                               /\ o.class.config = "upnp" => 0 \notin o.class.services
    /\ Administrators \notin Developers /\ Stranger \notin Developers \cup {Administrators}
    /\ MaxVersions \in [DeviceKinds -> Nat]
    /\ NoVersion \notin Nat
    /\ SearchLimit \in Nat \ {0}

\* The columns of device_class, and a factory.
Organizations == Developers \cup {Administrators}
Categories == {"system", "data", "physical", "online"}
DeviceRow == [owner : Organizations, developer_version : Nat, approved_version : Nat \cup {NoVersion},
              category : Categories, extends : SUBSET DeviceKinds, child_types : SUBSET DeviceKinds,
              discovery : {"bluetooth", "upnp", "none"}, services : SUBSET (UUIDs \cup {0})]
Factory == [type : {"discovery"} \cup {o.class.config : o \in DeviceOffers},
            kind : DeviceKinds, category : Categories]

ASSUME NoRowAssumption == NoDevice \notin DeviceRow \cup DeviceKinds /\ NoFactory \notin Factory

VARIABLES devices,   \* the rows of device_class, with those of their kinds and services
          codeVersions,      \* the rows of device_code_version
          dropped    \* history: the kinds that went from a row with the row they name

devicesVars == <<devices, codeVersions, dropped>>

Keyholders == Developers \cup {Administrators, Stranger}

DevicesInit == /\ devices = [k \in DeviceKinds |-> NoDevice]
               /\ codeVersions = [k \in DeviceKinds |-> <<>>]
               /\ dropped = [k \in DeviceKinds |-> {}]

Present == {k \in DeviceKinds : devices[k] # NoDevice}

-----------------------------------------------------------------------------
(* What is made of a class.                                                  *)

\* thing: it has the loader org.thingpedia.builtin and the kind of one of the things
\* that Almond runs on, ...thingengine.gnome, .phone or .home.
CategoryOf(c) ==
    IF c.system \/ c.config = "abstract" THEN "system"
    ELSE IF c.thing \/ c.config \in {"bluetooth", "upnp"} THEN "physical"
    ELSE IF c.config \in {"builtin", "none"} THEN "data" ELSE "online"

\* Abstract classes and those that are built in are not set up by users.
FactoryOf(k, c) ==
    IF c.config \in {"abstract", "builtin"} THEN NoFactory
    ELSE [type |-> IF c.config \in {"bluetooth", "upnp"} THEN "discovery" ELSE c.config,
          kind |-> k, category |-> CategoryOf(c)]

DiscoveryType(c) == IF c.config \in {"bluetooth", "upnp"} THEN c.config ELSE "none"
DiscoveryServices(c) == IF c.config \in {"bluetooth", "upnp"} THEN c.services ELSE {}

\* Of a class, or of the row of a device: device_class_kind
KindsOf(c) == c.extends \cup c.child_types

-----------------------------------------------------------------------------
(* Changes.                                                                  *)

\* create() and update(): the columns, the kinds and the services are replaced.
UploadedRow(old, k, org, c, approve) ==
    LET version == IF old = NoDevice THEN 0 ELSE old.developer_version + 1
    IN  [owner |-> IF old = NoDevice THEN org ELSE old.owner,
         developer_version |-> version,
         approved_version |-> IF approve THEN version
                              ELSE IF old = NoDevice THEN NoVersion ELSE old.approved_version,
         category |-> CategoryOf(c),
         extends |-> c.extends,
         child_types |-> c.child_types,
         discovery |-> DiscoveryType(c),
         services |-> DiscoveryServices(c)]

\* The kinds are foreign keys.
UploadDevice(org, offer, approve) ==
    LET k == offer.kind
        c == offer.class
    IN  /\ Len(codeVersions[k]) < MaxVersions[k]
        /\ k \in Present => org \in {devices[k].owner, Administrators}
        /\ KindsOf(c) \subseteq Present \cup {k}
        /\ devices' = [devices EXCEPT ![k] = UploadedRow(devices[k], k, org, c, approve)]
        /\ codeVersions' = [codeVersions EXCEPT ![k] = Append(@, [class |-> c, factory |-> FactoryOf(k, c)])]
        /\ dropped' = [dropped EXCEPT ![k] = {}]

ApproveDevice(k) ==
    /\ k \in Present
    /\ devices' = [devices EXCEPT ![k].approved_version = devices[k].developer_version]
    /\ UNCHANGED <<codeVersions, dropped>>

UnapproveDevice(k) ==
    /\ k \in Present
    /\ devices' = [devices EXCEPT ![k].approved_version = NoVersion]
    /\ UNCHANGED <<codeVersions, dropped>>

\* The rows that name the kind go with its schema, also those of other devices.
Without(row, k) == [row EXCEPT !.extends = @ \ {k}, !.child_types = @ \ {k}]

DeleteDevice(org, k) ==
    /\ k \in Present /\ org \in {devices[k].owner, Administrators}
    /\ devices' = [d \in DeviceKinds |-> IF d = k \/ d \notin Present THEN NoDevice
                                         ELSE Without(devices[d], k)]
    /\ codeVersions' = [codeVersions EXCEPT ![k] = <<>>]
    /\ dropped' = [d \in DeviceKinds |->
                       IF d = k \/ d \notin Present THEN {}
                       ELSE dropped[d] \cup (KindsOf(devices[d]) \cap {k})]

DevicesNext ==
    \/ \E org \in Developers \cup {Administrators} :
          \/ \E offer \in DeviceOffers, approve \in BOOLEAN : UploadDevice(org, offer, approve)
          \/ \E k \in DeviceKinds : DeleteDevice(org, k)
    \/ \E k \in DeviceKinds : ApproveDevice(k) \/ UnapproveDevice(k)

DevicesSpec == DevicesInit /\ [][DevicesNext]_devicesVars

-----------------------------------------------------------------------------
(* Queries.                                                                  *)

\* The queries of a version: ...WithCode, getFullCode..., getDownloadVersion
VersionsOf(key, k) ==
    {v \in 0..Len(codeVersions[k]) - 1 :
        IF key = Administrators THEN v = devices[k].developer_version
        ELSE IF key # Stranger
        THEN \/ v = devices[k].developer_version /\ devices[k].owner = key
             \/ v = devices[k].approved_version /\ devices[k].owner # key
        ELSE v = devices[k].approved_version}

VisibleRows(key) == UNION {{<<k, v>> : v \in VersionsOf(key, k)} : k \in Present}
Version1(k, v) == codeVersions[k][v + 1]
NewestClass(k) == Version1(k, Len(codeVersions[k]) - 1).class

\* The queries of the row only: getAllApproved
MayList(key, k) == \/ key = Administrators
                   \/ devices[k].approved_version # NoVersion
                   \/ key # Stranger /\ devices[k].owner = key

AllApproved(key) == {k \in Present : MayList(key, k)}

\* _getByField: getByCategory, getBySubcategory
ByCategory(key, category) == {k \in Present : MayList(key, k) /\ devices[k].category = category}

\* The rows whose name, description or kinds have the tag.  A bug to detect: "a or b
\* and c" without its parentheses.
Matches(tag) == {k \in Present : k = tag \/ tag \in KindsOf(devices[k])}
ByFuzzySearch_NoParentheses(key, tag) ==
    {k \in Matches(tag) : k = tag \/ MayList(key, k)}

\* order by name asc limit 20
ByFuzzySearch(key, tag) ==
    LET found == {k \in Matches(tag) : MayList(key, k)}
    IN  {k \in found : Cardinality({j \in found : j < k}) < SearchLimit}

\* getDeviceList, of a page: one device more says that there is another page.
Sorted(set) ==
    [n \in 1..Cardinality(set) |-> CHOOSE k \in set : Cardinality({j \in set : j < k}) = n - 1]
DeviceList(set, page, size) ==
    SubSeq(Sorted(set), page * size + 1, IF (page + 1) * size + 1 < Cardinality(set)
                                         THEN (page + 1) * size + 1 ELSE Cardinality(set))

\* getAllApprovedWithCode, getByCategoryWithCode, getBySubcategoryWithCode, and
\* the factories of those that have one
Factories(rows) == {Version1(r[1], r[2]).factory : r \in rows} \ {NoFactory}
DeviceFactories(key) == Factories(VisibleRows(key))
DeviceFactoriesIn(key, category) == Factories({r \in VisibleRows(key) : devices[r[1]].category = category})

\* getReviewQueue
ReviewQueue == {k \in Present : \/ devices[k].approved_version = NoVersion
                                \/ devices[k].approved_version # devices[k].developer_version}

\* getDetails: the version on a device's page, of a member of an organization
DetailsVersion(key, k) ==
    IF key \in {devices[k].owner, Administrators} THEN devices[k].developer_version
    ELSE devices[k].approved_version

\* getDevicesForSetup: a device of that kind, one that has the kind, and one that
\* has the kind of a device that has it.
SetupRows(key, kind) ==
    {r \in VisibleRows(key) : \/ r[1] = kind
                       \/ kind \in KindsOf(devices[r[1]])
                       \/ \E k \in KindsOf(devices[r[1]]) : kind \in KindsOf(devices[k])}

\* getDeviceSetup: a factory, or a choice of any other number of them.
DeviceSetup(key, kind) ==
    LET choices == Factories(SetupRows(key, kind))
    IN  IF Cardinality(choices) = 1 THEN CHOOSE f \in choices : TRUE
        ELSE [type |-> "multiple", choices |-> choices]

\* getByKinds, of the examples: the devices whose commands are found with a device,
\* its own and those of the kinds it extends.  A schema is approved with its device.
ExamplesByKind(key, kind) ==
    {k \in Present : k = kind /\ MayList(key, k)}
        \cup (IF kind \notin Present THEN {}
               ELSE {k \in devices[kind].extends \cap Present : MayList(key, k) /\ MayList(key, kind)})

-----------------------------------------------------------------------------
(* Discovery: the device that announces some UUIDs, or services.             *)

ServicesOf(k) == Sorted(devices[k].services)

\* getByDiscoveryService
WithService(type, uuid) ==
    {k \in Present : devices[k].discovery = type /\ uuid \in devices[k].services}

\* getBestResult: the results have no order, so that any of the best is the first.
BestResults(results, uuids) ==
    LET perfect == {k \in results : ServicesOf(k) = uuids}
        prefix == {k \in results : /\ Len(uuids) <= Len(ServicesOf(k))
                                   /\ uuids = SubSeq(ServicesOf(k), 1, Len(uuids))}
    IN  IF perfect # {} THEN perfect ELSE IF prefix # {} THEN prefix ELSE results

\* The first UUID that any device has decides.
KnownAmong(type, uuids) == {u \in uuids : WithService(type, u) # {}}
ByServices(type, announced) ==
    LET known == KnownAmong(type, announced)
    IN  BestResults(WithService(type, CHOOSE u \in known : \A w \in known : u <= w), Sorted(announced))

\* decode of bluetooth.ts: what has no UUID that is known has perhaps a class that is,
\* and else is a generic device.
DecodeBluetooth(announced, hasClass) ==
    IF KnownAmong("bluetooth", announced) # {} THEN ByServices("bluetooth", announced)
    ELSE IF hasClass /\ WithService("bluetooth", 0) # {}
    THEN BestResults(WithService("bluetooth", 0), Sorted(announced))
    ELSE {NoDevice}

\* decode of upnp.ts: what has 'hue' in its name is a Hue, whatever it announces, and
\* nothing if there is no such device.
DecodeUpnp(announced, isHue) ==
    IF isHue THEN {Hue} \cap Present
    ELSE IF KnownAmong("upnp", announced) # {} THEN ByServices("upnp", announced) ELSE {}

-----------------------------------------------------------------------------
DevicesTypeOK ==
    \A k \in DeviceKinds :
        IF k \notin Present THEN codeVersions[k] = <<>>
        ELSE /\ devices[k].developer_version = Len(codeVersions[k]) - 1
             /\ devices[k].approved_version \in 0..Len(codeVersions[k]) - 1 \cup {NoVersion}

\* thingpedia-client.ts: the lists, the search, the factories and the page of a
\* device are about the same devices in the same versions for one organization:
\* those whose class it can have; the pages of a list, of any size and each without the
\* device that announces the next one, are the list; a device is found by its kind unless
\* as many devices of its kind as a search gives come before it; and a device is in the
\* queue of reviews exactly if not everybody sees its newest version.
QueriesAgree ==
    /\ \A key \in Keyholders :
        LET mine == {r[1] : r \in VisibleRows(key)}
            list == Sorted(mine)
        IN  /\ Cardinality(VisibleRows(key)) = Cardinality(mine)
            /\ AllApproved(key) = mine
            /\ UNION {ByCategory(key, c) : c \in Categories} = mine
            /\ \A tag \in DeviceKinds : ByFuzzySearch(key, tag) \subseteq mine
            /\ \A k \in mine : k \notin ByFuzzySearch(key, k) =>
                  SearchLimit <= Cardinality({j \in mine : j < k /\ k \in KindsOf(NewestClass(j))})
            /\ \A k \in Present :
                  VersionsOf(key, k) = IF DetailsVersion(key, k) = NoVersion THEN {}
                                       ELSE {DetailsVersion(key, k)}
            /\ \A size \in 1..Len(list), p \in 0..Len(list) : p * size <= Len(list) =>
                  LET page == DeviceList(mine, p, size)
                  IN  /\ Len(page) <= size + 1
                      /\ Len(page) = size + 1 <=> (p + 1) * size < Len(list)
                      /\ \A i \in 1..size :
                            i <= Len(page) <=> p * size + i <= Len(list)
                      /\ \A i \in 1..Len(page) : page[i] = list[p * size + i]
            /\ DeviceFactories(key) =
                  UNION {DeviceFactoriesIn(key, c) : c \in Categories}
            /\ \A k \in Present :
                  ExamplesByKind(key, k) = IF k \notin mine THEN {}
                      ELSE ({k} \cup (NewestClass(k).extends \ dropped[k])) \cap mine
    /\ Present \ ReviewQueue =
          {k \in Present : \A a, b \in Keyholders : VersionsOf(a, k) = VersionsOf(b, k)}

\* getDeviceSetup: who asks for a kind is offered the devices of that kind that he
\* may see and set up, all of them and no others: by the class that he gets for a
\* device, when that is the newest, though the kinds are kept apart from the classes
\* and devices come, change and go.  Only the kinds that were deleted meanwhile are
\* not known to a device any more, when they are back.
SetupIsOfKind ==
    \A key \in Keyholders, kind \in DeviceKinds :
        \A r \in {r \in VisibleRows(key) : r[2] = devices[r[1]].developer_version} :
            LET class == Version1(r[1], r[2]).class
                Known(k) == KindsOf(NewestClass(k)) \ dropped[k]
                setup == DeviceSetup(key, kind)
                offered == IF setup.type = "multiple" THEN {f.kind : f \in setup.choices}
                           ELSE {setup.kind}
            IN  r[1] \in offered <=>
                  /\ class.config \notin {"abstract", "builtin"}
                  /\ kind \in {r[1]} \cup Known(r[1]) \cup UNION {Known(k) : k \in Known(r[1])}

\* discovery/bluetooth.ts and upnp.ts, "first look for a perfect match": hardware that
\* announces just the services of a class is taken for a device with just these services,
\* if they are UUIDs only; and else, as hardware that announces more or less than any
\* class has, for one that has a service in common with it, if there is one.  UPnP
\* hardware that calls itself a Hue is the exception: it is never taken for anything else.
ExactMatchWins ==
    \A k \in Present :
        LET class == NewestClass(k)
        IN  /\ class.config = "bluetooth" =>
                /\ class.services # {} /\ 0 \notin class.services =>
                      \A a \in DecodeBluetooth(class.services, FALSE) :
                          a # NoDevice /\ devices[a].services = class.services
                /\ \A announced \in SUBSET UUIDs, hasClass \in BOOLEAN :
                      LET all == announced \cup (IF hasClass THEN {0} ELSE {})
                      IN  all \cap class.services # {} =>
                            \A a \in DecodeBluetooth(announced, hasClass) :
                                a # NoDevice /\ devices[a].services \cap all # {}
            /\ class.config = "upnp" =>
                /\ class.services # {} =>
                      \A a \in DecodeUpnp(class.services, FALSE) : devices[a].services = class.services
                /\ \A announced \in SUBSET UUIDs, isHue \in BOOLEAN :
                      announced \cap class.services # {} =>
                          IF isHue THEN DecodeUpnp(announced, isHue) \subseteq {Hue}
                          ELSE /\ DecodeUpnp(announced, isHue) # {}
                               /\ \A a \in DecodeUpnp(announced, isHue) :
                                     devices[a].services \cap announced # {}

\* thingpedia-client.ts, discovery: a device is found by what it is - by every query
\* that can have it, by its kinds, and by the services of its hardware.
DevicesAreFound == QueriesAgree /\ SetupIsOfKind /\ ExactMatchWins
================================================================================
