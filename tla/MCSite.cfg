SPECIFICATION SiteSpec
CONSTANTS
    CatalogueOnly = CatalogueOnly
    AccountsOnly = AccountsOnly
    SignInOnly = SignInOnly
    GrantsOnly = GrantsOnly
    CrowdOnly = CrowdOnly
    NlpOnly = NlpOnly
    TranslationsOnly = TranslationsOnly
    UploadOnly = UploadOnly
    DevicesOnly = DevicesOnly
    CommandsOnly = CommandsOnly
    ManifestOnly = ManifestOnly
    SyncOnly = SyncOnly
    LearningOnly = LearningOnly
    BootstrapOnly = BootstrapOnly
    DatagramOnly = DatagramOnly
    DirectOnly = DirectOnly
    AssistantOnly = AssistantOnly
    SubscriptionsOnly = SubscriptionsOnly
    FormOnly = FormOnly
    RecordingOnly = RecordingOnly
    MaxStreams = 2
    f = f
    g = g
    p1 = p1
    p2 = p2
    Offers <- MCOffers
    Classes <- MCClasses
    Recognised = {{f}}
    Packages = {p1, p2}
    Keep = Keep
    None = None
    Orgs = {admin}
    Admin = admin
    Uploads = {u1, u2}
    MaxCommits = 3
    Users = {root, bob}
    Root = root
    Companies = {site, acme}
    RootOrg = site
    Locales = {en, it}
    DefaultLocale = en
    Nobody = Nobody
    Requests = {r1, r2}
    MaxAccountRequests = 3
    People = {ann, joe}
    Browsers = {b1, b2}
    e1 = e1
    e2 = e2
    i1 = i1
    i2 = i2
    i3 = i3
    Emails = {e1, e2}
    Identities = {i1, i2, i3}
    GitHub = {i2, i3}
    NoEmail = NoEmail
    MailOf <- MCMailOf
    NoOne = NoOne
    Deleted = Deleted
    MaxSignIns = 4
    Apps = {a1}
    Scopes = {x, y}
    Hits = {1, 2}
    Workers = {w1, w2, w3, w4}
    Target = 3
    PerSubmission = 2
    MaxParaphrases = 2
    Reloads = {l1, l2}
    Downloaded = TRUE
    MaxReloads = 3
    Queries = {x1}
    WithCache = TRUE
    Functions = {f, g}
    SchemaClasses <- MCClasses
    RecognisedSchemas = {{f}}
    NoRow = NoRow
    Readers = {owner, other}
    Author = owner
    SchemaIds = {1, 2}
    MaxVersion = 1
    MaxSnapshots = 1
    Files = {v1, v2}
    NoFile = NoFile
    Length = 3
    MaxWaiting = 1
    Keys = {k1, k2}
    Values = {x}
    NoValue = NoValue
    LocalKeys = {k1}
    Replicas = {s1}
    Clients = {s2}
    MaxTime = 2
    MaxPush = 1
    TaughtCommands = {c1}
    NlpReplicas = {n1, n2, n3}
    NoReplica = NoReplica
    MaxStarts = 2
    MaxJobs = 3
    MaxMessages = 4
    MaxBytes = 7
    Callers = {r1, r2}
    MaxEngines = 2
    MaxLinks = 2
    MaxEngineFaults = 1
    Visitors = {g1, g2, g3}
    Replayed = {g3}
    news = news
    rain = rain
    diary = diary
    phone = phone
    mail = mail
    App = {news, rain, diary}
    Anonymous = {news, rain}
    To <- MCTo
    Phones = {phone}
    Mails = {mail}
    NoAddress = NoAddress
    Owner = mail
    Stops = {q1, q2}
    gate = gate
    cam = cam
    auto = auto
    odd = odd
    ManifestOffers <- MCManifests
    Naming <- MCNaming
    EntityTypes = {"tt:door", "tt:place"}
    WellKnown = {"tt:place"}
    ConfirmModes = {auto}
    Missing = Missing
    Null = Null
    Empty = Empty
    MaxManifests = 4
    DeviceKinds = {1, 2, 3}
    UUIDs = {1, 2}
    DeviceOffers <- SomeOffers
    Developer1 = Developer1
    Administrators1 = Administrators1
    Developers = {Developer1}
    Administrators = Administrators1
    Stranger = Stranger
    Hue = 2
    SearchLimit = 1
    NoVersion = NoVersion
    NoDevice = NoDevice
    NoFactory = NoFactory
    MaxVersions <- SomeVersions
    name1 = name1
    name2 = name2
    code1 = code1
    code2 = code2
    phrase1 = phrase1
    phrase2 = phrase2
    phrase3 = phrase3
    Datasets <- SomeDatasets
    Canonical <- SomeCanonical
    NoName = NoName
    Likers = {ann, joe}
    Reader = ann
    LikeRequests = {r1, r2}
    NoRequest = NoRequest
    CommandsScenes <- SomeScenes
CONSTRAINT Orderly
CHECK_DEADLOCK FALSE
INVARIANT UploadIsWhole SnapshotIsStable UploadIsServed DevicesAreFound CommandsAreKept StoredIsOneFile KeyIsCurrent EntryIsProved AccessHasConsent TrainingIsUnanimous NothingMissed ServesItsModel LearntEverywhere RootMeansComplete MessagesOnceInOrder CacheLeadsToListed VisitorsAreServed StoppedAreTheirs
    PageIsUsable
