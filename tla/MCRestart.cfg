SPECIFICATION AccountsSpec
CONSTANTS
    Users = {root, bob}
    Root = root
    Companies = {site, acme}
    RootOrg = site
    Locales = {en, it}
    DefaultLocale = en
    Nobody = Nobody
    Requests = {r1, r2}
    MaxAccountRequests = 3
CHECK_DEADLOCK FALSE
INVARIANT RestartSeesRow
