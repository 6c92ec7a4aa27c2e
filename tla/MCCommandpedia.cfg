SPECIFICATION Spec
CONSTANTS
    f = f
    g = g
    p1 = p1
    p2 = p2
    Offers <- MCOffers
    Classes <- MCClasses
    Recognised = {{f}}
    Packages = {p1, p2}
    Keep = Keep
    None = None
    Orgs = {o1, admin}
    Admin = admin
    Uploads = {u1, u2}
    MaxCommits = 3
SYMMETRY Symmetric
CHECK_DEADLOCK FALSE
INVARIANT CommandsAreApproved
