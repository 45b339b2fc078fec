CONSTANTS
    b1 = b1
    b2 = b2
    x2 = x2
    b3 = b3
    Controllers = {c1, c2}
    Syncs = {s1, s2, s3}
    Bundles = {b1, b2, x2, b3}
    Sequence <- Number
    Previous <- Parent
    MinimumSequence = 1
    MaxClears = 1
    None = None
    draft = draft
    other = other
    own = own
    github = github
    elsewhere = elsewhere
    right = right
    wrong = wrong
    builtin = builtin
    first = first
    second = second
    Absent = Absent
    Tools = {draft, other, own}
    Internal = {own}
    DraftTool = draft
    Owners = {github, elsewhere}
    Schemas = {right, wrong}
    PinnedOwner = github
    PinnedSchema = right
    Registries = {builtin, first, second}
    Reference = builtin
    Version <- MCVersion
    Policies = {1, 2}
    Expected <- MCExpected
    Registry <- MCRegistry
    Owner <- MCOwner
    NotBefore <- MCNotBefore
    Expires <- MCExpires
    Catalogs <- MCCatalogs
    MaxApproval = 2
    MaxTime = 3
    MaxRefreshes = 2
SPECIFICATION PolicySpec
INVARIANTS
    PolicyIsAgreed
    DispatchIsGoverned
    DispatchIsTimely
PROPERTIES
    KeepsAgreement
    ClearedStaysCleared
CHECK_DEADLOCK FALSE
