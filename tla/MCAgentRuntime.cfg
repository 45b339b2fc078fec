CONSTANTS
    Calls = {1, 2, 3}
    Names = {n1, n2}
    Runtimes = {r1, r2}
    Kinds = {"enter", "commit", "claimInvite", "claimLease"}
    None = None
SPECIFICATION MCSpec
INVARIANTS
    OneEntryAtATime
    PassWasAskedSinceCleanup
    LateSecretsAreOutOfReach
PROPERTY
    EveryEntryEnds
