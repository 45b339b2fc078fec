CONSTANTS
    ToolCalls = {c1, c2}
    Modes = {"observe", "enforce"}
    MaxEntries = 2
    MaxMishaps = 1
    NoAppend = NoAppend
SPECIFICATION FairTrustSpec
CHECK_DEADLOCK FALSE
INVARIANTS
    LedgerIsTheLog
    GovernedCallsAreAudited
PROPERTY
    EveryHookReturns
