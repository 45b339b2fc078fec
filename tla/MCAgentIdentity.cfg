CONSTANTS
    Agents = {a1, a2}
    Dirs = {legacy, d1, d2}
    Legacy = legacy
    Loads = {l1, l2}
    MaxRuntimes = 2
    MaxStops = 2
    MaxChanges = 1
    MaxRemovals = 1
    MaxKeys = 4
    Nothing = Nothing
    Corrupt = Corrupt
    Failed = Failed
SPECIFICATION IdentitySpec
SYMMETRY Symmetry
CHECK_DEADLOCK FALSE
INVARIANTS
    AgentsDoNotShareKeys
PROPERTY
    IdentityIsNotReplaced
