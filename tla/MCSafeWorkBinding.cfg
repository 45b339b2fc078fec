CONSTANTS
    Items = {i1, i2}
    Prepares = {q1, q2}
    ToolCalls = {t1, t2}
    Cancels = {x1}
    MaxEntries = 1
    None = None
SPECIFICATION FairSpec
INVARIANTS
    BoundHasItsCard
PROPERTIES
    GuardsItsCard
    SettledStaysSettled
    EveryCreationSettles
CHECK_DEADLOCK FALSE
