CONSTANTS
    RequestIds = {q1, q2}
    DecisionIds = {d1, d2}
    LeaseIds = {l1, l2}
    IntentIds = {i1, i2}
    MaxReview = 2
    MaxTtl = 2
    MaxActions = 2
    MaxIntent = 2
    Costs = {1}
    Settled = {"committed", "failed"}
    MaxTime = 2
    LimitsShown <- MCLimits
    ChainsShown <- MCChains
    MaxChains = 1
    None = None
SPECIFICATION AuthoritySpec
SYMMETRY Symmetry
CHECK_DEADLOCK FALSE
INVARIANTS
    DispatchWasAllowed
    LeaseNeverExpands
    OneIntentPerRequest
