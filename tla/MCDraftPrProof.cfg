CONSTANTS
    Arms = {a1}
    Dispatches = {d1, d2}
    Afters = {f1, f2}
    Reconciles = {c1}
    Revokes = {v1}
    ToolCalls = {t1, t2}
    MaxRollbacks = 1
    None = None
SPECIFICATION Spec
PROPERTIES
    GuardsItsPr
    OrphanFailsClosed
    RecordMovesForward
    RevocationHolds
CHECK_DEADLOCK FALSE
SYMMETRY Symmetry
