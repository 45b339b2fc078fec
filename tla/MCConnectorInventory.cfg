CONSTANTS
    Tools = {t1, t2}
    Refreshes = {r1, r2, r3}
    MaxObserved = 1
    MaxClears = 1
    MaxCatalogs = 3
    NoRefresh = NoRefresh
SPECIFICATION InventorySpec
SYMMETRY Symmetry
CHECK_DEADLOCK FALSE
INVARIANTS
    UnlistedIsFlagged
PROPERTY
    InventoryMovesForward
