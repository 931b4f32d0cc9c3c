SPECIFICATION Spec
CONSTANTS
    x1 = x1
    x2 = x2
    x3 = x3
    y1 = y1
    y2 = y2
    Lingering = FALSE
    Parts = {"seats", "gateway", "drain", "admission", "narrow", "spaced", "paired", "analysis", "backfill"}
SYMMETRY Symmetry
INVARIANTS LimitsHold RecordsAreTrue
PROPERTIES NothingIsTakenBack
CHECK_DEADLOCK FALSE
