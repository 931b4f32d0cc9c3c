SPECIFICATION Spec
CONSTANTS
    x1 = x1
    x2 = x2
    x3 = x3
    y1 = y1
    y2 = y2
    Lingering = TRUE
    Parts = {"seats closing"}
SYMMETRY Symmetry
INVARIANTS SocketCeiling
CHECK_DEADLOCK FALSE
