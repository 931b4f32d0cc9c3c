SPECIFICATION Spec
CONSTANTS
    a1 = a1
    a2 = a2
    a3 = a3
    r1 = r1
    r2 = r2
    Parts = {"retries", "stale", "races", "staff"}
SYMMETRY Symmetry
INVARIANTS TiesAreLawful
PROPERTIES StaleCommandsRefused
CHECK_DEADLOCK FALSE
