SPECIFICATION Spec
CONSTANTS
    x1 = x1
    x2 = x2
    x3 = x3
    y1 = y1
    y2 = y2
    Parts = {"tokens", "tickets", "credentials", "shares", "listening"}
SYMMETRY Symmetry
INVARIANTS SessionsAreLawful FriendsSeeTheTruth
CHECK_DEADLOCK FALSE
