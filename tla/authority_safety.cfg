CONSTANTS
    Proc = {p1, p2}
    NoProc = NoProc
    Txn = {t1, t2}
    NoTxn = NoTxn
    LeaseTicks = 2
    MaxCounter = 3
SPECIFICATION Spec
SYMMETRY Symmetry
INVARIANTS TypeOK NoSharedEpoch
PROPERTIES LapseChangesEpoch ReleaseEndsOwnGrant CommitsAreFenced
CHECK_DEADLOCK FALSE
