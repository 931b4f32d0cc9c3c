SPECIFICATION SuiteSpec
CONSTANTS
    Operation = {k1, k2}
    Worker = {w1, w2}
    Original = "original"
    None = "none"
    MaxClaims = 3
    MaxEdits = 1
    LatePuts = FALSE
    Parts = {"conversion", "late conversion", "avatar", "audio", "art"}
SYMMETRY Symmetry
INVARIANTS ConversionAgrees BytesAreAccountedFor DeletionsAreThorough
PROPERTIES BytesAreSafe EndsAreFinal StoresAreSafe OutcomesAreFinal
CHECK_DEADLOCK FALSE
