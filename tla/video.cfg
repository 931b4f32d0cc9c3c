SPECIFICATION SuiteSpec
CONSTANTS
    Request = {r1, r2}
    Worker = {w1, w2}
    None = "none"
    Asks <- Everything
    Reviewed = TRUE
    MaxAssets = 4
    MaxCovers = 2
    MaxCommands = 3
    MaxFaults = 2
    Parts = {"publish", "covers", "upload", "meeting"}
SYMMETRY Symmetry
INVARIANTS ObjectsAreWrittenOnce ApprovedIsPublished
PROPERTIES PublicationIsSafe LaterChoiceStands
CHECK_DEADLOCK FALSE
