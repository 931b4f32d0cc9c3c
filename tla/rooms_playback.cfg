SPECIFICATION SuiteSpec
CONSTANTS
    None = None
    Closed = Closed
    Founder = "h1"
    Here = {"h1"}
    SecondTabs = {}
    Room = {"r1"}
    Account = {"host", "guest"}
    Device = {"h1", "g1"}
    Session = {"h1", "g1"}
    AccountOf <- Owners
    SessionOf <- Itself
    Track = {"t1"}
    Queues <- OneEntry
    Traffic <- AllTraffic
    Duration = 1
    HostGrace = 2
    HostClose = 3
    PrepTicks = 1
    TransferTicks = 1
    StartLead = 0
    maxOpenRooms = 1
    maxRoomMembers = 3
    MaxInvitations = 1
    MaxRequests = 1
    MaxSongRequests = 2
    MaxQueue = 2
    MaxVersion = 3
    MaxEpoch = 2
    MaxJoins = 1
    MaxEntries = 2
    MaxMedia = 2
    MaxSequence = 1
    Parts = {"presence", "recovery", "reports"}
INVARIANTS PlaybackAgrees
PROPERTIES LatestReportsStand StartsAreSupervised ShownChangesAreRevised AdvancesAreDue
CHECK_DEADLOCK FALSE
