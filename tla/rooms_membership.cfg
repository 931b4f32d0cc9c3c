SPECIFICATION SuiteSpec
CONSTANTS
    None = None
    Closed = Closed
    Founder = "h1"
    Here = {"h1"}
    SecondTabs = {}
    Room = {"r1", "r2"}
    Account = {"host", "guest", "third"}
    Device = {"h1", "g1", "g2", "k1"}
    Session = {"h1", "g1", "g2", "k1"}
    AccountOf <- Owners
    SessionOf <- Itself
    Track = {"t1"}
    Queues <- OneEntry
    Traffic <- AllTraffic
    Duration = 1
    HostGrace = 2
    HostClose = 3
    PrepTicks = 1
    TransferTicks = 1
    StartLead = 0
    maxOpenRooms = 2
    maxRoomMembers = 3
    MaxInvitations = 1
    MaxRequests = 1
    MaxSongRequests = 2
    MaxQueue = 3
    MaxVersion = 3
    MaxEpoch = 1
    MaxJoins = 2
    MaxEntries = 4
    MaxMedia = 1
    MaxSequence = 1
    Parts = {"membership", "safety", "control", "queue"}
INVARIANTS RoomsTypeOK SlotsAgree RoomsAreSafe VersionsAreNames
PROPERTIES HostOnlyByConsent SkipsMeanWhatWasSeen
CHECK_DEADLOCK FALSE
