SPECIFICATION SuiteSpec
CONSTANTS
    None = None
    Closed = Closed
    Founder = "h1"
    Room = {"r1"}
    Account = {"host", "guest"}
    Device = {"h1", "g1"}
    Session = {"h1", "g1"}
    AccountOf <- Owners
    SessionOf <- Itself
    Here = {"h1", "g1"}
    SecondTabs = {}
    Track = {"t1"}
    Queues <- OneEntry
    Traffic = {"play", "ready", "heartbeat", "sweep", "time"}
    Duration = 1
    HostGrace = 2
    HostClose = 3
    PrepTicks = 1
    TransferTicks = 1
    StartLead = 0
    maxOpenRooms = 1
    maxRoomMembers = 3
    MaxInvitations = 1
    MaxRequests = 1
    MaxSongRequests = 2
    MaxQueue = 1
    MaxVersion = 3
    MaxEpoch = 1
    MaxJoins = 1
    MaxEntries = 1
    MaxMedia = 1
    MaxSequence = 1
    Parts = {"rooms", "authority", "gateway", "tickets", "listening", "drain", "video"}
PROPERTIES EveryOccurrenceEnds EveryAbandonedRoomCloses RoomsHaveALeader ViewsCatchUp StopsEnd CancelledProjectsAreCleaned
CHECK_DEADLOCK FALSE
