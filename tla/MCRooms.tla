------------------------------ MODULE MCRooms -------------------------------
(***************************************************************************)
(* Instances of Rooms, by who takes part and which requests and events     *)
(* meet each other: a behaviour is one of one `part`.  "h1", "g1" and "k1" *)
(* are the devices of three accounts, and "g2" a second tab, in its own    *)
(* session, of the guest.                                                  *)
(***************************************************************************)
EXTENDS RoomStart, TLC

CONSTANT Parts

VARIABLE part

suiteVars == <<part, vars>>

\* Every device is a tab with a session of its own; "g2" is the guest's second one.
Owners == [d \in Device |-> CASE d = "h1" -> "host" [] d \in {"g1", "g2"} -> "guest" [] OTHER -> "third"]
Itself == [d \in Device |-> d]
OneEntry == {<<"t1">>}
TwoEntries == {<<"t1", "t1">>}     \* occurrences are independent: a track may be queued twice
NoTab == {}
GuestTab == {"g2"}
Two == {"h1", "g1"}
Three == {"h1", "g1", "k1"}
Tabs == {"h1", "g1", "g2"}
One == {"h1"}
MembershipTraffic == {"create", "invite", "accept", "decline", "leave", "end", "expire", "sweep", "social"}
SafetyTraffic == {"invite", "accept", "leave", "kick", "transfer", "social"}
ControlTraffic == {"leave", "transfer", "mode", "takeControl", "heartbeat", "disconnect", "session", "sweep", "time"}
QueueTraffic == {"observe", "queue", "skip", "select", "seek", "pause", "mode"}
PresenceTraffic == {"play", "pause", "ready", "heartbeat", "disconnect", "sweep", "time"}
RecoveryTraffic == {"observe", "play", "pause", "skip", "ready", "heartbeat", "sweep", "time", "epoch", "flag", "media"}
ReadinessTraffic == {"play", "ready", "heartbeat", "disconnect", "time"}
ReportsTraffic == {"play", "pause", "ready", "heartbeat", "disconnect"}
AllTraffic == UNION {MembershipTraffic, SafetyTraffic, ControlTraffic, QueueTraffic, PresenceTraffic, RecoveryTraffic}

\* Two accounts and all the rooms.
Admitting == INSTANCE RoomStart WITH Here <- Two, SecondTabs <- NoTab, Traffic <- MembershipTraffic

\* Three accounts in one room, who invite, leave and fall out.
Falling == INSTANCE RoomStart WITH Here <- Three, SecondTabs <- NoTab, Traffic <- SafetyTraffic

\* A second tab of the guest takes control while the room is handed over, and
\* the host's grace is short.
Handing == INSTANCE RoomStart WITH Here <- Tabs, SecondTabs <- GuestTab, Traffic <- ControlTraffic,
    HostGrace <- 1, HostClose <- 2

\* Late edits of the queue and late transport commands.
Late == INSTANCE RoomStart WITH Here <- Two, SecondTabs <- NoTab, Traffic <- QueueTraffic, Queues <- TwoEntries

\* Preparation, readiness, absence and the sweep.
Presence == INSTANCE RoomStart WITH Here <- Two, SecondTabs <- NoTab, Traffic <- PresenceTraffic

\* A new epoch, the rollout flag and replaced media meet a playing room.
Recovery == INSTANCE RoomStart WITH Here <- One, SecondTabs <- NoTab, Traffic <- RecoveryTraffic, Queues <- TwoEntries

\* A preparation and a device that disconnects.
Readiness == INSTANCE RoomStart WITH Here <- Two, SecondTabs <- NoTab, Traffic <- ReadinessTraffic

\* Reports that overtake each other, in the round of a preparation and after it.
Reporting == INSTANCE RoomStart WITH Here <- Two, SecondTabs <- NoTab, Traffic <- ReportsTraffic, MaxSequence <- 2

ASSUME RoomsAssumption /\ QueuesAssumption /\ Recovery!QueuesAssumption /\ Handing!RoomsAssumption

SuiteInit ==
    /\ part \in Parts
    /\ CASE part = "membership" -> Admitting!EmptyInit
         [] part = "safety" -> Falling!OpenInit
         [] part = "control" -> Handing!OpenInit
         [] part = "queue" -> Late!OpenInit
         [] part = "presence" -> Presence!OpenInit
         [] part = "recovery" -> Recovery!OpenInit
         [] part = "readiness" -> Readiness!OpenInit
         [] part = "reports" -> Reporting!OpenInit

\* The third account is neither there nor blocked.
Uninvolved == blocks' \subseteq Admitting!Active \X Admitting!Active

SuiteNext ==
    /\ UNCHANGED part
    /\ CASE part = "membership" -> Admitting!Next /\ Uninvolved
         [] part = "safety" -> Falling!Next
         [] part = "control" -> Handing!Next
         [] part = "queue" -> Late!Next
         [] part = "presence" -> Presence!Next
         [] part = "recovery" -> Recovery!Next
         [] part = "readiness" -> Readiness!Next
         [] part = "reports" -> Reporting!Next

SuiteSpec == SuiteInit /\ [][SuiteNext]_suiteVars
=============================================================================
