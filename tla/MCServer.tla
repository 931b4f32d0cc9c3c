------------------------------- MODULE MCServer -------------------------------
(***************************************************************************)
(* Instances of the components a server process consists of beside its     *)
(* rooms: realtime seats and delivery, the drain, media admission, the     *)
(* gate of metadata lookups (spaced, and two at a time), room-audio        *)
(* analysis and its walks.  They share nothing here: a behaviour is one of *)
(* one `part`, and the variables of the others stay unused.                *)
(***************************************************************************)
EXTENDS Integers, Sequences, FiniteSets, TLC

CONSTANTS x1, x2, x3, y1, y2,   \* sockets, requests, calls; processes, clients, callers
          Parts, Lingering

VARIABLES part,
          member, conn, reading, asking,                                       \* RealtimeSeats
          version, pending, pass, current, sent, chain, heard, shown, present, reported, reports, \* RoomGateway
          socket,                                                              \* and RequestDrain
          response, job, slot, step, phase, waits, closed, forced, database,
          request, globalActive, globalNonPlayback, waiting,                   \* MediaAdmission
          active,                                                              \* and RoomAnalysis
          track, names, listed, calls,
          now, nextAt, leases, at, since, seen, slept, sends, releases,        \* LookupGate
          status, mode, run, page, safeAfter, logged, analyses, results        \* AnalysisBackfill

seatVars == <<member, conn, reading, asking>>
gatewayVars == <<version, pending, pass, current, sent, chain, heard, shown, present, reported, reports>>
drainVars == <<response, job, slot, step, phase, waits, closed, forced, database>>
admissionVars == <<request, globalActive, globalNonPlayback, waiting>>
analysisVars == <<track, names, listed, calls>>
lookupVars == <<now, nextAt, leases, at, since, seen, slept, sends, releases>>
backfillVars == <<status, mode, run, page, safeAfter, logged, analyses, results>>
vars == <<part, seatVars, gatewayVars, socket, drainVars, admissionVars, active, analysisVars, lookupVars, backfillVars>>

Symmetry == Permutations({x1, x2, x3}) \union Permutations({y1, y2})

\* Three seats, one of them reserved, for an account with two tabs and two accounts with one.
Tabs == {x1, x2, "tab2", "tab3"}
OwnerOf == [c \in Tabs |-> CASE c = "tab2" -> "account2" [] c = "tab3" -> "account3" [] OTHER -> "account1"]
Seats == INSTANCE RealtimeSeats WITH
    Account <- {"account1", "account2", "account3"}, Client <- Tabs, AccountOf <- OwnerOf,
    MaxSockets <- 3, OpenRooms <- 1, Members <- 2, PerAccount <- 2, PendingUpgrades <- 2
Gateway == INSTANCE RoomGateway WITH
    Key <- {"client"}, MaxVersion <- 2, MaxSockets <- 2, MaxReports <- 1
Drain == INSTANCE RequestDrain WITH
    Request <- {x1, x2, x3, "request4"}, Worker <- {"worker"}, Slots <- 2
Admission == INSTANCE MediaAdmission WITH
    Client <- {y1, y2}, Request <- {x1, x2, x3, "request4"},
    Global <- 3, PerIp <- 2, ReservedGlobal <- 1, ReservedPerIp <- 1, QueueGlobal <- 2, QueuePerIp <- 1
\* One place for each client, so that a queued read may wait for its own client's.
Narrow == INSTANCE MediaAdmission WITH
    Client <- {y1, y2}, Request <- {x1, x2, x3, "request4"},
    Global <- 2, PerIp <- 1, ReservedGlobal <- 1, ReservedPerIp <- 0, QueueGlobal <- 2, QueuePerIp <- 1
\* A source that is asked at intervals, and one that answers two at a time.
Spaced == INSTANCE LookupGate WITH
    Caller <- {"waits", y1, y2}, Busy <- {y1, y2}, Interval <- 2, Concurrency <- 1, Lease <- 4, Backoff <- 3,
    Command <- 1, Deadline <- 1, LongestSleep <- 1, MaximumWait <- 3, MaxTime <- 4
Paired == INSTANCE LookupGate WITH
    Caller <- {"waits", y1, y2}, Busy <- {y1, y2}, Interval <- 0, Concurrency <- 2, Lease <- 3, Backoff <- 1,
    Command <- 1, Deadline <- 1, LongestSleep <- 1, MaximumWait <- 2, MaxTime <- 3
Analysis == INSTANCE RoomAnalysis WITH
    Call <- {x1, x2, x3}, Process <- {y1, y2}, MaxKeys <- 2, MaxRevisions <- 3
Backfill == INSTANCE AnalysisBackfill WITH
    Rows <- 3, PageSize <- 2, MaxAnalyses <- 2, MaxRuns <- 3

ASSUME /\ Seats!SeatsAssumption /\ Gateway!GatewayAssumption /\ Drain!DrainAssumption
       /\ Admission!AdmissionAssumption /\ Narrow!AdmissionAssumption /\ Spaced!GateAssumption /\ Paired!GateAssumption
       /\ Analysis!AnalysisAssumption /\ Backfill!BackfillAssumption

SeatParts == {"seats", "seats closing"}
AdmissionParts == {"admission", "narrow"}
LookupParts == {"spaced", "paired"}

\* What holds of a variable while no part that uses it runs.
Outside(parts, rest) == IF part \in parts THEN TRUE ELSE rest

None == "none"

Init ==
    /\ part \in Parts
    /\ CASE part \in SeatParts -> Seats!Init
         [] part = "gateway" -> Gateway!Init
         [] part = "drain" -> Drain!Init
         [] part = "admission" -> Admission!Init
         [] part = "narrow" -> Narrow!Init
         [] part = "spaced" -> Spaced!Init
         [] part = "paired" -> Paired!Init
         [] part = "analysis" -> Analysis!Init
         [] part = "backfill" -> Backfill!Init
    /\ Outside(SeatParts, member = None /\ conn = None /\ reading = None /\ asking = None)
    /\ Outside({"gateway"},
          /\ version = None /\ pending = None /\ pass = None /\ current = None /\ sent = None /\ chain = None
          /\ heard = None /\ shown = None /\ present = None /\ reported = None /\ reports = None)
    /\ Outside({"gateway", "drain"}, socket = None)
    /\ Outside({"drain"},
          /\ response = None /\ job = None /\ slot = None /\ step = None /\ phase = None
          /\ waits = None /\ closed = None /\ forced = None /\ database = None)
    /\ Outside(AdmissionParts,
          request = None /\ globalActive = None /\ globalNonPlayback = None /\ waiting = None)
    /\ Outside(AdmissionParts \union {"analysis"}, active = None)
    /\ Outside({"analysis"}, track = None /\ names = None /\ listed = None /\ calls = None)
    /\ Outside(LookupParts,
          /\ now = None /\ nextAt = None /\ leases = None /\ at = None /\ since = None
          /\ seen = None /\ slept = None /\ sends = None /\ releases = None)
    /\ Outside({"backfill"},
          /\ status = None /\ mode = None /\ run = None /\ page = None
          /\ safeAfter = None /\ logged = None /\ analyses = None /\ results = None)

Next ==
    /\ UNCHANGED part
    /\ CASE part \in SeatParts -> Seats!Next
         [] part = "gateway" -> Gateway!Next
         [] part = "drain" -> Drain!Next
         [] part = "admission" -> Admission!Next
         [] part = "narrow" -> Narrow!Next
         [] part = "spaced" -> Spaced!Next
         [] part = "paired" -> Paired!Next
         [] part = "analysis" -> Analysis!Next
         [] part = "backfill" -> Backfill!Next
    /\ Outside(SeatParts, UNCHANGED seatVars)
    /\ Outside({"gateway"}, UNCHANGED gatewayVars)
    /\ Outside({"gateway", "drain"}, UNCHANGED socket)
    /\ Outside({"drain"}, UNCHANGED drainVars)
    /\ Outside(AdmissionParts, UNCHANGED admissionVars)
    /\ Outside(AdmissionParts \union {"analysis"}, UNCHANGED active)
    /\ Outside({"analysis"}, UNCHANGED analysisVars)
    /\ Outside(LookupParts, UNCHANGED lookupVars)
    /\ Outside({"backfill"}, UNCHANGED backfillVars)

Spec == Init /\ [][Next]_vars

-----------------------------------------------------------------------------
\* Every limit holds of what is really going on, and what it keeps out is kept
\* out for cause: sockets and the seats reserved for members; requests with work
\* and the drain that waits for them; media reads, their places and their queue;
\* the requests a metadata source sees, and who waits for it; analyses.
LimitsHold ==
    CASE part \in SeatParts -> Seats!TypeOK /\ Seats!SocketCeiling /\ Seats!MemberFindsASeat
      [] part = "gateway" -> Gateway!TypeOK
      [] part = "drain" -> Drain!TypeOK /\ Drain!GracefulIsClean /\ Drain!AdmittedAreServed /\ Drain!SlotsCoverWork
      [] part = "admission" -> Admission!TypeOK /\ Admission!WorkIsBounded /\ Admission!NobodyWaitsInVain
      [] part = "narrow" -> Narrow!TypeOK /\ Narrow!WorkIsBounded /\ Narrow!NobodyWaitsInVain
      [] part = "spaced" -> Spaced!TypeOK /\ Spaced!SendsAreSpaced /\ Spaced!BusySleepsItsOwnSpacing
      [] part = "paired" -> Paired!TypeOK /\ Paired!HoldersAreBounded
      [] part = "analysis" -> Analysis!TypeOK
      [] part = "backfill" -> Backfill!TypeOK

\* What is recorded is so: a finding is of the bytes it is stored with, a walk
\* that stops has skipped nothing it leaves behind its cursor and one that says it
\* is finished has met every row, and a client that came back is present.
RecordsAreTrue ==
    CASE part = "gateway" -> Gateway!ReturnersArePresent
      [] part = "analysis" -> Analysis!FindingsAreOfTheirSource
      [] part = "backfill" -> Backfill!NothingIsSkipped /\ Backfill!FinishedMeansAll
      [] OTHER -> TRUE

\* No step takes back what was shown, found, answered or reserved: what a
\* client's sockets bring it does not go back in time, findings are final and
\* answered truly, and a playback is turned away only for other playbacks.
NothingIsTakenBack ==
    [][CASE part = "gateway" -> Gateway!NoneGoesBack
         [] part = "analysis" -> Analysis!FindingStays /\ Analysis!AnswersTruly
         [] part = "admission" -> Admission!TurnedAwayForPlayback
         [] part = "narrow" -> Narrow!TurnedAwayForPlayback
         [] OTHER -> TRUE]_vars

\* The ceiling of realtime sockets alone, for the run that lets closed sockets linger.
SocketCeiling == Seats!SocketCeiling
=============================================================================
