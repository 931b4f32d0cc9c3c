------------------------------ MODULE MCProgress ------------------------------
(***************************************************************************)
(* What must eventually happen, under the fairness each component's        *)
(* scheduling justifies: a room's host and guest (with the constants of    *)
(* the .cfg file), the authority over rooms, realtime delivery, upgrades,  *)
(* a listener's lease, the drain and the clean-up of a video project.      *)
(* They share nothing here: a behaviour is one of one `part`.              *)
(***************************************************************************)
EXTENDS RoomStart, TLC

CONSTANT Parts

VARIABLES part,
          lease, lock, mode, held, call, freeing, txn, last,                        \* RoomAuthority
          version, pending, pass, current, socket, sent, chain, heard, shown,       \* RoomGateway
          present, reported, reports,
          live, holder, ticket, upgrade,                                            \* RoomTickets (its `owner` the holder)
          owner, publication, receipts, wire, device, read, runs, stopped, lost,    \* Listening
          response, connected, job, slot, step, phase, waits, closed, forced, database, \* RequestDrain (its `socket`)
          project, assets, settled, ingress, track, claim, admin, digest, choiceBy, \* VideoWorker (its `lease` and `view`)
          stored, inflight, calls, work, commands, faults

authorityVars == <<lease, lock, mode, held, call, freeing, txn, last>>
gatewayVars == <<version, pending, pass, current, socket, sent, chain, heard, shown, present, reported, reports>>
ticketVars == <<live, holder, ticket, upgrade>>
listeningVars == <<owner, publication, receipts, wire, device, read, runs, stopped, lost>>
drainVars == <<response, connected, job, slot, step, phase, waits, closed, forced, database>>
videoVars == <<project, assets, settled, ingress, track, claim, admin, digest, choiceBy, stored, inflight, calls, work, commands, faults>>
suiteVars == <<part, vars, authorityVars, gatewayVars, ticketVars, listeningVars, drainVars, videoVars>>

\* Every device belongs to an account and a session of its own.
Owners == [d \in Device |-> IF d = "h1" THEN "host" ELSE "guest"]
Itself == [d \in Device |-> d]
OneEntry == {<<"t1">>}

Processes == {"p1", "p2"}
Transactions == {"t1"}
Upgrades == {"u1", "u2"}

Authority == INSTANCE RoomAuthority WITH
    Proc <- Processes, NoProc <- "none", Txn <- Transactions, NoTxn <- "none", LeaseTicks <- 1, MaxCounter <- 2
Gateway == INSTANCE RoomGateway WITH
    Key <- {"client"}, MaxVersion <- 2, MaxSockets <- 2, MaxReports <- 0
Tickets == INSTANCE RoomTickets WITH
    Session <- {"s1", "s2"}, Ticket <- {"ticket1", "ticket2"}, Upgrade <- Upgrades, Limit <- 2, owner <- holder
Listening == INSTANCE Listening WITH
    Device <- {"d1"}, MaxCommands <- 1, MaxRuns <- 1, MaxIntents <- 1, MaxReports <- 2, MaxPublisher <- 2
Drain == INSTANCE RequestDrain WITH
    Request <- {"r1", "r2"}, Worker <- {"worker"}, Slots <- 2, socket <- connected
Video == INSTANCE VideoWorker WITH
    Request <- {"r1"}, Worker <- {"w1"}, None <- "none", Asks <- {"source", "cancel"}, Reviewed <- FALSE,
    MaxAssets <- 3, MaxCovers <- 1, MaxCommands <- 2, MaxFaults <- 1, lease <- claim, view <- digest

ASSUME /\ RoomsAssumption /\ Gateway!GatewayAssumption /\ Tickets!TicketsAssumption
       /\ Listening!ListeningAssumption /\ Drain!DrainAssumption /\ Video!VideoAssumption

\* A component stays where it begins while another one runs.
Only(p, still) == IF part = p THEN TRUE ELSE still

SuiteInit ==
    /\ part \in Parts
    /\ OpenInit /\ Authority!Init /\ Gateway!Init /\ Tickets!Init
    /\ Listening!Init /\ Drain!Init /\ Video!WorkInit
    /\ Only("gateway", version = 0)
    /\ Only("tickets", holder = [t \in DOMAIN ticket |-> "s1"])
    /\ Only("listening", ~owner.enabled)

SuiteNext ==
    /\ UNCHANGED part
    /\ CASE part = "rooms" -> Next
         [] part = "authority" -> Authority!Next
         [] part = "gateway" -> Gateway!Next
         [] part = "tickets" -> Tickets!Next
         [] part = "listening" -> Listening!Next
         [] part = "drain" -> Drain!Next
         [] part = "video" -> Video!Next
    /\ Only("rooms", UNCHANGED vars)
    /\ Only("authority", UNCHANGED authorityVars)
    /\ Only("gateway", UNCHANGED gatewayVars)
    /\ Only("tickets", UNCHANGED ticketVars)
    /\ Only("listening", UNCHANGED listeningVars)
    /\ Only("drain", UNCHANGED drainVars)
    /\ Only("video", UNCHANGED videoVars)

SuiteSpec == SuiteInit /\ [][SuiteNext]_suiteVars

-----------------------------------------------------------------------------
\* Each component's own Fairness, of its actions while it is the one that runs.
RoomFairness == WF_vars(part = "rooms" /\ Tick) /\ \A r \in Room : WF_vars(part = "rooms" /\ SweepNow(r))

AuthorityFairness ==
    /\ WF_authorityVars(part = "authority" /\ Authority!Tick)
    /\ \A p \in Processes :
          /\ WF_authorityVars(part = "authority" /\ Authority!AcquireSend(p))
          /\ SF_authorityVars(part = "authority" /\ Authority!AcquireApply(p))
          /\ SF_authorityVars(part = "authority" /\ Authority!AcquireReturn(p))
    /\ \A t \in Transactions : WF_authorityVars(part = "authority" /\ (Authority!Commit(t) \/ Authority!Abort(t)))

GatewayFairness ==
    /\ WF_gatewayVars(part = "gateway" /\ Gateway!Tick)
    /\ WF_gatewayVars(part = "gateway" /\ Gateway!Loop)
    /\ WF_gatewayVars(part = "gateway" /\ Gateway!Run("client"))

TicketFairness ==
    \A u \in Upgrades : /\ WF_ticketVars(part = "tickets" /\ Tickets!Redeem(u))
                        /\ WF_ticketVars(part = "tickets" /\ Tickets!Connect(u))
                        /\ WF_ticketVars(part = "tickets" /\ Tickets!Refresh(u))

ListeningFairness ==
    /\ WF_listeningVars(part = "listening" /\ Listening!Fetch("d1"))
    /\ SF_listeningVars(part = "listening" /\ Listening!Ingest("d1"))

DrainFairness ==
    /\ WF_drainVars(part = "drain" /\ Drain!Drained)
    /\ WF_drainVars(part = "drain" /\ Drain!GraceOver)
    /\ WF_drainVars(part = "drain" /\ Drain!CutOver)
    /\ WF_drainVars(part = "drain" /\ Drain!CleanupOver)

VideoFairness ==
    /\ WF_videoVars(part = "video" /\ Video!Run("w1") /\ UNCHANGED <<admin, digest, calls, commands>>)
    /\ WF_videoVars(part = "video" /\ Video!CallStep("r1"))
    /\ WF_videoVars(part = "video" /\ Video!IngressLapse("r1") /\ UNCHANGED <<digest, work, commands>>)
    /\ WF_videoVars(part = "video" /\ Video!LeaseLapse /\ UNCHANGED <<admin, digest, calls, commands>>)
    /\ \A a \in 1..3 : WF_videoVars(/\ part = "video" /\ a \in 1..Len(assets)
                                    /\ Video!Settle(a) /\ UNCHANGED <<digest, work, commands>>)

-----------------------------------------------------------------------------
\* Every occurrence of a room ends: a preparation finishes by its deadline, a track
\* that plays ends and is followed, paused or replaced.
EveryOccurrenceEnds == part = "rooms" /\ RoomFairness => OccurrencesEnd

\* A room whose host stays away is closed in the end.
EveryAbandonedRoomCloses == part = "rooms" /\ RoomFairness => AbandonedRoomsClose

\* Crashes, releases and lost replies never leave the rooms without a scheduler for good.
RoomsHaveALeader == part = "authority" /\ AuthorityFairness => Authority!RunningLeader

\* A view of the server's state catches up though wakeups, answers and reads are lost:
\* a client shows what is committed, an ended session has no socket, and a browser lets
\* go of a lease that is no longer its own.
ViewsCatchUp == /\ part = "gateway" /\ GatewayFairness => Gateway!Synchronised
                /\ part = "tickets" /\ TicketFairness => Tickets!SocketsEndWithSessions
                /\ part = "listening" /\ ListeningFairness => Listening!LeaseLetsGo

\* A stop that was asked for comes to its end, though work hangs and clients stay.
StopsEnd == part = "drain" /\ DrainFairness => Drain!StopEnds

\* A cancelled project ends without objects.
CancelledProjectsAreCleaned == part = "video" /\ VideoFairness => Video!CancelledIsCleaned
=============================================================================
