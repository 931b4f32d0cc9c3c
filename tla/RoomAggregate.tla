--------------------------- MODULE RoomAggregate ----------------------------
(***************************************************************************)
(* The durable room document (repositories/social/roomDocuments.ts) and    *)
(* the pure functions the room service builds its transactions from:       *)
(* roomLifecycle.ts, roomHostAbsence.ts and the planning half of           *)
(* roomService.ts.                                                         *)
(*                                                                         *)
(* Clocks.  A stored instant is modelled by the time since it (a member's  *)
(* `idle`, the timeline's `elapsed`, the room's `absent`) or until it (the *)
(* `left` of a preparation or an offer); Aged is one tick for all of them. *)
(* An age saturates once no comparison can tell it from a larger one.      *)
(*                                                                         *)
(* Identities.  A membership id is <<account, n>>, the account's nth       *)
(* admission; an entry id is the room's nth queue occurrence; preparationId *)
(* is the playback generation, which is new for every preparation; `rev`   *)
(* is the room revision modulo 2, since the model only asks whether a step *)
(* changed it.                                                             *)
(***************************************************************************)
EXTENDS Integers, Sequences

CONSTANTS
    None,          \* null
    Closed,        \* a closed room: nothing of it is read again
    AccountOf,     \* the account of each device (a signed-in tab)
    Duration,      \* length of every track, in ticks
    HostGrace,     \* ROOM_LIMITS.hostGraceMs
    HostClose,     \* ROOM_LIMITS.hostCloseMs
    PrepTicks,     \* ROOM_LIMITS.preparationMs
    TransferTicks, \* ROOM_LIMITS.transferMs
    StartLead      \* ROOM_LIMITS.startLeadMs

TimingAssumption ==
    /\ {Duration, HostGrace, HostClose, PrepTicks, TransferTicks} \subseteq Nat \ {0}
    /\ StartLead \in Nat
    /\ HostGrace < HostClose

Least(a, b) == IF a < b THEN a ELSE b
Most(a, b) == IF a < b THEN b ELSE a

-----------------------------------------------------------------------------
(* Parts of a room                                                         *)

NewMember(d) ==
    [dev |-> d, gen |-> 1, idle |-> 0, present |-> FALSE, muted |-> FALSE,
     ready |-> 0, reportGen |-> 0, reportSeq |-> 0]

(* A queue occurrence of a track pins the track's revision.                *)
NewEntry(id, track, revision, by) ==
    [id |-> id, track |-> track, media |-> revision, gone |-> FALSE, by |-> by]

(* create: `tracks` is a sequence of <<track, revision>>.                  *)
NewRoom(d, m, epoch, tracks) ==
    [epoch |-> epoch, host |-> m, everyone |-> FALSE,
     controlGen |-> 1, queueRev |-> 1, playGen |-> 1, rev |-> 0,
     members |-> [x \in {m} |-> NewMember(d)],
     queue |-> [i \in DOMAIN tracks |-> NewEntry(i, tracks[i][1], tracks[i][2], m)],
     entries |-> Len(tracks),
     requests |-> {},
     timeline |-> [entry |-> 1, state |-> "paused", pos |-> 0, elapsed |-> 0],
     prep |-> None, transfer |-> None, absent |-> None, suspended |-> FALSE,
     expired |-> FALSE]

Open(s) == s # None /\ s # Closed

(* safeRoom                                                                *)
Safe(s) == Open(s) /\ ~s.expired

MembersOf(s) == DOMAIN s.members
HasAccount(s, a) == \E m \in MembersOf(s) : m[1] = a
EntryIds(s) == {s.queue[i].id : i \in DOMAIN s.queue}
QueueOrder(s) == [i \in DOMAIN s.queue |-> s.queue[i].id]
IndexOf(s, id) == CHOOSE i \in DOMAIN s.queue : s.queue[i].id = id
EntryOf(s, id) == s.queue[IndexOf(s, id)]

(* A device is a member's active controller: session and client match.     *)
Controls(s, m, d) == s.members[m].dev = d

Connected(member) == member.present /\ member.idle < HostGrace

HostPresent(s) == s.host \in MembersOf(s) /\ Connected(s.members[s.host])

(* Mutant: absence counts only once a sweep has recorded it.               *)
SuspendedBySweep(s) == s.suspended

(* roomHostPlaybackSuspended                                               *)
PlaybackSuspended(s) ==
    \/ s.suspended
    \/ s.host \notin MembersOf(s)
    \/ /\ ~HostPresent(s)
       /\ (IF s.absent = None THEN s.members[s.host].idle ELSE s.absent) >= HostGrace

-----------------------------------------------------------------------------
(* Timeline                                                                *)

(* roomPositionAt                                                          *)
PositionAt(s) ==
    IF s.timeline.entry \in EntryIds(s)
    THEN Least(Duration, s.timeline.pos
                         + (IF s.timeline.state = "playing" THEN Most(0, s.timeline.elapsed) ELSE 0))
    ELSE 0

(* Mutant: the preparation survives a pause.                               *)
PauseKeepingPreparation(s) ==
    [s EXCEPT !.timeline = [@ EXCEPT !.state = "paused", !.pos = PositionAt(s), !.elapsed = 0],
              !.playGen = @ + 1]

(* pauseRoom                                                               *)
PauseRoom(s) ==
    [s EXCEPT !.timeline = [@ EXCEPT !.state = "paused", !.pos = PositionAt(s), !.elapsed = 0],
              !.prep = None,
              !.playGen = @ + 1]

Playing(s) == s.timeline.state \in {"preparing", "playing"}

(* Connected controllers that did not pause locally.                       *)
Participants(s) == {m \in MembersOf(s) : Connected(s.members[m]) /\ ~s.members[m].muted}

(* prepare                                                                 *)
Prepare(s, id, pos) ==
    [s EXCEPT
        !.playGen = @ + 1,
        !.timeline = [entry |-> id, state |-> "preparing", pos |-> pos, elapsed |-> 0],
        !.prep = [gen |-> s.playGen + 1, entry |-> id, left |-> PrepTicks,
                  cohort |-> [m \in Participants(s) |->
                                 [gen |-> s.members[m].gen, seq |-> 0, ready |-> FALSE]]],
        !.suspended = FALSE]

CohortKept(s) ==
    {m \in DOMAIN s.prep.cohort \cap Participants(s) : s.members[m].gen = s.prep.cohort[m].gen}
CohortReady(s) == {m \in CohortKept(s) : s.prep.cohort[m].ready}

(* finishPreparation may run at all / returns true.                        *)
MayFinish(s, enabled) == s.prep # None /\ ~PlaybackSuspended(s) /\ enabled

(* Mutant: the preparation waits for everyone, whatever the deadline.      *)
FinishesWhenReady(s, enabled) ==
    /\ MayFinish(s, enabled)
    /\ CohortReady(s) # {} /\ CohortReady(s) = CohortKept(s)

Finishes(s, enabled) ==
    /\ MayFinish(s, enabled)
    /\ s.prep.left = 0 \/ (CohortReady(s) # {} /\ CohortReady(s) = CohortKept(s))

(* finishPreparation: drop the departed from the cohort, then start, or    *)
(* stay paused when the deadline passed with nobody ready.                 *)
FinishPreparation(s, enabled) ==
    IF Finishes(s, enabled)
    THEN [s EXCEPT !.prep = None,
                   !.timeline.state = IF CohortReady(s) # {} THEN "playing" ELSE "paused",
                   !.timeline.elapsed = IF CohortReady(s) # {} THEN -StartLead ELSE 0]
    ELSE IF MayFinish(s, enabled)
    THEN [s EXCEPT !.prep.cohort = [m \in CohortKept(s) |-> s.prep.cohort[m]]]
    ELSE s

-----------------------------------------------------------------------------
(* Writes                                                                  *)

(* persistRoom                                                             *)
Persist(s) == [s EXCEPT !.rev = 1 - @]

(* removeRoomMember, for a member that is not the host.                    *)
WithoutMember(s, m) ==
    LET stay == MembersOf(s) \ {m}
    IN  Persist([s EXCEPT
            !.members = [x \in stay |-> s.members[x]],
            !.requests = {q \in @ : q.by # m},
            !.queue = [i \in DOMAIN @ |-> IF @[i].by = m THEN [@[i] EXCEPT !.by = None] ELSE @[i]],
            !.transfer = IF @ # None /\ @.target = m THEN None ELSE @,
            !.prep = IF @ = None THEN None
                     ELSE [@ EXCEPT !.cohort = [x \in DOMAIN s.prep.cohort \ {m} |-> s.prep.cohort[x]]]])

(* The absence of the host starts at its last confirmed heartbeat.         *)
Detached(s, m) ==
    [s EXCEPT !.members[m].present = FALSE,
              !.members[m].ready = 0,
              !.absent = IF s.host = m THEN s.members[m].idle ELSE @]

(* invalidateRoomsForMedia, for one room that holds the track.             *)
Queued(s, t) == \E i \in DOMAIN s.queue : s.queue[i].track = t
WithoutMedia(s, t) ==
    LET marked == [s EXCEPT
            !.requests = {q \in @ : q.track # t},
            !.queue = [i \in DOMAIN @ |-> IF @[i].track = t THEN [@[i] EXCEPT !.gone = TRUE] ELSE @[i]]]
        current == \E i \in DOMAIN s.queue : s.queue[i].track = t /\ s.queue[i].id = s.timeline.entry
        stopped == IF current THEN PauseRoom(marked) ELSE marked
    IN  Persist(IF Queued(s, t) THEN [stopped EXCEPT !.queueRev = @ + 1] ELSE stopped)

-----------------------------------------------------------------------------
(* Time                                                                    *)

Sooner(n) == Most(0, n - 1)
Later(n) == Least(HostClose, n + 1)

Aged(s) ==
    [s EXCEPT
        !.members = [m \in DOMAIN @ |-> [@[m] EXCEPT !.idle = Later(s.members[m].idle)]],
        !.timeline.elapsed = IF s.timeline.state = "playing" THEN Least(Duration, @ + 1) ELSE @,
        !.prep = IF @ = None THEN None ELSE [@ EXCEPT !.left = Sooner(s.prep.left)],
        !.transfer = IF @ = None THEN None ELSE [@ EXCEPT !.left = Sooner(s.transfer.left)],
        !.absent = IF @ = None THEN None ELSE Later(@)]
=============================================================================
