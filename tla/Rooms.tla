-------------------------------- MODULE Rooms -------------------------------
(***************************************************************************)
(* The room service (src/src/application/rooms) as transactions over the   *)
(* shared collections: socialRooms, socialRoomParticipation and            *)
(* socialInvitations, together with the social graph, sessions and media   *)
(* whose changes reach rooms through applyRoomSafety and                   *)
(* invalidateRoomsForMedia.                                                *)
(*                                                                         *)
(* Every action is one committed transaction.  Transactions that touch a   *)
(* room conflict on its document, on its members' accounts or on the       *)
(* authority fence, so they commit one after the other; what is not atomic *)
(* is the client: it acts on a snapshot it saw earlier.  `view` is one     *)
(* such snapshot, taken at an arbitrary moment, which commands, reports    *)
(* and the sweep's candidate may use at any later time; a request that     *)
(* fails or is a no-op changes nothing and is a stuttering step.           *)
(*                                                                         *)
(* `epoch` is the epoch committed writes carry.  FencedWriter, which       *)
(* RoomAuthority implements, is why it never decreases.                    *)
(***************************************************************************)
EXTENDS RoomAggregate, FiniteSets

CONSTANTS
    Room, Account, Device, Session, Track,
    SessionOf,            \* the sign-in session of each device
    Traffic,              \* the kinds of requests and events of a run
    Queues,               \* the track lists a room may be created with
    maxOpenRooms, maxRoomMembers, \* socialCapacity()
    MaxInvitations,       \* ROOM_LIMITS.invitations
    MaxRequests,          \* ROOM_LIMITS.songRequestsPerMember
    MaxSongRequests,      \* ROOM_LIMITS.songRequests, all members together
    MaxQueue,             \* ROOM_LIMITS.queue
    MaxVersion,           \* Number.MAX_SAFE_INTEGER, refused by incrementRoomVersion
    MaxEpoch, MaxJoins, MaxEntries, MaxMedia, MaxSequence \* bounds of the model

RoomsAssumption ==
    /\ TimingAssumption
    /\ AccountOf \in [Device -> Account] /\ SessionOf \in [Device -> Session]
    /\ {maxOpenRooms, maxRoomMembers, MaxInvitations, MaxRequests, MaxSongRequests,
        MaxQueue, MaxVersion,
        MaxEpoch, MaxJoins, MaxEntries, MaxMedia, MaxSequence} \subseteq Nat \ {0}

(* A room is created with a list of tracks that fits its queue.            *)
QueuesAssumption ==
    \A tracks \in Queues : /\ tracks \in Seq(Track) /\ Len(tracks) \in 1..MaxQueue
                           /\ Len(tracks) <= MaxEntries

VARIABLES
    epoch,       \* the authority's epoch
    enabled,     \* the rooms rollout flag
    rooms,       \* None before creation, Closed at the end
    slots,       \* socialRoomParticipation, by account
    invitations, \* pending socialInvitations, by room and recipient
    friends,     \* accepted edges, as two-element sets
    blocks,      \* <<a, b>>: a blocks b
    active,      \* accounts with an active profile
    sessions,    \* sign-in sessions
    media,       \* published revision of each track and whether it is ready
    joins,       \* admissions of each account so far
    view         \* a snapshot a device, a report or a sweep still holds

social == <<friends, blocks, active>>
world == <<epoch, enabled, sessions, media>>
vars == <<rooms, slots, invitations, social, world, joins, view>>

Version == 1..MaxVersion
Member == Account \X (1..MaxJoins)
Position == 0..Duration
Age == 0..HostClose
EntryId == 1..MaxEntries

-----------------------------------------------------------------------------
(* Snapshots                                                               *)

(* What a delivered snapshot, and the projection of a sweep candidate,     *)
(* pins of a room.                                                         *)
Snapshot(s) ==
    [epoch |-> s.epoch, playGen |-> s.playGen, controlGen |-> s.controlGen, queueRev |-> s.queueRev,
     entry |-> s.timeline.entry, state |-> s.timeline.state, order |-> QueueOrder(s),
     host |-> s.host, everyone |-> s.everyone,
     gens |-> [m \in MembersOf(s) |-> s.members[m].gen],
     devs |-> [m \in MembersOf(s) |-> s.members[m].dev]]

(* The versions a request may carry when it is processed.                  *)
Carried(r) ==
    {Snapshot(rooms[r])} \cup (IF view # None /\ view.room = r THEN {view.what} ELSE {})

Observe(r) ==
    /\ "observe" \in Traffic
    /\ view = None
    /\ Open(rooms[r])
    /\ view' = [room |-> r, what |-> Snapshot(rooms[r])]
    /\ UNCHANGED <<rooms, slots, invitations, social, world, joins>>

-----------------------------------------------------------------------------
(* Shared guards and writes                                                *)

Friends(a, b) == {a, b} \in friends
Blocked(a, b) == <<a, b>> \in blocks \/ <<b, a>> \in blocks

NoBlocks(a, s) == \A m \in MembersOf(s) : ~Blocked(a, m[1])

(* The session fence of `transaction`, then profile().                     *)
SignedIn(d) == sessions[SessionOf[d]] = "live"
Acting(d) == SignedIn(d) /\ AccountOf[d] \in active

(* The head of every command on a room: safeRoom, member() and the check   *)
(* that no version is exhausted.                                           *)
Headroom(s) == {s.playGen, s.controlGen, s.queueRev} \subseteq 1..(MaxVersion - 1)
Addressed(d, r, m) ==
    /\ Acting(d)
    /\ Safe(rooms[r])
    /\ m \in MembersOf(rooms[r]) /\ m[1] = AccountOf[d]
    /\ Headroom(rooms[r])

(* Commands that are not deny-only need the rollout flag, a live authority *)
(* and a room that has adopted its epoch.                                  *)
Scheduled(r) == enabled /\ rooms[r].epoch = epoch

(* incrementRoomVersion aborts the transaction instead of wrapping.        *)
Bounded(s) ==
    /\ {s.playGen, s.controlGen, s.queueRev} \subseteq Version
    /\ \A m \in MembersOf(s) : s.members[m].gen \in Version

Write(r, s) ==
    /\ Bounded(s)
    /\ rooms' = [rooms EXCEPT ![r] = s]

(* persistRoom as the only write of a command.                             *)
Change(r, s) ==
    /\ Write(r, Persist(s))
    /\ UNCHANGED <<slots, invitations, social, world, joins, view>>

(* closeRoom and removeRoomMember for the memberships in `gone` (at most   *)
(* one of a room): the host's removal closes the room, which frees all its *)
(* slots and invitations.  `drop` are invitations the caller deletes too.  *)
ClosedBy(gone) == {r \in Room : \E m \in Member : <<r, m>> \in gone /\ rooms[r].host = m}

(* Mutant: removing a member frees its account's slot, wherever it points. *)
FreedByAccount(gone) ==
    [a \in Account |->
        IF slots[a] # None /\ (\/ slots[a].room \in ClosedBy(gone)
                               \/ \E x \in gone : x[2][1] = a)
        THEN None ELSE slots[a]]

Freed(gone) ==
    [a \in Account |->
        IF slots[a] # None /\ (\/ slots[a].room \in ClosedBy(gone)
                               \/ <<slots[a].room, slots[a].member>> \in gone)
        THEN None ELSE slots[a]]

Expel(gone, drop) ==
    /\ \A r \in ClosedBy(gone) : rooms[r].playGen < MaxVersion
    /\ rooms' = [r \in Room |->
                    IF r \in ClosedBy(gone) THEN Closed
                    ELSE IF \E m \in Member : <<r, m>> \in gone
                    THEN WithoutMember(rooms[r], CHOOSE m \in Member : <<r, m>> \in gone)
                    ELSE rooms[r]]
    /\ slots' = Freed(gone)
    /\ invitations' = [x \in Room \X Account |->
                          IF x[1] \in ClosedBy(gone) \/ x \in drop THEN None ELSE invitations[x]]

(* The memberships of an account in open rooms; an expired room the        *)
(* account has moved on from may still hold one.                           *)
Memberships(a) ==
    {x \in Room \X Member : Open(rooms[x[1]]) /\ x[2][1] = a /\ x[2] \in MembersOf(rooms[x[1]])}

-----------------------------------------------------------------------------
(* Admission                                                               *)

(* cleanSlot: refused while the slot names a membership of a safe room.    *)
SlotWillClear(a) ==
    slots[a] # None => ~(/\ Safe(rooms[slots[a].room])
                         /\ slots[a].member \in MembersOf(rooms[slots[a].room]))

Fresh(a) == <<a, joins[a] + 1>>

(* create                                                                  *)
Create(d, r) ==
    LET a == AccountOf[d] IN
    /\ "create" \in Traffic
    /\ Acting(d) /\ enabled
    /\ rooms[r] = None
    /\ joins[a] < MaxJoins
    /\ SlotWillClear(a)
    /\ Cardinality({x \in Room : Open(rooms[x])}) < maxOpenRooms
    /\ \E tracks \in Queues :
          /\ \A i \in DOMAIN tracks : media[tracks[i]].ready
          /\ Write(r, NewRoom(d, Fresh(a), epoch,
                              [i \in DOMAIN tracks |-> <<tracks[i], media[tracks[i]].revision>>]))
    /\ slots' = [slots EXCEPT ![a] = [room |-> r, member |-> Fresh(a)]]
    /\ joins' = [joins EXCEPT ![a] = @ + 1]
    /\ UNCHANGED <<invitations, social, world, view>>

(* invite: the host's active controller invites a friend.                  *)
Pending(a) == {x \in Room \X Account : /\ invitations[x] # None
                                       /\ invitations[x].from = a /\ ~invitations[x].lapsed}

Invite(d, r, m, b) ==
    /\ "invite" \in Traffic
    /\ Addressed(d, r, m) /\ Scheduled(r) /\ Controls(rooms[r], m, d)
    /\ rooms[r].host = m
    /\ b \in active \ {m[1]}
    /\ Friends(m[1], b) /\ ~Blocked(m[1], b)
    /\ NoBlocks(b, rooms[r])
    /\ ~HasAccount(rooms[r], b)
    /\ <<r, b>> \in Pending(m[1]) \/ Cardinality(Pending(m[1])) < MaxInvitations
    /\ invitations' = [invitations EXCEPT ![<<r, b>>] = [from |-> m[1], lapsed |-> FALSE]]
    /\ Write(r, Persist(rooms[r]))
    /\ UNCHANGED <<slots, social, world, joins, view>>

Invited(r, a) ==
    /\ invitations[<<r, a>>] # None /\ ~invitations[<<r, a>>].lapsed
    /\ Safe(rooms[r]) /\ rooms[r].host[1] = invitations[<<r, a>>].from

(* acceptInvitation                                                        *)
Accept(d, r) ==
    LET a == AccountOf[d] IN
    /\ "accept" \in Traffic
    /\ Acting(d)
    /\ Invited(r, a) /\ Scheduled(r)
    /\ joins[a] < MaxJoins
    /\ Friends(a, invitations[<<r, a>>].from) /\ ~Blocked(a, invitations[<<r, a>>].from)
    /\ NoBlocks(a, rooms[r])
    /\ Cardinality(MembersOf(rooms[r])) < maxRoomMembers
    /\ SlotWillClear(a)
    /\ Write(r, Persist([rooms[r] EXCEPT
                    !.members = [x \in DOMAIN @ \cup {Fresh(a)} |->
                                    IF x = Fresh(a) THEN NewMember(d) ELSE @[x]]]))
    /\ slots' = [slots EXCEPT ![a] = [room |-> r, member |-> Fresh(a)]]
    /\ invitations' = [invitations EXCEPT ![<<r, a>>] = None]
    /\ joins' = [joins EXCEPT ![a] = @ + 1]
    /\ UNCHANGED <<social, world, view>>

Decline(d, r) ==
    /\ "decline" \in Traffic
    /\ Acting(d)
    /\ invitations[<<r, AccountOf[d]>>] # None /\ ~invitations[<<r, AccountOf[d]>>].lapsed
    /\ invitations' = [invitations EXCEPT ![<<r, AccountOf[d]>>] = None]
    /\ UNCHANGED <<rooms, slots, social, world, joins, view>>

(* leave, end and kick are deny-only: they work while rooms are disabled   *)
(* and without an authority.                                               *)
Leave(d, r, m) ==
    /\ "leave" \in Traffic
    /\ Addressed(d, r, m)
    /\ rooms[r].host # m
    /\ Expel({<<r, m>>}, {})
    /\ UNCHANGED <<social, world, joins, view>>

End(d, r, m) ==
    /\ "end" \in Traffic
    /\ Addressed(d, r, m)
    /\ rooms[r].host = m
    /\ Expel({<<r, m>>}, {})
    /\ UNCHANGED <<social, world, joins, view>>

Kick(d, r, m, target) ==
    /\ "kick" \in Traffic
    /\ Addressed(d, r, m) /\ Controls(rooms[r], m, d)
    /\ rooms[r].host = m /\ target # m
    /\ target \in MembersOf(rooms[r])
    /\ Expel({<<r, target>>}, {})
    /\ UNCHANGED <<social, world, joins, view>>

(* Twenty-four hours pass for a room, or for an invitation.                *)
ExpireRoom(r) ==
    /\ "expire" \in Traffic
    /\ Safe(rooms[r])
    /\ rooms' = [rooms EXCEPT ![r].expired = TRUE]
    /\ UNCHANGED <<slots, invitations, social, world, joins, view>>

ExpireInvitation(r, a) ==
    /\ "expire" \in Traffic
    /\ invitations[<<r, a>>] # None /\ ~invitations[<<r, a>>].lapsed
    /\ invitations' = [invitations EXCEPT ![<<r, a>>].lapsed = TRUE]
    /\ UNCHANGED <<rooms, slots, social, world, joins, view>>

-----------------------------------------------------------------------------
(* Control                                                                 *)

(* Mutant: a takeover keeps a pending offer to the member.                 *)
TakenOverKeepingOffer(s, m, d) ==
    [s EXCEPT !.members[m] = [NewMember(d) EXCEPT !.gen = s.members[m].gen + 1],
              !.absent = IF s.host = m THEN 0 ELSE @]

(* The member's record as takeControl rewrites it for the calling device.  *)
TakenOver(s, m, d) ==
    [s EXCEPT !.members[m] = [NewMember(d) EXCEPT !.gen = s.members[m].gen + 1],
              !.transfer = None,
              !.absent = IF s.host = m THEN 0 ELSE @]

TakeControl(d, r, m) ==
    /\ "takeControl" \in Traffic
    /\ Addressed(d, r, m) /\ Scheduled(r)
    /\ ~Controls(rooms[r], m, d)
    /\ LET taken == TakenOver(rooms[r], m, d)
       IN  Change(r, IF rooms[r].prep # None THEN PauseRoom(taken) ELSE taken)

OfferTransfer(d, r, m, target, v) ==
    /\ "transfer" \in Traffic
    /\ Addressed(d, r, m) /\ Scheduled(r) /\ Controls(rooms[r], m, d)
    /\ rooms[r].host = m
    /\ target \in MembersOf(rooms[r]) \ {m} /\ target \in DOMAIN v.gens
    /\ Connected(rooms[r].members[target])
    /\ v.gens[target] = rooms[r].members[target].gen
    /\ v.controlGen = rooms[r].controlGen
    /\ Change(r, [rooms[r] EXCEPT !.transfer =
                     [host |-> m, control |-> rooms[r].controlGen, target |-> target,
                      gen |-> rooms[r].members[target].gen, left |-> TransferTicks]])

CancelTransfer(d, r, m) ==
    /\ "transfer" \in Traffic
    /\ Addressed(d, r, m) /\ Controls(rooms[r], m, d)
    /\ rooms[r].host = m
    /\ rooms[r].transfer # None
    /\ Change(r, [rooms[r] EXCEPT !.transfer = None])

(* Mutants: the presence of both is not checked; the old host's            *)
(* invitations survive.                                                    *)
ConsentWithoutPresence(s, m) ==
    /\ s.transfer # None /\ s.transfer.target = m
    /\ s.transfer.gen = s.members[m].gen /\ s.transfer.left > 0

Consent(s, m) ==
    /\ s.transfer # None /\ s.transfer.target = m
    /\ s.transfer.gen = s.members[m].gen
    /\ s.transfer.control = s.controlGen /\ s.transfer.host = s.host
    /\ s.transfer.left > 0
    /\ Connected(s.members[m]) /\ HostPresent(s)

SentByNobody(r, a) == {}
SentBy(r, a) == {x \in {r} \X Account : invitations[x] # None /\ invitations[x].from = a}

(* acceptTransfer: the new host takes the room, the old host leaves it.    *)
AcceptTransfer(d, r, m) ==
    LET s == rooms[r]
        handed == [s EXCEPT !.host = m, !.controlGen = @ + 1, !.transfer = None, !.absent = None]
        stopped == IF s.prep # None THEN PauseRoom(handed) ELSE handed
    IN
    /\ "transfer" \in Traffic
    /\ Addressed(d, r, m) /\ Scheduled(r) /\ Controls(s, m, d)
    /\ Consent(s, m)
    /\ Write(r, WithoutMember(stopped, s.host))
    /\ slots' = [a \in Account |->
                    IF slots[a] = [room |-> r, member |-> s.host] THEN None ELSE slots[a]]
    /\ invitations' = [x \in Room \X Account |-> IF x \in SentBy(r, s.host[1]) THEN None ELSE invitations[x]]
    /\ UNCHANGED <<social, world, joins, view>>

(* The fences every control command carries.                               *)
Current(d, r, m, v) ==
    /\ Controls(rooms[r], m, d)
    /\ v.epoch = rooms[r].epoch
    /\ m \in DOMAIN v.gens /\ v.gens[m] = rooms[r].members[m].gen
    /\ v.controlGen = rooms[r].controlGen

SetControlMode(d, r, m, v) ==
    /\ "mode" \in Traffic
    /\ Addressed(d, r, m) /\ Scheduled(r) /\ Current(d, r, m, v)
    /\ rooms[r].host = m
    /\ Change(r, [rooms[r] EXCEPT !.everyone = ~@, !.controlGen = @ + 1, !.transfer = None])

-----------------------------------------------------------------------------
(* Song requests and the queue                                             *)

RequestsOf(s, m) == {q \in s.requests : q.by = m}

RequestSong(d, r, m, t, v) ==
    /\ "queue" \in Traffic
    /\ Addressed(d, r, m) /\ Scheduled(r)
    /\ v.epoch = rooms[r].epoch
    /\ \A q \in RequestsOf(rooms[r], m) : q.track # t
    /\ Cardinality(rooms[r].requests) < MaxSongRequests
    /\ Cardinality(RequestsOf(rooms[r], m)) < MaxRequests
    /\ media[t].ready
    /\ Change(r, [rooms[r] EXCEPT
                     !.requests = @ \cup {[by |-> m, track |-> t, media |-> media[t].revision]}])

DismissSongRequest(d, r, m, q) ==
    /\ "queue" \in Traffic
    /\ Addressed(d, r, m)
    /\ q \in rooms[r].requests
    /\ q.by = m \/ (rooms[r].host = m /\ Controls(rooms[r], m, d))
    /\ Change(r, [rooms[r] EXCEPT !.requests = @ \ {q}])

Edits(d, r, m, v) ==
    /\ Addressed(d, r, m) /\ Scheduled(r) /\ Current(d, r, m, v)
    /\ rooms[r].host = m
    /\ v.playGen = rooms[r].playGen /\ v.entry = rooms[r].timeline.entry
    /\ v.queueRev = rooms[r].queueRev

(* Mutant: an edit keeps the queue revision.                               *)
RequeuedSameRevision(s, queue) == [s EXCEPT !.queue = queue]
Requeued(s, queue) == [s EXCEPT !.queue = queue, !.queueRev = @ + 1]

(* touchMedia: published, ready and still the pinned revision.             *)
Readable(t, revision) == media[t].ready /\ media[t].revision = revision

(* Mutant: the queue limit is off by one.                                  *)
QueueHasRoomTwice(s) == Len(s.queue) <= MaxQueue
QueueHasRoom(s) == Len(s.queue) < MaxQueue

AcceptSongRequest(d, r, m, q, v) ==
    LET s == rooms[r] IN
    /\ "queue" \in Traffic
    /\ Edits(d, r, m, v)
    /\ q \in s.requests /\ q.by \in MembersOf(s)
    /\ QueueHasRoom(s)
    /\ Readable(q.track, q.media)
    /\ s.entries < MaxEntries
    /\ Change(r, [Requeued(s, Append(s.queue, NewEntry(s.entries + 1, q.track, q.media, q.by)))
                     EXCEPT !.requests = @ \ {q}, !.entries = @ + 1])

RemoveQueueEntry(d, r, m, id, v) ==
    LET s == rooms[r]
        i == IndexOf(s, id)
    IN
    /\ "queue" \in Traffic
    /\ Edits(d, r, m, v)
    /\ id # s.timeline.entry /\ id \in EntryIds(s)
    /\ Change(r, Requeued(s, SubSeq(s.queue, 1, i - 1) \o SubSeq(s.queue, i + 1, Len(s.queue))))

ReorderQueue(d, r, m, order, v) ==
    /\ "queue" \in Traffic
    /\ Edits(d, r, m, v)
    /\ order # QueueOrder(rooms[r])
    /\ Change(r, Requeued(rooms[r], [i \in DOMAIN order |-> EntryOf(rooms[r], order[i])]))

(* The client's list names every entry of the queue exactly once.          *)
Orders(s) == {f \in [DOMAIN s.queue -> EntryIds(s)] : \A i, j \in DOMAIN f : i # j => f[i] # f[j]}

-----------------------------------------------------------------------------
(* Transport                                                               *)

(* The fences and the permission of every transport command.               *)
Transport(d, r, m, v) ==
    /\ Addressed(d, r, m) /\ Current(d, r, m, v)
    /\ rooms[r].host = m \/ rooms[r].everyone
    /\ v.playGen = rooms[r].playGen /\ v.entry = rooms[r].timeline.entry

Pause(d, r, m, v) ==
    /\ "pause" \in Traffic
    /\ Transport(d, r, m, v)
    /\ rooms[r].timeline.state # "paused"
    /\ Change(r, PauseRoom(rooms[r]))

(* An absent host's own device must reconnect first; others keep their     *)
(* permission through the grace.                                           *)
MayStart(r, m) ==
    IF rooms[r].host = m THEN HostPresent(rooms[r]) ELSE ~PlaybackSuspended(rooms[r])

(* verifyEntry and prepare.                                                *)
Playable(s, id) == ~EntryOf(s, id).gone /\ Readable(EntryOf(s, id).track, EntryOf(s, id).media)

Start(d, r, m, id, pos, v) ==
    /\ Scheduled(r) /\ Transport(d, r, m, v) /\ MayStart(r, m)
    /\ Playable(rooms[r], id)
    /\ Change(r, Prepare(rooms[r], id, pos))

(* Mutant: the queue revision is not compared.                             *)
SameQueueAlways(r, v) == r \in Room
SameQueue(r, v) == v.queueRev = rooms[r].queueRev

(* next (step 1) and previous (step -1)                                    *)
Skip(d, r, m, step, v) ==
    LET s == rooms[r]
        i == IndexOf(s, s.timeline.entry) + step
    IN
    /\ "skip" \in Traffic
    /\ Safe(s)
    /\ SameQueue(r, v)
    /\ i \in DOMAIN s.queue
    /\ Start(d, r, m, s.queue[i].id, 0, v)

Select(d, r, m, id, v) ==
    /\ "select" \in Traffic
    /\ Safe(rooms[r])
    /\ SameQueue(r, v)
    /\ id \in EntryIds(rooms[r])
    /\ Start(d, r, m, id, 0, v)

Seek(d, r, m, pos, v) ==
    /\ "seek" \in Traffic
    /\ Safe(rooms[r])
    /\ Start(d, r, m, rooms[r].timeline.entry, pos, v)

Play(d, r, m, v) ==
    LET s == rooms[r] IN
    /\ "play" \in Traffic
    /\ Safe(s)
    /\ s.timeline.state # "playing"
    /\ Start(d, r, m, s.timeline.entry, IF PositionAt(s) >= Duration THEN 0 ELSE PositionAt(s), v)

-----------------------------------------------------------------------------
(* Presence and readiness reports                                          *)

(* The members array alone, without a new revision.                        *)
Quietly(r, s) ==
    /\ rooms' = [rooms EXCEPT ![r].members = s.members]
    /\ UNCHANGED <<slots, invitations, social, world, joins, view>>

(* Mutant: a recovered room keeps playing under the new epoch.             *)
AdoptPlaying(s) == [s EXCEPT !.epoch = epoch]

(* A room that meets a new epoch adopts it and pauses.                     *)
Adopt(s) == IF s.epoch # epoch THEN PauseRoom([s EXCEPT !.epoch = epoch]) ELSE s

(* Mutant: a local pause leaves the readiness in place.                    *)
BeatenStillReady(s, m, muted) ==
    [s EXCEPT !.members[m] = [@ EXCEPT !.idle = 0, !.present = TRUE, !.muted = muted],
              !.absent = IF s.host = m THEN None ELSE @]

Beaten(s, m, muted) ==
    [s EXCEPT !.members[m] = [@ EXCEPT !.idle = 0, !.present = TRUE, !.muted = muted,
                                       !.ready = IF muted THEN 0 ELSE s.members[m].ready],
              !.absent = IF s.host = m THEN None ELSE @]

(* Mutant: a change of the local pause alone is not published.             *)
BeatShowsConnection(s, m, muted) ==
    \/ ~Connected(s.members[m])
    \/ s.epoch # epoch
    \/ s.host = m /\ s.absent # None
    \/ Finishes(Beaten(Adopt(s), m, muted), enabled)

(* What a heartbeat changes of the published state.                        *)
BeatShows(s, m, muted) ==
    \/ ~Connected(s.members[m]) \/ s.members[m].muted # muted
    \/ s.epoch # epoch
    \/ muted /\ s.members[m].ready # 0
    \/ s.host = m /\ s.absent # None
    \/ Finishes(Beaten(Adopt(s), m, muted), enabled)

Heartbeat(d, r, m, gen, muted) ==
    LET s == rooms[r]
        beaten == Beaten(Adopt(s), m, muted)
    IN
    /\ "heartbeat" \in Traffic
    /\ SignedIn(d) /\ Safe(s)
    /\ m \in MembersOf(s) /\ m[1] = AccountOf[d]
    /\ Controls(s, m, d) /\ gen = s.members[m].gen
    /\ IF BeatShows(s, m, muted)
       THEN Change(r, FinishPreparation(beaten, enabled))
       ELSE Quietly(r, beaten)

(* The fences of both kinds of readiness report.                           *)
Reports(d, r, m, v) ==
    /\ SignedIn(d) /\ enabled /\ Safe(rooms[r])
    /\ m \in MembersOf(rooms[r]) /\ m[1] = AccountOf[d]
    /\ Controls(rooms[r], m, d)
    /\ m \in DOMAIN v.gens /\ v.gens[m] = rooms[r].members[m].gen
    /\ rooms[r].epoch = epoch /\ v.epoch = epoch
    /\ v.playGen = rooms[r].playGen /\ v.entry = rooms[r].timeline.entry
    /\ Connected(rooms[r].members[m]) /\ ~rooms[r].members[m].muted
    /\ Playable(rooms[r], rooms[r].timeline.entry)

Reported(s, m, seq, ready) ==
    [s EXCEPT !.members[m] = [@ EXCEPT !.reportGen = s.playGen, !.reportSeq = seq,
                                       !.ready = IF ready THEN s.playGen ELSE 0]]

(* preparationId 'current': a late or resynchronising player.              *)
ReadyCurrent(d, r, m, seq, ready, v) ==
    LET s == rooms[r] IN
    /\ "ready" \in Traffic
    /\ Safe(s) /\ s.prep = None
    /\ s.timeline.state \in {"playing", "paused"} /\ v.state # "preparing"
    /\ Reports(d, r, m, v)
    /\ s.members[m].reportGen = s.playGen => seq > s.members[m].reportSeq
    /\ IF (s.members[m].ready = s.playGen) # ready
       THEN Change(r, Reported(s, m, seq, ready))
       ELSE Quietly(r, Reported(s, m, seq, ready))

(* Mutant: a report of the round is taken whatever came before it.         *)
ReadyPreparedAnyOrder(d, r, m, seq, ready, v) ==
    LET s == rooms[r] IN
    /\ "ready" \in Traffic
    /\ Safe(s) /\ s.prep # None
    /\ v.state = "preparing"
    /\ Reports(d, r, m, v)
    /\ m \in DOMAIN s.prep.cohort /\ s.prep.cohort[m].gen = s.members[m].gen
    /\ Change(r, FinishPreparation(
                     [Reported(s, m, seq, ready) EXCEPT
                         !.prep.cohort[m] = [@ EXCEPT !.seq = seq, !.ready = ready]], enabled))

(* The readiness round of a preparation; v saw that preparation.           *)
ReadyPrepared(d, r, m, seq, ready, v) ==
    LET s == rooms[r] IN
    /\ "ready" \in Traffic
    /\ Safe(s) /\ s.prep # None
    /\ v.state = "preparing"
    /\ Reports(d, r, m, v)
    /\ m \in DOMAIN s.prep.cohort /\ s.prep.cohort[m].gen = s.members[m].gen
    /\ seq > s.prep.cohort[m].seq
    /\ Change(r, FinishPreparation(
                     [Reported(s, m, seq, ready) EXCEPT
                         !.prep.cohort[m] = [@ EXCEPT !.seq = seq, !.ready = ready]], enabled))

(* disconnected(): found through the participation slot.                   *)
Disconnected(d, r) ==
    LET a == AccountOf[d] IN
    /\ "disconnect" \in Traffic
    /\ SignedIn(d)
    /\ slots[a] # None /\ slots[a].room = r
    /\ Safe(rooms[r])
    /\ \E m \in MembersOf(rooms[r]) :
          /\ m[1] = a /\ Controls(rooms[r], m, d) /\ rooms[r].members[m].present
          /\ Change(r, Detached(rooms[r], m))

-----------------------------------------------------------------------------
(* The sweep                                                               *)

(* planSweep, step by step: a new epoch and the rollout flag pause, dead   *)
(* controllers are detached, absence of the host is recorded and in due    *)
(* time suspends, an offer lapses, lost media is marked, and at last a     *)
(* preparation may finish.                                                 *)
SweptFlag(s) == IF ~enabled /\ s.timeline.state # "paused" THEN PauseRoom(s) ELSE s

Lost(member) ==
    /\ member.present
    /\ sessions[SessionOf[member.dev]] # "live" \/ member.idle >= HostGrace

SweptPresence(s) ==
    [s EXCEPT !.members = [m \in DOMAIN @ |->
        IF Lost(@[m]) THEN [@[m] EXCEPT !.present = FALSE, !.ready = 0] ELSE @[m]]]

(* Mutant: every sweep starts the absence anew.                            *)
HostAbsenceRestarted(s) == IF s.absent = None THEN s.members[s.host].idle ELSE 0
HostAbsence(s) == IF s.absent = None THEN s.members[s.host].idle ELSE s.absent

SweptHost(s) ==
    IF HostPresent(s) THEN s
    ELSE LET noticed == [s EXCEPT !.absent = HostAbsence(s)]
         IN  IF HostAbsence(s) >= HostGrace /\ ~s.suspended
             THEN PauseRoom([noticed EXCEPT !.suspended = TRUE])
             ELSE noticed

SweptOffer(s) == IF s.transfer # None /\ s.transfer.left = 0 THEN [s EXCEPT !.transfer = None] ELSE s

LostMedia(s) ==
    {i \in DOMAIN s.queue : ~s.queue[i].gone /\ ~Readable(s.queue[i].track, s.queue[i].media)}

SweptQueue(s) ==
    IF LostMedia(s) = {} THEN s
    ELSE LET marked == [s EXCEPT !.queueRev = @ + 1,
                                 !.queue = [i \in DOMAIN @ |->
                                    IF i \in LostMedia(s) THEN [@[i] EXCEPT !.gone = TRUE] ELSE @[i]]]
         IN  IF IndexOf(s, s.timeline.entry) \in LostMedia(s) THEN PauseRoom(marked) ELSE marked

(* planSweep in the order of the code; the singletons make TLC evaluate    *)
(* each stage once.                                                        *)
Swept(s) ==
    UNION {{SweptQueue(held) : held \in {SweptOffer(SweptHost(seen))}} :
           seen \in {SweptPresence(SweptFlag(Adopt(s)))}}

Closes(s) ==
    \/ s.expired
    \/ s.host \notin MembersOf(s)
    \/ ~HostPresent(SweptPresence(s)) /\ HostAbsence(s) >= HostClose

(* Mutant: the candidate's identity is not compared.                       *)
EndedForAnyone(s, c) ==
    enabled /\ s.timeline.state = "playing" /\ PositionAt(s) >= Duration /\ ~PlaybackSuspended(s)

(* The natural end: the occurrence the timer saw is still the one playing. *)
Ended(s, c) ==
    /\ enabled
    /\ s.epoch = c.epoch /\ s.playGen = c.playGen /\ s.queueRev = c.queueRev
    /\ s.timeline.entry = c.entry
    /\ c.state = "playing" /\ s.timeline.state = "playing"
    /\ PositionAt(s) >= Duration
    /\ ~PlaybackSuspended(s)

(* The next entry is prepared; touchMedia reads the snapshot that has just *)
(* marked the lost ones.                                                   *)
Advance(s) ==
    LET i == IndexOf(s, s.timeline.entry) + 1
    IN  IF i \in DOMAIN s.queue /\ ~s.queue[i].gone
        THEN Prepare(s, s.queue[i].id, 0)
        ELSE [PauseRoom(s) EXCEPT !.timeline.state = "ended"]

Sweep(r, c) ==
    /\ "sweep" \in Traffic
    /\ Open(rooms[r])
    /\ IF Closes(rooms[r])
       THEN /\ Expel({<<r, rooms[r].host>>}, {})
            /\ UNCHANGED <<social, world, joins, view>>
       ELSE \E swept \in Swept(rooms[r]) : \E final \in {FinishPreparation(swept, enabled)} :
               IF Ended(final, c) THEN Change(r, Advance(final))
               ELSE /\ swept # rooms[r] \/ Finishes(swept, enabled)
                    /\ Change(r, final)

-----------------------------------------------------------------------------
(* Changes of the social graph, of accounts and sessions: each commits     *)
(* together with applyRoomSafety.                                          *)

Online(a) == \E d \in Device : AccountOf[d] = a /\ SignedIn(d)

Between(a, b) ==
    {x \in Room \X Account : /\ invitations[x] # None
                             /\ {invitations[x].from, x[2]} = {a, b}}
Involving(a) ==
    {x \in Room \X Account : invitations[x] # None /\ a \in {invitations[x].from, x[2]}}

(* Mutant: only the host's block separates.                                *)
SeparatedHosts(a, b) ==
    {x \in Memberships(b) : rooms[x[1]].host[1] = a /\ HasAccount(rooms[x[1]], a)}

(* The membership a block ends in each shared room: the blocked guest of a *)
(* hosting blocker, the blocker otherwise.                                 *)
Separated(a, b) ==
    {x \in Memberships(b) : rooms[x[1]].host[1] = a /\ HasAccount(rooms[x[1]], a)}
    \cup {x \in Memberships(a) : rooms[x[1]].host[1] # a /\ HasAccount(rooms[x[1]], b)}

Block(a, b) ==
    /\ "social" \in Traffic
    /\ a # b /\ Online(a) /\ <<a, b>> \notin blocks
    /\ blocks' = blocks \cup {<<a, b>>}
    /\ friends' = friends \ {{a, b}}
    /\ Expel(Separated(a, b), Between(a, b))
    /\ UNCHANGED <<active, world, joins, view>>

Unblock(a, b) ==
    /\ "social" \in Traffic
    /\ Online(a) /\ <<a, b>> \in blocks
    /\ blocks' = blocks \ {<<a, b>>}
    /\ friends' = friends \ {{a, b}}
    /\ UNCHANGED <<rooms, slots, invitations, active, world, joins, view>>

(* The acceptance of a request; a pending request reaches no room.         *)
Befriend(a, b) ==
    /\ "social" \in Traffic
    /\ a # b /\ Online(a) /\ {a, b} \subseteq active
    /\ ~Blocked(a, b) /\ ~Friends(a, b)
    /\ friends' = friends \cup {{a, b}}
    /\ UNCHANGED <<rooms, slots, invitations, blocks, active, world, joins, view>>

Unfriend(a, b) ==
    /\ "social" \in Traffic
    /\ Online(a) /\ a \in active /\ Friends(a, b)
    /\ friends' = friends \ {{a, b}}
    /\ Expel({}, Between(a, b))
    /\ UNCHANGED <<blocks, active, world, joins, view>>

(* By the account itself or by a moderator.                                *)
Deactivate(a) ==
    /\ "social" \in Traffic
    /\ a \in active
    /\ active' = active \ {a}
    /\ friends' = {f \in friends : a \notin f}
    /\ Expel(Memberships(a), Involving(a))
    /\ UNCHANGED <<blocks, world, joins, view>>

Reactivate(a) ==
    /\ "social" \in Traffic
    /\ Online(a) /\ a \notin active
    /\ active' = active \cup {a}
    /\ UNCHANGED <<rooms, slots, invitations, friends, blocks, world, joins, view>>

SessionsOf(a) == {SessionOf[d] : d \in {x \in Device : AccountOf[x] = a}}

(* A single session: only the memberships it controls are detached.        *)
Controlled(s, x) == {m \in MembersOf(s) : SessionOf[s.members[m].dev] = x}

DetachedFrom(s, x) ==
    IF Open(s) /\ Controlled(s, x) # {}
    THEN Persist(Detached(s, CHOOSE m \in Controlled(s, x) : TRUE)) ELSE s

RevokeSession(x) ==
    /\ "session" \in Traffic
    /\ sessions[x] = "live"
    /\ sessions' = [sessions EXCEPT ![x] = "revoked"]
    /\ rooms' = [r \in Room |-> DetachedFrom(rooms[r], x)]
    /\ UNCHANGED <<slots, invitations, social, epoch, enabled, media, joins, view>>

(* Every session at once, by the account or by a password reset.           *)
LogoutAll(a) ==
    /\ "session" \in Traffic
    /\ sessions' = [x \in Session |->
                       IF x \in SessionsOf(a) /\ sessions[x] = "live" THEN "revoked" ELSE sessions[x]]
    /\ Expel(Memberships(a), Involving(a))
    /\ UNCHANGED <<social, epoch, enabled, media, joins, view>>

SignIn(x) ==
    /\ "session" \in Traffic
    /\ sessions[x] = "unused"
    /\ sessions' = [sessions EXCEPT ![x] = "live"]
    /\ UNCHANGED <<rooms, slots, invitations, social, epoch, enabled, media, joins, view>>

-----------------------------------------------------------------------------
(* Media, the authority, the rollout flag and time                         *)

Invalidated(s, t) ==
    IF Open(s) /\ (Queued(s, t) \/ \E q \in s.requests : q.track = t) THEN WithoutMedia(s, t) ELSE s

(* A new representation, with invalidateRoomsForMedia in its transaction.  *)
ReplaceMedia(t) ==
    /\ "media" \in Traffic
    /\ media[t].revision < MaxMedia
    /\ media' = [media EXCEPT ![t] = [revision |-> @.revision + 1, ready |-> TRUE]]
    /\ rooms' = [r \in Room |-> Invalidated(rooms[r], t)]
    /\ \A r \in Room : Open(rooms[r]) => Bounded(rooms'[r])
    /\ UNCHANGED <<slots, invitations, social, epoch, enabled, sessions, joins, view>>

(* A track is withdrawn or shown again where only the sweep will look.     *)
WithdrawMedia(t) ==
    /\ "media" \in Traffic
    /\ media' = [media EXCEPT ![t].ready = ~@]
    /\ UNCHANGED <<rooms, slots, invitations, social, epoch, enabled, sessions, joins, view>>

NewEpoch ==
    /\ "epoch" \in Traffic
    /\ epoch < MaxEpoch
    /\ epoch' = epoch + 1
    /\ UNCHANGED <<rooms, slots, invitations, social, enabled, sessions, media, joins, view>>

SetEnabled ==
    /\ "flag" \in Traffic
    /\ enabled' = ~enabled
    /\ UNCHANGED <<rooms, slots, invitations, social, epoch, sessions, media, joins, view>>

Tick ==
    /\ "time" \in Traffic
    /\ rooms' = [r \in Room |-> IF Open(rooms[r]) THEN Aged(rooms[r]) ELSE rooms[r]]
    /\ UNCHANGED <<slots, invitations, social, world, joins, view>>

-----------------------------------------------------------------------------
Init ==
    /\ epoch = 1 /\ enabled = TRUE
    /\ rooms = [r \in Room |-> None]
    /\ slots = [a \in Account |-> None]
    /\ invitations = [x \in Room \X Account |-> None]
    /\ friends \in SUBSET {{a, b} : a, b \in Account}
    /\ \A f \in friends : Cardinality(f) = 2
    /\ blocks = {} /\ active = Account
    /\ sessions \in [Session -> {"live", "unused"}]
    /\ media = [t \in Track |-> [revision |-> 1, ready |-> TRUE]]
    /\ joins = [a \in Account |-> 0]
    /\ view = None

Admission(d, r) == Create(d, r) \/ Accept(d, r) \/ Decline(d, r)

Membership(d, r, m) ==
    \/ Leave(d, r, m)
    \/ End(d, r, m)
    \/ \E target \in Member : Kick(d, r, m, target)
    \/ \E b \in Account : Invite(d, r, m, b)

Control(d, r, m) ==
    \/ TakeControl(d, r, m)
    \/ CancelTransfer(d, r, m)
    \/ AcceptTransfer(d, r, m)
    \/ \E v \in Carried(r) : \/ SetControlMode(d, r, m, v)
                             \/ \E target \in Member : OfferTransfer(d, r, m, target, v)

QueueCommand(d, r, m) ==
    \/ \E q \in rooms[r].requests : DismissSongRequest(d, r, m, q)
    \/ \E v \in Carried(r) :
          \/ \E t \in Track : RequestSong(d, r, m, t, v)
          \/ \E q \in rooms[r].requests : AcceptSongRequest(d, r, m, q, v)
          \/ \E id \in EntryId : RemoveQueueEntry(d, r, m, id, v)
          \/ \E order \in Orders(rooms[r]) : ReorderQueue(d, r, m, order, v)

TransportCommand(d, r, m) ==
    \E v \in Carried(r) :
        \/ Pause(d, r, m, v)
        \/ Play(d, r, m, v)
        \/ \E step \in {-1, 1} : Skip(d, r, m, step, v)
        \/ \E id \in EntryId : Select(d, r, m, id, v)
        \/ \E pos \in Position : Seek(d, r, m, pos, v)

Report(d, r, m) ==
    \/ \E gen \in Version, muted \in BOOLEAN : Heartbeat(d, r, m, gen, muted)
    \/ \E v \in Carried(r), seq \in 1..MaxSequence, ready \in BOOLEAN :
          ReadyCurrent(d, r, m, seq, ready, v) \/ ReadyPrepared(d, r, m, seq, ready, v)

(* The memberships a device speaks for.                                    *)
Own(d, s) == {m \in MembersOf(s) : m[1] = AccountOf[d]}

DeviceStep(d, r) ==
    \/ Admission(d, r)
    \/ Disconnected(d, r)
    \/ /\ Open(rooms[r])
       /\ \E m \in Own(d, rooms[r]) :
             \/ Membership(d, r, m)
             \/ Control(d, r, m)
             \/ QueueCommand(d, r, m)
             \/ TransportCommand(d, r, m)
             \/ Report(d, r, m)

RoomStep(r) ==
    \/ Observe(r)
    \/ ExpireRoom(r)
    \/ \E a \in Account : ExpireInvitation(r, a)
    \/ Open(rooms[r]) /\ \E c \in Carried(r) : Sweep(r, c)

AccountStep(a) ==
    \/ Deactivate(a)
    \/ Reactivate(a)
    \/ LogoutAll(a)
    \/ \E b \in Account : Block(a, b) \/ Unblock(a, b) \/ Befriend(a, b) \/ Unfriend(a, b)

WorldStep ==
    \/ Tick
    \/ NewEpoch
    \/ SetEnabled
    \/ \E x \in Session : RevokeSession(x) \/ SignIn(x)
    \/ \E t \in Track : ReplaceMedia(t) \/ WithdrawMedia(t)

Next ==
    \/ \E d \in Device, r \in Room : DeviceStep(d, r)
    \/ \E r \in Room : RoomStep(r)
    \/ \E a \in Account : AccountStep(a)
    \/ WorldStep

Spec == Init /\ [][Next]_vars
=============================================================================
