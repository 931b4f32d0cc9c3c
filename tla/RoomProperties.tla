--------------------------- MODULE RoomProperties ---------------------------
(***************************************************************************)
(* What the room service promises: invariants, action properties and       *)
(* liveness of the transactions in Rooms.                                  *)
(***************************************************************************)
EXTENDS Rooms

OpenRooms == {r \in Room : Open(rooms[r])}

-----------------------------------------------------------------------------
(* Types                                                                   *)

MemberRecord ==
    [dev : Device, gen : Version, idle : Age, present : BOOLEAN, muted : BOOLEAN,
     ready : {0} \cup Version, reportGen : {0} \cup Version, reportSeq : 0..MaxSequence]

EntryRecord ==
    [id : EntryId, track : Track, media : 1..MaxMedia, gone : BOOLEAN, by : Member \cup {None}]

RequestRecord == [by : Member, track : Track, media : 1..MaxMedia]

TimelineRecord ==
    [entry : EntryId, state : {"paused", "preparing", "playing", "ended"}, pos : Position,
     elapsed : (-StartLead)..Duration]

OfferRecord ==
    [host : Member, control : Version, target : Member, gen : Version, left : 0..TransferTicks]

RoomOK(s) ==
    /\ s.epoch \in 1..MaxEpoch
    /\ s.host \in MembersOf(s)
    /\ {s.everyone, s.suspended, s.expired} \subseteq BOOLEAN
    /\ {s.controlGen, s.queueRev, s.playGen} \subseteq Version
    /\ s.rev \in {0, 1}
    /\ MembersOf(s) \subseteq Member
    /\ \A m \in MembersOf(s) : s.members[m] \in MemberRecord
    /\ \A i \in DOMAIN s.queue : s.queue[i] \in EntryRecord
    /\ Len(s.queue) \in 1..MaxQueue
    /\ s.entries \in EntryId
    /\ s.requests \subseteq RequestRecord /\ Cardinality(s.requests) <= MaxSongRequests
    /\ s.timeline \in TimelineRecord
    /\ s.transfer \in OfferRecord \cup {None}
    /\ s.absent \in Age \cup {None}
    /\ s.prep # None => /\ s.prep.gen \in Version /\ s.prep.left \in 0..PrepTicks
                        /\ \A m \in DOMAIN s.prep.cohort :
                              s.prep.cohort[m] \in [gen : Version, seq : 0..MaxSequence, ready : BOOLEAN]

(* Every document keeps its shape; in particular the queue never passes    *)
(* its limit, and the host of an open room is one of its members.          *)
RoomsTypeOK ==
    /\ epoch \in 1..MaxEpoch /\ enabled \in BOOLEAN
    /\ \A r \in Room : Open(rooms[r]) => RoomOK(rooms[r])
    /\ slots \in [Account -> [room : Room, member : Member] \cup {None}]
    /\ invitations \in [Room \X Account -> [from : Account, lapsed : BOOLEAN] \cup {None}]
    /\ active \subseteq Account /\ blocks \subseteq Account \X Account
    /\ sessions \in [Session -> {"unused", "live", "revoked"}]
    /\ media \in [Track -> [revision : 1..MaxMedia, ready : BOOLEAN]]
    /\ joins \in [Account -> 0..MaxJoins]

-----------------------------------------------------------------------------
(* Membership                                                              *)

(* The participation row and the rooms agree: a slot names a current       *)
(* membership of an open room, and the member of a room that has not       *)
(* expired holds its account's slot, so that nobody is in two such rooms   *)
(* and nobody is locked out by a row of a room that is gone.               *)
SlotsAgree ==
    /\ \A a \in Account : slots[a] # None =>
          /\ Open(rooms[slots[a].room])
          /\ slots[a].member \in MembersOf(rooms[slots[a].room]) /\ slots[a].member[1] = a
    /\ \A r \in Room : Safe(rooms[r]) =>
          \A m \in MembersOf(rooms[r]) : slots[m[1]] = [room |-> r, member |-> m]

(* Nobody shares a room with an account that blocks them or is blocked by  *)
(* them, and a deactivated account is in no room: whatever the order of    *)
(* admissions, expiry, transfers and social changes.                       *)
NoBlockInside ==
    \A r \in OpenRooms :
        /\ \A m, n \in MembersOf(rooms[r]) : ~Blocked(m[1], n[1])
        /\ \A m \in MembersOf(rooms[r]) : m[1] \in active

(* A pending invitation is the current host's, to a friend outside the     *)
(* room: transfer, block, unfriending, deactivation and closing withdraw   *)
(* it in their own transaction.                                            *)
InvitationsAreCurrent ==
    \A r \in Room, a \in Account : invitations[<<r, a>>] # None =>
        /\ Open(rooms[r])
        /\ invitations[<<r, a>>].from = rooms[r].host[1]
        /\ Friends(a, invitations[<<r, a>>].from)
        /\ Safe(rooms[r]) => ~HasAccount(rooms[r], a)

(* An outstanding offer still speaks of the host, the control generation   *)
(* and the target's controller it was made for, so that acceptance cannot  *)
(* meet a stale one; and a revoked session controls no attached device.    *)
OffersAreCurrent ==
    \A r \in OpenRooms :
        LET s == rooms[r] IN
        /\ s.transfer # None =>
              /\ s.transfer.host = s.host /\ s.transfer.control = s.controlGen
              /\ s.transfer.target \in MembersOf(s) \ {s.host}
              /\ s.transfer.gen = s.members[s.transfer.target].gen
        /\ \A m \in MembersOf(s) : s.members[m].present => SignedIn(s.members[m].dev)

(* What a block, the end of a friendship, of a profile, of a session or of *)
(* a host's time leaves behind in rooms: nobody who must be apart, no      *)
(* invitation and no offer that speaks of what is no longer so.            *)
RoomsAreSafe == NoBlockInside /\ InvitationsAreCurrent /\ OffersAreCurrent

(* A room changes its host only to a connected target of an offer that a   *)
(* connected host made, and the old host leaves in the same step.          *)
HostConsented ==
    \A r \in Room :
       Open(rooms[r]) /\ Open(rooms'[r]) /\ rooms'[r].host # rooms[r].host =>
           /\ rooms[r].transfer # None /\ rooms[r].transfer.left > 0
           /\ rooms[r].transfer.target = rooms'[r].host
           /\ Connected(rooms[r].members[rooms'[r].host]) /\ HostPresent(rooms[r])
           /\ rooms[r].host \notin MembersOf(rooms'[r])
           /\ slots'[rooms[r].host[1]] = None
HostOnlyByConsent == [][HostConsented]_vars

-----------------------------------------------------------------------------
(* Playback                                                                *)

(* The preparation, the timeline and the queue tell one story: a           *)
(* preparation exists exactly while preparing, for this generation and     *)
(* entry, its cohort are current controllers; the current entry is queued; *)
(* a suspended room is silent.                                             *)
OneStory ==
    \A r \in OpenRooms :
        LET s == rooms[r] IN
        /\ s.timeline.entry \in EntryIds(s)
        /\ \A i, j \in DOMAIN s.queue : s.queue[i].id = s.queue[j].id => i = j
        /\ s.prep # None <=> s.timeline.state = "preparing"
        /\ s.prep # None =>
              /\ s.prep.gen = s.playGen /\ s.prep.entry = s.timeline.entry
              /\ DOMAIN s.prep.cohort \subseteq MembersOf(s)
              /\ \A m \in DOMAIN s.prep.cohort : s.prep.cohort[m].gen = s.members[m].gen
        /\ s.suspended => ~Playing(s)

(* "Ready" is what the device said last, and it said so while attached and *)
(* not locally paused: disconnect, takeover, local pause and revocation    *)
(* all withdraw it.                                                        *)
ReadyIsAttached ==
    \A r \in OpenRooms : \A m \in MembersOf(rooms[r]) :
        LET me == rooms[r].members[m] IN
        me.ready # 0 => me.present /\ ~me.muted /\ me.ready = me.reportGen

(* What a snapshot tells of playback and of who is ready for it is so.     *)
PlaybackAgrees == OneStory /\ ReadyIsAttached

(* A version is a name: as long as a version of a held snapshot is still   *)
(* the room's, what it stands for is what the holder saw.                  *)
VersionsAreNames ==
    view # None /\ Open(rooms[view.room]) =>
        LET s == rooms[view.room]
            v == view.what
        IN  /\ v.queueRev = s.queueRev => v.order = QueueOrder(s)
            /\ v.playGen = s.playGen =>
                  /\ v.entry = s.timeline.entry
                  /\ v.state = s.timeline.state \/ v.state = "preparing"
            /\ v.controlGen = s.controlGen => v.host = s.host /\ v.everyone = s.everyone
            /\ \A m \in DOMAIN v.gens \cap MembersOf(s) :
                  v.gens[m] = s.members[m].gen => v.devs[m] = s.members[m].dev

(* What a step may do to the playback of an open room.                     *)
Starts(r) ==
    /\ Open(rooms[r]) /\ Open(rooms'[r])
    /\ Playing(rooms'[r])
    /\ rooms'[r].timeline.state # rooms[r].timeline.state \/ rooms'[r].playGen # rooms[r].playGen

(* The host has been away for the whole grace.                             *)
HostGone(s) == ~HostPresent(s) /\ HostAbsence(s) >= HostGrace

(* A start, the end of a preparation or a natural advance happens under    *)
(* the current authority, with the flag on, and while the absence of the   *)
(* host does not hold playback, however late the sweep is.                 *)
StartSupervised ==
    \A r \in Room : Starts(r) =>
       /\ rooms'[r].epoch = epoch /\ enabled
       /\ HostPresent(rooms'[r]) \/ ~(rooms[r].suspended \/ HostGone(rooms[r]))

(* A room recovered under a new epoch is silent, under a new generation.   *)
RecoveryPauses ==
    \A r \in Room :
       Open(rooms[r]) /\ Open(rooms'[r]) /\ rooms'[r].epoch # rooms[r].epoch =>
           ~Playing(rooms'[r]) /\ rooms'[r].playGen > rooms[r].playGen

(* Nothing is heard but what somebody started under the present authority: *)
(* every start is supervised, and a room recovered from another one stays  *)
(* silent until it is started again.                                       *)
StartsAreSupervised == [][StartSupervised /\ RecoveryPauses]_vars

(* Whatever a snapshot shows, except what follows from time alone, changes *)
(* only together with the revision: a client that holds the latest         *)
(* revision holds the latest state.  Whether a track can be read now is    *)
(* looked up in the catalogue for each snapshot, and not part of the room. *)
Shown(s) ==
    [s EXCEPT !.rev = 0, !.expired = FALSE, !.entries = 0,
              !.members = [m \in DOMAIN @ |->
                  [dev |-> @[m].dev, gen |-> @[m].gen, connected |-> Connected(@[m]),
                   muted |-> @[m].muted, ready |-> @[m].ready = s.playGen]],
              !.prep = IF @ = None THEN None ELSE [gen |-> @.gen, cohort |-> DOMAIN @.cohort]]

ShownChangeRevised ==
    \A r \in Room :
       /\ Open(rooms[r]) /\ Open(rooms'[r])
       /\ rooms'[r].rev = rooms[r].rev
       => rooms'[r] = Aged(rooms[r]) \/ Shown(rooms'[r]) = Shown(rooms[r])
ShownChangesAreRevised == [][ShownChangeRevised]_vars

(* Next and Previous land beside the entry of the snapshot the command     *)
(* carries, in the queue that snapshot shows, also when they are late.     *)
SkipMeansWhatWasSeen ==
    \A r \in Room : Open(rooms[r]) /\ rooms'[r] # rooms[r] =>
       \A d \in Device, step \in {-1, 1}, m \in MembersOf(rooms[r]), v \in Carried(r) :
           Skip(d, r, m, step, v) =>
               \E i, j \in DOMAIN v.order :
                   /\ v.order[i] = v.entry /\ j = i + step
                   /\ rooms'[r].timeline.entry = v.order[j]
SkipsMeanWhatWasSeen == [][SkipMeansWhatWasSeen]_vars

(* A natural advance happens only from the occurrence the timer saw, after *)
(* all of it was played.                                                   *)
AdvanceDue ==
    \A r \in Room : Open(rooms[r]) => \A c \in Carried(r) :
       /\ Sweep(r, c) /\ Open(rooms'[r])
       /\ rooms'[r].timeline.entry # rooms[r].timeline.entry
       => /\ c.playGen = rooms[r].playGen /\ c.queueRev = rooms[r].queueRev
          /\ rooms[r].timeline.state = "playing" /\ PositionAt(rooms[r]) = Duration
AdvancesAreDue == [][AdvanceDue]_vars

(* Readiness follows the reports of a device in the order it made them:    *)
(* for one occurrence and one controller no report takes effect after a    *)
(* later one, whether it came in the round of the preparation or after it, *)
(* and without a newer report no device becomes ready, nor unready while   *)
(* it stays attached and unpaused.                                         *)
LatestReportStands ==
    \A r \in Room :
       /\ Open(rooms[r]) /\ Open(rooms'[r])
       /\ rooms'[r].playGen = rooms[r].playGen
       => LET gen == rooms[r].playGen IN
          \A m \in MembersOf(rooms[r]) \cap MembersOf(rooms'[r]) :
             LET old == rooms[r].members[m]
                 new == rooms'[r].members[m]
                 newer == new.reportGen = gen /\ (old.reportGen = gen => new.reportSeq > old.reportSeq)
             IN  new.gen = old.gen =>
                    /\ newer \/ (new.reportGen = old.reportGen /\ new.reportSeq = old.reportSeq)
                    /\ new.ready = gen /\ old.ready # gen => newer
                    /\ new.ready # gen /\ old.ready = gen => newer \/ ~new.present \/ new.muted
LatestReportsStand == [][LatestReportStands]_vars

(* Playback starts at the end of a preparation only if somebody is ready   *)
(* for it at that moment.                                                  *)
SomebodyReady ==
    \A r \in Room :
       /\ Open(rooms[r]) /\ Open(rooms'[r])
       /\ rooms[r].timeline.state = "preparing" /\ rooms'[r].timeline.state = "playing"
       => \E m \in MembersOf(rooms'[r]) : rooms'[r].members[m].ready = rooms'[r].playGen
StartsWithSomebodyReady == [][SomebodyReady]_vars

-----------------------------------------------------------------------------
(* Liveness: time passes and the sweep keeps running with fresh candidates *)

SweepNow(r) == Open(rooms[r]) /\ Sweep(r, Snapshot(rooms[r]))

Sweeping == WF_vars(Tick) /\ \A r \in Room : WF_vars(SweepNow(r))

FairRooms == Spec /\ Sweeping

(* A room whose versions are exhausted refuses every further transition.   *)
Stuck(r) == Open(rooms[r]) /\ rooms[r].playGen = MaxVersion

Occurs(r, g) == Open(rooms[r]) /\ rooms[r].playGen = g /\ Playing(rooms[r])

(* Every occurrence ends: a preparation finishes by its deadline, a track  *)
(* that plays ends and is followed, paused or replaced.                    *)
OccurrencesEnd ==
    \A r \in Room, g \in Version :
        Occurs(r, g) ~> ~Occurs(r, g) \/ Stuck(r)

(* A room whose host stays away without taking control from another device *)
(* is closed in the end.                                                   *)
AbandonedRoomsClose ==
    \A r \in Room, g \in Version :
        <>[](Open(rooms[r]) => /\ ~HostPresent(rooms[r])
                               /\ rooms[r].members[rooms[r].host].gen = g)
            => <>[](~Open(rooms[r]) \/ Stuck(r))
=============================================================================
