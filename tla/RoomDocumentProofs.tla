------------------------- MODULE RoomDocumentProofs --------------------------
(***************************************************************************)
(* The room document, function by function.  Document says that a stored   *)
(* document has its shape and that its timeline, preparation, queue and    *)
(* members tell one story; Named, that every version of a document is a    *)
(* name: while it stays, what it stands for stays.  Most functions of the  *)
(* service lull a room: they keep both and start nothing.  Only Prepare    *)
(* and FinishPreparation start playback.                                   *)
(*                                                                         *)
(* Nothing here mentions a transaction; RoomPlaybackProofs puts these      *)
(* facts together along the actions of Rooms.                              *)
(***************************************************************************)
EXTENDS RoomsProofs, FiniteSetTheorems, SequenceTheorems

PrepFields == {"gen", "entry", "left", "cohort"}

(* null is no preparation either.                                          *)
PrepAssumption == DOMAIN None # PrepFields

(* Records as the functions build them: a version is positive, and only    *)
(* the write of the whole document checks that it has not run out.         *)
MemberShape ==
    [dev : Device, gen : Nat \ {0}, idle : Age, present : BOOLEAN, muted : BOOLEAN,
     ready : {0} \cup Version, reportGen : {0} \cup Version, reportSeq : 0..MaxSequence]
CohortShape == [gen : Nat \ {0}, seq : 0..MaxSequence, ready : BOOLEAN]

(* The parts of a document.  Prepared is the one that a function may break *)
(* for a moment: a pause restores it.                                      *)
Scalars(s) ==
    /\ DOMAIN s = RoomFields
    /\ s.epoch \in 1..MaxEpoch
    /\ s.everyone \in BOOLEAN /\ s.suspended \in BOOLEAN /\ s.expired \in BOOLEAN
    /\ s.controlGen \in Nat \ {0} /\ s.queueRev \in Nat \ {0} /\ s.playGen \in Nat \ {0}
    /\ s.rev \in {0, 1}
    /\ s.absent \in Age \cup {None}
Peopled(s) ==
    /\ s.members \in [MembersOf(s) -> MemberShape] /\ MembersOf(s) \subseteq Member
    /\ s.host \in MembersOf(s)
    /\ s.transfer \in OfferRecord \cup {None}
Listed(s) ==
    /\ s.queue \in Seq(EntryRecord) /\ Len(s.queue) \in 1..MaxQueue
    /\ s.entries \in EntryId
    /\ \A i \in DOMAIN s.queue : s.queue[i].id <= s.entries
    /\ \A i, j \in DOMAIN s.queue : s.queue[i].id = s.queue[j].id => i = j
    /\ s.timeline \in TimelineRecord
    /\ s.timeline.entry \in EntryIds(s)
Asked(s) ==
    /\ s.requests \subseteq RequestRecord
    /\ IsFiniteSet(s.requests) /\ Cardinality(s.requests) <= MaxSongRequests
Prepared(s) ==
    /\ s.prep # None <=> s.timeline.state = "preparing"
    /\ s.prep # None =>
          /\ DOMAIN s.prep = PrepFields
          /\ s.prep.gen = s.playGen /\ s.prep.entry = s.timeline.entry
          /\ s.prep.left \in 0..PrepTicks
          /\ s.prep.cohort \in [DOMAIN s.prep.cohort -> CohortShape]
          /\ DOMAIN s.prep.cohort \subseteq MembersOf(s)
          /\ \A m \in DOMAIN s.prep.cohort : s.prep.cohort[m].gen = s.members[m].gen
    /\ s.suspended => ~Playing(s)
Body(s) == Scalars(s) /\ Peopled(s) /\ Listed(s) /\ Asked(s)
Document(s) == Body(s) /\ Prepared(s)
Story(s) == Document(s) /\ Bounded(s)

-----------------------------------------------------------------------------
(* From s to t nobody joins, no version goes back, and a version that      *)
(* stays stands for what it stood for: the queue revision for the order,   *)
(* the playback generation for the entry and, once prepared, the state,    *)
(* the control generation for host and mode, and a member's for its        *)
(* device.                                                                 *)
Named(s, t) ==
    /\ MembersOf(t) \subseteq MembersOf(s)
    /\ s.queueRev <= t.queueRev /\ (t.queueRev = s.queueRev => QueueOrder(t) = QueueOrder(s))
    /\ s.playGen <= t.playGen
    /\ t.playGen = s.playGen =>
          /\ t.timeline.entry = s.timeline.entry
          /\ t.timeline.state = s.timeline.state \/ s.timeline.state = "preparing"
    /\ s.controlGen <= t.controlGen
    /\ t.controlGen = s.controlGen => t.host = s.host /\ t.everyone = s.everyone
    /\ \A m \in MembersOf(t) :
          /\ s.members[m].gen <= t.members[m].gen
          /\ t.members[m].gen = s.members[m].gen => t.members[m].dev = s.members[m].dev

(* Nothing starts from s to t; a new epoch leaves the room silent, under a *)
(* new generation.                                                         *)
Calm(s, t) == Playing(t) => t.timeline.state = s.timeline.state /\ t.playGen = s.playGen
Recovered(s, t) == t.epoch # s.epoch => ~Playing(t) /\ s.playGen < t.playGen
Lulled(s, t) == Document(t) /\ Named(s, t) /\ Calm(s, t) /\ Recovered(s, t)

LEMMA BodyVersions ==
    ASSUME NEW s, Body(s)
    PROVE  /\ s.playGen \in Nat \ {0} /\ s.queueRev \in Nat \ {0} /\ s.controlGen \in Nat \ {0}
           /\ \A m \in MembersOf(s) : s.members[m].gen \in Nat \ {0}
BY DEF Body, Scalars, Peopled, MemberShape

LEMMA DocumentVersions ==
    ASSUME NEW s, Document(s)
    PROVE  /\ s.playGen \in Nat \ {0} /\ s.queueRev \in Nat \ {0} /\ s.controlGen \in Nat \ {0}
           /\ \A m \in MembersOf(s) : s.members[m].gen \in Nat \ {0}
BY BodyVersions DEF Document

(* Both relations allow to change nothing and to change twice.             *)
LEMMA NamedSame == ASSUME NEW s, Body(s) PROVE Named(s, s)
BY BodyVersions DEF Named

LEMMA LulledSame == ASSUME NEW s, Document(s) PROVE Lulled(s, s)
BY NamedSame DEF Document, Lulled, Calm, Recovered

LEMMA NamedTwice ==
    ASSUME NEW s, NEW t, NEW u, Body(s), Body(t), Body(u), Named(s, t), Named(t, u)
    PROVE  Named(s, u)
<1>1. \A m \in MembersOf(u) : m \in MembersOf(t) /\ m \in MembersOf(s)
  BY DEF Named
<1>2. /\ MembersOf(u) \subseteq MembersOf(s)
      /\ s.queueRev <= u.queueRev /\ (u.queueRev = s.queueRev => QueueOrder(u) = QueueOrder(s))
  BY BodyVersions DEF Named
<1>3. /\ s.playGen <= u.playGen
      /\ u.playGen = s.playGen =>
          /\ u.timeline.entry = s.timeline.entry
          /\ u.timeline.state = s.timeline.state \/ s.timeline.state = "preparing"
  BY BodyVersions DEF Named
<1>4. s.controlGen <= u.controlGen /\ (u.controlGen = s.controlGen => u.host = s.host /\ u.everyone = s.everyone)
  BY BodyVersions DEF Named
<1>5. ASSUME NEW m \in MembersOf(u)
      PROVE  /\ s.members[m].gen <= u.members[m].gen
             /\ u.members[m].gen = s.members[m].gen => u.members[m].dev = s.members[m].dev
  BY <1>1, BodyVersions DEF Named
<1> QED
  BY <1>2, <1>3, <1>4, <1>5 DEF Named

LEMMA LulledTwice ==
    ASSUME NEW s, NEW t, NEW u, Document(s), Lulled(s, t), Lulled(t, u)
    PROVE  Lulled(s, u)
<1>1. Named(s, u)
  BY NamedTwice DEF Lulled, Document
<1>2. Calm(s, u)
  BY DEF Lulled, Calm, Playing
<1>3. Recovered(s, u)
  <2>1. s.playGen <= t.playGen /\ t.playGen <= u.playGen
    BY DEF Lulled, Named
  <2> QED
    BY <2>1, DocumentVersions DEF Lulled, Document, Recovered, Calm, Playing
<1> QED
  BY <1>1, <1>2, <1>3 DEF Lulled

LEMMA PersistLulled == ASSUME NEW s, Document(s) PROVE Lulled(s, Persist(s))
<1> DEFINE t == Persist(s)
<1>1. t = [s EXCEPT !.rev = 1 - s.rev]
  BY DEF Persist
<1>2. /\ DOMAIN t = RoomFields /\ t.rev \in {0, 1}
      /\ \A f \in RoomFields \ {"rev"} : t[f] = s[f]
  BY <1>1 DEF Document, Body, Scalars, RoomFields
<1> HIDE DEF t
<1>3. Document(t)
  BY <1>2 DEF Document, Body, Scalars, Peopled, Listed, Asked, Prepared, MembersOf, EntryIds, Playing, RoomFields
<1>4. Named(s, t) /\ Calm(s, t) /\ Recovered(s, t)
  BY <1>2, DocumentVersions DEF Named, Calm, Recovered, MembersOf, QueueOrder, RoomFields
<1> QED
  BY <1>3, <1>4 DEF Lulled, t

(* A position lies within the track, however long it has been playing.     *)
LEMMA PositionType ==
    ASSUME RoomsAssumption, NEW s, s.timeline \in TimelineRecord
    PROVE  PositionAt(s) \in Position
<1>1. Duration \in Nat /\ StartLead \in Nat
  BY DEF RoomsAssumption, TimingAssumption
<1>2. s.timeline.pos \in 0..Duration /\ s.timeline.elapsed \in (-StartLead)..Duration
  BY DEF TimelineRecord, Position
<1> QED
  BY <1>1, <1>2 DEF PositionAt, Position, Least, Most

(* Every other field is as it was.                                         *)
Alike(s, t, changed) == DOMAIN t = RoomFields /\ \A f \in RoomFields \ changed : t[f] = s[f]

(* A document without its preparation becomes one by a pause.              *)
LEMMA PauseFacts ==
    ASSUME RoomsAssumption, NEW s, Body(s), NEW t, t = PauseRoom(s)
    PROVE  /\ Alike(s, t, {"timeline", "prep", "playGen"})
           /\ t.timeline \in TimelineRecord /\ t.timeline.state = "paused"
           /\ t.timeline.entry = s.timeline.entry
           /\ t.prep = None /\ t.playGen = s.playGen + 1
<1>1. /\ Alike(s, t, {"timeline", "prep", "playGen"})
      /\ t.timeline = [s.timeline EXCEPT !.state = "paused", !.pos = PositionAt(s), !.elapsed = 0]
      /\ t.prep = None /\ t.playGen = s.playGen + 1
  BY DEF PauseRoom, Body, Scalars, RoomFields, Alike
<1>2. s.timeline \in TimelineRecord /\ PositionAt(s) \in Position /\ 0 \in (-StartLead)..Duration
  BY PositionType DEF RoomsAssumption, TimingAssumption, Body, Listed
<1> DEFINE old == s.timeline
           pos == PositionAt(s)
           new == t.timeline
<1>3. new = [old EXCEPT !.state = "paused", !.pos = pos, !.elapsed = 0]
  BY <1>1
<1>4. old \in TimelineRecord /\ pos \in Position
  BY <1>2
<1> HIDE DEF old, pos, new
<1>5. new \in TimelineRecord /\ new.state = "paused" /\ new.entry = old.entry
  BY <1>2, <1>3, <1>4 DEF TimelineRecord
<1> QED
  BY <1>1, <1>5 DEF new, old

LEMMA PausedBody ==
    ASSUME RoomsAssumption, NEW s, Body(s), NEW t, t = PauseRoom(s)
    PROVE  /\ Document(t) /\ Named(s, t) /\ ~Playing(t)
           /\ t.epoch = s.epoch /\ t.playGen = s.playGen + 1
<1>1. /\ Alike(s, t, {"timeline", "prep", "playGen"})
      /\ t.timeline \in TimelineRecord /\ t.timeline.state = "paused"
      /\ t.timeline.entry = s.timeline.entry
      /\ t.prep = None /\ t.playGen = s.playGen + 1
  BY PauseFacts
<1>2. Scalars(t)
  BY <1>1 DEF Alike, Body, Scalars, RoomFields
<1>3. Peopled(t) /\ Asked(t)
  BY <1>1 DEF Alike, Body, Peopled, Asked, MembersOf, RoomFields
<1>4. Listed(t)
  BY <1>1 DEF Alike, Body, Listed, EntryIds, RoomFields
<1>5. Prepared(t) /\ ~Playing(t)
  BY <1>1 DEF Prepared, Playing
<1>6. Named(s, t) /\ t.epoch = s.epoch
  BY <1>1, BodyVersions DEF Alike, Named, MembersOf, QueueOrder, RoomFields
<1> QED
  BY <1>1, <1>2, <1>3, <1>4, <1>5, <1>6 DEF Document, Body

LEMMA PauseLulled == ASSUME RoomsAssumption, NEW s, Document(s) PROVE Lulled(s, PauseRoom(s))
<1> DEFINE t == PauseRoom(s)
<1> HIDE DEF t
<1>1. Document(t) /\ Named(s, t) /\ ~Playing(t) /\ t.epoch = s.epoch
  BY PausedBody DEF t, Document
<1> QED
  BY <1>1 DEF Lulled, Calm, Recovered, t

LEMMA AdoptLulled ==
    ASSUME RoomsAssumption, NEW s, Document(s), epoch \in 1..MaxEpoch
    PROVE  Lulled(s, Adopt(s)) /\ Adopt(s).epoch = epoch
<1>1. CASE s.epoch = epoch
  BY <1>1, LulledSame DEF Adopt
<1>2. CASE s.epoch # epoch
  <2> DEFINE t == [s EXCEPT !.epoch = epoch]
             u == PauseRoom(t)
  <2>1. Alike(s, t, {"epoch"}) /\ t.epoch = epoch
    BY DEF Document, Body, Scalars, RoomFields, Alike
  <2> HIDE DEF t
  <2>2. Document(t)
    BY <2>1 DEF Alike, Document, Body, Scalars, Peopled, Listed, Asked, Prepared, MembersOf, EntryIds, Playing, RoomFields
  <2>3. Named(s, t) /\ Calm(s, t)
    BY <2>1, DocumentVersions DEF Alike, Named, Calm, MembersOf, QueueOrder, RoomFields
  <2>4. Lulled(t, u)
    BY <2>2, PauseLulled
  <2>5. u.playGen = t.playGen + 1 /\ u.epoch = epoch /\ ~Playing(u)
    BY <2>1, <2>2 DEF PauseRoom, Document, Body, Scalars, RoomFields, Playing, Listed, TimelineRecord
  <2> HIDE DEF u
  <2>6. Named(s, u) /\ Calm(s, u)
    BY <2>2, <2>3, <2>4, <2>5, NamedTwice DEF Lulled, Document, Calm
  <2>7. Recovered(s, u)
    BY <2>1, <2>2, <2>3, <2>5, DocumentVersions DEF Recovered, Named
  <2>8. Adopt(s) = u
    BY <1>2 DEF Adopt, t, u
  <2> QED
    BY <2>4, <2>5, <2>6, <2>7, <2>8 DEF Lulled
<1> QED
  BY <1>1, <1>2
-----------------------------------------------------------------------------
(* Presence: every member keeps its controller.                            *)
LEMMA MembersEdited ==
    ASSUME NEW s, Document(s), NEW t, Alike(s, t, {"members", "absent"}),
           t.absent \in Age \cup {None}, t.members \in [MembersOf(s) -> MemberShape],
           \A m \in MembersOf(s) : /\ t.members[m].dev = s.members[m].dev
                                   /\ t.members[m].gen = s.members[m].gen
    PROVE  Lulled(s, t)
<1>1. MembersOf(t) = MembersOf(s)
  BY DEF MembersOf
<1>2. Scalars(t) /\ Peopled(t)
  BY <1>1 DEF Alike, Document, Body, Scalars, Peopled, RoomFields
<1>3. Listed(t) /\ Asked(t)
  BY DEF Alike, Document, Body, Listed, Asked, EntryIds, RoomFields
<1>4. Prepared(t)
  BY <1>1 DEF Alike, Document, Body, Prepared, Playing, RoomFields
<1>5. Named(s, t) /\ Calm(s, t) /\ Recovered(s, t)
  BY <1>1, DocumentVersions DEF Alike, Named, Calm, Recovered, QueueOrder, RoomFields
<1> QED
  BY <1>2, <1>3, <1>4, <1>5 DEF Lulled, Document, Body

(* One member's record is replaced, its controller kept.                   *)
LEMMA MemberEdited ==
    ASSUME NEW s, Document(s), NEW t, Alike(s, t, {"members", "absent"}),
           t.absent \in Age \cup {None}, NEW m \in MembersOf(s), NEW member \in MemberShape,
           t.members = [s.members EXCEPT ![m] = member],
           member.dev = s.members[m].dev, member.gen = s.members[m].gen
    PROVE  Lulled(s, t)
<1>1. s.members \in [MembersOf(s) -> MemberShape]
  BY DEF Document, Body, Peopled
<1>2. t.members \in [MembersOf(s) -> MemberShape]
  BY <1>1
<1>3. \A x \in MembersOf(s) : t.members[x].dev = s.members[x].dev /\ t.members[x].gen = s.members[x].gen
  BY <1>1
<1> QED
  BY <1>2, <1>3, MembersEdited

LEMMA MemberTyped ==
    ASSUME NEW s, Document(s), NEW m \in MembersOf(s)
    PROVE  s.members[m] \in MemberShape
BY DEF Document, Body, Peopled

LEMMA AgeTypes == ASSUME RoomsAssumption PROVE 0 \in Age /\ HostClose \in Nat /\ Duration \in Nat
BY DEF RoomsAssumption, TimingAssumption, Age

LEMMA BeatenLulled ==
    ASSUME RoomsAssumption, NEW s, Document(s), NEW m \in MembersOf(s), NEW muted \in BOOLEAN
    PROVE  Lulled(s, Beaten(s, m, muted))
<1> DEFINE old == s.members[m]
           ready == IF muted THEN 0 ELSE old.ready
           member == [old EXCEPT !.idle = 0, !.present = TRUE, !.muted = muted, !.ready = ready]
           absent == IF s.host = m THEN None ELSE s.absent
           t == [s EXCEPT !.members[m] = member, !.absent = absent]
<1>0. Beaten(s, m, muted) = t
  BY DEF Beaten
<1>1. absent \in Age \cup {None}
  BY DEF Document, Body, Scalars
<1>2. old \in MemberShape
  BY MemberTyped
<1> HIDE DEF old, absent
<1>3. ready \in {0} \cup Version
  BY <1>2 DEF MemberShape
<1> HIDE DEF ready
<1>4. member \in MemberShape /\ member.dev = old.dev /\ member.gen = old.gen
  BY <1>2, <1>3, AgeTypes DEF MemberShape
<1> HIDE DEF member
<1>5. /\ Alike(s, t, {"members", "absent"}) /\ t.absent = absent
      /\ t.members = [s.members EXCEPT ![m] = member]
  BY DEF Document, Body, Scalars, RoomFields, Alike
<1> HIDE DEF t
<1>6. Lulled(s, t)
  BY <1>1, <1>4, <1>5, MemberEdited DEF old
<1> QED
  BY <1>0, <1>6

LEMMA ReportedLulled ==
    ASSUME NEW s, Document(s), s.playGen \in Version, NEW m \in MembersOf(s),
           NEW seq \in 0..MaxSequence, NEW yes \in BOOLEAN
    PROVE  Lulled(s, Reported(s, m, seq, yes))
<1> DEFINE old == s.members[m]
           ready == IF yes THEN s.playGen ELSE 0
           member == [old EXCEPT !.reportGen = s.playGen, !.reportSeq = seq, !.ready = ready]
           t == [s EXCEPT !.members[m] = member]
<1>0. Reported(s, m, seq, yes) = t
  BY DEF Reported
<1>1. s.absent \in Age \cup {None}
  BY DEF Document, Body, Scalars
<1>2. old \in MemberShape
  BY MemberTyped
<1>3. ready \in {0} \cup Version
  OBVIOUS
<1> HIDE DEF old, ready
<1>4. member \in MemberShape /\ member.dev = old.dev /\ member.gen = old.gen
  BY <1>2, <1>3 DEF MemberShape
<1> HIDE DEF member
<1>5. /\ Alike(s, t, {"members", "absent"}) /\ t.absent = s.absent
      /\ t.members = [s.members EXCEPT ![m] = member]
  BY DEF Document, Body, Scalars, RoomFields, Alike
<1> HIDE DEF t
<1>6. Lulled(s, t)
  BY <1>1, <1>4, <1>5, MemberEdited DEF old
<1> QED
  BY <1>0, <1>6

LEMMA DetachedLulled ==
    ASSUME NEW s, Document(s), NEW m \in MembersOf(s)
    PROVE  Lulled(s, Detached(s, m))
<1> DEFINE old == s.members[m]
           member == [old EXCEPT !.present = FALSE, !.ready = 0]
           absent == IF s.host = m THEN old.idle ELSE s.absent
           t == [s EXCEPT !.members[m] = member, !.absent = absent]
<1>0. /\ DOMAIN Detached(s, m) = RoomFields
      /\ Detached(s, m).members = [s.members EXCEPT ![m] = member]
      /\ Detached(s, m).absent = absent
      /\ \A f \in RoomFields \ {"members", "absent"} : Detached(s, m)[f] = s[f]
  BY MemberTyped DEF Detached, Document, Body, Scalars, RoomFields, Peopled, MemberShape
<1>2. old \in MemberShape
  BY MemberTyped
<1> HIDE DEF old
<1>1. absent \in Age \cup {None}
  BY <1>2 DEF Document, Body, Scalars, MemberShape
<1>4. member \in MemberShape /\ member.dev = old.dev /\ member.gen = old.gen
  BY <1>2 DEF MemberShape
<1> HIDE DEF member, absent
<1> DEFINE u == Detached(s, m)
<1>5. Alike(s, u, {"members", "absent"}) /\ u.absent = absent /\ u.members = [s.members EXCEPT ![m] = member]
  BY <1>0 DEF Alike
<1> HIDE DEF u
<1>6. Lulled(s, u)
  BY <1>1, <1>4, <1>5, MemberEdited DEF old
<1> QED
  BY <1>6 DEF u

LEMMA SweptPresenceLulled == ASSUME NEW s, Document(s) PROVE Lulled(s, SweptPresence(s))
<1> DEFINE Away(member) == [member EXCEPT !.present = FALSE, !.ready = 0]
           members == [m \in DOMAIN s.members |-> IF Lost(s.members[m]) THEN Away(s.members[m]) ELSE s.members[m]]
           t == [s EXCEPT !.members = members]
<1>0. SweptPresence(s) = t
  BY DEF SweptPresence
<1>1. ASSUME NEW member \in MemberShape
      PROVE  Away(member) \in MemberShape /\ Away(member).dev = member.dev /\ Away(member).gen = member.gen
  BY DEF MemberShape
<1> HIDE DEF Away
<1>2. /\ members \in [MembersOf(s) -> MemberShape]
      /\ \A m \in MembersOf(s) : members[m].dev = s.members[m].dev /\ members[m].gen = s.members[m].gen
  BY <1>1, MemberTyped DEF MembersOf
<1> HIDE DEF members
<1>3. Alike(s, t, {"members", "absent"}) /\ t.absent = s.absent /\ t.members = members
  BY DEF Document, Body, Scalars, RoomFields, Alike
<1> HIDE DEF t
<1>4. Lulled(s, t)
  BY <1>2, <1>3, MembersEdited DEF Document, Body, Scalars
<1> QED
  BY <1>0, <1>4

(* A tick of every clock starts nothing and forgets nothing.               *)
LEMMA AgedLulled == ASSUME RoomsAssumption, PrepAssumption, NEW s, Document(s) PROVE Lulled(s, Aged(s))
<1> DEFINE Older(member) == [member EXCEPT !.idle = Later(member.idle)]
           members == [m \in DOMAIN s.members |-> [s.members[m] EXCEPT !.idle = Later(s.members[m].idle)]]
           elapsed == IF s.timeline.state = "playing" THEN Least(Duration, s.timeline.elapsed + 1)
                      ELSE s.timeline.elapsed
           prep == IF s.prep = None THEN None ELSE [s.prep EXCEPT !.left = Sooner(s.prep.left)]
           transfer == IF s.transfer = None THEN None ELSE [s.transfer EXCEPT !.left = Sooner(s.transfer.left)]
           absent == IF s.absent = None THEN None ELSE Later(s.absent)
           t == [s EXCEPT !.members = members, !.timeline.elapsed = elapsed, !.prep = prep,
                          !.transfer = transfer, !.absent = absent]
<1>0. Aged(s) = t
  BY DEF Aged
<1>1. /\ HostClose \in Nat /\ Duration \in Nat /\ StartLead \in Nat
      /\ \A n \in Age : Later(n) \in Age
      /\ \A limit \in Nat : \A n \in 0..limit : Sooner(n) \in 0..limit
  BY DEF RoomsAssumption, TimingAssumption, Age, Later, Least, Sooner, Most
<1>2. ASSUME NEW member \in MemberShape
      PROVE  Older(member) \in MemberShape /\ Older(member).dev = member.dev /\ Older(member).gen = member.gen
  <2> DEFINE idle == Later(member.idle)
  <2>1. idle \in Age
    BY <1>1 DEF MemberShape
  <2> HIDE DEF idle
  <2>2. LET older == [member EXCEPT !.idle = idle]
        IN  older \in MemberShape /\ older.dev = member.dev /\ older.gen = member.gen
    BY <2>1 DEF MemberShape
  <2> QED
    BY <2>2 DEF idle
<1>3. /\ members \in [MembersOf(s) -> MemberShape]
      /\ \A m \in MembersOf(s) : members[m].dev = s.members[m].dev /\ members[m].gen = s.members[m].gen
  BY <1>2, MemberTyped DEF MembersOf
<1>4. absent \in Age \cup {None}
  BY <1>1 DEF Document, Body, Scalars
<1>5. elapsed \in (-StartLead)..Duration
  BY <1>1 DEF Document, Body, Listed, TimelineRecord, Least
<1>6. transfer \in OfferRecord \cup {None}
  <2>1. TransferTicks \in Nat /\ s.transfer \in OfferRecord \cup {None}
    BY DEF RoomsAssumption, TimingAssumption, Document, Body, Peopled
  <2>2. ASSUME s.transfer # None PROVE transfer \in OfferRecord
    <3> DEFINE old == s.transfer
               left == Sooner(old.left)
    <3>1. old \in OfferRecord
      BY <2>1, <2>2
    <3>2. left \in 0..TransferTicks
      BY <1>1, <2>1, <3>1 DEF OfferRecord
    <3>3. transfer = [old EXCEPT !.left = left]
      BY <2>2
    <3> HIDE DEF old, left
    <3> QED
      BY <3>1, <3>2, <3>3 DEF OfferRecord
  <2> QED
    BY <2>2
<1>7. s.prep # None =>
         /\ prep # None /\ DOMAIN prep = PrepFields
         /\ prep.gen = s.prep.gen /\ prep.entry = s.prep.entry /\ prep.cohort = s.prep.cohort
         /\ prep.left \in 0..PrepTicks
  <2>1. PrepTicks \in Nat
    BY DEF RoomsAssumption, TimingAssumption
  <2>2. ASSUME s.prep # None
        PROVE  /\ prep # None /\ DOMAIN prep = PrepFields
               /\ prep.gen = s.prep.gen /\ prep.entry = s.prep.entry /\ prep.cohort = s.prep.cohort
               /\ prep.left \in 0..PrepTicks
    <3> DEFINE old == s.prep
               left == Sooner(old.left)
    <3>1. DOMAIN old = PrepFields /\ left \in 0..PrepTicks
      BY <1>1, <2>1, <2>2 DEF Document, Body, Prepared
    <3>2. prep = [old EXCEPT !.left = left]
      BY <2>2
    <3> HIDE DEF old, left, prep
    <3>3. /\ DOMAIN prep = PrepFields
          /\ prep.gen = old.gen /\ prep.entry = old.entry /\ prep.cohort = old.cohort
          /\ prep.left \in 0..PrepTicks
      BY <3>1, <3>2 DEF PrepFields
    <3> QED
      BY <3>3 DEF PrepAssumption, old
  <2> QED
    BY <2>2
<1>8. s.prep = None => prep = None
  OBVIOUS
<1> HIDE DEF members, elapsed, prep, transfer, absent
<1>9. /\ Alike(s, t, {"members", "timeline", "prep", "transfer", "absent"})
      /\ t.members = members /\ t.prep = prep /\ t.transfer = transfer /\ t.absent = absent
      /\ t.timeline = [s.timeline EXCEPT !.elapsed = elapsed]
  BY DEF Document, Body, Scalars, RoomFields, Alike
<1>10. /\ t.timeline \in TimelineRecord /\ t.timeline.state = s.timeline.state
       /\ t.timeline.entry = s.timeline.entry
  BY <1>5, <1>9 DEF Document, Body, Listed, TimelineRecord
<1> HIDE DEF t
<1>11. MembersOf(t) = MembersOf(s)
  BY <1>3, <1>9 DEF MembersOf
<1>12. Scalars(t) /\ Peopled(t) /\ Asked(t)
  BY <1>3, <1>4, <1>6, <1>9, <1>11 DEF Alike, Document, Body, Scalars, Peopled, Asked, RoomFields
<1>13. Listed(t)
  BY <1>9, <1>10 DEF Alike, Document, Body, Listed, EntryIds, RoomFields
<1>14. Prepared(t)
  BY <1>3, <1>7, <1>8, <1>9, <1>10, <1>11 DEF Alike, Document, Body, Prepared, Playing, RoomFields
<1>15. Named(s, t) /\ Calm(s, t) /\ Recovered(s, t)
  BY <1>3, <1>9, <1>10, <1>11, DocumentVersions DEF Alike, Named, Calm, Recovered, QueueOrder, RoomFields
<1> QED
  BY <1>0, <1>12, <1>13, <1>14, <1>15 DEF Lulled, Document, Body

(* A takeover gives the member a new controller, and a preparation that    *)
(* counted on the old one is given up.                                     *)
Taken(s, m, d) == IF s.prep # None THEN PauseRoom(TakenOver(s, m, d)) ELSE TakenOver(s, m, d)

LEMMA TakenLulled ==
    ASSUME RoomsAssumption, NEW s, Document(s), NEW m \in MembersOf(s), NEW d \in Device
    PROVE  Lulled(s, Taken(s, m, d))
<1> DEFINE member == [NewMember(d) EXCEPT !.gen = s.members[m].gen + 1]
           absent == IF s.host = m THEN 0 ELSE s.absent
           t == [s EXCEPT !.members[m] = member, !.transfer = None, !.absent = absent]
           idle == [t EXCEPT !.prep = None]
<1>0. TakenOver(s, m, d) = t
  BY DEF TakenOver
<1>1. /\ member \in MemberShape /\ member.dev = d /\ member.gen = s.members[m].gen + 1
      /\ absent \in Age \cup {None}
  <2>1. s.members[m].gen \in Nat \ {0} /\ 0 \in Age
    BY DocumentVersions, AgeTypes
  <2>2. 0 \in 0..MaxSequence
    BY DEF RoomsAssumption
  <2> DEFINE gen == s.members[m].gen + 1
  <2>3. gen \in Nat \ {0}
    BY <2>1
  <2>4. absent \in Age \cup {None}
    BY <2>1 DEF Document, Body, Scalars
  <2> HIDE DEF gen
  <2>5. LET new == [NewMember(d) EXCEPT !.gen = gen]
        IN  new \in MemberShape /\ new.dev = d /\ new.gen = gen
    BY <2>1, <2>2, <2>3 DEF NewMember, MemberShape
  <2> QED
    BY <2>4, <2>5 DEF gen
<1> HIDE DEF member, absent
<1>2. /\ Alike(s, t, {"members", "transfer", "absent"})
      /\ t.members = [s.members EXCEPT ![m] = member] /\ t.transfer = None /\ t.absent = absent
  BY DEF Document, Body, Scalars, RoomFields, Alike
<1> HIDE DEF t
<1>3. /\ MembersOf(t) = MembersOf(s)
      /\ t.members \in [MembersOf(t) -> MemberShape]
      /\ \A x \in MembersOf(s) : t.members[x] = IF x = m THEN member ELSE s.members[x]
  BY <1>1, <1>2 DEF Document, Body, Peopled, MembersOf
<1>4. Scalars(t) /\ Peopled(t) /\ Asked(t)
  BY <1>1, <1>2, <1>3 DEF Alike, Document, Body, Scalars, Peopled, Asked, RoomFields
<1>5. Listed(t)
  BY <1>2 DEF Alike, Document, Body, Listed, EntryIds, RoomFields
<1>6. Named(s, t) /\ Calm(s, t) /\ Recovered(s, t)
  BY <1>1, <1>2, <1>3, DocumentVersions DEF Alike, Named, Calm, Recovered, QueueOrder, RoomFields
<1>7. CASE s.prep = None
  <2>1. Prepared(t)
    BY <1>2, <1>7 DEF Alike, Document, Body, Prepared, Playing, RoomFields
  <2> QED
    BY <1>0, <1>4, <1>5, <1>6, <1>7, <2>1 DEF Taken, Lulled, Document, Body
<1>8. CASE s.prep # None
  <2> DEFINE u == PauseRoom(t)
  <2> HIDE DEF u
  <2>1. Body(t) /\ Body(s)
    BY <1>4, <1>5 DEF Body, Document
  <2>2. Document(u) /\ Named(t, u) /\ ~Playing(u) /\ u.epoch = s.epoch
    BY <1>2, <2>1, PausedBody DEF u, Alike, RoomFields
  <2>3. Named(s, u)
    BY <1>6, <2>1, <2>2, NamedTwice DEF Document
  <2>4. Taken(s, m, d) = u
    BY <1>0, <1>8 DEF Taken, u
  <2> QED
    BY <2>2, <2>3, <2>4 DEF Lulled, Calm, Recovered
<1> QED
  BY <1>7, <1>8
-----------------------------------------------------------------------------
(* Queue and requests.                                                     *)
LEMMA FewerRequests ==
    ASSUME NEW asked, IsFiniteSet(asked), Cardinality(asked) <= MaxSongRequests, MaxSongRequests \in Nat,
           NEW some, some \subseteq asked
    PROVE  IsFiniteSet(some) /\ Cardinality(some) <= MaxSongRequests
<1>1. IsFiniteSet(some) /\ Cardinality(some) <= Cardinality(asked)
  BY FS_Subset
<1>2. Cardinality(some) \in Nat /\ Cardinality(asked) \in Nat
  BY <1>1, FS_CardinalityType
<1> QED
  BY <1>1, <1>2

(* The occurrences keep their order and their identity.                    *)
Relabelled(old, new) ==
    /\ new \in Seq(EntryRecord) /\ Len(new) = Len(old)
    /\ \A i \in 1..Len(old) : new[i].id = old[i].id

LEMMA RelabelledFacts ==
    ASSUME NEW s, Listed(s), NEW t, Relabelled(s.queue, t.queue)
    PROVE  QueueOrder(t) = QueueOrder(s) /\ EntryIds(t) = EntryIds(s)
<1>1. DOMAIN s.queue = 1..Len(s.queue) /\ DOMAIN t.queue = 1..Len(s.queue)
  BY DEF Listed, Relabelled
<1>2. \A i \in 1..Len(s.queue) : t.queue[i].id = s.queue[i].id
  BY DEF Relabelled
<1>3. QueueOrder(t) = QueueOrder(s)
  BY <1>1, <1>2 DEF QueueOrder
<1>4. EntryIds(t) = EntryIds(s)
  BY <1>1, <1>2 DEF EntryIds
<1> QED
  BY <1>3, <1>4

LEMMA RelabelledListed ==
    ASSUME NEW s, Listed(s), NEW t, Relabelled(s.queue, t.queue), t.entries = s.entries,
           t.timeline = s.timeline
    PROVE  Listed(t)
<1>1. EntryIds(t) = EntryIds(s)
  BY RelabelledFacts
<1>2. DOMAIN s.queue = 1..Len(s.queue) /\ DOMAIN t.queue = 1..Len(s.queue)
  BY DEF Listed, Relabelled
<1> QED
  BY <1>1, <1>2 DEF Listed, Relabelled

LEMMA Relabels ==
    ASSUME NEW queue \in Seq(EntryRecord), NEW new, new = [i \in DOMAIN queue |-> new[i]],
           \A i \in DOMAIN queue : new[i] \in EntryRecord /\ new[i].id = queue[i].id
    PROVE  Relabelled(queue, new)
<1>1. DOMAIN queue = 1..Len(queue) /\ Len(queue) \in Nat
  OBVIOUS
<1>2. new \in Seq(EntryRecord) /\ Len(new) = Len(queue)
  BY <1>1
<1> QED
  BY <1>1, <1>2 DEF Relabelled

(* The occurrences of the tracks in `lost` are marked.                     *)
Marked(queue, lost) ==
    [i \in DOMAIN queue |-> IF i \in lost THEN [queue[i] EXCEPT !.gone = TRUE] ELSE queue[i]]

LEMMA MarkedRelabelled == ASSUME NEW queue \in Seq(EntryRecord), NEW lost PROVE Relabelled(queue, Marked(queue, lost))
<1> DEFINE new == Marked(queue, lost)
<1>1. ASSUME NEW e \in EntryRecord
      PROVE  [e EXCEPT !.gone = TRUE] \in EntryRecord /\ [e EXCEPT !.gone = TRUE].id = e.id
  BY DEF EntryRecord
<1>2. \A i \in DOMAIN queue : queue[i] \in EntryRecord
  OBVIOUS
<1>3. \A i \in DOMAIN queue : new[i] \in EntryRecord /\ new[i].id = queue[i].id
  BY <1>1, <1>2 DEF Marked
<1>4. new = [i \in DOMAIN queue |-> new[i]]
  BY DEF Marked
<1> HIDE DEF new
<1>5. Relabelled(queue, new)
  BY <1>3, <1>4, Relabels
<1> QED
  BY <1>5 DEF new

(* A marked queue, fewer requests, and perhaps a new queue revision.       *)
LEMMA QueueMarkedLulled ==
    ASSUME RoomsAssumption, NEW s, Document(s), NEW t, Alike(s, t, {"queue", "requests", "queueRev"}),
           Relabelled(s.queue, t.queue), t.requests \subseteq s.requests,
           t.queueRev \in {s.queueRev, s.queueRev + 1}
    PROVE  Lulled(s, t)
<1>1. QueueOrder(t) = QueueOrder(s)
  BY RelabelledFacts DEF Document, Body
<1>2. Listed(t)
  BY RelabelledListed DEF Alike, Document, Body, RoomFields
<1>3. Asked(t)
  BY FewerRequests DEF Document, Body, Asked, RoomsAssumption
<1>4. Scalars(t) /\ Peopled(t)
  BY DEF Alike, Document, Body, Scalars, Peopled, MembersOf, RoomFields
<1>5. Prepared(t)
  BY DEF Alike, Document, Prepared, Playing, MembersOf, RoomFields
<1>6. Named(s, t) /\ Calm(s, t) /\ Recovered(s, t)
  BY <1>1, DocumentVersions DEF Alike, Named, Calm, Recovered, MembersOf, RoomFields
<1> QED
  BY <1>2, <1>3, <1>4, <1>5, <1>6 DEF Lulled, Document, Body

LEMMA WithoutMediaLulled ==
    ASSUME RoomsAssumption, NEW s, Document(s), NEW track
    PROVE  Lulled(s, WithoutMedia(s, track))
<1> DEFINE lost == {i \in DOMAIN s.queue : s.queue[i].track = track}
           some == {q \in s.requests : q.track # track}
           queue == Marked(s.queue, lost)
           marked == [s EXCEPT !.requests = some, !.queue = queue]
           current == \E i \in DOMAIN s.queue : s.queue[i].track = track /\ s.queue[i].id = s.timeline.entry
           stopped == IF current THEN PauseRoom(marked) ELSE marked
           counted == IF Queued(s, track) THEN [stopped EXCEPT !.queueRev = @ + 1] ELSE stopped
<1>1. queue = [i \in DOMAIN s.queue |-> IF s.queue[i].track = track THEN [s.queue[i] EXCEPT !.gone = TRUE]
                                        ELSE s.queue[i]]
  BY DEF Marked
<1>2. WithoutMedia(s, track) = Persist(counted)
  BY <1>1 DEF WithoutMedia
<1>3. Relabelled(s.queue, queue)
  BY MarkedRelabelled DEF Document, Body, Listed
<1> HIDE DEF queue
<1>4. Alike(s, marked, {"queue", "requests", "queueRev"}) /\ marked.queue = queue /\ marked.requests = some
      /\ marked.queueRev = s.queueRev
  BY DEF Document, Body, Scalars, RoomFields, Alike
<1> HIDE DEF marked
<1>5. Lulled(s, marked)
  BY <1>3, <1>4, QueueMarkedLulled
<1>6. Lulled(s, stopped)
  BY <1>5, PauseLulled, LulledTwice DEF Lulled
<1> HIDE DEF stopped
<1>7. Lulled(s, counted)
  <2> DEFINE u == [stopped EXCEPT !.queueRev = @ + 1]
  <2>1. Document(stopped)
    BY <1>6 DEF Lulled
  <2>2. Alike(stopped, u, {"queue", "requests", "queueRev"}) /\ u.queueRev = stopped.queueRev + 1
        /\ u.queue = stopped.queue /\ u.requests = stopped.requests
    BY <2>1 DEF Document, Body, Scalars, RoomFields, Alike
  <2> HIDE DEF u
  <2>3. Relabelled(stopped.queue, stopped.queue)
    BY <2>1 DEF Relabelled, Document, Body, Listed
  <2>4. Lulled(stopped, u)
    BY <2>1, <2>2, <2>3, QueueMarkedLulled
  <2> QED
    BY <1>6, <2>4, LulledTwice DEF u
<1> HIDE DEF counted
<1> QED
  BY <1>2, <1>7, PersistLulled, LulledTwice DEF Lulled

(* A member that is not the host leaves.                                   *)
LEMMA WithoutMemberLulled ==
    ASSUME RoomsAssumption, PrepAssumption, NEW s, Document(s), NEW m \in MembersOf(s), m # s.host
    PROVE  Lulled(s, WithoutMember(s, m))
<1> DEFINE stay == MembersOf(s) \ {m}
           members == [x \in stay |-> s.members[x]]
           some == {q \in s.requests : q.by # m}
           queue == [i \in DOMAIN s.queue |-> IF s.queue[i].by = m THEN [s.queue[i] EXCEPT !.by = None]
                                              ELSE s.queue[i]]
           transfer == IF s.transfer # None /\ s.transfer.target = m THEN None ELSE s.transfer
           cohort == [x \in DOMAIN s.prep.cohort \ {m} |-> s.prep.cohort[x]]
           prep == IF s.prep = None THEN None ELSE [s.prep EXCEPT !.cohort = cohort]
           t == [s EXCEPT !.members = members, !.requests = some, !.queue = queue,
                          !.transfer = transfer, !.prep = prep]
<1>0. WithoutMember(s, m) = Persist(t)
  BY DEF WithoutMember
<1>1. Relabelled(s.queue, queue)
  <2>1. s.queue \in Seq(EntryRecord) /\ \A i \in DOMAIN s.queue : s.queue[i] \in EntryRecord
    BY DEF Document, Body, Listed
  <2>2. ASSUME NEW e \in EntryRecord
        PROVE  [e EXCEPT !.by = None] \in EntryRecord /\ [e EXCEPT !.by = None].id = e.id
    BY DEF EntryRecord
  <2>3. \A i \in DOMAIN s.queue : queue[i] \in EntryRecord /\ queue[i].id = s.queue[i].id
    BY <2>1, <2>2
  <2>4. queue = [i \in DOMAIN s.queue |-> queue[i]]
    OBVIOUS
  <2> HIDE DEF queue
  <2> QED
    BY <2>1, <2>3, <2>4, Relabels
<1>2. transfer \in OfferRecord \cup {None}
  BY DEF Document, Body, Peopled
<1>3. members \in [stay -> MemberShape] /\ DOMAIN members = stay /\ \A x \in stay : members[x] = s.members[x]
  BY MemberTyped
<1>4. s.prep # None =>
         /\ prep # None /\ DOMAIN prep = PrepFields
         /\ prep.gen = s.prep.gen /\ prep.entry = s.prep.entry /\ prep.left = s.prep.left
         /\ prep.cohort = cohort
  BY DEF Document, Prepared, PrepFields, PrepAssumption
<1>5. s.prep = None => prep = None
  OBVIOUS
<1>6. s.prep # None =>
         /\ cohort \in [DOMAIN cohort -> CohortShape]
         /\ DOMAIN cohort \subseteq stay
         /\ \A x \in DOMAIN cohort : cohort[x].gen = s.members[x].gen
  BY DEF Document, Prepared
<1> HIDE DEF members, queue, transfer, cohort, prep
<1>7. /\ Alike(s, t, {"members", "requests", "queue", "transfer", "prep"})
      /\ t.members = members /\ t.requests = some /\ t.queue = queue /\ t.transfer = transfer /\ t.prep = prep
  BY DEF Document, Body, Scalars, RoomFields, Alike
<1> HIDE DEF t
<1>8. MembersOf(t) = stay
  BY <1>3, <1>7 DEF MembersOf
<1>9. Scalars(t) /\ Peopled(t)
  BY <1>2, <1>3, <1>7, <1>8 DEF Alike, Document, Body, Scalars, Peopled, RoomFields
<1>10. Listed(t)
  BY <1>1, <1>7, RelabelledListed DEF Alike, Document, Body, RoomFields
<1>11. Asked(t)
  BY <1>7, FewerRequests DEF Document, Body, Asked, RoomsAssumption
<1>12. Prepared(t)
  BY <1>3, <1>4, <1>5, <1>6, <1>7, <1>8 DEF Alike, Document, Prepared, Playing, RoomFields
<1>13. QueueOrder(t) = QueueOrder(s)
  BY <1>1, <1>7, RelabelledFacts DEF Document, Body
<1>14. Named(s, t) /\ Calm(s, t) /\ Recovered(s, t)
  BY <1>3, <1>7, <1>8, <1>13, DocumentVersions DEF Alike, Named, Calm, Recovered, RoomFields
<1>15. Lulled(s, t)
  BY <1>9, <1>10, <1>11, <1>12, <1>14 DEF Lulled, Document, Body
<1> QED
  BY <1>0, <1>15, PersistLulled, LulledTwice DEF Lulled
-----------------------------------------------------------------------------
(* Control, and the edits of the queue.                                    *)
LEMMA ControlEdited ==
    ASSUME NEW s, Document(s), NEW t, Alike(s, t, {"everyone", "controlGen", "transfer", "host", "absent"}),
           t.host \in MembersOf(s), t.everyone \in BOOLEAN, t.absent \in Age \cup {None},
           t.transfer \in OfferRecord \cup {None}, t.controlGen \in {s.controlGen, s.controlGen + 1},
           t.controlGen = s.controlGen => t.host = s.host /\ t.everyone = s.everyone
    PROVE  Lulled(s, t)
<1>1. MembersOf(t) = MembersOf(s)
  BY DEF Alike, MembersOf, RoomFields
<1>2. Scalars(t) /\ Peopled(t)
  BY <1>1, DocumentVersions DEF Alike, Document, Body, Scalars, Peopled, RoomFields
<1>3. Listed(t) /\ Asked(t)
  BY DEF Alike, Document, Body, Listed, Asked, EntryIds, RoomFields
<1>4. Prepared(t)
  BY <1>1 DEF Alike, Document, Prepared, Playing, RoomFields
<1>5. Named(s, t) /\ Calm(s, t) /\ Recovered(s, t)
  BY <1>1, DocumentVersions DEF Alike, Named, Calm, Recovered, QueueOrder, RoomFields
<1> QED
  BY <1>2, <1>3, <1>4, <1>5 DEF Lulled, Document, Body

LEMMA QueueEdited ==
    ASSUME NEW s, Document(s), NEW t, Alike(s, t, {"queue", "queueRev", "entries", "requests"}),
           Listed(t), Asked(t), t.queueRev = s.queueRev + 1
    PROVE  Lulled(s, t)
<1>1. MembersOf(t) = MembersOf(s)
  BY DEF Alike, MembersOf, RoomFields
<1>2. Scalars(t) /\ Peopled(t)
  BY <1>1, DocumentVersions DEF Alike, Document, Body, Scalars, Peopled, RoomFields
<1>3. Prepared(t)
  BY <1>1 DEF Alike, Document, Prepared, Playing, RoomFields
<1>4. Named(s, t) /\ Calm(s, t) /\ Recovered(s, t)
  BY <1>1, DocumentVersions DEF Alike, Named, Calm, Recovered, RoomFields
<1> QED
  BY <1>2, <1>3, <1>4 DEF Lulled, Document, Body

LEMMA RequestsEdited ==
    ASSUME NEW s, Document(s), NEW t, Alike(s, t, {"requests"}), Asked(t)
    PROVE  Lulled(s, t)
<1>1. MembersOf(t) = MembersOf(s)
  BY DEF Alike, MembersOf, RoomFields
<1>2. Scalars(t) /\ Peopled(t) /\ Listed(t)
  BY <1>1, DocumentVersions DEF Alike, Document, Body, Scalars, Peopled, Listed, EntryIds, RoomFields
<1>3. Prepared(t)
  BY <1>1 DEF Alike, Document, Prepared, Playing, RoomFields
<1>4. Named(s, t) /\ Calm(s, t) /\ Recovered(s, t)
  BY <1>1, DocumentVersions DEF Alike, Named, Calm, Recovered, QueueOrder, RoomFields
<1> QED
  BY <1>2, <1>3, <1>4 DEF Lulled, Document, Body

LEMMA ExpiredLulled ==
    ASSUME NEW s, Document(s), NEW t, Alike(s, t, {"expired"}), t.expired \in BOOLEAN
    PROVE  Lulled(s, t)
<1>1. MembersOf(t) = MembersOf(s)
  BY DEF Alike, MembersOf, RoomFields
<1>2. Scalars(t) /\ Peopled(t)
  BY <1>1 DEF Alike, Document, Body, Scalars, Peopled, RoomFields
<1>3. Listed(t) /\ Asked(t)
  BY DEF Alike, Document, Body, Listed, Asked, EntryIds, RoomFields
<1>4. Prepared(t)
  BY <1>1 DEF Alike, Document, Prepared, Playing, RoomFields
<1>5. Named(s, t) /\ Calm(s, t) /\ Recovered(s, t)
  BY <1>1, DocumentVersions DEF Alike, Named, Calm, Recovered, QueueOrder, RoomFields
<1> QED
  BY <1>2, <1>3, <1>4, <1>5 DEF Lulled, Document, Body

-----------------------------------------------------------------------------
(* The stages of the sweep.                                                *)
LEMMA SweptFlagLulled == ASSUME RoomsAssumption, NEW s, Document(s) PROVE Lulled(s, SweptFlag(s))
BY PauseLulled, LulledSame DEF SweptFlag

LEMMA SweptHostLulled == ASSUME RoomsAssumption, NEW s, Document(s) PROVE Lulled(s, SweptHost(s))
<1> DEFINE absence == HostAbsence(s)
           noticed == [s EXCEPT !.absent = absence]
           held == [noticed EXCEPT !.suspended = TRUE]
           silent == PauseRoom(held)
<1>1. absence \in Age \cup {None}
  BY MemberTyped DEF HostAbsence, Document, Body, Scalars, Peopled, MemberShape
<1> HIDE DEF absence
<1>2. Alike(s, noticed, {"members", "absent"}) /\ noticed.absent = absence /\ noticed.members = s.members
  BY DEF Document, Body, Scalars, RoomFields, Alike
<1> HIDE DEF noticed
<1>3. Lulled(s, noticed)
  BY <1>1, <1>2, MembersEdited DEF Document, Body, Peopled
<1>4. Document(noticed)
  BY <1>3 DEF Lulled
<1>5. Alike(noticed, held, {"suspended"}) /\ held.suspended = TRUE
  BY <1>4 DEF Document, Body, Scalars, RoomFields, Alike
<1> HIDE DEF held
<1>6. Body(held)
  <2>1. Scalars(held)
    BY <1>4, <1>5 DEF Alike, Document, Body, Scalars, RoomFields
  <2>2. Peopled(held) /\ Asked(held)
    BY <1>4, <1>5 DEF Alike, Document, Body, Peopled, Asked, MembersOf, RoomFields
  <2>3. Listed(held)
    BY <1>4, <1>5 DEF Alike, Document, Body, Listed, EntryIds, RoomFields
  <2> QED
    BY <2>1, <2>2, <2>3 DEF Body
<1>7. Named(noticed, held) /\ held.epoch = noticed.epoch
  BY <1>4, <1>5, DocumentVersions DEF Alike, Named, MembersOf, QueueOrder, RoomFields
<1> HIDE DEF silent
<1>8. Document(silent) /\ Named(held, silent) /\ ~Playing(silent) /\ silent.epoch = held.epoch
  BY <1>6, PausedBody DEF silent
<1>9. Named(noticed, silent)
  BY <1>4, <1>6, <1>7, <1>8, NamedTwice DEF Document
<1>10. Lulled(noticed, silent)
  BY <1>7, <1>8, <1>9 DEF Lulled, Calm, Recovered
<1>11. Lulled(s, silent)
  BY <1>3, <1>10, LulledTwice
<1>12. SweptHost(s) \in {s, noticed, silent}
  BY DEF SweptHost, silent, held, noticed, absence
<1> QED
  BY <1>3, <1>11, <1>12, LulledSame

LEMMA SweptOfferLulled == ASSUME NEW s, Document(s) PROVE Lulled(s, SweptOffer(s))
<1> DEFINE t == [s EXCEPT !.transfer = None]
<1>1. Alike(s, t, {"everyone", "controlGen", "transfer", "host", "absent"})
      /\ t.transfer = None /\ t.host = s.host /\ t.everyone = s.everyone /\ t.absent = s.absent
      /\ t.controlGen = s.controlGen
  BY DEF Document, Body, Scalars, RoomFields, Alike
<1> HIDE DEF t
<1>2. Lulled(s, t)
  BY <1>1, ControlEdited DEF Document, Body, Scalars, Peopled
<1> QED
  BY <1>2, LulledSame DEF SweptOffer, t

LEMMA SweptQueueLulled == ASSUME RoomsAssumption, NEW s, Document(s) PROVE Lulled(s, SweptQueue(s))
<1> DEFINE lost == LostMedia(s)
           queue == Marked(s.queue, lost)
           marked == [s EXCEPT !.queueRev = @ + 1, !.queue = queue]
<1>1. Relabelled(s.queue, queue)
  BY MarkedRelabelled DEF Document, Body, Listed
<1>2. queue = [i \in DOMAIN s.queue |-> IF i \in LostMedia(s) THEN [s.queue[i] EXCEPT !.gone = TRUE] ELSE s.queue[i]]
  BY DEF Marked
<1>3. SweptQueue(s) \in {s, marked, PauseRoom(marked)}
  BY <1>2 DEF SweptQueue
<1> HIDE DEF queue
<1>4. Alike(s, marked, {"queue", "requests", "queueRev"}) /\ marked.queue = queue /\ marked.requests = s.requests
      /\ marked.queueRev = s.queueRev + 1
  BY DEF Document, Body, Scalars, RoomFields, Alike
<1> HIDE DEF marked
<1>5. Lulled(s, marked)
  BY <1>1, <1>4, QueueMarkedLulled
<1>6. Lulled(s, PauseRoom(marked))
  BY <1>5, PauseLulled, LulledTwice DEF Lulled
<1> QED
  BY <1>3, <1>5, <1>6, LulledSame
-----------------------------------------------------------------------------
(* What starts playback: a preparation, and its end.                       *)
LEMMA PrepareFacts ==
    ASSUME RoomsAssumption, PrepAssumption, NEW s, Document(s), NEW id \in EntryIds(s), NEW pos \in Position,
           NEW t, t = Prepare(s, id, pos)
    PROVE  /\ Document(t) /\ Named(s, t)
           /\ Alike(s, t, {"playGen", "timeline", "prep", "suspended"})
           /\ t.playGen = s.playGen + 1 /\ t.timeline.entry = id
<1> DEFINE start == [entry |-> id, state |-> "preparing", pos |-> pos, elapsed |-> 0]
           cohort == [m \in Participants(s) |-> [gen |-> s.members[m].gen, seq |-> 0, ready |-> FALSE]]
           prep == [gen |-> s.playGen + 1, entry |-> id, left |-> PrepTicks, cohort |-> cohort]
<1>1. t = [s EXCEPT !.playGen = @ + 1, !.timeline = start, !.prep = prep, !.suspended = FALSE]
  BY DEF Prepare
<1>2. start \in TimelineRecord /\ start.state = "preparing" /\ start.entry = id
  <2>1. id \in EntryId
    <3>1. PICK i \in DOMAIN s.queue : id = s.queue[i].id
      BY DEF EntryIds
    <3>2. s.queue[i] \in EntryRecord
      BY DEF Document, Body, Listed
    <3> QED
      BY <3>1, <3>2 DEF EntryRecord
  <2>2. 0 \in (-StartLead)..Duration
    BY DEF RoomsAssumption, TimingAssumption
  <2> QED
    BY <2>1, <2>2 DEF TimelineRecord
<1>3. /\ cohort \in [DOMAIN cohort -> CohortShape]
      /\ DOMAIN cohort \subseteq MembersOf(s)
      /\ \A m \in DOMAIN cohort : cohort[m].gen = s.members[m].gen
  <2>1. DOMAIN cohort = Participants(s) /\ Participants(s) \subseteq MembersOf(s)
    BY DEF Participants
  <2>2. 0 \in 0..MaxSequence
    BY DEF RoomsAssumption
  <2>3. ASSUME NEW m \in Participants(s)
        PROVE  cohort[m] \in CohortShape /\ cohort[m].gen = s.members[m].gen
    <3> DEFINE gen == s.members[m].gen
    <3>1. gen \in Nat \ {0}
      BY <2>1, <2>3, DocumentVersions
    <3>2. cohort[m] = [gen |-> gen, seq |-> 0, ready |-> FALSE]
      OBVIOUS
    <3> HIDE DEF gen, cohort
    <3> QED
      BY <2>2, <3>1, <3>2 DEF CohortShape, gen
  <2> QED
    BY <2>1, <2>3
<1> HIDE DEF cohort, start
<1>4. /\ DOMAIN prep = PrepFields /\ prep # None
      /\ prep.gen = s.playGen + 1 /\ prep.entry = id /\ prep.left \in 0..PrepTicks /\ prep.cohort = cohort
  <2>1. PrepTicks \in Nat
    BY DEF RoomsAssumption, TimingAssumption
  <2> QED
    BY <2>1 DEF PrepFields, PrepAssumption
<1> HIDE DEF prep
<1>5. /\ Alike(s, t, {"playGen", "timeline", "prep", "suspended"})
      /\ t.playGen = s.playGen + 1 /\ t.timeline = start /\ t.prep = prep /\ t.suspended = FALSE
  BY <1>1 DEF Document, Body, Scalars, RoomFields, Alike
<1>6. MembersOf(t) = MembersOf(s)
  BY <1>5 DEF Alike, MembersOf, RoomFields
<1>7. Scalars(t) /\ Peopled(t) /\ Asked(t)
  <2>1. Scalars(t)
    <3>1. Scalars(s)
      BY DEF Document, Body
    <3>2. s.playGen \in Nat \ {0}
      BY <3>1 DEF Scalars
    <3>3. t.playGen \in Nat \ {0}
      BY <1>5, <3>2
    <3>4. t.suspended \in BOOLEAN
      BY <1>5
    <3> QED
      BY <1>5, <3>1, <3>3, <3>4 DEF Alike, Scalars, RoomFields
  <2>2. Peopled(t) /\ Asked(t)
    BY <1>5, <1>6 DEF Alike, Document, Body, Peopled, Asked, RoomFields
  <2> QED
    BY <2>1, <2>2
<1>8. Listed(t)
  BY <1>2, <1>5 DEF Alike, Document, Body, Listed, EntryIds, RoomFields
<1>9. Prepared(t)
  BY <1>2, <1>3, <1>4, <1>5, <1>6 DEF Alike, Prepared, RoomFields
<1>10. Named(s, t)
  BY <1>5, <1>6, DocumentVersions DEF Alike, Named, QueueOrder, RoomFields
<1> QED
  BY <1>2, <1>5, <1>7, <1>8, <1>9, <1>10 DEF Document, Body

LEMMA FinishFacts ==
    ASSUME RoomsAssumption, PrepAssumption, NEW s, Document(s), NEW on, NEW t, t = FinishPreparation(s, on)
    PROVE  /\ Document(t) /\ Named(s, t)
           /\ Alike(s, t, {"timeline", "prep"})
           /\ t.timeline.entry = s.timeline.entry /\ t.timeline.pos = s.timeline.pos
           /\ t.timeline # s.timeline => s.timeline.state = "preparing" /\ MayFinish(s, on)
<1> DEFINE heard == CohortReady(s) # {}
           state == IF heard THEN "playing" ELSE "paused"
           elapsed == IF heard THEN -StartLead ELSE 0
           cohort == [m \in CohortKept(s) |-> s.prep.cohort[m]]
           ended == [s EXCEPT !.prep = None, !.timeline.state = state, !.timeline.elapsed = elapsed]
           waits == [s EXCEPT !.prep.cohort = cohort]
<1>1. \/ t = s
      \/ s.prep # None /\ MayFinish(s, on) /\ t = ended
      \/ s.prep # None /\ t = waits
  BY DEF FinishPreparation, Finishes, MayFinish
<1>2. CASE t = s
  BY <1>2, NamedSame DEF Alike, Document, Body, Scalars
<1>3. CASE s.prep # None /\ MayFinish(s, on) /\ t = ended
  <2>1. state \in {"playing", "paused"} /\ elapsed \in (-StartLead)..Duration
    BY DEF RoomsAssumption, TimingAssumption
  <2> HIDE DEF state, elapsed
  <2>2. /\ Alike(s, t, {"timeline", "prep"}) /\ t.prep = None
        /\ t.timeline = [s.timeline EXCEPT !.state = state, !.elapsed = elapsed]
    BY <1>3 DEF Document, Body, Scalars, RoomFields, Alike
  <2>3. s.timeline.state = "preparing" /\ ~s.suspended
    BY <1>3 DEF Document, Prepared, Playing
  <2>4. s.timeline \in TimelineRecord
    BY DEF Document, Body, Listed
  <2> HIDE DEF ended
  <2>5. /\ t.timeline \in TimelineRecord /\ t.timeline.state = state
        /\ t.timeline.entry = s.timeline.entry /\ t.timeline.pos = s.timeline.pos
    BY <2>1, <2>2, <2>4 DEF TimelineRecord
  <2>6. MembersOf(t) = MembersOf(s)
    BY <2>2 DEF Alike, MembersOf, RoomFields
  <2>7. Scalars(t) /\ Peopled(t) /\ Asked(t)
    BY <2>2, <2>6 DEF Alike, Document, Body, Scalars, Peopled, Asked, RoomFields
  <2>8. Listed(t)
    BY <2>2, <2>5 DEF Alike, Document, Body, Listed, EntryIds, RoomFields
  <2>9. Prepared(t)
    BY <2>1, <2>2, <2>3, <2>5 DEF Alike, Prepared, RoomFields
  <2>10. Named(s, t)
    BY <2>2, <2>3, <2>5, <2>6, DocumentVersions DEF Alike, Named, QueueOrder, RoomFields
  <2> QED
    BY <1>3, <2>2, <2>3, <2>5, <2>7, <2>8, <2>9, <2>10 DEF Document, Body
<1>4. CASE s.prep # None /\ t = waits
  <2>1. /\ cohort \in [DOMAIN cohort -> CohortShape]
        /\ DOMAIN cohort \subseteq MembersOf(s)
        /\ \A m \in DOMAIN cohort : cohort[m].gen = s.members[m].gen
    BY <1>4 DEF Document, Prepared, CohortKept
  <2> HIDE DEF cohort
  <2> DEFINE prep == [s.prep EXCEPT !.cohort = cohort]
  <2>2. /\ DOMAIN prep = PrepFields /\ prep # None
        /\ prep.gen = s.prep.gen /\ prep.entry = s.prep.entry /\ prep.left = s.prep.left
        /\ prep.cohort = cohort
    BY <1>4 DEF Document, Prepared, PrepFields, PrepAssumption
  <2>3. Alike(s, t, {"prep"}) /\ t.prep = prep
    BY <1>4 DEF Document, Body, Scalars, RoomFields, Alike
  <2> HIDE DEF prep, waits
  <2>6. MembersOf(t) = MembersOf(s)
    BY <2>3 DEF Alike, MembersOf, RoomFields
  <2>7. Scalars(t) /\ Peopled(t) /\ Asked(t) /\ Listed(t)
    BY <2>3, <2>6 DEF Alike, Document, Body, Scalars, Peopled, Asked, Listed, EntryIds, RoomFields
  <2>9. Prepared(t)
    BY <1>4, <2>1, <2>2, <2>3, <2>6 DEF Alike, Document, Prepared, Playing, RoomFields
  <2>10. Named(s, t)
    BY <2>3, <2>6, DocumentVersions DEF Alike, Named, QueueOrder, RoomFields
  <2>11. Alike(s, t, {"timeline", "prep"}) /\ t.timeline = s.timeline
    BY <2>3 DEF Alike, RoomFields
  <2> QED
    BY <2>7, <2>9, <2>10, <2>11 DEF Document, Body
<1> QED
  BY <1>1, <1>2, <1>3, <1>4

=============================================================================
