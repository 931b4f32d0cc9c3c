------------------------- MODULE RoomPlaybackProofs --------------------------
(***************************************************************************)
(* What the room service promises of playback and of the versions its      *)
(* clients hold, for every number of rooms, accounts and devices.          *)
(*                                                                         *)
(* The inductive invariant PInv says of every open room that its document  *)
(* tells one story (RoomDocumentProofs), and of the snapshot somebody      *)
(* holds that each version in it is no newer than the room's and, while it *)
(* still is the room's, stands for what the holder saw.  Told is what a    *)
(* transaction is shown to do; one lemma per action shows it, most of them *)
(* by Turns, what may become of one room.  The theorems are at the end.    *)
(***************************************************************************)
EXTENDS RoomDocumentProofs

PlaybackAssumptions == Assumptions /\ PrepAssumption /\ QueuesAssumption

(* What a held snapshot pins, against the room as it is now.               *)
Remembers(v, s) ==
    /\ v.queueRev <= s.queueRev /\ (v.queueRev = s.queueRev => v.order = QueueOrder(s))
    /\ v.playGen <= s.playGen
    /\ v.playGen = s.playGen =>
          /\ v.entry = s.timeline.entry
          /\ v.state = s.timeline.state \/ v.state = "preparing"
    /\ v.controlGen <= s.controlGen
    /\ v.controlGen = s.controlGen => v.host = s.host /\ v.everyone = s.everyone
    /\ \A m \in DOMAIN v.gens \cap MembersOf(s) :
          /\ v.gens[m] <= s.members[m].gen
          /\ v.gens[m] = s.members[m].gen => v.devs[m] = s.members[m].dev

(* A snapshot names only members that have been admitted.                  *)
Seen(v) ==
    /\ v.queueRev \in Nat /\ v.playGen \in Nat /\ v.controlGen \in Nat
    /\ \A m \in DOMAIN v.gens : v.gens[m] \in Nat /\ m \in Member /\ m[2] <= joins[m[1]]

Viewed ==
    view # None =>
        /\ view.room \in Room /\ rooms[view.room] # None
        /\ Seen(view.what)
        /\ Open(rooms[view.room]) => Remembers(view.what, rooms[view.room])

Stories ==
    \A r \in Room : Open(rooms[r]) =>
        Story(rooms[r]) /\ \A m \in MembersOf(rooms[r]) : m[2] <= joins[m[1]]

Outer ==
    /\ epoch \in 1..MaxEpoch /\ enabled \in BOOLEAN
    /\ active \subseteq Account /\ blocks \subseteq Account \X Account
    /\ sessions \in [Session -> {"unused", "live", "revoked"}]
    /\ media \in [Track -> [revision : 1..MaxMedia, ready : BOOLEAN]]

PInv == Outer /\ Stories /\ Viewed

(* What a transaction may make of an open room s that stays open as t.     *)
Supervised(s, t) ==
    /\ Playing(t)
    /\ t.timeline.state # s.timeline.state \/ t.playGen # s.playGen
    => /\ t.epoch = epoch /\ enabled
       /\ HostPresent(t) \/ ~(s.suspended \/ HostGone(s))
Revised(s, t) == t.rev = s.rev => t = Aged(s) \/ Shown(t) = Shown(s)
Turns(s, t) == Story(t) /\ Named(s, t) /\ Recovered(s, t) /\ Supervised(s, t) /\ Revised(s, t)

(* What every transaction is shown to do.                                  *)
Told == PInv' /\ StartSupervised /\ RecoveryPauses /\ ShownChangeRevised

-----------------------------------------------------------------------------
LEMMA StoryOf ==
    ASSUME PInv, NEW r \in Room, Open(rooms[r])
    PROVE  /\ Story(rooms[r]) /\ Document(rooms[r]) /\ Body(rooms[r]) /\ Bounded(rooms[r])
           /\ \A m \in MembersOf(rooms[r]) : m[2] <= joins[m[1]]
BY DEF PInv, Stories, Story, Document

(* A snapshot stays true of a room whose versions are names.               *)
LEMMA RemembersOn ==
    ASSUME NEW v, Seen(v), NEW s, Body(s), NEW t, Body(t), Remembers(v, s), Named(s, t)
    PROVE  Remembers(v, t)
<1>1. v.queueRev <= t.queueRev /\ (v.queueRev = t.queueRev => v.order = QueueOrder(t))
  BY BodyVersions DEF Seen, Remembers, Named
<1>2. /\ v.playGen <= t.playGen
      /\ v.playGen = t.playGen =>
          /\ v.entry = t.timeline.entry
          /\ v.state = t.timeline.state \/ v.state = "preparing"
  BY BodyVersions DEF Seen, Remembers, Named
<1>3. /\ v.controlGen <= t.controlGen
      /\ v.controlGen = t.controlGen => v.host = t.host /\ v.everyone = t.everyone
  BY BodyVersions DEF Seen, Remembers, Named
<1>4. ASSUME NEW m \in DOMAIN v.gens \cap MembersOf(t)
      PROVE  /\ v.gens[m] <= t.members[m].gen
             /\ v.gens[m] = t.members[m].gen => v.devs[m] = t.members[m].dev
  <2>1. m \in MembersOf(s) /\ s.members[m].gen <= t.members[m].gen
        /\ (t.members[m].gen = s.members[m].gen => t.members[m].dev = s.members[m].dev)
    BY DEF Named
  <2>2. v.gens[m] <= s.members[m].gen /\ (v.gens[m] = s.members[m].gen => v.devs[m] = s.members[m].dev)
    BY <2>1 DEF Remembers
  <2>3. v.gens[m] \in Nat /\ s.members[m].gen \in Nat /\ t.members[m].gen \in Nat
    BY <2>1, BodyVersions DEF Seen
  <2> QED
    BY <2>1, <2>2, <2>3
<1> QED
  BY <1>1, <1>2, <1>3, <1>4 DEF Remembers

(* Every room stays, closes, or turns; the held snapshot stays held.       *)
LEMMA RoomsTold ==
    ASSUME NullAssumption, PInv, Outer', UNCHANGED <<joins, view>>,
           \A r \in Room : \/ rooms'[r] = rooms[r]
                           \/ Open(rooms[r]) /\ rooms'[r] = Closed
                           \/ Open(rooms[r]) /\ Turns(rooms[r], rooms'[r])
    PROVE  Told
<1>1. ASSUME NEW r \in Room, Open(rooms'[r])
      PROVE  /\ Open(rooms[r]) /\ Story(rooms'[r]) /\ Named(rooms[r], rooms'[r])
             /\ \A m \in MembersOf(rooms'[r]) : m[2] <= joins[m[1]]
             /\ rooms'[r] = rooms[r] \/ Turns(rooms[r], rooms'[r])
  <2>1. rooms'[r] = rooms[r] \/ (Open(rooms[r]) /\ Turns(rooms[r], rooms'[r]))
    BY <1>1 DEF Open
  <2>2. CASE rooms'[r] = rooms[r]
    BY <1>1, <2>2, StoryOf, NamedSame
  <2>3. CASE Open(rooms[r]) /\ Turns(rooms[r], rooms'[r])
    <3>1. MembersOf(rooms'[r]) \subseteq MembersOf(rooms[r])
      BY <2>3 DEF Turns, Named
    <3> QED
      BY <2>3, <3>1, StoryOf DEF Turns
  <2> QED
    BY <2>1, <2>2, <2>3
<1>2. Stories'
  BY <1>1 DEF Stories
<1>3. Viewed'
  <2> SUFFICES ASSUME view # None
               PROVE  /\ view.room \in Room /\ rooms'[view.room] # None
                      /\ Seen(view.what)
                      /\ Open(rooms'[view.room]) => Remembers(view.what, rooms'[view.room])
    BY DEF Viewed, Seen
  <2>1. /\ view.room \in Room /\ rooms[view.room] # None
        /\ Seen(view.what)
        /\ Open(rooms[view.room]) => Remembers(view.what, rooms[view.room])
    BY DEF PInv, Viewed
  <2>2. rooms'[view.room] # None
    BY <2>1 DEF Turns, Story, Document, Body, Scalars, NullAssumption
  <2>3. ASSUME Open(rooms'[view.room]) PROVE Remembers(view.what, rooms'[view.room])
    BY <1>1, <2>1, <2>3, RemembersOn, StoryOf DEF Story, Document
  <2> QED
    BY <2>1, <2>2, <2>3
<1>4. PInv'
  BY <1>2, <1>3 DEF PInv
<1>5. StartSupervised
  BY <1>1 DEF StartSupervised, Starts, Turns, Supervised
<1>6. RecoveryPauses
  <2> SUFFICES ASSUME NEW r \in Room, Open(rooms[r]), Open(rooms'[r]), rooms'[r].epoch # rooms[r].epoch
               PROVE  ~Playing(rooms'[r]) /\ rooms'[r].playGen > rooms[r].playGen
    BY DEF RecoveryPauses
  <2>1. Recovered(rooms[r], rooms'[r])
    BY <1>1 DEF Turns
  <2>2. rooms[r].playGen \in Nat /\ rooms'[r].playGen \in Nat
    BY <1>1, StoryOf, DocumentVersions DEF Story
  <2> QED
    BY <2>1, <2>2 DEF Recovered
<1>7. ShownChangeRevised
  BY <1>1 DEF ShownChangeRevised, Turns, Revised
<1> QED
  BY <1>4, <1>5, <1>6, <1>7 DEF Told

(* One room turns.                                                         *)
LEMMA RoomTold ==
    ASSUME NullAssumption, IInv, PInv, Outer', UNCHANGED <<joins, view>>,
           NEW r \in Room, Open(rooms[r]), NEW t, rooms' = [rooms EXCEPT ![r] = t], Turns(rooms[r], t)
    PROVE  Told
<1>1. \A q \in Room : rooms'[q] = IF q = r THEN t ELSE rooms[q]
  BY DEF IInv, Rows
<1> QED
  BY <1>1, RoomsTold

LEMMA OuterSame == ASSUME PInv, UNCHANGED <<active, blocks, world>> PROVE Outer'
BY DEF PInv, Outer, world

-----------------------------------------------------------------------------
(* A document that is persisted turns if it lulls, or starts supervised.   *)
LEMMA PersistFacts ==
    ASSUME NEW s, Document(s)
    PROVE  /\ Alike(s, Persist(s), {"rev"}) /\ Persist(s).rev # s.rev
           /\ Document(Persist(s)) /\ Named(s, Persist(s))
<1>1. Alike(s, Persist(s), {"rev"}) /\ Persist(s).rev = 1 - s.rev
  BY DEF Persist, Alike, Document, Body, Scalars, RoomFields
<1>2. s.rev \in {0, 1}
  BY DEF Document, Body, Scalars
<1> QED
  BY <1>1, <1>2, PersistLulled DEF Lulled

LEMMA PersistTurns ==
    ASSUME NEW s, Document(s), NEW x, Document(x), Named(s, x), Recovered(s, x), Supervised(s, x),
           x.rev = s.rev, Bounded(Persist(x))
    PROVE  Turns(s, Persist(x))
<1> DEFINE t == Persist(x)
<1>1. Alike(x, t, {"rev"}) /\ t.rev # x.rev /\ Document(t) /\ Named(x, t)
  BY PersistFacts
<1>2. Bounded(t)
  OBVIOUS
<1> HIDE DEF t
<1>3. Story(t) /\ Named(s, t)
  BY <1>1, <1>2, NamedTwice DEF Story, Document
<1>4. t.playGen = x.playGen /\ t.timeline = x.timeline /\ t.epoch = x.epoch /\ t.members = x.members /\ t.host = x.host
  BY <1>1 DEF Alike, RoomFields
<1>5. Recovered(s, t) /\ Supervised(s, t)
  BY <1>4 DEF Recovered, Supervised, Playing, HostPresent, MembersOf
<1>6. Revised(s, t)
  BY <1>1 DEF Revised
<1> QED
  BY <1>3, <1>5, <1>6 DEF Turns, t

LEMMA ChangeTold ==
    ASSUME NullAssumption, IInv, PInv, NEW r \in Room, Open(rooms[r]), NEW x, Change(r, x), Document(x),
           Named(rooms[r], x), Recovered(rooms[r], x), Supervised(rooms[r], x), x.rev = rooms[r].rev
    PROVE  Told
<1>1. Bounded(Persist(x)) /\ rooms' = [rooms EXCEPT ![r] = Persist(x)] /\ UNCHANGED <<joins, view>> /\ Outer'
  BY OuterSame DEF Change, Write, social
<1>2. Turns(rooms[r], Persist(x))
  BY <1>1, StoryOf, PersistTurns
<1> QED
  BY <1>1, <1>2, RoomTold

LEMMA CalmIsSupervised == ASSUME NEW s, NEW t, Calm(s, t) PROVE Supervised(s, t)
BY DEF Calm, Supervised

LEMMA LulledTold ==
    ASSUME NullAssumption, IInv, PInv, NEW r \in Room, Open(rooms[r]), NEW x, Change(r, x),
           Lulled(rooms[r], x), x.rev = rooms[r].rev
    PROVE  Told
BY ChangeTold, CalmIsSupervised DEF Lulled
-----------------------------------------------------------------------------
(* Only persisting a document gives it a new revision.                     *)
LEMMA PauseRev == ASSUME NEW s, DOMAIN s = RoomFields PROVE DOMAIN PauseRoom(s) = RoomFields /\ PauseRoom(s).rev = s.rev
BY DEF PauseRoom, RoomFields

LEMMA AdoptRev == ASSUME NEW s, Document(s) PROVE Adopt(s).rev = s.rev
<1> DEFINE t == [s EXCEPT !.epoch = epoch]
<1>1. DOMAIN t = RoomFields /\ t.rev = s.rev
  BY DEF Document, Body, Scalars, RoomFields
<1> QED
  BY <1>1, PauseRev DEF Adopt

LEMMA MemberRev ==
    ASSUME NEW s, Document(s), NEW m, NEW muted, NEW seq, NEW yes, NEW d
    PROVE  /\ TakenOver(s, m, d).rev = s.rev /\ Beaten(s, m, muted).rev = s.rev
           /\ Reported(s, m, seq, yes).rev = s.rev /\ Detached(s, m).rev = s.rev
<1>1. DOMAIN s = RoomFields
  BY DEF Document, Body, Scalars
<1>2. TakenOver(s, m, d).rev = s.rev
  BY <1>1 DEF TakenOver, RoomFields
<1>3. Beaten(s, m, muted).rev = s.rev
  BY <1>1 DEF Beaten, RoomFields
<1>4. Reported(s, m, seq, yes).rev = s.rev
  BY <1>1 DEF Reported, RoomFields
<1>5. Detached(s, m).rev = s.rev
  BY <1>1 DEF Detached, RoomFields
<1> QED
  BY <1>2, <1>3, <1>4, <1>5

-----------------------------------------------------------------------------
(* Control.                                                                *)
LEMMA TakeControlTold ==
    ASSUME Assumptions, IInv, PInv, NEW d \in Device, NEW r \in Room, NEW m, TakeControl(d, r, m)
    PROVE  Told
<1> DEFINE s == rooms[r]
           x == Taken(s, m, d)
<1>1. Open(s) /\ m \in MembersOf(s) /\ Change(r, x)
  BY DEF TakeControl, Addressed, Safe, Taken
<1>2. Document(s)
  BY <1>1, StoryOf
<1>3. Lulled(s, x)
  BY <1>1, <1>2, TakenLulled DEF Assumptions
<1>4. x.rev = s.rev
  <2>1. DOMAIN TakenOver(s, m, d) = RoomFields
    BY <1>2 DEF TakenOver, Document, Body, Scalars
  <2>2. TakenOver(s, m, d).rev = s.rev
    BY <1>2, MemberRev
  <2> QED
    BY <2>1, <2>2, PauseRev DEF Taken
<1> QED
  BY <1>1, <1>3, <1>4, LulledTold DEF Assumptions

LEMMA OfferTransferTold ==
    ASSUME Assumptions, IInv, PInv, NEW d, NEW r \in Room, NEW m, NEW target, NEW v,
           OfferTransfer(d, r, m, target, v)
    PROVE  Told
<1> DEFINE s == rooms[r]
           offer == [host |-> m, control |-> s.controlGen, target |-> target,
                     gen |-> s.members[target].gen, left |-> TransferTicks]
           x == [s EXCEPT !.transfer = offer]
<1>1. Open(s) /\ m \in MembersOf(s) /\ target \in MembersOf(s) /\ Change(r, x)
  BY DEF OfferTransfer, Addressed, Safe
<1>2. Document(s) /\ Bounded(s)
  BY <1>1, StoryOf
<1>3. offer \in OfferRecord
  <2>1. m \in Member /\ target \in Member
    BY <1>1, <1>2 DEF Document, Body, Peopled
  <2>2. s.controlGen \in Version /\ s.members[target].gen \in Version
    BY <1>1, <1>2 DEF Bounded
  <2>3. TransferTicks \in 0..TransferTicks
    BY DEF Assumptions, RoomsAssumption, TimingAssumption
  <2> QED
    BY <2>1, <2>2, <2>3 DEF OfferRecord
<1> HIDE DEF offer
<1>4. Alike(s, x, {"everyone", "controlGen", "transfer", "host", "absent"}) /\ x.transfer = offer
      /\ x.everyone = s.everyone /\ x.controlGen = s.controlGen /\ x.host = s.host /\ x.absent = s.absent
      /\ x.rev = s.rev
  BY <1>2 DEF Document, Body, Scalars, RoomFields, Alike
<1> HIDE DEF x
<1>5. Lulled(s, x)
  BY <1>2, <1>3, <1>4, ControlEdited DEF Document, Body, Scalars, Peopled
<1> QED
  BY <1>1, <1>4, <1>5, LulledTold DEF Assumptions

LEMMA CancelTransferTold ==
    ASSUME Assumptions, IInv, PInv, NEW d, NEW r \in Room, NEW m, CancelTransfer(d, r, m)
    PROVE  Told
<1> DEFINE s == rooms[r]
           x == [s EXCEPT !.transfer = None]
<1>1. Open(s) /\ Change(r, x)
  BY DEF CancelTransfer, Addressed, Safe
<1>2. Document(s)
  BY <1>1, StoryOf
<1>3. Alike(s, x, {"everyone", "controlGen", "transfer", "host", "absent"}) /\ x.transfer = None
      /\ x.everyone = s.everyone /\ x.controlGen = s.controlGen /\ x.host = s.host /\ x.absent = s.absent
      /\ x.rev = s.rev
  BY <1>2 DEF Document, Body, Scalars, RoomFields, Alike
<1> HIDE DEF x
<1>4. Lulled(s, x)
  BY <1>2, <1>3, ControlEdited DEF Document, Body, Scalars, Peopled
<1> QED
  BY <1>1, <1>3, <1>4, LulledTold DEF Assumptions

LEMMA SetControlModeTold ==
    ASSUME Assumptions, IInv, PInv, NEW d, NEW r \in Room, NEW m, NEW v, SetControlMode(d, r, m, v)
    PROVE  Told
<1> DEFINE s == rooms[r]
           x == [s EXCEPT !.everyone = ~@, !.controlGen = @ + 1, !.transfer = None]
<1>1. Open(s) /\ Change(r, x)
  BY DEF SetControlMode, Addressed, Safe
<1>2. Document(s)
  BY <1>1, StoryOf
<1>3. Alike(s, x, {"everyone", "controlGen", "transfer", "host", "absent"}) /\ x.transfer = None
      /\ x.everyone = ~s.everyone /\ x.controlGen = s.controlGen + 1 /\ x.host = s.host /\ x.absent = s.absent
      /\ x.rev = s.rev
  BY <1>2 DEF Document, Body, Scalars, RoomFields, Alike
<1> HIDE DEF x
<1>4. x.everyone \in BOOLEAN /\ s.absent \in Age \cup {None} /\ s.host \in MembersOf(s)
  BY <1>2, <1>3 DEF Document, Body, Scalars, Peopled
<1>5. x.controlGen # s.controlGen
  BY <1>2, <1>3, DocumentVersions
<1>6. Lulled(s, x)
  BY <1>2, <1>3, <1>4, <1>5, ControlEdited
<1> QED
  BY <1>1, <1>3, <1>6, LulledTold DEF Assumptions

-----------------------------------------------------------------------------
(* Members leave.                                                          *)
SameVersions(s, t) ==
    /\ t.playGen = s.playGen /\ t.controlGen = s.controlGen /\ t.queueRev = s.queueRev
    /\ \A m \in MembersOf(t) : m \in MembersOf(s) /\ t.members[m].gen = s.members[m].gen

LEMMA StillBounded == ASSUME NEW s, Bounded(s), NEW t, SameVersions(s, t) PROVE Bounded(t)
BY DEF Bounded, SameVersions

LEMMA LulledTurns ==
    ASSUME NEW s, NEW t, Lulled(s, t), Bounded(t), Revised(s, t)
    PROVE  Turns(s, t)
BY CalmIsSupervised DEF Lulled, Turns, Story

LEMMA WithoutMemberVersions ==
    ASSUME NEW s, Document(s), IsRoom(s), NEW m
    PROVE  SameVersions(s, WithoutMember(s, m)) /\ WithoutMember(s, m).rev # s.rev
<1> DEFINE t == WithoutMember(s, m)
<1>1. t.playGen = s.playGen /\ t.controlGen = s.controlGen /\ t.queueRev = s.queueRev /\ t.rev = 1 - s.rev
  BY DEF WithoutMember, Persist, Document, Body, Scalars, RoomFields
<1>2. MembersOf(t) = MembersOf(s) \ {m} /\ \A x \in MembersOf(t) : t.members[x] = s.members[x]
  BY WithoutMemberFacts
<1>3. s.rev \in {0, 1}
  BY DEF Document, Body, Scalars
<1> HIDE DEF t
<1>4. SameVersions(s, t) /\ t.rev # s.rev
  BY <1>1, <1>2, <1>3 DEF SameVersions
<1> QED
  BY <1>4 DEF t

LEMMA WithoutMemberTurns ==
    ASSUME RoomsAssumption, PrepAssumption, NEW s, Story(s), IsRoom(s), NEW m \in MembersOf(s), m # s.host
    PROVE  Turns(s, WithoutMember(s, m))
<1> DEFINE t == WithoutMember(s, m)
<1>1. Lulled(s, t)
  BY WithoutMemberLulled DEF Story
<1>2. Bounded(t) /\ t.rev # s.rev
  BY WithoutMemberVersions, StillBounded DEF Story
<1> HIDE DEF t
<1>3. Turns(s, t)
  BY <1>1, <1>2, LulledTurns DEF Revised
<1> QED
  BY <1>3 DEF t

LEMMA ExpelTold ==
    ASSUME Assumptions, PrepAssumption, IInv, PInv, NEW gone, Ends(gone), NEW drop, Expel(gone, drop),
           Outer', UNCHANGED <<joins, view>>
    PROVE  Told
<1>1. ASSUME NEW r \in Room
      PROVE  \/ rooms'[r] = rooms[r]
             \/ Open(rooms[r]) /\ rooms'[r] = Closed
             \/ Open(rooms[r]) /\ Turns(rooms[r], rooms'[r])
  <2>1. rooms'[r] = IF r \in ClosedBy(gone) THEN Closed
                    ELSE IF \E m \in Member : <<r, m>> \in gone
                    THEN WithoutMember(rooms[r], CHOOSE m \in Member : <<r, m>> \in gone)
                    ELSE rooms[r]
    BY DEF Expel
  <2>2. CASE r \in ClosedBy(gone)
    <3>1. Open(rooms[r])
      BY <2>2 DEF ClosedBy, Ends
    <3> QED
      BY <2>1, <2>2, <3>1
  <2>3. CASE r \notin ClosedBy(gone) /\ \E m \in Member : <<r, m>> \in gone
    <3> DEFINE m == CHOOSE y \in Member : <<r, y>> \in gone
    <3>1. m \in Member /\ <<r, m>> \in gone /\ rooms'[r] = WithoutMember(rooms[r], m)
      BY <2>1, <2>3
    <3> HIDE DEF m
    <3>2. Open(rooms[r]) /\ m \in MembersOf(rooms[r]) /\ m # rooms[r].host
      BY <2>3, <3>1 DEF Ends, ClosedBy
    <3>3. IsRoom(rooms[r]) /\ Story(rooms[r])
      BY <3>2, OpenIsSound, StoryOf
    <3> QED
      BY <3>1, <3>2, <3>3, WithoutMemberTurns DEF Assumptions
  <2>4. CASE r \notin ClosedBy(gone) /\ ~\E m \in Member : <<r, m>> \in gone
    BY <2>1, <2>4
  <2> QED
    BY <2>2, <2>3, <2>4
<1> QED
  BY <1>1, RoomsTold DEF Assumptions

LEMMA ExpelOneTold ==
    ASSUME Assumptions, PrepAssumption, IInv, PInv, NEW r \in Room, Open(rooms[r]),
           NEW m \in MembersOf(rooms[r]), Expel({<<r, m>>}, {}), UNCHANGED <<social, world, joins, view>>
    PROVE  Told
<1> DEFINE gone == {<<r, m>>}
<1>1. m \in Member
  BY StoryOf DEF Body, Peopled
<1>2. Ends(gone) /\ Expel(gone, {})
  BY <1>1 DEF Ends
<1> HIDE DEF gone
<1>3. Outer' /\ UNCHANGED <<joins, view>>
  BY OuterSame DEF social
<1> QED
  BY <1>2, <1>3, ExpelTold

LEMMA LeaveTold ==
    ASSUME Assumptions, PrepAssumption, IInv, PInv, NEW d, NEW r \in Room, NEW m, NEW target,
           Leave(d, r, m) \/ End(d, r, m) \/ Kick(d, r, m, target)
    PROVE  Told
BY ExpelOneTold DEF Leave, End, Kick, Addressed, Safe

LEMMA BlockTold ==
    ASSUME Assumptions, PrepAssumption, IInv, PInv, NEW a \in Account, NEW b \in Account, Block(a, b)
    PROVE  Told
<1>1. a # b /\ blocks' = blocks \cup {<<a, b>>} /\ Expel(Separated(a, b), Between(a, b))
      /\ UNCHANGED <<active, world, joins, view>>
  BY DEF Block
<1>2. Ends(Separated(a, b))
  BY <1>1, SeparatedEnd DEF Assumptions
<1>3. Outer'
  BY <1>1 DEF PInv, Outer, world
<1> QED
  BY <1>1, <1>2, <1>3, ExpelTold

LEMMA UnfriendTold ==
    ASSUME Assumptions, PrepAssumption, IInv, PInv, NEW a \in Account, NEW b \in Account, Unfriend(a, b)
    PROVE  Told
<1>1. Expel({}, Between(a, b)) /\ UNCHANGED <<blocks, active, world, joins, view>>
  BY DEF Unfriend
<1>2. Ends({})
  BY DEF Ends
<1> QED
  BY <1>1, <1>2, OuterSame, ExpelTold

LEMMA DeactivateTold ==
    ASSUME Assumptions, PrepAssumption, IInv, PInv, NEW a \in Account, Deactivate(a)
    PROVE  Told
<1>1. Expel(Memberships(a), Involving(a)) /\ active' = active \ {a} /\ UNCHANGED <<blocks, world, joins, view>>
  BY DEF Deactivate
<1>2. Ends(Memberships(a))
  BY MembershipsEnd DEF Assumptions
<1>3. Outer'
  BY <1>1 DEF PInv, Outer, world
<1> QED
  BY <1>1, <1>2, <1>3, ExpelTold

LEMMA LogoutAllTold ==
    ASSUME Assumptions, PrepAssumption, IInv, PInv, NEW a \in Account, LogoutAll(a)
    PROVE  Told
<1>1. /\ Expel(Memberships(a), Involving(a))
      /\ sessions' = [x \in Session |->
                         IF x \in SessionsOf(a) /\ sessions[x] = "live" THEN "revoked" ELSE sessions[x]]
      /\ UNCHANGED <<active, blocks, epoch, enabled, media, joins, view>>
  BY DEF LogoutAll, social
<1>2. Ends(Memberships(a))
  BY MembershipsEnd DEF Assumptions
<1>3. sessions' \in [Session -> {"unused", "live", "revoked"}]
  BY <1>1 DEF PInv, Outer
<1>4. Outer'
  BY <1>1, <1>3 DEF PInv, Outer
<1> QED
  BY <1>1, <1>2, <1>4, ExpelTold

(* acceptTransfer: the new host takes the room before the old one leaves.  *)
LEMMA AcceptTransferTold ==
    ASSUME Assumptions, PrepAssumption, IInv, PInv, NEW d, NEW r \in Room, NEW m, AcceptTransfer(d, r, m)
    PROVE  Told
<1> DEFINE s == rooms[r]
           handed == [s EXCEPT !.host = m, !.controlGen = @ + 1, !.transfer = None, !.absent = None]
           stopped == IF s.prep # None THEN PauseRoom(handed) ELSE handed
           t == WithoutMember(stopped, s.host)
<1>1. /\ Open(s) /\ m \in MembersOf(s) /\ Consent(s, m) /\ rooms' = [rooms EXCEPT ![r] = t] /\ Bounded(t)
      /\ UNCHANGED <<active, blocks, world, joins, view>>
  BY DEF AcceptTransfer, Addressed, Write, Safe, social
<1>2. Document(s) /\ Sound(s, sessions)
  BY <1>1, StoryOf, OpenIsSound
<1>3. m # s.host /\ s.host \in MembersOf(s)
  BY <1>1, <1>2 DEF Consent, Sound, OfferCurrent, Document, Body, Peopled
<1>4. Alike(s, handed, {"everyone", "controlGen", "transfer", "host", "absent"}) /\ handed.transfer = None
      /\ handed.everyone = s.everyone /\ handed.controlGen = s.controlGen + 1 /\ handed.host = m
      /\ handed.absent = None /\ handed.rev = s.rev
  BY <1>2 DEF Document, Body, Scalars, RoomFields, Alike
<1> HIDE DEF handed
<1>5. handed.controlGen # s.controlGen /\ s.everyone \in BOOLEAN
  BY <1>2, <1>4, DocumentVersions DEF Document, Body, Scalars
<1>6. Lulled(s, handed)
  BY <1>1, <1>2, <1>4, <1>5, ControlEdited
<1>7. Lulled(s, stopped) /\ stopped.host = m /\ stopped.members = s.members /\ stopped.rev = s.rev
  <2>1. handed.members = s.members /\ DOMAIN handed = RoomFields
    BY <1>4 DEF Alike, RoomFields
  <2>2. PauseRoom(handed).host = m /\ PauseRoom(handed).members = s.members /\ PauseRoom(handed).rev = s.rev
    BY <1>4, <2>1 DEF PauseRoom, RoomFields
  <2>3. Lulled(s, PauseRoom(handed))
    BY <1>2, <1>6, PauseLulled, LulledTwice DEF Lulled, Assumptions
  <2> QED
    BY <1>4, <1>6, <2>1, <2>2, <2>3
<1>8. IsRoom(stopped)
  <2>1. IsRoom(s) /\ DOMAIN stopped = RoomFields
    BY <1>2, <1>7 DEF Sound, Lulled, Document, Body, Scalars
  <2>2. stopped.transfer = None
    BY <1>4 DEF PauseRoom, Alike, RoomFields
  <2> QED
    BY <1>7, <2>1, <2>2 DEF IsRoom, MembersOf
<1> HIDE DEF stopped
<1>9. Document(stopped) /\ s.host \in MembersOf(stopped) /\ s.host # stopped.host
  BY <1>3, <1>7 DEF Lulled, MembersOf
<1>10. Lulled(stopped, t) /\ t.rev # stopped.rev
  BY <1>8, <1>9, WithoutMemberLulled, WithoutMemberVersions DEF Assumptions
<1> HIDE DEF t
<1>11. Turns(s, t)
  BY <1>1, <1>2, <1>7, <1>10, LulledTwice, LulledTurns DEF Revised
<1> QED
  BY <1>1, <1>11, OuterSame, RoomTold DEF Assumptions

-----------------------------------------------------------------------------
(* The queue and the requests.                                             *)
LEMMA IndexFacts ==
    ASSUME NEW s, Listed(s), NEW id \in EntryIds(s)
    PROVE  IndexOf(s, id) \in 1..Len(s.queue) /\ s.queue[IndexOf(s, id)].id = id
<1>1. \E i \in DOMAIN s.queue : s.queue[i].id = id
  BY DEF EntryIds
<1>2. DOMAIN s.queue = 1..Len(s.queue)
  BY DEF Listed
<1> QED
  BY <1>1, <1>2 DEF IndexOf

LEMMA AppendedListed ==
    ASSUME RoomsAssumption, NEW s, Listed(s), Len(s.queue) < MaxQueue, s.entries < MaxEntries,
           NEW entry \in EntryRecord, entry.id = s.entries + 1,
           NEW t, t.queue = Append(s.queue, entry), t.entries = s.entries + 1, t.timeline = s.timeline
    PROVE  Listed(t)
<1> DEFINE n == Len(s.queue)
<1>1. /\ n \in Nat /\ MaxQueue \in Nat /\ MaxEntries \in Nat /\ n >= 1
      /\ s.entries \in 1..MaxEntries /\ DOMAIN s.queue = 1..n
  BY DEF Listed, RoomsAssumption, EntryId
<1>2. /\ t.queue \in Seq(EntryRecord) /\ Len(t.queue) = n + 1 /\ DOMAIN t.queue = 1..(n + 1)
      /\ \A i \in 1..n : t.queue[i] = s.queue[i]
      /\ t.queue[n + 1] = entry
  BY DEF Listed
<1> HIDE DEF n
<1>3. Len(t.queue) \in 1..MaxQueue /\ t.entries \in EntryId
  BY <1>1, <1>2 DEF EntryId, n
<1>4. \A i \in 1..n : s.queue[i].id \in 1..s.entries
  <2>1. \A i \in 1..n : s.queue[i] \in EntryRecord /\ s.queue[i].id <= s.entries
    BY <1>1 DEF Listed
  <2>2. \A i \in 1..n : s.queue[i].id \in 1..MaxEntries
    BY <2>1 DEF EntryRecord, EntryId
  <2> QED
    BY <1>1, <2>1, <2>2
<1>5. \A i \in 1..(n + 1) : t.queue[i].id = IF i = n + 1 THEN s.entries + 1 ELSE s.queue[i].id
  BY <1>1, <1>2
<1>6. \A i \in DOMAIN t.queue : t.queue[i].id <= t.entries
  BY <1>1, <1>2, <1>4, <1>5
<1>7. \A i, j \in DOMAIN t.queue : t.queue[i].id = t.queue[j].id => i = j
  <2>1. \A i, j \in 1..n : s.queue[i].id = s.queue[j].id => i = j
    BY <1>1 DEF Listed
  <2> QED
    BY <1>1, <1>2, <1>4, <1>5, <2>1
<1>8. t.timeline.entry \in EntryIds(t)
  <2>1. PICK i \in 1..n : s.queue[i].id = s.timeline.entry
    BY <1>1 DEF Listed, EntryIds
  <2>2. i \in DOMAIN t.queue /\ t.queue[i].id = t.timeline.entry
    BY <1>1, <1>2, <2>1
  <2> QED
    BY <2>2 DEF EntryIds
<1> QED
  BY <1>2, <1>3, <1>6, <1>7, <1>8 DEF Listed

(* What is left of a queue without its k-th entry.                         *)
Without(queue, k) == SubSeq(queue, 1, k - 1) \o SubSeq(queue, k + 1, Len(queue))
Shifted(k, i) == IF i < k THEN i ELSE i + 1

LEMMA WithoutFacts ==
    ASSUME NEW queue \in Seq(EntryRecord), NEW k \in 1..Len(queue)
    PROVE  /\ Without(queue, k) \in Seq(EntryRecord) /\ Len(Without(queue, k)) = Len(queue) - 1
           /\ \A i \in 1..(Len(queue) - 1) : Without(queue, k)[i] = queue[Shifted(k, i)]
<1> DEFINE n == Len(queue)
           before == SubSeq(queue, 1, k - 1)
           after == SubSeq(queue, k + 1, n)
           new == before \o after
<1>1. n \in Nat /\ k \in Int /\ 1 <= k /\ k <= n /\ \A i \in 1..n : queue[i] \in EntryRecord
  OBVIOUS
<1> HIDE DEF n
<1>2. /\ before \in Seq(EntryRecord) /\ Len(before) = k - 1
      /\ \A i \in 1..(k - 1) : before[i] = queue[i]
  <2>1. \A i \in 1..(k - 1) : queue[i] \in EntryRecord
    BY <1>1
  <2>2. 1 \in Int /\ k - 1 \in Int
    BY <1>1
  <2>3. /\ before \in Seq(EntryRecord)
        /\ Len(before) = IF 1 <= k - 1 THEN (k - 1) - 1 + 1 ELSE 0
        /\ \A i \in 1..((k - 1) - 1 + 1) : before[i] = queue[1 + i - 1]
    BY <2>1, <2>2, SubSeqProperties
  <2> HIDE DEF before
  <2> QED
    BY <1>1, <2>3
<1>3. /\ after \in Seq(EntryRecord) /\ Len(after) = n - k
      /\ \A i \in 1..(n - k) : after[i] = queue[k + i]
  <2>1. \A i \in (k + 1)..n : queue[i] \in EntryRecord
    BY <1>1
  <2>2. k + 1 \in Int /\ n \in Int
    BY <1>1
  <2>3. /\ after \in Seq(EntryRecord)
        /\ Len(after) = IF k + 1 <= n THEN n - (k + 1) + 1 ELSE 0
        /\ \A i \in 1..(n - (k + 1) + 1) : after[i] = queue[(k + 1) + i - 1]
    BY <2>1, <2>2, SubSeqProperties
  <2> HIDE DEF after
  <2> QED
    BY <1>1, <2>3
<1> HIDE DEF before, after
<1>4. /\ new \in Seq(EntryRecord) /\ Len(new) = Len(before) + Len(after)
      /\ \A i \in 1..(Len(before) + Len(after)) :
            new[i] = IF i <= Len(before) THEN before[i] ELSE after[i - Len(before)]
  BY <1>2, <1>3, ConcatProperties
<1> HIDE DEF new
<1>5. Len(before) + Len(after) = n - 1
  BY <1>1, <1>2, <1>3
<1>6. ASSUME NEW i \in 1..(n - 1) PROVE new[i] = queue[Shifted(k, i)]
  <2>1. i \in 1..(Len(before) + Len(after))
    BY <1>5
  <2>2. new[i] = IF i <= k - 1 THEN before[i] ELSE after[i - (k - 1)]
    BY <1>2, <1>4, <2>1
  <2>3. CASE i < k
    BY <1>1, <1>2, <2>2, <2>3 DEF Shifted
  <2>4. CASE ~(i < k)
    <3>1. i - (k - 1) \in 1..(n - k) /\ k + (i - (k - 1)) = i + 1 /\ ~(i <= k - 1)
      BY <1>1, <2>4
    <3> QED
      BY <1>3, <2>2, <2>4, <3>1 DEF Shifted
  <2> QED
    BY <2>3, <2>4
<1> QED
  BY <1>4, <1>5, <1>6 DEF Without, new, before, after, n

LEMMA ShiftedFacts ==
    ASSUME NEW n \in Nat, NEW k \in 1..n
    PROVE  /\ \A i \in 1..(n - 1) : Shifted(k, i) \in 1..n
           /\ \A i, j \in 1..(n - 1) : Shifted(k, i) = Shifted(k, j) => i = j
           /\ \A c \in 1..n : c # k => \E i \in 1..(n - 1) : Shifted(k, i) = c
<1>1. \A i \in 1..(n - 1) : Shifted(k, i) \in 1..n
  BY DEF Shifted
<1>2. \A i, j \in 1..(n - 1) : Shifted(k, i) = Shifted(k, j) => i = j
  BY DEF Shifted
<1>3. ASSUME NEW c \in 1..n, c # k PROVE \E i \in 1..(n - 1) : Shifted(k, i) = c
  <2>1. CASE c < k
    <3>1. c \in 1..(n - 1) /\ Shifted(k, c) = c
      BY <2>1 DEF Shifted
    <3> QED
      BY <3>1
  <2>2. CASE c > k
    <3>1. c - 1 \in 1..(n - 1) /\ Shifted(k, c - 1) = c
      BY <2>2 DEF Shifted
    <3> QED
      BY <3>1
  <2> QED
    BY <1>3, <2>1, <2>2
<1> QED
  BY <1>1, <1>2, <1>3

(* An index map of a new queue into the old one keeps the list sound.      *)
LEMMA Relisted ==
    ASSUME NEW s, Listed(s), NEW t, t.entries = s.entries, t.timeline = s.timeline,
           t.queue \in Seq(EntryRecord), Len(t.queue) \in 1..MaxQueue,
           NEW from \in [1..Len(t.queue) -> 1..Len(s.queue)],
           \A i \in 1..Len(t.queue) : t.queue[i] = s.queue[from[i]],
           \A i, j \in 1..Len(t.queue) : from[i] = from[j] => i = j,
           \E i \in 1..Len(t.queue) : s.queue[from[i]].id = s.timeline.entry
    PROVE  Listed(t)
<1>1. DOMAIN t.queue = 1..Len(t.queue) /\ DOMAIN s.queue = 1..Len(s.queue)
  BY DEF Listed
<1>2. /\ \A i \in 1..Len(s.queue) : s.queue[i].id <= s.entries
      /\ \A i, j \in 1..Len(s.queue) : s.queue[i].id = s.queue[j].id => i = j
      /\ s.entries \in EntryId /\ s.timeline \in TimelineRecord
  BY <1>1 DEF Listed
<1>3. \A i \in DOMAIN t.queue : t.queue[i].id <= t.entries
  BY <1>1, <1>2
<1>4. \A i, j \in DOMAIN t.queue : t.queue[i].id = t.queue[j].id => i = j
  <2> SUFFICES ASSUME NEW i \in 1..Len(t.queue), NEW j \in 1..Len(t.queue), t.queue[i].id = t.queue[j].id
               PROVE  from[i] = from[j]
    BY <1>1
  <2>1. from[i] \in 1..Len(s.queue) /\ from[j] \in 1..Len(s.queue)
    OBVIOUS
  <2>2. t.queue[i] = s.queue[from[i]] /\ t.queue[j] = s.queue[from[j]]
    OBVIOUS
  <2> QED
    BY <1>2, <2>1, <2>2
<1>5. t.timeline.entry \in EntryIds(t)
  BY <1>1 DEF EntryIds
<1> QED
  BY <1>2, <1>3, <1>4, <1>5 DEF Listed

(* One entry, not the current one, is taken out.                           *)
LEMMA RemovedListed ==
    ASSUME RoomsAssumption, NEW s, Listed(s), NEW k \in 1..Len(s.queue), s.queue[k].id # s.timeline.entry,
           NEW t, t.queue = Without(s.queue, k), t.entries = s.entries, t.timeline = s.timeline
    PROVE  Listed(t)
<1> DEFINE n == Len(s.queue)
           from == [i \in 1..(n - 1) |-> Shifted(k, i)]
<1>1. n \in Nat /\ MaxQueue \in Nat /\ n <= MaxQueue /\ DOMAIN s.queue = 1..n
  BY DEF Listed, RoomsAssumption
<1>2. PICK c \in 1..n : s.queue[c].id = s.timeline.entry
  BY <1>1 DEF Listed, EntryIds
<1>3. t.queue \in Seq(EntryRecord) /\ Len(t.queue) = n - 1
      /\ \A i \in 1..(n - 1) : t.queue[i] = s.queue[Shifted(k, i)]
  BY WithoutFacts DEF Listed
<1>4. /\ \A i \in 1..(n - 1) : Shifted(k, i) \in 1..n
      /\ \A i, j \in 1..(n - 1) : Shifted(k, i) = Shifted(k, j) => i = j
      /\ \E i \in 1..(n - 1) : Shifted(k, i) = c
  <2>1. c # k
    BY <1>2
  <2>2. /\ \A i \in 1..(n - 1) : Shifted(k, i) \in 1..n
        /\ \A i, j \in 1..(n - 1) : Shifted(k, i) = Shifted(k, j) => i = j
        /\ \A x \in 1..n : x # k => \E i \in 1..(n - 1) : Shifted(k, i) = x
    BY <1>1, ShiftedFacts
  <2> QED
    BY <2>1, <2>2
<1>5. n - 1 \in 1..MaxQueue
  BY <1>1, <1>4
<1>6. from \in [1..(n - 1) -> 1..n] /\ \A i \in 1..(n - 1) : from[i] = Shifted(k, i)
  BY <1>4
<1> HIDE DEF n, from
<1>7. /\ \A i \in 1..(n - 1) : t.queue[i] = s.queue[from[i]]
      /\ \A i, j \in 1..(n - 1) : from[i] = from[j] => i = j
      /\ \E i \in 1..(n - 1) : s.queue[from[i]].id = s.timeline.entry
  BY <1>2, <1>3, <1>4, <1>6
<1>8. /\ from \in [1..Len(t.queue) -> 1..Len(s.queue)] /\ Len(t.queue) \in 1..MaxQueue
      /\ \A i \in 1..Len(t.queue) : t.queue[i] = s.queue[from[i]]
      /\ \A i, j \in 1..Len(t.queue) : from[i] = from[j] => i = j
      /\ \E i \in 1..Len(t.queue) : s.queue[from[i]].id = s.timeline.entry
  BY <1>3, <1>5, <1>6, <1>7 DEF n
<1> QED
  BY <1>3, <1>8, Relisted

(* Every entry stays, in another order: as many places as entries, no      *)
(* entry twice, so none is missing.                                        *)
LEMMA ReorderedListed ==
    ASSUME NEW s, Listed(s), NEW order \in Orders(s),
           NEW t, t.queue = [i \in DOMAIN order |-> EntryOf(s, order[i])], t.entries = s.entries,
           t.timeline = s.timeline
    PROVE  Listed(t)
<1> DEFINE n == Len(s.queue)
           from == [i \in 1..n |-> IndexOf(s, order[i])]
<1>1. n \in Nat /\ n \in 1..MaxQueue /\ DOMAIN s.queue = 1..n /\ \A i \in 1..n : s.queue[i] \in EntryRecord
  BY DEF Listed
<1>2. /\ DOMAIN order = 1..n /\ \A i \in 1..n : order[i] \in EntryIds(s)
      /\ \A i, j \in 1..n : i # j => order[i] # order[j]
  BY <1>1 DEF Orders
<1>3. \A i \in 1..n : IndexOf(s, order[i]) \in 1..n /\ s.queue[IndexOf(s, order[i])].id = order[i]
  BY <1>2, IndexFacts
<1>4. from \in [1..n -> 1..n] /\ \A i \in 1..n : from[i] = IndexOf(s, order[i])
  BY <1>3
<1>5. t.queue = [i \in 1..n |-> s.queue[from[i]]]
  BY <1>2, <1>4 DEF EntryOf
<1> HIDE DEF n, from
<1>6. \A i, j \in 1..n : from[i] = from[j] => i = j
  BY <1>2, <1>3, <1>4
<1>7. from \in Injection(1..n, 1..n)
  BY <1>4, <1>6 DEF Injection, IsInjective
<1>8. \A c \in 1..n : \E i \in 1..n : from[i] = c
  <2>1. IsFiniteSet(1..n)
    BY <1>1, FS_Interval
  <2>2. from \in Surjection(1..n, 1..n)
    BY <1>7, <2>1, FS_Injection
  <2> QED
    BY <2>2 DEF Surjection
<1>9. PICK c \in 1..n : s.queue[c].id = s.timeline.entry
  BY <1>1 DEF Listed, EntryIds
<1>10. \E i \in 1..n : s.queue[from[i]].id = s.timeline.entry
  BY <1>8, <1>9
<1>11. t.queue \in Seq(EntryRecord) /\ Len(t.queue) = n /\ \A i \in 1..n : t.queue[i] = s.queue[from[i]]
  <2>1. \A i \in 1..n : s.queue[from[i]] \in EntryRecord
    BY <1>1, <1>4
  <2> QED
    BY <1>1, <1>5, <2>1
<1>12. /\ from \in [1..Len(t.queue) -> 1..Len(s.queue)] /\ Len(t.queue) \in 1..MaxQueue
       /\ \A i \in 1..Len(t.queue) : t.queue[i] = s.queue[from[i]]
       /\ \A i, j \in 1..Len(t.queue) : from[i] = from[j] => i = j
       /\ \E i \in 1..Len(t.queue) : s.queue[from[i]].id = s.timeline.entry
  BY <1>1, <1>4, <1>6, <1>10, <1>11 DEF n
<1> QED
  BY <1>11, <1>12, Relisted

LEMMA RequestSongTold ==
    ASSUME Assumptions, IInv, PInv, NEW d, NEW r \in Room, NEW m, NEW track \in Track, NEW v,
           RequestSong(d, r, m, track, v)
    PROVE  Told
<1> DEFINE s == rooms[r]
           request == [by |-> m, track |-> track, media |-> media[track].revision]
           x == [s EXCEPT !.requests = @ \cup {request}]
<1>1. Open(s) /\ m \in MembersOf(s) /\ Cardinality(s.requests) < MaxSongRequests /\ Change(r, x)
  BY DEF RequestSong, Addressed, Safe
<1>2. Document(s)
  BY <1>1, StoryOf
<1>3. request \in RequestRecord
  <2>1. m \in Member
    BY <1>1, <1>2 DEF Document, Body, Peopled
  <2>2. media[track].revision \in 1..MaxMedia
    BY DEF PInv, Outer
  <2> QED
    BY <2>1, <2>2 DEF RequestRecord
<1> HIDE DEF request
<1>4. Alike(s, x, {"requests"}) /\ x.requests = s.requests \cup {request} /\ x.rev = s.rev
  BY <1>2 DEF Document, Body, Scalars, RoomFields, Alike
<1> HIDE DEF x
<1>5. Asked(x)
  <2>1. s.requests \subseteq RequestRecord /\ IsFiniteSet(s.requests)
    BY <1>2 DEF Document, Body, Asked
  <2>2. IsFiniteSet(x.requests)
        /\ Cardinality(x.requests) = IF request \in s.requests THEN Cardinality(s.requests)
                                     ELSE Cardinality(s.requests) + 1
    BY <1>4, <2>1, FS_AddElement
  <2>3. Cardinality(s.requests) \in Nat /\ MaxSongRequests \in Nat
    BY <2>1, FS_CardinalityType DEF Assumptions, RoomsAssumption
  <2> QED
    BY <1>1, <1>3, <1>4, <2>1, <2>2, <2>3 DEF Asked
<1>6. Lulled(s, x)
  BY <1>2, <1>4, <1>5, RequestsEdited
<1> QED
  BY <1>1, <1>4, <1>6, LulledTold DEF Assumptions

LEMMA DismissSongRequestTold ==
    ASSUME Assumptions, IInv, PInv, NEW d, NEW r \in Room, NEW m, NEW q, DismissSongRequest(d, r, m, q)
    PROVE  Told
<1> DEFINE s == rooms[r]
           x == [s EXCEPT !.requests = @ \ {q}]
<1>1. Open(s) /\ Change(r, x)
  BY DEF DismissSongRequest, Addressed, Safe
<1>2. Document(s)
  BY <1>1, StoryOf
<1>3. Alike(s, x, {"requests"}) /\ x.requests = s.requests \ {q} /\ x.rev = s.rev
  BY <1>2 DEF Document, Body, Scalars, RoomFields, Alike
<1> HIDE DEF x
<1>4. Asked(x)
  BY <1>2, <1>3, FewerRequests DEF Document, Body, Asked, Assumptions, RoomsAssumption
<1>5. Lulled(s, x)
  BY <1>2, <1>3, <1>4, RequestsEdited
<1> QED
  BY <1>1, <1>3, <1>5, LulledTold DEF Assumptions

(* The accepted song becomes a new occurrence at the end of the queue.     *)
LEMMA AcceptSongRequestTold ==
    ASSUME Assumptions, IInv, PInv, NEW d, NEW r \in Room, NEW m, NEW q, NEW v,
           AcceptSongRequest(d, r, m, q, v)
    PROVE  Told
<1> DEFINE s == rooms[r]
           entry == NewEntry(s.entries + 1, q.track, q.media, q.by)
           queue == Append(s.queue, entry)
           x == [Requeued(s, queue) EXCEPT !.requests = @ \ {q}, !.entries = @ + 1]
<1>1. /\ Open(s) /\ q \in s.requests /\ q.by \in MembersOf(s) /\ Len(s.queue) < MaxQueue
      /\ s.entries < MaxEntries /\ Change(r, x)
  BY DEF AcceptSongRequest, Edits, Addressed, Safe, QueueHasRoom
<1>2. Document(s)
  BY <1>1, StoryOf
<1>3. entry \in EntryRecord /\ entry.id = s.entries + 1
  <2>1. q \in RequestRecord /\ s.entries \in 1..MaxEntries /\ MaxEntries \in Nat
    BY <1>1, <1>2 DEF Document, Body, Asked, Listed, EntryId, Assumptions, RoomsAssumption
  <2>2. s.entries + 1 \in EntryId
    BY <1>1, <2>1 DEF EntryId
  <2> DEFINE id == s.entries + 1
  <2> HIDE DEF id
  <2>3. LET new == NewEntry(id, q.track, q.media, q.by) IN new \in EntryRecord /\ new.id = id
    BY <2>1, <2>2 DEF NewEntry, EntryRecord, RequestRecord, id
  <2> QED
    BY <2>3 DEF id
<1> HIDE DEF entry
<1>4. /\ Alike(s, x, {"queue", "queueRev", "entries", "requests"}) /\ x.rev = s.rev
      /\ x.queue = queue /\ x.queueRev = s.queueRev + 1 /\ x.entries = s.entries + 1
      /\ x.requests = s.requests \ {q}
  <2> HIDE DEF queue
  <2> QED
    BY <1>2 DEF Requeued, Document, Body, Scalars, RoomFields, Alike
<1> HIDE DEF x
<1>5. Listed(x)
  <2>1. x.timeline = s.timeline
    BY <1>4 DEF Alike, RoomFields
  <2>2. Listed(s)
    BY <1>2 DEF Document, Body
  <2> QED
    BY <1>1, <1>3, <1>4, <2>1, <2>2, AppendedListed DEF Assumptions
<1>6. Asked(x)
  BY <1>2, <1>4, FewerRequests DEF Document, Body, Asked, Assumptions, RoomsAssumption
<1> HIDE DEF queue
<1>7. Lulled(s, x)
  BY <1>2, <1>4, <1>5, <1>6, QueueEdited
<1> QED
  BY <1>1, <1>4, <1>7, LulledTold DEF Assumptions

(* The queue alone is rewritten.                                           *)
LEMMA RequeuedTold ==
    ASSUME Assumptions, IInv, PInv, NEW r \in Room, Open(rooms[r]), NEW queue, Change(r, Requeued(rooms[r], queue)),
           \A t : /\ t.queue = queue /\ t.entries = rooms[r].entries /\ t.timeline = rooms[r].timeline
                  => Listed(t)
    PROVE  Told
<1> DEFINE s == rooms[r]
           x == Requeued(s, queue)
<1>1. Document(s)
  BY StoryOf
<1>2. /\ Alike(s, x, {"queue", "queueRev", "entries", "requests"}) /\ x.rev = s.rev
      /\ x.queue = queue /\ x.queueRev = s.queueRev + 1 /\ x.entries = s.entries
      /\ x.requests = s.requests /\ x.timeline = s.timeline
  BY <1>1 DEF Requeued, Document, Body, Scalars, RoomFields, Alike
<1>3. Change(r, x)
  OBVIOUS
<1> HIDE DEF x
<1>4. Listed(x) /\ Asked(x)
  BY <1>1, <1>2 DEF Document, Body, Asked
<1>5. Lulled(s, x)
  BY <1>1, <1>2, <1>4, QueueEdited
<1> QED
  BY <1>2, <1>3, <1>5, LulledTold DEF Assumptions

LEMMA RemoveQueueEntryTold ==
    ASSUME Assumptions, IInv, PInv, NEW d, NEW r \in Room, NEW m, NEW id, NEW v,
           RemoveQueueEntry(d, r, m, id, v)
    PROVE  Told
<1> DEFINE s == rooms[r]
           k == IndexOf(s, id)
           queue == Without(s.queue, k)
<1>1. Open(s) /\ id # s.timeline.entry /\ id \in EntryIds(s) /\ Change(r, Requeued(s, queue))
  BY DEF RemoveQueueEntry, Edits, Addressed, Safe, Without
<1>2. Listed(s)
  BY <1>1, StoryOf DEF Body
<1>3. k \in 1..Len(s.queue) /\ s.queue[k].id # s.timeline.entry
  BY <1>1, <1>2, IndexFacts
<1> HIDE DEF k
<1>4. ASSUME NEW t, t.queue = queue, t.entries = s.entries, t.timeline = s.timeline PROVE Listed(t)
  BY <1>2, <1>3, <1>4, RemovedListed DEF Assumptions
<1> HIDE DEF queue
<1> QED
  BY <1>1, <1>4, RequeuedTold

LEMMA ReorderQueueTold ==
    ASSUME Assumptions, IInv, PInv, NEW d, NEW r \in Room, NEW m, NEW order \in Orders(rooms[r]), NEW v,
           ReorderQueue(d, r, m, order, v)
    PROVE  Told
<1> DEFINE s == rooms[r]
           queue == [i \in DOMAIN order |-> EntryOf(s, order[i])]
<1>1. Open(s) /\ Change(r, Requeued(s, queue))
  BY DEF ReorderQueue, Edits, Addressed, Safe
<1>2. Listed(s)
  BY <1>1, StoryOf DEF Body
<1>3. ASSUME NEW t, t.queue = queue, t.entries = s.entries, t.timeline = s.timeline PROVE Listed(t)
  BY <1>2, <1>3, ReorderedListed
<1> HIDE DEF queue
<1> QED
  BY <1>1, <1>3, RequeuedTold

-----------------------------------------------------------------------------
(* Transport: a pause lulls, a start is supervised.                        *)
LEMMA PauseTold ==
    ASSUME Assumptions, IInv, PInv, NEW d, NEW r \in Room, NEW m, NEW v, Pause(d, r, m, v)
    PROVE  Told
<1>1. Open(rooms[r]) /\ Change(r, PauseRoom(rooms[r]))
  BY DEF Pause, Transport, Addressed, Safe
<1>2. Document(rooms[r])
  BY <1>1, StoryOf
<1>3. Lulled(rooms[r], PauseRoom(rooms[r])) /\ PauseRoom(rooms[r]).rev = rooms[r].rev
  BY <1>2, PauseLulled, PauseRev DEF Assumptions, Document, Body, Scalars
<1> QED
  BY <1>1, <1>3, LulledTold DEF Assumptions

LEMMA AwayHeld ==
    ASSUME NEW s, s.host \in MembersOf(s), ~PlaybackSuspended(s)
    PROVE  ~(s.suspended \/ HostGone(s))
BY DEF PlaybackSuspended, HostGone, HostAbsence

LEMMA StartTold ==
    ASSUME Assumptions, PrepAssumption, IInv, PInv, NEW d, NEW r \in Room, NEW m, NEW id, NEW pos \in Position,
           NEW v, Open(rooms[r]), id \in EntryIds(rooms[r]), Start(d, r, m, id, pos, v)
    PROVE  Told
<1> DEFINE s == rooms[r]
           x == Prepare(s, id, pos)
<1>1. enabled /\ s.epoch = epoch /\ MayStart(r, m) /\ Change(r, x)
  BY DEF Start, Scheduled
<1>2. Document(s)
  BY StoryOf
<1>3. /\ Document(x) /\ Named(s, x)
      /\ Alike(s, x, {"playGen", "timeline", "prep", "suspended"})
  BY <1>2, PrepareFacts DEF Assumptions
<1> HIDE DEF x
<1>4. x.epoch = s.epoch /\ x.rev = s.rev /\ x.members = s.members /\ x.host = s.host
  BY <1>3 DEF Alike, RoomFields
<1>5. Recovered(s, x)
  BY <1>4 DEF Recovered
<1>6. HostPresent(x) \/ ~(s.suspended \/ HostGone(s))
  <2>1. s.host \in MembersOf(s)
    BY <1>2 DEF Document, Body, Peopled
  <2>2. HostPresent(s) \/ ~PlaybackSuspended(s)
    BY <1>1 DEF MayStart
  <2>3. HostPresent(s) => HostPresent(x)
    BY <1>4 DEF HostPresent, MembersOf
  <2> QED
    BY <2>1, <2>2, <2>3, AwayHeld
<1>7. Supervised(s, x)
  BY <1>1, <1>4, <1>6 DEF Supervised
<1> QED
  BY <1>1, <1>3, <1>4, <1>5, <1>7, ChangeTold DEF Assumptions

LEMMA TransportTold ==
    ASSUME Assumptions, PrepAssumption, IInv, PInv, NEW d, NEW r \in Room, NEW m, Open(rooms[r]),
           TransportCommand(d, r, m)
    PROVE  Told
<1> DEFINE s == rooms[r]
<1>1. PICK v \in Carried(r) :
          \/ Pause(d, r, m, v)
          \/ Play(d, r, m, v)
          \/ \E step \in {-1, 1} : Skip(d, r, m, step, v)
          \/ \E id \in EntryId : Select(d, r, m, id, v)
          \/ \E pos \in Position : Seek(d, r, m, pos, v)
  BY DEF TransportCommand
<1>2. s.timeline.entry \in EntryIds(s) /\ 0 \in Position /\ PositionAt(s) \in Position
  BY StoryOf, AgeTypes, PositionType DEF Body, Listed, Position, Assumptions
<1>3. CASE Pause(d, r, m, v)
  BY <1>3, PauseTold
<1>4. CASE Play(d, r, m, v)
  <2>1. PICK pos \in Position : Start(d, r, m, s.timeline.entry, pos, v)
    BY <1>2, <1>4 DEF Play
  <2> QED
    BY <1>2, <2>1, StartTold
<1>5. ASSUME NEW step \in {-1, 1}, Skip(d, r, m, step, v) PROVE Told
  <2> DEFINE i == IndexOf(s, s.timeline.entry) + step
  <2>1. i \in DOMAIN s.queue /\ Start(d, r, m, s.queue[i].id, 0, v)
    BY <1>5 DEF Skip
  <2> HIDE DEF i
  <2>2. s.queue[i].id \in EntryIds(s)
    BY <2>1 DEF EntryIds
  <2> QED
    BY <1>2, <2>1, <2>2, StartTold
<1>6. ASSUME NEW id, Select(d, r, m, id, v) PROVE Told
  BY <1>2, <1>6, StartTold DEF Select
<1>7. ASSUME NEW pos \in Position, Seek(d, r, m, pos, v) PROVE Told
  BY <1>2, <1>7, StartTold DEF Seek
<1> QED
  BY <1>1, <1>3, <1>4, <1>5, <1>6, <1>7

-----------------------------------------------------------------------------
(* Time, media, sessions, and what changes no open room's story.           *)
LEMMA AgedTurns ==
    ASSUME RoomsAssumption, PrepAssumption, NEW s, Story(s)
    PROVE  Turns(s, Aged(s))
<1> DEFINE t == Aged(s)
<1>1. Lulled(s, t)
  BY AgedLulled DEF Story
<1>2. SameVersions(s, t)
  <2>1. t.playGen = s.playGen /\ t.controlGen = s.controlGen /\ t.queueRev = s.queueRev
        /\ t.members = [m \in DOMAIN s.members |-> [s.members[m] EXCEPT !.idle = Later(s.members[m].idle)]]
    BY DEF Aged, Story, Document, Body, Scalars, RoomFields
  <2>2. \A m \in MembersOf(s) : s.members[m] \in MemberShape
    BY MemberTyped DEF Story
  <2> HIDE DEF t
  <2>3. MembersOf(t) = MembersOf(s)
        /\ \A m \in MembersOf(s) : t.members[m] = [s.members[m] EXCEPT !.idle = Later(s.members[m].idle)]
    BY <2>1 DEF MembersOf
  <2>4. ASSUME NEW m \in MembersOf(s) PROVE t.members[m].gen = s.members[m].gen
    BY <2>2, <2>3 DEF MemberShape
  <2> QED
    BY <2>1, <2>3, <2>4 DEF SameVersions
<1>3. Revised(s, t)
  BY DEF Revised
<1> HIDE DEF t
<1>4. Turns(s, t)
  BY <1>1, <1>2, <1>3, StillBounded, LulledTurns DEF Story
<1> QED
  BY <1>4 DEF t

LEMMA TickTold == ASSUME Assumptions, PrepAssumption, PInv, Tick PROVE Told
<1>1. /\ \A r \in Room : rooms'[r] = IF Open(rooms[r]) THEN Aged(rooms[r]) ELSE rooms[r]
      /\ UNCHANGED <<active, blocks, world, joins, view>>
  BY DEF Tick, social
<1>2. \A r \in Room : rooms'[r] = rooms[r] \/ (Open(rooms[r]) /\ Turns(rooms[r], rooms'[r]))
  BY <1>1, AgedTurns, StoryOf DEF Assumptions
<1> QED
  BY <1>1, <1>2, OuterSame, RoomsTold DEF Assumptions

LEMMA WithoutMediaRev ==
    ASSUME NEW s, Document(s), NEW track
    PROVE  WithoutMedia(s, track).rev # s.rev
<1> DEFINE some == {q \in s.requests : q.track # track}
           queue == [i \in DOMAIN s.queue |-> IF s.queue[i].track = track THEN [s.queue[i] EXCEPT !.gone = TRUE]
                                              ELSE s.queue[i]]
           marked == [s EXCEPT !.requests = some, !.queue = queue]
           current == \E i \in DOMAIN s.queue : s.queue[i].track = track /\ s.queue[i].id = s.timeline.entry
           stopped == IF current THEN PauseRoom(marked) ELSE marked
           counted == IF Queued(s, track) THEN [stopped EXCEPT !.queueRev = @ + 1] ELSE stopped
<1>1. WithoutMedia(s, track) = Persist(counted)
  BY DEF WithoutMedia
<1> HIDE DEF queue
<1>2. DOMAIN marked = RoomFields /\ marked.rev = s.rev
  BY DEF Document, Body, Scalars, RoomFields
<1> HIDE DEF marked, current
<1>3. DOMAIN stopped = RoomFields /\ stopped.rev = s.rev
  BY <1>2, PauseRev
<1> HIDE DEF stopped
<1>4. DOMAIN counted = RoomFields /\ counted.rev = s.rev
  BY <1>3 DEF RoomFields
<1> HIDE DEF counted
<1>5. Persist(counted).rev = 1 - s.rev /\ s.rev \in {0, 1}
  BY <1>4 DEF Persist, Document, Body, Scalars, RoomFields
<1> QED
  BY <1>1, <1>5

LEMMA ReplaceMediaTold ==
    ASSUME Assumptions, PrepAssumption, PInv, NEW track \in Track, ReplaceMedia(track)
    PROVE  Told
<1>1. /\ media[track].revision < MaxMedia
      /\ media' = [media EXCEPT ![track] = [revision |-> @.revision + 1, ready |-> TRUE]]
      /\ \A r \in Room : rooms'[r] = Invalidated(rooms[r], track)
      /\ \A r \in Room : Open(rooms[r]) => Bounded(rooms'[r])
      /\ UNCHANGED <<active, blocks, epoch, enabled, sessions, joins, view>>
  BY DEF ReplaceMedia, social
<1>2. ASSUME NEW r \in Room
      PROVE  rooms'[r] = rooms[r] \/ (Open(rooms[r]) /\ Turns(rooms[r], rooms'[r]))
  <2>1. CASE Open(rooms[r]) /\ rooms'[r] = WithoutMedia(rooms[r], track)
    <3>1. Lulled(rooms[r], WithoutMedia(rooms[r], track))
      BY <2>1, StoryOf, WithoutMediaLulled DEF Assumptions
    <3>2. Revised(rooms[r], WithoutMedia(rooms[r], track))
      BY <2>1, StoryOf, WithoutMediaRev DEF Revised
    <3> QED
      BY <1>1, <2>1, <3>1, <3>2, LulledTurns
  <2> QED
    BY <1>1, <2>1 DEF Invalidated
<1>3. Outer'
  <2>1. media' \in [Track -> [revision : 1..MaxMedia, ready : BOOLEAN]]
    <3>1. media[track].revision \in 1..MaxMedia /\ MaxMedia \in Nat
      BY DEF PInv, Outer, Assumptions, RoomsAssumption
    <3>2. media[track].revision + 1 \in 1..MaxMedia
      BY <1>1, <3>1
    <3> QED
      BY <1>1, <3>2 DEF PInv, Outer
  <2> QED
    BY <1>1, <2>1 DEF PInv, Outer
<1> QED
  BY <1>1, <1>2, <1>3, RoomsTold DEF Assumptions

(* No room changes.                                                        *)
LEMMA AsideTold ==
    ASSUME NullAssumption, PInv, UNCHANGED <<rooms, joins, view>>, Outer'
    PROVE  Told
BY RoomsTold

LEMMA SocialTold ==
    ASSUME Assumptions, PInv, NEW a \in Account, NEW b \in Account,
           Unblock(a, b) \/ Befriend(a, b) \/ Reactivate(a)
    PROVE  Told
<1>1. /\ blocks' \subseteq blocks /\ active' \subseteq active \cup {a}
      /\ UNCHANGED <<rooms, world, joins, view>>
  BY DEF Unblock, Befriend, Reactivate
<1>2. Outer'
  BY <1>1 DEF PInv, Outer, world
<1> QED
  BY <1>1, <1>2, AsideTold DEF Assumptions

LEMMA WorldTold ==
    ASSUME Assumptions, PInv,
           \/ NewEpoch \/ SetEnabled
           \/ \E x \in Session : SignIn(x)
           \/ \E track \in Track : WithdrawMedia(track)
    PROVE  Told
<1>1. UNCHANGED <<rooms, joins, view>>
  BY DEF NewEpoch, SetEnabled, SignIn, WithdrawMedia
<1>2. CASE NewEpoch
  <2>1. epoch < MaxEpoch /\ epoch' = epoch + 1 /\ MaxEpoch \in Nat /\ epoch \in 1..MaxEpoch
    BY <1>2 DEF NewEpoch, PInv, Outer, Assumptions, RoomsAssumption
  <2>2. epoch' \in 1..MaxEpoch
    BY <2>1
  <2> QED
    BY <1>1, <1>2, <2>2, AsideTold DEF NewEpoch, social, PInv, Outer, Assumptions
<1>3. CASE SetEnabled
  BY <1>1, <1>3, AsideTold DEF SetEnabled, social, PInv, Outer, Assumptions
<1>4. ASSUME NEW x \in Session, SignIn(x) PROVE Told
  <2>1. sessions' \in [Session -> {"unused", "live", "revoked"}]
    BY <1>4 DEF SignIn, PInv, Outer
  <2> QED
    BY <1>1, <1>4, <2>1, AsideTold DEF SignIn, social, PInv, Outer, Assumptions
<1>5. ASSUME NEW track \in Track, WithdrawMedia(track) PROVE Told
  <2>1. media' = [media EXCEPT ![track].ready = ~@] /\ UNCHANGED <<active, blocks, epoch, enabled, sessions>>
    BY <1>5 DEF WithdrawMedia, social
  <2>2. media \in [Track -> [revision : 1..MaxMedia, ready : BOOLEAN]]
    BY DEF PInv, Outer
  <2>3. media' \in [Track -> [revision : 1..MaxMedia, ready : BOOLEAN]]
    BY <2>1, <2>2
  <2>4. Outer'
    BY <2>1, <2>3 DEF PInv, Outer
  <2> QED
    BY <1>1, <2>4, AsideTold DEF Assumptions
<1> QED
  BY <1>2, <1>3, <1>4, <1>5

-----------------------------------------------------------------------------
(* A controller is detached.                                               *)
LEMMA DetachedVersions ==
    ASSUME NEW s, Document(s), NEW m \in MembersOf(s)
    PROVE  SameVersions(s, Detached(s, m))
<1> DEFINE t == Detached(s, m)
           member == [s.members[m] EXCEPT !.present = FALSE, !.ready = 0]
<1>1. /\ t.playGen = s.playGen /\ t.controlGen = s.controlGen /\ t.queueRev = s.queueRev
      /\ t.members = [s.members EXCEPT ![m] = member]
  BY MemberTyped DEF Detached, Document, Body, Scalars, RoomFields, Peopled, MemberShape
<1>2. member.gen = s.members[m].gen
  BY MemberTyped DEF MemberShape
<1> HIDE DEF t, member
<1>3. MembersOf(t) = MembersOf(s) /\ \A x \in MembersOf(t) : t.members[x].gen = s.members[x].gen
  BY <1>1, <1>2 DEF MembersOf
<1>4. SameVersions(s, t)
  BY <1>1, <1>3 DEF SameVersions
<1> QED
  BY <1>4 DEF t

LEMMA DetachedTurns ==
    ASSUME NEW s, Story(s), NEW m \in MembersOf(s)
    PROVE  Turns(s, Persist(Detached(s, m)))
<1> DEFINE t == Detached(s, m)
           u == Persist(t)
<1>1. Document(s) /\ Lulled(s, t) /\ Document(t) /\ t.rev = s.rev
  BY DetachedLulled, MemberRev DEF Story, Lulled
<1>2. Bounded(t)
  BY <1>1, DetachedVersions, StillBounded DEF Story
<1> HIDE DEF t
<1>3. Alike(t, u, {"rev"}) /\ u.rev # t.rev
  BY <1>1, PersistFacts
<1>4. Lulled(s, u)
  BY <1>1, PersistLulled, LulledTwice
<1> HIDE DEF u
<1>5. Bounded(u)
  BY <1>2, <1>3 DEF Alike, Bounded, MembersOf, RoomFields
<1>6. Turns(s, u)
  BY <1>1, <1>3, <1>4, <1>5, LulledTurns DEF Revised
<1> QED
  BY <1>6 DEF u, t

LEMMA RevokeSessionTold ==
    ASSUME Assumptions, PInv, NEW x \in Session, RevokeSession(x)
    PROVE  Told
<1>1. /\ sessions' = [sessions EXCEPT ![x] = "revoked"]
      /\ \A r \in Room : rooms'[r] = DetachedFrom(rooms[r], x)
      /\ UNCHANGED <<active, blocks, epoch, enabled, media, joins, view>>
  BY DEF RevokeSession, social
<1>2. ASSUME NEW r \in Room
      PROVE  rooms'[r] = rooms[r] \/ (Open(rooms[r]) /\ Turns(rooms[r], rooms'[r]))
  <2>1. CASE Open(rooms[r]) /\ Controlled(rooms[r], x) # {}
    <3> DEFINE m == CHOOSE y \in Controlled(rooms[r], x) : TRUE
    <3>1. m \in Controlled(rooms[r], x)
      BY <2>1
    <3>2. rooms'[r] = Persist(Detached(rooms[r], m))
      BY <1>1, <2>1 DEF DetachedFrom
    <3> HIDE DEF m
    <3>3. m \in MembersOf(rooms[r])
      BY <3>1 DEF Controlled
    <3> QED
      BY <2>1, <3>2, <3>3, StoryOf, DetachedTurns
  <2> QED
    BY <1>1, <2>1 DEF DetachedFrom
<1>3. sessions' \in [Session -> {"unused", "live", "revoked"}]
  BY <1>1 DEF PInv, Outer
<1>4. Outer'
  BY <1>1, <1>3 DEF PInv, Outer
<1> QED
  BY <1>1, <1>2, <1>4, RoomsTold DEF Assumptions

LEMMA DisconnectedTold ==
    ASSUME Assumptions, IInv, PInv, NEW d, NEW r \in Room, Disconnected(d, r)
    PROVE  Told
<1>1. PICK m \in MembersOf(rooms[r]) : Change(r, Detached(rooms[r], m))
  BY DEF Disconnected
<1>2. Open(rooms[r])
  BY DEF Disconnected, Safe
<1>3. Lulled(rooms[r], Detached(rooms[r], m)) /\ Detached(rooms[r], m).rev = rooms[r].rev
  BY <1>2, StoryOf, DetachedLulled, MemberRev
<1> QED
  BY <1>1, <1>2, <1>3, LulledTold DEF Assumptions

-----------------------------------------------------------------------------
(* What a snapshot shows.  Masked: fields that are replaced do not matter. *)
Masking(x, members, prep) ==
    [x EXCEPT !.rev = 0, !.expired = FALSE, !.entries = 0, !.members = members, !.prep = prep]

LEMMA Masked ==
    ASSUME NEW s, DOMAIN s = RoomFields, NEW t, Alike(s, t, {"rev", "expired", "entries", "members", "prep"}),
           NEW members, NEW prep
    PROVE  Masking(t, members, prep) = Masking(s, members, prep)
<1> DEFINE Mask(x) == [f \in RoomFields |->
             IF f = "rev" \/ f = "entries" THEN 0
             ELSE IF f = "expired" THEN FALSE
             ELSE IF f = "members" THEN members
             ELSE IF f = "prep" THEN prep ELSE x[f]]
<1>1. ASSUME NEW x, DOMAIN x = RoomFields
      PROVE  Masking(x, members, prep) = Mask(x)
  <2> DEFINE u == Masking(x, members, prep)
  <2>1. DOMAIN u = RoomFields /\ u = [f \in DOMAIN u |-> u[f]]
    BY <1>1 DEF Masking
  <2>2. \A f \in RoomFields : u[f] = Mask(x)[f]
    BY <1>1 DEF RoomFields, Masking
  <2> HIDE DEF u
  <2>3. u = [f \in RoomFields |-> Mask(x)[f]]
    BY <2>1, <2>2
  <2>4. Mask(x) = [f \in RoomFields |-> Mask(x)[f]]
    OBVIOUS
  <2> QED
    BY <2>3, <2>4 DEF u
<1>2. Mask(t) = Mask(s)
  <2>1. \A f \in RoomFields : Mask(t)[f] = Mask(s)[f]
    BY DEF Alike
  <2> QED
    BY <2>1
<1> HIDE DEF Mask
<1> QED
  BY <1>1, <1>2 DEF Alike

(* The members of both documents look alike.                               *)
SeemAlike(s, t) ==
    /\ MembersOf(t) = MembersOf(s)
    /\ \A m \in MembersOf(s) :
          /\ t.members[m].dev = s.members[m].dev /\ t.members[m].gen = s.members[m].gen
          /\ Connected(t.members[m]) = Connected(s.members[m])
          /\ t.members[m].muted = s.members[m].muted
          /\ (t.members[m].ready = t.playGen) = (s.members[m].ready = s.playGen)

LEMMA ShownSame ==
    ASSUME NEW s, DOMAIN s = RoomFields, NEW t, Alike(s, t, {"rev", "expired", "entries", "members"}),
           SeemAlike(s, t)
    PROVE  Shown(t) = Shown(s)
<1> DEFINE Members(x) == [m \in DOMAIN x.members |->
                  [dev |-> x.members[m].dev, gen |-> x.members[m].gen, connected |-> Connected(x.members[m]),
                   muted |-> x.members[m].muted, ready |-> x.members[m].ready = x.playGen]]
           Prep(x) == IF x.prep = None THEN None ELSE [gen |-> x.prep.gen, cohort |-> DOMAIN x.prep.cohort]
<1>1. Members(t) = Members(s)
  BY DEF SeemAlike, MembersOf
<1>2. Prep(t) = Prep(s)
  BY DEF Alike, RoomFields
<1>3. ASSUME NEW x, DOMAIN x = RoomFields
      PROVE  Shown(x) = Masking(x, Members(x), Prep(x))
  BY <1>3 DEF Shown, RoomFields, Masking
<1>4. DOMAIN t = RoomFields /\ Alike(s, t, {"rev", "expired", "entries", "members", "prep"})
  BY DEF Alike
<1> HIDE DEF Members, Prep
<1>5. Masking(t, Members(s), Prep(s)) = Masking(s, Members(s), Prep(s))
  BY <1>4, Masked
<1> QED
  BY <1>1, <1>2, <1>3, <1>4, <1>5

(* A room expires, an invitation is sent, declined or expires.             *)
LEMMA ExpireRoomTold ==
    ASSUME Assumptions, IInv, PInv, NEW r \in Room, ExpireRoom(r)
    PROVE  Told
<1> DEFINE s == rooms[r]
           t == [s EXCEPT !.expired = TRUE]
<1>1. /\ Open(s) /\ rooms' = [rooms EXCEPT ![r] = t]
      /\ UNCHANGED <<active, blocks, world, joins, view>>
  BY DEF ExpireRoom, Safe, social
<1>2. Story(s) /\ Document(s)
  BY <1>1, StoryOf
<1>3. Alike(s, t, {"expired"}) /\ t.expired = TRUE
  BY <1>2 DEF Document, Body, Scalars, RoomFields, Alike
<1>4. Lulled(s, t)
  <2> HIDE DEF t
  <2> QED
    BY <1>2, <1>3, ExpiredLulled
<1>5. Bounded(t)
  <2> HIDE DEF t
  <2> QED
    BY <1>2, <1>3 DEF Story, Alike, Bounded, MembersOf, RoomFields
<1>6. Shown(t) = Shown(s)
  <2> HIDE DEF t
  <2>1. DOMAIN s = RoomFields /\ Alike(s, t, {"rev", "expired", "entries", "members"})
    BY <1>2, <1>3 DEF Alike, Document, Body, Scalars
  <2>2. SeemAlike(s, t)
    BY <1>3 DEF Alike, RoomFields, SeemAlike, MembersOf
  <2> QED
    BY <2>1, <2>2, ShownSame
<1> HIDE DEF t
<1>7. Turns(s, t)
  BY <1>4, <1>5, <1>6, LulledTurns DEF Revised
<1> QED
  BY <1>1, <1>7, OuterSame, RoomTold DEF Assumptions

LEMMA InviteTold ==
    ASSUME Assumptions, IInv, PInv, NEW d, NEW r \in Room, NEW m, NEW b, Invite(d, r, m, b)
    PROVE  Told
<1>1. /\ Open(rooms[r]) /\ Bounded(Persist(rooms[r])) /\ rooms' = [rooms EXCEPT ![r] = Persist(rooms[r])]
      /\ UNCHANGED <<active, blocks, world, joins, view>>
  BY DEF Invite, Addressed, Safe, Write, social
<1>2. Document(rooms[r])
  BY <1>1, StoryOf
<1>3. Turns(rooms[r], Persist(rooms[r]))
  BY <1>1, <1>2, PersistTurns, LulledSame, CalmIsSupervised DEF Lulled
<1> QED
  BY <1>1, <1>3, OuterSame, RoomTold DEF Assumptions

LEMMA InvitationTold ==
    ASSUME Assumptions, PInv, NEW d, NEW r, NEW a, Decline(d, r) \/ ExpireInvitation(r, a)
    PROVE  Told
<1>1. UNCHANGED <<rooms, joins, view, active, blocks, world>>
  BY DEF Decline, ExpireInvitation, social
<1> QED
  BY <1>1, OuterSame, AsideTold DEF Assumptions

(* A fresh snapshot shows the room as it is.                               *)
LEMMA SnapshotFacts ==
    ASSUME NEW s, Body(s), \A m \in MembersOf(s) : m[2] <= joins[m[1]]
    PROVE  Seen(Snapshot(s)) /\ Remembers(Snapshot(s), s)
<1> DEFINE v == Snapshot(s)
           gens == [m \in MembersOf(s) |-> s.members[m].gen]
           devs == [m \in MembersOf(s) |-> s.members[m].dev]
<1>1. /\ v.playGen = s.playGen /\ v.controlGen = s.controlGen /\ v.queueRev = s.queueRev
      /\ v.entry = s.timeline.entry /\ v.state = s.timeline.state /\ v.order = QueueOrder(s)
      /\ v.host = s.host /\ v.everyone = s.everyone
      /\ v.gens = gens /\ v.devs = devs
  BY DEF Snapshot
<1>2. MembersOf(s) \subseteq Member
  BY DEF Body, Peopled
<1>3. DOMAIN v.gens = MembersOf(s)
      /\ \A m \in MembersOf(s) : v.gens[m] = s.members[m].gen /\ v.devs[m] = s.members[m].dev
  BY <1>1
<1> HIDE DEF v
<1>4. Seen(v)
  BY <1>1, <1>2, <1>3, BodyVersions DEF Seen
<1>5. Remembers(v, s)
  BY <1>1, <1>3, BodyVersions DEF Remembers
<1> QED
  BY <1>4, <1>5 DEF v

LEMMA ObserveTold == ASSUME Assumptions, PInv, NEW r \in Room, Observe(r) PROVE Told
<1>1. /\ Open(rooms[r]) /\ view' = [room |-> r, what |-> Snapshot(rooms[r])]
      /\ UNCHANGED <<rooms, joins, active, blocks, world>>
  BY DEF Observe, social
<1>2. Seen(Snapshot(rooms[r])) /\ Remembers(Snapshot(rooms[r]), rooms[r])
  BY <1>1, StoryOf, SnapshotFacts
<1>3. Outer' /\ Stories'
  BY <1>1, OuterSame DEF PInv, Stories
<1>4. Viewed'
  BY <1>1, <1>2 DEF Viewed, Seen, Open
<1>5. StartSupervised /\ RecoveryPauses /\ ShownChangeRevised
  BY <1>1 DEF StartSupervised, Starts, RecoveryPauses, ShownChangeRevised
<1> QED
  BY <1>3, <1>4, <1>5 DEF Told, PInv

-----------------------------------------------------------------------------
(* Reports.  A report that shows nothing rewrites the members alone.       *)
LEMMA QuietTurns ==
    ASSUME NEW s, Story(s), NEW x, x.members \in [MembersOf(s) -> MemberShape], x.playGen = s.playGen,
           SeemAlike(s, x)
    PROVE  Turns(s, [s EXCEPT !.members = x.members])
<1> DEFINE t == [s EXCEPT !.members = x.members]
<1>1. Document(s) /\ Bounded(s) /\ DOMAIN s = RoomFields /\ s.absent \in Age \cup {None}
  BY DEF Story, Document, Body, Scalars
<1>2. Alike(s, t, {"members"}) /\ t.members = x.members /\ t.absent = s.absent /\ t.playGen = s.playGen
  BY <1>1 DEF Alike, RoomFields
<1>3. MembersOf(t) = MembersOf(x) /\ MembersOf(x) = MembersOf(s)
  BY <1>2 DEF MembersOf
<1>4. \A m \in MembersOf(s) : t.members[m] = x.members[m]
  BY <1>2
<1> HIDE DEF t
<1>5. SeemAlike(s, t)
  BY <1>2, <1>3, <1>4 DEF SeemAlike
<1>6. Lulled(s, t)
  <2>1. Alike(s, t, {"members", "absent"}) /\ t.absent \in Age \cup {None} /\ t.members \in [MembersOf(s) -> MemberShape]
    BY <1>1, <1>2 DEF Alike
  <2>2. \A m \in MembersOf(s) : t.members[m].dev = s.members[m].dev /\ t.members[m].gen = s.members[m].gen
    BY <1>5 DEF SeemAlike
  <2> QED
    BY <1>1, <2>1, <2>2, MembersEdited
<1>7. SameVersions(s, t)
  BY <1>2, <1>3, <1>5 DEF Alike, SeemAlike, SameVersions, RoomFields
<1>8. Shown(t) = Shown(s)
  <2>1. Alike(s, t, {"rev", "expired", "entries", "members"})
    BY <1>2 DEF Alike
  <2> QED
    BY <1>1, <1>5, <2>1, ShownSame
<1> QED
  BY <1>1, <1>6, <1>7, <1>8, StillBounded, LulledTurns DEF t, Revised

LEMMA QuietlyTold ==
    ASSUME Assumptions, IInv, PInv, NEW r \in Room, Open(rooms[r]), NEW x, Quietly(r, x),
           x.members \in [MembersOf(rooms[r]) -> MemberShape], x.playGen = rooms[r].playGen,
           SeemAlike(rooms[r], x)
    PROVE  Told
<1> DEFINE t == [rooms[r] EXCEPT !.members = x.members]
<1>1. /\ rooms' = [rooms EXCEPT ![r] = t]
      /\ UNCHANGED <<active, blocks, world, joins, view>>
  BY DEF Quietly, social
<1>2. Turns(rooms[r], t)
  BY StoryOf, QuietTurns
<1> HIDE DEF t
<1> QED
  BY <1>1, <1>2, OuterSame, RoomTold DEF Assumptions

(* A heartbeat that shows nothing met the epoch and the local pause it     *)
(* reports.                                                                *)
LEMMA QuietBeat ==
    ASSUME RoomsAssumption, NEW s, Document(s), NEW m \in MembersOf(s), NEW muted \in BOOLEAN,
           ~BeatShows(s, m, muted), NEW x, x = Beaten(Adopt(s), m, muted)
    PROVE  x.members \in [MembersOf(s) -> MemberShape] /\ x.playGen = s.playGen /\ SeemAlike(s, x)
<1>1. /\ Connected(s.members[m]) /\ s.members[m].muted = muted /\ s.epoch = epoch
      /\ muted => s.members[m].ready = 0
  BY DEF BeatShows
<1>2. Adopt(s) = s
  BY <1>1 DEF Adopt
<1>3. Lulled(s, x)
  BY <1>2, BeatenLulled
<1>4. /\ DOMAIN s = RoomFields /\ s.members \in [MembersOf(s) -> MemberShape] /\ s.members[m] \in MemberShape
  BY DEF Document, Body, Scalars, Peopled
<1> DEFINE member == [s.members[m] EXCEPT !.idle = 0, !.present = TRUE, !.muted = muted,
                                          !.ready = IF muted THEN 0 ELSE s.members[m].ready]
<1>5. x.members = [s.members EXCEPT ![m] = member] /\ x.playGen = s.playGen
  BY <1>2, <1>4 DEF Beaten, RoomFields
<1>6. /\ member.idle = 0 /\ member.present = TRUE /\ member.muted = s.members[m].muted
      /\ member.dev = s.members[m].dev /\ member.gen = s.members[m].gen
      /\ member.ready = s.members[m].ready
  BY <1>1, <1>4 DEF MemberShape
<1> HIDE DEF member
<1>7. 0 < HostGrace
  BY DEF RoomsAssumption, TimingAssumption
<1>8. Connected(member) = Connected(s.members[m])
  BY <1>1, <1>6, <1>7 DEF Connected
<1>9. MembersOf(x) = MembersOf(s)
      /\ x.members[m] = member /\ \A y \in MembersOf(s) : y # m => x.members[y] = s.members[y]
  BY <1>5 DEF MembersOf
<1>10. SeemAlike(s, x)
  BY <1>5, <1>6, <1>8, <1>9 DEF SeemAlike
<1>11. x.members \in [MembersOf(s) -> MemberShape]
  BY <1>3, <1>9 DEF Lulled, Document, Body, Peopled
<1> QED
  BY <1>5, <1>10, <1>11

LEMMA QuietReport ==
    ASSUME NEW s, Document(s), s.playGen \in Version, NEW m \in MembersOf(s),
           NEW seq \in 0..MaxSequence, NEW yes \in BOOLEAN,
           (s.members[m].ready = s.playGen) = yes, NEW x, x = Reported(s, m, seq, yes)
    PROVE  x.members \in [MembersOf(s) -> MemberShape] /\ x.playGen = s.playGen /\ SeemAlike(s, x)
<1>1. Lulled(s, x)
  BY ReportedLulled
<1>2. /\ DOMAIN s = RoomFields /\ s.members \in [MembersOf(s) -> MemberShape] /\ s.members[m] \in MemberShape
      /\ s.playGen \in Nat \ {0}
  BY DEF Document, Body, Scalars, Peopled
<1> DEFINE member == [s.members[m] EXCEPT !.reportGen = s.playGen, !.reportSeq = seq,
                                          !.ready = IF yes THEN s.playGen ELSE 0]
<1>3. x.members = [s.members EXCEPT ![m] = member] /\ x.playGen = s.playGen
  BY <1>2 DEF Reported, RoomFields
<1>4. /\ member.idle = s.members[m].idle /\ member.present = s.members[m].present
      /\ member.muted = s.members[m].muted
      /\ member.dev = s.members[m].dev /\ member.gen = s.members[m].gen
      /\ (member.ready = s.playGen) = (s.members[m].ready = s.playGen)
  BY <1>2 DEF MemberShape
<1> HIDE DEF member
<1>5. Connected(member) = Connected(s.members[m])
  BY <1>4 DEF Connected
<1>6. MembersOf(x) = MembersOf(s)
      /\ x.members[m] = member /\ \A y \in MembersOf(s) : y # m => x.members[y] = s.members[y]
  BY <1>3 DEF MembersOf
<1>7. SeemAlike(s, x)
  BY <1>3, <1>4, <1>5, <1>6 DEF SeemAlike
<1>8. x.members \in [MembersOf(s) -> MemberShape]
  BY <1>1, <1>6 DEF Lulled, Document, Body, Peopled
<1> QED
  BY <1>3, <1>7, <1>8

(* A lull may end a preparation: what starts then is supervised if the     *)
(* lull left the room with its authority and its host, or with a host that *)
(* had not been away for the grace.                                        *)
LEMMA FinishedLull ==
    ASSUME RoomsAssumption, PrepAssumption, NEW s, Document(s), NEW b, Lulled(s, b),
           MayFinish(b, enabled) => /\ b.epoch = epoch
                                    /\ HostPresent(b) \/ ~(s.suspended \/ HostGone(s)),
           NEW t, t = FinishPreparation(b, enabled)
    PROVE  /\ Document(t) /\ Named(s, t) /\ Recovered(s, t) /\ Supervised(s, t)
           /\ t.rev = b.rev /\ Named(b, t)
<1>1. /\ Document(b) /\ Named(s, b) /\ Calm(s, b) /\ Recovered(s, b)
  BY DEF Lulled
<1>2. /\ Document(t) /\ Named(b, t) /\ Alike(b, t, {"timeline", "prep"})
      /\ t.timeline # b.timeline => b.timeline.state = "preparing" /\ MayFinish(b, enabled)
  BY <1>1, FinishFacts
<1>3. Named(s, t)
  BY <1>1, <1>2, NamedTwice DEF Document
<1>4. /\ t.epoch = b.epoch /\ t.playGen = b.playGen /\ t.rev = b.rev /\ t.host = b.host /\ t.members = b.members
  BY <1>2 DEF Alike, RoomFields
<1>5. HostPresent(t) = HostPresent(b)
  BY <1>4 DEF HostPresent, MembersOf
<1>6. t.timeline = b.timeline \/ (Playing(b) /\ MayFinish(b, enabled))
  BY <1>2 DEF Playing
<1>7. t.timeline = b.timeline => Playing(t) = Playing(b)
  BY DEF Playing
<1>8. Recovered(s, t)
  BY <1>1, <1>4, <1>6, <1>7 DEF Recovered
<1>9. CASE t.timeline = b.timeline
  BY <1>1, <1>3, <1>2, <1>4, <1>7, <1>8, <1>9 DEF Calm, Supervised
<1>10. CASE MayFinish(b, enabled)
  <2>1. enabled
    BY <1>10 DEF MayFinish
  <2>2. Supervised(s, t)
    BY <1>4, <1>5, <1>10, <2>1 DEF Supervised
  <2> QED
    BY <1>3, <1>2, <1>4, <1>8, <2>2
<1> QED
  BY <1>6, <1>9, <1>10

LEMMA AdoptFacts ==
    ASSUME RoomsAssumption, NEW s, Document(s), epoch \in 1..MaxEpoch
    PROVE  Alike(s, Adopt(s), {"epoch", "timeline", "prep", "playGen"})
<1>1. CASE s.epoch = epoch
  BY <1>1 DEF Adopt, Alike, Document, Body, Scalars
<1>2. CASE s.epoch # epoch
  <2> DEFINE u == [s EXCEPT !.epoch = epoch]
             t == PauseRoom(u)
  <2>1. Alike(s, u, {"epoch"})
    BY DEF Alike, Document, Body, Scalars, RoomFields
  <2>2. Alike(u, t, {"timeline", "prep", "playGen"})
    BY <2>1 DEF PauseRoom, Alike, RoomFields
  <2>3. t = Adopt(s)
    BY <1>2 DEF Adopt
  <2> HIDE DEF u, t
  <2>4. Alike(s, t, {"epoch", "timeline", "prep", "playGen"})
    BY <2>1, <2>2 DEF Alike
  <2> QED
    BY <2>3, <2>4
<1> QED
  BY <1>1, <1>2

LEMMA BeatenFacts ==
    ASSUME RoomsAssumption, NEW s, Document(s), NEW m \in MembersOf(s), NEW muted \in BOOLEAN,
           NEW b, b = Beaten(s, m, muted)
    PROVE  /\ Alike(s, b, {"members", "absent"})
           /\ s.host = m => HostPresent(b)
           /\ s.host # m => b.absent = s.absent /\ b.members[s.host] = s.members[s.host]
           /\ MembersOf(b) = MembersOf(s)
<1>1. /\ DOMAIN s = RoomFields /\ s.members \in [MembersOf(s) -> MemberShape] /\ s.members[m] \in MemberShape
      /\ s.host \in MembersOf(s)
  BY DEF Document, Body, Scalars, Peopled
<1> DEFINE member == [s.members[m] EXCEPT !.idle = 0, !.present = TRUE, !.muted = muted,
                                          !.ready = IF muted THEN 0 ELSE s.members[m].ready]
<1>2. Alike(s, b, {"members", "absent"}) /\ b.members = [s.members EXCEPT ![m] = member]
      /\ (s.host # m => b.absent = s.absent) /\ b.host = s.host
  BY <1>1 DEF Beaten, RoomFields, Alike
<1>3. member.idle = 0 /\ member.present = TRUE
  BY <1>1 DEF MemberShape
<1> HIDE DEF member
<1>4. 0 < HostGrace
  BY DEF RoomsAssumption, TimingAssumption
<1>5. Connected(member)
  BY <1>3, <1>4 DEF Connected
<1>6. MembersOf(b) = MembersOf(s)
      /\ b.members[m] = member /\ \A y \in MembersOf(s) : y # m => b.members[y] = s.members[y]
  BY <1>1, <1>2 DEF MembersOf
<1>7. s.host = m => HostPresent(b)
  BY <1>2, <1>5, <1>6 DEF HostPresent
<1> QED
  BY <1>1, <1>2, <1>6, <1>7

(* Nobody has brought the host back or shortened its absence.              *)
StillAway(s, t) ==
    /\ t.host = s.host /\ t.host \in MembersOf(t)
    /\ s.suspended => t.suspended
    /\ HostPresent(t) => HostPresent(s)
    /\ HostAbsence(t) = HostAbsence(s)

LEMMA StillAwayTwice ==
    ASSUME NEW s, NEW t, NEW u, StillAway(s, t), StillAway(t, u)
    PROVE  StillAway(s, u)
BY DEF StillAway

LEMMA StillAwayHeld ==
    ASSUME NEW s, NEW t, StillAway(s, t), ~PlaybackSuspended(t)
    PROVE  ~(s.suspended \/ HostGone(s))
<1>1. t.host \in MembersOf(t)
  BY DEF StillAway
<1>2. ~(t.suspended \/ HostGone(t))
  BY <1>1, AwayHeld
<1> QED
  BY <1>2 DEF StillAway, HostGone

(* The host's record and its absence are as they were.                     *)
LEMMA SameHostAway ==
    ASSUME NEW s, NEW t, t.host = s.host, t.suspended = s.suspended, t.absent = s.absent,
           s.host \in MembersOf(s), s.host \in MembersOf(t),
           t.members[s.host].idle = s.members[s.host].idle,
           t.members[s.host].present = s.members[s.host].present
    PROVE  StillAway(s, t)
BY DEF StillAway, HostAbsence, HostPresent, Connected

LEMMA HeartbeatTold ==
    ASSUME Assumptions, PrepAssumption, IInv, PInv, NEW d, NEW r \in Room, NEW m, NEW gen, NEW muted \in BOOLEAN,
           Heartbeat(d, r, m, gen, muted)
    PROVE  Told
<1> DEFINE s == rooms[r]
           a == Adopt(s)
           b == Beaten(a, m, muted)
           t == FinishPreparation(b, enabled)
<1>1. Open(s) /\ m \in MembersOf(s)
      /\ IF BeatShows(s, m, muted) THEN Change(r, t) ELSE Quietly(r, b)
  BY DEF Heartbeat, Safe
<1>2. /\ Document(s) /\ RoomsAssumption /\ NullAssumption /\ epoch \in 1..MaxEpoch /\ s.host \in MembersOf(s)
  BY <1>1, StoryOf DEF Assumptions, PInv, Outer, Document, Body, Peopled
<1>3. Lulled(s, a) /\ a.epoch = epoch /\ Alike(s, a, {"epoch", "timeline", "prep", "playGen"}) /\ a.rev = s.rev
  BY <1>2, AdoptLulled, AdoptFacts, AdoptRev
<1>4. Document(a) /\ MembersOf(a) = MembersOf(s) /\ a.host = s.host /\ a.members = s.members
      /\ a.absent = s.absent /\ a.suspended = s.suspended
  BY <1>3 DEF Lulled, Alike, RoomFields, MembersOf
<1>5. Lulled(a, b) /\ Alike(a, b, {"members", "absent"})
      /\ (a.host = m => HostPresent(b))
      /\ (a.host # m => b.absent = a.absent /\ b.members[a.host] = a.members[a.host])
      /\ MembersOf(b) = MembersOf(a) /\ b.rev = a.rev
  <2> HIDE DEF a
  <2>1. m \in MembersOf(a) /\ Document(a) /\ RoomsAssumption
    BY <1>1, <1>2, <1>4
  <2> HIDE DEF s
  <2>2. Lulled(a, b)
    BY <2>1, BeatenLulled
  <2>3. b.rev = a.rev
    BY <2>1, MemberRev
  <2> QED
    BY <2>1, <2>2, <2>3, BeatenFacts
<1>6. CASE BeatShows(s, m, muted)
  <2>0. Change(r, t)
    BY <1>1, <1>6
  <2> HIDE DEF a, b
  <2>1. Lulled(s, b)
    BY <1>2, <1>3, <1>5, LulledTwice
  <2>2. b.epoch = epoch /\ b.host = s.host /\ b.suspended = s.suspended
    BY <1>3, <1>4, <1>5 DEF Alike, RoomFields
  <2>3. HostPresent(b) \/ StillAway(s, b)
    BY <1>2, <1>4, <1>5, <2>2, SameHostAway
  <2>4. MayFinish(b, enabled) => b.epoch = epoch /\ (HostPresent(b) \/ ~(s.suspended \/ HostGone(s)))
    BY <1>2, <2>2, <2>3, StillAwayHeld DEF MayFinish
  <2>5. /\ Document(t) /\ Named(s, t) /\ Recovered(s, t) /\ Supervised(s, t) /\ t.rev = b.rev
    BY <1>2, <2>1, <2>4, FinishedLull
  <2>6. t.rev = s.rev
    BY <1>3, <1>5, <2>5
  <2> HIDE DEF t, s
  <2> QED
    BY <1>1, <1>2, <2>0, <2>5, <2>6, ChangeTold DEF s
<1>7. CASE ~BeatShows(s, m, muted)
  <2>1. Quietly(r, b)
    BY <1>1, <1>7
  <2>2. b.members \in [MembersOf(s) -> MemberShape] /\ b.playGen = s.playGen /\ SeemAlike(s, b)
    BY <1>1, <1>2, <1>7, QuietBeat
  <2> QED
    BY <1>1, <2>1, <2>2, QuietlyTold
<1> QED
  BY <1>6, <1>7

-----------------------------------------------------------------------------
(* Readiness.                                                              *)
LEMMA CohortEdited ==
    ASSUME PrepAssumption, NEW s, Document(s), s.prep # None, NEW m \in DOMAIN s.prep.cohort,
           NEW seq \in 0..MaxSequence, NEW yes \in BOOLEAN,
           NEW t, t = [s EXCEPT !.prep.cohort[m] = [@ EXCEPT !.seq = seq, !.ready = yes]]
    PROVE  Lulled(s, t) /\ Alike(s, t, {"prep"})
<1> DEFINE c == [s.prep.cohort[m] EXCEPT !.seq = seq, !.ready = yes]
           cohort == [s.prep.cohort EXCEPT ![m] = c]
           prep == [s.prep EXCEPT !.cohort = cohort]
<1>1. /\ DOMAIN s = RoomFields /\ DOMAIN s.prep = PrepFields
      /\ s.prep.cohort \in [DOMAIN s.prep.cohort -> CohortShape]
  BY DEF Document, Body, Scalars, Prepared
<1>2. Alike(s, t, {"prep"}) /\ t.prep = prep
  BY <1>1 DEF Alike, RoomFields
<1>3. c \in CohortShape /\ c.gen = s.prep.cohort[m].gen
  BY <1>1 DEF CohortShape
<1> HIDE DEF c
<1>4. /\ cohort \in [DOMAIN s.prep.cohort -> CohortShape] /\ DOMAIN cohort = DOMAIN s.prep.cohort
      /\ \A x \in DOMAIN cohort : cohort[x].gen = s.prep.cohort[x].gen
  BY <1>1, <1>3
<1> HIDE DEF cohort
<1>5. /\ DOMAIN prep = PrepFields /\ prep.gen = s.prep.gen /\ prep.entry = s.prep.entry
      /\ prep.left = s.prep.left /\ prep.cohort = cohort
  BY <1>1 DEF PrepFields
<1>6. prep # None
  BY <1>5 DEF PrepAssumption
<1> HIDE DEF prep
<1>7. /\ t.members = s.members /\ t.timeline = s.timeline /\ t.playGen = s.playGen
      /\ t.suspended = s.suspended
  BY <1>2 DEF Alike, RoomFields
<1>8. Prepared(t)
  <2>1. Prepared(s)
    BY DEF Document
  <2> QED
    BY <2>1, <1>2, <1>4, <1>5, <1>6, <1>7 DEF Prepared, MembersOf, Playing
<1>9. Body(t)
  BY <1>2 DEF Document, Body, Scalars, Peopled, Listed, Asked, Alike, RoomFields, MembersOf, EntryIds
<1>10. Named(s, t) /\ Calm(s, t) /\ Recovered(s, t)
  <2>1. Named(s, s)
    BY NamedSame DEF Document
  <2> QED
    BY <2>1, <1>2, <1>7 DEF Named, Calm, Recovered, Alike, RoomFields, MembersOf, QueueOrder, Playing
<1> QED
  BY <1>2, <1>8, <1>9, <1>10 DEF Lulled, Document

LEMMA ReadyCurrentTold ==
    ASSUME Assumptions, IInv, PInv, NEW d, NEW r \in Room, NEW m, NEW seq \in 1..MaxSequence,
           NEW ready \in BOOLEAN, NEW v, ReadyCurrent(d, r, m, seq, ready, v)
    PROVE  Told
<1> DEFINE s == rooms[r]
           x == Reported(s, m, seq, ready)
<1>1. /\ Open(s) /\ m \in MembersOf(s)
      /\ IF (s.members[m].ready = s.playGen) # ready THEN Change(r, x) ELSE Quietly(r, x)
  BY DEF ReadyCurrent, Reports, Safe
<1>2. Document(s) /\ s.playGen \in Version /\ seq \in 0..MaxSequence
  BY <1>1, StoryOf DEF Bounded
<1>3. CASE Change(r, x)
  <2> HIDE DEF s
  <2>1. Lulled(s, x)
    BY <1>1, <1>2, ReportedLulled
  <2>2. x.rev = s.rev
    BY <1>2, MemberRev
  <2> HIDE DEF x
  <2> QED
    BY <1>1, <1>3, <2>1, <2>2, LulledTold DEF Assumptions, s
<1>4. CASE (s.members[m].ready = s.playGen) = ready /\ Quietly(r, x)
  <2>1. x.members \in [MembersOf(s) -> MemberShape] /\ x.playGen = s.playGen /\ SeemAlike(s, x)
    BY <1>1, <1>2, <1>4, QuietReport
  <2> QED
    BY <1>1, <1>4, <2>1, QuietlyTold
<1> QED
  BY <1>1, <1>3, <1>4

LEMMA ReadyPreparedTold ==
    ASSUME Assumptions, PrepAssumption, IInv, PInv, NEW d, NEW r \in Room, NEW m, NEW seq \in 1..MaxSequence,
           NEW ready \in BOOLEAN, NEW v, ReadyPrepared(d, r, m, seq, ready, v)
    PROVE  Told
<1> DEFINE s == rooms[r]
           x == Reported(s, m, seq, ready)
           b == [x EXCEPT !.prep.cohort[m] = [@ EXCEPT !.seq = seq, !.ready = ready]]
           t == FinishPreparation(b, enabled)
<1>1. /\ Open(s) /\ m \in MembersOf(s) /\ s.prep # None /\ m \in DOMAIN s.prep.cohort
      /\ s.epoch = epoch /\ Change(r, t)
  BY DEF ReadyPrepared, Reports, Safe
<1>2. /\ Document(s) /\ s.playGen \in Version /\ seq \in 0..MaxSequence /\ RoomsAssumption /\ NullAssumption
  BY <1>1, StoryOf DEF Bounded, Assumptions
<1>3. Lulled(s, x) /\ x.rev = s.rev
  BY <1>1, <1>2, ReportedLulled, MemberRev
<1>4. /\ Alike(s, x, {"members"}) /\ MembersOf(x) = MembersOf(s) /\ s.host \in MembersOf(s)
      /\ \A y \in MembersOf(s) : /\ x.members[y].idle = s.members[y].idle
                                 /\ x.members[y].present = s.members[y].present
  <2>1. /\ DOMAIN s = RoomFields /\ s.members[m] \in MemberShape /\ s.host \in MembersOf(s)
    BY <1>1, <1>2 DEF Document, Body, Scalars, Peopled
  <2> DEFINE member == [s.members[m] EXCEPT !.reportGen = s.playGen, !.reportSeq = seq,
                                            !.ready = IF ready THEN s.playGen ELSE 0]
  <2>2. Alike(s, x, {"members"}) /\ x.members = [s.members EXCEPT ![m] = member]
    BY <2>1 DEF Reported, RoomFields, Alike
  <2>3. member.idle = s.members[m].idle /\ member.present = s.members[m].present
    BY <2>1 DEF MemberShape
  <2> HIDE DEF member, s, x
  <2> QED
    BY <1>1, <2>1, <2>2, <2>3 DEF MembersOf
<1> HIDE DEF x
<1>5. Document(x) /\ x.prep = s.prep
  BY <1>3, <1>4 DEF Lulled, Alike, RoomFields
<1>6. Lulled(x, b) /\ Alike(x, b, {"prep"})
  BY <1>1, <1>2, <1>5, CohortEdited
<1> HIDE DEF b
<1>7. Lulled(s, b)
  BY <1>2, <1>3, <1>6, LulledTwice
<1>8. /\ b.host = s.host /\ b.suspended = s.suspended /\ b.absent = s.absent /\ b.members = x.members
      /\ b.epoch = epoch /\ b.rev = s.rev /\ MembersOf(b) = MembersOf(s)
  BY <1>1, <1>4, <1>6 DEF Alike, RoomFields, MembersOf
<1>9. StillAway(s, b)
  BY <1>4, <1>8, SameHostAway
<1>10. MayFinish(b, enabled) => b.epoch = epoch /\ ~(s.suspended \/ HostGone(s))
  BY <1>8, <1>9, StillAwayHeld DEF MayFinish
<1>11. /\ Document(t) /\ Named(s, t) /\ Recovered(s, t) /\ Supervised(s, t) /\ t.rev = b.rev
  BY <1>2, <1>7, <1>10, FinishedLull
<1>12. t.rev = s.rev
  BY <1>8, <1>11
<1> HIDE DEF t, s
<1> QED
  BY <1>1, <1>2, <1>11, <1>12, ChangeTold DEF s

-----------------------------------------------------------------------------
(* The sweep.  Stage says what one stage of planSweep may do: it lulls, it *)
(* keeps the revision and the adopted epoch, it does not bring the host    *)
(* back, and an occurrence that keeps its generation keeps its timeline.   *)
Continues(s, t) ==
    /\ t.timeline.entry = s.timeline.entry
    /\ t.playGen = s.playGen => t.timeline = s.timeline

Stage(s, t) ==
    /\ Lulled(s, t) /\ t.rev = s.rev /\ Continues(s, t) /\ StillAway(s, t)
    /\ s.epoch = epoch => t.epoch = epoch

LEMMA StageTwice ==
    ASSUME NEW s, NEW t, NEW u, Document(s), Stage(s, t), Stage(t, u)
    PROVE  Stage(s, u)
<1>1. Lulled(s, u) /\ StillAway(s, u)
  BY LulledTwice, StillAwayTwice DEF Stage
<1>2. Document(t) /\ Document(u) /\ Named(s, t) /\ Named(t, u)
  BY DEF Stage, Lulled
<1>3. s.playGen <= t.playGen /\ t.playGen <= u.playGen /\ {s.playGen, t.playGen, u.playGen} \subseteq Nat
  BY <1>2, DocumentVersions DEF Named
<1>4. u.playGen = s.playGen => t.playGen = s.playGen /\ u.playGen = t.playGen
  BY <1>3
<1>5. Continues(s, u)
  BY <1>4 DEF Stage, Continues
<1> QED
  BY <1>1, <1>5 DEF Stage

LEMMA StageSame == ASSUME NEW s, Document(s) PROVE Stage(s, s)
<1>1. s.host \in MembersOf(s)
  BY DEF Document, Body, Peopled
<1> QED
  BY <1>1, LulledSame DEF Stage, Continues, StillAway

LEMMA PauseBare ==
    ASSUME NEW s, DOMAIN s = RoomFields, s.timeline \in TimelineRecord, NEW t, t = PauseRoom(s)
    PROVE  /\ Alike(s, t, {"timeline", "prep", "playGen"})
           /\ t.timeline.entry = s.timeline.entry /\ t.playGen = s.playGen + 1
BY DEF PauseRoom, Alike, RoomFields, TimelineRecord

(* A stage that pauses.                                                    *)
LEMMA StagePaused ==
    ASSUME NEW s, Document(s), NEW u, Alike(s, u, {"epoch", "queue", "queueRev"}), Lulled(s, PauseRoom(u)),
           s.epoch = epoch => u.epoch = epoch
    PROVE  Stage(s, PauseRoom(u))
<1> DEFINE t == PauseRoom(u)
<1>1. /\ u.timeline \in TimelineRecord /\ DOMAIN u = RoomFields /\ u.timeline = s.timeline
      /\ s.playGen \in Nat /\ s.host \in MembersOf(s)
  BY DocumentVersions DEF Document, Body, Listed, Peopled, Alike, RoomFields
<1>2. /\ Alike(u, t, {"timeline", "prep", "playGen"})
      /\ t.timeline.entry = u.timeline.entry /\ t.playGen = u.playGen + 1
  BY <1>1, PauseBare
<1> HIDE DEF t
<1>3. /\ t.rev = s.rev /\ t.host = s.host /\ t.suspended = s.suspended /\ t.absent = s.absent
      /\ t.members = s.members /\ t.epoch = u.epoch /\ t.playGen = s.playGen + 1
  BY <1>2 DEF Alike, RoomFields
<1>4. StillAway(s, t)
  BY <1>1, <1>3, SameHostAway DEF MembersOf
<1>5. Continues(s, t)
  BY <1>1, <1>2, <1>3 DEF Continues
<1> QED
  BY <1>3, <1>4, <1>5 DEF Stage, t

LEMMA AdoptStage ==
    ASSUME RoomsAssumption, NEW s, Document(s), epoch \in 1..MaxEpoch
    PROVE  Stage(s, Adopt(s)) /\ Adopt(s).epoch = epoch
<1>1. Lulled(s, Adopt(s)) /\ Adopt(s).epoch = epoch
  BY AdoptLulled
<1>2. CASE s.epoch = epoch
  BY <1>1, <1>2, StageSame DEF Adopt
<1>3. CASE s.epoch # epoch
  <2> DEFINE u == [s EXCEPT !.epoch = epoch]
  <2>1. Alike(s, u, {"epoch", "queue", "queueRev"})
    BY DEF Alike, Document, Body, Scalars, RoomFields
  <2>2. Adopt(s) = PauseRoom(u)
    BY <1>3 DEF Adopt
  <2> HIDE DEF u
  <2> QED
    BY <1>1, <1>3, <2>1, <2>2, StagePaused
<1> QED
  BY <1>2, <1>3

LEMMA FlagStage == ASSUME RoomsAssumption, NEW s, Document(s) PROVE Stage(s, SweptFlag(s))
<1>1. Lulled(s, SweptFlag(s))
  BY SweptFlagLulled
<1>2. CASE SweptFlag(s) = s
  BY <1>2, StageSame
<1>3. CASE SweptFlag(s) = PauseRoom(s)
  <2>1. Alike(s, s, {"epoch", "queue", "queueRev"})
    BY DEF Alike, Document, Body, Scalars
  <2> QED
    BY <1>1, <1>3, <2>1, StagePaused
<1> QED
  BY <1>2, <1>3 DEF SweptFlag

LEMMA PresenceStage == ASSUME NEW s, Document(s) PROVE Stage(s, SweptPresence(s))
<1> DEFINE t == SweptPresence(s)
           Member2(m) == IF Lost(s.members[m]) THEN [s.members[m] EXCEPT !.present = FALSE, !.ready = 0]
                         ELSE s.members[m]
<1>1. /\ DOMAIN s = RoomFields /\ s.members \in [MembersOf(s) -> MemberShape] /\ s.host \in MembersOf(s)
  BY DEF Document, Body, Scalars, Peopled
<1>2. Alike(s, t, {"members"}) /\ t.members = [m \in MembersOf(s) |-> Member2(m)]
  BY <1>1 DEF SweptPresence, Alike, RoomFields, MembersOf
<1>3. Member2(s.host).idle = s.members[s.host].idle
      /\ (Member2(s.host).present => s.members[s.host].present)
  BY <1>1 DEF MemberShape
<1> HIDE DEF Member2
<1>4. Lulled(s, t)
  BY SweptPresenceLulled
<1> HIDE DEF t
<1>5. /\ t.rev = s.rev /\ t.host = s.host /\ t.suspended = s.suspended /\ t.absent = s.absent
      /\ t.epoch = s.epoch /\ t.timeline = s.timeline
      /\ MembersOf(t) = MembersOf(s) /\ t.members[s.host] = Member2(s.host)
  BY <1>1, <1>2 DEF Alike, RoomFields, MembersOf
<1>6. StillAway(s, t)
  BY <1>1, <1>3, <1>5 DEF StillAway, HostPresent, HostAbsence, Connected
<1> QED
  BY <1>4, <1>5, <1>6 DEF Stage, Continues, t

LEMMA HostStage == ASSUME RoomsAssumption, NEW s, Document(s) PROVE Stage(s, SweptHost(s))
<1> DEFINE noticed == [s EXCEPT !.absent = HostAbsence(s)]
           u == [noticed EXCEPT !.suspended = TRUE]
           t == SweptHost(s)
<1>1. Lulled(s, t)
  BY SweptHostLulled
<1>2. /\ DOMAIN s = RoomFields /\ s.host \in MembersOf(s) /\ s.timeline \in TimelineRecord /\ s.playGen \in Nat
  BY DocumentVersions DEF Document, Body, Scalars, Peopled, Listed
<1>3. CASE HostPresent(s)
  BY <1>3, StageSame DEF SweptHost
<1>4. ASSUME ~HostPresent(s), NEW x, Alike(s, x, {"absent", "suspended", "timeline", "prep", "playGen"}),
             x.absent = HostAbsence(s), s.suspended => x.suspended
      PROVE  StillAway(s, x) /\ x.rev = s.rev /\ x.epoch = s.epoch
  BY <1>2, <1>4 DEF StillAway, HostPresent, HostAbsence, Alike, RoomFields, MembersOf
<1>5. CASE ~HostPresent(s) /\ t = noticed
  <2>1. Alike(s, t, {"absent"}) /\ t.absent = HostAbsence(s)
    BY <1>2, <1>5 DEF Alike, RoomFields
  <2> HIDE DEF t, noticed
  <2>2. Alike(s, t, {"absent", "suspended", "timeline", "prep", "playGen"}) /\ t.suspended = s.suspended
        /\ t.timeline = s.timeline
    BY <2>1 DEF Alike, RoomFields
  <2> QED
    BY <1>1, <1>4, <1>5, <2>1, <2>2 DEF Stage, Continues, t
<1>6. CASE ~HostPresent(s) /\ t = PauseRoom(u)
  <2>1. Alike(s, u, {"absent", "suspended"}) /\ u.absent = HostAbsence(s) /\ u.suspended = TRUE
    BY <1>2 DEF Alike, RoomFields
  <2> HIDE DEF u
  <2>2. DOMAIN u = RoomFields /\ u.timeline = s.timeline /\ u.playGen = s.playGen
    BY <2>1 DEF Alike, RoomFields
  <2>3. /\ Alike(u, t, {"timeline", "prep", "playGen"})
        /\ t.timeline.entry = u.timeline.entry /\ t.playGen = u.playGen + 1
    BY <1>2, <1>6, <2>2, PauseBare
  <2> HIDE DEF t
  <2>4. Alike(s, t, {"absent", "suspended", "timeline", "prep", "playGen"})
        /\ t.absent = HostAbsence(s) /\ t.suspended = TRUE
    BY <2>1, <2>3 DEF Alike, RoomFields
  <2>5. StillAway(s, t) /\ t.rev = s.rev /\ t.epoch = s.epoch
    BY <1>4, <1>6, <2>4
  <2>6. Continues(s, t)
    BY <1>2, <2>2, <2>3 DEF Continues
  <2> QED
    BY <1>1, <2>5, <2>6 DEF Stage, t
<1> QED
  BY <1>3, <1>5, <1>6 DEF SweptHost

LEMMA OfferStage == ASSUME NEW s, Document(s) PROVE Stage(s, SweptOffer(s))
<1> DEFINE t == SweptOffer(s)
<1>1. Lulled(s, t)
  BY SweptOfferLulled
<1>2. Alike(s, t, {"transfer"}) /\ s.host \in MembersOf(s)
  BY DEF SweptOffer, Alike, Document, Body, Scalars, Peopled, RoomFields
<1> HIDE DEF t
<1>3. /\ t.rev = s.rev /\ t.host = s.host /\ t.suspended = s.suspended /\ t.absent = s.absent
      /\ t.epoch = s.epoch /\ t.timeline = s.timeline /\ t.members = s.members
  BY <1>2 DEF Alike, RoomFields
<1>4. StillAway(s, t)
  BY <1>2, <1>3, SameHostAway DEF MembersOf
<1> QED
  BY <1>1, <1>3, <1>4 DEF Stage, Continues, t

LEMMA QueueStage == ASSUME RoomsAssumption, NEW s, Document(s) PROVE Stage(s, SweptQueue(s))
<1> DEFINE u == [s EXCEPT !.queueRev = @ + 1,
                          !.queue = [i \in DOMAIN @ |->
                              IF i \in LostMedia(s) THEN [@[i] EXCEPT !.gone = TRUE] ELSE @[i]]]
           t == SweptQueue(s)
<1>1. Lulled(s, t)
  BY SweptQueueLulled
<1>2. CASE t = s
  BY <1>2, StageSame
<1>3. Alike(s, u, {"epoch", "queue", "queueRev"}) /\ s.host \in MembersOf(s) /\ u.epoch = s.epoch
      /\ DOMAIN u = RoomFields
  BY DEF Alike, Document, Body, Scalars, Peopled, RoomFields
<1>4. t = s \/ t = u \/ t = PauseRoom(u)
  BY DEF SweptQueue
<1> HIDE DEF u, t
<1>5. CASE t = PauseRoom(u)
  BY <1>1, <1>3, <1>5, StagePaused DEF t
<1>6. CASE t = u
  <2>1. /\ t.rev = s.rev /\ t.host = s.host /\ t.suspended = s.suspended /\ t.absent = s.absent
        /\ t.epoch = s.epoch /\ t.timeline = s.timeline /\ t.members = s.members
    BY <1>3, <1>6 DEF Alike, RoomFields
  <2>2. StillAway(s, t)
    BY <1>3, <2>1, SameHostAway DEF MembersOf
  <2> QED
    BY <1>1, <2>1, <2>2 DEF Stage, Continues, t
<1> QED
  BY <1>2, <1>4, <1>5, <1>6

LEMMA SweptStage ==
    ASSUME RoomsAssumption, NEW s, Document(s), epoch \in 1..MaxEpoch, NEW swept \in Swept(s)
    PROVE  Stage(s, swept) /\ swept.epoch = epoch
<1> DEFINE a == Adopt(s)
           f == SweptFlag(a)
           p == SweptPresence(f)
           h == SweptHost(p)
           o == SweptOffer(h)
<1>1. swept = SweptQueue(o)
  BY DEF Swept
<1>2. Stage(s, a) /\ a.epoch = epoch /\ Document(a)
  BY AdoptStage DEF Stage, Lulled
<1>3. Stage(a, f) /\ Document(f)
  BY <1>2, FlagStage DEF Stage, Lulled
<1>4. Stage(f, p) /\ Document(p)
  BY <1>3, PresenceStage DEF Stage, Lulled
<1>5. Stage(p, h) /\ Document(h)
  BY <1>4, HostStage DEF Stage, Lulled
<1>6. Stage(h, o) /\ Document(o)
  BY <1>5, OfferStage DEF Stage, Lulled
<1>7. Stage(o, swept)
  BY <1>1, <1>6, QueueStage
<1> HIDE DEF a, f, p, h, o
<1>8. Stage(a, p)
  BY <1>2, <1>3, <1>4, StageTwice
<1>9. Stage(a, h)
  BY <1>2, <1>8, <1>5, StageTwice
<1>10. Stage(a, o)
  BY <1>2, <1>9, <1>6, StageTwice
<1>11. Stage(a, swept)
  BY <1>2, <1>10, <1>7, StageTwice
<1>12. Stage(s, swept)
  BY <1>2, <1>11, StageTwice
<1>13. swept.epoch = epoch
  BY <1>2, <1>11 DEF Stage
<1> QED
  BY <1>12, <1>13

-----------------------------------------------------------------------------
(* At the natural end the next occurrence is prepared, or the room ends.   *)
LEMMA EndedLulled ==
    ASSUME RoomsAssumption, NEW s, Document(s), NEW t, t = [PauseRoom(s) EXCEPT !.timeline.state = "ended"]
    PROVE  Lulled(s, t) /\ t.rev = s.rev /\ ~Playing(t)
<1> DEFINE p == PauseRoom(s)
<1>1. /\ Document(p) /\ Named(s, p) /\ p.epoch = s.epoch /\ p.playGen = s.playGen + 1 /\ p.suspended = s.suspended
      /\ p.prep = None /\ p.rev = s.rev
  BY PausedBody, PauseFacts DEF Document, Alike, RoomFields
<1> HIDE DEF p
<1>2. /\ DOMAIN p = RoomFields /\ p.timeline \in TimelineRecord
  BY <1>1 DEF Document, Body, Scalars, Listed
<1>3. Alike(p, t, {"timeline"}) /\ t.timeline = [p.timeline EXCEPT !.state = "ended"]
  BY <1>2 DEF p, Alike, RoomFields
<1>4. /\ t.timeline \in TimelineRecord /\ t.timeline.state = "ended" /\ t.timeline.entry = p.timeline.entry
  BY <1>2, <1>3 DEF TimelineRecord
<1>5. ~Playing(t)
  BY <1>4 DEF Playing
<1>6. Body(t)
  <2>1. Body(p)
    BY <1>1 DEF Document
  <2>2. \A f \in RoomFields \ {"timeline"} : t[f] = p[f]
    BY <1>3 DEF Alike
  <2>3. Scalars(t)
    BY <2>1, <1>3 DEF Body, Scalars, Alike, RoomFields
  <2>4. Peopled(t)
    BY <2>1, <2>2 DEF Body, Peopled, RoomFields, MembersOf
  <2>5. Listed(t) /\ Asked(t)
    BY <2>1, <2>2, <1>4 DEF Body, Listed, Asked, RoomFields, EntryIds
  <2> QED
    BY <2>3, <2>4, <2>5 DEF Body
<1>7. Prepared(t)
  <2>1. t.prep = None /\ t.timeline.state # "preparing"
    BY <1>1, <1>3, <1>4 DEF Alike, RoomFields
  <2> QED
    BY <2>1, <1>5 DEF Prepared
<1>8. t.playGen = s.playGen + 1 /\ s.playGen \in Nat /\ t.epoch = s.epoch /\ t.rev = s.rev
  BY <1>1, <1>3, DocumentVersions DEF Alike, RoomFields
<1>9. Named(s, t)
  BY <1>1, <1>3, <1>8 DEF Named, Alike, RoomFields, MembersOf, QueueOrder
<1> QED
  BY <1>5, <1>6, <1>7, <1>8, <1>9 DEF Lulled, Document, Calm, Recovered

LEMMA AdvanceFacts ==
    ASSUME RoomsAssumption, PrepAssumption, NEW s, Document(s), NEW t, t = Advance(s)
    PROVE  Document(t) /\ Named(s, t) /\ t.rev = s.rev /\ t.epoch = s.epoch
<1> DEFINE i == IndexOf(s, s.timeline.entry) + 1
<1>1. CASE i \in DOMAIN s.queue /\ ~s.queue[i].gone
  <2>1. t = Prepare(s, s.queue[i].id, 0)
    BY <1>1 DEF Advance
  <2>2. s.queue[i].id \in EntryIds(s)
    BY <1>1 DEF EntryIds
  <2>3. 0 \in Position
    BY AgeTypes DEF Position
  <2> HIDE DEF i
  <2>4. Document(t) /\ Named(s, t) /\ Alike(s, t, {"playGen", "timeline", "prep", "suspended"})
    BY <2>1, <2>2, <2>3, PrepareFacts
  <2> QED
    BY <2>4 DEF Alike, RoomFields
<1>2. CASE ~(i \in DOMAIN s.queue /\ ~s.queue[i].gone)
  <2>1. t = [PauseRoom(s) EXCEPT !.timeline.state = "ended"]
    BY <1>2 DEF Advance
  <2>2. Lulled(s, t) /\ t.rev = s.rev /\ ~Playing(t)
    BY <2>1, EndedLulled
  <2>3. t.epoch = s.epoch
    <3>1. DOMAIN PauseRoom(s) = RoomFields /\ PauseRoom(s).epoch = s.epoch
      BY PauseFacts DEF Document, Alike, RoomFields
    <3> QED
      BY <2>1, <3>1 DEF RoomFields
  <2> QED
    BY <2>2, <2>3 DEF Lulled
<1> QED
  BY <1>1, <1>2

(* The sweep of a room that stays open, up to the end of its preparation.  *)
LEMMA SweptFacts ==
    ASSUME RoomsAssumption, PrepAssumption, NEW s, Document(s), epoch \in 1..MaxEpoch,
           NEW swept \in Swept(s), NEW final, final = FinishPreparation(swept, enabled)
    PROVE  /\ Document(final) /\ Named(s, final) /\ Recovered(s, final) /\ Supervised(s, final)
           /\ final.rev = s.rev /\ final.epoch = epoch
           /\ StillAway(s, final)
           /\ final.timeline.entry = s.timeline.entry
           /\ final.playGen = s.playGen =>
                 final.timeline = s.timeline \/ s.timeline.state = "preparing"
<1>1. Stage(s, swept) /\ swept.epoch = epoch
  BY SweptStage
<1>2. /\ Lulled(s, swept) /\ swept.rev = s.rev /\ StillAway(s, swept) /\ Continues(s, swept) /\ Document(swept)
  BY <1>1 DEF Stage, Lulled
<1>3. MayFinish(swept, enabled) => swept.epoch = epoch /\ ~(s.suspended \/ HostGone(s))
  BY <1>1, <1>2, StillAwayHeld DEF MayFinish
<1>4. /\ Document(final) /\ Named(s, final) /\ Recovered(s, final) /\ Supervised(s, final) /\ final.rev = swept.rev
  BY <1>2, <1>3, FinishedLull
<1>5. /\ Alike(swept, final, {"timeline", "prep"}) /\ final.timeline.entry = swept.timeline.entry
      /\ final.timeline # swept.timeline => swept.timeline.state = "preparing"
  BY <1>2, FinishFacts
<1>6. /\ final.host = swept.host /\ final.suspended = swept.suspended /\ final.absent = swept.absent
      /\ final.members = swept.members /\ final.epoch = swept.epoch /\ final.playGen = swept.playGen
      /\ swept.host \in MembersOf(swept)
  BY <1>2, <1>5 DEF Alike, RoomFields, Document, Body, Peopled
<1>7. StillAway(swept, final)
  BY <1>6, SameHostAway DEF MembersOf
<1>8. StillAway(s, final)
  BY <1>2, <1>7, StillAwayTwice
<1>9. /\ final.timeline.entry = s.timeline.entry
      /\ final.playGen = s.playGen => final.timeline = s.timeline \/ s.timeline.state = "preparing"
  BY <1>2, <1>5, <1>6 DEF Continues
<1> QED
  BY <1>1, <1>2, <1>4, <1>6, <1>8, <1>9

LEMMA SweepTold ==
    ASSUME Assumptions, PrepAssumption, IInv, PInv, NEW r \in Room, NEW c, Sweep(r, c)
    PROVE  Told
<1> DEFINE s == rooms[r]
<1>1. Open(s) /\ Document(s) /\ RoomsAssumption /\ NullAssumption /\ epoch \in 1..MaxEpoch
      /\ s.host \in MembersOf(s)
  BY StoryOf DEF Sweep, Assumptions, PInv, Outer, Document, Body, Peopled
<1>2. CASE Closes(s)
  <2>1. Expel({<<r, s.host>>}, {}) /\ UNCHANGED <<social, world, joins, view>>
    BY <1>2 DEF Sweep
  <2> QED
    BY <1>1, <2>1, ExpelOneTold
<1>3. CASE ~Closes(s)
  <2>1. PICK swept \in Swept(s) : \E final \in {FinishPreparation(swept, enabled)} :
               IF Ended(final, c) THEN Change(r, Advance(final))
               ELSE /\ swept # rooms[r] \/ Finishes(swept, enabled)
                    /\ Change(r, final)
    BY <1>3 DEF Sweep
  <2> DEFINE final == FinishPreparation(swept, enabled)
             x == Advance(final)
  <2>2. IF Ended(final, c) THEN Change(r, x) ELSE Change(r, final)
    BY <2>1
  <2>3. /\ Document(final) /\ Named(s, final) /\ Recovered(s, final) /\ Supervised(s, final)
        /\ final.rev = s.rev /\ final.epoch = epoch /\ StillAway(s, final)
    BY <1>1, SweptFacts
  <2> HIDE DEF final
  <2>4. CASE ~Ended(final, c)
    <3>1. Change(r, final)
      BY <2>2, <2>4
    <3> QED
      BY <1>1, <2>3, <3>1, ChangeTold
  <2>5. CASE Ended(final, c)
    <3>1. enabled /\ Playing(final) /\ ~PlaybackSuspended(final)
      BY <2>5 DEF Ended, Playing
    <3>2. s.epoch = epoch
      BY <2>3, <3>1 DEF Recovered
    <3>3. Document(x) /\ Named(final, x) /\ x.rev = final.rev /\ x.epoch = final.epoch
      BY <1>1, <2>3, AdvanceFacts
    <3>4. Change(r, x)
      BY <2>2, <2>5
    <3> HIDE DEF x, s
    <3>5. Named(s, x)
      BY <1>1, <2>3, <3>3, NamedTwice DEF Document
    <3>6. Recovered(s, x)
      BY <2>3, <3>2, <3>3 DEF Recovered
    <3>7. ~(s.suspended \/ HostGone(s))
      BY <2>3, <3>1, StillAwayHeld
    <3>8. Supervised(s, x)
      BY <2>3, <3>1, <3>3, <3>7 DEF Supervised
    <3>9. x.rev = s.rev
      BY <2>3, <3>3
    <3> QED
      BY <1>1, <3>3, <3>4, <3>5, <3>6, <3>8, <3>9, ChangeTold DEF s
  <2> QED
    BY <2>4, <2>5
<1> QED
  BY <1>2, <1>3

-----------------------------------------------------------------------------
(* Admission.  A snapshot cannot name a member that is admitted later.     *)
LEMMA NewMemberShape ==
    ASSUME RoomsAssumption, NEW d \in Device
    PROVE  NewMember(d) \in MemberShape
<1>1. 0 \in Age /\ MaxSequence \in Nat
  BY AgeTypes DEF RoomsAssumption
<1> QED
  BY <1>1 DEF NewMember, MemberShape

LEMMA AdmittedTold ==
    ASSUME Assumptions, IInv, PInv, UNCHANGED <<active, blocks, world, view>>,
           \A a \in Account : joins[a] <= joins'[a] /\ {joins[a], joins'[a]} \subseteq Nat,
           NEW r \in Room, NEW t, rooms' = [rooms EXCEPT ![r] = t], Story(t), t # None,
           \A m \in MembersOf(t) : m[2] <= joins'[m[1]],
           rooms[r] # Closed,
           Open(rooms[r]) =>
              /\ ~Playing(t) \/ (t.timeline = rooms[r].timeline /\ t.playGen = rooms[r].playGen)
              /\ t.epoch = rooms[r].epoch /\ t.rev # rooms[r].rev
              /\ \A v : Seen(v) /\ Remembers(v, rooms[r]) => Remembers(v, t)
    PROVE  Told
<1>1. Outer'
  BY OuterSame
<1>2. \A q \in Room : rooms'[q] = IF q = r THEN t ELSE rooms[q]
  BY DEF IInv, Rows
<1>3. Stories'
  <2> SUFFICES ASSUME NEW q \in Room, Open(rooms'[q])
               PROVE  Story(rooms'[q]) /\ \A m \in MembersOf(rooms'[q]) : m[2] <= joins'[m[1]]
    BY DEF Stories
  <2>1. CASE q = r
    BY <1>2, <2>1
  <2>2. CASE q # r
    <3>1. rooms'[q] = rooms[q] /\ Story(rooms[q]) /\ \A m \in MembersOf(rooms[q]) : m[2] <= joins[m[1]]
      BY <1>2, <2>2, StoryOf
    <3>2. \A m \in MembersOf(rooms[q]) : m \in Member
      BY <3>1 DEF Story, Document, Body, Peopled
    <3>3. \A m \in MembersOf(rooms[q]) : m[1] \in Account /\ m[2] \in Nat
      BY <3>2 DEF Member
    <3> QED
      BY <3>1, <3>3
  <2> QED
    BY <2>1, <2>2
<1>4. Viewed'
  <2> SUFFICES ASSUME view # None
               PROVE  /\ view.room \in Room /\ rooms'[view.room] # None
                      /\ Seen(view.what)'
                      /\ Open(rooms'[view.room]) => Remembers(view.what, rooms'[view.room])
    BY DEF Viewed, Seen
  <2>1. /\ view.room \in Room /\ rooms[view.room] # None
        /\ Seen(view.what)
        /\ Open(rooms[view.room]) => Remembers(view.what, rooms[view.room])
    BY DEF PInv, Viewed
  <2>2. rooms'[view.room] # None
    BY <1>2, <2>1
  <2>3. Seen(view.what)'
    <3>1. \A m \in DOMAIN view.what.gens : m[1] \in Account /\ m[2] \in Nat /\ m[2] <= joins[m[1]]
      BY <2>1 DEF Seen, Member
    <3>2. \A m \in DOMAIN view.what.gens : m[2] <= joins'[m[1]]
      BY <3>1
    <3> QED
      BY <2>1, <3>2 DEF Seen
  <2>4. ASSUME Open(rooms'[view.room]) PROVE Remembers(view.what, rooms'[view.room])
    BY <1>2, <2>1, <2>4 DEF Open
  <2> QED
    BY <2>1, <2>2, <2>3, <2>4
<1>5. PInv'
  BY <1>1, <1>3, <1>4 DEF PInv
<1>6. StartSupervised
  <2> SUFFICES ASSUME NEW q \in Room, Starts(q) PROVE FALSE
    BY DEF StartSupervised
  <2>1. q = r /\ rooms'[r] = t /\ Open(rooms[r]) /\ Playing(t)
        /\ (t.timeline.state # rooms[r].timeline.state \/ t.playGen # rooms[r].playGen)
    BY <1>2 DEF Starts
  <2> QED
    BY <2>1
<1>7. RecoveryPauses
  BY <1>2 DEF RecoveryPauses
<1>8. ShownChangeRevised
  BY <1>2 DEF ShownChangeRevised
<1> QED
  BY <1>5, <1>6, <1>7, <1>8 DEF Told

(* create                                                                  *)
Created(d, m, tracks) ==
    NewRoom(d, m, epoch, [i \in DOMAIN tracks |-> <<tracks[i], media[tracks[i]].revision>>])

LEMMA CreatedStory ==
    ASSUME PlaybackAssumptions, PInv, NEW d \in Device, NEW m \in Member, NEW tracks \in Queues
    PROVE  /\ Document(Created(d, m, tracks)) /\ MembersOf(Created(d, m, tracks)) = {m}
           /\ ~Playing(Created(d, m, tracks))
<1> DEFINE t == Created(d, m, tracks)
           n == Len(tracks)
           pairs == [i \in DOMAIN tracks |-> <<tracks[i], media[tracks[i]].revision>>]
           queue == [i \in DOMAIN pairs |-> NewEntry(i, pairs[i][1], pairs[i][2], m)]
           timeline == [entry |-> 1, state |-> "paused", pos |-> 0, elapsed |-> 0]
           made == [x \in {m} |-> NewMember(d)]
<1>1. /\ n \in 1..MaxQueue /\ n <= MaxEntries /\ DOMAIN tracks = 1..n
      /\ \A i \in 1..n : tracks[i] \in Track
      /\ {MaxQueue, MaxEntries, MaxVersion, MaxSongRequests} \subseteq Nat \ {0}
  BY DEF PlaybackAssumptions, QueuesAssumption, Assumptions, RoomsAssumption
<1>2. /\ RoomsAssumption /\ epoch \in 1..MaxEpoch
      /\ media \in [Track -> [revision : 1..MaxMedia, ready : BOOLEAN]]
  BY DEF PlaybackAssumptions, Assumptions, PInv, Outer
<1>3. /\ queue = [i \in 1..n |-> queue[i]]
      /\ \A i \in 1..n : queue[i] = NewEntry(i, tracks[i], media[tracks[i]].revision, m)
      /\ Len(pairs) = n
  BY <1>1
<1>4. ASSUME NEW i \in 1..n
      PROVE  queue[i] \in EntryRecord /\ queue[i].id = i
  <2>1. i \in EntryId /\ tracks[i] \in Track /\ media[tracks[i]].revision \in 1..MaxMedia
    BY <1>1, <1>2 DEF EntryId
  <2>2. ASSUME NEW track \in Track, NEW revision \in 1..MaxMedia
        PROVE  NewEntry(i, track, revision, m) \in EntryRecord /\ NewEntry(i, track, revision, m).id = i
    BY <2>1 DEF NewEntry, EntryRecord
  <2> HIDE DEF queue, n
  <2> QED
    BY <1>3, <2>1, <2>2
<1>5. /\ DOMAIN t = RoomFields
      /\ t.epoch = epoch /\ t.host = m
      /\ t.controlGen = 1 /\ t.queueRev = 1 /\ t.playGen = 1 /\ t.rev = 0
      /\ t.members = made /\ t.queue = queue /\ t.entries = n /\ t.requests = {}
      /\ t.timeline = timeline /\ t.prep = None /\ t.transfer = None /\ t.absent = None
      /\ t.suspended \in BOOLEAN /\ t.expired \in BOOLEAN /\ t.everyone \in BOOLEAN
  BY <1>3 DEF NewRoom, RoomFields, Created
<1>6. NewMember(d) \in MemberShape
  BY <1>2, NewMemberShape
<1>7. DOMAIN made = {m} /\ made \in [{m} -> MemberShape]
  BY <1>6
<1>8. timeline \in TimelineRecord /\ timeline.entry = 1 /\ timeline.state = "paused"
  <2>1. 0 \in Position /\ 0 \in (-StartLead)..Duration /\ 1 \in EntryId
    BY <1>1, <1>2 DEF RoomsAssumption, TimingAssumption, Position, EntryId
  <2> QED
    BY <2>1 DEF TimelineRecord
<1> HIDE DEF queue, timeline, made, pairs, t
<1>9. queue \in Seq(EntryRecord) /\ Len(queue) = n /\ DOMAIN queue = 1..n
  <2>1. n \in Nat
    BY <1>1
  <2> HIDE DEF n
  <2> QED
    BY <1>3, <1>4, <2>1
<1> HIDE DEF n
<1>10. Scalars(t)
  <2>1. t.epoch \in 1..MaxEpoch /\ t.controlGen = 1 /\ t.queueRev = 1 /\ t.playGen = 1
    BY <1>2, <1>5
  <2> QED
    BY <1>5, <2>1 DEF Scalars
<1>11. Peopled(t)
  BY <1>5, <1>7 DEF Peopled, MembersOf
<1>12. Listed(t)
  <2>1. n \in EntryId /\ n \in 1..MaxQueue /\ 1 \in 1..n
    BY <1>1 DEF EntryId
  <2>2. 1 \in EntryIds(t)
    BY <1>4, <1>5, <1>9, <2>1 DEF EntryIds
  <2>3. \A i \in 1..n : i <= n
    BY <1>1
  <2> QED
    BY <1>4, <1>5, <1>8, <1>9, <2>1, <2>2, <2>3 DEF Listed
<1>13. Asked(t)
  <2>1. IsFiniteSet({}) /\ Cardinality({}) = 0 /\ 0 <= MaxSongRequests
    BY <1>1, FS_EmptySet
  <2> QED
    BY <1>5, <2>1 DEF Asked
<1>14. Prepared(t) /\ ~Playing(t)
  BY <1>5, <1>8 DEF Prepared, Playing
<1> QED
  BY <1>5, <1>7, <1>10, <1>11, <1>12, <1>13, <1>14 DEF Document, Body, MembersOf, t

LEMMA CreateTold ==
    ASSUME PlaybackAssumptions, IInv, PInv, NEW d \in Device, NEW r \in Room, Create(d, r)
    PROVE  Told
<1> DEFINE a == AccountOf[d]
           m == Fresh(a)
<1>1. PICK tracks \in Queues : Write(r, Created(d, m, tracks))
  BY DEF Create, Created
<1>2. /\ rooms[r] = None /\ joins[a] < MaxJoins /\ joins' = [joins EXCEPT ![a] = @ + 1]
      /\ UNCHANGED <<active, blocks, world, view>>
  BY DEF Create, social
<1>3. a \in Account /\ RoomsAssumption /\ NullAssumption /\ Assumptions
  BY DEF PlaybackAssumptions, Assumptions, RoomsAssumption
<1>4. m \in Member /\ m[1] = a /\ m[2] = joins[a] + 1 /\ joins \in [Account -> 0..MaxJoins]
      /\ MaxJoins \in Nat
  BY <1>2, <1>3, FreshIsMember DEF Fresh, IInv, Rows, RoomsAssumption
<1> HIDE DEF a, m
<1> DEFINE t == Created(d, m, tracks)
<1>5. Document(t) /\ MembersOf(t) = {m} /\ ~Playing(t)
  BY <1>4, CreatedStory
<1>6. rooms' = [rooms EXCEPT ![r] = t] /\ Story(t)
  BY <1>1, <1>5 DEF Write, Story
<1> HIDE DEF t
<1>7. t # None
  BY <1>3, <1>5 DEF Document, Body, Scalars, NullAssumption
<1>8. /\ \A x \in Account : joins[x] <= joins'[x] /\ {joins[x], joins'[x]} \subseteq Nat
      /\ joins'[a] = joins[a] + 1
  BY <1>2, <1>3, <1>4
<1>9. \A x \in MembersOf(t) : x[2] <= joins'[x[1]]
  BY <1>3, <1>4, <1>5, <1>8
<1>10. rooms[r] # Closed /\ ~Open(rooms[r])
  BY <1>2, <1>3 DEF NullAssumption, Open
<1> QED
  BY <1>2, <1>3, <1>6, <1>7, <1>8, <1>9, <1>10, AdmittedTold

(* acceptInvitation                                                        *)
Joined(s, d, m) ==
    Persist([s EXCEPT !.members = [x \in DOMAIN @ \cup {m} |-> IF x = m THEN NewMember(d) ELSE @[x]]])

LEMMA JoinedStory ==
    ASSUME RoomsAssumption, NEW s, Document(s), NEW d \in Device, NEW m \in Member, m \notin MembersOf(s)
    PROVE  /\ Document(Joined(s, d, m)) /\ Alike(s, Joined(s, d, m), {"members", "rev"})
           /\ Joined(s, d, m).rev # s.rev
           /\ MembersOf(Joined(s, d, m)) = MembersOf(s) \cup {m}
           /\ \A x \in MembersOf(s) : Joined(s, d, m).members[x] = s.members[x]
<1> DEFINE t == Joined(s, d, m)
           members == [x \in MembersOf(s) \cup {m} |-> IF x = m THEN NewMember(d) ELSE s.members[x]]
<1>1. /\ DOMAIN s = RoomFields /\ s.rev \in {0, 1} /\ s.members \in [MembersOf(s) -> MemberShape]
      /\ NewMember(d) \in MemberShape /\ MembersOf(s) \subseteq Member
  BY NewMemberShape DEF Document, Body, Scalars, Peopled
<1>2. Alike(s, t, {"members", "rev"}) /\ t.rev = 1 - s.rev /\ t.members = members
  BY <1>1 DEF Joined, Persist, Alike, RoomFields, MembersOf
<1>3. /\ members \in [MembersOf(s) \cup {m} -> MemberShape]
      /\ \A x \in MembersOf(s) : members[x] = s.members[x]
  BY <1>1
<1> HIDE DEF members, t
<1>4. MembersOf(t) = MembersOf(s) \cup {m}
      /\ \A x \in MembersOf(s) : t.members[x] = s.members[x]
  BY <1>2, <1>3 DEF MembersOf
<1>5. t.rev \in {0, 1} /\ t.rev # s.rev
  BY <1>1, <1>2
<1>6. \A f \in RoomFields \ {"members", "rev"} : t[f] = s[f]
  BY <1>2 DEF Alike
<1>7. Scalars(t)
  BY <1>2, <1>5, <1>6 DEF Document, Body, Scalars, Alike, RoomFields
<1>8. Peopled(t)
  <2>1. Peopled(s)
    BY DEF Document, Body
  <2>2. t.host = s.host /\ t.transfer = s.transfer
    BY <1>6 DEF RoomFields
  <2> QED
    BY <1>1, <1>2, <1>3, <1>4, <2>1, <2>2 DEF Peopled
<1>9. Listed(t) /\ Asked(t)
  BY <1>6 DEF Document, Body, Listed, Asked, EntryIds, RoomFields
<1>10. Prepared(t)
  <2>1. Prepared(s)
    BY DEF Document
  <2>2. t.prep = s.prep /\ t.timeline = s.timeline /\ t.playGen = s.playGen /\ t.suspended = s.suspended
    BY <1>6 DEF RoomFields
  <2> QED
    BY <1>4, <2>1, <2>2 DEF Prepared, Playing
<1> QED
  BY <1>2, <1>4, <1>5, <1>7, <1>8, <1>9, <1>10 DEF Document, Body, t

LEMMA AcceptTold ==
    ASSUME Assumptions, IInv, PInv, NEW d \in Device, NEW r \in Room, Accept(d, r)
    PROVE  Told
<1> DEFINE a == AccountOf[d]
           m == Fresh(a)
           s == rooms[r]
           t == Joined(s, d, m)
<1>1. /\ Open(s) /\ joins[a] < MaxJoins /\ Write(r, t)
      /\ joins' = [joins EXCEPT ![a] = @ + 1]
      /\ UNCHANGED <<active, blocks, world, view>>
  BY DEF Accept, Invited, Safe, social, Joined
<1>2. a \in Account /\ RoomsAssumption /\ NullAssumption
  BY DEF Assumptions, RoomsAssumption
<1>3. m \in Member /\ m[1] = a /\ m[2] = joins[a] + 1 /\ joins \in [Account -> 0..MaxJoins]
      /\ MaxJoins \in Nat
  BY <1>1, <1>2, FreshIsMember DEF Fresh, IInv, Rows, RoomsAssumption
<1> HIDE DEF a, m
<1>4. Document(s) /\ \A x \in MembersOf(s) : x[2] <= joins[x[1]]
  BY <1>1, StoryOf
<1>5. m \notin MembersOf(s)
  <2>1. joins[a] \in Nat
    BY <1>2, <1>3
  <2> QED
    BY <1>3, <1>4, <2>1
<1> HIDE DEF s
<1>6. /\ Document(t) /\ Alike(s, t, {"members", "rev"}) /\ t.rev # s.rev
      /\ MembersOf(t) = MembersOf(s) \cup {m}
      /\ \A x \in MembersOf(s) : t.members[x] = s.members[x]
  BY <1>2, <1>3, <1>4, <1>5, JoinedStory
<1>7. rooms' = [rooms EXCEPT ![r] = t] /\ Story(t)
  BY <1>1, <1>6 DEF Write, Story
<1> HIDE DEF t
<1>8. t # None
  BY <1>2, <1>6 DEF Document, Body, Scalars, NullAssumption
<1>9. /\ \A x \in Account : joins[x] <= joins'[x] /\ {joins[x], joins'[x]} \subseteq Nat
      /\ joins'[a] = joins[a] + 1
  BY <1>1, <1>2, <1>3
<1>10. \A x \in MembersOf(t) : x[2] <= joins'[x[1]]
  <2>1. \A x \in MembersOf(s) : x[1] \in Account /\ x[2] \in Nat
    BY <1>4 DEF Document, Body, Peopled, Member
  <2> QED
    BY <1>2, <1>3, <1>4, <1>6, <1>9, <2>1
<1>11. /\ t.timeline = s.timeline /\ t.playGen = s.playGen /\ t.epoch = s.epoch
       /\ t.queueRev = s.queueRev /\ t.queue = s.queue /\ t.controlGen = s.controlGen
       /\ t.host = s.host /\ t.everyone = s.everyone
  BY <1>6 DEF Alike, RoomFields
<1>12. ASSUME NEW v, Seen(v), Remembers(v, s) PROVE Remembers(v, t)
  <2>1. m \notin DOMAIN v.gens
    <3>1. joins[a] \in Nat
      BY <1>2, <1>3
    <3> QED
      BY <1>3, <1>12, <3>1 DEF Seen
  <2>2. \A x \in DOMAIN v.gens \cap MembersOf(t) : x \in MembersOf(s) /\ t.members[x] = s.members[x]
    BY <1>6, <2>1
  <2>3. QueueOrder(t) = QueueOrder(s)
    BY <1>11 DEF QueueOrder
  <2> QED
    BY <1>11, <1>12, <2>2, <2>3 DEF Remembers
<1>13. s # Closed
  BY <1>1 DEF Open
<1> QED
  BY <1>1, <1>2, <1>6, <1>7, <1>8, <1>9, <1>10, <1>11, <1>12, <1>13, AdmittedTold DEF s

-----------------------------------------------------------------------------
LEMMA InitPInv == ASSUME Assumptions, Init PROVE PInv
<1>1. \A r \in Room : ~Open(rooms[r])
  BY DEF Init, Open
<1>2. 1 \in 1..MaxEpoch /\ 1 \in 1..MaxMedia
  BY DEF Assumptions, RoomsAssumption
<1>3. Outer
  BY <1>2 DEF Init, Outer
<1>4. Stories /\ Viewed
  BY <1>1 DEF Init, Stories, Viewed
<1> QED
  BY <1>3, <1>4 DEF PInv

LEMMA DeviceTold ==
    ASSUME PlaybackAssumptions, IInv, PInv, NEW d \in Device, NEW r \in Room, DeviceStep(d, r)
    PROVE  Told
<1>1. Assumptions /\ PrepAssumption
  BY DEF PlaybackAssumptions
<1>2. CASE Admission(d, r)
  BY <1>1, <1>2, CreateTold, AcceptTold, InvitationTold DEF Admission
<1>3. CASE Disconnected(d, r)
  BY <1>1, <1>3, DisconnectedTold
<1>4. ASSUME Open(rooms[r]), NEW m \in MembersOf(rooms[r]), Membership(d, r, m) PROVE Told
  BY <1>1, <1>4, LeaveTold, InviteTold DEF Membership
<1>5. ASSUME Open(rooms[r]), NEW m \in MembersOf(rooms[r]), Control(d, r, m) PROVE Told
  BY <1>1, <1>5, TakeControlTold, CancelTransferTold, AcceptTransferTold, SetControlModeTold,
     OfferTransferTold DEF Control
<1>6. ASSUME Open(rooms[r]), NEW m \in MembersOf(rooms[r]), QueueCommand(d, r, m) PROVE Told
  BY <1>1, <1>6, DismissSongRequestTold, RequestSongTold, AcceptSongRequestTold, RemoveQueueEntryTold,
     ReorderQueueTold DEF QueueCommand
<1>7. ASSUME Open(rooms[r]), NEW m \in MembersOf(rooms[r]), TransportCommand(d, r, m) PROVE Told
  BY <1>1, <1>7, TransportTold
<1>8. ASSUME Open(rooms[r]), NEW m \in MembersOf(rooms[r]), Report(d, r, m) PROVE Told
  BY <1>1, <1>8, HeartbeatTold, ReadyCurrentTold, ReadyPreparedTold DEF Report
<1> QED
  BY <1>2, <1>3, <1>4, <1>5, <1>6, <1>7, <1>8 DEF DeviceStep, Own

LEMMA RoomStepTold ==
    ASSUME PlaybackAssumptions, IInv, PInv, NEW r \in Room, RoomStep(r)
    PROVE  Told
<1>1. Assumptions /\ PrepAssumption
  BY DEF PlaybackAssumptions
<1> QED
  BY <1>1, ObserveTold, ExpireRoomTold, InvitationTold, SweepTold DEF RoomStep

LEMMA AccountTold ==
    ASSUME PlaybackAssumptions, IInv, PInv, NEW a \in Account, AccountStep(a)
    PROVE  Told
<1>1. Assumptions /\ PrepAssumption
  BY DEF PlaybackAssumptions
<1> QED
  BY <1>1, DeactivateTold, LogoutAllTold, BlockTold, UnfriendTold, SocialTold DEF AccountStep

LEMMA WorldStepTold == ASSUME PlaybackAssumptions, IInv, PInv, WorldStep PROVE Told
<1>1. Assumptions /\ PrepAssumption
  BY DEF PlaybackAssumptions
<1> QED
  BY <1>1, TickTold, RevokeSessionTold, ReplaceMediaTold, WorldTold DEF WorldStep

LEMMA StutterTold == ASSUME PlaybackAssumptions, PInv, UNCHANGED vars PROVE Told
<1>1. NullAssumption /\ UNCHANGED <<rooms, joins, view, active, blocks, world>>
  BY DEF PlaybackAssumptions, Assumptions, vars, social
<1> QED
  BY <1>1, OuterSame, AsideTold

LEMMA NextTold == ASSUME PlaybackAssumptions, IInv, PInv, [Next]_vars PROVE Told
BY DeviceTold, RoomStepTold, AccountTold, WorldStepTold, StutterTold DEF Next

(* The invariant of the documents and of the versions clients hold: it     *)
(* holds initially, and every transaction keeps it.                        *)
THEOREM PlaybackInductive == ASSUME PlaybackAssumptions PROVE Spec => [](IInv /\ PInv)
<1>1. Init => IInv /\ PInv
  BY InitIInv, InitPInv DEF PlaybackAssumptions
<1>2. IInv /\ PInv /\ [Next]_vars => (IInv /\ PInv)'
  BY NextIsGood, NextTold DEF PlaybackAssumptions, Good, Told
<1> QED
  BY <1>1, <1>2, PTL DEF Spec

(* roomDocuments.ts: every stored document keeps the shape its readers     *)
(* expect, its queue, requests and versions within their limits, and the   *)
(* host one of its members.                                                *)
THEOREM DocumentsKeepTheirShape == ASSUME PlaybackAssumptions PROVE Spec => []RoomsTypeOK
<1>1. ASSUME IInv, PInv PROVE RoomsTypeOK
  <2>1. ASSUME NEW r \in Room, Open(rooms[r]) PROVE RoomOK(rooms[r])
    <3> DEFINE s == rooms[r]
    <3>1. Body(s) /\ Prepared(s) /\ Bounded(s)
      BY <1>1, <2>1, StoryOf DEF Document
    <3> HIDE DEF s
    <3>2. /\ s.epoch \in 1..MaxEpoch
          /\ {s.everyone, s.suspended, s.expired} \subseteq BOOLEAN
          /\ {s.controlGen, s.queueRev, s.playGen} \subseteq Version
          /\ s.rev \in {0, 1} /\ s.absent \in Age \cup {None}
      BY <3>1 DEF Body, Scalars, Bounded
    <3>3. /\ s.host \in MembersOf(s) /\ MembersOf(s) \subseteq Member
          /\ s.transfer \in OfferRecord \cup {None}
      BY <3>1 DEF Body, Peopled
    <3>4. \A m \in MembersOf(s) : s.members[m] \in MemberRecord
      <4>1. \A m \in MembersOf(s) : s.members[m] \in MemberShape /\ s.members[m].gen \in Version
        BY <3>1 DEF Body, Peopled, Bounded
      <4> QED
        BY <4>1 DEF MemberShape, MemberRecord
    <3>5. /\ \A i \in DOMAIN s.queue : s.queue[i] \in EntryRecord
          /\ Len(s.queue) \in 1..MaxQueue
          /\ s.entries \in EntryId /\ s.timeline \in TimelineRecord
      BY <3>1 DEF Body, Listed
    <3>6. s.requests \subseteq RequestRecord /\ Cardinality(s.requests) <= MaxSongRequests
      BY <3>1 DEF Body, Asked
    <3>7. s.prep # None => /\ s.prep.gen \in Version /\ s.prep.left \in 0..PrepTicks
                           /\ \A m \in DOMAIN s.prep.cohort :
                                 s.prep.cohort[m] \in [gen : Version, seq : 0..MaxSequence, ready : BOOLEAN]
      <4> SUFFICES ASSUME s.prep # None
                   PROVE  /\ s.prep.gen \in Version /\ s.prep.left \in 0..PrepTicks
                          /\ \A m \in DOMAIN s.prep.cohort :
                                s.prep.cohort[m] \in [gen : Version, seq : 0..MaxSequence, ready : BOOLEAN]
        OBVIOUS
      <4>1. /\ s.prep.gen = s.playGen /\ s.prep.left \in 0..PrepTicks
            /\ s.prep.cohort \in [DOMAIN s.prep.cohort -> CohortShape]
            /\ \A m \in DOMAIN s.prep.cohort : m \in MembersOf(s) /\ s.prep.cohort[m].gen = s.members[m].gen
        BY <3>1 DEF Prepared
      <4>2. \A m \in DOMAIN s.prep.cohort : s.prep.cohort[m] \in CohortShape /\ s.prep.cohort[m].gen \in Version
        BY <3>1, <4>1 DEF Bounded
      <4>3. \A m \in DOMAIN s.prep.cohort :
               s.prep.cohort[m] \in [gen : Version, seq : 0..MaxSequence, ready : BOOLEAN]
        BY <4>2 DEF CohortShape
      <4> QED
        BY <3>2, <4>1, <4>3
    <3> QED
      BY <3>2, <3>3, <3>4, <3>5, <3>6, <3>7 DEF RoomOK, s
  <2> QED
    BY <1>1, <2>1 DEF RoomsTypeOK, PInv, Outer, IInv, Rows
<1> QED
  BY <1>1, PlaybackInductive, PTL

(* roomLifecycle.ts: timeline, preparation and queue of an open room tell  *)
(* one story, a suspended room is silent, and who counts as ready said so  *)
(* last, while attached.                                                   *)
THEOREM PlaybackTellsOneStory == ASSUME PlaybackAssumptions PROVE Spec => []PlaybackAgrees
<1>1. ASSUME IInv, PInv PROVE OneStory
  <2> SUFFICES ASSUME NEW r \in Room, Open(rooms[r])
               PROVE  LET s == rooms[r] IN
                      /\ s.timeline.entry \in EntryIds(s)
                      /\ \A i, j \in DOMAIN s.queue : s.queue[i].id = s.queue[j].id => i = j
                      /\ s.prep # None <=> s.timeline.state = "preparing"
                      /\ s.prep # None =>
                            /\ s.prep.gen = s.playGen /\ s.prep.entry = s.timeline.entry
                            /\ DOMAIN s.prep.cohort \subseteq MembersOf(s)
                            /\ \A m \in DOMAIN s.prep.cohort : s.prep.cohort[m].gen = s.members[m].gen
                      /\ s.suspended => ~Playing(s)
    BY DEF OneStory, OpenRooms
  <2>1. Listed(rooms[r]) /\ Prepared(rooms[r])
    BY <1>1, StoryOf DEF Document, Body
  <2> QED
    BY <2>1 DEF Listed, Prepared
<1>2. OneStory /\ ReadyIsAttached => PlaybackAgrees
  BY DEF PlaybackAgrees
<1>3. Assumptions
  BY DEF PlaybackAssumptions
<1> QED
  BY <1>1, <1>2, <1>3, PlaybackInductive, ReadinessIsReported, PTL

(* incrementRoomVersion: no version a client may still hold is ever used   *)
(* for something else, however long the client waits.                      *)
THEOREM HeldVersionsAreNames == ASSUME PlaybackAssumptions PROVE Spec => []VersionsAreNames
<1>1. ASSUME IInv, PInv PROVE VersionsAreNames
  BY <1>1 DEF VersionsAreNames, PInv, Viewed, Remembers
<1> QED
  BY <1>1, PlaybackInductive, PTL

(* Transport commands, preparations and the sweep start playback only      *)
(* under the current authority, with the flag on, and never past an        *)
(* absence of the host that holds it; a room that adopts a new epoch is    *)
(* silent, under a new generation.                                         *)
THEOREM EveryStartIsSupervised == ASSUME PlaybackAssumptions PROVE Spec => StartsAreSupervised
<1>1. IInv /\ PInv /\ [Next]_vars => [StartSupervised /\ RecoveryPauses]_vars
  BY NextTold DEF Told
<1> QED
  BY <1>1, PlaybackInductive, PTL DEF Spec, StartsAreSupervised

(* persistRoom: a change of what a snapshot shows comes with a revision.   *)
THEOREM WhatIsShownIsRevised == ASSUME PlaybackAssumptions PROVE Spec => ShownChangesAreRevised
<1>1. IInv /\ PInv /\ [Next]_vars => [ShownChangeRevised]_vars
  BY NextTold DEF Told
<1> QED
  BY <1>1, PlaybackInductive, PTL DEF Spec, ShownChangesAreRevised

(* The snapshots a request may carry are all remembered truly.             *)
LEMMA CarriedFacts ==
    ASSUME PInv, NEW r \in Room, Open(rooms[r]), NEW c \in Carried(r)
    PROVE  Seen(c) /\ Remembers(c, rooms[r])
<1>1. CASE c = Snapshot(rooms[r])
  BY <1>1, StoryOf, SnapshotFacts
<1>2. CASE view # None /\ view.room = r /\ c = view.what
  BY <1>2 DEF PInv, Viewed
<1> QED
  BY <1>1, <1>2 DEF Carried

(* roomService.ts next and previous: a command that carries an old         *)
(* snapshot lands where its sender pointed, or not at all.                 *)
THEOREM SkipsLandWhereSeen == ASSUME PlaybackAssumptions PROVE Spec => SkipsMeanWhatWasSeen
<1>1. ASSUME IInv, PInv PROVE SkipMeansWhatWasSeen
  <2> SUFFICES ASSUME NEW r \in Room, Open(rooms[r]), NEW d \in Device, NEW step \in {-1, 1},
                      NEW m \in MembersOf(rooms[r]), NEW v \in Carried(r), Skip(d, r, m, step, v)
               PROVE  \E i, j \in DOMAIN v.order :
                         /\ v.order[i] = v.entry /\ j = i + step
                         /\ rooms'[r].timeline.entry = v.order[j]
    BY DEF SkipMeansWhatWasSeen
  <2> DEFINE s == rooms[r]
             k == IndexOf(s, s.timeline.entry)
             t == Prepare(s, s.queue[k + step].id, 0)
  <2>1. /\ v.queueRev = s.queueRev /\ v.playGen = s.playGen /\ k + step \in DOMAIN s.queue
        /\ rooms' = [rooms EXCEPT ![r] = Persist(t)]
    BY DEF Skip, SameQueue, Start, Transport, Change, Write
  <2>2. v.order = QueueOrder(s) /\ v.entry = s.timeline.entry
    BY <1>1, <2>1, CarriedFacts DEF Remembers
  <2>3. Listed(s) /\ DOMAIN s = RoomFields
    BY <1>1, StoryOf DEF Body, Scalars
  <2>4. k \in 1..Len(s.queue) /\ s.queue[k].id = s.timeline.entry
    BY <2>3, IndexFacts DEF Listed
  <2>5. rooms'[r].timeline.entry = s.queue[k + step].id
    <3>1. Persist(t).timeline.entry = s.queue[k + step].id
      BY <2>3 DEF Prepare, Persist, RoomFields
    <3>2. rooms'[r] = Persist(t)
      BY <1>1, <2>1 DEF IInv, Rows
    <3> QED
      BY <3>1, <3>2
  <2> HIDE DEF k, t
  <2>6. k \in DOMAIN v.order /\ k + step \in DOMAIN v.order /\ v.order[k] = v.entry
        /\ v.order[k + step] = s.queue[k + step].id
    <3>1. DOMAIN s.queue = 1..Len(s.queue)
      BY <2>3 DEF Listed
    <3> QED
      BY <2>1, <2>2, <2>4, <3>1 DEF QueueOrder
  <2> QED
    BY <2>5, <2>6
<1> QED
  BY <1>1, PlaybackInductive, PTL DEF Spec, SkipsMeanWhatWasSeen

(* roomSweep.ts: the natural end is acted on once, from the occurrence the *)
(* timer saw, after all of it was played; a late or repeated timer finds   *)
(* another occurrence and does nothing.                                    *)
THEOREM AdvancesHappenOnce == ASSUME PlaybackAssumptions PROVE Spec => AdvancesAreDue
<1>1. ASSUME IInv, PInv PROVE AdvanceDue
  <2> SUFFICES ASSUME NEW r \in Room, Open(rooms[r]), NEW c \in Carried(r), Sweep(r, c), Open(rooms'[r]),
                      rooms'[r].timeline.entry # rooms[r].timeline.entry
               PROVE  /\ c.playGen = rooms[r].playGen /\ c.queueRev = rooms[r].queueRev
                      /\ rooms[r].timeline.state = "playing" /\ PositionAt(rooms[r]) = Duration
    BY DEF AdvanceDue
  <2> DEFINE s == rooms[r]
  <2>1. /\ Document(s) /\ RoomsAssumption /\ PrepAssumption /\ epoch \in 1..MaxEpoch
        /\ s.host \in MembersOf(s) /\ MembersOf(s) \subseteq Member
    BY <1>1, StoryOf DEF PlaybackAssumptions, Assumptions, PInv, Outer, Document, Body, Peopled
  <2>2. Seen(c) /\ Remembers(c, s)
    BY <1>1, CarriedFacts
  <2>3. ~Closes(s)
    <3> SUFFICES ASSUME Closes(s) PROVE FALSE
      OBVIOUS
    <3>1. Expel({<<r, s.host>>}, {})
      BY DEF Sweep
    <3>2. r \in ClosedBy({<<r, s.host>>})
      BY <2>1 DEF ClosedBy
    <3>3. rooms'[r] = Closed
      BY <3>1, <3>2 DEF Expel
    <3> QED
      BY <3>3 DEF Open
  <2>4. PICK swept \in Swept(s) : \E final \in {FinishPreparation(swept, enabled)} :
               IF Ended(final, c) THEN Change(r, Advance(final))
               ELSE /\ swept # rooms[r] \/ Finishes(swept, enabled)
                    /\ Change(r, final)
    BY <2>3 DEF Sweep
  <2> DEFINE final == FinishPreparation(swept, enabled)
  <2>5. IF Ended(final, c) THEN Change(r, Advance(final)) ELSE Change(r, final)
    BY <2>4
  <2>6. /\ Document(final) /\ Named(s, final)
        /\ final.timeline.entry = s.timeline.entry
        /\ final.playGen = s.playGen => final.timeline = s.timeline \/ s.timeline.state = "preparing"
    BY <2>1, SweptFacts
  <2> HIDE DEF final
  <2>7. Ended(final, c)
    <3> SUFFICES ASSUME ~Ended(final, c) PROVE FALSE
      OBVIOUS
    <3>1. Change(r, final)
      BY <2>5
    <3>2. rooms'[r] = Persist(final)
      BY <1>1, <3>1 DEF Change, Write, IInv, Rows
    <3>3. Persist(final).timeline = final.timeline
      BY <2>6 DEF Persist, Document, Body, Scalars, RoomFields
    <3> QED
      BY <2>6, <3>2, <3>3
  <2>8. /\ final.playGen = c.playGen /\ final.queueRev = c.queueRev
        /\ c.state = "playing" /\ final.timeline.state = "playing" /\ PositionAt(final) >= Duration
    BY <2>7 DEF Ended
  <2>9. c.playGen = s.playGen /\ c.queueRev = s.queueRev
    <3>1. c.playGen <= s.playGen /\ c.queueRev <= s.queueRev
      BY <2>2 DEF Remembers
    <3>2. s.playGen <= final.playGen /\ s.queueRev <= final.queueRev
      BY <2>6 DEF Named
    <3>3. {s.playGen, s.queueRev, final.playGen, final.queueRev} \subseteq Nat
      BY <2>1, <2>6, DocumentVersions
    <3> HIDE DEF s
    <3> QED
      BY <2>8, <3>1, <3>2, <3>3
  <2>10. s.timeline.state # "preparing"
    BY <2>2, <2>8, <2>9 DEF Remembers
  <2>11. final.timeline = s.timeline
    BY <2>6, <2>8, <2>9, <2>10
  <2>12. PositionAt(s) = PositionAt(final)
    <3>1. s.timeline.entry \in EntryIds(s) /\ final.timeline.entry \in EntryIds(final)
      BY <2>1, <2>6 DEF Document, Body, Listed
    <3> HIDE DEF s
    <3> QED
      BY <2>11, <3>1 DEF PositionAt
  <2>13. PositionAt(s) \in Position
    BY <2>1, PositionType DEF Document, Body, Listed
  <2>14. PositionAt(s) = Duration
    <3> HIDE DEF s
    <3> QED
      BY <2>1, <2>8, <2>12, <2>13 DEF Position, RoomsAssumption, TimingAssumption
  <2> QED
    BY <2>8, <2>9, <2>11, <2>14
<1> QED
  BY <1>1, PlaybackInductive, PTL DEF Spec, AdvancesAreDue
=============================================================================
