----------------------------- MODULE RoomsProofs -----------------------------
(***************************************************************************)
(* Who is in which room, and who is ready, for every number of rooms,      *)
(* accounts, devices and versions: the participation rows agree with the   *)
(* rooms, nobody shares a room with somebody they block, invitations and   *)
(* offers speak of the current host, the host changes by consent alone,    *)
(* and a member that counts as ready said so last.                         *)
(***************************************************************************)
EXTENDS RoomProperties, TLAPS

-----------------------------------------------------------------------------
(***************************************************************************)
(* What the functions of the room document leave alone.  Most commands,    *)
(* reports and the sweep rewrite playback, queue and presence; the members *)
(* of the room, its host, who controls each membership and what an offer   *)
(* says are the same before and after.  Framed says so once, and the       *)
(* lemmas say it of every function the transactions are made of.           *)
(***************************************************************************)
RoomFields ==
    {"epoch", "host", "everyone", "controlGen", "queueRev", "playGen", "rev", "members", "queue",
     "entries", "requests", "timeline", "prep", "transfer", "absent", "suspended", "expired"}
MemberFields == {"dev", "gen", "idle", "present", "muted", "ready", "reportGen", "reportSeq"}
OfferFields == {"host", "control", "target", "gen", "left"}

(* A document has its fields, and so have its members and its offer.       *)
IsMember(member) == DOMAIN member = MemberFields
IsOffer(offer) == DOMAIN offer = OfferFields
IsRoom(s) ==
    /\ DOMAIN s = RoomFields
    /\ \A m \in MembersOf(s) : IsMember(s.members[m])
    /\ s.transfer # None => IsOffer(s.transfer)

SameRoster(s, t) ==
    /\ t.host = s.host
    /\ MembersOf(t) = MembersOf(s)
    /\ s.expired => t.expired

SameControllers(s, t) ==
    \A m \in MembersOf(s) : /\ t.members[m].dev = s.members[m].dev
                            /\ t.members[m].gen = s.members[m].gen
                            /\ t.members[m].present => s.members[m].present

SameOffer(s, t) ==
    /\ t.controlGen = s.controlGen
    /\ t.transfer # None =>
          /\ s.transfer # None
          /\ t.transfer.host = s.transfer.host /\ t.transfer.control = s.transfer.control
          /\ t.transfer.target = s.transfer.target /\ t.transfer.gen = s.transfer.gen

(* t is s with nothing changed that memberships and offers depend on.      *)
Framed(s, t) == IsRoom(t) /\ SameRoster(s, t) /\ SameControllers(s, t) /\ SameOffer(s, t)

LEMMA FramedSame == ASSUME NEW s, IsRoom(s) PROVE Framed(s, s)
BY DEF Framed, SameRoster, SameControllers, SameOffer

LEMMA FramedTwice ==
    ASSUME NEW s, NEW t, NEW u, Framed(s, t), Framed(t, u)
    PROVE  Framed(s, u)
BY DEF Framed, SameRoster, SameControllers, SameOffer

(* The fields on which the frame depends; all others may take any value.   *)
SameRoles(s, t) ==
    /\ DOMAIN t = DOMAIN s
    /\ t.members = s.members /\ t.host = s.host /\ t.expired = s.expired
    /\ t.controlGen = s.controlGen /\ t.transfer = s.transfer

LEMMA FramedFields == ASSUME NEW s, NEW t, IsRoom(s), SameRoles(s, t) PROVE Framed(s, t)
BY DEF SameRoles, Framed, IsRoom, SameRoster, SameControllers, SameOffer, MembersOf

LEMMA PersistFramed == ASSUME NEW s, IsRoom(s) PROVE Framed(s, Persist(s))
<1> DEFINE t == Persist(s)
<1>1. SameRoles(s, t)
  BY DEF Persist, SameRoles, IsRoom, RoomFields
<1> HIDE DEF t
<1>2. Framed(s, t)
  BY <1>1, FramedFields
<1> QED
  BY <1>2 DEF t

LEMMA PauseFramed == ASSUME NEW s, IsRoom(s) PROVE Framed(s, PauseRoom(s))
<1> DEFINE t == PauseRoom(s)
<1>1. SameRoles(s, t)
  BY DEF PauseRoom, SameRoles, IsRoom, RoomFields
<1> HIDE DEF t
<1>2. Framed(s, t)
  BY <1>1, FramedFields
<1> QED
  BY <1>2 DEF t

LEMMA PrepareFramed == ASSUME NEW s, NEW id, NEW pos, IsRoom(s) PROVE Framed(s, Prepare(s, id, pos))
<1> DEFINE t == Prepare(s, id, pos)
<1>1. SameRoles(s, t)
  BY DEF Prepare, SameRoles, IsRoom, RoomFields
<1> HIDE DEF t
<1>2. Framed(s, t)
  BY <1>1, FramedFields
<1> QED
  BY <1>2 DEF t

LEMMA FinishFramed == ASSUME NEW s, NEW on, IsRoom(s) PROVE Framed(s, FinishPreparation(s, on))
<1> DEFINE t == FinishPreparation(s, on)
<1>1. SameRoles(s, t)
  BY DEF FinishPreparation, SameRoles, IsRoom, RoomFields
<1> HIDE DEF t
<1>2. Framed(s, t)
  BY <1>1, FramedFields
<1> QED
  BY <1>2 DEF t

LEMMA DetachedFramed == ASSUME NEW s, NEW m \in MembersOf(s), IsRoom(s) PROVE Framed(s, Detached(s, m))
<1> DEFINE t == Detached(s, m)
<1>1. DOMAIN t = DOMAIN s /\ t.host = s.host /\ t.expired = s.expired
      /\ t.controlGen = s.controlGen /\ t.transfer = s.transfer
  BY DEF Detached, IsRoom, RoomFields
<1>2. t.members = [s.members EXCEPT ![m] = [@ EXCEPT !.present = FALSE, !.ready = 0]]
  BY DEF Detached, IsRoom, RoomFields, MemberFields, MembersOf
<1> HIDE DEF t
<1>3. /\ MembersOf(t) = MembersOf(s)
      /\ \A x \in MembersOf(s) :
            /\ IsMember(t.members[x])
            /\ t.members[x].dev = s.members[x].dev
            /\ t.members[x].gen = s.members[x].gen
            /\ t.members[x].present => s.members[x].present
  BY <1>2 DEF MembersOf, IsRoom, IsMember, MemberFields
<1>4. IsRoom(t) /\ SameRoster(s, t)
  BY <1>1, <1>3 DEF IsRoom, SameRoster
<1>5. SameControllers(s, t) /\ SameOffer(s, t)
  BY <1>1, <1>3 DEF SameControllers, SameOffer
<1>6. Framed(s, t)
  BY <1>4, <1>5 DEF Framed
<1> QED
  BY <1>6 DEF t

LEMMA DetachedAbsent ==
    ASSUME NEW s, NEW m \in MembersOf(s), IsRoom(s)
    PROVE  Detached(s, m).members[m].present = FALSE
BY DEF Detached, MembersOf, IsRoom, RoomFields, IsMember, MemberFields

LEMMA WithoutMediaFramed == ASSUME NEW s, NEW t, IsRoom(s) PROVE Framed(s, WithoutMedia(s, t))
<1> DEFINE marked == [s EXCEPT
              !.requests = {q \in @ : q.track # t},
              !.queue = [i \in DOMAIN @ |-> IF @[i].track = t THEN [@[i] EXCEPT !.gone = TRUE] ELSE @[i]]]
           current == \E i \in DOMAIN s.queue : s.queue[i].track = t /\ s.queue[i].id = s.timeline.entry
           stopped == IF current THEN PauseRoom(marked) ELSE marked
           counted == IF Queued(s, t) THEN [stopped EXCEPT !.queueRev = @ + 1] ELSE stopped
<1>0. WithoutMedia(s, t) = Persist(counted)
  BY DEF WithoutMedia
<1>1. SameRoles(s, marked)
  BY DEF SameRoles, IsRoom, RoomFields
<1> HIDE DEF marked, current
<1>2. Framed(s, stopped)
  BY <1>1, FramedFields, PauseFramed, FramedTwice DEF Framed
<1> HIDE DEF stopped
<1>3. SameRoles(stopped, counted)
  BY <1>2 DEF Framed, SameRoles, IsRoom, RoomFields
<1> HIDE DEF counted
<1>4. Framed(s, counted)
  BY <1>2, <1>3, FramedFields, FramedTwice DEF Framed
<1> QED
  BY <1>0, <1>4, PersistFramed, FramedTwice DEF Framed

LEMMA AgedFramed == ASSUME NEW s, IsRoom(s) PROVE Framed(s, Aged(s))
<1> DEFINE members == [m \in DOMAIN s.members |-> [s.members[m] EXCEPT !.idle = Later(@)]]
           elapsed == IF s.timeline.state = "playing" THEN Least(Duration, s.timeline.elapsed + 1)
                      ELSE s.timeline.elapsed
           prep == IF s.prep = None THEN None ELSE [s.prep EXCEPT !.left = Sooner(@)]
           transfer == IF s.transfer = None THEN None ELSE [s.transfer EXCEPT !.left = Sooner(@)]
           absent == IF s.absent = None THEN None ELSE Later(s.absent)
           t == [s EXCEPT !.members = members, !.timeline.elapsed = elapsed, !.prep = prep,
                          !.transfer = transfer, !.absent = absent]
<1>0. Aged(s) = t
  BY DEF Aged
<1> HIDE DEF members, elapsed, prep, transfer, absent
<1>1. DOMAIN t = DOMAIN s /\ t.host = s.host /\ t.expired = s.expired /\ t.controlGen = s.controlGen
  BY DEF IsRoom, RoomFields
<1>2. t.members = members
  BY DEF IsRoom, RoomFields
<1>3. t.transfer = transfer
  BY DEF IsRoom, RoomFields
<1> HIDE DEF t
<1>4. /\ MembersOf(t) = MembersOf(s)
      /\ \A x \in MembersOf(s) :
            /\ IsMember(t.members[x])
            /\ t.members[x].dev = s.members[x].dev
            /\ t.members[x].gen = s.members[x].gen
            /\ t.members[x].present => s.members[x].present
  BY <1>2 DEF MembersOf, IsRoom, IsMember, MemberFields, members
<1>5. t.transfer # None => IsOffer(t.transfer)
  BY <1>3 DEF IsRoom, IsOffer, transfer
<1>6. SameOffer(s, t)
  BY <1>1, <1>3 DEF IsRoom, IsOffer, OfferFields, SameOffer, transfer
<1>7. IsRoom(t) /\ SameRoster(s, t)
  BY <1>1, <1>4, <1>5 DEF IsRoom, SameRoster
<1>8. SameControllers(s, t)
  BY <1>4 DEF SameControllers
<1> QED
  BY <1>0, <1>6, <1>7, <1>8 DEF Framed

-----------------------------------------------------------------------------
(* What an outstanding offer says is so: who made it, to whom, and which   *)
(* controllers both had.  A framed change keeps it so.                     *)
OfferCurrent(s) ==
    s.transfer # None =>
        /\ s.transfer.host = s.host /\ s.transfer.control = s.controlGen
        /\ s.transfer.target \in MembersOf(s) \ {s.host}
        /\ s.transfer.gen = s.members[s.transfer.target].gen

LEMMA FramedOffer == ASSUME NEW s, NEW t, Framed(s, t), OfferCurrent(s) PROVE OfferCurrent(t)
BY DEF Framed, SameRoster, SameControllers, SameOffer, OfferCurrent

(* A member leaves: its record and an offer to it go, the rest stays.      *)
LEMMA WithoutMemberFacts ==
    ASSUME NEW s, NEW m, NEW t, IsRoom(s), t = WithoutMember(s, m)
    PROVE  /\ IsRoom(t)
           /\ t.host = s.host /\ t.expired = s.expired /\ t.controlGen = s.controlGen
           /\ MembersOf(t) = MembersOf(s) \ {m}
           /\ \A x \in MembersOf(t) : t.members[x] = s.members[x]
           /\ t.transfer # None => t.transfer = s.transfer /\ t.transfer.target # m
<1> DEFINE members == [x \in MembersOf(s) \ {m} |-> s.members[x]]
           requests == {q \in s.requests : q.by # m}
           queue == [i \in DOMAIN s.queue |-> IF s.queue[i].by = m THEN [s.queue[i] EXCEPT !.by = None]
                                              ELSE s.queue[i]]
           transfer == IF s.transfer # None /\ s.transfer.target = m THEN None ELSE s.transfer
           prep == IF s.prep = None THEN None
                   ELSE [s.prep EXCEPT !.cohort = [x \in DOMAIN s.prep.cohort \ {m} |-> s.prep.cohort[x]]]
           u == [s EXCEPT !.members = members, !.requests = requests, !.queue = queue,
                          !.transfer = transfer, !.prep = prep]
<1>1. t = Persist(u)
  BY DEF WithoutMember
<1> HIDE DEF members, requests, queue, transfer, prep
<1>2. /\ DOMAIN u = DOMAIN s /\ u.host = s.host /\ u.expired = s.expired /\ u.controlGen = s.controlGen
      /\ u.members = members /\ u.transfer = transfer
  BY DEF IsRoom, RoomFields
<1> HIDE DEF u
<1>3. SameRoles(u, t)
  BY <1>1, <1>2 DEF Persist, SameRoles, IsRoom, RoomFields
<1>4. /\ DOMAIN t = RoomFields /\ t.host = s.host /\ t.expired = s.expired /\ t.controlGen = s.controlGen
      /\ t.members = members /\ t.transfer = transfer
  BY <1>2, <1>3 DEF SameRoles, IsRoom
<1>5. /\ MembersOf(t) = MembersOf(s) \ {m}
      /\ \A x \in MembersOf(t) : t.members[x] = s.members[x]
  BY <1>4 DEF members, MembersOf
<1>6. t.transfer # None => t.transfer = s.transfer /\ t.transfer.target # m
  BY <1>4 DEF transfer
<1>7. IsRoom(t)
  BY <1>4, <1>5, <1>6 DEF IsRoom
<1> QED
  BY <1>4, <1>5, <1>6, <1>7

LEMMA WithoutMemberOffer ==
    ASSUME NEW s, NEW m, IsRoom(s), OfferCurrent(s)
    PROVE  OfferCurrent(WithoutMember(s, m))
<1> DEFINE t == WithoutMember(s, m)
<1> HIDE DEF t
<1>1. OfferCurrent(t)
  BY WithoutMemberFacts DEF OfferCurrent, t
<1> QED
  BY <1>1 DEF t

-----------------------------------------------------------------------------
(***************************************************************************)
(* The participation rows, the invitations and the offers.                 *)
(***************************************************************************)
(* null and the closed room are no documents, and a session is of one      *)
(* account (userSessions.userId).                                          *)
NullAssumption ==
    /\ None # Closed
    /\ DOMAIN None \notin {RoomFields, {"room", "member"}, {"from", "lapsed"}}
    /\ DOMAIN Closed # RoomFields
SessionAssumption == \A d, e \in Device : SessionOf[d] = SessionOf[e] => AccountOf[d] = AccountOf[e]
Assumptions == RoomsAssumption /\ NullAssumption /\ SessionAssumption

(* A document as transactions leave it: its host is a member, an account   *)
(* is a member once, each member has a controller, a device of its         *)
(* account, and only a device whose session is live is attached.           *)
Roster(s) ==
    /\ s.host \in MembersOf(s) /\ MembersOf(s) \subseteq Member
    /\ \A m, n \in MembersOf(s) : m[1] = n[1] => m = n
Controllers(s, live) ==
    \A m \in MembersOf(s) : /\ s.members[m].dev \in Device
                            /\ AccountOf[s.members[m].dev] = m[1]
                            /\ s.members[m].present => live[SessionOf[s.members[m].dev]] = "live"
Sound(s, live) == IsRoom(s) /\ OfferCurrent(s) /\ Roster(s) /\ Controllers(s, live)

Documents == \A r \in Room : Open(rooms[r]) => Sound(rooms[r], sessions)

Rows ==
    /\ rooms = [r \in Room |-> rooms[r]]
    /\ slots \in [Account -> [room : Room, member : Member] \cup {None}]
    /\ invitations \in [Room \X Account -> [from : Account, lapsed : BOOLEAN] \cup {None}]
    /\ joins \in [Account -> 0..MaxJoins]
    /\ sessions = [x \in Session |-> sessions[x]]

(* Nobody blocks themselves, and who blocks is no friend.                  *)
Graph == \A a, b \in Account : <<a, b>> \in blocks => a # b /\ {a, b} \notin friends

IInv == Rows /\ Documents /\ Graph /\ SlotsAgree /\ NoBlockInside /\ InvitationsAreCurrent

(* What every step is shown to do.                                         *)
Good == IInv' /\ HostConsented

-----------------------------------------------------------------------------
(* The document functions of the transactions.                             *)

Kept(s, t, live) == Sound(t, live) /\ SameRoster(s, t)

LEMMA FramedKept == ASSUME NEW s, NEW t, NEW live, Sound(s, live), Framed(s, t) PROVE Kept(s, t, live)
<1>1. IsRoom(t) /\ SameRoster(s, t) /\ SameControllers(s, t)
  BY DEF Framed
<1>2. OfferCurrent(t)
  BY FramedOffer DEF Sound
<1>3. Roster(t) /\ Controllers(t, live)
  BY <1>1 DEF Sound, SameRoster, SameControllers, Roster, Controllers
<1> QED
  BY <1>1, <1>2, <1>3 DEF Kept, Sound

LEMMA KeptThenFramed ==
    ASSUME NEW s, NEW t, NEW u, NEW live, Kept(s, t, live), Framed(t, u)
    PROVE  Kept(s, u, live)
BY FramedKept DEF Kept, SameRoster

LEMMA KeptIsRoom == ASSUME NEW s, NEW t, NEW live, Kept(s, t, live) PROVE IsRoom(t)
BY DEF Kept, Sound

LEMMA RoomIsOpen == ASSUME NullAssumption, NEW s, IsRoom(s) PROVE Open(s)
BY DEF NullAssumption, IsRoom, Open

LEMMA AdoptFramed == ASSUME NEW s, IsRoom(s) PROVE Framed(s, Adopt(s))
<1> DEFINE t == [s EXCEPT !.epoch = epoch]
<1>1. SameRoles(s, t)
  BY DEF SameRoles, IsRoom, RoomFields
<1> HIDE DEF t
<1>2. Framed(s, PauseRoom(t))
  BY <1>1, FramedFields, PauseFramed, FramedTwice DEF Framed
<1> QED
  BY <1>2, FramedSame DEF Adopt, t

LEMMA TakenOverKept ==
    ASSUME NEW s, NEW m \in MembersOf(s), NEW d \in Device, NEW live, Sound(s, live), AccountOf[d] = m[1]
    PROVE  Kept(s, TakenOver(s, m, d), live)
<1> DEFINE member == [NewMember(d) EXCEPT !.gen = s.members[m].gen + 1]
           absent == IF s.host = m THEN 0 ELSE s.absent
           t == [s EXCEPT !.members[m] = member, !.transfer = None, !.absent = absent]
<1>0. TakenOver(s, m, d) = t
  BY DEF TakenOver
<1>1. IsMember(member) /\ member.dev = d /\ member.present = FALSE
  BY DEF NewMember, IsMember, MemberFields
<1> HIDE DEF member, absent
<1>2. /\ DOMAIN t = DOMAIN s /\ t.host = s.host /\ t.expired = s.expired /\ t.transfer = None
      /\ t.members = [s.members EXCEPT ![m] = member]
  BY DEF Sound, IsRoom, RoomFields
<1> HIDE DEF t
<1>3. MembersOf(t) = MembersOf(s) /\ \A x \in MembersOf(s) : t.members[x] = IF x = m THEN member ELSE s.members[x]
  BY <1>2 DEF MembersOf
<1>4. IsRoom(t) /\ OfferCurrent(t)
  BY <1>1, <1>2, <1>3 DEF Sound, IsRoom, OfferCurrent
<1>5. SameRoster(s, t)
  BY <1>2, <1>3 DEF SameRoster
<1>6. Roster(t) /\ Controllers(t, live)
  BY <1>1, <1>2, <1>3 DEF Sound, Roster, Controllers
<1> QED
  BY <1>0, <1>4, <1>5, <1>6 DEF Kept, Sound

LEMMA BeatenKept ==
    ASSUME NEW s, NEW m \in MembersOf(s), NEW muted, NEW live, Sound(s, live),
           live[SessionOf[s.members[m].dev]] = "live"
    PROVE  /\ Kept(s, Beaten(s, m, muted), live)
           /\ \A x \in MembersOf(s) : Beaten(s, m, muted).members[x].gen = s.members[x].gen
<1> DEFINE member == [s.members[m] EXCEPT !.idle = 0, !.present = TRUE, !.muted = muted,
                                          !.ready = IF muted THEN 0 ELSE s.members[m].ready]
           absent == IF s.host = m THEN None ELSE s.absent
           t == [s EXCEPT !.members[m] = member, !.absent = absent]
<1>0. Beaten(s, m, muted) = t
  BY DEF Beaten
<1>1. IsMember(member) /\ member.dev = s.members[m].dev /\ member.gen = s.members[m].gen
  BY DEF Sound, IsRoom, IsMember, MemberFields
<1> HIDE DEF member, absent
<1>2. /\ DOMAIN t = DOMAIN s /\ t.host = s.host /\ t.expired = s.expired
      /\ t.transfer = s.transfer /\ t.controlGen = s.controlGen
      /\ t.members = [s.members EXCEPT ![m] = member]
  BY DEF Sound, IsRoom, RoomFields
<1> HIDE DEF t
<1>3. MembersOf(t) = MembersOf(s) /\ \A x \in MembersOf(s) : t.members[x] = IF x = m THEN member ELSE s.members[x]
  BY <1>2 DEF MembersOf
<1>4. IsRoom(t)
  BY <1>1, <1>2, <1>3 DEF Sound, IsRoom
<1>5. OfferCurrent(t)
  BY <1>1, <1>2, <1>3 DEF Sound, OfferCurrent
<1>6. SameRoster(s, t)
  BY <1>2, <1>3 DEF SameRoster
<1>7. Roster(t) /\ Controllers(t, live)
  BY <1>1, <1>2, <1>3 DEF Sound, Roster, Controllers
<1> QED
  BY <1>0, <1>1, <1>3, <1>4, <1>5, <1>6, <1>7 DEF Kept, Sound

(* A readiness report is of one member, and names nothing the frame needs. *)
LEMMA ReportedFramed ==
    ASSUME NEW s, NEW m \in MembersOf(s), NEW seq, NEW ready, IsRoom(s)
    PROVE  Framed(s, Reported(s, m, seq, ready))
<1> DEFINE member == [s.members[m] EXCEPT !.reportGen = s.playGen, !.reportSeq = seq,
                                          !.ready = IF ready THEN s.playGen ELSE 0]
           t == [s EXCEPT !.members[m] = member]
<1>0. Reported(s, m, seq, ready) = t
  BY DEF Reported
<1>1. /\ IsMember(member) /\ member.dev = s.members[m].dev /\ member.gen = s.members[m].gen
      /\ member.present = s.members[m].present
  BY DEF IsRoom, IsMember, MemberFields
<1> HIDE DEF member
<1>2. /\ DOMAIN t = DOMAIN s /\ t.host = s.host /\ t.expired = s.expired
      /\ t.transfer = s.transfer /\ t.controlGen = s.controlGen
      /\ t.members = [s.members EXCEPT ![m] = member]
  BY DEF IsRoom, RoomFields
<1> HIDE DEF t
<1>3. MembersOf(t) = MembersOf(s) /\ \A x \in MembersOf(s) : t.members[x] = IF x = m THEN member ELSE s.members[x]
  BY <1>2 DEF MembersOf
<1>4. IsRoom(t) /\ SameRoster(s, t)
  BY <1>1, <1>2, <1>3 DEF IsRoom, SameRoster
<1>5. SameControllers(s, t) /\ SameOffer(s, t)
  BY <1>1, <1>2, <1>3 DEF SameControllers, SameOffer
<1> QED
  BY <1>0, <1>4, <1>5 DEF Framed

-----------------------------------------------------------------------------
(* Steps that keep every roster: most commands and reports, the sweep of a *)
(* room that stays open, time, media and the end of one session.           *)
SteadyRooms ==
    /\ rooms' = [r \in Room |-> rooms'[r]]
    /\ \A r \in Room : IF Open(rooms[r]) THEN Kept(rooms[r], rooms'[r], sessions') ELSE rooms'[r] = rooms[r]

LEMMA SteadyFacts ==
    ASSUME NullAssumption, SteadyRooms, NEW r \in Room
    PROVE  /\ Open(rooms'[r]) <=> Open(rooms[r])
           /\ Open(rooms[r]) => /\ MembersOf(rooms'[r]) = MembersOf(rooms[r])
                               /\ rooms'[r].host = rooms[r].host
                               /\ Sound(rooms'[r], sessions')
           /\ Safe(rooms'[r]) => Safe(rooms[r])
<1>1. CASE Open(rooms[r])
  <2>1. Kept(rooms[r], rooms'[r], sessions')
    BY <1>1 DEF SteadyRooms
  <2>2. Open(rooms'[r])
    BY <2>1, KeptIsRoom, RoomIsOpen
  <2>3. Sound(rooms'[r], sessions') /\ SameRoster(rooms[r], rooms'[r])
    BY <2>1 DEF Kept
  <2> QED
    BY <1>1, <2>2, <2>3 DEF SameRoster, Safe
<1>2. CASE ~Open(rooms[r])
  BY <1>2 DEF SteadyRooms, Safe
<1> QED
  BY <1>1, <1>2

LEMMA SteadyDocuments == ASSUME NullAssumption, SteadyRooms PROVE Documents'
BY SteadyFacts DEF Documents

LEMMA SteadySlots == ASSUME NullAssumption, IInv, SteadyRooms, UNCHANGED slots PROVE SlotsAgree'
<1>1. ASSUME NEW a \in Account, slots'[a] # None
      PROVE  /\ Open(rooms'[slots'[a].room])
             /\ slots'[a].member \in MembersOf(rooms'[slots'[a].room]) /\ slots'[a].member[1] = a
  <2>1. slots[a].room \in Room
    BY <1>1 DEF IInv, Rows
  <2> QED
    BY <1>1, <2>1, SteadyFacts DEF IInv, SlotsAgree
<1>2. ASSUME NEW r \in Room, Safe(rooms'[r]), NEW m \in MembersOf(rooms'[r])
      PROVE  slots'[m[1]] = [room |-> r, member |-> m]
  BY <1>2, SteadyFacts DEF IInv, SlotsAgree, Safe
<1> QED
  BY <1>1, <1>2 DEF SlotsAgree

LEMMA SteadySafe ==
    ASSUME NullAssumption, IInv, SteadyRooms, blocks' \subseteq blocks, active \subseteq active'
    PROVE  NoBlockInside'
BY SteadyFacts DEF IInv, NoBlockInside, OpenRooms, Blocked

LEMMA SteadyInvited ==
    ASSUME NullAssumption, IInv, SteadyRooms, UNCHANGED invitations, friends \subseteq friends'
    PROVE  InvitationsAreCurrent'
<1> SUFFICES ASSUME NEW r \in Room, NEW a \in Account, invitations'[<<r, a>>] # None
             PROVE  /\ Open(rooms'[r])
                    /\ invitations'[<<r, a>>].from = rooms'[r].host[1]
                    /\ {a, invitations'[<<r, a>>].from} \in friends'
                    /\ Safe(rooms'[r]) => ~HasAccount(rooms'[r], a)
  BY DEF InvitationsAreCurrent, Friends
<1>1. /\ Open(rooms[r])
      /\ invitations[<<r, a>>].from = rooms[r].host[1]
      /\ {a, invitations[<<r, a>>].from} \in friends
      /\ Safe(rooms[r]) => ~HasAccount(rooms[r], a)
  BY DEF IInv, InvitationsAreCurrent, Friends
<1> QED
  BY <1>1, SteadyFacts DEF HasAccount

LEMMA SteadyHost == ASSUME NullAssumption, SteadyRooms PROVE HostConsented
BY SteadyFacts DEF HostConsented

LEMMA SteadyStep ==
    ASSUME NullAssumption, IInv, SteadyRooms, UNCHANGED <<slots, invitations, joins, social>>,
           sessions' = [x \in Session |-> sessions'[x]]
    PROVE  Good
<1>1. Rows' /\ Graph'
  BY DEF IInv, Rows, Graph, SteadyRooms, social
<1>2. UNCHANGED <<slots, invitations, friends, blocks, active>>
  BY DEF social
<1> QED
  BY <1>1, <1>2, SteadyDocuments, SteadySlots, SteadySafe, SteadyInvited, SteadyHost DEF Good, IInv

(* One document is rewritten, its roster kept.                             *)
LEMMA ChangeStep ==
    ASSUME NullAssumption, IInv, NEW r \in Room, Open(rooms[r]), NEW s, Change(r, s),
           Kept(rooms[r], s, sessions)
    PROVE  Good
<1>1. rooms' = [rooms EXCEPT ![r] = Persist(s)] /\ UNCHANGED <<slots, invitations, social, world, joins, view>>
  BY DEF Change, Write
<1>2. Kept(rooms[r], Persist(s), sessions)
  BY PersistFramed, KeptThenFramed, KeptIsRoom
<1>3. UNCHANGED sessions
  BY <1>1 DEF world
<1>4. SteadyRooms
  <2>1. rooms' = [x \in Room |-> rooms'[x]] /\ \A x \in Room : rooms'[x] = IF x = r THEN Persist(s) ELSE rooms[x]
    BY <1>1 DEF IInv, Rows
  <2>2. ASSUME NEW x \in Room, Open(rooms[x]) PROVE Kept(rooms[x], rooms[x], sessions)
    BY <2>2, FramedSame, FramedKept DEF IInv, Documents, Sound
  <2> QED
    BY <1>2, <1>3, <2>1, <2>2 DEF SteadyRooms
<1> QED
  BY <1>1, <1>3, <1>4, SteadyStep DEF IInv, Rows

LEMMA SameRolesKept ==
    ASSUME NEW s, NEW t, NEW live, Sound(s, live), SameRoles(s, t)
    PROVE  Kept(s, t, live)
BY FramedFields, FramedKept DEF Sound

LEMMA OpenIsSound == ASSUME IInv, NEW r \in Room, Open(rooms[r]) PROVE Sound(rooms[r], sessions) /\ IsRoom(rooms[r])
BY DEF IInv, Documents, Sound

(* Control: a takeover is by a device of the member's account, a change of *)
(* the mode ends an offer, and an offer is to another member.              *)
LEMMA TakeControlStep ==
    ASSUME NullAssumption, IInv, NEW d \in Device, NEW r \in Room, NEW m, TakeControl(d, r, m)
    PROVE  Good
<1> DEFINE taken == TakenOver(rooms[r], m, d)
           t == IF rooms[r].prep # None THEN PauseRoom(taken) ELSE taken
<1>1. Open(rooms[r]) /\ m \in MembersOf(rooms[r]) /\ m[1] = AccountOf[d] /\ Change(r, t)
  BY DEF TakeControl, Addressed, Safe
<1>2. Kept(rooms[r], taken, sessions)
  BY <1>1, OpenIsSound, TakenOverKept
<1> HIDE DEF taken
<1>3. Kept(rooms[r], t, sessions)
  BY <1>2, PauseFramed, KeptThenFramed, KeptIsRoom
<1> HIDE DEF t
<1> QED
  BY <1>1, <1>3, ChangeStep

LEMMA SetControlModeStep ==
    ASSUME NullAssumption, IInv, NEW d, NEW r \in Room, NEW m, NEW v, SetControlMode(d, r, m, v)
    PROVE  Good
<1> DEFINE s == rooms[r]
           t == [s EXCEPT !.everyone = ~@, !.controlGen = @ + 1, !.transfer = None]
<1>1. Open(s) /\ Change(r, t)
  BY DEF SetControlMode, Addressed, Safe
<1>2. Sound(s, sessions)
  BY <1>1, OpenIsSound
<1>3. /\ DOMAIN t = DOMAIN s /\ t.host = s.host /\ t.expired = s.expired /\ t.transfer = None
      /\ t.members = s.members
  BY <1>2 DEF Sound, IsRoom, RoomFields
<1> HIDE DEF t
<1>4. IsRoom(t) /\ OfferCurrent(t) /\ SameRoster(s, t)
  BY <1>2, <1>3 DEF Sound, IsRoom, OfferCurrent, SameRoster, MembersOf
<1>5. Roster(t) /\ Controllers(t, sessions)
  BY <1>2, <1>3 DEF Sound, Roster, Controllers, MembersOf
<1> QED
  BY <1>1, <1>4, <1>5, ChangeStep DEF Kept, Sound

LEMMA CancelTransferStep ==
    ASSUME NullAssumption, IInv, NEW d, NEW r \in Room, NEW m, CancelTransfer(d, r, m)
    PROVE  Good
<1> DEFINE s == rooms[r]
           t == [s EXCEPT !.transfer = None]
<1>1. Open(s) /\ Change(r, t)
  BY DEF CancelTransfer, Addressed, Safe
<1>2. Sound(s, sessions)
  BY <1>1, OpenIsSound
<1>3. /\ DOMAIN t = DOMAIN s /\ t.host = s.host /\ t.expired = s.expired /\ t.transfer = None
      /\ t.members = s.members /\ t.controlGen = s.controlGen
  BY <1>2 DEF Sound, IsRoom, RoomFields
<1> HIDE DEF t
<1>4. Framed(s, t)
  BY <1>2, <1>3 DEF Sound, IsRoom, Framed, SameRoster, SameControllers, SameOffer, MembersOf
<1> QED
  BY <1>1, <1>2, <1>4, FramedKept, ChangeStep

LEMMA OfferTransferStep ==
    ASSUME NullAssumption, IInv, NEW d, NEW r \in Room, NEW m, NEW target, NEW v,
           OfferTransfer(d, r, m, target, v)
    PROVE  Good
<1> DEFINE s == rooms[r]
           offer == [host |-> m, control |-> s.controlGen, target |-> target,
                     gen |-> s.members[target].gen, left |-> TransferTicks]
           t == [s EXCEPT !.transfer = offer]
<1>1. Open(s) /\ Change(r, t) /\ s.host = m /\ target \in MembersOf(s) \ {m}
  BY DEF OfferTransfer, Addressed, Safe
<1>2. Sound(s, sessions)
  BY <1>1, OpenIsSound
<1>3. IsOffer(offer) /\ offer.host = s.host /\ offer.control = s.controlGen /\ offer.target = target
      /\ offer.gen = s.members[target].gen
  BY <1>1 DEF IsOffer, OfferFields
<1> HIDE DEF offer
<1>4. /\ DOMAIN t = DOMAIN s /\ t.host = s.host /\ t.expired = s.expired /\ t.transfer = offer
      /\ t.members = s.members /\ t.controlGen = s.controlGen
  BY <1>2 DEF Sound, IsRoom, RoomFields
<1> HIDE DEF t
<1>5. IsRoom(t) /\ SameRoster(s, t)
  BY <1>2, <1>3, <1>4 DEF Sound, IsRoom, SameRoster, MembersOf
<1>6. OfferCurrent(t)
  BY <1>1, <1>3, <1>4 DEF OfferCurrent, MembersOf
<1>7. Roster(t) /\ Controllers(t, sessions)
  BY <1>2, <1>4 DEF Sound, Roster, Controllers, MembersOf
<1> QED
  BY <1>1, <1>5, <1>6, <1>7, ChangeStep DEF Kept, Sound

(* Song requests, the queue and the transport touch no membership.         *)
LEMMA QueueCommandStep ==
    ASSUME NullAssumption, IInv, NEW d, NEW r \in Room, Open(rooms[r]), NEW m, QueueCommand(d, r, m)
    PROVE  Good
<1> DEFINE s == rooms[r]
<1>0. Sound(s, sessions) /\ DOMAIN s = RoomFields
  BY OpenIsSound DEF IsRoom
<1>1. ASSUME NEW t, SameRoles(s, t), Change(r, t) PROVE Good
  BY <1>0, <1>1, SameRolesKept, ChangeStep
<1>2. ASSUME NEW q, DismissSongRequest(d, r, m, q) PROVE Good
  <2> DEFINE t == [s EXCEPT !.requests = @ \ {q}]
  <2>1. SameRoles(s, t) /\ Change(r, t)
    BY <1>0, <1>2 DEF DismissSongRequest, SameRoles, RoomFields
  <2> HIDE DEF t
  <2> QED
    BY <1>1, <2>1
<1>3. ASSUME NEW t, NEW v, RequestSong(d, r, m, t, v) PROVE Good
  <2> DEFINE u == [s EXCEPT !.requests = @ \cup {[by |-> m, track |-> t, media |-> media[t].revision]}]
  <2>1. SameRoles(s, u) /\ Change(r, u)
    BY <1>0, <1>3 DEF RequestSong, SameRoles, RoomFields
  <2> HIDE DEF u
  <2> QED
    BY <1>1, <2>1
<1>4. ASSUME NEW queue PROVE SameRoles(s, Requeued(s, queue)) /\ DOMAIN Requeued(s, queue) = RoomFields
  BY <1>0 DEF Requeued, SameRoles, RoomFields
<1>5. ASSUME NEW q, NEW v, AcceptSongRequest(d, r, m, q, v) PROVE Good
  <2> DEFINE a == Requeued(s, Append(s.queue, NewEntry(s.entries + 1, q.track, q.media, q.by)))
             t == [a EXCEPT !.requests = @ \ {q}, !.entries = @ + 1]
  <2>1. Change(r, t)
    BY <1>5 DEF AcceptSongRequest
  <2>2. SameRoles(s, a) /\ DOMAIN a = RoomFields
    BY <1>4
  <2> HIDE DEF a
  <2>3. SameRoles(s, t)
    BY <2>2 DEF SameRoles, RoomFields
  <2> HIDE DEF t
  <2> QED
    BY <1>1, <2>1, <2>3
<1>6. ASSUME NEW id, NEW v, RemoveQueueEntry(d, r, m, id, v) PROVE Good
  BY <1>1, <1>4, <1>6 DEF RemoveQueueEntry
<1>7. ASSUME NEW order, NEW v, ReorderQueue(d, r, m, order, v) PROVE Good
  BY <1>1, <1>4, <1>7 DEF ReorderQueue
<1> QED
  BY <1>2, <1>3, <1>5, <1>6, <1>7 DEF QueueCommand

LEMMA TransportCommandStep ==
    ASSUME NullAssumption, IInv, NEW d, NEW r \in Room, Open(rooms[r]), NEW m, TransportCommand(d, r, m)
    PROVE  Good
<1>0. Sound(rooms[r], sessions) /\ IsRoom(rooms[r])
  BY OpenIsSound
<1>1. ASSUME NEW v, Pause(d, r, m, v) PROVE Good
  BY <1>0, <1>1, PauseFramed, FramedKept, ChangeStep DEF Pause
<1>2. ASSUME NEW id, NEW pos, NEW v, Start(d, r, m, id, pos, v) PROVE Good
  BY <1>0, <1>2, PrepareFramed, FramedKept, ChangeStep DEF Start
<1> QED
  BY <1>1, <1>2 DEF TransportCommand, Play, Skip, Select, Seek

(* Reports: a heartbeat attaches the calling device, whose session is      *)
(* live; readiness is noted and may finish a preparation.                  *)
LEMMA QuietStep ==
    ASSUME NullAssumption, IInv, NEW r \in Room, Open(rooms[r]), NEW s, Quietly(r, s),
           Kept(rooms[r], s, sessions),
           \A x \in MembersOf(rooms[r]) : s.members[x].gen = rooms[r].members[x].gen
    PROVE  Good
<1> DEFINE t == [rooms[r] EXCEPT !.members = s.members]
<1>0. Sound(rooms[r], sessions) /\ Sound(s, sessions) /\ MembersOf(s) = MembersOf(rooms[r])
  BY OpenIsSound DEF Kept, SameRoster
<1>1. rooms' = [rooms EXCEPT ![r] = t] /\ UNCHANGED <<slots, invitations, social, world, joins, view>>
  BY DEF Quietly
<1>3. /\ DOMAIN t = RoomFields /\ t.host = rooms[r].host /\ t.expired = rooms[r].expired
      /\ t.transfer = rooms[r].transfer /\ t.controlGen = rooms[r].controlGen /\ t.members = s.members
  BY <1>0 DEF Sound, IsRoom, RoomFields
<1> HIDE DEF t
<1>2. OfferCurrent(t)
  BY <1>0, <1>3 DEF Sound, OfferCurrent, MembersOf
<1>4. IsRoom(t) /\ SameRoster(rooms[r], t)
  BY <1>0, <1>3 DEF Sound, IsRoom, SameRoster, MembersOf
<1>5. Roster(t) /\ Controllers(t, sessions)
  BY <1>0, <1>3 DEF Sound, Roster, Controllers, MembersOf
<1>6. SteadyRooms
  <2>1. rooms' = [x \in Room |-> rooms'[x]] /\ \A x \in Room : rooms'[x] = IF x = r THEN t ELSE rooms[x]
    BY <1>1 DEF IInv, Rows
  <2>2. ASSUME NEW x \in Room, Open(rooms[x]) PROVE Kept(rooms[x], rooms[x], sessions)
    BY <2>2, FramedSame, FramedKept DEF IInv, Documents, Sound
  <2>3. Kept(rooms[r], t, sessions)
    BY <1>2, <1>4, <1>5 DEF Kept, Sound
  <2> QED
    BY <1>1, <2>1, <2>2, <2>3 DEF SteadyRooms, world
<1> QED
  BY <1>1, <1>6, SteadyStep DEF IInv, Rows, world

LEMMA HeartbeatStep ==
    ASSUME NullAssumption, IInv, NEW d, NEW r \in Room, NEW m, NEW gen, NEW muted,
           Heartbeat(d, r, m, gen, muted)
    PROVE  Good
<1> DEFINE s == rooms[r]
           adopted == Adopt(s)
           beaten == Beaten(adopted, m, muted)
<1>1. /\ Open(s) /\ m \in MembersOf(s) /\ s.members[m].dev = d /\ sessions[SessionOf[d]] = "live"
      /\ Change(r, FinishPreparation(beaten, enabled)) \/ Quietly(r, beaten)
  BY DEF Heartbeat, Safe, SignedIn, Controls
<1>2. Sound(s, sessions) /\ Framed(s, adopted)
  BY <1>1, OpenIsSound, AdoptFramed
<1> HIDE DEF adopted
<1>3. /\ Kept(s, adopted, sessions)
      /\ MembersOf(adopted) = MembersOf(s)
      /\ \A x \in MembersOf(s) : /\ adopted.members[x].gen = s.members[x].gen
                                 /\ adopted.members[x].dev = s.members[x].dev
  BY <1>2, FramedKept DEF Framed, SameRoster, SameControllers
<1>4. /\ Sound(adopted, sessions) /\ m \in MembersOf(adopted)
      /\ sessions[SessionOf[adopted.members[m].dev]] = "live"
  BY <1>1, <1>3 DEF Kept
<1>5. Kept(adopted, beaten, sessions) /\ \A x \in MembersOf(adopted) : beaten.members[x].gen = adopted.members[x].gen
  BY <1>4, BeatenKept
<1> HIDE DEF beaten
<1>6. \A x \in MembersOf(s) : beaten.members[x].gen = s.members[x].gen
  BY <1>3, <1>5
<1>7. Kept(s, beaten, sessions)
  BY <1>3, <1>5 DEF Kept, SameRoster
<1>8. Kept(s, FinishPreparation(beaten, enabled), sessions)
  BY <1>7, FinishFramed, KeptThenFramed, KeptIsRoom
<1> QED
  BY <1>1, <1>6, <1>7, <1>8, ChangeStep, QuietStep

LEMMA ReadyStep ==
    ASSUME NullAssumption, IInv, NEW d, NEW r \in Room, NEW m, NEW seq, NEW ready, NEW v,
           ReadyCurrent(d, r, m, seq, ready, v) \/ ReadyPrepared(d, r, m, seq, ready, v)
    PROVE  Good
<1> DEFINE s == rooms[r]
           reported == Reported(s, m, seq, ready)
           noted == [reported EXCEPT !.prep.cohort[m] = [@ EXCEPT !.seq = seq, !.ready = ready]]
<1>1. /\ Open(s) /\ m \in MembersOf(s)
      /\ \/ Change(r, reported)
         \/ Quietly(r, reported)
         \/ Change(r, FinishPreparation(noted, enabled))
  BY DEF ReadyCurrent, ReadyPrepared, Reports, Safe
<1>2. Sound(s, sessions) /\ Framed(s, reported)
  BY <1>1, OpenIsSound, ReportedFramed
<1> HIDE DEF reported
<1>3. /\ Kept(s, reported, sessions)
      /\ \A x \in MembersOf(s) : reported.members[x].gen = s.members[x].gen
  BY <1>2, FramedKept DEF Framed, SameControllers
<1>4. SameRoles(reported, noted)
  BY <1>2 DEF SameRoles, Framed, IsRoom, RoomFields
<1> HIDE DEF noted
<1>5. Kept(s, FinishPreparation(noted, enabled), sessions)
  BY <1>2, <1>3, <1>4, FramedFields, FinishFramed, KeptThenFramed DEF Framed
<1> QED
  BY <1>1, <1>3, <1>5, ChangeStep, QuietStep

LEMMA DisconnectedStep ==
    ASSUME NullAssumption, IInv, NEW d, NEW r \in Room, Disconnected(d, r)
    PROVE  Good
<1>1. PICK m \in MembersOf(rooms[r]) : Open(rooms[r]) /\ Change(r, Detached(rooms[r], m))
  BY DEF Disconnected, Safe
<1>2. Kept(rooms[r], Detached(rooms[r], m), sessions)
  BY <1>1, OpenIsSound, DetachedFramed, FramedKept
<1> QED
  BY <1>1, <1>2, ChangeStep

(* The sweep of a room that stays open rewrites playback and presence.     *)
LEMMA SweptFlagFramed == ASSUME NEW s, IsRoom(s) PROVE Framed(s, SweptFlag(s))
BY FramedSame, PauseFramed DEF SweptFlag

LEMMA SweptPresenceFramed == ASSUME NEW s, IsRoom(s) PROVE Framed(s, SweptPresence(s))
<1> DEFINE members == [m \in DOMAIN s.members |->
               IF Lost(s.members[m]) THEN [s.members[m] EXCEPT !.present = FALSE, !.ready = 0] ELSE s.members[m]]
           t == [s EXCEPT !.members = members]
<1>0. SweptPresence(s) = t
  BY DEF SweptPresence
<1>1. \A m \in MembersOf(s) : /\ IsMember(members[m])
                              /\ members[m].dev = s.members[m].dev /\ members[m].gen = s.members[m].gen
                              /\ members[m].present => s.members[m].present
  BY DEF MembersOf, IsRoom, IsMember, MemberFields
<1>2. DOMAIN members = MembersOf(s)
  BY DEF MembersOf
<1> HIDE DEF members
<1>3. /\ DOMAIN t = DOMAIN s /\ t.host = s.host /\ t.expired = s.expired
      /\ t.transfer = s.transfer /\ t.controlGen = s.controlGen /\ t.members = members
  BY DEF IsRoom, RoomFields
<1> HIDE DEF t
<1>4. MembersOf(t) = MembersOf(s)
  BY <1>2, <1>3 DEF MembersOf
<1>5. IsRoom(t) /\ SameRoster(s, t)
  BY <1>1, <1>3, <1>4 DEF IsRoom, SameRoster
<1>6. SameControllers(s, t) /\ SameOffer(s, t)
  BY <1>1, <1>3, <1>4 DEF SameControllers, SameOffer
<1> QED
  BY <1>0, <1>5, <1>6 DEF Framed

LEMMA SweptHostFramed == ASSUME NEW s, IsRoom(s) PROVE Framed(s, SweptHost(s))
<1> DEFINE noticed == [s EXCEPT !.absent = HostAbsence(s)]
           suspended == [noticed EXCEPT !.suspended = TRUE]
<1>1. SweptHost(s) \in {s, noticed, PauseRoom(suspended)}
  BY DEF SweptHost
<1>2. SameRoles(s, noticed) /\ SameRoles(s, suspended)
  BY DEF SameRoles, IsRoom, RoomFields
<1> HIDE DEF noticed, suspended
<1>3. Framed(s, noticed) /\ Framed(s, suspended)
  BY <1>2, FramedFields
<1>4. Framed(s, PauseRoom(suspended))
  BY <1>3, PauseFramed, FramedTwice DEF Framed
<1> QED
  BY <1>1, <1>3, <1>4, FramedSame

LEMMA SweptOfferFramed == ASSUME NEW s, IsRoom(s) PROVE Framed(s, SweptOffer(s))
<1> DEFINE t == [s EXCEPT !.transfer = None]
<1>1. SweptOffer(s) \in {s, t}
  BY DEF SweptOffer
<1>2. /\ DOMAIN t = DOMAIN s /\ t.host = s.host /\ t.expired = s.expired /\ t.transfer = None
      /\ t.members = s.members /\ t.controlGen = s.controlGen
  BY DEF IsRoom, RoomFields
<1> HIDE DEF t
<1>3. Framed(s, t)
  BY <1>2 DEF IsRoom, Framed, SameRoster, SameControllers, SameOffer, MembersOf
<1> QED
  BY <1>1, <1>3, FramedSame

LEMMA SweptQueueFramed == ASSUME NEW s, IsRoom(s) PROVE Framed(s, SweptQueue(s))
<1> DEFINE marked == [s EXCEPT !.queueRev = @ + 1,
                               !.queue = [i \in DOMAIN @ |->
                                  IF i \in LostMedia(s) THEN [@[i] EXCEPT !.gone = TRUE] ELSE @[i]]]
<1>1. SweptQueue(s) \in {s, marked, PauseRoom(marked)}
  BY DEF SweptQueue
<1>2. SameRoles(s, marked)
  BY DEF SameRoles, IsRoom, RoomFields
<1> HIDE DEF marked
<1>3. Framed(s, marked) /\ Framed(s, PauseRoom(marked))
  BY <1>2, FramedFields, PauseFramed, FramedTwice DEF Framed
<1> QED
  BY <1>1, <1>3, FramedSame

LEMMA AdvanceFramed == ASSUME NEW s, IsRoom(s) PROVE Framed(s, Advance(s))
<1> DEFINE paused == PauseRoom(s)
           ended == [paused EXCEPT !.timeline.state = "ended"]
           id == s.queue[IndexOf(s, s.timeline.entry) + 1].id
<1>1. Advance(s) \in {Prepare(s, id, 0), ended}
  BY DEF Advance
<1>2. Framed(s, paused)
  BY PauseFramed
<1> HIDE DEF paused, id
<1>3. SameRoles(paused, ended)
  BY <1>2 DEF SameRoles, Framed, IsRoom, RoomFields
<1> HIDE DEF ended
<1>4. Framed(s, ended)
  BY <1>2, <1>3, FramedFields, FramedTwice DEF Framed
<1> QED
  BY <1>1, <1>4, PrepareFramed

LEMMA SweptFramed == ASSUME NEW s, IsRoom(s), NEW t \in Swept(s) PROVE Framed(s, t)
<1> DEFINE adopted == Adopt(s)
           flagged == SweptFlag(adopted)
           seen == SweptPresence(flagged)
           hosted == SweptHost(seen)
           held == SweptOffer(hosted)
<1>0. t = SweptQueue(held)
  BY DEF Swept
<1>1. Framed(s, adopted)
  BY AdoptFramed
<1> HIDE DEF adopted
<1>2. Framed(s, flagged)
  BY <1>1, SweptFlagFramed, FramedTwice DEF Framed
<1> HIDE DEF flagged
<1>3. Framed(s, seen)
  BY <1>2, SweptPresenceFramed, FramedTwice DEF Framed
<1> HIDE DEF seen
<1>4. Framed(s, hosted)
  BY <1>3, SweptHostFramed, FramedTwice DEF Framed
<1> HIDE DEF hosted
<1>5. Framed(s, held)
  BY <1>4, SweptOfferFramed, FramedTwice DEF Framed
<1> HIDE DEF held
<1> QED
  BY <1>0, <1>5, SweptQueueFramed, FramedTwice DEF Framed

LEMMA SweepOpenStep ==
    ASSUME NullAssumption, IInv, NEW r \in Room, NEW c, Sweep(r, c), ~Closes(rooms[r])
    PROVE  Good
<1>1. Open(rooms[r])
  BY DEF Sweep
<1>2. PICK swept \in Swept(rooms[r]) :
         LET final == FinishPreparation(swept, enabled)
         IN  Change(r, Advance(final)) \/ Change(r, final)
  BY DEF Sweep
<1> DEFINE final == FinishPreparation(swept, enabled)
<1>3. Sound(rooms[r], sessions) /\ Framed(rooms[r], swept)
  BY <1>1, OpenIsSound, SweptFramed
<1>4. Framed(rooms[r], final)
  BY <1>3, FinishFramed, FramedTwice DEF Framed
<1>5. Change(r, Advance(final)) \/ Change(r, final)
  BY <1>2
<1> HIDE DEF final
<1>6. Framed(rooms[r], Advance(final))
  BY <1>4, AdvanceFramed, FramedTwice DEF Framed
<1> QED
  BY <1>1, <1>3, <1>4, <1>5, <1>6, FramedKept, ChangeStep

-----------------------------------------------------------------------------
(* Time, expiry, media, sessions and the flags of the deployment.          *)

(* One function of the document is applied to rooms, each framed by it.    *)
LEMMA FramedRooms ==
    ASSUME NullAssumption, IInv, UNCHANGED sessions,
           rooms' = [r \in Room |-> rooms'[r]],
           \A r \in Room : IF Open(rooms[r]) THEN Framed(rooms[r], rooms'[r]) ELSE rooms'[r] = rooms[r]
    PROVE  SteadyRooms
BY OpenIsSound, FramedKept DEF SteadyRooms

LEMMA SameRooms == ASSUME NullAssumption, IInv, UNCHANGED <<rooms, sessions>> PROVE SteadyRooms
<1>1. \A r \in Room : IF Open(rooms[r]) THEN Framed(rooms[r], rooms'[r]) ELSE rooms'[r] = rooms[r]
  BY OpenIsSound, FramedSame
<1>2. rooms' = [r \in Room |-> rooms'[r]]
  BY DEF IInv, Rows
<1> QED
  BY <1>1, <1>2, FramedRooms

LEMMA TickStep == ASSUME NullAssumption, IInv, Tick PROVE Good
<1>1. UNCHANGED <<slots, invitations, social, world, joins, view>>
  BY DEF Tick
<1>2. /\ rooms' = [r \in Room |-> rooms'[r]]
      /\ \A r \in Room : rooms'[r] = IF Open(rooms[r]) THEN Aged(rooms[r]) ELSE rooms[r]
  BY DEF Tick
<1>3. \A r \in Room : IF Open(rooms[r]) THEN Framed(rooms[r], rooms'[r]) ELSE rooms'[r] = rooms[r]
  BY <1>2, OpenIsSound, AgedFramed
<1> QED
  BY <1>1, <1>2, <1>3, FramedRooms, SteadyStep DEF world, IInv, Rows

LEMMA ReplaceMediaStep == ASSUME NullAssumption, IInv, NEW t, ReplaceMedia(t) PROVE Good
<1>1. UNCHANGED <<slots, invitations, social, sessions, joins>>
  BY DEF ReplaceMedia
<1>2. /\ rooms' = [r \in Room |-> rooms'[r]]
      /\ \A r \in Room : rooms'[r] = Invalidated(rooms[r], t)
  BY DEF ReplaceMedia
<1>3. \A r \in Room : IF Open(rooms[r]) THEN Framed(rooms[r], rooms'[r]) ELSE rooms'[r] = rooms[r]
  BY <1>2, OpenIsSound, WithoutMediaFramed, FramedSame DEF Invalidated
<1> QED
  BY <1>1, <1>2, <1>3, FramedRooms, SteadyStep DEF IInv, Rows

LEMMA ExpireRoomStep == ASSUME NullAssumption, IInv, NEW r \in Room, ExpireRoom(r) PROVE Good
<1> DEFINE s == rooms[r]
           t == [s EXCEPT !.expired = TRUE]
<1>1. UNCHANGED <<slots, invitations, social, world, joins, view>> /\ Open(s)
  BY DEF ExpireRoom, Safe
<1>2. rooms' = [x \in Room |-> rooms'[x]] /\ \A x \in Room : rooms'[x] = IF x = r THEN t ELSE rooms[x]
  BY DEF ExpireRoom, IInv, Rows
<1>3. /\ DOMAIN t = DOMAIN s /\ t.host = s.host /\ t.expired = TRUE /\ t.transfer = s.transfer
      /\ t.members = s.members /\ t.controlGen = s.controlGen
  BY <1>1, OpenIsSound DEF IsRoom, RoomFields
<1> HIDE DEF t
<1>4. Framed(s, t)
  BY <1>1, <1>3, OpenIsSound DEF IsRoom, Framed, SameRoster, SameControllers, SameOffer, MembersOf
<1>5. \A x \in Room : IF Open(rooms[x]) THEN Framed(rooms[x], rooms'[x]) ELSE rooms'[x] = rooms[x]
  BY <1>1, <1>2, <1>4, OpenIsSound, FramedSame
<1> QED
  BY <1>1, <1>2, <1>5, FramedRooms, SteadyStep DEF world, IInv, Rows

LEMMA RevokedKept ==
    ASSUME SessionAssumption, NEW x, NEW s, Sound(s, sessions), Open(s),
           sessions = [y \in Session |-> sessions[y]], sessions' = [sessions EXCEPT ![x] = "revoked"],
           \A d \in Device : SessionOf[d] \in Session
    PROVE  Kept(s, DetachedFrom(s, x), sessions')
<1> DEFINE Holds(m) == SessionOf[s.members[m].dev] = x
<1>1. \A y \in Session \ {x} : sessions'[y] = sessions[y]
  OBVIOUS
<1>2. CASE Controlled(s, x) = {}
  <2>1. Controllers(s, sessions')
    BY <1>1, <1>2 DEF Sound, Controllers, Controlled
  <2>2. Sound(s, sessions') /\ SameRoster(s, s)
    BY <2>1 DEF Sound, SameRoster
  <2> QED
    BY <1>2, <2>2 DEF Kept, DetachedFrom
<1>3. CASE Controlled(s, x) # {}
  <2> DEFINE m == CHOOSE y \in Controlled(s, x) : TRUE
             away == Detached(s, m)
  <2>1. m \in MembersOf(s) /\ Holds(m)
    BY <1>3 DEF Controlled
  <2>2. DetachedFrom(s, x) = Persist(away)
    BY <1>3 DEF DetachedFrom
  <2> HIDE DEF m
  <2>3. IsRoom(s) /\ Roster(s) /\ Controllers(s, sessions)
    BY DEF Sound
  <2>4. Framed(s, away) /\ away.members[m].present = FALSE
    BY <2>1, <2>3, DetachedFramed, DetachedAbsent
  <2> HIDE DEF away
  <2>5. SameRoster(s, away) /\ SameControllers(s, away)
    BY <2>4 DEF Framed
  <2>6. IsRoom(away) /\ OfferCurrent(away) /\ Roster(away)
    BY <2>3, <2>4, <2>5, FramedOffer DEF Framed, Sound, Roster, SameRoster
  <2>7. ASSUME NEW n \in MembersOf(s), Holds(n) PROVE n = m
    <3>1. /\ s.members[n].dev \in Device /\ s.members[m].dev \in Device
          /\ AccountOf[s.members[n].dev] = n[1] /\ AccountOf[s.members[m].dev] = m[1]
      BY <2>1, <2>3 DEF Controllers
    <3>2. AccountOf[s.members[n].dev] = AccountOf[s.members[m].dev]
      BY <2>1, <2>7, <3>1 DEF SessionAssumption
    <3> QED
      BY <2>1, <2>3, <3>1, <3>2 DEF Roster
  <2>8. ASSUME NEW n \in MembersOf(away)
        PROVE  /\ away.members[n].dev \in Device /\ AccountOf[away.members[n].dev] = n[1]
               /\ away.members[n].present => sessions'[SessionOf[away.members[n].dev]] = "live"
    <3>1. /\ n \in MembersOf(s) /\ away.members[n].dev = s.members[n].dev
          /\ away.members[n].present => s.members[n].present
      BY <2>5, <2>8 DEF SameRoster, SameControllers
    <3>2. away.members[n].present => ~Holds(n)
      BY <2>4, <2>7, <3>1
    <3> QED
      BY <1>1, <2>3, <3>1, <3>2 DEF Controllers
  <2>9. Kept(s, away, sessions')
    BY <2>5, <2>6, <2>8 DEF Kept, Sound, Controllers
  <2> QED
    BY <2>2, <2>9, PersistFramed, KeptThenFramed, KeptIsRoom
<1> QED
  BY <1>2, <1>3

LEMMA RevokeSessionStep ==
    ASSUME Assumptions, IInv, NEW x, RevokeSession(x)
    PROVE  Good
<1>1. UNCHANGED <<slots, invitations, social, joins>> /\ sessions' = [sessions EXCEPT ![x] = "revoked"]
  BY DEF RevokeSession
<1>2. /\ rooms' = [r \in Room |-> rooms'[r]]
      /\ \A r \in Room : rooms'[r] = DetachedFrom(rooms[r], x)
  BY DEF RevokeSession
<1>3. NullAssumption /\ SessionAssumption /\ \A d \in Device : SessionOf[d] \in Session
  BY DEF Assumptions, RoomsAssumption
<1>4. sessions = [y \in Session |-> sessions[y]]
  BY DEF IInv, Rows
<1>5. SteadyRooms
  <2>1. ASSUME NEW r \in Room, Open(rooms[r]) PROVE Kept(rooms[r], rooms'[r], sessions')
    BY <1>1, <1>2, <1>3, <1>4, <2>1, OpenIsSound, RevokedKept
  <2>2. ASSUME NEW r \in Room, ~Open(rooms[r]) PROVE rooms'[r] = rooms[r]
    BY <1>2, <2>2 DEF DetachedFrom
  <2> QED
    BY <1>2, <2>1, <2>2 DEF SteadyRooms
<1>6. sessions' = [y \in Session |-> sessions'[y]]
  BY <1>1, <1>4
<1> QED
  BY <1>1, <1>3, <1>5, <1>6, SteadyStep

LEMMA SignInStep == ASSUME NullAssumption, IInv, NEW x \in Session, SignIn(x) PROVE Good
<1>1. /\ UNCHANGED <<rooms, slots, invitations, social, joins>>
      /\ sessions[x] = "unused" /\ sessions' = [sessions EXCEPT ![x] = "live"]
  BY DEF SignIn
<1>2. rooms = [r \in Room |-> rooms[r]] /\ sessions = [y \in Session |-> sessions[y]]
  BY DEF IInv, Rows
<1>3. \A y : sessions[y] = "live" => sessions'[y] = "live"
  BY <1>1, <1>2
<1>4. ASSUME NEW r \in Room, Open(rooms[r]) PROVE Kept(rooms[r], rooms'[r], sessions')
  <2>1. Sound(rooms[r], sessions)
    BY <1>4, OpenIsSound
  <2>2. Sound(rooms[r], sessions')
    BY <1>3, <2>1 DEF Sound, Controllers
  <2> QED
    BY <1>1, <2>2 DEF Kept, SameRoster
<1>5. SteadyRooms
  BY <1>1, <1>2, <1>4 DEF SteadyRooms
<1>6. sessions' = [y \in Session |-> sessions'[y]]
  BY <1>1, <1>2
<1> QED
  BY <1>1, <1>5, <1>6, SteadyStep

(* No room changes: only the flags, the media or the snapshot do.          *)
LEMMA AsideStep ==
    ASSUME NullAssumption, IInv, UNCHANGED <<rooms, slots, invitations, social, sessions, joins>>
    PROVE  Good
BY SameRooms, SteadyStep DEF IInv, Rows

-----------------------------------------------------------------------------
(* No room changes, but invitations or the social graph do.                *)
LEMMA SocialStep ==
    ASSUME NullAssumption, IInv, UNCHANGED <<rooms, slots, sessions, joins>>,
           invitations' \in [Room \X Account -> [from : Account, lapsed : BOOLEAN] \cup {None}],
           Graph', NoBlockInside', InvitationsAreCurrent'
    PROVE  Good
<1>1. SteadyRooms
  BY SameRooms
<1>2. Rows'
  BY DEF IInv, Rows
<1> QED
  BY <1>1, <1>2, SteadyDocuments, SteadySlots, SteadyHost DEF Good, IInv

LEMMA DeclineStep == ASSUME NullAssumption, IInv, NEW d, NEW r \in Room, Decline(d, r) PROVE Good
<1> DEFINE x == <<r, AccountOf[d]>>
<1>1. UNCHANGED <<rooms, slots, social, world, joins>> /\ invitations' = [invitations EXCEPT ![x] = None]
  BY DEF Decline
<1>2. /\ invitations' \in [Room \X Account -> [from : Account, lapsed : BOOLEAN] \cup {None}]
      /\ \A y \in Room \X Account : invitations'[y] # None => invitations'[y] = invitations[y]
  BY <1>1 DEF IInv, Rows
<1>3. Graph' /\ NoBlockInside'
  BY <1>1 DEF IInv, Graph, NoBlockInside, OpenRooms, Blocked, social
<1>4. InvitationsAreCurrent'
  BY <1>1, <1>2 DEF IInv, InvitationsAreCurrent, Friends, social
<1> QED
  BY <1>1, <1>2, <1>3, <1>4, SocialStep DEF world

LEMMA ExpireInvitationStep ==
    ASSUME NullAssumption, IInv, NEW r \in Room, NEW a \in Account, ExpireInvitation(r, a) PROVE Good
<1>1. /\ UNCHANGED <<rooms, slots, social, world, joins>> /\ invitations[<<r, a>>] # None
      /\ invitations' = [invitations EXCEPT ![<<r, a>>].lapsed = TRUE]
  BY DEF ExpireInvitation
<1>2. /\ invitations' \in [Room \X Account -> [from : Account, lapsed : BOOLEAN] \cup {None}]
      /\ \A y \in Room \X Account : invitations'[y] # None =>
            invitations[y] # None /\ invitations'[y].from = invitations[y].from
  BY <1>1 DEF IInv, Rows
<1>3. Graph' /\ NoBlockInside'
  BY <1>1 DEF IInv, Graph, NoBlockInside, OpenRooms, Blocked, social
<1>4. \A p \in Room, b \in Account : invitations'[<<p, b>>] # None =>
         invitations[<<p, b>>] # None /\ invitations'[<<p, b>>].from = invitations[<<p, b>>].from
  BY <1>2
<1>5. UNCHANGED <<rooms, friends>>
  BY <1>1 DEF social
<1>6. InvitationsAreCurrent'
  BY <1>4, <1>5 DEF IInv, InvitationsAreCurrent, Friends
<1> QED
  BY <1>1, <1>2, <1>3, <1>6, SocialStep DEF world

LEMMA UnblockStep == ASSUME NullAssumption, IInv, NEW a \in Account, NEW b \in Account, Unblock(a, b) PROVE Good
<1>1. /\ UNCHANGED <<rooms, slots, invitations, active, sessions, joins>> /\ <<a, b>> \in blocks
      /\ blocks' = blocks \ {<<a, b>>} /\ friends' = friends \ {{a, b}}
  BY DEF Unblock, world
<1>2. Graph'
  BY <1>1 DEF IInv, Graph
<1>3. NoBlockInside'
  BY <1>1 DEF IInv, NoBlockInside, OpenRooms, Blocked
<1>4. {a, b} \notin friends
  BY <1>1 DEF IInv, Graph
<1>5. InvitationsAreCurrent'
  <2>1. \A f \in friends : f \in friends'
    BY <1>1, <1>4
  <2> QED
    BY <1>1, <2>1 DEF IInv, InvitationsAreCurrent, Friends
<1> QED
  BY <1>1, <1>2, <1>3, <1>5, SocialStep DEF IInv, Rows

LEMMA BefriendStep == ASSUME NullAssumption, IInv, NEW a \in Account, NEW b \in Account, Befriend(a, b) PROVE Good
<1>1. /\ UNCHANGED <<rooms, slots, invitations, blocks, active, sessions, joins>>
      /\ ~Blocked(a, b) /\ friends' = friends \cup {{a, b}}
  BY DEF Befriend, world
<1>2. Graph'
  <2> SUFFICES ASSUME NEW x \in Account, NEW y \in Account, <<x, y>> \in blocks
               PROVE  x # y /\ {x, y} \notin friends'
    BY <1>1 DEF Graph
  <2>1. <<x, y>> # <<a, b>> /\ <<x, y>> # <<b, a>>
    BY <1>1 DEF Blocked
  <2>2. {x, y} # {a, b}
    BY <2>1
  <2> QED
    BY <1>1, <2>2 DEF IInv, Graph
<1>3. NoBlockInside'
  BY <1>1 DEF IInv, NoBlockInside, OpenRooms, Blocked
<1>4. InvitationsAreCurrent'
  BY <1>1 DEF IInv, InvitationsAreCurrent, Friends
<1> QED
  BY <1>1, <1>2, <1>3, <1>4, SocialStep DEF IInv, Rows

LEMMA ReactivateStep == ASSUME NullAssumption, IInv, NEW a, Reactivate(a) PROVE Good
<1>1. /\ UNCHANGED <<rooms, slots, invitations, friends, blocks, sessions, joins>>
      /\ active' = active \cup {a}
  BY DEF Reactivate, world
<1>2. Graph' /\ NoBlockInside' /\ InvitationsAreCurrent'
  BY <1>1 DEF IInv, Graph, NoBlockInside, OpenRooms, Blocked, InvitationsAreCurrent, Friends
<1> QED
  BY <1>1, <1>2, SocialStep DEF IInv, Rows

-----------------------------------------------------------------------------
(* Members leave: `gone` ends current memberships, at most one of a room.  *)
Ends(gone) ==
    /\ gone \subseteq Room \X Member
    /\ \A r \in Room, m \in Member : <<r, m>> \in gone => Open(rooms[r]) /\ m \in MembersOf(rooms[r])
    /\ \A r \in Room, m, n \in Member : <<r, m>> \in gone /\ <<r, n>> \in gone => m = n

(* t is s without the members of `out`, the host not among them.           *)
Remains(s, t, out) ==
    /\ IsRoom(t) /\ OfferCurrent(t)
    /\ t.host = s.host /\ t.expired = s.expired /\ s.host \notin out
    /\ MembersOf(t) = MembersOf(s) \ out
    /\ \A m \in MembersOf(t) : t.members[m] = s.members[m]

GoneFrom(gone, r) == {m \in Member : <<r, m>> \in gone}

LEMMA ExpelRoom ==
    ASSUME NullAssumption, IInv, NEW gone, Ends(gone), NEW drop, Expel(gone, drop), NEW r \in Room
    PROVE  IF r \in ClosedBy(gone) THEN rooms'[r] = Closed
           ELSE IF Open(rooms[r]) THEN Remains(rooms[r], rooms'[r], GoneFrom(gone, r))
           ELSE rooms'[r] = rooms[r]
<1> DEFINE s == rooms[r]
<1>1. rooms'[r] = IF r \in ClosedBy(gone) THEN Closed
                  ELSE IF \E m \in Member : <<r, m>> \in gone
                  THEN WithoutMember(s, CHOOSE m \in Member : <<r, m>> \in gone)
                  ELSE s
  BY DEF Expel
<1>2. CASE r \in ClosedBy(gone)
  BY <1>1, <1>2
<1>3. CASE r \notin ClosedBy(gone) /\ \E m \in Member : <<r, m>> \in gone
  <2> DEFINE m == CHOOSE y \in Member : <<r, y>> \in gone
  <2>1. m \in Member /\ <<r, m>> \in gone /\ rooms'[r] = WithoutMember(s, m)
    BY <1>1, <1>3
  <2> HIDE DEF m
  <2>2. Open(s) /\ GoneFrom(gone, r) = {m}
    BY <2>1 DEF Ends, GoneFrom
  <2>3. IsRoom(s) /\ OfferCurrent(s)
    BY <2>2, OpenIsSound DEF Sound
  <2> DEFINE t == WithoutMember(s, m)
  <2>4. /\ IsRoom(t) /\ t.host = s.host /\ t.expired = s.expired
        /\ MembersOf(t) = MembersOf(s) \ {m}
        /\ \A x \in MembersOf(t) : t.members[x] = s.members[x]
    <3> HIDE DEF t
    <3> QED
      BY <2>3, WithoutMemberFacts DEF t
  <2>5. OfferCurrent(t)
    BY <2>3, WithoutMemberOffer
  <2>6. s.host # m
    BY <1>3, <2>1 DEF ClosedBy
  <2> HIDE DEF t
  <2>7. Remains(s, t, {m})
    BY <2>4, <2>5, <2>6 DEF Remains
  <2> QED
    BY <1>3, <2>1, <2>2, <2>7 DEF t
<1>4. CASE r \notin ClosedBy(gone) /\ ~\E m \in Member : <<r, m>> \in gone
  <2>1. rooms'[r] = s /\ GoneFrom(gone, r) = {}
    BY <1>1, <1>4 DEF GoneFrom
  <2>2. Open(s) => Remains(s, s, {})
    BY OpenIsSound DEF Sound, Remains
  <2> QED
    BY <1>4, <2>1, <2>2
<1> QED
  BY <1>2, <1>3, <1>4

LEMMA ExpelFacts ==
    ASSUME NullAssumption, IInv, NEW gone, Ends(gone), NEW drop, Expel(gone, drop), NEW r \in Room
    PROVE  /\ Open(rooms'[r]) => /\ Open(rooms[r]) /\ r \notin ClosedBy(gone)
                                /\ Remains(rooms[r], rooms'[r], GoneFrom(gone, r))
           /\ Open(rooms[r]) /\ r \notin ClosedBy(gone) =>
                 Open(rooms'[r]) /\ Remains(rooms[r], rooms'[r], GoneFrom(gone, r))
<1>1. ~Open(Closed)
  BY DEF Open
<1>2. ASSUME Remains(rooms[r], rooms'[r], GoneFrom(gone, r)) PROVE Open(rooms'[r])
  BY <1>2, RoomIsOpen DEF Remains
<1> QED
  BY <1>1, <1>2, ExpelRoom

LEMMA ExpelStep ==
    ASSUME NullAssumption, IInv, NEW gone, Ends(gone), NEW drop, Expel(gone, drop),
           UNCHANGED joins, sessions' = [x \in Session |-> sessions'[x]], Graph',
           \A r \in Room : Open(rooms[r]) =>
               \A m \in MembersOf(rooms[r]) : <<r, m>> \notin gone =>
                   /\ m[1] \in active'
                   /\ rooms[r].members[m].present =>
                         sessions'[SessionOf[rooms[r].members[m].dev]] = "live"
                   /\ \A n \in MembersOf(rooms[r]) : <<r, n>> \notin gone =>
                         <<m[1], n[1]>> \notin blocks',
           \A r \in Room, a \in Account : invitations[<<r, a>>] # None /\ <<r, a>> \notin drop =>
               {a, invitations[<<r, a>>].from} \in friends'
    PROVE  Good
<1>1. /\ rooms' = [r \in Room |-> rooms'[r]] /\ slots' = Freed(gone)
      /\ invitations' = [x \in Room \X Account |->
                            IF x[1] \in ClosedBy(gone) \/ x \in drop THEN None ELSE invitations[x]]
  BY DEF Expel
<1>2. Rows'
  <2>1. invitations' \in [Room \X Account -> [from : Account, lapsed : BOOLEAN] \cup {None}]
    BY <1>1 DEF IInv, Rows
  <2>2. slots' \in [Account -> [room : Room, member : Member] \cup {None}]
    BY <1>1 DEF IInv, Rows, Freed
  <2> QED
    BY <1>1, <2>1, <2>2 DEF IInv, Rows
<1>3. ASSUME NEW r \in Room, Open(rooms'[r])
      PROVE  /\ Open(rooms[r]) /\ r \notin ClosedBy(gone)
             /\ rooms'[r].host = rooms[r].host /\ rooms'[r].expired = rooms[r].expired
             /\ \A m : m \in MembersOf(rooms'[r]) <=> m \in MembersOf(rooms[r]) /\ <<r, m>> \notin gone
             /\ \A m \in MembersOf(rooms'[r]) : rooms'[r].members[m] = rooms[r].members[m]
             /\ IsRoom(rooms'[r]) /\ OfferCurrent(rooms'[r]) /\ rooms[r].host \in MembersOf(rooms'[r])
             /\ Roster(rooms[r]) /\ Controllers(rooms[r], sessions)
  <2>1. Open(rooms[r]) /\ r \notin ClosedBy(gone) /\ Remains(rooms[r], rooms'[r], GoneFrom(gone, r))
    BY <1>3, ExpelFacts
  <2>2. Roster(rooms[r]) /\ Controllers(rooms[r], sessions)
    BY <2>1, OpenIsSound DEF Sound
  <2>3. \A m \in MembersOf(rooms[r]) : m \in GoneFrom(gone, r) <=> <<r, m>> \in gone
    BY <2>2 DEF Roster, GoneFrom
  <2> QED
    BY <2>1, <2>2, <2>3 DEF Remains, Roster
<1>4. Documents'
  <2> SUFFICES ASSUME NEW r \in Room, Open(rooms'[r]) PROVE Sound(rooms'[r], sessions')
    BY DEF Documents
  <2>1. Roster(rooms'[r])
    BY <1>3 DEF Roster
  <2>2. ASSUME NEW m \in MembersOf(rooms'[r])
        PROVE  /\ rooms'[r].members[m].dev \in Device /\ AccountOf[rooms'[r].members[m].dev] = m[1]
               /\ rooms'[r].members[m].present => sessions'[SessionOf[rooms'[r].members[m].dev]] = "live"
    <3>1. /\ Open(rooms[r]) /\ m \in MembersOf(rooms[r]) /\ <<r, m>> \notin gone
          /\ rooms'[r].members[m] = rooms[r].members[m]
      BY <1>3, <2>2
    <3>2. rooms[r].members[m].dev \in Device /\ AccountOf[rooms[r].members[m].dev] = m[1]
      BY <1>3, <3>1 DEF Controllers
    <3> QED
      BY <3>1, <3>2
  <2>3. Controllers(rooms'[r], sessions')
    BY <2>2 DEF Controllers
  <2> QED
    BY <1>3, <2>1, <2>3 DEF Sound
<1>5. SlotsAgree'
  <2>1. ASSUME NEW a \in Account, slots'[a] # None
        PROVE  /\ Open(rooms'[slots'[a].room])
               /\ slots'[a].member \in MembersOf(rooms'[slots'[a].room]) /\ slots'[a].member[1] = a
    <3> DEFINE r == slots[a].room
               m == slots[a].member
    <3>1. slots'[a] = slots[a] /\ slots[a] # None /\ r \notin ClosedBy(gone) /\ <<r, m>> \notin gone
      BY <1>1, <2>1 DEF Freed
    <3>2. r \in Room /\ Open(rooms[r]) /\ m \in MembersOf(rooms[r]) /\ m[1] = a
      BY <3>1 DEF IInv, Rows, SlotsAgree
    <3>3. Open(rooms'[r])
      BY <3>1, <3>2, ExpelFacts
    <3> QED
      BY <1>3, <3>1, <3>2, <3>3
  <2>2. ASSUME NEW r \in Room, Safe(rooms'[r]), NEW m \in MembersOf(rooms'[r])
        PROVE  slots'[m[1]] = [room |-> r, member |-> m]
    <3>1. /\ Safe(rooms[r]) /\ m \in MembersOf(rooms[r]) /\ m \in Member
          /\ r \notin ClosedBy(gone) /\ <<r, m>> \notin gone
      BY <1>3, <2>2 DEF Safe, Roster
    <3>2. slots[m[1]] = [room |-> r, member |-> m] /\ m[1] \in Account
      BY <3>1 DEF IInv, SlotsAgree, Member
    <3> QED
      BY <1>1, <3>1, <3>2 DEF Freed
  <2> QED
    BY <2>1, <2>2 DEF SlotsAgree
<1>6. NoBlockInside'
  BY <1>3 DEF NoBlockInside, OpenRooms, Blocked
<1>7. InvitationsAreCurrent'
  <2> SUFFICES ASSUME NEW r \in Room, NEW a \in Account, invitations'[<<r, a>>] # None
               PROVE  /\ Open(rooms'[r])
                      /\ invitations'[<<r, a>>].from = rooms'[r].host[1]
                      /\ {a, invitations'[<<r, a>>].from} \in friends'
                      /\ Safe(rooms'[r]) => ~HasAccount(rooms'[r], a)
    BY DEF InvitationsAreCurrent, Friends
  <2>1. /\ invitations'[<<r, a>>] = invitations[<<r, a>>] /\ r \notin ClosedBy(gone)
        /\ <<r, a>> \notin drop
    BY <1>1
  <2>2. /\ Open(rooms[r]) /\ invitations[<<r, a>>].from = rooms[r].host[1]
        /\ Safe(rooms[r]) => ~HasAccount(rooms[r], a)
    BY <2>1 DEF IInv, InvitationsAreCurrent
  <2>3. Open(rooms'[r])
    BY <2>1, <2>2, ExpelFacts
  <2> QED
    BY <1>3, <2>1, <2>2, <2>3 DEF HasAccount, Safe
<1>8. HostConsented
  BY <1>3 DEF HostConsented
<1> QED
  BY <1>2, <1>4, <1>5, <1>6, <1>7, <1>8 DEF Good, IInv

(* One membership ends and nothing else: leave, end, kick and the sweep    *)
(* that closes a room.                                                     *)
LEMMA ExpelOneStep ==
    ASSUME NullAssumption, IInv, NEW r \in Room, Open(rooms[r]), NEW m \in MembersOf(rooms[r]),
           Expel({<<r, m>>}, {}), UNCHANGED <<social, world, joins, view>>
    PROVE  Good
<1> DEFINE gone == {<<r, m>>}
<1>1. m \in Member
  BY OpenIsSound DEF Sound, Roster
<1>2. Ends(gone) /\ Expel(gone, {})
  BY <1>1 DEF Ends
<1> HIDE DEF gone
<1>3. UNCHANGED <<friends, blocks, active, sessions, joins>>
  BY DEF social, world
<1>4. Graph' /\ sessions' = [x \in Session |-> sessions'[x]]
  BY <1>3 DEF IInv, Rows, Graph
<1>5. ASSUME NEW q \in Room, Open(rooms[q]), NEW n \in MembersOf(rooms[q])
      PROVE  /\ n[1] \in active'
             /\ rooms[q].members[n].present => sessions'[SessionOf[rooms[q].members[n].dev]] = "live"
             /\ \A x \in MembersOf(rooms[q]) : <<n[1], x[1]>> \notin blocks'
  <2>1. Controllers(rooms[q], sessions)
    BY <1>5, OpenIsSound DEF Sound
  <2> QED
    BY <1>3, <1>5, <2>1 DEF IInv, NoBlockInside, OpenRooms, Blocked, Controllers
<1>6. \A q \in Room, a \in Account : invitations[<<q, a>>] # None => {a, invitations[<<q, a>>].from} \in friends'
  BY <1>3 DEF IInv, InvitationsAreCurrent, Friends
<1> QED
  BY <1>2, <1>3, <1>4, <1>5, <1>6, ExpelStep

LEMMA LeaveStep == ASSUME NullAssumption, IInv, NEW d, NEW r \in Room, NEW m, Leave(d, r, m) PROVE Good
BY ExpelOneStep DEF Leave, Addressed, Safe

LEMMA EndStep == ASSUME NullAssumption, IInv, NEW d, NEW r \in Room, NEW m, End(d, r, m) PROVE Good
BY ExpelOneStep DEF End, Addressed, Safe

LEMMA KickStep ==
    ASSUME NullAssumption, IInv, NEW d, NEW r \in Room, NEW m, NEW target, Kick(d, r, m, target)
    PROVE  Good
BY ExpelOneStep DEF Kick, Addressed, Safe

LEMMA SweepStep == ASSUME NullAssumption, IInv, NEW r \in Room, NEW c, Sweep(r, c) PROVE Good
<1>1. CASE Closes(rooms[r])
  <2>1. Open(rooms[r]) /\ Expel({<<r, rooms[r].host>>}, {}) /\ UNCHANGED <<social, world, joins, view>>
    BY <1>1 DEF Sweep
  <2>2. rooms[r].host \in MembersOf(rooms[r])
    BY <2>1, OpenIsSound DEF Sound, Roster
  <2> QED
    BY <2>1, <2>2, ExpelOneStep
<1> QED
  BY <1>1, SweepOpenStep

(* An account has one membership of a room at most.                        *)
LEMMA MembershipsEnd ==
    ASSUME NullAssumption, IInv, NEW a \in Account
    PROVE  /\ Ends(Memberships(a))
           /\ \A r \in Room : Open(rooms[r]) =>
                 \A m \in MembersOf(rooms[r]) : m[1] = a => <<r, m>> \in Memberships(a)
<1>1. ASSUME NEW r \in Room, Open(rooms[r]) PROVE Roster(rooms[r])
  BY <1>1, OpenIsSound DEF Sound
<1> QED
  BY <1>1 DEF Ends, Memberships, Roster

LEMMA DeactivateStep == ASSUME NullAssumption, IInv, NEW a \in Account, Deactivate(a) PROVE Good
<1>1. /\ UNCHANGED <<blocks, sessions, joins>> /\ Expel(Memberships(a), Involving(a))
      /\ active' = active \ {a} /\ friends' = {f \in friends : a \notin f}
  BY DEF Deactivate, world
<1>2. Graph' /\ sessions' = [x \in Session |-> sessions'[x]]
  BY <1>1 DEF IInv, Rows, Graph
<1>3. ASSUME NEW q \in Room, Open(rooms[q]), NEW n \in MembersOf(rooms[q]), <<q, n>> \notin Memberships(a)
      PROVE  /\ n[1] \in active'
             /\ rooms[q].members[n].present => sessions'[SessionOf[rooms[q].members[n].dev]] = "live"
             /\ \A x \in MembersOf(rooms[q]) : <<n[1], x[1]>> \notin blocks'
  <2>1. Controllers(rooms[q], sessions)
    BY <1>3, OpenIsSound DEF Sound
  <2>2. n[1] # a
    BY <1>3, MembershipsEnd
  <2> QED
    BY <1>1, <1>3, <2>1, <2>2 DEF IInv, NoBlockInside, OpenRooms, Blocked, Controllers
<1>4. ASSUME NEW q \in Room, NEW b \in Account, invitations[<<q, b>>] # None, <<q, b>> \notin Involving(a)
      PROVE  {b, invitations[<<q, b>>].from} \in friends'
  BY <1>1, <1>4 DEF IInv, InvitationsAreCurrent, Friends, Involving
<1> QED
  BY <1>1, <1>2, <1>3, <1>4, MembershipsEnd, ExpelStep

LEMMA LogoutAllStep == ASSUME Assumptions, IInv, NEW a \in Account, LogoutAll(a) PROVE Good
<1>1. /\ UNCHANGED <<friends, blocks, active, joins>> /\ Expel(Memberships(a), Involving(a))
      /\ sessions' = [x \in Session |->
                         IF x \in SessionsOf(a) /\ sessions[x] = "live" THEN "revoked" ELSE sessions[x]]
  BY DEF LogoutAll, social
<1>2. Graph' /\ sessions' = [x \in Session |-> sessions'[x]]
  BY <1>1 DEF IInv, Rows, Graph
<1>3. NullAssumption /\ SessionAssumption /\ SessionOf \in [Device -> Session]
  BY DEF Assumptions, RoomsAssumption
<1>4. ASSUME NEW q \in Room, Open(rooms[q]), NEW n \in MembersOf(rooms[q]), <<q, n>> \notin Memberships(a)
      PROVE  /\ n[1] \in active'
             /\ rooms[q].members[n].present => sessions'[SessionOf[rooms[q].members[n].dev]] = "live"
             /\ \A x \in MembersOf(rooms[q]) : <<n[1], x[1]>> \notin blocks'
  <2> DEFINE d == rooms[q].members[n].dev
  <2>1. /\ d \in Device /\ AccountOf[d] = n[1]
        /\ rooms[q].members[n].present => sessions[SessionOf[d]] = "live"
    BY <1>4, OpenIsSound DEF Sound, Controllers
  <2>2. n[1] # a
    BY <1>3, <1>4, MembershipsEnd
  <2> HIDE DEF d
  <2>3. SessionOf[d] \in Session /\ SessionOf[d] \notin SessionsOf(a)
    BY <1>3, <2>1, <2>2 DEF SessionsOf, SessionAssumption
  <2>4. rooms[q].members[n].present => sessions'[SessionOf[d]] = "live"
    BY <1>1, <2>1, <2>3
  <2> QED
    BY <1>1, <1>4, <2>4 DEF IInv, NoBlockInside, OpenRooms, Blocked, d
<1>5. \A q \in Room, b \in Account : invitations[<<q, b>>] # None => {b, invitations[<<q, b>>].from} \in friends'
  BY <1>1 DEF IInv, InvitationsAreCurrent, Friends
<1> QED
  BY <1>1, <1>2, <1>3, <1>4, <1>5, MembershipsEnd, ExpelStep

LEMMA UnfriendStep == ASSUME NullAssumption, IInv, NEW a \in Account, NEW b \in Account, Unfriend(a, b) PROVE Good
<1>1. /\ UNCHANGED <<blocks, active, sessions, joins>> /\ Expel({}, Between(a, b))
      /\ friends' = friends \ {{a, b}}
  BY DEF Unfriend, world
<1>2. Graph' /\ sessions' = [x \in Session |-> sessions'[x]] /\ Ends({})
  BY <1>1 DEF IInv, Rows, Graph, Ends
<1>3. ASSUME NEW q \in Room, Open(rooms[q]), NEW n \in MembersOf(rooms[q])
      PROVE  /\ n[1] \in active'
             /\ rooms[q].members[n].present => sessions'[SessionOf[rooms[q].members[n].dev]] = "live"
             /\ \A x \in MembersOf(rooms[q]) : <<n[1], x[1]>> \notin blocks'
  <2>1. Controllers(rooms[q], sessions)
    BY <1>3, OpenIsSound DEF Sound
  <2> QED
    BY <1>1, <1>3, <2>1 DEF IInv, NoBlockInside, OpenRooms, Blocked, Controllers
<1>4. ASSUME NEW q \in Room, NEW c \in Account, invitations[<<q, c>>] # None, <<q, c>> \notin Between(a, b)
      PROVE  {c, invitations[<<q, c>>].from} \in friends'
  <2>1. {c, invitations[<<q, c>>].from} \in friends /\ {invitations[<<q, c>>].from, c} # {a, b}
    BY <1>4 DEF IInv, InvitationsAreCurrent, Friends, Between
  <2> QED
    BY <1>1, <2>1
<1> QED
  BY <1>1, <1>2, <1>3, <1>4, ExpelStep

(* A block ends one of the two memberships of every shared room.           *)
LEMMA SeparatedEnd ==
    ASSUME NullAssumption, IInv, NEW a \in Account, NEW b \in Account, a # b
    PROVE  /\ Ends(Separated(a, b))
           /\ \A r \in Room : Open(rooms[r]) =>
                 \A m, n \in MembersOf(rooms[r]) :
                    m[1] = a /\ n[1] = b => <<r, m>> \in Separated(a, b) \/ <<r, n>> \in Separated(a, b)
<1>1. ASSUME NEW r \in Room, Open(rooms[r])
      PROVE  MembersOf(rooms[r]) \subseteq Member /\ \A m, n \in MembersOf(rooms[r]) : m[1] = n[1] => m = n
  BY <1>1, OpenIsSound DEF Sound, Roster
<1>2. Separated(a, b) \subseteq Memberships(a) \cup Memberships(b)
  BY DEF Separated
<1>3. ASSUME NEW r \in Room, NEW m \in Member, <<r, m>> \in Separated(a, b)
      PROVE  /\ Open(rooms[r]) /\ m \in MembersOf(rooms[r])
             /\ IF rooms[r].host[1] = a THEN m[1] = b ELSE m[1] = a
  BY <1>3 DEF Separated, Memberships
<1>4. ASSUME NEW r \in Room, Open(rooms[r]), NEW m \in MembersOf(rooms[r]), NEW n \in MembersOf(rooms[r]),
             m[1] = a, n[1] = b
      PROVE  <<r, m>> \in Separated(a, b) \/ <<r, n>> \in Separated(a, b)
  <2>1. <<r, m>> \in Memberships(a) /\ <<r, n>> \in Memberships(b)
    BY <1>4, MembershipsEnd
  <2>2. HasAccount(rooms[r], a) /\ HasAccount(rooms[r], b)
    BY <1>4 DEF HasAccount
  <2> QED
    BY <2>1, <2>2 DEF Separated
<1>5. \A r \in Room, m, n \in Member : <<r, m>> \in Separated(a, b) /\ <<r, n>> \in Separated(a, b) => m = n
  BY <1>1, <1>3
<1> QED
  BY <1>2, <1>3, <1>4, <1>5, MembershipsEnd DEF Ends

LEMMA BlockStep == ASSUME NullAssumption, IInv, NEW a \in Account, NEW b \in Account, Block(a, b) PROVE Good
<1>1. /\ UNCHANGED <<active, sessions, joins>> /\ Expel(Separated(a, b), Between(a, b)) /\ a # b
      /\ blocks' = blocks \cup {<<a, b>>} /\ friends' = friends \ {{a, b}}
  BY DEF Block, world
<1>2. Graph' /\ sessions' = [x \in Session |-> sessions'[x]]
  BY <1>1 DEF IInv, Rows, Graph
<1>3. ASSUME NEW q \in Room, Open(rooms[q]), NEW n \in MembersOf(rooms[q]), <<q, n>> \notin Separated(a, b)
      PROVE  /\ n[1] \in active'
             /\ rooms[q].members[n].present => sessions'[SessionOf[rooms[q].members[n].dev]] = "live"
             /\ \A x \in MembersOf(rooms[q]) : <<q, x>> \notin Separated(a, b) =>
                   <<n[1], x[1]>> \notin blocks'
  <2>1. Controllers(rooms[q], sessions)
    BY <1>3, OpenIsSound DEF Sound
  <2>2. \A x \in MembersOf(rooms[q]) : <<q, x>> \notin Separated(a, b) => ~(n[1] = a /\ x[1] = b)
    BY <1>1, <1>3, SeparatedEnd
  <2>3. n[1] \in active /\ \A x \in MembersOf(rooms[q]) : <<n[1], x[1]>> \notin blocks
    BY <1>3 DEF IInv, NoBlockInside, OpenRooms, Blocked
  <2> QED
    BY <1>1, <1>3, <2>1, <2>2, <2>3 DEF Controllers
<1>4. ASSUME NEW q \in Room, NEW c \in Account, invitations[<<q, c>>] # None, <<q, c>> \notin Between(a, b)
      PROVE  {c, invitations[<<q, c>>].from} \in friends'
  <2>1. {c, invitations[<<q, c>>].from} \in friends /\ {invitations[<<q, c>>].from, c} # {a, b}
    BY <1>4 DEF IInv, InvitationsAreCurrent, Friends, Between
  <2> QED
    BY <1>1, <2>1
<1> QED
  BY <1>1, <1>2, <1>3, <1>4, SeparatedEnd, ExpelStep

-----------------------------------------------------------------------------
(* Somebody comes: an invitation, a new room, an admission, a new host.    *)
LEMMA InviteStep ==
    ASSUME NullAssumption, IInv, NEW d, NEW r \in Room, NEW m, NEW b \in Account, Invite(d, r, m, b)
    PROVE  Good
<1> DEFINE s == Persist(rooms[r])
           sent == [from |-> m[1], lapsed |-> FALSE]
<1>1. /\ Open(rooms[r]) /\ m \in MembersOf(rooms[r]) /\ rooms[r].host = m
      /\ Friends(m[1], b) /\ ~HasAccount(rooms[r], b)
      /\ invitations' = [invitations EXCEPT ![<<r, b>>] = sent]
      /\ rooms' = [rooms EXCEPT ![r] = s]
      /\ UNCHANGED <<slots, social, world, joins, view>>
  BY DEF Invite, Addressed, Safe, Write
<1>2. UNCHANGED <<friends, blocks, active, sessions, joins, slots>>
  BY <1>1 DEF social, world
<1>3. Framed(rooms[r], s) /\ m[1] \in Account
  BY <1>1, OpenIsSound, PersistFramed DEF Sound, Roster, Member
<1> HIDE DEF s
<1>4. rooms' = [q \in Room |-> rooms'[q]] /\ \A q \in Room : rooms'[q] = IF q = r THEN s ELSE rooms[q]
  BY <1>1 DEF IInv, Rows
<1>5. \A q \in Room : IF Open(rooms[q]) THEN Framed(rooms[q], rooms'[q]) ELSE rooms'[q] = rooms[q]
  BY <1>1, <1>3, <1>4, OpenIsSound, FramedSame
<1>6. SteadyRooms
  BY <1>2, <1>4, <1>5, FramedRooms
<1>7. invitations' \in [Room \X Account -> [from : Account, lapsed : BOOLEAN] \cup {None}]
  BY <1>1, <1>3 DEF IInv, Rows
<1>8. Rows' /\ Graph'
  BY <1>2, <1>4, <1>7 DEF IInv, Rows, Graph
<1>9. InvitationsAreCurrent'
  <2> SUFFICES ASSUME NEW q \in Room, NEW a \in Account, invitations'[<<q, a>>] # None
               PROVE  /\ Open(rooms'[q])
                      /\ invitations'[<<q, a>>].from = rooms'[q].host[1]
                      /\ {a, invitations'[<<q, a>>].from} \in friends'
                      /\ Safe(rooms'[q]) => ~HasAccount(rooms'[q], a)
    BY DEF InvitationsAreCurrent, Friends
  <2>1. /\ Open(rooms[q])
        /\ invitations'[<<q, a>>].from = rooms[q].host[1]
        /\ {a, invitations'[<<q, a>>].from} \in friends
        /\ Safe(rooms[q]) => ~HasAccount(rooms[q], a)
    <3>1. CASE q = r /\ a = b
      <4>1. invitations'[<<q, a>>] = sent
        BY <1>1, <3>1 DEF IInv, Rows
      <4> QED
        BY <1>1, <3>1, <4>1 DEF Friends
    <3>2. CASE ~(q = r /\ a = b)
      <4>1. invitations'[<<q, a>>] = invitations[<<q, a>>]
        BY <1>1, <3>2 DEF IInv, Rows
      <4> QED
        BY <4>1 DEF IInv, InvitationsAreCurrent, Friends
    <3> QED
      BY <3>1, <3>2
  <2> QED
    BY <1>2, <1>6, <2>1, SteadyFacts DEF HasAccount
<1> QED
  BY <1>2, <1>6, <1>8, <1>9, SteadyDocuments, SteadySlots, SteadySafe, SteadyHost DEF Good, IInv

(* The account of an admission is in no other room that has not expired.   *)
LEMMA SlotClear ==
    ASSUME NullAssumption, IInv, NEW a \in Account, SlotWillClear(a), NEW r \in Room, Safe(rooms[r])
    PROVE  ~HasAccount(rooms[r], a)
<1> SUFFICES ASSUME NEW m \in MembersOf(rooms[r]), m[1] = a PROVE FALSE
  BY DEF HasAccount
<1> DEFINE slot == [room |-> r, member |-> m]
<1>1. slots[a] = slot
  BY DEF IInv, SlotsAgree
<1>2. slot # None /\ slot.room = r /\ slot.member = m
  BY DEF NullAssumption
<1> HIDE DEF slot
<1> QED
  BY <1>1, <1>2 DEF SlotWillClear

LEMMA FreshIsMember ==
    ASSUME RoomsAssumption, IInv, NEW a \in Account, joins[a] < MaxJoins
    PROVE  /\ Fresh(a) \in Member /\ Fresh(a)[1] = a
           /\ [joins EXCEPT ![a] = @ + 1] \in [Account -> 0..MaxJoins]
BY DEF RoomsAssumption, IInv, Rows, Fresh, Member

LEMMA AdmittedSlots ==
    ASSUME NullAssumption, IInv, NEW a \in Account, SlotWillClear(a), NEW r \in Room, NEW m \in Member, m[1] = a,
           slots' = [slots EXCEPT ![a] = [room |-> r, member |-> m]],
           \A q \in Room \ {r} : rooms'[q] = rooms[q],
           Open(rooms'[r]),
           \A n : n \in MembersOf(rooms'[r]) <=> n = m \/ (Safe(rooms[r]) /\ n \in MembersOf(rooms[r])),
           Open(rooms[r]) => Safe(rooms[r])
    PROVE  /\ slots' \in [Account -> [room : Room, member : Member] \cup {None}]
           /\ SlotsAgree'
<1>1. /\ slots' \in [Account -> [room : Room, member : Member] \cup {None}]
      /\ \A b \in Account : slots'[b] = IF b = a THEN [room |-> r, member |-> m] ELSE slots[b]
  BY DEF IInv, Rows
<1>2. ASSUME NEW b \in Account, slots'[b] # None
      PROVE  /\ Open(rooms'[slots'[b].room])
             /\ slots'[b].member \in MembersOf(rooms'[slots'[b].room]) /\ slots'[b].member[1] = b
  <2>1. CASE b = a
    BY <1>1, <2>1
  <2>2. CASE b # a
    <3>1. /\ slots'[b] = slots[b] /\ slots[b].room \in Room /\ Open(rooms[slots[b].room])
          /\ slots[b].member \in MembersOf(rooms[slots[b].room]) /\ slots[b].member[1] = b
      BY <1>1, <1>2, <2>2 DEF IInv, Rows, SlotsAgree
    <3> QED
      BY <3>1
  <2> QED
    BY <2>1, <2>2
<1>3. ASSUME NEW q \in Room, Safe(rooms'[q]), NEW n \in MembersOf(rooms'[q])
      PROVE  slots'[n[1]] = [room |-> q, member |-> n]
  <2>1. CASE q = r /\ n = m
    BY <1>1, <2>1
  <2>2. CASE ~(q = r /\ n = m)
    <3>1. Safe(rooms[q]) /\ n \in MembersOf(rooms[q])
      BY <1>3, <2>2
    <3>2. n[1] # a
      BY <3>1, SlotClear DEF HasAccount
    <3>3. n[1] \in Account
      BY <3>1, OpenIsSound DEF Safe, Sound, Roster, Member
    <3> QED
      BY <1>1, <3>1, <3>2, <3>3 DEF IInv, SlotsAgree
  <2> QED
    BY <2>1, <2>2
<1> QED
  BY <1>1, <1>2, <1>3 DEF SlotsAgree

LEMMA CreateStep == ASSUME Assumptions, IInv, NEW d \in Device, NEW r \in Room, Create(d, r) PROVE Good
<1> DEFINE a == AccountOf[d]
           m == Fresh(a)
<1>1. PICK tracks : rooms' = [rooms EXCEPT ![r] = NewRoom(d, m, epoch, tracks)]
  BY DEF Create, Write
<1>2. /\ a \in active /\ rooms[r] = None /\ joins[a] < MaxJoins /\ SlotWillClear(a)
      /\ slots' = [slots EXCEPT ![a] = [room |-> r, member |-> m]]
      /\ joins' = [joins EXCEPT ![a] = @ + 1]
      /\ UNCHANGED <<invitations, friends, blocks, active, sessions>>
  BY DEF Create, Acting, social, world
<1>3. a \in Account /\ NullAssumption /\ RoomsAssumption
  BY DEF Assumptions, RoomsAssumption
<1>4. m \in Member /\ m[1] = a /\ joins' \in [Account -> 0..MaxJoins]
  BY <1>2, <1>3, FreshIsMember
<1> DEFINE t == NewRoom(d, m, epoch, tracks)
<1> HIDE DEF a, m
<1>5. /\ IsRoom(t) /\ t.host = m /\ t.expired = FALSE /\ t.transfer = None
      /\ MembersOf(t) = {m} /\ t.members[m] = NewMember(d)
  <2> DEFINE made == [x \in {m} |-> NewMember(d)]
  <2>1. /\ DOMAIN t = RoomFields /\ t.host = m /\ t.expired = FALSE /\ t.transfer = None
        /\ t.members = made
    BY DEF NewRoom, RoomFields
  <2> HIDE DEF t
  <2>2. MembersOf(t) = {m} /\ t.members[m] = NewMember(d)
    BY <2>1 DEF MembersOf
  <2>3. IsMember(NewMember(d))
    BY DEF NewMember, IsMember, MemberFields
  <2> QED
    BY <2>1, <2>2, <2>3 DEF IsRoom
<1> HIDE DEF t
<1>6. rooms' = [q \in Room |-> rooms'[q]] /\ \A q \in Room : rooms'[q] = IF q = r THEN t ELSE rooms[q]
  BY <1>1 DEF IInv, Rows, t
<1>7. ~Open(rooms[r]) /\ ~Safe(rooms[r]) /\ Open(t)
  BY <1>2, <1>3, <1>5, RoomIsOpen DEF Open, Safe
<1>8. Sound(t, sessions')
  <2>1. NewMember(d).dev = d /\ NewMember(d).present = FALSE
    BY DEF NewMember
  <2>2. OfferCurrent(t) /\ Roster(t) /\ Controllers(t, sessions')
    BY <1>4, <1>5, <2>1 DEF OfferCurrent, Roster, Controllers, a
  <2> QED
    BY <1>5, <2>2 DEF Sound
<1>9. Documents'
  BY <1>2, <1>6, <1>8 DEF IInv, Documents
<1>10. slots' \in [Account -> [room : Room, member : Member] \cup {None}] /\ SlotsAgree'
  <2>1. \A n : n \in MembersOf(rooms'[r]) <=> n = m \/ (Safe(rooms[r]) /\ n \in MembersOf(rooms[r]))
    BY <1>5, <1>6, <1>7
  <2>2. (\A q \in Room \ {r} : rooms'[q] = rooms[q]) /\ Open(rooms'[r]) /\ (Open(rooms[r]) => Safe(rooms[r]))
    BY <1>6, <1>7
  <2>3. /\ a \in Account /\ SlotWillClear(a) /\ m \in Member /\ m[1] = a
        /\ slots' = [slots EXCEPT ![a] = [room |-> r, member |-> m]]
    BY <1>2, <1>3, <1>4
  <2> QED
    BY <1>3, <2>1, <2>2, <2>3, AdmittedSlots
<1>11. Rows' /\ Graph'
  BY <1>2, <1>4, <1>6, <1>10 DEF IInv, Rows, Graph
<1>12. NoBlockInside'
  <2>1. ~Blocked(a, a)
    BY <1>3 DEF IInv, Graph, Blocked
  <2> QED
    BY <1>2, <1>4, <1>5, <1>6, <2>1 DEF IInv, NoBlockInside, OpenRooms, Blocked
<1>13. InvitationsAreCurrent'
  BY <1>2, <1>6, <1>7 DEF IInv, InvitationsAreCurrent, Friends
<1>14. HostConsented
  BY <1>6, <1>7 DEF HostConsented
<1> QED
  BY <1>9, <1>10, <1>11, <1>12, <1>13, <1>14 DEF Good, IInv

LEMMA AcceptStep == ASSUME Assumptions, IInv, NEW d \in Device, NEW r \in Room, Accept(d, r) PROVE Good
<1> DEFINE a == AccountOf[d]
           m == Fresh(a)
           s == rooms[r]
           members == [x \in DOMAIN s.members \cup {m} |-> IF x = m THEN NewMember(d) ELSE s.members[x]]
           u == [s EXCEPT !.members = members]
           t == Persist(u)
<1>1. /\ rooms' = [rooms EXCEPT ![r] = t] /\ Safe(s) /\ NoBlocks(a, s)
      /\ a \in active /\ joins[a] < MaxJoins /\ SlotWillClear(a)
      /\ slots' = [slots EXCEPT ![a] = [room |-> r, member |-> m]]
      /\ invitations' = [invitations EXCEPT ![<<r, a>>] = None]
      /\ joins' = [joins EXCEPT ![a] = @ + 1]
      /\ UNCHANGED <<friends, blocks, active, sessions>>
  BY DEF Accept, Acting, Invited, social, world, Write
<1>2. a \in Account /\ NullAssumption /\ RoomsAssumption
  BY DEF Assumptions, RoomsAssumption
<1>3. m \in Member /\ m[1] = a /\ joins' \in [Account -> 0..MaxJoins]
  BY <1>1, <1>2, FreshIsMember
<1>4. Open(s) /\ IsRoom(s) /\ OfferCurrent(s) /\ Roster(s) /\ Controllers(s, sessions) /\ ~HasAccount(s, a)
  BY <1>1, <1>2, OpenIsSound, SlotClear DEF Safe, Sound
<1> HIDE DEF a, m
<1>5. /\ DOMAIN members = MembersOf(s) \cup {m} /\ members[m] = NewMember(d)
      /\ \A x \in MembersOf(s) : members[x] = s.members[x]
  BY <1>3, <1>4 DEF MembersOf, HasAccount
<1> HIDE DEF members
<1>6. /\ DOMAIN u = RoomFields /\ u.host = s.host /\ u.expired = s.expired /\ u.transfer = s.transfer
      /\ u.controlGen = s.controlGen /\ u.members = members
  BY <1>4 DEF IsRoom, RoomFields
<1> HIDE DEF u
<1>7. SameRoles(u, t)
  BY <1>6 DEF Persist, SameRoles, RoomFields
<1> HIDE DEF t
<1>8. /\ DOMAIN t = RoomFields /\ t.host = s.host /\ t.expired = s.expired /\ t.transfer = s.transfer
      /\ t.controlGen = s.controlGen /\ t.members = members /\ MembersOf(t) = MembersOf(s) \cup {m}
  BY <1>5, <1>6, <1>7 DEF SameRoles, MembersOf
<1>9. /\ IsMember(NewMember(d)) /\ NewMember(d).dev = d /\ NewMember(d).present = FALSE
  BY DEF NewMember, IsMember, MemberFields
<1>10. IsRoom(t)
  BY <1>4, <1>5, <1>8, <1>9 DEF IsRoom
<1>11. m \notin MembersOf(s) /\ \A n \in MembersOf(s) : n[1] # a
  BY <1>3, <1>4 DEF HasAccount
<1>12. OfferCurrent(t) /\ Roster(t)
  BY <1>3, <1>4, <1>5, <1>8, <1>11 DEF OfferCurrent, Roster
<1>13. Controllers(t, sessions')
  BY <1>1, <1>3, <1>4, <1>5, <1>8, <1>9, <1>11 DEF Controllers, a
<1>14. rooms' = [q \in Room |-> rooms'[q]] /\ \A q \in Room : rooms'[q] = IF q = r THEN t ELSE rooms[q]
  BY <1>1 DEF IInv, Rows
<1>15. Open(t)
  BY <1>2, <1>10, RoomIsOpen
<1>16. Documents'
  BY <1>1, <1>10, <1>12, <1>13, <1>14 DEF IInv, Documents, Sound
<1>17. slots' \in [Account -> [room : Room, member : Member] \cup {None}] /\ SlotsAgree'
  <2>1. \A n : n \in MembersOf(rooms'[r]) <=> n = m \/ (Safe(rooms[r]) /\ n \in MembersOf(rooms[r]))
    BY <1>1, <1>8, <1>14
  <2> QED
    BY <1>1, <1>2, <1>3, <1>14, <1>15, <2>1, AdmittedSlots
<1>18. /\ invitations' \in [Room \X Account -> [from : Account, lapsed : BOOLEAN] \cup {None}]
       /\ \A q \in Room, b \in Account :
             invitations'[<<q, b>>] = IF q = r /\ b = a THEN None ELSE invitations[<<q, b>>]
  BY <1>1, <1>2 DEF IInv, Rows
<1>19. Rows' /\ Graph'
  BY <1>1, <1>3, <1>14, <1>17, <1>18 DEF IInv, Rows, Graph
<1>20. NoBlockInside'
  <2>1. ~Blocked(a, a)
    BY <1>2 DEF IInv, Graph, Blocked
  <2>2. \A n \in MembersOf(s) : ~Blocked(a, n[1]) /\ ~Blocked(n[1], a)
    BY <1>1 DEF NoBlocks, Blocked
  <2>3. \A x, y \in MembersOf(t) : ~Blocked(x[1], y[1])
    BY <1>3, <1>4, <1>8, <2>1, <2>2 DEF IInv, NoBlockInside, OpenRooms
  <2>4. \A x \in MembersOf(t) : x[1] \in active
    BY <1>1, <1>3, <1>4, <1>8 DEF IInv, NoBlockInside, OpenRooms
  <2> QED
    BY <1>1, <1>14, <2>3, <2>4 DEF IInv, NoBlockInside, OpenRooms, Blocked
<1>21. InvitationsAreCurrent'
  <2> SUFFICES ASSUME NEW q \in Room, NEW b \in Account, invitations'[<<q, b>>] # None
               PROVE  /\ Open(rooms'[q])
                      /\ invitations'[<<q, b>>].from = rooms'[q].host[1]
                      /\ {b, invitations'[<<q, b>>].from} \in friends'
                      /\ Safe(rooms'[q]) => ~HasAccount(rooms'[q], b)
    BY DEF InvitationsAreCurrent, Friends
  <2>1. ~(q = r /\ b = a) /\ invitations'[<<q, b>>] = invitations[<<q, b>>]
    BY <1>18
  <2>2. /\ Open(rooms[q]) /\ invitations[<<q, b>>].from = rooms[q].host[1]
        /\ {b, invitations[<<q, b>>].from} \in friends
        /\ Safe(rooms[q]) => ~HasAccount(rooms[q], b)
    BY <2>1 DEF IInv, InvitationsAreCurrent, Friends
  <2>3. UNCHANGED friends
    BY <1>1
  <2>4. ASSUME q = r
        PROVE  Open(rooms'[q]) /\ rooms'[q].host = rooms[q].host /\ ~HasAccount(rooms'[q], b)
    <3>1. rooms'[q] = t /\ b # a /\ ~HasAccount(s, b)
      BY <1>1, <1>14, <2>1, <2>2, <2>4
    <3> QED
      BY <1>3, <1>8, <1>15, <2>4, <3>1 DEF HasAccount
  <2>5. ASSUME q # r PROVE rooms'[q] = rooms[q]
    BY <1>14, <2>5
  <2> QED
    BY <2>1, <2>2, <2>3, <2>4, <2>5
<1>22. HostConsented
  BY <1>8, <1>14 DEF HostConsented
<1> QED
  BY <1>16, <1>17, <1>19, <1>20, <1>21, <1>22 DEF Good, IInv

(* The new host is another member; the old one leaves, its slot freed and  *)
(* its invitations withdrawn.                                              *)
LEMMA HandedOver ==
    ASSUME NEW s, NEW m \in MembersOf(s), NEW live, Sound(s, live), m # s.host, NEW handed,
           DOMAIN handed = RoomFields, handed.host = m, handed.expired = s.expired,
           handed.transfer = None, handed.members = s.members,
           NEW stopped, stopped \in {handed, PauseRoom(handed)},
           NEW t, t = WithoutMember(stopped, s.host)
    PROVE  /\ Sound(t, live) /\ t.host = m /\ t.expired = s.expired
           /\ MembersOf(t) = MembersOf(s) \ {s.host}
<1>1. IsRoom(s) /\ Roster(s) /\ Controllers(s, live)
  BY DEF Sound
<1>2. SameRoles(handed, stopped)
  <2>1. SameRoles(handed, PauseRoom(handed))
    BY DEF PauseRoom, SameRoles, RoomFields
  <2> QED
    BY <2>1 DEF SameRoles
<1>3. /\ DOMAIN stopped = RoomFields /\ stopped.host = m /\ stopped.expired = s.expired
      /\ stopped.transfer = None /\ stopped.members = s.members /\ MembersOf(stopped) = MembersOf(s)
  BY <1>2 DEF SameRoles, MembersOf
<1>4. IsRoom(stopped) /\ OfferCurrent(stopped)
  BY <1>1, <1>3 DEF IsRoom, OfferCurrent
<1>5. /\ IsRoom(t) /\ t.host = m /\ t.expired = s.expired
      /\ MembersOf(t) = MembersOf(s) \ {s.host}
      /\ \A x \in MembersOf(t) : t.members[x] = s.members[x]
  BY <1>3, <1>4, WithoutMemberFacts
<1>6. OfferCurrent(t)
  BY <1>4, WithoutMemberOffer
<1>7. Roster(t) /\ Controllers(t, live)
  BY <1>1, <1>5 DEF Roster, Controllers
<1> QED
  BY <1>5, <1>6, <1>7 DEF Sound

LEMMA AcceptTransferStep ==
    ASSUME NullAssumption, IInv, NEW d, NEW r \in Room, NEW m, AcceptTransfer(d, r, m)
    PROVE  Good
<1> DEFINE s == rooms[r]
           handed == [s EXCEPT !.host = m, !.controlGen = @ + 1, !.transfer = None, !.absent = None]
           stopped == IF s.prep # None THEN PauseRoom(handed) ELSE handed
           t == WithoutMember(stopped, s.host)
           left == [room |-> r, member |-> s.host]
<1>1. /\ Safe(s) /\ m \in MembersOf(s) /\ Consent(s, m) /\ rooms' = [rooms EXCEPT ![r] = t]
      /\ slots' = [a \in Account |-> IF slots[a] = left THEN None ELSE slots[a]]
      /\ invitations' = [x \in Room \X Account |->
                            IF x \in SentBy(r, s.host[1]) THEN None ELSE invitations[x]]
      /\ UNCHANGED <<friends, blocks, active, sessions, joins>>
  BY DEF AcceptTransfer, Addressed, Write, social, world
<1>2. Open(s) /\ Sound(s, sessions) /\ Roster(s)
  BY <1>1, OpenIsSound DEF Safe, Sound
<1>3. m # s.host
  BY <1>1, <1>2 DEF Consent, Sound, OfferCurrent
<1>4. /\ DOMAIN handed = RoomFields /\ handed.host = m /\ handed.expired = s.expired
      /\ handed.transfer = None /\ handed.members = s.members
      /\ stopped \in {handed, PauseRoom(handed)} /\ t = WithoutMember(stopped, s.host)
  BY <1>2 DEF Sound, IsRoom, RoomFields
<1> HIDE DEF handed, stopped, t
<1>5. /\ Sound(t, sessions) /\ t.host = m /\ t.expired = s.expired
      /\ MembersOf(t) = MembersOf(s) \ {s.host}
  <2>1. m \in MembersOf(s) /\ Sound(s, sessions) /\ m # s.host
    BY <1>1, <1>2, <1>3
  <2> HIDE DEF s
  <2>2. \A x \in MembersOf(s) : \A h, u, v :
           /\ Sound(s, sessions) /\ x # s.host
           /\ DOMAIN h = RoomFields /\ h.host = x /\ h.expired = s.expired
           /\ h.transfer = None /\ h.members = s.members
           /\ u \in {h, PauseRoom(h)} /\ v = WithoutMember(u, s.host)
           => Sound(v, sessions) /\ v.host = x /\ v.expired = s.expired /\ MembersOf(v) = MembersOf(s) \ {s.host}
    BY HandedOver
  <2> QED
    BY <1>4, <2>1, <2>2
<1>6. rooms' = [q \in Room |-> rooms'[q]] /\ \A q \in Room : rooms'[q] = IF q = r THEN t ELSE rooms[q]
  BY <1>1 DEF IInv, Rows
<1>7. Open(t) /\ Safe(t)
  BY <1>1, <1>5, RoomIsOpen DEF Sound, Safe
<1>8. Documents'
  BY <1>1, <1>5, <1>6 DEF IInv, Documents
<1>9. ASSUME NEW q \in Room, NEW a \in Account
      PROVE  /\ invitations'[<<q, a>>] \in {invitations[<<q, a>>], None}
             /\ q = r => invitations'[<<q, a>>] = None
  <2>1. invitations'[<<q, a>>] = IF <<q, a>> \in SentBy(r, s.host[1]) THEN None ELSE invitations[<<q, a>>]
    BY <1>1
  <2>2. q = r /\ invitations[<<q, a>>] # None => <<q, a>> \in SentBy(r, s.host[1])
    BY DEF IInv, InvitationsAreCurrent, SentBy
  <2> QED
    BY <2>1, <2>2
<1>10. Rows' /\ Graph'
  <2>1. slots' \in [Account -> [room : Room, member : Member] \cup {None}]
    BY <1>1 DEF IInv, Rows
  <2>2. invitations' \in [Room \X Account -> [from : Account, lapsed : BOOLEAN] \cup {None}]
    BY <1>1 DEF IInv, Rows
  <2> QED
    BY <1>1, <1>6, <2>1, <2>2 DEF IInv, Rows, Graph
<1>11. SlotsAgree'
  <2>1. ASSUME NEW a \in Account, slots'[a] # None
        PROVE  /\ Open(rooms'[slots'[a].room])
               /\ slots'[a].member \in MembersOf(rooms'[slots'[a].room]) /\ slots'[a].member[1] = a
    <3>1. slots'[a] = slots[a] /\ slots[a] # None /\ slots[a] # left
      BY <1>1, <2>1
    <3>2. /\ slots[a] \in [room : Room, member : Member] /\ Open(rooms[slots[a].room])
          /\ slots[a].member \in MembersOf(rooms[slots[a].room]) /\ slots[a].member[1] = a
      BY <3>1 DEF IInv, Rows, SlotsAgree
    <3>3. slots[a].room # r \/ slots[a].member # s.host
      BY <3>1, <3>2
    <3> QED
      BY <1>5, <1>6, <1>7, <3>1, <3>2, <3>3
  <2>2. ASSUME NEW q \in Room, Safe(rooms'[q]), NEW n \in MembersOf(rooms'[q])
        PROVE  slots'[n[1]] = [room |-> q, member |-> n]
    <3>1. Safe(rooms[q]) /\ n \in MembersOf(rooms[q]) /\ (q = r => n # s.host)
      BY <1>1, <1>5, <1>6, <2>2
    <3>2. slots[n[1]] = [room |-> q, member |-> n]
      BY <3>1 DEF IInv, SlotsAgree
    <3>3. n[1] \in Account
      BY <3>1, OpenIsSound DEF Safe, Sound, Roster, Member
    <3>4. [room |-> q, member |-> n] # left
      BY <3>1
    <3> QED
      BY <1>1, <3>2, <3>3, <3>4
  <2> QED
    BY <2>1, <2>2 DEF SlotsAgree
<1>12. NoBlockInside'
  BY <1>1, <1>2, <1>5, <1>6 DEF IInv, NoBlockInside, OpenRooms, Blocked
<1>13. InvitationsAreCurrent'
  <2> SUFFICES ASSUME NEW q \in Room, NEW a \in Account, invitations'[<<q, a>>] # None
               PROVE  /\ Open(rooms'[q])
                      /\ invitations'[<<q, a>>].from = rooms'[q].host[1]
                      /\ {a, invitations'[<<q, a>>].from} \in friends'
                      /\ Safe(rooms'[q]) => ~HasAccount(rooms'[q], a)
    BY DEF InvitationsAreCurrent, Friends
  <2>1. q # r /\ invitations'[<<q, a>>] = invitations[<<q, a>>]
    BY <1>9
  <2>2. rooms'[q] = rooms[q] /\ UNCHANGED friends
    BY <1>1, <1>6, <2>1
  <2> QED
    BY <2>1, <2>2 DEF IInv, InvitationsAreCurrent, Friends
<1>14. HostConsented
  <2> SUFFICES ASSUME NEW q \in Room, Open(rooms[q]), Open(rooms'[q]), rooms'[q].host # rooms[q].host
               PROVE  /\ rooms[q].transfer # None /\ rooms[q].transfer.left > 0
                      /\ rooms[q].transfer.target = rooms'[q].host
                      /\ Connected(rooms[q].members[rooms'[q].host]) /\ HostPresent(rooms[q])
                      /\ rooms[q].host \notin MembersOf(rooms'[q])
                      /\ slots'[rooms[q].host[1]] = None
    BY DEF HostConsented
  <2>1. q = r /\ rooms'[q] = t
    BY <1>6
  <2>2. slots[s.host[1]] = left /\ s.host[1] \in Account
    BY <1>1, <1>2 DEF IInv, SlotsAgree, Roster, Member
  <2> QED
    BY <1>1, <1>5, <2>1, <2>2 DEF Consent
<1> QED
  BY <1>8, <1>10, <1>11, <1>12, <1>13, <1>14 DEF Good, IInv

-----------------------------------------------------------------------------
LEMMA InitIInv == ASSUME Assumptions, Init PROVE IInv
<1>1. \A r \in Room : ~Open(rooms[r])
  BY DEF Init, Open
<1>2. 0 \in 0..MaxJoins
  BY DEF Assumptions, RoomsAssumption
<1>3. Rows
  BY <1>2 DEF Init, Rows
<1>4. Graph /\ Documents /\ NoBlockInside
  BY <1>1 DEF Init, Graph, Documents, NoBlockInside, OpenRooms
<1>5. SlotsAgree /\ InvitationsAreCurrent
  BY <1>1 DEF Init, SlotsAgree, InvitationsAreCurrent, Safe
<1> QED
  BY <1>3, <1>4, <1>5 DEF IInv

LEMMA DeviceIsGood == ASSUME Assumptions, IInv, NEW d \in Device, NEW r \in Room, DeviceStep(d, r) PROVE Good
<1>1. NullAssumption
  BY DEF Assumptions
<1>2. CASE Admission(d, r)
  BY <1>1, <1>2, CreateStep, AcceptStep, DeclineStep DEF Admission
<1>3. CASE Disconnected(d, r)
  BY <1>1, <1>3, DisconnectedStep
<1>4. ASSUME Open(rooms[r]), NEW m \in MembersOf(rooms[r]), Membership(d, r, m) PROVE Good
  BY <1>1, <1>4, LeaveStep, EndStep, KickStep, InviteStep DEF Membership
<1>5. ASSUME Open(rooms[r]), NEW m \in MembersOf(rooms[r]), Control(d, r, m) PROVE Good
  BY <1>1, <1>5, TakeControlStep, CancelTransferStep, AcceptTransferStep, SetControlModeStep,
     OfferTransferStep DEF Control
<1>6. ASSUME Open(rooms[r]), NEW m \in MembersOf(rooms[r]), Report(d, r, m) PROVE Good
  BY <1>1, <1>6, HeartbeatStep, ReadyStep DEF Report
<1> QED
  BY <1>1, <1>2, <1>3, <1>4, <1>5, <1>6, QueueCommandStep, TransportCommandStep DEF DeviceStep, Own

LEMMA RoomIsGood == ASSUME Assumptions, IInv, NEW r \in Room, RoomStep(r) PROVE Good
<1>1. NullAssumption
  BY DEF Assumptions
<1>2. Observe(r) => Good
  BY <1>1, AsideStep DEF Observe, world
<1> QED
  BY <1>1, <1>2, ExpireRoomStep, ExpireInvitationStep, SweepStep DEF RoomStep

LEMMA AccountIsGood == ASSUME Assumptions, IInv, NEW a \in Account, AccountStep(a) PROVE Good
<1>1. NullAssumption
  BY DEF Assumptions
<1> QED
  BY <1>1, DeactivateStep, ReactivateStep, LogoutAllStep, BlockStep, UnblockStep, BefriendStep, UnfriendStep
     DEF AccountStep

LEMMA WorldIsGood == ASSUME Assumptions, IInv, WorldStep PROVE Good
<1>1. NullAssumption
  BY DEF Assumptions
<1>2. NewEpoch => Good
  BY <1>1, AsideStep DEF NewEpoch
<1>3. SetEnabled => Good
  BY <1>1, AsideStep DEF SetEnabled
<1>4. ASSUME NEW t, WithdrawMedia(t) PROVE Good
  BY <1>1, <1>4, AsideStep DEF WithdrawMedia
<1> QED
  BY <1>1, <1>2, <1>3, <1>4, TickStep, RevokeSessionStep, SignInStep, ReplaceMediaStep DEF WorldStep

LEMMA StutterIsGood == ASSUME Assumptions, IInv, UNCHANGED vars PROVE Good
BY AsideStep DEF Assumptions, vars, social, world

LEMMA NextIsGood == ASSUME Assumptions, IInv, [Next]_vars PROVE Good
BY DeviceIsGood, RoomIsGood, AccountIsGood, WorldIsGood, StutterIsGood DEF Next

(* The invariant of the room transactions: it holds initially, and every   *)
(* transaction, of whichever account, device, room or session, keeps it.   *)
THEOREM RoomsInductive == ASSUME Assumptions PROVE Spec => []IInv
<1>1. Init => IInv
  BY InitIInv
<1>2. IInv /\ [Next]_vars => IInv'
  BY NextIsGood DEF Good
<1> QED
  BY <1>1, <1>2, PTL DEF Spec

(* roomMembershipService.ts: the participation row of an account and the   *)
(* members of the rooms agree, whatever the order of admissions, expiry,   *)
(* transfers, blocks and the sweep; nobody is in two rooms at once.        *)
THEOREM ParticipationAgrees == ASSUME Assumptions PROVE Spec => []SlotsAgree
<1>1. IInv => SlotsAgree
  BY DEF IInv
<1> QED
  BY <1>1, RoomsInductive, PTL

(* Acceptance of a transfer cannot meet a stale offer, and a revoked       *)
(* session controls no attached device.                                    *)
LEMMA NoStaleOffer == ASSUME IInv PROVE OffersAreCurrent
<1> SUFFICES ASSUME NEW r \in Room, Open(rooms[r])
             PROVE  /\ OfferCurrent(rooms[r])
                    /\ \A m \in MembersOf(rooms[r]) :
                          rooms[r].members[m].present => SignedIn(rooms[r].members[m].dev)
  BY DEF OffersAreCurrent, OpenRooms, OfferCurrent
<1> QED
  BY OpenIsSound DEF Sound, Controllers, SignedIn

(* applyRoomSafety: nobody shares a room with an account that blocks them, *)
(* a deactivated account is in no room, a pending invitation is the        *)
(* current host's to a friend outside, and no offer of a transfer is       *)
(* stale.                                                                  *)
THEOREM NobodyMeetsABlock == ASSUME Assumptions PROVE Spec => []RoomsAreSafe
<1>1. IInv => RoomsAreSafe
  BY NoStaleOffer DEF IInv, RoomsAreSafe
<1> QED
  BY <1>1, RoomsInductive, PTL

(* acceptTransfer is the only way to a new host: a connected target takes  *)
(* the offer of a connected host, who leaves in the same transaction.      *)
THEOREM HostChangesByConsent == ASSUME Assumptions PROVE Spec => HostOnlyByConsent
<1>1. IInv /\ [Next]_vars => [HostConsented]_vars
  BY NextIsGood DEF Good
<1> QED
  BY <1>1, RoomsInductive, PTL DEF Spec, HostOnlyByConsent

-----------------------------------------------------------------------------
(***************************************************************************)
(* Who is ready: for every room, device and order of reports, heartbeats,  *)
(* disconnections, takeovers, sweeps and the end of sessions, a member     *)
(* that counts as ready said so last, while attached and not locally       *)
(* paused.                                                                 *)
(***************************************************************************)
(* What a member's record says of its readiness, and a document of all.    *)
Honest(member) == member.ready # 0 => member.present /\ ~member.muted /\ member.ready = member.reportGen
Attending(s) == IsRoom(s) /\ \A m \in MembersOf(s) : Honest(s.members[m])

(* The documents of all open rooms.                                        *)
Readiness == \A r \in Room : Open(rooms[r]) => Attending(rooms[r])

-----------------------------------------------------------------------------
(* The functions of the document: most leave the members as they are.      *)
LEMMA SameMembers ==
    ASSUME NEW s, NEW t, Attending(s), IsRoom(t), t.members = s.members
    PROVE  Attending(t)
BY DEF Attending, MembersOf

LEMMA RolesAttending == ASSUME NEW s, NEW t, Attending(s), SameRoles(s, t) PROVE Attending(t)
BY FramedFields, SameMembers DEF Attending, Framed, SameRoles

LEMMA PersistAttending == ASSUME NEW s, Attending(s) PROVE Attending(Persist(s))
<1>1. Persist(s).members = s.members
  BY DEF Attending, IsRoom, RoomFields, Persist
<1> QED
  BY <1>1, PersistFramed, SameMembers DEF Attending, Framed

LEMMA PauseAttending == ASSUME NEW s, Attending(s) PROVE Attending(PauseRoom(s))
<1>1. PauseRoom(s).members = s.members
  BY DEF Attending, IsRoom, RoomFields, PauseRoom
<1> QED
  BY <1>1, PauseFramed, SameMembers DEF Attending, Framed

LEMMA PrepareAttending == ASSUME NEW s, NEW id, NEW pos, Attending(s) PROVE Attending(Prepare(s, id, pos))
<1>1. Prepare(s, id, pos).members = s.members
  BY DEF Attending, IsRoom, RoomFields, Prepare
<1> QED
  BY <1>1, PrepareFramed, SameMembers DEF Attending, Framed

LEMMA FinishAttending == ASSUME NEW s, NEW on, Attending(s) PROVE Attending(FinishPreparation(s, on))
<1>1. FinishPreparation(s, on).members = s.members
  BY DEF Attending, IsRoom, RoomFields, FinishPreparation
<1> QED
  BY <1>1, FinishFramed, SameMembers DEF Attending, Framed

LEMMA AdoptAttending == ASSUME NEW s, Attending(s) PROVE Attending(Adopt(s))
<1> DEFINE t == [s EXCEPT !.epoch = epoch]
<1>1. SameRoles(s, t)
  BY DEF Attending, SameRoles, IsRoom, RoomFields
<1> HIDE DEF t
<1>2. Attending(PauseRoom(t))
  BY <1>1, RolesAttending, PauseAttending
<1> QED
  BY <1>2 DEF Adopt, t

(* One member's record is rewritten.                                       *)
LEMMA OneRewritten ==
    ASSUME NEW s, NEW t, NEW m \in MembersOf(s), NEW member, Attending(s), IsRoom(t),
           t.members = [s.members EXCEPT ![m] = member], Honest(member)
    PROVE  Attending(t)
BY DEF Attending, MembersOf

(* takeControl: another device's readiness is not inherited.               *)
LEMMA TakenOverAttending ==
    ASSUME NEW s, NEW m \in MembersOf(s), NEW d, Attending(s)
    PROVE  Attending(TakenOver(s, m, d))
<1> DEFINE member == [NewMember(d) EXCEPT !.gen = s.members[m].gen + 1]
           absent == IF s.host = m THEN 0 ELSE s.absent
           t == [s EXCEPT !.members[m] = member, !.transfer = None, !.absent = absent]
<1>0. TakenOver(s, m, d) = t
  BY DEF TakenOver
<1>1. IsMember(member) /\ Honest(member)
  BY DEF NewMember, IsMember, MemberFields, Honest
<1> HIDE DEF member, absent
<1>2. DOMAIN t = RoomFields /\ t.transfer = None /\ t.members = [s.members EXCEPT ![m] = member]
  BY DEF Attending, IsRoom, RoomFields
<1> HIDE DEF t
<1>3. IsRoom(t)
  BY <1>1, <1>2 DEF Attending, IsRoom, MembersOf
<1> QED
  BY <1>0, <1>1, <1>2, <1>3, OneRewritten

(* A heartbeat attaches, and withdraws readiness with a local pause.       *)
LEMMA BeatenAttending ==
    ASSUME NEW s, NEW m \in MembersOf(s), NEW muted \in BOOLEAN, Attending(s)
    PROVE  Attending(Beaten(s, m, muted))
<1> DEFINE member == [s.members[m] EXCEPT !.idle = 0, !.present = TRUE, !.muted = muted,
                                          !.ready = IF muted THEN 0 ELSE s.members[m].ready]
           absent == IF s.host = m THEN None ELSE s.absent
           t == [s EXCEPT !.members[m] = member, !.absent = absent]
<1>0. Beaten(s, m, muted) = t
  BY DEF Beaten
<1>1. /\ IsMember(member) /\ member.present = TRUE /\ member.muted = muted
      /\ member.ready = (IF muted THEN 0 ELSE s.members[m].ready)
      /\ member.reportGen = s.members[m].reportGen
  BY DEF Attending, IsRoom, IsMember, MemberFields
<1> HIDE DEF member, absent
<1>2. Honest(member)
  BY <1>1 DEF Attending, Honest
<1>3. DOMAIN t = RoomFields /\ t.transfer = s.transfer /\ t.members = [s.members EXCEPT ![m] = member]
  BY DEF Attending, IsRoom, RoomFields
<1> HIDE DEF t
<1>4. IsRoom(t)
  BY <1>1, <1>3 DEF Attending, IsRoom, MembersOf
<1> QED
  BY <1>0, <1>2, <1>3, <1>4, OneRewritten

(* A readiness report is admitted only of an attached, unmuted device.     *)
LEMMA ReportedAttending ==
    ASSUME NEW s, NEW m \in MembersOf(s), NEW seq, NEW ready, Attending(s),
           s.members[m].present, ~s.members[m].muted
    PROVE  Attending(Reported(s, m, seq, ready))
<1> DEFINE member == [s.members[m] EXCEPT !.reportGen = s.playGen, !.reportSeq = seq,
                                          !.ready = IF ready THEN s.playGen ELSE 0]
           t == [s EXCEPT !.members[m] = member]
<1>0. Reported(s, m, seq, ready) = t
  BY DEF Reported
<1>1. /\ member.present = s.members[m].present /\ member.muted = s.members[m].muted
      /\ member.reportGen = s.playGen /\ member.ready = (IF ready THEN s.playGen ELSE 0)
  BY DEF Attending, IsRoom, IsMember, MemberFields
<1> HIDE DEF member
<1>2. Honest(member)
  BY <1>1 DEF Honest
<1>3. t.members = [s.members EXCEPT ![m] = member]
  BY DEF Attending, IsRoom, RoomFields
<1> HIDE DEF t
<1>4. IsRoom(t)
  BY <1>0, ReportedFramed DEF Attending, Framed
<1> QED
  BY <1>0, <1>2, <1>3, <1>4, OneRewritten

LEMMA DetachedAttending ==
    ASSUME NEW s, NEW m \in MembersOf(s), Attending(s)
    PROVE  Attending(Detached(s, m))
<1> DEFINE member == [s.members[m] EXCEPT !.present = FALSE, !.ready = 0]
           t == Detached(s, m)
<1>1. IsRoom(t)
  BY DetachedFramed DEF Attending, Framed
<1>2. t.members = [s.members EXCEPT ![m] = member]
  BY DEF Attending, Detached, IsRoom, RoomFields, MemberFields, MembersOf
<1>3. Honest(member)
  BY DEF Attending, IsRoom, IsMember, MemberFields, Honest
<1> HIDE DEF t, member
<1>4. Attending(t)
  BY <1>1, <1>2, <1>3, OneRewritten
<1> QED
  BY <1>4 DEF t

LEMMA PresenceAttending == ASSUME NEW s, Attending(s) PROVE Attending(SweptPresence(s))
<1> DEFINE members == [m \in DOMAIN s.members |->
               IF Lost(s.members[m]) THEN [s.members[m] EXCEPT !.present = FALSE, !.ready = 0] ELSE s.members[m]]
           t == [s EXCEPT !.members = members]
<1>0. SweptPresence(s) = t
  BY DEF SweptPresence
<1>1. \A m \in MembersOf(s) : Honest(members[m])
  BY DEF Attending, MembersOf, IsRoom, IsMember, MemberFields, Honest
<1>2. DOMAIN members = MembersOf(s)
  BY DEF MembersOf
<1> HIDE DEF members
<1>3. t.members = members
  BY DEF Attending, IsRoom, RoomFields
<1> HIDE DEF t
<1>4. IsRoom(t)
  BY <1>0, SweptPresenceFramed DEF Attending, Framed
<1> QED
  BY <1>0, <1>1, <1>2, <1>3, <1>4 DEF Attending, MembersOf

LEMMA AgedAttending == ASSUME NEW s, Attending(s) PROVE Attending(Aged(s))
<1> DEFINE members == [m \in DOMAIN s.members |-> [s.members[m] EXCEPT !.idle = Later(s.members[m].idle)]]
           t == Aged(s)
<1>1. t.members = members
  BY DEF Attending, Aged, IsRoom, RoomFields
<1>2. IsRoom(t)
  BY AgedFramed DEF Attending, Framed
<1> HIDE DEF t
<1>3. \A m \in MembersOf(s) : Honest(members[m])
  BY DEF Attending, MembersOf, IsRoom, IsMember, MemberFields, Honest
<1>4. DOMAIN members = MembersOf(s)
  BY DEF MembersOf
<1> HIDE DEF members
<1>5. Attending(t)
  BY <1>1, <1>2, <1>3, <1>4 DEF Attending, MembersOf
<1> QED
  BY <1>5 DEF t

LEMMA WithoutMemberAttending ==
    ASSUME NEW s, NEW m, Attending(s)
    PROVE  Attending(WithoutMember(s, m))
<1> DEFINE t == WithoutMember(s, m)
<1> HIDE DEF t
<1>1. IsRoom(t) /\ MembersOf(t) \subseteq MembersOf(s) /\ \A x \in MembersOf(t) : t.members[x] = s.members[x]
  BY WithoutMemberFacts DEF Attending, t
<1>2. Attending(t)
  BY <1>1 DEF Attending
<1> QED
  BY <1>2 DEF t

LEMMA WithoutMediaAttending == ASSUME NEW s, NEW t, Attending(s) PROVE Attending(WithoutMedia(s, t))
<1> DEFINE marked == [s EXCEPT
              !.requests = {q \in @ : q.track # t},
              !.queue = [i \in DOMAIN @ |-> IF @[i].track = t THEN [@[i] EXCEPT !.gone = TRUE] ELSE @[i]]]
           current == \E i \in DOMAIN s.queue : s.queue[i].track = t /\ s.queue[i].id = s.timeline.entry
           stopped == IF current THEN PauseRoom(marked) ELSE marked
           counted == IF Queued(s, t) THEN [stopped EXCEPT !.queueRev = @ + 1] ELSE stopped
<1>0. WithoutMedia(s, t) = Persist(counted)
  BY DEF WithoutMedia
<1>1. SameRoles(s, marked)
  BY DEF Attending, SameRoles, IsRoom, RoomFields
<1> HIDE DEF marked, current
<1>2. Attending(stopped)
  BY <1>1, RolesAttending, PauseAttending
<1> HIDE DEF stopped
<1>3. SameRoles(stopped, counted)
  BY <1>2 DEF Attending, SameRoles, IsRoom, RoomFields
<1> HIDE DEF counted
<1> QED
  BY <1>0, <1>2, <1>3, RolesAttending, PersistAttending

LEMMA SweptHostAttending == ASSUME NEW s, Attending(s) PROVE Attending(SweptHost(s))
<1> DEFINE noticed == [s EXCEPT !.absent = HostAbsence(s)]
           suspended == [noticed EXCEPT !.suspended = TRUE]
<1>1. SweptHost(s) \in {s, noticed, PauseRoom(suspended)}
  BY DEF SweptHost
<1>2. SameRoles(s, noticed) /\ SameRoles(s, suspended)
  BY DEF Attending, SameRoles, IsRoom, RoomFields
<1> HIDE DEF noticed, suspended
<1>3. Attending(noticed) /\ Attending(PauseRoom(suspended))
  BY <1>2, RolesAttending, PauseAttending
<1> QED
  BY <1>1, <1>3

LEMMA SweptOfferAttending == ASSUME NEW s, Attending(s) PROVE Attending(SweptOffer(s))
<1>1. SweptOffer(s).members = s.members
  BY DEF Attending, IsRoom, RoomFields, SweptOffer
<1> QED
  BY <1>1, SweptOfferFramed, SameMembers DEF Attending, Framed

LEMMA SweptQueueAttending == ASSUME NEW s, Attending(s) PROVE Attending(SweptQueue(s))
<1> DEFINE marked == [s EXCEPT !.queueRev = @ + 1,
                               !.queue = [i \in DOMAIN @ |->
                                  IF i \in LostMedia(s) THEN [@[i] EXCEPT !.gone = TRUE] ELSE @[i]]]
<1>1. SweptQueue(s) \in {s, marked, PauseRoom(marked)}
  BY DEF SweptQueue
<1>2. SameRoles(s, marked)
  BY DEF Attending, SameRoles, IsRoom, RoomFields
<1> HIDE DEF marked
<1> QED
  BY <1>1, <1>2, RolesAttending, PauseAttending

LEMMA AdvanceAttending == ASSUME NEW s, Attending(s) PROVE Attending(Advance(s))
<1> DEFINE paused == PauseRoom(s)
           ended == [paused EXCEPT !.timeline.state = "ended"]
           id == s.queue[IndexOf(s, s.timeline.entry) + 1].id
<1>1. Advance(s) \in {Prepare(s, id, 0), ended}
  BY DEF Advance
<1>2. Attending(paused)
  BY PauseAttending
<1> HIDE DEF paused, id
<1>3. SameRoles(paused, ended)
  BY <1>2 DEF Attending, SameRoles, IsRoom, RoomFields
<1> HIDE DEF ended
<1> QED
  BY <1>1, <1>2, <1>3, RolesAttending, PrepareAttending

LEMMA SweptAttending == ASSUME NEW s, Attending(s), NEW t \in Swept(s) PROVE Attending(t)
<1> DEFINE flagged == SweptFlag(Adopt(s))
           held == SweptOffer(SweptHost(SweptPresence(flagged)))
<1>0. t = SweptQueue(held)
  BY DEF Swept
<1>1. Attending(flagged)
  BY AdoptAttending, PauseAttending DEF SweptFlag
<1> HIDE DEF flagged
<1>2. Attending(held)
  BY <1>1, PresenceAttending, SweptHostAttending, SweptOfferAttending
<1> HIDE DEF held
<1> QED
  BY <1>0, <1>2, SweptQueueAttending

-----------------------------------------------------------------------------
(* The steps.  A step whose rooms' documents all attend keeps Readiness.   *)
LEMMA OneRoom ==
    ASSUME IInv, Readiness, NEW r \in Room, NEW s, rooms' = [rooms EXCEPT ![r] = s], Attending(s)
    PROVE  Readiness'
BY DEF IInv, Rows, Readiness

LEMMA ChangeReady ==
    ASSUME IInv, Readiness, NEW r \in Room, NEW s, Change(r, s), Attending(s)
    PROVE  Readiness'
BY PersistAttending, OneRoom DEF Change, Write

LEMMA QuietReady ==
    ASSUME IInv, Readiness, NEW r \in Room, Open(rooms[r]), NEW s, Quietly(r, s), Attending(s)
    PROVE  Readiness'
<1> DEFINE t == [rooms[r] EXCEPT !.members = s.members]
<1>1. rooms' = [rooms EXCEPT ![r] = t]
  BY DEF Quietly
<1>2. DOMAIN t = RoomFields /\ t.members = s.members /\ t.transfer = rooms[r].transfer
  BY OpenIsSound DEF IsRoom, RoomFields
<1> HIDE DEF t
<1>3. IsRoom(t)
  BY <1>2, OpenIsSound DEF Attending, IsRoom, MembersOf
<1> QED
  BY <1>1, <1>2, <1>3, SameMembers, OneRoom

(* Admission: a new member is not ready.                                   *)
LEMMA CreateReady == ASSUME IInv, Readiness, NEW d, NEW r \in Room, Create(d, r) PROVE Readiness'
<1> DEFINE m == Fresh(AccountOf[d])
<1>1. PICK tracks : rooms' = [rooms EXCEPT ![r] = NewRoom(d, m, epoch, tracks)]
  BY DEF Create, Write
<1> HIDE DEF m
<1> DEFINE t == NewRoom(d, m, epoch, tracks)
           made == [x \in {m} |-> NewMember(d)]
<1>2. DOMAIN t = RoomFields /\ t.transfer = None /\ t.members = made
  BY DEF NewRoom, RoomFields
<1>3. rooms' = [rooms EXCEPT ![r] = t]
  BY <1>1
<1> HIDE DEF t
<1>4. IsMember(NewMember(d)) /\ Honest(NewMember(d))
  BY DEF NewMember, IsMember, MemberFields, Honest
<1>5. Attending(t)
  BY <1>2, <1>4 DEF Attending, IsRoom, MembersOf
<1> QED
  BY <1>3, <1>5, OneRoom

LEMMA AcceptReady == ASSUME IInv, Readiness, NEW d, NEW r \in Room, Accept(d, r) PROVE Readiness'
<1> DEFINE m == Fresh(AccountOf[d])
           s == rooms[r]
           members == [x \in DOMAIN s.members \cup {m} |-> IF x = m THEN NewMember(d) ELSE s.members[x]]
           u == [s EXCEPT !.members = members]
<1>1. rooms' = [rooms EXCEPT ![r] = Persist(u)] /\ Open(s)
  BY DEF Accept, Invited, Write, Safe
<1>2. Attending(s)
  BY <1>1 DEF Readiness
<1> HIDE DEF m
<1>3. IsMember(NewMember(d)) /\ Honest(NewMember(d))
  BY DEF NewMember, IsMember, MemberFields, Honest
<1>4. DOMAIN members = MembersOf(s) \cup {m} /\ \A x \in DOMAIN members : IsMember(members[x]) /\ Honest(members[x])
  BY <1>2, <1>3 DEF Attending, IsRoom, MembersOf
<1> HIDE DEF members
<1>5. DOMAIN u = RoomFields /\ u.transfer = s.transfer /\ u.members = members
  BY <1>2 DEF Attending, IsRoom, RoomFields
<1> HIDE DEF u
<1>6. Attending(u)
  BY <1>2, <1>4, <1>5 DEF Attending, IsRoom, MembersOf
<1> QED
  BY <1>1, <1>6, PersistAttending, OneRoom

(* Memberships end: who stays is as ready as before.                       *)
LEMMA ExpelReady ==
    ASSUME NullAssumption, IInv, Readiness, NEW gone, Ends(gone), NEW drop, Expel(gone, drop)
    PROVE  Readiness'
<1> SUFFICES ASSUME NEW r \in Room, Open(rooms'[r]) PROVE Attending(rooms'[r])
  BY DEF Readiness
<1>1. Open(rooms[r]) /\ Remains(rooms[r], rooms'[r], GoneFrom(gone, r))
  BY ExpelFacts
<1> QED
  BY <1>1 DEF Readiness, Attending, Remains

LEMMA ExpelOneReady ==
    ASSUME NullAssumption, IInv, Readiness, NEW r \in Room, Open(rooms[r]), NEW m \in MembersOf(rooms[r]),
           Expel({<<r, m>>}, {})
    PROVE  Readiness'
<1> DEFINE gone == {<<r, m>>}
<1>1. m \in Member
  BY OpenIsSound DEF Sound, Roster
<1>2. Ends(gone) /\ Expel(gone, {})
  BY <1>1 DEF Ends
<1> HIDE DEF gone
<1> QED
  BY <1>2, ExpelReady

LEMMA MembershipReady ==
    ASSUME NullAssumption, IInv, Readiness, NEW d, NEW r \in Room, Open(rooms[r]), NEW m \in MembersOf(rooms[r]),
           Membership(d, r, m)
    PROVE  Readiness'
<1>1. ASSUME NEW b, Invite(d, r, m, b) PROVE Readiness'
  BY <1>1, PersistAttending, OneRoom DEF Invite, Write, Readiness
<1>2. CASE Leave(d, r, m) \/ End(d, r, m)
  BY <1>2, ExpelOneReady DEF Leave, End
<1>3. ASSUME NEW target, Kick(d, r, m, target) PROVE Readiness'
  BY <1>3, ExpelOneReady DEF Kick
<1> QED
  BY <1>1, <1>2, <1>3 DEF Membership

(* Control: only a takeover touches a member's record.                     *)
LEMMA ControlReady ==
    ASSUME IInv, Readiness, NEW d, NEW r \in Room, Open(rooms[r]), NEW m \in MembersOf(rooms[r]),
           Control(d, r, m)
    PROVE  Readiness'
<1> DEFINE s == rooms[r]
<1>1. Attending(s)
  BY DEF Readiness
<1>2. ASSUME NEW t, IsRoom(t), t.members = s.members, Change(r, t) PROVE Readiness'
  BY <1>1, <1>2, SameMembers, ChangeReady
<1>3. CASE TakeControl(d, r, m)
  <2> DEFINE taken == TakenOver(s, m, d)
             t == IF s.prep # None THEN PauseRoom(taken) ELSE taken
  <2>1. Change(r, t)
    BY <1>3 DEF TakeControl
  <2>2. Attending(taken)
    BY <1>1, TakenOverAttending
  <2> HIDE DEF taken
  <2>3. Attending(t)
    BY <2>2, PauseAttending
  <2> HIDE DEF t
  <2> QED
    BY <2>1, <2>3, ChangeReady
<1>4. CASE CancelTransfer(d, r, m)
  <2> DEFINE t == [s EXCEPT !.transfer = None]
  <2>1. Change(r, t)
    BY <1>4 DEF CancelTransfer
  <2>2. DOMAIN t = RoomFields /\ t.transfer = None /\ t.members = s.members
    BY <1>1 DEF Attending, IsRoom, RoomFields
  <2> HIDE DEF t
  <2>3. IsRoom(t)
    BY <1>1, <2>2 DEF Attending, IsRoom, MembersOf
  <2> QED
    BY <1>2, <2>1, <2>2, <2>3
<1>5. ASSUME NEW v, SetControlMode(d, r, m, v) PROVE Readiness'
  <2> DEFINE t == [s EXCEPT !.everyone = ~@, !.controlGen = @ + 1, !.transfer = None]
  <2>1. Change(r, t)
    BY <1>5 DEF SetControlMode
  <2>2. DOMAIN t = RoomFields /\ t.transfer = None /\ t.members = s.members
    BY <1>1 DEF Attending, IsRoom, RoomFields
  <2> HIDE DEF t
  <2>3. IsRoom(t)
    BY <1>1, <2>2 DEF Attending, IsRoom, MembersOf
  <2> QED
    BY <1>2, <2>1, <2>2, <2>3
<1>6. ASSUME NEW target, NEW v, OfferTransfer(d, r, m, target, v) PROVE Readiness'
  <2> DEFINE offer == [host |-> m, control |-> s.controlGen, target |-> target,
                       gen |-> s.members[target].gen, left |-> TransferTicks]
             t == [s EXCEPT !.transfer = offer]
  <2>1. Change(r, t)
    BY <1>6 DEF OfferTransfer
  <2>2. IsOffer(offer)
    BY DEF IsOffer, OfferFields
  <2> HIDE DEF offer
  <2>3. DOMAIN t = RoomFields /\ t.transfer = offer /\ t.members = s.members
    BY <1>1 DEF Attending, IsRoom, RoomFields
  <2> HIDE DEF t
  <2>4. IsRoom(t)
    BY <1>1, <2>2, <2>3 DEF Attending, IsRoom, MembersOf
  <2> QED
    BY <1>2, <2>1, <2>3, <2>4
<1>7. CASE AcceptTransfer(d, r, m)
  <2> DEFINE handed == [s EXCEPT !.host = m, !.controlGen = @ + 1, !.transfer = None, !.absent = None]
             stopped == IF s.prep # None THEN PauseRoom(handed) ELSE handed
             t == WithoutMember(stopped, s.host)
  <2>1. rooms' = [rooms EXCEPT ![r] = t]
    BY <1>7 DEF AcceptTransfer, Write
  <2>2. DOMAIN handed = RoomFields /\ handed.transfer = None /\ handed.members = s.members
    BY <1>1 DEF Attending, IsRoom, RoomFields
  <2> HIDE DEF handed
  <2>3. IsRoom(handed)
    BY <1>1, <2>2 DEF Attending, IsRoom, MembersOf
  <2>4. Attending(handed)
    BY <1>1, <2>2, <2>3, SameMembers
  <2>5. Attending(stopped)
    BY <2>4, PauseAttending
  <2> HIDE DEF stopped
  <2>6. Attending(t)
    BY <2>5, WithoutMemberAttending
  <2> HIDE DEF t
  <2> QED
    BY <2>1, <2>6, OneRoom
<1> QED
  BY <1>3, <1>4, <1>5, <1>6, <1>7 DEF Control

LEMMA CommandReady ==
    ASSUME IInv, Readiness, NEW d, NEW r \in Room, Open(rooms[r]), NEW m,
           QueueCommand(d, r, m) \/ TransportCommand(d, r, m)
    PROVE  Readiness'
<1> DEFINE s == rooms[r]
<1>0. Attending(s) /\ DOMAIN s = RoomFields
  BY DEF Readiness, Attending, IsRoom
<1>1. ASSUME NEW t, SameRoles(s, t), Change(r, t) PROVE Readiness'
  BY <1>0, <1>1, RolesAttending, ChangeReady
<1>2. ASSUME NEW q, DismissSongRequest(d, r, m, q) PROVE Readiness'
  <2> DEFINE t == [s EXCEPT !.requests = @ \ {q}]
  <2>1. SameRoles(s, t) /\ Change(r, t)
    BY <1>0, <1>2 DEF DismissSongRequest, SameRoles, RoomFields
  <2> HIDE DEF t
  <2> QED
    BY <1>1, <2>1
<1>3. ASSUME NEW t, NEW v, RequestSong(d, r, m, t, v) PROVE Readiness'
  <2> DEFINE u == [s EXCEPT !.requests = @ \cup {[by |-> m, track |-> t, media |-> media[t].revision]}]
  <2>1. SameRoles(s, u) /\ Change(r, u)
    BY <1>0, <1>3 DEF RequestSong, SameRoles, RoomFields
  <2> HIDE DEF u
  <2> QED
    BY <1>1, <2>1
<1>4. ASSUME NEW queue PROVE SameRoles(s, Requeued(s, queue)) /\ DOMAIN Requeued(s, queue) = RoomFields
  BY <1>0 DEF Requeued, SameRoles, RoomFields
<1>5. ASSUME NEW q, NEW v, AcceptSongRequest(d, r, m, q, v) PROVE Readiness'
  <2> DEFINE a == Requeued(s, Append(s.queue, NewEntry(s.entries + 1, q.track, q.media, q.by)))
             t == [a EXCEPT !.requests = @ \ {q}, !.entries = @ + 1]
  <2>1. Change(r, t)
    BY <1>5 DEF AcceptSongRequest
  <2>2. SameRoles(s, a) /\ DOMAIN a = RoomFields
    BY <1>4
  <2> HIDE DEF a
  <2>3. SameRoles(s, t)
    BY <2>2 DEF SameRoles, RoomFields
  <2> HIDE DEF t
  <2> QED
    BY <1>1, <2>1, <2>3
<1>6. ASSUME NEW id, NEW v, RemoveQueueEntry(d, r, m, id, v) PROVE Readiness'
  BY <1>1, <1>4, <1>6 DEF RemoveQueueEntry
<1>7. ASSUME NEW order, NEW v, ReorderQueue(d, r, m, order, v) PROVE Readiness'
  BY <1>1, <1>4, <1>7 DEF ReorderQueue
<1>8. ASSUME NEW v, Pause(d, r, m, v) PROVE Readiness'
  BY <1>0, <1>8, PauseAttending, ChangeReady DEF Pause
<1>9. ASSUME NEW id, NEW pos, NEW v, Start(d, r, m, id, pos, v) PROVE Readiness'
  BY <1>0, <1>9, PrepareAttending, ChangeReady DEF Start
<1>10. CASE QueueCommand(d, r, m)
  BY <1>2, <1>3, <1>5, <1>6, <1>7, <1>10 DEF QueueCommand
<1>11. CASE TransportCommand(d, r, m)
  BY <1>8, <1>9, <1>11 DEF TransportCommand, Play, Skip, Select, Seek
<1> QED
  BY <1>10, <1>11

(* Reports and disconnection: what the invariant is about.                 *)
LEMMA ReportReady ==
    ASSUME IInv, Readiness, NEW d, NEW r \in Room, Open(rooms[r]), NEW m \in MembersOf(rooms[r]),
           Report(d, r, m)
    PROVE  Readiness'
<1> DEFINE s == rooms[r]
<1>1. Attending(s)
  BY DEF Readiness
<1>2. ASSUME NEW gen, NEW muted \in BOOLEAN, Heartbeat(d, r, m, gen, muted) PROVE Readiness'
  <2> DEFINE adopted == Adopt(s)
             beaten == Beaten(adopted, m, muted)
  <2>1. Change(r, FinishPreparation(beaten, enabled)) \/ Quietly(r, beaten)
    BY <1>2 DEF Heartbeat
  <2>2. Attending(adopted) /\ m \in MembersOf(adopted)
    BY <1>1, AdoptAttending, AdoptFramed DEF Attending, Framed, SameRoster
  <2> HIDE DEF adopted
  <2>3. Attending(beaten)
    BY <2>2, BeatenAttending
  <2> HIDE DEF beaten
  <2>4. Attending(FinishPreparation(beaten, enabled))
    BY <2>3, FinishAttending
  <2> QED
    BY <2>1, <2>3, <2>4, ChangeReady, QuietReady
<1>3. ASSUME NEW v, NEW seq, NEW ready,
             ReadyCurrent(d, r, m, seq, ready, v) \/ ReadyPrepared(d, r, m, seq, ready, v)
      PROVE  Readiness'
  <2> DEFINE reported == Reported(s, m, seq, ready)
             noted == [reported EXCEPT !.prep.cohort[m] = [@ EXCEPT !.seq = seq, !.ready = ready]]
  <2>1. /\ s.members[m].present /\ ~s.members[m].muted
        /\ \/ Change(r, reported)
           \/ Quietly(r, reported)
           \/ Change(r, FinishPreparation(noted, enabled))
    BY <1>3 DEF ReadyCurrent, ReadyPrepared, Reports, Connected
  <2>2. Attending(reported)
    BY <1>1, <2>1, ReportedAttending
  <2> HIDE DEF reported
  <2>3. SameRoles(reported, noted)
    BY <2>2 DEF Attending, SameRoles, IsRoom, RoomFields
  <2> HIDE DEF noted
  <2>4. Attending(FinishPreparation(noted, enabled))
    BY <2>2, <2>3, RolesAttending, FinishAttending
  <2> QED
    BY <2>1, <2>2, <2>4, ChangeReady, QuietReady
<1> QED
  BY <1>2, <1>3 DEF Report

LEMMA DeviceReady ==
    ASSUME NullAssumption, IInv, Readiness, NEW d \in Device, NEW r \in Room, DeviceStep(d, r)
    PROVE  Readiness'
<1>1. CASE Admission(d, r)
  BY <1>1, CreateReady, AcceptReady DEF Admission, Decline, Readiness
<1>2. CASE Disconnected(d, r)
  BY <1>2, DetachedAttending, ChangeReady DEF Disconnected, Safe, Readiness
<1>3. CASE Open(rooms[r]) /\ \E m \in MembersOf(rooms[r]) :
             \/ Membership(d, r, m) \/ Control(d, r, m) \/ QueueCommand(d, r, m)
             \/ TransportCommand(d, r, m) \/ Report(d, r, m)
  BY <1>3, MembershipReady, ControlReady, CommandReady, ReportReady
<1> QED
  BY <1>1, <1>2, <1>3 DEF DeviceStep, Own

LEMMA SweepReady == ASSUME NullAssumption, IInv, Readiness, NEW r \in Room, NEW c, Sweep(r, c) PROVE Readiness'
<1>1. Open(rooms[r]) /\ Attending(rooms[r])
  BY DEF Sweep, Readiness
<1>2. CASE Closes(rooms[r])
  <2>1. rooms[r].host \in MembersOf(rooms[r])
    BY <1>1, OpenIsSound DEF Sound, Roster
  <2> QED
    BY <1>1, <1>2, <2>1, ExpelOneReady DEF Sweep
<1>3. CASE ~Closes(rooms[r])
  <2>1. PICK swept \in Swept(rooms[r]) :
           LET final == FinishPreparation(swept, enabled)
           IN  Change(r, Advance(final)) \/ Change(r, final)
    BY <1>3 DEF Sweep
  <2> DEFINE final == FinishPreparation(swept, enabled)
  <2>2. Attending(final)
    BY <1>1, SweptAttending, FinishAttending
  <2>3. Change(r, Advance(final)) \/ Change(r, final)
    BY <2>1
  <2> HIDE DEF final
  <2> QED
    BY <2>2, <2>3, AdvanceAttending, ChangeReady
<1> QED
  BY <1>2, <1>3

LEMMA RoomReady ==
    ASSUME NullAssumption, IInv, Readiness, NEW r \in Room, RoomStep(r)
    PROVE  Readiness'
<1>1. ASSUME ExpireRoom(r) PROVE Readiness'
  <2> DEFINE t == [rooms[r] EXCEPT !.expired = TRUE]
  <2>1. rooms' = [rooms EXCEPT ![r] = t] /\ Attending(rooms[r])
    BY <1>1 DEF ExpireRoom, Safe, Readiness
  <2>2. DOMAIN t = RoomFields /\ t.members = rooms[r].members /\ t.transfer = rooms[r].transfer
    BY <2>1 DEF Attending, IsRoom, RoomFields
  <2> HIDE DEF t
  <2>3. IsRoom(t)
    BY <2>1, <2>2 DEF Attending, IsRoom, MembersOf
  <2> QED
    BY <2>1, <2>2, <2>3, SameMembers, OneRoom
<1> QED
  BY <1>1, SweepReady DEF RoomStep, Observe, ExpireInvitation, Readiness

LEMMA AccountReady ==
    ASSUME NullAssumption, IInv, Readiness, NEW a \in Account, AccountStep(a)
    PROVE  Readiness'
<1>1. CASE Deactivate(a) \/ LogoutAll(a)
  BY <1>1, MembershipsEnd, ExpelReady DEF Deactivate, LogoutAll
<1>2. ASSUME NEW b \in Account, Block(a, b) PROVE Readiness'
  BY <1>2, SeparatedEnd, ExpelReady DEF Block
<1>3. ASSUME NEW b \in Account, Unfriend(a, b) PROVE Readiness'
  <2>1. Ends({})
    BY DEF Ends
  <2> QED
    BY <1>3, <2>1, ExpelReady DEF Unfriend
<1> QED
  BY <1>1, <1>2, <1>3 DEF AccountStep, Reactivate, Unblock, Befriend, Readiness

LEMMA WorldReady == ASSUME IInv, Readiness, WorldStep PROVE Readiness'
<1>1. CASE Tick
  BY <1>1, AgedAttending DEF Tick, Readiness
<1>2. ASSUME NEW t, ReplaceMedia(t) PROVE Readiness'
  BY <1>2, WithoutMediaAttending DEF ReplaceMedia, Invalidated, Readiness
<1>3. ASSUME NEW x, RevokeSession(x) PROVE Readiness'
  <2> SUFFICES ASSUME NEW r \in Room, Open(rooms'[r]) PROVE Attending(rooms'[r])
    BY DEF Readiness
  <2>1. rooms'[r] = DetachedFrom(rooms[r], x)
    BY <1>3 DEF RevokeSession
  <2>2. CASE Open(rooms[r]) /\ Controlled(rooms[r], x) # {}
    <3> DEFINE m == CHOOSE y \in Controlled(rooms[r], x) : TRUE
    <3>1. m \in MembersOf(rooms[r]) /\ rooms'[r] = Persist(Detached(rooms[r], m))
      BY <2>1, <2>2 DEF DetachedFrom, Controlled
    <3> HIDE DEF m
    <3> QED
      BY <2>2, <3>1, DetachedAttending, PersistAttending DEF Readiness
  <2> QED
    BY <2>1, <2>2 DEF DetachedFrom, Readiness
<1> QED
  BY <1>1, <1>2, <1>3 DEF WorldStep, NewEpoch, SetEnabled, SignIn, WithdrawMedia, Readiness

LEMMA NextReady == ASSUME NullAssumption, IInv, Readiness, [Next]_vars PROVE Readiness'
<1>1. CASE UNCHANGED vars
  BY <1>1 DEF vars, Readiness
<1> QED
  BY <1>1, DeviceReady, RoomReady, AccountReady, WorldReady DEF Next

(* roomService.ts heartbeat, ready and disconnected, roomLifecycle.ts and  *)
(* the sweep: a member that counts as ready is attached, plays aloud, and  *)
(* said so in its last report.                                             *)
THEOREM ReadinessIsReported == ASSUME Assumptions PROVE Spec => []ReadyIsAttached
<1>1. Init => Readiness
  BY DEF Init, Readiness, Open
<1>2. IInv /\ Readiness /\ [Next]_vars => Readiness'
  BY NextReady DEF Assumptions
<1>3. Readiness => ReadyIsAttached
  BY DEF Readiness, Attending, Honest, ReadyIsAttached, OpenRooms
<1> QED
  BY <1>1, <1>2, <1>3, RoomsInductive, PTL DEF Spec
=============================================================================
