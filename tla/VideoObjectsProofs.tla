-------------------------- MODULE VideoObjectsProofs --------------------------
(***************************************************************************)
(* VideoWorker, for any number of uploads, workers, objects and commands:  *)
(* no object is written twice, one recorded as deleted is gone for good,   *)
(* and covers, uploads and documents keep their bounds and shapes.         *)
(***************************************************************************)
EXTENDS VideoPublicationProofs

-----------------------------------------------------------------------------
(* The life of an object: named, sent, on its way, over.                   *)

(* A PUT of the object is under way, or failed and may still be accepted.  *)
Sending(a) == \/ \E w \in Worker : work[w].pc = "put" /\ work[w].asset = a
              \/ \E r \in Request : calls[r].pc = "put" /\ assets[a].by = r
Landing(a) == a \in inflight \/ Sending(a)

(* Its one PUT has ended; and it is not there, so it never will be again.  *)
Over(a) == assets[a].sent /\ ~Landing(a)
Past(a) == Over(a) /\ a \notin stored

ObjectOK(a) ==
    /\ Landing(a) => assets[a].sent
    /\ a \in stored \/ assets[a].known => Over(a)
    /\ a \in settled => ~Landing(a)
    /\ assets[a].state = "deleted" => ~Alive /\ (Past(a) \/ ~assets[a].sent)
ObjectsOK == \A a \in 1..Len(assets) : ObjectOK(a)

(* Whoever is about to send an object is the only one, and the first.      *)
PutsOK ==
    /\ \A w \in Worker : work[w].pc = "put" =>
          lease.owner = w /\ LeaseLive /\ work[w].asset \notin inflight /\ assets[work[w].asset].by = None
    /\ \A r \in Request : \A a \in 1..Len(assets) : assets[a].by = r =>
          (calls[r].pc = "put" => a \notin inflight) /\ (calls[r].pc = "intent" => a \notin settled)

(* What a worker has seen of its object remains true.                      *)
SeenOK(w) ==
    /\ Holds(w) /\ work[w].pc \in {"grant", "send"} => ~assets[work[w].asset].sent /\ assets[work[w].asset].by = None
    /\ work[w].pc = "ack" \/ (work[w].pc = "judge" /\ work[w].found = "found") => Over(work[w].asset)
SweepOK(w) ==
    work[w].job = "clean" =>
       /\ \A x \in work[w].todo : x.sent = assets[x.id].sent /\ (x.known => Over(x.id))
       /\ work[w].pc = "drop" => ~assets[work[w].asset].sent
       /\ work[w].pc \in {"head", "judge"} => assets[work[w].asset].sent /\ (work[w].known => Over(work[w].asset))
       /\ work[w].pc = "judge" /\ work[w].found = "lost" => Past(work[w].asset)
       /\ work[w].pc \in {"erase", "confirm"} => Over(work[w].asset)

(* And what a call has.                                                    *)
AnswerOK(r) ==
    /\ calls[r].pc = "record" => \A a \in 1..Len(assets) : assets[a].by = r => Over(a)
    /\ calls[r].pc = "resolve" /\ calls[r].found = "yes" => Over(calls[r].asset)

Written == /\ ObjectsOK /\ PutsOK
           /\ \A w \in Worker : SeenOK(w) /\ SweepOK(w)
           /\ \A r \in Request : AnswerOK(r)

-----------------------------------------------------------------------------
(* What a step may do to the document.                                     *)

(* The objects that are there, and new ones.                               *)
Aged(a) ==
    /\ assets'[a].by = assets[a].by /\ assets'[a].kind = assets[a].kind
    /\ assets[a].sent => assets'[a].sent
    /\ ~Alive => assets'[a].sent = assets[a].sent
    /\ assets'[a].known => assets[a].known \/ Over(a)
    /\ assets'[a].state = "deleted" => assets[a].state = "deleted" \/ (~Alive /\ (Past(a) \/ ~assets[a].sent))
Appeared(a) ==
    /\ ~assets'[a].sent /\ ~assets'[a].known /\ assets'[a].state = "pending"
    /\ assets'[a].kind = "cover" => CoverRoom /\ Alive /\ a = Len(assets) + 1 /\ Len(assets') = Len(assets) + 1
    /\ \A r \in Request : assets'[a].by = r => calls'[r].pc \in {"intent", "finish"}
Objects == /\ Len(assets) <= Len(assets')
           /\ \A a \in 1..Len(assets) : Aged(a)
           /\ \A a \in 1..Len(assets') : a \notin 1..Len(assets) => Appeared(a)

(* The publication points where it did, or to new copies; a project ends   *)
(* once; and at most one upload is received.                               *)
Pointed == \A k \in {project'.pub.target, project'.pub.coverTarget} :
              \/ k \in {0, project.pub.target, project.pub.coverTarget}
              \/ k \in 1..Len(assets') /\ assets'[k].kind # "cover"
Received == \/ \A r \in Request : Receiving(r)' => Receiving(r)
            \/ \A q, r \in Request : Receiving(q)' /\ Receiving(r)' => q = r
Onwards == (Alive' => Alive) /\ Pointed /\ Received

CountsOK ==
    /\ Cardinality(Covers) <= MaxCovers
    /\ \A k \in {project.pub.target, project.pub.coverTarget} : k # 0 => assets[k].kind # "cover"
    /\ \A q, r \in Request : Receiving(q) /\ Receiving(r) => q = r

(* No object is sent in this step.                                         *)
Unsending == \A a \in 1..Len(assets) : assets'[a].sent = assets[a].sent

LEMMA Numbers ==
    ASSUME Bounds
    PROVE  /\ Len(assets) \in Nat /\ assets \in Seq(AssetRow) /\ settled \union stored \union inflight \subseteq 1..Len(assets)
           /\ \A a \in 1..Len(assets) : assets[a] \in AssetRow
           /\ \A w \in Worker : work[w].asset \in 0..Len(assets) /\ (work[w].pc \in Handling => work[w].asset \in 1..Len(assets))
                                /\ \A x \in work[w].todo : x.id \in 1..Len(assets)
  BY DEF Bounds, Typed, DocumentTyped, PlacedAt

LEMMA ObjectsStay ==
    ASSUME Bounds, UNCHANGED assets
    PROVE  Objects /\ Unsending
  BY Numbers DEF Objects, Aged, Unsending

LEMMA ObjectSet ==
    ASSUME Bounds, NEW a \in 1..Len(assets), NEW state \in AssetState, NEW known \in BOOLEAN, SetAsset(a, state, known),
           known => assets[a].known \/ Over(a),
           state = "deleted" => ~Alive /\ (Past(a) \/ ~assets[a].sent)
    PROVE  Objects /\ Unsending
<1>1. /\ Len(assets') = Len(assets) /\ \A b \in 1..Len(assets) : b # a => assets'[b] = assets[b]
      /\ assets'[a].state = state /\ assets'[a].known = known /\ assets'[a].sent = assets[a].sent
      /\ assets'[a].kind = assets[a].kind /\ assets'[a].by = assets[a].by
  BY Numbers, SetsAsset
<1>2. ASSUME NEW b \in 1..Len(assets) PROVE Aged(b) /\ assets'[b].sent = assets[b].sent
  BY <1>1 DEF Aged
<1> QED
  BY <1>1, <1>2, Numbers DEF Objects, Unsending

LEMMA ObjectMarked ==
    ASSUME Bounds, NEW a \in 1..Len(assets), MarkSent(a), Alive
    PROVE  /\ Objects /\ assets'[a].sent
           /\ \A b \in 1..Len(assets) : b # a => assets'[b].sent = assets[b].sent
<1>1. /\ Len(assets') = Len(assets) /\ \A b \in 1..Len(assets) : b # a => assets'[b] = assets[b]
      /\ assets'[a].state = "unknown" /\ assets'[a].known = assets[a].known /\ assets'[a].sent
      /\ assets'[a].kind = assets[a].kind /\ assets'[a].by = assets[a].by
  BY Numbers, Marks
<1>2. ASSUME NEW b \in 1..Len(assets) PROVE Aged(b)
  BY <1>1 DEF Aged
<1> QED
  BY <1>1, <1>2, Numbers DEF Objects

LEMMA ObjectAdded ==
    ASSUME VideoAssumption, Bounds, NEW e \in AssetRow, assets' = Append(assets, e), ~e.sent, ~e.known, e.state = "pending",
           e.kind = "cover" => CoverRoom /\ Alive,
           e.by = None \/ \E r \in Request : e.by = r /\ calls'[r].pc \in {"intent", "finish"}
    PROVE  Objects /\ Unsending
<1>1. /\ Len(assets') = Len(assets) + 1 /\ \A b \in 1..Len(assets) : assets'[b] = assets[b]
      /\ assets'[Len(assets) + 1] = e
  BY Numbers, Appends
<1>2. ASSUME NEW b \in 1..Len(assets) PROVE Aged(b) /\ assets'[b].sent = assets[b].sent
  BY <1>1 DEF Aged
<1>3. None \notin Request
  BY DEF VideoAssumption
<1>4. ASSUME NEW b \in 1..Len(assets'), b \notin 1..Len(assets) PROVE Appeared(b)
  <2>1. b = Len(assets) + 1
    BY <1>1, <1>4, Numbers
  <2>2. \A r \in Request : e.by = r => calls'[r].pc \in {"intent", "finish"}
    BY <1>3
  <2> QED
    BY <1>1, <2>1, <2>2 DEF Appeared
<1> QED
  BY <1>1, <1>2, <1>4, Numbers DEF Objects, Unsending

LEMMA PublicationOnwards ==
    ASSUME SamePublication(project'), ingress' = ingress
    PROVE  Onwards
  BY DEF Onwards, SamePublication, Alive, Pointed, Received, Receiving

-----------------------------------------------------------------------------
(* What a step may do to the store, and what follows for the objects.      *)

Lands(a) ==
    /\ Landing(a)' => Landing(a) \/ (~assets[a].sent /\ assets'[a].sent /\ a \notin settled')
    /\ a \in stored' => a \in stored \/ (Landing(a) /\ ~Landing(a)')
    /\ a \in settled' => a \in settled \/ ~Landing(a)'
Untouched(a) == ~Landing(a)' /\ a \notin stored' \union settled'
Stored == /\ \A a \in 1..Len(assets) : Lands(a)
          /\ \A a \in 1..Len(assets') : a \notin 1..Len(assets) => Untouched(a)

(* Nothing that was over begins again.                                     *)
OverStays == \A a \in 1..Len(assets) : (Over(a) => Over(a)') /\ (Past(a) => Past(a)')

LEMMA ObjectsEvolve ==
    ASSUME Bounds, ObjectsOK, Objects, Stored, Alive' => Alive
    PROVE  ObjectsOK' /\ OverStays
<1>1. ASSUME NEW a \in 1..Len(assets) PROVE (Over(a) => Over(a)') /\ (Past(a) => Past(a)') /\ ObjectOK(a)'
  <2>1. ObjectOK(a) /\ Aged(a) /\ Lands(a)
    BY DEF ObjectsOK, Objects, Stored
  <2>2. /\ Over(a) <=> assets[a].sent /\ ~Landing(a)
        /\ Over(a)' <=> assets'[a].sent /\ ~Landing(a)'
    BY DEF Over
  <2>3. /\ Past(a) <=> Over(a) /\ a \notin stored
        /\ Past(a)' <=> Over(a)' /\ a \notin stored'
    BY DEF Past
  <2>4. Over(a) => Over(a)'
    BY <2>1, <2>2 DEF Aged, Lands
  <2>5. Past(a) => Past(a)'
    BY <2>1, <2>2, <2>3, <2>4 DEF Lands
  <2>6. Landing(a)' => assets'[a].sent
    BY <2>1 DEF Lands, ObjectOK, Aged
  <2>7. a \in stored' => Over(a)'
    BY <2>1, <2>2, <2>4 DEF Lands, ObjectOK, Aged
  <2>8. assets'[a].known => Over(a)'
    BY <2>1, <2>4 DEF Aged, ObjectOK
  <2>9. a \in settled' => ~Landing(a)'
    BY <2>1 DEF Lands, ObjectOK
  <2>10. assets'[a].state = "deleted" => ~Alive' /\ (Past(a)' \/ ~assets'[a].sent)
    BY <2>1, <2>5 DEF Aged, ObjectOK
  <2> QED
    BY <2>4, <2>5, <2>6, <2>7, <2>8, <2>9, <2>10 DEF ObjectOK
<1>2. ASSUME NEW a \in 1..Len(assets'), a \notin 1..Len(assets) PROVE ObjectOK(a)'
  BY <1>2 DEF Objects, Appeared, Stored, Untouched, ObjectOK
<1> QED
  BY <1>1, <1>2 DEF ObjectsOK, OverStays

(* The bounds of the document.                                             *)
LEMMA CountsStay ==
    ASSUME VideoAssumption, Bounds, ObjectsOK, CountsOK, Objects, Onwards
    PROVE  CountsOK'
<1>1. Len(assets) \in Nat /\ IsFiniteSet(1..Len(assets)) /\ MaxCovers \in Nat
  BY Numbers, FS_Interval DEF VideoAssumption
<1>2. Covers \subseteq 1..Len(assets) /\ IsFiniteSet(Covers) /\ Cardinality(Covers) \in Nat
  <2>1. Covers \subseteq 1..Len(assets)
    BY DEF Covers
  <2> QED
    BY <1>1, <2>1, FS_Subset, FS_CardinalityType
<1>3. Cardinality(Covers') <= MaxCovers
  <2>1. \A a \in 1..Len(assets) : a \in 1..Len(assets') /\ (a \in Covers' <=> a \in Covers)
    BY <1>1 DEF Objects, Aged, Covers
  <2>2. CASE \A a \in 1..Len(assets') : a \notin 1..Len(assets) => assets'[a].kind # "cover"
    <3>1. Covers' = Covers
      BY <1>2, <2>1, <2>2 DEF Covers
    <3> QED
      BY <3>1 DEF CountsOK
  <2>3. ASSUME NEW a \in 1..Len(assets'), a \notin 1..Len(assets), assets'[a].kind = "cover"
        PROVE  Cardinality(Covers') <= MaxCovers
    <3>1. CoverRoom /\ Alive /\ a = Len(assets) + 1 /\ Len(assets') = Len(assets) + 1
      BY <2>3 DEF Objects, Appeared
    <3>2. {b \in Covers : assets[b].state # "deleted"} = Covers
      BY <1>2, <3>1 DEF ObjectsOK, ObjectOK
    <3>3. Cardinality(Covers) < MaxCovers
      BY <3>1, <3>2 DEF CoverRoom
    <3>4. Covers' = Covers \union {a}
      <4>1. ASSUME NEW b \in Covers' PROVE b \in Covers \union {a}
        <5>1. b \in 1..Len(assets')
          BY DEF Covers
        <5> QED
          BY <1>1, <2>1, <3>1, <5>1
      <4>2. a \in Covers'
        BY <2>3 DEF Covers
      <4> QED
        BY <1>2, <2>1, <4>1, <4>2
    <3>5. Cardinality(Covers \union {a}) <= Cardinality(Covers) + 1
      <4>1. a \notin Covers
        BY <1>2, <2>3
      <4> QED
        BY <1>2, <4>1, FS_AddElement
    <3>6. Cardinality(Covers') <= Cardinality(Covers) + 1
      BY <3>4, <3>5
    <3>7. IsFiniteSet(Covers') /\ Cardinality(Covers') \in Nat
      BY <1>2, <3>4, FS_AddElement, FS_CardinalityType
    <3> QED
      BY <1>1, <1>2, <3>3, <3>6, <3>7
  <2> QED
    BY <2>2, <2>3
<1>4. \A k \in {project'.pub.target, project'.pub.coverTarget} : k # 0 => assets'[k].kind # "cover"
  <2>1. ASSUME NEW k \in {project'.pub.target, project'.pub.coverTarget}, k # 0 PROVE assets'[k].kind # "cover"
    <3>1. CASE k \in {project.pub.target, project.pub.coverTarget}
      <4>1. k \in 1..Len(assets)
        BY <1>1, <2>1, <3>1 DEF Bounds, Names
      <4> QED
        BY <2>1, <3>1, <4>1 DEF CountsOK, Objects, Aged
    <3> QED
      BY <2>1, <3>1 DEF Onwards, Pointed
  <2> QED
    BY <2>1
<1>5. \A q, r \in Request : Receiving(q)' /\ Receiving(r)' => q = r
  BY DEF CountsOK, Onwards, Received
<1> QED
  BY <1>3, <1>4, <1>5 DEF CountsOK

(* What a worker knows remains true while it stands still, if whatever is  *)
(* sent is not sent behind its back.                                       *)
LEMMA SeenStays ==
    ASSUME Bounds, Safe, NEW w \in Worker, SeenOK(w), SweepOK(w), Alike(work'[w], work[w]), OverStays, Objects,
           lease'.owner = w /\ LeaseLive' => lease.owner = w /\ LeaseLive,
           \A a \in 1..Len(assets) : Holds(w) /\ assets[a].by = None => assets'[a].sent = assets[a].sent
    PROVE  SeenOK(w)' /\ SweepOK(w)'
<1>0. PICK a : a = work[w].asset
  OBVIOUS
<1>1. /\ work'[w].pc = work[w].pc /\ work'[w].job = work[w].job /\ work'[w].asset = a
      /\ work'[w].todo = work[w].todo /\ work'[w].found = work[w].found /\ work'[w].known = work[w].known
  BY <1>0 DEF Alike, SameJob, SameObject
<1>2. Holds(w)' => Holds(w)
  BY <1>1 DEF Holds
<1>3. work[w].pc \in Handling => a \in 1..Len(assets)
  BY <1>0, Numbers
<1>4. work[w].job = "clean" => \A b \in 1..Len(assets) : assets'[b].sent = assets[b].sent
  <2>1. work[w].job = "clean" => ~Alive
    BY DEF Safe, WorkerOK, CleanOK
  <2> QED
    BY <2>1 DEF Objects, Aged
<1>5. work[w].pc \in {"grant", "send", "ack", "judge", "drop", "head", "erase", "confirm"} => a \in 1..Len(assets)
  BY <1>3 DEF Handling
<1>6. SeenOK(w)'
  <2>1. Holds(w)' /\ work'[w].pc \in {"grant", "send"} => ~assets'[work'[w].asset].sent /\ assets'[work'[w].asset].by = None
    BY <1>0, <1>1, <1>2, <1>5 DEF SeenOK, Objects, Aged
  <2>2. work'[w].pc = "ack" \/ (work'[w].pc = "judge" /\ work'[w].found = "found") => Over(a)'
    BY <1>0, <1>1, <1>5 DEF SeenOK, OverStays
  <2> QED
    BY <1>1, <2>1, <2>2 DEF SeenOK
<1>7. SweepOK(w)'
  <2>1. SUFFICES ASSUME work[w].job = "clean" PROVE SweepOK(w)'
    BY <1>1 DEF SweepOK
  <2>2. \A x \in work[w].todo : x.id \in 1..Len(assets)
    BY Numbers
  <2>3. \A x \in work[w].todo : x.sent = assets'[x.id].sent /\ (x.known => Over(x.id)')
    BY <1>4, <2>1, <2>2 DEF SweepOK, OverStays
  <2>4. work[w].pc = "drop" => ~assets'[a].sent
    BY <1>0, <1>4, <1>5, <2>1 DEF SweepOK
  <2>5. work[w].pc \in {"head", "judge"} => assets'[a].sent /\ (work[w].known => Over(a)')
    BY <1>0, <1>4, <1>5, <2>1 DEF SweepOK, OverStays
  <2>6. work[w].pc = "judge" /\ work[w].found = "lost" => Past(a)'
    BY <1>0, <1>5, <2>1 DEF SweepOK, OverStays
  <2>7. work[w].pc \in {"erase", "confirm"} => Over(a)'
    BY <1>0, <1>5, <2>1 DEF SweepOK, OverStays
  <2> QED
    BY <1>1, <2>3, <2>4, <2>5, <2>6, <2>7 DEF SweepOK
<1> QED
  BY <1>6, <1>7

(* A call stands still, or goes where nothing is known.                    *)
LEMMA AnswerStays ==
    ASSUME Bounds, NEW r \in Request, AnswerOK(r), OverStays, Objects,
           calls'[r] = calls[r] \/ calls'[r].pc \notin {"record", "resolve"}
    PROVE  AnswerOK(r)'
<1>1. CASE calls'[r].pc \notin {"record", "resolve"}
  BY <1>1 DEF AnswerOK
<1>2. CASE calls'[r] = calls[r]
  <2>1. ASSUME calls[r].pc = "record", NEW a \in 1..Len(assets'), assets'[a].by = r PROVE Over(a)'
    <3>1. a \in 1..Len(assets)
      BY <1>2, <2>1 DEF Objects, Appeared
    <3>2. assets[a].by = r
      BY <2>1, <3>1 DEF Objects, Aged
    <3> QED
      BY <2>1, <3>1, <3>2 DEF AnswerOK, OverStays
  <2>2. ASSUME calls[r].pc = "resolve", calls[r].found = "yes", NEW a, a = calls[r].asset PROVE Over(a)'
    <3>1. a \in 1..Len(assets)
      BY <2>2, Numbers DEF Bounds, UploadsOK
    <3> QED
      BY <2>2, <3>1 DEF AnswerOK, OverStays
  <2>3. calls'[r].pc = "resolve" /\ calls'[r].found = "yes" => Over(calls[r].asset)'
    BY <1>2, <2>2
  <2> QED
    BY <1>2, <2>1, <2>3 DEF AnswerOK
<1> QED
  BY <1>1, <1>2

(* Nobody begins or ends a PUT.                                            *)
PutsStand ==
    /\ \A w \in Worker : /\ work'[w].pc = "put" <=> work[w].pc = "put"
                         /\ work[w].pc = "put" => work'[w].asset = work[w].asset
    /\ \A r \in Request : calls'[r].pc = "put" <=> calls[r].pc = "put"

LEMMA StoreStands ==
    ASSUME Bounds, Objects, PutsStand, UNCHANGED <<settled, stored, inflight>>
    PROVE  Stored
<1>1. ASSUME NEW a \in 1..Len(assets) PROVE Landing(a)' <=> Landing(a)
  BY DEF Landing, Sending, PutsStand, Objects, Aged
<1>2. ASSUME NEW a \in 1..Len(assets'), a \notin 1..Len(assets) PROVE Untouched(a)
  <2>1. a \notin stored' \union settled' \union inflight'
    BY <1>2, Numbers
  <2>2. \A w \in Worker : ~(work'[w].pc = "put" /\ work'[w].asset = a)
    BY <1>2, Numbers DEF PutsStand, Handling
  <2>3. \A r \in Request : ~(calls'[r].pc = "put" /\ assets'[a].by = r)
    BY <1>2 DEF Objects, Appeared
  <2> QED
    BY <2>1, <2>2, <2>3 DEF Untouched, Landing, Sending
<1> QED
  BY <1>1, <1>2 DEF Stored, Lands

(* A step that sends nothing and leaves the store alone.                   *)
Dry == /\ Objects /\ Unsending /\ PutsStand /\ UNCHANGED <<settled, stored, inflight>> /\ (Alive' => Alive)
       /\ \A w \in Worker : work[w].pc = "put" => lease'.owner = w /\ LeaseLive'
       /\ \A r \in Request : calls'[r].pc = "intent" => calls[r].pc = "intent" \/ \A a \in 1..Len(assets) : assets[a].by # r

LEMMA DrySteps ==
    ASSUME Bounds, Written, Dry
    PROVE  ObjectsOK' /\ OverStays /\ PutsOK'
<1>1. Objects /\ PutsStand /\ UNCHANGED <<settled, stored, inflight>> /\ (Alive' => Alive)
  BY DEF Dry
<1>2. ObjectsOK' /\ OverStays
  BY <1>1, StoreStands, ObjectsEvolve DEF Written
<1>3. ASSUME NEW w \in Worker, work'[w].pc = "put"
      PROVE  lease'.owner = w /\ LeaseLive' /\ work'[w].asset \notin inflight' /\ assets'[work'[w].asset].by = None
  <2>1. work[w].pc = "put" /\ work'[w].asset = work[w].asset /\ work[w].asset \in 1..Len(assets)
    BY <1>1, <1>3, Numbers DEF PutsStand, Handling
  <2> QED
    BY <1>1, <2>1 DEF Written, PutsOK, Dry, Objects, Aged
<1>4. ASSUME NEW r \in Request, NEW a \in 1..Len(assets'), assets'[a].by = r
      PROVE  (calls'[r].pc = "put" => a \notin inflight') /\ (calls'[r].pc = "intent" => a \notin settled')
  <2>1. CASE a \in 1..Len(assets)
    <3>1. assets[a].by = r
      BY <1>1, <1>4, <2>1 DEF Objects, Aged
    <3>2. calls'[r].pc = "intent" => calls[r].pc = "intent"
      BY <2>1, <3>1 DEF Dry
    <3> QED
      BY <1>1, <2>1, <3>1, <3>2 DEF Written, PutsOK, PutsStand
  <2>2. CASE a \notin 1..Len(assets)
    BY <1>1, <1>4, <2>2, Numbers DEF Objects, Appeared
  <2> QED
    BY <2>1, <2>2
<1> QED
  BY <1>2, <1>3, <1>4 DEF PutsOK

LEMMA WorkerDry ==
    ASSUME Bounds, Safe, Written, NEW w \in Worker, Dry, Others(w), Rest, SeenOK(w)', SweepOK(w)',
           \A q \in Worker : q # w /\ lease'.owner = q /\ LeaseLive' => lease.owner = q /\ LeaseLive
    PROVE  Written'
<1>1. ObjectsOK' /\ OverStays /\ PutsOK' /\ Objects /\ Unsending
  BY DrySteps DEF Dry
<1>2. ASSUME NEW q \in Worker PROVE SeenOK(q)' /\ SweepOK(q)'
  <2>1. CASE q = w
    BY <2>1
  <2>2. CASE q # w
    <3>1. Alike(work'[q], work[q]) /\ SeenOK(q) /\ SweepOK(q)
      BY <2>2 DEF Others, Written
    <3> QED
      BY <1>1, <2>2, <3>1, SeenStays DEF Unsending
  <2> QED
    BY <2>1, <2>2
<1>3. ASSUME NEW r \in Request PROVE AnswerOK(r)'
  BY <1>1, AnswerStays DEF Rest, Written
<1> QED
  BY <1>1, <1>2, <1>3 DEF Written

LEMMA RestDry ==
    ASSUME Bounds, Safe, Written, Dry, UNCHANGED work, \A r \in Request : AnswerOK(r)',
           lease' = lease \/ ~LeaseLive'
    PROVE  Written'
<1>1. ObjectsOK' /\ OverStays /\ PutsOK' /\ Objects /\ Unsending
  BY DrySteps DEF Dry
<1>2. ASSUME NEW q \in Worker PROVE SeenOK(q)' /\ SweepOK(q)'
  <2>1. Alike(work'[q], work[q]) /\ SeenOK(q) /\ SweepOK(q)
    BY DEF Alike, SameJob, SameObject, Written
  <2> QED
    BY <1>1, <2>1, SeenStays DEF Unsending, LeaseLive
<1> QED
  BY <1>1, <1>2 DEF Written

-----------------------------------------------------------------------------
(* How a worker goes on where nothing has been seen.                       *)

(* A step of a worker that keeps everything.                               *)
Lawful == Written' /\ Objects /\ Onwards
Harmless == Objects /\ Unsending /\ Onwards /\ settled' = settled

LEMMA DocumentHarmless ==
    ASSUME Bounds, UNCHANGED document
    PROVE  Harmless
<1>1. UNCHANGED <<project, assets, settled, ingress>>
  BY DEF document
<1>2. SamePublication(project')
  BY <1>1 DEF SamePublication
<1> QED
  BY <1>1, <1>2, ObjectsStay, PublicationOnwards DEF Harmless

LEMMA ProjectHarmless ==
    ASSUME Bounds, UNCHANGED <<assets, settled, ingress>>, SamePublication(project')
    PROVE  Harmless
  BY ObjectsStay, PublicationOnwards DEF Harmless

LEMMA WorkerIsDry ==
    ASSUME Bounds, Written, NEW w \in Worker, Others(w), Rest, UNCHANGED <<lease, bucket>>, Harmless,
           work[w].pc # "put", work'[w].pc # "put"
    PROVE  Dry
<1>1. PutsStand
  BY DEF PutsStand, Others, Alike, SameObject, Rest
<1>2. \A q \in Worker : work[q].pc = "put" => lease'.owner = q /\ LeaseLive'
  BY DEF Written, PutsOK, LeaseLive
<1> QED
  BY <1>1, <1>2 DEF Dry, Harmless, Rest, bucket, Onwards

Special == {"grant", "send", "put", "ack", "judge"}
Judging == {"drop", "head", "judge", "erase", "confirm"}

(* What it has seen of the swept objects.                                  *)
LEMMA TodoStays ==
    ASSUME Bounds, Safe, NEW w \in Worker, SweepOK(w), work[w].job = "clean", Unsending, OverStays
    PROVE  \A x \in work[w].todo : x.sent = assets'[x.id].sent /\ (x.known => Over(x.id)')
<1>1. \A x \in work[w].todo : x.id \in 1..Len(assets)
  BY Numbers
<1> QED
  BY <1>1 DEF SweepOK, Unsending, OverStays

LEMMA GoesOn ==
    ASSUME Bounds, Safe, Written, NEW w \in Worker, Others(w), Rest, UNCHANGED <<lease, bucket>>, Harmless,
           work[w].pc # "put", work'[w].job = work[w].job, work'[w].todo = work[w].todo,
           work'[w].pc \notin Special, work[w].job = "clean" => work'[w].pc \notin Judging
    PROVE  Lawful
<1>1. Dry
  BY WorkerIsDry DEF Special
<1>2. OverStays
  BY <1>1, DrySteps
<1>3. SeenOK(w)'
  BY DEF SeenOK, Special
<1>4. SweepOK(w)'
  <2>1. SUFFICES ASSUME work[w].job = "clean" PROVE SweepOK(w)'
    BY DEF SweepOK
  <2>2. \A x \in work[w].todo : x.sent = assets'[x.id].sent /\ (x.known => Over(x.id)')
    BY <1>2, <2>1, TodoStays DEF Harmless, Written
  <2> QED
    BY <2>1, <2>2 DEF SweepOK, Judging
<1>5. Written'
  BY <1>1, <1>3, <1>4, WorkerDry DEF LeaseLive
<1> QED
  BY <1>5 DEF Lawful, Harmless

(* By an error, a jump, or with another object.                            *)
LEMMA Goes ==
    ASSUME Bounds, Safe, Written, NEW w \in Worker, Rest, UNCHANGED <<lease, bucket>>, Harmless, work[w].pc # "put",
           \/ Throw(w)
           \/ \E place \in WorkPlace : /\ Jump(w, place) /\ place \notin Special
                                       /\ work[w].job = "clean" => place \notin Judging
           \/ \E for \in {"none", "output", "cover", "target", "coverTarget"}, a \in Id, place \in WorkPlace :
                 Take(w, for, a, place) /\ place \notin Special /\ work[w].job # "clean"
    PROVE  Lawful
<1>1. work \in [Worker -> WorkRow]
  BY DEF Bounds, Typed
<1>2. ASSUME NEW place \in WorkPlace, Jump(w, place), place \notin Special, work[w].job = "clean" => place \notin Judging
      PROVE  Lawful
  <2>1. Others(w) /\ work'[w].pc = place /\ SameJob(work'[w], work[w])
    BY <1>1, <1>2, Jumps
  <2> QED
    BY <1>2, <2>1, GoesOn DEF SameJob
<1>3. CASE Throw(w)
  <2>1. PICK place \in {"cleanFail", "finish", "failed"} : Jump(w, place)
    BY <1>3, Throws
  <2>2. place \in WorkPlace /\ place \notin Special /\ place \notin Judging
    BY DEF WorkPlace, Special, Judging
  <2> QED
    BY <1>2, <2>1, <2>2
<1>4. ASSUME NEW for \in {"none", "output", "cover", "target", "coverTarget"}, NEW a \in Id, NEW place \in WorkPlace,
             Take(w, for, a, place), place \notin Special, work[w].job # "clean"
      PROVE  Lawful
  <2>1. Others(w) /\ work'[w].pc = place /\ SameJob(work'[w], work[w])
    BY <1>1, <1>4, Takes
  <2> QED
    BY <1>4, <2>1, GoesOn DEF SameJob
<1> QED
  BY <1>2, <1>3, <1>4

LEMMA ProcessLawful ==
    ASSUME VideoAssumption, Bounds, Safe, Written, NEW w \in Worker, Rest,
           BeginProcess(w) \/ Start(w) \/ Decode(w) \/ FinishJob(w) \/ CopyCover(w) \/ SelectCover(w)
    PROVE  Lawful
<1>1. /\ work[w].pc \in {"process", "start", "decode", "finish", "coverTarget", "select"} /\ UNCHANGED <<lease, bucket>>
  BY DEF BeginProcess, Start, Decode, FinishJob, CopyCover, SelectCover, Doing
<1>2. work[w].job # "clean" /\ work[w].pc # "put"
  BY <1>1, AtWork DEF RouteAt, Finalizing, Cleaning, Clearing
<1>3. Harmless
  <2>1. CASE UNCHANGED document
    BY <2>1, DocumentHarmless
  <2>2. ASSUME NEW state \in JobState,
               Project([project EXCEPT !.proc = state]) \/ Project([project EXCEPT !.frame.state = state])
        PROVE  Harmless
    <3>1. SamePublication(project')
      BY <2>2, Limits, Elsewhere DEF Project
    <3> QED
      BY <2>2, <3>1, ProjectHarmless DEF Project
  <2>3. CASE SelectCover(w) /\ ~UNCHANGED document
    <3>1. /\ \/ Select(project, Asset(w), work[w].rev, work[w].ask)
             \/ project' = [project EXCEPT !.auto = Asset(w)]
          /\ UNCHANGED <<assets, settled, ingress>> /\ Asset(w) \in Id
      BY <2>3, AtWork DEF SelectCover, Checkpoint, Asset
    <3>2. SamePublication(project)
      BY DEF SamePublication
    <3>3. SamePublication(project')
      BY <3>1, <3>2, ObjectsNamed, SelectElsewhere, Elsewhere
    <3> QED
      BY <3>1, <3>3, ProjectHarmless
  <2> QED
    BY <2>1, <2>2, <2>3, ObjectsNamed DEF BeginProcess, Start, Decode, FinishJob, CopyCover, Checkpoint
<1>4. CASE Throw(w)
  BY <1>1, <1>2, <1>3, <1>4, Goes
<1>5. ASSUME NEW place \in {"start", "cover", "stage", "release", "finish"}, Jump(w, place)
      PROVE  Lawful
  <2>1. place \in WorkPlace /\ place \notin Special
    BY DEF WorkPlace, Special
  <2> QED
    BY <1>1, <1>2, <1>3, <1>5, <2>1, Goes
<1>6. ASSUME NEW for \in {"output", "coverTarget"}, NEW a \in Id, NEW place \in {"recover", "decode", "publish"}, Take(w, for, a, place)
      PROVE  Lawful
  <2>1. place \in WorkPlace /\ place \notin Special /\ for \in {"none", "output", "cover", "target", "coverTarget"}
    BY DEF WorkPlace, Special
  <2> QED
    BY <1>1, <1>2, <1>3, <1>6, <2>1, Goes
<1> QED
  BY <1>4, <1>5, <1>6, ObjectsNamed, Limits DEF BeginProcess, Start, Decode, FinishJob, CopyCover, SelectCover, Checkpoint

LEMMA FrameBeginsLawful ==
    ASSUME VideoAssumption, Bounds, Safe, Written, NEW w \in Worker, Rest, BeginFrame(w)
    PROVE  Lawful
<1> DEFINE d == [work[w] EXCEPT !.for = "cover", !.pc = "decode", !.rev = project.frame.rev, !.ask = project.frame.ask]
<1>1. /\ work[w].pc = "frame" /\ UNCHANGED <<lease, bucket>> /\ work \in [Worker -> WorkRow]
      /\ Throw(w) \/ work' = [work EXCEPT ![w] = d]
      /\ UNCHANGED document \/ Project([project EXCEPT !.frame.state = "running"])
  BY DEF BeginFrame, Checkpoint, Doing, Bounds, Typed
<1>2. Harmless
  <2>1. CASE UNCHANGED document
    BY <2>1, DocumentHarmless
  <2>2. CASE Project([project EXCEPT !.frame.state = "running"])
    <3>1. SamePublication(project')
      BY <2>2, ObjectsNamed, Limits, Elsewhere DEF Project
    <3> QED
      BY <2>2, <3>1, ProjectHarmless DEF Project
  <2> QED
    BY <1>1, <2>1, <2>2
<1>3. CASE Throw(w)
  BY <1>1, <1>2, <1>3, Goes
<1>4. CASE work' = [work EXCEPT ![w] = d]
  <2>1. d.pc = "decode" /\ d.job = work[w].job /\ d.todo = work[w].todo
    BY <1>1 DEF WorkRow
  <2> HIDE DEF d
  <2>2. work'[w] = d /\ Others(w)
    BY <1>1, <1>4 DEF Others, Alike, SameJob, SameObject
  <2> QED
    BY <1>1, <1>2, <2>1, <2>2, GoesOn DEF Special, Judging
<1> QED
  BY <1>1, <1>3, <1>4

LEMMA CleanFailLawful ==
    ASSUME VideoAssumption, Bounds, Safe, Written, NEW w \in Worker, Rest, CleanFail(w)
    PROVE  Lawful
<1> DEFINE yes == TRUE
           d == [work[w] EXCEPT !.pc = "next", !.pending = yes]
<1>1. /\ work[w].pc = "cleanFail" /\ UNCHANGED <<lease, bucket>> /\ work \in [Worker -> WorkRow]
      /\ Throw(w) \/ work' = [work EXCEPT ![w].pc = "next", ![w].pending = yes]
      /\ UNCHANGED document \/ (SetAsset(Asset(w), "cleanupFailed", assets[Asset(w)].known) /\ Assets)
  BY DEF CleanFail, Checkpoint, Doing, Bounds, Typed
<1>2. Harmless
  <2>1. CASE UNCHANGED document
    BY <2>1, DocumentHarmless
  <2>2. CASE SetAsset(Asset(w), "cleanupFailed", assets[Asset(w)].known) /\ Assets
    <3>1. Asset(w) \in 1..Len(assets) /\ assets[Asset(w)].known \in BOOLEAN /\ "cleanupFailed" \in AssetState
      BY <1>1, Handles, AssetTyped DEF Handling
    <3>2. SamePublication(project') /\ ingress' = ingress /\ settled' = settled
      BY <2>2 DEF Assets, SamePublication
    <3>3. Objects /\ Unsending
      BY <2>2, <3>1, ObjectSet
    <3> QED
      BY <3>2, <3>3, PublicationOnwards DEF Harmless
  <2> QED
    BY <1>1, <2>1, <2>2
<1>3. CASE Throw(w)
  BY <1>1, <1>2, <1>3, Goes
<1>4. CASE work' = [work EXCEPT ![w].pc = "next", ![w].pending = yes]
  <2>1. work' = [work EXCEPT ![w] = d]
    BY <1>1, <1>4
  <2> HIDE DEF yes
  <2>2. d.pc = "next" /\ d.job = work[w].job /\ d.todo = work[w].todo
    BY <1>1 DEF WorkRow
  <2> HIDE DEF d
  <2>3. work'[w] = d /\ Others(w)
    BY <1>1, <2>1 DEF Others, Alike, SameJob, SameObject
  <2> QED
    BY <1>1, <1>2, <2>2, <2>3, GoesOn DEF Special, Judging
<1> QED
  BY <1>1, <1>3, <1>4

-----------------------------------------------------------------------------
(* A worker that has seen something.                                       *)

LEMMA Dries ==
    ASSUME Bounds, Written, NEW w \in Worker, Others(w), Rest, UNCHANGED <<lease, bucket>>, Harmless,
           work[w].pc # "put", work'[w].pc # "put"
    PROVE  Dry /\ OverStays /\ Objects /\ Unsending /\ Onwards
<1>1. Dry
  BY WorkerIsDry
<1> QED
  BY <1>1, DrySteps DEF Harmless

LEMMA Sees ==
    ASSUME Bounds, Safe, Written, NEW w \in Worker, Others(w), Rest, UNCHANGED <<lease, bucket>>, Harmless,
           work[w].pc # "put", work'[w].pc # "put", SeenOK(w)', SweepOK(w)'
    PROVE  Lawful
<1>1. Dry /\ Objects /\ Onwards
  BY Dries
<1>2. Written'
  BY <1>1, WorkerDry DEF LeaseLive
<1> QED
  BY <1>1, <1>2 DEF Lawful

LEMMA AssetHarmless ==
    ASSUME Bounds, NEW a \in 1..Len(assets), NEW state \in AssetState, NEW known \in BOOLEAN, SetAsset(a, state, known), Assets,
           known => assets[a].known \/ Over(a),
           state = "deleted" => ~Alive /\ (Past(a) \/ ~assets[a].sent)
    PROVE  Harmless
<1>1. SamePublication(project') /\ ingress' = ingress /\ settled' = settled
  BY DEF Assets, SamePublication
<1>2. Objects /\ Unsending
  BY ObjectSet
<1> QED
  BY <1>1, <1>2, PublicationOnwards DEF Harmless

(* Under the lease the object of a copy is no upload's.                    *)
LEMMA CopyIsNew ==
    ASSUME Bounds, Safe, NEW w \in Worker, Holds(w), work[w].job = "publish", work[w].pc \in Writing, work[w].pc \in Handling
    PROVE  assets[work[w].asset].by = None
<1>1. work[w].asset \in {project.pub.target, project.pub.coverTarget} /\ work[w].asset # 0
  BY Numbers DEF Safe, WorkerOK, HoldOK
<1> QED
  BY <1>1 DEF Safe, PublicationOK, CopyOf

LEMMA RecoverLawful ==
    ASSUME Bounds, Safe, Written, NEW w \in Worker, Rest, Recover(w)
    PROVE  Lawful
<1> DEFINE place == IF Ready(Asset(w)) THEN Recovered(w)
                    ELSE IF Unsent(Asset(w)) THEN (IF work[w].for = "output" THEN "start" ELSE "grant") ELSE "head"
<1>1. /\ work[w].pc = "recover" /\ Jump(w, place) /\ UNCHANGED <<document, lease, bucket>>
  BY DEF Recover, Doing
<1>2. place \in WorkPlace /\ (place # "grant" => place \notin Special) /\ place # "put"
  BY <1>1, AtWork DEF WorkPlace, Special, Recovered, Onward
<1>3. work[w].job \notin {"none", "clean"} /\ work[w].pc \in Writing /\ work[w].pc \in Handling
  BY <1>1, AtWork DEF RouteAt, Writing, Finalizing, Cleaning, Clearing, Handling
<1>4. place = "grant" => ~assets[work[w].asset].sent /\ work[w].job = "publish"
  <2>1. place = "grant" => ~assets[work[w].asset].sent /\ work[w].for # "output"
    BY DEF Recovered, Onward, Unsent, Asset
  <2>2. work[w].job = "process" => work[w].for = "output"
    BY <1>1, AtWork DEF RouteAt
  <2>3. work[w].job # "frame"
    BY <1>1, AtWork DEF RouteAt, Finalizing
  <2> QED
    BY <1>3, <2>1, <2>2, <2>3, AtWork
<1> HIDE DEF place
<1>5. Harmless /\ work \in [Worker -> WorkRow] /\ UNCHANGED assets
  BY <1>1, DocumentHarmless DEF Bounds, Typed, document
<1>6. CASE place # "grant"
  BY <1>1, <1>2, <1>3, <1>5, <1>6, Goes
<1>7. CASE place = "grant"
  <2>1. Others(w) /\ work'[w].pc = "grant" /\ work'[w].job = work[w].job /\ work'[w].asset = work[w].asset
    BY <1>1, <1>2, <1>5, <1>7, Jumps DEF SameJob, SameObject
  <2>2. Holds(w)' => Holds(w)
    BY <1>1, <2>1 DEF Holds, LeaseLive, Finalizing
  <2>3. SeenOK(w)'
    BY <1>3, <1>4, <1>5, <1>7, <2>1, <2>2, CopyIsNew DEF SeenOK
  <2>4. SweepOK(w)'
    BY <1>3, <2>1 DEF SweepOK
  <2> QED
    BY <1>1, <1>5, <2>1, <2>3, <2>4, Sees
<1> QED
  BY <1>6, <1>7

LEMMA LookLawful ==
    ASSUME Bounds, Safe, Written, NEW w \in Worker, Rest, Look(w)
    PROVE  Lawful
<1> DEFINE x == IF Asset(w) \in stored THEN "found" ELSE IF work[w].known \/ Lost(Asset(w)) THEN "lost" ELSE "unsettled"
<1>1. /\ work[w].pc = "head" /\ UNCHANGED <<document, lease, bucket>>
      /\ Throw(w) \/ work' = [work EXCEPT ![w].pc = "judge", ![w].found = x]
  BY DEF Look, Doing
<1>2. /\ x = "found" => work[w].asset \in stored
      /\ x = "lost" => work[w].asset \notin stored /\ (work[w].known \/ work[w].asset \in settled)
  BY DEF Asset, Lost
<1> HIDE DEF x
<1>3. Harmless /\ work \in [Worker -> WorkRow] /\ work[w].asset \in 1..Len(assets) /\ UNCHANGED assets
  BY <1>1, DocumentHarmless, Numbers DEF Bounds, Typed, Handling, document
<1>4. CASE Throw(w)
  BY <1>1, <1>3, <1>4, Goes
<1>5. CASE work' = [work EXCEPT ![w].pc = "judge", ![w].found = x]
  <2>0. PICK a : a = work[w].asset
    OBVIOUS
  <2>1. /\ work'[w].pc = "judge" /\ work'[w].found = x /\ SameJob(work'[w], work[w]) /\ work'[w].asset = a
        /\ Others(w)
    BY <1>3, <1>5, <2>0 DEF WorkRow, SameJob, Others, Alike, SameObject
  <2>2. OverStays /\ Unsending /\ ObjectOK(a) /\ a \in 1..Len(assets) /\ SweepOK(w)
    BY <1>1, <1>3, <2>0, <2>1, Dries DEF Written, ObjectsOK
  <2>3. SeenOK(w)'
    <3>1. x = "found" => Over(a)'
      BY <1>2, <2>0, <2>2 DEF ObjectOK, OverStays
    <3> QED
      BY <2>1, <3>1 DEF SeenOK
  <2>4. SweepOK(w)'
    <3>1. SUFFICES ASSUME work[w].job = "clean" PROVE SweepOK(w)'
      BY <2>1 DEF SweepOK, SameJob
    <3>2. \A y \in work[w].todo : y.sent = assets'[y.id].sent /\ (y.known => Over(y.id)')
      BY <1>3, <2>2, <3>1, TodoStays
    <3>3. assets'[a].sent /\ (work[w].known => Over(a)')
      BY <1>1, <1>3, <2>0, <2>2, <3>1 DEF SweepOK, OverStays
    <3>4. x = "lost" => Past(a)'
      <4>1. ASSUME x = "lost" PROVE Past(a)
        <5>1. a \notin stored /\ (work[w].known \/ a \in settled)
          BY <1>2, <2>0, <4>1
        <5>2. assets[a].sent /\ (work[w].known => Over(a))
          BY <1>1, <2>0, <2>2, <3>1 DEF SweepOK
        <5>3. a \in settled => ~Landing(a)
          BY <2>2 DEF ObjectOK
        <5>4. Over(a)
          BY <5>1, <5>2, <5>3 DEF Over
        <5> QED
          BY <5>1, <5>4 DEF Past
      <4> QED
        BY <2>2, <4>1 DEF OverStays
    <3> QED
      BY <2>1, <3>2, <3>3, <3>4 DEF SweepOK, SameJob
  <2> QED
    BY <1>1, <1>3, <2>1, <2>3, <2>4, Sees
<1> QED
  BY <1>1, <1>4, <1>5

(* What a recovery, an acknowledgement or a cleanup writes of its object.  *)
LEMMA RecordsLawful ==
    ASSUME Bounds, Safe, Written, NEW w \in Worker, Rest,
           JudgeRecovery(w) \/ Ack(w) \/ Drop(w) \/ JudgeCleanup(w) \/ Confirm(w)
    PROVE  Lawful
<1>1. /\ work[w].pc \in {"judge", "ack", "drop", "confirm"} /\ work[w].pc # "put" /\ UNCHANGED <<lease, bucket>>
  BY DEF JudgeRecovery, Ack, Drop, JudgeCleanup, Confirm, Doing
<1>2. /\ Asset(w) \in 1..Len(assets) /\ Asset(w) = work[w].asset /\ TRUE \in BOOLEAN /\ assets[Asset(w)].known \in BOOLEAN
      /\ "ready" \in AssetState /\ "failed" \in AssetState /\ "deleted" \in AssetState /\ "deleting" \in AssetState
  <2>1. work[w].pc \in Handling
    BY <1>1 DEF Handling
  <2>2. Asset(w) \in 1..Len(assets) /\ Asset(w) = work[w].asset
    BY <2>1, Handles
  <2> QED
    BY <2>2, AssetTyped
<1>3. SeenOK(w) /\ SweepOK(w) /\ WorkerOK(w) /\ work \in [Worker -> WorkRow]
  BY DEF Written, Safe, Bounds, Typed
<1>4. CASE Throw(w) /\ UNCHANGED document
  BY <1>1, <1>4, DocumentHarmless, Goes
<1>5. ASSUME NEW state \in AssetState, NEW known \in BOOLEAN, SetAsset(Asset(w), state, known), Assets,
             known => assets[Asset(w)].known \/ Over(Asset(w)),
             state = "deleted" => ~Alive /\ (Past(Asset(w)) \/ ~assets[Asset(w)].sent),
             NEW place \in {"finish", "start", "replace", "cover", "select", "coverTarget", "publish", "next"},
             Throw(w) \/ Jump(w, place)
      PROVE  Lawful
  <2>1. Harmless
    BY <1>2, <1>5, AssetHarmless
  <2>2. place \in WorkPlace /\ place \notin Special /\ place \notin Judging
    BY <1>5 DEF WorkPlace, Special, Judging
  <2> QED
    BY <1>1, <1>5, <2>1, <2>2, Goes
<1>6. CASE JudgeRecovery(w) /\ ~(Throw(w) /\ UNCHANGED document)
  <2>1. work[w].pc = "judge" /\ work[w].job # "clean"
    BY <1>6 DEF JudgeRecovery, Doing
  <2>2. CASE work[w].found = "found"
    <3>1. SetAsset(Asset(w), "ready", TRUE) /\ Assets /\ (Throw(w) \/ Jump(w, Recovered(w)))
      BY <1>6, <2>2 DEF JudgeRecovery, Checkpoint
    <3>2. Over(Asset(w))
      BY <1>2, <1>3, <2>1, <2>2 DEF SeenOK
    <3>3. Recovered(w) \in {"finish", "start", "replace", "cover", "select", "coverTarget", "publish", "next"}
      BY DEF Recovered, Onward
    <3> QED
      BY <1>2, <1>5, <3>1, <3>2, <3>3
  <2>3. CASE work[w].found # "found"
    <3>1. SetAsset(Asset(w), "failed", assets[Asset(w)].known) /\ Assets /\ (Throw(w) \/ Jump(w, Absent(w)))
      BY <1>6, <2>3 DEF JudgeRecovery, Checkpoint
    <3>2. Absent(w) \in {"finish", "start", "replace", "cover", "select", "coverTarget", "publish", "next"}
      BY DEF Absent
    <3> QED
      BY <1>2, <1>5, <3>1, <3>2
  <2> QED
    BY <2>2, <2>3
<1>7. CASE Ack(w) /\ ~(Throw(w) /\ UNCHANGED document)
  <2>1. /\ work[w].pc = "ack" /\ SetAsset(Asset(w), "ready", TRUE) /\ Assets /\ (Throw(w) \/ Jump(w, Onward(w)))
    BY <1>7 DEF Ack, Checkpoint, Doing
  <2>2. Onward(w) \in {"finish", "start", "replace", "cover", "select", "coverTarget", "publish", "next"}
    BY DEF Onward
  <2>3. Over(Asset(w))
    BY <1>2, <1>3, <2>1 DEF SeenOK
  <2> QED
    BY <1>2, <1>5, <2>1, <2>2, <2>3
<1>8. work[w].pc \in {"drop", "confirm"} => work[w].job = "clean"
  BY AtWork DEF RouteAt, Writing, Finalizing, Cleaning, Clearing
<1>9. work[w].job = "clean" => ~Alive
  BY <1>3 DEF WorkerOK, CleanOK
<1>10. CASE Drop(w) /\ ~(Throw(w) /\ UNCHANGED document)
  <2>1. /\ work[w].pc = "drop" /\ SetAsset(Asset(w), "deleted", assets[Asset(w)].known) /\ Assets /\ (Throw(w) \/ Jump(w, "next"))
    BY <1>10 DEF Drop, Checkpoint, Doing
  <2>2. ~Alive /\ ~assets[Asset(w)].sent
    BY <1>2, <1>3, <1>8, <1>9, <2>1 DEF SweepOK
  <2> QED
    BY <1>2, <1>5, <2>1, <2>2
<1>11. CASE Confirm(w) /\ ~(Throw(w) /\ UNCHANGED document)
  <2>1. /\ work[w].pc = "confirm" /\ SetAsset(Asset(w), "deleted", TRUE) /\ Assets /\ (Throw(w) \/ Jump(w, "next"))
        /\ Asset(w) \notin stored
    BY <1>11 DEF Confirm, Checkpoint, Doing
  <2>2. ~Alive /\ Over(Asset(w)) /\ Past(Asset(w))
    BY <1>2, <1>3, <1>8, <1>9, <2>1 DEF SweepOK, Past
  <2> QED
    BY <1>2, <1>5, <2>1, <2>2
<1>12. CASE JudgeCleanup(w) /\ ~(Throw(w) /\ UNCHANGED document)
  <2>1. /\ work[w].pc = "judge" /\ work[w].job = "clean"
        /\ \/ /\ SetAsset(Asset(w), "deleting", TRUE) /\ Assets /\ (Throw(w) \/ Jump(w, "erase"))
              /\ work[w].found = "found"
           \/ /\ SetAsset(Asset(w), "deleted", assets[Asset(w)].known) /\ Assets /\ (Throw(w) \/ Jump(w, "next"))
              /\ work[w].found = "lost"
    BY <1>12 DEF JudgeCleanup, Checkpoint, Doing
  <2>2. CASE work[w].found = "lost"
    <3>1. ~Alive /\ Past(Asset(w))
      BY <1>2, <1>3, <1>9, <2>1, <2>2 DEF SweepOK
    <3> QED
      BY <1>2, <1>5, <2>1, <2>2, <3>1
  <2>3. CASE work[w].found # "lost"
    <3>1. SetAsset(Asset(w), "deleting", TRUE) /\ Assets /\ (Throw(w) \/ Jump(w, "erase")) /\ Over(Asset(w))
      BY <1>2, <1>3, <2>1, <2>3 DEF SeenOK
    <3>2. Harmless
      BY <1>2, <3>1, AssetHarmless
    <3>3. CASE Throw(w)
      BY <1>1, <3>2, <3>3, Goes
    <3>4. CASE Jump(w, "erase")
      <4>0. PICK a : a = Asset(w)
        OBVIOUS
      <4>1. Others(w) /\ work'[w].pc = "erase" /\ SameJob(work'[w], work[w]) /\ work'[w].asset = a
        BY <1>2, <1>3, <3>4, <4>0, Jumps DEF WorkPlace, SameObject
      <4>2. OverStays /\ Unsending
        BY <1>1, <3>2, <4>1, Dries
      <4>3. SeenOK(w)'
        BY <2>1, <4>1 DEF SeenOK, Holds, SameJob
      <4>4. SweepOK(w)'
        <5>1. \A y \in work[w].todo : y.sent = assets'[y.id].sent /\ (y.known => Over(y.id)')
          BY <1>3, <2>1, <4>2, TodoStays
        <5>2. Over(a)'
          BY <1>2, <3>1, <4>0, <4>2 DEF OverStays
        <5> QED
          BY <4>1, <5>1, <5>2 DEF SweepOK, SameJob
      <4> QED
        BY <1>1, <3>2, <4>1, <4>3, <4>4, Sees
    <3> QED
      BY <3>1, <3>3, <3>4
  <2> QED
    BY <2>2, <2>3
<1> QED
  BY <1>4, <1>6, <1>7, <1>10, <1>11, <1>12

LEMMA GrantedLawful ==
    ASSUME Bounds, Safe, Written, NEW w \in Worker, Rest, Granted(w)
    PROVE  Lawful
<1>1. /\ work[w].pc = "grant" /\ UNCHANGED <<document, lease, bucket>>
      /\ Throw(w) \/ Jump(w, "send")
  BY DEF Granted, Checkpoint, Doing
<1>2. Harmless /\ UNCHANGED assets /\ work \in [Worker -> WorkRow] /\ "send" \in WorkPlace /\ SeenOK(w)
  BY <1>1, DocumentHarmless DEF Bounds, Typed, document, WorkPlace, Written
<1>3. CASE Throw(w)
  BY <1>1, <1>2, <1>3, Goes
<1>4. CASE Jump(w, "send")
  <2>1. Others(w) /\ work'[w].pc = "send" /\ work'[w].job = work[w].job /\ work'[w].asset = work[w].asset
    BY <1>2, <1>4, Jumps DEF SameJob, SameObject
  <2>2. Holds(w)' => Holds(w)
    BY <1>1, <2>1 DEF Holds, LeaseLive, Finalizing
  <2>3. SeenOK(w)'
    BY <1>1, <1>2, <2>1, <2>2 DEF SeenOK
  <2>4. work[w].job # "clean"
    BY <1>1, AtWork DEF RouteAt, Finalizing, Cleaning, Clearing
  <2>5. SweepOK(w)'
    BY <2>1, <2>4 DEF SweepOK
  <2> QED
    BY <1>1, <1>2, <2>1, <2>3, <2>5, Sees
<1> QED
  BY <1>1, <1>3, <1>4

-----------------------------------------------------------------------------
(* The publication's state, and new objects.                               *)

LEMMA StateHarmless ==
    ASSUME Bounds, UNCHANGED <<assets, settled, ingress>>, Alive' => Alive,
           project'.pub.target = project.pub.target, project'.pub.coverTarget = project.pub.coverTarget
    PROVE  Harmless
<1>1. Onwards
  BY DEF Onwards, Pointed, Received, Receiving
<1> QED
  BY <1>1, ObjectsStay DEF Harmless

LEMMA PublishesLawful ==
    ASSUME VideoAssumption, Bounds, Safe, Written, NEW w \in Worker, Rest, BeginPublish(w) \/ InsertTrack(w)
    PROVE  Lawful
<1> DEFINE yes == TRUE
           p == [project EXCEPT !.pub.state = "running"]
           q == [project EXCEPT !.pub.state = "complete", !.pub.pending = yes]
<1>1. /\ work[w].pc = "publish" /\ UNCHANGED <<lease, bucket>> /\ WorkerOK(w)
      /\ \/ Throw(w) \/ Jump(w, "release")
         \/ Take(w, "target", project.pub.target, "recover")
      /\ \/ Fenced(w) /\ (project' = p \/ project' = q) /\ UNCHANGED <<assets, settled, ingress>>
         \/ UNCHANGED document
  BY DEF BeginPublish, InsertTrack, Doing, Checkpoint, Project, Safe
<1>2. work[w].job = "publish" /\ work[w].pc \notin Finalizing
  BY <1>1, AtWork DEF RouteAt, Finalizing, Cleaning, Clearing, Writing
<1>3. /\ p.pub.target = project.pub.target /\ p.pub.coverTarget = project.pub.coverTarget
      /\ q.pub.target = project.pub.target /\ q.pub.coverTarget = project.pub.coverTarget
      /\ project.pub.target \in Id
  BY ObjectsNamed DEF ProjectRow, PublicationRow
<1> HIDE DEF p, q
<1>4. Harmless
  <2>1. CASE UNCHANGED document
    BY <2>1, DocumentHarmless
  <2>2. CASE Fenced(w) /\ (project' = p \/ project' = q) /\ UNCHANGED <<assets, settled, ingress>>
    <3>1. Alive
      BY <1>1, <1>2, <2>2 DEF WorkerOK, HoldOK, Holds, Fenced
    <3> QED
      BY <1>3, <2>2, <3>1, StateHarmless
  <2> QED
    BY <1>1, <2>1, <2>2
<1>5. "release" \in WorkPlace /\ "recover" \in WorkPlace /\ "release" \notin Special /\ "recover" \notin Special
  BY DEF WorkPlace, Special
<1> QED
  BY <1>1, <1>2, <1>3, <1>4, <1>5, Goes

LEMMA FailedLawful ==
    ASSUME VideoAssumption, Bounds, Safe, Written, NEW w \in Worker, Rest, Failed(w)
    PROVE  Lawful
<1> DEFINE yes == TRUE
           failed == "failed"
<1>1. /\ work[w].pc = "failed" /\ Jump(w, "release") /\ UNCHANGED <<lease, bucket>>
      /\ \/ UNCHANGED document
         \/ /\ UNCHANGED <<assets, settled, ingress>>
            /\ \/ project' = [project EXCEPT !.pub.pending = yes]
               \/ project' = [project EXCEPT !.pub.state = failed] /\ Alive
               \/ project' = [project EXCEPT !.frame.state = failed] \/ project' = [project EXCEPT !.proc = failed]
  BY DEF Failed, Doing, Project, Blame, Alive
<1> HIDE DEF yes, failed
<1>2. Harmless
  <2>1. CASE UNCHANGED document
    BY <2>1, DocumentHarmless
  <2>2. CASE ~UNCHANGED document
    <3>1. /\ project'.pub.target = project.pub.target /\ project'.pub.coverTarget = project.pub.coverTarget
          /\ Alive' => Alive
      <4>1. project \in ProjectRow
        BY ObjectsNamed
      <4>2. CASE project' = [project EXCEPT !.pub.pending = yes]
        BY <4>1, <4>2 DEF ProjectRow, PublicationRow, Alive
      <4>3. CASE project' = [project EXCEPT !.pub.state = failed] /\ Alive
        BY <4>1, <4>3 DEF ProjectRow, PublicationRow
      <4>4. CASE project' = [project EXCEPT !.frame.state = failed] \/ project' = [project EXCEPT !.proc = failed]
        BY <4>1, <4>4 DEF ProjectRow, PublicationRow, Alive
      <4> QED
        BY <1>1, <2>2, <4>2, <4>3, <4>4
    <3> QED
      BY <1>1, <2>2, <3>1, StateHarmless
  <2> QED
    BY <2>1, <2>2
<1>3. "release" \in WorkPlace /\ "release" \notin Special /\ "release" \notin Judging
  BY DEF WorkPlace, Special, Judging
<1> QED
  BY <1>1, <1>2, <1>3, Goes

LEMMA CleanEndLawful ==
    ASSUME VideoAssumption, Bounds, Safe, Written, NEW w \in Worker, Rest, CleanEnd(w)
    PROVE  Lawful
<1> DEFINE u == ~Uncleaned(w)
           v == Uncleaned(w)
<1>1. /\ work[w].pc = "next" /\ UNCHANGED <<lease, bucket>>
      /\ Throw(w) \/ Jump(w, "release")
      /\ UNCHANGED document \/ Project([project EXCEPT !.cleaned = u, !.pub.pending = v])
  BY DEF CleanEnd, Checkpoint, Doing
<1> HIDE DEF u, v
<1>2. Harmless
  <2>1. CASE UNCHANGED document
    BY <2>1, DocumentHarmless
  <2>2. CASE Project([project EXCEPT !.cleaned = u, !.pub.pending = v])
    <3>1. SamePublication(project')
      BY <2>2, ObjectsNamed, Limits, Elsewhere DEF Project
    <3> QED
      BY <2>2, <3>1, ProjectHarmless DEF Project
  <2> QED
    BY <1>1, <2>1, <2>2
<1>3. "release" \in WorkPlace /\ "release" \notin Special /\ "release" \notin Judging
  BY DEF WorkPlace, Special, Judging
<1> QED
  BY <1>1, <1>2, <1>3, Goes

LEMMA NamesLawful ==
    ASSUME VideoAssumption, Bounds, Safe, Written, NEW w \in Worker, Rest, UNCHANGED <<lease, bucket>>, Onwards, settled' = settled,
           work[w].pc # "put", work[w].job # "clean", Len(assets) + 1 <= MaxAssets,
           NEW e \in AssetRow, e.by = None, ~e.sent, ~e.known, e.state = "pending", assets' = Append(assets, e),
           e.kind = "cover" => CoverRoom /\ Alive,
           NEW for \in {"none", "output", "cover", "target", "coverTarget"}, NEW place \in {"send", "grant"},
           Throw(w) \/ Take(w, for, Len(assets) + 1, place)
    PROVE  Lawful
<1>1. Harmless
  <2>1. Objects /\ Unsending
    BY ObjectAdded
  <2> QED
    BY <2>1 DEF Harmless
<1>2. CASE Throw(w)
  BY <1>1, <1>2, Goes
<1>3. CASE Take(w, for, Len(assets) + 1, place)
  <2>1. Len(assets) + 1 \in Id /\ place \in WorkPlace /\ work \in [Worker -> WorkRow]
    BY Numbers, Limits DEF Id, WorkPlace, Bounds, Typed
  <2>2. Others(w) /\ work'[w].pc = place /\ SameJob(work'[w], work[w]) /\ work'[w].asset = Len(assets) + 1
    BY <1>3, <2>1, Takes
  <2>3. assets'[Len(assets) + 1] = e
    BY Numbers, Appends
  <2>4. SeenOK(w)' /\ SweepOK(w)'
    BY <2>2, <2>3 DEF SeenOK, SweepOK, SameJob
  <2> QED
    BY <1>1, <2>2, <2>4, Sees
<1> QED
  BY <1>2, <1>3

LEMMA StageLawful ==
    ASSUME VideoAssumption, Bounds, Safe, Written, NEW w \in Worker, Rest, Stage(w)
    PROVE  Lawful
<1> DEFINE a == Len(assets) + 1
           yes == TRUE
           e == NewAsset("output", a, None, 0)
<1>1. /\ work[w].pc = "stage" /\ UNCHANGED <<lease, bucket>>
  BY DEF Stage, Doing
<1>2. work[w].job # "clean" /\ "cover" \in WorkPlace /\ "cover" \notin Special /\ project.source \in Id
  BY <1>1, AtWork, ObjectsNamed DEF RouteAt, Finalizing, Cleaning, Clearing, WorkPlace, Special
<1>3. \/ /\ UNCHANGED document \/ Project([project EXCEPT !.facts = yes, !.output = project.source])
         /\ Throw(w) \/ Take(w, "output", project.source, "cover")
      \/ /\ a <= MaxAssets /\ assets' = Append(assets, e) /\ project' = [project EXCEPT !.facts = yes, !.output = a]
         /\ UNCHANGED <<settled, ingress>>
         /\ Throw(w) \/ Take(w, "output", a, "send")
      \/ UNCHANGED document /\ Throw(w)
  BY <1>1 DEF Stage, Checkpoint
<1> HIDE DEF yes
<1>4. CASE UNCHANGED document /\ Throw(w)
  BY <1>1, <1>4, DocumentHarmless, Goes
<1>5. CASE /\ UNCHANGED document \/ Project([project EXCEPT !.facts = yes, !.output = project.source])
           /\ Throw(w) \/ Take(w, "output", project.source, "cover")
  <2>1. Harmless
    <3>1. CASE UNCHANGED document
      BY <3>1, DocumentHarmless
    <3>2. CASE Project([project EXCEPT !.facts = yes, !.output = project.source])
      <4>1. SamePublication(project')
        BY <3>2, ObjectsNamed, Elsewhere DEF Project
      <4> QED
        BY <3>2, <4>1, ProjectHarmless DEF Project
    <3> QED
      BY <1>5, <3>1, <3>2
  <2> QED
    BY <1>1, <1>2, <1>5, <2>1, Goes
<1>6. CASE /\ a <= MaxAssets /\ assets' = Append(assets, e) /\ project' = [project EXCEPT !.facts = yes, !.output = a]
           /\ UNCHANGED <<settled, ingress>>
           /\ Throw(w) \/ Take(w, "output", a, "send")
  <2>1. a \in Id
    BY <1>6, NamesGrow, Limits DEF Id
  <2>2. e \in AssetRow /\ e.by = None /\ e.state = "pending" /\ ~e.sent /\ ~e.known /\ e.kind = "output"
    <3>1. e \in AssetRow /\ e.by = None /\ e.state = "pending"
      BY <2>1, Limits, NewAssets
    <3>2. ~e.sent /\ ~e.known /\ e.kind = "output"
      BY <2>1, Limits, NewAssets
    <3> QED
      BY <3>1, <3>2
  <2>3. SamePublication(project')
    BY <1>6, <2>1, ObjectsNamed, Elsewhere
  <2> HIDE DEF e
  <2>4. Onwards
    BY <1>6, <2>3, PublicationOnwards
  <2> QED
    BY <1>1, <1>2, <1>6, <2>2, <2>4, NamesLawful
<1> QED
  BY <1>3, <1>4, <1>5, <1>6

LEMMA AddCoverLawful ==
    ASSUME VideoAssumption, Bounds, Safe, Written, NEW w \in Worker, Rest, AddCover(w)
    PROVE  Lawful
<1> DEFINE a == Len(assets) + 1
           no == FALSE
           p == [project EXCEPT !.cleaned = no]
           e == NewAsset("cover", a, None, work[w].ask)
<1>1. /\ work[w].pc = "cover" /\ UNCHANGED <<lease, bucket>>
  BY DEF AddCover, Doing
<1>2. /\ work[w].job \in {"process", "frame"} /\ work[w].pc \notin Finalizing /\ WorkerOK(w)
      /\ "finish" \in WorkPlace /\ "finish" \notin Special
  BY <1>1, AtWork DEF RouteAt, Finalizing, Cleaning, Clearing, Writing, WorkPlace, Special
<1>3. \/ UNCHANGED document /\ (Throw(w) \/ Jump(w, "finish"))
      \/ /\ Fenced(w) /\ CoverRoom /\ a <= MaxAssets /\ assets' = Append(assets, e)
         /\ project' = (IF work[w].job = "process" THEN [p EXCEPT !.auto = a] ELSE p)
         /\ UNCHANGED <<settled, ingress>>
         /\ Throw(w) \/ Take(w, "cover", a, "send")
  BY DEF AddCover, Checkpoint
<1>4. CASE UNCHANGED document /\ (Throw(w) \/ Jump(w, "finish"))
  BY <1>1, <1>2, <1>4, DocumentHarmless, Goes
<1>5. CASE /\ Fenced(w) /\ CoverRoom /\ a <= MaxAssets /\ assets' = Append(assets, e)
           /\ project' = (IF work[w].job = "process" THEN [p EXCEPT !.auto = a] ELSE p)
           /\ UNCHANGED <<settled, ingress>>
           /\ Throw(w) \/ Take(w, "cover", a, "send")
  <2>1. a \in Id
    BY <1>5, NamesGrow, Limits DEF Id
  <2>2. e \in AssetRow /\ e.by = None /\ e.state = "pending" /\ ~e.sent /\ ~e.known
    <3>1. work[w].ask \in 0..MaxCommands
      BY DEF Bounds, Typed, WorkRow
    <3> QED
      BY <2>1, <3>1, NewAssets
  <2>3. SamePublication(project')
    <3>1. SamePublication(p) /\ SamePublication([p EXCEPT !.auto = a])
      BY <2>1, ObjectsNamed, Elsewhere
    <3> HIDE DEF p
    <3> QED
      BY <1>5, <3>1
  <2>4. Alive
    BY <1>2, <1>5 DEF WorkerOK, HoldOK, Holds, Fenced
  <2> HIDE DEF e, p
  <2>5. Onwards
    BY <1>5, <2>3, PublicationOnwards
  <2> QED
    BY <1>1, <1>2, <1>5, <2>2, <2>4, <2>5, NamesLawful
<1> QED
  BY <1>3, <1>4, <1>5

LEMMA ReplaceLawful ==
    ASSUME VideoAssumption, Bounds, Safe, Written, CountsOK, NEW w \in Worker, Rest, Replace(w)
    PROVE  Lawful
<1> DEFINE a == Len(assets) + 1
           q == IF work[w].for = "target" THEN [project EXCEPT !.pub.target = a] ELSE [project EXCEPT !.pub.coverTarget = a]
           e == NewAsset(assets[Asset(w)].kind, assets[Asset(w)].of, None, 0)
<1>1. /\ work[w].pc = "replace" /\ UNCHANGED <<lease, bucket>>
      /\ \/ /\ Fenced(w) /\ a <= MaxAssets /\ assets' = Append(assets, e) /\ project' = q /\ UNCHANGED <<settled, ingress>>
            /\ Throw(w) \/ Take(w, work[w].for, a, "grant")
         \/ UNCHANGED document /\ Throw(w)
  BY DEF Replace, Doing, Checkpoint
<1>2. /\ work[w].job = "publish" /\ work[w].pc \notin Finalizing /\ WorkerOK(w) /\ work[w].for \in {"target", "coverTarget"}
      /\ work[w].pc \in Writing
  BY <1>1, AtWork DEF RouteAt, Finalizing, Cleaning, Clearing, Writing
<1>3. CASE UNCHANGED document /\ Throw(w)
  BY <1>1, <1>3, DocumentHarmless, Goes
<1>4. CASE /\ Fenced(w) /\ a <= MaxAssets /\ assets' = Append(assets, e) /\ project' = q /\ UNCHANGED <<settled, ingress>>
           /\ Throw(w) \/ Take(w, work[w].for, a, "grant")
  <2>1. Asset(w) = work[w].asset /\ Asset(w) \in 1..Len(assets) /\ a \in Id /\ Len(assets) \in Nat
    BY <1>1, <1>4, Handles, NamesGrow, Limits DEF Asset, Handling, Id
  <2>2. Alive /\ assets[Asset(w)].kind # "cover"
    <3>1. Alive /\ work[w].asset \in {project.pub.target, project.pub.coverTarget}
      BY <1>2, <1>4 DEF WorkerOK, HoldOK, Holds, Fenced
    <3> QED
      BY <2>1, <3>1 DEF CountsOK
  <2>3. e \in AssetRow /\ e.by = None /\ e.state = "pending" /\ ~e.sent /\ ~e.known /\ e.kind # "cover"
    <3>1. /\ assets[Asset(w)].kind \in {"source", "output", "cover", "published", "publishedCover"}
          /\ assets[Asset(w)].of \in Id /\ None \in Request \union {None} /\ 0 \in 0..MaxCommands
      BY <2>1, AssetTyped, Limits
    <3>2. PICK kind, of : kind = assets[Asset(w)].kind /\ of = assets[Asset(w)].of
      OBVIOUS
    <3>3. e = NewAsset(kind, of, None, 0)
      BY <3>2
    <3> HIDE DEF e
    <3>4. /\ kind \in {"source", "output", "cover", "published", "publishedCover"} /\ kind # "cover"
          /\ of \in Id /\ None \in Request \union {None} /\ 0 \in 0..MaxCommands
      BY <2>2, <3>1, <3>2
    <3>5. e \in AssetRow /\ e.by = None /\ e.state = "pending"
      BY <3>3, <3>4, NewAssets
    <3>6. ~e.sent /\ ~e.known /\ e.kind = kind
      BY <3>3, <3>4, NewAssets
    <3> QED
      BY <3>4, <3>5, <3>6
  <2>4. /\ q.pub.target = (IF work[w].for = "target" THEN a ELSE project.pub.target)
        /\ q.pub.coverTarget = (IF work[w].for = "target" THEN project.pub.coverTarget ELSE a)
    BY ObjectsNamed DEF ProjectRow, PublicationRow
  <2> HIDE DEF q, e
  <2>5. Len(assets') = a /\ assets'[a] = e
    BY <1>4, <2>3, Appends DEF Bounds, Typed, DocumentTyped
  <2>6. Onwards
    BY <1>4, <2>1, <2>2, <2>3, <2>4, <2>5 DEF Onwards, Pointed, Received, Receiving
  <2> QED
    BY <1>1, <1>2, <1>4, <2>3, <2>6, NamesLawful
<1> QED
  BY <1>1, <1>3, <1>4

-----------------------------------------------------------------------------
(* The sweep.                                                              *)

LEMMA SweepLawful ==
    ASSUME VideoAssumption, Bounds, Safe, Written, NEW w \in Worker, Rest, Sweep(w)
    PROVE  Lawful
<1> DEFINE todo == {[id |-> a, sent |-> assets[a].sent, known |-> assets[a].known] : a \in {b \in 1..Len(assets) : ~Kept(b)}}
           pending == \E r \in Request : Receiving(r) /\ ingress[r].live
           d == [work[w] EXCEPT !.pc = "next", !.todo = todo, !.pending = pending]
           swept == [r \in Request |-> IF Receiving(r) /\ ~ingress[r].live THEN [ingress[r] EXCEPT !.state = "failed", !.held = FALSE]
                                       ELSE ingress[r]]
<1>1. /\ work[w].pc = "clean" /\ UNCHANGED <<lease, bucket>> /\ work \in [Worker -> WorkRow]
      /\ Throw(w) \/ work' = [work EXCEPT ![w] = d]
      /\ UNCHANGED document \/ (ingress' = swept /\ UNCHANGED <<project, assets, settled>>)
  BY DEF Sweep, Checkpoint, Doing, Bounds, Typed
<1>2. UNCHANGED <<project, assets, settled>>
  BY <1>1 DEF document
<1>3. Harmless
  <2>1. ASSUME NEW r \in Request, Receiving(r)' PROVE Receiving(r)
    <3>1. CASE UNCHANGED document
      BY <2>1, <3>1 DEF document, Receiving
    <3>2. CASE ingress' = swept
      BY <2>1, <3>2 DEF Receiving, Bounds, Typed, DocumentTyped, IngressRow
    <3> QED
      BY <1>1, <3>1, <3>2
  <2>2. Onwards
    BY <1>2, <2>1 DEF Onwards, Alive, Pointed, Received
  <2> QED
    BY <1>2, <2>2, ObjectsStay DEF Harmless
<1> HIDE DEF swept, pending
<1>4. CASE Throw(w)
  BY <1>1, <1>3, <1>4, Goes
<1>5. CASE work' = [work EXCEPT ![w] = d]
  <2>1. d.pc = "next" /\ d.job = work[w].job /\ d.todo = todo
    BY <1>1 DEF WorkRow
  <2> HIDE DEF d, todo
  <2>2. work'[w] = d /\ Others(w)
    BY <1>1, <1>5 DEF Others, Alike, SameJob, SameObject
  <2>3. OverStays
    BY <1>1, <1>3, <2>1, <2>2, Dries
  <2>4. \A x \in todo : x.sent = assets'[x.id].sent /\ (x.known => Over(x.id)')
    <3>1. ASSUME NEW a \in 1..Len(assets), NEW x, x = [id |-> a, sent |-> assets[a].sent, known |-> assets[a].known]
          PROVE  x.sent = assets'[x.id].sent /\ (x.known => Over(x.id)')
      <4>1. x.id = a /\ x.sent = assets[a].sent /\ x.known = assets[a].known
        BY <3>1
      <4>2. assets[a].known => Over(a)'
        BY <2>3 DEF Written, ObjectsOK, ObjectOK, OverStays
      <4> QED
        BY <1>2, <4>1, <4>2
    <3> QED
      BY <3>1 DEF todo
  <2>5. SeenOK(w)' /\ SweepOK(w)'
    BY <2>1, <2>2, <2>4 DEF SeenOK, SweepOK
  <2> QED
    BY <1>1, <1>3, <2>1, <2>2, <2>5, Sees
<1> QED
  BY <1>1, <1>4, <1>5

LEMMA PickLawful ==
    ASSUME VideoAssumption, Bounds, Safe, Written, NEW w \in Worker, Rest, PickAsset(w)
    PROVE  Lawful
<1>1. /\ work[w].pc = "next" /\ UNCHANGED <<document, lease, bucket>> /\ work \in [Worker -> WorkRow]
  BY DEF PickAsset, Doing, Bounds, Typed
<1>2. PICK x \in work[w].todo :
          work' = [work EXCEPT ![w].todo = @ \ {x}, ![w].asset = x.id, ![w].known = x.known,
                               ![w].pc = IF x.sent THEN "head" ELSE "drop"]
  BY DEF PickAsset
<1> DEFINE rest == work[w].todo \ {x}
           place == IF x.sent THEN "head" ELSE "drop"
           d == [work[w] EXCEPT !.todo = rest, !.asset = x.id, !.known = x.known, !.pc = place]
<1>3. work[w].job = "clean" /\ SweepOK(w)
  BY <1>1, AtWork DEF RouteAt, Finalizing, Cleaning, Clearing, Writing, Written
<1>4. place \in {"head", "drop"} /\ rest \subseteq work[w].todo /\ (place = "head" <=> x.sent)
  OBVIOUS
<1>5. work' = [work EXCEPT ![w] = d]
  BY <1>1, <1>2
<1> HIDE DEF place, rest
<1>6. d.pc = place /\ d.job = "clean" /\ d.todo = rest /\ d.asset = x.id /\ d.known = x.known
  BY <1>1, <1>3 DEF WorkRow
<1> HIDE DEF d
<1>7. work'[w] = d /\ Others(w)
  BY <1>1, <1>5 DEF Others, Alike, SameJob, SameObject
<1>8. Harmless /\ work'[w].pc # "put"
  BY <1>1, <1>4, <1>6, <1>7, DocumentHarmless
<1>9. OverStays /\ Unsending
  BY <1>1, <1>7, <1>8, Dries
<1>10. \A y \in work[w].todo : y.sent = assets'[y.id].sent /\ (y.known => Over(y.id)')
  BY <1>3, <1>9, TodoStays
<1>11. SeenOK(w)'
  BY <1>4, <1>6, <1>7 DEF SeenOK
<1>12. SweepOK(w)'
  BY <1>4, <1>6, <1>7, <1>10 DEF SweepOK
<1> QED
  BY <1>1, <1>7, <1>8, <1>11, <1>12, Sees

-----------------------------------------------------------------------------
(* The worker and the store.                                               *)

LEMMA WorkerWet ==
    ASSUME Bounds, Safe, Written, NEW w \in Worker, Others(w), Rest, UNCHANGED lease, Objects, Stored, Onwards, PutsOK',
           SeenOK(w)', SweepOK(w)', Unsending \/ Fenced(w)
    PROVE  Lawful
<1>1. ObjectsOK' /\ OverStays
  BY ObjectsEvolve DEF Written, Onwards
<1>2. ASSUME NEW q \in Worker PROVE SeenOK(q)' /\ SweepOK(q)'
  <2>1. CASE q # w
    <3>1. Alike(work'[q], work[q]) /\ SeenOK(q) /\ SweepOK(q)
      BY <2>1 DEF Others, Written
    <3>2. Holds(q) => Unsending
      BY <2>1 DEF Holds, Fenced
    <3> QED
      BY <1>1, <2>1, <3>1, <3>2, SeenStays DEF Unsending, LeaseLive
  <2> QED
    BY <2>1
<1>3. ASSUME NEW r \in Request PROVE AnswerOK(r)'
  BY <1>1, AnswerStays DEF Rest, Written
<1> QED
  BY <1>1, <1>2, <1>3 DEF Lawful, Written

LEMMA SendingMoves ==
    ASSUME NEW w \in Worker, Others(w), Rest, Objects, NEW b \in 1..Len(assets)
    PROVE  /\ Sending(b)' => Sending(b) \/ (work'[w].pc = "put" /\ work'[w].asset = b)
           /\ Sending(b) => Sending(b)' \/ (work[w].pc = "put" /\ work[w].asset = b)
<1>1. \A q \in Worker : q # w => work'[q].pc = work[q].pc /\ work'[q].asset = work[q].asset
  BY DEF Others, Alike, SameObject
<1>2. assets'[b].by = assets[b].by /\ calls' = calls
  BY DEF Objects, Aged, Rest
<1> QED
  BY <1>1, <1>2 DEF Sending

LEMMA SendLawful ==
    ASSUME VideoAssumption, Bounds, Safe, Written, NEW w \in Worker, Rest, Send(w)
    PROVE  Lawful
<1>1. /\ work[w].pc = "send" /\ UNCHANGED <<lease, bucket>> /\ work \in [Worker -> WorkRow] /\ "put" \in WorkPlace
      /\ \/ /\ Fenced(w) /\ MarkSent(Asset(w)) /\ settled' = settled \ {Asset(w)} /\ UNCHANGED <<project, ingress>>
            /\ Jump(w, "put") \/ Throw(w)
         \/ UNCHANGED document /\ Throw(w)
  BY DEF Send, Checkpoint, Doing, Bounds, Typed, WorkPlace
<1>2. CASE UNCHANGED document /\ Throw(w)
  BY <1>1, <1>2, DocumentHarmless, Goes
<1>3. CASE /\ Fenced(w) /\ MarkSent(Asset(w)) /\ settled' = settled \ {Asset(w)} /\ UNCHANGED <<project, ingress>>
           /\ Jump(w, "put") \/ Throw(w)
  <2>0. PICK a : a = work[w].asset
    OBVIOUS
  <2>1. a \in 1..Len(assets) /\ work[w].job \notin {"none", "clean"} /\ SeenOK(w) /\ WorkerOK(w) /\ ObjectOK(a)
    BY <1>1, <2>0, Numbers, AtWork DEF RouteAt, Finalizing, Cleaning, Clearing, Handling, Written, ObjectsOK, Safe
  <2>2. Holds(w)
    BY <1>1, <1>3, <2>1, AtWork DEF Holds, Fenced, Finalizing
  <2>3. ~assets[a].sent /\ assets[a].by = None /\ Alive
    BY <1>1, <2>0, <2>1, <2>2 DEF SeenOK, WorkerOK, HoldOK
  <2>4. ~Landing(a)
    BY <2>1, <2>3 DEF ObjectOK
  <2>5. /\ Objects /\ assets'[a].sent /\ Len(assets') = Len(assets)
        /\ \A b \in 1..Len(assets) : b # a => assets'[b].sent = assets[b].sent
    BY <1>3, <2>0, <2>1, <2>3, ObjectMarked, Marks, Numbers DEF Asset
  <2>6. PICK place \in {"put", "cleanFail", "finish", "failed"} : Jump(w, place)
    BY <1>3, Throws
  <2>7. Others(w) /\ work'[w].pc = place /\ work'[w].job = work[w].job /\ work'[w].asset = a
    BY <1>1, <2>0, <2>6, Jumps DEF SameJob, SameObject, WorkPlace
  <2>8. Onwards
    BY <1>3, PublicationOnwards DEF SamePublication
  <2>9. stored' = stored /\ inflight' = inflight /\ settled' = settled \ {a}
    BY <1>1, <1>3, <2>0 DEF bucket, Asset
  <2>10. ASSUME NEW b \in 1..Len(assets) PROVE Lands(b)
    <3>1. Landing(b)' => Landing(b) \/ b = a
      BY <2>5, <2>7, <2>9, SendingMoves DEF Landing
    <3>2. Landing(b) => Landing(b)'
      BY <1>1, <2>5, <2>7, <2>9, SendingMoves DEF Landing
    <3>3. b \in settled' => b \in settled
      BY <2>9
    <3> QED
      BY <2>3, <2>5, <2>9, <3>1, <3>3 DEF Lands
  <2>11. Stored
    BY <2>5, <2>10 DEF Stored
  <2>12. PutsOK'
    <3>1. ASSUME NEW q \in Worker, work'[q].pc = "put"
          PROVE  lease'.owner = q /\ LeaseLive' /\ work'[q].asset \notin inflight' /\ assets'[work'[q].asset].by = None
      <4>1. CASE q = w
        BY <1>1, <1>3, <2>1, <2>3, <2>4, <2>5, <2>7, <2>9, <4>1 DEF Fenced, LeaseLive, Landing, Objects, Aged
      <4>2. CASE q # w
        <5>1. work[q].pc = "put"
          BY <2>7, <3>1, <4>2 DEF Others, Alike
        <5> QED
          BY <1>3, <4>2, <5>1 DEF Written, PutsOK, Fenced
      <4> QED
        BY <4>1, <4>2
    <3>2. ASSUME NEW r \in Request, NEW b \in 1..Len(assets'), assets'[b].by = r
          PROVE  (calls'[r].pc = "put" => b \notin inflight') /\ (calls'[r].pc = "intent" => b \notin settled')
      <4>1. assets[b].by = r /\ calls'[r] = calls[r]
        BY <2>5, <3>2 DEF Objects, Aged, Rest
      <4> QED
        BY <2>5, <2>9, <4>1 DEF Written, PutsOK
    <3> QED
      BY <3>1, <3>2 DEF PutsOK
  <2>13. SeenOK(w)' /\ SweepOK(w)'
    BY <2>1, <2>6, <2>7 DEF SeenOK, SweepOK
  <2> QED
    BY <1>1, <1>3, <2>5, <2>7, <2>8, <2>11, <2>12, <2>13, WorkerWet
<1> QED
  BY <1>1, <1>2, <1>3

(* The one PUT of an object ends, or its outcome is lost.                  *)
LEMMA PutLawful ==
    ASSUME VideoAssumption, Bounds, Safe, Written, NEW w \in Worker, Rest, work[w].pc = "put", UNCHANGED <<document, lease>>,
           Others(w), work'[w].pc \in {"ack", "idle", "finish", "failed"}, work'[w].job # "clean",
           \/ /\ stored' = stored \union {work[w].asset} /\ inflight' = inflight
              /\ work'[w].pc = "ack" => work'[w].asset = work[w].asset
           \/ inflight' = inflight \union {work[w].asset} /\ stored' = stored /\ work'[w].pc # "ack"
    PROVE  Lawful
<1>0. PICK a : a = work[w].asset
  OBVIOUS
<1>1. /\ a \in 1..Len(assets) /\ ObjectOK(a) /\ lease.owner = w /\ LeaseLive /\ a \notin inflight /\ assets[a].by = None
      /\ UNCHANGED <<project, assets, settled, ingress>> /\ None \notin Request
  BY <1>0, Numbers DEF Handling, Written, ObjectsOK, PutsOK, document, VideoAssumption
<1>2. Harmless /\ Objects /\ Unsending /\ Onwards
  BY DocumentHarmless DEF Harmless
<1>3. Landing(a) /\ assets[a].sent
  BY <1>0, <1>1 DEF Landing, Sending, ObjectOK
<1>4. \A q \in Worker : work'[q].pc # "put"
  <2>1. ASSUME NEW q \in Worker, q # w PROVE work'[q].pc # "put"
    <3>1. work[q].pc # "put"
      BY <1>1, <2>1 DEF Written, PutsOK
    <3> QED
      BY <2>1, <3>1 DEF Others, Alike
  <2> QED
    BY <2>1
<1>5. ~Sending(a)'
  BY <1>1, <1>4 DEF Sending, Rest
<1>6. ASSUME NEW b \in 1..Len(assets) PROVE Lands(b)
  <2>1. CASE b = a
    BY <1>1, <1>3, <1>5, <2>1 DEF Lands, Landing, ObjectOK
  <2>2. CASE b # a
    <3>1. Landing(b)' <=> Landing(b)
      BY <1>0, <1>1, <1>2, <1>4, <2>2, SendingMoves DEF Landing
    <3>2. ObjectOK(b)
      BY DEF Written, ObjectsOK
    <3> QED
      BY <1>0, <1>1, <2>2, <3>1, <3>2 DEF Lands, ObjectOK
  <2> QED
    BY <2>1, <2>2
<1>7. Stored
  BY <1>1, <1>6 DEF Stored
<1>8. PutsOK'
  <2>1. ASSUME NEW r \in Request, NEW b \in 1..Len(assets), assets[b].by = r
        PROVE  (calls'[r].pc = "put" => b \notin inflight') /\ (calls'[r].pc = "intent" => b \notin settled')
    BY <1>0, <1>1, <2>1 DEF Written, PutsOK, Rest
  <2> QED
    BY <1>1, <1>4, <2>1 DEF PutsOK
<1>9. SeenOK(w)' /\ SweepOK(w)'
  <2>1. work'[w].pc = "ack" => Over(a)'
    BY <1>1, <1>3, <1>5 DEF Over, Landing
  <2>2. work'[w].pc = "ack" => work'[w].asset = a
    BY <1>0
  <2> QED
    BY <2>1, <2>2 DEF SeenOK, SweepOK
<1> QED
  BY <1>2, <1>7, <1>8, <1>9, WorkerWet

LEMMA PutsLawful ==
    ASSUME VideoAssumption, Bounds, Safe, Written, NEW w \in Worker, Rest, Put(w)
    PROVE  Lawful
<1>1. /\ work[w].pc = "put" /\ UNCHANGED <<document, lease>> /\ work \in [Worker -> WorkRow]
      /\ \/ stored' = stored \union {work[w].asset} /\ Jump(w, "ack") /\ UNCHANGED inflight
         \/ inflight' = inflight \union {work[w].asset} /\ Throw(w) /\ UNCHANGED stored
  BY DEF Put, Doing, Asset, Bounds, Typed
<1>2. work[w].job # "clean"
  BY <1>1, AtWork DEF RouteAt, Finalizing, Cleaning, Clearing
<1>3. CASE stored' = stored \union {work[w].asset} /\ Jump(w, "ack") /\ UNCHANGED inflight
  <2>1. Others(w) /\ work'[w].pc = "ack" /\ work'[w].job = work[w].job /\ work'[w].asset = work[w].asset
    BY <1>1, <1>3, Jumps DEF SameJob, SameObject, WorkPlace
  <2> QED
    BY <1>1, <1>2, <1>3, <2>1, PutLawful
<1>4. CASE inflight' = inflight \union {work[w].asset} /\ Throw(w) /\ UNCHANGED stored
  <2>1. PICK place \in {"finish", "failed"} : Jump(w, place)
    BY <1>2, <1>4, Throws
  <2>2. Others(w) /\ work'[w].pc = place /\ work'[w].job = work[w].job
    BY <1>1, <2>1, Jumps DEF SameJob, SameObject, WorkPlace
  <2> QED
    BY <1>1, <1>2, <1>4, <2>1, <2>2, PutLawful
<1> QED
  BY <1>1, <1>3, <1>4

(* A worker without a job has seen nothing.                                *)
LEMMA IdleSees ==
    ASSUME VideoAssumption, Bounds, NEW w \in Worker, work' = [work EXCEPT ![w] = Idle]
    PROVE  Others(w) /\ work'[w].pc = "idle" /\ work'[w].job = "none" /\ SeenOK(w)' /\ SweepOK(w)'
<1>1. work \in [Worker -> WorkRow]
  BY DEF Bounds, Typed
<1>2. work'[w] = Idle /\ Others(w)
  BY <1>1 DEF Others, Alike, SameJob, SameObject
<1> QED
  BY <1>2, IdleTyped DEF SeenOK, SweepOK

LEMMA CrashLawful ==
    ASSUME VideoAssumption, Bounds, Safe, Written, NEW w \in Worker, Rest, Crash(w)
    PROVE  Lawful
<1>1. /\ work' = [work EXCEPT ![w] = Idle] /\ UNCHANGED <<document, stored, lease>>
      /\ inflight' = IF work[w].pc = "put" THEN inflight \union {work[w].asset} ELSE inflight
  BY DEF Crash, Doing, Asset
<1>2. Others(w) /\ work'[w].pc = "idle" /\ work'[w].job = "none" /\ SeenOK(w)' /\ SweepOK(w)'
  BY <1>1, IdleSees
<1>3. CASE work[w].pc = "put"
  BY <1>1, <1>2, <1>3, PutLawful
<1>4. CASE work[w].pc # "put"
  BY <1>1, <1>2, <1>4, DocumentHarmless, Sees DEF bucket
<1> QED
  BY <1>3, <1>4

LEMMA EraseLawful ==
    ASSUME VideoAssumption, Bounds, Safe, Written, NEW w \in Worker, Rest, Erase(w)
    PROVE  Lawful
<1>0. PICK a : a = work[w].asset
  OBVIOUS
<1>1. /\ work[w].pc = "erase" /\ UNCHANGED <<document, lease>> /\ stored' \subseteq stored /\ inflight' = inflight
      /\ Throw(w) \/ Jump(w, "confirm")
      /\ work \in [Worker -> WorkRow] /\ a \in 1..Len(assets)
  BY <1>0, Numbers DEF Erase, Doing, Asset, Bounds, Typed, Handling
<1>2. work[w].job = "clean" /\ SweepOK(w)
  BY <1>1, AtWork DEF RouteAt, Finalizing, Cleaning, Clearing, Writing, Written
<1>3. PICK place \in {"confirm", "cleanFail", "finish", "failed"} : Jump(w, place)
  BY <1>1, Throws
<1>4. Others(w) /\ work'[w].pc = place /\ SameJob(work'[w], work[w]) /\ work'[w].asset = a
  BY <1>0, <1>1, <1>3, Jumps DEF SameObject, WorkPlace
<1>5. Harmless /\ Objects /\ Unsending /\ Onwards /\ UNCHANGED <<assets, settled>>
  BY <1>1, DocumentHarmless DEF Harmless, document
<1>6. PutsStand
  BY <1>1, <1>4 DEF PutsStand, Others, Alike, SameObject, Rest
<1>7. ASSUME NEW b \in 1..Len(assets) PROVE Lands(b)
  <2>1. Landing(b)' <=> Landing(b)
    BY <1>1, <1>4, <1>5, SendingMoves DEF Landing
  <2>2. ObjectOK(b)
    BY DEF Written, ObjectsOK
  <2> QED
    BY <1>1, <1>5, <2>1, <2>2 DEF Lands, ObjectOK
<1>8. Stored
  BY <1>5, <1>7 DEF Stored
<1>9. OverStays
  BY <1>5, <1>8, ObjectsEvolve DEF Written, Onwards
<1>10. PutsOK'
  <2>1. ASSUME NEW q \in Worker, work'[q].pc = "put"
        PROVE  lease'.owner = q /\ LeaseLive' /\ work'[q].asset \notin inflight' /\ assets'[work'[q].asset].by = None
    <3>1. work[q].pc = "put" /\ work'[q].asset = work[q].asset
      BY <1>6, <2>1 DEF PutsStand
    <3> QED
      BY <1>1, <1>5, <3>1 DEF Written, PutsOK, LeaseLive
  <2> QED
    BY <1>1, <1>5, <2>1 DEF Written, PutsOK, Rest
<1>11. SeenOK(w)'
  BY <1>3, <1>4 DEF SeenOK
<1>12. SweepOK(w)'
  <2>1. \A y \in work[w].todo : y.sent = assets'[y.id].sent /\ (y.known => Over(y.id)')
    BY <1>2, <1>5, <1>9, TodoStays
  <2>2. Over(a)'
    BY <1>0, <1>1, <1>2, <1>9 DEF SweepOK, OverStays
  <2> QED
    BY <1>3, <1>4, <2>1, <2>2 DEF SweepOK, SameJob
<1> QED
  BY <1>1, <1>4, <1>5, <1>8, <1>10, <1>11, <1>12, WorkerWet

-----------------------------------------------------------------------------
(* Leases.                                                                 *)

(* The lease passes while nobody is within a PUT.                          *)
LEMMA LeasePasses ==
    ASSUME Bounds, Safe, Written, NEW w \in Worker, Others(w), Rest, UNCHANGED bucket, Harmless,
           work[w].pc # "put", work'[w].pc # "put", SeenOK(w)', SweepOK(w)',
           \A q \in Worker : work[q].pc = "put" => lease' = lease,
           \A q \in Worker : q # w /\ lease'.owner = q /\ LeaseLive' => lease.owner = q /\ LeaseLive
    PROVE  Lawful
<1>1. PutsStand
  BY DEF PutsStand, Others, Alike, SameObject, Rest
<1>2. \A q \in Worker : work[q].pc = "put" => lease'.owner = q /\ LeaseLive'
  BY DEF Written, PutsOK, LeaseLive
<1>3. Dry
  BY <1>1, <1>2 DEF Dry, Harmless, Rest, bucket, Onwards
<1>4. Written'
  BY <1>3, WorkerDry
<1> QED
  BY <1>4 DEF Lawful, Harmless

LEMMA ReleaseLawful ==
    ASSUME VideoAssumption, Bounds, Safe, Written, NEW w \in Worker, Rest, Release(w)
    PROVE  Lawful
<1>1. /\ work[w].pc = "release" /\ work' = [work EXCEPT ![w] = Idle] /\ UNCHANGED <<document, bucket>>
      /\ lease' = (IF lease.owner = w THEN [owner |-> None, until |-> "null"] ELSE lease)
  BY DEF Release, Doing
<1>2. Others(w) /\ work'[w].pc = "idle" /\ SeenOK(w)' /\ SweepOK(w)'
  BY <1>1, IdleSees
<1>3. \A q \in Worker : work[q].pc = "put" => lease' = lease
  BY <1>1 DEF Written, PutsOK
<1>4. \A q \in Worker : q # w /\ lease'.owner = q /\ LeaseLive' => lease.owner = q /\ LeaseLive
  BY <1>1 DEF VideoAssumption, LeaseLive
<1> QED
  BY <1>1, <1>2, <1>3, <1>4, DocumentHarmless, LeasePasses

LEMMA PollLawful ==
    ASSUME VideoAssumption, Bounds, Safe, Written, NEW w \in Worker, Rest, Poll(w)
    PROVE  Lawful
<1> DEFINE sight == [until |-> lease.until, proc |-> project.proc, frame |-> project.frame.state, pub |-> project.pub.state]
           d == [Idle EXCEPT !.pc = "claim", !.seen = sight]
<1>1. work[w].pc = "idle" /\ work' = [work EXCEPT ![w] = d] /\ UNCHANGED <<document, lease, bucket>> /\ work \in [Worker -> WorkRow]
  BY DEF Poll, Doing, Bounds, Typed
<1>2. d.pc = "claim" /\ d.job = "none"
  BY IdleTyped DEF WorkRow
<1> HIDE DEF d
<1>3. work'[w] = d /\ Others(w)
  BY <1>1 DEF Others, Alike, SameJob, SameObject
<1>4. SeenOK(w)' /\ SweepOK(w)'
  BY <1>2, <1>3 DEF SeenOK, SweepOK
<1> QED
  BY <1>1, <1>2, <1>3, <1>4, DocumentHarmless, Sees

LEMMA ClaimLawful ==
    ASSUME VideoAssumption, Bounds, Safe, Written, NEW w \in Worker, Rest, Claim(w)
    PROVE  Lawful
<1>1. UNCHANGED <<document, bucket>> /\ work[w].pc = "claim" /\ work \in [Worker -> WorkRow] /\ Harmless
  BY DocumentHarmless DEF Claim, Doing, Bounds, Typed
<1>2. CASE Jump(w, "deny") /\ UNCHANGED lease
  <2>1. "deny" \in WorkPlace /\ "deny" \notin Special /\ "deny" \notin Judging
    BY DEF WorkPlace, Special, Judging
  <2> QED
    BY <1>1, <1>2, <2>1, Goes
<1>3. CASE work' = [work EXCEPT ![w] = Idle] /\ UNCHANGED lease
  <2>1. Others(w) /\ work'[w].pc = "idle" /\ SeenOK(w)' /\ SweepOK(w)'
    BY <1>3, IdleSees
  <2> QED
    BY <1>1, <1>3, <2>1, Sees
<1>4. CASE ~(Jump(w, "deny") /\ UNCHANGED lease) /\ ~(work' = [work EXCEPT ![w] = Idle] /\ UNCHANGED lease)
  <2> DEFINE d == [Idle EXCEPT !.job = Job, !.pc = IF Job = "none" THEN "release" ELSE Job]
  <2>1. /\ lease' = [owner |-> w, until |-> "live"] /\ ~LeaseLive
        /\ work' = [q \in Worker |-> IF q # w THEN Renewed(work[q]) ELSE d]
    BY <1>4 DEF Claim
  <2>2. Job \in {"none", "clean", "publish", "process", "frame"}
    BY DEF Job
  <2>3. d \in WorkRow /\ d.asset = 0 /\ d.todo = {} /\ d.rev = 0 /\ d.ask = 0 /\ d.pc \notin Handling
    BY <2>2, IdleTyped DEF WorkRow, WorkPlace, Handling
  <2> HIDE DEF d
  <2>4. work' = [q \in Worker |-> IF q = w THEN d ELSE Renewed(work[q])]
    BY <2>1
  <2>5. Others(w) /\ work'[w] = d
    BY <1>1, <2>3, <2>4, OneClaims, DocumentFacts DEF Went
  <2>6. SeenOK(w)' /\ SweepOK(w)'
    BY <2>3, <2>5 DEF SeenOK, SweepOK, Handling
  <2>7. work'[w].pc # "put"
    BY <2>3, <2>5 DEF Handling
  <2>8. \A q \in Worker : work[q].pc # "put"
    BY <2>1 DEF Written, PutsOK
  <2> QED
    BY <1>1, <2>1, <2>5, <2>6, <2>7, <2>8, LeasePasses
<1> QED
  BY <1>2, <1>3, <1>4

LEMMA DenyLawful ==
    ASSUME VideoAssumption, NoRivals, Bounds, Safe, Written, NEW w \in Worker, Rest, Deny(w)
    PROVE  Lawful
<1> DEFINE proc == IF Active(work[w].seen.proc) THEN "failed" ELSE project.proc
           frame == IF Active(work[w].seen.frame) THEN "failed" ELSE project.frame.state
           state == IF Active(work[w].seen.pub) THEN "failed" ELSE project.pub.state
           p == [project EXCEPT !.proc = proc, !.frame.state = frame, !.pub.state = state]
<1>1. /\ work[w].pc = "deny" /\ UNCHANGED bucket /\ work' = [q \in Worker |-> IF q = w THEN Idle ELSE Renewed(work[q])]
      /\ \/ UNCHANGED document
         \/ project' = p /\ UNCHANGED <<assets, settled, ingress>>
  BY DEF Deny, Doing, Project
<1>2. "revoke" \in Asks /\ \A q \in Worker : q = w
  BY <1>1 DEF Safe, RolesOK, NoRivals
<1>3. Active(work[w].seen.pub) => project.pub.state # "complete"
  BY <1>1, <1>2 DEF Safe, RolesOK, Seeing
<1>4. state = "complete" <=> project.pub.state = "complete"
  BY <1>3
<1> HIDE DEF proc, frame, state
<1>5. Harmless
  <2>1. CASE UNCHANGED document
    BY <2>1, DocumentHarmless
  <2>2. CASE project' = p /\ UNCHANGED <<assets, settled, ingress>>
    <3>1. /\ p.cancelled = project.cancelled /\ p.pub.state = state
          /\ p.pub.target = project.pub.target /\ p.pub.coverTarget = project.pub.coverTarget
      BY ObjectsNamed DEF ProjectRow, PublicationRow
    <3> HIDE DEF p
    <3>2. Alive' => Alive
      BY <1>4, <2>2, <3>1 DEF Alive
    <3> QED
      BY <2>2, <3>1, <3>2, StateHarmless
  <2> QED
    BY <1>1, <2>1, <2>2
<1>6. work'[w] = Idle /\ Others(w)
  BY <1>1, <1>2 DEF Others
<1>7. work'[w].pc = "idle" /\ SeenOK(w)' /\ SweepOK(w)'
  BY <1>6, IdleTyped DEF SeenOK, SweepOK
<1>8. \A q \in Worker : work[q].pc # "put"
  BY <1>1, <1>2
<1> QED
  BY <1>1, <1>2, <1>5, <1>6, <1>7, <1>8, LeasePasses

(* A lease runs out: not within a PUT.                                     *)
LEMMA LapseLawful ==
    ASSUME VideoAssumption, Bounds, Safe, Written, Rest, LeaseLapse
    PROVE  Lawful
<1>1. /\ UNCHANGED <<document, bucket, work, calls>>
      /\ lease.owner = None \/ Doing(lease.owner, "idle") \/ ~Doing(lease.owner, "put")
      /\ lease' = [lease EXCEPT !.until = "expired"]
  BY DEF LeaseLapse, Rest
<1>2. ~LeaseLive'
  BY <1>1 DEF LeaseLive, Bounds, Typed
<1>3. \A w \in Worker : work[w].pc # "put"
  BY <1>1 DEF Written, PutsOK, Doing, VideoAssumption
<1>4. Harmless
  BY <1>1, DocumentHarmless
<1>5. Dry
  BY <1>1, <1>3, <1>4 DEF Dry, Harmless, PutsStand, bucket, Onwards
<1>6. OverStays /\ Objects
  BY <1>5, DrySteps DEF Dry
<1>7. \A r \in Request : AnswerOK(r)'
  BY <1>1, <1>6, AnswerStays DEF Written
<1>8. Written'
  BY <1>1, <1>2, <1>5, <1>7, RestDry
<1> QED
  BY <1>4, <1>8 DEF Lawful, Harmless

-----------------------------------------------------------------------------
(* Steps of the administrator, the calls and the environment: the workers  *)
(* stand still.                                                            *)

LEMMA RestIsDry ==
    ASSUME Bounds, Written, UNCHANGED <<work, lease, bucket>>, Harmless,
           \A r \in Request : calls'[r].pc = "put" <=> calls[r].pc = "put",
           \A r \in Request : calls'[r].pc = "intent" => calls[r].pc = "intent" \/ \A a \in 1..Len(assets) : assets[a].by # r
    PROVE  Dry /\ OverStays /\ Objects /\ Unsending /\ Onwards
<1>1. PutsStand
  BY DEF PutsStand
<1>2. \A w \in Worker : work[w].pc = "put" => lease'.owner = w /\ LeaseLive'
  BY DEF Written, PutsOK, LeaseLive
<1>3. Dry
  BY <1>1, <1>2 DEF Dry, Harmless, bucket, Onwards
<1> QED
  BY <1>3, DrySteps DEF Harmless

LEMMA RestAnswers ==
    ASSUME Bounds, Safe, Written, UNCHANGED <<work, lease, bucket>>, Harmless, Dry, \A r \in Request : AnswerOK(r)'
    PROVE  Lawful
<1>1. Written'
  BY RestDry
<1> QED
  BY <1>1 DEF Lawful, Harmless

(* A call stands still, or goes where nothing is asked of it.              *)
Calm(r) == \/ calls'[r] = calls[r]
           \/ /\ calls[r].pc # "put" /\ calls'[r].pc \notin {"put", "record", "resolve"}
              /\ calls'[r].pc = "intent" => \A a \in 1..Len(assets) : assets[a].by # r

LEMMA RestGoes ==
    ASSUME Bounds, Safe, Written, UNCHANGED <<work, lease, bucket>>, Harmless, \A r \in Request : Calm(r)
    PROVE  Lawful
<1>1. \A r \in Request : calls'[r].pc = "put" <=> calls[r].pc = "put"
  BY DEF Calm
<1>2. \A r \in Request : calls'[r].pc = "intent" => calls[r].pc = "intent" \/ \A a \in 1..Len(assets) : assets[a].by # r
  BY DEF Calm
<1>3. Dry /\ OverStays /\ Objects
  BY <1>1, <1>2, RestIsDry
<1>4. \A r \in Request : AnswerOK(r)'
  BY <1>3, AnswerStays DEF Written, Calm
<1> QED
  BY <1>3, <1>4, RestAnswers

(* One call moves.                                                         *)
LEMMA CallCalm ==
    ASSUME Bounds, NEW r \in Request, calls[r].pc # "put",
           NEW pc \in CallPlace \ {"put", "record", "resolve"},
           pc = "intent" => \A a \in 1..Len(assets) : assets[a].by # r,
           Goto(r, pc) \/ \E d : d.pc = pc /\ calls' = [calls EXCEPT ![r] = d]
    PROVE  \A q \in Request : Calm(q)
<1>1. calls \in [Request -> CallRow]
  BY DEF Bounds, Typed
<1>2. /\ calls'[r].pc = pc /\ \A q \in Request : q # r => calls'[q] = calls[q]
  BY <1>1 DEF Goto, CallRow
<1> QED
  BY <1>2 DEF Calm

LEMMA CommandLawful ==
    ASSUME Bounds, Safe, Written, NEW name, Command(name), Harmless, \A r \in Request : Calm(r)
    PROVE  Lawful
<1>1. UNCHANGED <<work, lease, bucket>>
  BY DEF Command
<1> QED
  BY <1>1, RestGoes

LEMMA RequestsLawful ==
    ASSUME VideoAssumption, Bounds, Safe, Written,
           \/ RetryProcessing \/ RequestFrame \/ Cleanup
           \/ \E r \in Request : ReconcileIngress(r) \/ \E a \in 1..Len(assets) : Reconcile(r, a)
    PROVE  Lawful
<1> DEFINE yes == TRUE
           no == FALSE
           queued == "queued"
<1>1. project \in ProjectRow /\ queued \in JobState
  BY ObjectsNamed DEF JobState
<1>2. UNCHANGED calls => \A r \in Request : Calm(r)
  BY DEF Calm
<1>3. CASE RetryProcessing
  <2>1. Command("reprocess") /\ project' = [project EXCEPT !.proc = queued] /\ UNCHANGED <<assets, settled, ingress, calls>>
    BY <1>3 DEF RetryProcessing, Decide
  <2> HIDE DEF queued
  <2>2. SamePublication(project')
    BY <1>1, <2>1, Limits, Elsewhere
  <2> QED
    BY <1>2, <2>1, <2>2, ProjectHarmless, CommandLawful
<1>4. CASE RequestFrame
  <2> DEFINE frame == [state |-> "queued", rev |-> project.rev, ask |-> commands']
  <2>1. Command("frame") /\ project' = [project EXCEPT !.frame = frame] /\ UNCHANGED <<assets, settled, ingress, calls>>
    BY <1>4 DEF RequestFrame, Decide
  <2> HIDE DEF frame
  <2>2. SamePublication(project')
    BY <1>1, <2>1 DEF SamePublication, ProjectRow
  <2> QED
    BY <1>2, <2>1, <2>2, ProjectHarmless, CommandLawful
<1>5. CASE Cleanup
  <2>1. /\ Command("cleanup") /\ project' = [project EXCEPT !.cleaned = no, !.pub.pending = yes]
        /\ UNCHANGED <<assets, settled, ingress, calls>>
    BY <1>5 DEF Cleanup, Decide
  <2> HIDE DEF yes, no
  <2>2. SamePublication(project')
    BY <2>1, <1>1, Limits, Elsewhere
  <2> QED
    BY <1>2, <2>1, <2>2, ProjectHarmless, CommandLawful
<1>6. ASSUME NEW r \in Request, ReconcileIngress(r) PROVE Lawful
  <2> DEFINE failed == "failed"
  <2>1. /\ Command("reconcile") /\ UNCHANGED <<project, assets, settled, calls>>
        /\ ingress' = [ingress EXCEPT ![r].state = failed, ![r].held = no] /\ failed # "receiving"
    BY <1>6 DEF ReconcileIngress
  <2> HIDE DEF failed, no
  <2>2. \A q \in Request : Receiving(q)' => Receiving(q)
    BY <2>1 DEF Receiving, Bounds, Typed, DocumentTyped, IngressRow
  <2>3. Onwards
    BY <2>1, <2>2 DEF Onwards, Alive, Pointed, Received
  <2>4. Harmless
    BY <2>1, <2>3, ObjectsStay DEF Harmless
  <2> QED
    BY <1>2, <2>1, <2>4, CommandLawful
<1>7. ASSUME NEW r \in Request, NEW a \in 1..Len(assets), Reconcile(r, a) PROVE Lawful
  <2> DEFINE d == [pc |-> "inspect", asset |-> a, found |-> "no"]
  <2>1. /\ Command("reconcile") /\ UNCHANGED document /\ calls' = [calls EXCEPT ![r] = d] /\ d.pc = "inspect"
        /\ calls[r].pc = "idle"
    BY <1>7 DEF Reconcile, At
  <2> HIDE DEF d
  <2>2. \A q \in Request : Calm(q)
    BY <2>1, CallCalm DEF CallPlace
  <2> QED
    BY <2>1, <2>2, DocumentHarmless, CommandLawful
<1> QED
  BY <1>3, <1>4, <1>5, <1>6, <1>7

LEMMA ReserveLawful ==
    ASSUME VideoAssumption, Bounds, Safe, Written, NEW r \in Request, NEW kind \in {"source", "cover"}, Reserve(r, kind)
    PROVE  Lawful
<1> DEFINE no == FALSE
           rev == IF ingress[r].state = "none" /\ kind = "cover" THEN project.rev + 1 ELSE project.rev
           Closed(q) == [ingress[q] EXCEPT !.state = "failed", !.held = FALSE]
<1>1. /\ Command(kind) /\ project' = [project EXCEPT !.rev = rev, !.cleaned = no] /\ UNCHANGED <<assets, settled>>
      /\ Goto(r, "digest") /\ calls[r].pc = "idle" /\ Alone
      /\ \E d : ingress' = [q \in Request |-> IF q = r THEN d ELSE IF Receiving(q) /\ ~ingress[q].live THEN Closed(q) ELSE ingress[q]]
  BY DEF Reserve, At
<1> HIDE DEF rev, no
<1>2. SamePublication(project')
  BY <1>1, ObjectsNamed DEF SamePublication, ProjectRow
<1>3. \A q \in Request : Closed(q).state # "receiving"
  BY DEF Bounds, Typed, DocumentTyped, IngressRow
<1> HIDE DEF Closed
<1>4. ASSUME NEW q \in Request, q # r PROVE ~Receiving(q)'
  <2>1. ingress'[q] = IF Receiving(q) /\ ~ingress[q].live THEN Closed(q) ELSE ingress[q]
    BY <1>1, <1>4
  <2> QED
    BY <1>1, <1>3, <2>1 DEF Receiving, Alone
<1>5. Onwards
  BY <1>2, <1>4 DEF Onwards, SamePublication, Alive, Pointed, Received
<1>6. Harmless
  BY <1>1, <1>5, ObjectsStay DEF Harmless
<1>7. \A q \in Request : Calm(q)
  BY <1>1, CallCalm DEF CallPlace
<1> QED
  BY <1>1, <1>6, <1>7, CommandLawful

LEMMA EditLawful ==
    ASSUME VideoAssumption, Bounds, Safe, Written, NEW c \in 0..Automatic, Edit(c)
    PROVE  Lawful
<1> DEFINE next == project.rev + 1
           pub == IF project.pub.state = "failed" THEN IdlePublication ELSE project.pub
           p == [project EXCEPT !.choice = c, !.rev = next, !.pub = pub]
<1>1. /\ Command("edit") /\ project' = p /\ UNCHANGED <<calls, assets, settled, ingress>>
      /\ ~project.cancelled /\ project.pub.state \notin {"queued", "running", "complete"}
  BY DEF Edit, Decide
<1>2. pub = IF project.pub.state = "failed" THEN IdlePublication ELSE project.pub
  OBVIOUS
<1> HIDE DEF next, pub
<1>3. p.pub = pub /\ p.cancelled = project.cancelled
  BY ObjectsNamed DEF ProjectRow
<1> HIDE DEF p
<1>4. pub = project.pub \/ (pub.target = 0 /\ pub.coverTarget = 0)
  BY <1>2 DEF IdlePublication
<1>5. Onwards
  BY <1>1, <1>3, <1>4 DEF Onwards, Alive, Pointed, Received, Receiving
<1>6. Harmless
  BY <1>1, <1>5, ObjectsStay DEF Harmless
<1> QED
  BY <1>1, <1>6, CommandLawful DEF Calm

LEMMA RetryCancelLawful ==
    ASSUME VideoAssumption, Bounds, Safe, Written, RetryPublication \/ Cancel
    PROVE  Lawful
<1>1. project \in ProjectRow
  BY ObjectsNamed
<1>2. CASE RetryPublication
  <2> DEFINE queued == "queued"
             p == [project EXCEPT !.pub.state = queued]
  <2>1. Command("retry") /\ project' = p /\ UNCHANGED <<calls, assets, settled, ingress>> /\ project.pub.state = "failed"
    BY <1>2 DEF RetryPublication, Decide
  <2> HIDE DEF queued
  <2>2. p.cancelled = project.cancelled /\ p.pub.target = project.pub.target /\ p.pub.coverTarget = project.pub.coverTarget
    BY <1>1 DEF ProjectRow, PublicationRow
  <2> HIDE DEF p
  <2>3. Alive' => Alive
    BY <2>1, <2>2 DEF Alive
  <2> QED
    BY <2>1, <2>2, <2>3, StateHarmless, CommandLawful DEF Calm
<1>3. CASE Cancel
  <2> DEFINE yes == TRUE
             no == FALSE
             cancelled == "cancelled"
             p == [project EXCEPT !.cancelled = yes, !.cleaned = no, !.pub.state = cancelled, !.pub.pending = yes]
  <2>1. Command("cancel") /\ project' = p /\ UNCHANGED <<calls, assets, settled, ingress>> /\ yes
    BY <1>3 DEF Cancel, Decide
  <2> HIDE DEF yes, no, cancelled
  <2>2. p.cancelled = yes /\ p.pub.target = project.pub.target /\ p.pub.coverTarget = project.pub.coverTarget
    BY <1>1 DEF ProjectRow, PublicationRow
  <2> HIDE DEF p
  <2>3. ~Alive'
    BY <2>1, <2>2 DEF Alive
  <2> QED
    BY <2>1, <2>2, <2>3, StateHarmless, CommandLawful DEF Calm
<1> QED
  BY <1>2, <1>3

LEMMA PublishLawful ==
    ASSUME VideoAssumption, Bounds, Safe, Written, Publish
    PROVE  Lawful
<1> DEFINE cover == Digest.cover
           first == Len(assets) + 1
           second == IF cover # 0 THEN Len(assets) + 2 ELSE 0
           pub == [state |-> "queued", pending |-> FALSE, output |-> project.output, cover |-> cover,
                   target |-> first, coverTarget |-> second, granted |-> TRUE, approved |-> view]
           p == [project EXCEPT !.pub = pub]
           e == NewAsset("published", project.output, None, 0)
           f == NewAsset("publishedCover", cover, None, 0)
<1>1. /\ Command("publish") /\ Len(assets) + 2 <= MaxAssets /\ view = Digest /\ Open
      /\ project' = p /\ UNCHANGED <<calls, settled, ingress>>
      /\ assets' = assets \o (<<NewAsset("published", project.output, None, 0)>>
                              \o (IF cover # 0 THEN <<NewAsset("publishedCover", cover, None, 0)>> ELSE <<>>))
  BY DEF Publish, Decide, Approved
<1>2. /\ project \in ProjectRow /\ project.output \in Id /\ view \in View /\ Len(assets) \in Nat /\ Len(assets) <= MaxAssets
  BY DEF Bounds, Typed, DocumentTyped, ProjectRow
<1>3. cover \in Id
  BY <1>1, <1>2 DEF View
<1> HIDE DEF cover
<1>4. /\ Len(assets') = Len(assets) + (IF cover # 0 THEN 2 ELSE 1)
      /\ \A a \in 1..Len(assets) : assets'[a] = assets[a]
      /\ assets'[Len(assets) + 1] = e /\ (cover # 0 => assets'[Len(assets) + 2] = f)
  BY <1>1, <1>2, <1>3, TargetsNamed
<1>5. /\ e.by = None /\ e.kind = "published" /\ e.state = "pending" /\ ~e.sent /\ ~e.known
      /\ f.by = None /\ f.kind = "publishedCover" /\ f.state = "pending" /\ ~f.sent /\ ~f.known
  BY DEF NewAsset
<1> HIDE DEF e, f
<1>6. ASSUME NEW a \in 1..Len(assets'), a \notin 1..Len(assets)
      PROVE  (a = Len(assets) + 1 /\ assets'[a] = e) \/ (cover # 0 /\ a = Len(assets) + 2 /\ assets'[a] = f)
  BY <1>2, <1>4, <1>6
<1>7. \A a \in 1..Len(assets) : Aged(a) /\ assets'[a].sent = assets[a].sent
  BY <1>4 DEF Aged
<1>8. ASSUME NEW a \in 1..Len(assets'), a \notin 1..Len(assets) PROVE Appeared(a)
  <2>1. None \notin Request
    BY DEF VideoAssumption
  <2> QED
    BY <1>5, <1>6, <1>8, <2>1 DEF Appeared
<1>9. Objects /\ Unsending
  BY <1>2, <1>4, <1>7, <1>8 DEF Objects, Unsending
<1>10. /\ first = Len(assets) + 1 /\ (cover # 0 => second = Len(assets) + 2) /\ (cover = 0 => second = 0)
       /\ pub.target = first /\ pub.coverTarget = second
  BY <1>2
<1> HIDE DEF first, second, pub
<1>11. p.pub = pub /\ p.cancelled = project.cancelled
  BY <1>2 DEF ProjectRow
<1> HIDE DEF p
<1>12. Alive
  BY <1>1 DEF Open, Locked, Alive
<1>13. Pointed
  <2>1. first \in 1..Len(assets') /\ assets'[first].kind # "cover"
    BY <1>2, <1>4, <1>5, <1>10
  <2>2. second = 0 \/ (second \in 1..Len(assets') /\ assets'[second].kind # "cover")
    BY <1>2, <1>4, <1>5, <1>10
  <2> QED
    BY <1>1, <1>10, <1>11, <2>1, <2>2 DEF Pointed
<1>14. Onwards
  BY <1>1, <1>12, <1>13 DEF Onwards, Received, Receiving
<1>15. Harmless
  BY <1>1, <1>9, <1>14 DEF Harmless
<1> QED
  BY <1>1, <1>15, CommandLawful DEF Calm

LEMMA AsksLawful ==
    ASSUME VideoAssumption, Bounds, Safe, Written, Ask
    PROVE  Lawful
  BY RequestsLawful, ReserveLawful, EditLawful, RetryCancelLawful, PublishLawful DEF Ask

-----------------------------------------------------------------------------
(* The calls of an upload that leave the store alone.                      *)

LEMMA FinishLawful ==
    ASSUME VideoAssumption, Bounds, Safe, Written, CallRest, NEW r \in Request, Finish(r)
    PROVE  Lawful
<1>1. /\ UNCHANGED <<work, lease, bucket, project, assets, settled>> /\ calls[r].pc = "finish" /\ calls' = [calls EXCEPT ![r] = NoCall]
      /\ \/ ingress' = [ingress EXCEPT ![r].held = FALSE, ![r].state = IF @ = "receiving" THEN "failed" ELSE @]
         \/ ingress' = ingress
  BY DEF Finish, CallRest, At
<1>2. \A q \in Request : Receiving(q)' => Receiving(q)
  <2> DEFINE state == IF ingress[r].state = "receiving" THEN "failed" ELSE ingress[r].state
             no == FALSE
             d == [ingress[r] EXCEPT !.held = no, !.state = state]
  <2>1. ingress' = ingress \/ ingress' = [ingress EXCEPT ![r] = d]
    BY <1>1
  <2>2. state # "receiving"
    OBVIOUS
  <2> HIDE DEF state, no
  <2>3. ingress \in [Request -> IngressRow] /\ d.state = state
    BY DEF Bounds, Typed, DocumentTyped, IngressRow
  <2> HIDE DEF d
  <2> QED
    BY <2>1, <2>2, <2>3 DEF Receiving
<1>3. Onwards
  BY <1>1, <1>2 DEF Onwards, Alive, Pointed, Received
<1>4. Harmless
  BY <1>1, <1>3, ObjectsStay DEF Harmless
<1>5. NoCall.pc = "idle"
  BY DEF NoCall
<1> HIDE DEF NoCall
<1>6. \A q \in Request : Calm(q)
  BY <1>1, <1>5, CallCalm DEF CallPlace
<1> QED
  BY <1>1, <1>4, <1>6, RestGoes

LEMMA RecordLawful ==
    ASSUME VideoAssumption, Bounds, Safe, Written, CallRest, NEW r \in Request, Record(r)
    PROVE  Lawful
<1> DEFINE yes == TRUE
           ready == "ready"
<1>1. /\ UNCHANGED <<work, lease, bucket>> /\ calls[r].pc = "record" /\ Goto(r, "finish")
      /\ \/ UNCHANGED document
         \/ /\ SetAsset(Own(r), ready, yes) /\ project' = Arrived(project, Own(r))
            /\ UNCHANGED <<settled, ingress>>
  BY DEF Record, Transact, CallRest, At
<1>2. Own(r) \in 1..Len(assets) /\ assets[Own(r)].by = r
  BY <1>1, Owns DEF Uploading
<1>3. ready \in AssetState /\ yes \in BOOLEAN /\ ready # "deleted"
  BY DEF AssetState
<1> HIDE DEF yes, ready
<1>4. Over(Own(r))
  BY <1>1, <1>2 DEF Written, AnswerOK
<1>5. Harmless
  <2>1. CASE UNCHANGED document
    BY <2>1, DocumentHarmless
  <2>2. CASE SetAsset(Own(r), ready, yes) /\ project' = Arrived(project, Own(r)) /\ UNCHANGED <<settled, ingress>>
    <3>1. SamePublication(project')
      BY <2>2, ArrivesElsewhere
    <3>2. Objects /\ Unsending
      BY <1>2, <1>3, <1>4, <2>2, ObjectSet
    <3> QED
      BY <2>2, <3>1, <3>2, PublicationOnwards DEF Harmless
  <2> QED
    BY <1>1, <2>1, <2>2
<1>6. \A q \in Request : Calm(q)
  BY <1>1, CallCalm DEF CallPlace
<1> QED
  BY <1>1, <1>5, <1>6, RestGoes

LEMMA InspectLawful ==
    ASSUME VideoAssumption, Bounds, Safe, Written, CallRest, NEW r \in Request, Inspect(r)
    PROVE  Lawful
<1>1. UNCHANGED <<work, lease, bucket, document>> /\ calls[r].pc = "inspect"
  BY DEF CallRest, Inspect, At
<1>2. \E found \in {"yes", "no", "error"} :
         /\ calls' = [calls EXCEPT ![r].pc = "resolve", ![r].found = found]
         /\ found = "yes" => calls[r].asset \in stored
  BY DEF Inspect
<1>3. PICK found \in {"yes", "no", "error"} :
         /\ calls' = [calls EXCEPT ![r].pc = "resolve", ![r].found = found]
         /\ found = "yes" => calls[r].asset \in stored
  BY <1>2
<1>4. /\ calls'[r].pc = "resolve" /\ calls'[r].found = found /\ calls'[r].asset = calls[r].asset
      /\ \A q \in Request : q # r => calls'[q] = calls[q]
  BY <1>3 DEF Bounds, Typed, CallRow
<1>5. PICK a : a = calls[r].asset
  OBVIOUS
<1>6. a \in 1..Len(assets)
  BY <1>1, <1>5, Numbers DEF Bounds, UploadsOK
<1>7. Harmless
  BY <1>1, DocumentHarmless
<1>8. Dry /\ OverStays /\ Objects
  <2>1. \A q \in Request : calls'[q].pc = "put" <=> calls[q].pc = "put"
    BY <1>1, <1>4
  <2>2. \A q \in Request : calls'[q].pc = "intent" => calls[q].pc = "intent"
    BY <1>4
  <2> QED
    BY <1>1, <1>7, <2>1, <2>2, RestIsDry
<1>9. ASSUME NEW q \in Request PROVE AnswerOK(q)'
  <2>1. CASE q # r
    BY <1>4, <1>8, <2>1, AnswerStays DEF Written
  <2>2. CASE q = r
    <3>1. found = "yes" => Over(a)'
      BY <1>3, <1>5, <1>6, <1>8 DEF Written, ObjectsOK, ObjectOK, OverStays
    <3>2. calls'[q].pc = "resolve" /\ calls'[q].found = "yes" => Over(a)'
      BY <1>4, <2>2, <3>1
    <3>3. calls'[q].asset = a /\ calls'[q].pc # "record"
      BY <1>4, <1>5, <2>2
    <3> QED
      BY <3>2, <3>3 DEF AnswerOK
  <2> QED
    BY <2>1, <2>2
<1> QED
  BY <1>1, <1>7, <1>8, <1>9, RestAnswers

LEMMA ResolveLawful ==
    ASSUME VideoAssumption, Bounds, Safe, Written, CallRest, NEW r \in Request, Resolve(r)
    PROVE  Lawful
<1> DEFINE a == calls[r].asset
           state == IF calls[r].found = "yes" THEN "ready" ELSE IF calls[r].found = "no" /\ Lost(a) THEN "failed" ELSE "unknown"
           known == calls[r].found = "yes" \/ assets[a].known
           ready == "ready"
           p == [project EXCEPT !.frame.state = ready]
<1>1. /\ UNCHANGED <<work, lease, bucket>> /\ calls' = [calls EXCEPT ![r] = NoCall] /\ calls[r].pc = "resolve"
      /\ \/ /\ SetAsset(a, state, known) /\ UNCHANGED <<settled, ingress>>
            /\ \/ Select(p, a, project.frame.rev, project.frame.ask)
               \/ project' = Arrived(project, a) \/ project' = project
         \/ UNCHANGED document
  BY DEF Resolve, CallRest, At
<1>2. NoCall.pc = "idle"
  BY DEF NoCall
<1> HIDE DEF NoCall
<1>3. \A q \in Request : Calm(q)
  BY <1>1, <1>2, CallCalm DEF CallPlace
<1>4. CASE UNCHANGED document
  BY <1>1, <1>3, <1>4, DocumentHarmless, RestGoes
<1>5. CASE /\ SetAsset(a, state, known) /\ UNCHANGED <<settled, ingress>>
           /\ \/ Select(p, a, project.frame.rev, project.frame.ask)
              \/ project' = Arrived(project, a) \/ project' = project
  <2>1. a \in 1..Len(assets)
    BY <1>1 DEF Bounds, UploadsOK, Typed, DocumentTyped
  <2>2. state \in AssetState /\ known \in BOOLEAN /\ state # "deleted" /\ ready \in JobState
    BY <2>1, AssetTyped DEF AssetState, JobState
  <2>3. known => assets[a].known \/ Over(a)
    BY <1>1 DEF Written, AnswerOK
  <2>4. project \in ProjectRow
    BY ObjectsNamed
  <2> HIDE DEF a, state, known, ready
  <2>5. p \in ProjectRow /\ SamePublication(p)
    BY <2>2, <2>4, Limits, JobChanges, Elsewhere
  <2> HIDE DEF p
  <2>6. SamePublication(project')
    <3>1. CASE Select(p, a, project.frame.rev, project.frame.ask)
      BY <2>5, <3>1, SelectElsewhere
    <3>2. CASE project' = Arrived(project, a)
      BY <3>2, ArrivesElsewhere
    <3>3. CASE project' = project
      BY <3>3 DEF SamePublication
    <3> QED
      BY <1>5, <3>1, <3>2, <3>3
  <2>7. Objects /\ Unsending
    BY <1>5, <2>1, <2>2, <2>3, ObjectSet
  <2>8. Harmless
    BY <1>5, <2>6, <2>7, PublicationOnwards DEF Harmless
  <2> QED
    BY <1>1, <1>3, <2>8, RestGoes
<1> QED
  BY <1>1, <1>4, <1>5

LEMMA AdmitLawful ==
    ASSUME VideoAssumption, Bounds, Safe, Written, CallRest, NEW r \in Request, Admit(r)
    PROVE  Lawful
<1> DEFINE kind == ingress[r].kind
           a == Len(assets) + 1
           e == NewAsset(kind, a, r, 0)
           no == FALSE
           admitted == "admitted"
           p == [project EXCEPT !.cleaned = no]
           q == [project EXCEPT !.source = a, !.cleaned = no]
<1>1. /\ UNCHANGED <<work, lease, bucket>> /\ calls[r].pc = "digest"
      /\ \/ /\ Goto(r, "intent") \/ Goto(r, "finish")
            /\ Open /\ Receiving(r) /\ a <= MaxAssets /\ assets' = Append(assets, e) /\ settled' = settled
            /\ kind = "cover" => CoverRoom
            /\ ingress' = [ingress EXCEPT ![r].state = admitted] /\ admitted # "receiving"
            /\ project' = q \/ Select(p, a, ingress[r].rev, ingress[r].at)
         \/ UNCHANGED document /\ Goto(r, "finish")
  BY DEF Admit, Transact, CallRest, At, CoverOpen
<1> HIDE DEF admitted
<1>2. \A b \in 1..Len(assets) : assets[b].by # r
  BY <1>1 DEF Bounds, UploadsOK, At
<1>3. \A x \in Request : Calm(x)
  BY <1>1, <1>2, CallCalm DEF CallPlace
<1>4. CASE UNCHANGED document /\ Goto(r, "finish")
  BY <1>1, <1>3, <1>4, DocumentHarmless, RestGoes
<1>5. CASE /\ Goto(r, "intent") \/ Goto(r, "finish")
           /\ Open /\ Receiving(r) /\ a <= MaxAssets /\ assets' = Append(assets, e) /\ settled' = settled
           /\ kind = "cover" => CoverRoom
           /\ ingress' = [ingress EXCEPT ![r].state = admitted] /\ admitted # "receiving"
           /\ project' = q \/ Select(p, a, ingress[r].rev, ingress[r].at)
  <2>1. /\ kind \in {"source", "cover"} /\ Len(assets) \in Nat /\ project \in ProjectRow /\ no \in BOOLEAN
    BY <1>5 DEF Receiving, Bounds, Typed, DocumentTyped, IngressRow
  <2>2. a \in Id
    BY <1>5, <2>1, Limits DEF Id
  <2>3. e \in AssetRow /\ e.by = r /\ e.kind = kind /\ e.state = "pending" /\ ~e.sent /\ ~e.known
    <3>1. kind \in {"source", "output", "cover", "published", "publishedCover"} /\ r \in Request \union {None}
      BY <2>1
    <3> QED
      BY <2>2, <3>1, Limits, NewAssets
  <2> HIDE DEF no, e
  <2>4. p \in ProjectRow /\ SamePublication(p) /\ SamePublication(q)
    BY <2>1, <2>2, Limits, Elsewhere DEF ProjectRow
  <2> HIDE DEF p, q, kind
  <2>5. SamePublication(project')
    BY <1>5, <2>4, SelectElsewhere
  <2>6. Alive
    BY <1>5 DEF Open, Locked, Alive
  <2>7. calls'[r].pc \in {"intent", "finish"}
    BY <1>5 DEF Goto, Bounds, Typed, CallRow
  <2>8. Objects /\ Unsending
    BY <1>5, <2>3, <2>6, <2>7, ObjectAdded
  <2>9. \A x \in Request : Receiving(x)' => Receiving(x)
    BY <1>5 DEF Receiving, Bounds, Typed, DocumentTyped, IngressRow
  <2>10. Onwards
    BY <2>5, <2>9 DEF Onwards, SamePublication, Alive, Pointed, Received
  <2>11. Harmless
    BY <1>5, <2>8, <2>10 DEF Harmless
  <2> QED
    BY <1>1, <1>3, <2>11, RestGoes
<1> QED
  BY <1>1, <1>4, <1>5

-----------------------------------------------------------------------------
(* The PUT of an upload, and the store in the meantime.                    *)

LEMMA RestWet ==
    ASSUME Bounds, Safe, Written, UNCHANGED <<work, lease>>, Objects, Stored, Onwards, PutsOK',
           \A r \in Request : calls'[r] = calls[r] \/ calls'[r].pc \notin {"record", "resolve"} \/ AnswerOK(r)',
           \A b \in 1..Len(assets) : assets[b].by = None => assets'[b].sent = assets[b].sent
    PROVE  Lawful
<1>1. ObjectsOK' /\ OverStays
  BY ObjectsEvolve DEF Written, Onwards
<1>2. ASSUME NEW w \in Worker PROVE SeenOK(w)' /\ SweepOK(w)'
  <2>1. Alike(work'[w], work[w]) /\ SeenOK(w) /\ SweepOK(w)
    BY DEF Alike, SameJob, SameObject, Written
  <2> QED
    BY <1>1, <2>1, SeenStays DEF LeaseLive
<1>3. \A r \in Request : AnswerOK(r)'
  BY <1>1, AnswerStays DEF Written
<1> QED
  BY <1>1, <1>2, <1>3 DEF Lawful, Written

(* The object of an upload is its only one, and no worker sends it.        *)
LEMMA OwnAlone ==
    ASSUME VideoAssumption, Bounds, Written, NEW r \in Request, calls[r].pc \in Uploading
    PROVE  /\ Own(r) \in 1..Len(assets) /\ assets[Own(r)].by = r
           /\ \A b \in 1..Len(assets) : assets[b].by = r => b = Own(r)
           /\ \A w \in Worker : work[w].pc = "put" => work[w].asset # Own(r)
<1>1. Own(r) \in 1..Len(assets) /\ assets[Own(r)].by = r /\ r # None
  BY Owns DEF VideoAssumption
<1>2. \A b \in 1..Len(assets) : assets[b].by = r => b = Own(r)
  BY <1>1 DEF Bounds, UploadsOK
<1>3. \A w \in Worker : work[w].pc = "put" => work[w].asset # Own(r)
  BY <1>1 DEF Written, PutsOK
<1> QED
  BY <1>1, <1>2, <1>3

LEMMA IntentLawful ==
    ASSUME VideoAssumption, Bounds, Safe, Written, CallRest, NEW r \in Request, Intent(r)
    PROVE  Lawful
<1>0. PICK a : a = Own(r)
  OBVIOUS
<1>1. /\ UNCHANGED <<work, lease, stored, inflight>> /\ calls[r].pc = "intent" /\ calls \in [Request -> CallRow]
      /\ \/ UNCHANGED document /\ Goto(r, "finish")
         \/ /\ Open /\ ~assets[a].sent /\ MarkSent(a) /\ UNCHANGED <<project, settled, ingress>>
            /\ Goto(r, "put") \/ Goto(r, "finish")
  BY <1>0 DEF Intent, Transact, CallRest, At, bucket, Bounds, Typed
<1>2. /\ a \in 1..Len(assets) /\ assets[a].by = r
      /\ \A b \in 1..Len(assets) : assets[b].by = r => b = a
      /\ \A w \in Worker : work[w].pc = "put" => work[w].asset # a
  BY <1>0, <1>1, OwnAlone DEF Uploading
<1>3. CASE UNCHANGED document /\ Goto(r, "finish")
  <2>1. \A q \in Request : Calm(q)
    BY <1>1, <1>3, CallCalm DEF CallPlace
  <2> QED
    BY <1>1, <1>3, <2>1, DocumentHarmless, RestGoes DEF bucket
<1>4. CASE /\ Open /\ ~assets[a].sent /\ MarkSent(a) /\ UNCHANGED <<project, settled, ingress>>
           /\ Goto(r, "put") \/ Goto(r, "finish")
  <2>1. /\ calls'[r].pc \in {"put", "finish"} /\ \A q \in Request : q # r => calls'[q] = calls[q]
    BY <1>1, <1>4 DEF Goto, CallRow
  <2>2. Alive
    BY <1>4 DEF Open, Locked, Alive
  <2>3. /\ Objects /\ assets'[a].sent /\ Len(assets') = Len(assets)
        /\ \A b \in 1..Len(assets) : assets'[b].by = assets[b].by /\ (b # a => assets'[b].sent = assets[b].sent)
    BY <1>2, <1>4, <2>2, ObjectMarked, Marks, Numbers DEF Objects, Aged
  <2>4. ObjectOK(a) /\ ~Landing(a) /\ a \notin inflight /\ a \notin settled
    BY <1>1, <1>2, <1>4 DEF Written, ObjectsOK, ObjectOK, PutsOK, Landing
  <2>5. ASSUME NEW b \in 1..Len(assets) PROVE Lands(b)
    <3>1. CASE b = a
      BY <1>1, <1>4, <2>3, <2>4, <3>1 DEF Lands
    <3>2. CASE b # a
      <4>1. Landing(b)' <=> Landing(b)
        BY <1>1, <1>2, <2>1, <2>3, <3>2 DEF Landing, Sending
      <4> QED
        BY <1>1, <1>4, <4>1 DEF Lands
    <3> QED
      BY <3>1, <3>2
  <2>6. Stored
    BY <2>3, <2>5 DEF Stored
  <2>7. Onwards
    BY <1>4 DEF Onwards, Alive, Pointed, Received, Receiving
  <2>8. PutsOK'
    <3>1. ASSUME NEW w \in Worker, work[w].pc = "put"
          PROVE  lease'.owner = w /\ LeaseLive' /\ work[w].asset \notin inflight' /\ assets'[work[w].asset].by = None
      <4>1. work[w].asset \in 1..Len(assets)
        BY <3>1, Numbers DEF Handling
      <4> QED
        BY <1>1, <2>3, <3>1, <4>1 DEF Written, PutsOK, LeaseLive
    <3>2. ASSUME NEW q \in Request, NEW b \in 1..Len(assets'), assets'[b].by = q
          PROVE  (calls'[q].pc = "put" => b \notin inflight') /\ (calls'[q].pc = "intent" => b \notin settled')
      <4>1. b \in 1..Len(assets) /\ assets[b].by = q
        BY <2>3, <3>2
      <4>2. CASE q = r
        BY <1>1, <1>2, <2>1, <2>4, <4>1, <4>2
      <4>3. CASE q # r
        BY <1>1, <1>4, <2>1, <4>1, <4>3 DEF Written, PutsOK
      <4> QED
        BY <4>2, <4>3
    <3> QED
      BY <1>1, <3>1, <3>2 DEF PutsOK
  <2>9. \A b \in 1..Len(assets) : assets[b].by = None => assets'[b].sent = assets[b].sent
    BY <1>2, <2>3 DEF VideoAssumption
  <2>10. \A q \in Request : calls'[q] = calls[q] \/ calls'[q].pc \notin {"record", "resolve"}
    BY <2>1
  <2> QED
    BY <1>1, <2>3, <2>6, <2>7, <2>8, <2>9, <2>10, RestWet
<1> QED
  BY <1>1, <1>3, <1>4

(* The PUT ends: its object is stored, or may still be.                    *)
LEMMA PutEndsLawful ==
    ASSUME VideoAssumption, Bounds, Safe, Written, CallRest, NEW r \in Request, calls[r].pc = "put", UNCHANGED <<document, lease>>,
           NEW pc \in {"record", "finish", "idle"}, calls'[r].pc = pc, \A q \in Request : q # r => calls'[q] = calls[q],
           \/ stored' = stored \union {Own(r)} /\ inflight' = inflight /\ pc = "record"
           \/ inflight' = inflight \union {Own(r)} /\ stored' = stored /\ pc # "record"
    PROVE  Lawful
<1>0. PICK a : a = Own(r)
  OBVIOUS
<1>1. /\ a \in 1..Len(assets) /\ assets[a].by = r /\ UNCHANGED <<work, project, assets, settled, ingress>>
      /\ \A b \in 1..Len(assets) : assets[b].by = r => b = a
      /\ \A w \in Worker : work[w].pc = "put" => work[w].asset # a
  BY <1>0, OwnAlone DEF Uploading, CallRest, document
<1>2. Objects /\ Unsending /\ Onwards
  BY DocumentHarmless DEF Harmless
<1>3. ObjectOK(a) /\ Landing(a) /\ assets[a].sent /\ a \notin inflight
  BY <1>1 DEF Written, ObjectsOK, ObjectOK, PutsOK, Landing, Sending
<1>4. ~Sending(a)'
  BY <1>1 DEF Sending
<1>5. ASSUME NEW b \in 1..Len(assets) PROVE Lands(b)
  <2>1. CASE b = a
    BY <1>0, <1>1, <1>3, <1>4, <2>1 DEF Lands, Landing
  <2>2. CASE b # a
    <3>1. Sending(b)' <=> Sending(b)
      BY <1>1, <2>2 DEF Sending
    <3>2. (b \in inflight' <=> b \in inflight) /\ (b \in stored' <=> b \in stored)
      BY <1>0, <2>2
    <3> QED
      BY <1>1, <3>1, <3>2 DEF Lands, Landing
  <2> QED
    BY <2>1, <2>2
<1>6. Stored
  BY <1>1, <1>5 DEF Stored
<1>7. PutsOK'
  <2>1. ASSUME NEW w \in Worker, work[w].pc = "put"
        PROVE  lease'.owner = w /\ LeaseLive' /\ work[w].asset \notin inflight' /\ assets'[work[w].asset].by = None
    BY <1>0, <1>1, <2>1 DEF Written, PutsOK, LeaseLive
  <2>2. ASSUME NEW q \in Request, NEW b \in 1..Len(assets), assets[b].by = q
        PROVE  (calls'[q].pc = "put" => b \notin inflight') /\ (calls'[q].pc = "intent" => b \notin settled')
    BY <1>0, <1>1, <2>2 DEF Written, PutsOK
  <2> QED
    BY <1>1, <2>1, <2>2 DEF PutsOK
<1>8. AnswerOK(r)'
  <2>1. pc = "record" => Over(a)'
    BY <1>0, <1>1, <1>3, <1>4 DEF Over, Landing
  <2> QED
    BY <1>1, <2>1 DEF AnswerOK
<1> QED
  BY <1>1, <1>2, <1>6, <1>7, <1>8, RestWet DEF Unsending

LEMMA UploadsLawful ==
    ASSUME VideoAssumption, Bounds, Safe, Written, CallRest, NEW r \in Request, UploadPut(r) \/ CrashCall(r)
    PROVE  Lawful
<1>1. calls \in [Request -> CallRow] /\ UNCHANGED <<document, lease, work>> /\ NoCall.pc = "idle"
  BY DEF Bounds, Typed, UploadPut, CrashCall, CallRest, NoCall
<1> HIDE DEF NoCall
<1>2. CASE UploadPut(r)
  <2>1. /\ calls[r].pc = "put"
        /\ \/ stored' = stored \union {Own(r)} /\ Goto(r, "record") /\ UNCHANGED inflight
           \/ inflight' = inflight \union {Own(r)} /\ Goto(r, "finish") /\ UNCHANGED stored
    BY <1>2 DEF UploadPut, At
  <2>2. ASSUME NEW pc \in {"record", "finish"}, Goto(r, pc)
        PROVE  calls'[r].pc = pc /\ \A q \in Request : q # r => calls'[q] = calls[q]
    BY <1>1, <2>2 DEF Goto, CallRow
  <2> QED
    BY <1>1, <2>1, <2>2, PutEndsLawful
<1>3. CASE CrashCall(r)
  <2>1. /\ calls' = [calls EXCEPT ![r] = NoCall] /\ stored' = stored
        /\ inflight' = IF calls[r].pc = "put" THEN inflight \union {Own(r)} ELSE inflight
    BY <1>3 DEF CrashCall, At
  <2>2. calls'[r].pc = "idle" /\ \A q \in Request : q # r => calls'[q] = calls[q]
    BY <1>1, <2>1
  <2>3. CASE calls[r].pc = "put"
    BY <1>1, <2>1, <2>2, <2>3, PutEndsLawful
  <2>4. CASE calls[r].pc # "put"
    <3>1. \A q \in Request : Calm(q)
      BY <1>1, <2>1, <2>4, CallCalm DEF CallPlace
    <3> QED
      BY <1>1, <2>1, <2>4, <3>1, DocumentHarmless, RestGoes DEF bucket
  <2> QED
    BY <2>3, <2>4
<1> QED
  BY <1>2, <1>3

(* An object's time is over; a PUT that failed arrives.                    *)
LEMMA StoreMovesLawful ==
    ASSUME VideoAssumption, Bounds, Safe, Written, UNCHANGED <<work, calls, lease>>, NEW a \in 1..Len(assets),
           Settle(a) \/ LatePut(a)
    PROVE  Lawful
<1>1. /\ UNCHANGED <<project, assets, ingress>> /\ inflight' = inflight \ {a}
      /\ \/ /\ settled' = settled \union {a} /\ stored' = stored
            /\ \A r \in Request : calls[r].pc \in {"intent", "put", "record"} => Own(r) # a
            /\ \A w \in Worker : work[w].pc = "put" => work[w].asset # a
         \/ a \in inflight /\ stored' = stored \union {a} /\ settled' = settled
  BY DEF Settle, LatePut, document
<1>2. Objects /\ Unsending
  BY <1>1, ObjectsStay
<1>3. Onwards
  BY <1>1 DEF Onwards, Alive, Pointed, Received, Receiving
<1>4. ASSUME NEW r \in Request, calls[r].pc \in {"intent", "put"}, assets[a].by = r PROVE Own(r) = a
  BY <1>4, OwnAlone DEF Uploading
<1>5. \A b : Sending(b)' <=> Sending(b)
  BY <1>1 DEF Sending
<1>6. ~Sending(a)
  <2>1. CASE a \in inflight
    BY <2>1 DEF Written, PutsOK, Sending
  <2>2. CASE a \notin inflight
    BY <1>1, <1>4, <2>2 DEF Sending
  <2> QED
    BY <2>1, <2>2
<1>7. ~Landing(a)'
  BY <1>1, <1>5, <1>6 DEF Landing
<1>8. ASSUME NEW b \in 1..Len(assets) PROVE Lands(b)
  <2>1. CASE b = a
    BY <1>1, <1>7, <2>1 DEF Lands, Landing
  <2>2. CASE b # a
    <3>1. (b \in inflight' <=> b \in inflight) /\ (b \in stored' <=> b \in stored) /\ (b \in settled' <=> b \in settled)
      BY <1>1, <2>2
    <3> QED
      BY <1>5, <3>1 DEF Lands, Landing
  <2> QED
    BY <2>1, <2>2
<1>9. Stored
  BY <1>1, <1>8 DEF Stored
<1>10. PutsOK'
  <2>1. ASSUME NEW w \in Worker, work[w].pc = "put"
        PROVE  lease'.owner = w /\ LeaseLive' /\ work[w].asset \notin inflight' /\ assets'[work[w].asset].by = None
    BY <1>1, <2>1 DEF Written, PutsOK, LeaseLive
  <2>2. ASSUME NEW r \in Request, NEW b \in 1..Len(assets), assets[b].by = r
        PROVE  (calls[r].pc = "put" => b \notin inflight') /\ (calls[r].pc = "intent" => b \notin settled')
    <3>1. calls[r].pc = "put" => b \notin inflight'
      BY <1>1, <2>2 DEF Written, PutsOK
    <3>2. calls[r].pc = "intent" => b \notin settled
      BY <2>2 DEF Written, PutsOK
    <3>3. calls[r].pc = "intent" /\ b = a => settled' = settled
      BY <1>1, <1>4, <2>2
    <3> QED
      BY <1>1, <3>1, <3>2, <3>3
  <2> QED
    BY <1>1, <2>1, <2>2 DEF PutsOK
<1> QED
  BY <1>1, <1>2, <1>3, <1>9, <1>10, RestWet DEF Unsending

LEMMA TimeLawful ==
    ASSUME VideoAssumption, Bounds, Safe, Written, UNCHANGED <<work, calls, lease>>,
           GrantLapse \/ Revoke \/ Restore \/ \E r \in Request : IngressLapse(r)
    PROVE  Lawful
<1>1. \A r \in Request : Calm(r)
  BY DEF Calm
<1>2. UNCHANGED bucket
  BY DEF GrantLapse, Revoke, Restore, IngressLapse
<1>3. Harmless
  <2>1. CASE Revoke \/ Restore
    BY <2>1, DocumentHarmless DEF Revoke, Restore
  <2>2. CASE GrantLapse
    <3> DEFINE no == FALSE
    <3>1. project' = [project EXCEPT !.pub.granted = no] /\ project \in ProjectRow /\ UNCHANGED <<assets, settled, ingress>>
      BY <2>2, ObjectsNamed DEF GrantLapse
    <3> HIDE DEF no
    <3>2. SamePublication(project')
      BY <3>1 DEF SamePublication, ProjectRow, PublicationRow
    <3> QED
      BY <3>1, <3>2, ProjectHarmless
  <2>3. ASSUME NEW r \in Request, IngressLapse(r) PROVE Harmless
    <3> DEFINE no == FALSE
    <3>1. ingress' = [ingress EXCEPT ![r].live = no] /\ UNCHANGED <<project, assets, settled>>
      BY <2>3 DEF IngressLapse
    <3> HIDE DEF no
    <3>2. \A q \in Request : Receiving(q)' => Receiving(q)
      BY <3>1 DEF Receiving, Bounds, Typed, DocumentTyped, IngressRow
    <3>3. Onwards
      BY <3>1, <3>2 DEF Onwards, Alive, Pointed, Received
    <3> QED
      BY <3>1, <3>3, ObjectsStay DEF Harmless
  <2> QED
    BY <2>1, <2>2, <2>3
<1> QED
  BY <1>1, <1>2, <1>3, RestGoes

-----------------------------------------------------------------------------
(* Together.                                                               *)

LEMMA WorkersLawful ==
    ASSUME VideoAssumption, NoRivals, Bounds, Safe, Written, CountsOK, WorkStep
    PROVE  Lawful
<1>1. Rest
  BY DEF WorkStep, Rest
<1>2. ASSUME NEW w \in Worker, Run(w) \/ Crash(w) PROVE Lawful
  BY <1>1, <1>2, PollLawful, ClaimLawful, DenyLawful, ReleaseLawful, FailedLawful, RecoverLawful, LookLawful, RecordsLawful,
     SendLawful, PutsLawful, ProcessLawful, FrameBeginsLawful, StageLawful, AddCoverLawful, PublishesLawful, ReplaceLawful,
     GrantedLawful, SweepLawful, PickLawful, EraseLawful, CleanFailLawful, CleanEndLawful, CrashLawful DEF Run
<1> QED
  BY <1>1, <1>2, LapseLawful DEF WorkStep

LEMMA EveryStepLawful ==
    ASSUME VideoAssumption, NoRivals, Bounds, Safe, Written, CountsOK, [Next]_vars
    PROVE  Lawful
<1>1. CASE Ask
  BY <1>1, AsksLawful
<1>2. CASE Review \/ UNCHANGED vars
  <2>1. UNCHANGED <<document, bucket, lease, work, calls>>
    BY <1>2 DEF Review, vars
  <2> QED
    BY <2>1, DocumentHarmless, RestGoes DEF Calm
<1>3. ASSUME NEW r \in Request, CallStep(r) PROVE Lawful
  BY <1>3, AdmitLawful, IntentLawful, UploadsLawful, RecordLawful, FinishLawful, InspectLawful, ResolveLawful DEF CallStep, CallRest
<1>4. CASE Environment
  <2>1. UNCHANGED <<work, calls, lease>>
    BY <1>4 DEF Environment, GrantLapse, Revoke, Restore, IngressLapse, Settle, LatePut
  <2> QED
    BY <1>4, <2>1, StoreMovesLawful, TimeLawful DEF Environment
<1> QED
  BY <1>1, <1>2, <1>3, <1>4, WorkersLawful DEF Next

LEMMA BeginsWritten ==
    ASSUME VideoAssumption, WorkInit
    PROVE  Written /\ CountsOK
<1> DEFINE first == [NewAsset("source", 1, None, 0) EXCEPT !.state = "ready", !.sent = TRUE, !.known = TRUE]
<1>1. first.state = "ready" /\ first.sent /\ first.kind = "source" /\ first.by = None
  BY DEF NewAsset
<1>2. assets = (IF Reviewed THEN <<first>> ELSE <<>>)
  BY DEF WorkInit, Init
<1> HIDE DEF first
<1>3. \A a \in 1..Len(assets) : assets[a] = first
  BY <1>2
<1>4. /\ settled = {} /\ inflight = {} /\ lease.owner = None
      /\ ingress = [r \in Request |-> NoIngress] /\ calls = [r \in Request |-> NoCall] /\ work = [w \in Worker |-> Idle]
  BY DEF WorkInit, Init
<1>5. NoCall.pc = "idle" /\ NoIngress.state = "none"
  BY DEF NoCall, NoIngress
<1>6. project.pub = IdlePublication /\ IdlePublication.target = 0 /\ IdlePublication.coverTarget = 0
  BY DEF WorkInit, Init, NewProject, IdlePublication
<1>7. ObjectsOK
  <2>1. \A a : ~Landing(a)
    BY <1>4, <1>5, IdleTyped DEF Landing, Sending
  <2> QED
    BY <1>1, <1>3, <2>1 DEF ObjectsOK, ObjectOK, Over
<1>8. PutsOK
  BY <1>4, <1>5, IdleTyped DEF PutsOK
<1>9. \A w \in Worker : SeenOK(w) /\ SweepOK(w)
  BY <1>4, IdleTyped DEF SeenOK, SweepOK
<1>10. \A r \in Request : AnswerOK(r)
  BY <1>4, <1>5 DEF AnswerOK
<1>11. Cardinality(Covers) <= MaxCovers
  <2>1. Covers = {}
    BY <1>1, <1>3 DEF Covers
  <2> QED
    BY <2>1, FS_EmptySet DEF VideoAssumption
<1>12. CountsOK
  BY <1>4, <1>5, <1>6, <1>11 DEF CountsOK, Receiving
<1> QED
  BY <1>7, <1>8, <1>9, <1>10, <1>12 DEF Written

\* For any uploads, workers, objects and commands of one worker, or of an administrator
\* who stays one: whoever sends an object is the only one and the first, what a worker
\* or a call has seen of it remains true, and it is deleted when nothing more can arrive.
THEOREM ObjectsInductive ==
    ASSUME VideoAssumption, NoRivals
    PROVE  Spec => [](Bounds /\ Safe /\ Written /\ CountsOK)
<1>1. WorkInit => Written /\ CountsOK
  BY BeginsWritten
<1>2. Bounds /\ Safe /\ Written /\ CountsOK /\ [Next]_vars => Written' /\ CountsOK'
  <2>1. SUFFICES ASSUME Bounds, Safe, Written, CountsOK, [Next]_vars PROVE Written' /\ CountsOK'
    OBVIOUS
  <2>2. Lawful
    BY <2>1, EveryStepLawful
  <2> QED
    BY <2>1, <2>2, CountsStay DEF Lawful, Written
<1> QED
  BY <1>1, <1>2, PublicationInductive, PTL DEF Spec

(* Documents keep their shape, and covers and uploads their number.        *)
LEMMA KeepsShape ==
    ASSUME VideoAssumption, Bounds, CountsOK
    PROVE  TypeOK
<1>1. Typed /\ DocumentTyped
  BY DEF Bounds, Typed
<1>2. Cardinality({a \in 1..Len(assets) : assets[a].kind = "cover" /\ assets[a].state # "deleted"}) <= MaxCovers
  <2> DEFINE kept == {a \in 1..Len(assets) : assets[a].kind = "cover" /\ assets[a].state # "deleted"}
  <2>1. Covers \subseteq 1..Len(assets) /\ kept \subseteq Covers
    BY DEF Covers
  <2>2. IsFiniteSet(Covers)
    <3>1. Len(assets) \in Nat /\ IsFiniteSet(1..Len(assets))
      BY Numbers, FS_Interval
    <3> QED
      BY <2>1, <3>1, FS_Subset
  <2>3. Cardinality(kept) <= Cardinality(Covers) /\ Cardinality(kept) \in Nat /\ Cardinality(Covers) \in Nat
    BY <2>1, <2>2, FS_Subset, FS_CardinalityType
  <2> HIDE DEF kept
  <2>4. Cardinality(kept) <= MaxCovers
    BY <2>3 DEF CountsOK, VideoAssumption
  <2> QED
    BY <2>4 DEF kept
<1>3. Cardinality({r \in Request : ingress[r].state = "receiving"}) <= 1
  <2> DEFINE open == {r \in Request : ingress[r].state = "receiving"}
  <2>1. \A q, r \in open : q = r
    BY DEF CountsOK, Receiving
  <2> HIDE DEF open
  <2>2. CASE open = {}
    BY <2>2, FS_EmptySet DEF open
  <2>3. ASSUME NEW r \in open PROVE Cardinality(open) <= 1
    <3>1. open = {r}
      BY <2>1, <2>3
    <3> QED
      BY <3>1, FS_Singleton
  <2> QED
    BY <2>2, <2>3 DEF open
<1>4. ProjectTypeOK
  <2>1. project \in [cancelled : BOOLEAN, cleaned : BOOLEAN, source : Id, output : Id, auto : Id, choice : 0..Automatic, rev : Nat,
                     proc : JobState, facts : BOOLEAN, frame : [state : JobState, rev : Nat, ask : 0..MaxCommands],
                     pub : [state : {"idle", "queued", "running", "complete", "failed", "cancelled"}, pending : BOOLEAN,
                            output : Id, cover : Id, target : Id, coverTarget : Id, granted : BOOLEAN, approved : View]]
    BY <1>1 DEF DocumentTyped, ProjectRow, FrameRow, PublicationRow, PublicationState
  <2>2. \A a \in 1..Len(assets) :
           assets[a] \in [kind : {"source", "output", "cover", "published", "publishedCover"}, of : Id,
                          state : {"pending", "ready", "unknown", "failed", "deleting", "cleanupFailed", "deleted"},
                          sent : BOOLEAN, known : BOOLEAN, by : Request \union {None}, ask : 0..MaxCommands]
    BY Numbers DEF AssetRow, AssetState
  <2> QED
    BY <1>1, <1>2, <1>3, <2>1, <2>2 DEF ProjectTypeOK, Typed, DocumentTyped
<1>5. ASSUME NEW w \in Worker
      PROVE  /\ work[w].job \in {"none", "clean", "publish", "process", "frame"}
             /\ work[w].for \in {"none", "output", "cover", "target", "coverTarget"}
             /\ work[w].asset \in Id /\ work[w].todo \subseteq [id : Id, sent : BOOLEAN, known : BOOLEAN]
  BY <1>1 DEF Typed, WorkRow, Entry
<1> QED
  BY <1>1, <1>4, <1>5 DEF TypeOK, Typed

(* What follows for the store.                                             *)
LEMMA WrittenOnce ==
    ASSUME VideoAssumption, Bounds, Written
    PROVE  SentOnce /\ DeletedIsGone
<1>1. ASSUME NEW a \in 1..Len(assets), Sending(a) PROVE a \notin stored
  BY <1>1 DEF Written, ObjectsOK, ObjectOK, Over, Landing
<1>2. ASSUME NEW w \in Worker, work[w].pc = "put" PROVE work[w].asset \notin stored \union inflight
  <2>1. work[w].asset \in 1..Len(assets) /\ Sending(work[w].asset)
    BY <1>2, Numbers DEF Handling, Sending
  <2> QED
    BY <1>1, <1>2, <2>1 DEF Written, PutsOK
<1>3. ASSUME NEW r \in Request, calls[r].pc = "put" PROVE Own(r) \notin stored \union inflight
  <2>1. Own(r) \in 1..Len(assets) /\ assets[Own(r)].by = r /\ Sending(Own(r))
    BY <1>3, OwnAlone DEF Uploading, Sending
  <2> QED
    BY <1>1, <1>3, <2>1 DEF Written, PutsOK
<1>4. DeletedIsGone
  BY DEF Written, ObjectsOK, ObjectOK, Past, Over, Landing, DeletedIsGone
<1> QED
  BY <1>2, <1>3, <1>4 DEF SentOnce, Doing, Asset, At

\* ObjectsAreWrittenOnce, of uploadVideoObjectIntent, putAsset and cleanupProject: over
\* documents that keep their shape and bounds, no object is sent while an earlier PUT of
\* it has arrived or may still arrive, and one recorded as deleted never comes back.
THEOREM ObjectsWrittenOnce ==
    ASSUME VideoAssumption, NoRivals
    PROVE  Spec => []ObjectsAreWrittenOnce
<1>1. Bounds /\ Written /\ CountsOK => ObjectsAreWrittenOnce
  BY KeepsShape, WrittenOnce DEF ObjectsAreWrittenOnce
<1> QED
  BY <1>1, ObjectsInductive, PTL

=============================================================================
