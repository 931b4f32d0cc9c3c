----------------------------- MODULE VideoProofs -----------------------------
(***************************************************************************)
(* VideoWorker, for any number of uploads, workers, objects and commands:  *)
(* shapes, what a document names, and which choice of a cover stands.      *)
(***************************************************************************)
EXTENDS VideoWorker, SequenceTheorems, TLAPS

-----------------------------------------------------------------------------
(* The shapes of the variables.                                            *)

PublicationState == {"idle", "queued", "running", "complete", "failed", "cancelled"}
PublicationRow == [state : PublicationState, pending : BOOLEAN, output : Id, cover : Id, target : Id, coverTarget : Id,
                   granted : BOOLEAN, approved : View]
FrameRow == [state : JobState, rev : Nat, ask : 0..MaxCommands]
ProjectRow == [cancelled : BOOLEAN, cleaned : BOOLEAN, source : Id, output : Id, auto : Id, choice : 0..Automatic, rev : Nat,
               proc : JobState, facts : BOOLEAN, frame : FrameRow, pub : PublicationRow]
AssetState == {"pending", "ready", "unknown", "failed", "deleting", "cleanupFailed", "deleted"}
AssetRow == [kind : {"source", "output", "cover", "published", "publishedCover"}, of : Id, state : AssetState,
             sent : BOOLEAN, known : BOOLEAN, by : Request \union {None}, ask : 0..MaxCommands]
IngressRow == {i \in [state : {"none", "receiving", "failed", "admitted"}, kind : {"none", "source", "cover"}, rev : Nat,
                       live : BOOLEAN, held : BOOLEAN, at : 0..MaxCommands] :
                  i.state = "receiving" => i.kind \in {"source", "cover"}}
CallPlace == {"idle", "digest", "intent", "put", "record", "finish", "inspect", "resolve"}
CallRow == [pc : CallPlace, asset : Id, found : {"no", "yes", "error"}]
Sight == [until : {"null", "expired", "live", "other"}, proc : JobState, frame : JobState, pub : PublicationState]
Entry == [id : Id, sent : BOOLEAN, known : BOOLEAN]
WorkPlace == {"idle", "claim", "deny", "clean", "publish", "process", "frame", "release", "failed", "finish",
              "recover", "head", "judge", "send", "put", "ack", "start", "decode", "stage", "cover", "select",
              "coverTarget", "replace", "grant", "next", "drop", "erase", "confirm", "cleanFail"}
WorkRow == [pc : WorkPlace, job : {"none", "clean", "publish", "process", "frame"},
            for : {"none", "output", "cover", "target", "coverTarget"}, asset : Id,
            found : {"found", "lost", "unsettled"}, known : BOOLEAN, todo : SUBSET Entry, pending : BOOLEAN,
            rev : Nat, ask : 0..MaxCommands, seen : Sight]

DocumentTyped ==
    /\ project \in ProjectRow
    /\ assets \in Seq(AssetRow) /\ Len(assets) <= MaxAssets
    /\ ingress \in [Request -> IngressRow]
    /\ track \in [output : Id, cover : Id] /\ choiceBy \in 0..MaxCommands
Typed ==
    /\ DocumentTyped
    /\ settled \union stored \union inflight \subseteq 1..Len(assets)
    /\ lease \in [owner : Worker \union {None}, until : {"null", "expired", "live"}]
    /\ admin \in BOOLEAN /\ view \in View
    /\ calls \in [Request -> CallRow]
    /\ work \in [Worker -> WorkRow]
    /\ commands \in 0..MaxCommands /\ faults \in Nat

-----------------------------------------------------------------------------
(* The operators the actions are built from.                               *)

LEMMA Limits == ASSUME VideoAssumption PROVE MaxAssets \in Nat /\ MaxCommands \in Nat /\ 0 \in Id /\ 0 \in 0..MaxCommands
  BY DEF VideoAssumption, Id

(* What is left as it is when a job goes on to another place.              *)
SameJob(d, e) ==
    /\ d.job = e.job /\ d.known = e.known /\ d.todo = e.todo /\ d.pending = e.pending
    /\ d.rev = e.rev /\ d.ask = e.ask /\ d.seen.pub = e.seen.pub
SameObject(d, e) == d.for = e.for /\ d.asset = e.asset /\ d.found = e.found
Alike(d, e) == d.pc = e.pc /\ SameJob(d, e) /\ SameObject(d, e)
Others(w) == \A q \in Worker : q # w => Alike(work'[q], work[q])

LEMMA Jumps ==
    ASSUME work \in [Worker -> WorkRow], NEW w \in Worker, NEW place \in WorkPlace, Jump(w, place)
    PROVE  /\ work' \in [Worker -> WorkRow] /\ Others(w)
           /\ work'[w].pc = place /\ SameJob(work'[w], work[w]) /\ SameObject(work'[w], work[w])
  BY DEF Jump, WorkRow, Others, Alike, SameJob, SameObject

LEMMA Takes ==
    ASSUME work \in [Worker -> WorkRow], NEW w \in Worker, NEW for \in {"none", "output", "cover", "target", "coverTarget"},
           NEW a \in Id, NEW place \in WorkPlace, Take(w, for, a, place)
    PROVE  /\ work' \in [Worker -> WorkRow] /\ Others(w)
           /\ work'[w].pc = place /\ SameJob(work'[w], work[w])
           /\ work'[w].for = for /\ work'[w].asset = a /\ work'[w].found = work[w].found
<1> DEFINE d == [work[w] EXCEPT !.for = for, !.asset = a, !.pc = place]
<1>1. work[w] \in WorkRow /\ work' = [work EXCEPT ![w] = d]
  BY DEF Take
<1>2. /\ d \in WorkRow /\ d.pc = place /\ SameJob(d, work[w])
      /\ d.for = for /\ d.asset = a /\ d.found = work[w].found
  BY <1>1 DEF WorkRow, SameJob
<1> HIDE DEF d
<1>3. work' \in [Worker -> WorkRow] /\ work'[w] = d /\ Others(w)
  BY <1>1, <1>2 DEF Others, Alike, SameJob, SameObject
<1> QED
  BY <1>2, <1>3

(* Where an error leads.                                                   *)
Clearing == {"drop", "head", "judge", "erase", "confirm"}
LEMMA Throws ==
    ASSUME NEW w \in Worker, Throw(w)
    PROVE  \E place \in {"cleanFail", "finish", "failed"} :
              /\ Jump(w, place)
              /\ place = "cleanFail" => work[w].job = "clean" /\ work[w].pc \in Clearing
              /\ place = "finish" => work[w].job = "process"
  BY DEF Throw, Clearing

(* One object's record changes.                                            *)
LEMMA SetsAsset ==
    ASSUME assets \in Seq(AssetRow), NEW a \in 1..Len(assets), NEW state \in AssetState, NEW known \in BOOLEAN,
           SetAsset(a, state, known)
    PROVE  /\ assets' \in Seq(AssetRow) /\ Len(assets') = Len(assets)
           /\ \A b \in 1..Len(assets) : b # a => assets'[b] = assets[b]
           /\ assets'[a].state = state /\ assets'[a].known = known /\ assets'[a].sent = assets[a].sent
           /\ assets'[a].of = assets[a].of /\ assets'[a].kind = assets[a].kind /\ assets'[a].by = assets[a].by
           /\ assets'[a].ask = assets[a].ask
<1> DEFINE d == [assets[a] EXCEPT !.state = state, !.known = known]
<1>1. assets[a] \in AssetRow /\ assets' = [assets EXCEPT ![a] = d]
  <2>1. assets \in [1..Len(assets) -> AssetRow]
    OBVIOUS
  <2> QED
    BY <2>1 DEF SetAsset
<1>2. /\ d \in AssetRow /\ d.state = state /\ d.known = known /\ d.sent = assets[a].sent
      /\ d.of = assets[a].of /\ d.kind = assets[a].kind /\ d.by = assets[a].by /\ d.ask = assets[a].ask
  BY <1>1 DEF AssetRow
<1> HIDE DEF d
<1>3. /\ assets' \in Seq(AssetRow) /\ Len(assets') = Len(assets) /\ assets'[a] = d
      /\ \A b \in 1..Len(assets) : b # a => assets'[b] = assets[b]
  BY <1>1, <1>2
<1> QED
  BY <1>2, <1>3

LEMMA Marks ==
    ASSUME assets \in Seq(AssetRow), NEW a \in 1..Len(assets), MarkSent(a)
    PROVE  /\ assets' \in Seq(AssetRow) /\ Len(assets') = Len(assets)
           /\ \A b \in 1..Len(assets) : b # a => assets'[b] = assets[b]
           /\ assets'[a].state = "unknown" /\ assets'[a].known = assets[a].known /\ assets'[a].sent
           /\ assets'[a].of = assets[a].of /\ assets'[a].kind = assets[a].kind /\ assets'[a].by = assets[a].by
           /\ assets'[a].ask = assets[a].ask
<1> DEFINE d == [assets[a] EXCEPT !.sent = TRUE, !.state = "unknown"]
<1>1. assets[a] \in AssetRow /\ assets' = [assets EXCEPT ![a] = d]
  <2>1. assets \in [1..Len(assets) -> AssetRow]
    OBVIOUS
  <2> QED
    BY <2>1 DEF MarkSent
<1>2. /\ d \in AssetRow /\ d.state = "unknown" /\ d.known = assets[a].known /\ d.sent
      /\ d.of = assets[a].of /\ d.kind = assets[a].kind /\ d.by = assets[a].by /\ d.ask = assets[a].ask
  BY <1>1 DEF AssetRow, AssetState
<1> HIDE DEF d
<1>3. /\ assets' \in Seq(AssetRow) /\ Len(assets') = Len(assets) /\ assets'[a] = d
      /\ \A b \in 1..Len(assets) : b # a => assets'[b] = assets[b]
  BY <1>1, <1>2
<1> QED
  BY <1>2, <1>3

(* A new object is named.                                                  *)
LEMMA NewAssets ==
    ASSUME NEW kind \in {"source", "output", "cover", "published", "publishedCover"}, NEW of \in Id,
           NEW by \in Request \union {None}, NEW ask \in 0..MaxCommands
    PROVE  /\ NewAsset(kind, of, by, ask) \in AssetRow
           /\ NewAsset(kind, of, by, ask).kind = kind /\ NewAsset(kind, of, by, ask).of = of
           /\ NewAsset(kind, of, by, ask).by = by /\ NewAsset(kind, of, by, ask).ask = ask
           /\ NewAsset(kind, of, by, ask).state = "pending"
           /\ ~NewAsset(kind, of, by, ask).sent /\ ~NewAsset(kind, of, by, ask).known
  BY DEF NewAsset, AssetRow, AssetState

LEMMA Appends ==
    ASSUME assets \in Seq(AssetRow), NEW e \in AssetRow, assets' = Append(assets, e)
    PROVE  /\ assets' \in Seq(AssetRow) /\ Len(assets') = Len(assets) + 1
           /\ \A b \in 1..Len(assets) : assets'[b] = assets[b]
           /\ assets'[Len(assets) + 1] = e
  OBVIOUS

-----------------------------------------------------------------------------
(* Bounds: who names which object.                                         *)

Handling == {"recover", "head", "judge", "send", "put", "ack", "replace", "grant", "select",
             "drop", "erase", "confirm", "cleanFail"}
Uploading == {"intent", "put", "record"}

(* An upload has one object, from its admission on.                        *)
UploadsOK ==
    /\ \A a, b \in 1..Len(assets) : assets[a].by = assets[b].by /\ assets[a].by # None => a = b
    /\ \A r \in Request :
          /\ At(r, "digest") => \A a \in 1..Len(assets) : assets[a].by # r
          /\ calls[r].pc \in Uploading => \E a \in 1..Len(assets) : assets[a].by = r
          /\ calls[r].asset \in 0..Len(assets)
          /\ calls[r].pc \in {"inspect", "resolve"} => calls[r].asset # 0

(* The document p points to objects it names.                              *)
Names(p, n) ==
    /\ p.source \in 0..n /\ p.output \in 0..n /\ p.pub.target \in 0..n /\ p.pub.coverTarget \in 0..n
    /\ p.pub.cover # 0 => p.pub.coverTarget # 0

PlacedAt(d, n) ==
    /\ d.asset \in 0..n
    /\ d.pc \in Handling => d.asset # 0
    /\ \A x \in d.todo : x.id \in 1..n

Bounds == /\ Typed /\ UploadsOK /\ Names(project, Len(assets))
          /\ \A w \in Worker : PlacedAt(work[w], Len(assets))

(* A request that carries `rev` was made by command `by` of n: no later    *)
(* choice has been made while the revision is that of the document.        *)
Fresh(rev, by, now, last, n) == rev <= now /\ (rev = now => last <= by) /\ by <= n
FreshOK ==
    /\ choiceBy <= commands
    /\ Fresh(0, 0, project.rev, choiceBy, commands)
    /\ Fresh(project.frame.rev, project.frame.ask, project.rev, choiceBy, commands)
    /\ \A r \in Request : Fresh(ingress[r].rev, ingress[r].at, project.rev, choiceBy, commands)
    /\ \A w \in Worker : Fresh(work[w].rev, work[w].ask, project.rev, choiceBy, commands)

-----------------------------------------------------------------------------
(* What a step does to the document: objects are added and keep what they  *)
(* were named for; the requests for a cover are as they were.              *)

Grows == /\ Len(assets) <= Len(assets')
         /\ \A a \in 1..Len(assets) : assets'[a].of = assets[a].of /\ assets'[a].by = assets[a].by
Added == \A a \in 1..Len(assets') : a \notin 1..Len(assets) => assets'[a].by = None /\ assets'[a].state = "pending"
Quiet == /\ project'.rev = project.rev /\ choiceBy' = choiceBy
         /\ project'.frame.rev = project.frame.rev /\ project'.frame.ask = project.frame.ask
         /\ \A r \in Request : ingress'[r].rev = ingress[r].rev /\ ingress'[r].at = ingress[r].at
Document == DocumentTyped' /\ Grows /\ Added /\ Names(project', Len(assets'))
SameRequests(p) == p.rev = project.rev /\ p.frame.rev = project.frame.rev /\ p.frame.ask = project.frame.ask

LEMMA DocumentStays ==
    ASSUME Bounds, UNCHANGED document
    PROVE  Document /\ Quiet
  BY DEF Bounds, Typed, DocumentTyped, document, Document, Quiet, Grows, Added

LEMMA AssetChanges ==
    ASSUME Bounds, NEW a \in 1..Len(assets), NEW state \in AssetState, NEW known \in BOOLEAN,
           SetAsset(a, state, known), Assets
    PROVE  Document /\ Quiet
<1>1. assets \in Seq(AssetRow)
  BY DEF Bounds, Typed, DocumentTyped
<1>2. /\ assets' \in Seq(AssetRow) /\ Len(assets') = Len(assets)
      /\ Grows
  BY <1>1, SetsAsset DEF Grows
<1>3. Added
  BY <1>2 DEF Added
<1> QED
  BY <1>2, <1>3 DEF Bounds, Typed, DocumentTyped, Document, Quiet, Assets

LEMMA ProjectChanges ==
    ASSUME Bounds, NEW p \in ProjectRow, Project(p), Names(p, Len(assets))
    PROVE  Document /\ (SameRequests(p) => Quiet)
  BY DEF Bounds, Typed, DocumentTyped, Project, Document, Quiet, Grows, Added, SameRequests

LEMMA ObjectNamed ==
    ASSUME Bounds, NEW e \in AssetRow, e.by = None, e.state = "pending", Len(assets) + 1 <= MaxAssets,
           assets' = Append(assets, e), project' \in ProjectRow, Names(project', Len(assets) + 1),
           SameRequests(project'), UNCHANGED <<ingress, track, choiceBy>>
    PROVE  Document /\ Quiet
<1>1. assets \in Seq(AssetRow)
  BY DEF Bounds, Typed, DocumentTyped
<1>2. /\ assets' \in Seq(AssetRow) /\ Len(assets') = Len(assets) + 1
      /\ \A b \in 1..Len(assets) : assets'[b] = assets[b]
      /\ assets'[Len(assets) + 1] = e
  BY <1>1, Appends
<1>3. Grows /\ Added
  BY <1>1, <1>2 DEF Grows, Added
<1> QED
  BY <1>2, <1>3 DEF Bounds, Typed, DocumentTyped, Document, Quiet, SameRequests

-----------------------------------------------------------------------------
(* What a step does to its worker.                                         *)

Went(w) == work' \in [Worker -> WorkRow] /\ Others(w) /\ PlacedAt(work'[w], Len(assets'))
Steady(w) == \/ work'[w].rev = work[w].rev /\ work'[w].ask = work[w].ask
             \/ work'[w].rev = 0 /\ work'[w].ask = 0
             \/ work'[w].rev = project.frame.rev /\ work'[w].ask = project.frame.ask

LEMMA JumpGoes ==
    ASSUME Bounds, NEW w \in Worker, NEW place \in WorkPlace, Jump(w, place), DocumentTyped', Grows,
           place \in Handling => work[w].pc \in Handling
    PROVE  Went(w) /\ Steady(w)
<1>1. work \in [Worker -> WorkRow] /\ PlacedAt(work[w], Len(assets))
  BY DEF Bounds, Typed
<1>2. /\ work' \in [Worker -> WorkRow] /\ Others(w)
      /\ work'[w].pc = place /\ SameJob(work'[w], work[w]) /\ SameObject(work'[w], work[w])
  BY <1>1, Jumps
<1>3. Len(assets) \in Nat /\ Len(assets') \in Nat /\ Len(assets) <= Len(assets')
  BY DEF Bounds, Typed, DocumentTyped, Grows
<1> QED
  BY <1>1, <1>2, <1>3 DEF Went, Steady, PlacedAt, SameJob, SameObject

LEMMA ThrowGoes ==
    ASSUME Bounds, NEW w \in Worker, Throw(w), DocumentTyped', Grows
    PROVE  Went(w) /\ Steady(w)
<1>1. PICK place \in {"cleanFail", "finish", "failed"} :
          Jump(w, place) /\ (place = "cleanFail" => work[w].pc \in Clearing)
  BY Throws
<1>2. place \in WorkPlace /\ (place \in Handling => work[w].pc \in Handling)
  BY <1>1 DEF WorkPlace, Handling, Clearing
<1> QED
  BY <1>1, <1>2, JumpGoes

LEMMA TakeGoes ==
    ASSUME VideoAssumption, Bounds, NEW w \in Worker, NEW for \in {"none", "output", "cover", "target", "coverTarget"},
           NEW a, NEW place \in WorkPlace, Take(w, for, a, place), DocumentTyped', Grows, a \in 0..Len(assets'),
           place \in Handling => a # 0
    PROVE  Went(w) /\ Steady(w)
<1>1. work \in [Worker -> WorkRow] /\ PlacedAt(work[w], Len(assets))
  BY DEF Bounds, Typed
<1>2. Len(assets) \in Nat /\ Len(assets') \in Nat /\ Len(assets) <= Len(assets') /\ Len(assets') <= MaxAssets
  BY DEF Bounds, Typed, DocumentTyped, Grows
<1>3. a \in Id
  BY <1>2, Limits DEF Id
<1>4. /\ work' \in [Worker -> WorkRow] /\ Others(w)
      /\ work'[w].pc = place /\ SameJob(work'[w], work[w]) /\ work'[w].asset = a
  BY <1>1, <1>3, Takes
<1> QED
  BY <1>1, <1>2, <1>4 DEF Went, Steady, PlacedAt, SameJob

LEMMA IdleTyped ==
    ASSUME VideoAssumption
    PROVE  /\ Idle \in WorkRow /\ Idle.pc = "idle" /\ Idle.job = "none" /\ Idle.for = "none" /\ Idle.asset = 0
           /\ Idle.todo = {} /\ Idle.rev = 0 /\ Idle.ask = 0
<1>1. NoSight \in Sight
  BY DEF NoSight, Sight, JobState, PublicationState
<1>2. {} \in SUBSET Entry
  OBVIOUS
<1> HIDE DEF NoSight
<1>3. Idle \in WorkRow
  BY <1>1, <1>2, Limits DEF Idle, WorkRow, WorkPlace
<1> QED
  BY <1>3 DEF Idle

LEMMA EndGoes ==
    ASSUME VideoAssumption, Bounds, NEW w \in Worker, work' = [work EXCEPT ![w] = Idle], DocumentTyped'
    PROVE  Went(w) /\ Steady(w)
<1>1. work \in [Worker -> WorkRow] /\ Len(assets') \in Nat
  BY DEF Bounds, Typed, DocumentTyped
<1> QED
  BY <1>1, IdleTyped DEF Went, Steady, Others, Alike, SameJob, SameObject, PlacedAt, Handling

-----------------------------------------------------------------------------
(* Together.                                                               *)

LEMMA WorkerBounds ==
    ASSUME VideoAssumption, Bounds, NEW w \in Worker, Document, Went(w),
           lease' \in [owner : Worker \union {None}, until : {"null", "expired", "live"}],
           settled' \union stored' \union inflight' \subseteq 1..Len(assets'), faults' \in Nat,
           UNCHANGED <<calls, admin, view, commands>>
    PROVE  Bounds'
<1>1. Typed'
  BY DEF Bounds, Typed, Document, Went
<1>2. /\ Len(assets) \in Nat /\ Len(assets') \in Nat /\ Len(assets) <= Len(assets')
      /\ \A a \in 1..Len(assets) : assets'[a].by = assets[a].by
  BY DEF Bounds, Typed, DocumentTyped, Document, Grows
<1>3. UploadsOK'
  <2>1. UploadsOK
    BY DEF Bounds
  <2>2. \A a, b \in 1..Len(assets') : assets'[a].by = assets'[b].by /\ assets'[a].by # None => a = b
    BY <1>2, <2>1 DEF UploadsOK, Document, Added
  <2>3. ASSUME NEW r \in Request, At(r, "digest")'
        PROVE  \A a \in 1..Len(assets') : assets'[a].by # r
    BY <1>2, <2>1, <2>3 DEF UploadsOK, At, Document, Added, VideoAssumption
  <2>4. ASSUME NEW r \in Request
        PROVE  /\ calls'[r].pc \in Uploading => \E a \in 1..Len(assets') : assets'[a].by = r
               /\ calls'[r].asset \in 0..Len(assets')
               /\ calls'[r].pc \in {"inspect", "resolve"} => calls'[r].asset # 0
    BY <1>2, <2>1 DEF UploadsOK
  <2> QED
    BY <2>2, <2>3, <2>4 DEF UploadsOK
<1>4. ASSUME NEW q \in Worker PROVE PlacedAt(work'[q], Len(assets'))
  <2>1. PlacedAt(work[q], Len(assets))
    BY DEF Bounds
  <2> QED
    BY <1>2, <2>1 DEF Went, Others, Alike, SameJob, SameObject, PlacedAt
<1> QED
  BY <1>1, <1>3, <1>4 DEF Bounds, Document

LEMMA WorkerFresh ==
    ASSUME Bounds, FreshOK, NEW w \in Worker, Quiet, Went(w), Steady(w), UNCHANGED commands
    PROVE  FreshOK' /\ choiceBy' >= choiceBy
<1>1. choiceBy' >= choiceBy
  BY DEF Quiet, Bounds, Typed, DocumentTyped
<1>2. project'.rev = project.rev /\ choiceBy' = choiceBy
  BY DEF Quiet
<1>3. ASSUME NEW q \in Worker PROVE Fresh(work'[q].rev, work'[q].ask, project'.rev, choiceBy', commands')
  BY <1>2 DEF FreshOK, Went, Steady, Others, Alike, SameJob
<1>4. ASSUME NEW r \in Request PROVE Fresh(ingress'[r].rev, ingress'[r].at, project'.rev, choiceBy', commands')
  BY <1>2 DEF FreshOK, Quiet
<1> QED
  BY <1>1, <1>2, <1>3, <1>4 DEF FreshOK, Quiet

(* What every step does to the bounds and to the requests.                 *)
Carried == Bounds' /\ FreshOK' /\ choiceBy' >= choiceBy
Rest == UNCHANGED <<admin, view, calls, commands>>

LEMMA WorkerKeeps ==
    ASSUME VideoAssumption, Bounds, FreshOK, NEW w \in Worker, Document, Quiet, Went(w), Steady(w), Rest,
           lease' \in [owner : Worker \union {None}, until : {"null", "expired", "live"}],
           settled' \subseteq settled, stored' \union inflight' \subseteq 1..Len(assets'), faults' \in Nat
    PROVE  Carried
<1>1. 1..Len(assets) \subseteq 1..Len(assets')
  BY DEF Bounds, Typed, DocumentTyped, Document, Grows
<1>2. settled' \union stored' \union inflight' \subseteq 1..Len(assets')
  BY <1>1 DEF Bounds, Typed
<1> QED
  BY <1>2, WorkerBounds, WorkerFresh DEF Carried, Rest

(* A step that leaves the lease and the store alone.                       *)
LEMMA CheckpointKeeps ==
    ASSUME VideoAssumption, Bounds, FreshOK, NEW w \in Worker, Document, Quiet, Went(w), Steady(w), Rest,
           UNCHANGED <<lease, bucket>>, settled' \subseteq settled, faults' \in Nat
    PROVE  Carried
<1>1. 1..Len(assets) \subseteq 1..Len(assets')
  BY DEF Bounds, Typed, DocumentTyped, Document, Grows
<1> QED
  BY <1>1, WorkerKeeps DEF Bounds, Typed, bucket

LEMMA MoveKeeps ==
    ASSUME VideoAssumption, Bounds, FreshOK, NEW w \in Worker, UNCHANGED document, Went(w), Steady(w), Rest,
           lease' \in [owner : Worker \union {None}, until : {"null", "expired", "live"}],
           stored' \union inflight' \subseteq 1..Len(assets), faults' \in Nat
    PROVE  Carried
  BY DocumentStays, WorkerKeeps DEF document

(* Handling an object, a worker knows which.                               *)
LEMMA Handles ==
    ASSUME Bounds, NEW w \in Worker, work[w].pc \in Handling
    PROVE  Asset(w) \in 1..Len(assets) /\ Asset(w) = work[w].asset /\ Len(assets) \in Nat
  BY DEF Bounds, PlacedAt, Asset, Typed, DocumentTyped

LEMMA FaultTyped == ASSUME Bounds, Fault \/ UNCHANGED faults PROVE faults' \in Nat
  BY DEF Bounds, Typed, Fault

LEMMA DocumentFacts ==
    ASSUME Bounds, UNCHANGED document
    PROVE  DocumentTyped' /\ Grows /\ Len(assets') = Len(assets) /\ settled' = settled
  BY DocumentStays DEF Document, document

-----------------------------------------------------------------------------
(* The steps that only move.                                               *)

LEMMA MovesKept ==
    ASSUME VideoAssumption, Bounds, FreshOK, NEW w \in Worker, Rest,
           Recover(w) \/ Look(w) \/ Put(w) \/ Erase(w)
    PROVE  Carried
<1>1. work[w].pc \in Handling /\ work[w] \in WorkRow /\ work \in [Worker -> WorkRow]
  BY DEF Recover, Look, Put, Erase, Doing, Handling, Bounds, Typed
<1>2. Asset(w) \in 1..Len(assets) /\ Asset(w) = work[w].asset
  BY <1>1, Handles
<1>3. UNCHANGED document /\ lease' = lease
  BY DEF Recover, Look, Put, Erase
<1>4. DocumentTyped' /\ Grows /\ Len(assets') = Len(assets)
  BY <1>3, DocumentFacts
<1>5. faults' \in Nat
  BY FaultTyped DEF Recover, Look, Put, Erase
<1>6. stored' \union inflight' \subseteq 1..Len(assets)
  BY <1>2 DEF Recover, Look, Put, Erase, bucket, Bounds, Typed
<1>7. Went(w) /\ Steady(w)
  <2>1. CASE Throw(w)
    BY <1>4, <2>1, ThrowGoes
  <2>2. CASE \E place \in WorkPlace : Jump(w, place)
    BY <1>1, <1>4, <2>2, JumpGoes
  <2>3. CASE Recover(w)
    <3> DEFINE place == IF Ready(Asset(w)) THEN Recovered(w)
                        ELSE IF Unsent(Asset(w)) THEN (IF work[w].for = "output" THEN "start" ELSE "grant") ELSE "head"
    <3>1. place \in WorkPlace
      BY DEF WorkPlace, Recovered, Onward
    <3>2. Jump(w, place)
      BY <2>3 DEF Recover
    <3> HIDE DEF place
    <3> QED
      BY <2>2, <3>1, <3>2
  <2>4. CASE Look(w) /\ ~Throw(w)
    <3> DEFINE x == IF Asset(w) \in stored THEN "found" ELSE IF work[w].known \/ Lost(Asset(w)) THEN "lost" ELSE "unsettled"
    <3>1. x \in {"found", "lost", "unsettled"} /\ "judge" \in WorkPlace
      BY DEF WorkPlace
    <3>2. work' = [work EXCEPT ![w].pc = "judge", ![w].found = x]
      BY <2>4 DEF Look
    <3> HIDE DEF x
    <3>3. /\ work' \in [Worker -> WorkRow] /\ \A q \in Worker : q # w => work'[q] = work[q]
          /\ SameJob(work'[w], work[w]) /\ work'[w].asset = work[w].asset
      BY <1>1, <3>1, <3>2 DEF WorkRow, SameJob
    <3>4. PlacedAt(work'[w], Len(assets'))
      BY <1>1, <1>4, <3>3 DEF PlacedAt, Bounds, SameJob
    <3> QED
      BY <3>3, <3>4 DEF Went, Steady, SameJob, Others, Alike, SameObject
  <2>5. CASE Put(w) /\ ~Throw(w)
    BY <2>2, <2>5 DEF Put, WorkPlace
  <2>6. CASE Erase(w) /\ ~Throw(w)
    BY <2>2, <2>6 DEF Erase, WorkPlace
  <2> QED
    BY <2>1, <2>3, <2>4, <2>5, <2>6
<1>8. lease' \in [owner : Worker \union {None}, until : {"null", "expired", "live"}]
  BY <1>3 DEF Bounds, Typed
<1> QED
  BY <1>3, <1>5, <1>6, <1>7, <1>8, MoveKeeps

LEMMA TurnsKept ==
    ASSUME VideoAssumption, Bounds, FreshOK, NEW w \in Worker, Rest,
           BeginProcess(w) \/ Decode(w) \/ CopyCover(w)
    PROVE  Carried
<1>1. UNCHANGED document /\ lease' = lease /\ UNCHANGED bucket
  BY DEF BeginProcess, Decode, CopyCover
<1>2. DocumentTyped' /\ Grows /\ Len(assets') = Len(assets)
  BY <1>1, DocumentFacts
<1>3. faults' \in Nat
  BY FaultTyped DEF BeginProcess, Decode, CopyCover
<1>4. Names(project, Len(assets)) /\ 0 \in 0..Len(assets)
  BY DEF Bounds, Typed, DocumentTyped
<1>5. CASE Throw(w)
  BY <1>2, <1>5, ThrowGoes, <1>1, <1>3, MoveKeeps DEF Bounds, Typed, bucket
<1>6. CASE BeginProcess(w) /\ ~Throw(w)
  <2>1. CASE Take(w, "output", project.output, "recover") /\ project.output # 0
    BY <1>2, <1>4, <2>1, TakeGoes, <1>1, <1>3, MoveKeeps DEF Names, Bounds, Typed, bucket, WorkPlace
  <2>2. CASE Jump(w, "start")
    BY <1>2, <2>2, JumpGoes, <1>1, <1>3, MoveKeeps DEF Bounds, Typed, bucket, WorkPlace, Handling
  <2> QED
    BY <1>6, <2>1, <2>2 DEF BeginProcess
<1>7. CASE Decode(w) /\ ~Throw(w)
  <2>1. CASE Jump(w, "cover")
    BY <1>2, <2>1, JumpGoes, <1>1, <1>3, MoveKeeps DEF Bounds, Typed, bucket, WorkPlace, Handling
  <2>2. CASE Jump(w, "stage")
    BY <1>2, <2>2, JumpGoes, <1>1, <1>3, MoveKeeps DEF Bounds, Typed, bucket, WorkPlace, Handling
  <2> QED
    BY <1>7, <2>1, <2>2 DEF Decode
<1>8. CASE CopyCover(w) /\ ~Throw(w)
  <2>1. CASE Take(w, "coverTarget", 0, "publish")
    BY <1>2, <1>4, <2>1, TakeGoes, <1>1, <1>3, MoveKeeps DEF Bounds, Typed, bucket, WorkPlace, Handling
  <2>2. CASE Take(w, "coverTarget", project.pub.coverTarget, "recover") /\ project.pub.cover # 0
    BY <1>2, <1>4, <2>2, TakeGoes, <1>1, <1>3, MoveKeeps DEF Names, Bounds, Typed, bucket, WorkPlace
  <2> QED
    BY <1>8, <2>1, <2>2 DEF CopyCover
<1> QED
  BY <1>5, <1>6, <1>7, <1>8

-----------------------------------------------------------------------------
(* Changes of the project document.                                        *)

(* The document points to the same objects, for the same requests.         *)
SamePointers(p) ==
    /\ p.source = project.source /\ p.output = project.output /\ p.pub.target = project.pub.target
    /\ p.pub.coverTarget = project.pub.coverTarget /\ p.pub.cover = project.pub.cover
    /\ SameRequests(p)

LEMMA PublicationChanges ==
    ASSUME project \in ProjectRow, NEW state \in PublicationState, NEW pending \in BOOLEAN, NEW cleaned \in BOOLEAN
    PROVE  /\ [project EXCEPT !.pub.state = state] \in ProjectRow
           /\ SamePointers([project EXCEPT !.pub.state = state])
           /\ [project EXCEPT !.pub.pending = pending] \in ProjectRow
           /\ SamePointers([project EXCEPT !.pub.pending = pending])
           /\ [project EXCEPT !.cleaned = cleaned, !.pub.pending = pending] \in ProjectRow
           /\ SamePointers([project EXCEPT !.cleaned = cleaned, !.pub.pending = pending])
           /\ [project EXCEPT !.pub.state = state, !.pub.pending = pending] \in ProjectRow
           /\ SamePointers([project EXCEPT !.pub.state = state, !.pub.pending = pending])
  BY DEF ProjectRow, PublicationRow, SamePointers, SameRequests

LEMMA JobChanges ==
    ASSUME project \in ProjectRow, NEW state \in JobState
    PROVE  /\ [project EXCEPT !.proc = state] \in ProjectRow /\ SamePointers([project EXCEPT !.proc = state])
           /\ [project EXCEPT !.frame.state = state] \in ProjectRow /\ SamePointers([project EXCEPT !.frame.state = state])
  BY DEF ProjectRow, FrameRow, SamePointers, SameRequests

LEMMA GivenUp ==
    ASSUME project \in ProjectRow, NEW proc \in JobState, NEW frame \in JobState, NEW state \in PublicationState
    PROVE  /\ [project EXCEPT !.proc = proc, !.frame.state = frame, !.pub.state = state] \in ProjectRow
           /\ SamePointers([project EXCEPT !.proc = proc, !.frame.state = frame, !.pub.state = state])
  BY DEF ProjectRow, FrameRow, PublicationRow, SamePointers, SameRequests

LEMMA PointersStay ==
    ASSUME Bounds, NEW p \in ProjectRow, Project(p), SamePointers(p)
    PROVE  Document /\ Quiet /\ settled' = settled /\ Len(assets') = Len(assets)
<1>1. Names(p, Len(assets)) /\ SameRequests(p)
  BY DEF Bounds, Names, SamePointers
<1> QED
  BY <1>1, ProjectChanges DEF Project

LEMMA Blames ==
    ASSUME Bounds PROVE Blame \in ProjectRow /\ SamePointers(Blame)
<1>1. project \in ProjectRow
  BY DEF Bounds, Typed, DocumentTyped
<1>2. /\ TRUE \in BOOLEAN /\ "failed" \in PublicationState /\ "failed" \in JobState
  BY DEF PublicationState, JobState
<1> QED
  BY <1>1, <1>2, PublicationChanges, JobChanges DEF Blame

-----------------------------------------------------------------------------
(* Claims and their ends.                                                  *)

LEMMA EndsKept ==
    ASSUME VideoAssumption, Bounds, FreshOK, NEW w \in Worker, Rest, Failed(w) \/ Release(w) \/ Crash(w)
    PROVE  Carried
<1>1. faults' \in Nat
  BY FaultTyped DEF Failed, Release, Crash
<1>2. CASE Failed(w)
  <2>1. Document /\ Quiet /\ settled' = settled
    <3>1. CASE UNCHANGED document
      BY <3>1, DocumentStays DEF document
    <3>2. CASE Project(Blame)
      BY <3>2, Blames, PointersStay
    <3> QED
      BY <1>2, <3>1, <3>2 DEF Failed
  <2>2. Went(w) /\ Steady(w)
    BY <1>2, <2>1, JumpGoes DEF Failed, Document, WorkPlace, Handling
  <2> QED
    BY <1>1, <1>2, <2>1, <2>2, CheckpointKeeps DEF Failed
<1>3. CASE Release(w)
  <2>1. DocumentTyped'
    BY <1>3, DocumentFacts DEF Release
  <2>2. Went(w) /\ Steady(w)
    BY <1>3, <2>1, EndGoes DEF Release
  <2>3. lease' \in [owner : Worker \union {None}, until : {"null", "expired", "live"}]
    BY <1>3 DEF Release, Bounds, Typed
  <2> QED
    BY <1>1, <1>3, <2>2, <2>3, MoveKeeps DEF Release, bucket, Bounds, Typed
<1>4. CASE Crash(w)
  <2>1. DocumentTyped'
    BY <1>4, DocumentFacts DEF Crash
  <2>2. Went(w) /\ Steady(w)
    BY <1>4, <2>1, EndGoes DEF Crash
  <2>3. Doing(w, "put") => Asset(w) \in 1..Len(assets)
    BY Handles DEF Doing, Handling
  <2>4. stored' \union inflight' \subseteq 1..Len(assets)
    BY <1>4, <2>3 DEF Crash, Bounds, Typed
  <2> QED
    BY <1>1, <1>4, <2>2, <2>4, MoveKeeps DEF Crash, Bounds, Typed
<1> QED
  BY <1>2, <1>3, <1>4

LEMMA PollKept ==
    ASSUME VideoAssumption, Bounds, FreshOK, NEW w \in Worker, Rest, Poll(w)
    PROVE  Carried
<1> DEFINE sight == [until |-> lease.until, proc |-> project.proc, frame |-> project.frame.state, pub |-> project.pub.state]
           d == [Idle EXCEPT !.pc = "claim", !.seen = sight]
<1>1. sight \in Sight
  BY DEF Bounds, Typed, DocumentTyped, ProjectRow, FrameRow, PublicationRow, Sight
<1>2. Idle \in WorkRow
  BY IdleTyped
<1> HIDE DEF sight
<1>3. d \in WorkRow /\ d.pc = "claim" /\ d.asset = 0 /\ d.todo = {} /\ d.rev = 0 /\ d.ask = 0
  BY <1>1, <1>2, IdleTyped DEF WorkRow, WorkPlace
<1>4. work' = [work EXCEPT ![w] = d] /\ UNCHANGED document
  BY DEF Poll, sight
<1> HIDE DEF d
<1>5. Len(assets') \in Nat /\ work \in [Worker -> WorkRow]
  BY <1>4 DEF Bounds, Typed, DocumentTyped, document
<1>6. Went(w) /\ Steady(w)
  BY <1>3, <1>4, <1>5 DEF Went, Steady, Others, Alike, SameJob, SameObject, PlacedAt, Handling
<1> QED
  BY <1>4, <1>6, MoveKeeps DEF Poll, Bounds, Typed, bucket

(* A renewal of the lease is all that a claim or a refusal changes for the others. *)
LEMMA RenewedAlike ==
    ASSUME NEW d \in WorkRow
    PROVE  Renewed(d) \in WorkRow /\ Alike(Renewed(d), d)
  BY DEF Renewed, WorkRow, Sight, Alike, SameJob, SameObject

LEMMA OneClaims ==
    ASSUME Bounds, NEW w \in Worker, NEW d \in WorkRow, DocumentTyped',
           work' = [q \in Worker |-> IF q = w THEN d ELSE Renewed(work[q])],
           d.asset = 0, d.todo = {}, d.rev = 0, d.ask = 0, d.pc \notin Handling
    PROVE  Went(w) /\ Steady(w) /\ work'[w] = d
<1>1. \A q \in Worker : work[q] \in WorkRow
  BY DEF Bounds, Typed
<1>2. work' \in [Worker -> WorkRow] /\ work'[w] = d
  BY <1>1, RenewedAlike
<1>3. Others(w)
  BY <1>1, RenewedAlike DEF Others
<1>4. PlacedAt(d, Len(assets'))
  BY DEF PlacedAt, DocumentTyped
<1> QED
  BY <1>2, <1>3, <1>4 DEF Went, Steady

LEMMA ClaimKept ==
    ASSUME VideoAssumption, Bounds, FreshOK, NEW w \in Worker, Rest, Claim(w)
    PROVE  Carried
<1>1. UNCHANGED <<document, bucket, faults>> /\ Doing(w, "claim")
  BY DEF Claim
<1>2. DocumentTyped' /\ Grows
  BY <1>1, DocumentFacts
<1>3. CASE Jump(w, "deny") /\ UNCHANGED lease
  BY <1>1, <1>2, <1>3, JumpGoes, MoveKeeps DEF Bounds, Typed, bucket, WorkPlace, Handling
<1>4. CASE work' = [work EXCEPT ![w] = Idle] /\ UNCHANGED lease
  BY <1>1, <1>2, <1>4, EndGoes, MoveKeeps DEF Bounds, Typed, bucket
<1>5. CASE ~UNCHANGED lease \/ ~(Jump(w, "deny") \/ work' = [work EXCEPT ![w] = Idle])
  <2> DEFINE d == [Idle EXCEPT !.job = Job, !.pc = IF Job = "none" THEN "release" ELSE Job]
  <2>1. /\ lease' = [owner |-> w, until |-> "live"]
        /\ work' = [q \in Worker |-> IF q # w THEN Renewed(work[q]) ELSE d]
    BY <1>3, <1>4, <1>5 DEF Claim
  <2>2. Job \in {"none", "clean", "publish", "process", "frame"}
    BY DEF Job
  <2>3. d \in WorkRow /\ d.asset = 0 /\ d.todo = {} /\ d.rev = 0 /\ d.ask = 0 /\ d.pc \notin Handling
    BY <2>2, IdleTyped DEF WorkRow, WorkPlace, Handling
  <2> HIDE DEF d
  <2>4. work' = [q \in Worker |-> IF q = w THEN d ELSE Renewed(work[q])]
    BY <2>1
  <2>5. Went(w) /\ Steady(w)
    BY <1>2, <2>3, <2>4, OneClaims
  <2> QED
    BY <1>1, <2>1, <2>5, MoveKeeps DEF Bounds, Typed, bucket
<1> QED
  BY <1>3, <1>4, <1>5

LEMMA DenyKept ==
    ASSUME VideoAssumption, Bounds, FreshOK, NEW w \in Worker, Rest, Deny(w)
    PROVE  Carried
<1> DEFINE p == [project EXCEPT !.proc = IF Active(work[w].seen.proc) THEN "failed" ELSE @,
                                !.frame.state = IF Active(work[w].seen.frame) THEN "failed" ELSE @,
                                !.pub.state = IF Active(work[w].seen.pub) THEN "failed" ELSE @]
<1>1. /\ \/ lease' = [owner |-> None, until |-> "live"] /\ Project(p)
         \/ UNCHANGED <<document, lease>>
      /\ work' = [q \in Worker |-> IF q = w THEN Idle ELSE Renewed(work[q])]
      /\ UNCHANGED <<bucket, faults>>
  BY DEF Deny
<1>2. project \in ProjectRow
  BY DEF Bounds, Typed, DocumentTyped
<1>3. p \in ProjectRow /\ SamePointers(p)
  <2> DEFINE proc == IF Active(work[w].seen.proc) THEN "failed" ELSE project.proc
             frame == IF Active(work[w].seen.frame) THEN "failed" ELSE project.frame.state
             state == IF Active(work[w].seen.pub) THEN "failed" ELSE project.pub.state
  <2>1. proc \in JobState /\ frame \in JobState /\ state \in PublicationState
    BY <1>2 DEF ProjectRow, FrameRow, PublicationRow, JobState, PublicationState
  <2>2. p = [project EXCEPT !.proc = proc, !.frame.state = frame, !.pub.state = state]
    OBVIOUS
  <2> HIDE DEF proc, frame, state, p
  <2>3. /\ [project EXCEPT !.proc = proc, !.frame.state = frame, !.pub.state = state] \in ProjectRow
        /\ SamePointers([project EXCEPT !.proc = proc, !.frame.state = frame, !.pub.state = state])
    BY <1>2, <2>1, GivenUp
  <2> QED
    BY <2>2, <2>3
<1> HIDE DEF p
<1>4. Document /\ Quiet /\ settled' = settled
  BY <1>1, <1>3, PointersStay, DocumentStays DEF document
<1>5. Went(w) /\ Steady(w)
  BY <1>1, <1>4, IdleTyped, OneClaims DEF Document, Handling
<1>6. lease' \in [owner : Worker \union {None}, until : {"null", "expired", "live"}]
  BY <1>1 DEF Bounds, Typed
<1>7. stored' \union inflight' \subseteq 1..Len(assets')
  BY <1>1, <1>4 DEF Bounds, Typed, DocumentTyped, bucket, Document, Grows
<1> QED
  BY <1>1, <1>4, <1>5, <1>6, <1>7, WorkerKeeps DEF Bounds, Typed

-----------------------------------------------------------------------------
(* Checkpoints.                                                            *)

LEMMA AssetCheckpoint ==
    ASSUME VideoAssumption, Bounds, FreshOK, NEW w \in Worker, Rest, work[w].pc \in Handling,
           NEW state \in AssetState, NEW known \in BOOLEAN, NEW place \in WorkPlace,
           (SetAsset(Asset(w), state, known) /\ Assets) \/ UNCHANGED document,
           Throw(w) \/ Jump(w, place), UNCHANGED <<lease, bucket>>, Fault \/ UNCHANGED faults
    PROVE  Carried
<1>1. Asset(w) \in 1..Len(assets)
  BY Handles
<1>2. Document /\ Quiet /\ settled' \subseteq settled
  BY <1>1, AssetChanges, DocumentStays DEF document, Assets
<1>3. Went(w) /\ Steady(w)
  BY <1>2, ThrowGoes, JumpGoes DEF Document
<1> QED
  BY <1>2, <1>3, FaultTyped, CheckpointKeeps

LEMMA ProjectCheckpoint ==
    ASSUME VideoAssumption, Bounds, FreshOK, NEW w \in Worker, Rest,
           NEW p \in ProjectRow, SamePointers(p), Project(p) \/ UNCHANGED document,
           NEW place \in WorkPlace \ Handling, Throw(w) \/ Jump(w, place),
           UNCHANGED <<lease, bucket>>, Fault \/ UNCHANGED faults
    PROVE  Carried
<1>1. Document /\ Quiet /\ settled' \subseteq settled
  BY PointersStay, DocumentStays DEF document
<1>2. Went(w) /\ Steady(w)
  BY <1>1, ThrowGoes, JumpGoes DEF Document
<1> QED
  BY <1>1, <1>2, FaultTyped, CheckpointKeeps

(* The records of an object are booleans and states.                       *)
LEMMA AssetTyped ==
    ASSUME Bounds, NEW a \in 1..Len(assets)
    PROVE  /\ assets[a] \in AssetRow /\ assets[a].known \in BOOLEAN /\ assets[a].sent \in BOOLEAN
           /\ assets[a].of \in Id /\ assets[a].ask \in 0..MaxCommands
           /\ assets[a].kind \in {"source", "output", "cover", "published", "publishedCover"}
           /\ "ready" \in AssetState /\ "failed" \in AssetState /\ "deleted" \in AssetState
           /\ "deleting" \in AssetState /\ "cleanupFailed" \in AssetState
<1>1. assets[a] \in AssetRow
  BY DEF Bounds, Typed, DocumentTyped
<1> QED
  BY <1>1 DEF AssetRow, AssetState

LEMMA RecordsKept ==
    ASSUME VideoAssumption, Bounds, FreshOK, NEW w \in Worker, Rest,
           JudgeRecovery(w) \/ Ack(w) \/ Drop(w) \/ JudgeCleanup(w) \/ Confirm(w)
    PROVE  Carried
<1>1. work[w].pc \in Handling
  BY DEF JudgeRecovery, Ack, Drop, JudgeCleanup, Confirm, Doing, Handling
<1>2. Asset(w) \in 1..Len(assets)
  BY <1>1, Handles
<1>3. /\ UNCHANGED <<lease, bucket>> /\ (Fault \/ UNCHANGED faults)
  BY DEF JudgeRecovery, Ack, Drop, JudgeCleanup, Confirm, Checkpoint
<1>4. /\ Recovered(w) \in WorkPlace /\ Absent(w) \in WorkPlace /\ Onward(w) \in WorkPlace
      /\ "next" \in WorkPlace /\ "erase" \in WorkPlace
  BY DEF Recovered, Absent, Onward, WorkPlace
<1>5. TRUE \in BOOLEAN /\ assets[Asset(w)].known \in BOOLEAN
  BY <1>2, AssetTyped
<1>6. CASE Throw(w) /\ UNCHANGED document
  BY <1>1, <1>2, <1>3, <1>4, <1>5, <1>6, AssetTyped, AssetCheckpoint
<1>7. CASE JudgeRecovery(w) /\ ~(Throw(w) /\ UNCHANGED document)
  <2>1. CASE work[w].found = "found"
    BY <1>1, <1>2, <1>3, <1>4, <1>5, <1>7, <2>1, AssetTyped, AssetCheckpoint DEF JudgeRecovery, Checkpoint
  <2>2. CASE work[w].found # "found"
    BY <1>1, <1>2, <1>3, <1>4, <1>5, <1>7, <2>2, AssetTyped, AssetCheckpoint DEF JudgeRecovery, Checkpoint
  <2> QED
    BY <2>1, <2>2
<1>8. CASE Ack(w)
  BY <1>1, <1>2, <1>3, <1>4, <1>5, <1>8, AssetTyped, AssetCheckpoint DEF Ack, Checkpoint
<1>9. CASE Drop(w)
  BY <1>1, <1>2, <1>3, <1>4, <1>5, <1>9, AssetTyped, AssetCheckpoint DEF Drop, Checkpoint
<1>10. CASE JudgeCleanup(w) /\ ~(Throw(w) /\ UNCHANGED document)
  <2>1. CASE work[w].found = "found"
    BY <1>1, <1>2, <1>3, <1>4, <1>5, <1>10, <2>1, AssetTyped, AssetCheckpoint DEF JudgeCleanup, Checkpoint
  <2>2. CASE work[w].found # "found"
    BY <1>1, <1>2, <1>3, <1>4, <1>5, <1>10, <2>2, AssetTyped, AssetCheckpoint DEF JudgeCleanup, Checkpoint
  <2> QED
    BY <2>1, <2>2
<1>11. CASE Confirm(w) /\ ~(Throw(w) /\ UNCHANGED document)
  BY <1>1, <1>2, <1>3, <1>4, <1>5, <1>11, AssetTyped, AssetCheckpoint DEF Confirm, Checkpoint
<1> QED
  BY <1>6, <1>7, <1>8, <1>9, <1>10, <1>11

LEMMA CleanFailKept ==
    ASSUME VideoAssumption, Bounds, FreshOK, NEW w \in Worker, Rest, CleanFail(w)
    PROVE  Carried
<1>1. work[w].pc \in Handling /\ UNCHANGED <<lease, bucket>> /\ (Fault \/ UNCHANGED faults)
  BY DEF CleanFail, Doing, Handling, Checkpoint
<1>2. Asset(w) \in 1..Len(assets) /\ assets[Asset(w)].known \in BOOLEAN /\ "cleanupFailed" \in AssetState
  BY <1>1, Handles, AssetTyped
<1>3. Document /\ Quiet /\ settled' \subseteq settled
  <2>1. CASE UNCHANGED document
    BY <2>1, DocumentStays DEF document
  <2>2. CASE SetAsset(Asset(w), "cleanupFailed", assets[Asset(w)].known) /\ Assets
    BY <1>2, <2>2, AssetChanges DEF Assets
  <2> QED
    BY <2>1, <2>2 DEF CleanFail, Checkpoint
<1>4. CASE Throw(w)
  BY <1>1, <1>3, <1>4, ThrowGoes, FaultTyped, CheckpointKeeps DEF Document
<1>5. CASE work' = [work EXCEPT ![w].pc = "next", ![w].pending = TRUE]
  <2>1. /\ work \in [Worker -> WorkRow] /\ work[w] \in WorkRow /\ PlacedAt(work[w], Len(assets))
        /\ Len(assets) \in Nat /\ Len(assets') \in Nat /\ Len(assets) <= Len(assets')
    BY <1>3 DEF Bounds, Typed, DocumentTyped, Document, Grows
  <2>2. /\ work' \in [Worker -> WorkRow] /\ \A q \in Worker : q # w => work'[q] = work[q]
        /\ work'[w].pc = "next" /\ work'[w].asset = work[w].asset /\ work'[w].todo = work[w].todo
        /\ work'[w].rev = work[w].rev /\ work'[w].ask = work[w].ask
    <3> DEFINE yes == TRUE
               d == [work[w] EXCEPT !.pc = "next", !.pending = yes]
    <3>4. yes \in BOOLEAN
      OBVIOUS
    <3> HIDE DEF yes
    <3>1. /\ d \in WorkRow /\ d.pc = "next" /\ d.asset = work[w].asset /\ d.todo = work[w].todo
          /\ d.rev = work[w].rev /\ d.ask = work[w].ask
      BY <2>1, <3>4 DEF WorkRow, WorkPlace
    <3>2. work' = [work EXCEPT ![w] = d]
      BY <1>5, <2>1 DEF yes
    <3> HIDE DEF d
    <3> QED
      BY <2>1, <3>1, <3>2
  <2>3. Went(w) /\ Steady(w)
    BY <2>1, <2>2 DEF Went, Steady, PlacedAt, Handling, Others, Alike, SameJob, SameObject
  <2> QED
    BY <1>1, <1>3, <2>3, FaultTyped, CheckpointKeeps
<1> QED
  BY <1>4, <1>5 DEF CleanFail, Checkpoint

LEMMA SendKept ==
    ASSUME VideoAssumption, Bounds, FreshOK, NEW w \in Worker, Rest, Send(w)
    PROVE  Carried
<1>1. work[w].pc \in Handling /\ UNCHANGED <<lease, bucket>> /\ (Fault \/ UNCHANGED faults)
  BY DEF Send, Doing, Handling, Checkpoint
<1>2. Asset(w) \in 1..Len(assets)
  BY <1>1, Handles
<1>3. Document /\ Quiet /\ settled' \subseteq settled
  <2>1. CASE UNCHANGED document
    BY <2>1, DocumentStays DEF document
  <2>2. CASE /\ MarkSent(Asset(w)) /\ settled' = settled \ {Asset(w)}
             /\ UNCHANGED <<project, ingress, track, choiceBy>>
    <3>1. /\ assets' \in Seq(AssetRow) /\ Len(assets') = Len(assets) /\ Grows
      BY <1>2, <2>2, Marks DEF Bounds, Typed, DocumentTyped, Grows
    <3>2. Added
      BY <3>1 DEF Added
    <3> QED
      BY <2>2, <3>1, <3>2 DEF Document, Quiet, Bounds, Typed, DocumentTyped
  <2> QED
    BY <2>1, <2>2 DEF Send, Checkpoint
<1>4. Went(w) /\ Steady(w)
  <2>1. "put" \in WorkPlace /\ DocumentTyped' /\ Grows
    BY <1>3 DEF WorkPlace, Document
  <2>2. Throw(w) \/ Jump(w, "put")
    BY DEF Send, Checkpoint
  <2> QED
    BY <1>1, <2>1, <2>2, ThrowGoes, JumpGoes
<1> QED
  BY <1>1, <1>3, <1>4, FaultTyped, CheckpointKeeps

-----------------------------------------------------------------------------
(* Checkpoints that name objects, choose covers or begin and end a job.    *)

LEMMA JobsKept ==
    ASSUME VideoAssumption, Bounds, FreshOK, NEW w \in Worker, Rest,
           Start(w) \/ FinishJob(w) \/ BeginPublish(w) \/ Granted(w) \/ CleanEnd(w)
    PROVE  Carried
<1>1. project \in ProjectRow /\ Names(project, Len(assets)) /\ Len(assets) \in Nat
  BY DEF Bounds, Typed, DocumentTyped
<1>2. /\ UNCHANGED <<lease, bucket>> /\ (Fault \/ UNCHANGED faults)
  BY DEF Start, FinishJob, BeginPublish, Granted, CleanEnd, Checkpoint
<1>3. /\ "running" \in JobState /\ "ready" \in JobState /\ "running" \in PublicationState
      /\ "release" \in WorkPlace \ Handling /\ "decode" \in WorkPlace \ Handling /\ "recover" \in WorkPlace
      /\ work[w].pending \in BOOLEAN
  BY DEF JobState, PublicationState, WorkPlace, Handling, Bounds, Typed, WorkRow
<1>4. CASE Start(w)
  <2> DEFINE p == [project EXCEPT !.proc = "running"]
  <2>1. p \in ProjectRow /\ SamePointers(p)
    BY <1>1, <1>3, JobChanges
  <2>2. /\ Project(p) \/ UNCHANGED document
        /\ Throw(w) \/ Take(w, "output", 0, "decode")
    BY <1>4 DEF Start, Checkpoint
  <2> HIDE DEF p
  <2>3. Document /\ Quiet /\ settled' \subseteq settled
    BY <2>1, <2>2, PointersStay, DocumentStays DEF document
  <2>4. DocumentTyped' /\ Grows /\ 0 \in 0..Len(assets')
    BY <2>3 DEF Document, DocumentTyped
  <2>5. Went(w) /\ Steady(w)
    BY <1>3, <2>2, <2>4, ThrowGoes, TakeGoes
  <2> QED
    BY <1>2, <2>3, <2>5, FaultTyped, CheckpointKeeps
<1>5. CASE FinishJob(w)
  <2> DEFINE p == IF work[w].job = "frame" THEN [project EXCEPT !.frame.state = "ready"] ELSE [project EXCEPT !.proc = "ready"]
  <2>1. p \in ProjectRow /\ SamePointers(p)
    BY <1>1, <1>3, JobChanges
  <2>2. /\ Project(p) \/ UNCHANGED document
        /\ Throw(w) \/ Jump(w, "release")
    BY <1>5 DEF FinishJob, Checkpoint
  <2> HIDE DEF p
  <2> QED
    BY <1>2, <1>3, <2>1, <2>2, ProjectCheckpoint
<1>6. CASE BeginPublish(w)
  <2> DEFINE p == [project EXCEPT !.pub.state = "running"]
  <2>1. p \in ProjectRow /\ SamePointers(p)
    BY <1>1, <1>3, PublicationChanges
  <2>2. /\ Project(p) \/ UNCHANGED document
        /\ Throw(w) \/ (Take(w, "target", project.pub.target, "recover") /\ project.pub.target # 0)
    BY <1>6 DEF BeginPublish, Checkpoint
  <2> HIDE DEF p
  <2>3. Document /\ Quiet /\ settled' \subseteq settled
    BY <2>1, <2>2, PointersStay, DocumentStays DEF document
  <2>4. DocumentTyped' /\ Grows /\ project.pub.target \in 0..Len(assets')
    BY <1>1, <2>3 DEF Document, DocumentTyped, Grows, Names
  <2>5. Went(w) /\ Steady(w)
    BY <1>3, <2>2, <2>4, ThrowGoes, TakeGoes
  <2> QED
    BY <1>2, <2>3, <2>5, FaultTyped, CheckpointKeeps
<1>7. CASE Granted(w)
  <2>1. UNCHANGED document /\ (Throw(w) \/ Jump(w, "send"))
    BY <1>7 DEF Granted, Checkpoint
  <2>2. work[w].pc \in Handling /\ "send" \in WorkPlace
    BY <1>7 DEF Granted, Doing, Handling, WorkPlace
  <2>3. Document /\ Quiet /\ settled' \subseteq settled
    BY <2>1, DocumentStays DEF document
  <2>4. Went(w) /\ Steady(w)
    BY <2>1, <2>2, <2>3, ThrowGoes, JumpGoes DEF Document
  <2> QED
    BY <1>2, <2>3, <2>4, FaultTyped, CheckpointKeeps
<1>8. CASE CleanEnd(w)
  <2> DEFINE p == [project EXCEPT !.cleaned = ~Uncleaned(w), !.pub.pending = Uncleaned(w)]
  <2>1. p \in ProjectRow /\ SamePointers(p)
    <3> DEFINE u == Uncleaned(w)
               c == ~Uncleaned(w)
    <3>1. u \in BOOLEAN /\ c \in BOOLEAN
      BY <1>3 DEF Uncleaned
    <3>2. p = [project EXCEPT !.cleaned = c, !.pub.pending = u]
      OBVIOUS
    <3> HIDE DEF p, u, c
    <3> QED
      BY <1>1, <1>3, <3>1, <3>2, PublicationChanges
  <2>2. /\ Project(p) \/ UNCHANGED document
        /\ Throw(w) \/ Jump(w, "release")
    BY <1>8 DEF CleanEnd, Checkpoint
  <2> HIDE DEF p
  <2> QED
    BY <1>2, <1>3, <2>1, <2>2, ProjectCheckpoint
<1> QED
  BY <1>4, <1>5, <1>6, <1>7, <1>8

LEMMA InsertKept ==
    ASSUME VideoAssumption, Bounds, FreshOK, NEW w \in Worker, Rest, InsertTrack(w)
    PROVE  Carried
<1> DEFINE p == [project EXCEPT !.pub.state = "complete", !.pub.pending = TRUE]
           t == [output |-> project.pub.target, cover |-> project.pub.coverTarget]
<1>1. project \in ProjectRow /\ "complete" \in PublicationState /\ TRUE \in BOOLEAN
  BY DEF Bounds, Typed, DocumentTyped, PublicationState
<1>2. p \in ProjectRow /\ SamePointers(p)
  BY <1>1, PublicationChanges
<1>3. t \in [output : Id, cover : Id]
  BY <1>1 DEF ProjectRow, PublicationRow
<1>4. /\ UNCHANGED <<lease, bucket>> /\ (Fault \/ UNCHANGED faults)
      /\ \/ track' = t /\ project' = p /\ UNCHANGED <<assets, settled, ingress, choiceBy>>
         \/ UNCHANGED document
      /\ Throw(w) \/ Jump(w, "release")
  BY DEF InsertTrack, Checkpoint
<1> HIDE DEF p, t
<1>5. Document /\ Quiet /\ settled' \subseteq settled
  <2>1. CASE UNCHANGED document
    BY <2>1, DocumentStays DEF document
  <2>2. CASE track' = t /\ project' = p /\ UNCHANGED <<assets, settled, ingress, choiceBy>>
    BY <1>2, <1>3, <2>2 DEF Document, Quiet, Bounds, Typed, DocumentTyped, Grows, Added, Names, SamePointers, SameRequests
  <2> QED
    BY <1>4, <2>1, <2>2
<1>6. Went(w) /\ Steady(w)
  BY <1>4, <1>5, ThrowGoes, JumpGoes DEF Document, WorkPlace, Handling
<1> QED
  BY <1>4, <1>5, <1>6, FaultTyped, CheckpointKeeps

LEMMA PickKept ==
    ASSUME VideoAssumption, Bounds, FreshOK, NEW w \in Worker, Rest, PickAsset(w)
    PROVE  Carried
<1>1. UNCHANGED <<document, lease, bucket, faults>>
  BY DEF PickAsset
<1>2. PICK x \in work[w].todo :
          work' = [work EXCEPT ![w].todo = @ \ {x}, ![w].asset = x.id, ![w].known = x.known,
                               ![w].pc = IF x.sent THEN "head" ELSE "drop"]
  BY DEF PickAsset
<1>3. /\ work \in [Worker -> WorkRow] /\ work[w] \in WorkRow /\ PlacedAt(work[w], Len(assets)) /\ Len(assets) \in Nat
      /\ Len(assets') = Len(assets)
  BY <1>1, DocumentFacts DEF Bounds, Typed, DocumentTyped
<1>4. x \in Entry /\ x.id \in 1..Len(assets)
  BY <1>3 DEF WorkRow, PlacedAt
<1> DEFINE rest == work[w].todo \ {x}
           place == IF x.sent THEN "head" ELSE "drop"
           d == [work[w] EXCEPT !.todo = rest, !.asset = x.id, !.known = x.known, !.pc = place]
<1>5. work' = [work EXCEPT ![w] = d]
  BY <1>2, <1>3
<1>6. rest \in SUBSET Entry /\ place \in WorkPlace /\ rest \subseteq work[w].todo
  BY <1>3 DEF WorkRow, WorkPlace
<1> HIDE DEF rest, place
<1>7. d \in WorkRow /\ d.asset = x.id /\ d.todo = rest /\ d.rev = work[w].rev /\ d.ask = work[w].ask
  BY <1>3, <1>4, <1>6 DEF WorkRow, Entry
<1> HIDE DEF d
<1>8. work' \in [Worker -> WorkRow] /\ work'[w] = d /\ \A q \in Worker : q # w => work'[q] = work[q]
  BY <1>3, <1>5, <1>7
<1>9. Went(w) /\ Steady(w)
  BY <1>3, <1>4, <1>6, <1>7, <1>8 DEF Went, Steady, PlacedAt, Others, Alike, SameJob, SameObject
<1> QED
  BY <1>1, <1>9, MoveKeeps DEF Bounds, Typed, bucket

LEMMA SweepKept ==
    ASSUME VideoAssumption, Bounds, FreshOK, NEW w \in Worker, Rest, Sweep(w)
    PROVE  Carried
<1> DEFINE swept == [r \in Request |-> IF Receiving(r) /\ ~ingress[r].live THEN [ingress[r] EXCEPT !.state = "failed", !.held = FALSE]
                                       ELSE ingress[r]]
           todo == {[id |-> a, sent |-> assets[a].sent, known |-> assets[a].known] : a \in {b \in 1..Len(assets) : ~Kept(b)}}
           pending == \E r \in Request : Receiving(r) /\ ingress[r].live
<1>1. /\ UNCHANGED <<lease, bucket>> /\ (Fault \/ UNCHANGED faults)
      /\ \/ ingress' = swept /\ UNCHANGED <<project, assets, settled, track, choiceBy>>
         \/ UNCHANGED document
      /\ Throw(w) \/ work' = [work EXCEPT ![w].pc = "next", ![w].todo = todo, ![w].pending = pending]
  BY DEF Sweep, Checkpoint
<1>2. /\ swept \in [Request -> IngressRow]
      /\ \A r \in Request : swept[r].rev = ingress[r].rev /\ swept[r].at = ingress[r].at
  <2>1. ASSUME NEW r \in Request
        PROVE  swept[r] \in IngressRow /\ swept[r].rev = ingress[r].rev /\ swept[r].at = ingress[r].at
    <3>1. ingress[r] \in IngressRow
      BY DEF Bounds, Typed, DocumentTyped
    <3>2. CASE swept[r] = ingress[r]
      BY <3>1, <3>2
    <3>3. CASE swept[r] = [ingress[r] EXCEPT !.state = "failed", !.held = FALSE]
      BY <3>1, <3>3 DEF IngressRow
    <3> QED
      BY <3>2, <3>3
  <2> QED
    BY <2>1
<1>3. \A x \in todo : x \in Entry /\ x.id \in 1..Len(assets)
  <2>1. SUFFICES ASSUME NEW a \in 1..Len(assets)
                 PROVE  [id |-> a, sent |-> assets[a].sent, known |-> assets[a].known] \in Entry
    OBVIOUS
  <2>2. a \in Id /\ assets[a].sent \in BOOLEAN /\ assets[a].known \in BOOLEAN
    BY AssetTyped, Limits DEF Bounds, Typed, DocumentTyped, Id
  <2> QED
    BY <2>2 DEF Entry
<1>4. todo \in SUBSET Entry /\ pending \in BOOLEAN
  BY <1>3
<1> HIDE DEF swept, todo, pending
<1>5. Document /\ Quiet /\ settled' \subseteq settled
  <2>1. CASE UNCHANGED document
    BY <2>1, DocumentStays DEF document
  <2>2. CASE ingress' = swept /\ UNCHANGED <<project, assets, settled, track, choiceBy>>
    BY <1>2, <2>2 DEF Document, Quiet, Bounds, Typed, DocumentTyped, Grows, Added
  <2> QED
    BY <1>1, <2>1, <2>2
<1>6. Went(w) /\ Steady(w)
  <2>1. CASE Throw(w)
    BY <1>5, <2>1, ThrowGoes DEF Document
  <2>2. CASE work' = [work EXCEPT ![w].pc = "next", ![w].todo = todo, ![w].pending = pending]
    <3> DEFINE d == [work[w] EXCEPT !.pc = "next", !.todo = todo, !.pending = pending]
    <3>1. work \in [Worker -> WorkRow] /\ work[w] \in WorkRow /\ PlacedAt(work[w], Len(assets))
      BY DEF Bounds, Typed
    <3>2. work' = [work EXCEPT ![w] = d]
      BY <2>2, <3>1
    <3>3. d \in WorkRow /\ d.pc = "next" /\ d.todo = todo /\ d.asset = work[w].asset /\ d.rev = work[w].rev /\ d.ask = work[w].ask
      BY <1>4, <3>1 DEF WorkRow, WorkPlace
    <3> HIDE DEF d
    <3>4. work' \in [Worker -> WorkRow] /\ work'[w] = d /\ \A q \in Worker : q # w => work'[q] = work[q]
      BY <3>1, <3>2, <3>3
    <3>5. Len(assets) \in Nat /\ Len(assets') \in Nat /\ Len(assets) <= Len(assets')
      BY <1>5 DEF Bounds, Typed, DocumentTyped, Document, Grows
    <3> QED
      BY <1>3, <3>1, <3>3, <3>4, <3>5 DEF Went, Steady, PlacedAt, Handling, Others, Alike, SameJob, SameObject
  <2> QED
    BY <1>1, <2>1, <2>2
<1> QED
  BY <1>1, <1>5, <1>6, FaultTyped, CheckpointKeeps

LEMMA FrameBegins ==
    ASSUME VideoAssumption, Bounds, FreshOK, NEW w \in Worker, Rest, BeginFrame(w)
    PROVE  Carried
<1> DEFINE p == [project EXCEPT !.frame.state = "running"]
           d == [work[w] EXCEPT !.for = "cover", !.pc = "decode", !.rev = project.frame.rev, !.ask = project.frame.ask]
<1>1. /\ project \in ProjectRow /\ "running" \in JobState /\ project.frame.rev \in Nat /\ project.frame.ask \in 0..MaxCommands
      /\ work \in [Worker -> WorkRow] /\ work[w] \in WorkRow /\ PlacedAt(work[w], Len(assets))
  BY DEF Bounds, Typed, DocumentTyped, ProjectRow, FrameRow, JobState
<1>2. p \in ProjectRow /\ SamePointers(p)
  BY <1>1, JobChanges
<1>3. /\ UNCHANGED <<lease, bucket>> /\ (Fault \/ UNCHANGED faults)
      /\ Project(p) \/ UNCHANGED document
      /\ Throw(w) \/ work' = [work EXCEPT ![w].for = "cover", ![w].pc = "decode", ![w].rev = project.frame.rev, ![w].ask = project.frame.ask]
  BY DEF BeginFrame, Checkpoint
<1> HIDE DEF p
<1>4. Document /\ Quiet /\ settled' \subseteq settled
  BY <1>2, <1>3, PointersStay, DocumentStays DEF document
<1>5. Went(w) /\ Steady(w)
  <2>1. CASE Throw(w)
    BY <1>4, <2>1, ThrowGoes DEF Document
  <2>2. CASE work' = [work EXCEPT ![w].for = "cover", ![w].pc = "decode", ![w].rev = project.frame.rev, ![w].ask = project.frame.ask]
    <3>1. work' = [work EXCEPT ![w] = d]
      BY <1>1, <2>2
    <3>2. /\ d \in WorkRow /\ d.pc = "decode" /\ d.todo = work[w].todo /\ d.asset = work[w].asset
          /\ d.rev = project.frame.rev /\ d.ask = project.frame.ask
      BY <1>1 DEF WorkRow, WorkPlace
    <3> HIDE DEF d
    <3>3. work' \in [Worker -> WorkRow] /\ work'[w] = d /\ \A q \in Worker : q # w => work'[q] = work[q]
      BY <1>1, <3>1, <3>2
    <3>4. Len(assets) \in Nat /\ Len(assets') \in Nat /\ Len(assets) <= Len(assets')
      BY <1>4 DEF Bounds, Typed, DocumentTyped, Document, Grows
    <3> QED
      BY <1>1, <3>2, <3>3, <3>4 DEF Went, Steady, PlacedAt, Handling, Others, Alike, SameJob, SameObject
  <2> QED
    BY <1>3, <2>1, <2>2
<1> QED
  BY <1>3, <1>4, <1>5, FaultTyped, CheckpointKeeps

(* A checkpoint that names an object.                                      *)
LEMMA NamingKeeps ==
    ASSUME VideoAssumption, Bounds, FreshOK, NEW w \in Worker, Rest,
           NEW e \in AssetRow, e.by = None, e.state = "pending",
           NEW p \in ProjectRow, Names(p, Len(assets) + 1), SameRequests(p),
           NEW for \in {"none", "output", "cover", "target", "coverTarget"}, NEW place \in WorkPlace,
           \/ /\ Len(assets) + 1 <= MaxAssets /\ assets' = Append(assets, e) /\ project' = p
              /\ UNCHANGED <<settled, ingress, track, choiceBy>>
              /\ Throw(w) \/ Take(w, for, Len(assets) + 1, place)
           \/ UNCHANGED document /\ Throw(w),
           UNCHANGED <<lease, bucket>>, Fault \/ UNCHANGED faults
    PROVE  Carried
<1>1. CASE UNCHANGED document /\ Throw(w)
  BY <1>1, DocumentStays, ThrowGoes, FaultTyped, CheckpointKeeps DEF Document, document
<1>2. CASE /\ Len(assets) + 1 <= MaxAssets /\ assets' = Append(assets, e) /\ project' = p
           /\ UNCHANGED <<settled, ingress, track, choiceBy>>
           /\ Throw(w) \/ Take(w, for, Len(assets) + 1, place)
  <2>1. Document /\ Quiet
    BY <1>2, ObjectNamed
  <2>2. DocumentTyped' /\ Grows /\ Len(assets) + 1 \in 0..Len(assets') /\ Len(assets) + 1 # 0
    <3>1. Len(assets') = Len(assets) + 1 /\ Len(assets) \in Nat
      BY <1>2 DEF Bounds, Typed, DocumentTyped
    <3> QED
      BY <2>1, <3>1 DEF Document
  <2>3. Went(w) /\ Steady(w)
    BY <1>2, <2>2, ThrowGoes, TakeGoes
  <2> QED
    BY <1>2, <2>1, <2>3, FaultTyped, CheckpointKeeps
<1> QED
  BY <1>1, <1>2

LEMMA NamesGrow ==
    ASSUME Bounds
    PROVE  /\ Names(project, Len(assets)) /\ Names(project, Len(assets) + 1) /\ Len(assets) \in Nat
           /\ Len(assets) + 1 \in 0..(Len(assets) + 1) /\ Len(assets) + 1 # 0
           /\ project \in ProjectRow /\ FALSE \in BOOLEAN /\ TRUE \in BOOLEAN
  BY DEF Bounds, Typed, DocumentTyped, Names

LEMMA StageKept ==
    ASSUME VideoAssumption, Bounds, FreshOK, NEW w \in Worker, Rest, Stage(w)
    PROVE  Carried
<1> DEFINE a == Len(assets) + 1
           p == [project EXCEPT !.facts = TRUE, !.output = project.source]
           q == [project EXCEPT !.facts = TRUE, !.output = a]
           e == NewAsset("output", a, None, 0)
<1>1. /\ UNCHANGED <<lease, bucket>> /\ (Fault \/ UNCHANGED faults)
  BY DEF Stage, Checkpoint
<1>2. \/ /\ Project(p) \/ UNCHANGED document
         /\ Throw(w) \/ Take(w, "output", project.source, "cover")
      \/ /\ a <= MaxAssets /\ assets' = Append(assets, e) /\ project' = q
         /\ UNCHANGED <<settled, ingress, track, choiceBy>>
         /\ Throw(w) \/ Take(w, "output", a, "send")
      \/ UNCHANGED document /\ Throw(w)
  BY DEF Stage, Checkpoint
<1>3. p \in ProjectRow /\ Names(p, Len(assets)) /\ SameRequests(p)
  BY NamesGrow DEF ProjectRow, Names, SameRequests
<1>4. CASE UNCHANGED document /\ Throw(w)
  BY <1>1, <1>4, DocumentStays, ThrowGoes, FaultTyped, CheckpointKeeps DEF Document, document
<1>5. CASE /\ Project(p) \/ UNCHANGED document
           /\ Throw(w) \/ Take(w, "output", project.source, "cover")
  <2> HIDE DEF p
  <2>1. Document /\ Quiet /\ settled' \subseteq settled
    BY <1>3, <1>5, ProjectChanges, DocumentStays DEF document, Project
  <2>2. DocumentTyped' /\ Grows /\ project.source \in 0..Len(assets')
    BY <2>1, NamesGrow DEF Document, DocumentTyped, Grows, Names
  <2>3. "cover" \in WorkPlace /\ "cover" \notin Handling
    BY DEF WorkPlace, Handling
  <2>4. Went(w) /\ Steady(w)
    BY <1>5, <2>2, <2>3, ThrowGoes, TakeGoes
  <2> QED
    BY <1>1, <2>1, <2>4, FaultTyped, CheckpointKeeps
<1>6. CASE /\ a <= MaxAssets /\ assets' = Append(assets, e) /\ project' = q
           /\ UNCHANGED <<settled, ingress, track, choiceBy>>
           /\ Throw(w) \/ Take(w, "output", a, "send")
  <2>1. a \in Id
    BY <1>6, NamesGrow, Limits DEF Id
  <2>2. e \in AssetRow /\ e.by = None /\ e.state = "pending"
    BY <2>1, Limits, NewAssets
  <2>3. q \in ProjectRow /\ Names(q, a) /\ SameRequests(q)
    BY <2>1, NamesGrow DEF ProjectRow, Names, SameRequests
  <2>4. "send" \in WorkPlace
    BY DEF WorkPlace
  <2> HIDE DEF q, e
  <2> QED
    BY <1>1, <1>6, <2>2, <2>3, <2>4, NamingKeeps
<1> QED
  BY <1>2, <1>4, <1>5, <1>6

LEMMA AddCoverKept ==
    ASSUME VideoAssumption, Bounds, FreshOK, NEW w \in Worker, Rest, AddCover(w)
    PROVE  Carried
<1> DEFINE a == Len(assets) + 1
           p == [project EXCEPT !.cleaned = FALSE]
           q == IF work[w].job = "process" THEN [p EXCEPT !.auto = a] ELSE p
           e == NewAsset("cover", a, None, work[w].ask)
<1>1. /\ UNCHANGED <<lease, bucket>> /\ (Fault \/ UNCHANGED faults)
  BY DEF AddCover, Checkpoint
<1>2. \/ /\ a <= MaxAssets /\ assets' = Append(assets, e) /\ project' = q
         /\ UNCHANGED <<settled, ingress, track, choiceBy>>
         /\ Throw(w) \/ Take(w, "cover", a, "send")
      \/ UNCHANGED document /\ (Throw(w) \/ Jump(w, "finish"))
  BY DEF AddCover, Checkpoint
<1>3. CASE UNCHANGED document /\ (Throw(w) \/ Jump(w, "finish"))
  BY <1>1, <1>3, DocumentStays, ThrowGoes, JumpGoes, FaultTyped, CheckpointKeeps DEF Document, document, WorkPlace, Handling
<1>4. CASE /\ a <= MaxAssets /\ assets' = Append(assets, e) /\ project' = q
           /\ UNCHANGED <<settled, ingress, track, choiceBy>>
           /\ Throw(w) \/ Take(w, "cover", a, "send")
  <2>1. a \in Id
    BY <1>4, NamesGrow, Limits DEF Id
  <2>2. work[w].ask \in 0..MaxCommands
    BY DEF Bounds, Typed, WorkRow
  <2>3. e \in AssetRow /\ e.by = None /\ e.state = "pending"
    BY <2>1, <2>2, NewAssets
  <2>4. q \in ProjectRow /\ Names(q, a) /\ SameRequests(q)
    BY <2>1, NamesGrow DEF ProjectRow, Names, SameRequests
  <2>5. "send" \in WorkPlace
    BY DEF WorkPlace
  <2> HIDE DEF q, e
  <2> QED
    BY <1>1, <1>4, <2>3, <2>4, <2>5, NamingKeeps
<1> QED
  BY <1>2, <1>3, <1>4

LEMMA ReplaceKept ==
    ASSUME VideoAssumption, Bounds, FreshOK, NEW w \in Worker, Rest, Replace(w)
    PROVE  Carried
<1> DEFINE a == Len(assets) + 1
           q == IF work[w].for = "target" THEN [project EXCEPT !.pub.target = a] ELSE [project EXCEPT !.pub.coverTarget = a]
           e == NewAsset(assets[Asset(w)].kind, assets[Asset(w)].of, None, 0)
<1>1. /\ UNCHANGED <<lease, bucket>> /\ (Fault \/ UNCHANGED faults)
      /\ work[w].pc \in Handling
  BY DEF Replace, Checkpoint, Doing, Handling
<1>2. \/ /\ a <= MaxAssets /\ assets' = Append(assets, e) /\ project' = q
         /\ UNCHANGED <<settled, ingress, track, choiceBy>>
         /\ Throw(w) \/ Take(w, work[w].for, a, "grant")
      \/ UNCHANGED document /\ Throw(w)
  BY DEF Replace, Checkpoint
<1>3. CASE UNCHANGED document /\ Throw(w)
  BY <1>1, <1>3, DocumentStays, ThrowGoes, FaultTyped, CheckpointKeeps DEF Document, document
<1>4. CASE /\ a <= MaxAssets /\ assets' = Append(assets, e) /\ project' = q
           /\ UNCHANGED <<settled, ingress, track, choiceBy>>
           /\ Throw(w) \/ Take(w, work[w].for, a, "grant")
  <2>1. a \in Id
    BY <1>4, NamesGrow, Limits DEF Id
  <2>2. e \in AssetRow /\ e.by = None /\ e.state = "pending"
    <3>1. /\ assets[Asset(w)].kind \in {"source", "output", "cover", "published", "publishedCover"}
          /\ assets[Asset(w)].of \in Id /\ None \in Request \union {None} /\ 0 \in 0..MaxCommands
      BY <1>1, Handles, AssetTyped, Limits
    <3> QED
      BY <3>1, NewAssets
  <2>3. q \in ProjectRow /\ Names(q, a) /\ SameRequests(q)
    BY <2>1, NamesGrow DEF ProjectRow, PublicationRow, Names, SameRequests
  <2>4. "grant" \in WorkPlace /\ work[w].for \in {"none", "output", "cover", "target", "coverTarget"}
    BY DEF WorkPlace, Bounds, Typed, WorkRow
  <2> HIDE DEF q, e
  <2> QED
    BY <1>1, <1>4, <2>2, <2>3, <2>4, NamingKeeps
<1> QED
  BY <1>2, <1>3, <1>4

-----------------------------------------------------------------------------
(* The requests for a cover and the choice.                                *)

(* A new revision outdates every earlier request.                          *)
LEMMA FreshStays ==
    ASSUME Bounds, commands' \in Nat, commands <= commands', project'.rev \in Nat,
           (project'.rev = project.rev /\ choiceBy' = choiceBy) \/ project'.rev > project.rev,
           NEW rev \in Nat, NEW by \in Nat, Fresh(rev, by, project.rev, choiceBy, commands)
    PROVE  Fresh(rev, by, project'.rev, choiceBy', commands')
<1>1. commands \in Nat /\ project.rev \in Nat
  BY DEF Bounds, Typed, DocumentTyped, ProjectRow
<1> QED
  BY <1>1 DEF Fresh

(* A cover is selected, for a fresh request, or nothing is chosen.         *)
LEMMA Selects ==
    ASSUME VideoAssumption, Bounds, NEW p \in ProjectRow, SameRequests(p), NEW a \in 0..Automatic,
           NEW rev \in Nat, NEW by \in 0..MaxCommands, Fresh(rev, by, project.rev, choiceBy, commands), Select(p, a, rev, by)
    PROVE  /\ project' \in ProjectRow /\ project'.frame = p.frame /\ project'.source = p.source /\ project'.output = p.output
           /\ project'.pub = p.pub /\ choiceBy' \in 0..MaxCommands /\ choiceBy <= choiceBy'
           /\ (project'.rev = project.rev /\ choiceBy' = choiceBy) \/ project'.rev > project.rev
           /\ choiceBy' = by \/ choiceBy' = choiceBy
<1>1. /\ project \in ProjectRow /\ choiceBy \in 0..MaxCommands /\ p.rev = project.rev /\ project.rev \in Nat
  BY DEF Bounds, Typed, DocumentTyped, SameRequests, ProjectRow
<1>2. CASE Unchosen(rev)
  <2> DEFINE next == p.rev + 1
             d == [p EXCEPT !.choice = a, !.rev = next]
  <2>1. project' = d /\ choiceBy' = by
    BY <1>2 DEF Select
  <2>4. next \in Nat /\ next = p.rev + 1
    BY <1>1
  <2> HIDE DEF next
  <2>2. /\ d \in ProjectRow /\ d.frame = p.frame /\ d.source = p.source /\ d.output = p.output
        /\ d.pub = p.pub /\ d.rev = next
    BY <1>1, <2>4 DEF ProjectRow
  <2>3. choiceBy <= by
    BY <1>2 DEF Unchosen, Fresh
  <2> HIDE DEF d
  <2> QED
    BY <1>1, <2>1, <2>2, <2>3, <2>4
<1>3. CASE ~Unchosen(rev)
  BY <1>1, <1>3, Limits DEF Select
<1> QED
  BY <1>2, <1>3

LEMMA SelectCoverKept ==
    ASSUME VideoAssumption, Bounds, FreshOK, NEW w \in Worker, Rest, SelectCover(w)
    PROVE  Carried
<1>1. /\ UNCHANGED <<lease, bucket>> /\ (Fault \/ UNCHANGED faults)
      /\ work[w].pc \in Handling
      /\ Throw(w) \/ Jump(w, "finish")
      /\ \/ /\ \/ Select(project, Asset(w), work[w].rev, work[w].ask)
               \/ project' = [project EXCEPT !.auto = Asset(w)] /\ UNCHANGED choiceBy
            /\ UNCHANGED <<assets, settled, ingress, track>>
         \/ UNCHANGED document
  BY DEF SelectCover, Checkpoint, Doing, Handling
<1>2. Asset(w) \in 0..Automatic /\ Asset(w) \in Id
  BY <1>1, Handles, Limits DEF Automatic, Id, Bounds, Typed, DocumentTyped
<1>3. /\ work[w].rev \in Nat /\ work[w].ask \in 0..MaxCommands
      /\ Fresh(work[w].rev, work[w].ask, project.rev, choiceBy, commands)
      /\ project \in ProjectRow /\ SameRequests(project) /\ commands \in 0..MaxCommands
  BY DEF Bounds, Typed, DocumentTyped, WorkRow, FreshOK, SameRequests
<1>4. "finish" \in WorkPlace /\ "finish" \notin Handling
  BY DEF WorkPlace, Handling
<1>5. CASE UNCHANGED document
  BY <1>1, <1>4, <1>5, DocumentStays, ThrowGoes, JumpGoes, FaultTyped, CheckpointKeeps DEF Document, document
<1>6. CASE project' = [project EXCEPT !.auto = Asset(w)] /\ UNCHANGED <<assets, settled, ingress, track, choiceBy>>
  <2> DEFINE p == [project EXCEPT !.auto = Asset(w)]
  <2>1. p \in ProjectRow /\ SamePointers(p)
    BY <1>2, <1>3 DEF ProjectRow, SamePointers, SameRequests
  <2>2. Project(p)
    BY <1>6 DEF Project
  <2> HIDE DEF p
  <2> QED
    BY <1>1, <1>4, <2>1, <2>2, ProjectCheckpoint
<1>7. CASE Select(project, Asset(w), work[w].rev, work[w].ask) /\ UNCHANGED <<assets, settled, ingress, track>>
  <2>1. /\ project' \in ProjectRow /\ project'.frame = project.frame /\ project'.source = project.source
        /\ project'.output = project.output /\ project'.pub = project.pub /\ choiceBy' \in 0..MaxCommands /\ choiceBy <= choiceBy'
        /\ (project'.rev = project.rev /\ choiceBy' = choiceBy) \/ project'.rev > project.rev
        /\ choiceBy' = work[w].ask \/ choiceBy' = choiceBy
    BY <1>2, <1>3, <1>7, Selects
  <2>2. Document
    BY <1>7, <2>1 DEF Document, Grows, Added, Names, Bounds, Typed, DocumentTyped
  <2>3. /\ Went(w)
        /\ \/ work'[w].rev = work[w].rev /\ work'[w].ask = work[w].ask
           \/ work'[w].rev = 0 /\ work'[w].ask = 0
           \/ work'[w].rev = project.frame.rev /\ work'[w].ask = project.frame.ask
    BY <1>1, <1>4, <2>2, ThrowGoes, JumpGoes DEF Document, Steady
  <2>4. settled' \union stored' \union inflight' \subseteq 1..Len(assets') /\ faults' \in Nat
    BY <1>1, <1>7, FaultTyped DEF Bounds, Typed, bucket
  <2>5. Bounds'
    BY <1>1, <2>2, <2>3, <2>4, WorkerBounds DEF Rest, Bounds, Typed
  <2>6. FreshOK'
    <3>1. /\ commands' \in Nat /\ commands <= commands' /\ project'.rev \in Nat /\ choiceBy' <= commands'
      BY <1>3, <2>1 DEF Rest, Fresh, FreshOK, ProjectRow, Bounds, Typed, DocumentTyped
    <3>2. \A rev, by \in Nat : Fresh(rev, by, project.rev, choiceBy, commands)
                                 => Fresh(rev, by, project'.rev, choiceBy', commands')
      BY <2>1, <3>1, FreshStays
    <3>3. Fresh(0, 0, project'.rev, choiceBy', commands')
      BY <3>2 DEF FreshOK
    <3>4. project.frame.rev \in Nat /\ project.frame.ask \in Nat
      BY <1>3 DEF ProjectRow, FrameRow
    <3>5. Fresh(project'.frame.rev, project'.frame.ask, project'.rev, choiceBy', commands')
      BY <2>1, <3>2, <3>4 DEF FreshOK
    <3>6. ASSUME NEW r \in Request PROVE Fresh(ingress'[r].rev, ingress'[r].at, project'.rev, choiceBy', commands')
      BY <1>7, <3>2 DEF FreshOK, Bounds, Typed, DocumentTyped, IngressRow
    <3>7. ASSUME NEW q \in Worker PROVE Fresh(work'[q].rev, work'[q].ask, project'.rev, choiceBy', commands')
      <4>1. work[q].rev \in Nat /\ work[q].ask \in Nat
        BY DEF Bounds, Typed, WorkRow
      <4>2. Fresh(work[q].rev, work[q].ask, project'.rev, choiceBy', commands')
        BY <3>2, <4>1 DEF FreshOK
      <4>3. CASE q # w
        BY <2>3, <4>2, <4>3 DEF Went, Others, Alike, SameJob
      <4>4. CASE q = w
        BY <2>1, <2>3, <3>3, <3>5, <4>2, <4>4
      <4> QED
        BY <4>3, <4>4
    <3> QED
      BY <3>1, <3>3, <3>5, <3>6, <3>7 DEF FreshOK
  <2> QED
    BY <2>1, <2>5, <2>6 DEF Carried, Bounds, Typed, DocumentTyped
<1> QED
  BY <1>1, <1>5, <1>6, <1>7

LEMMA LapseKept ==
    ASSUME VideoAssumption, Bounds, FreshOK, LeaseLapse, UNCHANGED work, Rest
    PROVE  Carried
<1>1. UNCHANGED document /\ UNCHANGED bucket /\ faults' \in Nat
  BY FaultTyped DEF LeaseLapse
<1>2. lease' \in [owner : Worker \union {None}, until : {"null", "expired", "live"}]
  BY DEF LeaseLapse, Bounds, Typed
<1>3. Bounds'
  BY <1>1, <1>2 DEF document, bucket, Rest, Bounds, Typed, DocumentTyped, UploadsOK, At
<1>4. FreshOK' /\ choiceBy' >= choiceBy
  BY <1>1 DEF document, Rest, FreshOK, Bounds, Typed, DocumentTyped
<1> QED
  BY <1>3, <1>4 DEF Carried

-----------------------------------------------------------------------------
(* Steps that leave the workers alone: commands, calls and the environment. *)

LEMMA RestBounds ==
    ASSUME VideoAssumption, Bounds, DocumentTyped', Grows, Names(project', Len(assets')), UploadsOK',
           calls' \in [Request -> CallRow], lease' \in [owner : Worker \union {None}, until : {"null", "expired", "live"}],
           settled' \union stored' \union inflight' \subseteq 1..Len(assets'), faults' \in Nat,
           admin' \in BOOLEAN, view' \in View, commands' \in 0..MaxCommands, UNCHANGED work
    PROVE  Bounds'
<1>1. Typed'
  BY DEF Bounds, Typed
<1>2. Len(assets) \in Nat /\ Len(assets') \in Nat /\ Len(assets) <= Len(assets')
  BY DEF Bounds, Typed, DocumentTyped, Grows
<1>3. ASSUME NEW q \in Worker PROVE PlacedAt(work'[q], Len(assets'))
  BY <1>2 DEF Bounds, PlacedAt
<1> QED
  BY <1>1, <1>3 DEF Bounds

(* A request is as it was, or fresh.                                       *)
LEMMA RestFresh ==
    ASSUME VideoAssumption, Bounds, FreshOK, DocumentTyped', UNCHANGED work, commands' \in Nat, commands <= commands',
           choiceBy' <= commands',
           (project'.rev = project.rev /\ choiceBy' = choiceBy) \/ project'.rev > project.rev,
           \/ project'.frame.rev = project.frame.rev /\ project'.frame.ask = project.frame.ask
           \/ Fresh(project'.frame.rev, project'.frame.ask, project'.rev, choiceBy', commands'),
           \A r \in Request : \/ ingress'[r].rev = ingress[r].rev /\ ingress'[r].at = ingress[r].at
                              \/ Fresh(ingress'[r].rev, ingress'[r].at, project'.rev, choiceBy', commands')
    PROVE  FreshOK'
<1>1. project'.rev \in Nat /\ project.frame.rev \in Nat /\ project.frame.ask \in Nat
  BY DEF Bounds, Typed, DocumentTyped, ProjectRow, FrameRow
<1>2. \A rev, by \in Nat : Fresh(rev, by, project.rev, choiceBy, commands)
                             => Fresh(rev, by, project'.rev, choiceBy', commands')
  BY <1>1, FreshStays
<1>3. Fresh(0, 0, project'.rev, choiceBy', commands')
  BY <1>2 DEF FreshOK
<1>4. Fresh(project'.frame.rev, project'.frame.ask, project'.rev, choiceBy', commands')
  BY <1>1, <1>2 DEF FreshOK
<1>5. ASSUME NEW r \in Request PROVE Fresh(ingress'[r].rev, ingress'[r].at, project'.rev, choiceBy', commands')
  <2>1. ingress[r].rev \in Nat /\ ingress[r].at \in Nat
    BY DEF Bounds, Typed, DocumentTyped, IngressRow
  <2> QED
    BY <1>2, <2>1 DEF FreshOK
<1>6. ASSUME NEW q \in Worker PROVE Fresh(work'[q].rev, work'[q].ask, project'.rev, choiceBy', commands')
  <2>1. work[q].rev \in Nat /\ work[q].ask \in Nat
    BY DEF Bounds, Typed, WorkRow
  <2> QED
    BY <1>2, <2>1 DEF FreshOK
<1> QED
  BY <1>3, <1>4, <1>5, <1>6 DEF FreshOK

LEMMA QuietKeeps ==
    ASSUME VideoAssumption, Bounds, FreshOK, Document, Quiet, UploadsOK', calls' \in [Request -> CallRow],
           lease' \in [owner : Worker \union {None}, until : {"null", "expired", "live"}],
           settled' \union stored' \union inflight' \subseteq 1..Len(assets'), faults' \in Nat,
           admin' \in BOOLEAN, view' \in View, commands' \in 0..MaxCommands, commands <= commands', UNCHANGED work
    PROVE  Carried
<1>1. Bounds'
  BY RestBounds DEF Document
<1>2. commands \in Nat /\ commands' \in Nat /\ choiceBy \in Nat
  BY DEF Bounds, Typed, DocumentTyped
<1>3. /\ DocumentTyped' /\ choiceBy' <= commands' /\ choiceBy' >= choiceBy
      /\ project'.rev = project.rev /\ choiceBy' = choiceBy
      /\ project'.frame.rev = project.frame.rev /\ project'.frame.ask = project.frame.ask
      /\ \A r \in Request : ingress'[r].rev = ingress[r].rev /\ ingress'[r].at = ingress[r].at
  BY <1>2 DEF Quiet, FreshOK, Document
<1>4. FreshOK'
  BY <1>2, <1>3, RestFresh
<1> QED
  BY <1>1, <1>3, <1>4 DEF Carried

(* The calls of the uploads.                                               *)
LEMMA UploadsStay ==
    ASSUME VideoAssumption, Bounds, Document, calls' \in [Request -> CallRow],
           \A r \in Request : \/ calls'[r] = calls[r]
                              \/ calls'[r].asset = 0 /\ calls'[r].pc \in {"idle", "finish"}
                              \/ /\ calls'[r].asset = calls[r].asset
                                 /\ \/ calls'[r].pc = "finish"
                                    \/ calls'[r].pc \in Uploading /\ calls[r].pc \in Uploading
                                    \/ calls'[r].pc = "resolve" /\ calls[r].pc = "inspect"
                                    \/ calls'[r].pc = "digest" /\ \A a \in 1..Len(assets) : assets[a].by # r
                              \/ calls'[r].pc = "inspect" /\ calls'[r].asset \in 1..Len(assets)
    PROVE  UploadsOK'
<1>1. UploadsOK
  BY DEF Bounds
<1>2. /\ Len(assets) \in Nat /\ Len(assets') \in Nat /\ Len(assets) <= Len(assets')
      /\ \A a \in 1..Len(assets) : assets'[a].by = assets[a].by
  BY DEF Bounds, Typed, DocumentTyped, Document, Grows
<1>3. \A a, b \in 1..Len(assets') : assets'[a].by = assets'[b].by /\ assets'[a].by # None => a = b
  BY <1>1, <1>2 DEF UploadsOK, Document, Added
<1>4. ASSUME NEW r \in Request, At(r, "digest")'
      PROVE  \A a \in 1..Len(assets') : assets'[a].by # r
  <2>1. \A a \in 1..Len(assets) : assets[a].by # r
    BY <1>1, <1>4 DEF UploadsOK, At, Uploading
  <2> QED
    BY <1>2, <2>1 DEF Document, Added, VideoAssumption
<1>5. ASSUME NEW r \in Request, calls'[r].pc \in Uploading
      PROVE  \E a \in 1..Len(assets') : assets'[a].by = r
  <2>1. \E a \in 1..Len(assets) : assets[a].by = r
    BY <1>1, <1>5 DEF UploadsOK, Uploading
  <2> QED
    BY <1>2, <2>1
<1>6. ASSUME NEW r \in Request
      PROVE  /\ calls'[r].asset \in 0..Len(assets')
             /\ calls'[r].pc \in {"inspect", "resolve"} => calls'[r].asset # 0
  BY <1>1, <1>2 DEF UploadsOK, Uploading
<1> QED
  BY <1>3, <1>4, <1>5, <1>6 DEF UploadsOK

LEMMA CallGoes ==
    ASSUME VideoAssumption, Bounds, Document, NEW r \in Request, NEW place \in CallPlace, Goto(r, place),
           \/ place = "finish"
           \/ place \in Uploading /\ calls[r].pc \in Uploading
           \/ place = "digest" /\ \A a \in 1..Len(assets) : assets[a].by # r
    PROVE  calls' \in [Request -> CallRow] /\ UploadsOK'
<1>1. calls \in [Request -> CallRow] /\ calls[r] \in CallRow
  BY DEF Bounds, Typed
<1>2. /\ calls' \in [Request -> CallRow] /\ calls'[r].pc = place /\ calls'[r].asset = calls[r].asset
      /\ \A q \in Request : q # r => calls'[q] = calls[q]
  BY <1>1 DEF Goto, CallRow
<1> QED
  BY <1>2, UploadsStay

LEMMA CallEnds ==
    ASSUME VideoAssumption, Bounds, Document, NEW r \in Request, calls' = [calls EXCEPT ![r] = NoCall]
    PROVE  calls' \in [Request -> CallRow] /\ UploadsOK'
<1>1. calls \in [Request -> CallRow]
  BY DEF Bounds, Typed
<1>2. NoCall \in CallRow /\ NoCall.asset = 0 /\ NoCall.pc = "idle"
  BY Limits DEF NoCall, CallRow, CallPlace
<1>3. /\ calls' \in [Request -> CallRow] /\ calls'[r].asset = 0 /\ calls'[r].pc = "idle"
      /\ \A q \in Request : q # r => calls'[q] = calls[q]
  BY <1>1, <1>2
<1> QED
  BY <1>3, UploadsStay

LEMMA Owns ==
    ASSUME Bounds, NEW r \in Request, calls[r].pc \in Uploading
    PROVE  Own(r) \in 1..Len(assets) /\ assets[Own(r)].by = r
<1>1. \E a \in 1..Len(assets) : assets[a].by = r
  BY DEF Bounds, UploadsOK
<1> QED
  BY <1>1 DEF Own

(* What a call leaves alone.                                               *)
CallRest == UNCHANGED <<admin, view, work, commands>>

LEMMA CallKeeps ==
    ASSUME VideoAssumption, Bounds, FreshOK, CallRest, Document, Quiet, UploadsOK', calls' \in [Request -> CallRow],
           UNCHANGED lease, settled' \subseteq settled, stored' \union inflight' \subseteq 1..Len(assets), faults' \in Nat
    PROVE  Carried
<1>1. 1..Len(assets) \subseteq 1..Len(assets')
  BY DEF Bounds, Typed, DocumentTyped, Document, Grows
<1>2. settled' \union stored' \union inflight' \subseteq 1..Len(assets')
  BY <1>1 DEF Bounds, Typed
<1>3. /\ admin' \in BOOLEAN /\ view' \in View /\ commands' \in 0..MaxCommands /\ commands <= commands' /\ UNCHANGED work
      /\ lease' \in [owner : Worker \union {None}, until : {"null", "expired", "live"}]
  BY DEF CallRest, Bounds, Typed
<1> QED
  BY <1>2, <1>3, QuietKeeps

LEMMA PutsKept ==
    ASSUME VideoAssumption, Bounds, FreshOK, CallRest, NEW r \in Request, Intent(r) \/ UploadPut(r) \/ CrashCall(r)
    PROVE  Carried
<1>1. CASE Intent(r)
  <2>1. /\ UNCHANGED <<bucket, lease>> /\ (Fault \/ UNCHANGED faults)
        /\ calls[r].pc \in Uploading
        /\ \/ MarkSent(Own(r)) /\ UNCHANGED <<project, settled, ingress, track, choiceBy>>
           \/ UNCHANGED document
        /\ Goto(r, "put") \/ Goto(r, "finish")
    BY <1>1 DEF Intent, Transact, At, Uploading
  <2>2. Own(r) \in 1..Len(assets)
    BY <2>1, Owns
  <2>3. Document /\ Quiet /\ settled' \subseteq settled
    <3>1. CASE UNCHANGED document
      BY <3>1, DocumentStays DEF document
    <3>2. CASE MarkSent(Own(r)) /\ UNCHANGED <<project, settled, ingress, track, choiceBy>>
      <4>1. assets' \in Seq(AssetRow) /\ Len(assets') = Len(assets) /\ Grows
        BY <2>2, <3>2, Marks DEF Bounds, Typed, DocumentTyped, Grows
      <4>2. Added
        BY <4>1 DEF Added
      <4> QED
        BY <3>2, <4>1, <4>2 DEF Document, Quiet, Bounds, Typed, DocumentTyped
    <3> QED
      BY <2>1, <3>1, <3>2
  <2>4. calls' \in [Request -> CallRow] /\ UploadsOK'
    BY <2>1, <2>3, CallGoes DEF CallPlace, Uploading
  <2> QED
    BY <2>1, <2>3, <2>4, FaultTyped, CallKeeps DEF bucket, Bounds, Typed
<1>2. CASE UploadPut(r)
  <2>1. /\ UNCHANGED <<document, lease>> /\ (Fault \/ UNCHANGED faults)
        /\ calls[r].pc \in Uploading
        /\ Goto(r, "record") \/ Goto(r, "finish")
        /\ stored' \union inflight' \subseteq stored \union inflight \union {Own(r)}
    BY <1>2 DEF UploadPut, At, Uploading
  <2>2. Own(r) \in 1..Len(assets)
    BY <2>1, Owns
  <2>3. Document /\ Quiet /\ settled' \subseteq settled
    BY <2>1, DocumentStays DEF document
  <2>4. calls' \in [Request -> CallRow] /\ UploadsOK'
    BY <2>1, <2>3, CallGoes DEF CallPlace, Uploading
  <2>5. stored' \union inflight' \subseteq 1..Len(assets)
    BY <2>1, <2>2 DEF Bounds, Typed
  <2> QED
    BY <2>1, <2>3, <2>4, <2>5, FaultTyped, CallKeeps
<1>3. CASE CrashCall(r)
  <2>1. /\ UNCHANGED <<document, stored, lease>> /\ Fault
        /\ inflight' = IF At(r, "put") THEN inflight \union {Own(r)} ELSE inflight
        /\ calls' = [calls EXCEPT ![r] = NoCall]
    BY <1>3 DEF CrashCall
  <2>2. At(r, "put") => Own(r) \in 1..Len(assets)
    BY Owns DEF At, Uploading
  <2>3. Document /\ Quiet /\ settled' \subseteq settled
    BY <2>1, DocumentStays DEF document
  <2>4. calls' \in [Request -> CallRow] /\ UploadsOK'
    BY <2>1, <2>3, CallEnds
  <2>5. stored' \union inflight' \subseteq 1..Len(assets)
    BY <2>1, <2>2 DEF Bounds, Typed
  <2> QED
    BY <2>1, <2>3, <2>4, <2>5, FaultTyped, CallKeeps
<1> QED
  BY <1>1, <1>2, <1>3

LEMMA Arrives ==
    ASSUME Bounds, NEW a \in 1..Len(assets)
    PROVE  Arrived(project, a) \in ProjectRow /\ SamePointers(Arrived(project, a))
<1>1. project \in ProjectRow /\ "queued" \in JobState
  BY DEF Bounds, Typed, DocumentTyped, JobState
<1> QED
  BY <1>1, JobChanges DEF Arrived, SamePointers, SameRequests

(* One object is recorded and the project may change, its pointers and requests not. *)
LEMMA Recorded ==
    ASSUME Bounds, NEW a \in 1..Len(assets), NEW state \in AssetState, NEW known \in BOOLEAN, SetAsset(a, state, known),
           project' \in ProjectRow, SamePointers(project'), UNCHANGED <<ingress, track, choiceBy>>
    PROVE  Document /\ Quiet
<1>1. assets \in Seq(AssetRow)
  BY DEF Bounds, Typed, DocumentTyped
<1>2. assets' \in Seq(AssetRow) /\ Len(assets') = Len(assets) /\ Grows
  BY <1>1, SetsAsset DEF Grows
<1>3. Added
  BY <1>2 DEF Added
<1> QED
  BY <1>2, <1>3 DEF Bounds, Typed, DocumentTyped, Document, Quiet, Names, SamePointers, SameRequests

LEMMA RecordKept ==
    ASSUME VideoAssumption, Bounds, FreshOK, CallRest, NEW r \in Request, Record(r)
    PROVE  Carried
<1>1. /\ UNCHANGED <<bucket, lease>> /\ (Fault \/ UNCHANGED faults)
      /\ calls[r].pc \in Uploading
      /\ \/ /\ SetAsset(Own(r), "ready", TRUE) /\ project' = Arrived(project, Own(r))
            /\ UNCHANGED <<settled, ingress, track, choiceBy>>
         \/ UNCHANGED document
      /\ Goto(r, "finish")
  BY DEF Record, Transact, At, Uploading
<1>2. Own(r) \in 1..Len(assets)
  BY <1>1, Owns
<1>3. Document /\ Quiet /\ settled' \subseteq settled
  <2>1. CASE UNCHANGED document
    BY <2>1, DocumentStays DEF document
  <2>2. CASE /\ SetAsset(Own(r), "ready", TRUE) /\ project' = Arrived(project, Own(r))
             /\ UNCHANGED <<settled, ingress, track, choiceBy>>
    <3>1. project' \in ProjectRow /\ SamePointers(project') /\ "ready" \in AssetState /\ TRUE \in BOOLEAN
      BY <1>2, <2>2, Arrives, AssetTyped
    <3> QED
      BY <1>2, <2>2, <3>1, Recorded
  <2> QED
    BY <1>1, <2>1, <2>2
<1>4. calls' \in [Request -> CallRow] /\ UploadsOK'
  BY <1>1, <1>3, CallGoes DEF CallPlace
<1> QED
  BY <1>1, <1>3, <1>4, FaultTyped, CallKeeps DEF bucket, Bounds, Typed

(* The uploads change, each for the same request as before.                *)
LEMMA IngressChanges ==
    ASSUME Bounds, ingress' \in [Request -> IngressRow], UNCHANGED <<project, assets, track, choiceBy>>,
           \A r \in Request : ingress'[r].rev = ingress[r].rev /\ ingress'[r].at = ingress[r].at
    PROVE  Document /\ Quiet
  BY DEF Bounds, Typed, DocumentTyped, Document, Quiet, Grows, Added

LEMMA IngressEnds ==
    ASSUME Bounds, NEW r \in Request, NEW d \in IngressRow, d.rev = ingress[r].rev, d.at = ingress[r].at,
           ingress' = [ingress EXCEPT ![r] = d], UNCHANGED <<project, assets, track, choiceBy>>
    PROVE  Document /\ Quiet
<1>1. ingress \in [Request -> IngressRow]
  BY DEF Bounds, Typed, DocumentTyped
<1>2. /\ ingress' \in [Request -> IngressRow]
      /\ \A q \in Request : ingress'[q].rev = ingress[q].rev /\ ingress'[q].at = ingress[q].at
  BY <1>1
<1> QED
  BY <1>2, IngressChanges

LEMMA FinishKept ==
    ASSUME VideoAssumption, Bounds, FreshOK, CallRest, NEW r \in Request, Finish(r)
    PROVE  Carried
<1> DEFINE state == IF ingress[r].state = "receiving" THEN "failed" ELSE ingress[r].state
           d == [ingress[r] EXCEPT !.held = FALSE, !.state = state]
<1>1. /\ UNCHANGED <<project, assets, settled, track, choiceBy, bucket, lease, faults>>
      /\ ingress' = (IF ingress[r].held THEN [ingress EXCEPT ![r].held = FALSE, ![r].state = IF @ = "receiving" THEN "failed" ELSE @]
                                        ELSE ingress)
      /\ calls' = [calls EXCEPT ![r] = NoCall]
  BY DEF Finish
<1>2. ingress \in [Request -> IngressRow] /\ ingress[r] \in IngressRow
  BY DEF Bounds, Typed, DocumentTyped
<1>3. state \in {"none", "receiving", "failed", "admitted"} /\ state # "receiving"
  BY <1>2 DEF IngressRow
<1>4. ingress' = [ingress EXCEPT ![r] = d] \/ UNCHANGED ingress
  BY <1>1, <1>2
<1> HIDE DEF state
<1>5. d \in IngressRow /\ d.rev = ingress[r].rev /\ d.at = ingress[r].at
  BY <1>2, <1>3 DEF IngressRow
<1> HIDE DEF d
<1>6. Document /\ Quiet /\ settled' \subseteq settled
  <2>1. CASE UNCHANGED ingress
    BY <1>1, <2>1, DocumentStays DEF document
  <2>2. CASE ingress' = [ingress EXCEPT ![r] = d]
    BY <1>1, <1>5, <2>2, IngressEnds
  <2> QED
    BY <1>4, <2>1, <2>2
<1>7. calls' \in [Request -> CallRow] /\ UploadsOK'
  BY <1>1, <1>6, CallEnds
<1> QED
  BY <1>1, <1>6, <1>7, CallKeeps DEF bucket, Bounds, Typed

LEMMA InspectKept ==
    ASSUME VideoAssumption, Bounds, FreshOK, CallRest, NEW r \in Request, Inspect(r)
    PROVE  Carried
<1>1. /\ UNCHANGED <<document, bucket, lease>> /\ (Fault \/ UNCHANGED faults)
      /\ calls[r].pc = "inspect"
  BY DEF Inspect, At
<1>2. PICK found \in {"yes", "no", "error"} : calls' = [calls EXCEPT ![r].pc = "resolve", ![r].found = found]
  BY DEF Inspect
<1>3. calls \in [Request -> CallRow] /\ calls[r] \in CallRow /\ "resolve" \in CallPlace
  BY DEF Bounds, Typed, CallPlace
<1>4. /\ calls' \in [Request -> CallRow] /\ calls'[r].pc = "resolve" /\ calls'[r].asset = calls[r].asset
      /\ \A q \in Request : q # r => calls'[q] = calls[q]
  BY <1>2, <1>3 DEF CallRow
<1>5. Document /\ Quiet /\ settled' \subseteq settled
  BY <1>1, DocumentStays DEF document
<1>6. UploadsOK'
  BY <1>1, <1>4, <1>5, UploadsStay
<1> QED
  BY <1>1, <1>4, <1>5, <1>6, FaultTyped, CallKeeps DEF bucket, Bounds, Typed

(* A selection made by a call.                                             *)
LEMMA CallSelects ==
    ASSUME VideoAssumption, Bounds, FreshOK, CallRest, NEW p \in ProjectRow, SameRequests(p),
           NEW a \in 0..Automatic, NEW rev \in Nat, NEW by \in 0..MaxCommands,
           Fresh(rev, by, project.rev, choiceBy, commands), Select(p, a, rev, by), DocumentTyped',
           \A r \in Request : ingress'[r].rev = ingress[r].rev /\ ingress'[r].at = ingress[r].at
    PROVE  FreshOK' /\ choiceBy' >= choiceBy
<1>1. /\ project'.frame = p.frame /\ choiceBy' \in 0..MaxCommands /\ choiceBy <= choiceBy'
      /\ (project'.rev = project.rev /\ choiceBy' = choiceBy) \/ project'.rev > project.rev
      /\ choiceBy' = by \/ choiceBy' = choiceBy
  BY Selects
<1>2. /\ commands' \in Nat /\ commands <= commands' /\ choiceBy' <= commands' /\ UNCHANGED work
  BY <1>1 DEF CallRest, Fresh, FreshOK, Bounds, Typed
<1>3. project'.frame.rev = project.frame.rev /\ project'.frame.ask = project.frame.ask
  BY <1>1 DEF SameRequests
<1>4. FreshOK'
  BY <1>1, <1>2, <1>3, RestFresh
<1> QED
  BY <1>1, <1>4 DEF Bounds, Typed, DocumentTyped

LEMMA ResolveKept ==
    ASSUME VideoAssumption, Bounds, FreshOK, CallRest, NEW r \in Request, Resolve(r)
    PROVE  Carried
<1> DEFINE a == calls[r].asset
           found == calls[r].found
           state == IF found = "yes" THEN "ready" ELSE IF found = "no" /\ Lost(a) THEN "failed" ELSE "unknown"
           known == found = "yes" \/ assets[a].known
           p == [project EXCEPT !.frame.state = "ready"]
<1>1. /\ UNCHANGED <<bucket, lease, faults>>
      /\ calls' = [calls EXCEPT ![r] = NoCall]
      /\ calls[r].pc = "resolve"
      /\ \/ /\ SetAsset(a, state, known)
            /\ \/ Select(p, a, project.frame.rev, project.frame.ask)
               \/ project' = Arrived(project, a) /\ UNCHANGED choiceBy
               \/ UNCHANGED <<project, choiceBy>>
            /\ UNCHANGED <<settled, ingress, track>>
         \/ UNCHANGED document
  BY DEF Resolve, At
<1>2. a \in 1..Len(assets)
  BY <1>1 DEF Bounds, UploadsOK, Typed, DocumentTyped
<1>3. state \in AssetState /\ known \in BOOLEAN
  BY DEF AssetState
<1> HIDE DEF state, known
<1>4. /\ project \in ProjectRow /\ SamePointers(project) /\ p \in ProjectRow /\ SamePointers(p)
  <2>1. project \in ProjectRow /\ "ready" \in JobState
    BY DEF Bounds, Typed, DocumentTyped, JobState
  <2> QED
    BY <2>1, JobChanges DEF SamePointers, SameRequests
<1>5. settled' \subseteq settled /\ stored' \union inflight' \subseteq 1..Len(assets) /\ faults' \in Nat
  BY <1>1 DEF document, bucket, Bounds, Typed
<1>6. CASE Document /\ Quiet
  BY <1>1, <1>5, <1>6, CallEnds, CallKeeps
<1>7. CASE UNCHANGED document
  BY <1>6, <1>7, DocumentStays
<1>8. CASE /\ SetAsset(a, state, known) /\ UNCHANGED <<settled, ingress, track, choiceBy>>
           /\ project' = Arrived(project, a) \/ UNCHANGED project
  <2>1. project' \in ProjectRow /\ SamePointers(project')
    BY <1>2, <1>4, <1>8, Arrives
  <2> QED
    BY <1>2, <1>3, <1>6, <1>8, <2>1, Recorded
<1>9. CASE /\ SetAsset(a, state, known) /\ UNCHANGED <<settled, ingress, track>>
           /\ Select(p, a, project.frame.rev, project.frame.ask)
  <2>1. /\ a \in 0..Automatic /\ project.frame.rev \in Nat /\ project.frame.ask \in 0..MaxCommands
        /\ Fresh(project.frame.rev, project.frame.ask, project.rev, choiceBy, commands)
    BY <1>2, <1>4, Limits DEF Automatic, Bounds, Typed, DocumentTyped, ProjectRow, FrameRow, FreshOK
  <2>2. SameRequests(p)
    BY <1>4 DEF SamePointers
  <2> HIDE DEF a, p
  <2>3. /\ project' \in ProjectRow /\ project'.source = p.source /\ project'.output = p.output /\ project'.pub = p.pub
        /\ choiceBy' \in 0..MaxCommands
    BY <1>4, <1>9, <2>1, <2>2, Selects
  <2>4. /\ assets' \in Seq(AssetRow) /\ Len(assets') = Len(assets) /\ Grows
    BY <1>2, <1>3, <1>9, SetsAsset DEF Grows, Bounds, Typed, DocumentTyped
  <2>5. Document
    BY <1>4, <1>9, <2>3, <2>4 DEF Document, Added, Names, SamePointers, Bounds, Typed, DocumentTyped
  <2>6. calls' \in [Request -> CallRow] /\ UploadsOK'
    BY <1>1, <2>5, CallEnds
  <2>7. settled' \union stored' \union inflight' \subseteq 1..Len(assets')
    BY <1>5, <2>4 DEF Bounds, Typed
  <2>8. Bounds'
    BY <1>1, <1>5, <2>5, <2>6, <2>7, RestBounds DEF Document, CallRest, Bounds, Typed
  <2>9. FreshOK' /\ choiceBy' >= choiceBy
    BY <1>4, <1>9, <2>1, <2>2, <2>5, CallSelects DEF Document
  <2> QED
    BY <2>8, <2>9 DEF Carried
<1> QED
  BY <1>1, <1>7, <1>8, <1>9

(* An upload is admitted: the object is named for its request.             *)
LEMMA AdmitKept ==
    ASSUME VideoAssumption, Bounds, FreshOK, CallRest, NEW r \in Request, Admit(r)
    PROVE  Carried
<1> DEFINE kind == ingress[r].kind
           a == Len(assets) + 1
           e == NewAsset(kind, a, r, 0)
           d == [ingress[r] EXCEPT !.state = "admitted"]
           p == [project EXCEPT !.cleaned = FALSE]
           q == [project EXCEPT !.source = a, !.cleaned = FALSE]
<1>1. /\ UNCHANGED <<bucket, lease>> /\ (Fault \/ UNCHANGED faults)
      /\ calls[r].pc = "digest"
  BY DEF Admit, Transact, At
<1>2. \/ /\ Goto(r, "intent") \/ Goto(r, "finish")
         /\ Receiving(r) /\ a <= MaxAssets
         /\ assets' = Append(assets, e)
         /\ ingress' = [ingress EXCEPT ![r].state = "admitted"]
         /\ \/ project' = q /\ UNCHANGED choiceBy
            \/ Select(p, a, ingress[r].rev, ingress[r].at)
         /\ UNCHANGED <<settled, track>>
      \/ UNCHANGED document /\ Goto(r, "finish")
  BY DEF Admit, Transact
<1>3. CASE UNCHANGED document /\ Goto(r, "finish")
  <2>1. Document /\ Quiet /\ settled' \subseteq settled
    BY <1>3, DocumentStays DEF document
  <2>2. calls' \in [Request -> CallRow] /\ UploadsOK'
    BY <1>3, <2>1, CallGoes DEF CallPlace
  <2> QED
    BY <1>1, <2>1, <2>2, FaultTyped, CallKeeps DEF bucket, Bounds, Typed
<1>4. CASE /\ Goto(r, "intent") \/ Goto(r, "finish")
           /\ Receiving(r) /\ a <= MaxAssets
           /\ assets' = Append(assets, e)
           /\ ingress' = [ingress EXCEPT ![r].state = "admitted"]
           /\ \/ project' = q /\ UNCHANGED choiceBy
              \/ Select(p, a, ingress[r].rev, ingress[r].at)
           /\ UNCHANGED <<settled, track>>
  <2>1. /\ ingress \in [Request -> IngressRow] /\ ingress[r] \in IngressRow /\ kind \in {"source", "cover"}
        /\ assets \in Seq(AssetRow) /\ Len(assets) \in Nat /\ project \in ProjectRow
    BY <1>4 DEF Receiving, Bounds, Typed, DocumentTyped, IngressRow
  <2>2. a \in Id /\ a \in 0..Automatic
    BY <1>4, <2>1, Limits DEF Id, Automatic
  <2>3. e \in AssetRow /\ e.by = r /\ e.of = a
    <3>1. kind \in {"source", "output", "cover", "published", "publishedCover"} /\ r \in Request \union {None}
      BY <2>1
    <3> QED
      BY <2>2, <3>1, Limits, NewAssets
  <2>4. d \in IngressRow /\ d.rev = ingress[r].rev /\ d.at = ingress[r].at /\ ingress' = [ingress EXCEPT ![r] = d]
    BY <1>4, <2>1 DEF IngressRow
  <2>5. p \in ProjectRow /\ SameRequests(p) /\ q \in ProjectRow /\ SameRequests(q)
    BY <2>1, <2>2 DEF ProjectRow, SameRequests
  <2>6. Names(q, a) /\ Names(p, a)
    BY <2>1, NamesGrow DEF Names, ProjectRow
  <2>7. /\ ingress[r].rev \in Nat /\ ingress[r].at \in 0..MaxCommands
        /\ Fresh(ingress[r].rev, ingress[r].at, project.rev, choiceBy, commands)
    BY <2>1 DEF FreshOK, IngressRow
  <2>8. /\ assets' \in Seq(AssetRow) /\ Len(assets') = Len(assets) + 1
        /\ \A b \in 1..Len(assets) : assets'[b] = assets[b]
        /\ assets'[Len(assets) + 1] = e
    BY <1>4, <2>1, <2>3, Appends
  <2> HIDE DEF e, d, p, q
  <2>9. /\ ingress' \in [Request -> IngressRow]
        /\ \A x \in Request : ingress'[x].rev = ingress[x].rev /\ ingress'[x].at = ingress[x].at
    BY <2>1, <2>4
  <2>10. Grows
    BY <2>1, <2>8 DEF Grows
  <2>11. /\ project' \in ProjectRow /\ choiceBy' \in 0..MaxCommands /\ Names(project', Len(assets'))
    <3>1. CASE project' = q /\ UNCHANGED choiceBy
      BY <2>5, <2>6, <2>8, <3>1 DEF Bounds, Typed, DocumentTyped
    <3>2. CASE Select(p, a, ingress[r].rev, ingress[r].at)
      <4>1. /\ project' \in ProjectRow /\ project'.source = p.source /\ project'.output = p.output
            /\ project'.pub = p.pub /\ choiceBy' \in 0..MaxCommands
        BY <2>2, <2>5, <2>7, <3>2, Selects
      <4> QED
        BY <2>6, <2>8, <4>1 DEF Names
    <3> QED
      BY <1>4, <3>1, <3>2
  <2>12. DocumentTyped'
    BY <1>4, <2>1, <2>8, <2>9, <2>11 DEF DocumentTyped, Bounds, Typed
  <2>13. calls' \in [Request -> CallRow] /\ UploadsOK'
    <3>1. calls \in [Request -> CallRow] /\ calls[r] \in CallRow /\ UploadsOK
      BY DEF Bounds, Typed
    <3>2. PICK place \in {"intent", "finish"} : Goto(r, place)
      BY <1>4
    <3>3. /\ calls' \in [Request -> CallRow] /\ calls'[r].pc = place /\ calls'[r].asset = calls[r].asset
          /\ \A x \in Request : x # r => calls'[x] = calls[x]
      BY <3>1, <3>2 DEF Goto, CallRow, CallPlace
    <3>4. \A b \in 1..Len(assets) : assets[b].by # r
      BY <1>1, <3>1 DEF UploadsOK, At
    <3>5. \A b, c \in 1..Len(assets') : assets'[b].by = assets'[c].by /\ assets'[b].by # None => b = c
      <4>1. \A b \in 1..Len(assets') : b \in 1..Len(assets) \/ (b = a /\ b \notin 1..Len(assets))
        BY <2>1, <2>8
      <4>2. assets'[a].by = r /\ \A b \in 1..Len(assets) : assets'[b].by = assets[b].by /\ assets'[b].by # r
        BY <2>3, <2>8, <3>4
      <4>3. \A b, c \in 1..Len(assets) : assets[b].by = assets[c].by /\ assets[b].by # None => b = c
        BY <3>1 DEF UploadsOK
      <4> HIDE DEF a
      <4> QED
        BY <4>1, <4>2, <4>3
    <3>6. ASSUME NEW x \in Request, At(x, "digest")' PROVE \A b \in 1..Len(assets') : assets'[b].by # x
      <4>1. x # r /\ At(x, "digest")
        BY <3>3, <3>6 DEF At
      <4> QED
        BY <2>1, <2>3, <2>8, <3>1, <4>1 DEF UploadsOK
    <3>7. ASSUME NEW x \in Request, calls'[x].pc \in Uploading PROVE \E b \in 1..Len(assets') : assets'[b].by = x
      <4>1. CASE x = r
        BY <2>1, <2>3, <2>8, <4>1
      <4>2. CASE x # r
        BY <2>1, <2>8, <3>1, <3>3, <3>7, <4>2 DEF UploadsOK
      <4> QED
        BY <4>1, <4>2
    <3>8. ASSUME NEW x \in Request
          PROVE  /\ calls'[x].asset \in 0..Len(assets')
                 /\ calls'[x].pc \in {"inspect", "resolve"} => calls'[x].asset # 0
      BY <2>1, <2>8, <3>1, <3>3 DEF UploadsOK
    <3> QED
      BY <3>3, <3>5, <3>6, <3>7, <3>8 DEF UploadsOK
  <2>14. settled' \union stored' \union inflight' \subseteq 1..Len(assets') /\ faults' \in Nat
    BY <1>1, <1>4, <2>1, <2>8, FaultTyped DEF bucket, Bounds, Typed
  <2>15. Bounds'
    BY <1>1, <2>10, <2>11, <2>12, <2>13, <2>14, RestBounds DEF CallRest, Bounds, Typed
  <2>16. FreshOK' /\ choiceBy' >= choiceBy
    <3>1. CASE project' = q /\ UNCHANGED choiceBy
      <4>1. /\ commands' \in Nat /\ commands <= commands' /\ choiceBy' <= commands' /\ UNCHANGED work
            /\ choiceBy \in Nat
        BY <3>1 DEF CallRest, FreshOK, Bounds, Typed, DocumentTyped
      <4> QED
        BY <2>5, <2>9, <2>12, <3>1, <4>1, RestFresh DEF SameRequests
    <3>2. CASE Select(p, a, ingress[r].rev, ingress[r].at)
      BY <2>2, <2>5, <2>7, <2>9, <2>12, <3>2, CallSelects
    <3> QED
      BY <1>4, <3>1, <3>2
  <2> QED
    BY <2>15, <2>16 DEF Carried
<1> QED
  BY <1>2, <1>3, <1>4

LEMMA CallsKept ==
    ASSUME VideoAssumption, Bounds, FreshOK, NEW r \in Request, CallStep(r)
    PROVE  Carried
  BY PutsKept, RecordKept, FinishKept, InspectKept, ResolveKept, AdmitKept DEF CallStep, CallRest

-----------------------------------------------------------------------------
(* The environment.                                                        *)

LEMMA EnvironmentKept ==
    ASSUME VideoAssumption, Bounds, FreshOK, Environment
    PROVE  Carried
<1>1. /\ UNCHANGED <<view, work, commands, lease, calls, assets, track, choiceBy>> /\ (Fault \/ UNCHANGED faults)
      /\ admin' \in BOOLEAN
  BY DEF Environment, GrantLapse, Revoke, Restore, IngressLapse, Settle, LatePut, document, bucket, Bounds, Typed
<1>2. settled' \union stored' \union inflight' \subseteq 1..Len(assets')
  BY <1>1 DEF Environment, GrantLapse, Revoke, Restore, IngressLapse, Settle, LatePut, document, bucket, Bounds, Typed
<1>3. Document /\ Quiet
  <2>1. CASE UNCHANGED document
    BY <2>1, DocumentStays
  <2>2. CASE UNCHANGED <<project, assets, ingress, track, choiceBy>>
    BY <2>2 DEF Document, Quiet, Grows, Added, Bounds, Typed, DocumentTyped
  <2>3. CASE GrantLapse
    <3> DEFINE no == FALSE
               p == [project EXCEPT !.pub.granted = no]
    <3>1. project \in ProjectRow /\ no \in BOOLEAN
      BY DEF Bounds, Typed, DocumentTyped
    <3>2. project' = p
      BY <2>3 DEF GrantLapse
    <3> HIDE DEF no
    <3>3. p \in ProjectRow /\ SamePointers(p)
      BY <3>1 DEF ProjectRow, PublicationRow, SamePointers, SameRequests
    <3> HIDE DEF p
    <3> QED
      BY <2>3, <3>2, <3>3, PointersStay DEF GrantLapse, Project
  <2>4. ASSUME NEW r \in Request, IngressLapse(r) PROVE Document /\ Quiet
    <3> DEFINE no == FALSE
               d == [ingress[r] EXCEPT !.live = no]
    <3>1. ingress \in [Request -> IngressRow] /\ ingress[r] \in IngressRow /\ no \in BOOLEAN
      BY DEF Bounds, Typed, DocumentTyped
    <3>2. ingress' = [ingress EXCEPT ![r] = d]
      BY <2>4, <3>1 DEF IngressLapse
    <3> HIDE DEF no
    <3>3. d \in IngressRow /\ d.rev = ingress[r].rev /\ d.at = ingress[r].at
      BY <3>1 DEF IngressRow
    <3> HIDE DEF d
    <3> QED
      BY <2>4, <3>2, <3>3, IngressEnds DEF IngressLapse
  <2> QED
    BY <2>1, <2>2, <2>3, <2>4 DEF Environment, Revoke, Restore, Settle, LatePut
<1>4. UploadsOK' /\ calls' \in [Request -> CallRow]
  BY <1>1, <1>3, UploadsStay DEF Bounds, Typed
<1> QED
  BY <1>1, <1>2, <1>3, <1>4, FaultTyped, QuietKeeps DEF Bounds, Typed

-----------------------------------------------------------------------------
(* The commands.                                                           *)

LEMMA DigestTyped ==
    ASSUME VideoAssumption, Bounds
    PROVE  Digest \in View /\ Digest.output = project.output /\ Digest.cover \in 0..Len(assets)
<1>1. /\ project.output \in Id /\ project.choice \in 0..Automatic /\ Len(assets) \in Nat /\ Len(assets) <= MaxAssets
  BY DEF Bounds, Typed, DocumentTyped, ProjectRow
<1>2. (IF Ready(SelectedCover) THEN SelectedCover ELSE 0) \in 0..Len(assets)
  BY <1>1 DEF Ready
<1>3. 0..Len(assets) \subseteq Id
  BY <1>1, Limits DEF Id
<1> QED
  BY <1>1, <1>2, <1>3 DEF Digest, View

LEMMA CommandKeeps ==
    ASSUME VideoAssumption, Bounds, FreshOK, NEW name, Command(name), Document, Quiet, settled' \subseteq settled,
           UploadsOK', calls' \in [Request -> CallRow]
    PROVE  Carried
<1>1. /\ UNCHANGED <<bucket, lease, admin, view, work, faults>> /\ commands' = commands + 1 /\ commands < MaxCommands
  BY DEF Command
<1>2. commands' \in 0..MaxCommands /\ commands <= commands'
  BY <1>1, Limits DEF Bounds, Typed
<1>3. 1..Len(assets) \subseteq 1..Len(assets')
  BY DEF Bounds, Typed, DocumentTyped, Document, Grows
<1>4. settled' \union stored' \union inflight' \subseteq 1..Len(assets')
  BY <1>1, <1>3 DEF bucket, Bounds, Typed
<1> QED
  BY <1>1, <1>2, <1>4, QuietKeeps DEF Bounds, Typed

(* A decision that moves no pointer and answers no request.                *)
LEMMA DecisionKeeps ==
    ASSUME VideoAssumption, Bounds, FreshOK, NEW name, Command(name), NEW p \in ProjectRow, SamePointers(p), Decide(p),
           UNCHANGED <<assets, choiceBy>>
    PROVE  Carried
<1>1. Document /\ Quiet /\ settled' \subseteq settled
  BY PointersStay DEF Decide, Project
<1>2. UploadsOK' /\ calls' \in [Request -> CallRow]
  BY <1>1, UploadsStay DEF Decide, Bounds, Typed
<1> QED
  BY <1>1, <1>2, CommandKeeps

LEMMA DecisionsKept ==
    ASSUME VideoAssumption, Bounds, FreshOK, RetryProcessing \/ RetryPublication \/ Cancel \/ Cleanup
    PROVE  Carried
<1>1. /\ project \in ProjectRow /\ "queued" \in JobState /\ "queued" \in PublicationState /\ "cancelled" \in PublicationState
  BY DEF Bounds, Typed, DocumentTyped, JobState, PublicationState
<1> DEFINE yes == TRUE
           no == FALSE
<1>2. yes \in BOOLEAN /\ no \in BOOLEAN
  OBVIOUS
<1>3. CASE RetryProcessing
  <2>1. [project EXCEPT !.proc = "queued"] \in ProjectRow /\ SamePointers([project EXCEPT !.proc = "queued"])
    BY <1>1, JobChanges
  <2> QED
    BY <1>3, <2>1, DecisionKeeps DEF RetryProcessing
<1>4. CASE RetryPublication
  <2>1. [project EXCEPT !.pub.state = "queued"] \in ProjectRow /\ SamePointers([project EXCEPT !.pub.state = "queued"])
    BY <1>1, <1>2, PublicationChanges
  <2> QED
    BY <1>4, <2>1, DecisionKeeps DEF RetryPublication
<1>5. CASE Cancel
  <2> DEFINE p == [project EXCEPT !.cancelled = yes, !.cleaned = no, !.pub.state = "cancelled", !.pub.pending = yes]
  <2>1. Command("cancel") /\ Decide(p) /\ UNCHANGED <<assets, choiceBy>>
    BY <1>5 DEF Cancel
  <2> HIDE DEF yes, no
  <2>2. p \in ProjectRow /\ SamePointers(p)
    BY <1>1, <1>2 DEF ProjectRow, PublicationRow, SamePointers, SameRequests
  <2> HIDE DEF p
  <2> QED
    BY <2>1, <2>2, DecisionKeeps
<1>6. CASE Cleanup
  <2> DEFINE p == [project EXCEPT !.cleaned = no, !.pub.pending = yes]
  <2>1. Command("cleanup") /\ Decide(p) /\ UNCHANGED <<assets, choiceBy>>
    BY <1>6 DEF Cleanup
  <2> HIDE DEF yes, no
  <2>2. p \in ProjectRow /\ SamePointers(p)
    BY <1>1, <1>2, PublicationChanges
  <2> HIDE DEF p
  <2> QED
    BY <2>1, <2>2, DecisionKeeps
<1> QED
  BY <1>3, <1>4, <1>5, <1>6

(* A decision that does answer one.                                        *)
LEMMA AnswerKeeps ==
    ASSUME VideoAssumption, Bounds, FreshOK, NEW name, Command(name), Document, settled' \subseteq settled,
           UploadsOK', calls' \in [Request -> CallRow],
           \/ project'.rev = project.rev /\ choiceBy' = choiceBy
           \/ project'.rev > project.rev /\ choiceBy' \in {choiceBy, commands + 1},
           \/ project'.frame.rev = project.frame.rev /\ project'.frame.ask = project.frame.ask
           \/ project'.frame.rev = project'.rev /\ project'.frame.ask = commands + 1,
           \A r \in Request : \/ ingress'[r].rev = ingress[r].rev /\ ingress'[r].at = ingress[r].at
                              \/ ingress'[r].rev = project'.rev /\ ingress'[r].at = commands + 1
    PROVE  Carried
<1>1. /\ UNCHANGED <<bucket, lease, admin, view, work, faults>> /\ commands' = commands + 1 /\ commands < MaxCommands
  BY DEF Command
<1>2. /\ commands' \in 0..MaxCommands /\ commands <= commands' /\ commands' \in Nat /\ commands \in Nat
      /\ choiceBy \in Nat /\ choiceBy <= commands
  BY <1>1, Limits DEF FreshOK, Bounds, Typed, DocumentTyped
<1>3. 1..Len(assets) \subseteq 1..Len(assets')
  BY DEF Bounds, Typed, DocumentTyped, Document, Grows
<1>4. settled' \union stored' \union inflight' \subseteq 1..Len(assets')
  BY <1>1, <1>3 DEF bucket, Bounds, Typed
<1>5. Bounds'
  BY <1>1, <1>2, <1>4, RestBounds DEF Document, Bounds, Typed
<1>6. /\ choiceBy' <= commands' /\ choiceBy' >= choiceBy /\ project'.rev \in Nat /\ DocumentTyped'
      /\ (project'.rev = project.rev /\ choiceBy' = choiceBy) \/ project'.rev > project.rev
  BY <1>1, <1>2 DEF Document, DocumentTyped, ProjectRow
<1>7. Fresh(project'.rev, commands + 1, project'.rev, choiceBy', commands')
  BY <1>1, <1>2, <1>6 DEF Fresh
<1>8. FreshOK'
  BY <1>1, <1>2, <1>6, <1>7, RestFresh
<1> QED
  BY <1>5, <1>6, <1>8 DEF Carried

LEMMA EditKept ==
    ASSUME VideoAssumption, Bounds, FreshOK, NEW c \in 0..Automatic, Edit(c)
    PROVE  Carried
<1> DEFINE next == project.rev + 1
           pub == IF project.pub.state = "failed" THEN IdlePublication ELSE project.pub
           p == [project EXCEPT !.choice = c, !.rev = next, !.pub = pub]
<1>1. /\ Command("edit") /\ project' = p /\ UNCHANGED <<settled, ingress, track, calls, assets>>
      /\ choiceBy' = commands' /\ commands' = commands + 1 /\ commands < MaxCommands
  BY DEF Edit, Decide, Command
<1>2. project \in ProjectRow /\ next \in Nat /\ next > project.rev
  BY DEF Bounds, Typed, DocumentTyped, ProjectRow
<1>3. /\ pub \in PublicationRow
      /\ pub.target \in 0..Len(assets) /\ pub.coverTarget \in 0..Len(assets) /\ (pub.cover # 0 => pub.coverTarget # 0)
  <2>1. IdlePublication \in PublicationRow
    BY Limits DEF IdlePublication, PublicationRow, PublicationState, NoView, View, Automatic, Id
  <2>2. project.pub \in PublicationRow
    BY <1>2 DEF ProjectRow
  <2>3. IdlePublication.target = 0 /\ IdlePublication.coverTarget = 0 /\ IdlePublication.cover = 0
    BY DEF IdlePublication
  <2> HIDE DEF IdlePublication
  <2> QED
    BY <2>1, <2>2, <2>3 DEF Bounds, Typed, DocumentTyped, Names
<1> HIDE DEF next, pub
<1>4. /\ p \in ProjectRow /\ p.rev = next /\ p.frame = project.frame /\ p.source = project.source
      /\ p.output = project.output /\ p.pub = pub
  BY <1>2, <1>3 DEF ProjectRow
<1> HIDE DEF p
<1>5. choiceBy' \in 0..MaxCommands
  BY <1>1, Limits DEF Bounds, Typed
<1>6. Document
  BY <1>1, <1>3, <1>4, <1>5 DEF Document, Grows, Added, Names, Bounds, Typed, DocumentTyped
<1>7. UploadsOK' /\ calls' \in [Request -> CallRow]
  BY <1>1, <1>6, UploadsStay DEF Bounds, Typed
<1> QED
  BY <1>1, <1>2, <1>4, <1>6, <1>7, AnswerKeeps

LEMMA RequestFrameKept ==
    ASSUME VideoAssumption, Bounds, FreshOK, RequestFrame
    PROVE  Carried
<1> DEFINE n == commands + 1
           frame == [state |-> "queued", rev |-> project.rev, ask |-> n]
           p == [project EXCEPT !.frame = frame]
<1>1. /\ Command("frame") /\ project' = p /\ UNCHANGED <<settled, ingress, track, calls, assets, choiceBy>>
      /\ commands < MaxCommands
  BY DEF RequestFrame, Decide, Command
<1>2. project \in ProjectRow /\ project.rev \in Nat /\ n \in 0..MaxCommands
  BY <1>1, Limits DEF Bounds, Typed, DocumentTyped, ProjectRow
<1> HIDE DEF n
<1>3. frame \in FrameRow /\ frame.rev = project.rev /\ frame.ask = n
  BY <1>2 DEF FrameRow, JobState
<1> HIDE DEF frame
<1>4. /\ p \in ProjectRow /\ p.rev = project.rev /\ p.frame = frame /\ p.source = project.source
      /\ p.output = project.output /\ p.pub = project.pub
  BY <1>2, <1>3 DEF ProjectRow
<1> HIDE DEF p
<1>5. Document
  BY <1>1, <1>4 DEF Document, Grows, Added, Names, Bounds, Typed, DocumentTyped
<1>6. UploadsOK' /\ calls' \in [Request -> CallRow]
  BY <1>1, <1>5, UploadsStay DEF Bounds, Typed
<1> QED
  BY <1>1, <1>3, <1>4, <1>5, <1>6, AnswerKeeps DEF n

LEMMA ReviewKept ==
    ASSUME VideoAssumption, Bounds, FreshOK, Review
    PROVE  Carried
<1>1. Document /\ Quiet
  BY DocumentStays DEF Review
<1>2. UploadsOK' /\ calls' \in [Request -> CallRow]
  BY <1>1, UploadsStay DEF Review, Bounds, Typed
<1> QED
  BY <1>1, <1>2, DigestTyped, QuietKeeps DEF Review, document, bucket, Bounds, Typed

(* An approval names one copy, or two.                                     *)
LEMMA TargetsNamed ==
    ASSUME VideoAssumption, Bounds, NEW of \in Id, NEW cover \in Id, Len(assets) + 2 <= MaxAssets,
           assets' = assets \o (<<NewAsset("published", of, None, 0)>>
                                \o (IF cover # 0 THEN <<NewAsset("publishedCover", cover, None, 0)>> ELSE <<>>))
    PROVE  /\ assets' \in Seq(AssetRow) /\ Len(assets') = Len(assets) + (IF cover # 0 THEN 2 ELSE 1)
           /\ \A a \in 1..Len(assets) : assets'[a] = assets[a]
           /\ assets'[Len(assets) + 1] = NewAsset("published", of, None, 0)
           /\ cover # 0 => assets'[Len(assets) + 2] = NewAsset("publishedCover", cover, None, 0)
<1> DEFINE e == NewAsset("published", of, None, 0)
           f == NewAsset("publishedCover", cover, None, 0)
<1>1. e \in AssetRow /\ f \in AssetRow
  BY Limits, NewAssets
<1>2. assets \in Seq(AssetRow)
  BY DEF Bounds, Typed, DocumentTyped
<1>3. CASE cover = 0
  <2>1. assets' = assets \o (<<e>> \o <<>>)
    BY <1>3
  <2> HIDE DEF e, f
  <2>2. <<e>> \o <<>> = <<e>>
    BY <1>1
  <2>3. assets' = assets \o <<e>>
    BY <2>1, <2>2
  <2> QED
    BY <1>1, <1>2, <1>3, <2>3 DEF e
<1>4. CASE cover # 0
  <2> DEFINE t == <<e>> \o <<f>>
  <2>1. assets' = assets \o t
    BY <1>4
  <2> HIDE DEF e, f
  <2>2. t \in Seq(AssetRow) /\ Len(t) = 2 /\ t[1] = e /\ t[2] = f
    BY <1>1
  <2> HIDE DEF t
  <2>4. /\ assets' \in Seq(AssetRow) /\ Len(assets') = Len(assets) + 2
        /\ \A a \in 1..Len(assets) : assets'[a] = assets[a]
        /\ assets'[Len(assets) + 1] = e /\ assets'[Len(assets) + 2] = f
    <3>1. /\ assets' \in Seq(AssetRow) /\ Len(assets') = Len(assets) + Len(t) /\ Len(assets) \in Nat
          /\ \A k \in 1..(Len(assets) + Len(t)) : assets'[k] = IF k <= Len(assets) THEN assets[k] ELSE t[k - Len(assets)]
      <4>1. t \in Seq(AssetRow)
        BY <2>2
      <4>2. /\ assets \o t \in Seq(AssetRow) /\ Len(assets \o t) = Len(assets) + Len(t)
            /\ \A k \in 1..(Len(assets) + Len(t)) :
                  (assets \o t)[k] = IF k <= Len(assets) THEN assets[k] ELSE t[k - Len(assets)]
        BY <1>2, <4>1, ConcatProperties, Zenon
      <4>3. Len(assets) \in Nat
        BY <1>2
      <4> QED
        BY <2>1, <4>2, <4>3
    <3>2. \A a \in 1..Len(assets) : assets'[a] = assets[a]
      BY <2>2, <3>1
    <3>3. assets'[Len(assets) + 1] = t[1] /\ assets'[Len(assets) + 2] = t[2]
      BY <2>2, <3>1
    <3> QED
      BY <2>2, <3>1, <3>2, <3>3
  <2> QED
    BY <1>4, <2>4 DEF e, f
<1> QED
  BY <1>3, <1>4

LEMMA PublishKept ==
    ASSUME VideoAssumption, Bounds, FreshOK, Publish
    PROVE  Carried
<1> DEFINE cover == Digest.cover
           first == Len(assets) + 1
           second == IF cover # 0 THEN Len(assets) + 2 ELSE 0
           pub == [state |-> "queued", pending |-> FALSE, output |-> project.output, cover |-> cover,
                   target |-> first, coverTarget |-> second, granted |-> TRUE, approved |-> view]
           p == [project EXCEPT !.pub = pub]
<1>1. /\ Command("publish") /\ Len(assets) + 2 <= MaxAssets
      /\ project' = p /\ UNCHANGED <<settled, ingress, track, calls, choiceBy>>
      /\ assets' = assets \o (<<NewAsset("published", project.output, None, 0)>>
                              \o (IF cover # 0 THEN <<NewAsset("publishedCover", cover, None, 0)>> ELSE <<>>))
  BY DEF Publish, Decide
<1>2. /\ project \in ProjectRow /\ project.output \in Id /\ view \in View /\ Len(assets) \in Nat /\ Len(assets) <= MaxAssets
  BY DEF Bounds, Typed, DocumentTyped, ProjectRow
<1>3. cover \in Id /\ cover \in 0..Len(assets)
  BY <1>2, DigestTyped, Limits DEF Id
<1> HIDE DEF cover
<1>4. /\ assets' \in Seq(AssetRow) /\ Len(assets') = Len(assets) + (IF cover # 0 THEN 2 ELSE 1)
      /\ \A a \in 1..Len(assets) : assets'[a] = assets[a]
      /\ assets'[Len(assets) + 1] = NewAsset("published", project.output, None, 0)
      /\ cover # 0 => assets'[Len(assets) + 2] = NewAsset("publishedCover", cover, None, 0)
  BY <1>1, <1>2, <1>3, TargetsNamed
<1>5. /\ first \in Id /\ second \in Id /\ first \in 0..Len(assets') /\ second \in 0..Len(assets')
      /\ cover # 0 => second # 0
  BY <1>1, <1>2, <1>4, Limits DEF Id
<1>6. Grows /\ Added
  <2>1. Grows
    BY <1>2, <1>4 DEF Grows
  <2>2. /\ NewAsset("published", project.output, None, 0).by = None
        /\ NewAsset("published", project.output, None, 0).state = "pending"
        /\ NewAsset("publishedCover", cover, None, 0).by = None
        /\ NewAsset("publishedCover", cover, None, 0).state = "pending"
    BY DEF NewAsset
  <2>3. ASSUME NEW a \in 1..Len(assets'), a \notin 1..Len(assets)
        PROVE  a = Len(assets) + 1 \/ (cover # 0 /\ a = Len(assets) + 2)
    BY <1>2, <1>4, <2>3
  <2> QED
    BY <1>4, <2>1, <2>2, <2>3 DEF Added
<1> HIDE DEF first, second
<1>7. pub \in PublicationRow /\ pub.target = first /\ pub.coverTarget = second /\ pub.cover = cover
  BY <1>2, <1>3, <1>5 DEF PublicationRow, PublicationState
<1> HIDE DEF pub
<1>8. /\ p \in ProjectRow /\ p.pub = pub /\ p.source = project.source /\ p.output = project.output
      /\ SameRequests(p)
  BY <1>2, <1>7 DEF ProjectRow, SameRequests
<1> HIDE DEF p
<1>9. Document /\ Quiet
  <2>1. Len(assets') <= MaxAssets /\ Len(assets) <= Len(assets') /\ Len(assets') \in Nat
    <3>1. CASE cover = 0
      BY <1>1, <1>2, <1>4, <3>1, Limits
    <3>2. CASE cover # 0
      BY <1>1, <1>2, <1>4, <3>2, Limits
    <3> QED
      BY <3>1, <3>2
  <2>2. Names(project', Len(assets'))
    BY <1>1, <1>2, <1>5, <1>7, <1>8, <2>1 DEF Names, Bounds
  <2> QED
    BY <1>1, <1>4, <1>6, <1>8, <2>1, <2>2 DEF Document, Quiet, SameRequests, Bounds, Typed, DocumentTyped
<1>10. UploadsOK' /\ calls' \in [Request -> CallRow]
  BY <1>1, <1>9, UploadsStay DEF Bounds, Typed
<1> QED
  BY <1>1, <1>9, <1>10, CommandKeeps

LEMMA ReserveKept ==
    ASSUME VideoAssumption, Bounds, FreshOK, NEW r \in Request, NEW kind \in {"source", "cover"}, Reserve(r, kind)
    PROVE  Carried
<1> DEFINE first == ingress[r].state = "none"
           rev == IF first /\ kind = "cover" THEN project.rev + 1 ELSE project.rev
           p == [project EXCEPT !.rev = rev, !.cleaned = FALSE]
           rev2 == IF first THEN rev ELSE ingress[r].rev
           at2 == IF first THEN commands + 1 ELSE ingress[r].at
           d == [ingress[r] EXCEPT !.state = "receiving", !.kind = kind, !.live = TRUE, !.held = TRUE, !.rev = rev2, !.at = at2]
<1>1. /\ Command(kind) /\ project' = p /\ Goto(r, "digest") /\ UNCHANGED <<assets, settled, track, choiceBy>>
      /\ \A a \in 1..Len(assets) : assets[a].by # r
      /\ commands' = commands + 1 /\ commands < MaxCommands
  BY DEF Reserve, Command
<1>2. /\ project \in ProjectRow /\ project.rev \in Nat /\ ingress \in [Request -> IngressRow]
      /\ ingress[r].rev \in Nat /\ ingress[r].at \in 0..MaxCommands /\ commands \in 0..MaxCommands
  BY DEF Bounds, Typed, DocumentTyped, ProjectRow, IngressRow
<1>3. /\ rev \in Nat /\ rev2 \in Nat /\ at2 \in 0..MaxCommands
      /\ rev = project.rev \/ rev > project.rev
      /\ (rev2 = rev /\ at2 = commands + 1) \/ (rev2 = ingress[r].rev /\ at2 = ingress[r].at)
  BY <1>1, <1>2, Limits
<1>4. ingress' = [q \in Request |->
          IF q = r THEN d
          ELSE IF Receiving(q) /\ ~ingress[q].live THEN [ingress[q] EXCEPT !.state = "failed", !.held = FALSE] ELSE ingress[q]]
  <2>1. ASSUME NEW q \in Request
        PROVE  ingress'[q] = IF q = r THEN d ELSE IF Receiving(q) /\ ~ingress[q].live
                                                  THEN [ingress[q] EXCEPT !.state = "failed", !.held = FALSE] ELSE ingress[q]
    BY <1>1 DEF Reserve
  <2>2. ingress' = [q \in Request |-> ingress'[q]]
    BY DEF Reserve
  <2> QED
    BY <2>1, <2>2
<1> HIDE DEF rev, rev2, at2
<1>5. d \in IngressRow /\ d.rev = rev2 /\ d.at = at2
  BY <1>2, <1>3 DEF IngressRow
<1>6. /\ p \in ProjectRow /\ p.rev = rev /\ p.frame = project.frame /\ p.source = project.source
      /\ p.output = project.output /\ p.pub = project.pub
  BY <1>2, <1>3 DEF ProjectRow
<1> HIDE DEF d, p
<1>7. ASSUME NEW q \in Request
      PROVE  /\ ingress'[q] \in IngressRow
             /\ q = r \/ (ingress'[q].rev = ingress[q].rev /\ ingress'[q].at = ingress[q].at)
  <2>1. CASE ingress'[q] = d /\ q = r
    BY <1>5, <2>1
  <2>2. CASE ingress'[q] = ingress[q]
    BY <1>2, <2>2
  <2>3. CASE ingress'[q] = [ingress[q] EXCEPT !.state = "failed", !.held = FALSE]
    <3>1. ingress[q] \in IngressRow
      BY <1>2
    <3> QED
      BY <2>3, <3>1 DEF IngressRow
  <2> QED
    BY <1>4, <2>1, <2>2, <2>3
<1>8. ingress'[r] = d
  BY <1>4
<1>9. ingress' \in [Request -> IngressRow]
  BY <1>4, <1>7
<1>10. Document
  BY <1>1, <1>6, <1>9 DEF Document, Grows, Added, Names, Bounds, Typed, DocumentTyped
<1>11. UploadsOK' /\ calls' \in [Request -> CallRow]
  BY <1>1, <1>10, CallGoes DEF CallPlace
<1>12. \A q \in Request : \/ ingress'[q].rev = ingress[q].rev /\ ingress'[q].at = ingress[q].at
                          \/ ingress'[q].rev = project'.rev /\ ingress'[q].at = commands + 1
  BY <1>1, <1>3, <1>5, <1>6, <1>7, <1>8
<1>13. /\ settled' \subseteq settled
       /\ \/ project'.rev = project.rev /\ choiceBy' = choiceBy
          \/ project'.rev > project.rev /\ choiceBy' \in {choiceBy, commands + 1}
       /\ project'.frame.rev = project.frame.rev /\ project'.frame.ask = project.frame.ask
  BY <1>1, <1>3, <1>6
<1> QED
  BY <1>1, <1>10, <1>11, <1>12, <1>13, AnswerKeeps

LEMMA ReconcilesKept ==
    ASSUME VideoAssumption, Bounds, FreshOK, NEW r \in Request,
           ReconcileIngress(r) \/ \E a \in 1..Len(assets) : Reconcile(r, a)
    PROVE  Carried
<1>1. CASE ReconcileIngress(r)
  <2> DEFINE no == FALSE
             d == [ingress[r] EXCEPT !.state = "failed", !.held = no]
  <2>1. ingress \in [Request -> IngressRow] /\ ingress[r] \in IngressRow /\ no \in BOOLEAN
    BY DEF Bounds, Typed, DocumentTyped
  <2>2. ingress' = [ingress EXCEPT ![r] = d]
    BY <1>1, <2>1 DEF ReconcileIngress
  <2> HIDE DEF no
  <2>3. d \in IngressRow /\ d.rev = ingress[r].rev /\ d.at = ingress[r].at
    BY <2>1 DEF IngressRow
  <2> HIDE DEF d
  <2>4. Document /\ Quiet /\ settled' \subseteq settled
    BY <1>1, <2>2, <2>3, IngressEnds DEF ReconcileIngress
  <2>5. UploadsOK' /\ calls' \in [Request -> CallRow]
    BY <1>1, <2>4, UploadsStay DEF ReconcileIngress, Bounds, Typed
  <2> QED
    BY <1>1, <2>4, <2>5, CommandKeeps DEF ReconcileIngress
<1>2. ASSUME NEW a \in 1..Len(assets), Reconcile(r, a)
      PROVE  Carried
  <2>1. Document /\ Quiet /\ settled' \subseteq settled
    BY <1>2, DocumentStays DEF Reconcile, document
  <2> DEFINE c == [pc |-> "inspect", asset |-> a, found |-> "no"]
  <2>2. calls \in [Request -> CallRow] /\ calls' = [calls EXCEPT ![r] = c]
    BY <1>2 DEF Reconcile, Bounds, Typed
  <2>3. c \in CallRow /\ c.pc = "inspect" /\ c.asset \in 1..Len(assets)
    BY Limits DEF CallRow, CallPlace, Id, Bounds, Typed, DocumentTyped
  <2> HIDE DEF c
  <2>4. calls' \in [Request -> CallRow] /\ calls'[r] = c /\ \A q \in Request : q # r => calls'[q] = calls[q]
    BY <2>2, <2>3
  <2>5. UploadsOK'
    BY <2>1, <2>3, <2>4, UploadsStay
  <2> QED
    BY <1>2, <2>1, <2>4, <2>5, CommandKeeps DEF Reconcile
<1> QED
  BY <1>1, <1>2

-----------------------------------------------------------------------------
(* Every behaviour.                                                        *)

LEMMA WorkersKept ==
    ASSUME VideoAssumption, Bounds, FreshOK, WorkStep
    PROVE  Carried
<1>1. CASE LeaseLapse /\ UNCHANGED <<admin, view, calls, commands>>
  BY <1>1, LapseKept DEF LeaseLapse, Rest
<1>2. ASSUME NEW w \in Worker, Run(w) \/ Crash(w), Rest
      PROVE  Carried
  BY <1>2, MovesKept, TurnsKept, EndsKept, PollKept, ClaimKept, DenyKept, RecordsKept, CleanFailKept, SendKept, JobsKept,
     InsertKept, PickKept, SweepKept, FrameBegins, StageKept, AddCoverKept, ReplaceKept, SelectCoverKept DEF Run
<1> QED
  BY <1>1, <1>2 DEF WorkStep, Rest

SameFrame(p) == p.rev = 0 /\ p.frame.rev = 0 /\ p.frame.ask = 0

LEMMA Begins ==
    ASSUME VideoAssumption, WorkInit
    PROVE  Bounds /\ FreshOK
<1>1. NewProject \in ProjectRow /\ Names(NewProject, 0) /\ NewProject.rev = 0 /\ NewProject.frame.rev = 0 /\ NewProject.frame.ask = 0
  <2>1. IdlePublication \in PublicationRow
    BY Limits DEF IdlePublication, PublicationRow, PublicationState, NoView, View, Automatic, Id
  <2>2. [state |-> "idle", rev |-> 0, ask |-> 0] \in FrameRow
    BY Limits DEF FrameRow, JobState
  <2>3. IdlePublication.target = 0 /\ IdlePublication.coverTarget = 0 /\ IdlePublication.cover = 0
    BY DEF IdlePublication
  <2> HIDE DEF IdlePublication
  <2>4. Automatic \in 0..Automatic
    BY Limits DEF Automatic
  <2> QED
    BY <2>1, <2>2, <2>3, <2>4, Limits DEF NewProject, ProjectRow, JobState, Names
<1>2. /\ NoIngress \in IngressRow /\ NoIngress.rev = 0 /\ NoIngress.at = 0 /\ NoCall \in CallRow /\ NoCall.pc = "idle" /\ NoCall.asset = 0
  BY Limits DEF NoIngress, IngressRow, NoCall, CallRow, CallPlace
<1> DEFINE e == [NewAsset("source", 1, None, 0) EXCEPT !.state = "ready", !.sent = TRUE, !.known = TRUE]
           p == [NewProject EXCEPT !.source = 1, !.output = 1, !.proc = "ready", !.facts = TRUE, !.cleaned = FALSE]
<1>3. project = (IF Reviewed THEN p ELSE NewProject) /\ assets = (IF Reviewed THEN <<e>> ELSE <<>>)
  BY DEF WorkInit, Init
<1>4. ASSUME Reviewed PROVE e \in AssetRow /\ e.by = None /\ p \in ProjectRow /\ Names(p, 1) /\ SameFrame(p)
  <2>1. MaxAssets > 0 /\ 1 \in Id
    BY <1>4, Limits DEF VideoAssumption, Id
  <2>2. NewAsset("source", 1, None, 0) \in AssetRow /\ NewAsset("source", 1, None, 0).by = None
    BY <2>1, Limits, NewAssets
  <2> DEFINE n == NewProject
             y == TRUE
             f == FALSE
  <2>3. n \in ProjectRow /\ Names(n, 0) /\ SameFrame(n) /\ y \in BOOLEAN /\ f \in BOOLEAN
    BY <1>1 DEF SameFrame
  <2>4. p = [n EXCEPT !.source = 1, !.output = 1, !.proc = "ready", !.facts = y, !.cleaned = f]
    OBVIOUS
  <2> HIDE DEF n, y, f, p
  <2>5. e \in AssetRow /\ e.by = None
    BY <2>2 DEF AssetRow, AssetState
  <2>6. p \in ProjectRow /\ Names(p, 1) /\ SameFrame(p)
    <3>1. p \in ProjectRow
      BY <2>1, <2>3, <2>4 DEF ProjectRow, JobState
    <3>2. /\ p.source = 1 /\ p.output = 1 /\ p.pub = n.pub /\ p.rev = n.rev /\ p.frame = n.frame
      BY <2>3, <2>4 DEF ProjectRow
    <3> QED
      BY <2>3, <3>1, <3>2 DEF Names, SameFrame
  <2> QED
    BY <2>5, <2>6
<1> HIDE DEF e, p
<1>5. /\ project \in ProjectRow /\ Names(project, Len(assets)) /\ SameFrame(project)
      /\ assets \in Seq(AssetRow) /\ Len(assets) <= MaxAssets /\ Len(assets) \in {0, 1}
      /\ \A a \in 1..Len(assets) : assets[a].by = None
      /\ settled \union stored \union inflight \subseteq 1..Len(assets)
  <2>1. CASE Reviewed
    <3>1. project = p /\ assets = <<e>> /\ MaxAssets > 0 /\ MaxAssets \in Nat /\ stored = {1}
          /\ settled = {} /\ inflight = {}
      BY <1>3, <2>1, Limits DEF VideoAssumption, WorkInit, Init
    <3> QED
      BY <1>4, <2>1, <3>1
  <2>2. CASE ~Reviewed
    <3>1. project = NewProject /\ assets = <<>> /\ MaxAssets \in Nat /\ stored = {} /\ settled = {} /\ inflight = {}
      BY <1>3, <2>2, Limits DEF WorkInit, Init
    <3> QED
      BY <1>1, <3>1 DEF SameFrame
  <2> QED
    BY <2>1, <2>2
<1>6. /\ ingress = [r \in Request |-> NoIngress] /\ calls = [r \in Request |-> NoCall] /\ work = [w \in Worker |-> Idle]
      /\ track = NoTrack /\ view = NoView /\ choiceBy = 0 /\ commands = 0 /\ faults = 0 /\ admin = TRUE
      /\ lease = [owner |-> None, until |-> "null"]
  BY DEF WorkInit, Init
<1>7. /\ ingress \in [Request -> IngressRow] /\ calls \in [Request -> CallRow] /\ work \in [Worker -> WorkRow]
  BY <1>2, <1>6, IdleTyped
<1>8. track \in [output : Id, cover : Id] /\ view \in View /\ choiceBy \in 0..MaxCommands /\ commands \in 0..MaxCommands
      /\ lease \in [owner : Worker \union {None}, until : {"null", "expired", "live"}] /\ admin \in BOOLEAN /\ faults \in Nat
  BY <1>6, Limits DEF NoTrack, NoView, View, Automatic, Id
<1>9. Typed
  BY <1>5, <1>7, <1>8 DEF Typed, DocumentTyped
<1>10. UploadsOK
  BY <1>2, <1>5, <1>6 DEF UploadsOK, At, Uploading
<1>11. ASSUME NEW w \in Worker PROVE PlacedAt(work[w], Len(assets)) /\ work[w].rev = 0 /\ work[w].ask = 0
  BY <1>5, <1>6, IdleTyped DEF PlacedAt, Handling
<1>12. FreshOK
  BY <1>2, <1>5, <1>6, <1>11 DEF FreshOK, Fresh, SameFrame
<1> QED
  BY <1>5, <1>9, <1>10, <1>11, <1>12 DEF Bounds

LEMMA EveryStepCarries ==
    ASSUME VideoAssumption, Bounds, FreshOK, Next
    PROVE  Carried
<1>1. CASE Ask
  <2>1. ASSUME NEW c \in 0..Automatic, Edit(c) PROVE Carried
    BY <2>1, EditKept
  <2>2. ASSUME NEW r \in Request, \E kind \in {"source", "cover"} : Reserve(r, kind) PROVE Carried
    BY <2>2, ReserveKept
  <2>3. ASSUME NEW r \in Request, ReconcileIngress(r) \/ \E a \in 1..Len(assets) : Reconcile(r, a) PROVE Carried
    BY <2>3, ReconcilesKept
  <2> QED
    BY <1>1, <2>1, <2>2, <2>3, DecisionsKept, RequestFrameKept, PublishKept DEF Ask
<1> QED
  BY <1>1, ReviewKept, WorkersKept, EnvironmentKept, CallsKept DEF Next

LEMMA StutterCarries ==
    ASSUME Bounds, FreshOK, UNCHANGED vars
    PROVE  Carried
<1>1. /\ UNCHANGED <<project, assets, settled, ingress, track, choiceBy, stored, inflight, lease, admin, view, calls, work,
                     commands, faults>>
  BY DEF vars, document, bucket
<1>2. Bounds'
  BY <1>1 DEF Bounds, Typed, DocumentTyped, UploadsOK, At, Own
<1>3. FreshOK' /\ choiceBy' >= choiceBy
  BY <1>1 DEF FreshOK, Bounds, Typed, DocumentTyped
<1> QED
  BY <1>2, <1>3 DEF Carried

\* For any uploads, workers, objects and commands: every object a step names is one
\* the document has named, and every request for a cover that carries the revision of
\* the document was made no earlier than the choice that stands.
THEOREM RequestsInductive ==
    ASSUME VideoAssumption
    PROVE  Spec => [](Bounds /\ FreshOK)
<1>1. WorkInit => Bounds /\ FreshOK
  BY Begins
<1>2. Bounds /\ FreshOK /\ [Next]_vars => (Bounds /\ FreshOK)'
  BY EveryStepCarries, StutterCarries DEF Carried
<1> QED
  BY <1>1, <1>2, PTL DEF Spec

\* LaterChoiceStands, of Select in its three uses and of the edit: an upload, a frame or a
\* reconciliation that ends late never replaces the choice of a later command.
THEOREM ChoiceStands ==
    ASSUME VideoAssumption
    PROVE  Spec => LaterChoiceStands
<1>1. Bounds /\ FreshOK /\ [Next]_vars => [choiceBy' >= choiceBy]_choiceBy
  BY EveryStepCarries, StutterCarries DEF Carried
<1> QED
  BY <1>1, RequestsInductive, PTL DEF Spec, LaterChoiceStands
==============================================================================
