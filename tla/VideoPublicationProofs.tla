------------------------ MODULE VideoPublicationProofs ------------------------
(***************************************************************************)
(* VideoWorker, for any number of uploads, workers, objects and commands:  *)
(* what is published is what was approved, and it stays in the store.      *)
(***************************************************************************)
EXTENDS VideoProofs, FiniteSetTheorems

(* A role that is revoked while two workers take turns may revive what a   *)
(* third party saw end (the refusal of a claim writes what its poll has    *)
(* read): the theorems are about one worker, or an administrator who stays *)
(* one.                                                                    *)
NoRivals == "revoke" \in Asks => \A v, w \in Worker : v = w

-----------------------------------------------------------------------------
(* The publication and its approval.                                       *)

(* Neither cancelled nor published.                                        *)
Alive == ~project.cancelled /\ project.pub.state # "complete"

CopyOf(a, of) == a # 0 => assets[a].of = of /\ assets[a].by = None
PublicationOK ==
    LET p == project.pub
    IN /\ p.approved.cover = p.cover
       /\ p.cover = 0 <=> p.coverTarget = 0
       /\ CopyOf(p.target, p.approved.output) /\ CopyOf(p.coverTarget, p.approved.cover)
       /\ p.state = "complete" => ~project.cancelled
       /\ track = IF p.state = "complete" THEN [output |-> p.target, cover |-> p.coverTarget] ELSE NoTrack

(* Who may refuse a claim, and what it would end.                          *)
Seeing(w) == work[w].pc \in {"claim", "deny"} /\ Active(work[w].seen.pub)
RolesOK ==
    IF "revoke" \in Asks
    THEN \A w \in Worker : Seeing(w) => project.pub.state \in {"queued", "running", "cancelled"}
    ELSE admin /\ \A w \in Worker : work[w].pc # "deny"

(* What a track plays is stored, and what the document calls ready is,     *)
(* until its objects are given up.                                         *)
StoreOK == /\ Published \subseteq stored
           /\ Alive => \A a \in 1..Len(assets) : assets[a].state = "ready" => a \in stored

CallsOK == Alive => \A r \in Request :
    /\ At(r, "record") => \A a \in 1..Len(assets) : assets[a].by = r => a \in stored
    /\ At(r, "resolve") /\ calls[r].found = "yes" => calls[r].asset \in stored

-----------------------------------------------------------------------------
(* The worker.                                                             *)

Finalizing == {"failed", "release"}
Writing == {"recover", "head", "judge", "send", "put", "ack", "replace", "grant"}
Cleaning == Clearing \union {"cleanFail"}

(* The places of each job, and the object it is about.                     *)
RouteAt(job, for, pc) ==
    /\ job = "none" => pc \in {"idle", "claim", "deny", "release"}
    /\ job = "publish" => /\ pc \in {"publish", "coverTarget"} \union Writing \union Finalizing
                          /\ for \in {"none", "target", "coverTarget"}
                          /\ pc \in Writing => for # "none"
                          /\ pc = "publish" => for # "target"
    /\ job = "process" => /\ pc \in {"process", "start", "decode", "stage", "cover", "select", "finish",
                                     "recover", "head", "judge", "send", "put", "ack"} \union Finalizing
                          /\ for \in {"none", "output", "cover"}
                          /\ pc \in {"recover", "head", "judge"} => for = "output"
                          /\ pc \in {"send", "put", "ack"} => for # "none"
    /\ job = "frame" => /\ pc \in {"frame", "decode", "cover", "send", "put", "ack", "select", "finish"} \union Finalizing
                        /\ pc \in {"send", "put", "ack"} => for = "cover"
    /\ job = "clean" => pc \in {"clean", "next"} \union Cleaning \union Finalizing
RouteOK(w) == RouteAt(work[w].job, work[w].for, work[w].pc)

(* Under its lease a worker publishes what the document names, and nobody  *)
(* cancels or publishes meanwhile.                                         *)
Holds(w) == lease.owner = w /\ LeaseLive /\ work[w].job \in {"publish", "process", "frame"} /\ work[w].pc \notin Finalizing
HoldOK(w) ==
    Holds(w) => /\ Alive
                /\ work[w].job = "publish" =>
                      /\ project.pub.state \in {"queued", "running"}
                      /\ work[w].pc \in Writing =>
                            work[w].asset = IF work[w].for = "target" THEN project.pub.target ELSE project.pub.coverTarget

(* A cleanup, its lease lost or not, handles no published object.          *)
CleanOK(w) ==
    work[w].job = "clean" => /\ ~Alive
                             /\ \A x \in work[w].todo : x.id \notin Published
                             /\ work[w].pc \in Cleaning => work[w].asset \notin Published

(* What a worker has seen stored is stored.                                *)
SightOK(w) ==
    Alive /\ (work[w].pc = "ack" \/ (work[w].pc = "judge" /\ work[w].found = "found")) => work[w].asset \in stored

WorkerOK(w) == RouteOK(w) /\ HoldOK(w) /\ CleanOK(w) /\ SightOK(w)

Safe == PublicationOK /\ RolesOK /\ StoreOK /\ CallsOK /\ \A w \in Worker : WorkerOK(w)

-----------------------------------------------------------------------------
(* Steps that leave the publication alone.                                 *)

SamePublication(p) ==
    /\ p.cancelled = project.cancelled /\ p.pub.state = project.pub.state /\ p.pub.cover = project.pub.cover
    /\ p.pub.target = project.pub.target /\ p.pub.coverTarget = project.pub.coverTarget /\ p.pub.approved = project.pub.approved

(* No object becomes ready that is not stored.                             *)
ReadyIfStored ==
    Alive => \A a \in 1..Len(assets') : assets'[a].state = "ready" => Ready(a) \/ a \in stored'

LEMMA PublicationStays ==
    ASSUME Bounds, PublicationOK, SamePublication(project'), track' = track, Grows
    PROVE  PublicationOK' /\ Alive' = Alive /\ Published' = Published
<1>1. Names(project, Len(assets)) /\ Len(assets) \in Nat
  BY DEF Bounds, Typed, DocumentTyped
<1>2. \A a, of : a \in 0..Len(assets) /\ CopyOf(a, of) => (a # 0 => assets'[a].of = of /\ assets'[a].by = None)
  BY <1>1 DEF CopyOf, Grows
<1>3. Alive' = Alive /\ Published' = Published
  BY DEF SamePublication, Alive, Published
<1>4. PublicationOK'
  BY <1>1, <1>2 DEF PublicationOK, SamePublication, Names, CopyOf
<1> QED
  BY <1>3, <1>4

LEMMA StoreStays ==
    ASSUME StoreOK, Alive' => Alive, Published' = Published, stored \subseteq stored', ReadyIfStored
    PROVE  StoreOK'
BY DEF StoreOK, ReadyIfStored, Ready

(* A worker that is not at work in this step.                              *)
LEMMA Bystands ==
    ASSUME NEW q \in Worker, WorkerOK(q), Alike(work'[q], work[q]), Alive' => Alive,
           Alive' => stored \subseteq stored', Published' = Published \/ Alive,
           lease'.owner = q /\ LeaseLive' => lease.owner = q /\ LeaseLive /\ SamePublication(project')
    PROVE  WorkerOK(q)'
<1>1. /\ work'[q].pc = work[q].pc /\ work'[q].job = work[q].job /\ work'[q].for = work[q].for /\ work'[q].asset = work[q].asset
      /\ work'[q].todo = work[q].todo /\ work'[q].found = work[q].found
  BY DEF Alike, SameJob, SameObject
<1>2. RouteOK(q)'
  BY <1>1 DEF WorkerOK, RouteOK
<1>3. HoldOK(q)'
  BY <1>1 DEF WorkerOK, HoldOK, Holds, SamePublication, Alive
<1>4. CleanOK(q)'
  BY <1>1 DEF WorkerOK, CleanOK
<1>5. SightOK(q)'
  BY <1>1 DEF WorkerOK, SightOK
<1> QED
  BY <1>2, <1>3, <1>4, <1>5 DEF WorkerOK

(* What is known of the calls remains true while they stand still.         *)
LEMMA CallsStay ==
    ASSUME VideoAssumption, Bounds, CallsOK, Alive' => Alive, Alive' => stored \subseteq stored', Grows, Added,
           \A r \in Request : calls'[r] = calls[r] \/ calls'[r].pc \notin {"record", "resolve"}
    PROVE  CallsOK'
<1>1. Len(assets) \in Nat /\ None \notin Request
  BY DEF Bounds, Typed, DocumentTyped, VideoAssumption
<1>2. SUFFICES ASSUME Alive', NEW r \in Request
               PROVE  /\ calls'[r].pc = "record" => \A a \in 1..Len(assets') : assets'[a].by = r => a \in stored'
                      /\ calls'[r].pc = "resolve" /\ calls'[r].found = "yes" => calls'[r].asset \in stored'
  BY DEF CallsOK, At
<1>3. ASSUME NEW a \in 1..Len(assets'), assets'[a].by = r
      PROVE  a \in 1..Len(assets) /\ assets[a].by = r
  BY <1>1, <1>3 DEF Grows, Added
<1> QED
  BY <1>2, <1>3 DEF CallsOK, At

(* A step of worker w.                                                     *)
Stepped(w) == Others(w) /\ WorkerOK(w)' /\ work'[w].pc \notin {"claim", "deny"}

LEMMA WorkerSteps ==
    ASSUME VideoAssumption, NoRivals, Bounds, Safe, NEW w \in Worker, Stepped(w), Rest, lease' = lease, Grows, Added,
           PublicationOK', StoreOK', Alive' => Alive, Alive' => stored \subseteq stored', Published' = Published \/ Alive,
           SamePublication(project') \/ Fenced(w)
    PROVE  Safe'
<1>1. ASSUME NEW q \in Worker PROVE WorkerOK(q)'
  <2>1. CASE q = w
    BY <2>1 DEF Stepped
  <2>2. CASE q # w
    BY <2>2, Bystands DEF Stepped, Others, Safe, Fenced, LeaseLive
  <2> QED
    BY <2>1, <2>2
<1>2. RolesOK'
  BY DEF Safe, RolesOK, NoRivals, Stepped, Seeing, Others, Alike, Rest
<1>3. CallsOK'
  BY CallsStay DEF Safe, Rest
<1> QED
  BY <1>1, <1>2, <1>3 DEF Safe

LEMMA QuietSteps ==
    ASSUME VideoAssumption, NoRivals, Bounds, Safe, NEW w \in Worker, Stepped(w), Rest, lease' = lease, Grows, Added,
           SamePublication(project'), track' = track, stored \subseteq stored', ReadyIfStored
    PROVE  Safe'
<1>1. PublicationOK' /\ Alive' = Alive /\ Published' = Published
  BY PublicationStays DEF Safe
<1>2. StoreOK'
  BY <1>1, StoreStays DEF Safe
<1> QED
  BY <1>1, <1>2, WorkerSteps

-----------------------------------------------------------------------------
(* How a worker goes on.                                                   *)

LEMMA JumpSteps ==
    ASSUME Bounds, NEW w \in Worker, WorkerOK(w), NEW place \in WorkPlace, Jump(w, place), lease' = lease,
           SamePublication(project'), track' = track,
           RouteAt(work[w].job, work[w].for, place), place \notin {"claim", "deny", "judge"},
           work[w].pc \in Finalizing => place \in Finalizing,
           work[w].job = "publish" /\ place \in Writing => work[w].pc \in Writing,
           work[w].job = "clean" /\ place \in Cleaning => work[w].pc \in Cleaning,
           place = "ack" => work[w].asset \in stored'
    PROVE  Stepped(w)
<1>1. work \in [Worker -> WorkRow]
  BY DEF Bounds, Typed
<1>2. /\ Others(w) /\ work'[w].pc = place /\ SameJob(work'[w], work[w]) /\ SameObject(work'[w], work[w])
  BY <1>1, Jumps
<1>3. /\ work'[w].job = work[w].job /\ work'[w].for = work[w].for /\ work'[w].asset = work[w].asset /\ work'[w].todo = work[w].todo
  BY <1>2 DEF SameJob, SameObject
<1>4. Alive' = Alive /\ Published' = Published
  BY DEF SamePublication, Alive, Published
<1>5. RouteOK(w)'
  BY <1>2, <1>3 DEF RouteOK
<1>6. HoldOK(w)'
  BY <1>2, <1>3, <1>4 DEF WorkerOK, HoldOK, Holds, LeaseLive, SamePublication
<1>7. CleanOK(w)'
  BY <1>2, <1>3, <1>4 DEF WorkerOK, CleanOK
<1>8. SightOK(w)'
  BY <1>2, <1>3, <1>4 DEF SightOK
<1> QED
  BY <1>2, <1>5, <1>6, <1>7, <1>8 DEF Stepped, WorkerOK

LEMMA ThrowSteps ==
    ASSUME Bounds, NEW w \in Worker, WorkerOK(w), Throw(w), lease' = lease, work[w].job # "none", work[w].pc \notin Finalizing,
           Alive' => Alive, Published' = Published \/ Alive, SamePublication(project') \/ work[w].job # "process"
    PROVE  Stepped(w)
<1>1. work \in [Worker -> WorkRow] /\ work[w] \in WorkRow
  BY DEF Bounds, Typed
<1>2. PICK place \in {"cleanFail", "finish", "failed"} :
              /\ Jump(w, place)
              /\ place = "cleanFail" => work[w].job = "clean" /\ work[w].pc \in Clearing
              /\ place = "finish" => work[w].job = "process"
  BY Throws
<1>3. place \in WorkPlace
  BY DEF WorkPlace
<1>4. /\ Others(w) /\ work'[w].pc = place /\ SameJob(work'[w], work[w]) /\ SameObject(work'[w], work[w])
  BY <1>1, <1>2, <1>3, Jumps
<1>5. /\ work'[w].job = work[w].job /\ work'[w].for = work[w].for /\ work'[w].asset = work[w].asset /\ work'[w].todo = work[w].todo
  BY <1>4 DEF SameJob, SameObject
<1>6. RouteOK(w)'
  BY <1>2, <1>4, <1>5 DEF RouteOK, RouteAt, WorkerOK, Writing, Finalizing, Cleaning
<1>7. HoldOK(w)'
  <2>1. CASE place = "finish"
    BY <1>2, <1>4, <1>5, <2>1 DEF WorkerOK, HoldOK, Holds, LeaseLive, SamePublication, Alive
  <2>2. CASE place = "failed"
    BY <1>4, <2>2 DEF HoldOK, Holds, Finalizing
  <2>3. CASE place = "cleanFail"
    BY <1>2, <1>5, <2>3 DEF HoldOK, Holds
  <2> QED
    BY <2>1, <2>2, <2>3
<1>8. CleanOK(w)'
  BY <1>2, <1>4, <1>5 DEF WorkerOK, CleanOK, Cleaning, Clearing
<1>9. SightOK(w)'
  BY <1>4 DEF SightOK
<1> QED
  BY <1>4, <1>6, <1>7, <1>8, <1>9 DEF Stepped, WorkerOK

(* What the lease guarantees remains true of the document.                 *)
Held(w) == Holds(w) => Alive' /\ (work[w].job = "publish" => project'.pub.state \in {"queued", "running"})

LEMMA HeldStays ==
    ASSUME NEW w \in Worker, WorkerOK(w), SamePublication(project')
    PROVE  Held(w)
  BY DEF WorkerOK, HoldOK, Held, SamePublication, Alive

LEMMA TakeSteps ==
    ASSUME Bounds, NEW w \in Worker, WorkerOK(w), NEW for \in {"none", "output", "cover", "target", "coverTarget"},
           NEW a \in Id, NEW place \in WorkPlace, Take(w, for, a, place), lease' = lease, Held(w),
           RouteAt(work[w].job, for, place), place \notin {"claim", "deny", "judge", "ack"},
           work[w].pc \notin Finalizing, work[w].job # "clean",
           work[w].job = "publish" /\ place \in Writing =>
              a = IF for = "target" THEN project'.pub.target ELSE project'.pub.coverTarget
    PROVE  Stepped(w)
<1>1. work \in [Worker -> WorkRow]
  BY DEF Bounds, Typed
<1>2. /\ Others(w) /\ work'[w].pc = place /\ SameJob(work'[w], work[w]) /\ work'[w].for = for /\ work'[w].asset = a
  BY <1>1, Takes
<1>3. work'[w].job = work[w].job
  BY <1>2 DEF SameJob
<1>4. RouteOK(w)'
  BY <1>2, <1>3 DEF RouteOK
<1>5. HoldOK(w)'
  BY <1>2, <1>3 DEF HoldOK, Held, Holds, LeaseLive
<1>6. CleanOK(w)' /\ SightOK(w)'
  BY <1>2, <1>3 DEF CleanOK, SightOK
<1> QED
  BY <1>2, <1>4, <1>5, <1>6 DEF Stepped, WorkerOK

(* A worker without a job.                                                 *)
LEMMA IdleSteps ==
    ASSUME VideoAssumption, Bounds, NEW w \in Worker, work' = [work EXCEPT ![w] = Idle]
    PROVE  Stepped(w)
<1>1. work \in [Worker -> WorkRow]
  BY DEF Bounds, Typed
<1>2. work'[w] = Idle /\ Others(w)
  BY <1>1 DEF Others, Alike, SameJob, SameObject
<1>3. WorkerOK(w)'
  BY <1>2, IdleTyped DEF WorkerOK, RouteOK, RouteAt, HoldOK, Holds, CleanOK, SightOK
<1> QED
  BY <1>2, <1>3, IdleTyped DEF Stepped

-----------------------------------------------------------------------------
(* What a step does to the document.                                       *)

Still == Grows /\ Added /\ SamePublication(project') /\ track' = track /\ ReadyIfStored

LEMMA DocumentStill ==
    ASSUME Bounds, UNCHANGED document
    PROVE  Still
<1>1. UNCHANGED <<project, assets, track>>
  BY DEF document
<1> QED
  BY <1>1, DocumentStays DEF Still, Document, SamePublication, ReadyIfStored, Ready

LEMMA ProjectStill ==
    ASSUME Bounds, UNCHANGED <<assets, track>>, SamePublication(project')
    PROVE  Still
<1>1. Grows /\ Added
  BY DEF Grows, Added, Bounds, Typed, DocumentTyped
<1> QED
  BY <1>1 DEF Still, ReadyIfStored, Ready

LEMMA AssetStill ==
    ASSUME Bounds, NEW a \in 1..Len(assets), NEW state \in AssetState, NEW known \in BOOLEAN, SetAsset(a, state, known),
           state = "ready" /\ Alive => a \in stored', SamePublication(project'), track' = track
    PROVE  Still
<1>1. assets \in Seq(AssetRow)
  BY DEF Bounds, Typed, DocumentTyped
<1>2. /\ Len(assets') = Len(assets) /\ \A b \in 1..Len(assets) : b # a => assets'[b] = assets[b]
      /\ assets'[a].state = state /\ assets'[a].of = assets[a].of /\ assets'[a].by = assets[a].by
  BY <1>1, SetsAsset
<1>3. Grows /\ Added
  BY <1>1, <1>2 DEF Grows, Added
<1>4. ReadyIfStored
  BY <1>2 DEF ReadyIfStored, Ready
<1> QED
  BY <1>3, <1>4 DEF Still

LEMMA MarkStill ==
    ASSUME Bounds, NEW a \in 1..Len(assets), MarkSent(a), SamePublication(project'), track' = track
    PROVE  Still
<1>1. assets \in Seq(AssetRow)
  BY DEF Bounds, Typed, DocumentTyped
<1>2. /\ Len(assets') = Len(assets) /\ \A b \in 1..Len(assets) : b # a => assets'[b] = assets[b]
      /\ assets'[a].state = "unknown" /\ assets'[a].of = assets[a].of /\ assets'[a].by = assets[a].by
  BY <1>1, Marks
<1>3. Grows /\ Added
  BY <1>1, <1>2 DEF Grows, Added
<1>4. ReadyIfStored
  BY <1>2 DEF ReadyIfStored, Ready
<1> QED
  BY <1>3, <1>4 DEF Still

LEMMA AppendStill ==
    ASSUME Bounds, NEW e \in AssetRow, e.by = None, e.state = "pending", assets' = Append(assets, e),
           SamePublication(project'), track' = track
    PROVE  Still
<1>1. assets \in Seq(AssetRow)
  BY DEF Bounds, Typed, DocumentTyped
<1>2. /\ Len(assets') = Len(assets) + 1 /\ \A b \in 1..Len(assets) : assets'[b] = assets[b]
      /\ assets'[Len(assets) + 1] = e
  BY <1>1, Appends
<1>3. Grows /\ Added
  BY <1>1, <1>2 DEF Grows, Added
<1>4. ReadyIfStored
  BY <1>1, <1>2 DEF ReadyIfStored, Ready
<1> QED
  BY <1>3, <1>4 DEF Still

(* Changes of the project that are not about its publication.              *)
LEMMA Elsewhere ==
    ASSUME Bounds, NEW state \in JobState, NEW a \in Id, NEW u, NEW v
    PROVE  /\ SamePublication(project)
           /\ SamePublication([project EXCEPT !.proc = state]) /\ SamePublication([project EXCEPT !.frame.state = state])
           /\ SamePublication([project EXCEPT !.facts = u, !.output = a]) /\ SamePublication([project EXCEPT !.auto = a])
           /\ SamePublication([project EXCEPT !.cleaned = u]) /\ SamePublication([project EXCEPT !.cleaned = u, !.pub.pending = v])
           /\ SamePublication([[project EXCEPT !.cleaned = u] EXCEPT !.auto = a])
           /\ SamePublication([project EXCEPT !.source = a, !.cleaned = u])
<1>1. project \in ProjectRow
  BY DEF Bounds, Typed, DocumentTyped
<1> QED
  BY <1>1 DEF SamePublication, ProjectRow, PublicationRow

LEMMA SelectElsewhere ==
    ASSUME Bounds, NEW p \in ProjectRow, SamePublication(p), NEW a, NEW rev, NEW by, Select(p, a, rev, by)
    PROVE  SamePublication(project')
  BY DEF Select, SamePublication, ProjectRow

LEMMA ArrivesElsewhere ==
    ASSUME Bounds, NEW a
    PROVE  SamePublication(Arrived(project, a))
<1>1. project \in ProjectRow
  BY DEF Bounds, Typed, DocumentTyped
<1> QED
  BY <1>1 DEF Arrived, SamePublication, ProjectRow

LEMMA StillSteps ==
    ASSUME VideoAssumption, NoRivals, Bounds, Safe, NEW w \in Worker, Stepped(w), Rest, lease' = lease, Still,
           stored \subseteq stored'
    PROVE  Safe'
  BY QuietSteps DEF Still

-----------------------------------------------------------------------------
(* The worker's steps that leave the publication alone.                    *)

LEMMA AtWork ==
    ASSUME Bounds, Safe, NEW w \in Worker
    PROVE  /\ WorkerOK(w) /\ RouteAt(work[w].job, work[w].for, work[w].pc)
           /\ work[w].job \in {"none", "clean", "publish", "process", "frame"} /\ work[w].pc \in WorkPlace
           /\ work[w].for \in {"none", "output", "cover", "target", "coverTarget"} /\ work[w].asset \in Id
<1>1. work[w] \in WorkRow
  BY DEF Bounds, Typed
<1> QED
  BY <1>1 DEF WorkRow, Safe, WorkerOK, RouteOK

LEMMA Checkpoints ==
    ASSUME VideoAssumption, NoRivals, Bounds, Safe, NEW w \in Worker, Rest, lease' = lease, stored \subseteq stored', Still,
           work[w].job # "none", work[w].pc \notin Finalizing, NEW place \in WorkPlace, Throw(w) \/ Jump(w, place),
           RouteAt(work[w].job, work[w].for, place), place \notin {"claim", "deny", "judge"},
           work[w].job = "publish" /\ place \in Writing => work[w].pc \in Writing,
           work[w].job = "clean" /\ place \in Cleaning => work[w].pc \in Cleaning,
           place = "ack" => work[w].asset \in stored'
    PROVE  Safe'
<1>1. WorkerOK(w)
  BY DEF Safe
<1>2. Alive' = Alive /\ Published' = Published /\ SamePublication(project') /\ track' = track
  BY DEF Still, SamePublication, Alive, Published
<1>3. Stepped(w)
  <2>1. CASE Throw(w)
    BY <1>1, <1>2, <2>1, ThrowSteps
  <2>2. CASE Jump(w, place)
    BY <1>1, <1>2, <2>2, JumpSteps
  <2> QED
    BY <2>1, <2>2
<1> QED
  BY <1>3, StillSteps

LEMMA RecoverSafe ==
    ASSUME VideoAssumption, NoRivals, Bounds, Safe, NEW w \in Worker, Rest, Recover(w)
    PROVE  Safe'
<1> DEFINE place == IF Ready(Asset(w)) THEN Recovered(w)
                    ELSE IF Unsent(Asset(w)) THEN (IF work[w].for = "output" THEN "start" ELSE "grant") ELSE "head"
<1>1. /\ work[w].pc = "recover" /\ Jump(w, place) /\ UNCHANGED <<document, lease, bucket>>
  BY DEF Recover, Doing
<1>2. place \in WorkPlace /\ RouteAt(work[w].job, work[w].for, place) /\ place \notin {"claim", "deny", "judge", "ack"}
  BY <1>1, AtWork DEF WorkPlace, RouteAt, Writing, Finalizing, Cleaning, Clearing, Recovered, Onward
<1>3. work[w].job \notin {"none", "clean"} /\ work[w].pc \notin Finalizing /\ work[w].pc \in Writing
  BY <1>1, AtWork DEF RouteAt, Writing, Finalizing, Cleaning, Clearing
<1> HIDE DEF place
<1>4. Still /\ stored \subseteq stored'
  BY <1>1, DocumentStill DEF bucket
<1> QED
  BY <1>1, <1>2, <1>3, <1>4, Checkpoints

LEMMA LookSafe ==
    ASSUME VideoAssumption, NoRivals, Bounds, Safe, NEW w \in Worker, Rest, Look(w)
    PROVE  Safe'
<1> DEFINE x == IF Asset(w) \in stored THEN "found" ELSE IF work[w].known \/ Lost(Asset(w)) THEN "lost" ELSE "unsettled"
<1>1. /\ work[w].pc = "head" /\ UNCHANGED <<document, lease, bucket>>
      /\ Throw(w) \/ work' = [work EXCEPT ![w].pc = "judge", ![w].found = x]
  BY DEF Look, Doing
<1>2. x = "found" => work[w].asset \in stored
  BY DEF Asset
<1> HIDE DEF x
<1>3. /\ WorkerOK(w) /\ work[w].job # "none" /\ work[w].pc \notin Finalizing /\ work[w].pc \in Writing
      /\ RouteAt(work[w].job, work[w].for, "judge") /\ work[w].pc \in Cleaning
  BY <1>1, AtWork DEF RouteAt, Writing, Finalizing, Cleaning, Clearing
<1>4. Still /\ stored' = stored /\ SamePublication(project') /\ track' = track
  BY <1>1, DocumentStill DEF bucket, Still
<1>5. Alive' = Alive /\ Published' = Published
  BY <1>4 DEF SamePublication, Alive, Published
<1>6. Stepped(w)
  <2>1. CASE Throw(w)
    BY <1>1, <1>3, <1>4, <1>5, <2>1, ThrowSteps
  <2>2. CASE work' = [work EXCEPT ![w].pc = "judge", ![w].found = x]
    <3>1. /\ work'[w].pc = "judge" /\ work'[w].found = x /\ SameJob(work'[w], work[w]) /\ work'[w].asset = work[w].asset
          /\ work'[w].for = work[w].for /\ Others(w)
      BY <2>2 DEF Bounds, Typed, WorkRow, SameJob, Others, Alike, SameObject
    <3>2. work'[w].job = work[w].job /\ work'[w].todo = work[w].todo
      BY <3>1 DEF SameJob
    <3>3. HoldOK(w)'
      BY <1>1, <1>3, <1>4, <1>5, <3>1, <3>2 DEF WorkerOK, HoldOK, Holds, LeaseLive, SamePublication, Writing
    <3>4. RouteOK(w)' /\ CleanOK(w)' /\ SightOK(w)'
      BY <1>2, <1>3, <1>4, <1>5, <3>1, <3>2 DEF WorkerOK, RouteOK, CleanOK, SightOK
    <3> QED
      BY <3>1, <3>3, <3>4 DEF Stepped, WorkerOK
  <2> QED
    BY <1>1, <2>1, <2>2
<1> QED
  BY <1>1, <1>4, <1>6, StillSteps

LEMMA RecordsSafe ==
    ASSUME VideoAssumption, NoRivals, Bounds, Safe, NEW w \in Worker, Rest,
           JudgeRecovery(w) \/ Ack(w) \/ Drop(w) \/ JudgeCleanup(w) \/ Confirm(w)
    PROVE  Safe'
<1>1. /\ work[w].pc \in {"judge", "ack", "drop", "confirm"} /\ UNCHANGED <<lease, bucket>>
  BY DEF JudgeRecovery, Ack, Drop, JudgeCleanup, Confirm, Doing
<1>2. /\ Asset(w) \in 1..Len(assets) /\ Asset(w) = work[w].asset /\ TRUE \in BOOLEAN /\ assets[Asset(w)].known \in BOOLEAN
      /\ "ready" \in AssetState /\ "failed" \in AssetState /\ "deleted" \in AssetState /\ "deleting" \in AssetState
  <2>1. work[w].pc \in Handling
    BY <1>1 DEF Handling
  <2>2. Asset(w) \in 1..Len(assets) /\ Asset(w) = work[w].asset
    BY <2>1, Handles
  <2> QED
    BY <2>2, AssetTyped
<1>3. stored' = stored /\ work[w].job # "none" /\ work[w].pc \notin Finalizing
  BY <1>1, AtWork DEF bucket, RouteAt, Finalizing
<1>4. CASE Throw(w) /\ UNCHANGED document
  <2>1. Still
    BY <1>4, DocumentStill
  <2>2. RouteAt(work[w].job, work[w].for, "failed") /\ "failed" \in WorkPlace
    BY <1>3, AtWork DEF RouteAt, WorkPlace, Finalizing, Writing
  <2> QED
    BY <1>1, <1>3, <1>4, <2>1, <2>2, Checkpoints DEF Writing, Cleaning, Clearing
<1>5. ASSUME NEW state \in AssetState, NEW known \in BOOLEAN, SetAsset(Asset(w), state, known), Assets,
             state = "ready" /\ Alive => Asset(w) \in stored'
      PROVE  Still
  <2>1. SamePublication(project') /\ track' = track
    BY <1>5 DEF Assets, SamePublication
  <2> QED
    BY <1>2, <1>5, <2>1, AssetStill
<1>6. ASSUME NEW place \in {"finish", "start", "replace", "cover", "select", "coverTarget", "publish"},
             Still, Throw(w) \/ Jump(w, place), work[w].pc \in {"judge", "ack"}, RouteAt(work[w].job, work[w].for, place),
             work[w].job # "clean"
      PROVE  Safe'
  <2>1. place \in WorkPlace /\ place \notin {"claim", "deny", "judge", "ack"} /\ (place \in Writing => work[w].pc \in Writing)
    BY <1>6 DEF WorkPlace, Writing
  <2> QED
    BY <1>1, <1>3, <1>6, <2>1, Checkpoints
<1>7. ASSUME NEW place \in {"next", "erase"}, Still, Throw(w) \/ Jump(w, place), work[w].job = "clean",
             place = "erase" => work[w].pc = "judge"
      PROVE  Safe'
  <2>1. /\ place \in WorkPlace /\ place \notin {"claim", "deny", "judge", "ack"} /\ RouteAt("clean", work[w].for, place)
        /\ (place \in Cleaning => work[w].pc \in Cleaning)
    BY <1>7 DEF WorkPlace, RouteAt, Cleaning, Clearing
  <2> QED
    BY <1>1, <1>3, <1>7, <2>1, Checkpoints
<1>8. CASE JudgeRecovery(w) /\ ~(Throw(w) /\ UNCHANGED document)
  <2>1. work[w].pc = "judge" /\ work[w].job # "clean" /\ WorkerOK(w)
    BY <1>8 DEF JudgeRecovery, Doing, Safe
  <2>2. CASE work[w].found = "found"
    <3>1. SetAsset(Asset(w), "ready", TRUE) /\ Assets /\ (Throw(w) \/ Jump(w, Recovered(w)))
      BY <1>8, <2>2 DEF JudgeRecovery, Checkpoint
    <3>2. Alive => Asset(w) \in stored'
      BY <1>2, <1>3, <2>1, <2>2 DEF WorkerOK, SightOK
    <3>3. /\ Recovered(w) \in {"finish", "start", "replace", "cover", "select", "coverTarget", "publish"}
          /\ RouteAt(work[w].job, work[w].for, Recovered(w))
      BY <2>1, AtWork DEF RouteAt, Recovered, Onward, Writing, Finalizing
    <3> QED
      BY <1>2, <1>5, <1>6, <2>1, <3>1, <3>2, <3>3
  <2>3. CASE work[w].found # "found"
    <3>1. SetAsset(Asset(w), "failed", assets[Asset(w)].known) /\ Assets /\ (Throw(w) \/ Jump(w, Absent(w)))
      BY <1>8, <2>3 DEF JudgeRecovery, Checkpoint
    <3>2. /\ Absent(w) \in {"finish", "start", "replace", "cover", "select", "coverTarget", "publish"}
          /\ RouteAt(work[w].job, work[w].for, Absent(w))
      BY <2>1, AtWork DEF RouteAt, Absent, Writing, Finalizing
    <3> QED
      BY <1>2, <1>5, <1>6, <2>1, <3>1, <3>2
  <2> QED
    BY <2>2, <2>3
<1>9. CASE Ack(w) /\ ~(Throw(w) /\ UNCHANGED document)
  <2>1. /\ work[w].pc = "ack" /\ SetAsset(Asset(w), "ready", TRUE) /\ Assets /\ (Throw(w) \/ Jump(w, Onward(w)))
        /\ WorkerOK(w)
    BY <1>9 DEF Ack, Checkpoint, Doing, Safe
  <2>2. /\ Onward(w) \in {"finish", "start", "replace", "cover", "select", "coverTarget", "publish"}
        /\ RouteAt(work[w].job, work[w].for, Onward(w)) /\ work[w].job # "clean"
    BY <2>1, AtWork DEF RouteAt, Onward, Writing, Finalizing, Cleaning, Clearing
  <2>3. Alive => Asset(w) \in stored'
    BY <1>2, <1>3, <2>1 DEF WorkerOK, SightOK
  <2> QED
    BY <1>2, <1>5, <1>6, <2>1, <2>2, <2>3
<1>10. CASE Drop(w) /\ ~(Throw(w) /\ UNCHANGED document)
  <2>1. /\ work[w].pc = "drop" /\ SetAsset(Asset(w), "deleted", assets[Asset(w)].known) /\ Assets /\ (Throw(w) \/ Jump(w, "next"))
    BY <1>10 DEF Drop, Checkpoint, Doing
  <2>2. work[w].job = "clean"
    BY <2>1, AtWork DEF RouteAt, Writing, Finalizing, Cleaning, Clearing
  <2> QED
    BY <1>2, <1>5, <1>7, <2>1, <2>2
<1>11. CASE JudgeCleanup(w) /\ ~(Throw(w) /\ UNCHANGED document)
  <2>1. /\ work[w].pc = "judge" /\ work[w].job = "clean"
        /\ \/ SetAsset(Asset(w), "deleting", TRUE) /\ Assets /\ (Throw(w) \/ Jump(w, "erase"))
           \/ SetAsset(Asset(w), "deleted", assets[Asset(w)].known) /\ Assets /\ (Throw(w) \/ Jump(w, "next"))
    BY <1>11 DEF JudgeCleanup, Checkpoint, Doing
  <2> QED
    BY <1>2, <1>5, <1>7, <2>1
<1>12. CASE Confirm(w) /\ ~(Throw(w) /\ UNCHANGED document)
  <2>1. /\ work[w].pc = "confirm" /\ SetAsset(Asset(w), "deleted", TRUE) /\ Assets /\ (Throw(w) \/ Jump(w, "next"))
    BY <1>12 DEF Confirm, Checkpoint, Doing
  <2>2. work[w].job = "clean"
    BY <2>1, AtWork DEF RouteAt, Writing, Finalizing, Cleaning, Clearing
  <2> QED
    BY <1>2, <1>5, <1>7, <2>1, <2>2
<1> QED
  BY <1>4, <1>8, <1>9, <1>10, <1>11, <1>12

LEMMA SendsSafe ==
    ASSUME VideoAssumption, NoRivals, Bounds, Safe, NEW w \in Worker, Rest, Send(w) \/ Put(w) \/ Granted(w)
    PROVE  Safe'
<1>1. /\ work[w].pc \in {"send", "put", "grant"} /\ lease' = lease /\ stored \subseteq stored'
  BY DEF Send, Put, Granted, Doing, bucket
<1>2. /\ Asset(w) \in 1..Len(assets) /\ Asset(w) = work[w].asset
  <2>1. work[w].pc \in Handling
    BY <1>1 DEF Handling
  <2> QED
    BY <2>1, Handles
<1>3. /\ work[w].job \in {"publish", "process", "frame"} /\ work[w].pc \notin Finalizing /\ work[w].pc \in Writing
  BY <1>1, AtWork DEF RouteAt, Finalizing, Writing, Cleaning, Clearing
<1>4. Still
  <2>1. CASE UNCHANGED document
    BY <2>1, DocumentStill
  <2>2. CASE MarkSent(Asset(w)) /\ UNCHANGED <<project, track>>
    BY <1>2, <2>2, MarkStill DEF SamePublication
  <2> QED
    BY <2>1, <2>2 DEF Send, Put, Granted, Checkpoint
<1>5. CASE Throw(w)
  <2>1. RouteAt(work[w].job, work[w].for, "failed") /\ "failed" \in WorkPlace
    BY <1>3, AtWork DEF RouteAt, WorkPlace, Finalizing, Writing
  <2> QED
    BY <1>1, <1>3, <1>4, <1>5, <2>1, Checkpoints DEF Writing, Cleaning, Clearing
<1>6. CASE Send(w) /\ ~Throw(w)
  <2>1. Jump(w, "put") /\ work[w].pc = "send"
    BY <1>6 DEF Send, Checkpoint, Doing
  <2>2. RouteAt(work[w].job, work[w].for, "put") /\ "put" \in WorkPlace
    BY <1>3, <2>1, AtWork DEF RouteAt, WorkPlace, Finalizing, Writing
  <2> QED
    BY <1>1, <1>3, <1>4, <2>1, <2>2, Checkpoints
<1>7. CASE Put(w) /\ ~Throw(w)
  <2>1. Jump(w, "ack") /\ work[w].pc = "put" /\ work[w].asset \in stored'
    BY <1>2, <1>7 DEF Put, Doing
  <2>2. RouteAt(work[w].job, work[w].for, "ack") /\ "ack" \in WorkPlace
    BY <1>3, <2>1, AtWork DEF RouteAt, WorkPlace, Finalizing, Writing
  <2> QED
    BY <1>1, <1>3, <1>4, <2>1, <2>2, Checkpoints
<1>8. CASE Granted(w) /\ ~Throw(w)
  <2>1. Jump(w, "send") /\ work[w].pc = "grant"
    BY <1>8 DEF Granted, Checkpoint, Doing
  <2>2. RouteAt(work[w].job, work[w].for, "send") /\ "send" \in WorkPlace
    BY <1>3, <2>1, AtWork DEF RouteAt, WorkPlace, Finalizing, Writing
  <2> QED
    BY <1>1, <1>3, <1>4, <2>1, <2>2, Checkpoints
<1> QED
  BY <1>5, <1>6, <1>7, <1>8

LEMMA MovesSafe ==
    ASSUME VideoAssumption, NoRivals, Bounds, Safe, NEW w \in Worker, Rest, lease' = lease, stored \subseteq stored', Still,
           work[w].job \notin {"none", "clean"}, work[w].pc \notin Finalizing,
           \/ Throw(w)
           \/ \E place \in WorkPlace \ {"claim", "deny", "judge", "ack"} :
                 /\ RouteAt(work[w].job, work[w].for, place) /\ place \notin Writing
                 /\ Jump(w, place)
           \/ \E for \in {"none", "output", "cover", "target", "coverTarget"}, a \in Id, place \in WorkPlace :
                 /\ Take(w, for, a, place) /\ RouteAt(work[w].job, for, place) /\ place \notin {"claim", "deny", "judge", "ack"}
                 /\ work[w].job = "publish" /\ place \in Writing =>
                       a = IF for = "target" THEN project'.pub.target ELSE project'.pub.coverTarget
    PROVE  Safe'
<1>1. WorkerOK(w)
  BY DEF Safe
<1>2. Alive' = Alive /\ Published' = Published /\ SamePublication(project') /\ track' = track
  BY DEF Still, SamePublication, Alive, Published
<1>3. Stepped(w)
  <2>1. CASE Throw(w)
    BY <1>1, <1>2, <2>1, ThrowSteps
  <2>2. ASSUME NEW place \in WorkPlace \ {"claim", "deny", "judge", "ack"},
               RouteAt(work[w].job, work[w].for, place), place \notin Writing, Jump(w, place)
        PROVE  Stepped(w)
    BY <1>1, <1>2, <2>2, JumpSteps
  <2>3. ASSUME NEW for \in {"none", "output", "cover", "target", "coverTarget"}, NEW a \in Id, NEW place \in WorkPlace,
               Take(w, for, a, place), RouteAt(work[w].job, for, place), place \notin {"claim", "deny", "judge", "ack"},
               work[w].job = "publish" /\ place \in Writing =>
                  a = IF for = "target" THEN project'.pub.target ELSE project'.pub.coverTarget
        PROVE  Stepped(w)
    <3>1. Held(w)
      BY <1>1, <1>2, HeldStays
    <3> QED
      BY <1>1, <2>3, <3>1, TakeSteps
  <2> QED
    BY <2>1, <2>2, <2>3
<1> QED
  BY <1>3, StillSteps

LEMMA ObjectsNamed ==
    ASSUME Bounds
    PROVE  /\ project.source \in Id /\ project.output \in Id /\ project.pub.coverTarget \in Id /\ project.pub.target \in Id
           /\ project \in ProjectRow /\ "running" \in JobState /\ "ready" \in JobState
<1>1. project \in ProjectRow
  BY DEF Bounds, Typed, DocumentTyped
<1> QED
  BY <1>1 DEF ProjectRow, PublicationRow, JobState

LEMMA ProcessSafe ==
    ASSUME VideoAssumption, NoRivals, Bounds, Safe, NEW w \in Worker, Rest,
           BeginProcess(w) \/ Start(w) \/ Decode(w) \/ FinishJob(w) \/ CopyCover(w)
    PROVE  Safe'
<1>1. /\ work[w].pc \in {"process", "start", "decode", "finish", "coverTarget"} /\ UNCHANGED <<lease, bucket>>
  BY DEF BeginProcess, Start, Decode, FinishJob, CopyCover, Doing
<1>2. /\ work[w].job \in {"publish", "process", "frame"} /\ work[w].pc \notin Finalizing /\ stored \subseteq stored'
  BY <1>1, AtWork DEF RouteAt, Finalizing, Cleaning, Clearing, bucket
<1>3. Still
  <2>1. CASE UNCHANGED document
    BY <2>1, DocumentStill
  <2>2. ASSUME NEW state \in JobState,
               Project([project EXCEPT !.proc = state]) \/ Project([project EXCEPT !.frame.state = state])
        PROVE  Still
    <3>1. SamePublication(project')
      BY <2>2, Limits, Elsewhere DEF Project
    <3> QED
      BY <2>2, <3>1, ProjectStill DEF Project
  <2> QED
    BY <2>1, <2>2, ObjectsNamed DEF BeginProcess, Start, Decode, FinishJob, CopyCover, Checkpoint
<1>4. CASE Throw(w)
  BY <1>1, <1>2, <1>3, <1>4, MovesSafe
<1>5. CASE BeginProcess(w) /\ ~Throw(w)
  <2>1. /\ work[w].pc = "process"
        /\ Take(w, "output", project.output, "recover") \/ Jump(w, "start")
    BY <1>5 DEF BeginProcess, Doing
  <2>2. /\ work[w].job = "process" /\ RouteAt("process", "output", "recover") /\ RouteAt("process", work[w].for, "start")
        /\ "recover" \in WorkPlace /\ "start" \in WorkPlace /\ "start" \notin Writing
    BY <2>1, AtWork DEF RouteAt, WorkPlace, Finalizing, Writing, Cleaning, Clearing
  <2> QED
    BY <1>1, <1>2, <1>3, <2>1, <2>2, ObjectsNamed, MovesSafe
<1>6. CASE Start(w) /\ ~Throw(w)
  <2>1. work[w].pc = "start" /\ Take(w, "output", 0, "decode")
    BY <1>6 DEF Start, Checkpoint, Doing
  <2>2. /\ work[w].job = "process" /\ RouteAt("process", "output", "decode") /\ "decode" \in WorkPlace /\ 0 \in Id
    BY <2>1, AtWork, Limits DEF RouteAt, WorkPlace, Finalizing, Writing, Cleaning, Clearing
  <2> QED
    BY <1>1, <1>2, <1>3, <2>1, <2>2, MovesSafe
<1>7. CASE Decode(w) /\ ~Throw(w)
  <2> DEFINE place == IF work[w].job = "frame" THEN "cover" ELSE "stage"
  <2>1. work[w].pc = "decode" /\ Jump(w, place)
    BY <1>7 DEF Decode, Doing
  <2>2. /\ RouteAt(work[w].job, work[w].for, place) /\ place \in WorkPlace \ {"claim", "deny", "judge", "ack"} /\ place \notin Writing
    BY <2>1, AtWork DEF RouteAt, WorkPlace, Finalizing, Writing, Cleaning, Clearing
  <2> HIDE DEF place
  <2> QED
    BY <1>1, <1>2, <1>3, <2>1, <2>2, MovesSafe
<1>8. CASE FinishJob(w) /\ ~Throw(w)
  <2>1. work[w].pc = "finish" /\ Jump(w, "release")
    BY <1>8 DEF FinishJob, Checkpoint, Doing
  <2>2. /\ RouteAt(work[w].job, work[w].for, "release") /\ "release" \in WorkPlace /\ "release" \notin Writing
    BY <2>1, AtWork DEF RouteAt, WorkPlace, Finalizing, Writing, Cleaning, Clearing
  <2> QED
    BY <1>1, <1>2, <1>3, <2>1, <2>2, MovesSafe
<1>9. CASE CopyCover(w) /\ ~Throw(w)
  <2>1. /\ work[w].pc = "coverTarget" /\ UNCHANGED project
        /\ Take(w, "coverTarget", 0, "publish") \/ Take(w, "coverTarget", project.pub.coverTarget, "recover")
    BY <1>9 DEF CopyCover, Doing, document
  <2>2. /\ work[w].job = "publish" /\ RouteAt("publish", "coverTarget", "publish") /\ RouteAt("publish", "coverTarget", "recover")
        /\ "publish" \in WorkPlace /\ "recover" \in WorkPlace /\ 0 \in Id /\ "publish" \notin Writing
    BY <2>1, AtWork, Limits DEF RouteAt, WorkPlace, Finalizing, Writing, Cleaning, Clearing
  <2>3. CASE Take(w, "coverTarget", 0, "publish")
    BY <1>1, <1>2, <1>3, <2>2, <2>3, MovesSafe
  <2>4. CASE Take(w, "coverTarget", project.pub.coverTarget, "recover")
    <3>1. project'.pub.coverTarget = project.pub.coverTarget /\ project.pub.coverTarget \in Id
      BY <2>1, ObjectsNamed
    <3> QED
      BY <1>1, <1>2, <1>3, <2>2, <2>4, <3>1, MovesSafe
  <2> QED
    BY <2>1, <2>3, <2>4
<1> QED
  BY <1>4, <1>5, <1>6, <1>7, <1>8, <1>9

(* A checkpoint that names an object or points elsewhere.                  *)
LEMMA StageSafe ==
    ASSUME VideoAssumption, NoRivals, Bounds, Safe, NEW w \in Worker, Rest, Stage(w)
    PROVE  Safe'
<1> DEFINE a == Len(assets) + 1
           yes == TRUE
           e == NewAsset("output", a, None, 0)
<1>1. /\ work[w].pc = "stage" /\ UNCHANGED <<lease, bucket>>
  BY DEF Stage, Doing
<1>2. /\ work[w].job = "process" /\ work[w].pc \notin Finalizing /\ stored \subseteq stored'
      /\ RouteAt("process", "output", "cover") /\ RouteAt("process", "output", "send")
      /\ "cover" \in WorkPlace /\ "send" \in WorkPlace
  BY <1>1, AtWork DEF RouteAt, Finalizing, Cleaning, Clearing, Writing, bucket, WorkPlace
<1>3. \/ /\ UNCHANGED document \/ Project([project EXCEPT !.facts = yes, !.output = project.source])
         /\ Throw(w) \/ Take(w, "output", project.source, "cover")
      \/ /\ a <= MaxAssets /\ assets' = Append(assets, e) /\ project' = [project EXCEPT !.facts = yes, !.output = a]
         /\ UNCHANGED track
         /\ Throw(w) \/ Take(w, "output", a, "send")
      \/ UNCHANGED document /\ Throw(w)
  BY <1>1 DEF Stage, Checkpoint
<1> HIDE DEF yes
<1>4. CASE UNCHANGED document /\ Throw(w)
  BY <1>1, <1>2, <1>4, DocumentStill, MovesSafe
<1>5. CASE /\ UNCHANGED document \/ Project([project EXCEPT !.facts = yes, !.output = project.source])
           /\ Throw(w) \/ Take(w, "output", project.source, "cover")
  <2>1. Still
    <3>1. CASE UNCHANGED document
      BY <3>1, DocumentStill
    <3>2. CASE Project([project EXCEPT !.facts = yes, !.output = project.source])
      <4>1. SamePublication(project')
        BY <3>2, ObjectsNamed, Elsewhere DEF Project
      <4> QED
        BY <3>2, <4>1, ProjectStill DEF Project
    <3> QED
      BY <1>5, <3>1, <3>2
  <2> QED
    BY <1>1, <1>2, <1>5, <2>1, ObjectsNamed, MovesSafe
<1>6. CASE /\ a <= MaxAssets /\ assets' = Append(assets, e) /\ project' = [project EXCEPT !.facts = yes, !.output = a]
           /\ UNCHANGED track
           /\ Throw(w) \/ Take(w, "output", a, "send")
  <2>1. a \in Id
    BY <1>6, NamesGrow, Limits DEF Id
  <2>2. e \in AssetRow /\ e.by = None /\ e.state = "pending"
    BY <2>1, Limits, NewAssets
  <2>3. SamePublication(project')
    BY <1>6, <2>1, ObjectsNamed, Elsewhere
  <2> HIDE DEF e
  <2>4. Still
    BY <1>6, <2>2, <2>3, AppendStill
  <2> QED
    BY <1>1, <1>2, <1>6, <2>1, <2>4, MovesSafe
<1> QED
  BY <1>3, <1>4, <1>5, <1>6

LEMMA AddCoverSafe ==
    ASSUME VideoAssumption, NoRivals, Bounds, Safe, NEW w \in Worker, Rest, AddCover(w)
    PROVE  Safe'
<1> DEFINE a == Len(assets) + 1
           no == FALSE
           p == [project EXCEPT !.cleaned = no]
           e == NewAsset("cover", a, None, work[w].ask)
<1>1. /\ work[w].pc = "cover" /\ UNCHANGED <<lease, bucket>>
  BY DEF AddCover, Doing
<1>2. /\ work[w].job \in {"process", "frame"} /\ work[w].pc \notin Finalizing /\ stored \subseteq stored'
      /\ RouteAt(work[w].job, "cover", "send") /\ (work[w].job = "process" => RouteAt(work[w].job, work[w].for, "finish"))
      /\ "finish" \in WorkPlace /\ "send" \in WorkPlace /\ "finish" \notin Writing
  BY <1>1, AtWork DEF RouteAt, Finalizing, Cleaning, Clearing, Writing, bucket, WorkPlace
<1>3. \/ UNCHANGED document /\ (Throw(w) \/ (Jump(w, "finish") /\ work[w].job = "process"))
      \/ /\ a <= MaxAssets /\ assets' = Append(assets, e)
         /\ project' = (IF work[w].job = "process" THEN [p EXCEPT !.auto = a] ELSE p)
         /\ UNCHANGED track
         /\ Throw(w) \/ Take(w, "cover", a, "send")
  BY DEF AddCover, Checkpoint
<1>4. CASE UNCHANGED document /\ (Throw(w) \/ (Jump(w, "finish") /\ work[w].job = "process"))
  BY <1>1, <1>2, <1>4, DocumentStill, MovesSafe
<1>5. CASE /\ a <= MaxAssets /\ assets' = Append(assets, e)
           /\ project' = (IF work[w].job = "process" THEN [p EXCEPT !.auto = a] ELSE p)
           /\ UNCHANGED track
           /\ Throw(w) \/ Take(w, "cover", a, "send")
  <2>1. a \in Id
    BY <1>5, NamesGrow, Limits DEF Id
  <2>2. e \in AssetRow /\ e.by = None /\ e.state = "pending"
    <3>1. work[w].ask \in 0..MaxCommands
      BY DEF Bounds, Typed, WorkRow
    <3> QED
      BY <2>1, <3>1, NewAssets
  <2>3. SamePublication(project')
    <3>1. SamePublication(p) /\ SamePublication([p EXCEPT !.auto = a])
      BY <2>1, ObjectsNamed, Elsewhere
    <3> HIDE DEF p
    <3> QED
      BY <1>5, <3>1
  <2> HIDE DEF e, p
  <2>4. Still
    BY <1>5, <2>2, <2>3, AppendStill
  <2> QED
    BY <1>1, <1>2, <1>5, <2>1, <2>4, MovesSafe
<1> QED
  BY <1>3, <1>4, <1>5

LEMMA SelectCoverSafe ==
    ASSUME VideoAssumption, NoRivals, Bounds, Safe, NEW w \in Worker, Rest, SelectCover(w)
    PROVE  Safe'
<1>1. /\ work[w].pc = "select" /\ UNCHANGED <<lease, bucket>>
      /\ Throw(w) \/ Jump(w, "finish")
      /\ \/ /\ \/ Select(project, Asset(w), work[w].rev, work[w].ask)
               \/ project' = [project EXCEPT !.auto = Asset(w)]
            /\ UNCHANGED <<assets, track>>
         \/ UNCHANGED document
  BY DEF SelectCover, Checkpoint, Doing
<1>2. /\ work[w].job \in {"process", "frame"} /\ work[w].pc \notin Finalizing /\ stored \subseteq stored'
      /\ RouteAt(work[w].job, work[w].for, "finish") /\ "finish" \in WorkPlace /\ "finish" \notin Writing
      /\ Asset(w) \in Id
  BY <1>1, AtWork DEF RouteAt, Finalizing, Cleaning, Clearing, Writing, bucket, WorkPlace, Asset
<1>3. Still
  <2>1. CASE UNCHANGED document
    BY <2>1, DocumentStill
  <2>2. CASE Select(project, Asset(w), work[w].rev, work[w].ask) /\ UNCHANGED <<assets, track>>
    <3>1. SamePublication(project)
      BY DEF SamePublication
    <3>2. SamePublication(project')
      BY <2>2, <3>1, ObjectsNamed, SelectElsewhere
    <3> QED
      BY <2>2, <3>2, ProjectStill
  <2>3. CASE project' = [project EXCEPT !.auto = Asset(w)] /\ UNCHANGED <<assets, track>>
    <3>1. SamePublication(project')
      BY <1>2, <2>3, ObjectsNamed, Elsewhere
    <3> QED
      BY <2>3, <3>1, ProjectStill
  <2> QED
    BY <1>1, <2>1, <2>2, <2>3
<1> QED
  BY <1>1, <1>2, <1>3, MovesSafe

LEMMA FrameBeginsSafe ==
    ASSUME VideoAssumption, NoRivals, Bounds, Safe, NEW w \in Worker, Rest, BeginFrame(w)
    PROVE  Safe'
<1> DEFINE d == [work[w] EXCEPT !.for = "cover", !.pc = "decode", !.rev = project.frame.rev, !.ask = project.frame.ask]
<1>1. /\ work[w].pc = "frame" /\ UNCHANGED <<lease, bucket>> /\ work \in [Worker -> WorkRow]
      /\ Throw(w) \/ work' = [work EXCEPT ![w] = d]
      /\ UNCHANGED document \/ Project([project EXCEPT !.frame.state = "running"])
  BY DEF BeginFrame, Checkpoint, Doing, Bounds, Typed
<1>2. work[w].job = "frame" /\ work[w].pc \notin Finalizing /\ stored \subseteq stored' /\ WorkerOK(w)
  BY <1>1, AtWork DEF RouteAt, Finalizing, Cleaning, Clearing, Writing, bucket
<1>3. Still
  <2>1. CASE UNCHANGED document
    BY <2>1, DocumentStill
  <2>2. CASE Project([project EXCEPT !.frame.state = "running"])
    <3>1. SamePublication(project')
      BY <2>2, ObjectsNamed, Limits, Elsewhere DEF Project
    <3> QED
      BY <2>2, <3>1, ProjectStill DEF Project
  <2> QED
    BY <1>1, <2>1, <2>2
<1>4. CASE Throw(w)
  BY <1>1, <1>2, <1>3, <1>4, MovesSafe
<1>5. CASE work' = [work EXCEPT ![w] = d]
  <2>1. d.pc = "decode" /\ d.job = "frame" /\ d.for = "cover"
    BY <1>1, <1>2 DEF WorkRow
  <2> HIDE DEF d
  <2>2. work'[w] = d /\ Others(w)
    BY <1>1, <1>5 DEF Others, Alike, SameJob, SameObject
  <2>3. Held(w)
    BY <1>2, <1>3, HeldStays DEF Still
  <2>4. WorkerOK(w)'
    BY <1>1, <1>2, <2>1, <2>2, <2>3 DEF WorkerOK, RouteOK, RouteAt, HoldOK, Held, Holds, LeaseLive, CleanOK, SightOK, Finalizing
  <2> QED
    BY <1>1, <1>2, <1>3, <2>1, <2>2, <2>4, StillSteps DEF Stepped
<1> QED
  BY <1>1, <1>4, <1>5

-----------------------------------------------------------------------------
(* The cleanup.                                                            *)

(* What a cleanup finds to do is nothing that is published.                *)
LEMMA KeepsPublished ==
    ASSUME PublicationOK, ~Alive, NEW a \in 1..Len(assets), ~Kept(a)
    PROVE  a \notin Published
  BY DEF PublicationOK, Alive, Kept, Published, NoTrack

LEMMA SweepSafe ==
    ASSUME VideoAssumption, NoRivals, Bounds, Safe, NEW w \in Worker, Rest, Sweep(w)
    PROVE  Safe'
<1> DEFINE todo == {[id |-> a, sent |-> assets[a].sent, known |-> assets[a].known] : a \in {b \in 1..Len(assets) : ~Kept(b)}}
           pending == \E r \in Request : Receiving(r) /\ ingress[r].live
           d == [work[w] EXCEPT !.pc = "next", !.todo = todo, !.pending = pending]
<1>1. /\ work[w].pc = "clean" /\ UNCHANGED <<lease, bucket>> /\ work \in [Worker -> WorkRow]
      /\ Throw(w) \/ work' = [work EXCEPT ![w] = d]
      /\ UNCHANGED document \/ UNCHANGED <<project, assets, track>>
  BY DEF Sweep, Checkpoint, Doing, Bounds, Typed
<1>2. work[w].job = "clean" /\ work[w].pc \notin Finalizing /\ stored \subseteq stored' /\ WorkerOK(w)
  BY <1>1, AtWork DEF RouteAt, Finalizing, Cleaning, Clearing, Writing, bucket
<1>3. UNCHANGED <<project, assets, track>>
  BY <1>1 DEF document
<1>4. Still
  BY <1>3, ProjectStill DEF SamePublication
<1>5. RouteAt("clean", work[w].for, "failed") /\ "failed" \in WorkPlace
  BY DEF RouteAt, WorkPlace, Finalizing
<1>6. CASE Throw(w)
  BY <1>1, <1>2, <1>4, <1>5, <1>6, Checkpoints DEF Cleaning, Clearing
<1>7. CASE work' = [work EXCEPT ![w] = d]
  <2>1. d.pc = "next" /\ d.job = "clean" /\ d.todo = todo
    BY <1>1, <1>2 DEF WorkRow
  <2>2. \A x \in todo : x.id \notin Published
    <3>1. ASSUME NEW a \in 1..Len(assets), ~Kept(a) PROVE a \notin Published
      BY <1>2, <3>1, KeepsPublished DEF Safe, WorkerOK, CleanOK
    <3> QED
      BY <3>1
  <2> HIDE DEF d, todo, pending
  <2>3. work'[w] = d /\ Others(w)
    BY <1>1, <1>7 DEF Others, Alike, SameJob, SameObject
  <2>4. Published' = Published /\ Alive' = Alive
    BY <1>3 DEF Published, Alive
  <2>5. WorkerOK(w)'
    BY <1>2, <2>1, <2>2, <2>3, <2>4 DEF WorkerOK, RouteOK, RouteAt, HoldOK, Holds, CleanOK, SightOK, Cleaning, Clearing
  <2> QED
    BY <1>1, <1>2, <1>4, <2>1, <2>3, <2>5, StillSteps DEF Stepped
<1> QED
  BY <1>1, <1>6, <1>7

LEMMA PickSafe ==
    ASSUME VideoAssumption, NoRivals, Bounds, Safe, NEW w \in Worker, Rest, PickAsset(w)
    PROVE  Safe'
<1>1. /\ work[w].pc = "next" /\ UNCHANGED <<document, lease, bucket>> /\ work \in [Worker -> WorkRow]
  BY DEF PickAsset, Doing, Bounds, Typed
<1>2. PICK x \in work[w].todo :
          work' = [work EXCEPT ![w].todo = @ \ {x}, ![w].asset = x.id, ![w].known = x.known,
                               ![w].pc = IF x.sent THEN "head" ELSE "drop"]
  BY DEF PickAsset
<1> DEFINE rest == work[w].todo \ {x}
           place == IF x.sent THEN "head" ELSE "drop"
           d == [work[w] EXCEPT !.todo = rest, !.asset = x.id, !.known = x.known, !.pc = place]
<1>3. work[w].job = "clean" /\ work[w].pc \notin Finalizing /\ stored \subseteq stored' /\ WorkerOK(w)
  BY <1>1, AtWork DEF RouteAt, Finalizing, Cleaning, Clearing, Writing, bucket
<1>4. place \in {"head", "drop"} /\ rest \subseteq work[w].todo
  OBVIOUS
<1>5. work' = [work EXCEPT ![w] = d]
  BY <1>1, <1>2
<1> HIDE DEF place, rest
<1>6. d.pc = place /\ d.job = "clean" /\ d.todo = rest /\ d.asset = x.id
  BY <1>1, <1>3 DEF WorkRow
<1> HIDE DEF d
<1>7. work'[w] = d /\ Others(w)
  BY <1>1, <1>5 DEF Others, Alike, SameJob, SameObject
<1>8. Published' = Published /\ Alive' = Alive
  BY <1>1 DEF Published, Alive, document
<1>9. WorkerOK(w)'
  BY <1>3, <1>4, <1>6, <1>7, <1>8 DEF WorkerOK, RouteOK, RouteAt, HoldOK, Holds, CleanOK, SightOK, Cleaning, Clearing
<1>10. Stepped(w)
  BY <1>4, <1>6, <1>7, <1>9 DEF Stepped
<1> QED
  BY <1>1, <1>3, <1>10, DocumentStill, StillSteps

LEMMA CleanEndSafe ==
    ASSUME VideoAssumption, NoRivals, Bounds, Safe, NEW w \in Worker, Rest, CleanEnd(w)
    PROVE  Safe'
<1> DEFINE u == ~Uncleaned(w)
           v == Uncleaned(w)
<1>1. /\ work[w].pc = "next" /\ UNCHANGED <<lease, bucket>>
      /\ Throw(w) \/ Jump(w, "release")
      /\ UNCHANGED document \/ Project([project EXCEPT !.cleaned = u, !.pub.pending = v])
  BY DEF CleanEnd, Checkpoint, Doing
<1> HIDE DEF u, v
<1>2. /\ work[w].job = "clean" /\ work[w].pc \notin Finalizing /\ stored \subseteq stored'
      /\ RouteAt("clean", work[w].for, "release") /\ "release" \in WorkPlace /\ "release" \notin Cleaning
  BY <1>1, AtWork DEF RouteAt, Finalizing, Cleaning, Clearing, Writing, bucket, WorkPlace
<1>3. Still
  <2>1. CASE UNCHANGED document
    BY <2>1, DocumentStill
  <2>2. CASE Project([project EXCEPT !.cleaned = u, !.pub.pending = v])
    <3>1. SamePublication(project')
      BY <2>2, ObjectsNamed, Limits, Elsewhere DEF Project
    <3> QED
      BY <2>2, <3>1, ProjectStill DEF Project
  <2> QED
    BY <1>1, <2>1, <2>2
<1> QED
  BY <1>1, <1>2, <1>3, Checkpoints

LEMMA CleanFailSafe ==
    ASSUME VideoAssumption, NoRivals, Bounds, Safe, NEW w \in Worker, Rest, CleanFail(w)
    PROVE  Safe'
<1> DEFINE yes == TRUE
           d == [work[w] EXCEPT !.pc = "next", !.pending = yes]
<1>1. /\ work[w].pc = "cleanFail" /\ UNCHANGED <<lease, bucket>> /\ work \in [Worker -> WorkRow]
      /\ Throw(w) \/ work' = [work EXCEPT ![w].pc = "next", ![w].pending = yes]
      /\ UNCHANGED document \/ (SetAsset(Asset(w), "cleanupFailed", assets[Asset(w)].known) /\ Assets)
  BY DEF CleanFail, Checkpoint, Doing, Bounds, Typed
<1>2. /\ work[w].job = "clean" /\ work[w].pc \notin Finalizing /\ stored \subseteq stored' /\ WorkerOK(w)
      /\ RouteAt("clean", work[w].for, "failed") /\ "failed" \in WorkPlace
  BY <1>1, AtWork DEF RouteAt, Finalizing, Cleaning, Clearing, Writing, bucket, WorkPlace
<1>3. Still
  <2>1. CASE UNCHANGED document
    BY <2>1, DocumentStill
  <2>2. CASE SetAsset(Asset(w), "cleanupFailed", assets[Asset(w)].known) /\ Assets
    <3>1. Asset(w) \in 1..Len(assets) /\ assets[Asset(w)].known \in BOOLEAN /\ "cleanupFailed" \in AssetState
      BY <1>1, Handles, AssetTyped DEF Handling
    <3>2. SamePublication(project') /\ track' = track
      BY <2>2 DEF Assets, SamePublication
    <3> QED
      BY <2>2, <3>1, <3>2, AssetStill
  <2> QED
    BY <1>1, <2>1, <2>2
<1>4. CASE Throw(w)
  BY <1>1, <1>2, <1>3, <1>4, Checkpoints DEF Cleaning, Clearing
<1>5. CASE work' = [work EXCEPT ![w].pc = "next", ![w].pending = yes]
  <2>1. work' = [work EXCEPT ![w] = d]
    BY <1>1, <1>5
  <2> HIDE DEF yes
  <2>2. d.pc = "next" /\ d.job = "clean" /\ d.todo = work[w].todo
    BY <1>1, <1>2 DEF WorkRow
  <2> HIDE DEF d
  <2>3. work'[w] = d /\ Others(w)
    BY <1>1, <2>1 DEF Others, Alike, SameJob, SameObject
  <2>4. Published' = Published /\ Alive' = Alive
    BY <1>3 DEF Published, Alive, Still, SamePublication
  <2>5. WorkerOK(w)'
    BY <1>2, <2>2, <2>3, <2>4 DEF WorkerOK, RouteOK, RouteAt, HoldOK, Holds, CleanOK, SightOK, Cleaning, Clearing
  <2> QED
    BY <1>1, <1>2, <1>3, <2>2, <2>3, <2>5, StillSteps DEF Stepped
<1> QED
  BY <1>1, <1>4, <1>5

(* The one step that takes bytes away.                                     *)
LEMMA EraseSafe ==
    ASSUME VideoAssumption, NoRivals, Bounds, Safe, NEW w \in Worker, Rest, Erase(w)
    PROVE  Safe'
<1>1. /\ work[w].pc = "erase" /\ UNCHANGED <<document, lease>> /\ stored' \in {stored, stored \ {work[w].asset}}
      /\ Throw(w) \/ Jump(w, "confirm")
  BY DEF Erase, Doing, Asset
<1>2. /\ work[w].job = "clean" /\ work[w].pc \notin Finalizing /\ WorkerOK(w) /\ work[w].pc \in Cleaning
      /\ RouteAt("clean", work[w].for, "confirm") /\ "confirm" \in WorkPlace /\ "confirm" \notin {"claim", "deny", "judge", "ack"}
  BY <1>1, AtWork DEF RouteAt, Finalizing, Cleaning, Clearing, Writing, WorkPlace
<1>3. ~Alive /\ work[w].asset \notin Published
  BY <1>2 DEF WorkerOK, CleanOK
<1>4. SamePublication(project') /\ track' = track /\ Grows /\ Added
  BY <1>1, DocumentStill DEF Still
<1>5. PublicationOK' /\ Alive' = Alive /\ Published' = Published
  BY <1>4, PublicationStays DEF Safe
<1>6. StoreOK'
  BY <1>1, <1>3, <1>5 DEF Safe, StoreOK
<1>7. Stepped(w)
  <2>1. CASE Throw(w)
    BY <1>1, <1>2, <1>4, <1>5, <2>1, ThrowSteps
  <2>2. CASE Jump(w, "confirm")
    BY <1>1, <1>2, <1>4, <2>2, JumpSteps
  <2> QED
    BY <1>1, <2>1, <2>2
<1> QED
  BY <1>1, <1>3, <1>4, <1>5, <1>6, <1>7, WorkerSteps

-----------------------------------------------------------------------------
(* Claims and their ends.                                                  *)

LEMMA ClaimSteps ==
    ASSUME VideoAssumption, Bounds, Safe, NEW w \in Worker, Others(w), WorkerOK(w)', RolesOK', UNCHANGED calls, Grows, Added,
           PublicationOK', StoreOK', Alive' => Alive, stored \subseteq stored', Published' = Published,
           \A q \in Worker : q # w /\ lease'.owner = q /\ LeaseLive' =>
              lease.owner = q /\ LeaseLive /\ SamePublication(project')
    PROVE  Safe'
<1>1. ASSUME NEW q \in Worker PROVE WorkerOK(q)'
  <2>1. CASE q = w
    BY <2>1
  <2>2. CASE q # w
    BY <2>2, Bystands DEF Others, Safe
  <2> QED
    BY <2>1, <2>2
<1>2. CallsOK'
  BY CallsStay DEF Safe
<1> QED
  BY <1>1, <1>2 DEF Safe

LEMMA LeaseSteps ==
    ASSUME VideoAssumption, Bounds, Safe, NEW w \in Worker, Others(w), WorkerOK(w)', RolesOK', Rest, UNCHANGED document,
           stored' = stored,
           \A q \in Worker : q # w /\ lease'.owner = q /\ LeaseLive' => lease.owner = q /\ LeaseLive
    PROVE  Safe'
<1>1. Still
  BY DocumentStill
<1>2. PublicationOK' /\ Alive' = Alive /\ Published' = Published
  BY <1>1, PublicationStays DEF Safe, Still
<1>3. StoreOK'
  BY <1>1, <1>2, StoreStays DEF Safe, Still
<1> QED
  BY <1>1, <1>2, <1>3, ClaimSteps DEF Still, Rest

(* Nobody who is about to refuse a claim appears.                          *)
LEMMA RolesStay ==
    ASSUME NoRivals, RolesOK, NEW w \in Worker, Others(w), Rest, project'.pub.state = project.pub.state,
           work'[w].pc \notin {"claim", "deny"} \/ (Seeing(w)' => Seeing(w)),
           work'[w].pc # "deny" \/ "revoke" \in Asks
    PROVE  RolesOK'
  BY DEF RolesOK, NoRivals, Seeing, Others, Alike, Rest

LEMMA ReleaseSafe ==
    ASSUME VideoAssumption, NoRivals, Bounds, Safe, NEW w \in Worker, Rest, Release(w) \/ Crash(w)
    PROVE  Safe'
<1>1. /\ work' = [work EXCEPT ![w] = Idle] /\ UNCHANGED document /\ stored' = stored
      /\ lease' = lease \/ lease'.owner = None
  BY DEF Release, Crash, bucket
<1>2. Stepped(w)
  BY <1>1, IdleSteps
<1>3. project' = project
  BY <1>1 DEF document
<1>4. RolesOK'
  BY <1>2, <1>3, RolesStay DEF Stepped, Safe
<1>5. \A q \in Worker : lease'.owner = q /\ LeaseLive' => lease.owner = q /\ LeaseLive
  BY <1>1 DEF VideoAssumption, LeaseLive
<1> QED
  BY <1>1, <1>2, <1>4, <1>5, LeaseSteps DEF Stepped

LEMMA PollSafe ==
    ASSUME VideoAssumption, NoRivals, Bounds, Safe, NEW w \in Worker, Rest, Poll(w)
    PROVE  Safe'
<1> DEFINE sight == [until |-> lease.until, proc |-> project.proc, frame |-> project.frame.state, pub |-> project.pub.state]
           d == [Idle EXCEPT !.pc = "claim", !.seen = sight]
<1>1. sight \in Sight /\ sight.pub = project.pub.state
  BY DEF Bounds, Typed, DocumentTyped, ProjectRow, FrameRow, PublicationRow, Sight
<1>2. Idle \in WorkRow
  BY IdleTyped
<1> HIDE DEF sight
<1>3. /\ d.pc = "claim" /\ d.job = "none" /\ d.seen.pub = project.pub.state
  BY <1>1, <1>2, IdleTyped DEF WorkRow
<1>4. work' = [work EXCEPT ![w] = d] /\ UNCHANGED <<document, lease, bucket>>
  BY DEF Poll, sight
<1> HIDE DEF d
<1>5. work \in [Worker -> WorkRow] /\ project' = project
  BY <1>4 DEF Bounds, Typed, document
<1>6. work'[w] = d /\ Others(w)
  BY <1>4, <1>5 DEF Others, Alike, SameJob, SameObject
<1>7. WorkerOK(w)'
  BY <1>3, <1>6 DEF WorkerOK, RouteOK, RouteAt, HoldOK, Holds, CleanOK, SightOK
<1>8. RolesOK'
  BY <1>3, <1>5, <1>6 DEF Safe, RolesOK, NoRivals, Seeing, Active, Others, Alike, Rest
<1> QED
  BY <1>4, <1>6, <1>7, <1>8, LeaseSteps DEF bucket, LeaseLive

LEMMA ClaimSafe ==
    ASSUME VideoAssumption, NoRivals, Bounds, Safe, NEW w \in Worker, Rest, Claim(w)
    PROVE  Safe'
<1>1. UNCHANGED <<document, bucket>> /\ work[w].pc = "claim" /\ work \in [Worker -> WorkRow] /\ WorkerOK(w)
  BY DEF Claim, Doing, Bounds, Typed, Safe
<1>2. stored' = stored /\ project' = project /\ work[w].job = "none"
  BY <1>1, AtWork DEF bucket, document, RouteAt, Writing, Finalizing, Cleaning, Clearing
<1>3. CASE Jump(w, "deny") /\ UNCHANGED lease /\ ~admin
  <2>1. /\ Others(w) /\ work'[w].pc = "deny" /\ SameJob(work'[w], work[w]) /\ "deny" \in WorkPlace
    BY <1>1, <1>3, Jumps DEF WorkPlace
  <2>2. work'[w].job = "none" /\ work'[w].seen.pub = work[w].seen.pub
    BY <1>2, <2>1 DEF SameJob
  <2>3. WorkerOK(w)'
    BY <2>1, <2>2 DEF WorkerOK, RouteOK, RouteAt, HoldOK, Holds, CleanOK, SightOK
  <2>4. RolesOK'
    BY <1>1, <1>2, <1>3, <2>1, <2>2, RolesStay DEF Safe, RolesOK, Seeing
  <2> QED
    BY <1>1, <1>2, <1>3, <2>1, <2>3, <2>4, LeaseSteps DEF LeaseLive
<1>4. CASE work' = [work EXCEPT ![w] = Idle] /\ UNCHANGED lease
  <2>1. Stepped(w)
    BY <1>4, IdleSteps
  <2>2. RolesOK'
    BY <1>2, <2>1, RolesStay DEF Stepped, Safe
  <2> QED
    BY <1>1, <1>2, <1>4, <2>1, <2>2, LeaseSteps DEF Stepped, LeaseLive
<1>5. CASE ~(~admin /\ Jump(w, "deny")) /\ ~(work' = [work EXCEPT ![w] = Idle] /\ UNCHANGED lease)
  <2> DEFINE d == [Idle EXCEPT !.job = Job, !.pc = IF Job = "none" THEN "release" ELSE Job]
  <2>1. /\ lease' = [owner |-> w, until |-> "live"]
        /\ work' = [q \in Worker |-> IF q # w THEN Renewed(work[q]) ELSE d]
    BY <1>5 DEF Claim
  <2>2. /\ Job \in {"none", "clean", "publish", "process", "frame"} /\ (Job = "clean" <=> ~Alive)
        /\ Job = "publish" => project.pub.state \in {"queued", "running"}
    BY DEF Job, Alive, Active
  <2>3. d \in WorkRow /\ d.asset = 0 /\ d.todo = {} /\ d.rev = 0 /\ d.ask = 0 /\ d.pc \notin Handling
    BY <2>2, IdleTyped DEF WorkRow, WorkPlace, Handling
  <2>4. d.job = Job /\ d.pc = (IF Job = "none" THEN "release" ELSE Job) /\ d.for = "none"
    BY <2>2, IdleTyped DEF WorkRow
  <2> HIDE DEF d
  <2>5. work' = [q \in Worker |-> IF q = w THEN d ELSE Renewed(work[q])]
    BY <2>1
  <2>6. Others(w) /\ work'[w] = d
    BY <1>1, <2>3, <2>5, OneClaims, DocumentFacts DEF Went
  <2>7. Alive' = Alive
    BY <1>2 DEF Alive
  <2>8. WorkerOK(w)'
    BY <1>2, <2>2, <2>3, <2>4, <2>6, <2>7
       DEF WorkerOK, RouteOK, RouteAt, HoldOK, Holds, CleanOK, SightOK, Cleaning, Clearing, Writing, Finalizing
  <2>9. d.pc \notin {"claim", "deny"}
    BY <2>2, <2>4
  <2>10. RolesOK'
    BY <1>2, <2>6, <2>9, RolesStay DEF Safe
  <2> QED
    BY <1>1, <1>2, <2>1, <2>6, <2>8, <2>10, LeaseSteps
<1> QED
  BY <1>3, <1>4, <1>5 DEF Claim

(* A state of the publication that is neither the first nor the last.      *)
LEMMA StateSteps ==
    ASSUME VideoAssumption, Bounds, Safe, NEW p \in ProjectRow, Project(p), p.cancelled = project.cancelled,
           project.pub.state # "complete", p.pub.state # "complete", stored' = stored,
           p.pub.cover = project.pub.cover, p.pub.target = project.pub.target,
           p.pub.coverTarget = project.pub.coverTarget, p.pub.approved = project.pub.approved
    PROVE  /\ PublicationOK' /\ StoreOK' /\ Alive' = Alive /\ Published' = Published /\ Grows /\ Added
<1>1. project' = p /\ assets' = assets /\ track' = track
  BY DEF Project
<1>2. Alive' = Alive /\ Published' = Published
  BY <1>1 DEF Alive, Published
<1>3. Grows /\ Added
  BY <1>1 DEF Grows, Added, Bounds, Typed, DocumentTyped
<1>4. PublicationOK'
  BY <1>1 DEF Safe, PublicationOK, CopyOf
<1>5. StoreOK'
  BY <1>1, <1>2 DEF Safe, StoreOK
<1> QED
  BY <1>2, <1>3, <1>4, <1>5

LEMMA DenySafe ==
    ASSUME VideoAssumption, NoRivals, Bounds, Safe, NEW w \in Worker, Rest, Deny(w)
    PROVE  Safe'
<1> DEFINE p == [project EXCEPT !.proc = IF Active(work[w].seen.proc) THEN "failed" ELSE @,
                                !.frame.state = IF Active(work[w].seen.frame) THEN "failed" ELSE @,
                                !.pub.state = IF Active(work[w].seen.pub) THEN "failed" ELSE @]
<1>1. /\ \/ lease' = [owner |-> None, until |-> "live"] /\ Project(p)
         \/ UNCHANGED <<document, lease>>
      /\ work' = [q \in Worker |-> IF q = w THEN Idle ELSE Renewed(work[q])]
      /\ stored' = stored /\ work[w].pc = "deny"
  BY DEF Deny, bucket, Doing
<1>2. project \in ProjectRow
  BY DEF Bounds, Typed, DocumentTyped
<1>3. /\ p \in ProjectRow /\ p.cancelled = project.cancelled /\ p.pub.cover = project.pub.cover /\ p.pub.target = project.pub.target
      /\ p.pub.coverTarget = project.pub.coverTarget /\ p.pub.approved = project.pub.approved
      /\ p.pub.state = IF Active(work[w].seen.pub) THEN "failed" ELSE project.pub.state
  <2> DEFINE proc == IF Active(work[w].seen.proc) THEN "failed" ELSE project.proc
             frame == IF Active(work[w].seen.frame) THEN "failed" ELSE project.frame.state
             state == IF Active(work[w].seen.pub) THEN "failed" ELSE project.pub.state
  <2>1. proc \in JobState /\ frame \in JobState /\ state \in PublicationState
    BY <1>2 DEF ProjectRow, FrameRow, PublicationRow, JobState, PublicationState
  <2>2. p = [project EXCEPT !.proc = proc, !.frame.state = frame, !.pub.state = state]
    OBVIOUS
  <2>3. state = IF Active(work[w].seen.pub) THEN "failed" ELSE project.pub.state
    OBVIOUS
  <2> HIDE DEF proc, frame, state, p
  <2>4. [project EXCEPT !.proc = proc, !.frame.state = frame, !.pub.state = state] \in ProjectRow
    BY <1>2, <2>1, GivenUp
  <2>5. /\ p.cancelled = project.cancelled /\ p.pub.cover = project.pub.cover /\ p.pub.target = project.pub.target
        /\ p.pub.coverTarget = project.pub.coverTarget /\ p.pub.approved = project.pub.approved /\ p.pub.state = state
    BY <1>2, <2>1, <2>2 DEF ProjectRow, PublicationRow
  <2> QED
    BY <2>2, <2>3, <2>4, <2>5
<1> HIDE DEF p
<1>4. "revoke" \in Asks
  BY <1>1 DEF Safe, RolesOK
<1>5. Active(work[w].seen.pub) => project.pub.state # "complete"
  BY <1>1, <1>4 DEF Safe, RolesOK, Seeing
<1>6. Idle \in WorkRow /\ Idle.asset = 0 /\ Idle.todo = {} /\ Idle.rev = 0 /\ Idle.ask = 0 /\ Idle.pc \notin Handling
  BY IdleTyped DEF Handling
<1>7. DocumentTyped'
  <2>1. SamePointers(p)
    <3> DEFINE proc == IF Active(work[w].seen.proc) THEN "failed" ELSE project.proc
               frame == IF Active(work[w].seen.frame) THEN "failed" ELSE project.frame.state
               state == IF Active(work[w].seen.pub) THEN "failed" ELSE project.pub.state
    <3>1. proc \in JobState /\ frame \in JobState /\ state \in PublicationState
      BY <1>2 DEF ProjectRow, FrameRow, PublicationRow, JobState, PublicationState
    <3>2. p = [project EXCEPT !.proc = proc, !.frame.state = frame, !.pub.state = state]
      BY DEF p
    <3> HIDE DEF proc, frame, state
    <3> QED
      BY <1>2, <3>1, <3>2, GivenUp
  <2> QED
    BY <1>1, <1>3, <2>1, PointersStay, DocumentStays DEF Document
<1>8. Others(w) /\ work'[w] = Idle
  BY <1>1, <1>6, <1>7, OneClaims DEF Went
<1>9. WorkerOK(w)'
  BY <1>8, IdleTyped DEF WorkerOK, RouteOK, RouteAt, HoldOK, Holds, CleanOK, SightOK
<1>10. RolesOK'
  BY <1>4, <1>8, IdleTyped DEF Safe, RolesOK, NoRivals, Seeing
<1>11. CASE UNCHANGED <<document, lease>>
  BY <1>1, <1>8, <1>9, <1>10, <1>11, LeaseSteps DEF LeaseLive
<1>12. CASE lease' = [owner |-> None, until |-> "live"] /\ Project(p)
  <2>1. \A q \in Worker : lease'.owner # q
    BY <1>12 DEF VideoAssumption
  <2>2. CASE Active(work[w].seen.pub)
    <3>1. /\ PublicationOK' /\ StoreOK' /\ Alive' = Alive /\ Published' = Published /\ Grows /\ Added
      BY <1>1, <1>3, <1>5, <1>12, <2>2, StateSteps
    <3> QED
      BY <1>1, <1>8, <1>9, <1>10, <2>1, <3>1, ClaimSteps DEF Rest
  <2>3. CASE ~Active(work[w].seen.pub)
    <3>1. Still
      BY <1>3, <1>12, <2>3, ProjectStill DEF Project, SamePublication
    <3>2. PublicationOK' /\ Alive' = Alive /\ Published' = Published
      BY <3>1, PublicationStays DEF Safe, Still
    <3>3. StoreOK'
      BY <1>1, <3>1, <3>2, StoreStays DEF Safe, Still
    <3> QED
      BY <1>1, <1>8, <1>9, <1>10, <2>1, <3>1, <3>2, <3>3, ClaimSteps DEF Rest, Still
  <2> QED
    BY <2>2, <2>3
<1> QED
  BY <1>1, <1>11, <1>12

-----------------------------------------------------------------------------
(* The publication's own steps.                                            *)

LEMMA EndSteps ==
    ASSUME Bounds, NEW w \in Worker, WorkerOK(w), NEW place \in Finalizing, Jump(w, place), RouteAt(work[w].job, work[w].for, place),
           Alive' => Alive, Published' = Published \/ Alive
    PROVE  Stepped(w)
<1>1. work \in [Worker -> WorkRow] /\ place \in WorkPlace /\ place \in {"failed", "release"}
  BY DEF Bounds, Typed, Finalizing, WorkPlace
<1>2. /\ Others(w) /\ work'[w].pc = place /\ SameJob(work'[w], work[w]) /\ SameObject(work'[w], work[w])
  BY <1>1, Jumps
<1>3. /\ work'[w].job = work[w].job /\ work'[w].for = work[w].for /\ work'[w].asset = work[w].asset /\ work'[w].todo = work[w].todo
  BY <1>2 DEF SameJob, SameObject
<1>4. RouteOK(w)' /\ HoldOK(w)' /\ SightOK(w)'
  BY <1>1, <1>2, <1>3 DEF RouteOK, HoldOK, Holds, SightOK, Finalizing
<1>5. CleanOK(w)'
  BY <1>1, <1>2, <1>3 DEF WorkerOK, CleanOK, Cleaning, Clearing
<1> QED
  BY <1>1, <1>2, <1>4, <1>5 DEF Stepped, WorkerOK

LEMMA FailedSafe ==
    ASSUME VideoAssumption, NoRivals, Bounds, Safe, NEW w \in Worker, Rest, Failed(w)
    PROVE  Safe'
<1>1. /\ work[w].pc = "failed" /\ Jump(w, "release") /\ lease' = lease /\ stored' = stored
      /\ UNCHANGED document \/ (Fenced(w) /\ Project(Blame))
  BY DEF Failed, Doing, bucket
<1>2. /\ WorkerOK(w) /\ RouteAt(work[w].job, work[w].for, "release") /\ "release" \in Finalizing
  BY <1>1, AtWork DEF RouteAt, Finalizing, Writing, Cleaning, Clearing
<1>3. project \in ProjectRow /\ "failed" \in JobState /\ "failed" \in PublicationState /\ TRUE \in BOOLEAN
  BY ObjectsNamed DEF JobState, PublicationState
<1>4. ASSUME Still PROVE Safe'
  <2>1. Alive' = Alive /\ Published' = Published
    BY <1>4 DEF Still, SamePublication, Alive, Published
  <2>2. Stepped(w)
    BY <1>1, <1>2, <2>1, EndSteps
  <2> QED
    BY <1>1, <1>4, <2>2, StillSteps
<1>5. CASE UNCHANGED document
  BY <1>4, <1>5, DocumentStill
<1>6. CASE Fenced(w) /\ Project(Blame)
  <2>1. CASE Alive /\ Active(project.pub.state)
    <3> DEFINE p == [project EXCEPT !.pub.state = "failed"]
    <3>1. Project(p)
      BY <1>6, <2>1 DEF Blame, Alive
    <3>2. /\ p \in ProjectRow /\ p.cancelled = project.cancelled /\ p.pub.state = "failed" /\ p.pub.cover = project.pub.cover
          /\ p.pub.target = project.pub.target /\ p.pub.coverTarget = project.pub.coverTarget /\ p.pub.approved = project.pub.approved
      BY <1>3 DEF ProjectRow, PublicationRow
    <3> HIDE DEF p
    <3>3. project.pub.state # "complete"
      BY <2>1 DEF Alive
    <3>4. PublicationOK' /\ StoreOK' /\ Alive' = Alive /\ Published' = Published /\ Grows /\ Added
      BY <1>1, <3>1, <3>2, <3>3, StateSteps
    <3>5. Stepped(w)
      BY <1>1, <1>2, <3>4, EndSteps
    <3> QED
      BY <1>1, <1>6, <3>4, <3>5, WorkerSteps
  <2>2. CASE ~(Alive /\ Active(project.pub.state))
    <3> DEFINE yes == TRUE
               failed == "failed"
    <3>1. \/ Project([project EXCEPT !.pub.pending = yes])
          \/ Project([project EXCEPT !.frame.state = failed]) \/ Project([project EXCEPT !.proc = failed])
      BY <1>6, <2>2 DEF Blame, Alive
    <3>2. failed \in JobState
      BY <1>3
    <3> HIDE DEF yes, failed
    <3>3. /\ SamePublication([project EXCEPT !.pub.pending = yes])
          /\ SamePublication([project EXCEPT !.frame.state = failed]) /\ SamePublication([project EXCEPT !.proc = failed])
      BY <1>3, <3>2 DEF SamePublication, ProjectRow, PublicationRow
    <3>4. SamePublication(project') /\ UNCHANGED <<assets, track>>
      BY <3>1, <3>3 DEF Project
    <3> QED
      BY <1>4, <3>4, ProjectStill
  <2> QED
    BY <2>1, <2>2
<1> QED
  BY <1>1, <1>5, <1>6

LEMMA BeginPublishSafe ==
    ASSUME VideoAssumption, NoRivals, Bounds, Safe, NEW w \in Worker, Rest, BeginPublish(w)
    PROVE  Safe'
<1> DEFINE p == [project EXCEPT !.pub.state = "running"]
<1>1. /\ work[w].pc = "publish" /\ lease' = lease /\ stored' = stored
      /\ \/ Fenced(w) /\ Project(p) /\ (Throw(w) \/ Take(w, "target", project.pub.target, "recover"))
         \/ UNCHANGED document /\ Throw(w)
  BY DEF BeginPublish, Doing, bucket, Checkpoint
<1>2. /\ work[w].job = "publish" /\ work[w].pc \notin Finalizing /\ WorkerOK(w)
      /\ RouteAt("publish", "target", "recover") /\ "recover" \in WorkPlace /\ RouteAt("publish", work[w].for, "failed")
      /\ "failed" \in WorkPlace /\ "failed" \notin Writing
  BY <1>1, AtWork DEF RouteAt, Finalizing, Cleaning, Clearing, Writing, WorkPlace
<1>3. CASE UNCHANGED document /\ Throw(w)
  <2>1. Still
    BY <1>3, DocumentStill
  <2> QED
    BY <1>1, <1>2, <1>3, <2>1, Checkpoints
<1>4. CASE Fenced(w) /\ Project(p) /\ (Throw(w) \/ Take(w, "target", project.pub.target, "recover"))
  <2>1. Alive /\ project.pub.state \in {"queued", "running"}
    BY <1>2, <1>4 DEF WorkerOK, HoldOK, Holds, Fenced
  <2>2. /\ p \in ProjectRow /\ p.cancelled = project.cancelled /\ p.pub.state = "running" /\ p.pub.cover = project.pub.cover
        /\ p.pub.target = project.pub.target /\ p.pub.coverTarget = project.pub.coverTarget /\ p.pub.approved = project.pub.approved
        /\ project.pub.target \in Id
    BY ObjectsNamed DEF ProjectRow, PublicationRow, PublicationState
  <2> HIDE DEF p
  <2>3. project' = p
    BY <1>4 DEF Project
  <2>4. PublicationOK' /\ StoreOK' /\ Alive' = Alive /\ Published' = Published /\ Grows /\ Added
    BY <1>1, <1>4, <2>1, <2>2, StateSteps
  <2>5. Held(w)
    BY <2>1, <2>2, <2>3, <2>4 DEF Held
  <2>6. Stepped(w)
    <3>1. CASE Throw(w)
      BY <1>1, <1>2, <2>4, <3>1, ThrowSteps
    <3>2. CASE Take(w, "target", project.pub.target, "recover")
      BY <1>1, <1>2, <2>2, <2>3, <2>5, <3>2, TakeSteps
    <3> QED
      BY <1>4, <3>1, <3>2
  <2> QED
    BY <1>1, <1>4, <2>4, <2>6, WorkerSteps
<1> QED
  BY <1>1, <1>3, <1>4

LEMMA InsertSafe ==
    ASSUME VideoAssumption, NoRivals, Bounds, Safe, NEW w \in Worker, Rest, InsertTrack(w)
    PROVE  Safe'
<1> DEFINE p == [project EXCEPT !.pub.state = "complete", !.pub.pending = TRUE]
<1>1. /\ work[w].pc = "publish" /\ lease' = lease /\ stored' = stored
      /\ Throw(w) \/ Jump(w, "release")
      /\ \/ /\ Fenced(w) /\ Ready(project.pub.target) /\ (project.pub.coverTarget # 0 => Ready(project.pub.coverTarget))
            /\ track' = [output |-> project.pub.target, cover |-> project.pub.coverTarget]
            /\ project' = p /\ UNCHANGED <<assets, settled, ingress, choiceBy>>
         \/ UNCHANGED document
  BY DEF InsertTrack, Doing, bucket, Checkpoint
<1>2. /\ work[w].job = "publish" /\ work[w].pc \notin Finalizing /\ WorkerOK(w)
      /\ RouteAt("publish", work[w].for, "release") /\ "release" \in WorkPlace /\ "release" \notin Writing /\ "release" \in Finalizing
  BY <1>1, AtWork DEF RouteAt, Finalizing, Cleaning, Clearing, Writing, WorkPlace
<1>3. CASE UNCHANGED document
  <2>1. Still
    BY <1>3, DocumentStill
  <2> QED
    BY <1>1, <1>2, <2>1, Checkpoints
<1>4. CASE ~UNCHANGED document
  <2>1. /\ Fenced(w) /\ Ready(project.pub.target) /\ (project.pub.coverTarget # 0 => Ready(project.pub.coverTarget))
        /\ track' = [output |-> project.pub.target, cover |-> project.pub.coverTarget]
        /\ project' = p /\ assets' = assets
    BY <1>1, <1>4
  <2>2. Alive
    BY <1>2, <2>1 DEF WorkerOK, HoldOK, Holds, Fenced
  <2>3. /\ p.cancelled = project.cancelled /\ p.pub.state = "complete" /\ p.pub.cover = project.pub.cover
        /\ p.pub.target = project.pub.target /\ p.pub.coverTarget = project.pub.coverTarget /\ p.pub.approved = project.pub.approved
    BY ObjectsNamed DEF ProjectRow, PublicationRow
  <2> HIDE DEF p
  <2>4. Published' = {project.pub.target, project.pub.coverTarget} \ {0}
    BY <2>1 DEF Published
  <2>5. ~Alive'
    BY <2>1, <2>3 DEF Alive
  <2>6. PublicationOK'
    BY <2>1, <2>2, <2>3 DEF Safe, PublicationOK, CopyOf, Alive
  <2>7. StoreOK'
    BY <1>1, <2>1, <2>2, <2>4, <2>5 DEF Safe, StoreOK, Ready
  <2>8. Grows /\ Added
    BY <2>1 DEF Grows, Added, Bounds, Typed, DocumentTyped
  <2>9. Stepped(w)
    <3>1. CASE Throw(w)
      BY <1>1, <1>2, <2>2, <3>1, ThrowSteps
    <3>2. CASE Jump(w, "release")
      BY <1>2, <2>2, <3>2, EndSteps
    <3> QED
      BY <1>1, <3>1, <3>2
  <2> QED
    BY <1>1, <2>1, <2>2, <2>5, <2>6, <2>7, <2>8, <2>9, WorkerSteps
<1> QED
  BY <1>3, <1>4

LEMMA ReplaceSafe ==
    ASSUME VideoAssumption, NoRivals, Bounds, Safe, NEW w \in Worker, Rest, Replace(w)
    PROVE  Safe'
<1> DEFINE a == Len(assets) + 1
           q == IF work[w].for = "target" THEN [project EXCEPT !.pub.target = a] ELSE [project EXCEPT !.pub.coverTarget = a]
           e == NewAsset(assets[Asset(w)].kind, assets[Asset(w)].of, None, 0)
<1>1. /\ work[w].pc = "replace" /\ lease' = lease /\ stored' = stored
      /\ \/ /\ Fenced(w) /\ a <= MaxAssets /\ assets' = Append(assets, e) /\ project' = q /\ track' = track
            /\ Throw(w) \/ Take(w, work[w].for, a, "grant")
         \/ UNCHANGED document /\ Throw(w)
  BY DEF Replace, Doing, bucket, Checkpoint
<1>2. /\ work[w].job = "publish" /\ work[w].pc \notin Finalizing /\ WorkerOK(w) /\ work[w].for \in {"target", "coverTarget"}
      /\ RouteAt("publish", work[w].for, "grant") /\ "grant" \in WorkPlace /\ RouteAt("publish", work[w].for, "failed")
      /\ "failed" \in WorkPlace /\ "failed" \notin Writing
  BY <1>1, AtWork DEF RouteAt, Finalizing, Cleaning, Clearing, Writing, WorkPlace
<1>3. CASE UNCHANGED document /\ Throw(w)
  <2>1. Still
    BY <1>3, DocumentStill
  <2> QED
    BY <1>1, <1>2, <1>3, <2>1, Checkpoints
<1>4. CASE /\ Fenced(w) /\ a <= MaxAssets /\ assets' = Append(assets, e) /\ project' = q /\ track' = track
           /\ Throw(w) \/ Take(w, work[w].for, a, "grant")
  <2>1. /\ Alive /\ project.pub.state \in {"queued", "running"}
        /\ work[w].asset = IF work[w].for = "target" THEN project.pub.target ELSE project.pub.coverTarget
    BY <1>1, <1>2, <1>4 DEF WorkerOK, HoldOK, Holds, Fenced, Writing
  <2>2. Asset(w) = work[w].asset /\ Asset(w) \in 1..Len(assets) /\ a \in Id /\ Len(assets) \in Nat
    BY <1>1, <1>4, Handles, NamesGrow, Limits DEF Asset, Handling, Id
  <2>3. e \in AssetRow /\ e.by = None /\ e.of = assets[Asset(w)].of /\ e.state = "pending"
    <3>1. /\ assets[Asset(w)].kind \in {"source", "output", "cover", "published", "publishedCover"}
          /\ assets[Asset(w)].of \in Id /\ None \in Request \union {None} /\ 0 \in 0..MaxCommands
      BY <2>2, AssetTyped, Limits
    <3> QED
      BY <3>1, NewAssets
  <2>4. /\ q.cancelled = project.cancelled /\ q.pub.state = project.pub.state /\ q.pub.cover = project.pub.cover
        /\ q.pub.approved = project.pub.approved
        /\ q.pub.target = (IF work[w].for = "target" THEN a ELSE project.pub.target)
        /\ q.pub.coverTarget = (IF work[w].for = "target" THEN project.pub.coverTarget ELSE a)
    BY ObjectsNamed DEF ProjectRow, PublicationRow
  <2> HIDE DEF q, e
  <2>5. /\ Len(assets') = a /\ assets'[a] = e /\ \A b \in 1..Len(assets) : assets'[b] = assets[b]
    BY <1>4, <2>3, Appends DEF Bounds, Typed, DocumentTyped
  <2>6. Grows /\ Added
    BY <2>2, <2>3, <2>5 DEF Grows, Added
  <2>7. Alive' = Alive /\ Published' = Published
    BY <1>4, <2>4 DEF Alive, Published
  <2>8. PublicationOK'
    <3> DEFINE pub == project.pub
    <3>1. /\ pub.target \in 0..Len(assets) /\ pub.coverTarget \in 0..Len(assets)
      BY DEF Bounds, Names
    <3>2. \A t \in 0..Len(assets) : \A of : CopyOf(t, of) => (t # 0 => assets'[t].of = of /\ assets'[t].by = None)
      BY <2>2, <2>5 DEF CopyOf
    <3>3. /\ project'.cancelled = project.cancelled /\ project'.pub.state = pub.state /\ project'.pub.cover = pub.cover
          /\ project'.pub.approved = pub.approved /\ track' = track
          /\ project'.pub.target = (IF work[w].for = "target" THEN a ELSE pub.target)
          /\ project'.pub.coverTarget = (IF work[w].for = "target" THEN pub.coverTarget ELSE a)
      BY <1>4, <2>4
    <3>4. /\ work[w].for = "target" => assets[Asset(w)].of = pub.approved.output
          /\ work[w].for # "target" => assets[Asset(w)].of = pub.approved.cover /\ pub.coverTarget # 0
      BY <2>1, <2>2 DEF Safe, PublicationOK, CopyOf
    <3>5. CopyOf(project.pub.target, project.pub.approved.output)' /\ CopyOf(project.pub.coverTarget, project.pub.approved.cover)'
      BY <2>3, <2>5, <3>1, <3>2, <3>3, <3>4 DEF Safe, PublicationOK, CopyOf
    <3>6. project'.pub.cover = 0 <=> project'.pub.coverTarget = 0
      BY <2>2, <3>3, <3>4 DEF Safe, PublicationOK
    <3>7. pub.state # "complete" /\ track = NoTrack
      BY <2>1 DEF Safe, PublicationOK
    <3> QED
      BY <3>3, <3>5, <3>6, <3>7 DEF Safe, PublicationOK
  <2>9. StoreOK'
    BY <1>1, <2>2, <2>3, <2>5, <2>7 DEF Safe, StoreOK
  <2>10. Stepped(w)
    <3>1. CASE Throw(w)
      BY <1>1, <1>2, <2>7, <3>1, ThrowSteps
    <3>2. CASE Take(w, work[w].for, a, "grant")
      <4>1. Held(w)
        BY <1>4, <2>1, <2>4, <2>7 DEF Held
      <4>2. a = IF work[w].for = "target" THEN project'.pub.target ELSE project'.pub.coverTarget
        BY <1>4, <2>4
      <4> HIDE DEF a
      <4> QED
        BY <1>1, <1>2, <2>2, <3>2, <4>1, <4>2, TakeSteps
    <3> QED
      BY <1>4, <3>1, <3>2
  <2> QED
    BY <1>1, <1>4, <2>6, <2>7, <2>8, <2>9, <2>10, WorkerSteps
<1> QED
  BY <1>1, <1>3, <1>4

-----------------------------------------------------------------------------
(* Steps of others than the worker.                                        *)

LEMMA RolesRest ==
    ASSUME RolesOK, UNCHANGED work, admin' = admin \/ admin' \/ "revoke" \in Asks,
           project.pub.state \in {"queued", "running", "cancelled"} => project'.pub.state \in {"queued", "running", "cancelled"}
    PROVE  RolesOK'
  BY DEF RolesOK, Seeing

LEMMA RestSteps ==
    ASSUME VideoAssumption, Bounds, Safe, UNCHANGED <<work, lease>>, RolesOK', CallsOK', PublicationOK', StoreOK',
           Alive' => Alive, stored \subseteq stored', Published' = Published, LeaseLive => SamePublication(project')
    PROVE  Safe'
<1>1. ASSUME NEW w \in Worker PROVE WorkerOK(w)'
  <2>1. Alike(work'[w], work[w])
    BY DEF Alike, SameJob, SameObject
  <2> QED
    BY <2>1, Bystands DEF Safe, LeaseLive
<1> QED
  BY <1>1 DEF Safe

LEMMA RestStill ==
    ASSUME VideoAssumption, Bounds, Safe, UNCHANGED <<work, lease>>, Still, stored \subseteq stored', CallsOK',
           admin' = admin \/ admin' \/ "revoke" \in Asks
    PROVE  Safe'
<1>1. PublicationOK' /\ Alive' = Alive /\ Published' = Published
  BY PublicationStays DEF Safe, Still
<1>2. StoreOK'
  BY <1>1, StoreStays DEF Safe, Still
<1>3. RolesOK'
  BY RolesRest DEF Safe, Still, SamePublication
<1> QED
  BY <1>1, <1>2, <1>3, RestSteps DEF Still

(* The calls are left alone, or go where nothing is asked of them.         *)
LEMMA RestQuiet ==
    ASSUME VideoAssumption, Bounds, Safe, UNCHANGED <<work, lease>>, Still, stored \subseteq stored',
           admin' = admin \/ admin' \/ "revoke" \in Asks,
           \A r \in Request : calls'[r] = calls[r] \/ calls'[r].pc \notin {"record", "resolve"}
    PROVE  Safe'
<1>1. CallsOK'
  BY CallsStay DEF Safe, Still, SamePublication, Alive
<1> QED
  BY <1>1, RestStill

LEMMA CallLeaves ==
    ASSUME Bounds, NEW r \in Request, NEW pc \in CallPlace \ {"record", "resolve"},
           Goto(r, pc) \/ \E d : d.pc = pc /\ calls' = [calls EXCEPT ![r] = d]
    PROVE  \A q \in Request : calls'[q] = calls[q] \/ calls'[q].pc \notin {"record", "resolve"}
<1>1. calls \in [Request -> CallRow]
  BY DEF Bounds, Typed
<1> QED
  BY <1>1 DEF Goto, CallRow

-----------------------------------------------------------------------------
(* The commands.                                                           *)

LEMMA CommandStill ==
    ASSUME VideoAssumption, Bounds, Safe, NEW name, Command(name), UNCHANGED <<assets, track>>, SamePublication(project'),
           \A r \in Request : calls'[r] = calls[r] \/ calls'[r].pc \notin {"record", "resolve"}
    PROVE  Safe'
<1>1. UNCHANGED <<work, lease, admin>> /\ stored' = stored
  BY DEF Command, bucket
<1> QED
  BY <1>1, ProjectStill, RestQuiet

LEMMA RequestsSafe ==
    ASSUME VideoAssumption, Bounds, Safe,
           \/ RetryProcessing \/ RequestFrame \/ Cleanup
           \/ \E r \in Request : \/ ReconcileIngress(r) \/ \E a \in 1..Len(assets) : Reconcile(r, a)
                                 \/ \E kind \in {"source", "cover"} : Reserve(r, kind)
    PROVE  Safe'
<1> DEFINE yes == TRUE
           no == FALSE
           queued == "queued"
<1>1. project \in ProjectRow /\ queued \in JobState
  BY ObjectsNamed DEF JobState
<1>2. CASE RetryProcessing
  <2>1. Command("reprocess") /\ project' = [project EXCEPT !.proc = queued] /\ UNCHANGED <<assets, track, calls>>
    BY <1>2 DEF RetryProcessing, Decide
  <2> HIDE DEF queued
  <2>2. SamePublication(project')
    BY <1>1, <2>1, Limits, Elsewhere
  <2> QED
    BY <2>1, <2>2, CommandStill
<1>3. CASE RequestFrame
  <2> DEFINE frame == [state |-> "queued", rev |-> project.rev, ask |-> commands']
  <2>1. Command("frame") /\ project' = [project EXCEPT !.frame = frame] /\ UNCHANGED <<assets, track, calls>>
    BY <1>3 DEF RequestFrame, Decide
  <2> HIDE DEF frame
  <2>2. SamePublication(project')
    BY <1>1, <2>1 DEF SamePublication, ProjectRow
  <2> QED
    BY <2>1, <2>2, CommandStill
<1>4. CASE Cleanup
  <2>1. Command("cleanup") /\ project' = [project EXCEPT !.cleaned = no, !.pub.pending = yes] /\ UNCHANGED <<assets, track, calls>>
    BY <1>4 DEF Cleanup, Decide
  <2> HIDE DEF yes, no
  <2>2. SamePublication(project')
    BY <2>1, <1>1, Limits, Elsewhere
  <2> QED
    BY <2>1, <2>2, CommandStill
<1>5. ASSUME NEW r \in Request, ReconcileIngress(r) PROVE Safe'
  BY <1>5, CommandStill DEF ReconcileIngress, SamePublication
<1>6. ASSUME NEW r \in Request, NEW a \in 1..Len(assets), Reconcile(r, a) PROVE Safe'
  <2> DEFINE d == [pc |-> "inspect", asset |-> a, found |-> "no"]
  <2>1. Command("reconcile") /\ UNCHANGED document /\ calls' = [calls EXCEPT ![r] = d] /\ d.pc = "inspect"
    BY <1>6 DEF Reconcile
  <2> HIDE DEF d
  <2>2. \A q \in Request : calls'[q] = calls[q] \/ calls'[q].pc \notin {"record", "resolve"}
    BY <2>1, CallLeaves DEF CallPlace
  <2> QED
    BY <2>1, <2>2, CommandStill DEF document, SamePublication
<1>7. ASSUME NEW r \in Request, NEW kind \in {"source", "cover"}, Reserve(r, kind) PROVE Safe'
  <2> DEFINE rev == IF ingress[r].state = "none" /\ kind = "cover" THEN project.rev + 1 ELSE project.rev
  <2>1. Command(kind) /\ project' = [project EXCEPT !.rev = rev, !.cleaned = no] /\ UNCHANGED <<assets, track>> /\ Goto(r, "digest")
    BY <1>7 DEF Reserve
  <2> HIDE DEF rev, no
  <2>2. SamePublication(project')
    BY <1>1, <2>1 DEF SamePublication, ProjectRow
  <2>3. \A q \in Request : calls'[q] = calls[q] \/ calls'[q].pc \notin {"record", "resolve"}
    BY <2>1, CallLeaves DEF CallPlace
  <2> QED
    BY <2>1, <2>2, <2>3, CommandStill
<1> QED
  BY <1>2, <1>3, <1>4, <1>5, <1>6, <1>7

(* The publication is decided upon: nobody works under a lease.            *)
LEMMA DecisionSteps ==
    ASSUME VideoAssumption, Bounds, Safe, NEW name, Command(name), UNCHANGED calls, ~LeaseLive \/ SamePublication(project'),
           PublicationOK', StoreOK', Alive' => Alive, Published' = Published, Grows, Added,
           project.pub.state \in {"queued", "running", "cancelled"} => project'.pub.state \in {"queued", "running", "cancelled"}
    PROVE  Safe'
<1>1. UNCHANGED <<work, lease, admin>> /\ stored' = stored
  BY DEF Command, bucket
<1>2. RolesOK'
  BY <1>1, RolesRest DEF Safe
<1>3. CallsOK'
  BY <1>1, CallsStay DEF Safe
<1> QED
  BY <1>1, <1>2, <1>3, RestSteps

LEMMA EditSafe ==
    ASSUME VideoAssumption, Bounds, Safe, NEW c \in 0..Automatic, Edit(c)
    PROVE  Safe'
<1> DEFINE next == project.rev + 1
           pub == IF project.pub.state = "failed" THEN IdlePublication ELSE project.pub
           p == [project EXCEPT !.choice = c, !.rev = next, !.pub = pub]
<1>1. /\ Command("edit") /\ project' = p /\ UNCHANGED <<calls, assets, track>> /\ stored' = stored
      /\ ~project.cancelled /\ project.pub.state \notin {"queued", "running", "complete"}
      /\ project.pub.state = "failed" => ~LeaseLive
  BY DEF Edit, Decide, Command, bucket
<1>2. project \in ProjectRow
  BY ObjectsNamed
<1>3. pub = IF project.pub.state = "failed" THEN IdlePublication ELSE project.pub
  OBVIOUS
<1> HIDE DEF next, pub
<1>4. p.pub = pub /\ p.cancelled = project.cancelled
  BY <1>2 DEF ProjectRow
<1> HIDE DEF p
<1>5. CASE project.pub.state # "failed"
  <2>1. SamePublication(project')
    BY <1>1, <1>3, <1>4, <1>5 DEF SamePublication
  <2> QED
    BY <1>1, <2>1, CommandStill
<1>6. CASE project.pub.state = "failed"
  <2>1. /\ pub.state = "idle" /\ pub.cover = 0 /\ pub.target = 0 /\ pub.coverTarget = 0 /\ pub.approved.cover = 0
    BY <1>3, <1>6 DEF IdlePublication, NoView
  <2>2. PublicationOK'
    BY <1>1, <1>4, <1>6, <2>1 DEF Safe, PublicationOK, CopyOf
  <2>3. Alive /\ Alive' /\ Published' = Published
    BY <1>1, <1>4, <2>1 DEF Alive, Published
  <2>4. StoreOK'
    BY <1>1, <2>3 DEF Safe, StoreOK
  <2>5. Grows /\ Added
    BY <1>1 DEF Grows, Added, Bounds, Typed, DocumentTyped
  <2> QED
    BY <1>1, <1>6, <2>2, <2>3, <2>4, <2>5, DecisionSteps
<1> QED
  BY <1>5, <1>6

LEMMA RetryCancelSafe ==
    ASSUME VideoAssumption, Bounds, Safe, RetryPublication \/ Cancel
    PROVE  Safe'
<1>1. project \in ProjectRow
  BY ObjectsNamed
<1>2. CASE RetryPublication
  <2> DEFINE p == [project EXCEPT !.pub.state = "queued"]
  <2>1. /\ Command("retry") /\ Project(p) /\ UNCHANGED calls /\ stored' = stored
        /\ project.pub.state = "failed" /\ ~LeaseLive
    BY <1>2 DEF RetryPublication, Decide, Project, Command, bucket
  <2>2. /\ p \in ProjectRow /\ p.cancelled = project.cancelled /\ p.pub.state = "queued" /\ p.pub.cover = project.pub.cover
        /\ p.pub.target = project.pub.target /\ p.pub.coverTarget = project.pub.coverTarget /\ p.pub.approved = project.pub.approved
    BY <1>1 DEF ProjectRow, PublicationRow, PublicationState
  <2> HIDE DEF p
  <2>3. /\ PublicationOK' /\ StoreOK' /\ Alive' = Alive /\ Published' = Published /\ Grows /\ Added
    BY <2>1, <2>2, StateSteps
  <2> QED
    BY <2>1, <2>2, <2>3, DecisionSteps DEF Project
<1>3. CASE Cancel
  <2> DEFINE yes == TRUE
             no == FALSE
             p == [project EXCEPT !.cancelled = yes, !.cleaned = no, !.pub.state = "cancelled", !.pub.pending = yes]
  <2>1. /\ Command("cancel") /\ project' = p /\ UNCHANGED <<calls, assets, track>> /\ stored' = stored
        /\ project.pub.state # "complete" /\ ~LeaseLive /\ yes
    BY <1>3 DEF Cancel, Decide, Command, bucket
  <2> HIDE DEF yes, no
  <2>2. /\ p.cancelled = yes /\ p.pub.state = "cancelled" /\ p.pub.cover = project.pub.cover
        /\ p.pub.target = project.pub.target /\ p.pub.coverTarget = project.pub.coverTarget /\ p.pub.approved = project.pub.approved
    BY <1>1 DEF ProjectRow, PublicationRow
  <2> HIDE DEF p
  <2>3. ~Alive' /\ Published' = Published
    BY <2>1, <2>2 DEF Alive, Published
  <2>4. PublicationOK'
    BY <2>1, <2>2 DEF Safe, PublicationOK, CopyOf
  <2>5. StoreOK'
    BY <2>1, <2>3 DEF Safe, StoreOK
  <2>6. Grows /\ Added
    BY <2>1 DEF Grows, Added, Bounds, Typed, DocumentTyped
  <2> QED
    BY <2>1, <2>2, <2>3, <2>4, <2>5, <2>6, DecisionSteps
<1> QED
  BY <1>2, <1>3

LEMMA PublishSafe ==
    ASSUME VideoAssumption, Bounds, Safe, Publish
    PROVE  Safe'
<1> DEFINE cover == Digest.cover
           first == Len(assets) + 1
           second == IF cover # 0 THEN Len(assets) + 2 ELSE 0
           pub == [state |-> "queued", pending |-> FALSE, output |-> project.output, cover |-> cover,
                   target |-> first, coverTarget |-> second, granted |-> TRUE, approved |-> view]
           p == [project EXCEPT !.pub = pub]
<1>1. /\ Command("publish") /\ Len(assets) + 2 <= MaxAssets /\ view = Digest /\ Open /\ ~LeaseLive
      /\ project' = p /\ UNCHANGED <<track, calls>> /\ stored' = stored
      /\ assets' = assets \o (<<NewAsset("published", project.output, None, 0)>>
                              \o (IF cover # 0 THEN <<NewAsset("publishedCover", cover, None, 0)>> ELSE <<>>))
  BY DEF Publish, Decide, Command, bucket, Approved
<1>2. /\ project \in ProjectRow /\ project.output \in Id /\ view \in View /\ Len(assets) \in Nat /\ Len(assets) <= MaxAssets
  BY DEF Bounds, Typed, DocumentTyped, ProjectRow
<1>3. cover \in Id /\ cover \in 0..Len(assets) /\ view.cover = cover /\ view.output = project.output
  BY <1>1, <1>2, DigestTyped, Limits DEF Id
<1> HIDE DEF cover
<1>4. /\ assets' \in Seq(AssetRow) /\ Len(assets') = Len(assets) + (IF cover # 0 THEN 2 ELSE 1)
      /\ \A a \in 1..Len(assets) : assets'[a] = assets[a]
      /\ assets'[Len(assets) + 1] = NewAsset("published", project.output, None, 0)
      /\ cover # 0 => assets'[Len(assets) + 2] = NewAsset("publishedCover", cover, None, 0)
  BY <1>1, <1>2, <1>3, TargetsNamed
<1>5. /\ NewAsset("published", project.output, None, 0).by = None
      /\ NewAsset("published", project.output, None, 0).of = project.output
      /\ NewAsset("published", project.output, None, 0).state = "pending"
      /\ NewAsset("publishedCover", cover, None, 0).by = None
      /\ NewAsset("publishedCover", cover, None, 0).of = cover
      /\ NewAsset("publishedCover", cover, None, 0).state = "pending"
  BY DEF NewAsset
<1>6. ASSUME NEW a \in 1..Len(assets'), a \notin 1..Len(assets)
      PROVE  a = Len(assets) + 1 \/ (cover # 0 /\ a = Len(assets) + 2)
  BY <1>2, <1>4, <1>6
<1>7. Grows
  BY <1>2, <1>4 DEF Grows
<1>8. Added
  BY <1>4, <1>5, <1>6 DEF Added
<1>9. /\ first = Len(assets) + 1 /\ first # 0 /\ (second = 0 <=> cover = 0) /\ (cover # 0 => second = Len(assets) + 2)
  BY <1>2
<1> HIDE DEF first, second
<1>10. /\ pub.target = first /\ pub.coverTarget = second /\ pub.cover = cover /\ pub.approved = view /\ pub.state = "queued"
  OBVIOUS
<1> HIDE DEF pub
<1>11. p.pub = pub /\ p.cancelled = project.cancelled
  BY <1>2 DEF ProjectRow
<1> HIDE DEF p
<1>12. /\ ~project.cancelled /\ project.pub.state \notin {"queued", "running", "complete", "failed"}
  BY <1>1 DEF Open, Locked
<1>13. Alive /\ Alive' /\ Published' = Published
  BY <1>1, <1>10, <1>11, <1>12 DEF Alive, Published
<1>14. PublicationOK'
  <2>1. /\ project'.pub.approved = view /\ project'.pub.cover = cover /\ project'.pub.target = first
        /\ project'.pub.coverTarget = second /\ project'.pub.state = "queued"
    BY <1>1, <1>10, <1>11
  <2>2. CopyOf(project.pub.target, project.pub.approved.output)' /\ CopyOf(project.pub.coverTarget, project.pub.approved.cover)'
    BY <1>3, <1>4, <1>5, <1>9, <2>1 DEF CopyOf
  <2>3. track' = NoTrack
    BY <1>1, <1>12 DEF Safe, PublicationOK
  <2> QED
    BY <1>3, <1>9, <2>1, <2>2, <2>3 DEF PublicationOK
<1>15. StoreOK'
  <2>1. ASSUME NEW a \in 1..Len(assets'), assets'[a].state = "ready" PROVE a \in stored'
    <3>1. a \in 1..Len(assets)
      BY <1>8, <2>1 DEF Added
    <3> QED
      BY <1>1, <1>4, <1>13, <2>1, <3>1 DEF Safe, StoreOK
  <2> QED
    BY <1>1, <1>13, <2>1 DEF Safe, StoreOK
<1>16. project'.pub.state = "queued"
  BY <1>1, <1>10, <1>11
<1> QED
  BY <1>1, <1>7, <1>8, <1>13, <1>14, <1>15, <1>16, DecisionSteps

-----------------------------------------------------------------------------
(* The calls of an upload.                                                 *)

LEMMA PutsSafe ==
    ASSUME VideoAssumption, Bounds, Safe, CallRest, NEW r \in Request, Intent(r) \/ Finish(r) \/ CrashCall(r) \/ Record(r)
    PROVE  Safe'
<1>1. UNCHANGED <<work, lease, admin>> /\ stored' = stored
  BY DEF CallRest, Intent, Finish, CrashCall, Record, bucket
<1>2. \A q \in Request : calls'[q] = calls[q] \/ calls'[q].pc \notin {"record", "resolve"}
  <2>1. Goto(r, "put") \/ Goto(r, "finish") \/ calls' = [calls EXCEPT ![r] = NoCall]
    BY DEF Intent, Finish, CrashCall, Record, Transact
  <2>2. NoCall.pc = "idle"
    BY DEF NoCall
  <2> HIDE DEF NoCall
  <2> QED
    BY <2>1, <2>2, CallLeaves DEF CallPlace
<1>3. CASE UNCHANGED document
  BY <1>1, <1>2, <1>3, DocumentStill, RestQuiet
<1>4. CASE Finish(r)
  BY <1>1, <1>2, <1>4, ProjectStill, RestQuiet DEF Finish, SamePublication
<1>5. CASE Intent(r) /\ ~UNCHANGED document
  <2>1. MarkSent(Own(r)) /\ UNCHANGED <<project, track>> /\ At(r, "intent")
    BY <1>5 DEF Intent, Transact
  <2>2. Own(r) \in 1..Len(assets)
    BY <2>1, Owns DEF At, Uploading
  <2> QED
    BY <1>1, <1>2, <2>1, <2>2, MarkStill, RestQuiet DEF SamePublication
<1>6. CASE Record(r) /\ ~UNCHANGED document
  <2> DEFINE yes == TRUE
  <2>1. SetAsset(Own(r), "ready", yes) /\ project' = Arrived(project, Own(r)) /\ track' = track /\ At(r, "record")
    BY <1>6 DEF Record, Transact
  <2>2. Own(r) \in 1..Len(assets) /\ assets[Own(r)].by = r /\ "ready" \in AssetState /\ yes \in BOOLEAN
    BY <2>1, Owns DEF At, Uploading, AssetState
  <2> HIDE DEF yes
  <2>3. Alive => Own(r) \in stored'
    BY <1>1, <2>1, <2>2 DEF Safe, CallsOK
  <2>4. SamePublication(project')
    BY <2>1, ArrivesElsewhere
  <2>5. Still
    BY <2>1, <2>2, <2>3, <2>4, AssetStill
  <2> QED
    BY <1>1, <1>2, <2>5, RestQuiet
<1> QED
  BY <1>3, <1>4, <1>5, <1>6 DEF CrashCall

LEMMA UploadPutSafe ==
    ASSUME VideoAssumption, Bounds, Safe, CallRest, NEW r \in Request, UploadPut(r)
    PROVE  Safe'
<1>1. /\ UNCHANGED <<work, lease, admin, document>> /\ At(r, "put")
      /\ \/ Goto(r, "record") /\ stored' = stored \union {Own(r)}
         \/ Goto(r, "finish") /\ stored' = stored
  BY DEF CallRest, UploadPut
<1>2. Still /\ UNCHANGED <<project, assets>> /\ Alive' = Alive
  BY <1>1, DocumentStill DEF document, Alive
<1>3. CallsOK'
  <2>1. calls \in [Request -> CallRow]
    BY DEF Bounds, Typed
  <2>2. CASE Goto(r, "finish") /\ stored' = stored
    BY <1>2, <2>1, <2>2, CallLeaves, CallsStay DEF Safe, Still, CallPlace
  <2>3. CASE Goto(r, "record") /\ stored' = stored \union {Own(r)}
    <3>1. /\ calls'[r].pc = "record" /\ \A q \in Request : q # r => calls'[q] = calls[q]
      BY <2>1, <2>3 DEF Goto, CallRow
    <3>2. Own(r) \in 1..Len(assets) /\ assets[Own(r)].by = r
      BY <1>1, Owns DEF At, Uploading
    <3>3. \A a \in 1..Len(assets) : assets[a].by = r => a = Own(r)
      BY <3>2 DEF Bounds, UploadsOK, VideoAssumption
    <3>4. ASSUME NEW q \in Request, Alive'
          PROVE  /\ calls'[q].pc = "record" => \A a \in 1..Len(assets') : assets'[a].by = q => a \in stored'
                 /\ calls'[q].pc = "resolve" /\ calls'[q].found = "yes" => calls'[q].asset \in stored'
      <4>1. CASE q = r
        BY <1>2, <2>3, <3>1, <3>3, <4>1
      <4>2. CASE q # r
        BY <1>2, <2>3, <3>1, <3>4, <4>2 DEF Safe, CallsOK, At
      <4> QED
        BY <4>1, <4>2
    <3> QED
      BY <3>4 DEF CallsOK, At
  <2> QED
    BY <1>1, <2>2, <2>3
<1> QED
  BY <1>1, <1>2, <1>3, RestStill

LEMMA InspectSafe ==
    ASSUME VideoAssumption, Bounds, Safe, CallRest, NEW r \in Request, Inspect(r)
    PROVE  Safe'
<1>1. UNCHANGED <<work, lease, admin, document>> /\ stored' = stored
  BY DEF CallRest, Inspect, bucket
<1>2. \E found \in {"yes", "no", "error"} :
         /\ calls' = [calls EXCEPT ![r].pc = "resolve", ![r].found = found]
         /\ found = "yes" => calls[r].asset \in stored
  BY DEF Inspect
<1>3. PICK found \in {"yes", "no", "error"} :
         /\ calls' = [calls EXCEPT ![r].pc = "resolve", ![r].found = found]
         /\ found = "yes" => calls[r].asset \in stored
  BY <1>2
<1>4. /\ calls'[r].pc = "resolve" /\ calls'[r].found = found /\ calls'[r].asset = calls[r].asset
      /\ \A q \in Request : q # r => calls'[q] = calls[q]
  BY <1>3 DEF Bounds, Typed, CallRow
<1>5. Still /\ UNCHANGED <<project, assets>> /\ Alive' = Alive
  BY <1>1, DocumentStill DEF document, Alive
<1>6. CallsOK'
  <2>1. ASSUME NEW q \in Request, Alive'
        PROVE  /\ calls'[q].pc = "record" => \A a \in 1..Len(assets') : assets'[a].by = q => a \in stored'
               /\ calls'[q].pc = "resolve" /\ calls'[q].found = "yes" => calls'[q].asset \in stored'
    <3>1. CASE q = r
      BY <1>1, <1>3, <1>4, <3>1
    <3>2. CASE q # r
      BY <1>1, <1>4, <1>5, <2>1, <3>2 DEF Safe, CallsOK, At
    <3> QED
      BY <3>1, <3>2
  <2> QED
    BY <2>1 DEF CallsOK, At
<1> QED
  BY <1>1, <1>5, <1>6, RestStill

(* The answer is written into the project as it is by then: an object that *)
(* was found is still there, unless a cleanup has begun.                   *)
LEMMA ResolveSafe ==
    ASSUME VideoAssumption, Bounds, Safe, CallRest, NEW r \in Request, Resolve(r)
    PROVE  Safe'
<1> DEFINE a == calls[r].asset
           state == IF calls[r].found = "yes" THEN "ready" ELSE IF calls[r].found = "no" /\ Lost(a) THEN "failed" ELSE "unknown"
           known == calls[r].found = "yes" \/ assets[a].known
           ready == "ready"
           p == [project EXCEPT !.frame.state = ready]
<1>1. /\ UNCHANGED <<work, lease, admin>> /\ stored' = stored /\ calls' = [calls EXCEPT ![r] = NoCall]
      /\ calls[r].pc = "resolve"
      /\ \/ /\ SetAsset(a, state, known) /\ track' = track
            /\ \/ Select(p, a, project.frame.rev, project.frame.ask)
               \/ project' = Arrived(project, a) \/ project' = project
         \/ UNCHANGED document
  BY DEF Resolve, CallRest, bucket, At
<1>2. \A q \in Request : calls'[q] = calls[q] \/ calls'[q].pc \notin {"record", "resolve"}
  <2>1. NoCall.pc = "idle"
    BY DEF NoCall
  <2> HIDE DEF NoCall
  <2> QED
    BY <1>1, <2>1, CallLeaves DEF CallPlace
<1>3. CASE UNCHANGED document
  BY <1>1, <1>2, <1>3, DocumentStill, RestQuiet
<1>4. CASE /\ SetAsset(a, state, known) /\ track' = track
           /\ \/ Select(p, a, project.frame.rev, project.frame.ask)
              \/ project' = Arrived(project, a) \/ project' = project
  <2>1. a \in 1..Len(assets)
    BY <1>1 DEF Bounds, UploadsOK, Typed, DocumentTyped
  <2>2. state \in AssetState /\ known \in BOOLEAN /\ (state = "ready" <=> calls[r].found = "yes") /\ ready \in JobState
    BY <2>1, AssetTyped DEF AssetState, JobState
  <2>3. state = "ready" /\ Alive => a \in stored'
    BY <1>1, <2>2 DEF Safe, CallsOK, At
  <2>4. project \in ProjectRow
    BY ObjectsNamed
  <2> HIDE DEF a, state, known, ready
  <2>5. p \in ProjectRow /\ SamePublication(p)
    BY <2>2, <2>4, Limits, JobChanges, Elsewhere
  <2> HIDE DEF p
  <2>6. SamePublication(project')
    <3>1. CASE Select(p, a, project.frame.rev, project.frame.ask)
      BY <2>5, <3>1, SelectElsewhere
    <3>2. CASE project' = Arrived(project, a)
      BY <3>2, ArrivesElsewhere
    <3>3. CASE project' = project
      BY <3>3 DEF SamePublication
    <3> QED
      BY <1>4, <3>1, <3>2, <3>3
  <2>7. Still
    BY <1>4, <2>1, <2>2, <2>3, <2>6, AssetStill
  <2> QED
    BY <1>1, <1>2, <2>7, RestQuiet
<1> QED
  BY <1>1, <1>3, <1>4

LEMMA AdmitSafe ==
    ASSUME VideoAssumption, Bounds, Safe, CallRest, NEW r \in Request, Admit(r)
    PROVE  Safe'
<1> DEFINE kind == ingress[r].kind
           a == Len(assets) + 1
           e == NewAsset(kind, a, r, 0)
           no == FALSE
           p == [project EXCEPT !.cleaned = no]
           q == [project EXCEPT !.source = a, !.cleaned = no]
<1>1. /\ UNCHANGED <<work, lease, admin>> /\ stored' = stored /\ calls[r].pc = "digest"
      /\ \/ /\ Goto(r, "intent") \/ Goto(r, "finish")
            /\ Receiving(r) /\ a <= MaxAssets /\ assets' = Append(assets, e) /\ track' = track
            /\ project' = q \/ Select(p, a, ingress[r].rev, ingress[r].at)
         \/ UNCHANGED document /\ Goto(r, "finish")
  BY DEF Admit, Transact, CallRest, bucket, At
<1>2. \A x \in Request : calls'[x] = calls[x] \/ calls'[x].pc \notin {"record", "resolve"}
  BY <1>1, CallLeaves DEF CallPlace
<1>3. CASE UNCHANGED document /\ Goto(r, "finish")
  BY <1>1, <1>2, <1>3, DocumentStill, RestQuiet
<1>4. CASE /\ Receiving(r) /\ a <= MaxAssets /\ assets' = Append(assets, e) /\ track' = track
           /\ project' = q \/ Select(p, a, ingress[r].rev, ingress[r].at)
  <2>1. /\ kind \in {"source", "cover"} /\ Len(assets) \in Nat /\ project \in ProjectRow /\ no \in BOOLEAN
    BY <1>4 DEF Receiving, Bounds, Typed, DocumentTyped, IngressRow
  <2>2. a \in Id
    BY <1>4, <2>1, Limits DEF Id
  <2>3. e \in AssetRow /\ e.by = r /\ e.state = "pending"
    <3>1. kind \in {"source", "output", "cover", "published", "publishedCover"} /\ r \in Request \union {None}
      BY <2>1
    <3> QED
      BY <2>2, <3>1, Limits, NewAssets
  <2>4. /\ Len(assets') = Len(assets) + 1 /\ \A b \in 1..Len(assets) : assets'[b] = assets[b]
        /\ assets'[Len(assets) + 1] = e
    BY <1>4, <2>3, Appends DEF Bounds, Typed, DocumentTyped
  <2> HIDE DEF no, e
  <2>5. p \in ProjectRow /\ SamePublication(p) /\ SamePublication(q)
    BY <2>1, <2>2, Limits, Elsewhere DEF ProjectRow
  <2> HIDE DEF p, q
  <2>6. SamePublication(project')
    BY <1>4, <2>5, SelectElsewhere
  <2>7. Grows
    BY <2>1, <2>4 DEF Grows
  <2>8. PublicationOK' /\ Alive' = Alive /\ Published' = Published
    BY <1>4, <2>6, <2>7, PublicationStays DEF Safe
  <2>9. ReadyIfStored
    BY <2>1, <2>3, <2>4 DEF ReadyIfStored, Ready
  <2>10. StoreOK'
    BY <1>1, <2>8, <2>9, StoreStays DEF Safe
  <2>11. CallsOK'
    <3>1. ASSUME NEW x \in Request, Alive'
          PROVE  /\ calls'[x].pc = "record" => \A b \in 1..Len(assets') : assets'[b].by = x => b \in stored'
                 /\ calls'[x].pc = "resolve" /\ calls'[x].found = "yes" => calls'[x].asset \in stored'
      <4>1. CASE x = r
        <5>1. calls'[r].pc \in {"intent", "finish"} \/ calls'[r] = calls[r]
          BY <1>1 DEF Goto, Bounds, Typed, CallRow
        <5> QED
          BY <1>1, <4>1, <5>1
      <4>2. CASE x # r
        <5>1. \A b \in 1..Len(assets') : assets'[b].by = x => b \in 1..Len(assets) /\ assets[b].by = x
          BY <2>1, <2>3, <2>4, <4>2
        <5>2. calls'[x] = calls[x] \/ calls'[x].pc \notin {"record", "resolve"}
          BY <1>2
        <5> QED
          BY <1>1, <2>8, <3>1, <5>1, <5>2 DEF Safe, CallsOK, At
      <4> QED
        BY <4>1, <4>2
    <3> QED
      BY <3>1 DEF CallsOK, At
  <2>12. RolesOK'
    BY <1>1, <2>6, RolesRest DEF Safe, SamePublication
  <2> QED
    BY <1>1, <2>6, <2>8, <2>10, <2>11, <2>12, RestSteps
<1> QED
  BY <1>1, <1>3, <1>4

-----------------------------------------------------------------------------
(* Time, the store and the account.                                        *)

LEMMA EnvironmentSafe ==
    ASSUME VideoAssumption, Bounds, Safe, Environment
    PROVE  Safe'
<1>1. /\ UNCHANGED <<work, lease, calls>> /\ stored \subseteq stored' /\ UNCHANGED <<assets, track>>
      /\ admin' = admin \/ admin' \/ "revoke" \in Asks
  BY DEF Environment, GrantLapse, Revoke, Restore, IngressLapse, Settle, LatePut, document, bucket
<1>2. SamePublication(project')
  <2>1. CASE project' = project
    BY <2>1 DEF SamePublication
  <2>2. CASE GrantLapse
    <3> DEFINE no == FALSE
    <3>1. project' = [project EXCEPT !.pub.granted = no] /\ project \in ProjectRow
      BY <2>2, ObjectsNamed DEF GrantLapse
    <3> HIDE DEF no
    <3> QED
      BY <3>1 DEF SamePublication, ProjectRow, PublicationRow
  <2> QED
    BY <2>1, <2>2 DEF Environment, Revoke, Restore, IngressLapse, Settle, LatePut, document
<1> QED
  BY <1>1, <1>2, ProjectStill, RestQuiet

-----------------------------------------------------------------------------
(* Together.                                                               *)

LEMMA WorkersSafe ==
    ASSUME VideoAssumption, NoRivals, Bounds, Safe, WorkStep
    PROVE  Safe'
<1>1. Rest
  BY DEF WorkStep, Rest
<1>2. ASSUME NEW w \in Worker, Run(w) \/ Crash(w) PROVE Safe'
  BY <1>1, <1>2, PollSafe, ClaimSafe, DenySafe, ReleaseSafe, FailedSafe, RecoverSafe, LookSafe, RecordsSafe, SendsSafe,
     ProcessSafe, FrameBeginsSafe, StageSafe, AddCoverSafe, SelectCoverSafe, BeginPublishSafe, ReplaceSafe, InsertSafe,
     SweepSafe, PickSafe, EraseSafe, CleanFailSafe, CleanEndSafe DEF Run
<1>3. CASE LeaseLapse
  <2>1. /\ UNCHANGED <<document, work>> /\ stored' = stored /\ ~LeaseLive' /\ UNCHANGED <<calls, admin>>
    BY <1>1, <1>3 DEF LeaseLapse, LeaseLive, bucket, Rest, Bounds, Typed
  <2>2. Still
    BY <2>1, DocumentStill
  <2>3. PublicationOK' /\ Alive' = Alive /\ Published' = Published
    BY <2>2, PublicationStays DEF Safe, Still
  <2>4. StoreOK'
    BY <2>1, <2>2, <2>3, StoreStays DEF Safe, Still
  <2>5. RolesOK'
    BY <2>1, <2>2, RolesRest DEF Safe, Still, SamePublication
  <2>6. CallsOK'
    BY <2>1, <2>2, <2>3, CallsStay DEF Safe, Still
  <2>7. ASSUME NEW w \in Worker PROVE WorkerOK(w)'
    <3>1. Alike(work'[w], work[w])
      BY <2>1 DEF Alike, SameJob, SameObject
    <3> QED
      BY <2>1, <2>3, <3>1, Bystands DEF Safe
  <2> QED
    BY <2>3, <2>4, <2>5, <2>6, <2>7 DEF Safe
<1> QED
  BY <1>2, <1>3 DEF WorkStep

LEMMA EveryStepSafe ==
    ASSUME VideoAssumption, NoRivals, Bounds, Safe, Next
    PROVE  Safe'
<1>1. CASE Ask
  BY <1>1, RequestsSafe, EditSafe, RetryCancelSafe, PublishSafe DEF Ask
<1>2. CASE Review
  BY <1>2, DocumentStill, RestQuiet DEF Review, bucket
<1>3. ASSUME NEW r \in Request, CallStep(r) PROVE Safe'
  BY <1>3, PutsSafe, UploadPutSafe, InspectSafe, ResolveSafe, AdmitSafe DEF CallStep, CallRest
<1> QED
  BY <1>1, <1>2, <1>3, WorkersSafe, EnvironmentSafe DEF Next

LEMMA StutterSafe ==
    ASSUME VideoAssumption, Bounds, Safe, UNCHANGED vars
    PROVE  Safe'
  BY DocumentStill, RestQuiet DEF vars, bucket

LEMMA BeginsSafe ==
    ASSUME VideoAssumption, WorkInit
    PROVE  Safe
<1>1. /\ NewProject.pub = IdlePublication /\ NewProject.cancelled = FALSE
      /\ IdlePublication.state = "idle" /\ IdlePublication.cover = 0 /\ IdlePublication.target = 0
      /\ IdlePublication.coverTarget = 0 /\ IdlePublication.approved.cover = 0 /\ NoCall.pc = "idle"
  BY DEF NewProject, IdlePublication, NoView, NoCall
<1>2. /\ project.pub = IdlePublication /\ track = NoTrack
  BY <1>1 DEF WorkInit, Init, NewProject
<1>3. /\ admin /\ calls = [r \in Request |-> NoCall] /\ work = [w \in Worker |-> Idle]
      /\ lease.owner = None /\ \A a \in 1..Len(assets) : a \in stored
  BY DEF WorkInit, Init
<1>4. PublicationOK
  BY <1>1, <1>2 DEF PublicationOK, CopyOf
<1>5. RolesOK
  BY <1>3, IdleTyped DEF RolesOK, Seeing
<1>6. StoreOK
  BY <1>2, <1>3 DEF StoreOK, Published, NoTrack
<1>7. CallsOK
  BY <1>1, <1>3 DEF CallsOK, At
<1>8. ASSUME NEW w \in Worker PROVE WorkerOK(w)
  BY <1>3, IdleTyped DEF WorkerOK, RouteOK, RouteAt, HoldOK, Holds, CleanOK, SightOK
<1> QED
  BY <1>4, <1>5, <1>6, <1>7, <1>8 DEF Safe

\* For any uploads, workers, objects and commands of one worker, or of an administrator
\* who stays one: the publication names copies of what was approved, its lease keeps it
\* from being cancelled under the worker, and no cleanup handles what a track shows.
THEOREM PublicationInductive ==
    ASSUME VideoAssumption, NoRivals
    PROVE  Spec => [](Bounds /\ FreshOK /\ Safe)
<1>1. WorkInit => Safe
  BY BeginsSafe
<1>2. Bounds /\ Safe /\ [Next]_vars => Safe'
  BY EveryStepSafe, StutterSafe
<1> QED
  BY <1>1, <1>2, RequestsInductive, PTL DEF Spec

\* ApprovedIsPublished, of publishProject and its retried copies: what a track plays and
\* shows are copies of the output and of the cover its approval was given for.
THEOREM ApprovedPublished ==
    ASSUME VideoAssumption, NoRivals
    PROVE  Spec => []ApprovedIsPublished
<1>1. Safe => ApprovedIsPublished
  BY DEF Safe, PublicationOK, CopyOf, ApprovedIsPublished, NoTrack
<1> QED
  BY <1>1, PublicationInductive, PTL

\* PublishedIsKept, of cleanupProject: what a track plays and shows is in the store.
THEOREM PublishedKept ==
    ASSUME VideoAssumption, NoRivals
    PROVE  Spec => []PublishedIsKept
<1>1. Safe => PublishedIsKept
  BY DEF Safe, StoreOK, PublishedIsKept
<1> QED
  BY <1>1, PublicationInductive, PTL

(* What a step does to the store.                                          *)
LEMMA StoreMoves ==
    ASSUME VideoAssumption, Bounds, Safe, [Next]_vars
    PROVE  \/ stored' = stored
           \/ track' = track /\ \E k \in 1..MaxAssets : stored' = stored \union {k}
           \/ track' = track /\ \E k \in 1..MaxAssets \ Published : stored' = stored \ {k}
<1>1. 1..Len(assets) \subseteq 1..MaxAssets
  BY Limits DEF Bounds, Typed, DocumentTyped
<1>2. CASE Ask \/ Review \/ UNCHANGED vars
  BY <1>2 DEF Ask, Review, vars, bucket, Command, RetryProcessing, RequestFrame, Publish, RetryPublication, Cancel, Cleanup,
              Edit, Reserve, ReconcileIngress, Reconcile
<1>3. CASE Environment
  BY <1>1, <1>3 DEF Environment, GrantLapse, Revoke, Restore, IngressLapse, Settle, LatePut, bucket, document
<1>4. ASSUME NEW r \in Request, CallStep(r)
      PROVE  stored' = stored \/ (track' = track /\ \E k \in 1..MaxAssets : stored' = stored \union {k})
  <2>1. CASE UploadPut(r)
    BY <1>1, <2>1, Owns DEF UploadPut, At, Uploading, document
  <2> QED
    BY <1>4, <2>1 DEF CallStep, Admit, Intent, Record, Finish, Inspect, Resolve, CrashCall, bucket
<1>5. ASSUME NEW w \in Worker, Run(w) \/ Crash(w)
      PROVE  \/ stored' = stored
             \/ track' = track /\ \E k \in 1..MaxAssets : stored' = stored \union {k}
             \/ track' = track /\ \E k \in 1..MaxAssets \ Published : stored' = stored \ {k}
  <2>1. CASE Put(w)
    <3>1. Asset(w) \in 1..MaxAssets
      BY <1>1, <2>1, Handles DEF Put, Doing, Handling
    <3> QED
      BY <2>1, <3>1 DEF Put, document
  <2>2. CASE Erase(w)
    <3>1. Asset(w) \in 1..MaxAssets
      BY <1>1, <2>2, Handles DEF Erase, Doing, Handling
    <3>2. work[w].pc = "erase" /\ work[w].job = "clean" /\ work[w].pc \in Cleaning
      BY <2>2, AtWork DEF Erase, Doing, RouteAt, Finalizing, Writing, Cleaning, Clearing
    <3>3. Asset(w) \notin Published
      BY <3>2 DEF Safe, WorkerOK, CleanOK, Asset
    <3> QED
      BY <2>2, <3>1, <3>3 DEF Erase, document
  <2>3. CASE Crash(w)
    BY <2>3 DEF Crash
  <2>4. CASE Run(w) /\ ~Put(w) /\ ~Erase(w)
    BY <2>4 DEF Run, bucket, Poll, Claim, Deny, Release, Failed, Recover, Look, JudgeRecovery, Send, Ack, BeginProcess, Start,
                BeginFrame, Decode, Stage, AddCover, SelectCover, FinishJob, BeginPublish, CopyCover, Replace, Granted, InsertTrack,
                Sweep, PickAsset, Drop, JudgeCleanup, Confirm, CleanFail, CleanEnd
  <2> QED
    BY <1>5, <2>1, <2>2, <2>3, <2>4
<1>6. CASE LeaseLapse
  BY <1>6 DEF LeaseLapse, bucket
<1>7. CASE WorkStep
  BY <1>5, <1>6, <1>7 DEF WorkStep
<1> QED
  BY <1>2, <1>3, <1>4, <1>7 DEF Next

\* PublicationIsSafe, of every module that writes to the store or to the catalogue: an
\* object is stored, or a track comes to show stored objects only, or one goes that no
\* track shows.
THEOREM PublicationSafe ==
    ASSUME VideoAssumption, NoRivals
    PROVE  Spec => PublicationIsSafe
<1>1. Bounds /\ Safe => Published \subseteq stored /\ stored \subseteq 1..MaxAssets
  BY Limits DEF Bounds, Typed, DocumentTyped, Safe, StoreOK
<1>2. Bounds /\ Safe => Store!Init
  BY <1>1 DEF Store!Init
<1>3. Bounds /\ Safe /\ (Bounds /\ Safe)' /\ [Next]_vars => [Store!Next]_<<stored, Published>>
  <2>1. SUFFICES ASSUME Bounds, Safe, (Bounds /\ Safe)', [Next]_vars
                 PROVE  [Store!Next]_<<stored, Published>>
    OBVIOUS
  <2>2. track' = track => Published' = Published
    BY DEF Published
  <2>3. CASE stored' = stored
    <3>1. Published' \subseteq stored
      BY <2>1, <2>3 DEF Safe, StoreOK
    <3> QED
      BY <2>3, <3>1 DEF Store!Next, Store!Publish
  <2>4. ASSUME NEW k \in 1..MaxAssets, track' = track, stored' = stored \union {k}
        PROVE  Store!Next
    BY <2>2, <2>4 DEF Store!Next, Store!Put
  <2>5. ASSUME NEW k \in 1..MaxAssets \ Published, track' = track, stored' = stored \ {k}
        PROVE  Store!Next
    BY <2>2, <2>5 DEF Store!Next, Store!Delete
  <2> QED
    BY <2>1, <2>3, <2>4, <2>5, StoreMoves
<1> QED
  BY <1>2, <1>3, PublicationInductive, PTL DEF Spec, PublicationIsSafe, Store!Spec

=============================================================================
