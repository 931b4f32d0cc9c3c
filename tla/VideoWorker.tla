------------------------------ MODULE VideoWorker ------------------------------
(***************************************************************************)
(* services/media/adminVideoWorker.ts: every process polls for a project   *)
(* with work, takes its lease and does one job, processing, a cover frame, *)
(* the publication or the cleanup, as a sequence of checkpoints on the     *)
(* document (transactions of the lease's owner) and calls to the store.    *)
(***************************************************************************)
EXTENDS VideoProject

Doing(w, place) == work[w].pc = place
Jump(w, place) == work' = [work EXCEPT ![w].pc = place]
Asset(w) == work[w].asset

NoSight == [until |-> "null", proc |-> "idle", frame |-> "idle", pub |-> "idle"]
Idle == [pc |-> "idle", job |-> "none", for |-> "none", asset |-> 0, found |-> "lost", known |-> FALSE, todo |-> {},
         pending |-> FALSE,         rev |-> 0, ask |-> 0, seen |-> NoSight]

TypeOK ==
    /\ ProjectTypeOK
    /\ lease \in [owner : Worker \union {None}, until : {"null", "expired", "live"}]
    /\ \A w \in Worker :
          /\ work[w].job \in {"none", "clean", "publish", "process", "frame"}
          /\ work[w].for \in {"none", "output", "cover", "target", "coverTarget"}
          /\ work[w].asset \in Id /\ work[w].todo \subseteq [id : Id, sent : BOOLEAN, known : BOOLEAN]

-----------------------------------------------------------------------------
\* checkpoint: the role, the owner and the expiry are checked in the transaction.
Fenced(w) == admin /\ lease.owner = w /\ LeaseLive

\* Where an error leads: a cleanup goes on with the next object, the cover of a
\* processed video is optional, anything else ends the job.
Throw(w) == Jump(w, CASE work[w].job = "clean" /\ work[w].pc \in {"drop", "head", "judge", "erase", "confirm"} -> "cleanFail"
                      [] work[w].job = "process" /\ work[w].pc \in {"cover", "select"}                        -> "finish"
                      [] work[w].job = "process" /\ work[w].for = "cover" /\ work[w].pc \in {"send", "put", "ack"} -> "finish"
                      [] OTHER                                                                               -> "failed")

\* A checkpoint: done, done with the reply lost, or not done.
Checkpoint(w, allowed, writes, next) ==
    \/ /\ Fenced(w) /\ allowed
       /\ writes
       /\ \/ next /\ UNCHANGED faults
          \/ Throw(w) /\ Fault
    \/ /\ IF Fenced(w) /\ allowed THEN Fault ELSE UNCHANGED faults
       /\ Throw(w)
       /\ UNCHANGED document

Assets == UNCHANGED <<project, settled, ingress, track, choiceBy>>
Project(p) == project' = p /\ UNCHANGED <<assets, settled, ingress, track, choiceBy>>

\* A job with an object begins with what is known of it.
Take(w, for, a, place) == work' = [work EXCEPT ![w].for = for, ![w].asset = a, ![w].pc = place]

-----------------------------------------------------------------------------
\* Claiming.

Active(state) == state \in {"queued", "running"}
Candidate == \/ project.cancelled /\ ~project.cleaned
             \/ project.pub.state = "complete" /\ project.pub.pending
             \/ Active(project.pub.state)
             \/ ~project.cancelled /\ (Active(project.proc) \/ Active(project.frame.state))

Poll(w) ==
    /\ Doing(w, "idle")
    /\ ~LeaseLive /\ Candidate
    /\ work' = [work EXCEPT ![w] = [Idle EXCEPT !.pc = "claim", !.seen =
           [until |-> lease.until, proc |-> project.proc, frame |-> project.frame.state, pub |-> project.pub.state]]]
    /\ UNCHANGED <<document, bucket, lease, faults>>

Job == IF project.cancelled \/ project.pub.state = "complete" THEN "clean"
       ELSE IF Active(project.pub.state) THEN "publish"
       ELSE IF Active(project.proc) THEN "process"
       ELSE IF Active(project.frame.state) THEN "frame" ELSE "none"

\* Another leaseUntil than the one a poll has read; null is always the same.
Renewed(q) == IF q.pc \in {"claim", "deny"} /\ q.seen.until = "expired" THEN [q EXCEPT !.seen.until = "other"] ELSE q

Claim(w) ==
    /\ Doing(w, "claim")
    /\ IF ~admin THEN Jump(w, "deny") /\ UNCHANGED lease
       ELSE IF LeaseLive THEN work' = [work EXCEPT ![w] = Idle] /\ UNCHANGED lease
       ELSE /\ lease' = [owner |-> w, until |-> "live"]
            /\ work' = [q \in Worker |-> IF q # w THEN Renewed(work[q])
                          ELSE [Idle EXCEPT !.job = Job, !.pc = IF Job = "none" THEN "release" ELSE Job]]
    /\ UNCHANGED <<document, bucket, faults>>

\* The filter of the refusal: leaseUntil as it was polled.
SameLease(w) == work[w].seen.until = lease.until

\* A revoked owner's job is given up, by what the poll has seen of it.
Deny(w) ==
    /\ Doing(w, "deny")
    /\ LET seen == work[w].seen
       IN IF SameLease(w)
          THEN /\ lease' = [owner |-> None, until |-> "live"]
               /\ Project([project EXCEPT !.proc = IF Active(seen.proc) THEN "failed" ELSE @,
                                          !.frame.state = IF Active(seen.frame) THEN "failed" ELSE @,
                                          !.pub.state = IF Active(seen.pub) THEN "failed" ELSE @])
          ELSE UNCHANGED <<document, lease>>
    /\ work' = [q \in Worker |-> IF q = w THEN Idle ELSE Renewed(work[q])]
    /\ UNCHANGED <<bucket, faults>>

-----------------------------------------------------------------------------
\* Objects: recoverAsset and putAsset.

\* What follows an object that is ready, and one that is not.
Onward(w) == CASE work[w].for = "output" /\ work[w].job = "process" -> "cover"
               [] work[w].for = "cover"                             -> "select"
               [] work[w].for = "target"                            -> "coverTarget"
               [] OTHER                                             -> "publish"
Recovered(w) == IF work[w].for = "output" THEN "finish" ELSE Onward(w)
Absent(w) == IF work[w].for = "output" THEN "start" ELSE "replace"

\* Mutant: an object whose fate is unknown is sent again.
UnsentByState(a) == assets[a].state \in {"pending", "unknown"}

\* Nobody ever sent the object.
Unsent(a) ==
    assets[a].state = "pending" /\ ~assets[a].sent

Recover(w) ==
    /\ Doing(w, "recover")
    /\ Jump(w, IF Ready(Asset(w)) THEN Recovered(w)
               ELSE IF Unsent(Asset(w))
                    THEN (IF work[w].for = "output" THEN "start" ELSE "grant")
                    ELSE "head")
    /\ UNCHANGED <<document, lease, bucket, faults>>

\* The answer of head(), with settleAfter compared at once; a cleanup has read before
\* whether the version is known.
Look(w) ==
    /\ Doing(w, "head")
    /\ \/ /\ work' = [work EXCEPT ![w].pc = "judge", ![w].found =
                 IF Asset(w) \in stored THEN "found" ELSE IF work[w].known \/ Lost(Asset(w)) THEN "lost" ELSE "unsettled"]
          /\ UNCHANGED faults
       \/ Throw(w) /\ Fault
    /\ UNCHANGED <<document, lease, bucket>>

JudgeRecovery(w) ==
    /\ Doing(w, "judge") /\ work[w].job # "clean"
    /\ LET a == Asset(w)
       IN CASE work[w].found = "found" -> Checkpoint(w, TRUE, SetAsset(a, "ready", TRUE) /\ Assets, Jump(w, Recovered(w)))
            [] work[w].found = "lost"  -> Checkpoint(w, TRUE, SetAsset(a, "failed", assets[a].known) /\ Assets, Jump(w, Absent(w)))
            [] OTHER                   -> Throw(w) /\ UNCHANGED <<document, faults>>
    /\ UNCHANGED <<lease, bucket>>

\* The intent, with a new settleAfter.
Send(w) ==
    /\ Doing(w, "send")
    /\ Checkpoint(w, TRUE, /\ MarkSent(Asset(w))
                           /\ settled' = settled \ {Asset(w)}
                           /\ UNCHANGED <<project, ingress, track, choiceBy>>, Jump(w, "put"))
    /\ UNCHANGED <<lease, bucket>>

Put(w) ==
    /\ Doing(w, "put")
    /\ \/ stored' = stored \union {Asset(w)} /\ Jump(w, "ack") /\ UNCHANGED <<inflight, faults>>
       \/ inflight' = inflight \union {Asset(w)} /\ Throw(w) /\ Fault /\ UNCHANGED stored
    /\ UNCHANGED <<document, lease>>

Ack(w) ==
    /\ Doing(w, "ack")
    /\ Checkpoint(w, TRUE, SetAsset(Asset(w), "ready", TRUE) /\ Assets, Jump(w, Onward(w)))
    /\ UNCHANGED <<lease, bucket>>

-----------------------------------------------------------------------------
\* processProject and frameProject.

BeginProcess(w) ==
    /\ Doing(w, "process")
    /\ IF ~Fenced(w) \/ ~Ready(project.source) THEN Throw(w)
       ELSE IF project.output # 0 /\ project.facts THEN Take(w, "output", project.output, "recover")
       ELSE Jump(w, "start")
    /\ UNCHANGED <<document, lease, bucket, faults>>

Start(w) ==
    /\ Doing(w, "start")
    /\ Checkpoint(w, TRUE, Project([project EXCEPT !.proc = "running"]), Take(w, "output", 0, "decode"))
    /\ UNCHANGED <<lease, bucket>>

BeginFrame(w) ==
    /\ Doing(w, "frame")
    /\ Checkpoint(w, Ready(project.source), Project([project EXCEPT !.frame.state = "running"]),
          work' = [work EXCEPT ![w].for = "cover", ![w].pc = "decode", ![w].rev = project.frame.rev, ![w].ask = project.frame.ask])
    /\ UNCHANGED <<lease, bucket>>

\* Download and decoder.
Decode(w) ==
    /\ Doing(w, "decode")
    /\ \/ Jump(w, IF work[w].job = "frame" THEN "cover" ELSE "stage") /\ UNCHANGED faults
       \/ Throw(w) /\ Fault
    /\ UNCHANGED <<document, lease, bucket>>

\* The result: the source as it is, or a new object.
Stage(w) ==
    /\ Doing(w, "stage")
    /\ \/ Checkpoint(w, TRUE, Project([project EXCEPT !.facts = TRUE, !.output = project.source]), Take(w, "output", project.source, "cover"))
       \/ LET a == Len(assets) + 1
          IN Checkpoint(w, a <= MaxAssets,
                /\ assets' = Append(assets, NewAsset("output", a, None, 0))
                /\ project' = [project EXCEPT !.facts = TRUE, !.output = a]
                /\ UNCHANGED <<settled, ingress, track, choiceBy>>, Take(w, "output", a, "send"))
    /\ UNCHANGED <<lease, bucket>>

\* addCover names the object: the requested frame, or what the decoder found, if anything.
AddCover(w) ==
    /\ Doing(w, "cover")
    /\ LET a == Len(assets) + 1
           p == [project EXCEPT !.cleaned = FALSE]
       IN \/ Checkpoint(w, CoverRoom /\ a <= MaxAssets,
                /\ assets' = Append(assets, NewAsset("cover", a, None, work[w].ask))
                /\ project' = (IF work[w].job = "process" THEN [p EXCEPT !.auto = a] ELSE p)
                /\ UNCHANGED <<settled, ingress, track, choiceBy>>, Take(w, "cover", a, "send"))
          \/ work[w].job = "process" /\ Jump(w, "finish") /\ UNCHANGED <<document, faults>>
    /\ UNCHANGED <<lease, bucket>>

\* addCover, its last checkpoint: a requested frame is chosen if nothing was chosen since.
SelectCover(w) ==
    /\ Doing(w, "select")
    /\ Checkpoint(w, TRUE,
          /\ IF work[w].job = "frame" THEN Select(project, Asset(w), work[w].rev, work[w].ask)
                                      ELSE project' = [project EXCEPT !.auto = Asset(w)] /\ UNCHANGED choiceBy
          /\ UNCHANGED <<assets, settled, ingress, track>>, Jump(w, "finish"))
    /\ UNCHANGED <<lease, bucket>>

FinishJob(w) ==
    /\ Doing(w, "finish")
    /\ Checkpoint(w, TRUE, Project(IF work[w].job = "frame" THEN [project EXCEPT !.frame.state = "ready"]
                                                            ELSE [project EXCEPT !.proc = "ready"]), Jump(w, "release"))
    /\ UNCHANGED <<lease, bucket>>

-----------------------------------------------------------------------------
\* publishProject: copy the output and the cover, then insert the track.

\* An approval that was withdrawn names no copies.
BeginPublish(w) ==
    /\ Doing(w, "publish") /\ work[w].for = "none"
    /\ Checkpoint(w, TRUE, Project([project EXCEPT !.pub.state = "running"]),
          IF project.pub.target # 0 THEN Take(w, "target", project.pub.target, "recover") ELSE Throw(w))
    /\ UNCHANGED <<lease, bucket>>

CopyCover(w) ==
    /\ Doing(w, "coverTarget")
    /\ IF project.pub.cover = 0 THEN Take(w, "coverTarget", 0, "publish")
       ELSE IF Fenced(w) THEN Take(w, "coverTarget", project.pub.coverTarget, "recover")
       ELSE Throw(w)
    /\ UNCHANGED <<document, lease, bucket, faults>>

\* A failed copy is replaced by another object of the same approval.
Replace(w) ==
    /\ Doing(w, "replace")
    /\ LET a == Len(assets) + 1
       IN Checkpoint(w, a <= MaxAssets,
             /\ assets' = Append(assets, NewAsset(assets[Asset(w)].kind, assets[Asset(w)].of, None, 0))
             /\ project' = IF work[w].for = "target" THEN [project EXCEPT !.pub.target = a] ELSE [project EXCEPT !.pub.coverTarget = a]
             /\ UNCHANGED <<settled, ingress, track, choiceBy>>, Take(w, work[w].for, a, "grant"))
    /\ UNCHANGED <<lease, bucket>>

Granted(w) ==
    /\ Doing(w, "grant")
    /\ Checkpoint(w, project.pub.granted, UNCHANGED document, Jump(w, "send"))
    /\ UNCHANGED <<lease, bucket>>

\* One transaction: the track appears and the publication is complete.  A changed
\* reference is a fault.
InsertTrack(w) ==
    /\ Doing(w, "publish") /\ work[w].for = "coverTarget"
    /\ LET pub == project.pub
       IN Checkpoint(w, project.facts /\ Ready(pub.target) /\ (pub.coverTarget # 0 => Ready(pub.coverTarget)) /\ pub.granted,
             /\ track' = [output |-> pub.target, cover |-> pub.coverTarget]
             /\ project' = [project EXCEPT !.pub.state = "complete", !.pub.pending = TRUE]
             /\ UNCHANGED <<assets, settled, ingress, choiceBy>>, Jump(w, "release"))
    /\ UNCHANGED <<lease, bucket>>

-----------------------------------------------------------------------------
\* cleanupProject: every object but the published ones, one after the other.

\* Mutant: the objects of the publication are no exception.
KeptNever(a) == assets[a].state = "deleted"

\* Objects a cleanup leaves alone.
Kept(a) ==
    \/ assets[a].state = "deleted"
    \/ ~project.cancelled /\ a \in {project.pub.target, project.pub.coverTarget}

\* The loop that follows reads the document of this checkpoint, not a later one.
Sweep(w) ==
    /\ Doing(w, "clean")
    /\ Checkpoint(w, TRUE,
          /\ ingress' = [r \in Request |-> IF Receiving(r) /\ ~ingress[r].live THEN [ingress[r] EXCEPT !.state = "failed", !.held = FALSE]
                                           ELSE ingress[r]]
          /\ UNCHANGED <<project, assets, settled, track, choiceBy>>,
          work' = [work EXCEPT ![w].pc = "next",
                               ![w].todo = {[id |-> a, sent |-> assets[a].sent, known |-> assets[a].known] :
                                               a \in {b \in 1..Len(assets) : ~Kept(b)}},
                               ![w].pending = \E r \in Request : Receiving(r) /\ ingress[r].live])
    /\ UNCHANGED <<lease, bucket>>

PickAsset(w) ==
    /\ Doing(w, "next")
    /\ \E x \in work[w].todo :
          /\ \A y \in work[w].todo : x.id <= y.id
          /\ work' = [work EXCEPT ![w].todo = @ \ {x}, ![w].asset = x.id, ![w].known = x.known,
                                  ![w].pc = IF x.sent THEN "head" ELSE "drop"]
    /\ UNCHANGED <<document, lease, bucket, faults>>

\* An object that was never sent is only forgotten.
Drop(w) ==
    /\ Doing(w, "drop")
    /\ Checkpoint(w, TRUE, SetAsset(Asset(w), "deleted", assets[Asset(w)].known) /\ Assets, Jump(w, "next"))
    /\ UNCHANGED <<lease, bucket>>

\* Found: learn its version and delete that; lost: forget it; else it may still arrive.
JudgeCleanup(w) ==
    /\ Doing(w, "judge") /\ work[w].job = "clean"
    /\ LET a == Asset(w)
       IN IF work[w].found = "found" THEN Checkpoint(w, TRUE, SetAsset(a, "deleting", TRUE) /\ Assets, Jump(w, "erase"))
          ELSE IF work[w].found = "lost" THEN Checkpoint(w, TRUE, SetAsset(a, "deleted", assets[a].known) /\ Assets, Jump(w, "next"))
          ELSE Throw(w) /\ UNCHANGED <<document, faults>>
    /\ UNCHANGED <<lease, bucket>>

Erase(w) ==
    /\ Doing(w, "erase")
    /\ \/ stored' = stored \ {Asset(w)} /\ Jump(w, "confirm") /\ UNCHANGED faults
       \/ stored' \in {stored, stored \ {Asset(w)}} /\ Throw(w) /\ Fault
    /\ UNCHANGED <<document, lease, inflight>>

\* The second head, then the record.
Confirm(w) ==
    /\ Doing(w, "confirm")
    /\ IF Asset(w) \in stored THEN Throw(w) /\ UNCHANGED <<document, faults>>
       ELSE Checkpoint(w, TRUE, SetAsset(Asset(w), "deleted", TRUE) /\ Assets, Jump(w, "next"))
    /\ UNCHANGED <<lease, bucket>>

CleanFail(w) ==
    /\ Doing(w, "cleanFail")
    /\ Checkpoint(w, TRUE, SetAsset(Asset(w), "cleanupFailed", assets[Asset(w)].known) /\ Assets,
          work' = [work EXCEPT ![w].pc = "next", ![w].pending = TRUE])
    /\ UNCHANGED <<lease, bucket>>

\* Mutant: a cleanup that came to its end is complete.
UncleanedNever(w) == work[w].job # "clean"

\* Something failed, or an upload is still being received.
Uncleaned(w) ==
    work[w].pending

CleanEnd(w) ==
    /\ Doing(w, "next") /\ work[w].todo = {}
    /\ Checkpoint(w, TRUE, Project([project EXCEPT !.cleaned = ~Uncleaned(w), !.pub.pending = Uncleaned(w)]), Jump(w, "release"))
    /\ UNCHANGED <<lease, bucket>>

-----------------------------------------------------------------------------
\* The end of a job.

\* The failure is written where the document, as it is now, says the job was.
Blame == IF project.cancelled \/ project.pub.state = "complete" THEN [project EXCEPT !.pub.pending = TRUE]
         ELSE IF Active(project.pub.state) THEN [project EXCEPT !.pub.state = "failed"]
         ELSE IF Active(project.frame.state) /\ project.proc = "ready" THEN [project EXCEPT !.frame.state = "failed"]
         ELSE [project EXCEPT !.proc = "failed"]

Failed(w) ==
    /\ Doing(w, "failed")
    /\ \/ Fenced(w) /\ Project(Blame) /\ UNCHANGED faults
       \/ UNCHANGED document /\ IF Fenced(w) THEN Fault ELSE UNCHANGED faults
    /\ Jump(w, "release")
    /\ UNCHANGED <<lease, bucket>>

\* `finally`, outside any role or expiry.
Release(w) ==
    /\ Doing(w, "release")
    /\ lease' = IF lease.owner = w THEN [owner |-> None, until |-> "null"] ELSE lease
    /\ work' = [work EXCEPT ![w] = Idle]
    /\ UNCHANGED <<document, bucket, faults>>

Crash(w) ==
    /\ ~Doing(w, "idle") /\ Fault
    /\ inflight' = IF Doing(w, "put") THEN inflight \union {Asset(w)} ELSE inflight
    /\ work' = [work EXCEPT ![w] = Idle]
    /\ UNCHANGED <<document, stored, lease>>

\* Thirty minutes without a checkpoint: the holder is gone or, a fault, stuck; never within a PUT.
LeaseLapse ==
    /\ LeaseLive
    /\ IF lease.owner = None \/ Doing(lease.owner, "idle") THEN UNCHANGED faults
                                                          ELSE ~Doing(lease.owner, "put") /\ Fault
    /\ lease' = [lease EXCEPT !.until = "expired"]
    /\ UNCHANGED <<document, bucket, work>>

-----------------------------------------------------------------------------
Run(w) == \/ Poll(w) \/ Claim(w) \/ Deny(w) \/ Release(w) \/ Failed(w)
          \/ Recover(w) \/ Look(w) \/ JudgeRecovery(w) \/ Send(w) \/ Put(w) \/ Ack(w)
          \/ BeginProcess(w) \/ Start(w) \/ BeginFrame(w) \/ Decode(w) \/ Stage(w) \/ AddCover(w) \/ SelectCover(w) \/ FinishJob(w)
          \/ BeginPublish(w) \/ CopyCover(w) \/ Replace(w) \/ Granted(w) \/ InsertTrack(w)
          \/ Sweep(w) \/ PickAsset(w) \/ Drop(w) \/ JudgeCleanup(w) \/ Erase(w) \/ Confirm(w) \/ CleanFail(w) \/ CleanEnd(w)

WorkStep == /\ (\E w \in Worker : Run(w) \/ Crash(w)) \/ LeaseLapse
            /\ UNCHANGED <<admin, view, calls, commands>>

Next == Review \/ Ask \/ WorkStep \/ Environment \/ \E r \in Request : CallStep(r)

WorkInit == Init /\ work = [w \in Worker |-> Idle]

Spec == WorkInit /\ [][Next]_vars

\* The worker ticks, a request ends, time passes.
Fairness == /\ \A w \in Worker : WF_vars(Run(w) /\ UNCHANGED <<admin, view, calls, commands>>)
            /\ \A r \in Request : /\ WF_vars(CallStep(r))
                                  /\ WF_vars(IngressLapse(r) /\ UNCHANGED <<view, work, commands>>)
            /\ WF_vars(LeaseLapse /\ UNCHANGED <<admin, view, calls, commands>>)
            /\ \A a \in 1..MaxAssets : WF_vars(a \in 1..Len(assets) /\ Settle(a) /\ UNCHANGED <<view, work, commands>>)

FairSpec == Spec /\ Fairness

-----------------------------------------------------------------------------
Published == {track.output, track.cover} \ {0}

\* Cleanup never removes "an object still owned by a published MediaTrack": what a
\* track plays and shows is in the store, whatever jobs, retries and cancellations follow.
PublishedIsKept == Published \subseteq stored

\* The same as a refinement: objects come and go as SafeStore allows, a track only
\* ever shows stored ones, and no object is deleted while a track shows it.
Store == INSTANCE SafeStore WITH Key <- 1..MaxAssets, shown <- Published
PublicationIsSafe == Store!Spec

\* What a track plays and shows are copies of what its approval was given for, though
\* copies are retried under new objects and the project moves on.
ApprovedIsPublished ==
    track.output # 0 => /\ assets[track.output].of = project.pub.approved.output
                        /\ IF project.pub.approved.cover = 0 THEN track.cover = 0
                           ELSE track.cover # 0 /\ assets[track.cover].of = project.pub.approved.cover

\* An object recorded as deleted is gone for good: it is not in the store and no
\* PUT of it can arrive any more, so no record of an uncertain write is given up.
DeletedIsGone ==
    \A a \in 1..Len(assets) : assets[a].state = "deleted" => a \notin stored \union inflight

\* "No known key is ever overwritten": while a PUT is under way, no earlier PUT of the
\* same object has arrived or may still arrive, though the writer before may have crashed.
SentOnce == /\ \A w \in Worker : Doing(w, "put") => Asset(w) \notin stored \union inflight
            /\ \A r \in Request : At(r, "put") => Own(r) \notin stored \union inflight

\* Over documents that keep their shape, no object is written twice, and one
\* recorded as deleted is gone for good.
ObjectsAreWrittenOnce == TypeOK /\ SentOnce /\ DeletedIsGone

\* A cover chosen for an older request never replaces the choice of a later one, be
\* it an edit, an upload or a frame, in whatever order their work ends.
LaterChoiceStands == [][choiceBy' >= choiceBy]_choiceBy

\* A cancelled project ends without objects: cleanup is repeated until every write
\* has settled and every object is confirmed gone.
CancelledIsCleaned == project.cancelled ~> (project.cancelled /\ project.cleaned /\ stored = {})
=============================================================================
