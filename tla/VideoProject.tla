----------------------------- MODULE VideoProject -----------------------------
(***************************************************************************)
(* services/media/adminVideoService.ts: one administrator's video project. *)
(* The project document names every object it may ever write before the    *)
(* write is sent; assets are numbered in that order and never reuse a key. *)
(* Here are the document, the administrator's commands and the two calls   *)
(* that talk to the object store, the upload and the reconciliation; the   *)
(* worker that processes, publishes and cleans up is in VideoWorker.       *)
(***************************************************************************)
EXTENDS Naturals, Sequences, FiniteSets

CONSTANTS
    Request,     \* upload operations, each with its ingress
    Worker,      \* server processes that run the worker
    None,
    Asks,        \* the commands this instance issues
    Reviewed,    \* does the project start processed, or empty?
    MaxAssets,   \* bound on objects named
    MaxCovers,   \* eight in the code
    MaxCommands, \* bound on commands
    MaxFaults    \* bound on lost replies, failed calls, crashes, overrun leases and revocations

VideoAssumption ==
    /\ None \notin Request \union Worker
    /\ Reviewed \in BOOLEAN
    /\ {MaxAssets, MaxCovers, MaxCommands, MaxFaults} \subseteq Nat
    /\ Reviewed => MaxAssets > 0

VARIABLES
    project,  \* adminVideoProjects
    assets,   \* its objects
    settled,  \* the objects past their settleAfter
    ingress,  \* its uploads
    track,    \* the objects of the published audioTracks row; 0 for none
    lease,    \* leaseOwner and leaseUntil
    admin,    \* is the owner an administrator?
    view,     \* the approval digest the administrator saw last
    choiceBy, \* history: the command the cover choice answers
    stored,   \* objects in the store
    inflight, \* objects whose failed PUT may still be accepted
    calls,    \* the calls of the upload operations
    work,     \* the worker of each process
    commands, \* commands issued so far
    faults    \* faults so far

document == <<project, assets, settled, ingress, track, choiceBy>>
bucket == <<stored, inflight>>
vars == <<document, bucket, lease, admin, view, calls, work, commands, faults>>

Id == 0..MaxAssets
\* The cover choice 'automatic'; 0 is the choice of none.
Automatic == MaxAssets + 1

NoView == [ok |-> FALSE, output |-> 0, cover |-> 0, choice |-> 0]
IdlePublication == [state |-> "idle", pending |-> FALSE, output |-> 0, cover |-> 0, target |-> 0, coverTarget |-> 0,
                    granted |-> FALSE, approved |-> NoView]
NewProject == [cancelled |-> FALSE, cleaned |-> TRUE, source |-> 0, output |-> 0, auto |-> 0, choice |-> Automatic, rev |-> 0,
               proc |-> "idle", facts |-> FALSE, frame |-> [state |-> "idle", rev |-> 0, ask |-> 0], pub |-> IdlePublication]
NoIngress == [state |-> "none", kind |-> "none", rev |-> 0, live |-> FALSE, held |-> FALSE, at |-> 0]
NoCall == [pc |-> "idle", asset |-> 0, found |-> "no"]
NoTrack == [output |-> 0, cover |-> 0]

NewAsset(kind, of, by, ask) ==
    [kind |-> kind, of |-> of, state |-> "pending", sent |-> FALSE, known |-> FALSE, by |-> by, ask |-> ask]

View == [ok : BOOLEAN, output : Id, cover : Id, choice : 0..Automatic]
JobState == {"idle", "queued", "running", "ready", "failed"}
ProjectTypeOK ==
    /\ project \in [cancelled : BOOLEAN, cleaned : BOOLEAN, source : Id, output : Id, auto : Id, choice : 0..Automatic, rev : Nat,
                    proc : JobState, facts : BOOLEAN, frame : [state : JobState, rev : Nat, ask : 0..MaxCommands],
                    pub : [state : {"idle", "queued", "running", "complete", "failed", "cancelled"}, pending : BOOLEAN,
                           output : Id, cover : Id, target : Id, coverTarget : Id, granted : BOOLEAN, approved : View]]
    /\ Len(assets) <= MaxAssets
    /\ \A a \in 1..Len(assets) :
          assets[a] \in [kind : {"source", "output", "cover", "published", "publishedCover"}, of : Id,
                         state : {"pending", "ready", "unknown", "failed", "deleting", "cleanupFailed", "deleted"},
                         sent : BOOLEAN, known : BOOLEAN, by : Request \union {None}, ask : 0..MaxCommands]
    /\ Cardinality({a \in 1..Len(assets) : assets[a].kind = "cover" /\ assets[a].state # "deleted"}) <= MaxCovers
    /\ Cardinality({r \in Request : ingress[r].state = "receiving"}) <= 1
    /\ view \in View
    /\ settled \union stored \union inflight \subseteq 1..Len(assets)

\* createAdminVideoProject; or the same project, processed without a new output and waiting for its review.
Init == /\ project = IF Reviewed THEN [NewProject EXCEPT !.source = 1, !.output = 1, !.proc = "ready", !.facts = TRUE, !.cleaned = FALSE]
                                 ELSE NewProject
        /\ assets = IF Reviewed THEN <<[NewAsset("source", 1, None, 0) EXCEPT !.state = "ready", !.sent = TRUE, !.known = TRUE]>> ELSE <<>>
        /\ settled = {} /\ inflight = {}
        /\ stored = IF Reviewed THEN {1} ELSE {}
        /\ ingress = [r \in Request |-> NoIngress]
        /\ track = NoTrack /\ view = NoView /\ choiceBy = 0
        /\ lease = [owner |-> None, until |-> "null"]
        /\ admin = TRUE
        /\ calls = [r \in Request |-> NoCall]
        /\ commands = 0 /\ faults = 0

-----------------------------------------------------------------------------
\* What the document says.

Ready(a) == a \in 1..Len(assets) /\ assets[a].state = "ready"
Covers == {a \in 1..Len(assets) : assets[a].kind = "cover"}

\* Mutant: covers without number.
CoverRoomAlways == Cardinality(Covers) <= MaxAssets

\* One more cover may be kept.
CoverRoom ==
    Cardinality({a \in Covers : assets[a].state # "deleted"}) < MaxCovers
SelectedCover == IF project.choice = Automatic THEN project.auto ELSE project.choice
Locked == project.pub.state \in {"queued", "running", "complete", "failed"}
Open == ~project.cancelled /\ ~Locked
LeaseLive == lease.until = "live"
Receiving(r) == ingress[r].state = "receiving"

\* videoApprovalDigest.
Digest ==
    [ok |-> /\ ~project.cancelled /\ \A r \in Request : ~Receiving(r)
            /\ project.proc = "ready" /\ Ready(project.source) /\ Ready(project.output)
            /\ project.choice \in {0, Automatic} \/ Ready(project.choice),
     output |-> project.output, cover |-> IF Ready(SelectedCover) THEN SelectedCover ELSE 0, choice |-> project.choice]

\* There is no source, or its upload has failed.
SourceOpen == \A a \in 1..Len(assets) : a = project.source => assets[a].state \in {"failed", "deleted"}
CoverOpen == CoverRoom /\ \A a \in Covers : assets[a].state \notin {"pending", "unknown"}

\* Mutant: a missing object counts as failed whenever its absence is seen.
LostAtOnce(a) == a \in 1..Len(assets)

\* An object that is not there now will not be there later.
Lost(a) == a \in settled

SetAsset(a, state, known) == assets' = [assets EXCEPT ![a].state = state, ![a].known = known]

\* Mutant: the intent is recorded when the bytes are.
SendUnrecorded(a) == assets' = [assets EXCEPT ![a].state = "unknown"]

\* The intent that precedes every PUT.
MarkSent(a) ==
    assets' = [assets EXCEPT ![a].sent = TRUE, ![a].state = "unknown"]

Fault == faults < MaxFaults /\ faults' = faults + 1

-----------------------------------------------------------------------------
\* Commands, each one transaction of the current administrator.  The revision and the
\* receipt they carry are left out: a command they refuse changes nothing.

Command(name) == /\ name \in Asks /\ commands < MaxCommands
                 /\ admin
                 /\ commands' = commands + 1
                 /\ UNCHANGED <<bucket, lease, admin, view, work, faults>>
Decide(p) == project' = p /\ UNCHANGED <<settled, ingress, track, calls>>

\* A read of the project.
Review == /\ admin /\ view # Digest
          /\ view' = Digest
          /\ UNCHANGED <<document, bucket, lease, admin, calls, work, commands, faults>>

\* editAdminVideoProject with a cover choice.
Edit(c) ==
    /\ Command("edit")
    /\ ~project.cancelled /\ project.pub.state \notin {"queued", "running", "complete"}
    /\ ~(project.pub.state = "failed" /\ LeaseLive)
    /\ c \in {0, Automatic} \/ (c \in Covers /\ Ready(c))
    /\ Decide([project EXCEPT !.choice = c, !.rev = @ + 1, !.pub = IF @.state = "failed" THEN IdlePublication ELSE @])
    /\ choiceBy' = commands'
    /\ UNCHANGED assets

RetryProcessing ==
    /\ Command("reprocess")
    /\ Open /\ Ready(project.source) /\ project.proc = "failed" /\ ~LeaseLive
    /\ Decide([project EXCEPT !.proc = "queued"])
    /\ UNCHANGED <<assets, choiceBy>>

RequestFrame ==
    /\ Command("frame")
    /\ Open /\ project.proc = "ready" /\ project.facts /\ ~LeaseLive /\ \A r \in Request : ~Receiving(r)
    /\ Decide([project EXCEPT !.frame = [state |-> "queued", rev |-> project.rev, ask |-> commands']])
    /\ UNCHANGED <<assets, choiceBy>>

\* Mutant: any valid project may be published, whatever was reviewed.
Approvable == Digest.ok

\* The approval names the project as it is now.
Approved == Digest.ok /\ view = Digest

Publish ==
    /\ Command("publish")
    /\ Open /\ ~LeaseLive /\ project.frame.state \notin {"queued", "running"}
    /\ Approved
    /\ Len(assets) + 2 <= MaxAssets
    /\ LET cover == Digest.cover
           targets == <<NewAsset("published", project.output, None, 0)>>
                      \o (IF cover # 0 THEN <<NewAsset("publishedCover", cover, None, 0)>> ELSE <<>>)
       IN  /\ assets' = assets \o targets
           /\ Decide([project EXCEPT !.pub = [state |-> "queued", pending |-> FALSE, output |-> project.output, cover |-> cover,
                                              target |-> Len(assets) + 1, coverTarget |-> IF cover # 0 THEN Len(assets) + 2 ELSE 0,
                                              granted |-> TRUE, approved |-> view]])
    /\ UNCHANGED choiceBy

\* Replayed under the approval's own operation, so neither lock nor revision is asked for.
RetryPublication ==
    /\ Command("retry")
    /\ project.pub.state = "failed" /\ ~LeaseLive
    /\ Decide([project EXCEPT !.pub.state = "queued"])
    /\ UNCHANGED <<assets, choiceBy>>

Cancel ==
    /\ Command("cancel")
    /\ ~LeaseLive /\ project.pub.state # "complete"
    /\ Decide([project EXCEPT !.cancelled = TRUE, !.cleaned = FALSE, !.pub.state = "cancelled", !.pub.pending = TRUE])
    /\ UNCHANGED <<assets, choiceBy>>

Cleanup ==
    /\ Command("cleanup")
    /\ ~LeaseLive /\ (project.cancelled \/ project.pub.state = "complete")
    /\ Decide([project EXCEPT !.cleaned = FALSE, !.pub.pending = TRUE])
    /\ UNCHANGED <<assets, choiceBy>>

-----------------------------------------------------------------------------
\* An upload: reserve, receive and digest, admit, mark as sent, PUT, record, finish.

At(r, place) == calls[r].pc = place
Goto(r, place) == calls' = [calls EXCEPT ![r].pc = place]

\* Mutant: an upload is its own affair.
AloneUnasked == project.rev \in Nat

\* No other upload is being received.
Alone ==
    \A q \in Request : Receiving(q) => ~ingress[q].live

\* reserveAdminVideoIngress: one upload receives at a time; expired ones are closed.
Reserve(r, kind) ==
    /\ Command(kind)
    /\ At(r, "idle") /\ Open
    /\ ingress[r].kind \in {"none", kind}
    /\ ingress[r].state \in {"none", "failed"} \/ (Receiving(r) /\ ~ingress[r].live)
    /\ \A a \in 1..Len(assets) : assets[a].by # r
    /\ Alone
    /\ IF kind = "source" THEN SourceOpen ELSE CoverOpen
    /\ LET first == ingress[r].state = "none"
           rev == IF first /\ kind = "cover" THEN project.rev + 1 ELSE project.rev
       IN  /\ project' = [project EXCEPT !.rev = rev, !.cleaned = FALSE]
           /\ ingress' = [q \in Request |->
                 IF q = r THEN [ingress[r] EXCEPT !.state = "receiving", !.kind = kind, !.live = TRUE, !.held = TRUE,
                                                  !.rev = IF first THEN rev ELSE @, !.at = IF first THEN commands' ELSE @]
                 ELSE IF Receiving(q) /\ ~ingress[q].live THEN [ingress[q] EXCEPT !.state = "failed", !.held = FALSE] ELSE ingress[q]]
    /\ Goto(r, "digest")
    /\ UNCHANGED <<assets, settled, track, choiceBy>>

\* A transaction of a call: done, done with the reply lost, or not done.
Transact(r, allowed, writes, next) ==
    \/ /\ admin /\ allowed
       /\ writes
       /\ \/ Goto(r, next) /\ UNCHANGED faults
          \/ Goto(r, "finish") /\ Fault
    \/ /\ IF admin /\ allowed THEN Fault ELSE UNCHANGED faults
       /\ Goto(r, "finish")
       /\ UNCHANGED document

\* Mutant: an upload is chosen whenever it is admitted.
ChosenAnyway(rev) == rev <= project.rev

\* No choice was made since the request that carries this revision.
Unchosen(rev) ==
    rev = project.rev

\* Select cover a for the request made by command `by`, if nothing was chosen since.
Select(p, a, rev, by) ==
    IF Unchosen(rev) THEN /\ project' = [p EXCEPT !.choice = a, !.rev = @ + 1]
                          /\ choiceBy' = by
                     ELSE /\ project' = p
                          /\ UNCHANGED choiceBy

\* admitVideoIngress: only the request that holds a live reservation names an object.
Admit(r) ==
    /\ At(r, "digest")
    /\ LET kind == ingress[r].kind
           a == Len(assets) + 1
       IN  Transact(r, /\ Open /\ Receiving(r) /\ ingress[r].live /\ ingress[r].held /\ a <= MaxAssets
                       /\ IF kind = "source" THEN SourceOpen ELSE CoverOpen,
              /\ assets' = Append(assets, NewAsset(kind, a, r, 0))
              /\ ingress' = [ingress EXCEPT ![r].state = "admitted"]
              /\ IF kind = "source" THEN project' = [project EXCEPT !.source = a, !.cleaned = FALSE] /\ UNCHANGED choiceBy
                                    ELSE Select([project EXCEPT !.cleaned = FALSE], a, ingress[r].rev, ingress[r].at)
              /\ UNCHANGED <<settled, track>>,
              "intent")
    /\ UNCHANGED <<bucket, lease>>

Own(r) == CHOOSE a \in 1..Len(assets) : assets[a].by = r

\* uploadVideoObjectIntent, its first transaction.
Intent(r) ==
    /\ At(r, "intent")
    /\ LET a == Own(r)
       IN Transact(r, Open /\ assets[a].state = "pending" /\ ~assets[a].sent,
                   MarkSent(a) /\ UNCHANGED <<project, settled, ingress, track, choiceBy>>, "put")
    /\ UNCHANGED <<bucket, lease>>

\* The PUT, attempted once: stored, or failed in a way that may yet succeed.
UploadPut(r) ==
    /\ At(r, "put")
    /\ \/ stored' = stored \union {Own(r)} /\ Goto(r, "record") /\ UNCHANGED <<inflight, faults>>
       \/ inflight' = inflight \union {Own(r)} /\ Goto(r, "finish") /\ Fault /\ UNCHANGED stored
    /\ UNCHANGED <<document, lease>>

\* The bytes of an upload are there: a source starts its processing.
Arrived(p, a) == IF assets[a].kind = "source" THEN [p EXCEPT !.proc = "queued"] ELSE p

Record(r) ==
    /\ At(r, "record")
    /\ LET a == Own(r)
       IN Transact(r, ~project.cancelled /\ assets[a].state = "unknown",
                   /\ SetAsset(a, "ready", TRUE) /\ project' = Arrived(project, a)
                   /\ UNCHANGED <<settled, ingress, track, choiceBy>>, "finish")
    /\ UNCHANGED <<bucket, lease>>

\* finishAdminVideoIngress asks for no role: it only releases the request's own reservation.
Finish(r) ==
    /\ At(r, "finish")
    /\ ingress' = IF ingress[r].held THEN [ingress EXCEPT ![r].held = FALSE, ![r].state = IF @ = "receiving" THEN "failed" ELSE @]
                                     ELSE ingress
    /\ calls' = [calls EXCEPT ![r] = NoCall]
    /\ UNCHANGED <<project, assets, settled, track, choiceBy, bucket, lease, faults>>

CrashCall(r) ==
    /\ ~At(r, "idle") /\ Fault
    /\ inflight' = IF At(r, "put") THEN inflight \union {Own(r)} ELSE inflight
    /\ calls' = [calls EXCEPT ![r] = NoCall]
    /\ UNCHANGED <<document, stored, lease>>

-----------------------------------------------------------------------------
\* reconcileVideoAsset: look for the object of an operation without an answer.

\* The operation has no object yet: its reservation may have expired.
ReconcileIngress(r) ==
    /\ Command("reconcile")
    /\ Receiving(r) /\ ~ingress[r].live
    /\ ingress' = [ingress EXCEPT ![r].state = "failed", ![r].held = FALSE]
    /\ UNCHANGED <<project, assets, settled, track, choiceBy, calls>>

Reconcile(r, a) ==
    /\ Command("reconcile")
    /\ At(r, "idle") /\ Open
    /\ assets[a].kind \in {"source", "cover"} /\ assets[a].state \in {"pending", "unknown"}
    /\ assets[a].kind = "cover" => ~LeaseLive
    /\ calls' = [calls EXCEPT ![r] = [pc |-> "inspect", asset |-> a, found |-> "no"]]
    /\ UNCHANGED document

Inspect(r) ==
    /\ At(r, "inspect")
    /\ \/ /\ calls' = [calls EXCEPT ![r].pc = "resolve", ![r].found = IF calls[r].asset \in stored THEN "yes" ELSE "no"]
          /\ UNCHANGED faults
       \/ calls' = [calls EXCEPT ![r].pc = "resolve", ![r].found = "error"] /\ Fault
    /\ UNCHANGED <<document, bucket, lease>>

\* The answer is written into the project as it is by then.
Resolve(r) ==
    /\ At(r, "resolve")
    /\ LET a == calls[r].asset
           found == calls[r].found
           framed == assets[a].kind = "cover" /\ assets[a].ask # 0 /\ assets[a].ask = project.frame.ask
       IN \/ /\ admin /\ Open /\ assets[a].state # "ready"
             /\ SetAsset(a, IF found = "yes" THEN "ready" ELSE IF found = "no" /\ Lost(a) THEN "failed" ELSE "unknown",
                         found = "yes" \/ assets[a].known)
             /\ IF found = "yes" /\ framed
                THEN Select([project EXCEPT !.frame.state = "ready"], a, project.frame.rev, project.frame.ask)
                ELSE project' = (IF found = "yes" THEN Arrived(project, a) ELSE project) /\ UNCHANGED choiceBy
             /\ UNCHANGED <<settled, ingress, track>>
          \/ ~(admin /\ Open /\ assets[a].state # "ready") /\ UNCHANGED document
    /\ calls' = [calls EXCEPT ![r] = NoCall]
    /\ UNCHANGED <<bucket, lease, faults>>

-----------------------------------------------------------------------------
\* Time, the store and the account.

IngressLapse(r) ==
    /\ Receiving(r) /\ ingress[r].live
    /\ ingress' = [ingress EXCEPT ![r].live = FALSE]
    /\ UNCHANGED <<project, assets, settled, track, choiceBy, bucket, lease, admin, calls, faults>>

GrantLapse ==
    /\ project.pub.state \in {"queued", "running", "failed"} /\ project.pub.granted
    /\ project' = [project EXCEPT !.pub.granted = FALSE]
    /\ UNCHANGED <<assets, settled, ingress, track, choiceBy, bucket, lease, admin, calls, faults>>

\* A worker asks the store for an object of which it has read no version.
UnknownTo(w, a) == work[w].asset = a /\ work[w].pc = "head" /\ ~work[w].known

\* A PUT ends, for its caller and for the store, a minute before its object's settleAfter
\* (120 seconds against 180), and an upload sends its object right after naming it.
\* The time is asked for while the version is unknown, to the document or to a worker.
Settle(a) ==
    /\ a \notin settled
    /\ ~assets[a].known \/ \E w \in Worker : UnknownTo(w, a)
    /\ \A r \in Request : calls[r].pc \in {"intent", "put", "record"} => Own(r) # a
    /\ \A w \in Worker : work[w].pc = "put" => work[w].asset # a
    /\ settled' = settled \union {a}
    /\ inflight' = inflight \ {a}
    /\ UNCHANGED <<project, assets, ingress, track, choiceBy, stored, lease, admin, calls, faults>>

LatePut(a) ==
    /\ a \in inflight
    /\ inflight' = inflight \ {a} /\ stored' = stored \union {a}
    /\ UNCHANGED <<document, lease, admin, calls, faults>>

Revoke == /\ "revoke" \in Asks /\ admin /\ Fault
          /\ admin' = FALSE
          /\ UNCHANGED <<document, bucket, lease, calls>>

Restore == /\ ~admin
           /\ admin' = TRUE
           /\ UNCHANGED <<document, bucket, lease, calls, faults>>

-----------------------------------------------------------------------------
Ask == \/ RetryProcessing \/ RequestFrame \/ Publish \/ RetryPublication \/ Cancel \/ Cleanup
       \/ \E c \in 0..Automatic : Edit(c)
       \/ \E r \in Request : \/ \E kind \in {"source", "cover"} : Reserve(r, kind)
                             \/ ReconcileIngress(r)
                             \/ \E a \in 1..Len(assets) : Reconcile(r, a)

CallStep(r) == /\ \/ Admit(r) \/ Intent(r) \/ UploadPut(r) \/ Record(r) \/ Finish(r)
                  \/ Inspect(r) \/ Resolve(r) \/ CrashCall(r)
               /\ UNCHANGED <<admin, view, work, commands>>

Environment == /\ \/ GrantLapse \/ Revoke \/ Restore
                  \/ \E r \in Request : IngressLapse(r)
                  \/ \E a \in 1..Len(assets) : Settle(a) \/ LatePut(a)
               /\ UNCHANGED <<view, work, commands>>
=============================================================================
