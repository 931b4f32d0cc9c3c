------------------------------- MODULE CoverArt -------------------------------
(***************************************************************************)
(* services/image and services/catalog: one Artist (or Album) is published *)
(* with cover art, has it replaced and removed, and is deleted.  Uploads   *)
(* are fenced by the owner's lifecycle, attachments by the art they        *)
(* replace, deletions by a lease whose receipt outlives the owner.  Every  *)
(* write may be carried out although its caller saw an error.              *)
(***************************************************************************)
EXTENDS Naturals, FiniteSets

CONSTANTS
    Key,       \* ids of images, drawn once each
    Worker,    \* concurrent requests
    None,
    MaxTokens  \* bound on deletion leases handed out

CoverArtAssumption == None \notin Key /\ MaxTokens \in Nat

VARIABLES
    owner,      \* the artists (albums) row
    op,         \* its catalogDeletionOperations row
    assets,     \* imageAssets
    referenced, \* does a credit, page or collection name the owner?
    stored,     \* images with an object in the store
    inflight,   \* images whose failed PUT may still be accepted
    late,       \* an attachment that failed and may still be carried out; the bound: one at a time
    drawn,      \* ids drawn so far
    calls       \* the running requests

vars == <<owner, op, assets, referenced, stored, inflight, late, drawn, calls>>
store == <<stored, inflight>>

Maybe(S) == S \union {None}

NewOwner == [status |-> "none", art |-> None, token |-> 0]
NoOp == [status |-> "none", token |-> 0, live |-> FALSE, prepared |-> {}]
NoAsset == [status |-> "none", unknown |-> FALSE, identity |-> FALSE, erased |-> FALSE]
NoCall == [pc |-> "idle", kind |-> "none", image |-> None, seen |-> None, erased |-> FALSE, acked |-> FALSE,
           token |-> 0, todo |-> {}, prepared |-> {}]

Exists == owner.status \in {"ready", "deleting", "deleteFailed"}

\* The owner and the receipt of its deletion tell the same story.
TypeOK ==
    /\ owner \in [status : {"none", "drawn", "ready", "deleting", "deleteFailed", "gone"}, art : Maybe(Key), token : 0..MaxTokens]
    /\ op \in [status : {"none", "inProgress", "failed"}, token : 0..MaxTokens, live : BOOLEAN, prepared : SUBSET Key]
    /\ assets \in [Key -> [status : {"none", "pending", "ready", "failed", "deleting", "deleteFailed"},
                           unknown : BOOLEAN, identity : BOOLEAN, erased : BOOLEAN]]
    /\ referenced \in BOOLEAN
    /\ stored \subseteq Key /\ inflight \subseteq Key /\ drawn \subseteq Key /\ late \subseteq Maybe(Key) \X Maybe(Key)
    /\ Exists => /\ owner.status = "ready" <=> op.status = "none"
                 /\ owner.status = "deleting" <=> op.status = "inProgress"
                 /\ op.status # "none" => owner.token = op.token

Init == /\ owner \in {NewOwner, [NewOwner EXCEPT !.status = "ready"]}
        /\ op = NoOp
        /\ assets = [k \in Key |-> NoAsset]
        /\ referenced = FALSE
        /\ stored = {} /\ inflight = {} /\ late = {} /\ drawn = {}
        /\ calls = [w \in Worker |-> NoCall]

-----------------------------------------------------------------------------
At(w, place) == calls[w].pc = place
Goto(w, place) == calls' = [calls EXCEPT ![w].pc = place]
Later(w, place, k) == calls' = [calls EXCEPT ![w] = [NoCall EXCEPT !.pc = place, !.image = k]]
Done(w) == calls' = [calls EXCEPT ![w] = NoCall]
Image(w) == calls[w].image
Seen(w) == calls[w].seen
Ready == owner.status = "ready"

\* An object is deleted for certain, or maybe, with an error.
DeleteObject(k, can, ok, failed) ==
    \/ can /\ stored' = stored \ {k} /\ ok
    \/ stored' \in {stored} \union (IF can THEN {stored \ {k}} ELSE {}) /\ failed

-----------------------------------------------------------------------------
\* uploadCoverArt, for a new owner or for one that is ready.

BeginCreate(w) ==
    /\ At(w, "idle") /\ owner.status = "none"
    /\ owner' = [owner EXCEPT !.status = "drawn"]
    /\ \E k \in Key \ drawn :
          /\ drawn' = drawn \union {k}
          /\ calls' = [calls EXCEPT ![w] = [NoCall EXCEPT !.pc = "stage", !.kind = "create", !.image = k]]
    /\ UNCHANGED <<op, assets, referenced, store, late>>

BeginReplace(w) ==
    /\ At(w, "idle") /\ Ready
    /\ \E k \in Key \ drawn :
          /\ drawn' = drawn \union {k}
          /\ calls' = [calls EXCEPT ![w] = [NoCall EXCEPT !.pc = "stage", !.kind = "replace", !.image = k, !.seen = owner.art]]
    /\ UNCHANGED <<owner, op, assets, referenced, store, late>>

BeginRemove(w) ==
    /\ At(w, "idle") /\ Ready
    /\ calls' = [calls EXCEPT ![w] = [NoCall EXCEPT !.pc = "verify", !.kind = "remove", !.seen = owner.art]]
    /\ UNCHANGED <<owner, op, assets, referenced, store, late, drawn>>

\* withCoverArtOwnerFence: the touch conflicts with every claim of the owner.
OwnerFence(w) == calls[w].kind = "create" \/ Ready

\* stageCoverArtLifecycleRecord: a lost reply is read back, or gives up.
Stage(w) ==
    /\ At(w, "stage")
    /\ \/ /\ OwnerFence(w)
          /\ assets' = [assets EXCEPT ![Image(w)] = [NoAsset EXCEPT !.status = "pending", !.unknown = TRUE]]
          /\ (Goto(w, "put") \/ Done(w))
       \/ Done(w) /\ UNCHANGED assets
    /\ UNCHANGED <<owner, op, referenced, store, late, drawn>>

\* Mutant: the error of a PUT is swallowed.
PutFailedUnnoticed(w) == Goto(w, "finalize")

PutFailed(w) == Goto(w, "markFailed")

\* The conditional PUT is acknowledged; or it fails and was accepted, may yet
\* be accepted, or never is.
Put(w) ==
    /\ At(w, "put")
    /\ \/ /\ stored' = stored \union {Image(w)}
          /\ calls' = [calls EXCEPT ![w].acked = TRUE, ![w].pc = "finalize"]
          /\ UNCHANGED inflight
       \/ /\ PutFailed(w)
          /\ \/ stored' = stored \union {Image(w)} /\ UNCHANGED inflight
             \/ inflight' = inflight \union {Image(w)} /\ UNCHANGED stored
             \/ UNCHANGED store
    /\ UNCHANGED <<owner, op, assets, referenced, late, drawn>>

LatePut(k) == /\ k \in inflight
              /\ stored' = stored \union {k}
              /\ inflight' = inflight \ {k}
              /\ UNCHANGED <<owner, op, assets, referenced, late, drawn, calls>>

\* finalizeStagedCoverArtLifecycleRecord: only a refusal that cannot have been
\* committed is compensated.
Finalize(w) ==
    /\ At(w, "finalize")
    /\ LET k == Image(w)
       IN \/ /\ OwnerFence(w) /\ assets[k].status = "pending"
             /\ assets' = [assets EXCEPT ![k] = [NoAsset EXCEPT !.status = "ready", !.identity = TRUE]]
             /\ \/ calls' = [calls EXCEPT ![w].acked = FALSE, ![w].pc = IF calls[w].kind = "create" THEN "insert" ELSE "verify"]
                \/ Done(w)
          \/ (Goto(w, "compensate") \/ Done(w)) /\ UNCHANGED assets
    /\ UNCHANGED <<owner, op, referenced, store, late, drawn>>

Compensate(w) ==
    /\ At(w, "compensate")
    /\ DeleteObject(Image(w), TRUE, calls' = [calls EXCEPT ![w].erased = TRUE, ![w].pc = "markFailed"], Goto(w, "markFailed"))
    /\ UNCHANGED <<owner, op, assets, referenced, inflight, late, drawn>>

\* markStagedCoverArtUploadFailed: its own failure is ignored.
MarkFailed(w) ==
    /\ At(w, "markFailed")
    /\ LET k == Image(w)
           failed == [status |-> "failed", unknown |-> ~calls[w].acked, identity |-> calls[w].acked, erased |-> calls[w].erased]
       IN  assets' \in {assets, [assets EXCEPT ![k] = IF @.status = "pending" THEN failed ELSE @]}
    /\ Done(w)
    /\ UNCHANGED <<owner, op, referenced, store, late, drawn>>

-----------------------------------------------------------------------------
\* The art is attached: with the insert of a new owner, or over the art seen.

\* insertPublishedArtist and publishNewArtist: compensation only where the
\* insert cannot have been committed.
Insert(w) ==
    /\ At(w, "insert")
    /\ \/ owner' = [owner EXCEPT !.status = "ready", !.art = Image(w)] /\ Done(w)
       \/ (Later(w, "drop", Image(w)) \/ Done(w)) /\ UNCHANGED owner
    /\ UNCHANGED <<op, assets, referenced, store, late, drawn>>

\* The new image, if there is one, goes.
GiveUp(w) == IF Image(w) = None THEN Done(w) ELSE Later(w, "drop", Image(w))

\* verifyPreviousAsset
Verify(w) ==
    /\ At(w, "verify")
    /\ \/ Seen(w) \in {None} \union {k \in Key : assets[k].status # "none"} /\ Goto(w, "attach")
       \/ Seen(w) # None /\ GiveUp(w)
    /\ UNCHANGED <<owner, op, assets, referenced, store, late, drawn>>

Attachable(seen) == Ready /\ owner.art = seen

\* updateCoverArtById: applied or not, with or without a reply, perhaps late.
Attach(w) ==
    /\ At(w, "attach")
    /\ \/ /\ Attachable(Seen(w))
          /\ owner' = [owner EXCEPT !.art = Image(w)]
          /\ (Later(w, "drop", Seen(w)) \/ Goto(w, "confirm"))
          /\ UNCHANGED late
       \/ /\ (GiveUp(w) \/ Goto(w, "confirm"))
          /\ UNCHANGED <<owner, late>>
       \/ /\ late = {} /\ Goto(w, "confirm")
          /\ late' = {<<Seen(w), Image(w)>>}
          /\ UNCHANGED owner
    /\ UNCHANGED <<op, assets, referenced, store, drawn>>

LateAttach == \E u \in late :
    /\ late' = late \ {u}
    /\ owner' = IF Attachable(u[1]) THEN [owner EXCEPT !.art = u[2]] ELSE owner
    /\ UNCHANGED <<op, assets, referenced, store, drawn, calls>>

\* Mutant: what does not read back was not done.
UnconfirmedGivenUp(w) == GiveUp(w)

\* What cannot be read back authorises no deletion on either side.
Unconfirmed(w) == Done(w)

Confirm(w) ==
    /\ At(w, "confirm")
    /\ \/ Exists /\ owner.art = Image(w) /\ Later(w, "drop", Seen(w))
       \/ (owner.art # Image(w) \/ ~Exists) /\ Unconfirmed(w)
       \/ Done(w)
    /\ UNCHANGED <<owner, op, assets, referenced, store, late, drawn>>

-----------------------------------------------------------------------------
\* deleteCoverArt, of the replaced or of the unused image.

Preparable(k) == assets[k].status \notin {"none", "pending"}

\* prepareCoverArtDeletion: the mark goes over the record as read.
Drop(w) ==
    /\ At(w, "drop")
    /\ LET k == Image(w)
       IN \/ /\ k # None /\ Preparable(k)
             /\ assets' = [assets EXCEPT ![k].status = "deleting"]
             /\ Later(w, "erase", k)
          \/ /\ assets' \in {assets} \union (IF k # None /\ Preparable(k) THEN {[assets EXCEPT ![k].status = "deleting"]} ELSE {})
             /\ Done(w)
    /\ UNCHANGED <<owner, op, referenced, store, late, drawn>>

\* Mutant: a DELETE by key alone.
ErasableByKey(k) == TRUE

\* deleteImageStorageObject: only a version the store has acknowledged.
Erasable(k) == ~assets[k].unknown /\ (assets[k].erased \/ assets[k].identity)

Erase(w) ==
    /\ At(w, "erase")
    /\ DeleteObject(Image(w), Erasable(Image(w)), Goto(w, "forget"), Goto(w, "eraseFailed"))
    /\ UNCHANGED <<owner, op, assets, referenced, inflight, late, drawn>>

\* markCoverArtDeletionFailed
DeleteFailed(k) == [assets EXCEPT ![k].status = IF @ = "deleting" THEN "deleteFailed" ELSE @]

EraseFailed(w) ==
    /\ At(w, "eraseFailed")
    /\ assets' \in {assets, DeleteFailed(Image(w))}
    /\ Done(w)
    /\ UNCHANGED <<owner, op, referenced, store, late, drawn>>

\* finalizeCoverArtDeletion
Forget(w) ==
    /\ At(w, "forget")
    /\ LET k == Image(w)
       IN  assets' \in {assets, [assets EXCEPT ![k] = IF @.status = "deleting" THEN NoAsset ELSE @]}
    /\ Done(w)
    /\ UNCHANGED <<owner, op, referenced, store, late, drawn>>

-----------------------------------------------------------------------------
\* deleteArtistAndReferences, deleteAlbumAndReferences

\* acquireCatalogDeletionLease: operation and owner are claimed together.  A
\* claim whose reply is lost holds the lease until it runs out.
Claimable == IF op.status = "none" THEN Ready ELSE op.status = "failed" \/ ~op.live

Acquire(w) ==
    /\ At(w, "idle") /\ Claimable /\ op.token < MaxTokens
    /\ LET token == op.token + 1
       IN /\ op' = [op EXCEPT !.status = "inProgress", !.token = token, !.live = TRUE]
          /\ owner' = IF Exists THEN [owner EXCEPT !.status = "deleting", !.token = token] ELSE owner
          /\ \/ calls' = [calls EXCEPT ![w] = [NoCall EXCEPT !.pc = IF Exists THEN "assert" ELSE "reprepare",
                             !.kind = IF Exists THEN "delete" ELSE "resume",
                             !.token = token, !.seen = owner.art, !.prepared = op.prepared]]
             \/ UNCHANGED calls
    /\ UNCHANGED <<assets, referenced, store, late, drawn>>

\* Mutant: any claim will do.
HeldByAnyone(w) == op.status = "inProgress" /\ op.live

Held(w) == op.status = "inProgress" /\ op.token = calls[w].token /\ op.live

Failing(w) == calls' = [calls EXCEPT ![w] = [NoCall EXCEPT !.pc = "fail", !.token = calls[w].token]]

\* runFenced: the writes under the lease, with or without a reply, or nothing.
Fenced(w, writes, next, error) ==
    \/ Held(w) /\ writes /\ (next \/ error)
    \/ error /\ UNCHANGED <<owner, op, assets>>

AssertHeld(w) ==
    /\ (At(w, "assert") \/ At(w, "assertAgain"))
    /\ Fenced(w, UNCHANGED <<owner, op, assets>>, Goto(w, IF At(w, "assert") THEN "list" ELSE "unreference"), Failing(w))
    /\ UNCHANGED <<referenced, store, late, drawn>>

\* prepareOwnerCoverArtDeletions: every image of the owner, the current one among them.
List(w) ==
    /\ At(w, "list")
    /\ LET images == {k \in Key : assets[k].status # "none"}
       IN  calls' = [calls EXCEPT ![w].todo = images, ![w].prepared = images,
                     ![w].seen = None, ![w].pc = IF Seen(w) \in images \union {None} THEN "prepare" ELSE "fail"]
    /\ UNCHANGED <<owner, op, assets, referenced, store, late, drawn>>

\* imagesNeedingPreparationRetry, when the owner is gone already.
Reprepare(w) ==
    /\ At(w, "reprepare")
    /\ Fenced(w, UNCHANGED <<owner, op, assets>>,
              calls' = [calls EXCEPT ![w].todo = {k \in calls[w].prepared : assets[k].status = "deleteFailed"}, ![w].pc = "prepare"],
              Failing(w))
    /\ UNCHANGED <<referenced, store, late, drawn>>

Prepare(w) ==
    /\ At(w, "prepare")
    /\ \/ /\ calls[w].todo = {}
          /\ Goto(w, IF calls[w].kind = "delete" THEN "record" ELSE "finalizeAll")
          /\ UNCHANGED assets
       \/ \E k \in calls[w].todo :
             IF Preparable(k)
             THEN Fenced(w, assets' = [assets EXCEPT ![k].status = "deleting"] /\ UNCHANGED <<owner, op>>,
                         calls' = [calls EXCEPT ![w].image = k, ![w].pc = "eraseOne"], Failing(w))
             ELSE Failing(w) /\ UNCHANGED assets
    /\ UNCHANGED <<owner, op, referenced, store, late, drawn>>

EraseOne(w) ==
    /\ At(w, "eraseOne")
    /\ LET k == Image(w)
       IN DeleteObject(k, Erasable(k), calls' = [calls EXCEPT ![w].todo = @ \ {k}, ![w].image = None, ![w].pc = "prepare"], Goto(w, "eraseOneFailed"))
    /\ UNCHANGED <<owner, op, assets, referenced, inflight, late, drawn>>

EraseOneFailed(w) ==
    /\ At(w, "eraseOneFailed")
    /\ Fenced(w, assets' = DeleteFailed(Image(w)) /\ UNCHANGED <<owner, op>>, Failing(w), Failing(w))
    /\ UNCHANGED <<referenced, store, late, drawn>>

\* recordPreparedImages
Record(w) ==
    /\ At(w, "record")
    /\ Fenced(w, op' = [op EXCEPT !.prepared = calls[w].prepared] /\ UNCHANGED <<owner, assets>>, Goto(w, "assertAgain"), Failing(w))
    /\ UNCHANGED <<referenced, store, late, drawn>>

\* cleanupDeletedContentReferences: no fence; it may stop half-way.
Unreference(w) ==
    /\ At(w, "unreference")
    /\ \/ referenced' = FALSE /\ Goto(w, "deleteOwner")
       \/ UNCHANGED referenced /\ Failing(w)
    /\ UNCHANGED <<owner, op, assets, store, late, drawn>>

\* deleteOwner, by the claim's referenceRevision; a lost reply is looked up.
DeleteOwner(w) ==
    /\ At(w, "deleteOwner")
    /\ Fenced(w, /\ owner.status = "deleting" /\ owner.token = calls[w].token
                 /\ owner' = [owner EXCEPT !.status = "gone", !.art = None]
                 /\ UNCHANGED <<op, assets>>,
              Goto(w, "finalizeAll"), Goto(w, "lookup"))
    /\ UNCHANGED <<referenced, store, late, drawn>>

Lookup(w) ==
    /\ At(w, "lookup")
    /\ (~Exists /\ Goto(w, "finalizeAll")) \/ (Exists /\ Failing(w)) \/ Done(w)
    /\ UNCHANGED <<owner, op, assets, referenced, store, late, drawn>>

\* finalizeImages: record and receipt entry go in one transaction.
FinalizeOne(w) ==
    /\ At(w, "finalizeAll")
    /\ \E k \in calls[w].prepared :
          Fenced(w, /\ assets[k].status \in IF k \in op.prepared THEN {"none", "deleting"} ELSE {"none"}
                    /\ assets' = [assets EXCEPT ![k] = NoAsset]
                    /\ op' = [op EXCEPT !.prepared = @ \ {k}]
                    /\ UNCHANGED owner,
                 calls' = [calls EXCEPT ![w].prepared = @ \ {k}], Failing(w))
    /\ UNCHANGED <<referenced, store, late, drawn>>

Complete(w) ==
    /\ At(w, "finalizeAll") /\ calls[w].prepared = {}
    /\ Fenced(w, /\ op.prepared = {} /\ ~Exists
                 /\ op' = [NoOp EXCEPT !.token = op.token]
                 /\ UNCHANGED <<owner, assets>>,
              Done(w), Failing(w))
    /\ UNCHANGED <<referenced, store, late, drawn>>

\* lease.fail, ignored where it fails itself.
Fail(w) ==
    /\ At(w, "fail")
    /\ Fenced(w, /\ owner' = IF owner.status = "deleting" /\ owner.token = calls[w].token THEN [owner EXCEPT !.status = "deleteFailed"] ELSE owner
                 /\ op' = [op EXCEPT !.status = "failed"]
                 /\ UNCHANGED assets,
              Done(w), Done(w))
    /\ UNCHANGED <<referenced, store, late, drawn>>

-----------------------------------------------------------------------------
\* Mutant: existence is enough.
ReferableWhileThere == Exists

Referable == Ready

\* touchReadyArtistReferences inside the transaction that stores a reference.
AddReference == /\ Referable
                /\ referenced' = TRUE
                /\ UNCHANGED <<owner, op, assets, store, late, drawn, calls>>

Expire == /\ op.live
          /\ op' = [op EXCEPT !.live = FALSE]
          /\ UNCHANGED <<owner, assets, referenced, store, late, drawn, calls>>

Crash(w) == /\ ~At(w, "idle")
            /\ Done(w)
            /\ UNCHANGED <<owner, op, assets, referenced, store, late, drawn>>

Step(w) == \/ BeginCreate(w) \/ BeginReplace(w) \/ BeginRemove(w) \/ Acquire(w)
           \/ Stage(w) \/ Put(w) \/ Finalize(w) \/ Compensate(w) \/ MarkFailed(w)
           \/ Insert(w) \/ Verify(w) \/ Attach(w) \/ Confirm(w) \/ Drop(w) \/ Erase(w) \/ EraseFailed(w) \/ Forget(w)
           \/ AssertHeld(w) \/ List(w) \/ Reprepare(w) \/ Prepare(w) \/ EraseOne(w) \/ EraseOneFailed(w) \/ Record(w)
           \/ Unreference(w) \/ DeleteOwner(w) \/ Lookup(w) \/ FinalizeOne(w) \/ Complete(w) \/ Fail(w)

Next == \/ \E w \in Worker : Step(w) \/ Crash(w)
        \/ \E k \in Key : LatePut(k)
        \/ LateAttach \/ AddReference \/ Expire

Spec == Init /\ [][Next]_vars

-----------------------------------------------------------------------------
\* What the services promise.

\* Public art (resolvePublicCoverArtAsset: attached to a ready owner, itself
\* ready) has its bytes, through every lost reply.
Shown == {k \in Key : Ready /\ owner.art = k /\ assets[k].status = "ready"}
Store == INSTANCE SafeStore WITH shown <- Shown
ShownIsStored == Store!Spec

\* A ready owner never names art that cannot be shown.
ArtIsShown == Ready /\ owner.art # None => owner.art \in Shown

\* The audit finds no object that no record names, and there never will be one.
Orphaned == {k \in stored \union inflight : assets[k].status = "none"}
NothingOrphaned == Orphaned = {}

\* An owner disappears after its objects and the references to it; the records
\* of its images after it, those before the receipt of its deletion.
DeletionIsThorough ==
    owner.status = "gone" =>
        /\ stored = {} /\ inflight = {} /\ ~referenced
        /\ {k \in Key : assets[k].status # "none"} \subseteq op.prepared
        /\ op.status = "none" => op.prepared = {}
=============================================================================
