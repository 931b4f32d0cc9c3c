----------------------------- MODULE Conversion -----------------------------
(***************************************************************************)
(* administration/conversion/conversionService.ts: an administrator's      *)
(* browser encodes a lossless track as MP3 and the server installs it.     *)
(* An operation goes prepared - reserved - sent - stored - attached, or to *)
(* cancelled.  A call claims the operation's lease, then alternates calls  *)
(* to the object store, which are not transactional, with transactions on  *)
(* the operation and the track.  The call keeps a copy `doc` of the        *)
(* operation it last saw; a lease may expire under it, and a PUT may be    *)
(* accepted although its caller saw an error.                              *)
(***************************************************************************)
EXTENDS Naturals, FiniteSets

CONSTANTS
    Operation,  \* conversion intents; an operation is also its target key
    Worker,     \* concurrent calls
    Original,   \* key of the bytes the track was uploaded with
    None,
    MaxClaims,  \* bound on leases handed out
    MaxEdits,   \* bound on edits of the track beside conversions
    LatePuts    \* may a PUT be accepted after its call saw an error or lost its lease?

ConversionAssumption ==
    /\ Original \notin Operation
    /\ None \notin Operation \union {Original}
    /\ MaxClaims \in Nat /\ MaxEdits \in Nat /\ LatePuts \in BOOLEAN

VARIABLES
    ops,      \* adminMp3ConversionOperations
    track,    \* the audioTracks row: active, pending and cleanup keys
    stored,   \* keys with an object in the store
    inflight, \* operations with a PUT that may still be accepted
    claims,   \* lease owners handed out so far
    calls     \* the running calls

vars == <<ops, track, stored, inflight, claims, calls>>

Key == Operation \union {Original}

NoOp == [stage |-> "none", source |-> None, rev |-> 0, owner |-> 0, live |-> FALSE,
         granted |-> FALSE, cancel |-> FALSE, mayPut |-> FALSE, identity |-> FALSE,
         cleanup |-> FALSE, upload |-> "notStarted", publication |-> "notStarted"]

NoCall == [pc |-> "idle", op |-> None, doc |-> NoOp, mine |-> 0, kind |-> "none", first |-> FALSE]

Stage == {"none", "prepared", "reserved", "sent", "stored", "attached", "cancelled"}
Place == {"idle", "claim", "source", "reserve", "sourceAgain", "target", "dispatch", "put", "reject",
          "unconfirmed", "record", "attach", "finish", "publish", "settle", "cleanup", "headSource",
          "authorizeDelete", "deleteSource", "confirmGone", "cleared", "cleanupFailed", "authorize",
          "headCancelled", "retain", "authorizeAgain", "deleteTarget", "cancelled",
          "cancelUnconfirmed", "noObject", "release"}
OpType == [stage : Stage, source : Key \union {None}, rev : Nat, owner : 0..MaxClaims, live : BOOLEAN,
           granted : BOOLEAN, cancel : BOOLEAN, mayPut : BOOLEAN, identity : BOOLEAN, cleanup : BOOLEAN,
           upload : {"notStarted", "pending", "unknown", "ready", "failed"},
           publication : {"notStarted", "ready", "failed", "unknown"}]

TypeOK == /\ ops \in [Operation -> OpType]
          /\ track \in [active : Key, pending : Operation \union {None}, cleanup : Key \union {None}, rev : Nat]
          /\ stored \subseteq Key /\ inflight \subseteq Operation
          /\ claims \in 0..MaxClaims
          /\ calls \in [Worker -> [pc : Place, op : Operation \union {None}, doc : OpType, mine : 0..MaxClaims,
                                   kind : {"none", "upload", "reconcile", "cancel"}, first : BOOLEAN]]

Init == /\ ops = [o \in Operation |-> NoOp]
        /\ track = [active |-> Original, pending |-> None, cleanup |-> None, rev |-> 0]
        /\ stored = {Original}
        /\ inflight = {}
        /\ claims = 0
        /\ calls = [w \in Worker |-> NoCall]

-----------------------------------------------------------------------------
\* Helpers of the calls.

Doc(w) == calls[w].doc
Op(w) == calls[w].op

Goto(w, place) == calls' = [calls EXCEPT ![w].pc = place]
\* An error: recorded as an issue on the operation, then `finally`.
Throw(w) == Goto(w, "release")
\* The copy's own idea of the expiry is never asked for.
Learn(w, doc, place) == calls' = [calls EXCEPT ![w].pc = place, ![w].doc = [doc EXCEPT !.live = FALSE]]

\* available(): nobody holds a lease that has not expired.
Available(op) == op.owner = 0 \/ ~op.live

\* Mutant: any live lease will do.
OwnsAnyLease(w) == ops[Op(w)].live

\* The lease test of checkpoint, reserve, attach and the cancellation.
Owns(w) == /\ ops[Op(w)].owner = Doc(w).owner
           /\ ops[Op(w)].live

\* Mutant: any source is as good.
SourceUnasked(op) == op.rev <= track.rev

\* assertConversionSource: the track still is what the intent was made for.
SourceUnchanged(op) == op.rev = track.rev /\ op.source = track.active

\* checkpoint(): update of the operation by the owner of the live lease, from
\* its current value; `next` names where the call goes on.
Checkpoint(w, allowed, updated, next) ==
    /\ IF allowed /\ Owns(w)
       THEN /\ ops' = [ops EXCEPT ![Op(w)] = updated]
            /\ Learn(w, updated, next)
       ELSE Throw(w) /\ UNCHANGED ops
    /\ UNCHANGED <<track, stored, inflight, claims>>

\* head() of a key: found, absent or, with the service unreachable, an error.
Head(w, key, found, absent, error) ==
    /\ \/ key \in stored /\ Goto(w, found)
       \/ key \notin stored /\ Goto(w, absent)
       \/ Goto(w, error)
    /\ UNCHANGED <<ops, track, stored, inflight, claims>>

At(w, place) == calls[w].pc = place

-----------------------------------------------------------------------------
\* Requests.

\* prepareConversionOperation: one transaction freezes source and target.
Prepare(o) ==
    /\ ops[o].stage = "none"
    /\ track.pending = None /\ track.cleanup = None
    /\ track.active \in stored
    /\ track.active # o
    /\ ops' = [ops EXCEPT ![o] = [NoOp EXCEPT !.stage = "prepared", !.source = track.active,
                                              !.rev = track.rev, !.granted = TRUE]]
    /\ UNCHANGED <<track, stored, inflight, claims, calls>>

\* uploadConversionOutput until the validation of the file; an operation that
\* already has its bytes is reconciled instead.
BeginUpload(w, o) ==
    /\ At(w, "idle")
    /\ ops[o].stage \notin {"none", "cancelled"}
    /\ ops[o].stage \in {"attached", "stored"} \/ (~ops[o].cancel /\ ops[o].granted)
    /\ calls' = [calls EXCEPT ![w] = [NoCall EXCEPT !.pc = "claim", !.op = o, !.kind =
           IF ops[o].stage \in {"attached", "stored"} THEN "reconcile" ELSE "upload"]]
    /\ UNCHANGED <<ops, track, stored, inflight, claims>>

BeginReconcile(w, o) ==
    /\ At(w, "idle")
    /\ ops[o].stage # "none"
    /\ calls' = [calls EXCEPT ![w] = [NoCall EXCEPT !.pc = "claim", !.op = o, !.kind = "reconcile"]]
    /\ UNCHANGED <<ops, track, stored, inflight, claims>>

\* Where a reconciliation goes on, by what it has claimed.
ReconcileFrom(op) == CASE op.cancel /\ op.stage # "cancelled"                -> "authorize"
                       [] ~op.cancel /\ op.stage = "attached"                -> "finish"
                       [] ~op.cancel /\ op.stage \in {"reserved", "sent", "stored"} -> "target"
                       [] OTHER                                              -> "release"

\* claim(): hand out a new lease; a cancelled operation is returned without one.
Claim(w) ==
    /\ At(w, "claim")
    /\ LET o == Op(w)
           next(doc) == IF calls[w].kind = "upload" THEN "source" ELSE ReconcileFrom(doc)
       IN  \/ /\ ops[o].stage = "cancelled" /\ Available(ops[o])
              /\ Learn(w, ops[o], next(ops[o]))
              /\ UNCHANGED <<ops, claims>>
           \/ /\ ops[o].stage # "cancelled" /\ Available(ops[o])
              /\ ops[o].stage = "attached" \/ ops[o].cancel \/ ops[o].granted
              /\ claims < MaxClaims
              /\ LET doc == [ops[o] EXCEPT !.owner = claims + 1, !.live = TRUE]
                 IN  /\ ops' = [ops EXCEPT ![o] = doc]
                     /\ calls' = [calls EXCEPT ![w].pc = next(doc), ![w].doc = [doc EXCEPT !.live = FALSE], ![w].mine = claims + 1]
              /\ claims' = claims + 1
           \/ /\ ~Available(ops[o]) \/ (ops[o].stage \notin {"attached", "cancelled"} /\ ~ops[o].cancel /\ ~ops[o].granted)
              /\ calls' = [calls EXCEPT ![w] = NoCall]
              /\ UNCHANGED <<ops, claims>>
    /\ UNCHANGED <<track, stored, inflight>>

\* cancelConversionOperation: take the lease and mark the operation.
BeginCancel(w, o) ==
    /\ At(w, "idle")
    /\ Available(ops[o])
    /\ ops[o].stage \notin {"none", "attached", "cancelled"}
    /\ claims < MaxClaims
    /\ LET doc == [ops[o] EXCEPT !.cancel = TRUE, !.owner = claims + 1, !.live = TRUE]
       IN  /\ ops' = [ops EXCEPT ![o] = doc]
           /\ calls' = [calls EXCEPT ![w] = [pc |-> "authorize", op |-> o, doc |-> [doc EXCEPT !.live = FALSE], mine |-> claims + 1,
                                             kind |-> "cancel", first |-> FALSE]]
    /\ claims' = claims + 1
    /\ UNCHANGED <<track, stored, inflight>>

-----------------------------------------------------------------------------
\* Upload: reserve the track, put the object, record it, attach it.

\* sourceStillStored, before the reservation and again before the attachment.
CheckSource(w) ==
    /\ At(w, "source")
    /\ Head(w, Doc(w).source, "reserve", "release", "release")

Reserve(w) ==
    /\ At(w, "reserve")
    /\ LET o == Op(w)
           op == [ops[o] EXCEPT !.stage = "reserved", !.upload = "pending"]
       IN IF /\ Doc(w).granted /\ SourceUnchanged(Doc(w))
             /\ track.cleanup = None /\ track.pending \in {None, o}
             /\ Owns(w) /\ ~ops[o].cancel
          THEN /\ track' = [track EXCEPT !.pending = o]
               /\ ops' = [ops EXCEPT ![o] = op]
               /\ Learn(w, op, "target")
          ELSE Throw(w) /\ UNCHANGED <<ops, track>>
    /\ UNCHANGED <<stored, inflight, claims>>

\* The object may be there from an earlier attempt.  A reconciliation only
\* looks; an upload goes on to send.
HeadTarget(w) ==
    /\ At(w, "target")
    /\ Head(w, Op(w), "record", IF calls[w].kind = "upload" THEN "dispatch" ELSE "noObject",
            "release")

\* A reconciliation that found nothing records it.
NoObject(w) ==
    /\ At(w, "noObject")
    /\ Checkpoint(w, TRUE, [ops[Op(w)] EXCEPT !.upload = IF Doc(w).stage = "reserved" THEN "failed" ELSE "unknown"],
                  "release")

\* The checkpoint before the PUT: from here on it may have happened.
Dispatch(w) ==
    /\ At(w, "dispatch")
    /\ LET o == Op(w)
           send(op) == [op EXCEPT !.stage = "sent", !.upload = "unknown", !.mayPut = TRUE]
       IN IF ops[o].granted /\ Owns(w)
          THEN /\ ops' = [ops EXCEPT ![o] = send(@)]
               /\ calls' = [calls EXCEPT ![w].pc = "put", ![w].doc = [send(ops[o]) EXCEPT !.live = FALSE], ![w].first = ~Doc(w).mayPut]
               /\ inflight' = inflight \union {o}
          ELSE Throw(w) /\ UNCHANGED <<ops, inflight>>
    /\ UNCHANGED <<track, stored, claims>>

\* The store accepts a conditional PUT (If-None-Match: *), or never does.
PutLands(o) == /\ o \in inflight
               /\ stored' = stored \union {o}
               /\ inflight' = inflight \ {o}
               /\ UNCHANGED <<ops, track, claims, calls>>

PutVanishes(o) == /\ o \in inflight
                  /\ inflight' = inflight \ {o}
                  /\ UNCHANGED <<ops, track, stored, claims, calls>>

\* The call sees a success or finds the object after an error; or the error
\* says nothing; or a first and only attempt was definitely rejected.
PutReturns(w) ==
    /\ At(w, "put")
    /\ LatePuts \/ Op(w) \notin inflight
    /\ \/ Op(w) \in stored /\ Goto(w, "record")
       \/ Goto(w, "unconfirmed")
       \/ Op(w) \notin stored \union inflight /\ calls[w].first /\ Goto(w, "reject")
    /\ UNCHANGED <<ops, track, stored, inflight, claims>>

Unconfirmed(w) ==
    /\ At(w, "unconfirmed")
    /\ Checkpoint(w, TRUE, [ops[Op(w)] EXCEPT !.upload = "unknown"], "release")

\* Mutants: a reservation that is not given back, or given to the source.
UnreservedNever(o) == track
UnreservedToSource(o) == [track EXCEPT !.pending = IF @ = o THEN Original ELSE @]

\* After a proven rejection the intent starts afresh and the track is free.
Unreserved(o) == [track EXCEPT !.pending = IF @ = o THEN None ELSE @]

Reject(w) ==
    /\ At(w, "reject")
    /\ LET o == Op(w)
           op == [ops[o] EXCEPT !.stage = "prepared", !.upload = "failed", !.mayPut = FALSE]
       IN IF ops[o].owner = Doc(w).owner /\ ~ops[o].identity /\ ops[o].stage = "sent"
          THEN /\ ops' = [ops EXCEPT ![o] = op]
               /\ track' = Unreserved(o)
               /\ Learn(w, op, "release")
          ELSE Throw(w) /\ UNCHANGED <<ops, track>>
    /\ UNCHANGED <<stored, inflight, claims>>

Record(w) ==
    /\ At(w, "record")
    /\ Checkpoint(w, TRUE, [ops[Op(w)] EXCEPT !.identity = TRUE, !.upload = "ready", !.stage = "stored"],
                  "sourceAgain")

CheckSourceAgain(w) ==
    /\ At(w, "sourceAgain")
    /\ Head(w, Doc(w).source, "attach", "release", "release")

\* Mutant: installs from what the call read when it claimed.
MayInstallUnread(w) == SourceUnchanged(Doc(w)) /\ track.pending = Op(w) /\ track.cleanup = None

\* What the installing transaction reads again before it writes.
MayInstall(w) == /\ Owns(w) /\ ~ops[Op(w)].cancel
                 /\ SourceUnchanged(Doc(w)) /\ track.pending = Op(w) /\ track.cleanup = None

\* attach(): promotion, invalidation of rooms and the receipt in one
\* transaction.  An operation that already is attached is returned as it is,
\* with the lease owner it has now.
Attach(w) ==
    /\ At(w, "attach")
    /\ LET o == Op(w)
           op == [ops[o] EXCEPT !.stage = "attached", !.identity = TRUE, !.upload = "ready", !.cleanup = TRUE]
       IN CASE Doc(w).granted /\ ops[o].stage = "attached" ->
                   Learn(w, ops[o], "finish") /\ UNCHANGED <<ops, track>>
            [] Doc(w).granted /\ ops[o].stage # "attached" /\ MayInstall(w) ->
                   /\ ops' = [ops EXCEPT ![o] = op]
                   /\ track' = [active |-> o, pending |-> None, cleanup |-> Doc(w).source, rev |-> track.rev + 1]
                   /\ Learn(w, op, "finish")
            [] OTHER -> Throw(w) /\ UNCHANGED <<ops, track>>
    /\ UNCHANGED <<stored, inflight, claims>>

-----------------------------------------------------------------------------
\* finishAttached and cleanupPrevious: confirm the publication, then delete
\* the bytes the output replaced.

Finish(w) ==
    /\ At(w, "finish")
    /\ Goto(w, IF track.active = Op(w) THEN "publish" ELSE "cleanup")
    /\ UNCHANGED <<ops, track, stored, inflight, claims>>

\* confirmAttachedPublication, whose failure leaves the outcome unknown.
Publish(w) ==
    /\ At(w, "publish")
    /\ \E result \in {"failed", "unknown"} \union
           (IF Owns(w) /\ ops[Op(w)].stage = "attached" /\ track.active = Op(w) THEN {"ready"} ELSE {}) :
          Learn(w, [Doc(w) EXCEPT !.publication = result], "settle")
    /\ UNCHANGED <<ops, track, stored, inflight, claims>>

Settle(w) ==
    /\ At(w, "settle")
    /\ Checkpoint(w, TRUE, [ops[Op(w)] EXCEPT !.publication = Doc(w).publication], "cleanup")

\* The replaced bytes are not in use again.
SourceIsFree(w) == track.active # Doc(w).source /\ track.pending # Doc(w).source

Cleanup(w) ==
    /\ At(w, "cleanup")
    /\ Goto(w, IF Doc(w).cleanup /\ SourceIsFree(w) THEN "headSource" ELSE "release")
    /\ UNCHANGED <<ops, track, stored, inflight, claims>>

HeadSource(w) ==
    /\ At(w, "headSource")
    /\ Head(w, Doc(w).source, "authorizeDelete", "confirmGone", "cleanupFailed")

AuthorizeDelete(w) ==
    /\ At(w, "authorizeDelete")
    /\ Goto(w, IF SourceIsFree(w) THEN "deleteSource" ELSE "release")
    /\ UNCHANGED <<ops, track, stored, inflight, claims>>

\* A DELETE is carried out or not, whatever its caller sees.
DeleteSource(w) ==
    /\ At(w, "deleteSource")
    /\ stored' \in {stored, stored \ {Doc(w).source}}
    /\ Goto(w, "confirmGone") \/ Goto(w, "cleanupFailed")
    /\ UNCHANGED <<ops, track, inflight, claims>>

\* Mutant: the DELETE is believed.
ConfirmGoneUnread(w) ==
    /\ At(w, "confirmGone")
    /\ Goto(w, "cleared")
    /\ UNCHANGED <<ops, track, stored, inflight, claims>>

ConfirmGone(w) ==
    /\ At(w, "confirmGone")
    /\ Head(w, Doc(w).source, "cleanupFailed", "cleared", "cleanupFailed")

\* The transaction that forgets the replaced bytes; only the operation's
\* update asks for the lease owner.
Cleared(w) ==
    /\ At(w, "cleared")
    /\ track' = [track EXCEPT !.cleanup = IF @ = Doc(w).source THEN None ELSE @]
    /\ ops' = [ops EXCEPT ![Op(w)].cleanup = @ /\ ops[Op(w)].owner # Doc(w).owner]
    /\ Learn(w, [Doc(w) EXCEPT !.cleanup = FALSE], "release")
    /\ UNCHANGED <<stored, inflight, claims>>

CleanupFailed(w) ==
    /\ At(w, "cleanupFailed")
    /\ Checkpoint(w, TRUE, [ops[Op(w)] EXCEPT !.cleanup = TRUE], "release")

-----------------------------------------------------------------------------
\* cleanupCancelled: give up an output that was never attached.

MayCancel(w) == Owns(w) /\ ops[Op(w)].cancel /\ ops[Op(w)].stage # "attached" /\ track.active # Op(w)

\* An intent that was never sent, or definitely rejected, owns no object.
Authorize(w) ==
    /\ At(w, "authorize")
    /\ Goto(w, IF ~MayCancel(w) THEN "release"
               ELSE IF ~Doc(w).mayPut /\ ~Doc(w).identity THEN "cancelled" ELSE "headCancelled")
    /\ UNCHANGED <<ops, track, stored, inflight, claims>>

\* Mutant: absent is absent.
HeadCancelledAbsent(w) ==
    /\ At(w, "headCancelled")
    /\ Head(w, Op(w), "retain", "cancelled", "cancelUnconfirmed")

HeadCancelled(w) ==
    /\ At(w, "headCancelled")
    /\ Head(w, Op(w), "retain", IF Doc(w).identity THEN "cancelled" ELSE "cancelUnconfirmed", "cancelUnconfirmed")

Retain(w) ==
    /\ At(w, "retain")
    /\ Checkpoint(w, TRUE, [ops[Op(w)] EXCEPT !.identity = TRUE], "authorizeAgain")

AuthorizeAgain(w) ==
    /\ At(w, "authorizeAgain")
    /\ Goto(w, IF MayCancel(w) THEN "deleteTarget" ELSE "release")
    /\ UNCHANGED <<ops, track, stored, inflight, claims>>

\* DELETE and the head() that confirms it.
DeleteTarget(w) ==
    /\ At(w, "deleteTarget")
    /\ stored' \in {stored, stored \ {Op(w)}}
    /\ \/ Op(w) \notin stored' /\ Goto(w, "cancelled")
       \/ Goto(w, "cancelUnconfirmed")
    /\ UNCHANGED <<ops, track, inflight, claims>>

Cancelled(w) ==
    /\ At(w, "cancelled")
    /\ LET o == Op(w)
           op == [ops[o] EXCEPT !.stage = "cancelled", !.upload = "failed", !.cleanup = FALSE]
       IN IF ops[o].owner = Doc(w).owner /\ ops[o].cancel
          THEN /\ ops' = [ops EXCEPT ![o] = op]
               /\ track' = Unreserved(o)
               /\ Learn(w, op, "release")
          ELSE Throw(w) /\ UNCHANGED <<ops, track>>
    /\ UNCHANGED <<stored, inflight, claims>>

CancelUnconfirmed(w) ==
    /\ At(w, "cancelUnconfirmed")
    /\ Checkpoint(w, TRUE, [ops[Op(w)] EXCEPT !.cleanup = TRUE, !.upload = IF Doc(w).identity THEN @ ELSE "unknown"],
                  "release")

-----------------------------------------------------------------------------
\* `finally`: release(), by the owner the call's copy names.
ReleasedBy(w) == ops[Op(w)].owner = Doc(w).owner /\ Doc(w).owner # 0

Release(w) ==
    /\ At(w, "release")
    /\ ops' = [ops EXCEPT ![Op(w)] = IF ReleasedBy(w) THEN [@ EXCEPT !.owner = 0, !.live = FALSE] ELSE @]
    /\ calls' = [calls EXCEPT ![w] = NoCall]
    /\ UNCHANGED <<track, stored, inflight, claims>>

\* The process of a call ends; its lease stays until it expires.
Crash(w) == /\ ~At(w, "idle")
            /\ calls' = [calls EXCEPT ![w] = NoCall]
            /\ UNCHANGED <<ops, track, stored, inflight, claims>>

\* A lease outlasts a PUT (300 s against 90 s) unless LatePuts says otherwise.
Expire(o) == /\ ops[o].live
             /\ LatePuts \/ o \notin inflight
             /\ ops' = [ops EXCEPT ![o].live = FALSE]
             /\ UNCHANGED <<track, stored, inflight, claims, calls>>

\* The administrator's approval is good for a day.
ApprovalEnds(o) == /\ ops[o].granted
                   /\ ops' = [ops EXCEPT ![o].granted = FALSE]
                   /\ calls' = [w \in Worker |-> IF Op(w) = o THEN [calls[w] EXCEPT !.doc.granted = FALSE] ELSE calls[w]]
                   /\ UNCHANGED <<track, stored, inflight, claims>>

\* editAdminCatalogItem: any other edit of the track's catalogue fields.
EditTrack == /\ track.rev < MaxEdits
             /\ track' = [track EXCEPT !.rev = @ + 1]
             /\ UNCHANGED <<ops, stored, inflight, claims, calls>>

Step(w) == \/ Claim(w) \/ CheckSource(w) \/ Reserve(w) \/ HeadTarget(w) \/ NoObject(w) \/ Dispatch(w)
           \/ PutReturns(w) \/ Unconfirmed(w) \/ Reject(w) \/ Record(w) \/ CheckSourceAgain(w) \/ Attach(w)
           \/ Finish(w) \/ Publish(w) \/ Settle(w) \/ Cleanup(w) \/ HeadSource(w) \/ AuthorizeDelete(w)
           \/ DeleteSource(w) \/ ConfirmGone(w) \/ Cleared(w) \/ CleanupFailed(w)
           \/ Authorize(w) \/ HeadCancelled(w) \/ Retain(w) \/ AuthorizeAgain(w) \/ DeleteTarget(w)
           \/ Cancelled(w) \/ CancelUnconfirmed(w) \/ Release(w)

Next == \/ \E w \in Worker : Step(w) \/ Crash(w)
        \/ \E w \in Worker, o \in Operation : BeginUpload(w, o) \/ BeginReconcile(w, o) \/ BeginCancel(w, o)
        \/ \E o \in Operation : Prepare(o) \/ PutLands(o) \/ PutVanishes(o) \/ Expire(o) \/ ApprovalEnds(o)
        \/ EditTrack

Spec == Init /\ [][Next]_vars

-----------------------------------------------------------------------------
\* What the service promises.

\* No listener is ever shown a track whose bytes are gone: installs wait for a
\* stored object, and deletions, authorised in one transaction and carried out
\* after it, never hit the bytes the track shows.
Catalogue == INSTANCE SafeStore WITH shown <- {track.active}
BytesAreSafe == Catalogue!Spec

\* The track is reserved exactly by the one operation that is between its
\* reservation and its end: a reservation nobody answers for would refuse
\* every later upload, and an operation without one could not be installed.
ReservationsAgree ==
    \A o \in Operation : (track.pending = o) <=> ops[o].stage \in {"reserved", "sent", "stored"}

\* Replaced bytes are remembered, by the operation and by the track, until
\* they are gone; whoever forgets them first, they are gone by then.  It takes
\* that a PUT ends before the lease of its call: one that lands after its object
\* was attached, replaced and deleted leaves bytes nobody remembers.
ReplacedBytesAreAccountedFor ==
    \A o \in Operation : ops[o].stage = "attached" /\ ops[o].source \in stored =>
        ops[o].cleanup /\ track.cleanup = ops[o].source

\* An operation is cancelled without ever having seen its object only if there
\* is none and none is on its way: an absent object proves nothing while a PUT
\* may have been accepted.
CancelledLeavesNothing ==
    \A o \in Operation : ops[o].stage = "cancelled" /\ ~ops[o].identity => o \notin stored \union inflight

\* The reservation of the track and what is left in the store agree with the
\* operations, whoever of several calls wrote last.
ConversionAgrees == TypeOK /\ ReservationsAgree /\ CancelledLeavesNothing

\* The two ends of an operation are final, whatever late calls still do.
EndsStay == \A o \in Operation : ops[o].stage \in {"attached", "cancelled"} => ops'[o].stage = ops[o].stage
EndsAreFinal == [][EndsStay]_vars

\* "Only this exact worker can release its own lease" (conversionService.ts:188).
OwnLeaseReleased ==
    [][\A w \in Worker : Release(w) /\ ReleasedBy(w) /\ ops[Op(w)].live => Doc(w).owner = calls[w].mine]_vars
=============================================================================
