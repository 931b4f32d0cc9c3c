---------------------------- MODULE AvatarStorage ----------------------------
(***************************************************************************)
(* services/avatar: one account replaces and deletes its avatar.  At most  *)
(* one mutation of the account is pending; a call holds its lease, renewed *)
(* by every transaction it commits, and alternates those transactions with *)
(* calls to the object store.  A mutation whose lease ran out is resumed,  *)
(* by whoever comes next, from the phase it recorded.  A transaction may   *)
(* commit although its caller saw an error.                                *)
(***************************************************************************)
EXTENDS Naturals, FiniteSets

CONSTANTS
    Key,        \* idempotency keys of mutations; a mutation's key also names the asset it uploads
    Worker,     \* concurrent requests
    None,
    MaxTokens   \* bound on leases handed out

AvatarAssumption == None \notin Key /\ MaxTokens \in Nat

VARIABLES
    user,     \* the account's avatar and avatarRevision
    muts,     \* avatarMutations
    assets,   \* imageAssets of the account
    stored,   \* keys with an object in the store
    inflight, \* keys whose failed PUT may still be accepted
    tokens,   \* leases handed out so far
    applied,  \* history: the mutations that changed the account
    calls     \* the running requests

vars == <<user, muts, assets, stored, inflight, tokens, applied, calls>>

Maybe(S) == S \union {None}

NoMut == [status |-> "none", kind |-> "none", rev |-> 0, phase |-> "reserved", asset |-> None,
          token |-> 0, live |-> FALSE, result |-> "none"]
NoAsset == [status |-> "none", unknown |-> FALSE, identity |-> FALSE, by |-> None, token |-> 0]
NoCall == [pc |-> "idle", op |-> None, token |-> 0, phase |-> "reserved", asset |-> None, resumed |-> FALSE,
           seen |-> [avatar |-> None, rev |-> 0], acked |-> FALSE, target |-> None, for |-> "none",
           todo |-> {}, result |-> "none"]

Phase == {"reserved", "uploading", "uploaded", "promoted", "deleting", "cleared"}

TypeOK ==
    /\ user \in [avatar : Maybe(Key), rev : Nat]
    /\ muts \in [Key -> [status : {"none", "pending", "completed"}, kind : {"none", "replace", "delete"}, rev : Nat,
                         phase : Phase, asset : Maybe(Key), token : 0..MaxTokens, live : BOOLEAN,
                         result : {"none", "done", "refused"}]]
    /\ assets \in [Key -> [status : {"none", "pending", "ready", "failed", "deleting", "deleteFailed"},
                           unknown : BOOLEAN, identity : BOOLEAN, by : Maybe(Key), token : 0..MaxTokens]]
    /\ stored \subseteq Key /\ inflight \subseteq Key /\ applied \subseteq Key
    /\ tokens \in 0..MaxTokens
    /\ Cardinality({k \in Key : muts[k].status = "pending"}) <= 1

Init == /\ user = [avatar |-> None, rev |-> 0]
        /\ muts = [k \in Key |-> NoMut]
        /\ assets = [k \in Key |-> NoAsset]
        /\ stored = {} /\ inflight = {} /\ applied = {}
        /\ tokens = 0
        /\ calls = [w \in Worker |-> NoCall]

-----------------------------------------------------------------------------
At(w, place) == calls[w].pc = place
Op(w) == calls[w].op
Goto(w, place) == calls' = [calls EXCEPT ![w].pc = place]
Answer(w, result) == calls' = [calls EXCEPT ![w].pc = "complete", ![w].result = result]

\* Mutant: any token of the pending mutation will do.
FencedByStatus(w) == muts[Op(w)].status = "pending" /\ muts[Op(w)].live

\* withAvatarMutationLease: the fence every transaction of a call reads first.
Fenced(w) == /\ muts[Op(w)].status = "pending"
             /\ muts[Op(w)].token = calls[w].token
             /\ muts[Op(w)].live

\* A fenced transaction: its writes and the call's next place, the same writes
\* with the reply lost, or nothing.
Txn(w, allowed, writes, next, error) ==
    \/ Fenced(w) /\ allowed /\ writes /\ (next \/ Goto(w, error))
    \/ Goto(w, error) /\ UNCHANGED <<user, muts, assets, applied>>

\* setAvatarMutationPhase: the record and, if the reply arrives, the call's copy.
Record(w, phase, asset) == muts' = [muts EXCEPT ![Op(w)].phase = phase, ![Op(w)].asset = asset]
Learn(w, phase, asset, place) ==
    calls' = [calls EXCEPT ![w].phase = phase, ![w].asset = asset, ![w].pc = place]

-----------------------------------------------------------------------------
\* Mutant: only mutations that hold a live lease count as pending.
PendingLive == {p \in Key : muts[p].status = "pending" /\ muts[p].live}

Pending == {p \in Key : muts[p].status = "pending"}

\* beginAvatarMutation: resume the pending mutation if its lease ran out, or
\* reserve a new one.  A completed one is answered from its receipt, which
\* changes nothing.  executeAvatarMutation's second attempt, after a recovery,
\* is a Begin of its own.
Begin(w, k, kind, rev) ==
    /\ At(w, "idle") /\ tokens < MaxTokens
    /\ tokens' = tokens + 1
    /\ muts[k].status = "none" \/ (muts[k].status = "pending" /\ muts[k].kind = kind /\ muts[k].rev = rev)
    /\ \/ \E p \in Pending :
             /\ ~muts[p].live
             /\ muts' = [muts EXCEPT ![p].token = tokens + 1, ![p].live = TRUE]
             /\ calls' = [calls EXCEPT ![w] = [NoCall EXCEPT !.pc = "start", !.op = p, !.token = tokens + 1,
                             !.phase = muts[p].phase, !.asset = muts[p].asset, !.resumed = TRUE]]
       \/ /\ Pending = {}
          /\ muts' = [muts EXCEPT ![k] = [NoMut EXCEPT !.status = "pending", !.kind = kind, !.rev = rev,
                                                      !.token = tokens + 1, !.live = TRUE]]
          /\ calls' = [calls EXCEPT ![w] = [NoCall EXCEPT !.pc = "start", !.op = k, !.token = tokens + 1]]
    /\ UNCHANGED <<user, assets, stored, inflight, applied>>

\* runAvatarOperation: read the account once, go on from the recorded phase.
Start(w) ==
    /\ At(w, "start")
    /\ LET phase == calls[w].phase
           refused == phase = "reserved" /\ (calls[w].resumed \/ user.rev # muts[Op(w)].rev)
       IN  calls' = [calls EXCEPT ![w].seen = user,
                 ![w].result = IF refused THEN "refused" ELSE @,
                 ![w].pc = CASE refused -> "complete"
                             [] phase = "reserved" /\ ~refused -> IF muts[Op(w)].kind = "replace" THEN "stage" ELSE "mark"
                             [] phase = "uploading" -> "confirm"
                             [] phase = "uploaded" -> "judge"
                             [] phase = "deleting" -> "examine"
                             [] phase = "cleared" -> "final"
                             [] phase = "promoted" -> "cleanup"]
    /\ UNCHANGED <<user, muts, assets, stored, inflight, tokens, applied>>

-----------------------------------------------------------------------------
\* Replace: stage the asset, put the object, record it, publish it.

\* uploadAvatar: a file that cannot be decoded ends the call before this.
Stage(w) ==
    /\ At(w, "stage")
    /\ LET k == Op(w)
       IN Txn(w, assets[k].status = "none",
              /\ Record(w, "uploading", k)
              /\ assets' = [assets EXCEPT ![k] = [NoAsset EXCEPT !.status = "pending", !.unknown = TRUE]]
              /\ UNCHANGED <<user, applied>>,
              Learn(w, "uploading", k, "put"), "release")
    /\ UNCHANGED <<stored, inflight, tokens>>

\* The conditional PUT is acknowledged; or it fails and was accepted, may yet
\* be accepted, or never is.
Put(w) ==
    /\ At(w, "put")
    /\ \/ /\ stored' = stored \union {Op(w)}
          /\ calls' = [calls EXCEPT ![w].acked = TRUE, ![w].pc = "uploaded"]
          /\ UNCHANGED inflight
       \/ /\ Goto(w, "failAsset")
          /\ \/ stored' = stored \union {Op(w)} /\ UNCHANGED inflight
             \/ inflight' = inflight \union {Op(w)} /\ UNCHANGED stored
             \/ UNCHANGED <<stored, inflight>>
    /\ UNCHANGED <<user, muts, assets, tokens, applied>>

LatePut(k) == /\ k \in inflight
              /\ stored' = stored \union {k}
              /\ inflight' = inflight \ {k}
              /\ UNCHANGED <<user, muts, assets, tokens, applied, calls>>

Uploaded(w) ==
    /\ At(w, "uploaded")
    /\ LET k == Op(w)
       IN Txn(w, assets[k].status = "pending",
              /\ Record(w, "uploaded", k)
              /\ assets' = [assets EXCEPT ![k].status = "ready", ![k].identity = TRUE, ![k].unknown = FALSE]
              /\ UNCHANGED <<user, applied>>,
              Learn(w, "uploaded", k, "judge"), "failAsset")
    /\ UNCHANGED <<stored, inflight, tokens>>

\* The unfenced catch of uploadAvatar keeps what the store acknowledged.
FailAsset(w) ==
    /\ At(w, "failAsset")
    /\ LET k == Op(w)
           failed == [assets[k] EXCEPT !.status = "failed", !.unknown = ~calls[w].acked,
                                       !.identity = @ \/ calls[w].acked]
       IN  assets' \in {assets, [assets EXCEPT ![k] = IF @.status = "pending" THEN failed ELSE @]}
    /\ Goto(w, "release")
    /\ UNCHANGED <<user, muts, stored, inflight, tokens, applied>>

\* Mutant: an asset whose PUT was never acknowledged is good enough.
ConfirmedByStatus(k) == assets[k].status \in {"ready", "failed"}

\* An object the store acknowledged, under a record nobody is deleting.
Confirmed(k) == assets[k].status \in {"ready", "failed"} /\ ~assets[k].unknown /\ assets[k].identity

\* A resumed upload: missing acknowledgement ends the mutation, evidence kept.
Confirm(w) ==
    /\ At(w, "confirm")
    /\ IF Confirmed(Op(w)) THEN Goto(w, "settle") ELSE Answer(w, "refused")
    /\ UNCHANGED <<user, muts, assets, stored, inflight, tokens, applied>>

Settle(w) ==
    /\ At(w, "settle")
    /\ Txn(w, TRUE, Record(w, "uploaded", Op(w)) /\ UNCHANGED <<user, assets, applied>>,
           Learn(w, "uploaded", Op(w), "judge"), "release")
    /\ UNCHANGED <<stored, inflight, tokens>>

\* The account read at the start decides between publishing and giving up.
Judge(w) ==
    /\ At(w, "judge")
    /\ LET lost == calls[w].seen.rev # muts[Op(w)].rev
       IN CASE ~lost -> Goto(w, "promote")
            [] lost /\ calls[w].seen.avatar # Op(w) ->
                 calls' = [calls EXCEPT ![w].pc = "claim", ![w].target = Op(w), ![w].for = "own upload", ![w].result = "refused"]
            [] OTHER -> Answer(w, "refused")
    /\ UNCHANGED <<user, muts, assets, stored, inflight, tokens, applied>>

\* Mutant: publishes over whatever revision the account has.
PublishableAnyway(w) == Confirmed(Op(w))

Publishable(w) == Confirmed(Op(w)) /\ user.rev = muts[Op(w)].rev

\* promote
Promote(w) ==
    /\ At(w, "promote")
    /\ LET k == Op(w)
       IN Txn(w, Publishable(w),
              /\ Record(w, "promoted", k)
              /\ user' = [avatar |-> k, rev |-> user.rev + 1]
              /\ assets' = [assets EXCEPT ![k].status = "ready"]
              /\ applied' = applied \union {k},
              Learn(w, "promoted", k, "cleanup"), "release")
    /\ UNCHANGED <<stored, inflight, tokens>>

-----------------------------------------------------------------------------
\* Delete: erase the object, clear the account, forget the asset.

Mark(w) ==
    /\ At(w, "mark")
    /\ LET k == calls[w].seen.avatar
       IN Txn(w, TRUE, Record(w, "deleting", k) /\ UNCHANGED <<user, assets, applied>>,
              Learn(w, "deleting", k, "examine"), "release")
    /\ UNCHANGED <<stored, inflight, tokens>>

Examine(w) ==
    /\ At(w, "examine")
    /\ IF calls[w].seen = [avatar |-> calls[w].asset, rev |-> muts[Op(w)].rev]
       THEN IF calls[w].asset = None THEN Goto(w, "clear")
            ELSE calls' = [calls EXCEPT ![w].pc = "claim", ![w].target = calls[w].asset, ![w].for = "avatar"]
       ELSE Answer(w, "refused")
    /\ UNCHANGED <<user, muts, assets, stored, inflight, tokens, applied>>

\* clearOwner
Clear(w) ==
    /\ At(w, "clear")
    /\ LET k == calls[w].asset
       IN Txn(w, k = None \/ user = [avatar |-> k, rev |-> muts[Op(w)].rev],
              /\ Record(w, "cleared", k)
              /\ IF k = None THEN UNCHANGED <<user, applied>>
                 ELSE user' = [avatar |-> None, rev |-> user.rev + 1] /\ applied' = applied \union {Op(w)}
              /\ UNCHANGED assets,
              Learn(w, "cleared", k, "final"), "release")
    /\ UNCHANGED <<stored, inflight, tokens>>

Final(w) ==
    /\ At(w, "final")
    /\ IF calls[w].asset # None /\ assets[calls[w].asset].status # "none"
       THEN calls' = [calls EXCEPT ![w].pc = "drop", ![w].target = calls[w].asset, ![w].for = "cleared avatar"]
       ELSE Goto(w, "cleanup")
    /\ UNCHANGED <<user, muts, assets, stored, inflight, tokens, applied>>

-----------------------------------------------------------------------------
\* Deletion of one asset, for the four places that ask for it.

AfterDeletion(w) == CASE calls[w].for = "avatar" -> "clear"
                      [] calls[w].for = "own upload" -> "complete"
                      [] calls[w].for = "cleanup" -> "next"
                      [] calls[w].for = "cleared avatar" -> "cleanup"
AfterFailure(w) == IF calls[w].for = "avatar" THEN "release" ELSE AfterDeletion(w)

\* Only the deletion of the avatar itself may hit what the account shows.
Detached(w) == calls[w].for = "avatar" \/ user.avatar # calls[w].target

\* prepareAvatarAssetDeletion: the claim commits only over the record as read.
ClaimAsset(w) ==
    /\ At(w, "claim")
    /\ LET k == calls[w].target
       IN Txn(w, assets[k].status # "none" /\ Detached(w),
              /\ assets' = [assets EXCEPT ![k].status = "deleting", ![k].by = Op(w), ![k].token = calls[w].token]
              /\ UNCHANGED <<user, muts, applied>>,
              Goto(w, "erase"), AfterFailure(w))
    /\ UNCHANGED <<stored, inflight, tokens>>

\* Mutant: a DELETE by key alone.
ErasableByKey(k) == TRUE

\* deleteImageStorageObject: only a version the store has acknowledged.
Erasable(k) == ~assets[k].unknown /\ assets[k].identity

Erase(w) ==
    /\ At(w, "erase")
    /\ LET k == calls[w].target
       IN \/ /\ Erasable(k)
             /\ stored' = stored \ {k}
             /\ Goto(w, IF calls[w].for = "avatar" THEN "clear" ELSE "drop")
          \/ /\ stored' \in {stored} \union (IF Erasable(k) THEN {stored \ {k}} ELSE {})
             /\ Goto(w, "eraseFailed")
    /\ UNCHANGED <<user, muts, assets, inflight, tokens, applied>>

EraseFailed(w) ==
    /\ At(w, "eraseFailed")
    /\ LET k == calls[w].target
       IN  assets' \in {assets, [assets EXCEPT ![k].status =
               IF @ = "deleting" /\ assets[k].token = calls[w].token THEN "deleteFailed" ELSE @]}
    /\ Goto(w, AfterFailure(w))
    /\ UNCHANGED <<user, muts, stored, inflight, tokens, applied>>

\* finalizeAvatarAssetDeletion
Drop(w) ==
    /\ At(w, "drop")
    /\ LET k == calls[w].target
       IN Txn(w, assets[k].status = "deleting" /\ assets[k].by = Op(w),
              assets' = [assets EXCEPT ![k] = NoAsset] /\ UNCHANGED <<user, muts, applied>>,
              Goto(w, AfterDeletion(w)), AfterFailure(w))
    /\ UNCHANGED <<stored, inflight, tokens>>

\* cleanupDetachedAvatarAssets: read the account, then list what it does not show.
Cleanup(w) ==
    /\ At(w, "cleanup")
    /\ \/ Fenced(w) /\ calls' = [calls EXCEPT ![w].pc = "list", ![w].seen = user]
       \/ Goto(w, "release")
    /\ UNCHANGED <<user, muts, assets, stored, inflight, tokens, applied>>

List(w) ==
    /\ At(w, "list")
    /\ calls' = [calls EXCEPT ![w].pc = "next", ![w].for = "cleanup",
           ![w].todo = {k \in Key \ {calls[w].seen.avatar} : assets[k].status # "none"}]
    /\ UNCHANGED <<user, muts, assets, stored, inflight, tokens, applied>>

NextAsset(w) ==
    /\ At(w, "next")
    /\ \/ calls[w].todo = {} /\ Answer(w, "done")
       \/ \E k \in calls[w].todo :
             calls' = [calls EXCEPT ![w].pc = "claim", ![w].target = k, ![w].todo = @ \ {k}]
    /\ UNCHANGED <<user, muts, assets, stored, inflight, tokens, applied>>

-----------------------------------------------------------------------------
\* completeAvatarMutation
Complete(w) ==
    /\ At(w, "complete")
    /\ Txn(w, TRUE,
           /\ muts' = [muts EXCEPT ![Op(w)].status = "completed", ![Op(w)].result = calls[w].result]
           /\ UNCHANGED <<user, assets, applied>>,
           calls' = [calls EXCEPT ![w] = NoCall], "release")
    /\ UNCHANGED <<stored, inflight, tokens>>

\* Mutant: a mutation that failed is forgotten.
LetGoForgetting(w) == NoMut

\* What is left of the record: nothing if both the call and the record say that
\* nothing was dispatched, else the evidence, free to be resumed.
LetGo(w) == IF calls[w].phase # "reserved" THEN [muts[Op(w)] EXCEPT !.live = FALSE]
            ELSE IF muts[Op(w)].phase = "reserved" THEN NoMut ELSE muts[Op(w)]

\* releaseAvatarMutation
Release(w) ==
    /\ At(w, "release")
    /\ muts' \in {muts} \union (IF Fenced(w) THEN {[muts EXCEPT ![Op(w)] = LetGo(w)]} ELSE {})
    /\ calls' = [calls EXCEPT ![w] = NoCall]
    /\ UNCHANGED <<user, assets, stored, inflight, tokens, applied>>

Crash(w) == /\ ~At(w, "idle")
            /\ calls' = [calls EXCEPT ![w] = NoCall]
            /\ UNCHANGED <<user, muts, assets, stored, inflight, tokens, applied>>

Expire(k) == /\ muts[k].live /\ muts[k].status = "pending"
             /\ muts' = [muts EXCEPT ![k].live = FALSE]
             /\ UNCHANGED <<user, assets, stored, inflight, tokens, applied, calls>>

Step(w) == \/ Start(w) \/ Stage(w) \/ Put(w) \/ Uploaded(w) \/ FailAsset(w) \/ Confirm(w) \/ Settle(w) \/ Judge(w)
           \/ Promote(w) \/ Mark(w) \/ Examine(w) \/ Clear(w) \/ Final(w) \/ ClaimAsset(w) \/ Erase(w)
           \/ EraseFailed(w) \/ Drop(w) \/ Cleanup(w) \/ List(w) \/ NextAsset(w) \/ Complete(w) \/ Release(w)

Next == \/ \E w \in Worker, k \in Key, kind \in {"replace", "delete"}, rev \in 0..user.rev : Begin(w, k, kind, rev)
        \/ \E w \in Worker : Step(w) \/ Crash(w)
        \/ \E k \in Key : LatePut(k) \/ Expire(k)

Spec == Init /\ [][Next]_vars

-----------------------------------------------------------------------------
\* What the service promises.

\* An avatar that is served (getAvatarObject: attached and ready) has its bytes:
\* it is published after they are stored, and claimed before they are erased.
Served == {k \in Key : user.avatar = k /\ assets[k].status = "ready"}
Store == INSTANCE SafeStore WITH shown <- Served
ServedIsStored == Store!Spec

\* An account whose avatar cannot be served is in the middle of deleting it:
\* no failed, late or resumed call leaves a dead avatar behind.
DeadAvatarIsBeingDeleted ==
    user.avatar # None /\ Served = {} =>
        \E k \in Key : muts[k].status = "pending" /\ muts[k].kind = "delete"
                       /\ muts[k].phase = "deleting" /\ muts[k].asset = user.avatar

\* Bytes that are, or may yet be, in the store have a record to find them by.
BytesHaveARecord == \A k \in stored \union inflight : assets[k].status # "none"

\* A receipt says what happened: "done" if the mutation changed the account (a
\* deletion may have found nothing to change), "refused" if it did not.
ReceiptsAreTrue ==
    \A k \in Key : muts[k].status = "completed" =>
        /\ muts[k].result = "refused" => k \notin applied
        /\ muts[k].result = "done" => k \in applied \/ muts[k].asset = None

\* A mutation that was dispatched is never forgotten before it is answered.
DispatchedStay ==
    \A k \in Key : muts[k].status = "pending" /\ muts[k].phase # "reserved" => muts'[k].status # "none"
DispatchedIsRemembered == [][DispatchedStay]_vars
=============================================================================
