---------------------------- MODULE AudioStorage ----------------------------
(***************************************************************************)
(* services/audio: the one media object of a track is uploaded, replaced   *)
(* and deleted, and audited orphans are removed.  There is no lease: a     *)
(* call reads the track, talks to the object store and updates the track   *)
(* where it still is what the call read.  An update may be carried out     *)
(* although its caller saw an error, and so may a PUT or a DELETE.         *)
(***************************************************************************)
EXTENDS Naturals, FiniteSets

CONSTANTS
    Key,     \* keys the uploads draw, never twice
    Own,     \* the track's id, the key of a track not uploaded yet or uploaded long ago
    Alien,   \* key of an object no track knows
    Worker,  \* concurrent calls
    None

AudioAssumption == Own \notin Key /\ Alien \notin Key \union {Own} /\ None \notin Key \union {Own, Alien}

VARIABLES
    track,      \* the audioTracks row
    referenced, \* does a page, album or playlist name the track?
    stored,     \* keys with an object in the store
    inflight,   \* keys whose failed PUT may still be accepted
    drawn,      \* keys drawn so far
    calls       \* the running calls

vars == <<track, referenced, stored, inflight, drawn, calls>>

Maybe(S) == S \union {None}

NewTrack == [exists |-> TRUE, status |-> "pending", active |-> Own, pending |-> None, pstatus |-> "none",
             unknown |-> FALSE, cleanup |-> None, refs |-> "none"]
NoCall == [pc |-> "idle", read |-> NewTrack, key |-> None, keep |-> FALSE, unknown |-> FALSE, todo |-> {}]

TrackType == [exists : BOOLEAN, status : {"pending", "ready", "failed", "deleting", "deleteFailed"},
              active : Key \union {Own}, pending : Maybe(Key), pstatus : {"none", "pending", "failed"}, unknown : BOOLEAN,
              cleanup : Maybe(Key \union {Own}), refs : {"none", "pending", "failed", "complete"}]

AnyKey == Key \union {Own, Alien}

\* The row's keys are different.
TypeOK == /\ track \in TrackType
          /\ referenced \in BOOLEAN
          /\ stored \subseteq AnyKey /\ inflight \subseteq Key /\ drawn \subseteq Key
          /\ \A w \in Worker : calls[w].read \in TrackType /\ calls[w].key \in Maybe(AnyKey)
          /\ track.active \notin {track.pending, track.cleanup}
          /\ track.pending # None => track.pending # track.cleanup

Init == /\ \/ track = NewTrack /\ stored \in {{}, {Alien}}
           \/ track = [NewTrack EXCEPT !.status = "ready"] /\ stored \in {{Own}, {Own, Alien}}
        /\ referenced = FALSE
        /\ inflight = {} /\ drawn = {}
        /\ calls = [w \in Worker |-> NoCall]

-----------------------------------------------------------------------------
At(w, place) == calls[w].pc = place
Goto(w, place) == calls' = [calls EXCEPT ![w].pc = place]
Done(w) == calls' = [calls EXCEPT ![w] = NoCall]
Read(w) == calls[w].read

\* The keys the row accounts for (topLevelMediaLifecycleKeys).
Named(row) == {row.active, row.pending, row.cleanup} \ {None}

\* updateTrackWhere: the row is updated if it still matches, or is not; the
\* caller learns which, or sees an error.
Update(matches, row, ok, failed) ==
    \/ track.exists /\ matches /\ track' = row /\ (ok \/ failed)
    \/ failed /\ UNCHANGED track

\* A DELETE: confirmed, or carried out or not and reported as an error.
DeleteObject(k, ok, failed) ==
    \/ stored' = stored \ {k} /\ ok
    \/ stored' \in {stored, stored \ {k}} /\ failed

-----------------------------------------------------------------------------
\* uploadMediaObject

\* Mutant: an upload that is still running is no obstacle.
ReplaceableUnasked(row) == row.status \notin {"deleting", "deleteFailed"} /\ ~(row.pending # None /\ row.unknown)

\* What refuses an upload at once: a deletion, a running upload, or one whose
\* outcome is not known.
Replaceable(row) == /\ row.status \notin {"deleting", "deleteFailed"}
                    /\ ~(row.pending # None /\ (row.pstatus = "pending" \/ row.unknown))

BeginUpload(w) ==
    /\ At(w, "idle") /\ track.exists /\ Replaceable(track)
    /\ calls' = [calls EXCEPT ![w] = [NoCall EXCEPT !.pc = "tidy", !.read = track]]
    /\ UNCHANGED <<track, referenced, stored, inflight, drawn>>

SameRow(w) == /\ track.active = Read(w).active /\ track.status = Read(w).status
              /\ track.pending = Read(w).pending /\ track.cleanup = Read(w).cleanup

\* Objects left by an earlier replacement are deleted first, the pending one
\* before the replaced one.
Stale(w) == IF Read(w).pending # None THEN Read(w).pending ELSE Read(w).cleanup

Tidy(w) ==
    /\ At(w, "tidy")
    /\ IF Stale(w) = None THEN Goto(w, "reserve") /\ UNCHANGED stored
       ELSE DeleteObject(Stale(w), Goto(w, "forget"), Done(w))
    /\ UNCHANGED <<track, referenced, inflight, drawn>>

Forget(w) ==
    /\ At(w, "forget")
    /\ LET forget(row) == IF row.pending # None
                          THEN [row EXCEPT !.pending = None, !.pstatus = "none", !.unknown = FALSE]
                          ELSE [row EXCEPT !.cleanup = None]
       IN Update(SameRow(w) /\ track.pstatus = Read(w).pstatus, forget(track),
                 calls' = [calls EXCEPT ![w].read = forget(@), ![w].pc = "tidy"], Done(w))
    /\ UNCHANGED <<referenced, stored, inflight, drawn>>

Reservable(w) == SameRow(w) /\ track.pending = None /\ track.cleanup = None

Reserve(w) ==
    /\ At(w, "reserve")
    /\ \E k \in Key \ drawn :
          /\ drawn' = drawn \union {k}
          /\ Update(Reservable(w), [track EXCEPT !.pending = k, !.pstatus = "pending", !.unknown = TRUE],
                    calls' = [calls EXCEPT ![w].key = k, ![w].pc = "put"], Done(w))
    /\ UNCHANGED <<referenced, stored, inflight>>

Fail(w, keep, unknown) == calls' = [calls EXCEPT ![w].keep = keep, ![w].unknown = unknown, ![w].pc = "fail"]

\* The conditional PUT: acknowledged, definitely rejected, or unknown.
Put(w) ==
    /\ At(w, "put")
    /\ LET k == calls[w].key
       IN \/ stored' = stored \union {k} /\ Goto(w, "record") /\ UNCHANGED inflight
          \/ Fail(w, FALSE, FALSE) /\ UNCHANGED <<stored, inflight>>
          \/ /\ Fail(w, TRUE, TRUE)
             /\ \/ stored' = stored \union {k} /\ UNCHANGED inflight
                \/ inflight' = inflight \union {k} /\ UNCHANGED stored
                \/ UNCHANGED <<stored, inflight>>
    /\ UNCHANGED <<track, referenced, drawn>>

LatePut(k) == /\ k \in inflight
              /\ stored' = stored \union {k}
              /\ inflight' = inflight \ {k}
              /\ UNCHANGED <<track, referenced, drawn, calls>>

RecordVersion(w) ==
    /\ At(w, "record")
    /\ Update(track.pending = calls[w].key, [track EXCEPT !.unknown = FALSE], Goto(w, "attach"), Goto(w, "discard"))
    /\ UNCHANGED <<referenced, stored, inflight, drawn>>

\* The failed upload's own object.
Discard(w) ==
    /\ At(w, "discard")
    /\ DeleteObject(calls[w].key, Fail(w, FALSE, FALSE), Fail(w, TRUE, FALSE))
    /\ UNCHANGED <<track, referenced, inflight, drawn>>

\* Mutant: a failed upload leaves no trace on the row.
FailedForgetting(w) == [track EXCEPT !.pending = None, !.unknown = FALSE, !.pstatus = "failed"]

\* Mutant: whatever it was, the row has failed.
FailedAltogether(w) == [track EXCEPT !.pending = IF calls[w].keep THEN calls[w].key ELSE None, !.unknown = calls[w].unknown,
                                     !.pstatus = "failed", !.status = "failed"]

\* A key whose object may exist stays pending, marked failed.
Failed(w) == [track EXCEPT !.pending = IF calls[w].keep THEN calls[w].key ELSE None, !.unknown = calls[w].unknown,
                           !.pstatus = "failed", !.status = IF Read(w).status = "ready" THEN @ ELSE "failed"]

RecordFailure(w) ==
    /\ At(w, "fail")
    /\ Update(track.pending = calls[w].key, Failed(w), Done(w), Done(w))
    /\ UNCHANGED <<referenced, stored, inflight, drawn>>

\* Mutant: the new object is the replaced one.
ReplacedByItself(w) == calls[w].key

Replaced(w) == Read(w).active

Attach(w) ==
    /\ At(w, "attach")
    /\ LET k == calls[w].key
       IN Update(track.pending = k,
                 [track EXCEPT !.active = k, !.status = "ready", !.pending = None, !.pstatus = "none",
                               !.unknown = FALSE, !.cleanup = Replaced(w)],
                 Goto(w, "dropOld"), Goto(w, "confirm"))
    /\ UNCHANGED <<referenced, stored, inflight, drawn>>

\* An error says nothing: the row is read again, if it can be.
Confirm(w) ==
    /\ At(w, "confirm")
    /\ \/ Done(w)
       \/ IF track.exists /\ track.status = "ready" /\ track.active = calls[w].key THEN Goto(w, "dropOld") ELSE Goto(w, "discard")
    /\ UNCHANGED <<track, referenced, stored, inflight, drawn>>

DropOld(w) ==
    /\ At(w, "dropOld")
    /\ DeleteObject(Read(w).active, Goto(w, "clearOld"), Done(w))
    /\ UNCHANGED <<track, referenced, inflight, drawn>>

ClearOld(w) ==
    /\ At(w, "clearOld")
    /\ Update(/\ track.active = calls[w].key /\ track.status = "ready"
              /\ track.pending = None /\ track.cleanup = Read(w).active,
              [track EXCEPT !.cleanup = None], Done(w), Done(w))
    /\ UNCHANGED <<referenced, stored, inflight, drawn>>

-----------------------------------------------------------------------------
\* deleteAudioObjectAndTrack: fence the row, delete its objects, remove the
\* references to it, then the row.

\* Mutant: nothing is in the way of a deletion.
DeletableAnyway(row) == TRUE

Deletable(row) == ~(row.pending # None /\ (row.pstatus = "pending" \/ row.unknown))

BeginDelete(w) ==
    /\ At(w, "idle") /\ track.exists /\ Deletable(track)
    /\ calls' = [calls EXCEPT ![w] = [NoCall EXCEPT !.pc = "fence", !.read = track, !.todo = Named(track)]]
    /\ UNCHANGED <<track, referenced, stored, inflight, drawn>>

\* storageIdentity
SameStorage(w) == /\ track.active = Read(w).active /\ track.pending = Read(w).pending /\ track.cleanup = Read(w).cleanup
                  /\ track.pstatus = Read(w).pstatus /\ track.unknown = Read(w).unknown

Fence(w) ==
    /\ At(w, "fence")
    /\ Update(SameStorage(w) /\ track.status = Read(w).status, [track EXCEPT !.status = "deleting", !.refs = "pending"],
              Goto(w, "erase"), Done(w))
    /\ UNCHANGED <<referenced, stored, inflight, drawn>>

Erase(w) ==
    /\ At(w, "erase")
    /\ IF calls[w].todo = {} THEN Goto(w, "unreference") /\ UNCHANGED stored
       ELSE \E k \in calls[w].todo :
               DeleteObject(k, calls' = [calls EXCEPT ![w].todo = @ \ {k}], Goto(w, "deleteFailed"))
    /\ UNCHANGED <<track, referenced, inflight, drawn>>

\* cleanupDeletedContentReferences: a transaction of its own.
Unreference(w) ==
    /\ At(w, "unreference")
    /\ \/ referenced' = FALSE /\ Goto(w, "unreferenced")
       \/ referenced' \in {referenced, FALSE} /\ Goto(w, "deleteFailed")
    /\ UNCHANGED <<track, stored, inflight, drawn>>

Unreferenced(w) ==
    /\ At(w, "unreferenced")
    /\ Update(SameStorage(w) /\ track.status = "deleting" /\ track.refs = "pending", [track EXCEPT !.refs = "complete"],
              Goto(w, "remove"), Goto(w, "deleteFailed"))
    /\ UNCHANGED <<referenced, stored, inflight, drawn>>

Removable(w) == SameStorage(w) /\ track.status = "deleting" /\ track.refs = "complete"

Remove(w) ==
    /\ At(w, "remove")
    /\ Update(Removable(w), [track EXCEPT !.exists = FALSE], Done(w), Goto(w, "confirmGone"))
    /\ UNCHANGED <<referenced, stored, inflight, drawn>>

ConfirmGone(w) ==
    /\ At(w, "confirmGone")
    /\ IF track.exists THEN Goto(w, "deleteFailed") ELSE Done(w)
    /\ UNCHANGED <<track, referenced, stored, inflight, drawn>>

DeleteFailed(w) ==
    /\ At(w, "deleteFailed")
    /\ \E refs \in {track.refs, "failed", "complete"} :
          Update(/\ SameStorage(w) /\ track.status = "deleting" /\ (refs = "complete" => track.refs = "complete"),
                 [track EXCEPT !.status = "deleteFailed", !.refs = refs], Done(w), Done(w))
    /\ UNCHANGED <<referenced, stored, inflight, drawn>>

\* Mutant: any row may be referred to.
ReferableAlways == track.exists

Referable == track.exists /\ track.status = "ready"

\* A reference is made only to a track that is ready, in one transaction with
\* a write to the row.
AddReference ==
    /\ Referable
    /\ referenced' = TRUE
    /\ UNCHANGED <<track, stored, inflight, drawn, calls>>

-----------------------------------------------------------------------------
\* deleteOrphanedAudioStorageObject: the report lists the store and the rows
\* at different times.

IsReferenced(k) == track.exists /\ k \in Named(track)

BeginOrphan(w, k) ==
    /\ At(w, "idle") /\ k \in stored /\ ~IsReferenced(k)
    /\ calls' = [calls EXCEPT ![w] = [NoCall EXCEPT !.pc = "report", !.key = k]]
    /\ UNCHANGED <<track, referenced, stored, inflight, drawn>>

Report(w) ==
    /\ At(w, "report")
    /\ IF calls[w].key \in stored /\ ~IsReferenced(calls[w].key) THEN Goto(w, "recheck") ELSE Done(w)
    /\ UNCHANGED <<track, referenced, stored, inflight, drawn>>

Recheck(w) ==
    /\ At(w, "recheck")
    /\ IF IsReferenced(calls[w].key) THEN Done(w) ELSE Goto(w, "eraseOrphan")
    /\ UNCHANGED <<track, referenced, stored, inflight, drawn>>

EraseOrphan(w) ==
    /\ At(w, "eraseOrphan")
    /\ DeleteObject(calls[w].key, Done(w), Done(w))
    /\ UNCHANGED <<track, referenced, inflight, drawn>>

-----------------------------------------------------------------------------
Crash(w) == /\ ~At(w, "idle")
            /\ Done(w)
            /\ UNCHANGED <<track, referenced, stored, inflight, drawn>>

Step(w) == \/ BeginUpload(w) \/ Tidy(w) \/ Forget(w) \/ Reserve(w) \/ Put(w) \/ RecordVersion(w) \/ Discard(w)
           \/ RecordFailure(w) \/ Attach(w) \/ Confirm(w) \/ DropOld(w) \/ ClearOld(w)
           \/ BeginDelete(w) \/ Fence(w) \/ Erase(w) \/ Unreference(w) \/ Unreferenced(w) \/ Remove(w)
           \/ ConfirmGone(w) \/ DeleteFailed(w)
           \/ (\E k \in AnyKey : BeginOrphan(w, k)) \/ Report(w) \/ Recheck(w) \/ EraseOrphan(w) \/ Crash(w)

Next == AddReference \/ (\E w \in Worker : Step(w)) \/ (\E k \in Key : LatePut(k))

Spec == Init /\ [][Next]_vars

-----------------------------------------------------------------------------
\* What the service promises.

\* What the catalogue plays is stored: it is attached after its PUT and its
\* row is fenced before its DELETE.
Played == IF track.exists /\ track.status = "ready" THEN {track.active} ELSE {}
Store == INSTANCE SafeStore WITH shown <- Played, Key <- AnyKey
PlayedIsStored == Store!Spec

\* Every object of the track, stored or possibly on its way, is named by the
\* row; a track that is gone has left nothing behind.
ObjectsAreNamed == (stored \ {Alien}) \union inflight \subseteq (IF track.exists THEN Named(track) ELSE {})

\* Nothing refers to a track that is gone.
NothingDangles == ~track.exists => ~referenced

\* A failed replacement leaves the current object playable: only a deletion
\* ends what a reader could play.
StillPlayable == Played # {} => Played' # {} \/ (track'.exists /\ track'.status = "deleting")
StaysPlayable == [][StillPlayable]_vars

\* "Failed or interrupted uploads remain identifiable in MongoDB and can be
\* retried against the same track" (docs/features/media-lifecycle.md:46).
InterruptedIsRetryable ==
    track.exists /\ track.status \in {"pending", "failed", "ready"} /\ (\A w \in Worker : At(w, "idle")) => Replaceable(track)
=============================================================================
