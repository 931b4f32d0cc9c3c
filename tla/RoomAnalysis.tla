---------------------------- MODULE RoomAnalysis -----------------------------
(***************************************************************************)
(* Room-audio analysis of one track (roomAudioAnalysisService): calls of   *)
(* several processes read the track, claim it with a leased attempt kept   *)
(* in the track, inspect the bytes of the key they read and store what     *)
(* they found, while replacements publish other bytes.  A write may be     *)
(* carried out although its caller sees an error; a process may die.       *)
(***************************************************************************)
EXTENDS Naturals, FiniteSets

CONSTANTS
    Call, Process,
    MaxKeys,     \* bound: sources ever published
    MaxRevisions \* bound: representations and attempts ever named

AnalysisAssumption == MaxKeys \in Nat \ {0} /\ MaxRevisions \in Nat \ {0}

VARIABLES
    track,    \* the audioTracks row: its key, what is known of its bytes, the attempt
    names,    \* revisions and attempt ids drawn so far
    listed,   \* intents an administrator was shown
    active,   \* the flag of each process
    calls

vars == <<track, names, listed, active, calls>>

NoRepresentation == [revision |-> 0, verdict |-> "none", of |-> 0]
NoAttempt == [id |-> 0, source |-> <<0, 0>>, token |-> "none", state |-> "none", result |-> 0, over |-> FALSE]
NoCall == [at |-> "idle", process |-> "none", intent |-> [id |-> 0, source |-> <<0, 0>>],
           read |-> [key |-> 0, replacing |-> FALSE, representation |-> NoRepresentation, attempt |-> NoAttempt],
           answer |-> "none"]
Terminal == {"complete", "unsupported", "failed", "stale"}

\* No process runs two analyses at a time.
TypeOK ==
    /\ track.key \in 1..MaxKeys /\ track.replacing \in BOOLEAN /\ names \in 0..MaxRevisions
    /\ track.representation.verdict \in {"none", "unknown", "eligible", "unsupported"}
    /\ track.attempt.state \in Terminal \union {"none", "running"}
    /\ active \in [Process -> BOOLEAN]
    /\ \A p \in Process :
         Cardinality({c \in Call : calls[c].process = p /\ calls[c].at \in {"claiming", "working", "unsure"}})
           = IF active[p] THEN 1 ELSE 0

Init ==
    /\ track = [key |-> 1, replacing |-> FALSE, representation |-> NoRepresentation, attempt |-> NoAttempt]
    /\ names = 0 /\ listed = {}
    /\ active = [p \in Process |-> FALSE]
    /\ calls = [c \in Call |-> NoCall]

-----------------------------------------------------------------------------
\* sourceFor: the fingerprint of what a call would analyse.
Available(t) == ~t.replacing
Source(t) == <<t.key, t.representation.revision>>

\* The recorded attempt speaks of the bytes as they are.
SameResult(t, a, source) == IF a.result > 0 THEN a.result = t.representation.revision ELSE a.source = source
Relevant(t) == Available(t) /\ (t.attempt.source = Source(t) \/ t.attempt.result \in {t.representation.revision} \ {0})

\* projection
Status(t) ==
    IF t.representation.verdict = "eligible" THEN "eligible"
    ELSE IF ~Available(t) THEN "unavailable"
    ELSE IF Relevant(t) /\ t.attempt.state = "running" THEN IF t.attempt.over THEN "retryable" ELSE "running"
    ELSE IF Relevant(t) /\ t.attempt.state = "unsupported" THEN "unsupported"
    ELSE IF Relevant(t) /\ t.attempt.state \in {"failed", "stale"} THEN "retryable"
    ELSE IF t.representation.verdict = "unsupported" THEN "unsupported" ELSE "notAnalyzed"

\* An administrator's page shows the attempt to repeat, or names a new one.
List ==
    /\ Available(track)
    /\ IF Relevant(track) THEN names' = names ELSE names < MaxRevisions /\ names' = names + 1
    /\ listed' = listed \union {[id |-> IF Relevant(track) THEN track.attempt.id ELSE names', source |-> Source(track)]}
    /\ UNCHANGED <<track, active, calls>>

-----------------------------------------------------------------------------
Settle(c, answer) ==
    /\ calls' = [calls EXCEPT ![c] = [NoCall EXCEPT !.at = "done", !.answer = answer]]
    /\ active' = IF calls[c].at = "idle" THEN active ELSE [active EXCEPT ![calls[c].process] = FALSE]

\* Mutant: only the attempt of the track is looked at.
BusyIfClaimed(p, a, source) == a.source = source /\ a.state = "running" /\ ~a.over

Busy(p, a, source) == active[p] \/ (a.source = source /\ a.state = "running" /\ ~a.over)

\* What analyze answers of the track as read, before it claims anything.
Refusal(p, intent, t) ==
    LET source == Source(t)
        a == t.attempt
    IN IF ~Available(t) THEN "stale"
       ELSE IF /\ a.id = intent.id /\ a.source = intent.source /\ SameResult(t, a, source)
               /\ a.state \in {"complete", "unsupported"} THEN a.state
       ELSE IF source # intent.source THEN "stale"
       ELSE IF t.representation.verdict = "eligible" THEN "complete"
       ELSE IF Status(t) = "unsupported" THEN "unsupported"
       ELSE IF Busy(p, a, source) THEN "busy"
       ELSE IF a.source = intent.source /\ a.id # intent.id THEN "stale" ELSE "none"

Analyze(c, p) ==
    /\ calls[c].at = "idle"
    /\ \E intent \in listed :
         LET refusal == Refusal(p, intent, track)
         IN IF refusal # "none" THEN Settle(c, refusal)
            ELSE /\ calls' = [calls EXCEPT ![c] = [at |-> "claiming", process |-> p, intent |-> intent,
                                                   read |-> track, answer |-> "none"]]
                 /\ active' = [active EXCEPT ![p] = TRUE]
    /\ UNCHANGED <<track, names, listed>>

\* sourceFilter
Unchanged(c) == /\ Available(track) /\ track.key = calls[c].read.key
                /\ track.representation = calls[c].read.representation

\* Mutant: a claim takes the track whatever was recorded since.
ClaimsAnyAttempt(c) == Unchanged(c)

Claimable(c) == Unchanged(c) /\ track.attempt = calls[c].read.attempt

\* The claim; a lost reply is settled from the track.
Claim(c) ==
    /\ calls[c].at = "claiming"
    /\ \/ /\ Claimable(c)
          /\ track' = [track EXCEPT !.attempt = [id |-> calls[c].intent.id, source |-> calls[c].intent.source,
                                                 token |-> c, state |-> "running", result |-> 0, over |-> FALSE]]
          /\ \E at \in {"working", "unsure"} : calls' = [calls EXCEPT ![c].at = at]
          /\ UNCHANGED active
       \/ ~Claimable(c) /\ Settle(c, "busy") /\ UNCHANGED track
       \/ calls' = [calls EXCEPT ![c].at = "unsure"] /\ UNCHANGED <<track, active>>
    /\ UNCHANGED <<names, listed>>

\* Mutant: only the attempt is compared.
OwnsAttempt(c) == track.attempt.token = c /\ track.attempt.state = "running" /\ ~track.attempt.over

Owned(c) == /\ Unchanged(c) /\ track.attempt.token = c
            /\ track.attempt.state = "running" /\ ~track.attempt.over

\* A finding with a representation of its own, or without: too large, failed, cancelled, changed.
Record(c, state, revision) ==
    track' = [track EXCEPT
        !.attempt = [@ EXCEPT !.state = state, !.result = revision],
        !.representation = IF revision = 0 THEN @
            ELSE [revision |-> revision, verdict |-> IF state = "complete" THEN "eligible" ELSE "unsupported",
                  of |-> calls[c].read.key]]

\* How an inspection ends, with a name for what it found or without one.
Findings == {[state |-> s, named |-> FALSE] : s \in {"unsupported", "failed", "stale"}}
            \union {[state |-> s, named |-> TRUE] : s \in {"complete", "unsupported"}}

Finish(c) ==
    /\ calls[c].at = "working"
    /\ \/ /\ Owned(c)
          /\ \E found \in Findings :
               /\ found.named => names < MaxRevisions
               /\ names' = IF found.named THEN names + 1 ELSE names
               /\ Record(c, found.state, IF found.named THEN names' ELSE 0)
               /\ \/ Settle(c, found.state)
                  \/ calls' = [calls EXCEPT ![c].at = "unsure"] /\ UNCHANGED active
       \/ ~Owned(c) /\ Settle(c, "stale") /\ UNCHANGED <<track, names>>
       \/ calls' = [calls EXCEPT ![c].at = "unsure"] /\ UNCHANGED <<track, names, active>>
    /\ UNCHANGED listed

\* Mutant: what the attempt found is not compared with what the track holds.
FindsItsAttempt(c) == track.attempt.token = c

StillItsResult(c) ==
    /\ track.attempt.token = c
    /\ IF track.attempt.result > 0
       THEN track.representation.revision = track.attempt.result /\ track.key = calls[c].read.key
       ELSE Source(track) = calls[c].intent.source

\* reconcile: an uncertain write is answered from the track, or not at all.
Reconcile(c) ==
    /\ calls[c].at = "unsure"
    /\ \/ /\ Available(track) /\ track.attempt.state \in Terminal /\ StillItsResult(c)
          /\ Settle(c, track.attempt.state)
       \/ ~Available(track) /\ Settle(c, "stale")
       \/ /\ Source(track) # calls[c].intent.source
          /\ ~(track.attempt.state \in Terminal /\ StillItsResult(c)) /\ Settle(c, "stale")
       \/ Settle(c, "unknown")
    /\ UNCHANGED <<track, names, listed>>

-----------------------------------------------------------------------------
EndLease == /\ track.attempt.state = "running" /\ ~track.attempt.over
            /\ track' = [track EXCEPT !.attempt.over = TRUE]
            /\ UNCHANGED <<names, listed, active, calls>>

Die(p) == /\ active[p] /\ active' = [active EXCEPT ![p] = FALSE]
          /\ calls' = [c \in Call |-> IF calls[c].process = p THEN [NoCall EXCEPT !.at = "done"] ELSE calls[c]]
          /\ UNCHANGED <<track, names, listed>>

\* A replacement is prepared, and publishes its key with what the upload knows of it.
Replace == /\ ~track.replacing /\ track.key < MaxKeys
           /\ track' = [track EXCEPT !.replacing = TRUE]
           /\ UNCHANGED <<names, listed, active, calls>>

\* prepareMediaRepresentation may find no decoder.
Inspected == {"unknown", "eligible", "unsupported"}

Publish ==
    /\ track.replacing
    /\ \/ track' = [track EXCEPT !.replacing = FALSE] /\ names' = names
       \/ /\ names < MaxRevisions /\ names' = names + 1
          /\ \E verdict \in Inspected :
               track' = [track EXCEPT !.replacing = FALSE, !.key = @ + 1,
                                      !.representation = [revision |-> names', verdict |-> verdict, of |-> track.key + 1]]
    /\ UNCHANGED <<listed, active, calls>>

Next == \/ List \/ EndLease \/ Replace \/ Publish
        \/ \E p \in Process : Die(p) \/ \E c \in Call : Analyze(c, p)
        \/ \E c \in Call : Claim(c) \/ Finish(c) \/ Reconcile(c)

Spec == Init /\ [][Next]_vars

-----------------------------------------------------------------------------
\* What rooms may play is what the inspected bytes are: no finding about the
\* bytes of one key is stored with another.
FindingsAreOfTheirSource ==
    track.representation.verdict \in {"eligible", "unsupported"} => track.representation.of = track.key

\* A source found playable or unsupported stays so until it is replaced: no
\* late, duplicated or interrupted attempt reopens it.
FindingStays == Status(track) \in {"eligible", "unsupported"} /\ track'.key = track.key /\ ~track'.replacing
                   => Status(track') = Status(track)
FindingsAreFinal == [][FindingStays]_vars

\* A call that answers complete or unsupported does so of a track that is.
AnswersTruly ==
    \A c \in Call : calls[c].at # "done" =>
        /\ calls'[c].answer = "complete" => Status(track') = "eligible"
        /\ calls'[c].answer = "unsupported" => Status(track') = "unsupported"
AnswersAreTrue == [][AnswersTruly]_vars
=============================================================================
