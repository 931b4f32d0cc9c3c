----------------------------- MODULE RequestDrain -----------------------------
(***************************************************************************)
(* How a server process stops (ServerLifecycle): requests and the work     *)
(* they dispatch, the concurrency slots they hold, background steps, and   *)
(* the drain that must end before the database goes.  A response may end   *)
(* before its work does, and its socket before the response is recorded    *)
(* as ended; a body parser may dispatch work late.                         *)
(***************************************************************************)
EXTENDS FiniteSets, Integers

CONSTANTS Request, Worker,
          Slots     \* the limit of one limitConcurrency scope

DrainAssumption == Slots \in Nat \ {0} /\ IsFiniteSet(Request)

VARIABLES
    response,  \* of each request: what became of it, "ended" once the server has recorded its end
    socket,    \* the requests whose connection is open
    job,       \* of each request: the work it dispatched
    slot,      \* the requests that hold a slot of the limiter
    step,      \* the background workers in a step
    phase,     \* of the process
    waits,     \* the promises the drain still waits for
    closed,    \* work is no longer admitted
    forced, database

vars == <<response, socket, job, slot, step, phase, waits, closed, forced, database>>

Promises == {"sockets", "responses", "idle"}

\* Every part is well formed, and only an admitted request of a process has a slot.
TypeOK ==
    /\ response \in [Request -> {"none", "open", "limited", "ended", "refused"}]
    /\ job \in [Request -> {"none", "queued", "running", "settled", "cancelled", "refused"}]
    /\ socket \subseteq Request /\ step \subseteq Worker /\ waits \subseteq Promises
    /\ slot \subseteq {r \in Request : response[r] \in {"open", "ended"}} /\ Cardinality(slot) <= Slots
    /\ phase \in {"serving", "draining", "closing", "stopped"} /\ database \in {"open", "closed"}
    /\ {closed, forced} \subseteq BOOLEAN

Init ==
    /\ response = [r \in Request |-> "none"] /\ job = [r \in Request |-> "none"]
    /\ socket = {} /\ slot = {} /\ step = {} /\ waits = {}
    /\ phase = "serving" /\ closed = FALSE /\ forced = FALSE /\ database = "open"

Pending == {r \in Request : job[r] \in {"queued", "running"}}
Opened == {r \in Request : response[r] \in {"open", "limited"}}
Idle == Pending = {} /\ step = {}
Resolved(p) == CASE p = "sockets" -> socket = {} [] p = "responses" -> Opened = {} [] OTHER -> Idle

\* A promise of the drain is resolved once, as what it waits for comes about, and stays so.
Notified == waits' = {p \in waits : ~Resolved(p)'}

\* Mutant: one request more than there are slots.
OffByOne == Cardinality(slot) <= Slots

Capacity ==
    Cardinality(slot) < Slots

\* admit, and the limiter behind it: a slot, or 429; a draining server refuses.
Arrive(r) ==
    /\ response[r] = "none" /\ (phase = "serving" \/ (phase = "draining" /\ socket # {}))
    /\ response' = [response EXCEPT ![r] = IF phase # "serving" THEN "refused" ELSE IF Capacity THEN "open" ELSE "limited"]
    /\ slot' = IF response'[r] = "open" THEN slot \union {r} ELSE slot
    /\ socket' = IF phase = "serving" THEN socket \union {r} ELSE socket
    /\ UNCHANGED <<job, step, phase, waits, closed, forced, database>>

\* runRequestWork, as a body has been read or a middleware goes on
Dispatch(r) ==
    /\ response[r] \in {"open", "ended"} /\ job[r] = "none" /\ phase # "stopped"
    /\ job' = [job EXCEPT ![r] = IF response[r] = "ended" THEN "cancelled" ELSE IF closed THEN "refused" ELSE "queued"]
    /\ UNCHANGED <<response, socket, slot, step, phase, waits, closed, forced, database>>

\* Mutant: the slot is given back with the response, whatever work goes on.
ReleaseWithResponse == slot' = {r \in slot : response'[r] # "ended"}

\* notifyRequestCompletion
Release ==
    slot' = {r \in slot : ~(response'[r] = "ended" /\ job'[r] \notin {"queued", "running"})}

\* The microtask of the work begins, unless the response has ended by then.
Begin(r) ==
    /\ job[r] = "queued"
    /\ job' = [job EXCEPT ![r] = IF response[r] = "ended" THEN "cancelled" ELSE "running"]
    /\ UNCHANGED <<response, socket, step, phase, closed, forced, database>>
    /\ Release /\ Notified

Settle(r) ==
    /\ job[r] = "running"
    /\ job' = [job EXCEPT ![r] = "settled"]
    /\ UNCHANGED <<response, socket, step, phase, closed, forced, database>>
    /\ Release /\ Notified

\* onResponseComplete: the response finished, or its socket was closed under it.
End(r) ==
    /\ response[r] \in {"open", "limited"}
    /\ response' = [response EXCEPT ![r] = IF @ = "open" THEN "ended" ELSE "refused"]
    /\ UNCHANGED <<socket, job, step, phase, closed, forced, database>>
    /\ Release /\ Notified

\* A connection goes: the client's doing, or the server's once its response has ended.
Disconnect(r) ==
    /\ r \in socket
    /\ socket' = socket \ {r}
    /\ UNCHANGED <<response, job, slot, step, phase, closed, forced, database>>
    /\ Notified

\* Background work is tracked too, and its workers stop at the drain.
StartStep(w) ==
    /\ w \notin step /\ phase = "serving"
    /\ step' = step \union {w}
    /\ UNCHANGED <<response, socket, job, slot, phase, waits, closed, forced, database>>

EndStep(w) ==
    /\ w \in step
    /\ step' = step \ {w}
    /\ UNCHANGED <<response, socket, job, slot, phase, closed, forced, database>>
    /\ Notified

-----------------------------------------------------------------------------
\* Mutant: the drain does not wait for the responses to be recorded as ended.
SocketsAndWork == {"sockets", "idle"}

Awaited ==
    Promises

\* stop, by a signal: idle connections go with the listening socket.
Stop ==
    /\ phase = "serving" /\ phase' = "draining"
    /\ socket' = {r \in socket : response[r] \in {"open", "limited"}}
    /\ UNCHANGED <<response, job, slot, step, closed, forced, database>>
    /\ waits' = {p \in Awaited : ~Resolved(p)'}

\* Mutant: complete trusts that the work was once idle.
TrustsIdle == closed' = TRUE /\ phase' = "closing" /\ UNCHANGED waits

\* complete: a parser may have dispatched work since the server was idle, which is waited for in turn.
Complete ==
    IF ~forced /\ ~Idle THEN waits' = {"idle"} /\ UNCHANGED <<closed, phase>>
    ELSE closed' = TRUE /\ phase' = "closing" /\ UNCHANGED waits

Drained ==
    /\ phase = "draining" /\ waits = {}
    /\ Complete
    /\ UNCHANGED <<response, socket, job, slot, step, forced, database>>

\* Mutant: the deadline closes connections and no more.
OnlyCloses == socket' = {} /\ UNCHANGED forced

Cut ==
    socket' = {} /\ forced' = TRUE

\* The grace period is over.
GraceOver ==
    /\ phase = "draining" /\ ~forced
    /\ Cut
    /\ UNCHANGED <<response, job, slot, step, phase, closed, database>>
    /\ Notified

\* and the time that sockets are given to close
CutOver ==
    /\ phase = "draining" /\ forced
    /\ Complete
    /\ UNCHANGED <<response, socket, job, slot, step, forced, database>>

\* closeDatabase waits for the workers' last steps; its own deadline ends it, or an error.
CloseDatabase ==
    /\ phase = "closing" /\ step = {}
    /\ phase' = "stopped" /\ database' = "closed"
    /\ UNCHANGED <<response, socket, job, slot, step, waits, closed, forced>>

CleanupOver ==
    /\ phase = "closing"
    /\ phase' = "stopped" /\ forced' = TRUE
    /\ UNCHANGED <<response, socket, job, slot, step, waits, closed, database>>

Next ==
    \/ \E r \in Request : Arrive(r) \/ Dispatch(r) \/ Begin(r) \/ Settle(r) \/ End(r) \/ Disconnect(r)
    \/ \E w \in Worker : StartStep(w) \/ EndStep(w)
    \/ Stop \/ Drained \/ GraceOver \/ CutOver \/ CloseDatabase \/ CleanupOver

Spec == Init /\ [][Next]_vars

\* Only the process's own timers and callbacks are counted on: work may hang, and a client may never hang up.
Fairness == WF_vars(Drained) /\ WF_vars(GraceOver) /\ WF_vars(CutOver) /\ WF_vars(CleanupOver)

FairSpec == Spec /\ Fairness

-----------------------------------------------------------------------------
(* A graceful stop closes the database under nobody: all work has ended, and none begins any more. *)
GracefulIsClean == (database = "closed" /\ ~forced) => Pending = {} /\ step = {}

(* Unless the stop was forced, no request that was admitted has its work refused because the server is
   stopping: a late dispatch is either done, or finds its own response ended. *)
AdmittedAreServed == (\E r \in Request : job[r] = "refused") => forced

(* A slot is held for as long as the request's response or its work lasts, so the limit bounds the work
   that is really going on, and it is given back in the end. *)
SlotsCoverWork ==
    /\ \A r \in Pending : r \in slot
    /\ \A r \in slot : response[r] = "open" \/ r \in Pending

(* A stop that was asked for comes to its end, though work hangs and clients stay. *)
StopEnds == phase = "draining" ~> phase = "stopped"
=============================================================================
