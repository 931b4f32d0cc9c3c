---------------------------- MODULE MediaAdmission ----------------------------
(***************************************************************************)
(* The pool that admits media requests (createMediaAdmissionController):   *)
(* ceilings for the process and for each client, a part of both reserved   *)
(* for playback, and a short queue in which a playback read may wait.      *)
(* A slot is held until the response and its work have both ended.         *)
(***************************************************************************)
EXTENDS SequencesExt, Integers

CONSTANTS Client, Request,
          Global, PerIp, ReservedGlobal, ReservedPerIp, QueueGlobal, QueuePerIp

AdmissionAssumption ==
    /\ {Global, PerIp} \subseteq Nat \ {0} /\ {QueueGlobal, QueuePerIp} \subseteq Nat
    /\ ReservedGlobal \in 0..(Global - 1) /\ ReservedPerIp \in 0..(PerIp - 1)

VARIABLES
    request,   \* who asks, for what, and what became of it
    active,    \* per client, the requests counted, and those that are not playback
    globalActive, globalNonPlayback,
    waiting    \* the playback reads in the queue

vars == <<request, active, globalActive, globalNonPlayback, waiting>>

Unused == [state |-> "none", client |-> "none", playback |-> FALSE, response |-> "open", work |-> FALSE]
Counts == [active |-> active, global |-> globalActive, other |-> globalNonPlayback]
Admitted == {r \in Request : request[r].state = "admitted"}
Others == {r \in Admitted : ~request[r].playback}
OfClient(S, c) == {r \in S : request[r].client = c}

\* Every part is well formed, and the counters count the requests that hold a slot.
TypeOK ==
    /\ \A r \in Request : /\ DOMAIN request[r] = DOMAIN Unused /\ request[r].client \in Client \union {"none"}
                          /\ request[r].state \in {"none", "waiting", "admitted", "rejected", "gone"}
                          /\ request[r].response \in {"open", "destroyed", "ended"}
    /\ ToSet(waiting) = {r \in Request : request[r].state = "waiting"} /\ Len(waiting) <= QueueGlobal
    /\ \A c \in Client : Cardinality(OfClient(ToSet(waiting), c)) <= QueuePerIp
    /\ globalActive = Cardinality(Admitted) /\ globalNonPlayback = Cardinality(Others)
    /\ active = [c \in Client |-> [total |-> Cardinality(OfClient(Admitted, c)), nonPlayback |-> Cardinality(OfClient(Others, c))]]

Init ==
    /\ request = [r \in Request |-> Unused] /\ waiting = <<>>
    /\ active = [c \in Client |-> [total |-> 0, nonPlayback |-> 0]]
    /\ globalActive = 0 /\ globalNonPlayback = 0

\* Mutant: nothing is kept for playback.
NoReserve(n, c, playback) == n.global >= Global \/ n.active[c].total >= PerIp

\* rejectionReason
Blocked(n, c, playback) ==
    \/ n.global >= Global \/ n.active[c].total >= PerIp
    \/ ~playback /\ (n.other >= Global - ReservedGlobal \/ n.active[c].nonPlayback >= PerIp - ReservedPerIp)

\* admit (by 1), and the counters' part of release (by -1)
Moved(n, c, playback, by) ==
    [active |-> [n.active EXCEPT ![c] = [total |-> @.total + by, nonPlayback |-> IF playback THEN @.nonPlayback ELSE @.nonPlayback + by]],
     global |-> n.global + by, other |-> IF playback THEN n.other ELSE n.other + by]

\* What the counters, the queue and the requests are after drainQueue, entry by entry.
Visit(s, r) ==
    LET c == s.request[r].client IN
    IF Blocked(s.counts, c, s.request[r].playback) THEN [s EXCEPT !.left = Append(@, r)]
    ELSE IF s.request[r].response # "open" THEN [s EXCEPT !.request[r].state = "gone"]
    ELSE [s EXCEPT !.request[r].state = "admitted", !.request[r].work = TRUE, !.counts = Moved(@, c, s.request[r].playback, 1)]

\* Mutant: the queue is served strictly in order.
InOrder(n, requests, queue) ==
    FoldLeft(LAMBDA s, r : IF s.left # <<>> THEN [s EXCEPT !.left = Append(@, r)] ELSE Visit(s, r),
             [counts |-> n, request |-> requests, left |-> <<>>], queue)

DrainQueue(n, requests, queue) ==
    FoldLeft(Visit, [counts |-> n, request |-> requests, left |-> <<>>], queue)

Becomes(s) ==
    /\ request' = s.request /\ waiting' = s.left
    /\ active' = s.counts.active /\ globalActive' = s.counts.global /\ globalNonPlayback' = s.counts.other

\* Mutant: a client's part of the queue has room for one more.
OneMore(c) == Len(waiting) < QueueGlobal /\ Cardinality(OfClient(ToSet(waiting), c)) <= QueuePerIp

HasRoom(c) ==
    Len(waiting) < QueueGlobal /\ Cardinality(OfClient(ToSet(waiting), c)) < QueuePerIp

\* The middleware: admitted, queued or rejected.  Only a read (GET) of a playback may wait.
Arrive(r, c, playback, get) ==
    LET asks == [Unused EXCEPT !.client = c, !.playback = playback] IN
    /\ request[r].state = "none"
    /\ IF ~Blocked(Counts, c, playback)
       THEN Becomes([request |-> [request EXCEPT ![r] = [asks EXCEPT !.state = "admitted", !.work = TRUE]], left |-> waiting,
                     counts |-> Moved(Counts, c, playback, 1)])
       ELSE /\ IF playback /\ get /\ HasRoom(c)
               THEN request' = [request EXCEPT ![r] = [asks EXCEPT !.state = "waiting"]] /\ waiting' = Append(waiting, r)
               ELSE request' = [request EXCEPT ![r] = [asks EXCEPT !.state = "rejected"]] /\ UNCHANGED waiting
            /\ UNCHANGED <<active, globalActive, globalNonPlayback>>

\* Mutant: capacity is given back as the client goes, though the storage read is not over.
ReleaseOnEnd(q) == q.response = "ended"

Over(q) ==
    q.response = "ended" /\ ~q.work

\* A request as it is now: its slot is released, and the queue served, once both its parts are over.
Now(r, q) ==
    IF Over(q) THEN Becomes(DrainQueue(Moved(Counts, q.client, q.playback, -1), [request EXCEPT ![r] = [q EXCEPT !.state = "gone"]], waiting))
    ELSE request' = [request EXCEPT ![r] = q] /\ UNCHANGED <<active, globalActive, globalNonPlayback, waiting>>

\* The response is finished, or its client is gone.
End(r) ==
    /\ request[r].state = "admitted" /\ request[r].response = "open"
    /\ Now(r, [request[r] EXCEPT !.response = "ended"])

Settle(r) ==
    /\ request[r].state = "admitted" /\ request[r].work
    /\ Now(r, [request[r] EXCEPT !.work = FALSE])

\* The client of a queued request goes; the event that says so comes later.
Destroy(r) ==
    /\ request[r].state = "waiting" /\ request[r].response = "open"
    /\ request' = [request EXCEPT ![r].response = "destroyed"]
    /\ UNCHANGED <<active, globalActive, globalNonPlayback, waiting>>

Cancel(r) ==
    /\ request[r].state = "waiting" /\ request[r].response = "destroyed"
    /\ Becomes(DrainQueue(Counts, [request EXCEPT ![r].state = "gone"], Remove(waiting, r)))

Timeout(r) ==
    /\ request[r].state = "waiting"
    /\ request' = [request EXCEPT ![r].state = IF request[r].response = "open" THEN "rejected" ELSE "gone"]
    /\ waiting' = Remove(waiting, r)
    /\ UNCHANGED <<active, globalActive, globalNonPlayback>>

\* A request that is over is forgotten, and its name used again.
Reuse(r) ==
    /\ request[r].state \in {"rejected", "gone"} /\ ~request[r].work
    /\ request' = [request EXCEPT ![r] = Unused]
    /\ UNCHANGED <<active, globalActive, globalNonPlayback, waiting>>

Next ==
    \E r \in Request :
       \/ \E c \in Client, playback, get \in BOOLEAN : Arrive(r, c, playback, get)
       \/ End(r) \/ Settle(r) \/ Destroy(r) \/ Cancel(r) \/ Timeout(r) \/ Reuse(r)

Spec == Init /\ [][Next]_vars

-----------------------------------------------------------------------------
(* The work that really goes on keeps to the ceilings: a client that went away while its read lasts
   is counted until the read is over. *)
Working == {r \in Request : request[r].work}
WorkIsBounded == Cardinality(Working) <= Global /\ \A c \in Client : Cardinality(OfClient(Working, c)) <= PerIp

(* Whoever waits is kept out by a ceiling now: a slot that became free was offered to every queued request it
   suits, whatever is queued before it. *)
NobodyWaitsInVain ==
    \A r \in ToSet(waiting) : Blocked(Counts, request[r].client, TRUE)

(* However many other media requests there are, a playback is turned away or made to wait only when the
   places reserved for playback, of the process or of its client, are taken by playback. *)
TurnedAwayForPlayback ==
    \A r \in Request : (request[r].state = "none" /\ request'[r].playback /\ request'[r].state # "admitted") =>
        \/ Cardinality(Admitted \ Others) >= ReservedGlobal /\ globalActive = Global
        \/ /\ Cardinality(OfClient(Admitted \ Others, request'[r].client)) >= ReservedPerIp
           /\ active[request'[r].client].total = PerIp
PlaybackHasItsReserve == [][TurnedAwayForPlayback]_vars
=============================================================================
