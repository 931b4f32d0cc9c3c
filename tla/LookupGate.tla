----------------------------- MODULE LookupGate ------------------------------
(***************************************************************************)
(* The deployment-wide gate of one metadata source: lookupRateGate, and    *)
(* the requests of lookupSourceRequest that pass it.  Each caller acquires *)
(* once.  Its command, the decision on the clock of the database, and the  *)
(* reply are three steps; commands and releases may be late or lost, and a *)
(* holder may die.  Time passes in units of the smallest wait.             *)
(***************************************************************************)
EXTENDS Integers, FiniteSets, FiniteSetsExt

CONSTANTS
    Caller,
    Busy,           \* the callers in busy mode, the others wait
    Interval, Concurrency, Lease,   \* the rate of the source
    Backoff,        \* what an overloaded source asks for
    Command,        \* bound of one gate command
    Deadline,       \* bound of one request
    LongestSleep, MaximumWait,
    MaxTime         \* bound: how long the gate is watched

GateAssumption ==
    /\ Busy \subseteq Caller
    /\ {Interval, Backoff, Deadline, MaximumWait, MaxTime} \subseteq Nat
    /\ {Concurrency, Lease, Command, LongestSleep} \subseteq Nat \ {0}
    /\ Interval > 0 => Concurrency = 1
    /\ Lease >= Command + Deadline + Interval

VARIABLES
    now,
    nextAt, leases,   \* the document: the next start, and who holds the source until when
    at,               \* how far each caller is
    since,            \* when it began, asked last, was granted, or may wake
    seen,             \* the document of its reply
    slept,            \* how long it has slept, for which start, and since when it waits
    sends,            \* when it sent a request
    releases          \* releases under way, with the push they carry

vars == <<now, nextAt, leases, at, since, seen, slept, sends, releases>>
document == <<nextAt, leases>>
caller == <<at, since, seen, slept, sends>>

Never == 0 - 1
Unslept == [total |-> 0, for |-> Never, since |-> 0]
Unseen == [nextAt |-> 0, observed |-> 0, leases |-> {}]
Larger(a, b) == IF a > b THEN a ELSE b
Smaller(a, b) == IF a < b THEN a ELSE b
Holders == {c \in Caller : at[c] = "holding"}
Unexpired == {l \in leases : l.expiresAt > now}

\* Nobody keeps the source closed for longer than a lease, an interval or a backoff.
TypeOK ==
    /\ now \in 0..MaxTime /\ nextAt \in 0..now + Larger(Interval, Backoff)
    /\ \A l \in leases : l.id \in Caller /\ l.expiresAt \in 0..now + Lease
    /\ at \in [Caller -> {"idle", "asking", "granted", "refused", "sleeping", "holding",
                          "abandoned", "orphan", "done"}]
    /\ since \in [Caller -> 0..MaxTime + LongestSleep]
    /\ sends \in [Caller -> SUBSET (0..MaxTime)]
    /\ \A r \in releases : r.id \in Caller /\ r.push \in 0..Larger(Interval, Backoff)

Init == /\ now = 0 /\ nextAt = 0 /\ leases = {} /\ releases = {}
        /\ at = [c \in Caller |-> "idle"] /\ since = [c \in Caller |-> 0]
        /\ seen = [c \in Caller |-> Unseen]
        /\ slept = [c \in Caller |-> Unslept]
        /\ sends = [c \in Caller |-> {}]

-----------------------------------------------------------------------------
\* Timers are kept: a command is given up, a request ends, a sleeper wakes.
Tick ==
    /\ now < MaxTime /\ now' = now + 1
    /\ \A c \in Caller : /\ at[c] \in {"asking", "granted", "refused"} => now < since[c] + Command
                         /\ at[c] = "holding" => now < since[c] + Deadline
                         /\ at[c] = "sleeping" => now < since[c]
    /\ UNCHANGED <<document, caller, releases>>

Ask(c) == /\ \/ at[c] = "idle"
             \/ at[c] = "sleeping" /\ now >= since[c]
          /\ at' = [at EXCEPT ![c] = "asking"] /\ since' = [since EXCEPT ![c] = now]
          /\ slept' = IF at[c] = "idle" THEN [slept EXCEPT ![c].since = now] ELSE slept
          /\ UNCHANGED <<now, document, seen, sends, releases>>

\* Mutant: a source that is full takes one more.
GrantOneMore == nextAt <= now /\ Cardinality(Unexpired) <= Concurrency

\* The pipeline of attempt, on the server's clock.
Grant == nextAt <= now /\ Cardinality(Unexpired) < Concurrency

Decide(c) ==
    /\ at[c] \in {"asking", "abandoned"}
    /\ leases' = IF Grant THEN Unexpired \union {[id |-> c, expiresAt |-> now + Lease]} ELSE Unexpired
    /\ nextAt' = IF Grant THEN now + Interval ELSE nextAt
    /\ seen' = [seen EXCEPT ![c] = IF at[c] = "abandoned" \/ Grant THEN Unseen ELSE [nextAt |-> nextAt, observed |-> now, leases |-> Unexpired]]
    /\ at' = [at EXCEPT ![c] = IF @ = "abandoned" THEN "orphan" ELSE IF Grant THEN "granted" ELSE "refused"]
    /\ UNCHANGED <<now, since, slept, sends, releases>>

\* The caller is cancelled, or its command takes too long: its outcome is not known.
GiveUp(c) == /\ at[c] \in {"asking", "granted", "refused"}
             /\ at' = [at EXCEPT ![c] = IF @ = "asking" THEN "abandoned" ELSE "orphan"]
             /\ since' = [since EXCEPT ![c] = 0] /\ seen' = [seen EXCEPT ![c] = Unseen]
             /\ slept' = [slept EXCEPT ![c] = Unslept]
             /\ UNCHANGED <<now, document, sends, releases>>

\* The command was never applied, and its cleanup releases nothing.
Vanish(c) == /\ at[c] = "abandoned" /\ at' = [at EXCEPT ![c] = "orphan"]
             /\ UNCHANGED <<now, document, since, seen, slept, sends, releases>>

Cleanup(c) == /\ at[c] = "orphan" /\ at' = [at EXCEPT ![c] = "done"]
              /\ releases' = releases \union {[id |-> c, push |-> 0]}
              /\ UNCHANGED <<now, document, since, seen, slept, sends>>

\* The reply of a grant arrives: the holder sends no earlier.
Hold(c) == /\ at[c] = "granted" /\ at' = [at EXCEPT ![c] = "holding"]
           /\ since' = [since EXCEPT ![c] = now] /\ slept' = [slept EXCEPT ![c] = Unslept]
           /\ UNCHANGED <<now, document, seen, sends, releases>>

-----------------------------------------------------------------------------
Full(c) == Cardinality(seen[c].leases) >= Concurrency
Spacing(c) == Larger(0, seen[c].nextAt - seen[c].observed)

\* Mutant: a busy caller queues for a slot another one took.
TurnsAwayOnlyFar(c) == Full(c) \/ Spacing(c) > Interval

\* afterRefusal in busy mode: only its own spacing is slept out.
TurnsAway(c) ==
    \/ Full(c) \/ Spacing(c) > Interval
    \/ slept[c].for # Never /\ seen[c].nextAt # slept[c].for

UntilExpiry(c) == Larger(0, Min({l.expiresAt : l \in seen[c].leases}) - seen[c].observed)
SleepFor(c) ==
    LET wait == IF Full(c) THEN Smaller(UntilExpiry(c), Larger(Interval, 1)) ELSE 0
    IN Larger(1, Smaller(LongestSleep, Larger(Spacing(c), wait)))

\* handleRefusal: busy, unavailable, or a sleep and another attempt.
Refused(c) ==
    /\ at[c] = "refused"
    /\ IF (c \in Busy /\ TurnsAway(c)) \/ now - slept[c].since + SleepFor(c) > MaximumWait
       THEN at' = [at EXCEPT ![c] = "done"] /\ since' = [since EXCEPT ![c] = 0]
            /\ slept' = [slept EXCEPT ![c] = Unslept]
       ELSE /\ at' = [at EXCEPT ![c] = "sleeping"] /\ since' = [since EXCEPT ![c] = now + SleepFor(c)]
            /\ slept' = [slept EXCEPT ![c] = [@ EXCEPT !.total = @ + SleepFor(c), !.for = seen[c].nextAt]]
    /\ seen' = [seen EXCEPT ![c] = Unseen]
    /\ UNCHANGED <<now, document, sends, releases>>

-----------------------------------------------------------------------------
\* Each hop of a request is marked when it is sent.
Send(c) == /\ at[c] = "holding"
           /\ sends' = [sends EXCEPT ![c] = @ \union {now}]
           /\ UNCHANGED <<now, document, at, since, seen, slept, releases>>

\* Mutant: the push counts from the grant's reply, whatever was sent since.
PushFromGrant(c, backoff) == Larger(backoff, Interval - (now - since[c]))

\* What a release pushes the next start by, from the latest mark.
Push(c, backoff) == Larger(backoff, Larger(0, Interval - (now - Max(sends[c] \union {since[c]}))))

Release(c) ==
    /\ at[c] = "holding" /\ at' = [at EXCEPT ![c] = "done"]
    /\ \E backoff \in {0, Backoff} : releases' = releases \union {[id |-> c, push |-> Push(c, backoff)]}
    /\ since' = [since EXCEPT ![c] = 0]
    /\ UNCHANGED <<now, document, seen, slept, sends>>

Die(c) == /\ at[c] = "holding" /\ at' = [at EXCEPT ![c] = "done"] /\ since' = [since EXCEPT ![c] = 0]
          /\ UNCHANGED <<now, document, seen, slept, sends, releases>>

\* Mutant: the push is added to a start that is pushed back already.
PushedFurther(push) == Larger(nextAt, now) + push

Pushed(push) == Larger(nextAt, now + push)

\* A release removes its own lease only, and never brings the next start nearer.
ApplyRelease(r) ==
    /\ leases' = {l \in Unexpired : l.id # r.id}
    /\ nextAt' = Pushed(r.push)
    /\ releases' = releases \ {r}
    /\ UNCHANGED <<now, caller>>

LoseRelease(r) == releases' = releases \ {r} /\ UNCHANGED <<now, document, caller>>

Next == \/ Tick
        \/ \E c \in Caller : \/ Ask(c) \/ Decide(c) \/ GiveUp(c) \/ Vanish(c) \/ Cleanup(c) \/ Hold(c) \/ Refused(c)
                             \/ Send(c) \/ Release(c) \/ Die(c)
        \/ \E r \in releases : ApplyRelease(r) \/ LoseRelease(r)

Spec == Init /\ [][Next]_vars

-----------------------------------------------------------------------------
\* The source never sees two callers' requests within an interval of each
\* other, however late a reply, however long a lookup of its name, and
\* whether a release is lost, late, or overtaken by the end of a lease.
SendsAreSpaced ==
    \A c, d \in Caller : c # d => \A x \in sends[c], y \in sends[d] : x >= y + Interval \/ y >= x + Interval

\* No more callers use the source than its concurrency, whatever became of a
\* grant whose reply was given up.
HoldersAreBounded == Cardinality(Holders) <= Concurrency

\* A busy caller sleeps out no more than one interval, however many others
\* take the slots it wakes for.
BusySleepsItsOwnSpacing == \A c \in Busy : slept[c].total <= Interval
=============================================================================
