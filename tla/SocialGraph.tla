----------------------------- MODULE SocialGraph -----------------------------
(***************************************************************************)
(* Profiles, friend requests, friendships and blocks: the commands of      *)
(* socialService, the suspensions of socialModerationService and the       *)
(* deletion of an account.  Each runs as one snapshot transaction: it      *)
(* reads the database as it was when the transaction began, and commits    *)
(* unless another transaction has touched one of its accounts meanwhile.   *)
(* A command is sent under a signed scope, may be sent again, and leaves a *)
(* receipt.  Rooms, shares and listening have modules of their own.        *)
(***************************************************************************)
EXTENDS Integers, FiniteSets, FiniteSetsExt

CONSTANTS
    Account, Command, Request,
    Action,              \* bound: the actions that are taken
    MaxFriends, MaxPending,
    Scope, Grace,        \* the lifetime of a scope, and of what outlives it
    MaxTime, MaxSends, MaxOpen    \* bounds: the time, how often a command runs to its end, and how many wait to

GraphAssumption ==
    /\ Command \subseteq Nat
    /\ MaxFriends \in Nat \ {0} /\ MaxPending \in Nat \ {0}
    /\ Scope \in Nat \ {0} /\ Grace \in Nat \ {0} /\ MaxTime \in Nat /\ {MaxSends, MaxOpen} \subseteq Nat

VARIABLES
    db,        \* the stored documents
    txn,       \* per request, its transaction: the snapshot it reads
    command,   \* what listeners and staff have asked for, and what they had read
    time,
    changes,   \* per pair and account, how often its document was rewritten
    applied,   \* per command, how often it was applied
    wish       \* per account, the last activity and discoverability it chose

vars == <<db, txn, command, time, changes, applied, wish>>

Pair == {p \in SUBSET Account : Cardinality(p) = 2}
Seeing == {"request", "accept", "decline", "cancel", "remove", "unblock"}
Editing == {"show", "hide"}
Unscoped == {"suspend", "unsuspend", "delete"}
NoProfile == [exists |-> FALSE, active |-> FALSE, shown |-> FALSE, held |-> FALSE, wasActive |-> FALSE, wasShown |-> FALSE, rev |-> 0]
NoEdge == [state |-> "absent", by |-> {}, blocked |-> {}, rev |-> 0, until |-> 0]
NoCommand == [action |-> "none", actor |-> {}, target |-> {}, seen |-> 0, reading |-> 0, readAt |-> 0, scope |-> 0, sends |-> 0]
Idle == [at |-> -1]
Subject(m) == IF m.action \in Seeing \union {"block"} THEN m.actor \union m.target ELSE m.actor
Only(S) == CHOOSE x \in S : TRUE

\* The documents and the commands are well formed, and a blocked pair is neither friends nor about to be.
TypeOK ==
    /\ db.alive \in [Account -> BOOLEAN] /\ db.outbox \in [Account -> BOOLEAN] /\ db.clock \in [Account -> Nat]
    /\ \A a \in Account : DOMAIN db.profile[a] = DOMAIN NoProfile /\ (db.profile[a].active => db.profile[a].exists)
    /\ \A p \in Pair : LET e == db.edge[p] IN
         /\ e.state \in {"absent", "none", "pending", "accepted"} /\ e.blocked \subseteq p
         /\ e.state = "pending" <=> e.by # {}
         /\ e.blocked # {} => e.state = "none"
         /\ e.until > 0 <=> e.state = "none" /\ e.blocked = {}
    /\ db.receipt \in [Command -> Nat]
    /\ \A r \in Request : txn[r].at \in -1..MaxTime
    /\ \A c \in Command : command[c].action \in {"none"} \union Action
    /\ time \in 0..MaxTime

\* Some have a profile; one of them may have asked some of the others, one after the other.
Init ==
    /\ \E members \in SUBSET Account, x \in Account, asked \in SUBSET Account :
         /\ asked \subseteq members \ {x} /\ Cardinality(asked) <= MaxPending
         /\ asked # {} => x \in members
         /\ \E rank \in [asked -> 1..Cardinality(asked)] :
              /\ \A y, z \in asked : rank[y] = rank[z] => y = z
              /\ db = [alive |-> [a \in Account |-> TRUE],
                       profile |-> [a \in Account |-> IF a \in members
                                      THEN [NoProfile EXCEPT !.exists = TRUE, !.active = TRUE, !.shown = TRUE, !.rev = 1] ELSE NoProfile],
                       edge |-> [p \in Pair |-> IF \E y \in asked : p = {x, y}
                                   THEN [NoEdge EXCEPT !.state = "pending", !.by = {x}, !.rev = rank[Only(p \ {x})]] ELSE NoEdge],
                       clock |-> [a \in Account |-> IF a \in asked THEN rank[a] ELSE IF a = x THEN Cardinality(asked) ELSE 0],
                       outbox |-> [a \in Account |-> a \in members], receipt |-> [c \in Command |-> 0]]
         /\ wish = [a \in Account |-> [active |-> a \in members, shown |-> a \in members]]
    /\ txn = [r \in Request |-> Idle] /\ command = [c \in Command |-> NoCommand]
    /\ time = 0
    /\ changes = [s \in Pair \union {{a} : a \in Account} |-> 0]
    /\ applied = [c \in Command |-> 0]

-----------------------------------------------------------------------------
Ties(d, a, states) == {p \in Pair : a \in p /\ d.edge[p].state \in states}
Peers(d, a) == UNION Ties(d, a, {"none", "pending", "accepted"}) \ {a}

\* capacity
HasRoom(d, a, state, limit) == Cardinality(Ties(d, a, {state})) < limit

\* Mutant: only answers are compared with what was seen.
AnswersSeenAsIs(m, e) == m.action \in {"accept", "decline"} => m.seen = e.rev

\* Every choice but a block is made on a reading of the pair.
SeenAsIs(m, e) == m.action # "block" => m.seen = e.rev

\* Does the command find what it needs: its plan neither throws nor ends as a no-op.
Applies(d, m) ==
    LET a == Only(m.actor)  own == d.profile[a] IN
    CASE m.action \in Editing -> ~own.held /\ m.seen = own.rev /\ ~(own.active /\ own.shown = (m.action = "show"))
      [] m.action = "deactivate" -> own.active
      [] m.action = "suspend" -> own.exists /\ ~own.held
      [] m.action = "unsuspend" -> own.held
      [] m.action = "delete" -> TRUE
      [] OTHER -> LET b == Only(m.target)  peer == d.profile[b]  e == d.edge[{a, b}] IN
           /\ own.exists /\ peer.exists
           /\ SeenAsIs(m, e)
           /\ m.action = "block" => a \notin e.blocked
           /\ m.action = "unblock" => a \in e.blocked
           /\ m.action \notin {"block", "unblock"} => own.active /\ peer.active /\ e.blocked = {}
           /\ m.action = "request" => /\ e.state \in {"absent", "none"} /\ peer.shown
                                      /\ \A x \in {a, b} : HasRoom(d, x, "pending", MaxPending)
           /\ m.action = "accept" => /\ e.state = "pending" /\ e.by = {b}
                                     /\ \A x \in {a, b} : HasRoom(d, x, "accepted", MaxFriends)
           /\ m.action \in {"decline", "cancel"} => e.state = "pending" /\ e.by = (IF m.action = "cancel" THEN {a} ELSE {b})
           /\ m.action = "remove" => e.state = "accepted"

\* Mutant: nextRelationshipRevision of the pair alone, which forgets what its tombstone knew.
RevisionOfPair(d, accounts, floor) == 1 + floor

NextRevision(d, accounts, floor) ==
    1 + Max({floor} \union {d.clock[a] : a \in accounts})

\* A pair that is nothing to each other keeps a tombstone until no command sent before it can still run.
Tombstone(now) == now + Scope + Grace

\* Mutant: requests are left to be answered later.
EndsNoRequests(d, a, states) == Ties(d, a, states \ {"pending"})

Ended(d, a, states) ==
    Ties(d, a, states)

\* Every pair of the account in these states becomes nothing, at one revision that all of their accounts retain.
EndTies(d, a, states, alsoActor, now) ==
    LET ended == Ended(d, a, states)
        accounts == UNION ended \union alsoActor
        rev == NextRevision(d, accounts, Max({0} \union {d.edge[p].rev : p \in ended}))
    IN  IF accounts = {} THEN d
        ELSE [d EXCEPT
           !.edge = [p \in Pair |-> IF p \in ended THEN [@[p] EXCEPT !.state = "none", !.by = {}, !.rev = rev,
                                                        !.until = IF d.edge[p].blocked = {} THEN Tombstone(now) ELSE 0]
                                    ELSE @[p]],
           !.clock = [x \in Account |-> IF x \in accounts THEN rev ELSE @[x]]]

Signal(d, accounts) == [d EXCEPT !.outbox = [x \in Account |-> @[x] \/ x \in accounts]]

\* Mutant: a block leaves a friendship or a request as it is.
BlockKeepsTies(e, action) ==
    CASE action = "request" -> "pending" [] action = "accept" -> "accepted" [] action = "block" /\ e.state # "absent" -> e.state [] OTHER -> "none"

StateAfter(e, action) ==
    CASE action = "request" -> "pending" [] action = "accept" -> "accepted" [] OTHER -> "none"

ChangeEdge(d, m, now) ==
    LET a == Only(m.actor)
        p == Subject(m)
        e == d.edge[p]
        rev == NextRevision(d, p, e.rev)
        blocked == CASE m.action = "block" -> e.blocked \union {a} [] m.action = "unblock" -> e.blocked \ {a} [] OTHER -> e.blocked
        state == StateAfter(e, m.action)
    IN  Signal([d EXCEPT !.edge[p] = [state |-> state, by |-> IF m.action = "request" THEN m.actor ELSE {}, blocked |-> blocked, rev |-> rev,
                                      until |-> IF state = "none" /\ blocked = {} THEN Tombstone(now) ELSE 0],
                         !.clock = [x \in Account |-> IF x \in p THEN rev ELSE @[x]]], p)

EditProfile(d, m) ==
    LET a == Only(m.actor) IN
    Signal([d EXCEPT !.profile[a] = [@ EXCEPT !.exists = TRUE, !.active = TRUE, !.shown = m.action = "show", !.rev = @ + 1]], {a})

Deactivate(d, a, now) ==
    Signal([EndTies(d, a, {"none", "pending", "accepted"}, {a}, now) EXCEPT !.profile[a] = [@ EXCEPT !.active = FALSE, !.shown = FALSE, !.rev = @ + 1]],
           {a} \union Peers(d, a))

\* Mutant: the suspension keeps what it hides as it is afterwards.
SuspendForgetful(d, a, now) ==
    Signal([EndTies(d, a, {"pending"}, {}, now) EXCEPT
              !.profile[a] = [@ EXCEPT !.held = TRUE, !.active = FALSE, !.shown = FALSE, !.rev = @ + 1]],
           {a} \union Peers(d, a))

Suspend(d, a, now) ==
    Signal([EndTies(d, a, {"pending"}, {}, now) EXCEPT
              !.profile[a] = [@ EXCEPT !.held = TRUE, !.wasActive = d.profile[a].active, !.wasShown = d.profile[a].shown,
                                       !.active = FALSE, !.shown = FALSE, !.rev = @ + 1]],
           {a} \union Peers(d, a))

Unsuspend(d, a) ==
    Signal([d EXCEPT !.profile[a] = [NoProfile EXCEPT !.exists = TRUE, !.active = d.profile[a].wasActive, !.shown = d.profile[a].wasShown,
                                                      !.rev = d.profile[a].rev + 1]],
           {a} \union Peers(d, a))

\* deleteListenerAccountData, and the social identity in the same transaction
Delete(d, a) ==
    [alive |-> [d.alive EXCEPT ![a] = FALSE], profile |-> [d.profile EXCEPT ![a] = NoProfile],
     edge |-> [p \in Pair |-> IF a \in p THEN NoEdge ELSE d.edge[p]],
     clock |-> [d.clock EXCEPT ![a] = 0],
     outbox |-> [x \in Account |-> x # a /\ (d.outbox[x] \/ (x \in Peers(d, a) /\ d.alive[x]))],
     receipt |-> [c \in Command |-> IF command[c].actor = {a} /\ command[c].action \notin Unscoped THEN 0 ELSE d.receipt[c]]]

Result(d, m, now) ==
    IF ~Applies(d, m) THEN d
    ELSE CASE m.action \in Editing -> EditProfile(d, m)
           [] m.action = "deactivate" -> Deactivate(d, Only(m.actor), now)
           [] m.action = "suspend" -> Suspend(d, Only(m.actor), now)
           [] m.action = "unsuspend" -> Unsuspend(d, Only(m.actor))
           [] m.action = "delete" -> Delete(d, Only(m.actor))
           [] OTHER -> ChangeEdge(d, m, now)

-----------------------------------------------------------------------------
\* A listener decides on what it reads; its page may be days old when the command is first sent.
Compose(c, action, a, b) ==
    /\ \A earlier \in Command : (earlier < c) = (command[earlier].action # "none")
    /\ Cardinality({open \in 1..c - 1 : command[open].sends < MaxSends}) < MaxOpen
    /\ db.alive[a] /\ action \in Action
    /\ action \in Seeing \union {"block"} => b # a
    /\ action \notin Seeing \union {"block"} => b = a
    /\ LET m == [NoCommand EXCEPT !.action = action, !.actor = {a}, !.target = {b}] IN
       command' = [command EXCEPT ![c] =
         [m EXCEPT !.readAt = time, !.reading = changes[Subject(m)],
                   !.seen = CASE action \in Seeing -> db.edge[{a, b}].rev [] action \in Editing -> db.profile[a].rev [] OTHER -> 0]]
    /\ UNCHANGED <<db, txn, time, changes, applied, wish>>

\* Mutant: only the actor's own account is fenced, whoever it addresses.
FencesActor(d, m) == IF m.action \in Seeing \union {"block"} THEN m.actor ELSE m.actor \union Peers(d, Only(m.actor))

Fences(d, m) ==
    CASE m.action \in Seeing \union {"block"} -> m.actor \union {b \in m.target : d.profile[b].exists}
      [] m.action \in {"deactivate", "suspend", "unsuspend", "delete"} -> m.actor \union Peers(d, Only(m.actor))
      [] OTHER -> m.actor

\* issueScope: a scope obtained now or earlier, with which the command stays until its outcome is known
Signed(c, scope) ==
    IF command[c].action \in Unscoped THEN scope = 0
    ELSE scope > time /\ (command[c].sends = 0 \/ scope = command[c].scope)

\* transaction: the request begins with the scope check, the session, and the fences of its accounts.
Start(r, c, scope) ==
    /\ txn[r] = Idle /\ command[c].action # "none" /\ command[c].sends < MaxSends
    /\ Signed(c, scope)
    /\ \A a \in Fences(db, command[c]) : db.alive[a]
    /\ txn' = [txn EXCEPT ![r] = [at |-> time, command |-> c, snapshot |-> db]]
    /\ command' = [command EXCEPT ![c].scope = scope]
    /\ UNCHANGED <<db, time, changes, applied, wish>>

\* Mutant: a resent command is carried out again.
NeverReplayed(d, c) == FALSE

Replayed(d, c) ==
    d.receipt[c] > 0

Retain(d, c) ==
    IF command[c].action \in Unscoped THEN d ELSE [d EXCEPT !.receipt[c] = command[c].scope + Grace]

\* Nothing is kept of what a command had read once it is sent no more.
Sent(m) ==
    IF m.sends + 1 < MaxSends THEN [m EXCEPT !.sends = @ + 1]
    ELSE [NoCommand EXCEPT !.action = m.action, !.actor = m.actor, !.sends = MaxSends]

Touches(q, accounts) == txn[q] # Idle /\ Fences(txn[q].snapshot, command[txn[q].command]) \intersect accounts # {}
Rewritten(before, after) ==
    {p \in Pair : before.edge[p] # after.edge[p]} \union {{a} : a \in {x \in Account : before.profile[x] # after.profile[x]}}

(* The transaction commits.  It took nothing from the database that another has written since, so what
   it writes is what the operation makes of the database; those that touch its accounts abort. *)
Commit(r) ==
    /\ txn[r] # Idle
    /\ command' = [command EXCEPT ![txn[r].command] = Sent(@)]
    /\ LET c == txn[r].command
           m == command[c]
           d == txn[r].snapshot
           replay == m.action \notin Unscoped /\ Replayed(d, c)
           after == IF replay THEN d ELSE Retain(Result(d, m, txn[r].at), c)
           fences == Fences(d, m)
       IN  /\ db' = [f \in DOMAIN db |-> [x \in DOMAIN db[f] |-> IF d[f][x] = after[f][x] THEN db[f][x] ELSE after[f][x]]]
           /\ txn' = [q \in Request |-> IF q = r \/ Touches(q, fences) THEN Idle ELSE txn[q]]
           /\ changes' = [s \in DOMAIN changes |-> IF s \in Rewritten(d, after) THEN changes[s] + 1 ELSE changes[s]]
           /\ applied' = IF ~replay /\ Applies(d, m) THEN [applied EXCEPT ![c] = @ + 1] ELSE applied
           /\ wish' = IF replay \/ ~Applies(d, m) THEN wish
                      ELSE CASE m.action \in Editing -> [wish EXCEPT ![Only(m.actor)] = [active |-> TRUE, shown |-> m.action = "show"]]
                             [] m.action \in {"deactivate", "delete"} -> [wish EXCEPT ![Only(m.actor)] = [active |-> FALSE, shown |-> FALSE]]
                             [] OTHER -> wish
    /\ UNCHANGED time

\* The process ends, or its attempts are used up.
Abort(r) ==
    /\ txn[r] # Idle
    /\ txn' = [txn EXCEPT ![r] = Idle]
    /\ UNCHANGED <<db, command, time, changes, applied, wish>>

\* The database removes what has expired; transactions about to write it abort.
PurgeEdge(p) ==
    /\ db.edge[p].until > 0 /\ db.edge[p].until <= time
    /\ db' = [db EXCEPT !.edge[p] = NoEdge]
    /\ txn' = [q \in Request |-> IF Touches(q, p) THEN Idle ELSE txn[q]]
    /\ UNCHANGED <<command, time, changes, applied, wish>>

PurgeReceipt(c) ==
    /\ db.receipt[c] > 0 /\ db.receipt[c] <= time
    /\ db' = [db EXCEPT !.receipt[c] = 0]
    /\ UNCHANGED <<txn, command, time, changes, applied, wish>>

\* A transaction lives for a minute at most, a small part of a unit of time.
Tick ==
    /\ time < MaxTime
    /\ \A r \in Request : txn[r] = Idle \/ txn[r].at = time
    /\ time' = time + 1
    /\ UNCHANGED <<db, txn, command, changes, applied, wish>>

Next ==
    \/ \E c \in Command, action \in Action, a, b \in Account : Compose(c, action, a, b)
    \/ \E c \in Command : PurgeReceipt(c)
    \/ \E r \in Request, c \in Command, scope \in {0} \union time + 1..time + Scope : Start(r, c, scope)
    \/ \E r \in Request : Commit(r) \/ Abort(r)
    \/ \E p \in Pair : PurgeEdge(p)
    \/ Tick

Spec == Init /\ [][Next]_vars

-----------------------------------------------------------------------------
(* An action chosen on what a listener had read is never applied to a later incarnation: what it read
   has not been rewritten since, but for a pair that was nothing, and is nothing again long after. *)
NoneIsStale ==
    \A c \in Command : applied'[c] > applied[c] /\ command[c].action \in Seeing \union Editing =>
        \/ command[c].reading = changes[Subject(command[c])]
        \/ command[c].seen = 0 /\ time >= command[c].readAt + Scope + Grace
StaleCommandsRefused == [][NoneIsStale]_vars

(* However often a command is sent, it is applied at most once, even if what it did was undone since
   and its receipt has expired. *)
AppliedOnce == \A c \in Command : command[c].action \notin Unscoped => applied[c] <= 1

(* Nobody waits for an answer of a hidden or deactivated listener, and nobody is friends with one who
   left: a suspension alone keeps friendships, those of a profile that will be active again. *)
TiesNeedActiveProfiles ==
    \A p \in Pair, a \in Account : a \in p =>
      /\ db.edge[p].state = "pending" => db.profile[a].active
      /\ db.edge[p].state = "accepted" => db.profile[a].active \/ (db.profile[a].held /\ db.profile[a].wasActive)

(* Concurrent acceptances and requests, each of which reads the counts of both, never exceed the limits. *)
TiesAreBounded ==
    \A a \in Account : /\ Cardinality(Ties(db, a, {"accepted"})) <= MaxFriends
                       /\ Cardinality(Ties(db, a, {"pending"})) <= MaxPending

(* Nothing of a deleted account is left, or is written again by a transaction that was under way. *)
NothingOutlivesAccount ==
    \A a \in Account : ~db.alive[a] =>
      /\ ~db.profile[a].exists /\ db.clock[a] = 0 /\ ~db.outbox[a]
      /\ \A p \in Pair : a \in p => db.edge[p] = NoEdge

(* Whatever staff do, a listener is as active and discoverable as it last chose to be, or is suspended
   and will be again. *)
SuspensionKeepsChoices ==
    \A a \in Account : LET own == db.profile[a] IN
      own.exists => wish[a] = IF own.held THEN [active |-> own.wasActive, shown |-> own.wasShown]
                              ELSE [active |-> own.active, shown |-> own.shown]
=============================================================================
