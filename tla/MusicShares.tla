----------------------------- MODULE MusicShares -----------------------------
(***************************************************************************)
(* Music one listener shares with a friend (musicShareService), and the    *)
(* operations that take shares away: the end of a friendship, of a         *)
(* profile or of an account, the deletion of the track or album, and       *)
(* expiry.  A command runs in a snapshot transaction that writes the       *)
(* documents of both accounts and of the content; so does every other      *)
(* operation, which makes the earlier snapshot fail.                       *)
(***************************************************************************)
EXTENDS FiniteSets, Integers

CONSTANTS
    Account, Content,
    Incoming, Outgoing,  \* live shares an account may have
    Batch,               \* shares that one cleanup transaction takes away
    Request              \* the transactions that may be open at a time

SharesAssumption == {Incoming, Outgoing, Batch} \subseteq Nat \ {0}

VARIABLES
    account,   \* whether it has an active profile, none, or is deleted
    friends,   \* the pairs with an accepted relationship
    content,   \* public, deleted, or deleted and its references removed
    shares,
    open       \* the transactions in which something is being shared

vars == <<account, friends, content, shares, open>>

Idle == [state |-> "idle"]
Of(a) == {s \in shares : a \in {s.from, s.to}}
Live == {s \in shares : s.live}
Sent(a) == {s \in Live : s.from = a}
Received(a) == {s \in Live : s.to = a}

\* Every part is well formed, and no account sends or receives more than its limits.
TypeOK ==
    /\ account \in [Account -> {"active", "inactive", "deleted"}]
    /\ friends \subseteq {p \in SUBSET Account : Cardinality(p) = 2}
    /\ content \in [Content -> {"public", "deleted", "detached"}]
    /\ shares \subseteq [from : Account, to : Account, content : Content, live : BOOLEAN]
    /\ \A q \in Request : open[q].state \in {"idle", "open"}
    /\ \A a \in Account : Cardinality(Sent(a)) <= Outgoing /\ Cardinality(Received(a)) <= Incoming

Init ==
    /\ account = [a \in Account |-> "active"] /\ friends = {p \in SUBSET Account : Cardinality(p) = 2}
    /\ content = [c \in Content |-> "public"] /\ shares = {} /\ open = [q \in Request |-> Idle]

-----------------------------------------------------------------------------
\* Mutants: what a transaction writes, but for the accounts, or for the content.
TouchesContent(share) == {share.content}
TouchesAccounts(share) == {share.from, share.to}

Touched(share) ==
    {share.from, share.to, share.content}

\* A commit makes every open transaction fail that writes one of its documents.
Commit(docs) ==
    open' = [q \in Request |-> IF open[q].state = "open" /\ Touched(open[q].share) \cap docs # {} THEN [open[q] EXCEPT !.fails = TRUE] ELSE open[q]]

\* Mutant: expired shares are left to the database's own sweep.
NoPurge(a, b) == {}

Expired(a, b) ==
    (Of(a) \union Of(b)) \ Live

\* Mutant: only the sender's shares are counted.
SenderHasRoom(a, b) == Cardinality(Sent(a)) < Outgoing

HaveRoom(a, b) ==
    Cardinality(Sent(a)) < Outgoing /\ Cardinality(Received(b)) < Incoming

\* shareMusic, as far as the commit; a share of the same that is live already is no change.
StartShare(q, a, b, c) ==
    LET share == [from |-> a, to |-> b, content |-> c, live |-> TRUE] IN
    /\ open[q] = Idle /\ a # b
    /\ account[a] = "active" /\ account[b] = "active" /\ {a, b} \in friends
    /\ share \notin shares
    /\ HaveRoom(a, b)
    /\ content[c] = "public"
    /\ open' = [open EXCEPT ![q] = [state |-> "open", share |-> share, purges |-> Expired(a, b), fails |-> FALSE]]
    /\ UNCHANGED <<account, friends, content, shares>>

CommitShare(q) ==
    LET done == open[q] IN
    /\ done.state = "open" /\ ~done.fails
    /\ shares' = (shares \ done.purges) \union {done.share}
    /\ open' = [r \in Request |-> IF r = q THEN Idle
                  ELSE IF open[r].state = "open" /\ Touched(open[r].share) \cap Touched(done.share) # {} THEN [open[r] EXCEPT !.fails = TRUE]
                  ELSE open[r]]
    /\ UNCHANGED <<account, friends, content>>

\* The transaction is given up, or tried again from the start.
AbortShare(q) ==
    /\ open[q].state = "open"
    /\ open' = [open EXCEPT ![q] = Idle]
    /\ UNCHANGED <<account, friends, content, shares>>

\* dismissMusicShare by its recipient, withdrawMusicShare by its sender
TakeBack(s) ==
    /\ s \in shares
    /\ shares' = shares \ {s}
    /\ Commit({s.from, s.to})
    /\ UNCHANGED <<account, friends, content>>

Expire(s) ==
    /\ s \in Live
    /\ shares' = (shares \ {s}) \union {[s EXCEPT !.live = FALSE]}
    /\ UNCHANGED <<account, friends, content, open>>

Purge(s) ==
    /\ s \in shares \ Live
    /\ shares' = shares \ {s}
    /\ UNCHANGED <<account, friends, content, open>>

-----------------------------------------------------------------------------
\* deleteMusicShares: it refuses to take away more than an account can have.
Bounded(rows) == Cardinality(rows) <= Incoming + Outgoing
Parties(rows) == UNION {{s.from, s.to} : s \in rows}

\* remove and block, and the friendship made again later
Unfriend(p) ==
    LET rows == {s \in shares : {s.from, s.to} = p} IN
    /\ p \in friends /\ Bounded(rows)
    /\ friends' = friends \ {p} /\ shares' = shares \ rows
    /\ Commit(p)
    /\ UNCHANGED <<account, content>>

Befriend(p) ==
    /\ \A a \in p : account[a] = "active"
    /\ Cardinality(p) = 2 /\ p \notin friends
    /\ friends' = friends \union {p}
    /\ Commit(p)
    /\ UNCHANGED <<account, content, shares>>

\* deactivate, or the deletion of the account: its friendships go, and all its shares.
Leave(a, state) ==
    /\ account[a] # "deleted" /\ account[a] # state /\ Bounded(Of(a))
    /\ account' = [account EXCEPT ![a] = state]
    /\ friends' = {p \in friends : a \notin p}
    /\ shares' = shares \ Of(a)
    /\ Commit({a} \union Parties(Of(a)) \union UNION {p \in friends : a \in p})
    /\ UNCHANGED content

Return(a) ==
    /\ account[a] = "inactive"
    /\ account' = [account EXCEPT ![a] = "active"]
    /\ Commit({a})
    /\ UNCHANGED <<friends, content, shares>>

\* The content's storage record says that it is being deleted, from now on.
Delete(c) ==
    /\ content[c] = "public"
    /\ content' = [content EXCEPT ![c] = "deleted"]
    /\ Commit({c})
    /\ UNCHANGED <<account, friends, shares>>

\* One transaction of cleanupMusicSharesForContent; a batch that is not full is the last.
CleanUp(c, rows) ==
    LET all == {s \in shares : s.content = c} IN
    /\ content[c] = "deleted"
    /\ rows \subseteq all /\ Cardinality(rows) = (IF Cardinality(all) < Batch THEN Cardinality(all) ELSE Batch)
    /\ shares' = shares \ rows
    /\ content' = IF Cardinality(rows) < Batch THEN [content EXCEPT ![c] = "detached"] ELSE content
    /\ Commit(Parties(rows))
    /\ UNCHANGED <<account, friends>>

Next ==
    \/ \E q \in Request : \/ CommitShare(q) \/ AbortShare(q)
                          \/ \E a, b \in Account, c \in Content : StartShare(q, a, b, c)
    \/ \E s \in shares : TakeBack(s) \/ Expire(s) \/ Purge(s)
    \/ \E a, b \in Account : a # b /\ (Unfriend({a, b}) \/ Befriend({a, b}))
    \/ \E a \in Account : Leave(a, "inactive") \/ Leave(a, "deleted") \/ Return(a)
    \/ \E c \in Content : Delete(c) \/ \E rows \in SUBSET shares : CleanUp(c, rows)

Spec == Init /\ [][Next]_vars

-----------------------------------------------------------------------------
(* A live share is between friends with active profiles: no transaction that began before they parted,
   or before one of them left, brings a share back. *)
SharesAreOfFriends ==
    \A s \in Live : {s.from, s.to} \in friends /\ account[s.from] = "active" /\ account[s.to] = "active"

(* Once the references of deleted content are said to be removed, nothing shares it any more, so that its
   record may go. *)
DetachedIsUnshared == \A s \in shares : content[s.content] # "detached"

(* Leaving and parting always find few enough shares to take away, although expired ones still count: an
   account can always be deleted. *)
LeavingIsPossible == \A a \in Account : Bounded(Of(a))
=============================================================================
