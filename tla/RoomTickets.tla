----------------------------- MODULE RoomTickets -----------------------------
(***************************************************************************)
(* From a session to a socket: realtime/roomTickets under the session      *)
(* fence, the upgrade of realtime/roomGateway, and the revocation of       *)
(* services/auth/sessionRoomLifecycleService.  Transactions of one account *)
(* are single steps, since all of them write its user and session rows;    *)
(* requests authenticate, wait and connect outside them.  One account.     *)
(***************************************************************************)
EXTENDS Integers, FiniteSets

CONSTANTS
    Session, Ticket, Upgrade,
    Limit \* tickets one account may hold

TicketsAssumption == Limit \in Nat \ {0}

VARIABLES
    live,     \* sessions neither revoked nor expired
    owner,    \* the session a ticket was asked for
    ticket,   \* where each ticket is; only stored and expired ones are rows
    upgrade   \* each upgrade: its ticket, and how far it is

vars == <<live, owner, ticket, upgrade>>

NoUpgrade == [ticket |-> "none", at |-> "none"]
HolderOf(u) == owner[upgrade[u].ticket]
Redeemed == {u \in Upgrade : upgrade[u].at \in {"redeemed", "open", "read", "closed"}}
Rows == {t \in Ticket : ticket[t] \in {"stored", "expired"}}

\* An account never holds more tickets than the limit.
TypeOK ==
    /\ live \subseteq Session
    /\ owner \in [Ticket -> Session]
    /\ ticket \in [Ticket -> {"unasked", "asked", "stored", "expired", "gone"}]
    /\ upgrade \in [Upgrade -> [ticket : Ticket \union {"none"},
                                at : {"none", "found", "refused", "redeemed", "open", "read", "closed"}]]
    /\ Cardinality({t \in Ticket : ticket[t] = "stored"}) <= Limit

Init == /\ live = Session
        /\ owner \in [Ticket -> Session]
        /\ ticket = [t \in Ticket |-> "unasked"]
        /\ upgrade = [u \in Upgrade |-> NoUpgrade]

-----------------------------------------------------------------------------
\* A request for a ticket authenticates, and waits for the seat check.
Ask(t) == /\ ticket[t] = "unasked" /\ owner[t] \in live
          /\ ticket' = [ticket EXCEPT ![t] = "asked"]
          /\ UNCHANGED <<live, owner, upgrade>>

\* Mutant: the request was authenticated already.
FencedAtRequest(s) == TRUE

\* fenceRoomSession
Fenced(s) == s \in live

\* Mutant: the limit is one more than it is.
RoomForOneTooMany(rows) == Cardinality(rows) <= Limit

RoomForTicket(rows) == Cardinality(rows) < Limit

\* issueRoomTicket: expired rows go first.
Issue(t) ==
    /\ ticket[t] = "asked"
    /\ LET purged == [x \in Ticket |-> IF ticket[x] = "expired" THEN "gone" ELSE ticket[x]]
           rows == {x \in Ticket : ticket[x] = "stored"}
       IN  IF Fenced(owner[t]) /\ RoomForTicket(rows)
           THEN ticket' = [purged EXCEPT ![t] = "stored"]
           ELSE ticket' = [ticket EXCEPT ![t] = "gone"]
    /\ UNCHANGED <<live, owner, upgrade>>

Expire(t) == /\ ticket[t] = "stored"
             /\ ticket' = [ticket EXCEPT ![t] = "expired"]
             /\ UNCHANGED <<live, owner, upgrade>>

\* redeemRoomTicket finds the row, in a snapshot that others' deletions may outdate.
Find(u, t) == /\ upgrade[u].at = "none" /\ ticket[t] \in {"stored", "gone"}
              /\ upgrade' = [upgrade EXCEPT ![u] = [ticket |-> t, at |-> IF ticket[t] = "stored" THEN "found" ELSE "refused"]]
              /\ UNCHANGED <<live, owner, ticket>>

\* Mutant: a found row is enough.
ConsumedIfFound(u) == TRUE

Consumed(u) == ticket[upgrade[u].ticket] = "stored"

\* The rest of the transaction; a commit whose reply is lost costs the ticket.
Redeem(u) ==
    /\ upgrade[u].at = "found"
    /\ IF Fenced(HolderOf(u)) /\ Consumed(u)
       THEN /\ ticket' = [ticket EXCEPT ![upgrade[u].ticket] = "gone"]
            /\ \E at \in {"redeemed", "refused"} : upgrade' = [upgrade EXCEPT ![u].at = at]
       ELSE /\ upgrade' = [upgrade EXCEPT ![u].at = "refused"]
            /\ UNCHANGED ticket
    /\ UNCHANGED <<live, owner>>

\* The seat is judged, and the socket is opened or destroyed.
Connect(u) == /\ upgrade[u].at = "redeemed"
              /\ \E at \in {"open", "closed"} : upgrade' = [upgrade EXCEPT ![u].at = at]
              /\ UNCHANGED <<live, owner, ticket>>

\* refresh resolves the viewer's session again, and closes a socket without one.
Refresh(u) == /\ upgrade[u].at \in {"open", "read"}
              /\ upgrade' = [upgrade EXCEPT ![u].at = IF Fenced(HolderOf(u)) THEN "read" ELSE "closed"]
              /\ UNCHANGED <<live, owner, ticket>>

Close(u) == /\ upgrade[u].at \in {"open", "read"}
            /\ upgrade' = [upgrade EXCEPT ![u].at = "closed"]
            /\ UNCHANGED <<live, owner, ticket>>

\* A session's absolute lifetime ends.
Lapse(s) == /\ s \in live
            /\ live' = live \ {s}
            /\ UNCHANGED <<owner, ticket, upgrade>>

\* revokeSessionsInTransaction takes sessions and their tickets together.
Revoke(sessions) ==
    /\ sessions \intersect live # {}
    /\ live' = live \ sessions
    /\ ticket' = [t \in Ticket |-> IF t \in Rows /\ owner[t] \in sessions THEN "gone" ELSE ticket[t]]
    /\ UNCHANGED <<owner, upgrade>>

Logout(s) == Revoke({s})
LogoutAll == Revoke(Session)
LogoutOthers(s) == s \in live /\ Revoke(Session \ {s})

Next == \/ \E t \in Ticket : Ask(t) \/ Issue(t) \/ Expire(t) \/ \E u \in Upgrade : Find(u, t)
        \/ \E u \in Upgrade : Redeem(u) \/ Connect(u) \/ Refresh(u) \/ Close(u)
        \/ \E s \in Session : Lapse(s) \/ Logout(s) \/ LogoutOthers(s)
        \/ LogoutAll

Spec == Init /\ [][Next]_vars

\* Upgrades run on, and recovery refreshes every socket again and again.
Fairness == \A u \in Upgrade : WF_vars(Redeem(u)) /\ WF_vars(Connect(u)) /\ WF_vars(Refresh(u))

FairSpec == Spec /\ Fairness

-----------------------------------------------------------------------------
\* A ticket opens at most one socket, however many upgrades present it.
OneSocketPerTicket ==
    \A u, w \in Redeemed : upgrade[u].ticket = upgrade[w].ticket => u = w

\* A session that ended leaves no socket behind, whichever upgrades and
\* refreshes were under way.
SocketsEndWithSessions ==
    \A u \in Upgrade : (upgrade[u].at \in {"redeemed", "open", "read"} /\ HolderOf(u) \notin live)
                          ~> upgrade[u].at = "closed"
=============================================================================
