---------------------------- MODULE RealtimeSeats ----------------------------
(***************************************************************************)
(* Who gets a realtime socket: the admission of realtime/roomGateway under *)
(* config/socialCapacity.  The judgment reads the process's own map of     *)
(* connections; the membership it depends on is in the database, so it is  *)
(* looked up with a yield on admission and cached on every connection      *)
(* until the next refresh.  Addresses, rates and tickets are left out.     *)
(***************************************************************************)
EXTENDS Integers, FiniteSets

CONSTANTS
    Account, Client, AccountOf, \* a client's connection key belongs to one account
    MaxSockets, OpenRooms, Members, \* SocialCapacity
    PerAccount,                 \* REALTIME_SOCKETS_PER_ACCOUNT
    PendingUpgrades,            \* PENDING_UPGRADES
    Lingering                   \* may a socket wait for its close event?

SeatsAssumption == /\ AccountOf \in [Client -> Account]
                          /\ {MaxSockets, OpenRooms, Members, PerAccount, PendingUpgrades} \subseteq Nat \ {0}
                          /\ Lingering \in BOOLEAN

VARIABLES
    member, \* accounts with a participation row
    conn,   \* connections, by key
    reading,\* what a running refresh of the connection has read
    asking  \* the upgrade a client has under way

vars == <<member, conn, reading, asking>>

NoConn == [state |-> "none", inRoom |-> FALSE]
NotAsking == [at |-> "no", member |-> FALSE]

\* No account holds more than its ceiling, whatever the rooms it is in.
TypeOK == /\ member \subseteq Account
          /\ conn \in [Client -> [state : {"none", "open", "closing"}, inRoom : BOOLEAN]]
          /\ reading \in [Client -> {"none", "room", "no room"}]
          /\ asking \in [Client -> [at : {"no", "lookup", "judge"}, member : BOOLEAN]]
          /\ \A c \in Client : conn[c].state # "open" => reading[c] = "none"
          /\ \A a \in Account : Cardinality({c \in Client : conn[c].state = "open" /\ AccountOf[c] = a}) <= PerAccount

Init == /\ member \in SUBSET Account
        /\ conn = [c \in Client |-> NoConn]
        /\ reading = [c \in Client |-> "none"]
        /\ asking = [c \in Client |-> NotAsking]

-----------------------------------------------------------------------------
Least(m, n) == IF m < n THEN m ELSE n
Greatest(m, n) == IF m < n THEN n ELSE m

Reserved == Least(OpenRooms * Members, MaxSockets \div 2)
General == MaxSockets - Reserved
GeneralPerAccount == Least(PerAccount, Greatest(1, General \div 4))

\* seatState: closing sockets hold no seat.
OpenSockets == {c \in Client : conn[c].state = "open"}
SocketsOf(a) == {c \in OpenSockets : AccountOf[c] = a}
MemberAccounts == {AccountOf[c] : c \in {d \in OpenSockets : conn[d].inRoom}}
Replacing(c) == conn[c].state # "none"

\* realtimeSeatRefusal, of one more socket of a.
Refused(a, isMember) ==
    LET own == Cardinality(SocketsOf(a)) + 1
        all == Cardinality(OpenSockets) + 1
        members == Cardinality(MemberAccounts \union IF isMember THEN {a} ELSE {})
    IN \/ own > PerAccount
       \/ all > MaxSockets
       \/ own - (IF isMember THEN 1 ELSE 0) > GeneralPerAccount
       \/ all - Least(members, Reserved) > General

Admissible(c, isMember) == Replacing(c) \/ ~Refused(AccountOf[c], isMember)

\* generalOverfull
OverfullWith(members) == Cardinality(OpenSockets) - Least(members, Reserved) > General

-----------------------------------------------------------------------------
\* admitRealtimeSeat: membership is looked up only where it could matter.
Upgrade(c) ==
    /\ asking[c].at = "no" /\ Cardinality({d \in Client : asking[d].at # "no"}) < PendingUpgrades
    /\ LET known == AccountOf[c] \in MemberAccounts
           matters == ~Admissible(c, known) /\ ~known /\ Admissible(c, TRUE)
       IN  asking' = [asking EXCEPT ![c] = [at |-> IF matters THEN "lookup" ELSE "judge", member |-> known]]
    /\ UNCHANGED <<member, conn, reading>>

\* isRoomParticipant; a lookup that fails proves nothing.
Lookup(c) ==
    /\ asking[c].at = "lookup"
    /\ \E found \in {AccountOf[c] \in member, FALSE} :
          asking' = [asking EXCEPT ![c] = [at |-> "judge", member |-> found \/ AccountOf[c] \in MemberAccounts]]
    /\ UNCHANGED <<member, conn, reading>>

\* Mutant: no judgment after the lookup.
SeatedAsAsked(c) == TRUE

\* The judgment nothing yields after.
Seated(c) == Admissible(c, asking[c].member \/ AccountOf[c] \in MemberAccounts)

\* connect, or a refusal.
Judge(c) ==
    /\ asking[c].at = "judge"
    /\ asking' = [asking EXCEPT ![c] = NotAsking]
    /\ IF Seated(c)
       THEN /\ conn' = [conn EXCEPT ![c] = [state |-> "open", inRoom |-> asking[c].member \/ @.inRoom]]
            /\ reading' = [reading EXCEPT ![c] = "none"]
       ELSE UNCHANGED <<conn, reading>>
    /\ UNCHANGED member

\* The upgrade's own socket is destroyed while it waits, or admission ended.
Abandon(c) == /\ asking[c].at # "no"
              /\ asking' = [asking EXCEPT ![c] = NotAsking]
              /\ UNCHANGED <<member, conn, reading>>

-----------------------------------------------------------------------------
Closed == IF Lingering THEN {"none", "closing"} ELSE {"none"}

ReadRoom(c) ==
    /\ conn[c].state = "open" /\ reading[c] = "none"
    /\ reading' = [reading EXCEPT ![c] = IF AccountOf[c] \in member THEN "room" ELSE "no room"]
    /\ UNCHANGED <<member, conn, asking>>

\* Mutant: a seat is never given back.
ReleasedNever(c) == FALSE

\* A member's seat whose account left goes back while the rest is over-full.
Released(c) ==
    /\ conn[c].inRoom /\ reading[c] = "no room"
    /\ OverfullWith(Cardinality({AccountOf[d] : d \in {e \in OpenSockets \ {c} : conn[e].inRoom}}))

\* refresh
Refresh(c) ==
    /\ reading[c] # "none"
    /\ \E closed \in Closed :
          conn' = [conn EXCEPT ![c] = [state |-> IF Released(c) THEN closed ELSE "open",
                                       inRoom |-> reading[c] = "room" /\ ~(Released(c) /\ closed = "none")]]
    /\ reading' = [reading EXCEPT ![c] = "none"]
    /\ UNCHANGED <<member, asking>>

\* The client goes away, or the gateway closes the socket for any other reason.
Close(c) ==
    /\ conn[c].state = "open"
    /\ \E closed \in Closed : conn' = [conn EXCEPT ![c] = IF closed = "none" THEN NoConn ELSE [@ EXCEPT !.state = closed]]
    /\ reading' = [reading EXCEPT ![c] = "none"]
    /\ UNCHANGED <<member, asking>>

\* The socket's close event.
Forget(c) == /\ conn[c].state = "closing"
             /\ conn' = [conn EXCEPT ![c] = NoConn]
             /\ UNCHANGED <<member, reading, asking>>

Join(a) == /\ a \notin member
           /\ member' = member \union {a}
           /\ UNCHANGED <<conn, reading, asking>>

Leave(a) == /\ a \in member
            /\ member' = member \ {a}
            /\ UNCHANGED <<conn, reading, asking>>

Next == \/ \E c \in Client : \/ Upgrade(c) \/ Lookup(c) \/ Judge(c) \/ Abandon(c) \/ ReadRoom(c)
                             \/ Refresh(c) \/ Close(c) \/ Forget(c)
        \/ \E a \in Account : Join(a) \/ Leave(a)

Spec == Init /\ [][Next]_vars

-----------------------------------------------------------------------------
\* What the capacity settings promise.

\* One process never holds more realtime sockets than the ceiling.
SocketCeiling == Cardinality(OpenSockets) <= MaxSockets

\* While fewer members than reserved seats are connected, a member without a
\* socket finds a seat: no admission, departure or refresh, in any order,
\* leaves it taken by a tab outside a room.
MemberFindsASeat ==
    \A a \in Account : SocketsOf(a) = {} /\ Cardinality(MemberAccounts) < Reserved => ~Refused(a, TRUE)
=============================================================================
