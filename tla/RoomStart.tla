------------------------------ MODULE RoomStart -----------------------------
(***************************************************************************)
(* Where the instances of Rooms begin: with nobody in a room, or, for the  *)
(* runs that are about playback, with a room that has been created and     *)
(* joined, a state Spec reaches by Create, Invite and Accept.  Devices     *)
(* that take no part are signed out, and accounts without a device have    *)
(* deactivated their profile.                                              *)
(***************************************************************************)
EXTENDS RoomProperties

CONSTANTS
    Founder,   \* the device that created the room
    Here,      \* the devices that take part
    SecondTabs \* those of them that have yet to sign in

Active == {AccountOf[d] : d \in Here}

(* Everybody who takes part is everybody's friend.                         *)
Begin ==
    /\ epoch = 1 /\ enabled = TRUE
    /\ friends = {f \in SUBSET Active : Cardinality(f) = 2} /\ blocks = {} /\ active = Active
    /\ sessions = [x \in Session |-> CASE x \in {SessionOf[d] : d \in SecondTabs} -> "unused"
                                       [] x \in {SessionOf[d] : d \in Here \ SecondTabs} -> "live"
                                       [] OTHER -> "revoked"]
    /\ media = [t \in Track |-> [revision |-> 1, ready |-> TRUE]]
    /\ view = None

EmptyInit ==
    /\ Begin
    /\ rooms = [r \in Room |-> None]
    /\ slots = [a \in Account |-> None]
    /\ invitations = [x \in Room \X Account |-> None]
    /\ joins = [a \in Account |-> 0]

(* One device of each account has joined a room and is connected.          *)
Joined(d) == [NewMember(d) EXCEPT !.present = TRUE]
Founded(tracks) ==
    LET made == NewRoom(Founder, <<AccountOf[Founder], 1>>, 1, [i \in DOMAIN tracks |-> <<tracks[i], 1>>])
    IN  [made EXCEPT !.members = [m \in {<<a, 1>> : a \in Active} |->
            Joined(CHOOSE d \in Here \ SecondTabs : AccountOf[d] = m[1])]]

OpenInit ==
    /\ Begin
    /\ \E first \in Room, tracks \in Queues :
          /\ first = CHOOSE r \in Room : TRUE
          /\ rooms = [r \in Room |-> IF r = first THEN Founded(tracks) ELSE None]
          /\ slots = [a \in Account |-> IF a \in Active THEN [room |-> first, member |-> <<a, 1>>] ELSE None]
    /\ invitations = [x \in Room \X Account |-> None]
    /\ joins = [a \in Account |-> IF a \in Active THEN 1 ELSE 0]
=============================================================================
