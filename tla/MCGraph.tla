------------------------------- MODULE MCGraph -------------------------------
(***************************************************************************)
(* Instances of SocialGraph, by the commands that meet each other: a       *)
(* behaviour is one of one `part`.                                         *)
(***************************************************************************)
EXTENDS Integers, FiniteSets, TLC

CONSTANTS a1, a2, a3, r1, r2, Parts

VARIABLES part, db, txn, command, time, changes, applied, wish

vars == <<part, db, txn, command, time, changes, applied, wish>>

Symmetry == Permutations({a1, a2, a3}) \union Permutations({r1, r2})

\* Two listeners and commands that are sent again, until their receipts are gone.
Retries == INSTANCE SocialGraph WITH
    Account <- {a1, a2}, Command <- {1, 2}, Request <- {r1},
    Action <- {"block", "unblock", "request", "accept"},
    MaxFriends <- 1, MaxPending <- 1, Scope <- 1, Grace <- 1, MaxTime <- 2, MaxSends <- 2, MaxOpen <- 2
\* A request taken back and made again, while an answer to the first is on its way.
Stale == INSTANCE SocialGraph WITH
    Account <- {a1, a2}, Command <- {1, 2, 3}, Request <- {r1},
    Action <- {"request", "accept", "cancel"},
    MaxFriends <- 1, MaxPending <- 1, Scope <- 1, Grace <- 1, MaxTime <- 2, MaxSends <- 1, MaxOpen <- 2
\* Two transactions at a time of three listeners, who may leave.
Races == INSTANCE SocialGraph WITH
    Account <- {a1, a2, a3}, Command <- {1, 2}, Request <- {r1, r2},
    Action <- {"request", "accept", "delete"},
    MaxFriends <- 1, MaxPending <- 2, Scope <- 1, Grace <- 1, MaxTime <- 0, MaxSends <- 1, MaxOpen <- 2
\* Staff suspend a listener who hides, shows and deactivates.
Staff == INSTANCE SocialGraph WITH
    Account <- {a1, a2}, Command <- {1, 2, 3}, Request <- {r1},
    Action <- {"show", "hide", "request", "suspend", "unsuspend", "deactivate"},
    MaxFriends <- 1, MaxPending <- 1, Scope <- 1, Grace <- 1, MaxTime <- 0, MaxSends <- 1, MaxOpen <- 2

ASSUME /\ Retries!GraphAssumption /\ Stale!GraphAssumption
       /\ Races!GraphAssumption /\ Staff!GraphAssumption

Init == /\ part \in Parts
        /\ CASE part = "retries" -> Retries!Init
             [] part = "stale" -> Stale!Init
             [] part = "races" -> Races!Init
             [] part = "staff" -> Staff!Init

Next == /\ UNCHANGED part
        /\ CASE part = "retries" -> Retries!Next
             [] part = "stale" -> Stale!Next
             [] part = "races" -> Races!Next
             [] part = "staff" -> Staff!Next

Spec == Init /\ [][Next]_vars

-----------------------------------------------------------------------------
\* However often a command is sent it is applied once, and the limits, the
\* departure of a listener and its suspension hold against every transaction
\* that read before them.
TiesAreLawful ==
    CASE part = "retries" -> Retries!TypeOK /\ Retries!AppliedOnce
      [] part = "stale" -> Stale!TypeOK /\ Stale!AppliedOnce
      [] part = "races" -> Races!TypeOK /\ Races!AppliedOnce /\ Races!TiesAreBounded /\ Races!NothingOutlivesAccount
      [] part = "staff" -> Staff!TypeOK /\ Staff!AppliedOnce /\ Staff!TiesNeedActiveProfiles /\ Staff!SuspensionKeepsChoices

\* No command is applied to something that was rewritten since the listener who
\* gave it had read it.
StaleCommandsRefused ==
    [][CASE part = "retries" -> Retries!NoneIsStale
         [] part = "stale" -> Stale!NoneIsStale
         [] part = "races" -> Races!NoneIsStale
         [] part = "staff" -> Staff!NoneIsStale]_vars
=============================================================================
