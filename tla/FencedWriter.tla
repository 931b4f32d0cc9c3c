---------------------------- MODULE FencedWriter ----------------------------
(***************************************************************************)
(* What room authority promises to everything that commits under it,       *)
(* whatever the number of processes, lease expiries and lost replies: the  *)
(* committed writes carry epochs that never go backwards, and all writes   *)
(* of one epoch come from one process.  Rooms.tla relies on exactly this.  *)
(***************************************************************************)
EXTENDS Naturals

CONSTANTS Epoch,    \* the epochs a lease can carry
          Proc,     \* process incarnations (one owner UUID each)
          NoProc    \* "nobody has committed yet"

VARIABLES term,     \* epoch of the latest committed write
          writer    \* process that committed it

Init == term = 0 /\ writer = NoProc

(* A write of the current term comes from its writer; a later term may     *)
(* belong to anybody.                                                      *)
Commit(p, e) == /\ \/ e = term /\ p = writer
                   \/ e > term
                /\ term' = e
                /\ writer' = p

Next == \E p \in Proc, e \in Epoch : Commit(p, e)

Spec == Init /\ [][Next]_<<term, writer>>
=============================================================================
