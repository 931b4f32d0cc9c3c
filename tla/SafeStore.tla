------------------------------ MODULE SafeStore ------------------------------
(***************************************************************************)
(* What a publication protocol over an object store has to promise to the  *)
(* readers of the catalogue.  Bytes are stored and deleted, documents show *)
(* some of them; nobody may show bytes that are not there, and nobody may  *)
(* take away bytes that are shown.                                         *)
(***************************************************************************)
CONSTANT Key
VARIABLES stored, shown

Init == /\ stored \in SUBSET Key
        /\ shown \in SUBSET stored

Put(k) == /\ stored' = stored \union {k}
          /\ UNCHANGED shown

\* A document changes the bytes it shows, to some that are stored.
Publish == /\ shown' \in SUBSET stored
           /\ UNCHANGED stored

Delete(k) == /\ k \notin shown
             /\ stored' = stored \ {k}
             /\ UNCHANGED shown

Next == Publish \/ \E k \in Key : Put(k) \/ Delete(k)

Spec == Init /\ [][Next]_<<stored, shown>>
=============================================================================
