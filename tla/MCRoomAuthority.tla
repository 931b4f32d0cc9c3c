--------------------------- MODULE MCRoomAuthority --------------------------
(* Small instances of RoomAuthority: the bounds are in the .cfg files.     *)
(* Processes and transactions are interchangeable in every safety property.*)
EXTENDS RoomAuthority, TLC

Symmetry == Permutations(Proc) \cup Permutations(Txn)
=============================================================================
