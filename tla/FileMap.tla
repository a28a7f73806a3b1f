------------------------------ MODULE FileMap -------------------------------
(***************************************************************************)
(* What the store promises its users: a map from paths to bytes. Inserting *)
(* at a path replaces what was there and touches no other path.            *)
(***************************************************************************)
CONSTANTS Path, Bytes, Missing

VARIABLE files

Init == files = [p \in Path |-> Missing]

Insert(p, b) == files' = [files EXCEPT ![p] = b]

Next == \E p \in Path, b \in Bytes : Insert(p, b)

Spec == Init /\ [][Next]_files
=============================================================================
