---------------------------- MODULE MCDiskState ------------------------------
(***************************************************************************)
(* A chain of three blocks for DiskState, so that one is old enough to     *)
(* prune and one is not.                                                   *)
(***************************************************************************)
EXTENDS DiskState

CONSTANTS g, b1, b2

MCParent == [b \in Block \ {g} |-> IF b = b2 THEN b1 ELSE g]

MCAncestors == [b \in Block |-> IF b = b2 THEN {g, b1, b2} ELSE {g, b}]

MCHeight == [b \in Block |-> CASE b = g -> 0 [] b = b1 -> 1 [] b = b2 -> 2]
=============================================================================
