-------------------------- MODULE MCBlockDownload ----------------------------
(***************************************************************************)
(* One chain, of which the second peer has all but the last block, and a   *)
(* window and a limit of one, so that a peer is kept waiting by the other. *)
(***************************************************************************)
EXTENDS BlockDownload

CONSTANTS g, b1, b2, p1, p2

MCParent == [b \in Block \ {g} |-> IF b = b2 THEN b1 ELSE g]
MCAncestors == [b \in Block |-> {c \in Block : c \in {g, b} \/ b = b2}]
MCHeight == [b \in Block |-> CASE b = g -> 0 [] b = b1 -> 1 [] OTHER -> 2]
MCOffer == [p \in Peer |-> IF p = p1 THEN b2 ELSE b1]
=============================================================================
