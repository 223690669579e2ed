--------------------------- MODULE MCChainState ------------------------------
(***************************************************************************)
(* Small block trees for ChainState.  Every block has one unit of work, so *)
(* work is height, and equal heights are settled by arrival and address.   *)
(***************************************************************************)
EXTENDS ChainState

CONSTANTS g, a1, a2, b1, b2, b3, t1, t2

\* Two branches from genesis: g - a1 - a2 and g - b1 - b2 - b3, cut to Block.
TwoBranches == [b \in Block \ {g} |->
    CASE b = a2 -> a1 [] b = b2 -> b1 [] b = b3 -> b2 [] OTHER -> g]

MCAncestors ==
    LET Anc[b \in Block] == IF b = g THEN {g} ELSE {b} \cup Anc[Parent[b]]
    IN  Anc

MCHeight ==
    LET H[b \in Block] == IF b = g THEN 0 ELSE H[Parent[b]] + 1
    IN  H

\* The order of the nodes in memory is against the order of the branches.
MCAddress == [b \in Block |->
    CASE b = g -> 3 [] b = a1 -> 6 [] b = a2 -> 1 [] b = b1 -> 2 [] b = b2 -> 5 [] OTHER -> 4]

\* What validation says in the runs.
AllGood == [b \in Block |-> "good"]
BadB2A2 == [b \in Block |-> CASE b = b2 -> "badconnect" [] b = a2 -> "badblock" [] OTHER -> "good"]
BadA1 == [b \in Block |-> IF b = a1 THEN "badconnect" ELSE "good"]
Mixed == [b \in Block |-> CASE b = a1 -> "unjudged" [] b = b3 -> "corrupt" [] OTHER -> "good"]
=============================================================================
