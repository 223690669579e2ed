----------------------------- MODULE MCStaking -----------------------------
(***************************************************************************)
(* Blocks a1, a2 and a branch b1, b2, b3.  Coin k has a time of its own;   *)
(* coin u takes that of its block, which is a1 or b1.                      *)
(***************************************************************************)
EXTENDS Staking

CONSTANTS g, a1, a2, b1, b2, b3, k, u, x

MCBlock == {g, a1, a2, b1, b2, b3}
MCParent == [b \in MCBlock \ {g} |-> CASE b = a2 -> a1 [] b = b2 -> b1 [] b = b3 -> b2 [] OTHER -> g]
MCAncestors == [b \in MCBlock |->
    CASE b = g -> {g} [] b = a1 -> {g, a1} [] b = a2 -> {g, a1, a2}
      [] b = b1 -> {g, b1} [] b = b2 -> {g, b1, b2} [] b = b3 -> {g, b1, b2, b3}]
MCHeight == [b \in MCBlock |-> Cardinality(MCAncestors[b]) - 1]
MCTime == [b \in MCBlock |-> CASE b = g -> 0 [] b \in {a1} -> 1 [] b \in {a2, b1} -> 2 [] OTHER -> 3]
MCCoinTime == [c \in {k, u} |-> IF c = k THEN 1 ELSE 0]
MCCreates == [b \in MCBlock |-> CASE b = g -> {k} [] b \in {a1, b1} -> {u} [] OTHER -> {}]
MCSends == [b \in MCBlock |-> IF b = b2 THEN {k} ELSE {}]
MCCombined == [c \in {k, u} |-> IF c = u THEN {k} ELSE {}]
MCMeets(prev, from, c, t) == c = k \/ (from + t \div 2) % 2 = 0
MCLooseTime == [y \in {x} |-> 3]
=============================================================================
