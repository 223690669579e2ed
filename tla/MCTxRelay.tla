----------------------------- MODULE MCTxRelay -----------------------------
(***************************************************************************)
(* Two peers and transactions that may come child first: t2, t3 and t4     *)
(* spend outputs of t1, and t3 spends t2 as well.  Block a1 confirms t1    *)
(* and x, which takes an output from t2.                                   *)
(***************************************************************************)
EXTENDS TxRelay, TLC

CONSTANTS g, a1, z, t1, t2, t3, t4, x, p1, p2

MCBlock == {g, a1}
MCParent == [b \in {a1} |-> g]
MCHeight == [b \in MCBlock |-> IF b = g THEN 0 ELSE 1]
MCChain == [b \in MCBlock |-> {g, b}]
MCVtx == [b \in MCBlock |-> IF b = g THEN <<z>> ELSE <<t1, x>>]
MCTx == {z, t1, t2, t3, t4, x}
MCOuts == [t \in MCTx |-> IF t = t1 THEN 3 ELSE 1]
MCSpends == [t \in MCTx |->
    CASE t = t1 -> {<<z, 0>>} [] t \in {t2, x} -> {<<t1, 1>>} [] t = t3 -> {<<t2, 0>>, <<t1, 0>>}
      [] t = t4 -> {<<t1, 2>>} [] OTHER -> {}]
MCSize == [t \in MCTx |-> 1]
MCFee == [t \in MCTx |-> IF t = t1 THEN 2 ELSE 1]
MCLock == [t \in MCTx |-> 0]
Symmetry == Permutations(Peer)
=============================================================================
