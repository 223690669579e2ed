----------------------------- MODULE MCMemPool -----------------------------
(***************************************************************************)
(* A chain a1, a2 and a branch b1, b2, b3 from the genesis block, whose    *)
(* coinbase and coins are there to be spent.  t1 has two children, t2 and  *)
(* t3, of which t3 also spends t2; x conflicts with t1; w spends the       *)
(* coinbase of the genesis block, s the coinstake of a1, and x has a lock  *)
(* time.                                                                   *)
(***************************************************************************)
EXTENDS MemPool

CONSTANTS g, a1, a2, b1, b2, b3, z, cg, sa1, t1, t2, t3, x, w, s

MCBlock == {g, a1, a2, b1, b2, b3}
MCParent == [b \in MCBlock \ {g} |->
    CASE b = a2 -> a1 [] b = b2 -> b1 [] b = b3 -> b2 [] OTHER -> g]
MCHeight == [b \in MCBlock |-> CASE b = g -> 0 [] b \in {a1, b1} -> 1 [] b \in {a2, b2} -> 2 [] b = b3 -> 3]
MCChain == [b \in MCBlock |->
    CASE b = g -> {g} [] b = a1 -> {g, a1} [] b = a2 -> {g, a1, a2}
      [] b = b1 -> {g, b1} [] b = b2 -> {g, b1, b2} [] b = b3 -> {g, b1, b2, b3}]
MCVtx == [b \in MCBlock |->
    CASE b = g -> <<cg, z>> [] b = a1 -> <<sa1, t1, t2>> [] b = a2 -> <<t3>>
      [] b = b1 -> <<>> [] b = b2 -> <<x>> [] b = b3 -> <<>>]
MCCoinBase == {cg}
MCCoinStake == {sa1}
MCTx == MCCoinBase \cup MCCoinStake \cup {z, t1, t2, t3, x, w, s}
MCOuts == [t \in MCTx |-> IF t \in {z, t1} THEN 3 ELSE 1]
MCSpends == [t \in MCTx |->
    CASE t = sa1 -> {<<z, 2>>} [] t = t1 -> {<<z, 0>>} [] t = t2 -> {<<t1, 0>>}
      [] t = t3 -> {<<t2, 0>>, <<t1, 1>>} [] t = x -> {<<z, 0>>, <<z, 1>>} [] t = w -> {<<cg, 0>>, <<t1, 2>>}
      [] t = s -> {<<sa1, 0>>} [] OTHER -> {}]
MCSize == [t \in MCTx |-> IF t = t1 THEN 2 ELSE 1]
MCFee == [t \in MCTx |-> IF t = t3 THEN 4 ELSE IF t = w THEN 3 ELSE 1]
MCDelta == {-3, 3}
MCLock == [t \in MCTx |-> IF t = x THEN 2 ELSE 0]
=============================================================================
