------------------------------- MODULE UtxoSet -------------------------------
(***************************************************************************)
(* What the coins views of coins.h promise together: one map from          *)
(* transaction ids to unspent coins, a private working copy that is        *)
(* committed or dropped as a whole, and a durable copy that always holds   *)
(* the coins of one best block.  CoinsCache implements it with two layers  *)
(* of CCoinsViewCache over CCoinsViewDB.                                   *)
(***************************************************************************)
CONSTANTS Txids,    \* transaction ids
          Coins,    \* the unspent states of a transaction's outputs
          Pruned,   \* no output left (or never created)
          Blocks,   \* block hashes
          NoHash    \* the null hash

VARIABLES durable, durableBest,   \* what survives the process
          coins, best,            \* the active chain's coins
          scratch, open           \* the working copy of the block in progress

vars == <<durable, durableBest, coins, best, scratch, open>>

Value == Coins \cup {Pruned}

\* The types of the map, of its durable copy and of the block in progress.
TypeOK ==
    /\ durable \in [Txids -> Value]
    /\ coins \in [Txids -> Value]
    /\ scratch \in [Txids -> Value]
    /\ durableBest \in Blocks \cup {NoHash}
    /\ best \in Blocks \cup {NoHash}
    /\ open \in BOOLEAN

Init ==
    /\ durable = [t \in Txids |-> Pruned]
    /\ coins = durable
    /\ scratch = durable
    /\ durableBest = NoHash
    /\ best = NoHash
    /\ open = FALSE

Begin ==
    /\ ~open
    /\ open' = TRUE
    /\ UNCHANGED <<durable, durableBest, coins, best, scratch>>

Change(t, v) ==
    /\ open
    /\ scratch' = [scratch EXCEPT ![t] = v]
    /\ UNCHANGED <<durable, durableBest, coins, best, open>>

Commit(h) ==
    /\ open
    /\ open' = FALSE
    /\ coins' = scratch
    /\ best' = h
    /\ UNCHANGED <<durable, durableBest, scratch>>

Abort ==
    /\ open
    /\ open' = FALSE
    /\ scratch' = coins
    /\ UNCHANGED <<durable, durableBest, coins, best>>

Persist ==
    /\ ~open
    /\ durable' = coins
    /\ durableBest' = best
    /\ UNCHANGED <<coins, best, scratch, open>>

Crash ==
    /\ open' = FALSE
    /\ coins' = durable
    /\ scratch' = durable
    /\ best' = durableBest
    /\ UNCHANGED <<durable, durableBest>>

Next ==
    \/ Begin
    \/ \E t \in Txids, v \in Value : Change(t, v)
    \/ \E h \in Blocks : Commit(h)
    \/ Abort
    \/ Persist
    \/ Crash

Spec == Init /\ [][Next]_vars
=============================================================================
