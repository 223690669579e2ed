------------------------------ MODULE MemPool ------------------------------
(***************************************************************************)
(* The memory pool: CTxMemPool in src/src/txmempool.cpp, and what          *)
(* AcceptToMemoryPool, ActivateBestChainStep and InvalidateBlock in        *)
(* src/src/main.cpp do to it.  All of it runs under cs_main, so that every *)
(* call is one step; the steps inside a reorganisation, in which the pool  *)
(* is inconsistent for a while, are operators on the pool m, applied one   *)
(* after the other.                                                        *)
(*                                                                         *)
(* The chain is given: a tree of valid blocks with their transactions.     *)
(* The coins are those of the active chain.  Memory usage is the size of   *)
(* the transactions.  Policy verdicts that no property is about (standard  *)
(* form, minimum fees, scripts) are a choice.                              *)
(***************************************************************************)
EXTENDS Integers, FiniteSets, Sequences, Functions

CONSTANTS Tx, NoTx,
          CoinBase, CoinStake,       \* transactions valid only in a block
          Outs,                      \* number of outputs
          Spends,                    \* the outpoints <<tx, n>> of vin
          Size, Fee,
          Lock,                      \* the lowest height of a block the tx is final in
          Block, Genesis, Parent, Height,
          Chain,                     \* a block and its ancestors
          Vtx,                       \* the transactions of each block, in order
          nCoinbaseMaturity,
          limitAncestorCount, limitDescendantCount, limitAncestorSize, limitDescendantSize,
          sizelimit,                 \* -maxmempool
          Prioritised, Delta,        \* what prioritisetransaction is called with
          MaxCalls                   \* and how often, a bound

VARIABLES tip,    \* chainActive.Tip()
          pool,   \* the members of CTxMemPool, see Pools
          calls   \* of prioritisetransaction so far

vars == <<tip, pool, calls>>

Outputs(t) == {<<t, n>> : n \in 0 .. Outs[t] - 1}
Outpoint == UNION {Outputs(t) : t \in Tx}
Totals == [n : Int, size : Int, fee : Int]

Pools == [tx       : SUBSET Tx,                      \* mapTx
          next     : [Outpoint -> Tx \cup {NoTx}],   \* mapNextTx
          parents  : [Tx -> SUBSET Tx],              \* mapLinks
          children : [Tx -> SUBSET Tx],
          desc     : [Tx -> Totals],                 \* n..WithDescendants
          anc      : [Tx -> Totals],                 \* n..WithAncestors
          feeDelta : [Tx -> Int],
          mapDeltas: [Tx -> Int]]                    \* 0: no entry

Nothing == [n |-> 0, size |-> 0, fee |-> 0]
Empty == [tx |-> {}, next |-> [o \in Outpoint |-> NoTx],
          parents |-> [t \in Tx |-> {}], children |-> [t \in Tx |-> {}],
          desc |-> [t \in Tx |-> Nothing], anc |-> [t \in Tx |-> Nothing],
          feeDelta |-> [t \in Tx |-> 0], mapDeltas |-> [t \in Tx |-> 0]]

-----------------------------------------------------------------------------
(* Loops over a sequence s, from x: F[s[n]][y] is what round n makes of y. *)
(* F is a function, so that facts about loops can be stated once.          *)

Rounds(F, x, s) ==
    LET r[n \in 0 .. Len(s)] == IF n = 0 THEN x ELSE F[s[n]][r[n - 1]] IN r
Run(F, x, s) == Rounds(F, x, s)[Len(s)]

\* The orders in which a loop may take the elements of S, and one of them,
\* where they all end the same.
Listings(S) == {q \in [1 .. Cardinality(S) -> S] : Range(q) = S}
Listing(S) == CHOOSE q \in Listings(S) : TRUE

-----------------------------------------------------------------------------
(* The chain.                                                              *)

Confirmed == [b \in Block |-> UNION {Range(Vtx[a]) : a \in Chain[b]}]

\* The unspent outputs of the chain that ends in b: pcoinsTip.
Coins == [b \in Block |-> (UNION {Outputs(t) : t \in Confirmed[b]}) \ UNION {Spends[t] : t \in Confirmed[b]}]

ASSUME TreeAssumption ==
    /\ Genesis \in Block /\ Parent \in [Block \ {Genesis} -> Block]
    /\ Height \in [Block -> Nat] /\ Chain \in [Block -> SUBSET Block]
    /\ Height[Genesis] = 0 /\ Chain[Genesis] = {Genesis}
    /\ \A b \in Block \ {Genesis} :
        Height[b] = Height[Parent[b]] + 1 /\ Chain[b] = Chain[Parent[b]] \cup {b}

ASSUME TxAssumption ==
    /\ IsFiniteSet(Tx) /\ NoTx \notin Tx
    /\ Outs \in [Tx -> Nat] /\ Size \in [Tx -> Nat] /\ Fee \in [Tx -> Int] /\ Lock \in [Tx -> Nat]
    /\ Spends \in [Tx -> SUBSET Outpoint] /\ \A t \in Tx : IsFiniteSet(Spends[t])
    /\ Vtx \in [Block -> Seq(Tx)]
    /\ Prioritised \subseteq Tx /\ Delta \subseteq Int /\ nCoinbaseMaturity \in Nat /\ sizelimit \in Nat
    /\ MaxCalls \in Nat

\* What ConnectBlock accepts: a transaction is new to the chain, and spends
\* outputs of what comes before it.
Before(b, i) == (UNION {Range(Vtx[a]) : a \in Chain[b] \ {b}}) \cup {Vtx[b][j] : j \in 1 .. i - 1}
ASSUME ValidBlocks ==
    \A b \in Block : \A i \in 1 .. Len(Vtx[b]) :
        Vtx[b][i] \notin Before(b, i) /\ \A o \in Spends[Vtx[b][i]] : o[1] \in Before(b, i)

\* CCoins::nHeight of t in that chain.
CoinHeight(t, b) == Height[CHOOSE a \in Chain[b] : t \in Range(Vtx[a])]

\* o may be spent by a transaction in the block after b.
Mature(o, b) ==
    o[1] \in CoinBase \cup CoinStake => Height[b] + 1 - CoinHeight(o[1], b) >= nCoinbaseMaturity

-----------------------------------------------------------------------------
(* Entries, links and totals.                                              *)

ModifiedFee(m, t) == Fee[t] + m.feeDelta[t]
Own(m, t) == [n |-> 1, size |-> Size[t], fee |-> ModifiedFee(m, t)]
Plus(a, b) == [n |-> a.n + b.n, size |-> a.size + b.size, fee |-> a.fee + b.fee]
Minus(a, b) == [n |-> a.n - b.n, size |-> a.size - b.size, fee |-> a.fee - b.fee]
SumOver(f, S) == Run([t \in Tx |-> [x \in Int |-> x + f[t]]], 0, Listing(S))
Sum(m, S) == [n |-> Cardinality(S), size |-> SumOver(Size, S),
              fee |-> SumOver([t \in Tx |-> ModifiedFee(m, t)], S)]

\* Everything link leads to from S, and S: the first round that adds nothing.
Reach(link, S) ==
    LET r == Rounds([i \in Nat |-> [T \in SUBSET Tx |-> T \cup UNION {link[t] : t \in T}]], S,
                    [i \in 1 .. Cardinality(Tx) + 1 |-> i])
    IN  r[CHOOSE n \in 0 .. Cardinality(Tx) : r[n + 1] = r[n]]

CalculateDescendants(m, S) == Reach(m.children, S)
Ancestors(m, t) == Reach(m.parents, m.parents[t])
ParentsInPool(m, t) == {o[1] : o \in Spends[t]} \cap m.tx

\* CalculateMemPoolAncestors for a transaction that is not an entry yet.
AncestorsOfNew(m, t) == Reach(m.parents, ParentsInPool(m, t))

WithinLimits(m, t) ==
    LET A == AncestorsOfNew(m, t)
    IN  A # {} =>
        /\ Cardinality(A) + 1 <= limitAncestorCount
        /\ Sum(m, A).size + Size[t] <= limitAncestorSize
        /\ \A a \in A : /\ m.desc[a].n + 1 <= limitDescendantCount
                        /\ m.desc[a].size + Size[t] <= limitDescendantSize

addUnchecked(m, t) ==
    LET A   == AncestorsOfNew(m, t)
        P   == ParentsInPool(m, t)
        new == [m EXCEPT !.feeDelta[t] = m.mapDeltas[t]]
        own == Own(new, t)
    IN  [tx        |-> m.tx \cup {t},
         next      |-> [o \in Outpoint |-> IF o \in Spends[t] THEN t ELSE m.next[o]],
         parents   |-> [m.parents EXCEPT ![t] = P],
         children  |-> [u \in Tx |-> IF u \in P THEN m.children[u] \cup {t} ELSE m.children[u]],
         desc      |-> [u \in Tx |-> IF u = t THEN own ELSE IF u \in A THEN Plus(m.desc[u], own) ELSE m.desc[u]],
         anc       |-> [m.anc EXCEPT ![t] = Plus(own, Sum(m, A))],
         feeDelta  |-> new.feeDelta,
         mapDeltas |-> m.mapDeltas]

\* Mutant: the ancestor totals of what remains are left alone.
LessRemovedNever(m, S, updateDescendants) == m.anc

\* Mutant: what is removed is subtracted twice.
LessRemovedTwice(m, S, updateDescendants) ==
    [u \in Tx |-> LET r == Sum(m, {v \in S : u \in CalculateDescendants(m, {v})})
                  IN  IF updateDescendants THEN Minus(Minus(m.anc[u], r), r) ELSE m.anc[u]]

\* The ancestor totals once S is removed, of which descendants may remain.
LessRemoved(m, S, updateDescendants) ==
    LET below == [r \in S |-> CalculateDescendants(m, {r}) \ {r}]
    IN  IF updateDescendants
        THEN [u \in Tx |-> Minus(m.anc[u], Sum(m, {r \in S : u \in below[r]}))]
        ELSE m.anc

\* UpdateForRemoveFromMempool and removeUnchecked for all of S.
RemoveStaged(m, S, updateDescendants) ==
    LET anc      == LessRemoved(m, S, updateDescendants)
        above    == [r \in S |-> Ancestors(m, r)]
        desc     == [u \in Tx |-> Minus(m.desc[u], Sum(m, {r \in S : u \in above[r]}))]
        children == [u \in Tx |-> m.children[u] \ {r \in S : u \in m.parents[r]}]
        parents  == [u \in Tx |-> m.parents[u] \ {r \in S : u \in children[r]}]
        Keep(f, none) == [u \in Tx |-> IF u \in S THEN none ELSE f[u]]
    IN  [tx        |-> m.tx \ S,
         next      |-> [o \in Outpoint |-> IF m.next[o] \in S THEN NoTx ELSE m.next[o]],
         parents   |-> Keep(parents, {}),
         children  |-> Keep(children, {}),
         desc      |-> Keep(desc, Nothing),
         anc       |-> Keep(anc, Nothing),
         feeDelta  |-> Keep(m.feeDelta, 0),
         mapDeltas |-> m.mapDeltas]

\* What removeRecursive starts from: t, or its children if it is not there.
Roots(m, t) == IF t \in m.tx THEN {t} ELSE {m.next[o] : o \in Outputs(t)} \ {NoTx}

removeRecursive(m, t) == RemoveStaged(m, CalculateDescendants(m, Roots(m, t)), FALSE)

\* The transactions of S, one after the other.
RemoveAll(m, S) == Run([t \in Tx |-> [x \in Pools |-> removeRecursive(x, t)]], m, Listing(S))

\* fSpendsCoinbase of the entry of t.
SpendsCoinbase(t) == \E o \in Spends[t] : o[1] \in CoinBase

\* Mutant: every transaction that was final stays.
NoLongerSpendableFinal(m, b) ==
    {t \in m.tx : /\ SpendsCoinbase(t)
                  /\ \E o \in Spends[t] : o[1] \notin m.tx /\ (o \notin Coins[b] \/ ~Mature(o, b))}

\* What removeForReorg finds no longer fit for the block after b.
NoLongerSpendable(m, b) ==
    {t \in m.tx : \/ Lock[t] > Height[b] + 1
                  \/ /\ SpendsCoinbase(t)
                     /\ \E o \in Spends[t] : o[1] \notin m.tx /\ (o \notin Coins[b] \/ ~Mature(o, b))}

removeForReorg(m, b) == RemoveAll(m, NoLongerSpendable(m, b))

ClearPrioritisation(m, t) == [m EXCEPT !.mapDeltas[t] = 0]

\* removeConflicts.  The hash given to ClearPrioritisation is read from the
\* entry that has just been removed; for those in lost it is not found there.
Conflict(m, o, t, lost) ==
    LET c == m.next[o]
        y == removeRecursive(m, c)
    IN  IF c \in {NoTx, t} THEN m ELSE IF c \in lost THEN y ELSE ClearPrioritisation(y, c)
removeConflicts(m, t, lost) ==
    Run([o \in Outpoint |-> [x \in Pools |-> Conflict(x, o, t, lost)]], m, Listing(Spends[t]))

\* A transaction of a block that is connected leaves the pool.
Take(m, t, lost) ==
    LET y == IF t \in m.tx THEN RemoveStaged(m, {t}, TRUE) ELSE m
    IN  ClearPrioritisation(removeConflicts(y, t, lost), t)
removeForBlock(m, b, lost) == Run([t \in Tx |-> [x \in Pools |-> Take(x, t, lost)]], m, Vtx[b])

\* What UpdateForDescendants finds below t; cache holds what it found before.
BelowCached(m, t, cache) ==
    LET link == [u \in Tx |-> {c \in m.children[u] : cache[c] = {}}]
        V    == Reach(link, m.children[t])
    IN  V \cup UNION {cache[c] : c \in UNION {m.children[v] : v \in V}}

\* Children of t that came before it and know nothing of it.
NewChildren(m, t, already) == {m.next[o] : o \in Outputs(t)} \ ({NoTx} \cup already)

\* The round of UpdateTransactionsFromBlock for t.
UpdateLinks(m, t, kids) ==
    [m EXCEPT !.children[t] = @ \cup kids,
              !.parents = [u \in Tx |-> IF u \in kids THEN @[u] \cup {t} ELSE @[u]]]
UpdateEntry(x, t, already) ==
    LET y     == UpdateLinks(x.m, t, NewChildren(x.m, t, already))
        below == BelowCached(y, t, x.cache) \ already
    IN  IF t \notin x.m.tx THEN x
        ELSE [m |-> [y EXCEPT
                !.anc = [u \in Tx |-> IF u \in below THEN Plus(@[u], Own(y, t)) ELSE @[u]],
                !.desc[t] = Plus(@, Sum(y, below))],
              cache |-> [x.cache EXCEPT ![t] = below]]
UpdateTransactionsFromBlock(m, vHashes) ==
    Run([t \in Tx |-> [x \in [m : Pools, cache : [Tx -> SUBSET Tx]] |-> UpdateEntry(x, t, Range(vHashes))]],
        [m |-> m, cache |-> [t \in Tx |-> {}]], [i \in 1 .. Len(vHashes) |-> vHashes[Len(vHashes) + 1 - i]]).m

-----------------------------------------------------------------------------
(* Limits.                                                                 *)

DynamicMemoryUsage(m) == SumOver(Size, m.tx)

\* CompareTxMemPoolEntryByDescendantScore: the better of the fee rates of the
\* transaction and of its package, as <<fee, size>>.
DescendantScore(m, t) ==
    LET own == Own(m, t)
    IN  IF m.desc[t].fee * own.size > own.fee * m.desc[t].size
        THEN <<m.desc[t].fee, m.desc[t].size>> ELSE <<own.fee, own.size>>

Worst(m) ==
    {t \in m.tx : \A u \in m.tx :
        LET a == DescendantScore(m, t) b == DescendantScore(m, u) IN a[1] * b[2] <= b[1] * a[2]}

\* The pools TrimToSize may end with; equal scores are ordered by time.
TrimOne(m) ==
    IF DynamicMemoryUsage(m) <= sizelimit THEN {m}
    ELSE {RemoveStaged(m, CalculateDescendants(m, {t}), FALSE) : t \in Worst(m)}
TrimToSize(m) ==
    {x \in Run([i \in Nat |-> [M \in SUBSET Pools |-> UNION {TrimOne(y) : y \in M}]], {m},
               [i \in 1 .. Cardinality(m.tx) |-> i]) : DynamicMemoryUsage(x) <= sizelimit}

\* old: the entries that Expire finds too old, never the one just added.
Expire(m, old) == RemoveStaged(m, CalculateDescendants(m, old), FALSE)

\* Mutant: the size is left for the next transaction to look at.
LimitMempoolSizeLater(m, young) == {Expire(m, old) : old \in SUBSET (m.tx \ young)}

LimitMempoolSize(m, young) == UNION {TrimToSize(Expire(m, old)) : old \in SUBSET (m.tx \ young)}

-----------------------------------------------------------------------------
(* AcceptToMemoryPool for a view at block b, while the tip is at height h. *)

\* Mutant: conflicts with the pool are not looked for.
NoConflictEver(m, t) == TRUE

NoConflict(m, t) == \A o \in Spends[t] : m.next[o] = NoTx

\* The checks before the inputs are looked up.
Loose(m, t, b, h) ==
    /\ Spends[t] # {}
    /\ t \notin CoinBase \cup CoinStake
    /\ Lock[t] <= h + 1
    /\ t \notin m.tx
    /\ NoConflict(m, t)
    /\ Outputs(t) \cap Coins[b] = {}

\* pfMissingInputs: nothing is known of the transaction some input comes from.
MissingInputs(m, t, b, h) ==
    Loose(m, t, b, h) /\ \E o \in Spends[t] : o[1] \notin m.tx /\ Outputs(o[1]) \cap Coins[b] = {}

Acceptable(m, t, b, h) ==
    /\ Loose(m, t, b, h)
    /\ \A o \in Spends[t] : o[1] \in m.tx \/ (o \in Coins[b] /\ Mature(o, b))
    /\ WithinLimits(m, t)

-----------------------------------------------------------------------------
(* The active chain changes.                                               *)

\* DisconnectTip.  refused: transactions policy no longer lets in.
Resurrect(x, t, b, refused) ==
    IF t \notin refused /\ Acceptable(x.m, t, Parent[b], Height[b])
    THEN [m |-> addUnchecked(x.m, t), v |-> Append(x.v, t)]
    ELSE [m |-> removeRecursive(x.m, t), v |-> x.v]
DisconnectTip(m, b, refused) ==
    LET r == Run([t \in Tx |-> [x \in [m : Pools, v : Seq(Tx)] |-> Resurrect(x, t, b, refused)]],
                 [m |-> m, v |-> <<>>], Vtx[b])
    IN  UpdateTransactionsFromBlock(r.m, r.v)

\* The block of height h in the chain that ends in b.
BlockAt(b, h) == CHOOSE a \in Chain[b] : Height[a] = h

\* From b down to fork, and from fork up to b.
DisconnectTo(m, b, fork, refused) ==
    Run([a \in Block |-> [x \in Pools |-> DisconnectTip(x, a, refused)]], m,
        [i \in 1 .. Height[b] - Height[fork] |-> BlockAt(b, Height[b] + 1 - i)])
ConnectFrom(m, fork, b, lost) ==
    Run([a \in Block |-> [x \in Pools |-> removeForBlock(x, a, lost)]], m,
        [i \in 1 .. Height[b] - Height[fork] |-> BlockAt(b, Height[fork] + i)])

Fork(a, b) == CHOOSE c \in Chain[a] \cap Chain[b] : \A d \in Chain[a] \cap Chain[b] : Height[d] <= Height[c]
RefusedIn(S) == SUBSET ((UNION {Range(Vtx[b]) : b \in S}) \ (CoinBase \cup CoinStake))

\* One step towards target that ends at new: the first block with more work
\* than the old tip, or the last before a block that turns out to be invalid.
ActivateBestChainStep(target, new, refused, lost) ==
    LET fork == Fork(tip, target)
        m    == ConnectFrom(DisconnectTo(pool, tip, fork, refused), fork, new, lost)
    IN  /\ Height[target] > Height[tip]
        /\ new \in {fork} \cup (Chain[target] \ Chain[fork])
        /\ \A b \in Chain[new] \ (Chain[fork] \cup {new}) : Height[b] <= Height[tip]
        /\ tip' = new
        /\ pool' \in IF fork = tip THEN {m} ELSE LimitMempoolSize(removeForReorg(m, new), {})
        /\ UNCHANGED calls

InvalidateBlock(b, refused) ==
    LET new == Parent[b]
    IN  /\ b \in Chain[tip] \ {Genesis}
        /\ tip' = new
        /\ pool' \in {removeForReorg(m, new) :
                m \in LimitMempoolSize(DisconnectTo(pool, tip, new, refused), {})}
        /\ UNCHANGED calls

-----------------------------------------------------------------------------
(* Calls.                                                                  *)

AcceptToMemoryPool(t) ==
    /\ Acceptable(pool, t, tip, Height[tip])
    /\ pool' \in LimitMempoolSize(addUnchecked(pool, t), {t})
    /\ UNCHANGED <<tip, calls>>

\* Whose fees with descendants PrioritiseTransaction changes.
FeeGoesTo(m, t) == {t} \cup Ancestors(m, t)

PrioritiseTransaction(t, d) ==
    LET new == pool.mapDeltas[t] + d
        m   == [pool EXCEPT !.mapDeltas[t] = new]
        More(a) == [a EXCEPT !.fee = @ + d]
    IN  /\ calls < MaxCalls /\ calls' = calls + 1
        /\ pool' = IF t \notin pool.tx THEN m
                   ELSE [m EXCEPT !.feeDelta[t] = new,
                            !.anc[t] = More(@),
                            !.desc = [u \in Tx |-> IF u \in FeeGoesTo(m, t) THEN More(@[u]) ELSE @[u]]]
        /\ UNCHANGED tip

Init == tip = Genesis /\ pool = Empty /\ calls = 0

Next ==
    \/ \E t \in Tx : AcceptToMemoryPool(t)
    \/ \E t \in Prioritised, d \in Delta : PrioritiseTransaction(t, d)
    \/ \E target, new \in Block :
        \E refused \in RefusedIn(Chain[tip] \ Chain[target]),
           lost \in SUBSET {t \in Tx : pool.mapDeltas[t] # 0} :
            ActivateBestChainStep(target, new, refused, lost)
    \/ \E b \in Block : \E refused \in RefusedIn(Chain[tip] \ {Genesis}) : InvalidateBlock(b, refused)

Spec == Init /\ [][Next]_vars

-----------------------------------------------------------------------------
\* No total of an entry wraps below zero, whatever is subtracted in whatever
\* order: the assertions of UpdateDescendantState and UpdateAncestorState.
TypeOK ==
    /\ tip \in Block /\ pool \in Pools /\ calls \in 0 .. MaxCalls
    /\ \A a \in Range(pool.desc) \cup Range(pool.anc) : a.n >= 0 /\ a.size >= 0

\* The links are the spends among the transactions of the pool, both ways,
\* and mapNextTx has exactly their inputs: the assertions of CTxMemPool::check
\* on mapLinks and mapNextTx.
LinksExact ==
    /\ \A t \in Tx : pool.parents[t] = IF t \in pool.tx THEN ParentsInPool(pool, t) ELSE {}
    /\ \A t \in Tx : pool.children[t] = {u \in pool.tx : t \in pool.parents[u]}
    /\ \A o \in Outpoint : pool.next[o] # NoTx => pool.next[o] \in pool.tx /\ o \in Spends[pool.next[o]]
    /\ \A t \in pool.tx : \A o \in Spends[t] : pool.next[o] = t

\* The totals of every entry are those of its descendants and of its ancestors,
\* fee deltas included, after whatever was added, confirmed, resurrected,
\* evicted or prioritised.  Fees with ancestors are left out, since
\* PrioritiseTransaction does not change those of the descendants.
TotalsExact ==
    \A t \in pool.tx :
        /\ pool.desc[t] = Sum(pool, CalculateDescendants(pool, {t}))
        /\ LET a == Sum(pool, {t} \cup Ancestors(pool, t))
           IN  pool.anc[t].n = a.n /\ pool.anc[t].size = a.size
        /\ pool.feeDelta[t] = pool.mapDeltas[t]

\* Everything in the pool can go into the next block together: inputs are
\* unspent in the chain or come from the pool, nothing is spent twice, coinbases
\* are mature and lock times have passed.
PoolMinable ==
    \A t \in pool.tx :
        /\ t \notin CoinBase \cup CoinStake \cup Confirmed[tip]
        /\ Lock[t] <= Height[tip] + 1
        /\ \A u \in pool.tx \ {t} : Spends[t] \cap Spends[u] = {}
        /\ \A o \in Spends[t] : \/ o[1] \in pool.tx
                                \/ o \in Coins[tip] /\ (o[1] \in CoinBase => Mature(o, tip))

\* The pool is within its limit whenever cs_main is free, although blocks are
\* disconnected into it without one.
PoolBounded == DynamicMemoryUsage(pool) <= sizelimit
=============================================================================
