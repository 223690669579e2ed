--------------------------- MODULE MemPoolProofs ----------------------------
(***************************************************************************)
(* Proofs about the memory pool (MemPool) and the orphans (TxRelay), for   *)
(* every tree of valid blocks, every set of transactions and all limits.   *)
(*                                                                         *)
(* The invariant PoolInv says that between two calls the links are the     *)
(* spends, that mapNextTx has the inputs, that inputs come from the pool   *)
(* or are coins of the active chain, that the totals of every entry are    *)
(* sums over its descendants and ancestors (Exact), and that everything    *)
(* fits the next block.  Inside a call the pool is looser: while a block   *)
(* is connected it is fed by the coins of a part of that block (Taking),   *)
(* while one is disconnected what is back in the pool is not linked to its *)
(* children (Back), and UpdateTransactionsFromBlock links and counts what  *)
(* it has come to, last transaction first (Counted).  Each loop of the     *)
(* code is one lemma, by RunInduction, with the set of pools there may be  *)
(* after n rounds.                                                         *)
(***************************************************************************)
EXTENDS PoolProofs, TxRelay

USE Zenon

-----------------------------------------------------------------------------
(* The orphans.                                                            *)

\* The inductive invariant: an orphan is kept for a peer that is connected.
OrphanInv ==
    /\ node \subseteq Peer /\ mapOrphanTransactions \in [Tx -> node \cup {NoPeer}]
    /\ OrphanIndexExact /\ OrphansBounded

\* EraseOrphanTx for any transactions, while peers leave that have none left.
LEMMA EraseKeeps ==
    ASSUME OrphanInv, NEW S, EraseOrphans(S), node' \subseteq node,
           \A t \in Orphans \ S : mapOrphanTransactions[t] \in node'
    PROVE  OrphanInv'
  <1>1. /\ node \subseteq Peer /\ mapOrphanTransactions \in [Tx -> node \cup {NoPeer}]
        /\ \A o \in Outpoint : mapOrphanTransactionsByPrev[o] = {t \in Orphans : o \in Spends[t]}
        /\ Cardinality(Orphans) <= nMaxOrphanTx
    BY DEF OrphanInv, OrphanIndexExact, OrphansBounded
  <1>2. /\ mapOrphanTransactions' = [t \in Tx |-> IF t \in S THEN NoPeer ELSE mapOrphanTransactions[t]]
        /\ mapOrphanTransactionsByPrev' =
            [o \in Outpoint |-> mapOrphanTransactionsByPrev[o] \ {t \in S : o \in Spends[t]}]
    BY DEF EraseOrphans, Unindexed
  <1>3. Orphans' = Orphans \ S /\ Orphans \in SUBSET Tx
    BY <1>2 DEF Orphans
  <1>4. mapOrphanTransactions' \in [Tx -> node' \cup {NoPeer}]
    <2>1. \A t \in Tx : mapOrphanTransactions[t] # NoPeer <=> t \in Orphans
      BY DEF Orphans
    <2> QED  BY <1>2, <2>1
  <1>5. OrphanIndexExact'
    <2> SUFFICES ASSUME NEW o \in Outpoint
                 PROVE  mapOrphanTransactionsByPrev'[o] = {t \in Orphans' : o \in Spends[t]}
      BY DEF OrphanIndexExact
    <2>1. mapOrphanTransactionsByPrev'[o] = {t \in Orphans : o \in Spends[t]} \ {t \in S : o \in Spends[t]}
      BY <1>1, <1>2
    <2> QED  BY <1>3, <2>1
  <1>6. OrphansBounded'
    <2> DEFINE O == Orphans
               P == Orphans'
    <2>1. IsFiniteSet(O) /\ Cardinality(O) \in Nat
      BY <1>3, SubsetsFinite
    <2>2. P \in SUBSET O
      BY <1>3
    <2>3. Cardinality(P) <= Cardinality(O) /\ Cardinality(P) \in Nat
      <3> HIDE DEF O, P
      <3> QED  BY <2>1, <2>2, FS_Subset, FS_CardinalityType
    <2>4. Cardinality(O) <= nMaxOrphanTx /\ nMaxOrphanTx \in Nat
      BY <1>1, PeerAssumption
    <2>5. Cardinality(P) <= nMaxOrphanTx
      <3> HIDE DEF O, P
      <3> QED  BY <2>1, <2>3, <2>4, SMT
    <2> QED  BY <2>5 DEF OrphansBounded
  <1>7. node' \subseteq Peer
    BY <1>1
  <1> QED  BY <1>4, <1>5, <1>6, <1>7 DEF OrphanInv

\* AddOrphanTx and LimitOrphanTxSize.
LEMMA AddOrphanKeeps ==
    ASSUME OrphanInv, NEW t \in Tx, NEW p \in node, AddOrphanTx(t, p), node' = node
    PROVE  OrphanInv'
  <1>1. /\ node \subseteq Peer /\ mapOrphanTransactions \in [Tx -> node \cup {NoPeer}]
        /\ \A o \in Outpoint : mapOrphanTransactionsByPrev[o] = {u \in Orphans : o \in Spends[u]}
    BY DEF OrphanInv, OrphanIndexExact
  <1>2. PICK expired \in SUBSET Orphans, added \in {{}, {t}} :
            \E kept \in SUBSET ((Orphans \cup added) \ expired) :
                /\ Cardinality(kept) = IF Cardinality((Orphans \cup added) \ expired) > Room THEN Room
                                       ELSE Cardinality((Orphans \cup added) \ expired)
                /\ mapOrphanTransactions' =
                    [u \in Tx |-> IF u \notin kept THEN NoPeer ELSE IF u = t THEN p ELSE mapOrphanTransactions[u]]
                /\ mapOrphanTransactionsByPrev' =
                    [o \in Outpoint |-> (mapOrphanTransactionsByPrev[o] \cup {u \in {t} : o \in Spends[u]}) \cap kept]
    BY DEF AddOrphanTx
  <1> DEFINE left == (Orphans \cup added) \ expired
  <1>3. PICK kept \in SUBSET left :
            /\ Cardinality(kept) = IF Cardinality(left) > Room THEN Room ELSE Cardinality(left)
            /\ mapOrphanTransactions' =
                [u \in Tx |-> IF u \notin kept THEN NoPeer ELSE IF u = t THEN p ELSE mapOrphanTransactions[u]]
            /\ mapOrphanTransactionsByPrev' =
                [o \in Outpoint |-> (mapOrphanTransactionsByPrev[o] \cup {u \in {t} : o \in Spends[u]}) \cap kept]
    BY <1>2
  <1>4. left \subseteq Orphans \cup {t} /\ left \in SUBSET Tx /\ p # NoPeer
    BY <1>1, PeerAssumption DEF Orphans
  <1> HIDE DEF left
  <1>5. \A u \in Tx : mapOrphanTransactions[u] # NoPeer <=> u \in Orphans
    BY DEF Orphans
  <1>6. kept \in SUBSET Tx /\ kept \subseteq Orphans \cup {t}
    BY <1>3, <1>4
  <1>7. Orphans' = kept
    <2>1. \A u \in Tx : mapOrphanTransactions'[u] =
            IF u \notin kept THEN NoPeer ELSE IF u = t THEN p ELSE mapOrphanTransactions[u]
      BY <1>3
    <2>2. \A u \in Tx : mapOrphanTransactions'[u] # NoPeer <=> u \in kept
      BY <1>4, <1>5, <1>6, <2>1
    <2> QED  BY <1>6, <2>2 DEF Orphans
  <1>8. mapOrphanTransactions' \in [Tx -> node' \cup {NoPeer}]
    BY <1>1, <1>3
  <1>9. OrphanIndexExact'
    <2> SUFFICES ASSUME NEW o \in Outpoint
                 PROVE  mapOrphanTransactionsByPrev'[o] = {u \in Orphans' : o \in Spends[u]}
      BY DEF OrphanIndexExact
    <2>1. mapOrphanTransactionsByPrev'[o] =
            ({u \in Orphans : o \in Spends[u]} \cup {u \in {t} : o \in Spends[u]}) \cap kept
      BY <1>1, <1>3
    <2> QED  BY <1>6, <1>7, <2>1
  <1>10. OrphansBounded'
    <2>1. Cardinality(left) \in Nat /\ nMaxOrphanTx \in Nat
      BY <1>4, SubsetsFinite, PeerAssumption
    <2>2. Cardinality(kept) = IF Cardinality(left) > nMaxOrphanTx THEN nMaxOrphanTx ELSE Cardinality(left)
      BY <1>3 DEF Room
    <2>3. Cardinality(kept) <= nMaxOrphanTx
      BY <2>1, <2>2, SMT
    <2> QED  BY <1>7, <2>3 DEF OrphansBounded
  <1> QED  BY <1>1, <1>8, <1>9, <1>10 DEF OrphanInv

\* Peers connect, and the orphans stay as they are.
LEMMA SameOrphans ==
    ASSUME OrphanInv, UNCHANGED orphanVars, node \subseteq node', node' \subseteq Peer
    PROVE  OrphanInv'
  <1>1. /\ mapOrphanTransactions \in [Tx -> node \cup {NoPeer}]
        /\ \A o \in Outpoint : mapOrphanTransactionsByPrev[o] = {u \in Orphans : o \in Spends[u]}
        /\ Cardinality(Orphans) <= nMaxOrphanTx
    BY DEF OrphanInv, OrphanIndexExact, OrphansBounded
  <1>2. /\ mapOrphanTransactions' = mapOrphanTransactions
        /\ mapOrphanTransactionsByPrev' = mapOrphanTransactionsByPrev
    BY DEF orphanVars
  <1>3. Orphans' = Orphans
    BY <1>2 DEF Orphans
  <1>4. mapOrphanTransactions' \in [Tx -> node' \cup {NoPeer}]
    BY <1>1, <1>2
  <1>5. OrphanIndexExact' /\ OrphansBounded'
    BY <1>1, <1>2, <1>3 DEF OrphanIndexExact, OrphansBounded
  <1> QED  BY <1>4, <1>5 DEF OrphanInv

\* There are no orphans to begin with.
LEMMA InitOrphans == RelayInit => OrphanInv
  <1> SUFFICES ASSUME RelayInit
               PROVE  OrphanInv
    OBVIOUS
  <1>1. /\ node = {} /\ mapOrphanTransactions = [t \in Tx |-> NoPeer]
        /\ mapOrphanTransactionsByPrev = [o \in Outpoint |-> {}]
    BY DEF RelayInit
  <1>2. Orphans = {}
    BY <1>1 DEF Orphans
  <1>3. Cardinality(Orphans) <= nMaxOrphanTx
    <2>1. Cardinality({}) = 0
      BY FS_EmptySet
    <2>2. 0 <= nMaxOrphanTx
      BY PeerAssumption, SMT
    <2> QED  BY <1>2, <2>1, <2>2
  <1> QED  BY <1>1, <1>2, <1>3 DEF OrphanInv, OrphanIndexExact, OrphansBounded

\* One step per action; of what the queue of accepted transactions does, only
\* that it ends in EraseOrphanTx matters here.
LEMMA NextOrphans ==
    ASSUME OrphanInv, [RelayNext]_relayVars
    PROVE  OrphanInv'
  <1>1. node \subseteq Peer /\ \A t \in Orphans : mapOrphanTransactions[t] \in node
    BY DEF OrphanInv, Orphans
  <1>2. ASSUME NEW S, EraseOrphans(S), node' = node
        PROVE  OrphanInv'
    BY <1>1, <1>2, EraseKeeps
  <1>3. ASSUME UNCHANGED orphanVars, node' = node
        PROVE  OrphanInv'
    BY <1>1, <1>3, SameOrphans
  <1>4. ASSUME NEW p \in Peer, NEW t \in Relayed, NEW fCached, NEW policy, TxMsg(p, t, fCached, policy)
        PROVE  OrphanInv'
    <2>1. node' = node /\ p \in node /\ t \in Tx
      BY <1>4, PeerAssumption DEF TxMsg
    <2> DEFINE refused == policy \cup Bad
               fHave   == AlreadyHave(t, fCached)
    <2>2. TxAccepted(t, refused) \/ TxRefused(t, p, refused, fHave) \/ TxOrphan(t, p)
      BY <1>4 DEF TxMsg
    <2> HIDE DEF refused, fHave
    <2>3. CASE TxAccepted(t, refused)
      <3>1. \E S : EraseOrphans(S)
        BY <2>3 DEF TxAccepted
      <3> QED  BY <1>2, <2>1, <3>1
    <2>4. CASE TxRefused(t, p, refused, fHave)
      BY <1>3, <2>1, <2>4 DEF TxRefused
    <2>5. CASE TxOrphan(t, p)
      <3>1. UNCHANGED orphanVars \/ AddOrphanTx(t, p)
        BY <2>5 DEF TxOrphan
      <3> QED  BY <1>3, <2>1, <3>1, AddOrphanKeeps
    <2> QED  BY <2>2, <2>3, <2>4, <2>5
  <1>5. ASSUME NEW p \in Peer, InitializeNode(p)
        PROVE  OrphanInv'
    BY <1>1, <1>5, SameOrphans DEF InitializeNode
  <1>6. ASSUME NEW p \in Peer, FinalizeNode(p)
        PROVE  OrphanInv'
    <2>1. node' = node \ {p} /\ EraseOrphans(OrphansOf(p))
      BY <1>6 DEF FinalizeNode
    <2>2. \A t \in Orphans \ OrphansOf(p) : mapOrphanTransactions[t] \in node'
      BY <1>1, <2>1 DEF OrphansOf
    <2>3. node' \subseteq node
      BY <2>1
    <2> QED  BY <2>1, <2>2, <2>3, EraseKeeps
  <1>7. ASSUME ChainStep
        PROVE  OrphanInv'
    <2>1. node' = node /\ (UNCHANGED orphanVars \/ \E S : EraseOrphans(S))
      BY <1>7 DEF ChainStep, peerVars
    <2> QED  BY <1>2, <1>3, <2>1
  <1>8. ASSUME NEW t \in Tx, LocalTx(t)
        PROVE  OrphanInv'
    BY <1>3, <1>8 DEF LocalTx, peerVars
  <1>9. CASE UNCHANGED relayVars
    BY <1>3, <1>9 DEF relayVars, peerVars
  <1> QED  BY <1>4, <1>5, <1>6, <1>7, <1>8, <1>9 DEF RelayNext, Message

\* The index of the orphans by outpoint has every orphan, and nothing else,
\* whoever erases them.
THEOREM OrphanIndexIsExact == RelaySpec => []OrphanIndexExact
  <1>1. OrphanInv /\ [RelayNext]_relayVars => OrphanInv'
    BY NextOrphans
  <1>2. OrphanInv => OrphanIndexExact
    BY DEF OrphanInv
  <1> QED  BY <1>1, <1>2, InitOrphans, PTL DEF RelaySpec

\* FinalizeNode leaves no orphan of the peer behind.
THEOREM OrphansHaveNodes == RelaySpec => []OrphansOfNodes
  <1>1. OrphanInv /\ [RelayNext]_relayVars => OrphanInv'
    BY NextOrphans
  <1>2. OrphanInv => OrphansOfNodes
    BY DEF OrphanInv, OrphansOfNodes, Orphans
  <1> QED  BY <1>1, <1>2, InitOrphans, PTL DEF RelaySpec

\* LimitOrphanTxSize keeps the orphans within -maxorphantx.
THEOREM OrphansAreBounded == RelaySpec => []OrphansBounded
  <1>1. OrphanInv /\ [RelayNext]_relayVars => OrphanInv'
    BY NextOrphans
  <1>2. OrphanInv => OrphansBounded
    BY DEF OrphanInv
  <1> QED  BY <1>1, <1>2, InitOrphans, PTL DEF RelaySpec

-----------------------------------------------------------------------------
(* The chain.                                                              *)

Line(b) ==
    /\ b \in Chain[b] /\ Genesis \in Chain[b]
    /\ \A a \in Chain[b] : Height[a] <= Height[b] /\ (Height[a] = Height[b] => a = b) /\ Chain[a] \subseteq Chain[b]
    /\ \A a \in Chain[b] : \A c \in Chain[b] : Height[a] <= Height[c] => a \in Chain[c]
    /\ \A a \in Chain[b] : a # Genesis => Parent[a] \in Chain[b]
    /\ \A h \in 0 .. Height[b] : \E a \in Chain[b] : Height[a] = h

\* A chain is a line: one block at each height, each the parent of the next.
LEMMA ChainLine == \A b \in Block : Line(b)
  <1> DEFINE Wrong == {b \in Block : ~Line(b)}
             H == {Height[b] : b \in Wrong}
  <1>1. SUFFICES ASSUME Wrong # {} PROVE FALSE
    OBVIOUS
  <1>2. H \in SUBSET Nat /\ H # {}
    BY <1>1, TreeAssumption, SMT
  <1>3. PICK k \in H : \A m \in H : k <= m
    BY <1>2, LeastNumber
  <1>4. PICK b \in Wrong : Height[b] = k
    BY <1>3
  <1>5. b \in Block /\ ~Line(b) /\ \A a \in Wrong : Height[b] <= Height[a]
    BY <1>3, <1>4
  <1> HIDE DEF H, Wrong
  <1>6. CASE b = Genesis
    <2>1. Chain[b] = {b} /\ Height[b] = 0
      BY <1>6, TreeAssumption
    <2>2. 0 .. 0 = {0} /\ 0 <= 0
      BY SMT
    <2>3. Line(b)
      BY <1>6, <2>1, <2>2 DEF Line
    <2> QED  BY <1>5, <2>3
  <1>7. CASE b # Genesis
    <2> DEFINE p == Parent[b]
    <2>1. p \in Block /\ Height[b] = Height[p] + 1 /\ Chain[b] = Chain[p] \cup {b} /\ Height[p] \in Nat
      BY <1>5, <1>7, TreeAssumption, SMT
    <2>2. ~(Height[b] <= Height[p]) /\ Height[p] <= Height[b] /\ Height[b] <= Height[b]
      BY <2>1, SMT
    <2>3. Line(p)
      BY <1>5, <2>1, <2>2 DEF Wrong
    <2>4. \A a \in Chain[p] : a \in Block /\ Height[a] \in Nat /\ Height[a] <= Height[p] /\ Chain[a] \subseteq Chain[p]
      <3> TAKE a \in Chain[p]
      <3>1. a \in Block /\ Height[a] \in Nat
        BY <2>1, TreeAssumption
      <3>2. Height[a] <= Height[p] /\ Chain[a] \subseteq Chain[p]
        BY <2>3 DEF Line
      <3> QED  BY <3>1, <3>2
    <2>5. \A a \in Chain[p] : Height[a] <= Height[b] /\ Height[a] # Height[b] /\ ~(Height[b] <= Height[a])
      BY <2>1, <2>4, SMT
    <2>6. \A a \in Chain[b] : Height[a] <= Height[b] /\ (Height[a] = Height[b] => a = b) /\ Chain[a] \subseteq Chain[b]
      <3> TAKE a \in Chain[b]
      <3>1. CASE a = b
        BY <2>2, <3>1
      <3>2. CASE a \in Chain[p]
        BY <2>1, <2>4, <2>5, <3>2
      <3> QED  BY <2>1, <3>1, <3>2
    <2>7. \A a \in Chain[b] : \A c \in Chain[b] : Height[a] <= Height[c] => a \in Chain[c]
      BY <2>1, <2>3, <2>5 DEF Line
    <2>8. \A a \in Chain[b] : a # Genesis => Parent[a] \in Chain[b]
      BY <2>1, <2>3 DEF Line
    <2>9. \A h \in 0 .. Height[b] : \E a \in Chain[b] : Height[a] = h
      <3> TAKE h \in 0 .. Height[b]
      <3>1. h \in 0 .. Height[p] \/ h = Height[b]
        BY <2>1, SMT
      <3> QED  BY <2>1, <2>3, <3>1 DEF Line
    <2>10. b \in Chain[b] /\ Genesis \in Chain[b]
      BY <2>1, <2>3 DEF Line
    <2>11. Line(b)
      BY <2>6, <2>7, <2>8, <2>9, <2>10 DEF Line
    <2> QED  BY <1>5, <2>11
  <1> QED  BY <1>6, <1>7

\* A chain has one block of each height.
LEMMA SameHeight ==
    ASSUME NEW b \in Block, NEW a \in Chain[b], NEW c \in Chain[b], Height[a] = Height[c]
    PROVE  a = c
  <1>1. a \in Block /\ c \in Block /\ Height[a] \in Nat
    BY TreeAssumption
  <1>2. Height[a] <= Height[c]
    BY <1>1, SMT
  <1>3. a \in Chain[c]
    BY <1>2, ChainLine DEF Line
  <1> QED  BY <1>1, <1>3, ChainLine DEF Line

\* BlockAt finds the block it is asked for.
LEMMA AtHeight ==
    ASSUME NEW b \in Block
    PROVE  /\ \A h \in 0 .. Height[b] : BlockAt(b, h) \in Chain[b] /\ Height[BlockAt(b, h)] = h
           /\ \A a \in Chain[b] : BlockAt(b, Height[a]) = a
           /\ \A h \in 1 .. Height[b] : BlockAt(b, h) # Genesis /\ Parent[BlockAt(b, h)] = BlockAt(b, h - 1)
  <1>1. \A h \in 0 .. Height[b] : BlockAt(b, h) \in Chain[b] /\ Height[BlockAt(b, h)] = h
    BY ChainLine DEF Line, BlockAt
  <1>2. \A a \in Chain[b] : BlockAt(b, Height[a]) = a
    <2> TAKE a \in Chain[b]
    <2>1. a \in Block /\ Height[a] \in Nat /\ Height[b] \in Nat
      BY TreeAssumption
    <2>2. Height[a] \in 0 .. Height[b]
      BY <2>1, ChainLine, SMT DEF Line
    <2> QED  BY <1>1, <2>2, SameHeight
  <1>3. ASSUME NEW h \in 1 .. Height[b]
        PROVE  BlockAt(b, h) # Genesis /\ Parent[BlockAt(b, h)] = BlockAt(b, h - 1)
    <2> DEFINE a == BlockAt(b, h)
    <2>1. Height[b] \in Nat /\ Height[Genesis] = 0
      BY TreeAssumption
    <2>2. h \in 0 .. Height[b] /\ h # 0
      BY <2>1, SMT
    <2>3. a \in Chain[b] /\ Height[a] = h
      BY <1>1, <2>2
    <2> HIDE DEF a
    <2>4. a \in Block \ {Genesis}
      BY <2>1, <2>2, <2>3, TreeAssumption
    <2>5. Parent[a] \in Chain[b]
      BY <2>3, <2>4, ChainLine DEF Line
    <2>6. Height[Parent[a]] = h - 1
      BY <2>3, <2>4, TreeAssumption, SMT
    <2>7. Parent[a] = BlockAt(b, h - 1)
      BY <1>2, <2>5, <2>6
    <2> QED  BY <2>4, <2>7 DEF a
  <1> QED  BY <1>1, <1>2, <1>3

\* What is before transaction i of block b.
LEMMA BeforeIs ==
    ASSUME NEW b \in Block \ {Genesis}, NEW i
    PROVE  Before(b, i) = Confirmed[Parent[b]] \cup {Vtx[b][j] : j \in 1 .. i - 1}
  <1>1. Parent[b] \in Block /\ Chain[b] = Chain[Parent[b]] \cup {b} /\ Height[b] = Height[Parent[b]] + 1
        /\ Height[Parent[b]] \in Nat
    BY TreeAssumption
  <1>2. ~(Height[b] <= Height[Parent[b]])
    BY <1>1, SMT
  <1>3. b \notin Chain[Parent[b]]
    BY <1>1, <1>2, ChainLine DEF Line
  <1>4. Chain[b] \ {b} = Chain[Parent[b]]
    BY <1>1, <1>3
  <1>5. Confirmed[Parent[b]] = UNION {Range(Vtx[a]) : a \in Chain[Parent[b]]}
    BY <1>1 DEF Confirmed
  <1>6. UNION {Range(Vtx[a]) : a \in Chain[b] \ {b}} = Confirmed[Parent[b]]
    BY <1>4, <1>5
  <1> QED  BY <1>6 DEF Before

\* The transactions of a block are a sequence.
LEMMA VtxSeq ==
    ASSUME NEW b \in Block
    PROVE  /\ Len(Vtx[b]) \in Nat
           /\ Vtx[b] \in [1 .. Len(Vtx[b]) -> Tx]
           /\ Range(Vtx[b]) = {Vtx[b][i] : i \in 1 .. Len(Vtx[b])} /\ Range(Vtx[b]) \in SUBSET Tx
  <1>1. Vtx[b] \in Seq(Tx)
    BY TxAssumption
  <1>2. Len(Vtx[b]) \in Nat /\ Vtx[b] \in [1 .. Len(Vtx[b]) -> Tx]
    BY <1>1, SMT
  <1>3. Range(Vtx[b]) = {Vtx[b][i] : i \in 1 .. Len(Vtx[b])}
    BY <1>2 DEF Range
  <1> QED  BY <1>2, <1>3

\* A block confirms its own transactions besides those of its parent's chain.
LEMMA ConfirmedStep ==
    ASSUME NEW b \in Block \ {Genesis}
    PROVE  /\ Parent[b] \in Block
           /\ Confirmed[b] = Confirmed[Parent[b]] \cup Range(Vtx[b])
           /\ Range(Vtx[b]) \cap Confirmed[Parent[b]] = {}
  <1>1. Parent[b] \in Block /\ b \in Block /\ Chain[b] = Chain[Parent[b]] \cup {b}
    BY TreeAssumption
  <1>2. Confirmed[b] = UNION {Range(Vtx[a]) : a \in Chain[b]}
        /\ Confirmed[Parent[b]] = UNION {Range(Vtx[a]) : a \in Chain[Parent[b]]}
    BY <1>1 DEF Confirmed
  <1>3. Confirmed[b] = Confirmed[Parent[b]] \cup Range(Vtx[b])
    BY <1>1, <1>2
  <1>4. ASSUME NEW t \in Range(Vtx[b])
        PROVE  t \notin Confirmed[Parent[b]]
    <2>1. PICK i \in 1 .. Len(Vtx[b]) : t = Vtx[b][i]
      BY VtxSeq
    <2>2. t \notin Before(b, i)
      BY <2>1, ValidBlocks
    <2> QED  BY <2>2, BeforeIs
  <1> QED  BY <1>1, <1>3, <1>4

\* The transactions of a chain spend one another.
LEMMA SpendsConfirmed ==
    ASSUME NEW b \in Block, NEW t \in Confirmed[b], NEW o \in Spends[t]
    PROVE  o[1] \in Confirmed[b]
  <1>1. Confirmed[b] = UNION {Range(Vtx[a]) : a \in Chain[b]}
    BY DEF Confirmed
  <1>2. PICK a \in Chain[b] : t \in Range(Vtx[a])
    BY <1>1
  <1>3. a \in Block /\ Chain[a] \subseteq Chain[b]
    BY TreeAssumption, ChainLine DEF Line
  <1>4. PICK i \in 1 .. Len(Vtx[a]) : t = Vtx[a][i]
    BY <1>2, <1>3, VtxSeq
  <1>5. o[1] \in Before(a, i)
    BY <1>3, <1>4, ValidBlocks
  <1>6. 1 .. i - 1 \subseteq 1 .. Len(Vtx[a])
    BY <1>3, VtxSeq, SMT
  <1>7. {Vtx[a][j] : j \in 1 .. i - 1} \subseteq Range(Vtx[a])
    BY <1>3, <1>6, VtxSeq
  <1>8. UNION {Range(Vtx[c]) : c \in Chain[a] \ {a}} \subseteq Confirmed[b] /\ Range(Vtx[a]) \subseteq Confirmed[b]
    BY <1>1, <1>3
  <1> QED  BY <1>5, <1>7, <1>8 DEF Before

\* What is confirmed is a transaction.
LEMMA ConfirmedTx ==
    ASSUME NEW b \in Block
    PROVE  Confirmed[b] \in SUBSET Tx
  <1>1. \A a \in Chain[b] : a \in Block
    BY TreeAssumption
  <1> QED  BY <1>1, VtxSeq DEF Confirmed

\* pcoinsTip has the outputs of what is confirmed that nothing confirmed spends.
LEMMA CoinsAre ==
    ASSUME NEW b \in Block
    PROVE  \A o \in Outpoint : o \in Coins[b] <=>
               o[1] \in Confirmed[b] /\ \A t \in Confirmed[b] : o \notin Spends[t]
  <1>1. Coins[b] = (UNION {Outputs(t) : t \in Confirmed[b]}) \ UNION {Spends[t] : t \in Confirmed[b]}
    BY DEF Coins
  <1>2. \A o \in Outpoint : o \in UNION {Outputs(t) : t \in Confirmed[b]} <=> o[1] \in Confirmed[b]
    BY OutpointTx, ConfirmedTx, SMT
  <1>3. \A o : o \in UNION {Spends[t] : t \in Confirmed[b]} <=> \E t \in Confirmed[b] : o \in Spends[t]
    OBVIOUS
  <1>4. \A o : o \in Coins[b] <=> o \in UNION {Outputs(t) : t \in Confirmed[b]}
                               /\ o \notin UNION {Spends[t] : t \in Confirmed[b]}
    BY <1>1
  <1> QED  BY <1>2, <1>3, <1>4

\* Coins when block b is disconnected, and when it is connected.
LEMMA CoinsStep ==
    ASSUME NEW b \in Block \ {Genesis}, NEW o \in Outpoint
    PROVE  /\ o \in Coins[b] => o \in Coins[Parent[b]] \/ o[1] \in Range(Vtx[b])
           /\ /\ o \in Coins[Parent[b]] \/ o[1] \in Range(Vtx[b])
              /\ \A t \in Range(Vtx[b]) : o \notin Spends[t]
              => o \in Coins[b]
  <1>1. b \in Block /\ Parent[b] \in Block /\ Confirmed[b] = Confirmed[Parent[b]] \cup Range(Vtx[b])
        /\ Range(Vtx[b]) \cap Confirmed[Parent[b]] = {}
    BY ConfirmedStep
  <1>2. /\ o \in Coins[b] <=> o[1] \in Confirmed[b] /\ \A t \in Confirmed[b] : o \notin Spends[t]
        /\ o \in Coins[Parent[b]] <=>
            o[1] \in Confirmed[Parent[b]] /\ \A t \in Confirmed[Parent[b]] : o \notin Spends[t]
    BY <1>1, CoinsAre
  <1>3. o[1] \in Range(Vtx[b]) => \A t \in Confirmed[Parent[b]] : o \notin Spends[t]
    BY <1>1, SpendsConfirmed
  <1> QED  BY <1>1, <1>2, <1>3

\* The height of a coin is the same in every chain that has the block.
LEMMA CoinHeightIs ==
    ASSUME NEW b \in Block, NEW a \in Chain[b], NEW t \in Confirmed[a]
    PROVE  CoinHeight(t, a) = CoinHeight(t, b)
  <1>1. a \in Block /\ Chain[a] \subseteq Chain[b]
    BY TreeAssumption, ChainLine DEF Line
  <1>2. PICK c \in Chain[a] : t \in Range(Vtx[c])
    BY <1>1 DEF Confirmed
  <1>3. ASSUME NEW d \in Chain[b], NEW e \in Chain[b], t \in Range(Vtx[d]), t \in Range(Vtx[e]),
               Height[d] <= Height[e], d # e
        PROVE  FALSE
    <2>1. d \in Chain[e] \ {e} /\ e \in Block
      BY <1>3, ChainLine, TreeAssumption DEF Line
    <2>2. PICK i \in 1 .. Len(Vtx[e]) : t = Vtx[e][i]
      BY <1>3, <2>1, VtxSeq, ZenonT(40)
    <2>3. t \in Before(e, i)
      BY <1>3, <2>1 DEF Before
    <2> QED  BY <2>1, <2>2, <2>3, ValidBlocks
  <1>4. \A d \in Chain[b] : t \in Range(Vtx[d]) => d = c
    <2> TAKE d \in Chain[b]
    <2>1. c \in Chain[b] /\ Height[d] \in Nat /\ Height[c] \in Nat
      BY <1>1, TreeAssumption
    <2>2. Height[d] <= Height[c] \/ Height[c] <= Height[d]
      BY <2>1, SMT
    <2> QED  BY <1>2, <1>3, <2>1, <2>2
  <1>5. (CHOOSE d \in Chain[b] : t \in Range(Vtx[d])) = c
    BY <1>1, <1>2, <1>4
  <1>6. (CHOOSE d \in Chain[a] : t \in Range(Vtx[d])) = c
    BY <1>1, <1>2, <1>4
  <1> QED  BY <1>5, <1>6 DEF CoinHeight

\* What may be spent at a may be spent at every b that follows it.
LEMMA MatureStays ==
    ASSUME NEW b \in Block, NEW a \in Chain[b], NEW o \in Outpoint, o[1] \in Confirmed[a], Mature(o, a)
    PROVE  Mature(o, b)
  <1> DEFINE h == CoinHeight(o[1], a)
  <1>1. a \in Block /\ Height[a] \in Nat /\ Height[b] \in Nat /\ Height[a] <= Height[b]
    BY TreeAssumption, ChainLine DEF Line
  <1>2. CoinHeight(o[1], b) = h
    BY CoinHeightIs
  <1>3. h \in Nat
    <2>1. PICK d \in Chain[a] : o[1] \in Range(Vtx[d])
      BY <1>1 DEF Confirmed
    <2>2. (CHOOSE c \in Chain[a] : o[1] \in Range(Vtx[c])) \in Block
      BY <1>1, <2>1, TreeAssumption
    <2> QED  BY <2>2, TreeAssumption DEF CoinHeight
  <1> HIDE DEF h
  <1>4. Height[a] + 1 - h >= nCoinbaseMaturity => Height[b] + 1 - h >= nCoinbaseMaturity
    BY <1>1, <1>3, TxAssumption, SMT
  <1> QED  BY <1>2, <1>4 DEF Mature, h

\* The last common block is one of both chains.
LEMMA ForkIs ==
    ASSUME NEW a \in Block, NEW b \in Block
    PROVE  Fork(a, b) \in Chain[a] /\ Fork(a, b) \in Chain[b]
  <1> DEFINE C == Chain[a] \cap Chain[b]
             D == {Height[a] - Height[c] : c \in C}
  <1>1. C # {} /\ \A c \in C : c \in Block /\ Height[c] \in Nat /\ Height[c] <= Height[a]
    BY TreeAssumption, ChainLine DEF Line
  <1>2. Height[a] \in Nat
    BY TreeAssumption
  <1>3. D \in SUBSET Nat /\ D # {}
    <2>1. \A c \in C : Height[a] - Height[c] \in Nat
      BY <1>1, <1>2, SMT
    <2> HIDE DEF C
    <2> QED  BY <1>1, <2>1
  <1>4. PICK k \in D : \A n \in D : k <= n
    <2> HIDE DEF D
    <2> QED  BY <1>3, LeastNumber
  <1>5. PICK c \in C : k = Height[a] - Height[c]
    BY <1>4
  <1> HIDE DEF C
  <1>6. \A d \in C : Height[d] <= Height[c]
    <2> TAKE d \in C
    <2>1. Height[a] - Height[c] <= Height[a] - Height[d]
      BY <1>4, <1>5
    <2> QED  BY <1>1, <1>2, <1>5, <2>1, SMT
  <1>7. Fork(a, b) = CHOOSE x \in C : \A d \in C : Height[d] <= Height[x]
    BY DEF Fork, C
  <1>8. Fork(a, b) \in C
    BY <1>6, <1>7
  <1> QED  BY <1>8 DEF C

-----------------------------------------------------------------------------
(* The pool between two calls, with the chain at b.                        *)

Sound(m, b) ==
    /\ m \in Pools /\ Links(m, {}, {}) /\ Spent(m) /\ Fed(m, Coins[b]) /\ Exact(m)
    /\ m.tx \cap (Confirmed[b] \cup CoinBase \cup CoinStake) = {}

\* Lock times have passed and coinbases are mature.
Fit(m, b) ==
    \A t \in m.tx : Lock[t] <= Height[b] + 1 /\ \A o \in Spends[t] : o[1] \in CoinBase => Mature(o, b)

\* Nothing that is removed with its descendants does harm.
LEMMA RemoveSound ==
    ASSUME NEW m, NEW b, Sound(m, b), NEW R \in SUBSET Tx
    PROVE  /\ Sound(RemoveStaged(m, CalculateDescendants(m, R), FALSE), b)
           /\ RemoveStaged(m, CalculateDescendants(m, R), FALSE).tx \subseteq m.tx \ R
  <1> DEFINE S == CalculateDescendants(m, R)
             r == RemoveStaged(m, S, FALSE)
  <1>1. m \in Pools /\ Links(m, {}, {}) /\ Spent(m) /\ Fed(m, Coins[b]) /\ Exact(m)
    BY DEF Sound
  <1>2. S \in SUBSET Tx /\ R \subseteq S /\ \A p \in S : m.children[p] \subseteq S
    BY <1>1, Descendants
  <1> HIDE DEF S
  <1>3. r \in Pools /\ r.tx = m.tx \ S
    BY <1>1, <1>2, RemoveStagedTx
  <1>4. Links(r, {}, {}) /\ Spent(r)
    BY <1>1, <1>2, RemoveKeepsLinks
  <1>5. Fed(r, Coins[b])
    <2>1. S \cap {} = {}
      OBVIOUS
    <2> QED  BY <1>1, <1>2, <2>1, RemoveKeepsFed
  <1>6. Exact(r)
    <2>1. Tied(m) /\ Tied(r)
      BY <1>1, <1>4, LinksTied
    <2> QED  BY <1>1, <1>2, <2>1, RemoveExact
  <1> HIDE DEF r
  <1>7. Sound(r, b) /\ r.tx \subseteq m.tx \ R
    BY <1>2, <1>3, <1>4, <1>5, <1>6 DEF Sound
  <1> QED  BY <1>7 DEF r, S

\* removeRecursive leaves a sound pool without t.
LEMMA RemoveRecursiveSound ==
    ASSUME NEW m, NEW b, Sound(m, b), NEW t \in Tx
    PROVE  /\ Sound(removeRecursive(m, t), b)
           /\ removeRecursive(m, t).tx \subseteq m.tx \ {t}
  <1>1. m \in Pools
    BY DEF Sound
  <1>2. Roots(m, t) \in SUBSET Tx /\ (t \in m.tx => t \in Roots(m, t))
    BY <1>1, RootsAre
  <1>3. /\ Sound(removeRecursive(m, t), b)
        /\ removeRecursive(m, t).tx \subseteq m.tx \ Roots(m, t)
    BY <1>2, RemoveSound DEF removeRecursive
  <1> QED  BY <1>2, <1>3

\* So do several of them, one after the other.
LEMMA RemoveAllSound ==
    ASSUME NEW m, NEW b, Sound(m, b), NEW S \in SUBSET Tx
    PROVE  Sound(RemoveAll(m, S), b) /\ RemoveAll(m, S).tx \subseteq m.tx \ S
  <1> DEFINE q == Listing(S)
             F == [t \in Tx |-> [x \in Pools |-> removeRecursive(x, t)]]
             I == [n \in 0 .. Len(q) |->
                    {x \in Pools : Sound(x, b) /\ x.tx \subseteq m.tx /\ \A i \in 1 .. n : q[i] \notin x.tx}]
  <1>1. q \in [1 .. Len(q) -> S] /\ Len(q) \in Nat /\ Range(q) = S
    BY ListingLists, SubsetsFinite
  <1> HIDE DEF q
  <1>2. m \in I[0]
    <2>1. 0 \in 0 .. Len(q) /\ 1 .. 0 = {}
      BY <1>1, SMT
    <2>2. m \in Pools
      BY DEF Sound
    <2>3. I[0] = {x \in Pools : Sound(x, b) /\ x.tx \subseteq m.tx /\ \A i \in 1 .. 0 : q[i] \notin x.tx}
      BY <2>1
    <2> HIDE DEF I
    <2> QED  BY <2>1, <2>2, <2>3
  <1>3. ASSUME NEW n \in 1 .. Len(q), NEW y \in I[n - 1]
        PROVE  F[q[n]][y] \in I[n]
    <2>1. n - 1 \in 0 .. Len(q) /\ n \in 0 .. Len(q) /\ \A i \in 1 .. n : i \in 1 .. n - 1 \/ i = n
      BY <1>1, SMT
    <2>2. y \in Pools /\ Sound(y, b) /\ y.tx \subseteq m.tx /\ \A i \in 1 .. n - 1 : q[i] \notin y.tx
      BY <2>1
    <2>3. q[n] \in Tx
      BY <1>1
    <2> DEFINE x == removeRecursive(y, q[n])
    <2>4. F[q[n]][y] = x
      BY <2>2, <2>3
    <2>5. Sound(x, b) /\ x.tx \subseteq y.tx \ {q[n]}
      BY <2>2, <2>3, RemoveRecursiveSound
    <2>6. I[n] = {z \in Pools : Sound(z, b) /\ z.tx \subseteq m.tx /\ \A i \in 1 .. n : q[i] \notin z.tx}
      BY <2>1
    <2> HIDE DEF I, F, x
    <2>7. x \in Pools
      BY <2>5 DEF Sound
    <2>8. \A i \in 1 .. n : q[i] \notin x.tx
      BY <2>1, <2>2, <2>5
    <2> QED  BY <2>2, <2>4, <2>5, <2>6, <2>7, <2>8
  <1>4. Run(F, m, q) \in I[Len(q)]
    <2> HIDE DEF F, I
    <2> QED  BY <1>1, <1>2, <1>3, RunInduction
  <1>5. Len(q) \in 0 .. Len(q)
    BY <1>1, SMT
  <1>6. RemoveAll(m, S) = Run(F, m, q)
    BY DEF RemoveAll, q
  <1> HIDE DEF F
  <1>7. Sound(Run(F, m, q), b) /\ Run(F, m, q).tx \subseteq m.tx /\ \A i \in 1 .. Len(q) : q[i] \notin Run(F, m, q).tx
    BY <1>4, <1>5
  <1>8. \A t \in S : \E i \in 1 .. Len(q) : q[i] = t
    BY <1>1 DEF Range
  <1> QED  BY <1>6, <1>7, <1>8

\* removeForReorg leaves what fits the next block.
LEMMA ReorgFit ==
    ASSUME NEW m, NEW b \in Block, Sound(m, b)
    PROVE  /\ Sound(removeForReorg(m, b), b)
           /\ Fit(removeForReorg(m, b), b)
           /\ removeForReorg(m, b).tx \subseteq m.tx
  <1> DEFINE S == NoLongerSpendable(m, b)
             r == RemoveAll(m, S)
  <1>1. m.tx \in SUBSET Tx /\ m.tx \cap CoinBase = {}
    BY PoolFields DEF Sound
  <1>2. S \in SUBSET Tx
    BY <1>1 DEF NoLongerSpendable
  <1>3. Sound(r, b) /\ r.tx \subseteq m.tx \ S
    BY <1>2, RemoveAllSound
  <1> HIDE DEF r
  <1>4. ASSUME NEW t \in r.tx
        PROVE  Lock[t] <= Height[b] + 1 /\ \A o \in Spends[t] : o[1] \in CoinBase => Mature(o, b)
    <2>1. t \in m.tx /\ t \notin S /\ t \in Tx
      BY <1>1, <1>3
    <2>2. ~(Lock[t] > Height[b] + 1) /\ Lock[t] \in Nat /\ Height[b] \in Nat
      BY <2>1, TreeAssumption, TxAssumption DEF NoLongerSpendable
    <2>3. Lock[t] <= Height[b] + 1
      BY <2>2, SMT
    <2>4. ASSUME NEW o \in Spends[t], o[1] \in CoinBase
          PROVE  Mature(o, b)
      <3>1. SpendsCoinbase(t) /\ o[1] \notin m.tx
        BY <1>1, <2>4 DEF SpendsCoinbase
      <3> QED  BY <2>1, <3>1 DEF NoLongerSpendable
    <2> QED  BY <2>3, <2>4
  <1> QED  BY <1>3, <1>4 DEF Fit, removeForReorg, r

\* What fits, fits with less in the pool.
LEMMA FitLess ==
    ASSUME NEW m, NEW r, NEW b, r.tx \subseteq m.tx, Fit(m, b)
    PROVE  Fit(r, b)
  BY DEF Fit

\* Neither Expire nor TrimToSize does harm, whatever they choose, and the pool
\* is then within its limit.
LEMMA LimitSound ==
    ASSUME NEW m, NEW b, Sound(m, b), NEW young, NEW x \in LimitMempoolSize(m, young)
    PROVE  Sound(x, b) /\ x.tx \subseteq m.tx /\ DynamicMemoryUsage(x) <= sizelimit
  <1>1. m.tx \in SUBSET Tx
    BY PoolFields DEF Sound
  <1>2. PICK old \in SUBSET (m.tx \ young) : x \in TrimToSize(Expire(m, old))
    BY DEF LimitMempoolSize
  <1>3. old \in SUBSET Tx
    BY <1>1
  <1> DEFINE y == Expire(m, old)
  <1>4. Sound(y, b) /\ y.tx \subseteq m.tx
    BY <1>3, RemoveSound DEF Expire
  <1> HIDE DEF y
  <1>5. y \in Pools /\ y.tx \in SUBSET Tx
    BY <1>4, PoolFields DEF Sound
  <1> DEFINE q == [i \in 1 .. Cardinality(y.tx) |-> i]
             F == [i \in Nat |-> [M \in SUBSET Pools |-> UNION {TrimOne(z) : z \in M}]]
             Good == {M \in SUBSET Pools : \A z \in M : Sound(z, b) /\ z.tx \subseteq m.tx}
             I == [n \in 0 .. Len(q) |-> Good]
  <1>6. Cardinality(y.tx) \in Nat
    BY <1>5, SubsetsFinite
  <1>7. Len(q) = Cardinality(y.tx) /\ \A n \in 1 .. Len(q) : q[n] \in Nat
    BY <1>6, SMT
  <1> HIDE DEF q
  <1>8. {y} \in I[0]
    <2>1. 0 \in 0 .. Len(q)
      BY <1>6, <1>7, SMT
    <2>2. {y} \in Good
      BY <1>4, <1>5
    <2> QED  BY <2>1, <2>2
  <1>9. ASSUME NEW n \in 1 .. Len(q), NEW M \in I[n - 1]
        PROVE  F[q[n]][M] \in I[n]
    <2>1. n - 1 \in 0 .. Len(q) /\ n \in 0 .. Len(q)
      BY <1>6, <1>7, SMT
    <2>2. M \in Good
      BY <2>1
    <2>3. F[q[n]][M] = UNION {TrimOne(z) : z \in M}
      BY <1>7, <2>2
    <2>4. ASSUME NEW z \in M, NEW w \in TrimOne(z)
          PROVE  w \in Pools /\ Sound(w, b) /\ w.tx \subseteq m.tx
      <3>1. z \in Pools /\ Sound(z, b) /\ z.tx \subseteq m.tx
        BY <2>2
      <3>2. CASE w = z
        BY <3>1, <3>2
      <3>3. CASE w # z
        <4>1. PICK t \in Worst(z) : w = RemoveStaged(z, CalculateDescendants(z, {t}), FALSE)
          BY <2>4, <3>3 DEF TrimOne
        <4>2. {t} \in SUBSET Tx
          BY <1>1, <3>1 DEF Worst
        <4>3. Sound(w, b) /\ w.tx \subseteq z.tx \ {t}
          BY <3>1, <4>1, <4>2, RemoveSound
        <4>4. w \in Pools
          BY <4>3 DEF Sound
        <4> QED  BY <3>1, <4>3, <4>4
      <3> QED  BY <3>2, <3>3
    <2>5. UNION {TrimOne(z) : z \in M} \in Good
      BY <2>4
    <2>6. I[n] = Good
      BY <2>1
    <2> HIDE DEF I, F, Good
    <2> QED  BY <2>3, <2>5, <2>6
  <1>10. Run(F, {y}, q) \in I[Len(q)]
    <2> HIDE DEF F, I
    <2>1. Len(q) \in Nat
      BY <1>6, <1>7
    <2> QED  BY <1>8, <1>9, <2>1, RunInduction
  <1>11. Len(q) \in 0 .. Len(q)
    BY <1>6, <1>7, SMT
  <1>12. Run(F, {y}, q) \in Good
    <2> HIDE DEF F, Good
    <2> QED  BY <1>10, <1>11
  <1>13. x \in Run(F, {y}, q) /\ DynamicMemoryUsage(x) <= sizelimit
    BY <1>2 DEF TrimToSize, y, q
  <1> HIDE DEF F
  <1> QED  BY <1>12, <1>13

\* AcceptToMemoryPool for the next block.
LEMMA AcceptSound ==
    ASSUME NEW m, NEW b \in Block, Sound(m, b), Fit(m, b), NEW t \in Tx, Acceptable(m, t, b, Height[b])
    PROVE  Sound(addUnchecked(m, t), b) /\ Fit(addUnchecked(m, t), b)
  <1> DEFINE r == addUnchecked(m, t)
  <1>1. /\ m \in Pools /\ Links(m, {}, {}) /\ Spent(m) /\ Fed(m, Coins[b]) /\ Exact(m)
        /\ m.tx \cap (Confirmed[b] \cup CoinBase \cup CoinStake) = {}
    BY DEF Sound
  <1>2. /\ Spends[t] # {} /\ t \notin CoinBase \cup CoinStake /\ Lock[t] <= Height[b] + 1 /\ t \notin m.tx
        /\ NoConflict(m, t) /\ Outputs(t) \cap Coins[b] = {}
        /\ \A o \in Spends[t] : o[1] \in m.tx \/ (o \in Coins[b] /\ Mature(o, b))
    BY DEF Acceptable, Loose
  <1>3. m.tx \in SUBSET Tx
    BY <1>1, PoolFields
  <1>4. \A u \in m.tx \cup {t} : ~Feeds(t, u)
    <2> SUFFICES ASSUME NEW u \in m.tx \cup {t}, NEW o \in Spends[u], o[1] = t
                 PROVE  FALSE
      BY DEF Feeds
    <2>1. o \in Outputs(t)
      BY <1>3, SpendsTx, OutpointTx
    <2>2. o \in Coins[b]
      BY <1>1, <1>2 DEF Fed
    <2> QED  BY <1>2, <2>1, <2>2
  <1>5. t \notin Confirmed[b]
    <2> SUFFICES ASSUME t \in Confirmed[b]
                 PROVE  FALSE
      OBVIOUS
    <2>1. PICK o \in Spends[t] : TRUE
      BY <1>2
    <2>2. o[1] \in Confirmed[b] /\ o \in Outpoint
      BY SpendsConfirmed, SpendsTx
    <2>3. o \notin Coins[b]
      BY <2>2, CoinsAre
    <2> QED  BY <1>1, <1>2, <2>2, <2>3
  <1>6. r \in Pools /\ r.tx = m.tx \cup {t}
    BY <1>1, AddIs
  <1>7. Links(r, {} \cup {t}, {} \cup {t}) /\ Spent(r)
    BY <1>1, <1>2, <1>4, AddLinks
  <1>8. Fed(r, Coins[b])
    BY <1>1, <1>2, AddFed
  <1>12. Exact(r)
    <2>1. Tied(m) /\ Tied(r)
      BY <1>1, <1>7, LinksTied
    <2> QED  BY <1>1, <1>2, <2>1, AddExact
  <1> HIDE DEF r
  <1>9. Links(r, {}, {})
    BY <1>4, <1>6, <1>7, SMT DEF Links
  <1>10. Sound(r, b)
    BY <1>1, <1>2, <1>5, <1>6, <1>7, <1>8, <1>9, <1>12 DEF Sound
  <1>11. Fit(r, b)
    BY <1>1, <1>2, <1>6 DEF Fit
  <1> QED  BY <1>10, <1>11 DEF r

-----------------------------------------------------------------------------
(* A block is connected.                                                   *)

\* The outpoints there are at p once the transactions D are applied to it.
CoinsWith(p, D) == {o \in Outpoint : (o \in Coins[p] \/ o[1] \in D) /\ \A w \in D : o \notin Spends[w]}

\* The pool while the transactions D of a block on p are taken from it.
Taking(m, p, D) ==
    /\ m \in Pools /\ Links(m, {}, {}) /\ Spent(m) /\ Fed(m, CoinsWith(p, D)) /\ Exact(m)
    /\ m.tx \cap (Confirmed[p] \cup CoinBase \cup CoinStake \cup D) = {}

\* removeForBlock takes t and whatever conflicts with it, so that what stays is
\* fed by the coins there are once t is applied.
LEMMA TakeKeeps ==
    ASSUME NEW m, NEW p \in Block, NEW D \in SUBSET Tx, Taking(m, p, D), NEW t \in Tx, NEW lost,
           \A w \in D \cup {t} : ~Feeds(t, w), \A o \in Spends[t] : o[1] \in D \cup Confirmed[p]
    PROVE  Taking(Take(m, t, lost), p, D \cup {t}) /\ Take(m, t, lost).tx \subseteq m.tx
  <1> DEFINE y == IF t \in m.tx THEN RemoveStaged(m, {t}, TRUE) ELSE m
             B == CoinsWith(p, D) \cup Outputs(t)
             z == removeConflicts(y, t, lost)
             r == ClearPrioritisation(z, t)
  <1>1. /\ m \in Pools /\ Links(m, {}, {}) /\ Spent(m) /\ Fed(m, CoinsWith(p, D)) /\ Exact(m)
        /\ m.tx \cap (Confirmed[p] \cup CoinBase \cup CoinStake \cup D) = {}
    BY DEF Taking
  <1>2. m.tx \in SUBSET Tx
    BY <1>1, PoolFields
  <1>3. y \in Pools /\ Links(y, {}, {}) /\ Spent(y) /\ y.tx = m.tx \ {t}
    <2>1. CASE t \in m.tx
      <3>1. {t} \in SUBSET Tx
        OBVIOUS
      <3> QED  BY <1>1, <2>1, <3>1, RemoveStagedTx, RemoveKeepsLinks
    <2>2. CASE t \notin m.tx
      BY <1>1, <2>2
    <2> QED  BY <2>1, <2>2
  <1>11. Exact(y)
    <2>1. CASE t \in m.tx
      <3> DEFINE S == {t}
      <3>1. S \in SUBSET Tx
        OBVIOUS
      <3>2. m.parents[t] = {}
        <4>1. m.parents[t] \in SUBSET Tx
          BY <1>1, PoolFields
        <4>2. ASSUME NEW a \in m.parents[t]
              PROVE  FALSE
          <5>1. a \in Tx /\ a \in m.tx /\ Feeds(a, t)
            BY <1>1, <4>1, <4>2 DEF Links
          <5>2. a \in D \cup Confirmed[p]
            BY <5>1 DEF Feeds
          <5> QED  BY <1>1, <5>1, <5>2
        <4> QED  BY <4>2
      <3>3. \A a \in S : m.parents[a] \subseteq S
        BY <3>2
      <3>4. y = RemoveStaged(m, S, TRUE)
        BY <2>1
      <3>5. Tied(m) /\ Tied(y)
        BY <1>1, <1>3, LinksTied
      <3> HIDE DEF S, y
      <3> QED  BY <1>1, <3>1, <3>3, <3>4, <3>5, RemoveExact
    <2>2. CASE t \notin m.tx
      BY <1>1, <2>2
    <2> QED  BY <2>1, <2>2
  <1> HIDE DEF y
  <1>4. Fed(y, B)
    <2> SUFFICES ASSUME NEW u \in y.tx, NEW o \in Spends[u], o[1] \notin y.tx
                 PROVE  o \in CoinsWith(p, D) \cup Outputs(t)
      BY DEF Fed
    <2>1. u \in m.tx /\ u \in Tx
      BY <1>2, <1>3
    <2>2. o[1] \in m.tx \/ o \in CoinsWith(p, D)
      BY <1>1, <2>1 DEF Fed
    <2>3. o[1] \in m.tx => o[1] = t
      BY <1>3
    <2>4. o \in Outputs(o[1])
      BY <2>1, SpendsTx, OutpointTx
    <2> QED  BY <2>2, <2>3, <2>4
  <1> HIDE DEF B
  <1>5. /\ z \in Pools /\ Links(z, {}, {}) /\ Spent(z) /\ Fed(z, B) /\ Exact(z) /\ z.tx \subseteq y.tx
        /\ \A u \in z.tx : Spends[u] \cap Spends[t] = {}
    <2>1. t \notin y.tx
      BY <1>3
    <2> QED  BY <1>3, <1>4, <1>11, <2>1, ConflictsKeep
  <1> HIDE DEF z
  <1>6. Fed(z, CoinsWith(p, D \cup {t}))
    <2> SUFFICES ASSUME NEW u \in z.tx, NEW o \in Spends[u], o[1] \notin z.tx
                 PROVE  o \in CoinsWith(p, D \cup {t})
      BY DEF Fed
    <2>1. o \in CoinsWith(p, D) \/ o \in Outputs(t)
      BY <1>5 DEF Fed, B
    <2>2. o \notin Spends[t]
      BY <1>5
    <2>3. u \in Tx
      BY <1>2, <1>3, <1>5
    <2>4. o \in Outpoint
      BY <2>3, SpendsTx
    <2>5. CASE o \in CoinsWith(p, D)
      BY <2>2, <2>4, <2>5 DEF CoinsWith
    <2>6. CASE o \in Outputs(t)
      <3>1. o[1] = t
        BY <2>6, OutpointTx
      <3>2. \A w \in D : o \notin Spends[w]
        BY <3>1 DEF Feeds
      <3> QED  BY <2>2, <2>4, <3>1, <3>2 DEF CoinsWith
    <2> QED  BY <2>1, <2>5, <2>6
  <1>7. r \in Pools /\ r.tx = z.tx /\ r.next = z.next /\ r.parents = z.parents /\ r.children = z.children
    BY <1>5, ClearKeeps
  <1>12. Exact(r)
    <2>1. t \notin z.tx
      BY <1>3, <1>5
    <2> QED  BY <1>5, <2>1, ClearExact
  <1> HIDE DEF r
  <1>8. Links(r, {}, {}) /\ Spent(r) /\ Fed(r, CoinsWith(p, D \cup {t}))
    BY <1>5, <1>6, <1>7, SameLinks
  <1>9. r.tx \subseteq m.tx /\ t \notin r.tx
    BY <1>3, <1>5, <1>7
  <1>10. Taking(r, p, D \cup {t})
    BY <1>1, <1>7, <1>8, <1>9, <1>12 DEF Taking
  <1> QED  BY <1>9, <1>10 DEF Take, y, z, r

\* The first n transactions of block b.
First(b, n) == {Vtx[b][i] : i \in 1 .. n}

\* Transaction n of a block is not spent by those before it, nor by itself.
LEMMA FirstFacts ==
    ASSUME NEW b \in Block \ {Genesis}, NEW n \in 1 .. Len(Vtx[b])
    PROVE  /\ First(b, 0) = {}
           /\ First(b, n) = First(b, n - 1) \cup {Vtx[b][n]}
           /\ First(b, n - 1) \in SUBSET Tx
           /\ Vtx[b][n] \in Tx
           /\ First(b, Len(Vtx[b])) = Range(Vtx[b])
           /\ Vtx[b][n] \notin First(b, n - 1) \cup Confirmed[Parent[b]]
           /\ \A w \in First(b, n) : ~Feeds(Vtx[b][n], w)
           /\ \A o \in Spends[Vtx[b][n]] : o[1] \in First(b, n - 1) \cup Confirmed[Parent[b]]
  <1> DEFINE N == Len(Vtx[b])
  <1>1. N \in Nat /\ Vtx[b] \in [1 .. N -> Tx] /\ Range(Vtx[b]) = {Vtx[b][i] : i \in 1 .. N}
    BY VtxSeq
  <1> HIDE DEF N
  <1>2. n \in 1 .. N
    BY DEF N
  <1>3. 1 .. 0 = {} /\ 1 .. n = (1 .. n - 1) \cup {n} /\ 1 .. n - 1 \subseteq 1 .. N /\ n \in Nat
    BY <1>1, <1>2, SMT
  <1>4. First(b, 0) = {} /\ First(b, n) = First(b, n - 1) \cup {Vtx[b][n]}
    BY <1>3 DEF First
  <1>5. First(b, n - 1) \in SUBSET Tx /\ Vtx[b][n] \in Tx
    BY <1>1, <1>2, <1>3 DEF First
  <1>6. First(b, N) = Range(Vtx[b])
    BY <1>1 DEF First
  <1>7. ASSUME NEW i \in 1 .. N
        PROVE  /\ Vtx[b][i] \notin Confirmed[Parent[b]] \cup First(b, i - 1)
               /\ \A o \in Spends[Vtx[b][i]] : o[1] \in Confirmed[Parent[b]] \cup First(b, i - 1)
    <2>1. Before(b, i) = Confirmed[Parent[b]] \cup First(b, i - 1)
      BY BeforeIs DEF First
    <2>2. Vtx[b][i] \notin Before(b, i) /\ \A o \in Spends[Vtx[b][i]] : o[1] \in Before(b, i)
      BY ValidBlocks DEF N
    <2> QED  BY <2>1, <2>2
  <1>8. ASSUME NEW w \in First(b, n), Feeds(Vtx[b][n], w)
        PROVE  FALSE
    <2>1. PICK i \in 1 .. n : w = Vtx[b][i]
      BY DEF First
    <2>2. i \in 1 .. N /\ 1 .. i - 1 \subseteq 1 .. n - 1
      BY <1>1, <1>2, SMT
    <2>3. Vtx[b][n] \in Confirmed[Parent[b]] \cup First(b, i - 1)
      BY <1>7, <1>8, <2>1, <2>2 DEF Feeds
    <2>4. First(b, i - 1) \subseteq First(b, n - 1)
      BY <2>2 DEF First
    <2> QED  BY <1>2, <1>7, <2>3, <2>4
  <1>9. /\ Vtx[b][n] \notin First(b, n - 1) \cup Confirmed[Parent[b]]
        /\ \A o \in Spends[Vtx[b][n]] : o[1] \in First(b, n - 1) \cup Confirmed[Parent[b]]
    BY <1>2, <1>7
  <1> QED  BY <1>4, <1>5, <1>6, <1>8, <1>9 DEF N

\* A block without transactions.
LEMMA VtxEmpty ==
    ASSUME NEW b \in Block, Len(Vtx[b]) = 0
    PROVE  Range(Vtx[b]) = {} /\ First(b, 0) = {}
  <1>1. 1 .. 0 = {}
    BY SMT
  <1> QED  BY <1>1, VtxSeq DEF First

\* The first transactions of a block are none, and in the end all.
LEMMA FirstAll ==
    ASSUME NEW b \in Block \ {Genesis}
    PROVE  First(b, 0) = {} /\ First(b, Len(Vtx[b])) = Range(Vtx[b])
  <1>1. Len(Vtx[b]) \in Nat
    BY VtxSeq
  <1>2. CASE Len(Vtx[b]) = 0
    BY <1>2, VtxEmpty
  <1>3. CASE Len(Vtx[b]) # 0
    <2>1. 1 \in 1 .. Len(Vtx[b])
      BY <1>1, <1>3, SMT
    <2> QED  BY <2>1, FirstFacts
  <1> QED  BY <1>2, <1>3

\* A block that is connected takes its transactions, and what conflicts with
\* them, out of the pool.
LEMMA BlockSound ==
    ASSUME NEW m, NEW b \in Block \ {Genesis}, Sound(m, Parent[b]), NEW lost
    PROVE  Sound(removeForBlock(m, b, lost), b) /\ removeForBlock(m, b, lost).tx \subseteq m.tx
  <1> DEFINE p == Parent[b]
             q == Vtx[b]
             F == [t \in Tx |-> [x \in Pools |-> Take(x, t, lost)]]
             I == [n \in 0 .. Len(q) |-> {x \in Pools : Taking(x, p, First(b, n)) /\ x.tx \subseteq m.tx}]
             r == removeForBlock(m, b, lost)
  <1>1. Len(q) \in Nat /\ q \in [1 .. Len(q) -> Tx]
    BY VtxSeq
  <1>2. p \in Block /\ b \in Block
    BY TreeAssumption
  <1>3. m \in Pools /\ Links(m, {}, {}) /\ Spent(m) /\ Fed(m, Coins[p])
        /\ m.tx \cap (Confirmed[p] \cup CoinBase \cup CoinStake) = {} /\ m.tx \in SUBSET Tx
        /\ Exact(m)
    BY PoolFields DEF Sound
  <1>4. First(b, 0) = {} /\ First(b, Len(q)) = Range(q)
    BY FirstAll
  <1>5. m \in I[0]
    <2>1. 0 \in 0 .. Len(q)
      BY <1>1, SMT
    <2>2. Fed(m, CoinsWith(p, {}))
      BY <1>3, SpendsTx DEF Fed, CoinsWith
    <2>3. Taking(m, p, First(b, 0))
      BY <1>3, <1>4, <2>2 DEF Taking
    <2> HIDE DEF p, q
    <2>4. I[0] = {x \in Pools : Taking(x, p, First(b, 0)) /\ x.tx \subseteq m.tx}
      BY <2>1
    <2> HIDE DEF I
    <2> QED  BY <1>3, <2>3, <2>4
  <1>6. ASSUME NEW n \in 1 .. Len(q), NEW x \in I[n - 1]
        PROVE  F[q[n]][x] \in I[n]
    <2>1. n - 1 \in 0 .. Len(q) /\ n \in 0 .. Len(q)
      BY <1>1, SMT
    <2>2. x \in Pools /\ Taking(x, p, First(b, n - 1)) /\ x.tx \subseteq m.tx
      BY <2>1
    <2> DEFINE t == q[n]
               z == Take(x, t, lost)
    <2>3. First(b, n) = First(b, n - 1) \cup {t} /\ First(b, n - 1) \in SUBSET Tx /\ t \in Tx
          /\ \A w \in First(b, n) : ~Feeds(t, w)
          /\ \A o \in Spends[t] : o[1] \in First(b, n - 1) \cup Confirmed[p]
      BY FirstFacts
    <2> HIDE DEF t, p
    <2>4. Taking(z, p, First(b, n - 1) \cup {t}) /\ z.tx \subseteq x.tx
      BY <1>2, <2>2, <2>3, TakeKeeps, ZenonT(40)
    <2>5. F[t][x] = z
      BY <2>2, <2>3
    <2>6. I[n] = {y \in Pools : Taking(y, p, First(b, n)) /\ y.tx \subseteq m.tx}
      BY <2>1
    <2> HIDE DEF F, I, z
    <2>7. z \in Pools
      BY <2>4 DEF Taking
    <2>8. z \in I[n]
      BY <2>2, <2>3, <2>4, <2>6, <2>7
    <2> QED  BY <2>5, <2>8 DEF t
  <1>7. Run(F, m, q) \in I[Len(q)]
    <2> HIDE DEF F, I, q
    <2> QED  BY <1>1, <1>5, <1>6, RunInduction
  <1>8. Len(q) \in 0 .. Len(q)
    BY <1>1, SMT
  <1>9. r = Run(F, m, q)
    BY DEF removeForBlock
  <1> HIDE DEF F, r, p
  <1>10. Taking(r, p, Range(q)) /\ r.tx \subseteq m.tx
    BY <1>4, <1>7, <1>8, <1>9
  <1>11. Fed(r, Coins[b])
    <2> SUFFICES ASSUME NEW u \in r.tx, NEW o \in Spends[u], o[1] \notin r.tx
                 PROVE  o \in Coins[b]
      BY DEF Fed
    <2>1. o \in CoinsWith(p, Range(q))
      BY <1>10 DEF Taking, Fed
    <2>2. o \in Outpoint /\ (o \in Coins[p] \/ o[1] \in Range(q)) /\ \A w \in Range(q) : o \notin Spends[w]
      BY <2>1 DEF CoinsWith
    <2> QED  BY <2>2, CoinsStep DEF p
  <1>12. Sound(r, b)
    BY <1>10, <1>11, ConfirmedStep DEF Taking, Sound, p
  <1> QED  BY <1>10, <1>12 DEF r

\* ConnectTip for every block from fork to b.
LEMMA ConnectSound ==
    ASSUME NEW m, NEW b \in Block, NEW fork \in Chain[b], Sound(m, fork), NEW lost
    PROVE  Sound(ConnectFrom(m, fork, b, lost), b) /\ ConnectFrom(m, fork, b, lost).tx \subseteq m.tx
  <1> DEFINE h == Height[fork]
             H == Height[b]
             q == [i \in 1 .. H - h |-> BlockAt(b, h + i)]
             F == [a \in Block |-> [x \in Pools |-> removeForBlock(x, a, lost)]]
             I == [n \in 0 .. H - h |-> {x \in Pools : Sound(x, BlockAt(b, h + n)) /\ x.tx \subseteq m.tx}]
  <1>1. fork \in Block /\ h \in Nat /\ H \in Nat /\ h <= H
    BY TreeAssumption, ChainLine DEF Line
  <1>2. \A a \in Chain[b] : a \in Block /\ BlockAt(b, Height[a]) = a
    BY TreeAssumption, AtHeight
  <1>3. \A k \in 1 .. H : BlockAt(b, k) \in Block \ {Genesis} /\ Parent[BlockAt(b, k)] = BlockAt(b, k - 1)
    <2> TAKE k \in 1 .. H
    <2>1. k \in 0 .. H
      BY <1>1, SMT
    <2>2. BlockAt(b, k) \in Chain[b]
      BY <2>1, AtHeight
    <2> QED  BY <1>2, <2>2, AtHeight
  <1> HIDE DEF h, H
  <1>4. H - h \in Nat /\ Len(q) = H - h /\ h + (H - h) = H /\ h + 0 = h /\ 0 \in 0 .. H - h /\ H - h \in 0 .. H - h
    BY <1>1, SMT
  <1>5. \A n \in 1 .. H - h : /\ n \in 0 .. H - h /\ n - 1 \in 0 .. H - h /\ h + n \in 1 .. H
                              /\ h + (n - 1) = (h + n) - 1
    BY <1>1, SMT
  <1>6. \A n \in 1 .. H - h : q[n] = BlockAt(b, h + n)
    OBVIOUS
  <1> HIDE DEF q
  <1>7. m \in I[0]
    <2>1. BlockAt(b, h + 0) = fork
      BY <1>2, <1>4 DEF h
    <2>2. I[0] = {x \in Pools : Sound(x, BlockAt(b, h + 0)) /\ x.tx \subseteq m.tx}
      BY <1>4
    <2> HIDE DEF I
    <2>3. m \in Pools
      BY DEF Sound
    <2> QED  BY <2>1, <2>2, <2>3
  <1>8. ASSUME NEW n \in 1 .. Len(q), NEW x \in I[n - 1]
        PROVE  F[q[n]][x] \in I[n]
    <2>1. n \in 1 .. H - h
      BY <1>4
    <2> DEFINE a == BlockAt(b, h + n)
               z == removeForBlock(x, a, lost)
    <2>2. q[n] = a /\ a \in Block \ {Genesis} /\ Parent[a] = BlockAt(b, (h + n) - 1) /\ h + (n - 1) = (h + n) - 1
      BY <1>3, <1>5, <1>6, <2>1
    <2>3. x \in Pools /\ Sound(x, BlockAt(b, h + (n - 1))) /\ x.tx \subseteq m.tx
      BY <1>5, <2>1
    <2>4. I[n] = {y \in Pools : Sound(y, a) /\ y.tx \subseteq m.tx}
      BY <1>5, <2>1
    <2> HIDE DEF a, I
    <2>5. Sound(x, Parent[a])
      BY <2>2, <2>3
    <2>6. Sound(z, a) /\ z.tx \subseteq x.tx
      BY <2>2, <2>5, BlockSound
    <2>7. F[a][x] = z
      BY <2>2, <2>3
    <2> HIDE DEF F, z
    <2>8. z \in Pools
      BY <2>6 DEF Sound
    <2> QED  BY <2>2, <2>3, <2>4, <2>6, <2>7, <2>8
  <1>9. Run(F, m, q) \in I[H - h]
    <2> HIDE DEF F, I
    <2> QED  BY <1>4, <1>7, <1>8, RunInduction
  <1>10. ConnectFrom(m, fork, b, lost) = Run(F, m, q)
    BY DEF ConnectFrom, q, h, H
  <1> HIDE DEF F
  <1>11. BlockAt(b, h + (H - h)) = b
    <2>1. b \in Chain[b]
      BY ChainLine DEF Line
    <2> QED  BY <1>2, <1>4, <2>1 DEF H
  <1>12. I[H - h] = {x \in Pools : Sound(x, b) /\ x.tx \subseteq m.tx}
    BY <1>4, <1>11
  <1> HIDE DEF I
  <1> QED  BY <1>9, <1>10, <1>12

\* What fits the block after a fits the block after every b that follows it.
LEMMA FitStays ==
    ASSUME NEW m, NEW b \in Block, NEW a \in Chain[b], Sound(m, a), Fit(m, a)
    PROVE  Fit(m, b)
  <1>1. a \in Block /\ Height[a] \in Nat /\ Height[b] \in Nat /\ Height[a] <= Height[b]
    BY TreeAssumption, ChainLine DEF Line
  <1>2. m.tx \in SUBSET Tx /\ m.tx \cap CoinBase = {} /\ Fed(m, Coins[a])
    BY PoolFields DEF Sound
  <1>3. ASSUME NEW t \in m.tx, NEW o \in Spends[t], o[1] \in CoinBase
        PROVE  Mature(o, b)
    <2>1. o \in Coins[a] /\ Mature(o, a) /\ o \in Outpoint
      BY <1>2, <1>3, SpendsTx DEF Fed, Fit
    <2>2. o[1] \in Confirmed[a]
      BY <1>1, <2>1, CoinsAre
    <2> QED  BY <2>1, <2>2, MatureStays
  <1>4. ASSUME NEW t \in m.tx
        PROVE  Lock[t] <= Height[b] + 1
    <2>1. Lock[t] <= Height[a] + 1 /\ Lock[t] \in Nat
      BY <1>2, TxAssumption DEF Fit
    <2> QED  BY <1>1, <2>1, SMT
  <1> QED  BY <1>3, <1>4 DEF Fit

-----------------------------------------------------------------------------
(* A block is disconnected.                                                *)

\* The pool and the transactions that are back in it, once the first n of
\* block b have been tried.
Back(x, b, n) ==
    /\ x \in [m : Pools, v : Seq(Tx)]
    /\ Range(x.v) \subseteq First(b, n) /\ x.m.tx \cap Range(Vtx[b]) = Range(x.v)
    /\ x.m.tx \cap (Confirmed[Parent[b]] \cup CoinBase \cup CoinStake) = {}
    /\ Links(x.m, Range(x.v), Range(x.v)) /\ Spent(x.m) /\ Exact(x.m) /\ Ordered(x.v)
    /\ Fed(x.m, Coins[Parent[b]] \cup {o \in Outpoint : o[1] \in Range(Vtx[b]) \ First(b, n)})

\* Appending t adds it to the range.
LEMMA RangeAppend ==
    ASSUME NEW v \in Seq(Tx), NEW t \in Tx
    PROVE  Append(v, t) \in Seq(Tx) /\ Range(Append(v, t)) = Range(v) \cup {t}
  <1> DEFINE w == Append(v, t)
             L == Len(v)
  <1>1. L \in Nat /\ w \in Seq(Tx) /\ Len(w) = L + 1 /\ w[L + 1] = t /\ \A i \in 1 .. L : w[i] = v[i]
    BY SMT
  <1>2. DOMAIN v = 1 .. L /\ DOMAIN w = 1 .. L + 1
    BY SMT
  <1> HIDE DEF w, L
  <1>3. 1 .. L + 1 = (1 .. L) \cup {L + 1}
    BY <1>1, SMT
  <1> QED  BY <1>1, <1>2, <1>3, SMT DEF Range, w

\* What spends none of v may be appended to it.
LEMMA OrderedAppend ==
    ASSUME NEW v \in Seq(Tx), NEW t \in Tx, Ordered(v), t \notin Range(v), \A u \in Range(v) \cup {t} : ~Feeds(t, u)
    PROVE  Ordered(Append(v, t))
  <1> DEFINE w == Append(v, t)
             L == Len(v)
  <1>1. L \in Nat /\ Len(w) = L + 1 /\ w[L + 1] = t /\ \A i \in 1 .. L : w[i] = v[i]
    BY SMT
  <1>2. DOMAIN v = 1 .. L
    BY SMT
  <1> HIDE DEF w
  <1>3. \A i \in 1 .. L : v[i] \in Range(v)
    BY <1>2 DEF Range
  <1>4. \A i \in 1 .. L : \A j \in 1 .. L : (v[i] = v[j] => i = j) /\ (i <= j => ~Feeds(v[j], v[i]))
    BY DEF Ordered
  <1> HIDE DEF L
  <1>5. ASSUME NEW i \in 1 .. L + 1, NEW j \in 1 .. L + 1
        PROVE  (w[i] = w[j] => i = j) /\ (i <= j => ~Feeds(w[j], w[i]))
    <2>1. CASE i # L + 1 /\ j # L + 1
      <3>1. i \in 1 .. L /\ j \in 1 .. L
        BY <1>1, <2>1, SMT
      <3> QED  BY <1>1, <1>4, <3>1
    <2>2. CASE i = L + 1 /\ j = L + 1
      BY <1>1, <2>2
    <2>3. CASE i # L + 1 /\ j = L + 1
      <3>1. i \in 1 .. L
        BY <1>1, <2>3, SMT
      <3> QED  BY <1>1, <1>3, <2>3, <3>1
    <2>4. CASE i = L + 1 /\ j # L + 1
      <3>1. j \in 1 .. L /\ ~(i <= j)
        BY <1>1, <2>4, SMT
      <3> QED  BY <1>1, <1>3, <2>4, <3>1
    <2> QED  BY <2>1, <2>2, <2>3, <2>4
  <1> QED  BY <1>1, <1>5 DEF Ordered, w

\* One of them is tried again.
LEMMA ResurrectKeeps ==
    ASSUME NEW b \in Block \ {Genesis}, NEW n \in 1 .. Len(Vtx[b]), NEW x, Back(x, b, n - 1), NEW refused
    PROVE  Back(Resurrect(x, Vtx[b][n], b, refused), b, n)
  <1> DEFINE t == Vtx[b][n]
             D == First(b, n - 1)
             p == Parent[b]
             W == Range(Vtx[b])
             V == Range(x.v)
             A == Coins[p] \cup {o \in Outpoint : o[1] \in W \ First(b, n)}
             B == Coins[p] \cup {o \in Outpoint : o[1] \in W \ D}
             r == Resurrect(x, t, b, refused)
  <1>1. /\ x.m \in Pools /\ x.v \in Seq(Tx) /\ V \subseteq D /\ x.m.tx \cap W = V
        /\ x.m.tx \cap (Confirmed[p] \cup CoinBase \cup CoinStake) = {}
        /\ Links(x.m, V, V) /\ Spent(x.m) /\ Fed(x.m, B) /\ Exact(x.m) /\ Ordered(x.v)
    BY DEF Back
  <1>2. /\ First(b, n) = D \cup {t} /\ D \in SUBSET Tx /\ t \in Tx
        /\ t \notin D \cup Confirmed[p] /\ \A w \in D \cup {t} : ~Feeds(t, w)
    BY FirstFacts
  <1>3. t \in W /\ D \subseteq W /\ p \in Block /\ b \in Block
    <2>1. W = {Vtx[b][i] : i \in 1 .. Len(Vtx[b])} /\ Len(Vtx[b]) \in Nat
      BY VtxSeq
    <2>2. 1 .. n - 1 \subseteq 1 .. Len(Vtx[b])
      BY <2>1, SMT
    <2> QED  BY <2>1, <2>2, TreeAssumption DEF First
  <1>4. \A w \in W : \A o \in Spends[w] : o[1] \in W \cup Confirmed[p]
    BY <1>3, ConfirmedStep, SpendsConfirmed
  <1>5. x.m.tx \in SUBSET Tx /\ t \notin x.m.tx /\ t \notin V
    BY <1>1, <1>2, <1>3, PoolFields
  <1>6. ASSUME NEW m, Fed(m, B), m.tx \in SUBSET Tx, t \in m.tx \/ \A u \in m.tx : ~Feeds(t, u)
        PROVE  Fed(m, A)
    <2> SUFFICES ASSUME NEW u \in m.tx, NEW o \in Spends[u], o[1] \notin m.tx
                 PROVE  o \in A
      BY DEF Fed
    <2>1. o \in B /\ o[1] # t
      BY <1>6 DEF Fed, Feeds
    <2> QED  BY <1>2, <2>1
  <1> HIDE DEF A, B, D, p, W, V, t
  <1>7. CASE t \notin refused /\ Acceptable(x.m, t, Parent[b], Height[b])
    <2> DEFINE y == addUnchecked(x.m, t)
               v == Append(x.v, t)
    <2>1. r = [m |-> y, v |-> v]
      BY <1>7 DEF Resurrect
    <2>2. /\ t \notin CoinBase \cup CoinStake /\ NoConflict(x.m, t)
          /\ \A o \in Spends[t] : o[1] \in x.m.tx \/ o \in Coins[p]
      BY <1>7 DEF Acceptable, Loose, p
    <2>3. v \in Seq(Tx) /\ Range(v) = V \cup {t}
      BY <1>1, <1>2, RangeAppend DEF V
    <2>4. y \in Pools /\ y.tx = x.m.tx \cup {t}
      BY <1>1, <1>2, AddIs
    <2>5. Links(y, V \cup {t}, V \cup {t}) /\ Spent(y)
      <3>1. ~Feeds(t, t) /\ \A u \in x.m.tx : u \in V => ~Feeds(t, u)
        BY <1>1, <1>2
      <3> QED  BY <1>1, <1>2, <1>5, <2>2, <3>1, AddLinks
    <2>6. Fed(y, B)
      <3>1. \A o \in Spends[t] : o[1] \in x.m.tx \/ o \in B
        BY <2>2 DEF B
      <3> QED  BY <1>1, <1>2, <3>1, AddFed
    <2>10. Exact(y)
      <3>1. Tied(x.m) /\ Tied(y)
        BY <1>1, <2>5, LinksTied
      <3> QED  BY <1>1, <1>2, <1>5, <3>1, AddExact
    <2>11. Ordered(v)
      <3>1. t \notin Range(x.v) /\ \A u \in Range(x.v) \cup {t} : ~Feeds(t, u)
        BY <1>1, <1>2, <1>5 DEF V
      <3> QED  BY <1>1, <1>2, <3>1, OrderedAppend
    <2> HIDE DEF y, v
    <2>7. Fed(y, A)
      <3>1. y.tx \in SUBSET Tx /\ t \in y.tx
        BY <1>2, <1>5, <2>4
      <3> QED  BY <1>6, <2>6, <3>1
    <2>8. r \in [m : Pools, v : Seq(Tx)] /\ r.m = y /\ r.v = v
      BY <2>1, <2>3, <2>4, SMT
    <2> HIDE DEF r
    <2>9. V \cup {t} \subseteq First(b, n) /\ y.tx \cap W = V \cup {t}
          /\ y.tx \cap (Confirmed[p] \cup CoinBase \cup CoinStake) = {}
      BY <1>1, <1>2, <1>3, <2>2, <2>4
    <2> QED  BY <2>3, <2>5, <2>7, <2>8, <2>9, <2>10, <2>11 DEF Back, A, W, p, r, t
  <1>8. CASE ~(t \notin refused /\ Acceptable(x.m, t, Parent[b], Height[b]))
    <2> DEFINE y == removeRecursive(x.m, t)
               S == CalculateDescendants(x.m, Roots(x.m, t))
    <2>1. r = [m |-> y, v |-> x.v]
      BY <1>8 DEF Resurrect
    <2>2. S \cap V = {}
      <3> DEFINE C == Tx \ V
      <3>1. Roots(x.m, t) \subseteq C
        <4>1. Roots(x.m, t) \in SUBSET Tx /\ \A u \in Roots(x.m, t) : u = t \/ Feeds(t, u)
          BY <1>1, <1>2, RootsAre
        <4> QED  BY <1>1, <1>2, <1>5, <4>1
      <3>2. ASSUME NEW q \in C, NEW u \in x.m.children[q]
            PROVE  u \in C
        <4>1. q \in Tx /\ q \notin V
          OBVIOUS
        <4>2. x.m.children[q] \in SUBSET Tx
          BY <1>1, <4>1, PoolFields
        <4>3. u \in Tx
          BY <3>2, <4>2
        <4>4. q \in x.m.tx /\ Feeds(q, u)
          BY <1>1, <3>2, <4>1, <4>3 DEF Links
        <4>5. ASSUME u \in V
              PROVE  FALSE
          <5>1. q \in W \cup Confirmed[p]
            BY <1>1, <1>3, <1>4, <4>4, <4>5 DEF Feeds
          <5> QED  BY <1>1, <4>1, <4>4, <5>1
        <4> QED  BY <4>3, <4>5
      <3>3. C \in SUBSET Tx /\ C \cap V = {}
        OBVIOUS
      <3> HIDE DEF C
      <3>4. Roots(x.m, t) \in SUBSET Tx
        BY <3>1, <3>3
      <3>5. S \subseteq C
        BY <1>1, <3>1, <3>2, <3>3, <3>4, Descendants, SMT
      <3> QED  BY <3>3, <3>5
    <2>3. /\ y \in Pools /\ Links(y, V, V) /\ Spent(y) /\ y.tx = x.m.tx \ S /\ Fed(y, B) /\ Exact(y)
          /\ \A u \in y.tx : ~Feeds(t, u)
      BY <1>1, <1>2, <1>5, <2>2, RemoveRecursiveKeeps
    <2> HIDE DEF y, S
    <2>4. Fed(y, A)
      <3>1. y.tx \in SUBSET Tx
        BY <1>5, <2>3
      <3> QED  BY <1>6, <2>3, <3>1
    <2>5. r \in [m : Pools, v : Seq(Tx)] /\ r.m = y /\ r.v = x.v
      BY <1>1, <2>1, <2>3, SMT
    <2> HIDE DEF r
    <2>6. V \subseteq First(b, n) /\ y.tx \cap W = V /\ y.tx \cap (Confirmed[p] \cup CoinBase \cup CoinStake) = {}
      BY <1>1, <1>2, <2>2, <2>3
    <2>7. Ordered(r.v) /\ Range(r.v) = V
      BY <1>1, <2>5 DEF V
    <2>8. r.m = y /\ y \in Pools /\ Links(y, V, V) /\ Spent(y) /\ Exact(y)
      BY <2>3, <2>5
    <2>9. Back(r, b, n)
      BY <2>4, <2>5, <2>6, <2>7, <2>8 DEF Back, A, W, p
    <2> QED  BY <2>9 DEF r, t
  <1> QED  BY <1>7, <1>8

\* DisconnectTip: the pool is that of the parent.
LEMMA DisconnectSound ==
    ASSUME NEW m, NEW b \in Block \ {Genesis}, Sound(m, b), NEW refused
    PROVE  Sound(DisconnectTip(m, b, refused), Parent[b])
  <1> DEFINE p == Parent[b]
             q == Vtx[b]
             X == [m : Pools, v : Seq(Tx)]
             F == [t \in Tx |-> [x \in X |-> Resurrect(x, t, b, refused)]]
             x0 == [m |-> m, v |-> <<>>]
             I == [n \in 0 .. Len(q) |-> {x \in X : Back(x, b, n)}]
  <1>1. Len(q) \in Nat /\ q \in [1 .. Len(q) -> Tx] /\ p \in Block /\ b \in Block
    BY VtxSeq, TreeAssumption
  <1>2. First(b, 0) = {} /\ First(b, Len(q)) = Range(q)
    BY FirstAll
  <1>3. Confirmed[b] = Confirmed[p] \cup Range(q)
    BY ConfirmedStep
  <1>4. x0 \in I[0]
    <2>1. m \in Pools /\ Links(m, {}, {}) /\ Spent(m) /\ Fed(m, Coins[b]) /\ Exact(m)
          /\ m.tx \cap (Confirmed[b] \cup CoinBase \cup CoinStake) = {} /\ m.tx \in SUBSET Tx
      BY PoolFields DEF Sound
    <2>2. x0 \in X /\ x0.m = m /\ x0.v = <<>>
      BY <2>1, SMT
    <2>3. Range(<<>>) = {}
      <3>1. DOMAIN <<>> = {}
        BY SMT
      <3> QED  BY <3>1 DEF Range
    <2>4. Fed(m, Coins[p] \cup {o \in Outpoint : o[1] \in Range(q) \ First(b, 0)})
      <3> SUFFICES ASSUME NEW u \in m.tx, NEW o \in Spends[u], o[1] \notin m.tx
                   PROVE  o \in Coins[p] \cup {w \in Outpoint : w[1] \in Range(q) \ First(b, 0)}
        BY DEF Fed
      <3>1. o \in Coins[b] /\ o \in Outpoint
        BY <2>1, SpendsTx DEF Fed
      <3>2. o \in Coins[p] \/ o[1] \in Range(q)
        BY <3>1, CoinsStep
      <3> QED  BY <1>2, <3>1, <3>2
    <2>5. 0 \in 0 .. Len(q)
      BY <1>1, SMT
    <2>7. Ordered(<<>>)
      <3>1. 1 .. Len(<<>>) = {}
        BY SMT
      <3> QED  BY <3>1 DEF Ordered
    <2> HIDE DEF x0
    <2>6. Back(x0, b, 0)
      BY <1>2, <1>3, <2>1, <2>2, <2>3, <2>4, <2>7 DEF Back
    <2> QED  BY <2>2, <2>5, <2>6
  <1>5. ASSUME NEW n \in 1 .. Len(q), NEW x \in I[n - 1]
        PROVE  F[q[n]][x] \in I[n]
    <2>1. n - 1 \in 0 .. Len(q) /\ n \in 0 .. Len(q)
      BY <1>1, SMT
    <2>2. x \in X /\ Back(x, b, n - 1)
      BY <2>1
    <2> DEFINE z == Resurrect(x, q[n], b, refused)
    <2>3. Back(z, b, n)
      BY <2>2, ResurrectKeeps
    <2>4. F[q[n]][x] = z
      BY <1>1, <2>2
    <2> HIDE DEF F, z
    <2>5. z \in X
      BY <2>3 DEF Back
    <2> QED  BY <2>1, <2>3, <2>4, <2>5
  <1> DEFINE r == Run(F, x0, q)
  <1>6. r \in I[Len(q)]
    <2> HIDE DEF F, I, x0, q
    <2> QED  BY <1>1, <1>4, <1>5, RunInduction
  <1>7. DisconnectTip(m, b, refused) = UpdateTransactionsFromBlock(r.m, r.v)
    BY DEF DisconnectTip
  <1> HIDE DEF r
  <1>8. Back(r, b, Len(q))
    <2>1. Len(q) \in 0 .. Len(q)
      BY <1>1, SMT
    <2> QED  BY <1>6, <2>1
  <1> DEFINE z == UpdateTransactionsFromBlock(r.m, r.v)
  <1>9. /\ r.m \in Pools /\ r.v \in Seq(Tx) /\ Range(r.v) \subseteq r.m.tx
        /\ r.m.tx \cap (Confirmed[p] \cup CoinBase \cup CoinStake) = {}
        /\ Links(r.m, Range(r.v), Range(r.v)) /\ Spent(r.m) /\ Exact(r.m) /\ Ordered(r.v)
        /\ r.m.tx \cap Range(q) = Range(r.v)
        /\ Fed(r.m, Coins[p] \cup {o \in Outpoint : o[1] \in Range(q) \ First(b, Len(q))})
    BY <1>8 DEF Back
  <1>12. \A c \in Range(r.v) : \A a \in r.m.tx : Feeds(a, c) => a \in Range(r.v)
    <2> SUFFICES ASSUME NEW c \in Range(r.v), NEW a \in r.m.tx, Feeds(a, c)
                 PROVE  a \in Range(r.v)
      OBVIOUS
    <2>1. c \in Confirmed[b]
      BY <1>3, <1>9
    <2>2. a \in Confirmed[b]
      BY <1>1, <2>1, SpendsConfirmed DEF Feeds
    <2> QED  BY <1>3, <1>9, <2>2
  <1>10. z \in Pools /\ z.tx = r.m.tx /\ Links(z, {}, {}) /\ Spent(z) /\ Exact(z)
    BY <1>9, <1>12, UpdateFromBlockKeeps
  <1> HIDE DEF z
  <1>11. Fed(z, Coins[p])
    BY <1>2, <1>9, <1>10 DEF Fed
  <1> QED  BY <1>7, <1>9, <1>10, <1>11 DEF Sound, z

\* From b down to one of its ancestors.
LEMMA DisconnectToSound ==
    ASSUME NEW m, NEW b \in Block, NEW fork \in Chain[b], Sound(m, b), NEW refused
    PROVE  Sound(DisconnectTo(m, b, fork, refused), fork)
  <1> DEFINE h == Height[fork]
             H == Height[b]
             q == [i \in 1 .. H - h |-> BlockAt(b, H + 1 - i)]
             F == [a \in Block |-> [x \in Pools |-> DisconnectTip(x, a, refused)]]
             I == [n \in 0 .. H - h |-> {x \in Pools : Sound(x, BlockAt(b, H - n))}]
  <1>1. fork \in Block /\ h \in Nat /\ H \in Nat /\ h <= H
    BY TreeAssumption, ChainLine DEF Line
  <1>2. \A a \in Chain[b] : a \in Block /\ BlockAt(b, Height[a]) = a
    BY TreeAssumption, AtHeight
  <1>3. \A k \in 1 .. H : BlockAt(b, k) \in Block \ {Genesis} /\ Parent[BlockAt(b, k)] = BlockAt(b, k - 1)
    <2> TAKE k \in 1 .. H
    <2>1. k \in 0 .. H
      BY <1>1, SMT
    <2>2. BlockAt(b, k) \in Chain[b]
      BY <2>1, AtHeight
    <2> QED  BY <1>2, <2>2, AtHeight
  <1> HIDE DEF h, H
  <1>4. H - h \in Nat /\ Len(q) = H - h /\ H - (H - h) = h /\ H - 0 = H /\ 0 \in 0 .. H - h /\ H - h \in 0 .. H - h
    BY <1>1, SMT
  <1>5. \A n \in 1 .. H - h : /\ n \in 0 .. H - h /\ n - 1 \in 0 .. H - h /\ H + 1 - n \in 1 .. H
                              /\ H - (n - 1) = H + 1 - n /\ H - n = (H + 1 - n) - 1
    BY <1>1, SMT
  <1>6. \A n \in 1 .. H - h : q[n] = BlockAt(b, H + 1 - n)
    OBVIOUS
  <1> HIDE DEF q
  <1>7. m \in I[0]
    <2>1. b \in Chain[b]
      BY ChainLine DEF Line
    <2>2. BlockAt(b, H - 0) = b
      BY <1>2, <1>4, <2>1 DEF H
    <2>3. I[0] = {x \in Pools : Sound(x, BlockAt(b, H - 0))}
      BY <1>4
    <2> HIDE DEF I
    <2>4. m \in Pools
      BY DEF Sound
    <2> QED  BY <2>2, <2>3, <2>4
  <1>8. ASSUME NEW n \in 1 .. Len(q), NEW x \in I[n - 1]
        PROVE  F[q[n]][x] \in I[n]
    <2>1. n \in 1 .. H - h
      BY <1>4
    <2> DEFINE a == BlockAt(b, H + 1 - n)
               z == DisconnectTip(x, a, refused)
    <2>2. /\ q[n] = a /\ a \in Block \ {Genesis} /\ Parent[a] = BlockAt(b, (H + 1 - n) - 1)
          /\ H - (n - 1) = H + 1 - n /\ H - n = (H + 1 - n) - 1
      BY <1>3, <1>5, <1>6, <2>1
    <2>3. x \in Pools /\ Sound(x, BlockAt(b, H - (n - 1)))
      BY <1>5, <2>1
    <2>4. I[n] = {y \in Pools : Sound(y, BlockAt(b, H - n))}
      BY <1>5, <2>1
    <2>5. Sound(x, a)
      BY <2>2, <2>3
    <2> HIDE DEF a, I
    <2>6. Sound(z, Parent[a])
      BY <2>2, <2>5, DisconnectSound
    <2>7. F[a][x] = z
      BY <2>2, <2>3
    <2> HIDE DEF F, z
    <2>8. z \in Pools /\ Sound(z, BlockAt(b, H - n))
      BY <2>2, <2>6 DEF Sound
    <2> QED  BY <2>2, <2>4, <2>7, <2>8
  <1>9. Run(F, m, q) \in I[H - h]
    <2> HIDE DEF F, I
    <2> QED  BY <1>4, <1>7, <1>8, RunInduction
  <1>10. DisconnectTo(m, b, fork, refused) = Run(F, m, q)
    BY DEF DisconnectTo, q, h, H
  <1> HIDE DEF F
  <1>11. BlockAt(b, H - (H - h)) = fork
    BY <1>2, <1>4 DEF h
  <1>12. I[H - h] = {x \in Pools : Sound(x, fork)}
    BY <1>4, <1>11
  <1> HIDE DEF I
  <1> QED  BY <1>9, <1>10, <1>12

\* Nothing is disconnected when the chain does not leave b.
LEMMA DisconnectNone ==
    ASSUME NEW m, NEW b \in Block, NEW refused
    PROVE  DisconnectTo(m, b, b, refused) = m
  <1> DEFINE H == Height[b]
             q == [i \in 1 .. H - H |-> BlockAt(b, H + 1 - i)]
             F == [a \in Block |-> [x \in Pools |-> DisconnectTip(x, a, refused)]]
             I == [n \in 0 .. 0 |-> {m}]
  <1>1. H \in Nat
    BY TreeAssumption
  <1> HIDE DEF H
  <1>2. Len(q) = 0 /\ 0 \in 0 .. 0 /\ 1 .. 0 = {} /\ 0 \in Nat
    BY <1>1, SMT
  <1> HIDE DEF q, F
  <1>3. m \in I[0] /\ I[0] = {m}
    BY <1>2
  <1>4. \A n \in 1 .. Len(q) : \A y \in I[n - 1] : F[q[n]][y] \in I[n]
    BY <1>2
  <1> HIDE DEF I
  <1>5. Run(F, m, q) \in I[Len(q)]
    BY <1>2, <1>3, <1>4, RunInduction
  <1> QED  BY <1>2, <1>3, <1>5 DEF DisconnectTo, q, F, H

-----------------------------------------------------------------------------
(* Calls.                                                                  *)

\* The inductive invariant.
PoolInv == tip \in Block /\ Sound(pool, tip) /\ Fit(pool, tip)

\* One step of the chain, to new.
LEMMA ActivateKeeps ==
    ASSUME PoolInv, NEW target \in Block, NEW new \in Block, NEW refused, NEW lost,
           ActivateBestChainStep(target, new, refused, lost)
    PROVE  /\ tip' = new
           /\ Sound(pool', new)
           /\ Fit(pool', new)
           /\ pool'.tx \subseteq pool.tx \/ DynamicMemoryUsage(pool') <= sizelimit
  <1> DEFINE fork == Fork(tip, target)
             x    == DisconnectTo(pool, tip, fork, refused)
             m    == ConnectFrom(x, fork, new, lost)
  <1>1. /\ new \in {fork} \cup (Chain[target] \ Chain[fork]) /\ tip' = new
        /\ pool' \in IF fork = tip THEN {m} ELSE LimitMempoolSize(removeForReorg(m, new), {})
    BY DEF ActivateBestChainStep
  <1>2. tip \in Block /\ Sound(pool, tip) /\ Fit(pool, tip)
    BY DEF PoolInv
  <1>3. fork \in Chain[tip] /\ fork \in Chain[target] /\ fork \in Block
    BY <1>2, ForkIs, TreeAssumption
  <1> HIDE DEF fork
  <1>4. fork \in Chain[new]
    <2>1. CASE new = fork
      BY <1>3, <2>1, ChainLine DEF Line
    <2>2. CASE new # fork
      <3>1. new \in Chain[target] /\ new \notin Chain[fork]
        BY <1>1, <2>2
      <3>2. Height[fork] \in Nat /\ Height[new] \in Nat
        BY <1>3, TreeAssumption
      <3>3. Height[fork] <= Height[new] \/ Height[new] <= Height[fork]
        BY <3>2, SMT
      <3> QED  BY <1>3, <3>1, <3>3, ChainLine DEF Line
    <2> QED  BY <2>1, <2>2
  <1>5. Sound(x, fork)
    BY <1>2, <1>3, DisconnectToSound
  <1>6. Sound(m, new) /\ m.tx \subseteq x.tx
    BY <1>4, <1>5, ConnectSound
  <1>7. CASE fork = tip
    <2>1. x = pool
      BY <1>2, <1>7, DisconnectNone
    <2> HIDE DEF x, m
    <2>2. pool' = m
      BY <1>1, <1>7
    <2>3. Fit(pool, new)
      BY <1>2, <1>4, <1>7, FitStays
    <2>4. Fit(m, new)
      BY <1>6, <2>1, <2>3, FitLess
    <2> QED  BY <1>1, <1>6, <2>1, <2>2, <2>4
  <1>8. CASE fork # tip
    <2> HIDE DEF x, m
    <2> DEFINE y == removeForReorg(m, new)
    <2>1. pool' \in LimitMempoolSize(y, {})
      BY <1>1, <1>8
    <2>2. Sound(y, new) /\ Fit(y, new)
      BY <1>6, ReorgFit
    <2> HIDE DEF y
    <2>3. Sound(pool', new) /\ pool'.tx \subseteq y.tx /\ DynamicMemoryUsage(pool') <= sizelimit
      BY <2>1, <2>2, LimitSound
    <2> QED  BY <1>1, <2>2, <2>3, FitLess
  <1> QED  BY <1>7, <1>8

\* invalidateblock.
LEMMA InvalidateKeeps ==
    ASSUME PoolInv, NEW b \in Block, NEW refused, InvalidateBlock(b, refused)
    PROVE  /\ tip' \in Block
           /\ Sound(pool', tip')
           /\ Fit(pool', tip')
           /\ \E m \in Pools : pool'.tx \subseteq m.tx /\ DynamicMemoryUsage(m) <= sizelimit
  <1> DEFINE new == Parent[b]
             x   == DisconnectTo(pool, tip, new, refused)
  <1>1. /\ b \in Chain[tip] \ {Genesis} /\ tip' = new
        /\ pool' \in {removeForReorg(m, new) : m \in LimitMempoolSize(x, {})}
    BY DEF InvalidateBlock
  <1>2. tip \in Block /\ Sound(pool, tip)
    BY DEF PoolInv
  <1>3. new \in Chain[tip] /\ new \in Block
    BY <1>1, <1>2, ChainLine, TreeAssumption DEF Line
  <1> HIDE DEF new
  <1>4. Sound(x, new)
    BY <1>2, <1>3, DisconnectToSound
  <1> HIDE DEF x
  <1>5. PICK m \in LimitMempoolSize(x, {}) : pool' = removeForReorg(m, new)
    BY <1>1
  <1>6. Sound(m, new) /\ DynamicMemoryUsage(m) <= sizelimit
    BY <1>4, LimitSound
  <1>7. Sound(pool', new) /\ Fit(pool', new) /\ pool'.tx \subseteq m.tx
    BY <1>3, <1>5, <1>6, ReorgFit
  <1>8. m \in Pools
    BY <1>6 DEF Sound
  <1> QED  BY <1>1, <1>3, <1>6, <1>7, <1>8

\* AcceptToMemoryPool, and what it trims.
LEMMA AcceptKeeps ==
    ASSUME PoolInv, NEW t \in Tx, AcceptToMemoryPool(t)
    PROVE  tip' = tip /\ Sound(pool', tip) /\ Fit(pool', tip) /\ DynamicMemoryUsage(pool') <= sizelimit
  <1> DEFINE y == addUnchecked(pool, t)
  <1>1. Acceptable(pool, t, tip, Height[tip]) /\ pool' \in LimitMempoolSize(y, {t}) /\ tip' = tip
    BY DEF AcceptToMemoryPool
  <1>2. Sound(y, tip) /\ Fit(y, tip)
    BY <1>1, AcceptSound DEF PoolInv
  <1> HIDE DEF y
  <1>3. Sound(pool', tip) /\ pool'.tx \subseteq y.tx /\ DynamicMemoryUsage(pool') <= sizelimit
    BY <1>1, <1>2, LimitSound
  <1> QED  BY <1>1, <1>2, <1>3, FitLess

\* prioritisetransaction leaves a sound pool sound.
LEMMA PrioritiseSound ==
    ASSUME PoolInv, NEW t \in Prioritised, NEW d \in Delta, PrioritiseTransaction(t, d)
    PROVE  tip' = tip /\ Sound(pool', tip) /\ Fit(pool', tip) /\ pool'.tx = pool.tx
  <1>1. t \in Tx /\ d \in Int
    BY TxAssumption
  <1>2. tip \in Block /\ Sound(pool, tip) /\ Fit(pool, tip) /\ pool \in Pools
    BY DEF PoolInv, Sound
  <1>3. /\ pool' \in Pools /\ pool'.tx = pool.tx /\ pool'.next = pool.next
        /\ pool'.parents = pool.parents /\ pool'.children = pool.children /\ Exact(pool')
    <2>1. Tied(pool) /\ Exact(pool)
      BY <1>2, LinksTied DEF Sound
    <2> QED  BY <1>1, <1>2, <2>1, PrioritiseKeeps
  <1>4. tip' = tip
    BY DEF PrioritiseTransaction
  <1>5. Links(pool', {}, {}) /\ Spent(pool') /\ Fed(pool', Coins[tip])
    BY <1>2, <1>3, SameLinks DEF Sound
  <1> QED  BY <1>2, <1>3, <1>4, <1>5, FitLess DEF Sound

-----------------------------------------------------------------------------
(* The invariants.                                                         *)

\* The empty pool.
LEMMA InitPool == Init => PoolInv /\ PoolBounded
  <1> SUFFICES ASSUME Init
               PROVE  PoolInv /\ PoolBounded
    OBVIOUS
  <1>1. tip = Genesis /\ pool = Empty /\ Genesis \in Block
    BY TreeAssumption DEF Init
  <1>2. pool.tx = {} /\ pool \in Pools
    <2>1. Nothing \in Totals
      BY TotalsType
    <2> QED  BY <1>1, <2>1, SMT DEF Empty, Pools
  <1>3. /\ \A t \in Tx : pool.parents[t] = {} /\ pool.children[t] = {}
        /\ \A o \in Outpoint : pool.next[o] = NoTx
    BY <1>1 DEF Empty
  <1>4. Links(pool, {}, {}) /\ Spent(pool) /\ Fed(pool, Coins[tip]) /\ Fit(pool, tip)
    BY <1>2, <1>3 DEF Links, Spent, Fed, Fit
  <1>7. \A t \in Tx : pool.desc[t] = Nothing /\ pool.anc[t] = Nothing
    BY <1>1 DEF Empty
  <1>8. Exact(pool)
    BY <1>2, <1>7 DEF Exact
  <1>5. PoolInv
    BY <1>1, <1>2, <1>4, <1>8 DEF PoolInv, Sound
  <1>6. PoolBounded
    <2>1. Size \in [Tx -> Int]
      BY TxAssumption, SMT
    <2>2. SumOver(Size, {}) = 0
      BY <2>1, SumAdd
    <2>3. 0 <= sizelimit
      BY TxAssumption, SMT
    <2> QED  BY <1>2, <2>2, <2>3 DEF PoolBounded, DynamicMemoryUsage
  <1> QED  BY <1>5, <1>6

\* Every step keeps the invariant, and leaves no more than there was or than
\* the limit allows.
LEMMA NextPool ==
    ASSUME PoolInv, [Next]_vars
    PROVE  /\ PoolInv'
           /\ \/ pool'.tx \subseteq pool.tx
              \/ \E m \in Pools : pool'.tx \subseteq m.tx /\ DynamicMemoryUsage(m) <= sizelimit
  <1>1. ASSUME tip' \in Block, Sound(pool', tip'), Fit(pool', tip')
        PROVE  PoolInv' /\ pool' \in Pools
    BY <1>1 DEF PoolInv, Sound
  <1>2. tip \in Block
    BY DEF PoolInv
  <1>3. ASSUME NEW t \in Tx, AcceptToMemoryPool(t)
        PROVE  /\ PoolInv'
               /\ \E m \in Pools : pool'.tx \subseteq m.tx /\ DynamicMemoryUsage(m) <= sizelimit
    BY <1>1, <1>2, <1>3, AcceptKeeps
  <1>4. ASSUME NEW t \in Prioritised, NEW d \in Delta, PrioritiseTransaction(t, d)
        PROVE  PoolInv' /\ pool'.tx \subseteq pool.tx
    BY <1>1, <1>2, <1>4, PrioritiseSound
  <1>5. ASSUME NEW target \in Block, NEW new \in Block, NEW refused, NEW lost,
               ActivateBestChainStep(target, new, refused, lost)
        PROVE  /\ PoolInv'
               /\ \/ pool'.tx \subseteq pool.tx
                  \/ \E m \in Pools : pool'.tx \subseteq m.tx /\ DynamicMemoryUsage(m) <= sizelimit
    BY <1>1, <1>5, ActivateKeeps
  <1>6. ASSUME NEW b \in Block, NEW refused, InvalidateBlock(b, refused)
        PROVE  /\ PoolInv'
               /\ \E m \in Pools : pool'.tx \subseteq m.tx /\ DynamicMemoryUsage(m) <= sizelimit
    BY <1>1, <1>6, InvalidateKeeps
  <1>7. CASE UNCHANGED vars
    <2>1. tip' = tip /\ pool' = pool
      BY <1>7 DEF vars
    <2>2. Sound(pool, tip) /\ Fit(pool, tip)
      BY DEF PoolInv
    <2> QED  BY <1>1, <1>2, <2>1, <2>2
  <1> QED  BY <1>3, <1>4, <1>5, <1>6, <1>7 DEF Next

\* Whatever keeps links, inputs and totals has the properties the runs check.
LEMMA PoolInvImplies == PoolInv => LinksExact /\ PoolMinable /\ TotalsExact
  <1> SUFFICES ASSUME PoolInv
               PROVE  LinksExact /\ PoolMinable /\ TotalsExact
    OBVIOUS
  <1>1. /\ pool \in Pools /\ Links(pool, {}, {}) /\ Spent(pool) /\ Fed(pool, Coins[tip])
        /\ pool.tx \cap (Confirmed[tip] \cup CoinBase \cup CoinStake) = {} /\ Fit(pool, tip)
    BY DEF PoolInv, Sound
  <1>2. pool.tx \in SUBSET Tx /\ pool.parents \in [Tx -> SUBSET Tx] /\ pool.children \in [Tx -> SUBSET Tx]
    BY <1>1, PoolFields
  <1>3. \A t \in Tx : \A p \in Tx :
            /\ p \in pool.parents[t] <=> t \in pool.tx /\ p \in pool.tx /\ Feeds(p, t)
            /\ t \in pool.children[p] <=> p \in pool.parents[t]
    BY <1>1 DEF Links
  <1>4. ASSUME NEW t \in Tx
        PROVE  pool.parents[t] = IF t \in pool.tx THEN ParentsInPool(pool, t) ELSE {}
    <2>1. pool.parents[t] \in SUBSET Tx
      BY <1>2
    <2>2. \A p \in Tx : p \in ParentsInPool(pool, t) <=> p \in pool.tx /\ Feeds(p, t)
      BY DEF ParentsInPool, Feeds
    <2>3. ParentsInPool(pool, t) \in SUBSET Tx
      BY <1>2 DEF ParentsInPool
    <2> QED  BY <1>3, <2>1, <2>2, <2>3
  <1>5. ASSUME NEW t \in Tx
        PROVE  pool.children[t] = {u \in pool.tx : t \in pool.parents[u]}
    <2>1. pool.children[t] \in SUBSET Tx
      BY <1>2
    <2> QED  BY <1>2, <1>3, <2>1
  <1>6. LinksExact
    BY <1>1, <1>4, <1>5 DEF LinksExact, Spent
  <1>7. ASSUME NEW t \in pool.tx, NEW u \in pool.tx \ {t}
        PROVE  Spends[t] \cap Spends[u] = {}
    BY <1>1, SMT DEF Spent
  <1>8. ASSUME NEW t \in pool.tx, NEW o \in Spends[t]
        PROVE  o[1] \in pool.tx \/ (o \in Coins[tip] /\ (o[1] \in CoinBase => Mature(o, tip)))
    BY <1>1 DEF Fed, Fit
  <1>9. PoolMinable
    BY <1>1, <1>7, <1>8 DEF PoolMinable, Fit
  <1>10. TotalsExact
    <2> SUFFICES ASSUME NEW t \in pool.tx
                 PROVE  /\ pool.desc[t] = Sum(pool, CalculateDescendants(pool, {t}))
                        /\ Alike(pool.anc[t], Sum(pool, {t} \cup Ancestors(pool, t)))
                        /\ pool.feeDelta[t] = pool.mapDeltas[t]
      BY DEF TotalsExact, Alike
    <2>1. t \in Tx /\ Exact(pool)
      BY <1>2 DEF PoolInv, Sound
    <2>2. Up(pool, t) = {t} \cup Ancestors(pool, t)
      BY <1>1, <2>1, UpIs
    <2> QED  BY <2>1, <2>2 DEF Exact, Down
  <1> QED  BY <1>6, <1>9, <1>10

\* The links are the spends among the transactions of the pool, and mapNextTx
\* has their inputs, after every call, reorganisations of any depth included:
\* UpdateTransactionsFromBlock repairs what DisconnectTip leaves open.
THEOREM PoolLinksExact == Spec => []LinksExact
  <1>1. Init => PoolInv
    BY InitPool
  <1>2. PoolInv /\ [Next]_vars => PoolInv'
    BY NextPool
  <1>3. PoolInv => LinksExact
    BY PoolInvImplies
  <1> QED  BY <1>1, <1>2, <1>3, PTL DEF Spec

\* What is in the pool can be mined on top of the tip, whatever the chain did.
THEOREM PoolIsMinable == Spec => []PoolMinable
  <1>1. Init => PoolInv
    BY InitPool
  <1>2. PoolInv /\ [Next]_vars => PoolInv'
    BY NextPool
  <1>3. PoolInv => PoolMinable
    BY PoolInvImplies
  <1> QED  BY <1>1, <1>2, <1>3, PTL DEF Spec

\* The totals of every entry count its descendants and ancestors, each once,
\* although they are only ever added to and subtracted from, one transaction
\* after the other: by addUnchecked, UpdateForRemoveFromMempool,
\* UpdateForDescendants and PrioritiseTransaction.
THEOREM PoolTotalsExact == Spec => []TotalsExact
  <1>1. Init => PoolInv
    BY InitPool
  <1>2. PoolInv /\ [Next]_vars => PoolInv'
    BY NextPool
  <1>3. PoolInv => TotalsExact
    BY PoolInvImplies
  <1> QED  BY <1>1, <1>2, <1>3, PTL DEF Spec

\* The invariant has the types.
LEMMA PoolInvTypes == PoolInv /\ calls \in 0 .. MaxCalls => TypeOK
  <1> SUFFICES ASSUME PoolInv, calls \in 0 .. MaxCalls
               PROVE  TypeOK
    OBVIOUS
  <1>1. tip \in Block /\ pool \in Pools /\ Exact(pool)
    BY DEF PoolInv, Sound
  <1>2. pool.tx \in SUBSET Tx /\ pool.desc \in [Tx -> Totals] /\ pool.anc \in [Tx -> Totals]
    BY <1>1, PoolFields
  <1>3. Nothing.n >= 0 /\ Nothing.size >= 0
    BY SMT DEF Nothing
  <1>4. ASSUME NEW t \in Tx
        PROVE  pool.desc[t].n >= 0 /\ pool.desc[t].size >= 0 /\ pool.anc[t].n >= 0 /\ pool.anc[t].size >= 0
    <2>1. CASE t \in pool.tx
      <3>1. Down(pool, t) \in SUBSET Tx /\ Up(pool, t) \in SUBSET Tx
        BY <1>1, DownLeast, UpLeast
      <3>2. pool.desc[t] = Sum(pool, Down(pool, t)) /\ Alike(pool.anc[t], Sum(pool, Up(pool, t)))
        BY <1>1, <2>1 DEF Exact
      <3> QED  BY <1>1, <3>1, <3>2, TotalsNatural DEF Alike
    <2>2. CASE t \notin pool.tx
      BY <1>1, <1>3, <2>2 DEF Exact
    <2> QED  BY <2>1, <2>2
  <1>5. \A a \in Range(pool.desc) \cup Range(pool.anc) : a.n >= 0 /\ a.size >= 0
    BY <1>2, <1>4 DEF Range
  <1> QED  BY <1>1, <1>5 DEF TypeOK

\* The assertions of UpdateDescendantState and UpdateAncestorState hold: no
\* count and no size is ever below zero.
THEOREM PoolTypes == Spec => []TypeOK
  <1>1. Init => PoolInv /\ calls \in 0 .. MaxCalls
    <2>1. 0 \in 0 .. MaxCalls
      BY TxAssumption, SMT
    <2> QED  BY <2>1, InitPool DEF Init
  <1>2. PoolInv /\ calls \in 0 .. MaxCalls /\ [Next]_vars => (PoolInv /\ calls \in 0 .. MaxCalls)'
    <2> SUFFICES ASSUME PoolInv, calls \in 0 .. MaxCalls, [Next]_vars
                 PROVE  PoolInv' /\ calls' \in 0 .. MaxCalls
      OBVIOUS
    <2>1. calls' = calls \/ (calls < MaxCalls /\ calls' = calls + 1)
      BY DEF Next, vars, AcceptToMemoryPool, PrioritiseTransaction, ActivateBestChainStep, InvalidateBlock
    <2>2. calls' \in 0 .. MaxCalls
      BY <2>1, TxAssumption, SMT
    <2> QED  BY <2>2, NextPool
  <1>3. PoolInv /\ calls \in 0 .. MaxCalls => TypeOK
    BY PoolInvTypes
  <1> QED  BY <1>1, <1>2, <1>3, PTL DEF Spec

\* The pool is within -maxmempool after every call.
THEOREM PoolIsBounded == Spec => []PoolBounded
  <1>1. Init => PoolInv /\ PoolBounded
    BY InitPool
  <1>2. PoolInv /\ PoolBounded /\ [Next]_vars => (PoolInv /\ PoolBounded)'
    <2> SUFFICES ASSUME PoolInv, PoolBounded, [Next]_vars
                 PROVE  PoolInv' /\ PoolBounded'
      OBVIOUS
    <2>1. PoolInv'
      BY NextPool
    <2>2. pool \in Pools
      BY DEF PoolInv, Sound
    <2>3. PICK m \in Pools : pool'.tx \subseteq m.tx /\ DynamicMemoryUsage(m) <= sizelimit
      BY <2>2, NextPool DEF PoolBounded
    <2>4. m.tx \in SUBSET Tx /\ pool'.tx \in SUBSET m.tx
      BY <2>3, PoolFields
    <2>5. pool'.tx \in SUBSET Tx
      BY <2>4
    <2>6. SumOver(Size, pool'.tx) <= SumOver(Size, m.tx)
      BY <2>4, <2>5, SizeMonotone
    <2>7. SumOver(Size, pool'.tx) \in Int /\ SumOver(Size, m.tx) \in Int
      <3>1. Size \in [Tx -> Int]
        BY TxAssumption, SMT
      <3> QED  BY <2>4, <2>5, <3>1, SumType
    <2>8. SumOver(Size, pool'.tx) <= sizelimit
      <3>1. SumOver(Size, m.tx) <= sizelimit /\ sizelimit \in Int
        BY <2>3, TxAssumption, SMT DEF DynamicMemoryUsage
      <3> QED  BY <2>6, <2>7, <3>1, SMT
    <2>9. PoolBounded'
      BY <2>8 DEF PoolBounded, DynamicMemoryUsage
    <2> QED  BY <2>1, <2>9
  <1> QED  BY <1>1, <1>2, PTL DEF Spec
=============================================================================
