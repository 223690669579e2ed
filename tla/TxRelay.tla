------------------------------ MODULE TxRelay ------------------------------
(***************************************************************************)
(* Transactions from peers: the tx message of src/src/main.cpp, the        *)
(* orphans it keeps (mapOrphanTransactions and its index by outpoint), the *)
(* filter recentRejects, and the memory pool they feed.  Wallet and RPC    *)
(* hand transactions to the pool without looking at the orphans, blocks    *)
(* erase orphans as they are connected, and peers come and go.             *)
(***************************************************************************)
EXTENDS MemPool

CONSTANTS Peer, NoPeer,
          Relayed,        \* transactions peers send
          Bad,            \* transactions whose scripts are invalid
          nMaxOrphanTx    \* -maxorphantx

ASSUME PeerAssumption == NoPeer \notin Peer /\ Relayed \subseteq Tx /\ nMaxOrphanTx \in Nat

VARIABLES node,                        \* mapNodeState
          fShouldBan,                  \* peers to be banned and disconnected
          mapOrphanTransactions,       \* fromPeer of each orphan, or NoPeer
          mapOrphanTransactionsByPrev,
          recentRejects, hashRecentRejectsChainTip

orphanVars == <<mapOrphanTransactions, mapOrphanTransactionsByPrev>>
rejectVars == <<recentRejects, hashRecentRejectsChainTip>>
peerVars == <<node, fShouldBan>>
relayVars == <<vars, orphanVars, rejectVars, peerVars>>

Orphans == {t \in Tx : mapOrphanTransactions[t] # NoPeer}

RelayInit ==
    /\ Init
    /\ node = {} /\ fShouldBan = {}
    /\ mapOrphanTransactions = [t \in Tx |-> NoPeer]
    /\ mapOrphanTransactionsByPrev = [o \in Outpoint |-> {}]
    /\ recentRejects = {} /\ hashRecentRejectsChainTip = Genesis

-----------------------------------------------------------------------------
(* The orphans.                                                            *)

\* Mutant: the index keeps what is erased.
UnindexedNever(S) == mapOrphanTransactionsByPrev

\* The index without the transactions S.
Unindexed(S) == [o \in Outpoint |-> mapOrphanTransactionsByPrev[o] \ {t \in S : o \in Spends[t]}]

\* EraseOrphanTx for all of S.
EraseOrphans(S) ==
    /\ mapOrphanTransactions' = [t \in Tx |-> IF t \in S THEN NoPeer ELSE mapOrphanTransactions[t]]
    /\ mapOrphanTransactionsByPrev' = Unindexed(S)

\* Mutant: one orphan too many is kept.
RoomForOne == nMaxOrphanTx + 1

Room == nMaxOrphanTx

\* AddOrphanTx and LimitOrphanTxSize: t is ignored when it is too big, old ones
\* expire, and random ones are evicted while there are too many.
AddOrphanTx(t, p) ==
    \E expired \in SUBSET Orphans, added \in {{}, {t}} :
        LET left == (Orphans \cup added) \ expired
        IN  \E kept \in SUBSET left :
            /\ Cardinality(kept) = IF Cardinality(left) > Room THEN Room ELSE Cardinality(left)
            /\ mapOrphanTransactions' =
                [u \in Tx |-> IF u \notin kept THEN NoPeer ELSE IF u = t THEN p ELSE mapOrphanTransactions[u]]
            /\ mapOrphanTransactionsByPrev' =
                [o \in Outpoint |-> (mapOrphanTransactionsByPrev[o] \cup {u \in {t} : o \in Spends[u]}) \cap kept]

-----------------------------------------------------------------------------
(* The tx message.                                                         *)

\* recentRejects as AlreadyHave leaves it.
Rejects == IF tip = hashRecentRejectsChainTip THEN recentRejects ELSE {}

\* fCached: the coins of t, if it has any, are in the cache of pcoinsTip.
AlreadyHave(t, fCached) ==
    t \in Rejects \cup pool.tx \cup Orphans \/ (fCached /\ Outputs(t) \cap Coins[tip] # {})

\* The pools that AcceptToMemoryPool may leave, and whether t is then in.
\* refused: transactions that policy or the scripts do not let in.
Accepted(m, t, refused) ==
    IF t \notin refused /\ Acceptable(m, t, tip, Height[tip])
    THEN LimitMempoolSize(addUnchecked(m, t), {t}) ELSE {m}

\* AcceptToMemoryPool refuses t with a score that bans.
Punished(m, t) ==
    t \in CoinBase \cup CoinStake \/ (t \in Bad /\ Acceptable(m, t, tip, Height[tip]))

OutputSeq(t) == [n \in 1 .. Outs[t] |-> <<t, n - 1>>]

\* Mutant: the outputs of an accepted orphan are not followed.
FollowNone(t) == <<>>

\* What is appended to vWorkQueue for an accepted orphan.
Follow(t) == OutputSeq(t)

\* One orphan u that waits for an output of what was accepted.  w: the pool,
\* vWorkQueue, vEraseQueue, setMisbehaving and recentRejects.
TryOrphan(w, u, refused) ==
    LET missing == MissingInputs(w.m, u, tip, Height[tip])
        from    == mapOrphanTransactions[u]
        Result(m) ==
            IF u \in m.tx /\ u \notin w.m.tx
            THEN [w EXCEPT !.m = m, !.queue = @ \o Follow(u), !.erase = @ \cup {u}]
            ELSE IF missing THEN w
            ELSE [w EXCEPT !.m = m, !.erase = @ \cup {u}, !.rejects = @ \cup {u},
                           !.mis = IF Punished(w.m, u) THEN @ \cup {from} ELSE @]
    IN  IF from \in w.mis THEN {w} ELSE {Result(m) : m \in Accepted(w.m, u, refused)}

\* All orphans that wait for the first outpoint of vWorkQueue, and so on.
Works == [m : Pools, queue : Seq(Outpoint), erase : SUBSET Tx, mis : SUBSET Peer, rejects : SUBSET Tx]
TryOrphans(w, q, refused) ==
    Run([u \in Tx |-> [W \in SUBSET Works |-> UNION {TryOrphan(v, u, refused) : v \in W}]], {w}, q)
Work(start, refused) ==
    LET work[w \in Works] ==
            IF w.queue = <<>> THEN {w}
            ELSE UNION {UNION {work[v] : v \in TryOrphans([w EXCEPT !.queue = Tail(@)], q, refused)} :
                        q \in Listings(mapOrphanTransactionsByPrev[Head(w.queue)])}
    IN  work[start]

\* The transaction is accepted; what waited for it is looked at again.
TxAccepted(t, refused) ==
    \E m \in Accepted(pool, t, refused) :
        /\ t \in m.tx
        /\ \E w \in Work([m |-> m, queue |-> OutputSeq(t), erase |-> {}, mis |-> {},
                          rejects |-> Rejects], refused) :
            /\ pool' = w.m
            /\ recentRejects' = w.rejects
            /\ fShouldBan' = fShouldBan \cup (w.mis \cap node)
            /\ EraseOrphans(w.erase)

\* It is refused, or there already, or trimmed at once.
TxRefused(t, p, refused, fHave) ==
    /\ pool' \in {m \in IF fHave THEN {pool} ELSE Accepted(pool, t, refused) : fHave \/ t \notin m.tx}
    /\ recentRejects' = Rejects \cup {t}
    /\ fShouldBan' = IF ~fHave /\ Punished(pool, t) THEN fShouldBan \cup {p} ELSE fShouldBan
    /\ UNCHANGED orphanVars

\* Its inputs are missing.
TxOrphan(t, p) ==
    /\ IF \E o \in Spends[t] : o[1] \in Rejects THEN UNCHANGED orphanVars ELSE AddOrphanTx(t, p)
    /\ recentRejects' = Rejects
    /\ UNCHANGED <<pool, fShouldBan>>

TxMsg(p, t, fCached, policy) ==
    LET refused == policy \cup Bad
        fHave   == AlreadyHave(t, fCached)
        missing == ~fHave /\ MissingInputs(pool, t, tip, Height[tip])
    IN  /\ p \in node \ fShouldBan
        /\ \/ ~fHave /\ TxAccepted(t, refused)
           \/ (~missing \/ t \in policy) /\ TxRefused(t, p, refused, fHave)
           \/ missing /\ TxOrphan(t, p)
        /\ hashRecentRejectsChainTip' = tip
        /\ UNCHANGED <<tip, calls, node>>

-----------------------------------------------------------------------------
InitializeNode(p) ==
    /\ p \notin node
    /\ node' = node \cup {p}
    /\ UNCHANGED <<vars, orphanVars, rejectVars, fShouldBan>>

\* Mutant: a peer that is banned leaves its orphans behind.
OrphansOfUnlessBanned(p) == {t \in Orphans : mapOrphanTransactions[t] = p /\ p \notin fShouldBan}

\* EraseOrphansFor
OrphansOf(p) == {t \in Orphans : mapOrphanTransactions[t] = p}

FinalizeNode(p) ==
    /\ p \in node
    /\ node' = node \ {p} /\ fShouldBan' = fShouldBan \ {p}
    /\ EraseOrphans(OrphansOf(p))
    /\ UNCHANGED <<vars, rejectVars>>

\* Orphans that a transaction of block b includes or precludes.
OrphansSpentBy(b) == UNION {mapOrphanTransactionsByPrev[o] : o \in UNION {Spends[t] : t \in Range(Vtx[b])}}

ConnectedBy(new) == Chain[new] \ Chain[tip]

ChainStep ==
    \/ \E target, new \in Block : \E refused \in RefusedIn(Chain[tip] \ Chain[target]) :
        /\ ActivateBestChainStep(target, new, refused, {})
        /\ EraseOrphans(UNION {OrphansSpentBy(b) : b \in ConnectedBy(new)})
        /\ UNCHANGED <<rejectVars, peerVars>>
    \/ \E b \in Block : \E refused \in RefusedIn(Chain[tip] \ {Genesis}) :
        /\ InvalidateBlock(b, refused)
        /\ UNCHANGED <<orphanVars, rejectVars, peerVars>>

\* sendrawtransaction and the wallet.
LocalTx(t) == t \notin Bad /\ AcceptToMemoryPool(t) /\ UNCHANGED <<orphanVars, rejectVars, peerVars>>

Message ==
    \E p \in Peer, t \in Relayed, fCached \in BOOLEAN :
        \E policy \in SUBSET ({t} \cup Orphans) : TxMsg(p, t, fCached, policy)

RelayNext ==
    \/ Message
    \/ \E p \in Peer : InitializeNode(p) \/ FinalizeNode(p)
    \/ ChainStep
    \/ \E t \in Tx : LocalTx(t)

RelaySpec == RelayInit /\ [][RelayNext]_relayVars

-----------------------------------------------------------------------------
\* The two indexes of the orphans agree, whoever erases them: a message, a
\* block, a disconnection or the limit.
OrphanIndexExact == \A o \in Outpoint : mapOrphanTransactionsByPrev[o] = {t \in Orphans : o \in Spends[t]}

\* An orphan belongs to a peer that is connected, so that Misbehaving finds it.
OrphansOfNodes == \A t \in Orphans : mapOrphanTransactions[t] \in node

\* The limit on orphans holds after every message.
OrphansBounded == Cardinality(Orphans) <= nMaxOrphanTx

\* When a message brings in a transaction, directly or through an orphan, no
\* orphan stays behind that only waited for it, unless its peer is to be banned.
OrphansResolved ==
    [][\A u \in Orphans' :
        \/ MissingInputs(pool', u, tip, Height[tip])
        \/ mapOrphanTransactions[u] \in fShouldBan'
        \/ \A o \in Spends[u] : o[1] \notin pool'.tx \ pool.tx
        \/ ~Message]_relayVars
=============================================================================
