----------------------------- MODULE CoinsCache ------------------------------
(***************************************************************************)
(* The coins views of src/src/coins.cpp stacked the way the node stacks    *)
(* them: the per-block view of ConnectTip and DisconnectTip over pcoinsTip *)
(* over CCoinsViewDB.  An entry of a cache carries the DIRTY and FRESH     *)
(* flags; which entries are copied, dropped or erased on a flush depends   *)
(* only on them.  Every operation runs under cs_main.                      *)
(***************************************************************************)
CONSTANTS Txids, Coins, Pruned, Blocks, NoHash,
          NoEntry   \* CCoinsMap::end(): the cache holds nothing for the txid

ASSUME PrunedAssumption == Pruned \notin Coins
ASSUME NoHashAssumption == NoHash \notin Blocks

VARIABLES db,        \* CCoinsViewDB: Pruned stands for "no such key"
          dbBest,    \* the DB_BEST_BLOCK key
          tip,       \* pcoinsTip->cacheCoins
          tipBest,   \* pcoinsTip->hashBlock
          view,      \* cacheCoins of the block in progress
          mode,      \* which function owns the view
          newTxids   \* transactions of the block that UpdateCoins has not added yet

vars == <<db, dbBest, tip, tipBest, view, mode, newTxids>>

Value == Coins \cup {Pruned}

Flags == {"DIRTY", "FRESH"}

CCoinsCacheEntry == [coins : Value, flags : SUBSET Flags]

ASSUME NoEntryAssumption == NoEntry \notin CCoinsCacheEntry

Entry == CCoinsCacheEntry \cup {NoEntry}

EmptyCache == [t \in Txids |-> NoEntry]

-----------------------------------------------------------------------------
(* Reading: own is the cache's entry for a txid, base what the view below   *)
(* answers for it (NoEntry when its GetCoins returns false).                *)

FetchCoins(own, base) ==
    IF own # NoEntry \/ base = NoEntry
      THEN own
      ELSE [coins |-> base.coins, flags |-> IF base.coins = Pruned THEN {"FRESH"} ELSE {}]

\* CCoinsViewDB::GetCoins.
DbEntry(t) ==
    IF db[t] = Pruned THEN NoEntry
    ELSE [coins |-> db[t], flags |-> {}]

\* pcoinsTip->GetCoins: the answer, which is also what is now cached.
TipEntry(t) == FetchCoins(tip[t], DbEntry(t))

\* The answer of a read through the whole stack.
Lookup(cache, base) ==
    [t \in Txids |-> IF cache[t] = NoEntry THEN base[t] ELSE cache[t].coins]

TipCoins == Lookup(tip, db)
ViewCoins == Lookup(view, TipCoins)

TipGetBestBlock == IF tipBest = NoHash THEN dbBest ELSE tipBest

-----------------------------------------------------------------------------
(* Writing.                                                                 *)

\* ~CCoinsModifier: a fresh entry that ends up pruned is erased.
Release(e) == IF "FRESH" \in e.flags /\ e.coins = Pruned THEN NoEntry ELSE e

\* Mutant: forgets "Assume that whenever ModifyCoins is called, the entry will
\* be modified".
ModifyCoinsClean(own, base, v) ==
    LET flags == IF own # NoEntry THEN own.flags
                 ELSE IF base = NoEntry \/ base.coins = Pruned THEN {"FRESH"} ELSE {}
    IN  Release([coins |-> v, flags |-> flags])

\* ModifyCoins, the change to v, and the modifier's destructor.
ModifyCoins(own, base, v) ==
    LET flags == IF own # NoEntry THEN own.flags
                 ELSE IF base = NoEntry \/ base.coins = Pruned THEN {"FRESH"} ELSE {}
    IN  Release([coins |-> v, flags |-> flags \cup {"DIRTY"}])

\* ModifyNewCoins does not look below; only a coinbase keeps the old flag.
ModifyNewCoins(own, coinbase, v) ==
    LET flags == IF ~coinbase THEN {"FRESH"}
                 ELSE IF own # NoEntry THEN own.flags ELSE {}
    IN  Release([coins |-> v, flags |-> flags \cup {"DIRTY"}])

\* Mutant: erases the parent's entry without looking at its FRESH flag.
BatchWriteErase(own, child) ==
    IF child = NoEntry \/ "DIRTY" \notin child.flags THEN own
    ELSE IF own = NoEntry THEN Release(child)
    ELSE IF child.coins = Pruned THEN NoEntry
    ELSE [coins |-> child.coins, flags |-> own.flags \cup {"DIRTY"}]

\* CCoinsViewCache::BatchWrite, one entry.
BatchWrite(own, child) ==
    IF child = NoEntry \/ "DIRTY" \notin child.flags THEN own
    ELSE IF own = NoEntry THEN Release(child)
    ELSE IF "FRESH" \in own.flags /\ child.coins = Pruned THEN NoEntry
    ELSE [coins |-> child.coins, flags |-> own.flags \cup {"DIRTY"}]

\* CCoinsViewDB::BatchWrite, one entry.
BatchWriteDB(old, child) ==
    IF child = NoEntry \/ "DIRTY" \notin child.flags THEN old ELSE child.coins

-----------------------------------------------------------------------------
Init ==
    /\ db = [t \in Txids |-> Pruned]
    /\ dbBest = NoHash
    /\ tip = EmptyCache
    /\ tipBest = NoHash
    /\ view = EmptyCache
    /\ mode = "none"
    /\ newTxids = {}

\* Mutant: the check for overwritten transactions is dropped.
BeginConnectUnchecked(txs) ==
    /\ mode = "none"
    /\ mode' = "connect"
    /\ newTxids' = txs
    /\ tip' = [t \in Txids |-> IF t \in txs THEN TipEntry(t) ELSE tip[t]]
    /\ view' = [t \in Txids |-> IF t \in txs THEN FetchCoins(NoEntry, TipEntry(t)) ELSE NoEntry]
    /\ tipBest' = TipGetBestBlock
    /\ UNCHANGED <<db, dbBest>>

\* ConnectTip opens a view; ConnectBlock refuses the block when one of its
\* transactions would overwrite unspent coins, reading each through the view.
BeginConnect(txs) ==
    /\ mode = "none"
    /\ \A t \in txs : TipCoins[t] = Pruned
    /\ mode' = "connect"
    /\ newTxids' = txs
    /\ tip' = [t \in Txids |-> IF t \in txs THEN TipEntry(t) ELSE tip[t]]
    /\ view' = [t \in Txids |-> IF t \in txs THEN FetchCoins(NoEntry, TipEntry(t)) ELSE NoEntry]
    /\ tipBest' = TipGetBestBlock
    /\ UNCHANGED <<db, dbBest>>

\* DisconnectTip opens a view.
BeginDisconnect ==
    /\ mode = "none"
    /\ mode' = "disconnect"
    /\ tipBest' = TipGetBestBlock
    /\ UNCHANGED <<db, dbBest, tip, view, newTxids>>

\* AccessCoins, HaveCoins, GetCoins on the view: fills both caches.
ViewFetch(t) ==
    /\ mode # "none"
    /\ view[t] = NoEntry
    /\ view' = [view EXCEPT ![t] = FetchCoins(view[t], TipEntry(t))]
    /\ tip' = [tip EXCEPT ![t] = TipEntry(t)]
    /\ UNCHANGED <<db, dbBest, tipBest, mode, newTxids>>

\* UpdateCoins spends an output (it must be there), DisconnectBlock clears
\* a transaction, ApplyTxInUndo restores an output.
ViewModify(t, v) ==
    /\ mode # "none"
    /\ mode = "connect" => ViewCoins[t] # Pruned
    /\ view' = [view EXCEPT ![t] = ModifyCoins(view[t], TipEntry(t), v)]
    /\ tip' = IF view[t] = NoEntry THEN [tip EXCEPT ![t] = TipEntry(t)] ELSE tip
    /\ UNCHANGED <<db, dbBest, tipBest, mode, newTxids>>

\* UpdateCoins adds the outputs of a transaction of the block (v is Pruned
\* when every output is unspendable).
ViewAdd(t, coinbase, v) ==
    /\ mode = "connect"
    /\ t \in newTxids
    /\ view' = [view EXCEPT ![t] = ModifyNewCoins(view[t], coinbase, v)]
    /\ newTxids' = newTxids \ {t}
    /\ UNCHANGED <<db, dbBest, tip, tipBest, mode>>

\* SetBestBlock and Flush of the view, and the end of its scope.
ViewFlush(h) ==
    /\ mode # "none"
    /\ newTxids = {}
    /\ tip' = [t \in Txids |-> BatchWrite(tip[t], view[t])]
    /\ tipBest' = h
    /\ view' = EmptyCache
    /\ mode' = "none"
    /\ UNCHANGED <<db, dbBest, newTxids>>

\* ConnectBlock or DisconnectBlock failed: the view goes out of scope.
ViewDrop ==
    /\ mode # "none"
    /\ view' = EmptyCache
    /\ mode' = "none"
    /\ newTxids' = {}
    /\ UNCHANGED <<db, dbBest, tip, tipBest>>

\* A read of pcoinsTip outside block processing (AcceptToMemoryPool, RPC).
TipFetch(t) ==
    /\ mode = "none"
    /\ tip' = [tip EXCEPT ![t] = TipEntry(t)]
    /\ UNCHANGED <<db, dbBest, tipBest, view, mode, newTxids>>

Uncache(t) ==
    /\ mode = "none"
    /\ tip[t] # NoEntry
    /\ tip[t].flags = {}
    /\ tip' = [tip EXCEPT ![t] = NoEntry]
    /\ UNCHANGED <<db, dbBest, tipBest, view, mode, newTxids>>

\* pcoinsTip->Flush(): one atomic batch, then the cache is cleared.
TipFlush ==
    /\ mode = "none"
    /\ db' = [t \in Txids |-> BatchWriteDB(db[t], tip[t])]
    /\ dbBest' = IF tipBest = NoHash THEN dbBest ELSE tipBest
    /\ tip' = EmptyCache
    /\ UNCHANGED <<tipBest, view, mode, newTxids>>

\* The process dies; the next one starts with empty caches over the database.
Restart ==
    /\ tip' = EmptyCache
    /\ tipBest' = NoHash
    /\ view' = EmptyCache
    /\ mode' = "none"
    /\ newTxids' = {}
    /\ UNCHANGED <<db, dbBest>>

Next ==
    \/ \E txs \in SUBSET Txids : BeginConnect(txs)
    \/ BeginDisconnect
    \/ \E t \in Txids : ViewFetch(t) \/ TipFetch(t) \/ Uncache(t)
    \/ \E t \in Txids, v \in Value : ViewModify(t, v)
    \/ \E t \in Txids, coinbase \in BOOLEAN, v \in Value : ViewAdd(t, coinbase, v)
    \/ \E h \in Blocks : ViewFlush(h)
    \/ ViewDrop
    \/ TipFlush
    \/ Restart

Spec == Init /\ [][Next]_vars

-----------------------------------------------------------------------------
\* The types of the database and of both caches with their flags.
TypeOK ==
    /\ db \in [Txids -> Value]
    /\ dbBest \in Blocks \cup {NoHash}
    /\ tip \in [Txids -> Entry]
    /\ tipBest \in Blocks \cup {NoHash}
    /\ view \in [Txids -> Entry]
    /\ mode \in {"none", "connect", "disconnect"}
    /\ newTxids \in SUBSET Txids
    /\ mode # "connect" => newTxids = {}

\* An entry that claims "The parent view does not have this entry (or it is
\* pruned)" (FRESH) is right about the view below it, in both caches: erasing
\* a fresh entry on prune, or not writing it down, loses nothing.
FreshIsTrue ==
    \A t \in Txids :
      /\ tip[t] # NoEntry /\ "FRESH" \in tip[t].flags => db[t] = Pruned
      /\ view[t] # NoEntry /\ "FRESH" \in view[t].flags => TipCoins[t] = Pruned

\* An entry without DIRTY equals what the view below holds, in both caches:
\* BatchWrite and Uncache may forget it.
CleanIsEqual ==
    \A t \in Txids :
      /\ tip[t] # NoEntry /\ "DIRTY" \notin tip[t].flags => tip[t].coins = db[t]
      /\ view[t] # NoEntry /\ "DIRTY" \notin view[t].flags => view[t].coins = TipCoins[t]

\* A transaction the block in progress has still to add has no unspent coins
\* in pcoinsTip, and only the function that owns the view put entries in it.
ViewScope ==
    /\ \A t \in newTxids : TipCoins[t] = Pruned
    /\ mode = "none" => view = EmptyCache

\* The strengthening that is inductive.
IndInv == TypeOK /\ FreshIsTrue /\ CleanIsEqual /\ ViewScope

\* What the stack promises: reads of it are reads of one map, a block's
\* changes arrive together or not at all, and the database always holds the
\* coins of the block it names (UtxoSet).
Utxo == INSTANCE UtxoSet WITH
    durable <- db, durableBest <- dbBest,
    coins <- TipCoins, best <- TipGetBestBlock,
    scratch <- ViewCoins, open <- mode # "none"

\* The caches implement the single map of UtxoSet.
ImplementsUtxoSet == Utxo!Spec
=============================================================================
