-------------------------- MODULE CoinsCacheProofs ---------------------------
(***************************************************************************)
(* Proofs about CoinsCache for every set of transactions, coins and block  *)
(* hashes: the flags tell the truth, and the stack of caches implements    *)
(* the single map of UtxoSet.                                              *)
(***************************************************************************)
EXTENDS CoinsCache, TLAPS

(* Facts about the operators on one entry.                                  *)

\* The entry operators build entries.
LEMMA EntryTypes ==
    ASSUME NEW own \in Entry, NEW base \in Entry, NEW v \in Value, NEW cb \in BOOLEAN
    PROVE  /\ FetchCoins(own, base) \in Entry
           /\ ModifyCoins(own, base, v) \in Entry
           /\ ModifyNewCoins(own, cb, v) \in Entry
           /\ BatchWrite(own, base) \in Entry
           /\ BatchWriteDB(v, base) \in Value
  BY NoEntryAssumption
  DEF FetchCoins, ModifyCoins, ModifyNewCoins, BatchWrite, BatchWriteDB, Release,
      Entry, CCoinsCacheEntry, Flags, Value

\* What pcoinsTip answers for a transaction is what its cache then holds, and
\* reading through it does not change any answer.
LEMMA TipEntryFacts ==
    ASSUME TypeOK, FreshIsTrue, CleanIsEqual, NEW t \in Txids
    PROVE  /\ TipEntry(t) \in Entry
           /\ TipEntry(t) = NoEntry => TipCoins[t] = Pruned /\ tip[t] = NoEntry
           /\ TipEntry(t) # NoEntry => TipEntry(t).coins = TipCoins[t]
           /\ TipEntry(t) # NoEntry /\ "FRESH" \in TipEntry(t).flags => db[t] = Pruned
           /\ TipEntry(t) # NoEntry /\ "DIRTY" \notin TipEntry(t).flags => TipEntry(t).coins = db[t]
           /\ (IF TipEntry(t) = NoEntry THEN db[t] ELSE TipEntry(t).coins) = TipCoins[t]
  BY NoEntryAssumption, PrunedAssumption
  DEF TipEntry, DbEntry, FetchCoins, TypeOK, FreshIsTrue, CleanIsEqual, TipCoins, Lookup,
      Entry, CCoinsCacheEntry, Flags, Value

LEMMA InitInd == Init => IndInv
  BY DEF Init, IndInv, TypeOK, FreshIsTrue, CleanIsEqual, ViewScope, EmptyCache, Value, Entry,
         TipCoins, Lookup

\* Filling pcoinsTip from the database changes neither its answers nor the
\* truth of its flags.
LEMMA FillTip ==
    ASSUME IndInv, db' = db, tip' \in [Txids -> Entry],
           \A t \in Txids : tip'[t] = tip[t] \/ tip'[t] = TipEntry(t)
    PROVE  /\ TipCoins' = TipCoins
           /\ \A t \in Txids :
                /\ tip'[t] # NoEntry /\ "FRESH" \in tip'[t].flags => db'[t] = Pruned
                /\ tip'[t] # NoEntry /\ "DIRTY" \notin tip'[t].flags => tip'[t].coins = db'[t]
  <1> USE DEF IndInv
  <1>1. ASSUME NEW t \in Txids
        PROVE  (IF tip'[t] = NoEntry THEN db'[t] ELSE tip'[t].coins) = TipCoins[t]
    BY <1>1, TipEntryFacts DEF TipCoins, Lookup
  <1>2. TipCoins' = TipCoins
    BY <1>1 DEF TipCoins, Lookup
  <1>3. ASSUME NEW t \in Txids
        PROVE  /\ tip'[t] # NoEntry /\ "FRESH" \in tip'[t].flags => db'[t] = Pruned
               /\ tip'[t] # NoEntry /\ "DIRTY" \notin tip'[t].flags => tip'[t].coins = db'[t]
    BY <1>3, TipEntryFacts DEF FreshIsTrue, CleanIsEqual
  <1>4. QED BY <1>2, <1>3

\* What the invariant says of one transaction in the view.
LEMMA OwnFacts ==
    ASSUME IndInv, NEW t \in Txids
    PROVE  /\ TipEntry(t) \in Entry
           /\ TipEntry(t) = NoEntry => TipCoins[t] = Pruned
           /\ TipEntry(t) # NoEntry => TipEntry(t).coins = TipCoins[t]
           /\ view[t] \in Entry
           /\ view[t] # NoEntry /\ "FRESH" \in view[t].flags => TipCoins[t] = Pruned
           /\ view[t] # NoEntry /\ "DIRTY" \notin view[t].flags => view[t].coins = TipCoins[t]
           /\ ViewCoins[t] = (IF view[t] = NoEntry THEN TipCoins[t] ELSE view[t].coins)
           /\ t \in newTxids => TipCoins[t] = Pruned
  BY TipEntryFacts DEF IndInv, TypeOK, FreshIsTrue, CleanIsEqual, ViewScope, ViewCoins, Lookup

\* A read through the view caches an entry with truthful flags and does not
\* change the answer.
LEMMA FetchFacts ==
    ASSUME IndInv, NEW t \in Txids
    PROVE  LET e == FetchCoins(view[t], TipEntry(t)) IN
             /\ e # NoEntry /\ "FRESH" \in e.flags => TipCoins[t] = Pruned
             /\ e # NoEntry /\ "DIRTY" \notin e.flags => e.coins = TipCoins[t]
             /\ (IF e = NoEntry THEN TipCoins[t] ELSE e.coins) = ViewCoins[t]
  BY OwnFacts, NoEntryAssumption DEF FetchCoins, Entry, CCoinsCacheEntry, Flags, Value

\* A modification through the view leaves truthful flags and the new answer.
LEMMA ModifyFacts ==
    ASSUME IndInv, NEW t \in Txids, NEW v \in Value
    PROVE  LET e == ModifyCoins(view[t], TipEntry(t), v) IN
             /\ e # NoEntry /\ "FRESH" \in e.flags => TipCoins[t] = Pruned
             /\ e # NoEntry /\ "DIRTY" \notin e.flags => e.coins = TipCoins[t]
             /\ (IF e = NoEntry THEN TipCoins[t] ELSE e.coins) = v
  BY OwnFacts, NoEntryAssumption DEF ModifyCoins, Release, Entry, CCoinsCacheEntry, Flags, Value

\* Adding a transaction of the block leaves truthful flags: this is where the
\* refusal to overwrite unspent coins is needed.
LEMMA AddFacts ==
    ASSUME IndInv, NEW t \in newTxids, NEW v \in Value, NEW cb \in BOOLEAN
    PROVE  LET e == ModifyNewCoins(view[t], cb, v) IN
             /\ e # NoEntry /\ "FRESH" \in e.flags => TipCoins[t] = Pruned
             /\ e # NoEntry /\ "DIRTY" \notin e.flags => e.coins = TipCoins[t]
             /\ (IF e = NoEntry THEN TipCoins[t] ELSE e.coins) = v
  <1>1. t \in Txids
    BY DEF IndInv, TypeOK
  <1>2. QED
    BY <1>1, OwnFacts, NoEntryAssumption
    DEF ModifyNewCoins, Release, Entry, CCoinsCacheEntry, Flags, Value

\* Flushing the view into pcoinsTip makes pcoinsTip answer what the view
\* answered, with truthful flags.
LEMMA FlushFacts ==
    ASSUME IndInv, NEW t \in Txids
    PROVE  LET e == BatchWrite(tip[t], view[t]) IN
             /\ e \in Entry
             /\ e # NoEntry /\ "FRESH" \in e.flags => db[t] = Pruned
             /\ e # NoEntry /\ "DIRTY" \notin e.flags => e.coins = db[t]
             /\ (IF e = NoEntry THEN db[t] ELSE e.coins) = ViewCoins[t]
  <1>1. /\ view[t] \in Entry /\ tip[t] \in Entry
        /\ view[t] # NoEntry /\ "FRESH" \in view[t].flags => TipCoins[t] = Pruned
        /\ view[t] # NoEntry /\ "DIRTY" \notin view[t].flags => view[t].coins = TipCoins[t]
        /\ ViewCoins[t] = (IF view[t] = NoEntry THEN TipCoins[t] ELSE view[t].coins)
        /\ TipCoins[t] = (IF tip[t] = NoEntry THEN db[t] ELSE tip[t].coins)
        /\ tip[t] # NoEntry /\ "FRESH" \in tip[t].flags => db[t] = Pruned
        /\ tip[t] # NoEntry /\ "DIRTY" \notin tip[t].flags => tip[t].coins = db[t]
    BY DEF IndInv, TypeOK, FreshIsTrue, CleanIsEqual, ViewCoins, TipCoins, Lookup
  <1>2. QED
    BY <1>1, NoEntryAssumption DEF BatchWrite, Release, Entry, CCoinsCacheEntry, Flags, Value

\* Flushing pcoinsTip makes the database answer what pcoinsTip answered.
LEMMA DbFlushFacts ==
    ASSUME IndInv, NEW t \in Txids
    PROVE  BatchWriteDB(db[t], tip[t]) = TipCoins[t]
  BY NoEntryAssumption
  DEF IndInv, TypeOK, CleanIsEqual, TipCoins, Lookup, BatchWriteDB

\* Both caches empty.
LEMMA EmptyInd ==
    ASSUME TypeOK, db' \in [Txids -> Value], dbBest' \in Blocks \cup {NoHash},
           tipBest' \in Blocks \cup {NoHash}, tip' = EmptyCache, view' = EmptyCache,
           mode' = "none", newTxids' = {}
    PROVE  IndInv'
  BY DEF IndInv, TypeOK, FreshIsTrue, CleanIsEqual, ViewScope, EmptyCache, Entry

\* Every step keeps the flags truthful.
LEMMA NextInd == IndInv /\ [Next]_vars => IndInv'
  <1> SUFFICES ASSUME IndInv, [Next]_vars PROVE IndInv'
    OBVIOUS
  <1> USE DEF IndInv
  <1>1. ASSUME NEW txs \in SUBSET Txids, BeginConnect(txs) PROVE IndInv'
    <2>1. /\ TypeOK'
          /\ db' = db
          /\ \A t \in Txids : tip'[t] = tip[t] \/ tip'[t] = TipEntry(t)
          /\ \A t \in Txids : view'[t] \in {NoEntry, FetchCoins(NoEntry, TipEntry(t))}
      <3>1. \A t \in Txids : TipEntry(t) \in Entry /\ FetchCoins(NoEntry, TipEntry(t)) \in Entry
        BY TipEntryFacts, EntryTypes DEF Entry, Value
      <3>2. QED
        BY <1>1, <3>1 DEF BeginConnect, TypeOK, TipGetBestBlock, Entry
    <2>2. /\ TipCoins' = TipCoins
          /\ \A t \in Txids :
               /\ tip'[t] # NoEntry /\ "FRESH" \in tip'[t].flags => db'[t] = Pruned
               /\ tip'[t] # NoEntry /\ "DIRTY" \notin tip'[t].flags => tip'[t].coins = db'[t]
      BY <2>1, FillTip DEF TypeOK
    <2>3. view = EmptyCache
      BY <1>1 DEF BeginConnect, ViewScope
    <2>4. \A t \in Txids : view[t] = NoEntry
      BY <2>3 DEF EmptyCache
    <2>5. ASSUME NEW t \in Txids
          PROVE  /\ view'[t] # NoEntry /\ "FRESH" \in view'[t].flags => TipCoins[t] = Pruned
                 /\ view'[t] # NoEntry /\ "DIRTY" \notin view'[t].flags => view'[t].coins = TipCoins[t]
      BY <2>1, <2>4, FetchFacts, NoEntryAssumption
    <2>6. QED
      BY <1>1, <2>1, <2>2, <2>5 DEF FreshIsTrue, CleanIsEqual, ViewScope, BeginConnect
  <1>2. CASE BeginDisconnect
    BY <1>2 DEF BeginDisconnect, TypeOK, FreshIsTrue, CleanIsEqual, ViewScope, TipGetBestBlock,
                TipCoins, Lookup
  <1>3. ASSUME NEW t \in Txids, ViewFetch(t) PROVE IndInv'
    <2>1. /\ TypeOK'
          /\ db' = db
          /\ \A u \in Txids : tip'[u] = tip[u] \/ tip'[u] = TipEntry(u)
      BY <1>3, TipEntryFacts, EntryTypes DEF ViewFetch, TypeOK, Value
    <2>2. /\ TipCoins' = TipCoins
          /\ \A u \in Txids :
               /\ tip'[u] # NoEntry /\ "FRESH" \in tip'[u].flags => db'[u] = Pruned
               /\ tip'[u] # NoEntry /\ "DIRTY" \notin tip'[u].flags => tip'[u].coins = db'[u]
      BY <2>1, FillTip DEF TypeOK
    <2>3. ASSUME NEW u \in Txids
          PROVE  /\ view'[u] # NoEntry /\ "FRESH" \in view'[u].flags => TipCoins[u] = Pruned
                 /\ view'[u] # NoEntry /\ "DIRTY" \notin view'[u].flags => view'[u].coins = TipCoins[u]
      BY <1>3, FetchFacts DEF ViewFetch, TypeOK, FreshIsTrue, CleanIsEqual
    <2>4. QED
      BY <1>3, <2>1, <2>2, <2>3 DEF FreshIsTrue, CleanIsEqual, ViewScope, ViewFetch
  <1>4. ASSUME NEW t \in Txids, NEW v \in Value, ViewModify(t, v) PROVE IndInv'
    <2>1. /\ TypeOK'
          /\ db' = db
          /\ \A u \in Txids : tip'[u] = tip[u] \/ tip'[u] = TipEntry(u)
      BY <1>4, TipEntryFacts, EntryTypes DEF ViewModify, TypeOK
    <2>2. /\ TipCoins' = TipCoins
          /\ \A u \in Txids :
               /\ tip'[u] # NoEntry /\ "FRESH" \in tip'[u].flags => db'[u] = Pruned
               /\ tip'[u] # NoEntry /\ "DIRTY" \notin tip'[u].flags => tip'[u].coins = db'[u]
      BY <2>1, FillTip DEF TypeOK
    <2>3. ASSUME NEW u \in Txids
          PROVE  /\ view'[u] # NoEntry /\ "FRESH" \in view'[u].flags => TipCoins[u] = Pruned
                 /\ view'[u] # NoEntry /\ "DIRTY" \notin view'[u].flags => view'[u].coins = TipCoins[u]
      BY <1>4, ModifyFacts DEF ViewModify, TypeOK, FreshIsTrue, CleanIsEqual
    <2>4. QED
      BY <1>4, <2>1, <2>2, <2>3 DEF FreshIsTrue, CleanIsEqual, ViewScope, ViewModify
  <1>5. ASSUME NEW t \in Txids, NEW cb \in BOOLEAN, NEW v \in Value, ViewAdd(t, cb, v)
        PROVE  IndInv'
    <2>1. TypeOK' /\ TipCoins' = TipCoins
      BY <1>5, EntryTypes DEF ViewAdd, TypeOK, TipCoins, Lookup
    <2>2. ASSUME NEW u \in Txids
          PROVE  /\ view'[u] # NoEntry /\ "FRESH" \in view'[u].flags => TipCoins[u] = Pruned
                 /\ view'[u] # NoEntry /\ "DIRTY" \notin view'[u].flags => view'[u].coins = TipCoins[u]
      BY <1>5, AddFacts DEF ViewAdd, TypeOK, FreshIsTrue, CleanIsEqual
    <2>3. QED
      BY <1>5, <2>1, <2>2 DEF FreshIsTrue, CleanIsEqual, ViewScope, ViewAdd
  <1>6. ASSUME NEW h \in Blocks, ViewFlush(h) PROVE IndInv'
    <2>1. TypeOK'
      BY <1>6, FlushFacts DEF ViewFlush, TypeOK, EmptyCache, Entry
    <2>2. \A t \in Txids : tip'[t] = BatchWrite(tip[t], view[t]) /\ view'[t] = NoEntry
      BY <1>6 DEF ViewFlush, EmptyCache
    <2>3. QED
      BY <1>6, <2>1, <2>2, FlushFacts DEF FreshIsTrue, CleanIsEqual, ViewScope, ViewFlush
  <1>7. CASE ViewDrop
    <2>1. TypeOK' /\ TipCoins' = TipCoins /\ \A t \in Txids : view'[t] = NoEntry
      BY <1>7 DEF ViewDrop, TypeOK, EmptyCache, Entry, TipCoins, Lookup
    <2>2. QED
      BY <1>7, <2>1 DEF FreshIsTrue, CleanIsEqual, ViewScope, ViewDrop
  <1>8. ASSUME NEW t \in Txids, TipFetch(t) PROVE IndInv'
    <2>1. /\ TypeOK'
          /\ db' = db
          /\ \A u \in Txids : tip'[u] = tip[u] \/ tip'[u] = TipEntry(u)
      BY <1>8, TipEntryFacts DEF TipFetch, TypeOK
    <2>2. /\ TipCoins' = TipCoins
          /\ \A u \in Txids :
               /\ tip'[u] # NoEntry /\ "FRESH" \in tip'[u].flags => db'[u] = Pruned
               /\ tip'[u] # NoEntry /\ "DIRTY" \notin tip'[u].flags => tip'[u].coins = db'[u]
      BY <2>1, FillTip DEF TypeOK
    <2>3. QED
      BY <1>8, <2>1, <2>2 DEF FreshIsTrue, CleanIsEqual, ViewScope, TipFetch
  <1>9. ASSUME NEW t \in Txids, Uncache(t) PROVE IndInv'
    <2>1. TypeOK'
      BY <1>9 DEF Uncache, TypeOK, Entry
    <2>2. TipCoins' = TipCoins
      <3>1. tip[t].coins = db[t]
        BY <1>9 DEF Uncache, CleanIsEqual
      <3>2. \A u \in Txids : (IF tip'[u] = NoEntry THEN db'[u] ELSE tip'[u].coins) = TipCoins[u]
        BY <1>9, <3>1 DEF Uncache, TipCoins, Lookup, TypeOK
      <3>3. QED BY <3>2 DEF TipCoins, Lookup
    <2>3. QED
      BY <1>9, <2>1, <2>2 DEF FreshIsTrue, CleanIsEqual, ViewScope, Uncache, TypeOK
  <1>10. CASE TipFlush
    <2>1. db' \in [Txids -> Value]
      BY <1>10, EntryTypes DEF TipFlush, TypeOK
    <2>2. view = EmptyCache /\ newTxids = {}
      BY <1>10 DEF TipFlush, ViewScope, TypeOK
    <2>3. QED
      BY <1>10, <2>1, <2>2, EmptyInd DEF TipFlush, TypeOK
  <1>11. CASE Restart
    BY <1>11, EmptyInd DEF Restart, TypeOK
  <1>12. CASE UNCHANGED vars
    BY <1>12 DEF vars, TypeOK, FreshIsTrue, CleanIsEqual, ViewScope, TipCoins, Lookup
  <1>13. QED
    BY <1>1, <1>2, <1>3, <1>4, <1>5, <1>6, <1>7, <1>8, <1>9, <1>10, <1>11, <1>12 DEF Next

\* The flags of coins.h are true in every reachable state: FRESH entries have
\* no unspent version below them and entries without DIRTY equal the version
\* below them, whatever blocks are connected, disconnected, flushed or lost.
THEOREM FlagsAreTrue == Spec => [](TypeOK /\ FreshIsTrue /\ CleanIsEqual)
  <1>1. IndInv => TypeOK /\ FreshIsTrue /\ CleanIsEqual
    BY DEF IndInv
  <1>2. QED
    BY <1>1, InitInd, NextInd, PTL DEF Spec

\* Uncache and Flush may forget an entry without DIRTY: it equals the version
\* below it in every reachable state.
THEOREM CleanEntriesEqual == Spec => []CleanIsEqual
  BY FlagsAreTrue, PTL

(* The refinement.                                                          *)

\* A step that keeps the answers of the database and of pcoinsTip and lets
\* the view answer as before is not visible in UtxoSet.
LEMMA ViewCoinsStep ==
    ASSUME IndInv, TipCoins' = TipCoins,
           \A u \in Txids : view'[u] = view[u] \/ view'[u] = FetchCoins(view[u], TipEntry(u))
    PROVE  ViewCoins' = ViewCoins
  <1>1. ASSUME NEW u \in Txids
        PROVE  (IF view'[u] = NoEntry THEN TipCoins'[u] ELSE view'[u].coins) = ViewCoins[u]
    BY <1>1, FetchFacts, OwnFacts
  <1>2. ViewCoins' = [u \in Txids |-> ViewCoins[u]]
    BY <1>1 DEF ViewCoins, Lookup
  <1>3. QED
    BY <1>2 DEF ViewCoins, Lookup

\* Filling pcoinsTip leaves its answers alone.
LEMMA TipCoinsStep ==
    ASSUME IndInv, IndInv', db' = db,
           \A u \in Txids : tip'[u] = tip[u] \/ tip'[u] = TipEntry(u)
    PROVE  TipCoins' = TipCoins
  BY FillTip DEF IndInv, TypeOK

\* Every step of the caches is a step of the single map, or changes none of
\* its answers.
LEMMA StepRefines == IndInv /\ IndInv' /\ [Next]_vars => [Utxo!Next]_(Utxo!vars)
  <1> SUFFICES ASSUME IndInv, IndInv', [Next]_vars PROVE [Utxo!Next]_(Utxo!vars)
    OBVIOUS
  <1> USE DEF Utxo!vars
  <1>0. /\ TipCoins \in [Txids -> Value]
        /\ ViewCoins = [t \in Txids |-> ViewCoins[t]]
        /\ TipCoins = [t \in Txids |-> TipCoins[t]]
    BY DEF IndInv, TypeOK, TipCoins, ViewCoins, Lookup, Entry, CCoinsCacheEntry
  <1>1. ASSUME NEW txs \in SUBSET Txids, BeginConnect(txs) PROVE Utxo!Begin
    <2>1. view = EmptyCache
      BY <1>1 DEF BeginConnect, IndInv, ViewScope
    <2>2. TipCoins' = TipCoins
      BY <1>1, TipCoinsStep DEF BeginConnect
    <2>3. ViewCoins' = ViewCoins
      BY <1>1, <2>1, <2>2, ViewCoinsStep DEF BeginConnect, EmptyCache
    <2>4. QED
      BY <1>1, <2>2, <2>3 DEF BeginConnect, Utxo!Begin, TipGetBestBlock
  <1>2. CASE BeginDisconnect
    <2>1. TipCoins' = TipCoins /\ ViewCoins' = ViewCoins
      BY <1>2 DEF BeginDisconnect, TipCoins, ViewCoins, Lookup
    <2>2. Utxo!Begin
      BY <1>2, <2>1 DEF BeginDisconnect, Utxo!Begin, TipGetBestBlock
    <2>3. QED
      BY <2>2 DEF Utxo!Next
  <1>3. ASSUME NEW t \in Txids, ViewFetch(t) PROVE UNCHANGED Utxo!vars
    <2>1. TipCoins' = TipCoins
      BY <1>3, TipCoinsStep DEF ViewFetch, IndInv, TypeOK
    <2>2. ViewCoins' = ViewCoins
      BY <1>3, <2>1, ViewCoinsStep DEF ViewFetch, IndInv, TypeOK
    <2>3. QED
      BY <1>3, <2>1, <2>2 DEF ViewFetch, TipGetBestBlock
  <1>4. ASSUME NEW t \in Txids, NEW v \in Value, ViewModify(t, v) PROVE Utxo!Change(t, v)
    <2>1. TipCoins' = TipCoins
      BY <1>4, TipCoinsStep DEF ViewModify, IndInv, TypeOK
    <2>2. ASSUME NEW u \in Txids
          PROVE  (IF view'[u] = NoEntry THEN TipCoins[u] ELSE view'[u].coins)
                   = (IF u = t THEN v ELSE ViewCoins[u])
      <3>1. view'[u] = IF u = t THEN ModifyCoins(view[t], TipEntry(t), v) ELSE view[u]
        BY <1>4 DEF ViewModify, IndInv, TypeOK
      <3>2. CASE u = t
        BY <3>1, <3>2, ModifyFacts
      <3>3. CASE u # t
        BY <3>1, <3>3, OwnFacts
      <3> QED
        BY <3>2, <3>3
    <2>3. ViewCoins' = [u \in Txids |-> IF u = t THEN v ELSE ViewCoins[u]]
      BY <2>1, <2>2 DEF ViewCoins, Lookup
    <2>4. ViewCoins' = [ViewCoins EXCEPT ![t] = v]
      BY <1>0, <2>3
    <2>5. QED
      BY <1>4, <2>1, <2>4 DEF ViewModify, Utxo!Change, TipGetBestBlock
  <1>5. ASSUME NEW t \in Txids, NEW cb \in BOOLEAN, NEW v \in Value, ViewAdd(t, cb, v)
        PROVE  Utxo!Change(t, v)
    <2>1. TipCoins' = TipCoins
      BY <1>5 DEF ViewAdd, TipCoins, Lookup
    <2>2. ASSUME NEW u \in Txids
          PROVE  (IF view'[u] = NoEntry THEN TipCoins[u] ELSE view'[u].coins)
                   = (IF u = t THEN v ELSE ViewCoins[u])
      BY <1>5, <2>2, AddFacts, OwnFacts DEF ViewAdd, IndInv, TypeOK
    <2>3. ViewCoins' = [u \in Txids |-> IF u = t THEN v ELSE ViewCoins[u]]
      BY <2>1, <2>2 DEF ViewCoins, Lookup
    <2>4. ViewCoins' = [ViewCoins EXCEPT ![t] = v]
      BY <1>0, <2>3
    <2>5. QED
      BY <1>5, <2>1, <2>4 DEF ViewAdd, Utxo!Change, TipGetBestBlock
  <1>6. ASSUME NEW h \in Blocks, ViewFlush(h) PROVE Utxo!Commit(h)
    <2>1. ASSUME NEW u \in Txids
          PROVE  (IF tip'[u] = NoEntry THEN db[u] ELSE tip'[u].coins) = ViewCoins[u]
      BY <1>6, FlushFacts DEF ViewFlush
    <2>2. TipCoins' = ViewCoins
      BY <1>0, <1>6, <2>1 DEF TipCoins, Lookup, ViewFlush
    <2>3. ViewCoins' = [u \in Txids |-> TipCoins'[u]]
      BY <1>6 DEF ViewCoins, Lookup, ViewFlush, EmptyCache
    <2>4. QED
      BY <1>0, <1>6, <2>2, <2>3, NoHashAssumption DEF ViewFlush, Utxo!Commit, TipGetBestBlock
  <1>7. CASE ViewDrop
    <2>1. TipCoins' = TipCoins
      BY <1>7 DEF ViewDrop, TipCoins, Lookup
    <2>2. ViewCoins' = [u \in Txids |-> TipCoins[u]]
      BY <1>7, <2>1 DEF ViewCoins, Lookup, ViewDrop, EmptyCache
    <2>3. Utxo!Abort
      BY <1>0, <1>7, <2>1, <2>2 DEF ViewDrop, Utxo!Abort, TipGetBestBlock
    <2>4. QED
      BY <2>3 DEF Utxo!Next
  <1>8. ASSUME NEW t \in Txids, TipFetch(t) PROVE UNCHANGED Utxo!vars
    <2>1. TipCoins' = TipCoins
      BY <1>8, TipCoinsStep DEF TipFetch, IndInv, TypeOK
    <2>2. ViewCoins' = ViewCoins
      BY <1>8, <2>1, ViewCoinsStep DEF TipFetch
    <2>3. QED
      BY <1>8, <2>1, <2>2 DEF TipFetch, TipGetBestBlock
  <1>9. ASSUME NEW t \in Txids, Uncache(t) PROVE UNCHANGED Utxo!vars
    <2>1. tip[t].coins = db[t]
      BY <1>9 DEF Uncache, IndInv, CleanIsEqual
    <2>2. \A u \in Txids : (IF tip'[u] = NoEntry THEN db[u] ELSE tip'[u].coins) = TipCoins[u]
      BY <1>9, <2>1 DEF Uncache, TipCoins, Lookup, IndInv, TypeOK
    <2>3. TipCoins' = TipCoins
      BY <1>0, <1>9, <2>2 DEF TipCoins, Lookup, Uncache
    <2>4. ViewCoins' = ViewCoins
      BY <1>9, <2>3, ViewCoinsStep DEF Uncache
    <2>5. QED
      BY <1>9, <2>3, <2>4 DEF Uncache, TipGetBestBlock
  <1>10. CASE TipFlush
    <2>1. view = EmptyCache /\ view' = EmptyCache
      BY <1>10 DEF TipFlush, IndInv, ViewScope
    <2>2. db' = TipCoins
      BY <1>0, <1>10, DbFlushFacts DEF TipFlush
    <2>3. TipCoins' = [u \in Txids |-> db'[u]]
      BY <1>10 DEF TipCoins, Lookup, TipFlush, EmptyCache
    <2>4. TipCoins' = TipCoins
      BY <1>0, <2>2, <2>3
    <2>5. ViewCoins' = ViewCoins
      BY <2>1, <2>4 DEF ViewCoins, Lookup
    <2>6. Utxo!Persist
      BY <1>10, <2>2, <2>4, <2>5 DEF TipFlush, Utxo!Persist, TipGetBestBlock
    <2>7. QED
      BY <2>6 DEF Utxo!Next
  <1>11. CASE Restart
    <2>1. TipCoins' = [u \in Txids |-> db[u]]
      BY <1>11 DEF TipCoins, Lookup, Restart, EmptyCache
    <2>2. TipCoins' = db
      BY <2>1 DEF IndInv, TypeOK
    <2>3. ViewCoins' = db
      BY <1>11, <2>2 DEF ViewCoins, Lookup, Restart, EmptyCache, IndInv, TypeOK
    <2>4. Utxo!Crash
      BY <1>11, <2>2, <2>3 DEF Restart, Utxo!Crash, TipGetBestBlock
    <2>5. QED
      BY <2>4 DEF Utxo!Next
  <1>12. CASE UNCHANGED vars
    BY <1>12 DEF vars, TipCoins, ViewCoins, Lookup, TipGetBestBlock
  <1>13. Utxo!Value = Value
    BY DEF Utxo!Value, Value
  <1>14. QED
    BY <1>1, <1>2, <1>3, <1>4, <1>5, <1>6, <1>7, <1>8, <1>9, <1>10, <1>11, <1>12, <1>13
    DEF Next, Utxo!Next

\* The stack of caches implements the single map: reads are reads of one map,
\* a block's changes are committed together or dropped together, a flush of
\* pcoinsTip makes durable exactly the coins of the block it names, and a
\* restart falls back to the last flush.
THEOREM CachesImplementUtxoSet == Spec => ImplementsUtxoSet
  <1>1. Init => Utxo!Init
    BY DEF Init, Utxo!Init, TipCoins, ViewCoins, Lookup, EmptyCache, TipGetBestBlock
  <1>2. QED
    BY <1>1, InitInd, NextInd, StepRefines, PTL DEF Spec, Utxo!Spec, ImplementsUtxoSet
=============================================================================
