--------------------------- MODULE DiskStateProofs ---------------------------
(***************************************************************************)
(* Proofs about DiskState, for every tree of blocks, number of files and   *)
(* pruning distance, with crashes, power failures and reorganisations.     *)
(*                                                                         *)
(* RestartFindsTip rests on OrderInv: every block in memory is in the      *)
(* database or dirty, and nothing is dirty once the index is written.      *)
(* DataBacked rests on FileInv: only blocks of the last file are not       *)
(* committed, and the database differs from memory only at dirty blocks.   *)
(***************************************************************************)
EXTENDS DiskState, TLAPS

\* A block is its own ancestor.
LEMMA SelfAncestor == \A b \in Block : b \in Ancestors[b]
BY TreeAssumption

\* A parent's ancestors are ancestors.
LEMMA ParentAncestors == \A b \in Block \ {Genesis} : Ancestors[Parent[b]] \subseteq Ancestors[b]
BY TreeAssumption

-----------------------------------------------------------------------------
\* The types that are not Booleans.
TypeSets ==
    /\ seen \subseteq Block /\ data \subseteq seen /\ undo \subseteq data /\ dirty \subseteq seen
    /\ nFile \in [Block -> File] /\ nLastBlockFile \in File
    /\ tip \in Block /\ coinsBest \in Block /\ cache \in {"ok", "lost"}
    /\ caller \in {"none", "chain", "final"}
    /\ pc \in {"run", "index", "unlink", "coins", "down", "broken"}
    /\ setFilesToPrune \subseteq File
    /\ blk \subseteq Copy /\ blkDisk \subseteq blk /\ rev \subseteq Copy /\ revDisk \subseteq rev
    /\ dbSeen \subseteq seen /\ dbData \subseteq dbSeen /\ dbUndo \subseteq dbData
    /\ dbFile \in [Block -> File] /\ dbLast \in File
    /\ coinsDb \in Block \cup {Mixed} /\ coinsDbBest \in Block
    /\ earlier \subseteq (Block \cup {Mixed}) \X Block
    /\ Genesis \notin undo /\ Genesis \notin dbUndo

LEMMA TypeInit == Init => TypeSets
BY TreeAssumption, BoundAssumption DEF Init, TypeSets, File, Copy

LEMMA TypeNext == TypeSets /\ [Next]_vars => TypeSets'
<1> SUFFICES ASSUME TypeSets, [Next]_vars PROVE TypeSets'
    OBVIOUS
<1> USE TreeAssumption, BoundAssumption
<1> USE DEF TypeSets, index, coins, flush, files, tree, coinsdb
<1>1. ASSUME NEW b \in Block, NEW f \in File, StoreBlock(b, f) PROVE TypeSets'
    BY <1>1 DEF StoreBlock, LeaveFile, FlushBlockFile, MarkDirty, Copy
<1>2. ASSUME NEW f \in File, StoreNoSpace(f) PROVE TypeSets'
    BY <1>2 DEF StoreNoSpace, LeaveFile, FlushBlockFile
<1>3. ASSUME NEW b \in Block, ConnectTip(b) PROVE TypeSets'
    BY <1>3 DEF ConnectTip, MarkDirty, Copy
<1>4. CASE DisconnectTip
    BY <1>4 DEF DisconnectTip
<1>5. CASE UpdateTip
    BY <1>5 DEF UpdateTip
<1>6. CASE StartShutdown
    BY <1>6 DEF StartShutdown
<1>7. ASSUME NEW cut \in -1 .. MaxFile - 1, NEW all \in BOOLEAN, FlushStateToDisk(cut, all)
      PROVE  TypeSets'
  <2>1. blkDisk' \subseteq blk' /\ revDisk' \subseteq rev' /\ blk' = blk /\ rev' = rev
    BY <1>7 DEF FlushStateToDisk, FlushBlockFile
  <2>2. setFilesToPrune' \subseteq File
    BY <1>7 DEF FlushStateToDisk, FindFilesToPrune
  <2>3. PICK S \in SUBSET data : PruneOneBlockFile(S)
    BY <1>7 DEF FlushStateToDisk, InFile
  <2>4. /\ data' \subseteq data /\ undo' \subseteq data' /\ undo' \subseteq undo
        /\ dirty' \subseteq seen /\ nFile' \in [Block -> File]
    BY <2>3 DEF PruneOneBlockFile, MarkDirty, File
  <2>5. /\ pc' = "index" /\ caller' \in {"none", "chain", "final"}
        /\ UNCHANGED <<seen, nLastBlockFile, coins, tree, coinsdb>>
    BY <1>7 DEF FlushStateToDisk
  <2> QED
    BY <2>1, <2>2, <2>4, <2>5
<1>8. ASSUME NEW cut \in -1 .. MaxFile - 1, FlushNoSpace(cut) PROVE TypeSets'
    BY <1>8 DEF FlushNoSpace, FindFilesToPrune, PruneOneBlockFile, MarkDirty, InFile, File
<1>9. CASE WriteIndex
    BY <1>9 DEF WriteIndex
<1>10. CASE WriteIndexFails
    BY <1>10 DEF WriteIndexFails, Return
<1>11. CASE UnlinkPrunedFiles
    BY <1>11 DEF UnlinkPrunedFiles, Unlink, Return
<1>12. CASE WriteCoins
    BY <1>12 DEF WriteCoins, Return
<1>13. CASE WriteCoinsFails
    BY <1>13 DEF WriteCoinsFails, Return
<1>14. CASE Restart
  <2>1. /\ coinsDb' \in Block \cup {Mixed} /\ coinsDbBest' \in Block
        /\ coinsBest' \in Block /\ tip' \in Block
        /\ pc' \in {"run", "broken"}
    BY <1>14 DEF Restart
  <2>2. /\ blk' \subseteq Copy /\ blkDisk' \subseteq blk'
        /\ rev' \subseteq Copy /\ revDisk' \subseteq rev'
    BY <1>14 DEF Restart
  <2> QED
    BY <1>14, <2>1, <2>2 DEF Restart
<1>15. CASE UNCHANGED vars
    BY <1>15 DEF vars
<1> HIDE DEF TypeSets, index, coins, flush, files, tree, coinsdb
<1> QED
    BY <1>1, <1>2, <1>3, <1>4, <1>5, <1>6, <1>7, <1>8, <1>9, <1>10, <1>11, <1>12, <1>13,
       <1>14, <1>15 DEF Next

\* The Booleans.
TypeBool == full \in BOOLEAN /\ shutdown \in BOOLEAN

LEMMA BoolNext == TypeBool /\ [Next]_vars => TypeBool'
<1> SUFFICES ASSUME TypeBool, [Next]_vars PROVE TypeBool'
    OBVIOUS
<1>1. full' \in BOOLEAN
    BY Zenon DEF TypeBool, Next, vars, flush, StoreBlock, StoreNoSpace, ConnectTip, DisconnectTip,
       UpdateTip, StartShutdown, FlushStateToDisk, FlushNoSpace, WriteIndex, WriteIndexFails,
       UnlinkPrunedFiles, WriteCoins, WriteCoinsFails, Restart, Return
<1>2. shutdown' \in BOOLEAN
    BY Zenon DEF TypeBool, Next, vars, StoreBlock, StoreNoSpace, ConnectTip, DisconnectTip,
       UpdateTip, StartShutdown, FlushStateToDisk, FlushNoSpace, WriteIndex, WriteIndexFails,
       UnlinkPrunedFiles, WriteCoins, WriteCoinsFails, Restart
<1> QED
    BY <1>1, <1>2 DEF TypeBool

\* The types of DiskState, and that undo data belongs to blocks with data and
\* those to blocks seen, in memory and in the database.
THEOREM Types == Spec => []TypeOK
<1>1. Init => TypeSets /\ TypeBool
    BY TypeInit DEF Init, TypeBool
<1>2. TypeSets /\ TypeBool /\ [Next]_vars => (TypeSets /\ TypeBool)'
    BY TypeNext, BoolNext
<1>3. TypeSets /\ TypeBool => TypeOK
    BY DEF TypeSets, TypeBool, TypeOK
<1> QED
    BY <1>1, <1>2, <1>3, PTL DEF Spec

-----------------------------------------------------------------------------
\* What makes a restart find the tip: every block of the index in memory is in
\* the database or dirty, so that once the index is written the coins' block and
\* everything below it are in the database.
OrderInv ==
    /\ seen \subseteq dbSeen \cup dirty
    /\ pc \in {"unlink", "coins"} => dirty = {}
    /\ Ancestors[tip] \subseteq seen /\ Ancestors[coinsBest] \subseteq seen
    /\ cache = "ok"
    /\ RestartFindsTip

LEMMA OrderInit == Init => OrderInv
BY TreeAssumption DEF Init, OrderInv, RestartFindsTip

\* A step that leaves the coins database alone and loses nothing of the index
\* database keeps RestartFindsTip.
LEMMA FindsTipKept ==
    RestartFindsTip /\ UNCHANGED coinsdb /\ dbSeen \subseteq dbSeen' => RestartFindsTip'
BY DEF RestartFindsTip, coinsdb

LEMMA OrderNext ==
    ASSUME FailAt \cap {"index", "coins"} = {}, TypeSets, OrderInv, [Next]_vars
    PROVE  OrderInv'
<1> USE TreeAssumption
<1> USE DEF index, coins, flush, files, tree, coinsdb
<1>1. ASSUME NEW b \in Block, NEW f \in File, StoreBlock(b, f) PROVE OrderInv'
    BY <1>1, FindsTipKept DEF StoreBlock, MarkDirty, OrderInv
<1>2. ASSUME NEW f \in File, StoreNoSpace(f) PROVE OrderInv'
    BY <1>2, FindsTipKept DEF StoreNoSpace, OrderInv
<1>3. ASSUME NEW b \in Block, ConnectTip(b) PROVE OrderInv'
  <2>1. Ancestors[b] \subseteq seen
    BY <1>3 DEF ConnectTip, OrderInv, TypeSets
  <2> QED
    BY <1>3, <2>1, FindsTipKept DEF ConnectTip, MarkDirty, OrderInv
<1>4. CASE DisconnectTip
  <2>1. tip \in Block \ {Genesis}
    BY <1>4 DEF DisconnectTip, TypeSets
  <2>2. Ancestors[Parent[tip]] \subseteq seen
    BY <2>1, ParentAncestors DEF OrderInv
  <2> QED
    BY <1>4, <2>2, FindsTipKept DEF DisconnectTip, OrderInv
<1>5. CASE UpdateTip
    BY <1>5, FindsTipKept DEF UpdateTip, OrderInv
<1>6. CASE StartShutdown
    BY <1>6, FindsTipKept DEF StartShutdown, OrderInv
<1>7. ASSUME NEW cut \in -1 .. MaxFile - 1, NEW all \in BOOLEAN, FlushStateToDisk(cut, all)
      PROVE  OrderInv'
    BY <1>7, FindsTipKept DEF FlushStateToDisk, PruneOneBlockFile, MarkDirty, OrderInv
<1>8. ASSUME NEW cut \in -1 .. MaxFile - 1, FlushNoSpace(cut) PROVE OrderInv'
    BY <1>8, FindsTipKept DEF FlushNoSpace, PruneOneBlockFile, MarkDirty, OrderInv
<1>9. CASE WriteIndex
    BY <1>9, FindsTipKept DEF WriteIndex, OrderInv
<1>10. CASE WriteIndexFails
    BY <1>10 DEF WriteIndexFails
<1>11. CASE UnlinkPrunedFiles
    BY <1>11, FindsTipKept DEF UnlinkPrunedFiles, Return, OrderInv
<1>12. CASE WriteCoins
  <2>1. Ancestors[coinsBest] \subseteq dbSeen
    BY <1>12 DEF WriteCoins, OrderInv
  <2>2. coinsDb # Mixed
    <3>1. <<coinsDb, coinsDbBest>> \in earlier \cup {<<coinsDb, coinsDbBest>>}
      OBVIOUS
    <3>2. coinsDb = coinsDbBest
      BY <3>1 DEF OrderInv, RestartFindsTip
    <3> QED
      BY <3>2 DEF TypeSets
  <2>3. RestartFindsTip'
    BY <1>12, <2>1, <2>2 DEF WriteCoins, OrderInv, RestartFindsTip
  <2> QED
    BY <1>12, <2>3 DEF WriteCoins, Return, OrderInv
<1>13. CASE WriteCoinsFails
    BY <1>13, FindsTipKept DEF WriteCoinsFails, Return, OrderInv
<1>14. CASE Restart
  <2>1. PICK state \in {<<coinsDb, coinsDbBest>>} \cup earlier :
           /\ coinsDb' = state[1] /\ coinsDbBest' = state[2] /\ coinsBest' = state[2]
           /\ IF state[2] \in dbSeen THEN tip' = state[2] /\ pc' = "run"
              ELSE tip' = Genesis /\ pc' = "broken"
    BY <1>14 DEF Restart
  <2>2. state[1] = state[2] /\ Ancestors[state[2]] \subseteq dbSeen /\ state[2] \in Block
    BY DEF OrderInv, RestartFindsTip, TypeSets
  <2>3. state[2] \in dbSeen
    BY <2>2, SelfAncestor
  <2>4. RestartFindsTip'
    BY <1>14, <2>1, <2>2 DEF Restart, RestartFindsTip
  <2> QED
    BY <1>14, <2>1, <2>2, <2>3, <2>4 DEF Restart, OrderInv
<1>15. CASE UNCHANGED vars
    BY <1>15, FindsTipKept DEF vars, OrderInv
<1> HIDE DEF index, coins, flush, files, tree, coinsdb
<1> QED
    BY <1>1, <1>2, <1>3, <1>4, <1>5, <1>6, <1>7, <1>8, <1>9, <1>10, <1>11, <1>12, <1>13,
       <1>14, <1>15 DEF Next

\* If no database write fails, then whenever the process or the power stops, the
\* coins database holds the coins of the block it names and the block index has
\* that block and all below it (the order of writes in FlushStateToDisk).
THEOREM CrashFindsTip ==
    FailAt \cap {"index", "coins"} = {} => (Spec => []RestartFindsTip)
<1> SUFFICES ASSUME FailAt \cap {"index", "coins"} = {} PROVE Spec => []RestartFindsTip
    OBVIOUS
<1>1. Init => TypeSets /\ OrderInv
    BY TypeInit, OrderInit
<1>2. TypeSets /\ OrderInv /\ [Next]_vars => (TypeSets /\ OrderInv)'
    BY TypeNext, OrderNext
<1>3. OrderInv => RestartFindsTip
    BY DEF OrderInv
<1> QED
    BY <1>1, <1>2, <1>3, PTL DEF Spec

-----------------------------------------------------------------------------
\* What makes files back the index: blocks outside the last file are committed,
\* and the last file is too while the index is written; where the database has
\* another place for a block than memory, it is in an older file of which memory
\* has nothing left (Elsewhere), and such a file is not pruned again; what is to
\* be unlinked holds nothing any more.
Elsewhere(b, d, n) == dbFile[b] < nLastBlockFile /\ \A c \in d : n[c] # dbFile[b]
Placed(b, d, n) == (b \in d /\ dbFile[b] = n[b]) \/ Elsewhere(b, d, n)

FileInv ==
    /\ \A b \in data : <<b, nFile[b]>> \in blk
    /\ \A b \in data : nFile[b] = nLastBlockFile \/ <<b, nFile[b]>> \in blkDisk
    /\ pc = "index" => \A b \in data : <<b, nFile[b]>> \in blkDisk /\ nFile[b] \notin setFilesToPrune
    /\ pc = "index" => \A b \in dbData \ dirty : dbFile[b] \notin setFilesToPrune
    /\ pc = "unlink" => \A b \in dbData : dbFile[b] \notin setFilesToPrune
    /\ pc = "unlink" => \A b \in data : nFile[b] \notin setFilesToPrune
    /\ \A b \in dbData : Placed(b, data, nFile)
    /\ \A b \in dbData : <<b, dbFile[b]>> \in blkDisk

LEMMA FileInit == Init => FileInv
BY TreeAssumption DEF Init, FileInv, Placed

\* What PruneOneBlockFile does to the index and why FileInv survives it.
LEMMA PruneFacts ==
    ASSUME TypeSets, FileInv, NEW cut,
           PruneOneBlockFile(UNION {InFile(f) : f \in FindFilesToPrune(cut)})
    PROVE  /\ \A b \in data' : /\ b \in data /\ nFile'[b] = nFile[b]
                               /\ nFile[b] \notin FindFilesToPrune(cut)
           /\ \A b \in dbData \ dirty' : dbFile[b] \notin FindFilesToPrune(cut)
           /\ \A b \in dbData : Placed(b, data', nFile')
<1> DEFINE P == FindFilesToPrune(cut)
<1> DEFINE S == UNION {InFile(f) : f \in P}
<1>1. \A f \in P : f < nLastBlockFile /\ \E c \in data : nFile[c] = f
    BY DEF FindFilesToPrune, InFile
<1>2. \A b : b \in S <=> b \in data /\ nFile[b] \in P
  <2> HIDE DEF P
  <2>1. \A f, b : b \in InFile(f) <=> b \in data /\ nFile[b] = f
    BY DEF InFile
  <2>2. \A b : b \in S <=> \E f \in P : b \in InFile(f)
    OBVIOUS
  <2> QED
    BY <2>1, <2>2
<1>3. /\ data' = data \ S /\ dirty' = dirty \cup S
      /\ nFile' = [b \in Block |-> IF b \in S THEN 0 ELSE nFile[b]]
    BY DEF PruneOneBlockFile, MarkDirty
<1> HIDE DEF P, S
<1>4. \A b \in Block \ S : (b \in data' <=> b \in data) /\ nFile'[b] = nFile[b]
    BY <1>3
<1>5. \A b \in data' : b \in data /\ b \in Block \ S /\ nFile[b] \notin P
    BY <1>2, <1>3 DEF TypeSets
<1>6. \A b \in dbData : (b \in data /\ dbFile[b] = nFile[b]) \/ Elsewhere(b, data, nFile)
    BY DEF FileInv, Placed
<1>7. \A b \in dbData \ dirty' : dbFile[b] \notin P
    BY <1>1, <1>2, <1>3, <1>6 DEF Elsewhere
<1>8. ASSUME NEW b \in dbData PROVE Placed(b, data', nFile')
  <2>1. CASE b \in data /\ dbFile[b] = nFile[b] /\ b \in S
    BY <1>1, <1>2, <1>4, <1>5, <2>1 DEF Placed, Elsewhere
  <2>2. CASE b \in data /\ dbFile[b] = nFile[b] /\ b \notin S
    BY <1>4, <2>2 DEF TypeSets, Placed
  <2>3. CASE Elsewhere(b, data, nFile)
    BY <1>4, <1>5, <2>3 DEF Placed, Elsewhere
  <2> QED
    BY <1>6, <2>1, <2>2, <2>3
<1>9. \A b \in data' : b \in data /\ nFile'[b] = nFile[b] /\ nFile[b] \notin P
    BY <1>4, <1>5
<1> QED
    BY <1>7, <1>8, <1>9, Zenon DEF P

LEMMA FileNext ==
    ASSUME "block" \notin FailAt, TypeSets, FileInv, [Next]_vars
    PROVE  FileInv'
<1> USE BoundAssumption
<1>0. nLastBlockFile \in Nat /\ File \subseteq Nat
    BY DEF TypeSets, File
<1>a. \A c \in dbData : dbFile[c] \in Nat
    BY <1>0 DEF TypeSets
<1>b. \A c \in dbData : (c \in data /\ dbFile[c] = nFile[c]) \/ Elsewhere(c, data, nFile)
    BY DEF FileInv, Placed
<1> USE DEF index, coins, flush, files, tree, coinsdb
<1>1. ASSUME NEW b \in Block, NEW f \in File, StoreBlock(b, f) PROVE FileInv'
  <2>1. nLastBlockFile <= f /\ nLastBlockFile' = f
    BY <1>0, <1>1 DEF StoreBlock
  <2>2. \A c \in Block, h \in File :
          <<c, h>> \in blkDisk /\ <<c, h>> # <<b, f>> => <<c, h>> \in blkDisk'
    BY <1>1 DEF StoreBlock, LeaveFile, FlushBlockFile
  <2>3. \A c \in data : c # b /\ nFile'[c] = nFile[c] /\ <<c, nFile[c]>> \in blk'
    BY <1>1 DEF StoreBlock, TypeSets, FileInv
  <2>4. \A c \in data : nFile[c] = f \/ <<c, nFile[c]>> \in blkDisk'
    BY <1>1, <2>2, <2>3 DEF StoreBlock, LeaveFile, FlushBlockFile, TypeSets, FileInv
  <2>5. nFile'[b] = f /\ data' = data \cup {b} /\ <<b, f>> \in blk'
    BY <1>1 DEF StoreBlock, TypeSets
  <2>6. \A c \in dbData : (c \in data /\ c # b /\ dbFile[c] = nFile[c]) \/ (Elsewhere(c, data, nFile) /\ dbFile[c] < f)
    <3>1. b \notin data
      BY <1>1 DEF StoreBlock
    <3>2. \A c \in dbData : Elsewhere(c, data, nFile) => dbFile[c] < f
      BY <1>0, <1>a, <2>1 DEF Elsewhere
    <3> QED
      BY <1>b, <3>1, <3>2
  <2>7. \A c \in dbData : <<c, dbFile[c]>> # <<b, f>>
    <3> TAKE c \in dbData
    <3>1. dbFile[c] \in Nat /\ f \in Nat
      BY <1>0, <1>a
    <3>2. c # b \/ dbFile[c] < f
      BY <2>6
    <3>3. c # b \/ dbFile[c] # f
      BY <3>1, <3>2
    <3> QED
      BY <3>3
  <2>8. pc' = "run" /\ dbData' = dbData /\ dbFile' = dbFile /\ dirty' = dirty \cup {b}
    BY <1>1 DEF StoreBlock, MarkDirty
  <2>9. ASSUME NEW c \in dbData PROVE Placed(c, data, nFile)'
    <3>1. CASE c \in data /\ dbFile[c] = nFile[c]
      BY <2>3, <2>5, <2>8, <3>1 DEF Placed
    <3>2. CASE Elsewhere(c, data, nFile) /\ dbFile[c] < f
      <4>1. dbFile[c] # f
        BY <1>0, <1>a, <3>2
      <4>2. \A e \in data' : nFile'[e] # dbFile[c]
        BY <2>3, <2>5, <3>2, <4>1 DEF Elsewhere
      <4> QED
        BY <2>1, <2>8, <3>2, <4>2 DEF Placed, Elsewhere
    <3> QED
      BY <2>6, <3>1, <3>2
  <2>10. \A c \in dbData : <<c, dbFile[c]>> \in blkDisk'
    BY <2>2, <2>7 DEF TypeSets, FileInv
  <2> QED
    BY <2>1, <2>3, <2>4, <2>5, <2>8, <2>9, <2>10 DEF FileInv
<1>2. ASSUME NEW f \in File, StoreNoSpace(f) PROVE FileInv'
  <2>1. nLastBlockFile <= f /\ nLastBlockFile' = f
    BY <1>0, <1>2 DEF StoreNoSpace
  <2>2. /\ UNCHANGED <<data, nFile, dirty, blk, pc, setFilesToPrune, dbData, dbFile>>
        /\ blkDisk' = LeaveFile(blkDisk, blk, f)
    BY <1>2 DEF StoreNoSpace
  <2>3. blkDisk \subseteq blkDisk'
    BY <2>2 DEF LeaveFile, FlushBlockFile
  <2>4. \A b \in data : nFile[b] = f \/ <<b, nFile[b]>> \in blkDisk'
    BY <2>2 DEF LeaveFile, FlushBlockFile, FileInv
  <2>5. ASSUME NEW b \in dbData PROVE Placed(b, data, nFile)'
    <3>1. CASE b \in data /\ dbFile[b] = nFile[b]
      BY <2>2, <3>1 DEF Placed
    <3>2. CASE Elsewhere(b, data, nFile)
      <4>1. dbFile[b] < nLastBlockFile /\ dbFile[b] \in Nat /\ f \in Nat /\ nLastBlockFile \in Nat
        BY <1>0, <1>a, <3>2 DEF Elsewhere
      <4>2. dbFile[b] < nLastBlockFile'
        BY <2>1, <4>1
      <4> QED
        BY <2>2, <3>2, <4>2 DEF Placed, Elsewhere
    <3> QED
      BY <1>b, <3>1, <3>2
  <2>6. pc = "run"
    BY <1>2 DEF StoreNoSpace
  <2> QED
    BY <2>1, <2>2, <2>3, <2>4, <2>5, <2>6 DEF FileInv
<1>3. ASSUME NEW b \in Block, ConnectTip(b) PROVE FileInv'
    BY <1>3 DEF ConnectTip, MarkDirty, FileInv, Placed, Elsewhere
<1>4. CASE DisconnectTip
    BY <1>4 DEF DisconnectTip, FileInv, Placed, Elsewhere
<1>5. CASE UpdateTip
    BY <1>5 DEF UpdateTip, FileInv, Placed, Elsewhere
<1>6. CASE StartShutdown
    BY <1>6 DEF StartShutdown, FileInv, Placed, Elsewhere
<1>7. ASSUME NEW cut \in -1 .. MaxFile - 1, NEW all \in BOOLEAN, FlushStateToDisk(cut, all)
      PROVE  FileInv'
  <2>1. /\ PruneOneBlockFile(UNION {InFile(f) : f \in FindFilesToPrune(cut)})
        /\ setFilesToPrune' = FindFilesToPrune(cut) /\ pc' = "index"
        /\ blkDisk' = FlushBlockFile(blkDisk, blk) /\ blk' = blk
        /\ UNCHANGED <<nLastBlockFile, dbData, dbFile>>
    BY <1>7 DEF FlushStateToDisk, tree
  <2>2. \A b \in data : <<b, nFile[b]>> \in blkDisk'
    BY <2>1 DEF FlushBlockFile, FileInv
  <2>3. blkDisk \subseteq blkDisk'
    BY <2>1 DEF FlushBlockFile
  <2> QED
    BY <2>1, <2>2, <2>3, PruneFacts DEF FileInv, Placed, Elsewhere
<1>8. ASSUME NEW cut \in -1 .. MaxFile - 1, FlushNoSpace(cut) PROVE FileInv'
  <2>1. /\ PruneOneBlockFile(UNION {InFile(f) : f \in FindFilesToPrune(cut)})
        /\ pc' \in {"run", "down"}
        /\ UNCHANGED <<nLastBlockFile, blk, blkDisk, dbData, dbFile>>
    BY <1>8 DEF FlushNoSpace, files, tree
  <2> QED
    BY <2>1, PruneFacts DEF FileInv, Placed, Elsewhere
<1>9. CASE WriteIndex
    BY <1>9 DEF WriteIndex, TypeSets, FileInv, Placed, Elsewhere
<1>10. CASE WriteIndexFails
    BY <1>10 DEF WriteIndexFails, Return, FileInv, Placed, Elsewhere
<1>11. CASE UnlinkPrunedFiles
    BY <1>11 DEF UnlinkPrunedFiles, Unlink, Return, FileInv, Placed, Elsewhere
<1>12. CASE WriteCoins
    BY <1>12 DEF WriteCoins, Return, FileInv, Placed, Elsewhere
<1>13. CASE WriteCoinsFails
    BY <1>13 DEF WriteCoinsFails, Return, FileInv, Placed, Elsewhere
<1>14. CASE Restart
  <2>1. /\ blkDisk' = blkDisk \cap Referred(dbData) /\ pc' \in {"run", "broken"}
        /\ data' = dbData /\ nFile' = dbFile /\ dbData' = dbData /\ dbFile' = dbFile
    BY <1>14 DEF Restart
  <2>2. \E lost : blk' = (blk \cap Referred(dbData)) \ (lost \ blkDisk)
    BY <1>14 DEF Restart
  <2>3. blkDisk \subseteq blk
    BY DEF TypeSets
  <2>4. \A b \in dbData : <<b, dbFile[b]>> \in blkDisk' /\ <<b, dbFile[b]>> \in blk'
    BY <2>1, <2>2, <2>3 DEF Referred, FileInv
  <2> QED
    BY <2>1, <2>4 DEF FileInv, Placed
<1>15. CASE UNCHANGED vars
    BY <1>15 DEF vars, FileInv, Placed, Elsewhere
<1> HIDE DEF index, coins, flush, files, tree, coinsdb
<1> QED
    BY <1>1, <1>2, <1>3, <1>4, <1>5, <1>6, <1>7, <1>8, <1>9, <1>10, <1>11, <1>12, <1>13,
       <1>14, <1>15 DEF Next

\* If no block write fails, every block the index database says is in a file is in
\* that file on the disk, also during pruning, and also when FlushStateToDisk has
\* emptied setDirtyBlockIndex for an index write that failed.
THEOREM IndexIsBacked ==
    "block" \notin FailAt => (Spec => []DataBacked)
<1> SUFFICES ASSUME "block" \notin FailAt PROVE Spec => []DataBacked
    OBVIOUS
<1>1. Init => TypeSets /\ FileInv
    BY TypeInit, FileInit
<1>2. TypeSets /\ FileInv /\ [Next]_vars => (TypeSets /\ FileInv)'
    BY TypeNext, FileNext
<1>3. FileInv => DataBacked
    BY DEF FileInv, DataBacked, Referred
<1> QED
    BY <1>1, <1>2, <1>3, PTL DEF Spec
=============================================================================
