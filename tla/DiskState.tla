----------------------------- MODULE DiskState -------------------------------
(***************************************************************************)
(* What the node keeps on disk and in which order it writes it: block and  *)
(* undo files, the block index database and the coins database             *)
(* (FlushStateToDisk and its helpers in src/src/main.cpp), with pruning,   *)
(* process crashes, power failures, failing writes, and the restart that   *)
(* rebuilds the memory from the disk (LoadBlockIndexDB).                   *)
(*                                                                         *)
(* Bytes of a file may be lost in a power failure until the file is        *)
(* committed (FileCommit).  The block index is written with sync, the      *)
(* coins without: a power failure may take the coins database back to an   *)
(* earlier batch.  The coins of a block are named by the block.            *)
(***************************************************************************)
EXTENDS Integers

CONSTANTS Block, Genesis, Parent, Ancestors, Height,
          MaxFile,             \* bound: block files 0 .. MaxFile
          MIN_BLOCKS_TO_KEEP,
          Mixed,               \* coins that belong to no block
          Prune,               \* fPruneMode
          Reorg,               \* whether blocks are disconnected
          FailAt,              \* the writes that may fail
          PowerLoss            \* whether the machine may lose power

File == 0 .. MaxFile
Copy == Block \X File

ASSUME TreeAssumption ==
    /\ Genesis \in Block /\ Mixed \notin Block
    /\ Parent \in [Block \ {Genesis} -> Block]
    /\ Ancestors \in [Block -> SUBSET Block]
    /\ Ancestors[Genesis] = {Genesis}
    /\ \A b \in Block \ {Genesis} : Ancestors[b] = Ancestors[Parent[b]] \cup {b}
    /\ Height \in [Block -> Nat]

ASSUME BoundAssumption ==
    /\ MaxFile \in Nat /\ MIN_BLOCKS_TO_KEEP \in Nat
    /\ {Prune, Reorg, PowerLoss} \subseteq BOOLEAN
    /\ FailAt \subseteq {"block", "space", "index", "coins"}

VARIABLES
    seen, data, undo,   \* in memory: blocks with nTx, BLOCK_HAVE_DATA, BLOCK_HAVE_UNDO
    nFile,              \* the file of a block with data
    dirty,              \* setDirtyBlockIndex
    nLastBlockFile,
    tip, coinsBest,     \* chainActive.Tip(), pcoinsTip->GetBestBlock()
    cache,              \* whether pcoinsTip still holds its changes: "ok" or "lost"
    caller,             \* who is in FlushStateToDisk: "none", "chain" or "final"
    pc,                 \* how far FlushStateToDisk is
    full,               \* fDoFullFlush
    setFilesToPrune,
    shutdown,           \* fRequestShutdown
    blk, rev,           \* the blocks and undo data in the files
    blkDisk, revDisk,   \* those of them that are committed
    dbSeen, dbData, dbUndo, dbFile, dbLast,   \* the block index database
    coinsDb, coinsDbBest,                     \* the coins database
    earlier             \* what a power failure may take the coins database back to

index == <<seen, data, undo, nFile, dirty, nLastBlockFile>>
coins == <<tip, coinsBest, cache>>
flush == <<caller, pc, full, setFilesToPrune>>
files == <<blk, rev, blkDisk, revDisk>>
tree == <<dbSeen, dbData, dbUndo, dbFile, dbLast>>
coinsdb == <<coinsDb, coinsDbBest, earlier>>
vars == <<index, coins, flush, shutdown, files, tree, coinsdb>>

\* InitBlockIndex: genesis stored, connected and flushed.
Init ==
    /\ seen = {Genesis} /\ data = {Genesis} /\ undo = {}
    /\ nFile = [b \in Block |-> 0] /\ dirty = {} /\ nLastBlockFile = 0
    /\ tip = Genesis /\ coinsBest = Genesis /\ cache = "ok"
    /\ caller = "none" /\ pc = "run" /\ full = FALSE /\ setFilesToPrune = {}
    /\ shutdown = FALSE
    /\ blk = {<<Genesis, 0>>} /\ blkDisk = {<<Genesis, 0>>}
    /\ rev = {} /\ revDisk = {}
    /\ dbSeen = {Genesis} /\ dbData = {Genesis} /\ dbUndo = {}
    /\ dbFile = [b \in Block |-> 0] /\ dbLast = 0
    /\ coinsDb = Genesis /\ coinsDbBest = Genesis /\ earlier = {}

-----------------------------------------------------------------------------
(* Storing and connecting blocks.                                           *)

\* FlushBlockFile: FileCommit on the last file.
FlushBlockFile(disk, bytes) == disk \cup {p \in bytes : p[2] = nLastBlockFile}

\* Mutant: the file that is left behind is not committed.
LeaveFileOpen(disk, bytes, f) == disk

\* FindBlockPos goes on in file f, and commits the one it leaves.
LeaveFile(disk, bytes, f) == IF f = nLastBlockFile THEN disk ELSE FlushBlockFile(disk, bytes)

\* Mutant: setDirtyBlockIndex.insert is forgotten.
MarkDirtyNot(S) == dirty

MarkDirty(S) == dirty \cup S

\* AcceptBlock: FindBlockPos in the last file or, when the block does not fit, in
\* the next one; WriteBlockToDisk, which may fail without stopping AcceptBlock;
\* ReceivedBlockTransactions.
StoreBlock(b, f) ==
    /\ pc = "run" /\ caller = "none"
    /\ b \notin data
    /\ f \in {nLastBlockFile, nLastBlockFile + 1}
    /\ nLastBlockFile' = f
    /\ nFile' = [nFile EXCEPT ![b] = f]
    /\ seen' = seen \cup {b} /\ data' = data \cup {b} /\ dirty' = MarkDirty({b})
    /\ blkDisk' = LeaveFile(blkDisk, blk, f) \ {<<b, f>>}
    /\ revDisk' = LeaveFile(revDisk, rev, f)
    /\ \/ blk' = blk \cup {<<b, f>>} /\ shutdown' = shutdown
       \/ "block" \in FailAt /\ blk' = blk \ {<<b, f>>} /\ shutdown' = TRUE
    /\ UNCHANGED <<undo, rev, coins, flush, tree, coinsdb>>

\* AcceptBlock when FindBlockPos finds no space for the block.
StoreNoSpace(f) ==
    /\ "space" \in FailAt
    /\ pc = "run" /\ caller = "none"
    /\ f \in {nLastBlockFile, nLastBlockFile + 1}
    /\ nLastBlockFile' = f
    /\ blkDisk' = LeaveFile(blkDisk, blk, f) /\ revDisk' = LeaveFile(revDisk, rev, f)
    /\ shutdown' = TRUE
    /\ UNCHANGED <<seen, data, undo, nFile, dirty, blk, rev, coins, flush, tree, coinsdb>>

\* ConnectTip up to view.Flush: ConnectBlock writes the undo data next to the
\* block, unless the index knows where it is, and pcoinsTip moves.
ConnectTip(b) ==
    /\ pc = "run" /\ caller = "none" /\ ~shutdown
    /\ b \in data \ {Genesis} /\ Parent[b] = tip
    /\ IF b \in undo THEN UNCHANGED <<rev, revDisk, undo, dirty>>
       ELSE /\ rev' = rev \cup {<<b, nFile[b]>>} /\ revDisk' = revDisk \ {<<b, nFile[b]>>}
            /\ undo' = undo \cup {b} /\ dirty' = MarkDirty({b})
    /\ coinsBest' = b
    /\ caller' = "chain"
    /\ UNCHANGED <<seen, data, nFile, nLastBlockFile, tip, cache, pc, full, setFilesToPrune>>
    /\ UNCHANGED <<shutdown, blk, blkDisk, tree, coinsdb>>

\* DisconnectTip up to view.Flush: needs the block and its undo data.
DisconnectTip ==
    /\ Reorg
    /\ pc = "run" /\ caller = "none" /\ ~shutdown
    /\ tip \in data \cap undo /\ <<tip, nFile[tip]>> \in blk \cap rev
    /\ coinsBest' = Parent[tip]
    /\ caller' = "chain"
    /\ UNCHANGED <<index, tip, cache, pc, full, setFilesToPrune, shutdown, files, tree, coinsdb>>

\* FlushStateToDisk has returned true; UpdateTip.
UpdateTip ==
    /\ pc = "run" /\ caller = "chain"
    /\ tip' = coinsBest
    /\ caller' = "none"
    /\ UNCHANGED <<index, coinsBest, cache, pc, full, setFilesToPrune, shutdown>>
    /\ UNCHANGED <<files, tree, coinsdb>>

\* StartShutdown: by the user, or AbortNode when undo data cannot be written.
StartShutdown ==
    /\ pc = "run" /\ caller = "none" /\ ~shutdown
    /\ shutdown' = TRUE
    /\ UNCHANGED <<index, coins, flush, files, tree, coinsdb>>

-----------------------------------------------------------------------------
(* FlushStateToDisk.                                                        *)

InFile(f) == {b \in data : nFile[b] = f}

\* FindFilesToPrune: the files that may go, oldest first, up to file cut;
\* nPruneAfterHeight is MIN_BLOCKS_TO_KEEP, cut = -1 is fCheckForPruning unset.
FindFilesToPrune(cut) ==
    IF ~Prune \/ Height[tip] <= MIN_BLOCKS_TO_KEEP THEN {}
    ELSE {f \in File : /\ f < nLastBlockFile /\ f <= cut /\ InFile(f) # {}
                       /\ \A b \in InFile(f) : Height[b] <= Height[tip] - MIN_BLOCKS_TO_KEEP}

\* Mutant: BLOCK_HAVE_UNDO stays.
PruneDataOnly(S) ==
    /\ data' = data \ S /\ undo' = undo
    /\ nFile' = [b \in Block |-> IF b \in S THEN 0 ELSE nFile[b]]
    /\ dirty' = MarkDirty(S)

\* PruneOneBlockFile on the blocks S of the files to prune.
PruneOneBlockFile(S) ==
    /\ data' = data \ S /\ undo' = undo \ S
    /\ nFile' = [b \in Block |-> IF b \in S THEN 0 ELSE nFile[b]]
    /\ dirty' = MarkDirty(S)

\* FlushStateToDisk up to FlushBlockFile, when all or at least the block index is
\* to be written: an update of the tip only asks for all, and Shutdown does.
FlushStateToDisk(cut, all) ==
    LET P == FindFilesToPrune(cut)
    IN  /\ pc = "run"
        /\ all \/ caller = "none"
        /\ PruneOneBlockFile(UNION {InFile(f) : f \in P})
        /\ full' = (all \/ P # {}) /\ setFilesToPrune' = P
        /\ blkDisk' = FlushBlockFile(blkDisk, blk) /\ revDisk' = FlushBlockFile(revDisk, rev)
        /\ pc' = "index"
        /\ caller' = IF caller = "none" /\ shutdown /\ all THEN "final" ELSE caller
        /\ UNCHANGED <<seen, nLastBlockFile, coins, shutdown, blk, rev, tree, coinsdb>>

\* FlushStateToDisk when CheckDiskSpace(0) fails: the index is pruned already.
FlushNoSpace(cut) ==
    /\ "space" \in FailAt
    /\ pc = "run"
    /\ PruneOneBlockFile(UNION {InFile(f) : f \in FindFilesToPrune(cut)})
    /\ pc' = IF caller = "none" /\ shutdown THEN "down" ELSE "run"
    /\ caller' = "none" /\ shutdown' = TRUE
    /\ UNCHANGED <<seen, nLastBlockFile, coins, full, setFilesToPrune, files, tree, coinsdb>>

\* FlushStateToDisk returns: true to ConnectTip or DisconnectTip, which go on
\* with UpdateTip, or false; after the one of Shutdown the process ends.
Return(ok) ==
    /\ pc' = IF caller = "final" THEN "down" ELSE "run"
    /\ caller' = IF caller = "chain" /\ ok THEN "chain" ELSE "none"
    /\ full' = FALSE /\ setFilesToPrune' = {}

\* WriteBatchSync.  setDirtyBlockIndex is emptied before the write.
WriteIndex ==
    /\ pc = "index"
    /\ dirty' = {}
    /\ dbSeen' = dbSeen \cup dirty
    /\ dbData' = (dbData \ dirty) \cup (data \cap dirty)
    /\ dbUndo' = (dbUndo \ dirty) \cup (undo \cap dirty)
    /\ dbFile' = [b \in Block |-> IF b \in dirty THEN nFile[b] ELSE dbFile[b]]
    /\ dbLast' = nLastBlockFile
    /\ pc' = "unlink"
    /\ UNCHANGED <<seen, data, undo, nFile, nLastBlockFile, coins, caller, full>>
    /\ UNCHANGED <<setFilesToPrune, shutdown, files, coinsdb>>

WriteIndexFails ==
    /\ "index" \in FailAt
    /\ pc = "index"
    /\ dirty' = {}
    /\ shutdown' = TRUE
    /\ Return(FALSE)
    /\ UNCHANGED <<seen, data, undo, nFile, nLastBlockFile, coins, files, tree, coinsdb>>

Unlink(copies) == {p \in copies : p[2] \notin setFilesToPrune}

UnlinkPrunedFiles ==
    /\ pc = "unlink"
    /\ blk' = Unlink(blk) /\ rev' = Unlink(rev)
    /\ blkDisk' = Unlink(blkDisk) /\ revDisk' = Unlink(revDisk)
    /\ IF full THEN pc' = "coins" /\ UNCHANGED <<caller, full, setFilesToPrune>>
       ELSE Return(TRUE)
    /\ UNCHANGED <<index, coins, shutdown, tree, coinsdb>>

\* pcoinsTip->Flush; hashBlock is written whatever the cache holds.
WriteCoins ==
    /\ pc = "coins"
    /\ coinsDb' = IF coinsDb # Mixed /\ (cache = "ok" \/ coinsDb = coinsBest)
                  THEN coinsBest ELSE Mixed
    /\ coinsDbBest' = coinsBest
    /\ earlier' = earlier \cup {<<coinsDb, coinsDbBest>>}
    /\ Return(TRUE)
    /\ UNCHANGED <<index, coins, shutdown, files, tree>>

\* There is no space, or the write fails after BatchWrite has emptied the cache.
WriteCoinsFails ==
    /\ pc = "coins"
    /\ \/ "space" \in FailAt /\ cache' = cache
       \/ "coins" \in FailAt /\ cache' = IF coinsDb = coinsBest THEN cache ELSE "lost"
    /\ shutdown' = TRUE
    /\ Return(FALSE)
    /\ UNCHANGED <<index, tip, coinsBest, files, tree, coinsdb>>

-----------------------------------------------------------------------------
\* The copies the block index database refers to; others are overwritten.
Referred(blocks) == {<<b, dbFile[b]>> : b \in blocks}

\* The process ends at any point, and LoadBlockIndexDB runs.  After a power
\* failure the files have what was committed and some of the rest.
Restart ==
    /\ pc # "broken"
    /\ \E lost \in IF PowerLoss THEN SUBSET ((blk \ blkDisk) \cup (rev \ revDisk)) ELSE {{}},
          state \in {<<coinsDb, coinsDbBest>>} \cup (IF PowerLoss THEN earlier ELSE {}) :
         /\ blk' = (blk \cap Referred(dbData)) \ (lost \ blkDisk)
         /\ rev' = (rev \cap Referred(dbUndo)) \ (lost \ revDisk)
         /\ coinsDb' = state[1] /\ coinsDbBest' = state[2]
         /\ coinsBest' = state[2]
         /\ IF state[2] \in dbSeen THEN tip' = state[2] /\ pc' = "run"
            ELSE tip' = Genesis /\ pc' = "broken"
    /\ blkDisk' = blkDisk \cap Referred(dbData) /\ revDisk' = revDisk \cap Referred(dbUndo)
    /\ earlier' = {}
    /\ seen' = dbSeen /\ data' = dbData /\ undo' = dbUndo /\ nFile' = dbFile
    /\ dirty' = {} /\ nLastBlockFile' = dbLast
    /\ cache' = "ok" /\ caller' = "none" /\ full' = FALSE /\ setFilesToPrune' = {}
    /\ shutdown' = FALSE
    /\ UNCHANGED tree

Next ==
    \/ \E b \in Block, f \in File : StoreBlock(b, f)
    \/ \E f \in File : StoreNoSpace(f)
    \/ \E b \in Block : ConnectTip(b)
    \/ DisconnectTip
    \/ UpdateTip
    \/ StartShutdown
    \/ \E cut \in -1 .. MaxFile - 1, all \in BOOLEAN : FlushStateToDisk(cut, all)
    \/ \E cut \in -1 .. MaxFile - 1 : FlushNoSpace(cut)
    \/ WriteIndex
    \/ WriteIndexFails
    \/ UnlinkPrunedFiles
    \/ WriteCoins
    \/ WriteCoinsFails
    \/ Restart

Spec == Init /\ [][Next]_vars

-----------------------------------------------------------------------------
\* The types; a block with undo data has data, and one with data was seen
\* (CheckBlockIndex), in memory and in the database.
TypeOK ==
    /\ seen \subseteq Block /\ data \subseteq seen /\ undo \subseteq data /\ dirty \subseteq seen
    /\ nFile \in [Block -> File] /\ nLastBlockFile \in File
    /\ tip \in Block /\ coinsBest \in Block /\ cache \in {"ok", "lost"}
    /\ caller \in {"none", "chain", "final"}
    /\ pc \in {"run", "index", "unlink", "coins", "down", "broken"}
    /\ full \in BOOLEAN /\ setFilesToPrune \subseteq File /\ shutdown \in BOOLEAN
    /\ blk \subseteq Copy /\ blkDisk \subseteq blk /\ rev \subseteq Copy /\ revDisk \subseteq rev
    /\ dbSeen \subseteq seen /\ dbData \subseteq dbSeen /\ dbUndo \subseteq dbData
    /\ dbFile \in [Block -> File] /\ dbLast \in File
    /\ coinsDb \in Block \cup {Mixed} /\ coinsDbBest \in Block
    /\ earlier \subseteq (Block \cup {Mixed}) \X Block

\* "This can only be done if the blocks / block index write was also done"
\* (src/src/main.cpp:2752, FlushStateToDisk): whenever the process ends or the
\* power fails, the coins database holds the coins of the block it names, and the
\* block index has that block and everything below it.
RestartFindsTip ==
    \A state \in earlier \cup {<<coinsDb, coinsDbBest>>} :
      /\ state[1] = state[2]
      /\ Ancestors[state[2]] \subseteq dbSeen

\* "First make sure all block and undo data is flushed to disk"
\* (src/src/main.cpp:2727, FlushStateToDisk), for blocks: what the block index
\* says is in a file is on the disk, also while files are pruned.
DataBacked == Referred(dbData) \subseteq blkDisk
=============================================================================
