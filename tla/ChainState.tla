----------------------------- MODULE ChainState ------------------------------
(***************************************************************************)
(* The block index and the active chain of src/src/main.cpp.  Threads      *)
(* receive headers and blocks, invalidate and reconsider blocks, and then  *)
(* run ActivateBestChain, which gives up cs_main between its steps while   *)
(* it keeps the block it works towards (pindexMostWork) in a local         *)
(* variable.  Loops under cs_main take one step per iteration; nobody else *)
(* moves until the lock is free again (Locked).                            *)
(*                                                                         *)
(* The node does not prune, so BLOCK_HAVE_DATA is nTx > 0 and every block  *)
(* with nTx can be read.                                                   *)
(***************************************************************************)
EXTENDS Integers

CONSTANTS Block, Genesis,
          Parent,      \* pprev
          Ancestors,   \* the block and everything pprev leads to
          Height,      \* nHeight
          ChainWork,   \* nChainWork
          Address,     \* where the CBlockIndex lies in memory
          Class,       \* what validation says of the block, see Classes
          Thread, NoBlock,
          MIN_BLOCKS_TO_KEEP,
          Rpc,         \* whether invalidateblock and reconsiderblock are called
          MayAbort     \* whether a disk or database may fail

\* badblock: CheckBlock or ContextualCheckBlock refuses it.  badconnect:
\* ConnectBlock refuses it.  corrupt: ConnectBlock refuses what it read back
\* from disk, with CorruptionPossible.  unjudged: ConnectBlock returns false
\* and says nothing in state (CheckProofOfStake on a kernel in no block).
Classes == {"good", "badblock", "badconnect", "corrupt", "unjudged"}

ASSUME TreeAssumption ==
    /\ Genesis \in Block
    /\ Parent \in [Block \ {Genesis} -> Block]
    /\ Ancestors \in [Block -> SUBSET Block]
    /\ Ancestors[Genesis] = {Genesis}
    /\ \A b \in Block \ {Genesis} :
         Ancestors[b] = Ancestors[Parent[b]] \cup {b}
    /\ \A b \in Block : Genesis \in Ancestors[b]
    /\ Height \in [Block -> Nat]
    /\ \A b \in Block \ {Genesis} : Height[b] = Height[Parent[b]] + 1
    /\ \A b \in Block : \A x \in Ancestors[b] : x # b => Height[x] < Height[b]

\* GetBlockProof is zero only for an nBits that ConnectBlock refuses.
ASSUME WorkAssumption ==
    /\ ChainWork \in [Block -> Nat]
    /\ \A b \in Block \ {Genesis} : 
         /\ ChainWork[Parent[b]] <= ChainWork[b]
         /\ Class[b] = "good" => ChainWork[Parent[b]] < ChainWork[b]
    /\ Address \in [Block -> Nat]
    /\ \A a, b \in Block : Address[a] = Address[b] => a = b

ASSUME ClassAssumption ==
    /\ Class \in [Block -> Classes]
    /\ Class[Genesis] = "good"
    /\ NoBlock \notin Block
    /\ Rpc \in BOOLEAN /\ MayAbort \in BOOLEAN
    /\ MIN_BLOCKS_TO_KEEP \in Nat

VARIABLES known,          \* mapBlockIndex
          nTx,            \* blocks with nTx > 0
          nChainTx,       \* blocks with nChainTx > 0
          txValid,        \* blocks raised to BLOCK_VALID_TRANSACTIONS
          scriptsValid,   \* blocks raised to BLOCK_VALID_SCRIPTS
          haveUndo,       \* blocks with BLOCK_HAVE_UNDO
          failedValid,    \* blocks with BLOCK_FAILED_VALID
          failedChild,    \* blocks with BLOCK_FAILED_CHILD
          nSequenceId, nBlockSequenceId,
          candidates,     \* setBlockIndexCandidates
          unlinked,       \* mapBlocksUnlinked, by its second component
          bestHeader,     \* pindexBestHeader
          chain, tip,     \* chainActive and its last block
          pc, mostWork,   \* per thread: where it is, its pindexMostWork
          queue,          \* of ReceivedBlockTransactions
          oldTip,         \* pindexOldTip of ActivateBestChainStep
          target,         \* pindex of InvalidateBlock
          shutdown,       \* ShutdownRequested()
          fault           \* history: a disk or database operation has failed

index == <<known, nTx, nChainTx, txValid, nSequenceId, nBlockSequenceId, unlinked, bestHeader>>
flags == <<scriptsValid, haveUndo, failedValid, failedChild>>
active == <<chain, tip>>
locals == <<queue, oldTip, target>>
stop == <<shutdown, fault>>
vars == <<index, flags, candidates, active, pc, mostWork, locals, stop>>

Failed == failedValid \cup failedChild

\* IsValid(BLOCK_VALID_TREE) and IsValid(BLOCK_VALID_TRANSACTIONS).
TreeOk(b) == b \in known /\ b \notin Failed
TxOk(b) == b \in txValid /\ b \notin Failed

\* CBlockIndexWorkComparator under the sequence numbers s.
Less(s, a, b) ==
    \/ ChainWork[a] < ChainWork[b]
    \/ ChainWork[a] = ChainWork[b] /\ s[a] > s[b]
    \/ ChainWork[a] = ChainWork[b] /\ s[a] = s[b] /\ Address[a] > Address[b]

\* cs_main is held by a thread in the middle of a function.
Holding == {"link", "find", "disconnect", "connect", "invalidate"}
Locked == \E t \in Thread : pc[t] \in Holding

Goto(t, label) == pc' = [pc EXCEPT ![t] = label]
Forget(t) == mostWork' = [mostWork EXCEPT ![t] = NoBlock]

-----------------------------------------------------------------------------
\* LoadBlockIndex and InitBlockIndex of a new node, genesis activated.
Init ==
    /\ known = {Genesis} /\ nTx = {Genesis} /\ nChainTx = {Genesis} /\ txValid = {Genesis}
    /\ scriptsValid = {} /\ haveUndo = {} /\ failedValid = {} /\ failedChild = {}
    /\ nSequenceId = [b \in Block |-> IF b = Genesis THEN 1 ELSE 0]
    /\ nBlockSequenceId = 2
    /\ candidates = {Genesis}
    /\ unlinked = {}
    /\ bestHeader = Genesis
    /\ chain = {Genesis} /\ tip = Genesis
    /\ pc = [t \in Thread |-> "idle"]
    /\ mostWork = [t \in Thread |-> NoBlock]
    /\ queue = {} /\ oldTip = Genesis /\ target = NoBlock
    /\ shutdown = FALSE /\ fault = FALSE

-----------------------------------------------------------------------------
(* Receiving headers and blocks.                                            *)

\* AcceptBlockHeader returning true, with AddToBlockIndex.
AcceptBlockHeader(b) ==
    /\ IF b \in known THEN b \notin Failed ELSE TreeOk(Parent[b])
    /\ known' = known \cup {b}
    /\ bestHeader' = IF b \notin known /\ ChainWork[bestHeader] < ChainWork[b] THEN b ELSE bestHeader

\* A header of a HEADERS or CMPCTBLOCK message; also a block that is refused
\* without a mark (mutated on the way, or proof of work after nLastPOWBlock).
ReceiveHeader(t, b) ==
    /\ pc[t] = "idle" /\ ~Locked
    /\ b \notin known
    /\ AcceptBlockHeader(b)
    /\ UNCHANGED <<nTx, nChainTx, txValid, nSequenceId, nBlockSequenceId, unlinked>>
    /\ UNCHANGED <<flags, candidates, active, pc, mostWork, locals, stop>>

\* AcceptBlock has the block, or nobody asked for it and it is not wanted.
Unwanted(b, requested) ==
    \/ b \in nTx
    \/ /\ ~requested
       /\ \/ ChainWork[b] <= ChainWork[tip]
          \/ Height[b] > Height[tip] + MIN_BLOCKS_TO_KEEP

\* Mutant: the block is not remembered.
InsertUnlinkedNever(b) == unlinked

\* mapBlocksUnlinked with a block whose parent is not linked.
InsertUnlinked(b) == IF TreeOk(Parent[b]) THEN unlinked \cup {b} ELSE unlinked

\* A write fails and the node is asked to stop.
AbortNode == shutdown' = TRUE /\ fault' = TRUE

\* ProcessNewBlock up to the end of its lock: AcceptBlock and the beginning of
\* ReceivedBlockTransactions.  Without room for the block (FindBlockPos) nothing
\* is stored; when the write itself fails (WriteBlockToDisk) AcceptBlock goes on
\* as if it had succeeded.
ProcessNewBlock(t, b, requested) ==
    /\ pc[t] = "idle" /\ ~Locked
    /\ AcceptBlockHeader(b)
    /\ \/ /\ Unwanted(b, requested)
          /\ Goto(t, "abc")
          /\ UNCHANGED <<nTx, txValid, unlinked, failedValid, queue, stop>>
       \/ /\ ~Unwanted(b, requested)
          /\ Class[b] = "badblock"
          /\ failedValid' = failedValid \cup {b}
          /\ UNCHANGED <<nTx, txValid, unlinked, queue, pc, stop>>
       \/ /\ ~Unwanted(b, requested)
          /\ Class[b] # "badblock"
          /\ MayAbort /\ AbortNode
          /\ UNCHANGED <<nTx, txValid, unlinked, failedValid, queue, pc>>
       \/ /\ ~Unwanted(b, requested)
          /\ Class[b] # "badblock"
          /\ nTx' = nTx \cup {b}
          /\ txValid' = txValid \cup {b}
          /\ IF Parent[b] \in nChainTx
               THEN queue' = {b} /\ Goto(t, "link") /\ unlinked' = unlinked
               ELSE /\ unlinked' = InsertUnlinked(b)
                    /\ Goto(t, "abc")
                    /\ queue' = queue
          /\ UNCHANGED stop \/ (MayAbort /\ AbortNode)
          /\ UNCHANGED failedValid
    /\ UNCHANGED <<nChainTx, nSequenceId, nBlockSequenceId, scriptsValid, haveUndo, failedChild>>
    /\ UNCHANGED <<candidates, active, mostWork, oldTip, target>>

\* The index is told that all of b's chain has been received.
SetChainTx(b) == nChainTx \cup {b}

\* Mutant: the descendants are not linked.
WaitingNone(b) == {}

\* The blocks that waited in mapBlocksUnlinked for b.
Waiting(b) == {c \in unlinked : Parent[c] = b}

\* Mutant: without the comparison with the tip.
InsertCandidateAlways(s, b) == candidates \cup {b}

\* b as a candidate, unless it sorts worse than the tip under s.
InsertCandidate(s, b) == IF Less(s, b, tip) THEN candidates ELSE candidates \cup {b}

\* One turn of the queue of ReceivedBlockTransactions, which is in the order of
\* height; siblings come in any order.
LinkBlock(t) ==
    /\ pc[t] = "link"
    /\ \E b \in queue :
         /\ \A c \in queue : Height[b] <= Height[c]
         /\ nChainTx' = SetChainTx(b)
         /\ nSequenceId' = [nSequenceId EXCEPT ![b] = nBlockSequenceId]
         /\ nBlockSequenceId' = nBlockSequenceId + 1
         /\ candidates' = InsertCandidate(nSequenceId', b)
         /\ queue' = (queue \ {b}) \cup Waiting(b)
         /\ unlinked' = unlinked \ Waiting(b)
         /\ IF queue' = {} THEN Goto(t, "abc") ELSE pc' = pc
    /\ UNCHANGED <<known, nTx, txValid, bestHeader, flags, active, mostWork, oldTip, target, stop>>

-----------------------------------------------------------------------------
(* ActivateBestChain.                                                       *)

\* The function in progress gives up on an error of the system: with AbortNode,
\* or with error() alone when undo data cannot be read (loud = FALSE).
GiveUp(t, loud, label) ==
    /\ MayAbort
    /\ fault' = TRUE /\ shutdown' = (shutdown \/ loud)
    /\ Forget(t)
    /\ Goto(t, label)

\* The head of the loop: stop, nothing to do, find a chain, or go on towards
\* the block chosen in an earlier turn.
Turn(t) ==
    /\ pc[t] = "abc" /\ ~Locked
    /\ \/ shutdown /\ Forget(t) /\ Goto(t, "flush") /\ UNCHANGED oldTip
       \/ ~shutdown /\ mostWork[t] = NoBlock /\ Goto(t, "find") /\ UNCHANGED <<mostWork, oldTip>>
       \/ ~shutdown /\ mostWork[t] = tip /\ Forget(t) /\ Goto(t, "idle") /\ UNCHANGED oldTip
       \/ /\ ~shutdown /\ mostWork[t] \notin {NoBlock, tip}
          /\ oldTip' = tip
          /\ Goto(t, "disconnect")
          /\ UNCHANGED mostWork
    /\ UNCHANGED <<index, flags, candidates, active, queue, target, stop>>

\* Mutant: the first element.
BestFirst(b) == b \in candidates /\ \A c \in candidates : ~Less(nSequenceId, c, b)

\* The last element of setBlockIndexCandidates.
Best(b) == b \in candidates /\ \A c \in candidates : ~Less(nSequenceId, b, c)

\* Mutant: the parent of the failed block is marked too.
AboveOffByOne(path, test) == {x \in path : Height[x] + 1 >= Height[test]}

\* The blocks of a path that FindMostWorkChain marks when test has failed.
Above(path, test) == {x \in path : Height[x] > Height[test]}

\* One turn of FindMostWorkChain.
FindMostWorkChain(t) ==
    /\ pc[t] = "find"
    /\ \/ /\ candidates = {}
          /\ Goto(t, "idle")
          /\ UNCHANGED <<failedChild, candidates, mostWork, oldTip>>
       \/ \E best \in candidates :
            LET path == Ancestors[best] \ chain
                bad == path \cap Failed
            IN  /\ Best(best)
                /\ \/ /\ bad = {} /\ best = tip
                      /\ Goto(t, "idle")
                      /\ UNCHANGED <<failedChild, candidates, mostWork, oldTip>>
                   \/ /\ bad = {} /\ best # tip
                      /\ mostWork' = [mostWork EXCEPT ![t] = best]
                      /\ oldTip' = tip
                      /\ Goto(t, "disconnect")
                      /\ UNCHANGED <<failedChild, candidates>>
                   \/ \E test \in bad :
                        /\ \A x \in bad : Height[x] <= Height[test]
                        /\ failedChild' = failedChild \cup Above(path, test)
                        /\ candidates' = candidates \ (Above(path, test) \cup {test})
                        /\ UNCHANGED <<pc, mostWork, oldTip>>
    /\ UNCHANGED <<index, scriptsValid, haveUndo, failedValid, active, queue, target, stop>>

\* Mutant: chainActive keeps the block.
DisconnectTipKeep == tip' = Parent[tip] /\ chain' = chain

\* DisconnectTip: chainActive without its last block.
DisconnectTip == tip' = Parent[tip] /\ chain' = chain \ {tip}

\* ActivateBestChainStep: DisconnectTip until the tip is on the way.
DisconnectStep(t) ==
    /\ pc[t] = "disconnect"
    /\ \/ /\ tip \in Ancestors[mostWork[t]]
          /\ Goto(t, "connect")
          /\ UNCHANGED <<index, flags, candidates, active, mostWork, locals, stop>>
       \/ /\ tip \notin Ancestors[mostWork[t]]
          /\ DisconnectTip
          /\ UNCHANGED <<index, flags, candidates, pc, mostWork, locals, stop>>
       \/ /\ tip \notin Ancestors[mostWork[t]]
          /\ \E loud \in BOOLEAN : GiveUp(t, loud, "failed")
          /\ UNCHANGED <<index, flags, candidates, active, locals>>

\* The end of a step that reached b: ActivateBestChain returns or turns again.
EndStep(t, b) ==
    IF b = mostWork[t] THEN Forget(t) /\ Goto(t, "flush") ELSE Goto(t, "abc") /\ UNCHANGED mostWork

\* The next block of vpindexToConnect.
Next1(t, b) == b \in Ancestors[mostWork[t]] \ {Genesis} /\ Parent[b] = tip

\* Mutant: only the last block of the step is raised.
RaiseLast(t, b) == IF b \in Failed \/ b # mostWork[t] THEN scriptsValid ELSE scriptsValid \cup {b}

\* RaiseValidity(BLOCK_VALID_SCRIPTS), which does nothing to a failed block.
RaiseValidity(t, b) == IF b \in Failed THEN scriptsValid ELSE scriptsValid \cup {b}

\* Mutant: the tip is deleted too.
PruneWithTip(b) == {c \in candidates : Less(nSequenceId, b, c)}

\* Delete the candidates that are worse than the new tip, but not the tip.
PruneBlockIndexCandidates(b) == {c \in candidates : ~Less(nSequenceId, c, b)}

\* ConnectTip and PruneBlockIndexCandidates on a block that connects.
ConnectTip(t, b) ==
    /\ pc[t] = "connect"
    /\ Next1(t, b)
    /\ Class[b] = "good"
    /\ haveUndo' = haveUndo \cup {b}
    /\ scriptsValid' = RaiseValidity(t, b)
    /\ tip' = b /\ chain' = chain \cup {b}
    /\ candidates' = PruneBlockIndexCandidates(b)
    /\ IF ChainWork[b] > ChainWork[oldTip] \/ b = mostWork[t]
         THEN EndStep(t, b)
         ELSE UNCHANGED <<pc, mostWork>>
    /\ UNCHANGED <<index, failedValid, failedChild, locals, stop>>

\* Mutant: a rejected block is not marked.
InvalidBlockFoundUnmarked(b) == failedValid' = failedValid /\ candidates' = candidates

\* InvalidBlockFound without CorruptionPossible.
InvalidBlockFound(b) == failedValid' = failedValid \cup {b} /\ candidates' = candidates \ {b}

\* Mutant: every failure counts as an error of the system.
JudgedNever(b) == FALSE

\* Whether ActivateBestChainStep sees a verdict (state.IsInvalid()).
Judged(b) == Class[b] # "unjudged"

\* ConnectTip on a block that does not: InvalidBlockFound when there is a
\* verdict, the loop of ActivateBestChain goes on with pindexMostWork wiped;
\* without a verdict ActivateBestChain returns false.
ConnectTipFails(t, b) ==
    /\ pc[t] = "connect"
    /\ Next1(t, b)
    /\ \/ Class[b] = "badconnect" /\ InvalidBlockFound(b)
       \/ Class[b] \in {"corrupt", "unjudged"} /\ UNCHANGED <<failedValid, candidates>>
    /\ Goto(t, IF Judged(b) THEN "abc" ELSE "failed")
    /\ Forget(t)
    /\ UNCHANGED <<index, scriptsValid, haveUndo, failedChild, active, locals, stop>>

\* ConnectTip when a disk or database fails, before or after ConnectBlock has
\* raised the block to BLOCK_VALID_SCRIPTS and written its undo data.
ConnectTipAborts(t, b) ==
    /\ pc[t] = "connect"
    /\ Next1(t, b)
    /\ GiveUp(t, TRUE, "failed")
    /\ \/ UNCHANGED <<haveUndo, scriptsValid>>
       \/ /\ Class[b] = "good"
          /\ haveUndo' = haveUndo \cup {b}
          /\ scriptsValid' = RaiseValidity(t, b)
    /\ UNCHANGED <<index, failedValid, failedChild, candidates, active, locals>>

\* ActivateBestChainStep with nothing to connect.
ConnectNothing(t) ==
    /\ pc[t] = "connect"
    /\ mostWork[t] = tip
    /\ EndStep(t, tip)
    /\ UNCHANGED <<index, flags, candidates, active, locals, stop>>

\* The periodic FlushStateToDisk after the loop.
Flush(t) ==
    /\ pc[t] = "flush" /\ ~Locked
    /\ \/ Goto(t, "idle") /\ UNCHANGED <<mostWork, stop>>
       \/ GiveUp(t, TRUE, "failed")
    /\ UNCHANGED <<index, flags, candidates, active, locals>>

\* ActivateBestChain has returned false to its caller.
ReturnFalse(t) ==
    /\ pc[t] = "failed"
    /\ Goto(t, "idle")
    /\ UNCHANGED <<index, flags, candidates, active, mostWork, locals, stop>>

-----------------------------------------------------------------------------
(* invalidateblock and reconsiderblock.                                     *)

InvalidateBlock(t, b) ==
    /\ Rpc
    /\ pc[t] = "idle" /\ ~Locked
    /\ b \in known \ {Genesis}
    /\ failedValid' = failedValid \cup {b}
    /\ candidates' = candidates \ {b}
    /\ target' = b
    /\ Goto(t, "invalidate")
    /\ UNCHANGED <<index, scriptsValid, haveUndo, failedChild, active, mostWork, queue, oldTip, stop>>

\* Mutant: stops when the tip is another block.
InvalidateTipOnly == target = tip

\* Whether InvalidateBlock still has blocks to disconnect.
StillActive == target \in chain

\* The loop of InvalidateBlock, and what follows it.
InvalidateStep(t) ==
    /\ pc[t] = "invalidate"
    /\ \/ /\ StillActive
          /\ failedChild' = failedChild \cup {tip}
          /\ candidates' = candidates \ {tip}
          /\ \/ DisconnectTip /\ UNCHANGED <<pc, mostWork, stop>>
             \/ GiveUp(t, TRUE, "idle") /\ UNCHANGED active
             \/ GiveUp(t, FALSE, "abc") /\ UNCHANGED active
       \/ /\ ~StillActive
          /\ candidates' = candidates \cup
               {b \in nChainTx : TxOk(b) /\ ~Less(nSequenceId, b, tip)}
          /\ Goto(t, "abc")
          /\ UNCHANGED <<failedChild, active, mostWork, stop>>
    /\ UNCHANGED <<index, scriptsValid, haveUndo, failedValid, locals>>

ResetBlockFailureFlags(t, b) ==
    /\ Rpc
    /\ pc[t] = "idle" /\ ~Locked
    /\ b \in known
    /\ LET below == {x \in known : ~TxOk(x) /\ b \in Ancestors[x]}
       IN  /\ failedValid' = failedValid \ (below \cup Ancestors[b])
           /\ failedChild' = failedChild \ (below \cup Ancestors[b])
           /\ candidates' = candidates \cup
                {x \in below \cap nChainTx : x \in txValid /\ Less(nSequenceId, tip, x)}
    /\ Goto(t, "abc")
    /\ UNCHANGED <<index, scriptsValid, haveUndo, active, mostWork, locals, stop>>

-----------------------------------------------------------------------------
\* What a thread does once it has begun.
Progress(t) ==
    \/ LinkBlock(t)
    \/ Turn(t)
    \/ FindMostWorkChain(t)
    \/ DisconnectStep(t)
    \/ \E b \in Block : ConnectTip(t, b) \/ ConnectTipFails(t, b) \/ ConnectTipAborts(t, b)
    \/ ConnectNothing(t)
    \/ Flush(t)
    \/ ReturnFalse(t)
    \/ InvalidateStep(t)

\* What the network and the user ask of it.
Request(t) ==
    \E b \in Block \ {Genesis} :
      \/ ReceiveHeader(t, b)
      \/ \E requested \in BOOLEAN : ProcessNewBlock(t, b, requested)
      \/ InvalidateBlock(t, b)
      \/ ResetBlockFailureFlags(t, b)

Next == \E t \in Thread : Progress(t) \/ Request(t)

Spec == Init /\ [][Next]_vars

\* A thread inside these functions keeps running.
FairSpec == Spec /\ \A t \in Thread : WF_vars(Progress(t))

-----------------------------------------------------------------------------
\* The types of the index, the active chain and the threads of ActivateBestChain.
TypeOK ==
    /\ known \subseteq Block /\ nTx \subseteq known /\ nChainTx \subseteq nTx
    /\ txValid \subseteq nTx /\ scriptsValid \subseteq nTx /\ haveUndo \subseteq nTx
    /\ failedValid \subseteq known /\ failedChild \subseteq known
    /\ nSequenceId \in [Block -> Nat] /\ nBlockSequenceId \in Nat
    /\ candidates \subseteq nChainTx /\ unlinked \subseteq nTx \ {Genesis}
    /\ bestHeader \in known
    /\ chain \subseteq nChainTx /\ tip \in chain
    /\ pc \in [Thread -> Holding \cup {"idle", "abc", "flush", "failed"}]
    /\ mostWork \in [Thread -> nChainTx \cup {NoBlock}]
    /\ queue \subseteq nTx \ {Genesis} /\ oldTip \in known /\ target \in (known \ {Genesis}) \cup {NoBlock}
    /\ shutdown \in BOOLEAN /\ fault \in BOOLEAN

AllIdle == \A t \in Thread : pc[t] = "idle"

\* The active chain is the path from the tip to genesis, and every block on it
\* went through ConnectBlock and can be undone (main.cpp:2915, 4738, 4751).
ChainIsPath ==
    /\ chain = Ancestors[tip]
    /\ chain \ {Genesis} \subseteq haveUndo

\* No block of the active chain is marked invalid: FindMostWorkChain stops at
\* the active chain "as we know all blocks in it are valid already"
\* (main.cpp:2987).
ChainNotFailed == ~Locked /\ ~fault => chain \cap Failed = {}

\* nChainTx is set exactly for the blocks whose whole ancestry has been
\* received, whatever the order of arrival (main.cpp:4754).
ChainTxExact ==
    ~Locked => nChainTx = {b \in known : Ancestors[b] \subseteq nTx}

\* A block that has data, waits for an ancestor and has no invalid ancestor is
\* in mapBlocksUnlinked, or nothing would ever link it (main.cpp:4795).
UnlinkedComplete ==
    ~Locked =>
      \A b \in nTx : /\ ~(Ancestors[b] \subseteq nTx)
                     /\ Ancestors[b] \cap failedValid = {}
                     => b \in unlinked

\* "it cannot be in setBlockIndexCandidates": no candidate sorts worse than the
\* tip or waits for data (main.cpp:4780).
CandidatesSound ==
    \A b \in candidates : b \in nChainTx /\ ~Less(nSequenceId, b, tip)

\* Nothing has made a call of ActivateBestChain give up half-way: no disk or
\* database has failed, and ConnectBlock has a verdict on every linked block.
Undisturbed == ~fault /\ \A b \in nChainTx : Class[b] # "unjudged"

\* "it must be in setBlockIndexCandidates": once ActivateBestChain has returned
\* everywhere, no block that could be activated is forgotten (main.cpp:4769).
CandidatesComplete ==
    AllIdle /\ Undisturbed =>
      \A b \in nChainTx : /\ Ancestors[b] \cap failedValid = {}
                          /\ ~Less(nSequenceId, b, tip)
                          => b \in candidates

\* "SCRIPTS valid implies all parents are SCRIPTS valid" (main.cpp:4762), which
\* RaiseValidity keeps only while no failed block is connected.
ScriptsValidFromGenesis ==
    \A b \in scriptsValid : Ancestors[b] \ {Genesis} \subseteq scriptsValid

\* "Either the current tip or a successor of it we're working towards is left in
\* setBlockIndexCandidates" (main.cpp:3036), asserted after every ConnectTip.
\* It holds while blocks only arrive; invalidateblock can take the block a thread
\* works towards out of the set.
CandidateLeft == [][tip' # tip /\ tip \in Ancestors[tip'] => candidates' # {}]_vars

\* "The failed mask cannot be set for blocks without invalid parents"
\* (main.cpp:4765), when blocks are marked by validation alone; reconsiderblock
\* clears a parent's mark and leaves those of the block's siblings.
FailedHasCause ==
    ~Locked => \A b \in Failed : Ancestors[b] \cap failedValid # {}

\* "The result is either failure or an activated best chain" (main.cpp:3138):
\* when every caller has returned, no connectable chain is better than the tip.
\* It holds for one caller at a time; a second one may come back to a block it
\* chose before the tip went past it.
BestChainActive ==
    AllIdle /\ Undisturbed =>
      \A b \in nChainTx : /\ Ancestors[b] \cap Failed = {}
                          /\ \A x \in Ancestors[b] : Class[x] = "good"
                          => ~Less(nSequenceId, tip, b)

\* What the proof of TypeOK, ChainIsPath and CandidatesSound needs besides them:
\* nChainTx is closed under pprev, a block waits in at most one place and only
\* until it is linked, and the active chain holds only blocks that connect.
Linked ==
    /\ \A b \in nChainTx : Ancestors[b] \subseteq nChainTx
    /\ queue \cap nChainTx = {} /\ unlinked \cap nChainTx = {} /\ queue \cap unlinked = {}
    /\ \A b \in queue : Parent[b] \in nChainTx
    /\ \A b \in chain : Class[b] = "good"
    /\ \A t \in Thread : pc[t] \in {"disconnect", "connect"} => mostWork[t] # NoBlock

IndInv == TypeOK /\ ChainIsPath /\ CandidatesSound /\ Linked

-----------------------------------------------------------------------------
(* What the proofs of the other properties need besides IndInv, when blocks  *)
(* are marked by validation alone (no RPC calls).                            *)

\* Every block of b's branch connects; no block of it has been refused.
Connects(b) == \A x \in Ancestors[b] : Class[x] = "good"
Unmarked(b) == Ancestors[b] \cap failedValid = {}

\* Marks come from verdicts: what CheckBlock refuses is never stored, what
\* ConnectBlock refuses and what is above it has been linked.
MarksJustified ==
    /\ \A b \in failedValid : Class[b] \in {"badblock", "badconnect"}
    /\ \A b \in nTx : Class[b] # "badblock"
    /\ \A b \in Failed : ~Unmarked(b)
    /\ failedChild \cup (failedValid \cap nTx) \subseteq nChainTx

\* A stored block that is not linked is in the queue of its thread, waits in
\* mapBlocksUnlinked, or is above a block that will never be stored.
StoredPlaced ==
    /\ \A b \in known \ {Genesis} : Parent[b] \in known
    /\ queue # {} => \E t \in Thread : pc[t] = "link"
    /\ \A b \in nTx \ nChainTx :
         \/ b \in queue
         \/ Parent[b] \notin nChainTx /\ (b \in unlinked \/ Parent[b] \in failedValid \ nTx)

\* The blocks that ConnectBlock has accepted: every tip there has been.
Connected == haveUndo \cup {Genesis}

\* b does not sort below any of them.
AboveConnected(b) == \A x \in Connected : ~Less(nSequenceId, b, x)

\* setBlockIndexCandidates holds every linked block that sorts above all tips
\* there have been, and one of those connects: a step that goes back to an
\* older tip, or that fails half-way, loses no better chain.
BestOffered ==
    /\ Connected \subseteq nChainTx
    /\ \A b \in Connected : Connects(b)
    /\ \A b \in nChainTx : Unmarked(b) /\ AboveConnected(b) => b \in candidates
    /\ \E b \in candidates : Connects(b) /\ AboveConnected(b)

\* The blocks of the active chain have been raised to BLOCK_VALID_SCRIPTS.
ScriptsRaised == ScriptsValidFromGenesis /\ chain \ {Genesis} \subseteq scriptsValid

\* Nobody is in the middle of InvalidateBlock.
NotInvalidating == \A t \in Thread : pc[t] # "invalidate"

ArrivalInv == NotInvalidating /\ MarksJustified /\ StoredPlaced /\ BestOffered /\ ScriptsRaised

\* With one thread: the block it works towards is the best there is, and it
\* comes back only when the tip is.
OneThread == \E t \in Thread : Thread = {t}
NothingBetter(b) == \A c \in nChainTx : Unmarked(c) => ~Less(nSequenceId, b, c)
Settled ==
    /\ shutdown => fault
    /\ Undisturbed => \A t \in Thread :
         /\ pc[t] \in {"idle", "flush"} => NothingBetter(tip)
         /\ mostWork[t] # NoBlock => NothingBetter(mostWork[t])
         /\ pc[t] \in {"idle", "link", "find", "flush"} => mostWork[t] = NoBlock
         /\ pc[t] # "failed"

\* With one thread, RPC calls included: only the block that is being invalidated
\* is both marked and active, and nothing marked is worked towards.
NoMarkAhead ==
    ~fault =>
      /\ NotInvalidating => chain \cap Failed = {}
      /\ \A t \in Thread :
           /\ pc[t] = "invalidate" => chain \cap Failed \subseteq {target}
           /\ mostWork[t] # NoBlock => Ancestors[mostWork[t]] \cap Failed = {}
           /\ pc[t] \in {"idle", "link", "find", "flush", "failed", "invalidate"} => mostWork[t] = NoBlock

-----------------------------------------------------------------------------
\* ActivateBestChain returns false to its caller only after a disk or database
\* has failed or over a block without a verdict; a block that is refused, or
\* read back corrupt, never makes it.  The comment at main.cpp:3087, "A system
\* error occurred", knows only the first reason.
FailureHasReason ==
    \A t \in Thread : pc[t] = "failed" => fault \/ \E b \in nChainTx : Class[b] = "unjudged"

\* ActivateBestChain returns (main.cpp:3138).
Returns == \A t \in Thread : pc[t] # "idle" ~> pc[t] = "idle"
=============================================================================
