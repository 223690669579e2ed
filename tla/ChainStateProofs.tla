-------------------------- MODULE ChainStateProofs ---------------------------
(***************************************************************************)
(* The index and ActivateBestChain, for every block tree, every number of  *)
(* threads and every verdict of validation, with faults.                   *)
(*                                                                         *)
(* With invalidateblock and reconsiderblock: the active chain is a path    *)
(* from genesis of blocks that can be undone, setBlockIndexCandidates      *)
(* never holds a block worse than the tip, and ActivateBestChain fails     *)
(* only for a reason.  Without the two calls: the index links exactly what *)
(* it can, marks have a cause, script validity reaches genesis and a       *)
(* candidate is always left (ArrivalInv).  With one thread it returns with *)
(* the best chain active (Settled), and never leaves a marked block on the *)
(* active chain (NoMarkAhead).                                             *)
(*                                                                         *)
(* All rest on IndInv, which is inductive.  No step of it needs the        *)
(* exclusion that cs_main gives: each one looks at the chain as it is, not *)
(* as an earlier step left it.  Of the lock, ArrivalInv uses only that     *)
(* nothing is being linked when ProcessNewBlock begins.                    *)
(***************************************************************************)
EXTENDS ChainState, WellFoundedInduction, TLAPS

\* CBlockIndexWorkComparator is antisymmetric: a block reconsiderblock adds
\* because it beats the tip does not sort below the tip.
LEMMA LessAsymmetric ==
    ASSUME NEW s \in [Block -> Nat], NEW a \in Block, NEW b \in Block, Less(s, a, b)
    PROVE  ~Less(s, b, a)
  BY WorkAssumption DEF Less

LEMMA LessIrreflexive ==
    ASSUME NEW s \in [Block -> Nat], NEW a \in Block
    PROVE  ~Less(s, a, a)
  BY WorkAssumption DEF Less

\* Disconnecting a tip that had connected makes no candidate worse than the tip.
LEMMA LessParent ==
    ASSUME NEW s \in [Block -> Nat], NEW c \in Block, NEW b \in Block \ {Genesis},
           Class[b] = "good", ~Less(s, c, b)
    PROVE  ~Less(s, c, Parent[b])
  <1>1. Parent[b] \in Block /\ ChainWork[Parent[b]] < ChainWork[b]
    BY TreeAssumption, WorkAssumption
  <1>2. ChainWork[c] >= ChainWork[b]
    BY WorkAssumption DEF Less
  <1> QED  BY <1>1, <1>2, WorkAssumption DEF Less

\* Numbering a block changes no comparison between two others.
LEMMA LessElsewhere ==
    ASSUME NEW s \in [Block -> Nat], NEW n \in Nat, NEW x \in Block,
           NEW a \in Block \ {x}, NEW b \in Block \ {x}
    PROVE  Less([s EXCEPT ![x] = n], a, b) <=> Less(s, a, b)
  BY DEF Less

\* A block is its own ancestor, and the parent of an ancestor is one too.
LEMMA SelfAncestor ==
    ASSUME NEW b \in Block
    PROVE  b \in Ancestors[b]
  BY TreeAssumption

\* A block is not its own parent and does not descend from its own tip.
LEMMA ParentPath ==
    ASSUME NEW b \in Block \ {Genesis}
    PROVE  /\ Parent[b] \in Block
           /\ Ancestors[Parent[b]] = Ancestors[b] \ {b}
           /\ Ancestors[b] = Ancestors[Parent[b]] \cup {b}
           /\ Parent[b] # b
  <1>1. Parent[b] \in Block /\ Height[Parent[b]] < Height[b]
    BY TreeAssumption
  <1>2. Ancestors[b] = Ancestors[Parent[b]] \cup {b}
    BY TreeAssumption
  <1>3. b \notin Ancestors[Parent[b]]
    <2>1. ASSUME b \in Ancestors[Parent[b]]  PROVE FALSE
      <3>1. b # Parent[b]
        BY <1>1, TreeAssumption
      <3>2. Height[b] < Height[Parent[b]]
        BY <1>1, <2>1, <3>1, TreeAssumption
      <3> QED  BY <1>1, <3>2, TreeAssumption
    <2> QED  BY <2>1
  <1> QED  BY <1>1, <1>2, <1>3, TreeAssumption

LEMMA InitInd == Init => IndInv
  <1> SUFFICES ASSUME Init PROVE IndInv
    OBVIOUS
  <1> USE DEF Init
  <1>1. TypeOK
    <2>1. nSequenceId \in [Block -> Nat] /\ nBlockSequenceId \in Nat
      OBVIOUS
    <2>2. shutdown \in BOOLEAN /\ fault \in BOOLEAN
      OBVIOUS
    <2>3. /\ pc \in [Thread -> Holding \cup {"idle", "abc", "flush", "failed"}]
          /\ mostWork \in [Thread -> nChainTx \cup {NoBlock}]
      BY DEF Holding
    <2> QED  BY <2>1, <2>2, <2>3, TreeAssumption DEF TypeOK
  <1>2. ChainIsPath
    BY TreeAssumption DEF ChainIsPath
  <1>3. CandidatesSound
    BY <1>1, LessIrreflexive DEF CandidatesSound, TypeOK
  <1>4. Linked
    BY TreeAssumption, ClassAssumption DEF Linked
  <1> QED  BY <1>1, <1>2, <1>3, <1>4 DEF IndInv

-----------------------------------------------------------------------------
(* The steps that receive headers and blocks.                               *)

LEMMA HeaderInd ==
    ASSUME IndInv, NEW t \in Thread, NEW b \in Block \ {Genesis}, ReceiveHeader(t, b)
    PROVE  IndInv'
  <1> USE DEF ReceiveHeader, AcceptBlockHeader, IndInv, flags, active, locals, stop
  <1>1. TypeOK'
    BY TreeAssumption DEF TypeOK
  <1>2. ChainIsPath'
    BY DEF ChainIsPath
  <1>3. CandidatesSound'
    BY DEF CandidatesSound, Less
  <1>4. Linked'
    BY DEF Linked
  <1> QED  BY <1>1, <1>2, <1>3, <1>4

LEMMA BlockInd ==
    ASSUME IndInv, NEW t \in Thread, NEW b \in Block \ {Genesis}, NEW requested \in BOOLEAN,
           ProcessNewBlock(t, b, requested)
    PROVE  IndInv'
  <1> USE DEF IndInv
  <1>0. /\ UNCHANGED <<nChainTx, nSequenceId, nBlockSequenceId, scriptsValid, haveUndo, failedChild,
                       candidates, chain, tip, mostWork, oldTip, target>>
        /\ known' = known \cup {b} /\ bestHeader' \in known'
        /\ failedValid' \in {failedValid, failedValid \cup {b}}
        /\ nTx \subseteq nTx' /\ nTx' \subseteq nTx \cup {b}
        /\ txValid' \subseteq txValid \cup {b} /\ (b \in txValid' => b \in nTx')
    BY DEF ProcessNewBlock, AcceptBlockHeader, active, Unwanted, TypeOK
  <1>1. shutdown' \in BOOLEAN /\ fault' \in BOOLEAN
    BY DEF ProcessNewBlock, AbortNode, stop, TypeOK
  <1>2. \/ pc' = pc
        \/ pc' = [pc EXCEPT ![t] = "abc"]
        \/ pc' = [pc EXCEPT ![t] = "link"]
    BY DEF ProcessNewBlock, Goto
  <1>3. pc' \in [Thread -> Holding \cup {"idle", "abc", "flush", "failed"}]
    BY <1>2 DEF TypeOK, Holding
  <1>4. \/ queue' = queue /\ unlinked' = unlinked
        \/ /\ b \notin nTx /\ nTx' = nTx \cup {b}
           /\ \/ queue' = {b} /\ Parent[b] \in nChainTx /\ unlinked' = unlinked
              \/ queue' = queue /\ Parent[b] \notin nChainTx /\ unlinked' \in {unlinked, unlinked \cup {b}}
    BY DEF ProcessNewBlock, InsertUnlinked, Unwanted
  <1>5. TypeOK'
    BY <1>0, <1>1, <1>3, <1>4 DEF TypeOK
  <1>6. ChainIsPath'
    BY <1>0 DEF ChainIsPath
  <1>7. CandidatesSound'
    BY <1>0 DEF CandidatesSound, Less
  <1>8. Linked'
    <2>1. queue' \cap nChainTx = {} /\ unlinked' \cap nChainTx = {} /\ queue' \cap unlinked' = {}
      BY <1>4 DEF Linked, TypeOK
    <2>2. \A c \in queue' : Parent[c] \in nChainTx
      BY <1>4 DEF Linked
    <2>3. \A u \in Thread : pc'[u] \in {"disconnect", "connect"} => mostWork[u] # NoBlock
      BY <1>2 DEF Linked, TypeOK
    <2> QED  BY <1>0, <2>1, <2>2, <2>3 DEF Linked
  <1> QED  BY <1>5, <1>6, <1>7, <1>8

LEMMA LinkInd ==
    ASSUME IndInv, NEW t \in Thread, LinkBlock(t)
    PROVE  IndInv'
  <1> USE DEF IndInv
  <1>0. PICK b \in queue :
        /\ nChainTx' = nChainTx \cup {b}
        /\ nSequenceId' = [nSequenceId EXCEPT ![b] = nBlockSequenceId]
        /\ nBlockSequenceId' = nBlockSequenceId + 1
        /\ candidates' = InsertCandidate(nSequenceId', b)
        /\ queue' = (queue \ {b}) \cup Waiting(b)
        /\ unlinked' = unlinked \ Waiting(b)
        /\ pc' \in {pc, [pc EXCEPT ![t] = "abc"]}
    BY DEF LinkBlock, SetChainTx, Goto
  <1>1. UNCHANGED <<known, nTx, txValid, bestHeader, scriptsValid, haveUndo, failedValid, failedChild,
                    chain, tip, mostWork, oldTip, target, shutdown, fault>>
    BY DEF LinkBlock, flags, active, stop
  <1>2. b \in Block \ {Genesis} /\ b \in nTx /\ b \notin nChainTx /\ b # tip
    BY DEF TypeOK, Linked
  <1>3. nSequenceId' \in [Block -> Nat] /\ nBlockSequenceId' \in Nat
    BY <1>0 DEF TypeOK
  <1>4. TypeOK'
    <2>1. candidates' \subseteq nChainTx'
      BY <1>0 DEF TypeOK, InsertCandidate
    <2>2. mostWork' \in [Thread -> nChainTx' \cup {NoBlock}]
      BY <1>0, <1>1 DEF TypeOK
    <2>3. pc' \in [Thread -> Holding \cup {"idle", "abc", "flush", "failed"}]
      BY <1>0 DEF TypeOK, Holding
    <2>4. queue' \subseteq nTx' \ {Genesis} /\ unlinked' \subseteq nTx' \ {Genesis}
      BY <1>0, <1>1 DEF TypeOK, Waiting
    <2>5. shutdown' \in BOOLEAN /\ fault' \in BOOLEAN
      BY <1>1 DEF TypeOK
    <2> QED  BY <1>0, <1>1, <1>2, <1>3, <2>1, <2>2, <2>3, <2>4, <2>5 DEF TypeOK
  <1>5. ChainIsPath'
    BY <1>1 DEF ChainIsPath
  <1>6. CandidatesSound'
    <2> SUFFICES ASSUME NEW c \in candidates' PROVE c \in nChainTx' /\ ~Less(nSequenceId', c, tip)
      BY <1>1 DEF CandidatesSound
    <2>1. CASE c = b /\ c \notin candidates
      BY <1>0, <2>1 DEF InsertCandidate
    <2>2. CASE c \in candidates
      <3>1. c \in Block \ {b} /\ tip \in Block \ {b}
        BY <1>2, <2>2 DEF TypeOK
      <3> QED  BY <1>0, <2>2, <3>1, LessElsewhere DEF CandidatesSound, TypeOK
    <2> QED  BY <1>0, <2>1, <2>2 DEF InsertCandidate
  <1>7. Linked'
    <2>1. \A c \in nChainTx' : Ancestors[c] \subseteq nChainTx'
      BY <1>0, <1>2, ParentPath DEF Linked
    <2>2. b \notin Waiting(b)
      BY <1>2, ParentPath DEF Waiting
    <2>3. queue' \cap nChainTx' = {} /\ unlinked' \cap nChainTx' = {} /\ queue' \cap unlinked' = {}
      BY <1>0, <2>2 DEF Linked, Waiting
    <2>4. \A c \in queue' : Parent[c] \in nChainTx'
      BY <1>0 DEF Linked, Waiting
    <2>5. \A u \in Thread : pc'[u] \in {"disconnect", "connect"} => mostWork[u] # NoBlock
      BY <1>0 DEF Linked, TypeOK
    <2> QED  BY <1>1, <2>1, <2>3, <2>4, <2>5 DEF Linked
  <1> QED  BY <1>4, <1>5, <1>6, <1>7

-----------------------------------------------------------------------------
(* The steps of ActivateBestChain and of the two RPCs, which leave the index *)
(* alone.                                                                    *)

Labels == Holding \cup {"idle", "abc", "flush", "failed"}

\* What is left to show of such a step.
LEMMA StepInd ==
    ASSUME IndInv,
           UNCHANGED <<index, queue>>,
           haveUndo' \subseteq nTx, scriptsValid' \subseteq nTx,
           failedValid' \subseteq known, failedChild' \subseteq known,
           oldTip' \in known, target' \in (known \ {Genesis}) \cup {NoBlock},
           pc' \in [Thread -> Labels],
           mostWork' \in [Thread -> nChainTx \cup {NoBlock}],
           \A u \in Thread : pc'[u] \in {"disconnect", "connect"} => mostWork'[u] # NoBlock,
           shutdown' \in BOOLEAN /\ fault' \in BOOLEAN,
           chain' \subseteq nChainTx, tip' \in chain', \A b \in chain' : Class[b] = "good",
           ChainIsPath', CandidatesSound'
    PROVE  IndInv'
  <1>1. TypeOK'
    <2>1. shutdown' \in BOOLEAN /\ fault' \in BOOLEAN
      OBVIOUS
    <2>2. candidates' \subseteq nChainTx
      BY DEF CandidatesSound, index
    <2>3. /\ known \subseteq Block /\ nTx \subseteq known /\ nChainTx \subseteq nTx
          /\ txValid \subseteq nTx /\ unlinked \subseteq nTx \ {Genesis}
          /\ nSequenceId \in [Block -> Nat] /\ nBlockSequenceId \in Nat
          /\ bestHeader \in known /\ queue \subseteq nTx \ {Genesis}
      BY DEF IndInv, TypeOK
    <2> QED  BY <2>1, <2>2, <2>3 DEF TypeOK, index, Labels
  <1>2. Linked'
    BY DEF Linked, IndInv, index
  <1> QED  BY <1>1, <1>2 DEF IndInv

\* The chain and the candidates after a step that does not move the tip.
LEMMA SameTip ==
    ASSUME IndInv, UNCHANGED <<index, active>>, haveUndo \subseteq haveUndo',
           \A c \in candidates' : c \in nChainTx /\ ~Less(nSequenceId, c, tip)
    PROVE  /\ ChainIsPath' /\ CandidatesSound'
           /\ chain' \subseteq nChainTx /\ tip' \in chain' /\ \A b \in chain' : Class[b] = "good"
  BY DEF IndInv, TypeOK, ChainIsPath, CandidatesSound, Linked, index, active

\* The threads after one of them has jumped, with or without its block.
LEMMA Jump ==
    ASSUME IndInv, NEW t \in Thread, NEW label \in Labels, Goto(t, label),
           \/ UNCHANGED mostWork /\ label \notin {"disconnect", "connect"}
           \/ UNCHANGED mostWork /\ mostWork[t] # NoBlock
           \/ Forget(t) /\ label \notin {"disconnect", "connect"}
    PROVE  /\ pc' \in [Thread -> Labels]
           /\ mostWork' \in [Thread -> nChainTx \cup {NoBlock}]
           /\ \A u \in Thread : pc'[u] \in {"disconnect", "connect"} => mostWork'[u] # NoBlock
  <1>1. pc \in [Thread -> Labels] /\ mostWork \in [Thread -> nChainTx \cup {NoBlock}]
    BY DEF IndInv, TypeOK, Labels
  <1>2. \A u \in Thread : pc[u] \in {"disconnect", "connect"} => mostWork[u] # NoBlock
    BY DEF IndInv, Linked
  <1> QED  BY <1>1, <1>2 DEF Goto, Forget

\* The threads after a step in which nobody jumps.
LEMMA Stay ==
    ASSUME IndInv, UNCHANGED <<pc, mostWork>>
    PROVE  /\ pc' \in [Thread -> Labels]
           /\ mostWork' \in [Thread -> nChainTx \cup {NoBlock}]
           /\ \A u \in Thread : pc'[u] \in {"disconnect", "connect"} => mostWork'[u] # NoBlock
  BY DEF IndInv, TypeOK, Labels, Linked

\* The types that StepInd asks for.
LEMMA Types ==
    ASSUME IndInv
    PROVE  /\ haveUndo \subseteq nTx /\ scriptsValid \subseteq nTx
           /\ failedValid \subseteq known /\ failedChild \subseteq known
           /\ oldTip \in known /\ target \in (known \ {Genesis}) \cup {NoBlock} /\ tip \in known
           /\ known \subseteq Block /\ nChainTx \subseteq nTx /\ nTx \subseteq known
           /\ candidates \subseteq nChainTx
           /\ \A c \in candidates : c \in nChainTx /\ ~Less(nSequenceId, c, tip)
  BY DEF IndInv, TypeOK, CandidatesSound

\* A fault leaves the two flags Boolean.
LEMMA StopType ==
    ASSUME IndInv, UNCHANGED stop \/ (fault' = TRUE /\ \E loud \in BOOLEAN : shutdown' = (shutdown \/ loud))
    PROVE  shutdown' \in BOOLEAN /\ fault' \in BOOLEAN
  BY DEF IndInv, TypeOK, stop

LEMMA TurnInd ==
    ASSUME IndInv, NEW t \in Thread, Turn(t)
    PROVE  IndInv'
  <1>1. /\ UNCHANGED <<index, flags, candidates, active, queue, target, stop>>
        /\ oldTip' \in {oldTip, tip}
    BY DEF Turn
  <1>2. PICK label \in {"flush", "find", "idle", "disconnect"} :
          /\ Goto(t, label)
          /\ \/ UNCHANGED mostWork /\ label \notin {"disconnect", "connect"}
             \/ UNCHANGED mostWork /\ mostWork[t] # NoBlock
             \/ Forget(t) /\ label \notin {"disconnect", "connect"}
    BY DEF Turn
  <1>3. label \in Labels
    BY DEF Labels, Holding
  <1>4. shutdown' \in BOOLEAN /\ fault' \in BOOLEAN
    BY <1>1, StopType
  <1> QED  BY <1>1, <1>2, <1>3, <1>4, Jump, SameTip, Types, StepInd DEF flags

LEMMA FindInd ==
    ASSUME IndInv, NEW t \in Thread, FindMostWorkChain(t)
    PROVE  IndInv'
  <1>1. /\ UNCHANGED <<index, scriptsValid, haveUndo, failedValid, active, queue, target, stop>>
        /\ oldTip' \in {oldTip, tip}
        /\ candidates' \subseteq candidates
    BY DEF FindMostWorkChain
  <1>2. failedChild' \subseteq known
    <2>1. \/ failedChild' = failedChild
          \/ \E best \in candidates : failedChild' \subseteq failedChild \cup Ancestors[best]
      BY DEF FindMostWorkChain, Above
    <2>2. \A best \in candidates : Ancestors[best] \subseteq known
      BY DEF IndInv, Linked, TypeOK
    <2> QED  BY <2>1, <2>2, Types
  <1>3. /\ pc' \in [Thread -> Labels]
        /\ mostWork' \in [Thread -> nChainTx \cup {NoBlock}]
        /\ \A u \in Thread : pc'[u] \in {"disconnect", "connect"} => mostWork'[u] # NoBlock
    <2>1. CASE Goto(t, "idle") /\ UNCHANGED mostWork
      BY <2>1, Jump DEF Labels
    <2>2. CASE UNCHANGED <<pc, mostWork>>
      BY <2>2, Stay
    <2>3. ASSUME NEW best \in candidates, mostWork' = [mostWork EXCEPT ![t] = best], Goto(t, "disconnect")
          PROVE  /\ pc' \in [Thread -> Labels]
                 /\ mostWork' \in [Thread -> nChainTx \cup {NoBlock}]
                 /\ \A u \in Thread : pc'[u] \in {"disconnect", "connect"} => mostWork'[u] # NoBlock
      <3>1. best \in nChainTx /\ best # NoBlock
        BY Types, ClassAssumption
      <3>2. pc \in [Thread -> Labels] /\ mostWork \in [Thread -> nChainTx \cup {NoBlock}]
        BY DEF IndInv, TypeOK, Labels
      <3>3. \A u \in Thread : pc[u] \in {"disconnect", "connect"} => mostWork[u] # NoBlock
        BY DEF IndInv, Linked
      <3>4. "disconnect" \in Labels
        BY DEF Labels, Holding
      <3> QED  BY <2>3, <3>1, <3>2, <3>3, <3>4 DEF Goto
    <2> QED  BY <2>1, <2>2, <2>3 DEF FindMostWorkChain
  <1>4. shutdown' \in BOOLEAN /\ fault' \in BOOLEAN
    BY <1>1, StopType
  <1> QED  BY <1>1, <1>2, <1>3, <1>4, SameTip, Types, StepInd

\* DisconnectTip on a tip that is not genesis keeps the chain a path and leaves
\* every candidate at least as good as the new tip.
LEMMA DisconnectChain ==
    ASSUME IndInv, tip # Genesis, DisconnectTip, UNCHANGED <<index, haveUndo>>,
           candidates' \subseteq candidates
    PROVE  /\ ChainIsPath' /\ CandidatesSound'
           /\ chain' \subseteq nChainTx /\ tip' \in chain' /\ \A b \in chain' : Class[b] = "good"
  <1>1. tip \in Block \ {Genesis} /\ Class[tip] = "good" /\ chain = Ancestors[tip]
    BY DEF IndInv, TypeOK, Linked, ChainIsPath
  <1>2. chain' = Ancestors[tip'] /\ tip' \in chain' /\ tip' = Parent[tip] /\ chain' \subseteq chain
    BY <1>1, ParentPath, SelfAncestor DEF DisconnectTip
  <1>3. ChainIsPath'
    BY <1>2 DEF ChainIsPath, IndInv
  <1>4. CandidatesSound'
    <2>1. nSequenceId \in [Block -> Nat] /\ candidates \subseteq Block
      BY DEF IndInv, TypeOK
    <2> QED  BY <1>1, <1>2, <2>1, Types, LessParent DEF CandidatesSound, index
  <1> QED  BY <1>2, <1>3, <1>4 DEF IndInv, TypeOK, Linked

LEMMA DisconnectInd ==
    ASSUME IndInv, NEW t \in Thread, DisconnectStep(t)
    PROVE  IndInv'
  <1>0. mostWork[t] \in Block
    BY DEF DisconnectStep, IndInv, Linked, TypeOK
  <1>1. CASE /\ Goto(t, "connect")
             /\ UNCHANGED <<index, flags, candidates, active, mostWork, locals, stop>>
    <2>1. "connect" \in Labels /\ mostWork[t] # NoBlock
      BY <1>0, ClassAssumption DEF Labels, Holding
    <2>2. shutdown' \in BOOLEAN /\ fault' \in BOOLEAN
      BY <1>1, StopType
    <2> QED  BY <1>1, <2>1, <2>2, Jump, SameTip, Types, StepInd DEF flags, locals
  <1>2. CASE /\ tip \notin Ancestors[mostWork[t]]
             /\ DisconnectTip
             /\ UNCHANGED <<index, flags, candidates, pc, mostWork, locals, stop>>
    <2>1. tip # Genesis
      BY <1>0, <1>2, TreeAssumption
    <2>2. shutdown' \in BOOLEAN /\ fault' \in BOOLEAN
      BY <1>2, StopType
    <2> QED  BY <1>2, <2>1, <2>2, Stay, DisconnectChain, Types, StepInd DEF flags, locals
  <1>3. CASE /\ \E loud \in BOOLEAN : GiveUp(t, loud, "failed")
             /\ UNCHANGED <<index, flags, candidates, active, locals>>
    <2>1. Goto(t, "failed") /\ Forget(t) /\ "failed" \in Labels
      BY <1>3 DEF GiveUp, Labels
    <2>2. shutdown' \in BOOLEAN /\ fault' \in BOOLEAN
      BY <1>3, StopType DEF GiveUp
    <2> QED  BY <1>3, <2>1, <2>2, Jump, SameTip, Types, StepInd DEF flags, locals
  <1> QED  BY <1>1, <1>2, <1>3 DEF DisconnectStep

\* EndStep, or nothing, leaves the threads in order.
LEMMA EndInd ==
    ASSUME IndInv, NEW t \in Thread, NEW b, EndStep(t, b) \/ UNCHANGED <<pc, mostWork>>
    PROVE  /\ pc' \in [Thread -> Labels]
           /\ mostWork' \in [Thread -> nChainTx \cup {NoBlock}]
           /\ \A u \in Thread : pc'[u] \in {"disconnect", "connect"} => mostWork'[u] # NoBlock
  <1>1. "flush" \in Labels /\ "abc" \in Labels
    BY DEF Labels
  <1>2. CASE Goto(t, "flush") /\ Forget(t)
    BY <1>1, <1>2, Jump
  <1>3. CASE Goto(t, "abc") /\ UNCHANGED mostWork
    BY <1>1, <1>3, Jump
  <1>4. CASE UNCHANGED <<pc, mostWork>>
    BY <1>4, Stay
  <1> QED  BY <1>2, <1>3, <1>4 DEF EndStep

LEMMA ConnectInd ==
    ASSUME IndInv, NEW t \in Thread, NEW b \in Block, ConnectTip(t, b)
    PROVE  IndInv'
  <1>0. /\ pc[t] = "connect" /\ b \in Ancestors[mostWork[t]] \ {Genesis} /\ Parent[b] = tip
        /\ Class[b] = "good" /\ haveUndo' = haveUndo \cup {b} /\ scriptsValid' \subseteq scriptsValid \cup {b}
        /\ tip' = b /\ chain' = chain \cup {b} /\ candidates' = PruneBlockIndexCandidates(b)
        /\ EndStep(t, b) \/ UNCHANGED <<pc, mostWork>>
        /\ UNCHANGED <<index, failedValid, failedChild, locals, stop>>
    BY DEF ConnectTip, Next1, RaiseValidity
  <1>1. b \in nChainTx /\ b \in nTx
    <2>1. mostWork[t] \in nChainTx
      BY <1>0 DEF IndInv, Linked, TypeOK
    <2> QED  BY <1>0, <2>1, Types DEF IndInv, Linked
  <1>2. ChainIsPath'
    BY <1>0, ParentPath DEF ChainIsPath, IndInv
  <1>3. CandidatesSound'
    BY <1>0, Types DEF CandidatesSound, PruneBlockIndexCandidates, index
  <1>4. chain' \subseteq nChainTx /\ tip' \in chain' /\ \A c \in chain' : Class[c] = "good"
    BY <1>0, <1>1 DEF IndInv, TypeOK, Linked
  <1>5. shutdown' \in BOOLEAN /\ fault' \in BOOLEAN
    BY <1>0, StopType
  <1> QED  BY <1>0, <1>1, <1>2, <1>3, <1>4, <1>5, EndInd, Types, StepInd DEF locals

LEMMA FailsInd ==
    ASSUME IndInv, NEW t \in Thread, NEW b \in Block, ConnectTipFails(t, b)
    PROVE  IndInv'
  <1>0. PICK label \in {"abc", "failed"} : Goto(t, label)
    BY DEF ConnectTipFails
  <1>1. /\ Forget(t) /\ candidates' \subseteq candidates
        /\ failedValid' \subseteq failedValid \cup {b}
        /\ b \in Ancestors[mostWork[t]] /\ pc[t] = "connect"
        /\ UNCHANGED <<index, scriptsValid, haveUndo, failedChild, active, locals, stop>>
    BY DEF ConnectTipFails, Next1, InvalidBlockFound
  <1>2. b \in known
    <2>1. mostWork[t] \in nChainTx
      BY <1>1 DEF IndInv, Linked, TypeOK
    <2> QED  BY <1>1, <2>1, Types DEF IndInv, Linked
  <1>3. label \in Labels
    BY DEF Labels
  <1>4. shutdown' \in BOOLEAN /\ fault' \in BOOLEAN
    BY <1>1, StopType
  <1> QED  BY <1>0, <1>1, <1>2, <1>3, <1>4, Jump, SameTip, Types, StepInd DEF locals

LEMMA AbortsInd ==
    ASSUME IndInv, NEW t \in Thread, NEW b \in Block, ConnectTipAborts(t, b)
    PROVE  IndInv'
  <1>1. /\ Forget(t) /\ Goto(t, "failed")
        /\ haveUndo' \in {haveUndo, haveUndo \cup {b}}
        /\ scriptsValid' \subseteq scriptsValid \cup {b}
        /\ b \in Ancestors[mostWork[t]] /\ pc[t] = "connect"
        /\ UNCHANGED <<index, failedValid, failedChild, candidates, active, locals>>
    BY DEF ConnectTipAborts, Next1, GiveUp, RaiseValidity
  <1>2. b \in nTx
    <2>1. mostWork[t] \in nChainTx
      BY <1>1 DEF IndInv, Linked, TypeOK
    <2> QED  BY <1>1, <2>1, Types DEF IndInv, Linked
  <1>3. "failed" \in Labels
    BY DEF Labels
  <1>4. shutdown' \in BOOLEAN /\ fault' \in BOOLEAN
    BY StopType DEF ConnectTipAborts, GiveUp
  <1> QED  BY <1>1, <1>2, <1>3, <1>4, Jump, SameTip, Types, StepInd DEF locals

\* ConnectNothing, Flush and ReturnFalse only move a thread.
LEMMA MoveInd ==
    ASSUME IndInv, NEW t \in Thread, ConnectNothing(t) \/ Flush(t) \/ ReturnFalse(t)
    PROVE  IndInv'
  <1>0. UNCHANGED <<index, flags, candidates, active, locals>>
    BY DEF ConnectNothing, Flush, ReturnFalse
  <1>1. shutdown' \in BOOLEAN /\ fault' \in BOOLEAN
    BY StopType DEF ConnectNothing, Flush, ReturnFalse, GiveUp
  <1>2. /\ pc' \in [Thread -> Labels]
        /\ mostWork' \in [Thread -> nChainTx \cup {NoBlock}]
        /\ \A u \in Thread : pc'[u] \in {"disconnect", "connect"} => mostWork'[u] # NoBlock
    <2>1. CASE ConnectNothing(t)
      BY <2>1, EndInd DEF ConnectNothing
    <2>2. CASE Goto(t, "idle") /\ UNCHANGED mostWork
      BY <2>2, Jump DEF Labels
    <2>3. CASE Goto(t, "failed") /\ Forget(t)
      BY <2>3, Jump DEF Labels
    <2> QED  BY <2>1, <2>2, <2>3 DEF Flush, ReturnFalse, GiveUp
  <1> QED  BY <1>0, <1>1, <1>2, SameTip, Types, StepInd DEF flags, locals

LEMMA InvalidateInd ==
    ASSUME IndInv, NEW t \in Thread, NEW b \in Block \ {Genesis}, InvalidateBlock(t, b)
    PROVE  IndInv'
  <1>1. /\ b \in known /\ failedValid' = failedValid \cup {b} /\ candidates' = candidates \ {b}
        /\ target' = b /\ Goto(t, "invalidate")
        /\ UNCHANGED <<index, scriptsValid, haveUndo, failedChild, active, mostWork, queue, oldTip, stop>>
    BY DEF InvalidateBlock
  <1>2. "invalidate" \in Labels
    BY DEF Labels, Holding
  <1>3. shutdown' \in BOOLEAN /\ fault' \in BOOLEAN
    BY <1>1, StopType
  <1> QED  BY <1>1, <1>2, <1>3, Jump, SameTip, Types, StepInd

LEMMA InvalidateStepInd ==
    ASSUME IndInv, NEW t \in Thread, InvalidateStep(t)
    PROVE  IndInv'
  <1>0. UNCHANGED <<index, scriptsValid, haveUndo, failedValid, locals>>
    BY DEF InvalidateStep
  <1>1. CASE /\ target \in chain /\ DisconnectTip
             /\ failedChild' = failedChild \cup {tip} /\ candidates' = candidates \ {tip}
             /\ UNCHANGED <<pc, mostWork, stop>>
    <2>1. tip # Genesis
      BY <1>1, TreeAssumption, ClassAssumption, Types DEF IndInv, ChainIsPath
    <2>2. shutdown' \in BOOLEAN /\ fault' \in BOOLEAN
      BY <1>1, StopType
    <2> QED  BY <1>0, <1>1, <2>1, <2>2, Stay, DisconnectChain, Types, StepInd DEF locals
  <1>2. CASE /\ failedChild' = failedChild \cup {tip} /\ candidates' = candidates \ {tip}
             /\ UNCHANGED active
             /\ GiveUp(t, TRUE, "idle") \/ GiveUp(t, FALSE, "abc")
    <2>1. PICK label \in {"idle", "abc"} : Goto(t, label) /\ Forget(t)
      BY <1>2 DEF GiveUp
    <2>2. label \in Labels
      BY DEF Labels
    <2>3. shutdown' \in BOOLEAN /\ fault' \in BOOLEAN
      BY <1>2, StopType DEF GiveUp
    <2> QED  BY <1>0, <1>2, <2>1, <2>2, <2>3, Jump, SameTip, Types, StepInd DEF locals
  <1>3. CASE /\ candidates' = candidates \cup {b \in nChainTx : TxOk(b) /\ ~Less(nSequenceId, b, tip)}
             /\ Goto(t, "abc")
             /\ UNCHANGED <<failedChild, active, mostWork, stop>>
    <2>1. "abc" \in Labels
      BY DEF Labels
    <2>2. shutdown' \in BOOLEAN /\ fault' \in BOOLEAN
      BY <1>3, StopType
    <2> QED  BY <1>0, <1>3, <2>1, <2>2, Jump, SameTip, Types, StepInd DEF locals
  <1> QED  BY <1>1, <1>2, <1>3 DEF InvalidateStep, StillActive

LEMMA ReconsiderInd ==
    ASSUME IndInv, NEW t \in Thread, NEW b \in Block \ {Genesis}, ResetBlockFailureFlags(t, b)
    PROVE  IndInv'
  <1>1. /\ failedValid' \subseteq failedValid /\ failedChild' \subseteq failedChild
        /\ \A x \in candidates' : x \in candidates \/ (x \in nChainTx /\ Less(nSequenceId, tip, x))
        /\ Goto(t, "abc")
        /\ UNCHANGED <<index, scriptsValid, haveUndo, active, mostWork, locals, stop>>
    BY DEF ResetBlockFailureFlags
  <1>2. \A x \in candidates' : x \in nChainTx /\ ~Less(nSequenceId, x, tip)
    <2>1. nSequenceId \in [Block -> Nat] /\ nChainTx \subseteq Block /\ tip \in Block
      BY DEF IndInv, TypeOK
    <2> QED  BY <1>1, <2>1, Types, LessAsymmetric
  <1>3. "abc" \in Labels
    BY DEF Labels
  <1>4. shutdown' \in BOOLEAN /\ fault' \in BOOLEAN
    BY <1>1, StopType
  <1> QED  BY <1>1, <1>2, <1>3, <1>4, Jump, SameTip, Types, StepInd DEF locals

-----------------------------------------------------------------------------
LEMMA StutterInd ==
    ASSUME IndInv, UNCHANGED vars
    PROVE  IndInv'
  <1>1. /\ UNCHANGED <<index, flags, candidates, active, locals>> /\ UNCHANGED <<pc, mostWork, stop>>
    BY DEF vars
  <1>2. shutdown' \in BOOLEAN /\ fault' \in BOOLEAN
    BY <1>1, StopType
  <1> QED  BY <1>1, <1>2, Stay, SameTip, Types, StepInd DEF flags, locals

LEMMA NextInd ==
    ASSUME IndInv, [Next]_vars
    PROVE  IndInv'
  <1>1. CASE UNCHANGED vars
    BY <1>1, StutterInd
  <1>2. ASSUME NEW t \in Thread, Progress(t)
        PROVE  IndInv'
    BY <1>2, LinkInd, TurnInd, FindInd, DisconnectInd, ConnectInd, FailsInd, AbortsInd, MoveInd,
       InvalidateStepInd DEF Progress
  <1>3. ASSUME NEW t \in Thread, Request(t)
        PROVE  IndInv'
    BY <1>3, HeaderInd, BlockInd, InvalidateInd, ReconsiderInd DEF Request
  <1> QED  BY <1>1, <1>2, <1>3 DEF Next

\* Every behaviour of the block index keeps its type, keeps chainActive a path
\* from genesis whose blocks have undo data (what DisconnectTip relies on), and
\* keeps everything worse than the tip out of setBlockIndexCandidates (what
\* CheckBlockIndex asserts at main.cpp:4780).
THEOREM ChainAndCandidates == Spec => [](TypeOK /\ ChainIsPath /\ CandidatesSound)
  <1>1. Init => IndInv
    BY InitInd
  <1>2. IndInv /\ [Next]_vars => IndInv'
    BY NextInd
  <1>3. IndInv => TypeOK /\ ChainIsPath /\ CandidatesSound
    BY DEF IndInv
  <1> QED  BY <1>1, <1>2, <1>3, PTL DEF Spec

\* chainActive is the path from the tip to genesis, each of its blocks with undo
\* data (what DisconnectTip needs), after every step.
THEOREM ChainConnected == Spec => []ChainIsPath
  BY ChainAndCandidates, PTL

-----------------------------------------------------------------------------
(* What arrives, and what ActivateBestChain makes of it.                   *)

USE Zenon  \* where a step names no other prover

\* The comparator is a total order.
LEMMA LessTotal ==
    ASSUME NEW s \in [Block -> Nat], NEW a \in Block, NEW b \in Block, a # b
    PROVE  Less(s, a, b) \/ Less(s, b, a)
  BY WorkAssumption, SMT DEF Less

LEMMA NotLessTransitive ==
    ASSUME NEW s \in [Block -> Nat], NEW a \in Block, NEW b \in Block, NEW c \in Block,
           ~Less(s, a, b), ~Less(s, b, c)
    PROVE  ~Less(s, a, c)
  BY WorkAssumption, SMT DEF Less

\* Every set of numbers has a least one, and so every set of blocks a lowest:
\* the form in which the proofs use induction on the height.
LEMMA LeastNumber ==
    ASSUME NEW S \in SUBSET Nat, S # {}
    PROVE  \E n \in S : \A m \in S : n <= m
  <1>1. IsWellFoundedOn(OpToRel(<, Nat), Nat)
    BY NatLessThanWellFounded
  <1>2. PICK n \in S : \A m \in S : ~ (<<m, n>> \in OpToRel(<, Nat))
    BY <1>1, WFMin
  <1>3. \A m \in S : m < n => <<m, n>> \in OpToRel(<, Nat)
    <2> SUFFICES ASSUME NEW m \in S, m < n
                 PROVE  <<m, n>> \in {ss \in Nat \X Nat : ss[1] < ss[2]}
      BY DEF OpToRel
    <2> QED  OBVIOUS
  <1>4. \A m \in S : ~(m < n)
    BY <1>2, <1>3
  <1> QED  BY <1>4, SMT

LEMMA LowestBlock ==
    ASSUME NEW S \in SUBSET Block, S # {}
    PROVE  \E x \in S : \A y \in S : Height[x] <= Height[y]
  <1> DEFINE T == {Height[x] : x \in S}
  <1>1. T \subseteq Nat /\ T # {}
    BY TreeAssumption, SMT
  <1>2. PICK n \in T : \A m \in T : n <= m
    BY <1>1, LeastNumber
  <1> QED  BY <1>2

\* What pprev leads to from an ancestor, it leads to from the block.
LEMMA AncestorPath ==
    ASSUME NEW b \in Block, NEW x \in Ancestors[b]
    PROVE  x \in Block /\ Ancestors[x] \subseteq Ancestors[b]
  <1> DEFINE T == {c \in Block : \E y \in Ancestors[c] : ~(Ancestors[y] \subseteq Ancestors[c])}
  <1>1. ASSUME T # {}  PROVE FALSE
    <2>1. T \subseteq Block
      OBVIOUS
    <2>2. PICK c \in T : \A d \in T : Height[c] <= Height[d]
      BY <1>1, <2>1, LowestBlock
    <2>3. PICK y \in Ancestors[c] : ~(Ancestors[y] \subseteq Ancestors[c])
      OBVIOUS
    <2>4. c # Genesis /\ y # c
      BY <2>3, TreeAssumption
    <2>5. /\ Parent[c] \in Block /\ Height[Parent[c]] < Height[c]
          /\ Ancestors[c] = Ancestors[Parent[c]] \cup {c}
      BY <2>4, TreeAssumption, SMT
    <2>6. Parent[c] \notin T
      BY <2>2, <2>5, TreeAssumption, SMT
    <2>7. Ancestors[y] \subseteq Ancestors[Parent[c]]
      BY <2>3, <2>4, <2>5, <2>6
    <2> QED  BY <2>3, <2>5, <2>7
  <1> QED  BY <1>1, TreeAssumption

\* Two blocks of one path are on the path of the higher one.
LEMMA AncestorLine ==
    ASSUME NEW b \in Block, NEW x \in Ancestors[b], NEW y \in Ancestors[b], Height[x] <= Height[y]
    PROVE  x \in Ancestors[y]
  <1> DEFINE T == {c \in Block : \E u, v \in Ancestors[c] : Height[u] <= Height[v] /\ u \notin Ancestors[v]}
  <1>1. ASSUME T # {}  PROVE FALSE
    <2>1. T \subseteq Block
      OBVIOUS
    <2>2. PICK c \in T : \A d \in T : Height[c] <= Height[d]
      BY <1>1, <2>1, LowestBlock
    <2>3. PICK u \in Ancestors[c], v \in Ancestors[c] : Height[u] <= Height[v] /\ u \notin Ancestors[v]
      OBVIOUS
    <2>4. v # c
      BY <2>3
    <2>5. u # c
      BY <2>3, <2>4, TreeAssumption, SMT
    <2>6. c # Genesis
      BY <2>3, <2>4, TreeAssumption
    <2>7. /\ Parent[c] \in Block /\ Height[Parent[c]] < Height[c]
          /\ Ancestors[c] = Ancestors[Parent[c]] \cup {c}
      BY <2>6, TreeAssumption, SMT
    <2>8. Parent[c] \in T
      BY <2>3, <2>4, <2>5, <2>7
    <2> QED  BY <2>2, <2>7, <2>8, TreeAssumption, SMT
  <1> QED  BY <1>1

-----------------------------------------------------------------------------
(* Marks, without RPC calls.                                                *)

\* A branch that connects has no mark.
LEMMA ConnectsUnmarked ==
    ASSUME MarksJustified, NEW b \in Block, Connects(b)
    PROVE  Unmarked(b) /\ b \notin Failed
  BY DEF MarksJustified, Connects, Unmarked

\* What FindMostWorkChain marks or drops is above a refused block.
LEMMA AboveMarked ==
    ASSUME MarksJustified, NEW best \in Block, NEW test \in Ancestors[best] \cap Failed,
           NEW x \in Above(Ancestors[best] \ chain, test) \cup {test}
    PROVE  ~Unmarked(x)
  <1>1. test \in Ancestors[x] /\ x \in Block
    <2>1. test \in Block /\ x \in Ancestors[best] /\ x \in Block
      BY TreeAssumption DEF Above
    <2>2. CASE x = test
      BY <2>1, <2>2, SelfAncestor
    <2>3. CASE Height[x] > Height[test]
      BY <2>1, <2>3, AncestorLine, TreeAssumption, SMT
    <2> QED  BY <2>1, <2>2, <2>3 DEF Above
  <1>2. Ancestors[test] \subseteq Ancestors[x]
    BY <1>1, AncestorPath
  <1>3. ~Unmarked(test)
    BY DEF MarksJustified
  <1> QED  BY <1>2, <1>3 DEF Unmarked

\* The next block to connect is linked, and its branch connects if it does.
LEMMA NextLinked ==
    ASSUME IndInv, NEW t \in Thread, NEW b \in Block, pc[t] = "connect", Next1(t, b)
    PROVE  /\ b \in nChainTx /\ b \in Block \ {Genesis} /\ Ancestors[b] = chain \cup {b}
           /\ Class[b] = "good" => Connects(b)
  <1>1. mostWork[t] \in nChainTx
    BY DEF IndInv, Linked, TypeOK
  <1>2. b \in nChainTx /\ b \in Block \ {Genesis}
    BY <1>1 DEF IndInv, Linked, Next1
  <1>3. Ancestors[b] = chain \cup {b}
    BY <1>2, ParentPath DEF Next1, IndInv, ChainIsPath
  <1> QED  BY <1>2, <1>3 DEF Connects, IndInv, Linked

\* invalidateblock is an RPC call.
LEMMA NotInvalidatingNext ==
    ASSUME ~Rpc, IndInv, NotInvalidating, [Next]_vars
    PROVE  NotInvalidating'
  <1>0. pc \in [Thread -> Labels]
    BY DEF IndInv, TypeOK, Labels
  <1>1. CASE UNCHANGED vars
    BY <1>1 DEF vars, NotInvalidating
  <1>2. ASSUME NEW t \in Thread, Progress(t)
        PROVE  NotInvalidating'
    <2>1. \/ pc' = pc
          \/ \E label \in {"idle", "abc", "flush", "failed", "find", "disconnect", "connect"} :
               pc' = [pc EXCEPT ![t] = label]
      BY <1>2 DEF Progress, LinkBlock, Turn, FindMostWorkChain, DisconnectStep, ConnectTip, ConnectTipFails,
                  ConnectTipAborts, ConnectNothing, Flush, ReturnFalse, EndStep, GiveUp, Goto,
                  InvalidateStep, NotInvalidating
    <2> QED  BY <1>0, <2>1 DEF NotInvalidating
  <1>3. ASSUME NEW t \in Thread, Request(t)
        PROVE  NotInvalidating'
    <2>1. pc' \in {pc, [pc EXCEPT ![t] = "abc"], [pc EXCEPT ![t] = "link"]}
      BY <1>3 DEF Request, ReceiveHeader, ProcessNewBlock, InvalidateBlock, ResetBlockFailureFlags, Goto
    <2> QED  BY <1>0, <2>1 DEF NotInvalidating
  <1> QED  BY <1>1, <1>2, <1>3 DEF Next

LEMMA MarksKept ==
    ASSUME MarksJustified, UNCHANGED <<failedValid, failedChild, nTx>>, nChainTx \subseteq nChainTx'
    PROVE  MarksJustified'
  BY DEF MarksJustified, Unmarked, Failed

LEMMA MarksBlock ==
    ASSUME IndInv, MarksJustified, NEW t \in Thread, NEW b \in Block \ {Genesis}, NEW requested \in BOOLEAN,
           ProcessNewBlock(t, b, requested)
    PROVE  MarksJustified'
  <1>1. b \notin Failed
    BY DEF ProcessNewBlock, AcceptBlockHeader, IndInv, TypeOK, Failed
  <1>2. UNCHANGED <<nChainTx, failedChild>>
    BY DEF ProcessNewBlock
  <1>3. \/ nTx' = nTx /\ failedValid' = failedValid
        \/ b \notin nTx /\ Class[b] = "badblock" /\ failedValid' = failedValid \cup {b} /\ nTx' = nTx
        \/ Class[b] # "badblock" /\ nTx' = nTx \cup {b} /\ failedValid' = failedValid
    BY DEF ProcessNewBlock, Unwanted
  <1>4. b \in Ancestors[b]
    BY SelfAncestor
  <1> QED  BY <1>1, <1>2, <1>3, <1>4 DEF MarksJustified, Unmarked, Failed

LEMMA MarksFind ==
    ASSUME IndInv, MarksJustified, NEW t \in Thread, FindMostWorkChain(t)
    PROVE  /\ MarksJustified'
           /\ candidates' \subseteq candidates
           /\ \A x \in candidates \ candidates' : ~Unmarked(x)
           /\ UNCHANGED <<failedValid, nTx, nChainTx>>
  <1>1. UNCHANGED <<failedValid, nTx, nChainTx>>
    BY DEF FindMostWorkChain, index
  <1>2. CASE UNCHANGED <<failedChild, candidates>>
    BY <1>1, <1>2, MarksKept
  <1>3. ASSUME NEW best \in candidates, NEW test \in (Ancestors[best] \ chain) \cap Failed,
               failedChild' = failedChild \cup Above(Ancestors[best] \ chain, test),
               candidates' = candidates \ (Above(Ancestors[best] \ chain, test) \cup {test})
        PROVE  /\ MarksJustified'
               /\ candidates' \subseteq candidates
               /\ \A x \in candidates \ candidates' : ~Unmarked(x)
    <2>1. best \in Block /\ Ancestors[best] \subseteq nChainTx
      BY DEF IndInv, TypeOK, Linked
    <2>2. \A x \in Above(Ancestors[best] \ chain, test) \cup {test} : ~Unmarked(x)
      BY <2>1, AboveMarked
    <2>3. Above(Ancestors[best] \ chain, test) \subseteq nChainTx
      BY <2>1 DEF Above
    <2>4. MarksJustified'
      BY <1>1, <1>3, <2>2, <2>3 DEF MarksJustified, Unmarked, Failed
    <2> QED  BY <1>3, <2>2, <2>4
  <1> QED  BY <1>1, <1>2, <1>3 DEF FindMostWorkChain

LEMMA MarksFails ==
    ASSUME IndInv, MarksJustified, NEW t \in Thread, NEW b \in Block, ConnectTipFails(t, b)
    PROVE  MarksJustified'
  <1>1. pc[t] = "connect" /\ Next1(t, b) /\ UNCHANGED <<nTx, nChainTx, failedChild>>
    BY DEF ConnectTipFails, index
  <1>2. b \in nChainTx /\ b \in Ancestors[b]
    BY <1>1, NextLinked, SelfAncestor
  <1>3. \/ Class[b] = "badconnect" /\ failedValid' = failedValid \cup {b}
        \/ failedValid' = failedValid
    BY DEF ConnectTipFails, InvalidBlockFound
  <1> QED  BY <1>1, <1>2, <1>3 DEF MarksJustified, Unmarked, Failed

LEMMA MarksNext ==
    ASSUME ~Rpc, IndInv, NotInvalidating, MarksJustified, [Next]_vars
    PROVE  MarksJustified'
  <1>1. CASE UNCHANGED vars
    BY <1>1, MarksKept DEF vars, flags, index
  <1>2. ASSUME NEW t \in Thread, Progress(t)
        PROVE  MarksJustified'
    <2>1. CASE LinkBlock(t)
      <3>1. UNCHANGED <<failedValid, failedChild, nTx>> /\ nChainTx \subseteq nChainTx'
        BY <2>1 DEF LinkBlock, flags, SetChainTx
      <3> QED  BY <3>1, MarksKept
    <2>2. CASE FindMostWorkChain(t)
      BY <2>2, MarksFind
    <2>3. ASSUME NEW b \in Block, ConnectTipFails(t, b)
          PROVE  MarksJustified'
      BY <2>3, MarksFails
    <2>4. CASE \/ Turn(t) \/ DisconnectStep(t) \/ ConnectNothing(t) \/ Flush(t) \/ ReturnFalse(t)
               \/ \E b \in Block : ConnectTip(t, b) \/ ConnectTipAborts(t, b)
      <3>1. UNCHANGED <<failedValid, failedChild, nTx, nChainTx>>
        BY <2>4 DEF Turn, DisconnectStep, ConnectNothing, Flush, ReturnFalse, ConnectTip, ConnectTipAborts,
                    flags, index
      <3> QED  BY <3>1, MarksKept
    <2> QED  BY <1>2, <2>1, <2>2, <2>3, <2>4 DEF Progress, InvalidateStep, NotInvalidating
  <1>3. ASSUME NEW t \in Thread, Request(t)
        PROVE  MarksJustified'
    <2>1. PICK b \in Block \ {Genesis} :
            ReceiveHeader(t, b) \/ \E requested \in BOOLEAN : ProcessNewBlock(t, b, requested)
      BY <1>3 DEF Request, InvalidateBlock, ResetBlockFailureFlags
    <2>2. CASE ReceiveHeader(t, b)
      BY <2>2, MarksKept DEF ReceiveHeader, flags
    <2> QED  BY <2>1, <2>2, MarksBlock
  <1> QED  BY <1>1, <1>2, <1>3 DEF Next

-----------------------------------------------------------------------------
(* Stored blocks and where they wait.                                       *)

\* The steps other than LinkBlock leave the index and its queue alone, and a
\* thread in the middle of linking where it is.
LEMMA StepLeavesIndex ==
    ASSUME IndInv, NotInvalidating, NEW t \in Thread, Progress(t), ~LinkBlock(t)
    PROVE  /\ UNCHANGED <<index, queue>>
           /\ failedValid \subseteq failedValid'
           /\ \A u \in Thread : pc[u] = "link" => pc'[u] = "link"
  <1>0. pc \in [Thread -> Labels]
    BY DEF IndInv, TypeOK, Labels
  <1>1. UNCHANGED <<index, queue>> /\ failedValid \subseteq failedValid'
    BY DEF Progress, Turn, FindMostWorkChain, DisconnectStep, ConnectTip, ConnectTipFails, ConnectTipAborts,
           ConnectNothing, Flush, ReturnFalse, InvalidateStep, NotInvalidating, InvalidBlockFound, flags, locals
  <1>2. pc[t] # "link" /\ (pc' = pc \/ \E label \in Labels : pc' = [pc EXCEPT ![t] = label])
    BY DEF Progress, Turn, FindMostWorkChain, DisconnectStep, ConnectTip, ConnectTipFails,
           ConnectTipAborts, ConnectNothing, Flush, ReturnFalse, EndStep, GiveUp, Goto,
           InvalidateStep, NotInvalidating, Labels, Holding
  <1> QED  BY <1>0, <1>1, <1>2

LEMMA PlacedLink ==
    ASSUME IndInv, StoredPlaced, NEW t \in Thread, LinkBlock(t)
    PROVE  StoredPlaced'
  <1>0. PICK b \in queue :
        /\ nChainTx' = nChainTx \cup {b}
        /\ queue' = (queue \ {b}) \cup Waiting(b)
        /\ unlinked' = unlinked \ Waiting(b)
        /\ queue' = {} \/ pc' = pc
    BY DEF LinkBlock, SetChainTx
  <1>1. UNCHANGED <<known, nTx, failedValid>> /\ pc[t] = "link"
    BY DEF LinkBlock, flags
  <1>2. queue' # {} => \E u \in Thread : pc'[u] = "link"
    BY <1>0, <1>1
  <1>3. b \in nTx
    BY DEF IndInv, TypeOK
  <1>4. ASSUME NEW c \in nTx \ nChainTx'
        PROVE  \/ c \in queue'
               \/ Parent[c] \notin nChainTx' /\ (c \in unlinked' \/ Parent[c] \in failedValid \ nTx)
    <2>1. CASE c \in queue
      BY <1>0, <1>4, <2>1
    <2>2. CASE c \notin queue
      <3>1. Parent[c] \notin nChainTx /\ (c \in unlinked \/ Parent[c] \in failedValid \ nTx)
        BY <1>0, <1>4, <2>2 DEF StoredPlaced
      <3> QED  BY <1>0, <1>3, <3>1 DEF Waiting
    <2> QED  BY <2>1, <2>2
  <1> QED  BY <1>1, <1>2, <1>4 DEF StoredPlaced

LEMMA PlacedBlock ==
    ASSUME IndInv, MarksJustified, StoredPlaced,
           NEW t \in Thread, NEW b \in Block \ {Genesis}, NEW requested \in BOOLEAN,
           ProcessNewBlock(t, b, requested)
    PROVE  StoredPlaced'
  <1>0. pc \in [Thread -> Labels] /\ failedValid \subseteq known /\ failedChild \subseteq known
    BY DEF IndInv, TypeOK, Labels
  <1>1. /\ ~Locked /\ UNCHANGED nChainTx /\ known' = known \cup {b}
        /\ IF b \in known THEN b \notin Failed ELSE TreeOk(Parent[b])
    BY DEF ProcessNewBlock, AcceptBlockHeader
  <1>2. queue = {}
    BY <1>1 DEF StoredPlaced, Locked, Holding
  <1>3. \A x \in known' \ {Genesis} : Parent[x] \in known'
    BY <1>1 DEF StoredPlaced, TreeOk
  <1>4. CASE UNCHANGED <<nTx, unlinked, queue>> /\ failedValid \subseteq failedValid'
    BY <1>1, <1>2, <1>3, <1>4 DEF StoredPlaced
  <1>5. CASE /\ b \notin nTx /\ nTx' = nTx \cup {b} /\ failedValid' = failedValid
             /\ Parent[b] \in nChainTx /\ queue' = {b} /\ Goto(t, "link") /\ unlinked' = unlinked
    <2>1. b \notin failedValid
      BY <1>0, <1>1 DEF Failed
    <2>2. pc'[t] = "link"
      BY <1>0, <1>5 DEF Goto
    <2>3. \A c \in nTx' \ nChainTx :
            \/ c \in queue'
            \/ Parent[c] \notin nChainTx /\ (c \in unlinked' \/ Parent[c] \in failedValid \ nTx')
      BY <1>2, <1>5, <2>1 DEF StoredPlaced
    <2> QED  BY <1>1, <1>3, <1>5, <2>2, <2>3 DEF StoredPlaced
  <1>6. CASE /\ b \notin nTx /\ nTx' = nTx \cup {b} /\ failedValid' = failedValid
             /\ Parent[b] \notin nChainTx /\ queue' = queue /\ unlinked' = InsertUnlinked(b)
    <2>1. b \notin failedValid
      BY <1>0, <1>1 DEF Failed
    <2>2. b \in unlinked' \/ Parent[b] \in failedValid \ nTx'
      <3>1. CASE TreeOk(Parent[b])
        BY <1>6, <3>1 DEF InsertUnlinked
      <3>2. CASE ~TreeOk(Parent[b])
        <4>1. Parent[b] \in known /\ Parent[b] \in Failed
          BY <1>1, <3>2 DEF StoredPlaced, TreeOk
        <4>2. Parent[b] \in failedValid \ nTx
          BY <1>6, <4>1 DEF MarksJustified, Failed
        <4> QED  BY <1>6, <2>1, <4>2
      <3> QED  BY <3>1, <3>2
    <2>3. \A c \in nTx' \ nChainTx :
            \/ c \in queue'
            \/ Parent[c] \notin nChainTx /\ (c \in unlinked' \/ Parent[c] \in failedValid \ nTx')
      BY <1>2, <1>6, <2>1, <2>2 DEF StoredPlaced, InsertUnlinked
    <2> QED  BY <1>1, <1>2, <1>3, <1>6, <2>3 DEF StoredPlaced
  <1> QED  BY <1>4, <1>5, <1>6 DEF ProcessNewBlock, Unwanted

LEMMA PlacedNext ==
    ASSUME ~Rpc, IndInv, NotInvalidating, MarksJustified, StoredPlaced, [Next]_vars
    PROVE  StoredPlaced'
  <1>1. CASE UNCHANGED vars
    BY <1>1 DEF vars, index, flags, locals, StoredPlaced
  <1>2. ASSUME NEW t \in Thread, Progress(t)
        PROVE  StoredPlaced'
    <2>1. CASE LinkBlock(t)
      BY <2>1, PlacedLink
    <2>2. CASE ~LinkBlock(t)
      <3>1. /\ UNCHANGED <<index, queue>> /\ failedValid \subseteq failedValid'
            /\ \A u \in Thread : pc[u] = "link" => pc'[u] = "link"
        BY <1>2, <2>2, StepLeavesIndex
      <3> QED  BY <3>1 DEF StoredPlaced, index
    <2> QED  BY <2>1, <2>2
  <1>3. ASSUME NEW t \in Thread, Request(t)
        PROVE  StoredPlaced'
    <2>1. PICK b \in Block \ {Genesis} :
            ReceiveHeader(t, b) \/ \E requested \in BOOLEAN : ProcessNewBlock(t, b, requested)
      BY <1>3 DEF Request, InvalidateBlock, ResetBlockFailureFlags
    <2>2. CASE ReceiveHeader(t, b)
      BY <2>2 DEF ReceiveHeader, AcceptBlockHeader, TreeOk, flags, locals, StoredPlaced
    <2> QED  BY <2>1, <2>2, PlacedBlock
  <1> QED  BY <1>1, <1>2, <1>3 DEF Next

-----------------------------------------------------------------------------
(* The candidates.                                                          *)

LEMMA OfferedKept ==
    ASSUME BestOffered, UNCHANGED <<haveUndo, nChainTx, nSequenceId>>, failedValid \subseteq failedValid',
           candidates' \subseteq candidates,
           \A x \in candidates \ candidates' : ~Connects(x) /\ Ancestors[x] \cap failedValid' # {}
    PROVE  BestOffered'
  BY DEF BestOffered, Connected, AboveConnected, Unmarked, Connects, Less

\* ConnectBlock has accepted b, and PruneBlockIndexCandidates has run or not.
LEMMA OfferedConnect ==
    ASSUME IndInv, MarksJustified, BestOffered, NEW b \in nChainTx, Connects(b),
           haveUndo' = haveUndo \cup {b}, UNCHANGED <<nChainTx, nSequenceId, failedValid>>,
           candidates' \in {candidates, PruneBlockIndexCandidates(b)}
    PROVE  BestOffered'
  <1> DEFINE s == nSequenceId
  <1>0. /\ s \in [Block -> Nat] /\ candidates \subseteq Block /\ nChainTx \subseteq Block /\ Connected \subseteq Block
        /\ b \in Block
    BY TreeAssumption DEF IndInv, TypeOK, Connected
  <1>1. Connected' = Connected \cup {b}
    BY DEF Connected
  <1>2. ASSUME NEW c \in nChainTx, Unmarked(c)', AboveConnected(c)'
        PROVE  c \in candidates'
    <2>1. AboveConnected(c) /\ ~Less(s, c, b) /\ Unmarked(c)
      BY <1>1, <1>2 DEF AboveConnected, Unmarked
    <2> QED  BY <2>1 DEF BestOffered, PruneBlockIndexCandidates
  <1>3. \E c \in candidates' : Connects(c) /\ AboveConnected(c)'
    <2>1. PICK c \in candidates : Connects(c) /\ AboveConnected(c)
      BY DEF BestOffered
    <2>2. CASE ~Less(s, c, b)
      <3>1. c \in candidates'
        BY <2>2 DEF PruneBlockIndexCandidates
      <3>2. AboveConnected(c)'
        BY <1>1, <2>1, <2>2 DEF AboveConnected
      <3> QED  BY <2>1, <3>1, <3>2
    <2>3. CASE Less(s, c, b)
      <3>1. ~Less(s, b, c) /\ ~Less(s, b, b)
        BY <1>0, <2>3, LessAsymmetric, LessIrreflexive
      <3>2. \A x \in Connected : ~Less(s, b, x)
        BY <1>0, <2>1, <3>1, NotLessTransitive DEF AboveConnected
      <3>3. b \in candidates
        BY <1>0, <3>2, ConnectsUnmarked DEF BestOffered, AboveConnected
      <3>4. b \in candidates' /\ AboveConnected(b)'
        BY <1>1, <3>1, <3>2, <3>3 DEF PruneBlockIndexCandidates, AboveConnected
      <3> QED  BY <3>4
    <2> QED  BY <2>2, <2>3
  <1> QED  BY <1>1, <1>2, <1>3 DEF BestOffered, Connects

LEMMA OfferedLink ==
    ASSUME IndInv, BestOffered, NEW t \in Thread, LinkBlock(t)
    PROVE  BestOffered'
  <1>0. PICK b \in queue :
        /\ nChainTx' = nChainTx \cup {b}
        /\ nSequenceId' = [nSequenceId EXCEPT ![b] = nBlockSequenceId]
        /\ candidates' = InsertCandidate(nSequenceId', b)
    BY DEF LinkBlock, SetChainTx
  <1>1. UNCHANGED <<haveUndo, failedValid, tip>>
    BY DEF LinkBlock, flags, active
  <1>2. b \in Block /\ b \notin nChainTx /\ nSequenceId \in [Block -> Nat] /\ nBlockSequenceId \in Nat
    BY DEF IndInv, TypeOK, Linked
  <1>3. Connected' = Connected /\ Connected \subseteq Block \ {b} /\ tip \in Connected
    BY <1>1, <1>2 DEF Connected, BestOffered, IndInv, TypeOK, ChainIsPath
  <1>4. \A c \in nChainTx : AboveConnected(c)' <=> AboveConnected(c)
    <2>1. nChainTx \subseteq Block \ {b}
      BY <1>2 DEF IndInv, TypeOK
    <2> QED  BY <1>0, <1>2, <1>3, <2>1, LessElsewhere DEF AboveConnected
  <1>5. candidates \subseteq candidates' /\ (AboveConnected(b)' => b \in candidates')
    BY <1>0, <1>3 DEF InsertCandidate, AboveConnected
  <1>6. \A c \in nChainTx' : Unmarked(c)' /\ AboveConnected(c)' => c \in candidates'
    BY <1>0, <1>1, <1>4, <1>5 DEF BestOffered, Unmarked
  <1>7. \E c \in candidates' : Connects(c) /\ AboveConnected(c)'
    BY <1>4, <1>5 DEF BestOffered, IndInv, TypeOK
  <1> QED  BY <1>0, <1>3, <1>6, <1>7 DEF BestOffered, Connects

LEMMA OfferedNext ==
    ASSUME ~Rpc, IndInv, NotInvalidating, MarksJustified, BestOffered, [Next]_vars
    PROVE  BestOffered'
  <1>1. CASE UNCHANGED vars
    BY <1>1, OfferedKept DEF vars, index, flags
  <1>2. ASSUME NEW t \in Thread, Progress(t)
        PROVE  BestOffered'
    <2>1. CASE LinkBlock(t)
      BY <2>1, OfferedLink
    <2>2. CASE FindMostWorkChain(t)
      <3>1. UNCHANGED <<haveUndo, nChainTx, nSequenceId, failedValid>>
        BY <2>2 DEF FindMostWorkChain, index
      <3>2. candidates' \subseteq candidates /\ \A x \in candidates \ candidates' : ~Unmarked(x)
        BY <2>2, MarksFind
      <3>3. \A x \in candidates \ candidates' : ~Connects(x) /\ Ancestors[x] \cap failedValid' # {}
        BY <3>1, <3>2, ConnectsUnmarked DEF Unmarked, IndInv, TypeOK
      <3> QED  BY <3>1, <3>2, <3>3, OfferedKept
    <2>3. ASSUME NEW b \in Block, ConnectTipFails(t, b)
          PROVE  BestOffered'
      <3>1. UNCHANGED <<haveUndo, nChainTx, nSequenceId>> /\ b \in Ancestors[b]
        BY <2>3, SelfAncestor DEF ConnectTipFails, index
      <3>2. \/ Class[b] = "badconnect" /\ failedValid' = failedValid \cup {b} /\ candidates' = candidates \ {b}
            \/ UNCHANGED <<failedValid, candidates>>
        BY <2>3 DEF ConnectTipFails, InvalidBlockFound
      <3> QED  BY <3>1, <3>2, OfferedKept DEF Connects
    <2>4. ASSUME NEW b \in Block, ConnectTip(t, b) \/ ConnectTipAborts(t, b)
          PROVE  BestOffered'
      <3>1. b \in nChainTx /\ (Class[b] = "good" => Connects(b))
        BY <2>4, NextLinked DEF ConnectTip, ConnectTipAborts
      <3>2. UNCHANGED <<nChainTx, nSequenceId, failedValid>>
        BY <2>4 DEF ConnectTip, ConnectTipAborts, index
      <3>3. CASE UNCHANGED <<haveUndo, candidates>>
        BY <3>2, <3>3, OfferedKept
      <3>4. CASE /\ Class[b] = "good" /\ haveUndo' = haveUndo \cup {b}
                 /\ candidates' \in {candidates, PruneBlockIndexCandidates(b)}
        BY <3>1, <3>2, <3>4, OfferedConnect
      <3> QED  BY <2>4, <3>3, <3>4 DEF ConnectTip, ConnectTipAborts
    <2>5. CASE \/ Turn(t) \/ DisconnectStep(t) \/ ConnectNothing(t) \/ Flush(t) \/ ReturnFalse(t)
      <3>1. UNCHANGED <<haveUndo, nChainTx, nSequenceId, failedValid, candidates>>
        BY <2>5 DEF Turn, DisconnectStep, ConnectNothing, Flush, ReturnFalse, flags, index
      <3> QED  BY <3>1, OfferedKept
    <2> QED  BY <1>2, <2>1, <2>2, <2>3, <2>4, <2>5 DEF Progress, InvalidateStep, NotInvalidating
  <1>3. ASSUME NEW t \in Thread, Request(t)
        PROVE  BestOffered'
    <2>1. /\ UNCHANGED <<haveUndo, nChainTx, nSequenceId, candidates>>
          /\ failedValid \subseteq failedValid'
      BY <1>3 DEF Request, InvalidateBlock, ResetBlockFailureFlags, ReceiveHeader, ProcessNewBlock, flags
    <2> QED  BY <2>1, OfferedKept
  <1> QED  BY <1>1, <1>2, <1>3 DEF Next

-----------------------------------------------------------------------------
(* BLOCK_VALID_SCRIPTS.                                                     *)

LEMMA ScriptsKept ==
    ASSUME ScriptsRaised, UNCHANGED scriptsValid, chain' \subseteq chain
    PROVE  ScriptsRaised'
  BY DEF ScriptsRaised, ScriptsValidFromGenesis

LEMMA ScriptsConnect ==
    ASSUME IndInv, MarksJustified, ScriptsRaised, NEW t \in Thread, NEW b \in Block,
           ConnectTip(t, b) \/ ConnectTipAborts(t, b)
    PROVE  ScriptsRaised'
  <1>1. pc[t] = "connect" /\ Next1(t, b)
    BY DEF ConnectTip, ConnectTipAborts
  <1>2. Ancestors[b] = chain \cup {b}
    BY <1>1, NextLinked
  <1>3. CASE scriptsValid' = scriptsValid /\ chain' = chain
    BY <1>3, ScriptsKept
  <1>4. CASE Class[b] = "good" /\ scriptsValid' = RaiseValidity(t, b) /\ chain' \subseteq chain \cup {b}
    <2>1. b \notin Failed
      BY <1>1, <1>4, NextLinked, ConnectsUnmarked
    <2>2. scriptsValid' = scriptsValid \cup {b}
      BY <1>4, <2>1 DEF RaiseValidity
    <2> QED  BY <1>2, <1>4, <2>2 DEF ScriptsRaised, ScriptsValidFromGenesis
  <1> QED  BY <1>3, <1>4 DEF ConnectTip, ConnectTipAborts, active

LEMMA ScriptsNext ==
    ASSUME ~Rpc, IndInv, NotInvalidating, MarksJustified, ScriptsRaised, [Next]_vars
    PROVE  ScriptsRaised'
  <1>1. CASE UNCHANGED vars
    BY <1>1, ScriptsKept DEF vars, active, flags
  <1>2. ASSUME NEW t \in Thread, Progress(t)
        PROVE  ScriptsRaised'
    <2>1. ASSUME NEW b \in Block, ConnectTip(t, b) \/ ConnectTipAborts(t, b)
          PROVE  ScriptsRaised'
      BY <2>1, ScriptsConnect
    <2>2. CASE \/ LinkBlock(t) \/ Turn(t) \/ FindMostWorkChain(t) \/ DisconnectStep(t) \/ ConnectNothing(t)
               \/ Flush(t) \/ ReturnFalse(t) \/ \E b \in Block : ConnectTipFails(t, b)
      <3>1. UNCHANGED scriptsValid /\ chain' \subseteq chain
        BY <2>2 DEF LinkBlock, Turn, FindMostWorkChain, DisconnectStep, DisconnectTip, ConnectNothing, Flush,
                    ReturnFalse, ConnectTipFails, flags, active
      <3> QED  BY <3>1, ScriptsKept
    <2> QED  BY <1>2, <2>1, <2>2 DEF Progress, InvalidateStep, NotInvalidating
  <1>3. ASSUME NEW t \in Thread, Request(t)
        PROVE  ScriptsRaised'
    <2>1. UNCHANGED <<scriptsValid, chain>>
      BY <1>3 DEF Request, InvalidateBlock, ResetBlockFailureFlags, ReceiveHeader, ProcessNewBlock, flags, active
    <2> QED  BY <2>1, ScriptsKept
  <1> QED  BY <1>1, <1>2, <1>3 DEF Next

-----------------------------------------------------------------------------
LEMMA InitArrival == Init => ArrivalInv
  <1> SUFFICES ASSUME Init PROVE ArrivalInv
    OBVIOUS
  <1>0. IndInv
    BY InitInd
  <1>1. NotInvalidating
    BY DEF Init, NotInvalidating
  <1>2. MarksJustified
    BY ClassAssumption DEF Init, MarksJustified, Failed
  <1>3. StoredPlaced
    BY DEF Init, StoredPlaced
  <1>4. BestOffered
    <2>1. Connected = {Genesis} /\ nChainTx = {Genesis} /\ candidates = {Genesis} /\ Connects(Genesis)
      BY TreeAssumption, ClassAssumption DEF Init, Connected, Connects
    <2>2. ~Less(nSequenceId, Genesis, Genesis)
      BY <1>0, TreeAssumption, LessIrreflexive DEF IndInv, TypeOK
    <2> QED  BY <2>1, <2>2 DEF BestOffered, AboveConnected
  <1>5. ScriptsRaised
    BY DEF Init, ScriptsRaised, ScriptsValidFromGenesis
  <1> QED  BY <1>1, <1>2, <1>3, <1>4, <1>5 DEF ArrivalInv

LEMMA ArrivalsInd ==
    ASSUME ~Rpc
    PROVE  Spec => [](IndInv /\ ArrivalInv)
  <1>1. Init => IndInv /\ ArrivalInv
    BY InitInd, InitArrival
  <1>2. IndInv /\ ArrivalInv /\ [Next]_vars => (IndInv /\ ArrivalInv)'
    <2> SUFFICES ASSUME IndInv, ArrivalInv, [Next]_vars PROVE IndInv' /\ ArrivalInv'
      OBVIOUS
    <2>1. IndInv'
      BY NextInd
    <2>2. NotInvalidating' /\ MarksJustified' /\ StoredPlaced' /\ BestOffered' /\ ScriptsRaised'
      BY NotInvalidatingNext, MarksNext, PlacedNext, OfferedNext, ScriptsNext DEF ArrivalInv
    <2> QED  BY <2>1, <2>2 DEF ArrivalInv
  <1> QED  BY <1>1, <1>2, PTL DEF Spec

\* A block all of whose ancestors are stored is linked once nothing is queued.
LEMMA AllLinked ==
    ASSUME IndInv, StoredPlaced, queue = {}, NEW b \in known, Ancestors[b] \subseteq nTx
    PROVE  b \in nChainTx
  <1> DEFINE S == Ancestors[b] \ nChainTx
  <1>0. b \in Block /\ Genesis \in nChainTx
    BY TreeAssumption DEF IndInv, TypeOK, ChainIsPath
  <1>1. ASSUME S # {}  PROVE FALSE
    <2>1. S \subseteq Block
      BY <1>0, TreeAssumption
    <2>2. PICK c \in S : \A d \in S : Height[c] <= Height[d]
      BY <1>1, <2>1, LowestBlock
    <2>3. c \in Block \ {Genesis} /\ c \in nTx
      BY <1>0, <2>1
    <2>4. Parent[c] \in Ancestors[b] /\ Height[Parent[c]] < Height[c] /\ Parent[c] \in Block
      <3>1. Parent[c] \in Ancestors[c]
        BY <2>3, ParentPath, SelfAncestor
      <3> QED  BY <1>0, <2>3, <3>1, AncestorPath, TreeAssumption, SMT
    <2>5. Parent[c] \notin nChainTx
      BY <2>3 DEF StoredPlaced
    <2>6. Height[c] <= Height[Parent[c]]
      BY <2>2, <2>4, <2>5
    <2> QED  BY <2>3, <2>4, <2>6, TreeAssumption, SMT
  <1> QED  BY <1>0, <1>1, SelfAncestor

\* Without RPC calls, for every order in which headers and blocks arrive, any
\* number of threads and any faults: nChainTx is set exactly for the blocks whose
\* ancestry has been received (ReceivedBlockTransactions).
THEOREM ChainTxIsExact ==
    ASSUME ~Rpc
    PROVE  Spec => []ChainTxExact
  <1>1. IndInv /\ ArrivalInv => ChainTxExact
    <2> SUFFICES ASSUME IndInv, ArrivalInv, ~Locked
                 PROVE  nChainTx = {b \in known : Ancestors[b] \subseteq nTx}
      BY DEF ChainTxExact
    <2>1. queue = {}
      BY DEF ArrivalInv, StoredPlaced, Locked, Holding
    <2>2. \A b \in nChainTx : b \in known /\ Ancestors[b] \subseteq nTx
      BY DEF IndInv, Linked, TypeOK
    <2>3. \A b \in known : Ancestors[b] \subseteq nTx => b \in nChainTx
      BY <2>1, AllLinked DEF ArrivalInv
    <2> QED  BY <2>2, <2>3
  <1> QED  BY <1>1, ArrivalsInd, PTL

\* Likewise mapBlocksUnlinked: a stored block that waits for an ancestor is in it,
\* unless an ancestor has been refused and will never be stored.
THEOREM UnlinkedIsComplete ==
    ASSUME ~Rpc
    PROVE  Spec => []UnlinkedComplete
  <1>1. IndInv /\ ArrivalInv => UnlinkedComplete
    <2> SUFFICES ASSUME IndInv, ArrivalInv, NEW b \in nTx, ~(Ancestors[b] \subseteq nTx),
                        Ancestors[b] \cap failedValid = {}
                 PROVE  b \in unlinked
      BY DEF UnlinkedComplete
    <2>1. b \notin nChainTx
      BY DEF IndInv, Linked, TypeOK
    <2>2. b \in Block \ {Genesis}
      BY <2>1, TreeAssumption DEF IndInv, TypeOK, ChainIsPath
    <2>3. Ancestors[b] = Ancestors[Parent[b]] \cup {b} /\ Parent[b] \in Ancestors[b]
      BY <2>2, ParentPath, SelfAncestor
    <2>4. b \notin queue
      BY <2>3 DEF IndInv, Linked, TypeOK
    <2> QED  BY <2>1, <2>3, <2>4 DEF ArrivalInv, StoredPlaced
  <1> QED  BY <1>1, ArrivalsInd, PTL

\* A failed mark set by validation has a refused block below it
\* (FindMostWorkChain, InvalidBlockFound).
THEOREM FailedMarksHaveCause ==
    ASSUME ~Rpc
    PROVE  Spec => []FailedHasCause
  <1>1. ArrivalInv => FailedHasCause
    BY DEF ArrivalInv, MarksJustified, FailedHasCause, Unmarked
  <1> QED  BY <1>1, ArrivalsInd, PTL

\* A block raised to BLOCK_VALID_SCRIPTS has all its ancestors raised: what
\* ConnectTip connects is never marked, so RaiseValidity never does nothing.
THEOREM ScriptsFromGenesis ==
    ASSUME ~Rpc
    PROVE  Spec => []ScriptsValidFromGenesis
  <1>1. ArrivalInv => ScriptsValidFromGenesis
    BY DEF ArrivalInv, ScriptsRaised
  <1> QED  BY <1>1, ArrivalsInd, PTL

\* setBlockIndexCandidates is never empty after a block has been connected, which
\* PruneBlockIndexCandidates asserts, however many threads work towards however
\* many stale targets.
THEOREM CandidateIsLeft ==
    ASSUME ~Rpc
    PROVE  Spec => CandidateLeft
  <1>1. IndInv /\ ArrivalInv => candidates # {}
    BY DEF ArrivalInv, BestOffered
  <1>2. (candidates # {})' => [tip' # tip /\ tip \in Ancestors[tip'] => candidates' # {}]_vars
    OBVIOUS
  <1> QED  BY <1>1, <1>2, ArrivalsInd, PTL DEF CandidateLeft

-----------------------------------------------------------------------------
(* ActivateBestChain's failures, and the calls of one thread.               *)

\* nChainTx only grows, and a fault is remembered.
LEMMA ReasonStays ==
    ASSUME IndInv, [Next]_vars
    PROVE  nChainTx \subseteq nChainTx' /\ (UNCHANGED stop \/ fault' = TRUE)
  <1>1. CASE UNCHANGED vars
    BY <1>1 DEF vars, index
  <1>2. ASSUME NEW t \in Thread, Progress(t)
        PROVE  nChainTx \subseteq nChainTx' /\ (UNCHANGED stop \/ fault' = TRUE)
    <2>1. nChainTx \subseteq nChainTx'
      BY <1>2 DEF Progress, LinkBlock, SetChainTx, Turn, FindMostWorkChain, DisconnectStep, ConnectTip,
                  ConnectTipFails, ConnectTipAborts, ConnectNothing, Flush, ReturnFalse, InvalidateStep, index
    <2>2. UNCHANGED stop \/ fault' = TRUE
      BY <1>2 DEF Progress, LinkBlock, Turn, FindMostWorkChain, DisconnectStep, ConnectTip,
                  ConnectTipFails, ConnectTipAborts, ConnectNothing, Flush, ReturnFalse, InvalidateStep, GiveUp
    <2> QED  BY <2>1, <2>2
  <1>3. ASSUME NEW t \in Thread, Request(t)
        PROVE  nChainTx \subseteq nChainTx' /\ (UNCHANGED stop \/ fault' = TRUE)
    <2>1. nChainTx' = nChainTx
      BY <1>3 DEF Request, ReceiveHeader, ProcessNewBlock, InvalidateBlock, ResetBlockFailureFlags, index
    <2>2. UNCHANGED stop \/ fault' = TRUE
      BY <1>3 DEF Request, ReceiveHeader, ProcessNewBlock, InvalidateBlock, ResetBlockFailureFlags, AbortNode
    <2> QED  BY <2>1, <2>2
  <1> QED  BY <1>1, <1>2, <1>3 DEF Next

LEMMA ReasonNext ==
    ASSUME IndInv, FailureHasReason, [Next]_vars
    PROVE  FailureHasReason'
  <1>0. pc \in [Thread -> Labels]
    BY DEF IndInv, TypeOK, Labels
  <1>1. nChainTx \subseteq nChainTx' /\ (fault => fault')
    <2>1. nChainTx \subseteq nChainTx' /\ (UNCHANGED stop \/ fault' = TRUE)
      BY ReasonStays
    <2>2. fault => fault'
      BY <2>1, Zenon DEF stop
    <2> QED  BY <2>1, <2>2
  <1>2. ASSUME \A u \in Thread : pc'[u] = "failed" => pc[u] = "failed"
        PROVE  FailureHasReason'
    BY <1>1, <1>2 DEF FailureHasReason
  <1>3. CASE UNCHANGED vars
    BY <1>2, <1>3 DEF vars
  <1>4. ASSUME NEW t \in Thread, Progress(t)
        PROVE  FailureHasReason'
    <2>1. CASE fault'
      BY <2>1 DEF FailureHasReason
    <2>2. ASSUME NEW b \in Block, ConnectTipFails(t, b), Class[b] = "unjudged"
          PROVE  FailureHasReason'
      <3>1. b \in nChainTx
        BY <2>2, NextLinked DEF ConnectTipFails
      <3> QED  BY <1>1, <2>2, <3>1 DEF FailureHasReason
    <2>3. ASSUME ~fault', \A b \in Block : ~(ConnectTipFails(t, b) /\ Class[b] = "unjudged")
          PROVE  FailureHasReason'
      <3>1. \/ pc' = pc
            \/ \E label \in {"idle", "abc", "flush", "find", "disconnect", "connect"} :
                 pc' = [pc EXCEPT ![t] = label]
        BY <1>4, <2>3 DEF Progress, LinkBlock, Turn, FindMostWorkChain, DisconnectStep, ConnectTip, ConnectTipFails,
                    Judged, ConnectTipAborts, ConnectNothing, Flush, ReturnFalse, EndStep, GiveUp, Goto,
                    InvalidateStep
      <3> QED  BY <1>0, <1>2, <3>1
    <2> QED  BY <2>1, <2>2, <2>3
  <1>5. ASSUME NEW t \in Thread, Request(t)
        PROVE  FailureHasReason'
    <2>1. \/ pc' = pc
          \/ \E label \in {"abc", "link", "invalidate"} : pc' = [pc EXCEPT ![t] = label]
      BY <1>5 DEF Request, ReceiveHeader, ProcessNewBlock, InvalidateBlock, ResetBlockFailureFlags, Goto
    <2> QED  BY <1>0, <1>2, <2>1
  <1> QED  BY <1>3, <1>4, <1>5 DEF Next

\* With any number of threads, RPC calls and faults: ActivateBestChain returns
\* false only after a failed disk or database or over a block without a verdict.
THEOREM FailuresHaveReason == Spec => []FailureHasReason
  <1>1. Init => IndInv /\ FailureHasReason
    BY InitInd DEF Init, FailureHasReason
  <1>2. IndInv /\ FailureHasReason /\ [Next]_vars => (IndInv /\ FailureHasReason)'
    BY NextInd, ReasonNext
  <1> QED  BY <1>1, <1>2, PTL DEF Spec

\* The last of the candidates is the best of all linked blocks without a mark.
LEMMA BestIsBest ==
    ASSUME IndInv, BestOffered, NEW best \in candidates, Best(best)
    PROVE  NothingBetter(best)
  <1> DEFINE s == nSequenceId
  <1>0. /\ s \in [Block -> Nat] /\ nChainTx \subseteq Block /\ candidates \subseteq Block /\ Connected \subseteq Block
    BY TreeAssumption DEF IndInv, TypeOK, Connected
  <1> SUFFICES ASSUME NEW c \in nChainTx, Unmarked(c) PROVE ~Less(s, best, c)
    BY DEF NothingBetter
  <1>1. CASE AboveConnected(c)
    BY <1>1 DEF BestOffered, Best
  <1>2. CASE ~AboveConnected(c)
    <2>1. PICK x \in Connected : Less(s, c, x)
      BY <1>2 DEF AboveConnected
    <2>2. PICK w \in candidates : ~Less(s, w, x)
      BY DEF BestOffered, AboveConnected
    <2>3. ~Less(s, best, w)
      BY DEF Best
    <2>4. ~Less(s, x, c)
      BY <1>0, <2>1, LessAsymmetric
    <2>5. ~Less(s, best, x)
      BY <1>0, <2>2, <2>3, NotLessTransitive
    <2> QED  BY <1>0, <2>4, <2>5, NotLessTransitive
  <1> QED  BY <1>1, <1>2

\* A thread alone comes back with the best chain active: what its steps keep.
SettledAt(t) ==
    /\ pc[t] \in {"idle", "flush"} => NothingBetter(tip)
    /\ mostWork[t] # NoBlock => NothingBetter(mostWork[t])
    /\ pc[t] \in {"idle", "link", "find", "flush"} => mostWork[t] = NoBlock
    /\ pc[t] # "failed"

LEMMA SettledProgress ==
    ASSUME ~Rpc, IndInv, ArrivalInv, NEW t \in Thread, SettledAt(t), ~shutdown, Undisturbed, ~fault', Progress(t)
    PROVE  SettledAt(t)'
  <1> DEFINE Then(b) == \A c \in nChainTx' : Unmarked(c)' => ~Less(nSequenceId', b, c)
  <1>0. pc \in [Thread -> Labels] /\ mostWork \in [Thread -> nChainTx \cup {NoBlock}] /\ tip # NoBlock
    BY ClassAssumption DEF IndInv, TypeOK, Labels
  <1> SUFFICES /\ pc'[t] \in {"idle", "flush"} => Then(tip')
               /\ mostWork'[t] # NoBlock => Then(mostWork'[t])
               /\ pc'[t] \in {"idle", "link", "find", "flush"} => mostWork'[t] = NoBlock
               /\ pc'[t] # "failed"
    BY DEF SettledAt, NothingBetter
  <1>1. CASE LinkBlock(t)
    <2>1. pc[t] = "link" /\ mostWork' = mostWork /\ pc' \in {pc, [pc EXCEPT ![t] = "abc"]}
      BY <1>1 DEF LinkBlock, Goto
    <2> QED  BY <1>0, <2>1 DEF SettledAt
  <1>2. CASE ~LinkBlock(t)
    <2>0. \A b : NothingBetter(b) => Then(b)
      <3>1. UNCHANGED <<nChainTx, nSequenceId>> /\ failedValid \subseteq failedValid'
        BY <1>2, StepLeavesIndex DEF ArrivalInv, index
      <3> QED  BY <3>1 DEF NothingBetter, Unmarked
    <2> HIDE DEF Then
    <2>1. CASE Turn(t)
      <3>1. tip' = tip
        BY <2>1 DEF Turn, active
      <3>2. CASE pc' = [pc EXCEPT ![t] = "find"] /\ mostWork[t] = NoBlock /\ UNCHANGED mostWork
        BY <1>0, <3>2
      <3>3. CASE pc' = [pc EXCEPT ![t] = "idle"] /\ mostWork[t] = tip /\ mostWork' = [mostWork EXCEPT ![t] = NoBlock]
        BY <1>0, <2>0, <3>1, <3>3 DEF SettledAt
      <3>4. CASE pc' = [pc EXCEPT ![t] = "disconnect"] /\ UNCHANGED mostWork
        BY <1>0, <2>0, <3>4 DEF SettledAt
      <3> QED  BY <2>1, <3>2, <3>3, <3>4 DEF Turn, Goto, Forget
    <2>2. CASE FindMostWorkChain(t)
      <3>0. pc[t] = "find" /\ mostWork[t] = NoBlock /\ tip' = tip /\ candidates # {}
        BY <2>2 DEF FindMostWorkChain, SettledAt, active, ArrivalInv, BestOffered
      <3>1. ASSUME NEW best \in candidates, Best(best), best = tip, Goto(t, "idle"), UNCHANGED mostWork
            PROVE  pc'[t] = "idle" /\ mostWork'[t] = NoBlock /\ Then(tip')
        BY <1>0, <2>0, <3>0, <3>1, BestIsBest DEF ArrivalInv, Goto
      <3>2. ASSUME NEW best \in candidates, Best(best), mostWork' = [mostWork EXCEPT ![t] = best], Goto(t, "disconnect")
            PROVE  pc'[t] = "disconnect" /\ Then(mostWork'[t])
        BY <1>0, <2>0, <3>2, BestIsBest DEF ArrivalInv, Goto
      <3>3. CASE UNCHANGED <<pc, mostWork>>
        BY <3>0, <3>3
      <3> QED  BY <2>2, <3>0, <3>1, <3>2, <3>3 DEF FindMostWorkChain
    <2>3. CASE DisconnectStep(t)
      <3>1. pc' \in {pc, [pc EXCEPT ![t] = "connect"]} /\ UNCHANGED mostWork /\ pc[t] = "disconnect"
        BY <2>3 DEF DisconnectStep, GiveUp, Goto
      <3> QED  BY <1>0, <2>0, <3>1 DEF SettledAt
    <2>4. CASE ConnectNothing(t) \/ \E b \in Block : ConnectTip(t, b)
      <3>1. pc[t] = "connect" /\ tip' # NoBlock
        BY <1>0, <2>4, ClassAssumption DEF ConnectTip, ConnectNothing, active
      <3>2. EndStep(t, tip') \/ UNCHANGED <<pc, mostWork>>
        BY <2>4 DEF ConnectTip, ConnectNothing, active
      <3>3. CASE tip' = mostWork[t] /\ mostWork' = [mostWork EXCEPT ![t] = NoBlock] /\ pc' = [pc EXCEPT ![t] = "flush"]
        BY <1>0, <2>0, <3>1, <3>3 DEF SettledAt
      <3>4. CASE UNCHANGED mostWork /\ pc' \in {pc, [pc EXCEPT ![t] = "abc"]}
        BY <1>0, <2>0, <3>1, <3>4 DEF SettledAt
      <3> QED  BY <3>2, <3>3, <3>4 DEF EndStep, Goto, Forget
    <2>5. ASSUME NEW b \in Block, ConnectTipFails(t, b)
          PROVE  pc'[t] = "abc" /\ mostWork'[t] = NoBlock
      <3>1. b \in nChainTx
        BY <2>5, NextLinked DEF ConnectTipFails
      <3>2. Judged(b)
        BY <3>1 DEF Undisturbed, Judged
      <3> QED  BY <1>0, <2>5, <3>2 DEF ConnectTipFails, Goto, Forget
    <2>6. CASE Flush(t)
      <3>1. pc[t] = "flush" /\ pc' = [pc EXCEPT ![t] = "idle"] /\ UNCHANGED <<mostWork, tip>>
        BY <2>6 DEF Flush, GiveUp, Goto, active
      <3> QED  BY <1>0, <2>0, <3>1 DEF SettledAt
    <2>7. ~ReturnFalse(t) /\ ~InvalidateStep(t) /\ \A b \in Block : ~ConnectTipAborts(t, b)
      BY DEF ReturnFalse, SettledAt, InvalidateStep, ArrivalInv, NotInvalidating, ConnectTipAborts, GiveUp
    <2>8. CASE \E b \in Block : ConnectTipFails(t, b)
      BY <2>5, <2>8
    <2> QED  BY <1>2, <2>1, <2>2, <2>3, <2>4, <2>6, <2>7, <2>8 DEF Progress
  <1> QED  BY <1>1, <1>2

LEMMA SettledNext ==
    ASSUME ~Rpc, OneThread, IndInv, ArrivalInv, Settled, [Next]_vars
    PROVE  Settled'
  <1>0. /\ pc \in [Thread -> Labels] /\ mostWork \in [Thread -> nChainTx \cup {NoBlock}]
        /\ nChainTx \subseteq nChainTx' /\ (fault => fault')
    BY ReasonStays DEF IndInv, TypeOK, Labels, stop
  <1>1. shutdown' => fault'
    <2>1. UNCHANGED stop \/ fault' = TRUE
      BY ReasonStays
    <2> QED  BY <2>1 DEF stop, Settled
  <1>2. ASSUME Undisturbed', NEW t \in Thread
        PROVE  SettledAt(t)'
    <2>1. Undisturbed /\ ~shutdown /\ ~fault'
      BY <1>0, <1>2 DEF Undisturbed, Settled
    <2>2. SettledAt(t) /\ Thread = {t}
      BY <2>1 DEF Settled, SettledAt, OneThread
    <2>3. CASE UNCHANGED vars
      BY <2>2, <2>3 DEF vars, index, flags, active, SettledAt, NothingBetter, Unmarked
    <2>4. CASE Progress(t)
      BY <2>1, <2>2, <2>4, SettledProgress
    <2>5. CASE Request(t)
      <3>1. PICK b \in Block \ {Genesis} :
              ReceiveHeader(t, b) \/ \E requested \in BOOLEAN : ProcessNewBlock(t, b, requested)
        BY <2>5 DEF Request, InvalidateBlock, ResetBlockFailureFlags
      <3>2. /\ UNCHANGED <<nChainTx, nSequenceId, tip, mostWork>> /\ failedValid \subseteq failedValid'
            /\ pc[t] = "idle" /\ pc' \in {pc, [pc EXCEPT ![t] = "abc"], [pc EXCEPT ![t] = "link"]}
        BY <3>1 DEF ReceiveHeader, ProcessNewBlock, Goto, active, flags
      <3>3. pc'[t] \in {"idle", "abc", "link"} /\ mostWork[t] = NoBlock /\ NothingBetter(tip)
        BY <1>0, <2>2, <3>2 DEF SettledAt
      <3>4. NothingBetter(tip)'
        BY <3>2, <3>3 DEF NothingBetter, Unmarked
      <3> QED  BY <3>2, <3>3, <3>4 DEF SettledAt
    <2> QED  BY <2>2, <2>3, <2>4, <2>5 DEF Next
  <1> QED  BY <1>1, <1>2 DEF Settled, SettledAt

LEMMA SettledInd ==
    ASSUME ~Rpc, OneThread
    PROVE  Spec => [](IndInv /\ ArrivalInv /\ Settled)
  <1>1. Init => Settled
    <2> SUFFICES ASSUME Init PROVE Settled
      OBVIOUS
    <2>1. IndInv
      BY InitInd
    <2>2. NothingBetter(tip)
      BY <2>1, LessIrreflexive, TreeAssumption, SMT DEF Init, NothingBetter, IndInv, TypeOK
    <2> QED  BY <2>2 DEF Init, Settled
  <1>2. IndInv /\ ArrivalInv /\ Settled /\ [Next]_vars => Settled'
    BY SettledNext
  <1> QED  BY <1>1, <1>2, ArrivalsInd, PTL DEF Spec

\* One thread, no RPC calls: when ActivateBestChain has returned to everybody and
\* nothing disturbed it, no linked chain that connects is better than the tip.
THEOREM BestChainIsActive ==
    ASSUME ~Rpc, OneThread
    PROVE  Spec => []BestChainActive
  <1>1. IndInv /\ ArrivalInv /\ Settled => BestChainActive
    <2> SUFFICES ASSUME IndInv, Settled, AllIdle, Undisturbed, NEW b \in nChainTx,
                        Ancestors[b] \cap Failed = {}
                 PROVE  ~Less(nSequenceId, tip, b)
      BY DEF BestChainActive
    <2>1. NothingBetter(tip)
      BY DEF AllIdle, Settled, OneThread
    <2> QED  BY <2>1 DEF NothingBetter, Unmarked, Failed
  <1> QED  BY <1>1, SettledInd, PTL

\* And setBlockIndexCandidates holds whatever could be activated: the tip itself,
\* and what only ties would let go before it.
THEOREM CandidatesAreComplete ==
    ASSUME ~Rpc, OneThread
    PROVE  Spec => []CandidatesComplete
  <1>1. IndInv /\ ArrivalInv /\ Settled => CandidatesComplete
    <2> SUFFICES ASSUME IndInv, ArrivalInv, Settled, AllIdle, Undisturbed, NEW b \in nChainTx,
                        Unmarked(b), ~Less(nSequenceId, b, tip)
                 PROVE  b \in candidates
      BY DEF CandidatesComplete, Unmarked
    <2>0. nSequenceId \in [Block -> Nat] /\ nChainTx \subseteq Block /\ tip \in Block /\ Connected \subseteq nChainTx
      BY DEF IndInv, TypeOK, ArrivalInv, BestOffered
    <2>1. NothingBetter(tip)
      BY DEF AllIdle, Settled, OneThread
    <2>2. \A x \in Connected : Unmarked(x)
      BY <2>0, ConnectsUnmarked DEF ArrivalInv, BestOffered
    <2>3. AboveConnected(b)
      <3>1. \A x \in Connected : ~Less(nSequenceId, tip, x)
        BY <2>0, <2>1, <2>2 DEF NothingBetter
      <3> QED  BY <2>0, <3>1, NotLessTransitive DEF AboveConnected
    <2> QED  BY <2>3 DEF ArrivalInv, BestOffered
  <1> QED  BY <1>1, SettledInd, PTL

-----------------------------------------------------------------------------
(* No mark on the active chain, with RPC calls.                             *)

\* What one thread keeps.
CleanAt(t) ==
    /\ pc[t] # "invalidate" => chain \cap Failed = {}
    /\ pc[t] = "invalidate" => chain \cap Failed \subseteq {target}
    /\ mostWork[t] # NoBlock => Ancestors[mostWork[t]] \cap Failed = {}
    /\ pc[t] \in {"idle", "link", "find", "flush", "failed", "invalidate"} => mostWork[t] = NoBlock

LEMMA CleanProgress ==
    ASSUME IndInv, NEW t \in Thread, CleanAt(t), ~fault', Progress(t)
    PROVE  CleanAt(t)'
  <1>0. /\ pc \in [Thread -> Labels] /\ mostWork \in [Thread -> nChainTx \cup {NoBlock}]
        /\ nChainTx \subseteq Block /\ NoBlock \notin nChainTx
    BY ClassAssumption DEF IndInv, TypeOK, Labels
  <1>1. CASE LinkBlock(t) \/ Turn(t) \/ ConnectNothing(t) \/ Flush(t) \/ ReturnFalse(t)
    <2>1. UNCHANGED <<chain, failedValid, failedChild>> /\ pc[t] # "invalidate"
      BY <1>1 DEF LinkBlock, Turn, ConnectNothing, Flush, ReturnFalse, flags, active
    <2>2. \/ /\ mostWork' = [mostWork EXCEPT ![t] = NoBlock]
             /\ \E label \in {"idle", "flush"} : pc' = [pc EXCEPT ![t] = label]
          \/ UNCHANGED mostWork /\ \E label \in {"abc", "disconnect"} : pc' = [pc EXCEPT ![t] = label]
          \/ /\ UNCHANGED mostWork /\ pc[t] \in {"link", "flush", "failed", "abc"}
             /\ pc[t] = "abc" => mostWork[t] = NoBlock
             /\ pc' = pc \/ \E label \in {"idle", "find"} : pc' = [pc EXCEPT ![t] = label]
      BY <1>1 DEF LinkBlock, Turn, ConnectNothing, Flush, ReturnFalse, EndStep, GiveUp, Goto, Forget
    <2> QED  BY <1>0, <2>1, <2>2 DEF CleanAt, Failed
  <1>2. CASE FindMostWorkChain(t)
    <2>1. /\ UNCHANGED <<chain, failedValid>> /\ pc[t] = "find" /\ mostWork[t] = NoBlock
          /\ chain \cap Failed = {}
      BY <1>2 DEF FindMostWorkChain, active, CleanAt
    <2>2. chain \cap Failed' = {}
      <3>1. failedChild' = failedChild \/ \E best \in candidates : failedChild' \subseteq failedChild \cup (Ancestors[best] \ chain)
        BY <1>2 DEF FindMostWorkChain, Above
      <3> QED  BY <2>1, <3>1 DEF Failed
    <2>3. CASE UNCHANGED <<pc, mostWork>>
      BY <2>1, <2>2, <2>3 DEF CleanAt
    <2>4. CASE Goto(t, "idle") /\ UNCHANGED mostWork
      BY <1>0, <2>1, <2>2, <2>4 DEF CleanAt, Goto
    <2>5. ASSUME NEW best \in candidates, (Ancestors[best] \ chain) \cap Failed = {}, UNCHANGED failedChild,
                 mostWork' = [mostWork EXCEPT ![t] = best], Goto(t, "disconnect")
          PROVE  CleanAt(t)'
      <3>1. pc'[t] = "disconnect" /\ mostWork'[t] = best
        BY <1>0, <2>5 DEF Goto
      <3>2. Failed' = Failed /\ Ancestors[best] \cap Failed = {}
        BY <2>1, <2>5 DEF Failed
      <3> QED  BY <2>1, <2>2, <3>1, <3>2 DEF CleanAt
    <2> QED  BY <1>2, <2>3, <2>4, <2>5 DEF FindMostWorkChain
  <1>3. CASE DisconnectStep(t)
    <2>1. /\ UNCHANGED <<failedValid, failedChild, mostWork>> /\ chain' \subseteq chain
          /\ pc[t] = "disconnect" /\ pc' \in {pc, [pc EXCEPT ![t] = "connect"]}
      BY <1>3 DEF DisconnectStep, DisconnectTip, GiveUp, Goto, flags, active
    <2> QED  BY <1>0, <2>1 DEF CleanAt, Failed
  <1>4. ASSUME NEW b \in Block, ConnectTip(t, b)
        PROVE  CleanAt(t)'
    <2>1. pc[t] = "connect" /\ Next1(t, b) /\ UNCHANGED <<failedValid, failedChild>> /\ chain' = chain \cup {b}
      BY <1>4 DEF ConnectTip
    <2>2. mostWork[t] # NoBlock
      BY <2>1 DEF IndInv, Linked
    <2>3. Failed' = Failed /\ chain' \cap Failed = {}
      BY <2>1, <2>2 DEF CleanAt, Next1, Failed
    <2>4. \/ mostWork' = [mostWork EXCEPT ![t] = NoBlock] /\ pc' = [pc EXCEPT ![t] = "flush"]
          \/ UNCHANGED mostWork /\ pc' \in {pc, [pc EXCEPT ![t] = "abc"]}
      BY <1>4 DEF ConnectTip, EndStep, Goto, Forget
    <2> QED  BY <1>0, <2>1, <2>3, <2>4 DEF CleanAt
  <1>5. ASSUME NEW b \in Block, ConnectTipFails(t, b)
        PROVE  CleanAt(t)'
    <2>1. /\ pc[t] = "connect" /\ Next1(t, b) /\ UNCHANGED <<failedChild, chain>>
          /\ failedValid' \subseteq failedValid \cup {b}
      BY <1>5 DEF ConnectTipFails, InvalidBlockFound, active
    <2>2. b \notin chain
      <3>1. b \in Block \ {Genesis} /\ Parent[b] = tip /\ chain = Ancestors[tip]
        BY <2>1 DEF Next1, IndInv, ChainIsPath
      <3>2. b \notin Ancestors[Parent[b]]
        BY <3>1, ParentPath, SMT
      <3> QED  BY <3>1, <3>2
    <2>3. pc'[t] \in {"abc", "failed"} /\ mostWork'[t] = NoBlock
      BY <1>0, <1>5 DEF ConnectTipFails, Goto, Forget
    <2> QED  BY <2>1, <2>2, <2>3 DEF CleanAt, Failed
  <1>6. CASE InvalidateStep(t)
    <2>1. /\ pc[t] = "invalidate" /\ UNCHANGED <<failedValid, mostWork, target>> /\ mostWork[t] = NoBlock
          /\ chain \cap Failed \subseteq {target}
      BY <1>6 DEF InvalidateStep, GiveUp, locals, CleanAt
    <2>2. CASE failedChild' = failedChild \cup {tip} /\ chain' = chain \ {tip} /\ pc' = pc
      BY <2>1, <2>2 DEF CleanAt, Failed
    <2>3. CASE target \notin chain /\ UNCHANGED <<failedChild, chain>> /\ pc' = [pc EXCEPT ![t] = "abc"]
      BY <1>0, <2>1, <2>3 DEF CleanAt, Failed
    <2> QED  BY <1>6, <2>2, <2>3 DEF InvalidateStep, StillActive, DisconnectTip, GiveUp, Goto, active
  <1>7. \A b \in Block : ~ConnectTipAborts(t, b)
    BY DEF ConnectTipAborts, GiveUp
  <1> QED  BY <1>1, <1>2, <1>3, <1>4, <1>5, <1>6, <1>7 DEF Progress

LEMMA CleanRequest ==
    ASSUME IndInv, NEW t \in Thread, CleanAt(t), Request(t)
    PROVE  CleanAt(t)'
  <1>0. /\ pc \in [Thread -> Labels] /\ chain \subseteq nTx
    BY DEF IndInv, TypeOK, Labels
  <1>1. pc[t] = "idle" /\ mostWork[t] = NoBlock /\ UNCHANGED <<mostWork, chain>> /\ chain \cap Failed = {}
    BY DEF Request, ReceiveHeader, ProcessNewBlock, InvalidateBlock, ResetBlockFailureFlags, CleanAt, active
  <1>2. PICK b \in Block \ {Genesis} :
          \/ ReceiveHeader(t, b)
          \/ \E requested \in BOOLEAN : ProcessNewBlock(t, b, requested)
          \/ InvalidateBlock(t, b)
          \/ ResetBlockFailureFlags(t, b)
    BY DEF Request
  <1>3. CASE ReceiveHeader(t, b) \/ ResetBlockFailureFlags(t, b)
    <2>1. failedValid' \subseteq failedValid /\ failedChild' \subseteq failedChild /\ pc' \in {pc, [pc EXCEPT ![t] = "abc"]}
      BY <1>3 DEF ReceiveHeader, ResetBlockFailureFlags, Goto, flags
    <2> QED  BY <1>0, <1>1, <2>1 DEF CleanAt, Failed
  <1>4. ASSUME NEW requested \in BOOLEAN, ProcessNewBlock(t, b, requested)
        PROVE  CleanAt(t)'
    <2>1. /\ pc' \in {pc, [pc EXCEPT ![t] = "abc"], [pc EXCEPT ![t] = "link"]}
          /\ failedValid' = failedValid \/ (failedValid' = failedValid \cup {b} /\ b \notin nTx)
          /\ UNCHANGED failedChild
      BY <1>4 DEF ProcessNewBlock, Unwanted, Goto
    <2> QED  BY <1>0, <1>1, <2>1 DEF CleanAt, Failed
  <1>5. CASE InvalidateBlock(t, b)
    <2>1. failedValid' = failedValid \cup {b} /\ target' = b /\ UNCHANGED failedChild /\ pc' = [pc EXCEPT ![t] = "invalidate"]
      BY <1>5 DEF InvalidateBlock, Goto
    <2> QED  BY <1>0, <1>1, <2>1 DEF CleanAt, Failed
  <1> QED  BY <1>2, <1>3, <1>4, <1>5

LEMMA NoMarkAheadNext ==
    ASSUME OneThread, IndInv, NoMarkAhead, [Next]_vars
    PROVE  NoMarkAhead'
  <1> SUFFICES ASSUME ~fault' PROVE NoMarkAhead'
    BY DEF NoMarkAhead
  <1>0. ~fault
    BY ReasonStays, Zenon DEF stop
  <1>1. CASE UNCHANGED vars
    <2>1. UNCHANGED <<pc, mostWork, chain, failedValid, failedChild, target, fault>>
      BY <1>1 DEF vars, flags, active, locals, stop
    <2> QED  BY <2>1 DEF NoMarkAhead, NotInvalidating, Failed
  <1>2. ASSUME NEW t \in Thread, Progress(t) \/ Request(t)
        PROVE  NoMarkAhead'
    <2>1. Thread = {t}
      BY DEF OneThread
    <2>2. CleanAt(t)
      BY <1>0, <2>1 DEF NoMarkAhead, NotInvalidating, CleanAt
    <2>3. CleanAt(t)'
      BY <1>2, <2>2, CleanProgress, CleanRequest
    <2> QED  BY <2>1, <2>3 DEF NoMarkAhead, NotInvalidating, CleanAt
  <1> QED  BY <1>1, <1>2 DEF Next

\* When the lock is free and nothing has failed, no block of the active chain is
\* marked, as FindMostWorkChain assumes: with RPC calls for one thread, without
\* them for any number.
THEOREM ActiveChainNotFailed ==
    ASSUME Rpc => OneThread
    PROVE  Spec => []ChainNotFailed
  <1>1. CASE ~Rpc
    <2>1. IndInv /\ ArrivalInv => ChainNotFailed
      <3> SUFFICES ASSUME IndInv, ArrivalInv, NEW b \in chain PROVE b \notin Failed
        BY DEF ChainNotFailed
      <3>1. b \in Block /\ Connects(b)
        <4>1. b \in Block /\ b \in Ancestors[tip] /\ tip \in Block
          BY DEF IndInv, TypeOK, ChainIsPath
        <4>2. Ancestors[b] \subseteq chain
          BY <4>1, AncestorPath DEF IndInv, ChainIsPath
        <4> QED  BY <4>1, <4>2 DEF IndInv, Linked, Connects
      <3> QED  BY <3>1, ConnectsUnmarked DEF ArrivalInv
    <2> QED  BY <1>1, <2>1, ArrivalsInd, PTL
  <1>2. CASE OneThread
    <2>1. Init => IndInv /\ NoMarkAhead
      BY InitInd DEF Init, NoMarkAhead, Failed
    <2>2. IndInv /\ NoMarkAhead /\ [Next]_vars => (IndInv /\ NoMarkAhead)'
      BY <1>2, NextInd, NoMarkAheadNext
    <2>3. NoMarkAhead => ChainNotFailed
      BY DEF NoMarkAhead, NotInvalidating, ChainNotFailed, Locked, Holding
    <2> QED  BY <2>1, <2>2, <2>3, PTL DEF Spec
  <1> QED  BY <1>1, <1>2
=============================================================================
