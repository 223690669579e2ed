--------------------------- MODULE StakingProofs ---------------------------
(***************************************************************************)
(* The node makes one block on a block, for every tree of blocks, every    *)
(* set of coins and every bound.  The argument: own blocks are indexed at  *)
(* once, so the best header is as high as they are (HeaderIsBest); a       *)
(* kernel is only accepted while the block searched for is that header;    *)
(* hence no own block stands on it (SearchFresh), and none is made before  *)
(* the thread hands in its own.                                            *)
(***************************************************************************)
EXTENDS Staking, TLAPS

USE Zenon  \* where a step names no other prover

\* No own block extends the block for which a kernel has been found.
SearchFresh == pc \in {"found", "check", "submit"} => \A o \in Made : made[o].prev # pindexPrev

Inv == TypeOK /\ HeaderIsBest /\ SearchFresh /\ OneBlockPerParent

-----------------------------------------------------------------------------
\* Every known block has a height.
LEMMA HeightIsNat == TypeOK => \A b \in Known : HeightOf(b) \in Nat
  BY TreeAssumption DEF TypeOK, HeightOf, Known, Made

\* The initial state satisfies the invariant.
LEMMA InvInit == Init => Inv
  <1> SUFFICES ASSUME Init PROVE Inv
    OBVIOUS
  <1>1. Made = {} /\ Arrived = {Genesis}
    BY TreeAssumption, SMT DEF Init, Made, Arrived
  <1>2. TypeOK
    BY <1>1, TreeAssumption, SMT DEF Init, TypeOK, Known
  <1>3. HeaderIsBest
    BY <1>1, <1>2, HeightIsNat, TreeAssumption, SMT DEF Init, HeaderIsBest, Known
  <1> QED
    BY <1>1, <1>2, <1>3 DEF Inv, SearchFresh, OneBlockPerParent, Init

\* Steps in which no block is added leave the index as it is.
LEMMA SameBlocks ==
    ASSUME UNCHANGED <<made, sequenceVars>>
    PROVE  /\ Made' = Made /\ Known' = Known /\ Arrived' = Arrived
           /\ \A b : HeightOf(b)' = HeightOf(b)
  BY DEF sequenceVars, Made, Known, Arrived, HeightOf

\* Steps of other threads that only move the tip, the header or the goal.
LEMMA ChainSteps ==
    ASSUME Inv, UNCHANGED <<made, sequenceVars, pc, searchVars>>,
           tip' \in Known, goal' \in Known, header' \in Known,
           HeightOf(header') >= HeightOf(header)
    PROVE  Inv'
  <1> USE SameBlocks
  <1>1. TypeOK'
    BY DEF Inv, TypeOK, sequenceVars, searchVars
  <1>2. HeaderIsBest'
    <2> SUFFICES ASSUME NEW b \in Arrived PROVE HeightOf(b) <= HeightOf(header')
      BY SMT DEF HeaderIsBest
    <2>1. b \in Known
      BY DEF Arrived, Known, Made
    <2> QED
      BY <2>1, HeightIsNat, SMT DEF Inv, HeaderIsBest, TypeOK
  <1>3. SearchFresh' /\ OneBlockPerParent'
    BY DEF Inv, SearchFresh, OneBlockPerParent, searchVars
  <1> QED
    BY <1>1, <1>2, <1>3 DEF Inv

\* Steps of the staking thread before it hands in a block.
LEMMA ThreadSteps ==
    ASSUME Inv, UNCHANGED chainVars,
           pc' \in {"idle", "create", "sign", "select", "cache", "search", "found", "check", "submit"},
           pc' # "idle" => Made # Own,
           pc' \in {"found", "check", "submit"} <=> kernel' # None,
           SearchFresh'
    PROVE  Inv'
  <1> USE SameBlocks
  <1>1. UNCHANGED <<made, sequenceVars, tip, header, goal>>
    BY DEF chainVars
  <1>2. TypeOK'
    BY <1>1 DEF Inv, TypeOK, sequenceVars
  <1>3. HeaderIsBest' /\ OneBlockPerParent'
    BY <1>1, SMT DEF Inv, HeaderIsBest, OneBlockPerParent
  <1> QED
    BY <1>2, <1>3 DEF Inv

\* A round that ends without a block.
LEMMA AroundSafe == Inv /\ UNCHANGED chainVars /\ Around => Inv'
  <1> SUFFICES ASSUME Inv, UNCHANGED chainVars, Around PROVE Inv'
    OBVIOUS
  <1>1. pc' = "idle" /\ kernel' = None
    BY DEF Around
  <1> QED
    BY <1>1, ThreadSteps DEF SearchFresh

\* A step of the thread that keeps its local variables, or only its progress.
LEMMA Progress ==
    ASSUME Inv, UNCHANGED <<chainVars, kernel>>, pc # "idle" \/ Made # Own,
           pc' \in {"create", "sign", "select", "cache", "search"}, pc \notin {"found", "check", "submit"}
    PROVE  Inv'
  BY ThreadSteps DEF SearchFresh, Inv, TypeOK

\* A kernel is accepted while the block searched for is the best header.
LEMMA TryKernelSafe == \A c \in Coin : Inv /\ TryKernel(c) => Inv'
  <1> SUFFICES ASSUME NEW c \in Coin, Inv, TryKernel(c) PROVE Inv'
    OBVIOUS
  <1>1. PICK b \in GetTransaction(c) :
          IF Searchable /\ CheckKernel(pindexPrev, c, nTime, b)
          THEN /\ kernel' = c /\ pc' = "found" /\ todo' = {}
               /\ UNCHANGED <<template, nTime, pindexPrev, setCoins, nLastCoinStakeSearchTime>>
          ELSE IF todo = {c} THEN GiveUp
          ELSE /\ todo' = todo \ {c}
               /\ UNCHANGED <<pc, template, nTime, pindexPrev, setCoins, kernel, nLastCoinStakeSearchTime>>
    BY DEF TryKernel
  <1>2. pc = "search" /\ UNCHANGED chainVars
    BY DEF TryKernel
  <1>3. CASE Searchable /\ CheckKernel(pindexPrev, c, nTime, b)
    <2>1. pc' = "found" /\ kernel' # None /\ pindexPrev' = pindexPrev /\ pindexPrev = header
      BY <1>1, <1>3, TreeAssumption DEF Searchable
    <2>2. made' = made /\ Made' = Made
      BY <1>2, SameBlocks DEF chainVars
    <2>3. ASSUME NEW o \in Made PROVE made[o].prev # header
      <3>1. o \in Arrived /\ made[o].height = HeightOf(made[o].prev) + 1 /\ HeightOf(o) = made[o].height
        BY DEF Made, Arrived, Inv, TypeOK, HeightOf
      <3>2. HeightOf(o) <= HeightOf(header) /\ HeightOf(header) \in Nat
        BY <3>1, HeightIsNat DEF Inv, HeaderIsBest, TypeOK
      <3> QED
        BY <3>1, <3>2, SMT
    <2>4. SearchFresh'
      BY <2>1, <2>2, <2>3 DEF SearchFresh
    <2> QED
      BY <1>2, <2>1, <2>4, ThreadSteps DEF Inv, TypeOK
  <1>4. CASE ~(Searchable /\ CheckKernel(pindexPrev, c, nTime, b)) /\ todo = {c}
    BY <1>1, <1>2, <1>4, AroundSafe DEF GiveUp
  <1>5. CASE ~(Searchable /\ CheckKernel(pindexPrev, c, nTime, b)) /\ todo # {c}
    BY <1>1, <1>2, <1>5, Progress
  <1> QED
    BY <1>3, <1>4, <1>5

\* The steps of the thread up to the search.
LEMMA BeforeSearch ==
    Inv /\ (Wake \/ Sleep \/ CreateNewBlock \/ SignBlock \/ SelectCoinsForStaking \/ \E c \in Coin : CacheKernel(c))
        => Inv'
  <1> SUFFICES ASSUME Inv PROVE
        (Wake \/ Sleep \/ CreateNewBlock \/ SignBlock \/ SelectCoinsForStaking \/ \E c \in Coin : CacheKernel(c)) => Inv'
    OBVIOUS
  <1>1. Wake => Inv'
    BY Progress DEF Wake, searchVars
  <1>2. Sleep => Inv'
    BY ThreadSteps DEF Sleep, vars, searchVars, chainVars, sequenceVars, Inv, TypeOK, SearchFresh, Made
  <1>3. CreateNewBlock => Inv'
    BY Progress DEF CreateNewBlock
  <1>4. ASSUME SignBlock PROVE Inv'
    <2>1. UNCHANGED chainVars /\ pc = "sign" /\ ((pc' = "select" /\ kernel' = kernel) \/ Around)
      BY <1>4 DEF SignBlock
    <2> QED
      BY <2>1, Progress, AroundSafe
  <1>5. ASSUME SelectCoinsForStaking PROVE Inv'
    <2>1. UNCHANGED chainVars /\ pc = "select" /\ ((pc' \in {"cache", "search"} /\ kernel' = kernel) \/ Around)
      BY <1>5 DEF SelectCoinsForStaking, GiveUp
    <2> QED
      BY <2>1, Progress, AroundSafe
  <1>6. ASSUME NEW c \in Coin, CacheKernel(c) PROVE Inv'
    <2>1. UNCHANGED <<chainVars, kernel>> /\ pc = "cache" /\ pc' \in {"cache", "search"}
      BY <1>6 DEF CacheKernel
    <2> QED
      BY <2>1, Progress
  <1> QED
    BY <1>1, <1>2, <1>3, <1>4, <1>5, <1>6

\* The steps between the search and the block.
LEMMA AfterSearch == Inv /\ (FinishBlock \/ CheckProofOfStake) => Inv'
  <1> SUFFICES ASSUME Inv, FinishBlock \/ CheckProofOfStake PROVE Inv'
    OBVIOUS
  <1>1. /\ UNCHANGED chainVars /\ pc \in {"found", "check", "submit"}
        /\ (pc' \in {"check", "submit"} /\ UNCHANGED <<kernel, pindexPrev>>) \/ Around
    BY DEF FinishBlock, CheckProofOfStake, GiveUp
  <1>2. made' = made /\ Made' = Made
    BY <1>1, SameBlocks DEF chainVars
  <1>3. CASE pc' \in {"check", "submit"} /\ UNCHANGED <<kernel, pindexPrev>>
    <2>1. SearchFresh'
      BY <1>1, <1>2, <1>3 DEF Inv, SearchFresh
    <2> QED
      BY <1>1, <1>3, <2>1, ThreadSteps DEF Inv, TypeOK
  <1> QED
    BY <1>1, <1>3, AroundSafe

\* The steps of other threads.
LEMMA OtherThreads ==
    ASSUME Inv
    PROVE  /\ \A b \in Block \ {Genesis} : HeaderArrives(b) => Inv'
           /\ ActivateBestChain \/ DisconnectTip \/ Tick => Inv'
           /\ \A b \in Block \cup Made : ConnectTip(b) => Inv'
  <1> USE HeightIsNat DEF Inv
  <1>0. Genesis \in Known /\ header \in Known /\ tip \in Known /\ goal \in Known /\ HeightOf(header) \in Nat
    BY TreeAssumption DEF TypeOK, Known
  <1>1. ASSUME NEW b \in Block \ {Genesis}, HeaderArrives(b) PROVE Inv'
    <2>1. b \in Known /\ HeightOf(b) = Height[b]
      BY TreeAssumption DEF Known, HeightOf
    <2> QED
      BY <1>0, <1>1, <2>1, ChainSteps, SMT DEF HeaderArrives
  <1>2. ASSUME ActivateBestChain PROVE Inv'
    <2>1. goal' \in Known
      BY <1>2 DEF ActivateBestChain, MostWork, Arrived, Known, Made
    <2> QED
      BY <1>0, <1>2, <2>1, ChainSteps, SMT DEF ActivateBestChain
  <1>3. ASSUME DisconnectTip PROVE Inv'
    <2>1. Genesis \in AncestorsOf(goal)
      BY <1>0, TreeAssumption DEF AncestorsOf, Known, Made, TypeOK
    <2>2. PrevOf(tip) \in Known
      BY <1>0, <1>3, <2>1, TreeAssumption DEF DisconnectTip, PrevOf, TypeOK, Known, Made
    <2> QED
      BY <1>0, <1>3, <2>2, ChainSteps, SMT DEF DisconnectTip
  <1>4. ASSUME Tick PROVE Inv'
    BY <1>0, <1>4, ChainSteps, SMT DEF Tick, chainVars
  <1>5. ASSUME NEW b \in Block \cup Made, ConnectTip(b) PROVE Inv'
    <2>1. /\ tip' \in {tip, b} /\ goal' \in {goal, Genesis}
          /\ UNCHANGED <<header, sequenceVars, made, pc, searchVars>>
      BY <1>5 DEF ConnectTip, Release
    <2> QED
      BY <1>0, <2>1, ChainSteps, SMT DEF Known
  <1> QED
    BY <1>1, <1>2, <1>3, <1>4, <1>5

\* A block of others gets its number and is compared with the best header.
LEMMA BlockArrivesSafe == \A b \in Block \ {Genesis} : Inv /\ BlockArrives(b) => Inv'
  <1> SUFFICES ASSUME NEW b \in Block \ {Genesis}, Inv, BlockArrives(b) PROVE Inv'
    OBVIOUS
  <1> USE DEF Inv
  <1>1. /\ nSequenceId' = [nSequenceId EXCEPT ![b] = nBlockSequenceId] /\ nBlockSequenceId' = nBlockSequenceId + 1
        /\ UNCHANGED <<tip, goal, made, pc, searchVars>>
        /\ header' = IF Height[b] > HeightOf(header) THEN b ELSE header
    BY DEF BlockArrives, Sequence, UpdateHeader
  <1>2. /\ Made' = Made /\ Known' = Known /\ Arrived' = Arrived \cup {b}
        /\ \A d : HeightOf(d)' = HeightOf(d)
    BY <1>1, TreeAssumption, SMT DEF Made, Known, Arrived, HeightOf, TypeOK
  <1>3. b \in Known /\ header \in Known /\ HeightOf(b) = Height[b] /\ HeightOf(b) \in Nat /\ HeightOf(header) \in Nat
    BY HeightIsNat, TreeAssumption DEF Known, HeightOf, TypeOK
  <1>4. TypeOK'
    <2>1. /\ nSequenceId' \in [Block \cup Own -> Nat] /\ nBlockSequenceId' \in Nat \ {0}
          /\ \A d \in Arrived' : nSequenceId'[d] < nBlockSequenceId'
      BY <1>1, <1>2, SMT DEF TypeOK, Arrived
    <2> QED
      BY <1>1, <1>2, <1>3, <2>1 DEF TypeOK, searchVars
  <1>5. HeaderIsBest'
    <2> SUFFICES ASSUME NEW d \in Arrived' PROVE HeightOf(d) <= HeightOf(header')
      BY <1>2 DEF HeaderIsBest
    <2>1. d \in Known
      BY <1>2, <1>3 DEF Arrived, Known, Made
    <2>2. HeightOf(d) \in Nat
      BY <2>1, HeightIsNat
    <2>3. d = b \/ HeightOf(d) <= HeightOf(header)
      BY <1>2 DEF HeaderIsBest
    <2> QED
      BY <1>1, <1>3, <2>2, <2>3, SMT
  <1> QED
    BY <1>1, <1>2, <1>4, <1>5 DEF SearchFresh, OneBlockPerParent, searchVars

\* The thread hands in its block, or finds that it is stale.
LEMMA CheckStakeSafe == Inv /\ CheckStake => Inv'
  <1> SUFFICES ASSUME Inv, CheckStake PROVE Inv'
    OBVIOUS
  <1> USE DEF Inv
  <1>1. CASE ~(template.prev = tip /\ nTime > TimeOf(tip))
    <2>1. UNCHANGED chainVars /\ Around
      BY <1>1 DEF CheckStake, chainVars
    <2> QED
      BY <2>1, AroundSafe
  <1>2. CASE template.prev = tip /\ nTime > TimeOf(tip)
    <2> DEFINE n   == CHOOSE m \in Own \ Made : TRUE
               new == [prev |-> tip, searched |-> pindexPrev, time |-> nTime, height |-> HeightOf(tip) + 1,
                       ancestors |-> AncestorsOf(tip) \cup {n},
                       kernel |-> kernel, inputs |-> {kernel} \cup (setCoins \cap Combined[kernel]),
                       vtx |-> {x \in template.vtx : LooseTime[x] <= nTime}, fees |-> Fees(template.vtx)]
    <2>1. /\ pc = "submit" /\ Around /\ tip' = tip
          /\ made' = [made EXCEPT ![n] = new]
          /\ nSequenceId' = [nSequenceId EXCEPT ![n] = nBlockSequenceId] /\ nBlockSequenceId' = nBlockSequenceId + 1
          /\ header' = IF HeightOf(tip) + 1 > HeightOf(header) THEN n ELSE header
          /\ \E b \in MostWork : goal' = IF HeightOf(b) >= HeightOf(tip) + 1 THEN b ELSE n
      BY <1>2 DEF CheckStake, Sequence, UpdateHeader
    <2>2. n \in Own \ Made
      BY <2>1 DEF TypeOK, Made
    <2>3. /\ new.prev = tip /\ new.searched = pindexPrev
          /\ new.height = HeightOf(tip) + 1 /\ new.ancestors = AncestorsOf(tip) \cup {n}
      OBVIOUS
    <2> HIDE DEF n, new
    <2>4. PICK o \in Own \ Made, h \in Nat : o = n /\ h = HeightOf(tip) + 1
      BY <2>2, HeightIsNat, SMT DEF TypeOK
    <2>5. o \notin Known /\ Made' = Made \cup {o} /\ Known' = Known \cup {o} /\ Arrived' = Arrived \cup {o}
      BY <2>1, <2>4, TreeAssumption, SMTT(20) DEF Made, Known, Arrived, TypeOK
    <2>6. /\ made'[o].prev = tip /\ made'[o].searched = pindexPrev /\ made'[o].height = h
          /\ Genesis \in AncestorsOf(tip) => Genesis \in made'[o].ancestors
          /\ \A p \in Made : made'[p] = made[p]
      BY <2>1, <2>3, <2>4 DEF TypeOK, Made
    <2>h. HeightOf(o)' = h /\ \A b \in Known : HeightOf(b)' = HeightOf(b)
      BY <2>4, <2>5, <2>6, TreeAssumption DEF HeightOf, Known, Made
    <2>7. tip \in Known /\ header \in Known /\ h \in Nat /\ HeightOf(tip) \in Nat /\ HeightOf(header) \in Nat
      BY <2>4, HeightIsNat DEF TypeOK
    <2>8. TypeOK'
      <3>1. tip' \in Known' /\ header' \in Known' /\ goal' \in Known'
        BY <2>1, <2>4, <2>5, <2>7 DEF MostWork, Arrived, Known, Made
      <3>2. /\ nSequenceId' \in [Block \cup Own -> Nat] /\ nBlockSequenceId' \in Nat \ {0}
            /\ \A b \in Arrived' : nSequenceId'[b] < nBlockSequenceId'
        BY <2>1, <2>4, <2>5, SMTT(20) DEF TypeOK, Arrived
      <3>3. Genesis \in AncestorsOf(tip)
        BY <2>7, TreeAssumption DEF AncestorsOf, Known, Made, TypeOK
      <3>4. ASSUME NEW p \in Made'
            PROVE  (/\ made[p].prev \in Known /\ made[p].height = HeightOf(made[p].prev) + 1
                    /\ made[p].height \in Nat /\ Genesis \in made[p].ancestors)'
        <4>1. CASE p = o
          <5>1. (HeightOf(made[p].prev))' = HeightOf(tip)
            BY <2>1, <2>6, <2>7, <2>h, <4>1
          <5> QED
            BY <2>4, <2>5, <2>6, <2>7, <3>3, <4>1, <5>1
        <4>2. CASE p \in Made
          <5>1. made'[p] = made[p] /\ made[p].prev \in Known
            BY <2>6, <4>2 DEF TypeOK
          <5>2. (HeightOf(made[p].prev))' = HeightOf(made[p].prev)
            BY <2>h, <5>1
          <5> QED
            BY <2>5, <4>2, <5>1, <5>2 DEF TypeOK
        <4> QED
          BY <2>5, <4>1, <4>2
      <3>5. DOMAIN made' = Own
        BY <2>1 DEF TypeOK
      <3>6. pc' = "idle" /\ kernel' = None
        BY <2>1 DEF Around
      <3> QED
        BY <3>1, <3>2, <3>4, <3>5, <3>6 DEF TypeOK
    <2>9. HeaderIsBest'
      <3>1. (HeightOf(header))' = IF h > HeightOf(header) THEN h ELSE HeightOf(header)
        BY <2>1, <2>4, <2>7, <2>h
      <3>2. ASSUME NEW b \in Arrived' PROVE (HeightOf(b) <= HeightOf(header))'
        <4>1. CASE b = o
          BY <2>h, <2>7, <3>1, <4>1, SMT
        <4>2. CASE b \in Arrived
          <5>1. b \in Known
            BY <4>2 DEF Arrived, Known, Made
          <5>2. HeightOf(b)' = HeightOf(b) /\ HeightOf(b) <= HeightOf(header) /\ HeightOf(b) \in Nat
            BY <2>h, <4>2, <5>1, HeightIsNat DEF HeaderIsBest
          <5> QED
            BY <2>7, <3>1, <5>2, SMT
        <4> QED
          BY <2>5, <4>1, <4>2
      <3> QED
        BY <3>2 DEF HeaderIsBest
    <2>10. OneBlockPerParent'
      <3>1. \A p \in Made : made[p].prev # pindexPrev
        BY <2>1 DEF SearchFresh
      <3>2. ASSUME NEW p \in Made', NEW q \in Made', made'[p].prev = made'[q].prev,
                   made'[p].searched = made'[p].prev, made'[q].searched = made'[q].prev
            PROVE  p = q
        <4>1. CASE p = o /\ q \in Made
          BY <2>6, <3>1, <3>2, <4>1
        <4>2. CASE q = o /\ p \in Made
          BY <2>6, <3>1, <3>2, <4>2
        <4>3. CASE p \in Made /\ q \in Made
          BY <2>6, <3>2, <4>3 DEF OneBlockPerParent
        <4> QED
          BY <2>5, <4>1, <4>2, <4>3
      <3> QED
        BY <3>2 DEF OneBlockPerParent
    <2> QED
      BY <2>1, <2>8, <2>9, <2>10 DEF SearchFresh, Around
  <1> QED
    BY <1>1, <1>2

\* Every step preserves the invariant.
LEMMA InvNext == Inv /\ [Next]_vars => Inv'
  <1> SUFFICES ASSUME Inv, [Next]_vars PROVE Inv'
    OBVIOUS
  <1>1. CASE UNCHANGED vars
    BY <1>1, ThreadSteps
       DEF vars, searchVars, chainVars, sequenceVars, Inv, TypeOK, SearchFresh, Made
  <1>2. CASE Next
    BY <1>2, OtherThreads, BlockArrivesSafe, BeforeSearch, TryKernelSafe, AfterSearch, CheckStakeSafe DEF Next
  <1> QED
    BY <1>1, <1>2

\* The types, and that own blocks stand on known ones and are numbered in the
\* order of arrival.
THEOREM Types == Spec => []TypeOK
  <1>1. Inv => TypeOK
    BY DEF Inv
  <1> QED
    BY InvInit, InvNext, <1>1, PTL DEF Spec

\* The best header is never behind a block the node has, own blocks included
\* (pindexBestHeader, AddToBlockIndex).
THEOREM BestHeader == Spec => []HeaderIsBest
  <1>1. Inv => HeaderIsBest
    BY DEF Inv
  <1> QED
    BY InvInit, InvNext, <1>1, PTL DEF Spec

\* The staking thread never makes two blocks on one block, as long as the
\* kernel was searched for the block that is extended (CreateCoinStake and
\* CheckStake).
THEOREM OneBlock == Spec => []OneBlockPerParent
  <1>1. Inv => OneBlockPerParent
    BY DEF Inv
  <1> QED
    BY InvInit, InvNext, <1>1, PTL DEF Spec

-----------------------------------------------------------------------------
(* The blocks the thread hands in are connected.                           *)

\* The index is closed under ancestors, and the chain lies in it.
Indexed ==
    /\ busy \in BOOLEAN /\ tip \in Arrived /\ goal \in Arrived
    /\ \A b \in Arrived : AncestorsOf(b) \subseteq Arrived /\ b \in AncestorsOf(b)
    /\ \A o \in Made : made[o].prev \in Arrived /\ made[o].ancestors = AncestorsOf(made[o].prev) \cup {o}

\* What the wallet sent in active blocks is known to be sent.
SentKnown == \A b \in Active \ Own : Sends[b] \subseteq sent

\* Block prev may be followed by a block that spends coin c.
Spendable(prev, c) ==
    /\ \E b \in AncestorsOf(prev) \ Own : c \in Creates[b] /\ MatureFor(b, prev)
    /\ \A b \in AncestorsOf(prev) : c \notin SpentBy(b)
Proven(prev, c, t) == \E b \in AncestorsOf(prev) \ Own : c \in Creates[b] /\ KernelAt(prev, c, b, t)
Sound(o) ==
    /\ Proven(made[o].prev, made[o].kernel, made[o].time)
    /\ made[o].kernel \in made[o].inputs
    /\ \A c \in made[o].inputs : Spendable(made[o].prev, c)
    /\ made[o].vtx \subseteq {x \in Loose : LooseTime[x] <= made[o].time}

\* While no block has been refused the chain only gets better: a tip that has
\* been left does not come back.
Onwards ==
    pc \notin {"idle", "create"} =>
        /\ template.prev \in Arrived /\ template.vtx \subseteq Loose
        /\ ~busy => tip = template.prev \/ Better(tip, template.prev)
        /\ busy => floor >= HeightOf(template.prev) /\ Better(goal, template.prev)

Unmoved == ~busy /\ tip = template.prev
Chosen ==
    /\ pc \in {"cache", "search", "found", "check", "submit"} /\ Unmoved =>
         \A c \in setCoins : Spendable(template.prev, c)
    /\ pc = "submit" /\ Unmoved => Proven(template.prev, kernel, nTime)

OwnInv ==
    /\ Indexed /\ SentKnown
    /\ todo \subseteq setCoins /\ setCoins \subseteq Coin
    /\ pc \in {"found", "check", "submit"} => kernel \in setCoins
    /\ failed = {} => Onwards /\ Chosen /\ \A o \in Made : Sound(o)
    /\ floor \in Nat
    /\ OwnBlocksConnect

-----------------------------------------------------------------------------
\* Blocks with data are known and have a height and a number.
LEMMA ArrivedTypes ==
    ASSUME TypeOK, NEW b \in Arrived
    PROVE  b \in Known /\ HeightOf(b) \in Nat /\ nSequenceId[b] \in Nat
  <1>1. b \in Known
    BY DEF Arrived, Known, Made
  <1> QED
    BY <1>1, HeightIsNat DEF TypeOK, Arrived

\* The order of FindMostWorkChain is a strict order.
LEMMA BetterOrder ==
    ASSUME TypeOK, NEW a \in Arrived, NEW b \in Arrived, NEW c \in Arrived
    PROVE  /\ ~Better(a, a)
           /\ Better(a, b) /\ Better(b, c) => Better(a, c)
  BY ArrivedTypes, SMT DEF Better

\* The index grows: nothing in it changes.
Grown ==
    /\ Arrived \subseteq Arrived' /\ Made \subseteq Made'
    /\ \A b \in Arrived : nSequenceId'[b] = nSequenceId[b]
    /\ \A o \in Made : made'[o] = made[o]
    /\ \A b \in Known : HeightOf(b)' = HeightOf(b) /\ AncestorsOf(b)' = AncestorsOf(b) /\ SpentBy(b)' = SpentBy(b)

LEMMA GrownSame == UNCHANGED <<made, sequenceVars>> => Grown
  BY DEF Grown, sequenceVars, Made, Known, Arrived, HeightOf, AncestorsOf, SpentBy

\* What was said of blocks in the index remains true.
LEMMA StillTrue ==
    ASSUME Inv, Indexed, Grown, NEW a \in Arrived
    PROVE  /\ \A b \in Arrived : Better(a, b)' = Better(a, b)
           /\ \A c : Spendable(a, c) => Spendable(a, c)'
           /\ \A c, t : Proven(a, c, t) => Proven(a, c, t)'
  <1>1. /\ a \in Known /\ AncestorsOf(a) \subseteq Known /\ HeightOf(a)' = HeightOf(a)
        /\ AncestorsOf(a)' = AncestorsOf(a)
        /\ \A b \in AncestorsOf(a) : SpentBy(b)' = SpentBy(b)
    BY ArrivedTypes DEF Inv, Indexed, Grown
  <1>2. ASSUME NEW b \in Arrived PROVE Better(a, b)' = Better(a, b)
    BY ArrivedTypes DEF Inv, Grown, Better
  <1>3. \A b : MatureFor(b, a)' = MatureFor(b, a)
    BY <1>1 DEF MatureFor
  <1>4. ASSUME NEW c PROVE Spendable(a, c) => Spendable(a, c)'
    BY <1>1, <1>3 DEF Spendable
  <1>5. \A c, b, t : KernelAt(a, c, b, t)' = KernelAt(a, c, b, t)
    BY <1>3 DEF KernelAt, CheckStakeKernelHash, BlockFromTime
  <1>6. ASSUME NEW c, NEW t PROVE Proven(a, c, t) => Proven(a, c, t)'
    BY <1>1, <1>5 DEF Proven
  <1> QED
    BY <1>2, <1>4, <1>6

\* The own blocks in the index stay sound.
LEMMA StillSound ==
    ASSUME Inv, Indexed, Grown, NEW o \in Made, Sound(o)
    PROVE  Sound(o)'
  <1>1. PICK a \in Arrived : a = made[o].prev
    BY DEF Indexed
  <1>2. made'[o] = made[o]
    BY DEF Grown
  <1>3. Proven(made[o].prev, made[o].kernel, made[o].time)'
    BY <1>1, <1>2, StillTrue DEF Sound
  <1>4. (\A c \in made[o].inputs : Spendable(made[o].prev, c))'
    BY <1>1, <1>2, StillTrue DEF Sound
  <1> QED
    BY <1>2, <1>3, <1>4 DEF Sound

\* A block that is not the genesis block follows its predecessor.
LEMMA Predecessor ==
    ASSUME Inv, Indexed, NEW b \in Arrived \ {Genesis}
    PROVE  PrevOf(b) \in Arrived /\ AncestorsOf(b) = AncestorsOf(PrevOf(b)) \cup {b}
  <1>1. CASE b \in Own
    BY <1>1 DEF Made, Arrived, Indexed, PrevOf, AncestorsOf
  <1>2. CASE b \notin Own
    <2>1. b \in Block \ {Genesis} /\ PrevOf(b) = Parent[b] /\ AncestorsOf(b) = Ancestors[b]
      BY <1>2 DEF Arrived, PrevOf, AncestorsOf
    <2>2. Parent[b] \in Block /\ Parent[b] \in Ancestors[Parent[b]] /\ AncestorsOf(Parent[b]) = Ancestors[Parent[b]]
      BY <2>1, TreeAssumption, SMT DEF AncestorsOf
    <2> QED
      BY <2>1, <2>2, TreeAssumption, SMT DEF Indexed
  <1> QED
    BY <1>1, <1>2

\* Steps that add no block keep the index closed.
LEMMA IndexedSame ==
    ASSUME Indexed, UNCHANGED <<made, sequenceVars>>, busy' \in BOOLEAN, tip' \in Arrived, goal' \in Arrived
    PROVE  Indexed'
  <1>1. Arrived' = Arrived /\ Made' = Made /\ \A b : AncestorsOf(b)' = AncestorsOf(b)
    BY DEF sequenceVars, Arrived, Made, AncestorsOf
  <1>2. made' = made
    OBVIOUS
  <1> QED
    BY <1>1, <1>2 DEF Indexed

-----------------------------------------------------------------------------
\* What is asked of a step of another thread: the tip gets better, or stays.
Forwards ==
    pc \notin {"idle", "create"} =>
        /\ ~busy' => (~busy /\ tip' = tip) \/ Better(tip', template.prev)
        /\ busy' => floor' >= HeightOf(template.prev) /\ Better(goal', template.prev)

\* Then what the staking thread holds remains true.
LEMMA ThreadUndisturbed ==
    ASSUME Inv, OwnInv, Grown, Made' = Made, Indexed', UNCHANGED <<pc, searchVars>>,
           tip' \in Arrived, goal' \in Arrived, failed = {}, Forwards
    PROVE  Onwards' /\ Chosen' /\ \A o \in Made' : Sound(o)'
  <1>1. Onwards /\ Chosen /\ Indexed /\ (\A o \in Made : Sound(o)) /\ TypeOK /\ busy \in BOOLEAN
    BY DEF OwnInv, Inv, Indexed
  <1>2. \A o \in Made' : Sound(o)'
    BY <1>1, StillSound
  <1>3. UNCHANGED <<pc, template, setCoins, kernel, nTime>>
    BY DEF searchVars
  <1>4. CASE pc \in {"idle", "create"}
    BY <1>2, <1>3, <1>4 DEF Onwards, Chosen
  <1>5. CASE pc \notin {"idle", "create"}
    <2>1. PICK a \in Arrived : a = template.prev
      BY <1>1, <1>5 DEF Onwards
    <2>2. /\ a \in Arrived' /\ HeightOf(a)' = HeightOf(a)
          /\ Better(tip, a)' = Better(tip', a) /\ Better(goal, a)' = Better(goal', a)
      BY <1>1, <2>1, StillTrue, ArrivedTypes DEF Grown
    <2>3. Onwards'
      BY <1>1, <1>3, <1>5, <2>1, <2>2 DEF Onwards, Forwards
    <2>4. ASSUME ~busy', tip' = template.prev PROVE ~busy /\ tip = template.prev
      BY <1>1, <1>5, <2>1, <2>4, BetterOrder DEF Forwards
    <2>5. Chosen'
      BY <1>1, <1>3, <2>1, <2>4, StillTrue DEF Chosen, Unmoved
    <2> QED
      BY <1>2, <2>3, <2>5
  <1> QED
    BY <1>4, <1>5

\* The whole invariant after a step of another thread that refuses no block.
LEMMA OtherStep ==
    ASSUME Inv, OwnInv, UNCHANGED <<made, sequenceVars, pc, searchVars, failed>>,
           busy' \in BOOLEAN, tip' \in Arrived, goal' \in Arrived, floor' \in Nat,
           failed = {} => Forwards, SentKnown'
    PROVE  OwnInv'
  <1>1. Grown /\ Made' = Made /\ Indexed'
    BY GrownSame, IndexedSame, SameBlocks DEF OwnInv
  <1>2. failed' = {} => Onwards' /\ Chosen' /\ \A o \in Made' : Sound(o)'
    BY <1>1, ThreadUndisturbed
  <1>3. OwnBlocksConnect'
    BY DEF OwnInv, OwnBlocksConnect
  <1> QED
    BY <1>1, <1>2, <1>3 DEF OwnInv, searchVars

\* Headers, the clock, and the beginning of a step of ActivateBestChain.
LEMMA QuietSteps ==
    ASSUME Inv, OwnInv
    PROVE  /\ \A b \in Block \ {Genesis} : HeaderArrives(b) => OwnInv'
           /\ Tick => OwnInv'
           /\ ActivateBestChain => OwnInv'
  <1>0. Indexed /\ SentKnown /\ floor \in Nat /\ TypeOK /\ tip \in Arrived /\ goal \in Arrived /\ busy \in BOOLEAN
    BY DEF OwnInv, Indexed, Inv
  <1>s. ASSUME UNCHANGED <<made, tip, sent>> PROVE SentKnown'
    BY <1>0, <1>s DEF SentKnown, Active, AncestorsOf
  <1>f. ASSUME UNCHANGED <<busy, tip, goal, floor>> PROVE failed = {} => Forwards
    <2>1. CASE failed = {} /\ pc \notin {"idle", "create"}
      BY <1>f, <2>1 DEF OwnInv, Onwards, Forwards
    <2> QED  BY <2>1 DEF Forwards
  <1>1. ASSUME NEW b \in Block \ {Genesis}, HeaderArrives(b) PROVE OwnInv'
    BY <1>0, <1>1, <1>s, <1>f, OtherStep DEF HeaderArrives
  <1>2. ASSUME Tick PROVE OwnInv'
    BY <1>0, <1>2, <1>s, <1>f, OtherStep DEF Tick, chainVars
  <1>3. ASSUME ActivateBestChain PROVE OwnInv'
    <2>1. PICK b \in MostWork : b # tip /\ goal' = b
      BY <1>3 DEF ActivateBestChain
    <2>2. /\ ~busy /\ busy' = TRUE /\ floor' = HeightOf(tip)
          /\ UNCHANGED <<tip, made, sent, sequenceVars, pc, searchVars, failed>>
      BY <1>3 DEF ActivateBestChain
    <2>3. b \in Arrived /\ HeightOf(tip) \in Nat
      BY <1>0, <2>1, ArrivedTypes DEF MostWork
    <2>4. failed = {} => Better(b, tip)
      BY <1>0, <2>1 DEF MostWork
    <2>5. ASSUME failed = {}, pc \notin {"idle", "create"} PROVE Forwards
      <3>1. PICK a \in Arrived : a = template.prev
        BY <2>5 DEF OwnInv, Onwards
      <3>2. tip = a \/ Better(tip, a)
        BY <2>2, <2>5, <3>1 DEF OwnInv, Onwards
      <3>3. Better(b, a)
        BY <1>0, <2>3, <2>4, <2>5, <3>2, BetterOrder
      <3>4. HeightOf(tip) >= HeightOf(a)
        BY <1>0, <3>2, ArrivedTypes, SMT DEF Better
      <3> QED
        BY <2>1, <2>2, <3>1, <3>3, <3>4 DEF Forwards
    <2> QED
      BY <1>0, <1>s, <2>1, <2>2, <2>3, <2>5, OtherStep DEF Forwards
  <1> QED
    BY <1>1, <1>2, <1>3

\* DisconnectTip: the chain gets shorter, cs_main stays locked.
LEMMA DisconnectSafe == Inv /\ OwnInv /\ DisconnectTip => OwnInv'
  <1> SUFFICES ASSUME Inv, OwnInv, DisconnectTip PROVE OwnInv'
    OBVIOUS
  <1>0. Indexed /\ SentKnown /\ floor \in Nat /\ tip \in Arrived /\ goal \in Arrived /\ TypeOK
    BY DEF OwnInv, Indexed, Inv
  <1>1. /\ busy /\ tip \notin AncestorsOf(goal) /\ tip' = PrevOf(tip)
        /\ UNCHANGED <<made, sent, busy, goal, floor, sequenceVars, pc, searchVars, failed>>
    BY DEF DisconnectTip
  <1>2. tip # Genesis
    BY <1>0, <1>1, TreeAssumption, ArrivedTypes, SMT DEF AncestorsOf, Known, Made, TypeOK
  <1>3. PrevOf(tip) \in Arrived /\ AncestorsOf(PrevOf(tip)) \subseteq AncestorsOf(tip)
    BY <1>0, <1>2, Predecessor
  <1>4. SentKnown'
    <2>1. AncestorsOf(tip)' = AncestorsOf(PrevOf(tip))
      BY <1>1 DEF AncestorsOf
    <2> QED
      BY <1>0, <1>1, <1>3, <2>1 DEF SentKnown, Active
  <1>5. busy' \in BOOLEAN
    BY <1>0, <1>1 DEF Indexed
  <1>6. failed = {} => Forwards
    <2>1. CASE failed = {} /\ pc \notin {"idle", "create"}
      BY <1>1, <2>1 DEF OwnInv, Onwards, Forwards
    <2> QED  BY <2>1 DEF Forwards
  <1> QED
    BY <1>0, <1>1, <1>3, <1>4, <1>5, <1>6, OtherStep

\* A sound block is one that ConnectBlock accepts on its predecessor, where
\* donations leave no fees to claim.
LEMMA SoundConnects ==
    ASSUME nDonationPercentage > 0, Inv, Indexed, NEW o \in Made, Sound(o), made[o].prev = tip
    PROVE  OwnConnects(o)
  <1> DEFINE k == made[o].kernel
  <1>1. \A c : Place(c) = {b \in AncestorsOf(tip) \ Own : c \in Creates[b]}
    BY DEF Place, Active
  <1>2. \A c \in made[o].inputs : Unspent(c) /\ \E b \in Place(c) : MatureFor(b, tip)
    BY <1>1 DEF Sound, Spendable, Unspent, Active
  <1>3. \E b \in GetTransaction(k) : KernelAt(tip, k, b, made[o].time)
    <2>1. PICK b \in AncestorsOf(tip) \ Own : k \in Creates[b] /\ KernelAt(tip, k, b, made[o].time)
      BY DEF Sound, Proven
    <2>2. b \in Place(k)
      BY <1>1, <2>1
    <2> QED
      BY <2>1, <2>2 DEF GetTransaction
  <1>4. \A x \in made[o].vtx : LooseTime[x] <= made[o].time
    BY DEF Sound
  <1>5. Claimed(o) <= Fees(made[o].vtx)
    <2>1. Cardinality(made[o].vtx) \in Nat
      BY WalletAssumption DEF Sound
    <2> QED
      BY <2>1, SMT DEF Claimed, Fees
  <1> QED
    BY <1>2, <1>3, <1>4, <1>5 DEF OwnConnects

\* ConnectTip: the first block that is refused is one of others.
LEMMA ConnectSafe ==
    ASSUME nDonationPercentage > 0, Inv, OwnInv, NEW d \in Block \cup Made, ConnectTip(d)
    PROVE  OwnInv'
  <1>0. Indexed /\ SentKnown /\ floor \in Nat /\ tip \in Arrived /\ goal \in Arrived /\ TypeOK
    BY DEF OwnInv, Indexed, Inv
  <1>1. /\ busy /\ d \in AncestorsOf(goal) \ {Genesis} /\ PrevOf(d) = tip
        /\ UNCHANGED <<made, sequenceVars, pc, searchVars>>
    BY DEF ConnectTip
  <1>2. d \in Arrived \ {Genesis} /\ d \in AncestorsOf(d) /\ Genesis \in Arrived
    <2>1. Genesis \in AncestorsOf(tip)
      BY <1>0, TreeAssumption, ArrivedTypes DEF AncestorsOf, Known, Made, TypeOK
    <2> QED
      BY <1>0, <1>1, <2>1 DEF Indexed
  <1>3. AncestorsOf(d) = AncestorsOf(tip) \cup {d}
    BY <1>0, <1>1, <1>2, Predecessor
  <1>4. CASE Connects(d)
    <2>1. /\ tip' = d
          /\ IF d = goal \/ HeightOf(d) > floor THEN Release ELSE UNCHANGED <<busy, goal, floor>>
          /\ sent' = IF d \in Own THEN sent ELSE sent \cup Sends[d]
          /\ UNCHANGED failed
      BY <1>4 DEF ConnectTip
    <2>2. busy' \in BOOLEAN /\ goal' \in Arrived /\ floor' \in Nat
      <3>1. goal' \in Arrived /\ floor' \in Nat
        BY <1>0, <1>2, <2>1, SMT DEF Release
      <3>2. busy' = FALSE \/ busy' = busy
        BY <2>1 DEF Release
      <3>3. busy' \in BOOLEAN
        BY <1>0, <3>2, Zenon DEF Indexed
      <3> QED  BY <3>1, <3>3
    <2>3. SentKnown'
      <3>1. AncestorsOf(tip)' = AncestorsOf(d)
        BY <1>1, <2>1 DEF AncestorsOf
      <3> QED
        BY <1>0, <1>3, <2>1, <3>1 DEF SentKnown, Active
    <2>4. ASSUME failed = {}, pc \notin {"idle", "create"} PROVE Forwards
      <3>1. PICK a \in Arrived : a = template.prev
        BY <2>4 DEF OwnInv, Onwards
      <3>2. floor >= HeightOf(a) /\ Better(goal, a)
        BY <1>1, <2>4, <3>1 DEF OwnInv, Onwards
      <3>3. CASE d = goal \/ HeightOf(d) > floor
        <4>1. ~busy' /\ tip' = d
          BY <2>1, <3>3 DEF Release
        <4>2. Better(d, a)
          BY <1>0, <1>2, <3>2, <3>3, ArrivedTypes, SMT DEF Better
        <4> QED
          BY <3>1, <4>1, <4>2 DEF Forwards
      <3>4. CASE ~(d = goal \/ HeightOf(d) > floor)
        BY <1>1, <2>1, <3>1, <3>2, <3>4 DEF Forwards
      <3> QED
        BY <3>3, <3>4
    <2> QED
      BY <1>1, <1>2, <2>1, <2>2, <2>3, <2>4, OtherStep DEF Forwards
  <1>5. CASE ~Connects(d)
    <2>1. /\ failed' = failed \cup {e \in Arrived : d \in AncestorsOf(e)}
          /\ Release /\ UNCHANGED <<tip, sent>>
      BY <1>5 DEF ConnectTip
    <2>2. d \in failed' /\ failed \subseteq failed'
      BY <1>2, <2>1
    <2>3. OwnBlocksConnect'
      <3>1. CASE failed = {}
        <4>1. d \notin Own
          <5> SUFFICES ASSUME d \in Own PROVE FALSE
            OBVIOUS
          <5>1. d \in Made /\ made[d].prev = tip
            BY <1>1, <1>2 DEF Made, Arrived, PrevOf
          <5>2. Sound(d)
            BY <3>1, <5>1 DEF OwnInv
          <5> QED
            BY <1>0, <1>5, <5>1, <5>2, SoundConnects DEF Connects
        <4> QED
          BY <2>2, <4>1 DEF OwnBlocksConnect
      <3>2. CASE failed # {}
        BY <2>2, <3>2 DEF OwnInv, OwnBlocksConnect
      <3> QED  BY <3>1, <3>2
    <2>4. Indexed'
      BY <1>0, <1>1, <1>2, <2>1, IndexedSame DEF Release
    <2>5. SentKnown'
      BY <1>0, <1>1, <2>1 DEF SentKnown, Active, AncestorsOf
    <2> QED
      BY <1>1, <2>1, <2>2, <2>3, <2>4, <2>5 DEF OwnInv, Release, searchVars
  <1> QED
    BY <1>4, <1>5

\* A block of others enters the index; nothing that is active changes.
LEMMA ArrivalSafe == \A b \in Block \ {Genesis} : Inv /\ OwnInv /\ BlockArrives(b) => OwnInv'
  <1> SUFFICES ASSUME NEW b \in Block \ {Genesis}, Inv, OwnInv, BlockArrives(b) PROVE OwnInv'
    OBVIOUS
  <1>0. Indexed /\ SentKnown /\ TypeOK /\ tip \in Arrived /\ goal \in Arrived /\ busy \in BOOLEAN
    BY DEF OwnInv, Indexed, Inv
  <1>1. /\ nSequenceId' = [nSequenceId EXCEPT ![b] = nBlockSequenceId]
        /\ b \notin Arrived /\ Parent[b] \in Arrived
        /\ UNCHANGED <<tip, failed, made, busy, goal, floor, sent, pc, searchVars>>
    BY DEF BlockArrives, Sequence
  <1>2. /\ Made' = Made /\ Arrived' = Arrived \cup {b} /\ \A d : AncestorsOf(d)' = AncestorsOf(d)
        /\ \A d : HeightOf(d)' = HeightOf(d) /\ SpentBy(d)' = SpentBy(d)
    BY <1>0, <1>1, TreeAssumption, SMT DEF TypeOK, Made, Arrived, AncestorsOf, HeightOf, SpentBy
  <1>3. Grown
    BY <1>0, <1>1, <1>2 DEF Grown, TypeOK, Arrived
  <1>4. AncestorsOf(b) = AncestorsOf(Parent[b]) \cup {b}
    BY TreeAssumption DEF AncestorsOf
  <1>5. Indexed'
    BY <1>0, <1>1, <1>2, <1>4 DEF Indexed
  <1>6. SentKnown'
    BY <1>0, <1>1, <1>2 DEF SentKnown, Active
  <1>7. ASSUME failed = {} PROVE Onwards' /\ Chosen' /\ \A o \in Made' : Sound(o)'
    <2>1. Forwards
      BY <1>1, <1>7 DEF OwnInv, Onwards, Forwards
    <2> QED
      BY <1>0, <1>1, <1>2, <1>3, <1>5, <1>7, <2>1, ThreadUndisturbed
  <1> QED
    BY <1>1, <1>5, <1>6, <1>7 DEF OwnInv, OwnBlocksConnect, searchVars

-----------------------------------------------------------------------------
\* Steps of the staking thread before it hands in a block.
LEMMA ThreadStep ==
    ASSUME Inv, OwnInv, UNCHANGED chainVars, todo' \subseteq setCoins', setCoins' \subseteq Coin,
           pc' \in {"found", "check", "submit"} => kernel' \in setCoins',
           failed = {} => Onwards' /\ Chosen'
    PROVE  OwnInv'
  <1>0. Indexed /\ SentKnown /\ tip \in Arrived /\ goal \in Arrived /\ busy \in BOOLEAN
    BY DEF OwnInv, Indexed
  <1>1. UNCHANGED <<made, sequenceVars, tip, busy, goal, floor, sent, failed>>
    BY DEF chainVars
  <1>2. Grown /\ Made' = Made /\ Indexed'
    BY <1>0, <1>1, GrownSame, IndexedSame, SameBlocks
  <1>3. SentKnown'
    BY <1>0, <1>1 DEF SentKnown, Active, AncestorsOf
  <1>4. failed = {} => \A o \in Made' : Sound(o)'
    BY <1>0, <1>2, StillSound DEF OwnInv
  <1> QED
    BY <1>1, <1>2, <1>3, <1>4 DEF OwnInv, OwnBlocksConnect

LEMMA AroundOwn == Inv /\ OwnInv /\ UNCHANGED chainVars /\ Around => OwnInv'
  BY ThreadStep DEF Around, Onwards, Chosen

\* A round goes on with the template and the coins it has.
LEMMA RoundGoesOn ==
    ASSUME Inv, OwnInv, UNCHANGED <<chainVars, template, setCoins>>,
           pc \notin {"idle", "create"}, todo' \subseteq setCoins,
           pc' \in {"found", "check", "submit"} => kernel' \in setCoins,
           pc' \in {"cache", "search", "found", "check", "submit"} =>
               pc \in {"cache", "search", "found", "check", "submit"},
           pc' = "submit" /\ Unmoved => Proven(template.prev, kernel', nTime')
    PROVE  OwnInv'
  <1>1. UNCHANGED <<made, sequenceVars, tip, busy, goal, floor, failed>> /\ Indexed
    BY DEF chainVars, OwnInv
  <1>2. ASSUME failed = {} PROVE Onwards' /\ Chosen'
    <2>1. Grown /\ Onwards /\ Chosen
      BY <1>1, <1>2, GrownSame DEF OwnInv
    <2>2. PICK a \in Arrived : a = template.prev
      BY <2>1 DEF Onwards
    <2>3. tip \in Arrived /\ goal \in Arrived
      BY <1>1 DEF Indexed
    <2>4. /\ a \in Arrived' /\ HeightOf(a)' = HeightOf(a)
          /\ Better(tip, a)' = Better(tip, a) /\ Better(goal, a)' = Better(goal, a)
      BY <1>1, <2>1, <2>2, <2>3, StillTrue, SameBlocks
    <2>5. Onwards'
      BY <1>1, <2>1, <2>2, <2>4 DEF Onwards
    <2>6. Unmoved' = Unmoved
      BY <1>1 DEF Unmoved
    <2>7. Chosen'
      BY <1>1, <2>1, <2>2, <2>6, StillTrue DEF Chosen
    <2> QED
      BY <2>5, <2>7
  <1> QED
    BY <1>2, ThreadStep DEF OwnInv

\* The round begins, and chooses its coins.
LEMMA RoundBegins ==
    ASSUME Inv, OwnInv
    PROVE  Wake \/ Sleep \/ CreateNewBlock \/ SignBlock \/ SelectCoinsForStaking => OwnInv'
  <1>0. Indexed /\ SentKnown /\ TypeOK /\ tip \in Arrived
    BY DEF OwnInv, Indexed, Inv
  <1>1. ASSUME Wake PROVE OwnInv'
    BY <1>1, ThreadStep DEF Wake, searchVars, OwnInv, Onwards, Chosen
  <1>2. ASSUME Sleep PROVE OwnInv'
    BY <1>2, ThreadStep DEF Sleep, vars, searchVars, OwnInv, Onwards, Chosen
  <1>3. ASSUME CreateNewBlock PROVE OwnInv'
    <2>1. /\ pc' = "sign" /\ ~busy /\ UNCHANGED <<chainVars, setCoins, todo>>
          /\ template'.prev = tip /\ template'.vtx \subseteq Loose
      BY <1>3, SMT DEF CreateNewBlock
    <2>2. UNCHANGED <<tip, busy, made, sequenceVars>>
      BY <2>1 DEF chainVars
    <2>3. Arrived' = Arrived
      BY <2>2, SameBlocks
    <2>4. Onwards' /\ Chosen'
      BY <1>0, <2>1, <2>2, <2>3 DEF Onwards, Chosen
    <2> QED
      BY <2>1, <2>4, ThreadStep DEF OwnInv
  <1>4. ASSUME SignBlock PROVE OwnInv'
    <2>1. /\ pc = "sign" /\ UNCHANGED chainVars
          /\ Around \/ (pc' = "select" /\ UNCHANGED <<template, setCoins, todo, kernel>>)
      BY <1>4 DEF SignBlock
    <2>2. CASE pc' = "select" /\ UNCHANGED <<template, setCoins, todo, kernel>>
      BY <2>1, <2>2, RoundGoesOn DEF OwnInv
    <2> QED
      BY <2>1, <2>2, AroundOwn
  <1>5. ASSUME SelectCoinsForStaking PROVE OwnInv'
    <2> DEFINE S == AvailableCoinsForStaking
    <2>1. pc = "select" /\ ~busy /\ UNCHANGED chainVars
      BY <1>5 DEF SelectCoinsForStaking
    <2>2. CASE S = {}
      BY <1>5, <2>1, <2>2, AroundOwn DEF SelectCoinsForStaking, GiveUp
    <2>3. CASE S # {}
      <3>1. /\ pc' \in {"cache", "search"} /\ setCoins' = S /\ todo' = S
            /\ UNCHANGED <<template, nTime, kernel>>
        BY <1>5, <2>3 DEF SelectCoinsForStaking
      <3>2. S \subseteq Coin
        BY DEF AvailableCoinsForStaking
      <3>3. UNCHANGED <<made, sequenceVars, tip, busy, goal, floor, failed>>
        BY <2>1 DEF chainVars
      <3>4. ASSUME NEW c \in S PROVE Spendable(tip, c)
        <4>1. PICK b \in Place(c) : HeightOf(tip) - Height[b] + 1 >= nCoinbaseMaturity
          BY DEF AvailableCoinsForStaking
        <4>2. b \in AncestorsOf(tip) \ Own /\ c \in Creates[b]
          BY <4>1 DEF Place, Active
        <4>3. MatureFor(b, tip)
          <5>1. b \in Block
            BY <1>0, <4>2 DEF Indexed, Arrived
          <5>2. Height[b] \in Nat /\ HeightOf(tip) \in Nat
            BY <1>0, <5>1, ArrivedTypes, TreeAssumption
          <5>3. HeightOf(tip) + 1 - Height[b] = HeightOf(tip) - Height[b] + 1
            BY <5>2, SMT
          <5> QED
            BY <4>1, <5>3 DEF MatureFor
        <4>4. ASSUME NEW a \in AncestorsOf(tip) PROVE c \notin SpentBy(a)
          <5>1. CASE a \in Own
            BY <4>4, <5>1 DEF AvailableCoinsForStaking, Active, SpentBy
          <5>2. CASE a \notin Own
            BY <1>0, <4>4, <5>2 DEF AvailableCoinsForStaking, Active, SpentBy, SentKnown
          <5> QED
            BY <5>1, <5>2
        <4> QED
          BY <4>2, <4>3, <4>4 DEF Spendable
      <3>5. ASSUME failed = {} PROVE Onwards' /\ Chosen'
        <4>1. Grown /\ Onwards
          BY <3>3, <3>5, GrownSame DEF OwnInv
        <4>2. PICK a \in Arrived : a = template.prev
          BY <2>1, <4>1 DEF Onwards
        <4>3. a \in Arrived' /\ Better(tip, a)' = Better(tip, a)
          BY <1>0, <3>3, <4>1, <4>2, StillTrue, SameBlocks
        <4>4. Onwards'
          BY <2>1, <3>1, <3>3, <4>1, <4>2, <4>3 DEF Onwards
        <4>5. ASSUME Unmoved', NEW c \in S PROVE Spendable(template.prev, c)'
          <5>1. a = tip
            BY <3>1, <3>3, <4>2, <4>5 DEF Unmoved
          <5>2. Spendable(a, c)'
            BY <1>0, <3>4, <4>1, <5>1, StillTrue
          <5> QED
            BY <3>1, <4>2, <5>2
        <4>6. Chosen'
          BY <3>1, <4>5 DEF Chosen
        <4> QED
          BY <4>4, <4>6
      <3> QED
        BY <2>1, <3>1, <3>2, <3>5, ThreadStep
    <2> QED
      BY <2>2, <2>3
  <1> QED
    BY <1>1, <1>2, <1>3, <1>4, <1>5

\* The search, and the checks before the block is handed in.
LEMMA RoundProceeds ==
    ASSUME Inv, OwnInv
    PROVE  /\ \A c \in Coin : CacheKernel(c) \/ TryKernel(c) => OwnInv'
           /\ FinishBlock \/ CheckProofOfStake => OwnInv'
  <1>0. Indexed /\ todo \subseteq setCoins /\ tip \in Arrived
    BY DEF OwnInv, Indexed
  <1>1. ASSUME NEW c \in Coin, CacheKernel(c) PROVE OwnInv'
    <2>1. /\ pc = "cache" /\ pc' \in {"cache", "search"} /\ UNCHANGED <<chainVars, template, setCoins, kernel>>
          /\ todo' = setCoins \/ todo' = todo \ {c}
      BY <1>1 DEF CacheKernel
    <2> QED
      BY <1>0, <2>1, RoundGoesOn
  <1>2. ASSUME NEW c \in Coin, TryKernel(c) PROVE OwnInv'
    <2>1. /\ pc = "search" /\ c \in todo /\ UNCHANGED chainVars
          /\ \/ kernel' = c /\ pc' = "found" /\ todo' = {} /\ UNCHANGED <<template, setCoins>>
             \/ Around
             \/ todo' = todo \ {c} /\ pc' = pc /\ UNCHANGED <<template, setCoins>>
      BY <1>2 DEF TryKernel, GiveUp
    <2>2. ASSUME ~Around PROVE OwnInv'
      BY <1>0, <2>1, <2>2, RoundGoesOn
    <2> QED
      BY <2>1, <2>2, AroundOwn
  <1>3. ASSUME FinishBlock PROVE OwnInv'
    <2>1. /\ pc = "found" /\ UNCHANGED chainVars
          /\ Around \/ (pc' = "check" /\ UNCHANGED <<template, setCoins, todo, kernel>>)
      BY <1>3 DEF FinishBlock, GiveUp
    <2>2. CASE pc' = "check" /\ UNCHANGED <<template, setCoins, todo, kernel>>
      BY <1>0, <2>1, <2>2, RoundGoesOn DEF OwnInv
    <2> QED
      BY <2>1, <2>2, AroundOwn
  <1>4. ASSUME CheckProofOfStake PROVE OwnInv'
    <2>1. pc = "check" /\ ~busy /\ UNCHANGED chainVars
      BY <1>4 DEF CheckProofOfStake
    <2>2. PICK b \in GetTransaction(kernel) :
            IF ProofOk(b) THEN pc' = "submit" /\ UNCHANGED <<template, nTime, pindexPrev, setCoins, todo, kernel>>
            ELSE Around
      BY <1>4 DEF CheckProofOfStake
    <2>3. CASE ProofOk(b)
      <3>1. pc' = "submit" /\ UNCHANGED <<template, nTime, setCoins, todo, kernel>> /\ kernel \in setCoins
        BY <2>1, <2>2, <2>3 DEF OwnInv
      <3>2. CASE failed # {}
        <4>1. failed' = failed
          BY <2>1 DEF chainVars
        <4> QED
          BY <1>0, <2>1, <3>1, <3>2, ThreadStep DEF OwnInv
      <3>3. CASE failed = {}
        <4>1. ASSUME Unmoved PROVE Proven(template.prev, kernel', nTime')
          <5>1. Spendable(tip, kernel) /\ template.prev = tip
            BY <2>1, <3>1, <3>3, <4>1 DEF OwnInv, Chosen, Unmoved
          <5>2. b \in Place(kernel)
            BY <2>2, <5>1 DEF Spendable, GetTransaction, Place, Active
          <5>3. KernelAt(tip, kernel, b, nTime)
            BY <2>3, <5>1 DEF ProofOk
          <5> QED
            BY <3>1, <5>1, <5>2, <5>3 DEF Proven, Place, Active
        <4> QED
          BY <1>0, <2>1, <3>1, <4>1, RoundGoesOn
      <3> QED
        BY <3>2, <3>3
    <2> QED
      BY <2>1, <2>2, <2>3, AroundOwn
  <1> QED
    BY <1>1, <1>2, <1>3, <1>4

\* The block the thread hands in is sound.
LEMMA HandInSafe == Inv /\ OwnInv /\ CheckStake => OwnInv'
  <1> SUFFICES ASSUME Inv, OwnInv, CheckStake PROVE OwnInv'
    OBVIOUS
  <1>0. Indexed /\ SentKnown /\ TypeOK /\ tip \in Arrived /\ goal \in Arrived
    BY DEF OwnInv, Indexed, Inv
  <1>1. CASE ~(template.prev = tip /\ nTime > TimeOf(tip))
    <2>1. UNCHANGED chainVars /\ Around
      BY <1>1 DEF CheckStake, chainVars
    <2> QED
      BY <2>1, AroundOwn
  <1>2. CASE template.prev = tip /\ nTime > TimeOf(tip)
    <2> DEFINE n   == CHOOSE m \in Own \ Made : TRUE
               new == [prev |-> tip, searched |-> pindexPrev, time |-> nTime, height |-> HeightOf(tip) + 1,
                       ancestors |-> AncestorsOf(tip) \cup {n},
                       kernel |-> kernel, inputs |-> {kernel} \cup (setCoins \cap Combined[kernel]),
                       vtx |-> {x \in template.vtx : LooseTime[x] <= nTime}, fees |-> Fees(template.vtx)]
    <2>1. /\ pc = "submit" /\ ~busy /\ Around /\ UNCHANGED <<tip, failed, sent>>
          /\ made' = [made EXCEPT ![n] = new]
          /\ nSequenceId' = [nSequenceId EXCEPT ![n] = nBlockSequenceId]
          /\ busy' = TRUE /\ floor' = HeightOf(tip)
          /\ \E b \in MostWork : goal' = IF HeightOf(b) >= HeightOf(tip) + 1 THEN b ELSE n
      BY <1>2 DEF CheckStake, Sequence
    <2>2. n \in Own \ Made
      BY <1>0, <2>1 DEF TypeOK, Made
    <2>3. /\ new.prev = tip /\ new.time = nTime /\ new.kernel = kernel
          /\ new.ancestors = AncestorsOf(tip) \cup {n} /\ new.inputs = {kernel} \cup (setCoins \cap Combined[kernel])
          /\ new.vtx = {x \in template.vtx : LooseTime[x] <= nTime}
      OBVIOUS
    <2> HIDE DEF n, new
    <2>4. PICK o \in Own \ Made : o = n
      BY <2>2
    <2>5. o \notin Known /\ Made' = Made \cup {o} /\ Arrived' = Arrived \cup {o}
      BY <1>0, <2>1, <2>4, TreeAssumption, SMTT(20) DEF Made, Known, Arrived, TypeOK
    <2>6. made'[o] = new /\ \A d \in Own \ {o} : made'[d] = made[d]
      BY <1>0, <2>1, <2>4 DEF TypeOK
    <2>7. Grown
      <3>1. \A b \in Known : HeightOf(b)' = HeightOf(b) /\ AncestorsOf(b)' = AncestorsOf(b) /\ SpentBy(b)' = SpentBy(b)
        BY <2>5, <2>6 DEF HeightOf, AncestorsOf, SpentBy, Known, Made
      <3>2. \A b \in Arrived : nSequenceId'[b] = nSequenceId[b]
        BY <1>0, <2>1, <2>4 DEF TypeOK, Arrived, Made
      <3>3. \A d \in Made : made'[d] = made[d]
        BY <2>4, <2>6 DEF Made
      <3> QED
        BY <2>5, <3>1, <3>2, <3>3 DEF Grown
    <2>8. AncestorsOf(o)' = AncestorsOf(tip) \cup {o} /\ \A b \in Arrived : AncestorsOf(b)' = AncestorsOf(b)
      BY <1>0, <2>3, <2>4, <2>6, <2>7, ArrivedTypes DEF AncestorsOf, Grown
    <2>9. Indexed'
      <3>1. goal' \in Arrived' /\ tip' \in Arrived'
        BY <1>0, <2>1, <2>4, <2>5 DEF MostWork
      <3>2. ASSUME NEW b \in Arrived' PROVE (AncestorsOf(b) \subseteq Arrived /\ b \in AncestorsOf(b))'
        BY <1>0, <2>5, <2>8, SMT DEF Indexed
      <3>3. ASSUME NEW d \in Made'
            PROVE  (made[d].prev \in Arrived /\ made[d].ancestors = AncestorsOf(made[d].prev) \cup {d})'
        <4>1. CASE d = o
          BY <1>0, <2>3, <2>4, <2>5, <2>6, <2>8, <4>1
        <4>2. CASE d \in Made
          <5>1. made'[d] = made[d] /\ made[d].prev \in Arrived /\ made[d].ancestors = AncestorsOf(made[d].prev) \cup {d}
            BY <1>0, <2>7, <4>2 DEF Grown, Indexed
          <5> QED
            BY <2>5, <2>8, <5>1
        <4> QED
          BY <2>5, <4>1, <4>2
      <3>4. busy' \in BOOLEAN
        BY <2>1
      <3> QED
        BY <3>1, <3>2, <3>3, <3>4 DEF Indexed
    <2>10. SentKnown'
      BY <1>0, <2>1, <2>8 DEF SentKnown, Active
    <2>11. ASSUME failed = {}, NEW d \in Made' PROVE Sound(d)'
      <3>1. CASE d \in Made
        BY <1>0, <2>7, <2>11, <3>1, StillSound DEF OwnInv
      <3>2. CASE d = o
        <4>1. /\ Proven(tip, kernel, nTime) /\ kernel \in setCoins /\ template.vtx \subseteq Loose
              /\ \A c \in setCoins : Spendable(tip, c)
          BY <1>2, <2>1, <2>11 DEF OwnInv, Chosen, Onwards, Unmoved
        <4>2. PICK a \in Arrived, k \in setCoins : a = tip /\ k = kernel
          BY <1>0, <4>1
        <4>3. PICK t : t = nTime
          OBVIOUS
        <4>4. Proven(a, k, t)' /\ \A c \in setCoins : Spendable(a, c)'
          BY <1>0, <2>7, <4>1, <4>2, <4>3, StillTrue
        <4>5. made'[d].prev = a /\ made'[d].kernel = k /\ made'[d].time = t
          BY <2>3, <2>6, <3>2, <4>2, <4>3
        <4>6. made'[d].inputs \subseteq setCoins /\ k \in made'[d].inputs
          BY <2>3, <2>6, <3>2, <4>1, <4>2
        <4>7. made'[d].vtx \subseteq {x \in Loose : LooseTime[x] <= t}
          BY <2>3, <2>6, <3>2, <4>1, <4>3
        <4> QED
          BY <4>4, <4>5, <4>6, <4>7 DEF Sound
      <3> QED
        BY <2>5, <3>1, <3>2
    <2>12. floor' \in Nat
      BY <1>0, <2>1, ArrivedTypes
    <2>13. OwnBlocksConnect'
      BY <2>1 DEF OwnInv, OwnBlocksConnect
    <2>14. pc' = "idle" /\ setCoins' = {} /\ todo' = {}
      BY <2>1 DEF Around
    <2> QED
      BY <2>1, <2>9, <2>10, <2>11, <2>12, <2>13, <2>14 DEF OwnInv, Onwards, Chosen
  <1> QED
    BY <1>1, <1>2

LEMMA OwnInit == Init => OwnInv
  <1> SUFFICES ASSUME Init PROVE OwnInv
    OBVIOUS
  <1>1. Made = {} /\ Arrived = {Genesis}
    BY TreeAssumption, SMT DEF Init, Made, Arrived
  <1>2. AncestorsOf(Genesis) = {Genesis}
    BY TreeAssumption DEF AncestorsOf
  <1>3. Indexed /\ SentKnown
    BY <1>1, <1>2, WalletAssumption DEF Init, Indexed, SentKnown, Active
  <1> QED
    BY <1>1, <1>3 DEF Init, OwnInv, Onwards, Chosen, OwnBlocksConnect

LEMMA OwnNext ==
    ASSUME nDonationPercentage > 0, Inv, OwnInv, [Next]_vars
    PROVE  OwnInv'
  <1>1. CASE UNCHANGED vars
    <2>1. UNCHANGED <<chainVars, searchVars, pc>>
      BY <1>1 DEF vars
    <2>2. CASE pc \in {"idle", "create"}
      BY <2>1, <2>2, ThreadStep DEF searchVars, OwnInv, Onwards, Chosen
    <2>3. CASE pc \notin {"idle", "create"} /\ failed = {}
      BY <2>1, <2>3, RoundGoesOn DEF searchVars, OwnInv, Chosen
    <2>4. CASE failed # {}
      BY <2>1, <2>4, ThreadStep DEF searchVars, OwnInv
    <2> QED
      BY <2>2, <2>3, <2>4
  <1>2. CASE Next
    BY <1>2, QuietSteps, DisconnectSafe, ConnectSafe, ArrivalSafe, RoundBegins, RoundProceeds, HandInSafe DEF Next
  <1> QED
    BY <1>1, <1>2

\* Where donations are on, the first block that ConnectBlock refuses is never
\* one of the node's own, for every interleaving of the staking thread with
\* the chain, every tree and every age of the cache (CreateCoinStake,
\* CheckStake).  Without donations it fails: the fees of the template are
\* claimed and those of the transactions that were dropped are missing.
THEOREM OwnBlocksAreAccepted ==
    ASSUME nDonationPercentage > 0
    PROVE  Spec => []OwnBlocksConnect
  <1>1. Init => Inv /\ OwnInv
    BY InvInit, OwnInit
  <1>2. Inv /\ OwnInv /\ [Next]_vars => (Inv /\ OwnInv)'
    BY InvNext, OwnNext
  <1>3. Inv /\ OwnInv => OwnBlocksConnect
    BY DEF OwnInv
  <1> QED
    BY <1>1, <1>2, <1>3, PTL DEF Spec
=============================================================================
