------------------------------ MODULE Staking ------------------------------
(***************************************************************************)
(* The staking thread (ThreadStakeMiner in src/src/miner.cpp, SignBlock    *)
(* and CheckStake in main.cpp, CreateCoinStake in wallet/wallet.cpp, the   *)
(* kernel checks of pos.cpp) beside an active chain that grows and         *)
(* reorganises.  The thread holds cs_main only now and then: it chooses    *)
(* coins for one tip, caches and checks kernels for another, and hands in  *)
(* its block on a third.  busy says that another thread holds cs_main in   *)
(* the middle of ActivateBestChainStep; reads without the lock see that.   *)
(*                                                                         *)
(* Hashes are abstract: Meets says which kernels meet their target.  The   *)
(* blocks of others are given, one after the other and never on top of an  *)
(* own block; how they are indexed and linked is the subject of            *)
(* ChainState.  Amounts are left out but for whether fees are claimed.     *)
(***************************************************************************)
EXTENDS Integers, FiniteSets

CONSTANTS Block, Genesis, Parent, Ancestors, Height, Time,  \* blocks of others
          Invalid,         \* those that ConnectBlock refuses
          Own, None,       \* names for the blocks of this node
          Coin,            \* outputs of the wallet
          CoinTime,        \* nTime of the transaction, 0 from version 2 on
          Creates,         \* the coins that a block creates
          Sends,           \* the coins that a block spends by transactions of the wallet
          Combined,        \* the coins that CreateCoinStake adds to a kernel
          Meets(_, _, _, _),
          Loose, LooseTime,    \* transactions of the pool, and their nTime
          nCoinbaseMaturity, nDonationPercentage, fStakeCache,
          CacheSlack,          \* 100 in the code
          Mask,                \* nStakeTimestampMask + 1
          FutureDrift,
          MaxTime              \* a bound on the clock

ASSUME TreeAssumption ==
    /\ Genesis \in Block /\ Block \cap Own = {} /\ None \notin Coin \cup Block
    /\ Parent \in [Block \ {Genesis} -> Block]
    /\ Ancestors \in [Block -> SUBSET Block] /\ \A b \in Block : Genesis \in Ancestors[b]
    /\ Ancestors[Genesis] = {Genesis}
    /\ \A b \in Block \ {Genesis} : Ancestors[b] = Ancestors[Parent[b]] \cup {b}
    /\ Height \in [Block -> Nat]

\* The wallet has sent nothing in the genesis block, and the pool is finite.
ASSUME WalletAssumption == Sends[Genesis] = {} /\ \A S \in SUBSET Loose : Cardinality(S) \in Nat

VARIABLES tip,        \* chainActive.Tip()
          header,     \* pindexBestHeader
          nSequenceId,    \* 0: no data yet
          nBlockSequenceId,
          failed,     \* BLOCK_FAILED_MASK
          made,       \* the own blocks
          busy, goal, floor,
          txindex,    \* the block in which a coin was last connected
          sent,       \* coins spent by a transaction the wallet knows
          now,        \* GetAdjustedTime()
          pc, template, nTime, pindexPrev, setCoins, todo, stakeCache, kernel,
          nLastCoinStakeSearchTime

sequenceVars == <<nSequenceId, nBlockSequenceId>>
chainVars == <<tip, header, sequenceVars, failed, made, busy, goal, floor, txindex, sent>>
searchVars == <<template, nTime, pindexPrev, setCoins, todo, stakeCache, kernel, nLastCoinStakeSearchTime>>
vars == <<chainVars, now, pc, searchVars>>

Made == {o \in Own : nSequenceId[o] # 0}
PrevOf(b) == IF b \in Own THEN made[b].prev ELSE Parent[b]
TimeOf(b) == IF b \in Own THEN made[b].time ELSE Time[b]
HeightOf(b) == IF b \in Own THEN made[b].height ELSE Height[b]
AncestorsOf(b) == IF b \in Own THEN made[b].ancestors ELSE Ancestors[b]
SpentBy(b) == IF b \in Own THEN made[b].inputs ELSE Sends[b]

Active == AncestorsOf(tip)
Arrived == {b \in Block \cup Own : nSequenceId[b] # 0}

NoTemplate == [prev |-> Genesis, vtx |-> {}]

Init ==
    /\ tip = Genesis /\ header = Genesis
    /\ nSequenceId = [b \in Block \cup Own |-> IF b = Genesis THEN 1 ELSE 0] /\ nBlockSequenceId = 2
    /\ failed = {} /\ made = [o \in Own |-> None]
    /\ busy = FALSE /\ goal = Genesis /\ floor = 0
    /\ txindex = [c \in Coin |-> IF c \in Creates[Genesis] THEN Genesis ELSE None]
    /\ sent = {} /\ now = 0
    /\ pc = "idle" /\ template = NoTemplate
    /\ nTime = 0 /\ pindexPrev = Genesis /\ setCoins = {} /\ todo = {}
    /\ stakeCache = [c \in Coin |-> None] /\ kernel = None
    /\ nLastCoinStakeSearchTime = 0    \* SignBlock was called once, at startup

-----------------------------------------------------------------------------
(* Coins and kernels on the active chain.                                  *)

Place(c) == {b \in Active \ Own : c \in Creates[b]}
Unspent(c) == Place(c) # {} /\ \A b \in Active : c \notin SpentBy(b)

\* What GetTransaction may find: the block in the active chain, or else what
\* the transaction index still says, unless the pool comes first.
GetTransaction(c) == IF Place(c) # {} THEN Place(c) ELSE {None, txindex[c]}

\* txPrev.nTime ? txPrev.nTime : pblockindex->GetBlockTime()
BlockFromTime(c, b) == IF CoinTime[c] # 0 THEN CoinTime[c] ELSE Time[b]
MatureFor(b, prev) == HeightOf(prev) + 1 - Height[b] >= nCoinbaseMaturity
CheckStakeKernelHash(prev, from, c, t) == t >= from /\ Meets(prev, from, c, t)

\* The kernel checks that look the coin up, which they find in block b.
KernelAt(prev, c, b, t) ==
    b # None /\ MatureFor(b, prev) /\ CheckStakeKernelHash(prev, BlockFromTime(c, b), c, t)

\* CheckKernel
CheckKernel(prev, c, t, b) ==
    IF stakeCache[c] = None THEN KernelAt(prev, c, b, t)
    ELSE CheckStakeKernelHash(prev, stakeCache[c], c, t)

AvailableCoinsForStaking ==
    {c \in Coin : /\ \E b \in Place(c) : HeightOf(tip) - Height[b] + 1 >= nCoinbaseMaturity
                  /\ c \notin sent
                  /\ \A o \in Active \cap Own : c \notin made[o].inputs}

-----------------------------------------------------------------------------
(* Other threads: headers and blocks arrive, the best chain is activated.  *)

\* Mutant: only headers that arrive alone are compared.
UpdateHeaderNever(b, h) == header

UpdateHeader(b, h) == IF h > HeightOf(header) THEN b ELSE header

Sequence(b) ==
    nSequenceId' = [nSequenceId EXCEPT ![b] = nBlockSequenceId] /\ nBlockSequenceId' = nBlockSequenceId + 1

HeaderArrives(b) ==
    /\ ~busy /\ Height[b] > HeightOf(header)
    /\ Parent[b] \notin failed /\ Time[b] <= now + FutureDrift
    /\ header' = b
    /\ UNCHANGED <<tip, sequenceVars, failed, made, busy, goal, floor, txindex, sent, now, pc, searchVars>>

BlockArrives(b) ==
    /\ ~busy
    /\ b \notin Arrived /\ Parent[b] \in Arrived \ failed
    /\ Time[b] <= now + FutureDrift
    /\ Sequence(b)
    /\ header' = UpdateHeader(b, Height[b])
    /\ UNCHANGED <<tip, failed, made, busy, goal, floor, txindex, sent, now, pc, searchVars>>

\* FindMostWorkChain
Better(a, b) == HeightOf(a) > HeightOf(b) \/ (HeightOf(a) = HeightOf(b) /\ nSequenceId[a] < nSequenceId[b])
MostWork == {b \in Arrived \ failed : \A a \in Arrived \ (failed \cup {b}) : Better(b, a)}

ActivateBestChain ==
    /\ ~busy /\ \E b \in MostWork : b # tip /\ goal' = b
    /\ busy' = TRUE /\ floor' = HeightOf(tip)
    /\ UNCHANGED <<tip, header, sequenceVars, failed, made, txindex, sent, now, pc, searchVars>>

\* A step ends, and cs_main is free.
Release == busy' = FALSE /\ goal' = Genesis /\ floor' = 0

DisconnectTip ==
    /\ busy /\ tip \notin AncestorsOf(goal)
    /\ tip' = PrevOf(tip)
    /\ UNCHANGED <<header, sequenceVars, failed, made, busy, goal, floor, txindex, sent, now, pc, searchVars>>

\* What ConnectBlock says of own block o on top of the tip.
Fees(S) == Cardinality(S)
Claimed(o) == IF nDonationPercentage > 0 THEN 0 ELSE made[o].fees
OwnConnects(o) ==
    /\ \E b \in GetTransaction(made[o].kernel) : KernelAt(tip, made[o].kernel, b, made[o].time)
    /\ \A c \in made[o].inputs : Unspent(c) /\ \E b \in Place(c) : MatureFor(b, tip)
    /\ \A x \in made[o].vtx : LooseTime[x] <= made[o].time
    /\ Claimed(o) <= Fees(made[o].vtx)
Connects(b) == IF b \in Own THEN OwnConnects(b) ELSE b \notin Invalid

ConnectTip(b) ==
    /\ busy /\ b \in AncestorsOf(goal) \ {Genesis} /\ PrevOf(b) = tip
    /\ IF Connects(b)
       THEN /\ tip' = b
            /\ IF b = goal \/ HeightOf(b) > floor THEN Release ELSE UNCHANGED <<busy, goal, floor>>
            /\ sent' = IF b \in Own THEN sent ELSE sent \cup Sends[b]
            /\ txindex' = [c \in Coin |-> IF b \notin Own /\ c \in Creates[b] THEN b ELSE txindex[c]]
            /\ UNCHANGED failed
       ELSE /\ failed' = failed \cup {d \in Arrived : b \in AncestorsOf(d)}
            /\ Release
            /\ UNCHANGED <<tip, sent, txindex>>
    /\ UNCHANGED <<header, sequenceVars, made, now, pc, searchVars>>

Tick == now < MaxTime /\ now' = now + 1 /\ UNCHANGED <<chainVars, pc, searchVars>>

-----------------------------------------------------------------------------
(* The staking thread.                                                     *)

\* The thread is around its loop; what was local to the last round is gone.
Around ==
    /\ pc' = "idle" /\ template' = NoTemplate /\ nTime' = 0 /\ pindexPrev' = Genesis
    /\ setCoins' = {} /\ todo' = {} /\ kernel' = None

\* SignBlock ends without a block.
GiveUp == Around /\ nLastCoinStakeSearchTime' = nTime

\* HaveAvailableCoinsForStaking
Wake ==
    /\ pc = "idle" /\ ~busy /\ Made # Own
    /\ AvailableCoinsForStaking # {}
    /\ pc' = "create"
    /\ UNCHANGED <<chainVars, now, searchVars>>

\* MilliSleep, and around the loop.
Sleep == pc = "idle" /\ UNCHANGED vars

CreateNewBlock ==
    /\ pc = "create" /\ ~busy
    /\ \E vtx \in SUBSET Loose : template' = [prev |-> tip, vtx |-> vtx]
    /\ pc' = "sign"
    /\ UNCHANGED <<chainVars, now, nTime, pindexPrev, setCoins, todo, stakeCache, kernel, nLastCoinStakeSearchTime>>

\* The beginning of SignBlock and CreateCoinStake; the tip is read without lock.
SignBlock ==
    LET t == (now \div Mask) * Mask
    IN  /\ pc = "sign"
        /\ IF t > nLastCoinStakeSearchTime
           THEN pc' = "select" /\ nTime' = t /\ pindexPrev' = tip /\ UNCHANGED <<template, setCoins, todo, kernel>>
           ELSE Around
        /\ UNCHANGED <<chainVars, now, stakeCache, nLastCoinStakeSearchTime>>

SelectCoinsForStaking ==
    LET S == AvailableCoinsForStaking
    IN  /\ pc = "select" /\ ~busy
        /\ IF S = {} THEN GiveUp /\ UNCHANGED stakeCache
           ELSE /\ stakeCache' = IF Cardinality({c \in Coin : stakeCache[c] # None}) > Cardinality(S) + CacheSlack
                                 THEN [c \in Coin |-> None] ELSE stakeCache
                /\ pc' = IF fStakeCache THEN "cache" ELSE "search"
                /\ setCoins' = S /\ todo' = S
                /\ UNCHANGED <<template, nTime, pindexPrev, kernel, nLastCoinStakeSearchTime>>
        /\ UNCHANGED <<chainVars, now>>

CacheKernel(c) ==
    /\ pc = "cache" /\ ~busy /\ c \in todo
    /\ \E b \in GetTransaction(c) :
        stakeCache' = IF stakeCache[c] = None /\ b # None /\ MatureFor(b, pindexPrev)
                      THEN [stakeCache EXCEPT ![c] = BlockFromTime(c, b)] ELSE stakeCache
    /\ IF todo = {c} THEN pc' = "search" /\ todo' = setCoins ELSE pc' = pc /\ todo' = todo \ {c}
    /\ UNCHANGED <<chainVars, now, template, nTime, pindexPrev, setCoins, kernel, nLastCoinStakeSearchTime>>

\* Mutant: it is not asked whether there is a better header.
SearchableAlways == TRUE

Searchable == pindexPrev = header

\* One coin of the search; a coin in the cache needs no lock.
TryKernel(c) ==
    /\ pc = "search" /\ c \in todo
    /\ busy => stakeCache[c] # None
    /\ \E b \in GetTransaction(c) :
        IF Searchable /\ CheckKernel(pindexPrev, c, nTime, b)
        THEN /\ kernel' = c /\ pc' = "found" /\ todo' = {}
             /\ UNCHANGED <<template, nTime, pindexPrev, setCoins, nLastCoinStakeSearchTime>>
        ELSE IF todo = {c} THEN GiveUp
        ELSE /\ todo' = todo \ {c}
             /\ UNCHANGED <<pc, template, nTime, pindexPrev, setCoins, kernel, nLastCoinStakeSearchTime>>
    /\ UNCHANGED <<chainVars, now, stakeCache>>

\* The rest of SignBlock.
FinishBlock ==
    /\ pc = "found"
    /\ IF nTime >= TimeOf(header) + 1
       THEN pc' = "check" /\ UNCHANGED <<template, nTime, pindexPrev, setCoins, todo, kernel, nLastCoinStakeSearchTime>>
       ELSE GiveUp
    /\ UNCHANGED <<chainVars, now, stakeCache>>

\* Mutant: what CreateCoinStake has found is trusted.
ProofOkAlways(b) == TRUE

\* CheckProofOfStake in CheckStake, of the block before the template.
ProofOk(b) == KernelAt(template.prev, kernel, b, nTime)

CheckProofOfStake ==
    /\ pc = "check" /\ ~busy
    /\ \E b \in GetTransaction(kernel) :
        IF ProofOk(b) THEN pc' = "submit" /\ UNCHANGED <<template, nTime, pindexPrev, setCoins, todo, kernel>>
        ELSE Around
    /\ UNCHANGED <<chainVars, now, stakeCache, nLastCoinStakeSearchTime>>

\* The rest of CheckStake, under cs_main until the best chain is active.
CheckStake ==
    LET o   == CHOOSE n \in Own \ Made : TRUE
        h   == HeightOf(tip) + 1
        new == [prev |-> tip, searched |-> pindexPrev, time |-> nTime, height |-> h,
                ancestors |-> AncestorsOf(tip) \cup {o},
                kernel |-> kernel, inputs |-> {kernel} \cup (setCoins \cap Combined[kernel]),
                vtx |-> {x \in template.vtx : LooseTime[x] <= nTime}, fees |-> Fees(template.vtx)]
    IN  /\ pc = "submit" /\ ~busy
        /\ IF template.prev = tip /\ nTime > TimeOf(tip)
           THEN /\ made' = [made EXCEPT ![o] = new]
                /\ Sequence(o)
                /\ header' = UpdateHeader(o, h)
                /\ busy' = TRUE /\ floor' = HeightOf(tip)
                /\ \E b \in MostWork : goal' = IF HeightOf(b) >= h THEN b ELSE o
           ELSE UNCHANGED <<made, sequenceVars, header, busy, floor, goal>>
        /\ Around
        /\ UNCHANGED <<tip, failed, txindex, sent, now, stakeCache, nLastCoinStakeSearchTime>>

Next ==
    \/ \E b \in Block \ {Genesis} : HeaderArrives(b) \/ BlockArrives(b)
    \/ ActivateBestChain \/ DisconnectTip \/ Tick
    \/ \E b \in Block \cup Made : ConnectTip(b)
    \/ Wake \/ Sleep \/ CreateNewBlock \/ SignBlock \/ SelectCoinsForStaking
    \/ \E c \in Coin : CacheKernel(c) \/ TryKernel(c)
    \/ FinishBlock \/ CheckProofOfStake \/ CheckStake

Spec == Init /\ [][Next]_vars

-----------------------------------------------------------------------------
Known == Block \cup Made

\* Blocks are numbered as they arrive, own blocks extend known ones, a kernel
\* is there exactly from the search to the end of the round.
TypeOK ==
    /\ tip \in Known /\ header \in Known /\ goal \in Known
    /\ nSequenceId \in [Block \cup Own -> Nat] /\ nBlockSequenceId \in Nat \ {0}
    /\ \A b \in Arrived : nSequenceId[b] < nBlockSequenceId
    /\ DOMAIN made = Own
    /\ \A o \in Made : /\ made[o].prev \in Known /\ made[o].height = HeightOf(made[o].prev) + 1
                       /\ made[o].height \in Nat /\ Genesis \in made[o].ancestors
    /\ pc \in {"idle", "create", "sign", "select", "cache", "search", "found", "check", "submit"}
    /\ pc # "idle" => Made # Own
    /\ pc \in {"found", "check", "submit"} <=> kernel # None

\* The best header is never behind a block with data, own blocks included: the
\* comparison with it is what keeps the search off a block that is overtaken.
HeaderIsBest == \A b \in Arrived : HeightOf(b) <= HeightOf(header)

\* A block the thread hands in is one that ConnectBlock accepts: the first
\* block the node refuses is never its own, whatever changed between choosing
\* coins, searching a kernel and taking cs_main, and however old the cache is.
OwnBlocksConnect == failed \cap Own # {} => failed \ Own # {}

\* The node never makes two blocks on the same block, even if a reorganisation
\* that fails uncovers a block it has built on: while there is a better header
\* it does not search.  Blocks whose kernel was searched for another block than
\* the template was made for are left out; only CheckProofOfStake and the
\* comparison with the tip stand before them.
OneBlockPerParent ==
    \A o, p \in Made : /\ made[o].prev = made[p].prev
                       /\ made[o].searched = made[o].prev /\ made[p].searched = made[p].prev
                       => o = p
=============================================================================
