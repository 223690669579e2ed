---------------------------- MODULE BlockDownload ----------------------------
(***************************************************************************)
(* Which blocks the node has asked which peer for: mapBlocksInFlight and   *)
(* the CNodeState of every peer in src/src/main.cpp.  Messages of peers    *)
(* (inv, headers, cmpctblock, blocktxn, block), the sender's turn for a    *)
(* peer (SendMessages) and disconnection come in any order.  Each runs     *)
(* under cs_main and is one step.                                          *)
(*                                                                         *)
(* Work is height.  Time is a choice: a deadline may or may not have       *)
(* passed.  The order of vBlocksInFlight only decides which block starts   *)
(* the download timer, so the list is a set.                               *)
(***************************************************************************)
EXTENDS Integers, FiniteSets

CONSTANTS Block, Genesis, NoBlock,
          Parent,      \* pprev
          Ancestors,   \* the block and everything pprev leads to
          Height,      \* nHeight
          Peer,        \* NodeIds, never used twice
          NoPeer,      \* -1, or the end of mapBlocksInFlight
          Outbound,    \* peers that become preferred for download
          Honest,      \* peers that announce and serve what they have
          Offer,       \* the tip of the chain each peer has
          MAX_BLOCKS_IN_TRANSIT_PER_PEER, BLOCK_DOWNLOAD_WINDOW, MIN_BLOCKS_TO_KEEP,
          CompactAhead \* how far above the tip compact blocks are used: 2 in the code

ASSUME TreeAssumption ==
    /\ IsFiniteSet(Block) /\ Genesis \in Block /\ NoBlock \notin Block
    /\ Parent \in [Block \ {Genesis} -> Block]
    /\ Ancestors \in [Block -> SUBSET Block]
    /\ Height \in [Block -> Nat]
    /\ \A b \in Block : b \in Ancestors[b] /\ Genesis \in Ancestors[b]
    /\ Ancestors[Genesis] = {Genesis}
    /\ \A b \in Block : \A a \in Ancestors[b] : Ancestors[a] \subseteq Ancestors[b]
    /\ \A a \in Block : \A b, c \in Ancestors[a] : Height[b] = Height[c] => b = c
    /\ \A S \in (SUBSET Block) \ {{}} : /\ \E b \in S : \A c \in S : Height[c] <= Height[b]
                                        /\ \E b \in S : \A c \in S : Height[b] <= Height[c]

ASSUME PeerAssumption ==
    /\ IsFiniteSet(Peer) /\ NoPeer \notin Peer
    /\ Outbound \subseteq Peer /\ Honest \subseteq Peer
    /\ Offer \in [Peer -> Block]

ASSUME LimitAssumption ==
    /\ MAX_BLOCKS_IN_TRANSIT_PER_PEER \in Nat \ {0}
    /\ BLOCK_DOWNLOAD_WINDOW \in Nat /\ MIN_BLOCKS_TO_KEEP \in Nat /\ CompactAhead \in Nat

VARIABLES
    header, have, tip,     \* mapBlockIndex, BLOCK_HAVE_DATA, chainActive.Tip()
    status,                \* "new", "connected", "up" (version known) or "gone"
    fDisconnect,
    dl,                    \* what is in flight, see Downloads
    pindexBestKnownBlock, hashLastUnknownBlock, pindexLastCommonBlock,
    fPreferredDownload, nPreferredDownload, fSyncStarted, nSyncStarted

index == <<header, have, tip>>
known == <<pindexBestKnownBlock, hashLastUnknownBlock, pindexLastCommonBlock>>
sync == <<fPreferredDownload, nPreferredDownload, fSyncStarted, nSyncStarted>>
conn == <<status, fDisconnect>>
vars == <<index, known, sync, conn, dl>>

Downloads == [map    : [Block -> Peer \cup {NoPeer}],   \* mapBlocksInFlight
              list   : [Peer -> SUBSET Block],          \* vBlocksInFlight
              valid  : [Peer -> SUBSET Block],          \* entries with fValidatedHeaders
              partial: [Peer -> SUBSET Block],          \* entries with partialBlock
              n      : [Peer -> Int],                   \* nBlocksInFlight
              nValid : [Peer -> Int],                   \* nBlocksInFlightValidHeaders
              nPeers : Int,                             \* nPeersWithValidatedDownloads
              stalling : SUBSET Peer]                   \* nStallingSince is not 0

Node == {p \in Peer : status[p] \in {"connected", "up"}}
InFlight(b) == dl.map[b] # NoPeer
ChainTx == {b \in have : Ancestors[b] \subseteq have}      \* nChainTx # 0
Chain == Ancestors[tip]
One(P) == IF P THEN 1 ELSE 0
Lowest(S) == CHOOSE b \in S : \A c \in S : Height[b] <= Height[c]
Highest(S) == CHOOSE b \in S : \A c \in S : Height[c] <= Height[b]

Init ==
    /\ header = {Genesis} /\ have = {Genesis} /\ tip = Genesis
    /\ status = [p \in Peer |-> "new"] /\ fDisconnect = {}
    /\ dl = [map |-> [b \in Block |-> NoPeer], list |-> [p \in Peer |-> {}],
             valid |-> [p \in Peer |-> {}], partial |-> [p \in Peer |-> {}],
             n |-> [p \in Peer |-> 0], nValid |-> [p \in Peer |-> 0],
             nPeers |-> 0, stalling |-> {}]
    /\ pindexBestKnownBlock = [p \in Peer |-> NoBlock]
    /\ hashLastUnknownBlock = [p \in Peer |-> NoBlock]
    /\ pindexLastCommonBlock = [p \in Peer |-> NoBlock]
    /\ fPreferredDownload = {} /\ nPreferredDownload = 0
    /\ fSyncStarted = {} /\ nSyncStarted = 0

-----------------------------------------------------------------------------
(* What is in flight, as functions of the downloads d.                     *)

\* Mutant: a peer that delivers is still held to be stalling.
NoLongerStallingLate(d, p) == d.stalling

\* 1 if the entry leaving p's list is validated (v = 1) and the last such.
LastValid(d, p, v) == One(d.nValid[p] = v /\ v = 1)

NoLongerStalling(d, p) == d.stalling \ {p}

MarkBlockAsReceived(d, b) ==
    IF d.map[b] = NoPeer THEN d
    ELSE LET p == d.map[b]
             v == One(b \in d.valid[p])
         IN  [map |-> [d.map EXCEPT ![b] = NoPeer],
              list |-> [d.list EXCEPT ![p] = @ \ {b}],
              valid |-> [d.valid EXCEPT ![p] = @ \ {b}],
              partial |-> [d.partial EXCEPT ![p] = @ \ {b}],
              n |-> [d.n EXCEPT ![p] = @ - 1],
              nValid |-> [d.nValid EXCEPT ![p] = @ - v],
              nPeers |-> d.nPeers - LastValid(d, p, v),
              stalling |-> NoLongerStalling(d, p)]

\* The blocks S, none of them in flight, are appended to the list of p.
\* kind: "pindex" if pindex is given, "pit" if pit is given too, so that the
\* block is put together from a compact block, "hash" if neither is.
Enqueue(d, p, S, kind) ==
    LET V == IF kind = "hash" THEN {} ELSE S
        P == IF kind = "pit" THEN S ELSE {}
    IN  [map |-> [b \in Block |-> IF b \in S THEN p ELSE d.map[b]],
         list |-> [d.list EXCEPT ![p] = @ \cup S],
         valid |-> [d.valid EXCEPT ![p] = @ \cup V],
         partial |-> [d.partial EXCEPT ![p] = @ \cup P],
         n |-> [d.n EXCEPT ![p] = @ + Cardinality(S)],
         nValid |-> [d.nValid EXCEPT ![p] = @ + Cardinality(V)],
         nPeers |-> d.nPeers + One(V # {} /\ d.nValid[p] = 0),
         stalling |-> d.stalling]

MarkBlockAsInFlight(d, p, b, kind) ==
    IF d.map[b] = p THEN d
    ELSE Enqueue(MarkBlockAsReceived(d, b), p, {b}, kind)

\* Mutant: a peer counts when it owes any block.
CountedAny(d, p) == One(d.n[p] # 0)

\* Whether p is counted in nPeersWithValidatedDownloads.
Counted(d, p) == One(d.nValid[p] # 0)

\* What FinalizeNode does to the downloads.
Forget(d, p) ==
    [map |-> [b \in Block |-> IF b \in d.list[p] THEN NoPeer ELSE d.map[b]],
     list |-> [d.list EXCEPT ![p] = {}],
     valid |-> [d.valid EXCEPT ![p] = {}],
     partial |-> [d.partial EXCEPT ![p] = {}],
     n |-> [d.n EXCEPT ![p] = 0],
     nValid |-> [d.nValid EXCEPT ![p] = 0],
     nPeers |-> d.nPeers - Counted(d, p),
     stalling |-> d.stalling \ {p}]

-----------------------------------------------------------------------------
(* What a peer has.                                                        *)

\* pindexBestKnownBlock once b is known to be offered.
Better(best, b) == IF best = NoBlock \/ Height[b] >= Height[best] THEN b ELSE best

\* pindexBestKnownBlock and hashLastUnknownBlock after ProcessBlockAvailability,
\* where h is mapBlockIndex.
Resolved(p, h) ==
    LET u == hashLastUnknownBlock[p]
    IN  IF u \in h THEN [best |-> Better(pindexBestKnownBlock[p], u), unknown |-> NoBlock]
        ELSE [best |-> pindexBestKnownBlock[p], unknown |-> u]

ProcessBlockAvailability(p) ==
    /\ pindexBestKnownBlock' = [pindexBestKnownBlock EXCEPT ![p] = Resolved(p, header).best]
    /\ hashLastUnknownBlock' = [hashLastUnknownBlock EXCEPT ![p] = Resolved(p, header).unknown]

UpdateBlockAvailability(p, b, h) ==
    LET r == Resolved(p, h)
    IN  /\ pindexBestKnownBlock' = [pindexBestKnownBlock EXCEPT
                ![p] = IF b \in h THEN Better(r.best, b) ELSE r.best]
        /\ hashLastUnknownBlock' = [hashLastUnknownBlock EXCEPT
                ![p] = IF b \in h THEN r.unknown ELSE b]
        /\ UNCHANGED pindexLastCommonBlock

WindowEnd(common) == Height[common] + BLOCK_DOWNLOAD_WINDOW

\* Mutant: nChainTx is not looked at.
DeepestWithData(common, walk) == Highest({common} \cup (walk \cap have))

\* pindexLastCommonBlock once the walk has passed the blocks that are linked.
Deepest(common, walk) == Highest({common} \cup (walk \cap ChainTx))

\* LastCommonAncestor
LastCommonAncestor(a, b) == Highest(Ancestors[a] \cap Ancestors[b])

\* Mutant: one block too many.
SlotsAndOne(p, S) ==
    {b \in S : dl.n[p] + Cardinality({c \in S : Height[c] < Height[b]}) <= MAX_BLOCKS_IN_TRANSIT_PER_PEER}

\* The first blocks of S that p may still be asked for.
Slots(p, S) ==
    {b \in S : dl.n[p] + Cardinality({c \in S : Height[c] < Height[b]}) < MAX_BLOCKS_IN_TRANSIT_PER_PEER}

\* FindNextBlocksToDownload for p, whose best known block is best: the new
\* pindexLastCommonBlock, the blocks to ask for, and the staller.
FindNextBlocksToDownload(p, best) ==
    LET guess   == IF pindexLastCommonBlock[p] # NoBlock THEN pindexLastCommonBlock[p]
                   ELSE CHOOSE b \in Chain :
                        Height[b] = IF Height[best] < Height[tip] THEN Height[best] ELSE Height[tip]
        common  == LastCommonAncestor(guess, best)
        walk    == {b \in Ancestors[best] : Height[common] < Height[b] /\ Height[b] <= WindowEnd(common) + 1}
        missing == {b \in walk : b \notin have}
        free    == {b \in missing : ~InFlight(b)}
        window  == {b \in free : Height[b] <= WindowEnd(common)}
        waiting == missing \ free
    IN  [common  |-> Deepest(common, walk),
         blocks  |-> Slots(p, window),
         staller |-> IF /\ window = {} /\ free # {}
                        /\ \E b \in waiting : \A c \in free : Height[b] < Height[c]
                        /\ dl.map[Lowest(waiting)] # p
                     THEN dl.map[Lowest(waiting)] ELSE NoPeer]

-----------------------------------------------------------------------------
(* Connections.                                                            *)

\* InitializeNode
InitializeNode(p) ==
    /\ status[p] = "new"
    /\ status' = [status EXCEPT ![p] = "connected"]
    /\ UNCHANGED <<index, known, sync, fDisconnect, dl>>

\* The version message, with UpdatePreferredDownload.
Version(p) ==
    /\ status[p] = "connected"
    /\ status' = [status EXCEPT ![p] = "up"]
    /\ fPreferredDownload' = (fPreferredDownload \ {p}) \cup ({p} \cap Outbound)
    /\ nPreferredDownload' = nPreferredDownload - One(p \in fPreferredDownload) + One(p \in Outbound)
    /\ UNCHANGED <<index, known, fSyncStarted, nSyncStarted, fDisconnect, dl>>

\* The connection is to be closed: the socket fails, the peer is banned, an
\* RPC asks for it.
CloseConnection(p) ==
    /\ p \in Node /\ p \notin fDisconnect
    /\ fDisconnect' = fDisconnect \cup {p}
    /\ UNCHANGED <<index, known, sync, status, dl>>

FinalizeNode(p) ==
    /\ p \in Node \cap fDisconnect
    /\ nSyncStarted' = nSyncStarted - One(p \in fSyncStarted)
    /\ dl' = Forget(dl, p)
    /\ nPreferredDownload' = nPreferredDownload - One(p \in fPreferredDownload)
    /\ status' = [status EXCEPT ![p] = "gone"]
    /\ fSyncStarted' = fSyncStarted \ {p}
    /\ fPreferredDownload' = fPreferredDownload \ {p}
    /\ pindexBestKnownBlock' = [pindexBestKnownBlock EXCEPT ![p] = NoBlock]
    /\ hashLastUnknownBlock' = [hashLastUnknownBlock EXCEPT ![p] = NoBlock]
    /\ pindexLastCommonBlock' = [pindexLastCommonBlock EXCEPT ![p] = NoBlock]
    /\ fDisconnect' = fDisconnect \ {p}
    /\ UNCHANGED index

-----------------------------------------------------------------------------
(* Messages.                                                               *)

\* A message of p is processed: p has sent its version and is not on its way out.
Receives(p) == status[p] = "up" /\ p \notin fDisconnect

\* Mutant: a block in flight from another peer is asked for again.
InvFetchesAnyway(p, b, fDirect) ==
    b \notin header /\ fDirect /\ dl.n[p] < MAX_BLOCKS_IN_TRANSIT_PER_PEER

InvFetches(p, b, fDirect) ==
    b \notin header /\ ~InFlight(b) /\ fDirect /\ dl.n[p] < MAX_BLOCKS_IN_TRANSIT_PER_PEER

\* inv with one block.  fDirect: CanDirectFetch.
Inv(p, b, fDirect) ==
    /\ Receives(p)
    /\ UpdateBlockAvailability(p, b, header)
    /\ dl' = IF InvFetches(p, b, fDirect) THEN MarkBlockAsInFlight(dl, p, b, "hash") ELSE dl
    /\ UNCHANGED <<index, sync, conn>>

\* Mutant: blocks whose data is there are asked for again.
WantedWithData(off) == {b \in off : ~InFlight(b)}

\* The blocks on the way from the chain to last that direct fetch wants.
Wanted(off) == {b \in off \ have : ~InFlight(b)}

\* Blocks the walk down from last visits before it has collected too many.
Walked(off) ==
    {b \in off : Cardinality({c \in Wanted(off) : Height[c] > Height[b]}) <= MAX_BLOCKS_IN_TRANSIT_PER_PEER}

\* What a headers message that ends in last asks p for: the loop marks each
\* block, lowest first, until p has no slot left.
DirectFetch(p, last, fDirect) ==
    LET off == Ancestors[last] \ Chain
    IN  IF fDirect /\ Height[last] >= Height[tip] /\ Walked(off) = off
        THEN Enqueue(dl, p, Slots(p, Wanted(off)), "pindex") ELSE dl

\* headers, from first on up to last.  fSpam: the header spam filter refuses
\* them, after they have been accepted.
Headers(p, first, last, fDirect, fSpam) ==
    LET new == header \cup {b \in Ancestors[last] : Height[b] >= Height[first]}
    IN  /\ Receives(p)
        /\ first \in Ancestors[last] \ {Genesis}
        /\ \/ /\ Parent[first] \notin header
              /\ UpdateBlockAvailability(p, last, header)
              /\ UNCHANGED <<header, dl>>
           \/ /\ Parent[first] \in header /\ fSpam
              /\ header' = new
              /\ UNCHANGED <<known, dl>>
           \/ /\ Parent[first] \in header /\ ~fSpam
              /\ header' = new
              /\ UpdateBlockAvailability(p, last, new)
              /\ dl' = DirectFetch(p, last, fDirect)
        /\ UNCHANGED <<have, tip, sync, conn>>

\* chainActive.Tip() after ActivateBestChain: a highest linked block, the old
\* tip unless another is higher.
BestTips(h) ==
    LET linked == {b \in h : Ancestors[b] \subseteq h}
    IN  IF \E b \in linked : Height[b] > Height[tip]
        THEN {b \in linked : \A c \in linked : Height[c] <= Height[b]} ELSE {tip}

\* ProcessNewBlock with AcceptBlock, from downloads d and block index hd.
\* verdict: "badsig" if the signature is not encoded as it should be, and the
\* handler returns before anything is marked; "unsound" if CheckBlock refuses
\* the data as corrupt; "ok".
ProcessNewBlock(d, hd, b, fForce, verdict) ==
    LET linked == b = Genesis \/ Parent[b] \in hd
        asked  == d.map[b] # NoPeer \/ fForce
        store  == /\ linked /\ b \notin have /\ verdict = "ok"
                  /\ asked \/ (Height[b] > Height[tip] /\ Height[b] <= Height[tip] + MIN_BLOCKS_TO_KEEP)
    IN  IF verdict = "badsig" THEN dl' = d /\ header' = hd /\ UNCHANGED <<have, tip>>
        ELSE /\ dl' = MarkBlockAsReceived(d, b)
             /\ header' = IF linked THEN hd \cup {b} ELSE hd
             /\ have' = IF store THEN have \cup {b} ELSE have
             /\ tip' \in BestTips(have')

\* Misbehaving(100) in case of P: SendMessages will ban and disconnect p.
Misbehaving(p, P) == fDisconnect' = IF P THEN fDisconnect \cup {p} ELSE fDisconnect

\* block.  fForce: p is whitelisted and the initial download is over.
BlockMsg(p, b, fForce, verdict) ==
    /\ Receives(p)
    /\ ProcessNewBlock(dl, header, b, fForce, verdict)
    /\ Misbehaving(p, verdict # "ok")
    /\ UNCHANGED <<known, sync, status>>

\* FillBlock for a partial block, and what follows: the transactions do not
\* match, they collide, or the block is complete and gets its verdict.
FillBlock(d, hd, b, verdict) ==
    \/ /\ verdict = "mismatch"
       /\ dl' = MarkBlockAsReceived(d, b) /\ header' = hd /\ UNCHANGED <<have, tip>>
    \/ /\ verdict = "collision"
       /\ dl' = d /\ header' = hd /\ UNCHANGED <<have, tip>>
    \/ /\ verdict \notin {"mismatch", "collision"}
       /\ ProcessNewBlock(d, hd, b, FALSE, verdict)

\* blocktxn
BlockTxn(p, b, verdict) ==
    /\ Receives(p)
    /\ dl.map[b] = p /\ b \in dl.partial[p]
    /\ FillBlock(dl, header, b, verdict)
    /\ Misbehaving(p, verdict = "mismatch")
    /\ UNCHANGED <<known, sync, status>>

\* cmpctblock for a block not far above the tip.  verdict: "invalid" or
\* "pending" when InitData refuses it or transactions have to be asked for,
\* else what FillBlock makes of it.
PutTogether(p, b, hd, verdict) ==
    LET mine == dl.map[b] = p
        d    == [MarkBlockAsInFlight(dl, p, b, "pit") EXCEPT !.partial[p] = @ \cup {b}]
        Nothing == header' = hd /\ UNCHANGED <<have, tip, dl, fDisconnect>>
    IN  IF mine \/ (~InFlight(b) /\ dl.n[p] < MAX_BLOCKS_IN_TRANSIT_PER_PEER)
        THEN IF b \in dl.partial[p] THEN Nothing
             ELSE /\ Misbehaving(p, verdict \in {"invalid", "mismatch"})
                  /\ \/ /\ verdict = "invalid"
                        /\ dl' = MarkBlockAsReceived(d, b) /\ header' = hd /\ UNCHANGED <<have, tip>>
                     \/ /\ verdict = "pending"
                        /\ dl' = d /\ header' = hd /\ UNCHANGED <<have, tip>>
                     \/ /\ verdict \notin {"invalid", "pending"}
                        /\ FillBlock(d, hd, b, verdict)
        ELSE IF verdict \in {"ok", "badsig"}   \* optimistically
             THEN ProcessNewBlock(dl, hd, b, TRUE, verdict) /\ UNCHANGED fDisconnect
             ELSE Nothing

\* cmpctblock.  One far above the tip is treated as headers would be, which
\* the header spam filter may refuse.
CmpctBlock(p, b, fDirect, verdict) ==
    LET hd == header \cup {b}
        Useless == b \in have \/ Height[b] <= Height[tip] \/ (~InFlight(b) /\ ~fDirect)
    IN  /\ Receives(p)
        /\ b # Genesis /\ Parent[b] \in header
        /\ UpdateBlockAvailability(p, b, hd)
        /\ \/ /\ Useless
              /\ header' = hd /\ UNCHANGED <<have, tip, dl, fDisconnect>>
           \/ /\ ~Useless /\ Height[b] > Height[tip] + CompactAhead
              /\ dl' \in IF InFlight(b) THEN {dl} ELSE {dl, DirectFetch(p, b, fDirect)}
              /\ header' = hd /\ UNCHANGED <<have, tip, fDisconnect>>
           \/ /\ ~Useless /\ Height[b] <= Height[tip] + CompactAhead
              /\ PutTogether(p, b, hd, verdict)
        /\ UNCHANGED <<sync, status>>

-----------------------------------------------------------------------------
(* The sender's turn for a peer.                                           *)

\* Mutant: nobody is disconnected for a block that does not come.
TooLateNever(p, fStall, fLate) == p \in dl.stalling /\ fStall

\* The stalling or the download deadline has passed.
TooLate(p, fStall, fLate) == (p \in dl.stalling /\ fStall) \/ (dl.list[p] # {} /\ fLate)

\* fRecent: the best header is less than a day old.  fIBD: the initial block
\* download.  fStall, fLate: enough time has passed.
SendMessages(p, fRecent, fIBD, fStall, fLate) ==
    LET fFetch == p \in fPreferredDownload \/ nPreferredDownload = 0
        start  == p \notin fSyncStarted /\ ((nSyncStarted = 0 /\ fFetch) \/ fRecent)
        drop   == TooLate(p, fStall, fLate)
        room   == MAX_BLOCKS_IN_TRANSIT_PER_PEER - dl.n[p]
        best   == Resolved(p, header).best
        next   == FindNextBlocksToDownload(p, best)
    IN  /\ Receives(p)
        /\ fSyncStarted' = IF start THEN fSyncStarted \cup {p} ELSE fSyncStarted
        /\ nSyncStarted' = nSyncStarted + One(start)
        /\ fDisconnect' = IF drop THEN fDisconnect \cup {p} ELSE fDisconnect
        /\ IF drop \/ (~fFetch /\ fIBD) \/ room <= 0 THEN UNCHANGED <<known, dl>>
           ELSE /\ ProcessBlockAvailability(p)
                /\ IF best = NoBlock \/ Height[best] < Height[tip]
                   THEN UNCHANGED <<pindexLastCommonBlock, dl>>
                   ELSE /\ pindexLastCommonBlock' = [pindexLastCommonBlock EXCEPT ![p] = next.common]
                        /\ dl' = IF next.blocks # {} THEN Enqueue(dl, p, next.blocks, "pindex")
                                 ELSE IF dl.n[p] = 0 /\ next.staller # NoPeer
                                 THEN [dl EXCEPT !.stalling = @ \cup {next.staller}] ELSE dl
        /\ UNCHANGED <<index, status, fPreferredDownload, nPreferredDownload>>

-----------------------------------------------------------------------------
\* What p may speak of.
Mine(p) == Ancestors[Offer[p]] \ {Genesis}

\* What comes of p's blocks; an honest peer's are in order, and only such a
\* peer is whitelisted.
Verdicts(p) == IF p \in Honest THEN {"ok"} ELSE {"ok", "unsound", "badsig"}
Fillings(p) == {"ok", "collision"} \cup IF p \in Honest THEN {} ELSE {"badsig", "mismatch"}
Compacts(p) == Fillings(p) \cup {"pending"} \cup IF p \in Honest THEN {} ELSE {"invalid"}
Forced(p) == IF p \in Honest THEN BOOLEAN ELSE {FALSE}

Message(p) ==
    \/ \E b \in Mine(p), fDirect \in BOOLEAN : Inv(p, b, fDirect)
    \/ \E first, last \in Mine(p), fDirect, fSpam \in BOOLEAN : Headers(p, first, last, fDirect, fSpam)
    \/ \E b \in Mine(p), fForce \in Forced(p), verdict \in Verdicts(p) : BlockMsg(p, b, fForce, verdict)
    \/ \E b \in Mine(p), verdict \in Fillings(p) : BlockTxn(p, b, verdict)
    \/ \E b \in Mine(p), fDirect \in BOOLEAN, verdict \in Compacts(p) : CmpctBlock(p, b, fDirect, verdict)

Turn(p) == \E fRecent, fIBD, fStall, fLate \in BOOLEAN : SendMessages(p, fRecent, fIBD, fStall, fLate)

Next ==
    \E p \in Peer : \/ InitializeNode(p) \/ Version(p) \/ CloseConnection(p) \/ FinalizeNode(p)
                     \/ Message(p) \/ Turn(p)

Spec == Init /\ [][Next]_vars

\* Honest peers announce their chain, are asked for blocks when it is their
\* turn (ThreadMessageHandler goes round all peers) and answer.  A block that
\* stays in flight from another peer becomes the first of its list, and then
\* the deadline passes.  What is disconnected is finalized (ThreadSocketHandler).
Announce(h) == Headers(h, Lowest(Mine(h)), Offer[h], FALSE, FALSE)
Answer(h, b) == dl.map[b] = h /\ BlockMsg(h, b, FALSE, "ok")
Overdue(p, b) == b \in dl.list[p] /\ SendMessages(p, FALSE, TRUE, FALSE, TRUE)

Fairness ==
    /\ \A h \in Honest : /\ WF_vars(Announce(h))
                         /\ WF_vars(SendMessages(h, FALSE, TRUE, FALSE, FALSE))
                         /\ \A b \in Mine(h) : WF_vars(Answer(h, b))
    /\ \A p \in Peer \ Honest : /\ \A b \in Mine(p) : WF_vars(Overdue(p, b))
                                /\ WF_vars(FinalizeNode(p))

FairSpec == Spec /\ Fairness

-----------------------------------------------------------------------------
\* The types, in which: only connected peers are preferred, synchronised with
\* or about to be disconnected, a best known block has a header, and the last
\* common block of FindNextBlocksToDownload is one whose chain is complete.
TypeOK ==
    /\ header \subseteq Block /\ have \subseteq header /\ tip \in ChainTx
    /\ status \in [Peer -> {"new", "connected", "up", "gone"}]
    /\ fDisconnect \subseteq Node
    /\ dl \in Downloads
    /\ pindexBestKnownBlock \in [Peer -> header \cup {NoBlock}]
    /\ hashLastUnknownBlock \in [Peer -> Block \cup {NoBlock}]
    /\ pindexLastCommonBlock \in [Peer -> ChainTx \cup {NoBlock}]
    /\ fPreferredDownload \subseteq Node /\ nPreferredDownload \in Int
    /\ fSyncStarted \subseteq Node /\ nSyncStarted \in Int

\* mapBlocksInFlight and the lists of the peers name the same downloads, every
\* counter is the size of what it counts, and only connected peers owe
\* anything: the assertions of FinalizeNode, at any time.
CountersExact ==
    /\ \A p \in Peer : dl.list[p] = {b \in Block : dl.map[b] = p}
    /\ \A p \in Peer : /\ dl.n[p] = Cardinality(dl.list[p])
                       /\ dl.nValid[p] = Cardinality(dl.valid[p])
                       /\ dl.valid[p] \subseteq dl.list[p] /\ dl.partial[p] \subseteq dl.list[p]
                       /\ dl.list[p] # {} => p \in Node
    /\ dl.nPeers = Cardinality({p \in Peer : dl.valid[p] # {}})
    /\ nPreferredDownload = Cardinality(fPreferredDownload)
    /\ nSyncStarted = Cardinality(fSyncStarted)

\* A peer is held to be stalling only while it owes a block: one that has
\* delivered anything is not disconnected for it.
StallersOwe == \A p \in dl.stalling : dl.list[p] # {}

\* A block the node has is not asked for and takes nobody's slot.
NotAskedTwice == \A b \in have : ~InFlight(b)

\* No peer is ever asked for more blocks than the limit.
SlotsBounded == \A p \in Peer : dl.n[p] <= MAX_BLOCKS_IN_TRANSIT_PER_PEER

\* A block in flight from one peer is never taken over by another before it
\* has been received or given up (MarkBlockAsInFlight would have to move it).
NoTakeover == [][\A b \in Block : InFlight(b) => dl'.map[b] \in {dl.map[b], NoPeer}]_vars

\* If an honest peer preferred for download stays connected, the node ends up
\* with all its blocks, whatever the other peers promise and do not deliver.
Downloaded ==
    \A h \in Honest :
        <>[](status[h] = "up" /\ h \notin fDisconnect /\ h \in fPreferredDownload)
            => <>(Ancestors[Offer[h]] \subseteq have)
=============================================================================
