------------------------- MODULE BlockDownloadProofs -------------------------
(***************************************************************************)
(* Proofs about BlockDownload, for every tree of blocks, number of peers,  *)
(* limit and window.  Good says of the downloads that mapBlocksInFlight,   *)
(* the lists and the counters agree; each operation on them preserves it   *)
(* by itself, so that the messages only have to be shown to call the       *)
(* operations where their preconditions hold.  Linked adds what the types  *)
(* say of the chain: no last common block lies above a gap.                *)
(***************************************************************************)
EXTENDS BlockDownload, FiniteSetTheorems, TLAPS

USE Zenon  \* where a step names no other prover

\* mapBlocksInFlight and the lists agree, entries with flags are entries.
Agree(d) ==
    /\ \A p \in Peer, b \in Block : b \in d.list[p] <=> d.map[b] = p
    /\ \A p \in Peer : d.valid[p] \subseteq d.list[p] /\ d.partial[p] \subseteq d.list[p]

\* The counters of every peer.
Counts(d) == \A p \in Peer : d.n[p] = Cardinality(d.list[p]) /\ d.nValid[p] = Cardinality(d.valid[p])

\* nPeersWithValidatedDownloads
Owing(d) == {p \in Peer : d.valid[p] # {}}

Good(d) ==
    /\ d \in Downloads /\ Agree(d) /\ Counts(d)
    /\ d.nPeers = Cardinality(Owing(d))
    /\ \A p \in d.stalling : d.list[p] # {}

LEMMA FiniteBlocks == \A S \in SUBSET Block : IsFiniteSet(S) /\ Cardinality(S) \in Nat
BY TreeAssumption, FS_Subset, FS_CardinalityType

LEMMA FinitePeers == \A S \in SUBSET Peer : IsFiniteSet(S) /\ Cardinality(S) \in Nat
BY PeerAssumption, FS_Subset, FS_CardinalityType

\* MarkBlockAsReceived keeps the downloads consistent.
LEMMA ReceivedGood ==
    ASSUME NEW d, Good(d), NEW b \in Block
    PROVE  /\ Good(MarkBlockAsReceived(d, b))
           /\ \A c \in Block : MarkBlockAsReceived(d, b).map[c] = IF c = b THEN NoPeer ELSE d.map[c]
           /\ \A p \in Peer : MarkBlockAsReceived(d, b).list[p] = d.list[p] \ {b}
           /\ \A p \in Peer : MarkBlockAsReceived(d, b).n[p] <= d.n[p]
<1> DEFINE e == MarkBlockAsReceived(d, b)
           p == d.map[b]
           v == One(b \in d.valid[p])
<1>0. d \in Downloads /\ Agree(d) /\ Counts(d) /\ d.nPeers = Cardinality(Owing(d))
      /\ \A q \in d.stalling : d.list[q] # {}
    BY DEF Good
<1>1. CASE d.map[b] = NoPeer
  <2>1. e = d
    BY <1>1 DEF MarkBlockAsReceived
  <2>2. \A q \in Peer : b \notin d.list[q]
    BY <1>0, <1>1, PeerAssumption, SMT DEF Agree
  <2>3. \A q \in Peer : d.n[q] \in Int
    BY <1>0 DEF Downloads
  <2> QED
    BY <2>1, <2>2, <2>3, <1>1, SMT
<1>2. CASE d.map[b] # NoPeer
  <2>1. p \in Peer /\ b \in d.list[p] /\ d.map[b] = p
    BY <1>0, <1>2, SMT DEF Downloads, Agree
  <2>2. e = [map |-> [d.map EXCEPT ![b] = NoPeer],
             list |-> [d.list EXCEPT ![p] = @ \ {b}],
             valid |-> [d.valid EXCEPT ![p] = @ \ {b}],
             partial |-> [d.partial EXCEPT ![p] = @ \ {b}],
             n |-> [d.n EXCEPT ![p] = @ - 1],
             nValid |-> [d.nValid EXCEPT ![p] = @ - v],
             nPeers |-> d.nPeers - LastValid(d, p, v),
             stalling |-> d.stalling \ {p}]
    BY <1>2 DEF MarkBlockAsReceived, NoLongerStalling
  <2> HIDE DEF e
  <2>3. v \in {0, 1} /\ (v = 1 <=> b \in d.valid[p]) /\ LastValid(d, p, v) \in {0, 1}
    BY SMT DEF One, LastValid
  <2> HIDE DEF v, p
  <2>4. e \in Downloads
    BY <1>0, <2>1, <2>2, <2>3, SMT DEF Downloads
  <2>5. \A q \in Peer : /\ e.list[q] = IF q = p THEN d.list[q] \ {b} ELSE d.list[q]
                        /\ e.valid[q] = IF q = p THEN d.valid[q] \ {b} ELSE d.valid[q]
                        /\ e.partial[q] = IF q = p THEN d.partial[q] \ {b} ELSE d.partial[q]
                        /\ e.n[q] = IF q = p THEN d.n[q] - 1 ELSE d.n[q]
                        /\ e.nValid[q] = IF q = p THEN d.nValid[q] - v ELSE d.nValid[q]
    BY <1>0, <2>1, <2>2 DEF Downloads
  <2>6. \A c \in Block : e.map[c] = IF c = b THEN NoPeer ELSE d.map[c]
    BY <1>0, <2>2 DEF Downloads
  <2>7. \A q \in Peer : e.list[q] = d.list[q] \ {b}
    <3>1. \A q \in Peer : q # p => b \notin d.list[q]
      BY <1>0, <2>1 DEF Agree
    <3> QED BY <2>5, <3>1
  <2>8. Agree(e)
    <3>1. \A q \in Peer, c \in Block : c \in e.list[q] <=> e.map[c] = q
      BY <1>0, <2>6, <2>7, PeerAssumption, SMT DEF Agree
    <3>2. \A q \in Peer : e.valid[q] \subseteq e.list[q] /\ e.partial[q] \subseteq e.list[q]
      <4> TAKE q \in Peer
      <4>1. d.valid[q] \subseteq d.list[q] /\ d.partial[q] \subseteq d.list[q]
        BY <1>0 DEF Agree
      <4>2. CASE q = p
        BY <2>5, <4>1, <4>2
      <4>3. CASE q # p
        BY <2>5, <4>1, <4>3
      <4> QED BY <4>2, <4>3
    <3> QED BY <3>1, <3>2 DEF Agree
  <2>9. \A q \in Peer : d.list[q] \in SUBSET Block /\ d.valid[q] \in SUBSET Block /\ d.n[q] \in Int
    BY <1>0 DEF Downloads
  <2>10. Cardinality(d.list[p] \ {b}) = Cardinality(d.list[p]) - 1
    BY <2>1, <2>9, FiniteBlocks, FS_RemoveElement, SMT
  <2>11. Cardinality(d.valid[p] \ {b}) = Cardinality(d.valid[p]) - v
    BY <2>1, <2>3, <2>9, FiniteBlocks, FS_RemoveElement, SMT
  <2>12. Counts(e)
    <3> SUFFICES ASSUME NEW q \in Peer
                 PROVE  e.n[q] = Cardinality(e.list[q]) /\ e.nValid[q] = Cardinality(e.valid[q])
      BY DEF Counts
    <3>1. d.n[q] = Cardinality(d.list[q]) /\ d.nValid[q] = Cardinality(d.valid[q])
      BY <1>0 DEF Counts
    <3>2. CASE q = p
      BY <2>5, <2>10, <2>11, <3>1, <3>2
    <3>3. CASE q # p
      BY <2>5, <3>1, <3>3
    <3> QED BY <3>2, <3>3
  <2>13. e.nPeers = Cardinality(Owing(e))
    <3>0. d.nValid[p] = Cardinality(d.valid[p]) /\ Cardinality(d.valid[p]) \in Nat
          /\ IsFiniteSet(d.valid[p] \ {b}) /\ e.nPeers = d.nPeers - LastValid(d, p, v)
          /\ d.nPeers \in Int
      BY <1>0, <2>1, <2>2, <2>9, FiniteBlocks DEF Counts, Downloads
    <3>1. CASE d.nValid[p] = v /\ v = 1
      <4>1. d.valid[p] \ {b} = {}
        BY <3>0, <3>1, <2>11, FS_EmptySet, SMT
      <4>2. Owing(e) = Owing(d) \ {p} /\ p \in Owing(d)
        <5>1. e.valid[p] = {} /\ d.valid[p] # {}
          BY <2>1, <2>3, <2>5, <3>1, <4>1
        <5>2. \A q \in Peer : q # p => e.valid[q] = d.valid[q]
          BY <2>5
        <5> QED BY <2>1, <5>1, <5>2 DEF Owing
      <4>3. Cardinality(Owing(e)) = Cardinality(Owing(d)) - 1
        <5>1. IsFiniteSet(Owing(d))
          BY FinitePeers DEF Owing
        <5> QED BY <4>2, <5>1, FS_RemoveElement
      <4> QED BY <1>0, <3>0, <3>1, <4>3 DEF LastValid, One
    <3>2. CASE ~(d.nValid[p] = v /\ v = 1)
      <4>1. (d.valid[p] \ {b} # {}) <=> (d.valid[p] # {})
        BY <2>3, <2>11, <3>0, <3>2, FS_EmptySet, SMT
      <4>2. Owing(e) = Owing(d)
        BY <2>1, <2>5, <4>1, ZenonT(40) DEF Owing
      <4> QED BY <1>0, <3>0, <3>2, <4>2, SMT DEF LastValid, One
    <3> QED BY <3>1, <3>2
  <2>14. \A q \in e.stalling : e.list[q] # {}
    BY <1>0, <2>2, <2>5 DEF Downloads
  <2>15. \A q \in Peer : e.n[q] <= d.n[q]
    <3> TAKE q \in Peer
    <3>1. e.n[q] = d.n[q] - 1 \/ e.n[q] = d.n[q]
      BY <2>5
    <3> QED BY <2>9, <3>1, SMT
  <2>16. Good(e)
    BY <2>4, <2>8, <2>12, <2>13, <2>14 DEF Good
  <2> QED
    BY <2>6, <2>7, <2>15, <2>16 DEF e
<1> QED
    BY <1>1, <1>2

\* Appending blocks that nobody owes keeps the downloads consistent.
LEMMA EnqueueGood ==
    ASSUME NEW d, Good(d), NEW p \in Peer, NEW S \in SUBSET Block, \A b \in S : d.map[b] = NoPeer,
           NEW kind
    PROVE  /\ Good(Enqueue(d, p, S, kind))
           /\ \A c \in Block : Enqueue(d, p, S, kind).map[c] = IF c \in S THEN p ELSE d.map[c]
           /\ \A q \in Peer : q # p => Enqueue(d, p, S, kind).list[q] = d.list[q]
           /\ \A q \in Peer : Enqueue(d, p, S, kind).n[q] =
                                IF q = p THEN d.n[q] + Cardinality(S) ELSE d.n[q]
<1> DEFINE e == Enqueue(d, p, S, kind)
           V == IF kind = "hash" THEN {} ELSE S
           P == IF kind = "pit" THEN S ELSE {}
           u == One(V # {} /\ d.nValid[p] = 0)
<1>0. d \in Downloads /\ Agree(d) /\ Counts(d) /\ d.nPeers = Cardinality(Owing(d))
      /\ \A q \in d.stalling : d.list[q] # {}
    BY DEF Good
<1>1. e = [map |-> [b \in Block |-> IF b \in S THEN p ELSE d.map[b]],
           list |-> [d.list EXCEPT ![p] = @ \cup S],
           valid |-> [d.valid EXCEPT ![p] = @ \cup V],
           partial |-> [d.partial EXCEPT ![p] = @ \cup P],
           n |-> [d.n EXCEPT ![p] = @ + Cardinality(S)],
           nValid |-> [d.nValid EXCEPT ![p] = @ + Cardinality(V)],
           nPeers |-> d.nPeers + u,
           stalling |-> d.stalling]
    BY DEF Enqueue
<1> HIDE DEF e
<1>2. V \in SUBSET S /\ P \in SUBSET S /\ u \in {0, 1} /\ (u = 1 <=> (V # {} /\ d.nValid[p] = 0))
    BY SMT DEF One
<1> HIDE DEF V, P, u
<1>3. Cardinality(S) \in Nat /\ Cardinality(V) \in Nat /\ IsFiniteSet(S) /\ IsFiniteSet(V)
    BY <1>2, FiniteBlocks
<1>4. e \in Downloads
    BY <1>0, <1>1, <1>2, <1>3, SMT DEF Downloads
<1>5. \A q \in Peer : /\ e.list[q] = IF q = p THEN d.list[q] \cup S ELSE d.list[q]
                      /\ e.valid[q] = IF q = p THEN d.valid[q] \cup V ELSE d.valid[q]
                      /\ e.partial[q] = IF q = p THEN d.partial[q] \cup P ELSE d.partial[q]
                      /\ e.n[q] = IF q = p THEN d.n[q] + Cardinality(S) ELSE d.n[q]
                      /\ e.nValid[q] = IF q = p THEN d.nValid[q] + Cardinality(V) ELSE d.nValid[q]
    BY <1>0, <1>1 DEF Downloads
<1>6. \A c \in Block : e.map[c] = IF c \in S THEN p ELSE d.map[c]
    BY <1>0, <1>1 DEF Downloads
<1>7. \A q \in Peer : d.list[q] \cap S = {} /\ d.valid[q] \cap V = {}
    BY <1>0, <1>2, PeerAssumption, SMT DEF Agree, Downloads
<1>8. \A q \in Peer : d.list[q] \in SUBSET Block /\ d.valid[q] \in SUBSET Block
    BY <1>0 DEF Downloads
<1>9. Agree(e)
  <2>1. \A q \in Peer, c \in Block : c \in e.list[q] <=> e.map[c] = q
    <3> TAKE q \in Peer, c \in Block
    <3>1. c \in d.list[q] <=> d.map[c] = q
      BY <1>0 DEF Agree
    <3>2. CASE c \in S
      BY <1>5, <1>6, <1>7, <3>2
    <3>3. CASE c \notin S
      BY <1>5, <1>6, <3>1, <3>3
    <3> QED BY <3>2, <3>3
  <2>2. \A q \in Peer : e.valid[q] \subseteq e.list[q] /\ e.partial[q] \subseteq e.list[q]
    <3> TAKE q \in Peer
    <3>1. d.valid[q] \subseteq d.list[q] /\ d.partial[q] \subseteq d.list[q]
      BY <1>0 DEF Agree
    <3>2. CASE q = p
      BY <1>2, <1>5, <3>1, <3>2
    <3>3. CASE q # p
      BY <1>5, <3>1, <3>3
    <3> QED BY <3>2, <3>3
  <2> QED BY <2>1, <2>2 DEF Agree
<1>10. Counts(e)
  <2> SUFFICES ASSUME NEW q \in Peer
               PROVE  e.n[q] = Cardinality(e.list[q]) /\ e.nValid[q] = Cardinality(e.valid[q])
    BY DEF Counts
  <2>1. d.n[q] = Cardinality(d.list[q]) /\ d.nValid[q] = Cardinality(d.valid[q])
    BY <1>0 DEF Counts
  <2>2. IsFiniteSet(d.list[q]) /\ IsFiniteSet(d.valid[q])
    BY <1>8, FiniteBlocks
  <2>3. Cardinality(d.list[q] \cup S) = Cardinality(d.list[q]) + Cardinality(S)
    <3>1. Cardinality(d.list[q] \cup S) = Cardinality(d.list[q]) + Cardinality(S) - Cardinality(d.list[q] \cap S)
      BY <1>3, <2>2, FS_Union
    <3>2. Cardinality(d.list[q] \cap S) = 0 /\ Cardinality(d.list[q]) \in Nat
      BY <1>7, <1>8, FS_EmptySet, FiniteBlocks
    <3> QED BY <1>3, <3>1, <3>2, SMT
  <2>4. Cardinality(d.valid[q] \cup V) = Cardinality(d.valid[q]) + Cardinality(V)
    <3>1. Cardinality(d.valid[q] \cup V) = Cardinality(d.valid[q]) + Cardinality(V) - Cardinality(d.valid[q] \cap V)
      BY <1>3, <2>2, FS_Union
    <3>2. Cardinality(d.valid[q] \cap V) = 0 /\ Cardinality(d.valid[q]) \in Nat
      BY <1>7, <1>8, FS_EmptySet, FiniteBlocks
    <3> QED BY <1>3, <3>1, <3>2, SMT
  <2>5. CASE q = p
    BY <1>5, <2>1, <2>3, <2>4, <2>5
  <2>6. CASE q # p
    BY <1>5, <2>1, <2>6
  <2> QED BY <2>5, <2>6
<1>11. e.nPeers = Cardinality(Owing(e))
  <2>0. e.nPeers = d.nPeers + u /\ d.nPeers \in Int /\ e.valid[p] = d.valid[p] \cup V
    BY <1>0, <1>1, <1>5 DEF Downloads
  <2>1. (d.nValid[p] = 0) <=> (d.valid[p] = {})
    BY <1>0, <1>8, FiniteBlocks, FS_EmptySet DEF Counts
  <2>2. \A q \in Peer : q # p => e.valid[q] = d.valid[q]
    BY <1>5
  <2>3. CASE u = 1
    <3>1. Owing(e) = Owing(d) \cup {p} /\ p \notin Owing(d)
      BY <1>2, <2>0, <2>1, <2>2, <2>3 DEF Owing
    <3>2. IsFiniteSet(Owing(d))
      BY FinitePeers DEF Owing
    <3>3. Cardinality(Owing(e)) = Cardinality(Owing(d)) + 1
      BY <3>1, <3>2, FS_AddElement
    <3> QED BY <1>0, <2>0, <2>3, <3>3
  <2>4. CASE u = 0
    <3>1. Owing(e) = Owing(d)
      BY <1>2, <2>0, <2>1, <2>2, <2>4, SMT DEF Owing
    <3> QED BY <1>0, <2>0, <2>4, <3>1, SMT
  <2> QED BY <1>2, <2>3, <2>4
<1>12. \A q \in e.stalling : e.list[q] # {}
  <2>1. e.stalling = d.stalling /\ d.stalling \subseteq Peer
    BY <1>0, <1>1 DEF Downloads
  <2> SUFFICES ASSUME NEW q \in d.stalling PROVE e.list[q] # {}
    BY <2>1
  <2>2. q \in Peer /\ d.list[q] # {}
    BY <1>0, <2>1
  <2> QED BY <1>5, <2>2
<1>13. Good(e)
    BY <1>4, <1>9, <1>10, <1>11, <1>12 DEF Good
<1> QED
    BY <1>5, <1>6, <1>13 DEF e

\* MarkBlockAsInFlight keeps the downloads consistent.
LEMMA MarkGood ==
    ASSUME NEW d, Good(d), NEW p \in Peer, NEW b \in Block,
           NEW kind
    PROVE  /\ Good(MarkBlockAsInFlight(d, p, b, kind))
           /\ \A c \in Block : MarkBlockAsInFlight(d, p, b, kind).map[c] =
                                IF c = b THEN p ELSE d.map[c]
           /\ \A q \in Peer : q # p =>
                /\ MarkBlockAsInFlight(d, p, b, kind).list[q] \subseteq d.list[q]
                /\ MarkBlockAsInFlight(d, p, b, kind).n[q] <= d.n[q]
           /\ d.map[b] = p => MarkBlockAsInFlight(d, p, b, kind) = d
           /\ MarkBlockAsInFlight(d, p, b, kind).n[p] <= d.n[p] + 1
<1> DEFINE e == MarkBlockAsReceived(d, b)
           S == {b}
           f == Enqueue(e, p, S, kind)
<1>0. \A q \in Peer : d.n[q] \in Int
    BY DEF Good, Downloads
<1>1. CASE d.map[b] = p
  <2>1. MarkBlockAsInFlight(d, p, b, kind) = d
    BY <1>1 DEF MarkBlockAsInFlight
  <2> QED BY <1>0, <1>1, <2>1, SMT
<1>2. CASE d.map[b] # p
  <2>1. MarkBlockAsInFlight(d, p, b, kind) = f
    BY <1>2 DEF MarkBlockAsInFlight
  <2>2. Good(e) /\ (\A c \in Block : e.map[c] = IF c = b THEN NoPeer ELSE d.map[c])
        /\ (\A q \in Peer : e.list[q] = d.list[q] \ {b}) /\ (\A q \in Peer : e.n[q] <= d.n[q])
    BY ReceivedGood
  <2> HIDE DEF e
  <2>21. S \in SUBSET Block /\ (\A c \in S : e.map[c] = NoPeer) /\ Good(e)
    BY <2>2
  <2>22. Cardinality(S) = 1 /\ \A c : c \in S <=> c = b
    BY FS_Singleton
  <2> HIDE DEF S
  <2>3. /\ Good(f)
        /\ \A c \in Block : f.map[c] = IF c \in S THEN p ELSE e.map[c]
        /\ \A q \in Peer : q # p => f.list[q] = e.list[q]
        /\ \A q \in Peer : f.n[q] = IF q = p THEN e.n[q] + Cardinality(S) ELSE e.n[q]
    BY <2>21, EnqueueGood, SMT
  <2> HIDE DEF f
  <2>5. \A q \in Peer : e.n[q] \in Int
    BY <2>2 DEF Good, Downloads
  <2> QED BY <1>0, <1>2, <2>1, <2>2, <2>3, <2>22, <2>5, SMT
<1> QED BY <1>1, <1>2

\* FinalizeNode keeps the downloads consistent: its assertions hold.
LEMMA ForgetGood ==
    ASSUME NEW d, Good(d), NEW p \in Peer
    PROVE  /\ Good(Forget(d, p))
           /\ \A c \in Block : Forget(d, p).map[c] \in {d.map[c], NoPeer}
           /\ \A q \in Peer : /\ Forget(d, p).list[q] = IF q = p THEN {} ELSE d.list[q]
                              /\ Forget(d, p).n[q] = IF q = p THEN 0 ELSE d.n[q]
<1> DEFINE e == Forget(d, p)
           u == Counted(d, p)
<1>0. d \in Downloads /\ Agree(d) /\ Counts(d) /\ d.nPeers = Cardinality(Owing(d))
      /\ \A q \in d.stalling : d.list[q] # {}
    BY DEF Good
<1>1. e = [map |-> [b \in Block |-> IF b \in d.list[p] THEN NoPeer ELSE d.map[b]],
           list |-> [d.list EXCEPT ![p] = {}],
           valid |-> [d.valid EXCEPT ![p] = {}],
           partial |-> [d.partial EXCEPT ![p] = {}],
           n |-> [d.n EXCEPT ![p] = 0],
           nValid |-> [d.nValid EXCEPT ![p] = 0],
           nPeers |-> d.nPeers - u,
           stalling |-> d.stalling \ {p}]
    BY DEF Forget
<1> HIDE DEF e
<1>2. u \in {0, 1} /\ (u = 1 <=> d.nValid[p] # 0)
    BY SMT DEF Counted, One
<1> HIDE DEF u
<1>3. e \in Downloads
    BY <1>0, <1>1, <1>2, SMT DEF Downloads
<1>4. \A q \in Peer : /\ e.list[q] = IF q = p THEN {} ELSE d.list[q]
                      /\ e.valid[q] = IF q = p THEN {} ELSE d.valid[q]
                      /\ e.partial[q] = IF q = p THEN {} ELSE d.partial[q]
                      /\ e.n[q] = IF q = p THEN 0 ELSE d.n[q]
                      /\ e.nValid[q] = IF q = p THEN 0 ELSE d.nValid[q]
    BY <1>0, <1>1 DEF Downloads
<1>5. \A c \in Block : e.map[c] = IF c \in d.list[p] THEN NoPeer ELSE d.map[c]
    BY <1>0, <1>1 DEF Downloads
<1>6. Agree(e)
  <2>1. \A q \in Peer, c \in Block : c \in e.list[q] <=> e.map[c] = q
    <3> TAKE q \in Peer, c \in Block
    <3>1. (c \in d.list[q] <=> d.map[c] = q) /\ (c \in d.list[p] <=> d.map[c] = p) /\ q # NoPeer
      BY <1>0, PeerAssumption DEF Agree
    <3>2. CASE q = p
      BY <1>4, <1>5, <3>1, <3>2
    <3>3. CASE q # p
      BY <1>4, <1>5, <3>1, <3>3, SMT
    <3> QED BY <3>2, <3>3
  <2>2. \A q \in Peer : e.valid[q] \subseteq e.list[q] /\ e.partial[q] \subseteq e.list[q]
    <3> TAKE q \in Peer
    <3>1. d.valid[q] \subseteq d.list[q] /\ d.partial[q] \subseteq d.list[q]
      BY <1>0 DEF Agree
    <3> QED BY <1>4, <3>1
  <2> QED BY <2>1, <2>2 DEF Agree
<1>7. Counts(e)
  <2> SUFFICES ASSUME NEW q \in Peer
               PROVE  e.n[q] = Cardinality(e.list[q]) /\ e.nValid[q] = Cardinality(e.valid[q])
    BY DEF Counts
  <2>1. d.n[q] = Cardinality(d.list[q]) /\ d.nValid[q] = Cardinality(d.valid[q])
    BY <1>0 DEF Counts
  <2> QED BY <1>4, <2>1, FS_EmptySet
<1>8. e.nPeers = Cardinality(Owing(e))
  <2>0. e.nPeers = d.nPeers - u /\ d.nPeers \in Int /\ e.valid[p] = {}
    BY <1>0, <1>1, <1>4 DEF Downloads
  <2>1. d.valid[p] \in SUBSET Block
    BY <1>0 DEF Downloads
  <2>2. (d.nValid[p] = 0) <=> (d.valid[p] = {})
    BY <1>0, <2>1, FiniteBlocks, FS_EmptySet DEF Counts
  <2>3. \A q \in Peer : q # p => e.valid[q] = d.valid[q]
    BY <1>4
  <2>4. Owing(e) = Owing(d) \ {p} /\ (p \in Owing(d) <=> u = 1)
    BY <1>2, <2>0, <2>2, <2>3 DEF Owing
  <2>5. IsFiniteSet(Owing(d))
    BY FinitePeers DEF Owing
  <2>6. Cardinality(Owing(e)) = IF p \in Owing(d) THEN Cardinality(Owing(d)) - 1 ELSE Cardinality(Owing(d))
    BY <2>4, <2>5, FS_RemoveElement
  <2> QED BY <1>0, <1>2, <2>0, <2>4, <2>6, SMT
<1>9. \A q \in e.stalling : e.list[q] # {}
    BY <1>0, <1>1, <1>4 DEF Downloads
<1>10. Good(e)
    BY <1>3, <1>6, <1>7, <1>8, <1>9 DEF Good
<1> QED
    BY <1>4, <1>5, <1>10 DEF e

\* A compact block makes a block that p owes a partial one.
LEMMA PartialGood ==
    ASSUME NEW d, Good(d), NEW p \in Peer, NEW b \in d.list[p]
    PROVE  /\ Good([d EXCEPT !.partial[p] = @ \cup {b}])
           /\ [d EXCEPT !.partial[p] = @ \cup {b}].map = d.map
           /\ [d EXCEPT !.partial[p] = @ \cup {b}].list = d.list
           /\ [d EXCEPT !.partial[p] = @ \cup {b}].n = d.n
<1> DEFINE e == [d EXCEPT !.partial[p] = @ \cup {b}]
<1>0. d \in Downloads
    BY DEF Good
<1>1. /\ e.map = d.map /\ e.list = d.list /\ e.valid = d.valid /\ e.n = d.n
      /\ e.nValid = d.nValid /\ e.nPeers = d.nPeers /\ e.stalling = d.stalling
      /\ e.partial = [d.partial EXCEPT ![p] = @ \cup {b}]
    BY <1>0 DEF Downloads
<1>2. e \in Downloads
    BY <1>0, SMT DEF Downloads
<1> HIDE DEF e
<1>3. \A q \in Peer : e.partial[q] = IF q = p THEN d.partial[q] \cup {b} ELSE d.partial[q]
    BY <1>0, <1>1 DEF Downloads
<1>4. Agree(e)
    BY <1>1, <1>3, SMT DEF Good, Agree
<1>5. Counts(e) /\ Owing(e) = Owing(d)
    BY <1>1, SMT DEF Good, Counts, Owing
<1>6. Good(e)
    BY <1>1, <1>2, <1>4, <1>5 DEF Good
<1> QED BY <1>1, <1>6 DEF e

\* A peer that owes a block may be found to be stalling.
LEMMA StallingGood ==
    ASSUME NEW d, Good(d), NEW p \in Peer, d.list[p] # {}
    PROVE  /\ Good([d EXCEPT !.stalling = @ \cup {p}])
           /\ [d EXCEPT !.stalling = @ \cup {p}].map = d.map
           /\ [d EXCEPT !.stalling = @ \cup {p}].list = d.list
           /\ [d EXCEPT !.stalling = @ \cup {p}].n = d.n
<1> DEFINE e == [d EXCEPT !.stalling = @ \cup {p}]
<1>0. d \in Downloads
    BY DEF Good
<1>1. /\ e.map = d.map /\ e.list = d.list /\ e.valid = d.valid /\ e.n = d.n
      /\ e.nValid = d.nValid /\ e.nPeers = d.nPeers /\ e.stalling = d.stalling \cup {p}
      /\ e.partial = d.partial
    BY <1>0 DEF Downloads
<1>2. e \in Downloads
    BY <1>0 DEF Downloads
<1> HIDE DEF e
<1>3. Agree(e) /\ Counts(e) /\ Owing(e) = Owing(d)
    BY <1>1, SMT DEF Good, Agree, Counts, Owing
<1>4. Good(e)
    BY <1>1, <1>2, <1>3 DEF Good
<1> QED BY <1>1, <1>4 DEF e

\* No more blocks of a chain are marked than p has slots.
LEMMA SlotsFit ==
    ASSUME NEW p \in Peer, dl.n[p] \in Nat, dl.n[p] <= MAX_BLOCKS_IN_TRANSIT_PER_PEER,
           NEW a \in Block, NEW S \in SUBSET Ancestors[a]
    PROVE  /\ Slots(p, S) \in SUBSET S
           /\ dl.n[p] + Cardinality(Slots(p, S)) <= MAX_BLOCKS_IN_TRANSIT_PER_PEER
<1> DEFINE T == Slots(p, S)
<1>1. T \in SUBSET S /\ S \in SUBSET Block
    BY TreeAssumption DEF Slots
<1>2. CASE T = {}
    BY <1>1, <1>2, FS_EmptySet, SMT
<1>3. CASE T # {}
  <2>1. PICK b \in T : \A c \in T : Height[c] <= Height[b]
    BY <1>1, <1>3, TreeAssumption
  <2> DEFINE Below == {c \in S : Height[c] < Height[b]}
  <2>2. dl.n[p] + Cardinality(Below) < MAX_BLOCKS_IN_TRANSIT_PER_PEER
    BY <2>1 DEF Slots
  <2>3. T \ {b} \in SUBSET Below
    <3> SUFFICES ASSUME NEW c \in T, c # b PROVE Height[c] < Height[b]
      BY <1>1
    <3>1. b \in Ancestors[a] /\ c \in Ancestors[a] /\ Height[b] \in Nat /\ Height[c] \in Nat
      BY <1>1, <2>1, TreeAssumption
    <3>2. Height[c] # Height[b]
      BY <3>1, TreeAssumption
    <3> QED BY <2>1, <3>1, <3>2, SMT
  <2>4. IsFiniteSet(Below) /\ Cardinality(Below) \in Nat /\ IsFiniteSet(T) /\ Cardinality(T) \in Nat
    BY <1>1, FiniteBlocks
  <2>5. Cardinality(T \ {b}) <= Cardinality(Below)
    BY <2>3, <2>4, FS_Subset
  <2>6. Cardinality(T \ {b}) = Cardinality(T) - 1
    BY <2>1, <2>4, FS_RemoveElement
  <2> QED BY <1>1, <2>2, <2>4, <2>5, <2>6, LimitAssumption, SMT
<1> QED BY <1>2, <1>3

-----------------------------------------------------------------------------
(* The inductive invariant.                                                *)

\* The downloads d, when N are the connected peers and h the blocks with data.
Fine(d, N, h) ==
    /\ Good(d)
    /\ \A p \in Peer : d.list[p] # {} => p \in N
    /\ \A p \in Peer : d.n[p] <= MAX_BLOCKS_IN_TRANSIT_PER_PEER
    /\ \A b \in h \cap Block : d.map[b] = NoPeer

\* From d to e, no block goes from one peer to another.
Keeps(d, e) == \A b \in Block : d.map[b] # NoPeer => e.map[b] \in {d.map[b], NoPeer}

IndexOK == header \subseteq Block /\ have \subseteq header /\ tip \in Block

KnownOK ==
    /\ pindexBestKnownBlock \in [Peer -> Block \cup {NoBlock}]
    /\ hashLastUnknownBlock \in [Peer -> Block \cup {NoBlock}]

SyncOK ==
    /\ fPreferredDownload \subseteq Node /\ nPreferredDownload = Cardinality(fPreferredDownload)
    /\ fSyncStarted \subseteq Node /\ nSyncStarted = Cardinality(fSyncStarted)

IInv ==
    /\ IndexOK /\ KnownOK /\ SyncOK
    /\ status \in [Peer -> {"new", "connected", "up", "gone"}]
    /\ Fine(dl, Node, have)

\* MarkBlockAsReceived gives a slot back, and the block may now be stored.
LEMMA ReceivedFine ==
    ASSUME NEW d, NEW N, NEW h, Fine(d, N, h), NEW b \in Block
    PROVE  /\ Fine(MarkBlockAsReceived(d, b), N, h) /\ Fine(MarkBlockAsReceived(d, b), N, h \cup {b})
           /\ \A c \in Block : MarkBlockAsReceived(d, b).map[c] \in {d.map[c], NoPeer}
<1> DEFINE e == MarkBlockAsReceived(d, b)
<1>1. /\ Good(e)
      /\ \A c \in Block : e.map[c] = IF c = b THEN NoPeer ELSE d.map[c]
      /\ \A p \in Peer : e.list[p] = d.list[p] \ {b}
      /\ \A p \in Peer : e.n[p] <= d.n[p]
    BY ReceivedGood DEF Fine
<1>2. \A p \in Peer : d.n[p] \in Int
    BY DEF Fine, Good, Downloads
<1> HIDE DEF e
<1>21. \A p \in Peer : e.n[p] \in Int
    BY <1>1 DEF Good, Downloads
<1>3. \A p \in Peer : e.n[p] <= MAX_BLOCKS_IN_TRANSIT_PER_PEER
    BY <1>1, <1>2, <1>21, LimitAssumption, SMT DEF Fine
<1>4. \A p \in Peer : e.list[p] # {} => p \in N
    BY <1>1 DEF Fine
<1>5. Fine(e, N, h) /\ Fine(e, N, h \cup {b})
    BY <1>1, <1>3, <1>4 DEF Fine
<1> QED BY <1>1, <1>5 DEF e

\* MarkBlockAsInFlight for a block that p owes already, or that nobody owes
\* when p has a slot.
LEMMA MarkFine ==
    ASSUME NEW d, NEW N, NEW h, Fine(d, N, h), NEW p \in Peer, p \in N, NEW b \in Block \ h, NEW kind,
           \/ d.map[b] = p
           \/ d.map[b] = NoPeer /\ d.n[p] < MAX_BLOCKS_IN_TRANSIT_PER_PEER
    PROVE  /\ Fine(MarkBlockAsInFlight(d, p, b, kind), N, h)
           /\ \A c \in Block : MarkBlockAsInFlight(d, p, b, kind).map[c] =
                                IF c = b THEN p ELSE d.map[c]
<1> DEFINE e == MarkBlockAsInFlight(d, p, b, kind)
<1>1. /\ Good(e)
      /\ \A c \in Block : e.map[c] = IF c = b THEN p ELSE d.map[c]
      /\ \A q \in Peer : q # p => e.list[q] \subseteq d.list[q] /\ e.n[q] <= d.n[q]
      /\ d.map[b] = p => e = d
      /\ e.n[p] <= d.n[p] + 1
    BY MarkGood DEF Fine
<1> HIDE DEF e
<1>2. \A q \in Peer : d.n[q] \in Int /\ e.n[q] \in Int
    BY <1>1 DEF Fine, Good, Downloads
<1>3. \A q \in Peer : e.n[q] <= MAX_BLOCKS_IN_TRANSIT_PER_PEER
  <2> TAKE q \in Peer
  <2>1. CASE q # p
    BY <1>1, <1>2, <2>1, LimitAssumption, SMTT(20) DEF Fine
  <2>2. CASE q = p
    BY <1>1, <1>2, <2>2, LimitAssumption, SMT DEF Fine
  <2> QED BY <2>1, <2>2
<1>4. \A q \in Peer : e.list[q] # {} => q \in N
    BY <1>1 DEF Fine
<1>5. \A c \in h \cap Block : e.map[c] = NoPeer
    BY <1>1 DEF Fine
<1> QED BY <1>1, <1>3, <1>4, <1>5 DEF Fine, e

\* The loops that ask p for blocks, lowest first, until it has no slot left.
LEMMA SlotsFine ==
    ASSUME Fine(dl, Node, have), NEW p \in Peer, p \in Node, NEW a \in Block, NEW S \in SUBSET Ancestors[a],
           NEW kind, \A b \in S : b \notin have /\ ~InFlight(b)
    PROVE  /\ Fine(Enqueue(dl, p, Slots(p, S), kind), Node, have)
           /\ Keeps(dl, Enqueue(dl, p, Slots(p, S), kind))
<1> DEFINE T == Slots(p, S)
           e == Enqueue(dl, p, T, kind)
<1>0. Good(dl) /\ \A q \in Peer : dl.n[q] \in Int
    BY DEF Fine, Good, Downloads
<1>01. dl.n[p] = Cardinality(dl.list[p]) /\ dl.list[p] \in SUBSET Block
    BY <1>0 DEF Good, Counts, Downloads
<1>02. dl.n[p] \in Nat /\ dl.n[p] <= MAX_BLOCKS_IN_TRANSIT_PER_PEER
    BY <1>01, FiniteBlocks DEF Fine
<1>1. T \in SUBSET S /\ dl.n[p] + Cardinality(T) <= MAX_BLOCKS_IN_TRANSIT_PER_PEER
    BY <1>02, SlotsFit
<1>2. T \in SUBSET Block /\ (\A c \in T : dl.map[c] = NoPeer) /\ (\A c \in T : c \notin have)
    BY <1>1, TreeAssumption DEF InFlight
<1> HIDE DEF T
<1>3. /\ Good(e)
      /\ \A c \in Block : e.map[c] = IF c \in T THEN p ELSE dl.map[c]
      /\ \A q \in Peer : q # p => e.list[q] = dl.list[q]
      /\ \A q \in Peer : e.n[q] = IF q = p THEN dl.n[q] + Cardinality(T) ELSE dl.n[q]
    BY <1>0, <1>2, EnqueueGood, SMTT(20)
<1> HIDE DEF e
<1>4. \A q \in Peer : e.n[q] <= MAX_BLOCKS_IN_TRANSIT_PER_PEER
    BY <1>1, <1>3 DEF Fine
<1>5. \A q \in Peer : e.list[q] # {} => q \in Node
    BY <1>3 DEF Fine
<1>6. \A c \in have \cap Block : e.map[c] = NoPeer
    BY <1>2, <1>3 DEF Fine
<1>7. Keeps(dl, e)
    BY <1>2, <1>3 DEF Keeps
<1> QED BY <1>3, <1>4, <1>5, <1>6, <1>7 DEF Fine, e, T

\* What a peer may speak of are blocks.
LEMMA MineBlocks == \A p \in Peer : Mine(p) \in SUBSET (Block \ {Genesis})
BY TreeAssumption, PeerAssumption DEF Mine

\* ProcessBlockAvailability and UpdateBlockAvailability.
LEMMA AvailabilityOK ==
    ASSUME KnownOK, NEW p \in Peer, NEW b \in Block, NEW h \in SUBSET Block
    PROVE  /\ UpdateBlockAvailability(p, b, h) => KnownOK'
           /\ (header \subseteq Block /\ ProcessBlockAvailability(p)) => KnownOK'
           /\ header \subseteq Block => Resolved(p, header).best \in Block \cup {NoBlock}
<1>1. ASSUME NEW g \in SUBSET Block
      PROVE  /\ Resolved(p, g).best \in Block \cup {NoBlock}
             /\ Resolved(p, g).unknown \in Block \cup {NoBlock}
    BY DEF Resolved, KnownOK, Better
<1>2. ASSUME NEW x \in Block \cup {NoBlock}
      PROVE  Better(x, b) \in Block \cup {NoBlock}
    BY DEF Better
<1>3. UpdateBlockAvailability(p, b, h) => KnownOK'
    BY <1>1, <1>2, SMT DEF UpdateBlockAvailability, KnownOK
<1>4. header \subseteq Block /\ ProcessBlockAvailability(p) => KnownOK'
    BY <1>1 DEF ProcessBlockAvailability, KnownOK
<1> QED BY <1>1, <1>3, <1>4

\* ProcessNewBlock stores only a block it has taken out of flight.
LEMMA ProcessFine ==
    ASSUME IndexOK, NEW d, NEW N, Fine(d, N, have), NEW hd \in SUBSET Block, header \subseteq hd,
           NEW b \in Block, NEW fForce, NEW verdict, ProcessNewBlock(d, hd, b, fForce, verdict)
    PROVE  /\ IndexOK' /\ Fine(dl', N, have')
           /\ \A c \in Block : dl'.map[c] \in {d.map[c], NoPeer}
<1>1. CASE verdict = "badsig"
  <2>1. dl' = d /\ header' = hd /\ have' = have /\ tip' = tip
    BY <1>1 DEF ProcessNewBlock
  <2> QED BY <2>1 DEF IndexOK
<1>2. CASE verdict # "badsig"
  <2>1. /\ dl' = MarkBlockAsReceived(d, b)
        /\ \/ have' = have /\ header' \in {hd, hd \cup {b}}
           \/ have' = have \cup {b} /\ header' = hd \cup {b}
        /\ tip' \in BestTips(have')
    <3> DEFINE linked == b = Genesis \/ Parent[b] \in hd
               store == /\ linked /\ b \notin have /\ verdict = "ok"
                        /\ \/ d.map[b] # NoPeer \/ fForce
                           \/ Height[b] > Height[tip] /\ Height[b] <= Height[tip] + MIN_BLOCKS_TO_KEEP
    <3>1. /\ dl' = MarkBlockAsReceived(d, b)
          /\ header' = IF linked THEN hd \cup {b} ELSE hd
          /\ have' = IF store THEN have \cup {b} ELSE have
          /\ tip' \in BestTips(have')
      BY <1>2, Zenon DEF ProcessNewBlock
    <3>2. store => linked
      OBVIOUS
    <3> HIDE DEF linked, store
    <3> QED BY <3>1, <3>2
  <2>2. header' \subseteq Block /\ have' \subseteq header'
    BY <2>1 DEF IndexOK
  <2>3. tip' \in Block
    BY <2>1, <2>2 DEF BestTips, IndexOK
  <2>4. /\ Fine(dl', N, have) /\ Fine(dl', N, have \cup {b})
        /\ \A c \in Block : dl'.map[c] \in {d.map[c], NoPeer}
    BY <2>1, ReceivedFine
  <2> QED BY <2>1, <2>2, <2>3, <2>4 DEF IndexOK
<1> QED BY <1>1, <1>2

LEMMA FillFine ==
    ASSUME IndexOK, NEW d, NEW N, Fine(d, N, have), NEW hd \in SUBSET Block, header \subseteq hd,
           NEW b \in Block, NEW verdict, FillBlock(d, hd, b, verdict)
    PROVE  /\ IndexOK' /\ Fine(dl', N, have')
           /\ \A c \in Block : dl'.map[c] \in {d.map[c], NoPeer}
<1>1. CASE verdict = "mismatch"
  <2>1. dl' = MarkBlockAsReceived(d, b) /\ header' = hd /\ have' = have /\ tip' = tip
    BY <1>1 DEF FillBlock
  <2> QED BY <2>1, ReceivedFine DEF IndexOK
<1>2. CASE verdict = "collision"
  <2>1. dl' = d /\ header' = hd /\ have' = have /\ tip' = tip
    BY <1>2 DEF FillBlock
  <2> QED BY <2>1 DEF IndexOK
<1>3. CASE verdict \notin {"mismatch", "collision"}
  <2>1. ProcessNewBlock(d, hd, b, FALSE, verdict)
    BY <1>3 DEF FillBlock
  <2> QED BY <2>1, ProcessFine
<1> QED BY <1>1, <1>2, <1>3

\* Direct fetch asks for blocks that are neither there nor in flight.
LEMMA DirectFetchFine ==
    ASSUME Fine(dl, Node, have), NEW p \in Peer, p \in Node, NEW b \in Block, NEW fDirect
    PROVE  Fine(DirectFetch(p, b, fDirect), Node, have) /\ Keeps(dl, DirectFetch(p, b, fDirect))
<1> DEFINE off == Ancestors[b] \ Chain
           S == Wanted(off)
<1>1. S \in SUBSET Ancestors[b] /\ \A c \in S : c \notin have /\ ~InFlight(c)
    BY DEF Wanted
<1>2. DirectFetch(p, b, fDirect) \in {dl, Enqueue(dl, p, Slots(p, S), "pindex")}
    BY DEF DirectFetch
<1> HIDE DEF S
<1>3. Fine(Enqueue(dl, p, Slots(p, S), "pindex"), Node, have) /\ Keeps(dl, Enqueue(dl, p, Slots(p, S), "pindex"))
    BY <1>1, SlotsFine
<1>4. Keeps(dl, dl)
    BY DEF Keeps
<1> QED BY <1>2, <1>3, <1>4

\* So does FindNextBlocksToDownload, and the staller it names owes a block.
LEMMA FindNextFine ==
    ASSUME Fine(dl, Node, have), NEW p \in Peer, p \in Node, NEW best \in Block
    PROVE  /\ Fine(Enqueue(dl, p, FindNextBlocksToDownload(p, best).blocks, "pindex"), Node, have)
           /\ Keeps(dl, Enqueue(dl, p, FindNextBlocksToDownload(p, best).blocks, "pindex"))
           /\ LET s == FindNextBlocksToDownload(p, best).staller
              IN  s # NoPeer => s \in Peer /\ dl.list[s] # {}
<1> DEFINE guess   == IF pindexLastCommonBlock[p] # NoBlock THEN pindexLastCommonBlock[p]
                      ELSE CHOOSE b \in Chain :
                           Height[b] = IF Height[best] < Height[tip] THEN Height[best] ELSE Height[tip]
           common  == LastCommonAncestor(guess, best)
           walk    == {b \in Ancestors[best] : Height[common] < Height[b] /\ Height[b] <= WindowEnd(common) + 1}
           missing == {b \in walk : b \notin have}
           free    == {b \in missing : ~InFlight(b)}
           window  == {b \in free : Height[b] <= WindowEnd(common)}
           waiting == missing \ free
           r == FindNextBlocksToDownload(p, best)
           low == Lowest(waiting)
<1>1. /\ r.blocks = Slots(p, window)
      /\ r.staller # NoPeer => (waiting # {} /\ r.staller = dl.map[low])
    BY DEF FindNextBlocksToDownload
<1>2. window \in SUBSET Ancestors[best] /\ \A c \in window : c \notin have /\ ~InFlight(c)
    OBVIOUS
<1>3. waiting \in SUBSET Ancestors[best] /\ \A c \in waiting : InFlight(c)
    OBVIOUS
<1>4. waiting \in SUBSET Block
    BY <1>3, TreeAssumption
<1> HIDE DEF window, waiting, r
<1>5. Fine(Enqueue(dl, p, r.blocks, "pindex"), Node, have) /\ Keeps(dl, Enqueue(dl, p, r.blocks, "pindex"))
  <2>1. Fine(Enqueue(dl, p, Slots(p, window), "pindex"), Node, have)
        /\ Keeps(dl, Enqueue(dl, p, Slots(p, window), "pindex"))
    BY <1>2, SlotsFine
  <2> QED BY <1>1, <2>1
<1>6. ASSUME waiting # {} PROVE low \in Block /\ dl.map[low] \in Peer /\ low \in dl.list[dl.map[low]]
  <2>1. \E b \in waiting : \A c \in waiting : Height[b] <= Height[c]
    BY <1>4, <1>6, TreeAssumption
  <2>2. low \in waiting
    BY <2>1 DEF Lowest
  <2> HIDE DEF low
  <2>3. low \in Block /\ dl.map[low] # NoPeer
    BY <1>3, <1>4, <2>2 DEF InFlight
  <2>4. dl.map[low] \in Peer
    BY <2>3 DEF Fine, Good, Downloads
  <2> QED BY <2>3, <2>4 DEF Fine, Good, Agree
<1> HIDE DEF low
<1>7. r.staller # NoPeer => r.staller \in Peer /\ dl.list[r.staller] # {}
  <2>1. CASE r.staller # NoPeer
    <3>1. r.staller = dl.map[low] /\ dl.map[low] \in Peer /\ low \in dl.list[dl.map[low]]
      BY <1>1, <1>6, <2>1
    <3> QED BY <3>1
  <2> QED BY <2>1
<1> QED BY <1>5, <1>7 DEF r

-----------------------------------------------------------------------------
(* Every step preserves the invariant and keeps downloads where they are.  *)

\* A peer whose message is processed is connected.
LEMMA ReceiverIsNode == \A p \in Peer : Receives(p) => p \in Node
BY DEF Receives, Node

\* A step that leaves the connections and the sync counters alone.
LEMMA SameNodes ==
    ASSUME IInv, UNCHANGED status
    PROVE  Node' = Node /\ (UNCHANGED sync => SyncOK')
           /\ status' \in [Peer -> {"new", "connected", "up", "gone"}]
<1>1. Node' = Node
    BY DEF Node
<1> QED BY <1>1 DEF IInv, SyncOK, sync

LEMMA ConnectionStep ==
    ASSUME IInv, NEW p \in Peer, InitializeNode(p) \/ Version(p) \/ CloseConnection(p)
    PROVE  IInv' /\ Keeps(dl, dl')
<1>1. /\ dl' = dl /\ header' = header /\ have' = have /\ tip' = tip
      /\ pindexBestKnownBlock' = pindexBestKnownBlock /\ hashLastUnknownBlock' = hashLastUnknownBlock
    BY DEF InitializeNode, Version, CloseConnection, index, known
<1>2. IndexOK' /\ KnownOK'
    BY <1>1 DEF IInv, IndexOK, KnownOK
<1>3. Node \subseteq Node' /\ status' \in [Peer -> {"new", "connected", "up", "gone"}]
    BY DEF InitializeNode, Version, CloseConnection, Node, IInv
<1>4. SyncOK'
  <2>1. CASE InitializeNode(p) \/ CloseConnection(p)
    BY <1>3, <2>1 DEF InitializeNode, CloseConnection, sync, IInv, SyncOK
  <2>2. CASE Version(p)
    <3> DEFINE F == fPreferredDownload
               rest == F \ {p}
    <3>1. F \in SUBSET Peer /\ nPreferredDownload = Cardinality(F)
      BY DEF IInv, SyncOK, Node
    <3>2. IsFiniteSet(F) /\ IsFiniteSet(rest) /\ Cardinality(F) \in Nat /\ Cardinality(rest) \in Nat
      BY <3>1, FinitePeers
    <3>3. Cardinality(rest) = Cardinality(F) - One(p \in F)
      BY <3>2, FS_RemoveElement, SMT DEF One
    <3>4. Cardinality(rest \cup {p}) = Cardinality(rest) + 1
      BY <3>2, FS_AddElement
    <3>5. fPreferredDownload' = IF p \in Outbound THEN rest \cup {p} ELSE rest
      BY <2>2 DEF Version
    <3>6. nPreferredDownload' = nPreferredDownload - One(p \in F) + One(p \in Outbound)
      BY <2>2 DEF Version
    <3>7. nPreferredDownload' = Cardinality(fPreferredDownload')
      BY <3>1, <3>2, <3>3, <3>4, <3>5, <3>6, SMT DEF One
    <3>8. p \in Node' /\ fSyncStarted' = fSyncStarted /\ nSyncStarted' = nSyncStarted
      BY <2>2 DEF Version, Node, IInv
    <3>9. fPreferredDownload' \subseteq Node' /\ fSyncStarted' \subseteq Node'
      BY <1>3, <3>5, <3>8 DEF IInv, SyncOK
    <3> QED BY <3>7, <3>8, <3>9 DEF IInv, SyncOK
  <2> QED BY <2>1, <2>2
<1>5. Fine(dl', Node', have')
    BY <1>1, <1>3 DEF IInv, Fine
<1> QED BY <1>1, <1>2, <1>3, <1>4, <1>5 DEF IInv, Keeps

LEMMA FinalizeStep ==
    ASSUME IInv, NEW p \in Peer, FinalizeNode(p)
    PROVE  IInv' /\ Keeps(dl, dl')
<1>1. IndexOK' /\ KnownOK'
    BY TreeAssumption DEF FinalizeNode, index, IInv, IndexOK, KnownOK
<1>2. Node' = Node \ {p} /\ status' \in [Peer -> {"new", "connected", "up", "gone"}]
    BY DEF FinalizeNode, Node, IInv
<1>3. ASSUME NEW F \in SUBSET Peer
      PROVE  Cardinality(F \ {p}) = Cardinality(F) - One(p \in F)
  <2>1. IsFiniteSet(F) /\ Cardinality(F) \in Nat
    BY FinitePeers
  <2>2. Cardinality(F \ {p}) = IF p \in F THEN Cardinality(F) - 1 ELSE Cardinality(F)
    BY <2>1, FS_RemoveElement
  <2> QED BY <2>1, <2>2, SMT DEF One
<1>4. SyncOK'
  <2>1. fPreferredDownload \in SUBSET Peer /\ fSyncStarted \in SUBSET Peer
    BY DEF IInv, SyncOK, Node
  <2>2. /\ Cardinality(fPreferredDownload \ {p}) = Cardinality(fPreferredDownload) - One(p \in fPreferredDownload)
        /\ Cardinality(fSyncStarted \ {p}) = Cardinality(fSyncStarted) - One(p \in fSyncStarted)
    BY <1>3, <2>1
  <2> QED BY <1>2, <2>2 DEF FinalizeNode, IInv, SyncOK
<1>5. /\ Good(dl')
      /\ \A c \in Block : dl'.map[c] \in {dl.map[c], NoPeer}
      /\ \A q \in Peer : /\ dl'.list[q] = IF q = p THEN {} ELSE dl.list[q]
                         /\ dl'.n[q] = IF q = p THEN 0 ELSE dl.n[q]
  <2>1. Good(dl) /\ dl' = Forget(dl, p)
    BY DEF FinalizeNode, IInv, Fine
  <2>2. /\ Good(Forget(dl, p))
        /\ \A c \in Block : Forget(dl, p).map[c] \in {dl.map[c], NoPeer}
        /\ \A q \in Peer : /\ Forget(dl, p).list[q] = IF q = p THEN {} ELSE dl.list[q]
                           /\ Forget(dl, p).n[q] = IF q = p THEN 0 ELSE dl.n[q]
    BY <2>1, ForgetGood, Zenon
  <2> QED BY <2>1, <2>2, Zenon
<1>6. have' = have
    BY DEF FinalizeNode, index
<1>7. Fine(dl', Node', have')
  <2>1. \A q \in Peer : dl'.n[q] <= MAX_BLOCKS_IN_TRANSIT_PER_PEER
    BY <1>5, LimitAssumption, SMT DEF IInv, Fine
  <2>2. \A q \in Peer : dl'.list[q] # {} => q \in Node'
    BY <1>2, <1>5 DEF IInv, Fine
  <2>3. \A c \in have' \cap Block : dl'.map[c] = NoPeer
    BY <1>5, <1>6 DEF IInv, Fine
  <2> QED BY <1>5, <2>1, <2>2, <2>3 DEF Fine
<1>8. Keeps(dl, dl')
    BY <1>5 DEF Keeps
<1> QED BY <1>1, <1>2, <1>4, <1>7, <1>8 DEF IInv

LEMMA InvStep ==
    ASSUME IInv, NEW p \in Peer, NEW b \in Block, NEW fDirect, Inv(p, b, fDirect)
    PROVE  IInv' /\ Keeps(dl, dl')
<1>1. p \in Node /\ UNCHANGED <<status, sync, index>> /\ UpdateBlockAvailability(p, b, header)
    BY ReceiverIsNode DEF Inv, conn
<1>2. Node' = Node /\ SyncOK' /\ status' \in [Peer -> {"new", "connected", "up", "gone"}]
    BY <1>1, SameNodes
<1>3. IndexOK' /\ KnownOK' /\ have' = have
    BY <1>1, AvailabilityOK DEF index, IInv, IndexOK
<1>4. Fine(dl, Node, have) /\ have \subseteq header
    BY DEF IInv, IndexOK
<1>5. CASE InvFetches(p, b, fDirect)
  <2>1. b \in Block \ have /\ dl.map[b] = NoPeer /\ dl.n[p] < MAX_BLOCKS_IN_TRANSIT_PER_PEER
    BY <1>4, <1>5 DEF InvFetches, InFlight
  <2>2. dl' = MarkBlockAsInFlight(dl, p, b, "hash")
    BY <1>5 DEF Inv
  <2>3. Fine(dl', Node, have) /\ \A c \in Block : dl'.map[c] = IF c = b THEN p ELSE dl.map[c]
    BY <1>1, <1>4, <2>1, <2>2, MarkFine, SMTT(20)
  <2>4. Keeps(dl, dl')
    BY <2>1, <2>3 DEF Keeps
  <2> QED BY <1>2, <1>3, <2>3, <2>4 DEF IInv
<1>6. CASE ~InvFetches(p, b, fDirect)
  <2>1. dl' = dl
    BY <1>6 DEF Inv
  <2> QED BY <1>2, <1>3, <1>4, <2>1 DEF IInv, Keeps
<1> QED BY <1>5, <1>6

LEMMA HeadersStep ==
    ASSUME IInv, NEW p \in Peer, NEW first \in Block, NEW last \in Block, NEW fDirect, NEW fSpam,
           Headers(p, first, last, fDirect, fSpam)
    PROVE  IInv' /\ Keeps(dl, dl')
<1> DEFINE new == header \cup {b \in Ancestors[last] : Height[b] >= Height[first]}
<1>1. p \in Node /\ UNCHANGED <<status, sync, have, tip>>
    BY ReceiverIsNode DEF Headers, conn
<1>2. Node' = Node /\ SyncOK' /\ status' \in [Peer -> {"new", "connected", "up", "gone"}]
    BY <1>1, SameNodes
<1>3. Fine(dl, Node, have) /\ IndexOK /\ KnownOK
    BY DEF IInv
<1>4. new \in SUBSET Block /\ header \in SUBSET Block /\ header \subseteq new
    BY <1>3, TreeAssumption DEF IndexOK
<1>5. /\ header' \in {header, new}
      /\ \/ UNCHANGED known
         \/ UpdateBlockAvailability(p, last, header)
         \/ UpdateBlockAvailability(p, last, new)
      /\ dl' \in {dl, DirectFetch(p, last, fDirect)}
    BY DEF Headers
<1> HIDE DEF new
<1>6. IndexOK'
    BY <1>1, <1>3, <1>4, <1>5 DEF IndexOK
<1>7. KnownOK'
    BY <1>3, <1>4, <1>5, AvailabilityOK DEF known, KnownOK
<1>8. Fine(DirectFetch(p, last, fDirect), Node, have) /\ Keeps(dl, DirectFetch(p, last, fDirect))
    BY <1>1, <1>3, DirectFetchFine
<1>9. Keeps(dl, dl)
    BY DEF Keeps
<1> QED BY <1>1, <1>2, <1>3, <1>5, <1>6, <1>7, <1>8, <1>9 DEF IInv

LEMMA BlockStep ==
    ASSUME IInv, NEW p \in Peer, NEW b \in Block, NEW fForce, NEW verdict,
           BlockMsg(p, b, fForce, verdict) \/ BlockTxn(p, b, verdict)
    PROVE  IInv' /\ Keeps(dl, dl')
<1>1. UNCHANGED <<known, sync, status>>
    BY DEF BlockMsg, BlockTxn
<1>2. Node' = Node /\ SyncOK' /\ status' \in [Peer -> {"new", "connected", "up", "gone"}]
    BY <1>1, SameNodes
<1>3. Fine(dl, Node, have) /\ IndexOK /\ KnownOK /\ header \in SUBSET Block
    BY DEF IInv, IndexOK
<1>4. KnownOK'
    BY <1>1, <1>3 DEF KnownOK, known
<1>5. IndexOK' /\ Fine(dl', Node, have') /\ \A c \in Block : dl'.map[c] \in {dl.map[c], NoPeer}
  <2>1. CASE ProcessNewBlock(dl, header, b, fForce, verdict)
    BY <1>3, <2>1, ProcessFine
  <2>2. CASE FillBlock(dl, header, b, verdict)
    BY <1>3, <2>2, FillFine
  <2> QED BY <2>1, <2>2 DEF BlockMsg, BlockTxn
<1> QED BY <1>2, <1>4, <1>5 DEF IInv, Keeps

\* A compact block near the tip.
LEMMA PutTogetherStep ==
    ASSUME IInv, NEW p \in Peer, p \in Node, NEW b \in Block \ have, NEW hd \in SUBSET Block, header \subseteq hd,
           NEW verdict, PutTogether(p, b, hd, verdict)
    PROVE  IndexOK' /\ Fine(dl', Node, have') /\ Keeps(dl, dl')
<1> DEFINE e == MarkBlockAsInFlight(dl, p, b, "pit")
           d == [e EXCEPT !.partial[p] = @ \cup {b}]
           Nothing == header' = hd /\ UNCHANGED <<have, tip, dl, fDisconnect>>
           Mine1 == dl.map[b] = p \/ (~InFlight(b) /\ dl.n[p] < MAX_BLOCKS_IN_TRANSIT_PER_PEER)
<1>1. Fine(dl, Node, have) /\ IndexOK
    BY DEF IInv
<1>2. CASE Nothing
    BY <1>1, <1>2 DEF IndexOK, Keeps
<1>3. CASE ProcessNewBlock(dl, hd, b, TRUE, verdict)
  <2>1. IndexOK' /\ Fine(dl', Node, have') /\ \A c \in Block : dl'.map[c] \in {dl.map[c], NoPeer}
    BY <1>1, <1>3, ProcessFine
  <2> QED BY <2>1 DEF Keeps
<1>4. CASE /\ Mine1
           /\ \/ dl' = MarkBlockAsReceived(d, b) /\ header' = hd /\ UNCHANGED <<have, tip>>
              \/ dl' = d /\ header' = hd /\ UNCHANGED <<have, tip>>
              \/ FillBlock(d, hd, b, verdict)
  <2>1. Fine(e, Node, have) /\ \A c \in Block : e.map[c] = IF c = b THEN p ELSE dl.map[c]
    BY <1>1, <1>4, MarkFine, SMT DEF InFlight
  <2> HIDE DEF e
  <2>2. b \in e.list[p] /\ Good(e)
    BY <2>1 DEF Fine, Good, Agree
  <2>3. Good(d) /\ d.map = e.map /\ d.list = e.list /\ d.n = e.n
    BY <2>2, PartialGood
  <2>4. Fine(d, Node, have)
    BY <2>1, <2>3 DEF Fine
  <2>5. \A c \in Block : d.map[c] = IF c = b THEN p ELSE dl.map[c]
    BY <2>1, <2>3
  <2> HIDE DEF d
  <2>6. IndexOK' /\ Fine(dl', Node, have') /\ \A c \in Block : dl'.map[c] \in {d.map[c], NoPeer}
    <3>1. CASE dl' = MarkBlockAsReceived(d, b) /\ header' = hd /\ UNCHANGED <<have, tip>>
      BY <1>1, <2>4, <3>1, ReceivedFine DEF IndexOK
    <3>2. CASE dl' = d /\ header' = hd /\ UNCHANGED <<have, tip>>
      BY <1>1, <2>4, <3>2 DEF IndexOK
    <3>3. CASE FillBlock(d, hd, b, verdict)
      BY <1>1, <2>4, <3>3, FillFine
    <3> QED BY <1>4, <3>1, <3>2, <3>3
  <2>7. Keeps(dl, dl')
    BY <1>4, <2>5, <2>6 DEF Keeps, InFlight
  <2> QED BY <2>6, <2>7
<1> QED BY <1>2, <1>3, <1>4, Zenon DEF PutTogether

LEMMA CmpctStep ==
    ASSUME IInv, NEW p \in Peer, NEW b \in Block, NEW fDirect, NEW verdict,
           CmpctBlock(p, b, fDirect, verdict)
    PROVE  IInv' /\ Keeps(dl, dl')
<1> DEFINE hd == header \cup {b}
<1>1. p \in Node /\ UNCHANGED <<status, sync>> /\ UpdateBlockAvailability(p, b, hd)
    BY ReceiverIsNode DEF CmpctBlock
<1>2. Node' = Node /\ SyncOK' /\ status' \in [Peer -> {"new", "connected", "up", "gone"}]
    BY <1>1, SameNodes
<1>3. Fine(dl, Node, have) /\ IndexOK /\ KnownOK /\ hd \in SUBSET Block
    BY DEF IInv, IndexOK
<1>4. KnownOK'
    BY <1>1, <1>3, AvailabilityOK
<1>5. IndexOK' /\ Fine(dl', Node, have') /\ Keeps(dl, dl')
  <2>1. CASE /\ dl' \in {dl, DirectFetch(p, b, fDirect)}
             /\ header' = hd /\ UNCHANGED <<have, tip>>
    <3>1. Fine(DirectFetch(p, b, fDirect), Node, have) /\ Keeps(dl, DirectFetch(p, b, fDirect))
      BY <1>1, <1>3, DirectFetchFine
    <3>2. Keeps(dl, dl)
      BY DEF Keeps
    <3> QED BY <1>3, <2>1, <3>1, <3>2 DEF IndexOK
  <2>2. CASE b \notin have /\ PutTogether(p, b, hd, verdict)
    BY <1>1, <1>3, <2>2, PutTogetherStep
  <2> QED BY <2>1, <2>2 DEF CmpctBlock
<1> QED BY <1>2, <1>4, <1>5 DEF IInv

LEMMA SendStep ==
    ASSUME IInv, NEW p \in Peer, NEW fRecent, NEW fIBD, NEW fStall, NEW fLate,
           SendMessages(p, fRecent, fIBD, fStall, fLate)
    PROVE  IInv' /\ Keeps(dl, dl')
<1> DEFINE fFetch == p \in fPreferredDownload \/ nPreferredDownload = 0
           start  == p \notin fSyncStarted /\ ((nSyncStarted = 0 /\ fFetch) \/ fRecent)
           best   == Resolved(p, header).best
           next   == FindNextBlocksToDownload(p, best)
<1>1. p \in Node /\ UNCHANGED <<status, header, have, tip, fPreferredDownload, nPreferredDownload>>
    BY ReceiverIsNode DEF SendMessages, index
<1>2. Node' = Node /\ status' \in [Peer -> {"new", "connected", "up", "gone"}]
    BY <1>1, SameNodes
<1>3. Fine(dl, Node, have) /\ IndexOK /\ IndexOK' /\ KnownOK /\ SyncOK
    BY <1>1 DEF IInv, IndexOK
<1>4. SyncOK'
  <2>1. fSyncStarted' = (IF start THEN fSyncStarted \cup {p} ELSE fSyncStarted)
        /\ nSyncStarted' = nSyncStarted + One(start)
    BY DEF SendMessages
  <2>2. start => p \notin fSyncStarted
    OBVIOUS
  <2> HIDE DEF start
  <2>3. fSyncStarted \in SUBSET Peer
    BY <1>3 DEF SyncOK, Node
  <2>4. IsFiniteSet(fSyncStarted) /\ Cardinality(fSyncStarted) \in Nat
    BY <2>3, FinitePeers
  <2>5. p \notin fSyncStarted => Cardinality(fSyncStarted \cup {p}) = Cardinality(fSyncStarted) + 1
    BY <2>4, FS_AddElement
  <2>6. nSyncStarted' = Cardinality(fSyncStarted')
    BY <1>3, <2>1, <2>2, <2>4, <2>5, SMT DEF SyncOK, One
  <2> QED BY <1>1, <1>2, <1>3, <2>1, <2>6 DEF SyncOK
<1>5. KnownOK'
  <2>1. UNCHANGED known \/ ProcessBlockAvailability(p)
    BY DEF SendMessages
  <2>2. Genesis \in Block /\ {} \in SUBSET Block /\ header \subseteq Block
    BY <1>3, TreeAssumption DEF IndexOK
  <2> QED BY <1>3, <2>1, <2>2, AvailabilityOK DEF known, KnownOK
<1>6. Keeps(dl, dl)
    BY DEF Keeps
<1>7. \/ dl' = dl
      \/ best # NoBlock /\ dl' = Enqueue(dl, p, next.blocks, "pindex")
      \/ best # NoBlock /\ next.staller # NoPeer /\ dl' = [dl EXCEPT !.stalling = @ \cup {next.staller}]
    BY DEF SendMessages
<1>8. best \in Block \cup {NoBlock}
  <2>1. Genesis \in Block /\ {} \in SUBSET Block /\ header \subseteq Block
    BY <1>3, TreeAssumption DEF IndexOK
  <2> QED BY <1>3, <2>1, AvailabilityOK
<1> HIDE DEF best
<1>9. ASSUME best # NoBlock
      PROVE  /\ Fine(Enqueue(dl, p, next.blocks, "pindex"), Node, have)
             /\ Keeps(dl, Enqueue(dl, p, next.blocks, "pindex"))
             /\ next.staller # NoPeer => next.staller \in Peer /\ dl.list[next.staller] # {}
    BY <1>1, <1>3, <1>8, <1>9, FindNextFine
<1> HIDE DEF next
<1>10. Fine(dl', Node, have) /\ Keeps(dl, dl')
  <2>1. CASE dl' = dl
    BY <1>3, <1>6, <2>1
  <2>2. CASE best # NoBlock /\ dl' = Enqueue(dl, p, next.blocks, "pindex")
    BY <1>9, <2>2
  <2>3. CASE best # NoBlock /\ next.staller # NoPeer /\ dl' = [dl EXCEPT !.stalling = @ \cup {next.staller}]
    <3> DEFINE s == next.staller
    <3>1. s \in Peer /\ dl.list[s] # {} /\ Good(dl)
      BY <1>3, <1>9, <2>3 DEF Fine
    <3>2. dl' = [dl EXCEPT !.stalling = @ \cup {s}]
      BY <2>3
    <3> HIDE DEF s
    <3>3. Good(dl') /\ dl'.map = dl.map /\ dl'.list = dl.list /\ dl'.n = dl.n
      BY <3>1, <3>2, StallingGood
    <3> QED BY <1>3, <3>3 DEF Fine, Keeps
  <2> QED BY <1>7, <2>1, <2>2, <2>3
<1> QED BY <1>1, <1>2, <1>3, <1>4, <1>5, <1>10 DEF IInv

LEMMA InitIInv == Init => IInv
<1> SUFFICES ASSUME Init PROVE IInv
    OBVIOUS
<1>1. \A q \in Peer : /\ dl.list[q] = {} /\ dl.valid[q] = {} /\ dl.partial[q] = {}
                      /\ dl.n[q] = 0 /\ dl.nValid[q] = 0
    BY DEF Init
<1>2. (\A b \in Block : dl.map[b] = NoPeer) /\ dl.stalling = {} /\ dl.nPeers = 0 /\ dl \in Downloads
  <2>1. dl = [map |-> [b \in Block |-> NoPeer], list |-> [q \in Peer |-> {}],
              valid |-> [q \in Peer |-> {}], partial |-> [q \in Peer |-> {}],
              n |-> [q \in Peer |-> 0], nValid |-> [q \in Peer |-> 0],
              nPeers |-> 0, stalling |-> {}]
    BY DEF Init
  <2>2. /\ [b \in Block |-> NoPeer] \in [Block -> Peer \cup {NoPeer}]
        /\ [q \in Peer |-> {}] \in [Peer -> SUBSET Block]
        /\ [q \in Peer |-> 0] \in [Peer -> Int]
        /\ 0 \in Int /\ {} \in SUBSET Peer
    BY SMT
  <2>3. dl \in Downloads
    BY <2>1, <2>2, Zenon DEF Downloads
  <2> QED BY <2>1, <2>3
<1>3. Agree(dl) /\ Counts(dl)
    BY <1>1, <1>2, PeerAssumption, FS_EmptySet DEF Agree, Counts
<1>4. Owing(dl) = {}
    BY <1>1 DEF Owing
<1>5. Good(dl)
    BY <1>2, <1>3, <1>4, FS_EmptySet DEF Good
<1>6. Fine(dl, Node, have)
    BY <1>1, <1>2, <1>5, LimitAssumption, SMTT(20) DEF Fine
<1>7. IndexOK /\ KnownOK /\ SyncOK /\ status \in [Peer -> {"new", "connected", "up", "gone"}]
    BY TreeAssumption, FS_EmptySet DEF Init, IndexOK, KnownOK, SyncOK
<1> QED BY <1>6, <1>7 DEF IInv

LEMMA NextIInv == IInv /\ [Next]_vars => IInv' /\ Keeps(dl, dl')
<1> SUFFICES ASSUME IInv, [Next]_vars PROVE IInv' /\ Keeps(dl, dl')
    OBVIOUS
<1>1. CASE UNCHANGED vars
  <2>1. /\ UNCHANGED <<header, have, tip, pindexBestKnownBlock, hashLastUnknownBlock, status, dl>>
        /\ UNCHANGED <<fPreferredDownload, nPreferredDownload, fSyncStarted, nSyncStarted>>
    BY <1>1 DEF vars, index, known, sync, conn
  <2>2. Node' = Node
    BY <2>1 DEF Node
  <2> QED BY <2>1, <2>2 DEF IInv, IndexOK, KnownOK, SyncOK, Keeps
<1>2. ASSUME NEW p \in Peer, Message(p) PROVE IInv' /\ Keeps(dl, dl')
    BY <1>2, MineBlocks, InvStep, HeadersStep, BlockStep, CmpctStep DEF Message
<1>3. ASSUME NEW p \in Peer, Turn(p) PROVE IInv' /\ Keeps(dl, dl')
    BY <1>3, SendStep DEF Turn
<1> QED BY <1>1, <1>2, <1>3, ConnectionStep, FinalizeStep DEF Next

\* The counters are exact, only a peer that owes a block is held to be
\* stalling, a block the node has is not in flight and no peer is asked for
\* more than the limit, after any messages, turns and disconnections.
THEOREM DownloadsConsistent == Spec => [](CountersExact /\ StallersOwe /\ NotAskedTwice /\ SlotsBounded)
<1>1. IInv => CountersExact /\ StallersOwe /\ NotAskedTwice /\ SlotsBounded
  <2> SUFFICES ASSUME IInv PROVE CountersExact /\ StallersOwe /\ NotAskedTwice /\ SlotsBounded
    OBVIOUS
  <2>1. Good(dl) /\ Fine(dl, Node, have)
    BY DEF IInv, Fine
  <2>2. \A p \in Peer : dl.list[p] = {b \in Block : dl.map[b] = p}
    BY <2>1, SMT DEF Good, Agree, Downloads
  <2>3. \A p \in Peer : /\ dl.n[p] = Cardinality(dl.list[p]) /\ dl.nValid[p] = Cardinality(dl.valid[p])
                        /\ dl.valid[p] \subseteq dl.list[p] /\ dl.partial[p] \subseteq dl.list[p]
                        /\ dl.list[p] # {} => p \in Node
    BY <2>1 DEF Good, Agree, Counts, Fine
  <2>4. CountersExact
    BY <2>1, <2>2, <2>3 DEF CountersExact, Good, Owing, IInv, SyncOK
  <2>5. StallersOwe /\ SlotsBounded
    BY <2>1 DEF StallersOwe, Good, SlotsBounded, Fine
  <2>6. NotAskedTwice
    BY <2>1 DEF NotAskedTwice, Fine, InFlight, IInv, IndexOK
  <2> QED BY <2>4, <2>5, <2>6
<1> QED BY <1>1, InitIInv, NextIInv, PTL DEF Spec

\* A peer is disconnected for stalling only while it owes a block (nStallingSince).
THEOREM StallersAreOwing == Spec => []StallersOwe
BY DownloadsConsistent, PTL

\* A block the node has is not in flight: MarkBlockAsReceived comes before it is
\* stored, and no handler asks for it again.
THEOREM AskedOnce == Spec => []NotAskedTwice
BY DownloadsConsistent, PTL

\* inv, headers, cmpctblock and SendMessages together keep to
\* MAX_BLOCKS_IN_TRANSIT_PER_PEER.
THEOREM SlotsRespected == Spec => []SlotsBounded
BY DownloadsConsistent, PTL

\* No block in flight from one peer is taken over by another: the only calls
\* of MarkBlockAsInFlight are for blocks nobody else owes.
THEOREM DownloadsNotTakenOver == Spec => NoTakeover
<1>1. IInv /\ [Next]_vars => [\A b \in Block : InFlight(b) => dl'.map[b] \in {dl.map[b], NoPeer}]_vars
    BY NextIInv DEF Keeps, InFlight
<1> QED BY <1>1, InitIInv, NextIInv, PTL DEF Spec, NoTakeover

-----------------------------------------------------------------------------
(* What the types say of the chain: the tip and the last common blocks of  *)
(* FindNextBlocksToDownload are linked to genesis by blocks with data.     *)

\* A block a peer is known to have is in the index g.
BestIn(best, g) == \A p \in Peer : best[p] \in g \cup {NoBlock}

\* The last common blocks are among the linked blocks L.
CommonIn(common, L) == common \in [Peer -> L \cup {NoBlock}]

Linked ==
    /\ tip \in ChainTx /\ fDisconnect \subseteq Node
    /\ BestIn(pindexBestKnownBlock, header)
    /\ CommonIn(pindexLastCommonBlock, ChainTx)

\* No block loses its header, its data or its link to genesis.
Grows == header \subseteq header' /\ have \subseteq have' /\ ChainTx \subseteq ChainTx' /\ tip' \in ChainTx'

\* A step that only adds data keeps what is linked.
LEMMA ChainTxGrows ==
    ASSUME have \subseteq have', header \subseteq header', tip \in ChainTx, tip' = tip
    PROVE  Grows
BY DEF Grows, ChainTx

\* What was known of the peers and their chains still holds in a larger index.
LEMMA KnownGrows ==
    ASSUME Linked, Grows
    PROVE  /\ BestIn(pindexBestKnownBlock, header') /\ CommonIn(pindexLastCommonBlock, ChainTx')
           /\ tip' \in ChainTx'
<1>1. header \subseteq header' /\ ChainTx \subseteq ChainTx' /\ tip' \in ChainTx'
    BY DEF Grows
<1>2. BestIn(pindexBestKnownBlock, header')
    BY <1>1 DEF Linked, BestIn
<1>3. CommonIn(pindexLastCommonBlock, ChainTx')
    BY <1>1, SMT DEF Linked, CommonIn
<1> QED BY <1>1, <1>2, <1>3

\* ActivateBestChain moves the tip to a linked block.
LEMMA ProcessGrows ==
    ASSUME IndexOK, tip \in ChainTx, NEW d, NEW hd, header \subseteq hd, NEW b, NEW fForce, NEW verdict,
           ProcessNewBlock(d, hd, b, fForce, verdict)
    PROVE  Grows
<1>1. CASE verdict = "badsig"
  <2>1. header' = hd /\ have' = have /\ tip' = tip
    BY <1>1 DEF ProcessNewBlock
  <2> QED BY <2>1, ChainTxGrows
<1>2. CASE verdict # "badsig"
  <2>1. header \subseteq header' /\ have \subseteq have' /\ tip' \in BestTips(have')
    BY <1>2 DEF ProcessNewBlock
  <2>2. ChainTx \subseteq ChainTx'
    BY <2>1 DEF ChainTx
  <2>3. tip' \in ChainTx' \/ tip' = tip
    BY <2>1 DEF BestTips, ChainTx
  <2> QED BY <2>1, <2>2, <2>3 DEF Grows
<1> QED BY <1>1, <1>2

LEMMA FillGrows ==
    ASSUME IndexOK, tip \in ChainTx, NEW d, NEW hd, header \subseteq hd, NEW b, NEW verdict,
           FillBlock(d, hd, b, verdict)
    PROVE  Grows
<1>1. CASE header' = hd /\ have' = have /\ tip' = tip
    BY <1>1, ChainTxGrows
<1>2. CASE ProcessNewBlock(d, hd, b, FALSE, verdict)
    BY <1>2, ProcessGrows
<1> QED BY <1>1, <1>2 DEF FillBlock

\* A compact block grows the index, and its sender may be disconnected.
LEMMA PutTogetherGrows ==
    ASSUME IndexOK, tip \in ChainTx, NEW p, NEW hd, header \subseteq hd, NEW b, NEW verdict,
           PutTogether(p, b, hd, verdict)
    PROVE  Grows /\ fDisconnect' \in {fDisconnect, fDisconnect \cup {p}}
<1> DEFINE e == [MarkBlockAsInFlight(dl, p, b, "pit") EXCEPT !.partial[p] = @ \cup {b}]
<1>1. /\ fDisconnect' \in {fDisconnect, fDisconnect \cup {p}}
      /\ \/ header' = hd /\ have' = have /\ tip' = tip
         \/ ProcessNewBlock(dl, hd, b, TRUE, verdict)
         \/ FillBlock(e, hd, b, verdict)
    BY DEF PutTogether, Misbehaving
<1> HIDE DEF e
<1>2. CASE header' = hd /\ have' = have /\ tip' = tip
    BY <1>1, <1>2, ChainTxGrows
<1>3. CASE ProcessNewBlock(dl, hd, b, TRUE, verdict)
    BY <1>1, <1>3, ProcessGrows
<1>4. CASE FillBlock(e, hd, b, verdict)
    BY <1>1, <1>4, FillGrows
<1> QED BY <1>1, <1>2, <1>3, <1>4

\* ProcessBlockAvailability and UpdateBlockAvailability take only blocks that
\* are in mapBlockIndex.
LEMMA AvailabilityLinked ==
    ASSUME KnownOK, BestIn(pindexBestKnownBlock, header), NEW p \in Peer, NEW b, NEW h, header \subseteq h
    PROVE  /\ UpdateBlockAvailability(p, b, h) => BestIn(pindexBestKnownBlock', h)
           /\ ProcessBlockAvailability(p) => BestIn(pindexBestKnownBlock', header)
           /\ Resolved(p, header).best \in header \cup {NoBlock}
<1>1. ASSUME NEW g, header \subseteq g
      PROVE  Resolved(p, g).best \in g \cup {NoBlock}
    BY <1>1 DEF Resolved, Better, BestIn
<1>2. ASSUME NEW g, header \subseteq g, NEW x \in g \cup {NoBlock},
             pindexBestKnownBlock' = [pindexBestKnownBlock EXCEPT ![p] = x]
      PROVE  BestIn(pindexBestKnownBlock', g)
    BY <1>2 DEF BestIn, KnownOK
<1>3. ASSUME UpdateBlockAvailability(p, b, h) PROVE BestIn(pindexBestKnownBlock', h)
  <2> DEFINE x == IF b \in h THEN Better(Resolved(p, h).best, b) ELSE Resolved(p, h).best
  <2>1. x \in h \cup {NoBlock}
    BY <1>1 DEF Better
  <2>2. pindexBestKnownBlock' = [pindexBestKnownBlock EXCEPT ![p] = x]
    BY <1>3 DEF UpdateBlockAvailability
  <2> HIDE DEF x
  <2> QED BY <1>2, <2>1, <2>2
<1>4. ProcessBlockAvailability(p) => BestIn(pindexBestKnownBlock', header)
    BY <1>1, <1>2 DEF ProcessBlockAvailability
<1> QED BY <1>1, <1>3, <1>4

\* The highest of some blocks is one of them.
LEMMA HighestIn == ASSUME NEW S \in SUBSET Block, S # {} PROVE Highest(S) \in S
<1>1. \E b \in S : \A c \in S : Height[c] <= Height[b]
    BY TreeAssumption
<1> QED BY <1>1 DEF Highest

\* What FindNextBlocksToDownload leaves in pindexLastCommonBlock is linked:
\* an ancestor of the tip or of the last one, or a block the walk found linked.
LEMMA FindNextLinked ==
    ASSUME IndexOK, Linked, NEW p \in Peer, NEW best \in Block, ~(Height[best] < Height[tip])
    PROVE  FindNextBlocksToDownload(p, best).common \in ChainTx
<1> DEFINE top    == IF Height[best] < Height[tip] THEN Height[best] ELSE Height[tip]
           guess  == IF pindexLastCommonBlock[p] # NoBlock THEN pindexLastCommonBlock[p]
                     ELSE CHOOSE b \in Chain : Height[b] = top
           common == LastCommonAncestor(guess, best)
           walk   == {b \in Ancestors[best] : Height[common] < Height[b] /\ Height[b] <= WindowEnd(common) + 1}
<1>1. FindNextBlocksToDownload(p, best).common = Deepest(common, walk)
    BY DEF FindNextBlocksToDownload
<1>2. \A c \in ChainTx : c \in Block /\ Ancestors[c] \subseteq ChainTx
  <2> TAKE c \in ChainTx
  <2>1. c \in Block /\ Ancestors[c] \subseteq have
    BY DEF ChainTx, IndexOK
  <2>2. \A a \in Ancestors[c] : Ancestors[a] \subseteq Ancestors[c]
    BY <2>1, TreeAssumption
  <2> QED BY <2>1, <2>2 DEF ChainTx
<1>3. guess \in ChainTx
  <2>1. CASE pindexLastCommonBlock[p] # NoBlock
    BY <2>1 DEF Linked, CommonIn
  <2>2. CASE pindexLastCommonBlock[p] = NoBlock
    <3>1. tip \in ChainTx /\ tip \in Block /\ tip \in Chain /\ Chain \subseteq ChainTx
      BY <1>2, TreeAssumption DEF Linked, Chain
    <3>2. top = Height[tip]
      OBVIOUS
    <3> HIDE DEF top
    <3>3. (CHOOSE b \in Chain : Height[b] = top) \in Chain
      BY <3>1, <3>2
    <3> QED BY <2>2, <3>1, <3>3
  <2> QED BY <2>1, <2>2
<1> HIDE DEF guess
<1>4. common \in ChainTx
  <2> DEFINE both == Ancestors[guess] \cap Ancestors[best]
  <2>1. both \in SUBSET Block /\ Genesis \in both
    BY <1>2, <1>3, TreeAssumption
  <2>2. common = Highest(both)
    BY DEF LastCommonAncestor
  <2> HIDE DEF both
  <2>3. common \in both
    BY <2>1, <2>2, HighestIn
  <2> QED BY <1>2, <1>3, <2>3 DEF both
<1> HIDE DEF common
<1>5. Deepest(common, walk) \in ChainTx
  <2> DEFINE some == {common} \cup (walk \cap ChainTx)
  <2>1. some \in SUBSET ChainTx /\ some \in SUBSET Block /\ some # {}
    BY <1>2, <1>4
  <2>2. Deepest(common, walk) = Highest(some)
    BY DEF Deepest
  <2> HIDE DEF some
  <2> QED BY <2>1, <2>2, HighestIn
<1> QED BY <1>1, <1>5

\* A peer may be disconnected only while it is connected, also after a
\* connection has been made or has got its version.
LEMMA ConnectionLinked ==
    ASSUME IInv, Linked, NEW p \in Peer,
           InitializeNode(p) \/ Version(p) \/ CloseConnection(p) \/ FinalizeNode(p)
    PROVE  Linked'
<1>1. header' = header /\ have' = have /\ tip' = tip
    BY DEF InitializeNode, Version, CloseConnection, FinalizeNode, index
<1>2. ChainTx' = ChainTx
    BY <1>1 DEF ChainTx
<1>3. fDisconnect' \subseteq Node'
    BY DEF InitializeNode, Version, CloseConnection, FinalizeNode, Node, IInv, Linked
<1>4. \/ UNCHANGED known
      \/ /\ pindexBestKnownBlock' = [pindexBestKnownBlock EXCEPT ![p] = NoBlock]
         /\ pindexLastCommonBlock' = [pindexLastCommonBlock EXCEPT ![p] = NoBlock]
    BY DEF InitializeNode, Version, CloseConnection, FinalizeNode
<1>5. BestIn(pindexBestKnownBlock', header)
    BY <1>4 DEF known, BestIn, Linked, IInv, KnownOK
<1>6. CommonIn(pindexLastCommonBlock', ChainTx)
    BY <1>4, SMT DEF known, CommonIn, Linked
<1> QED BY <1>1, <1>2, <1>3, <1>5, <1>6 DEF Linked

\* Messages and turns leave the connections alone, and disconnect at most the
\* peer they are about.
LEMMA SameConnections ==
    ASSUME Linked, NEW p \in Peer, p \in Node, UNCHANGED status,
           fDisconnect' \in {fDisconnect, fDisconnect \cup {p}}
    PROVE  fDisconnect' \subseteq Node'
<1>1. Node' = Node
    BY DEF Node
<1> QED BY <1>1 DEF Linked

LEMMA MessageLinked ==
    ASSUME IInv, Linked, NEW p \in Peer, Message(p)
    PROVE  Linked'
<1>0. IndexOK /\ KnownOK /\ tip \in ChainTx /\ BestIn(pindexBestKnownBlock, header)
    BY DEF IInv, Linked
<1>1. ASSUME NEW b, NEW fDirect, Inv(p, b, fDirect) PROVE Linked'
  <2>1. /\ p \in Node /\ UNCHANGED <<status, fDisconnect, header, have, tip, pindexLastCommonBlock>>
        /\ UpdateBlockAvailability(p, b, header)
    BY <1>1, ReceiverIsNode DEF Inv, conn, index, UpdateBlockAvailability
  <2>2. Grows /\ fDisconnect' \subseteq Node'
    BY <1>0, <2>1, ChainTxGrows, SameConnections
  <2>3. BestIn(pindexBestKnownBlock', header')
    BY <1>0, <2>1, AvailabilityLinked
  <2> QED BY <2>1, <2>2, <2>3, KnownGrows DEF Linked
<1>2. ASSUME NEW first, NEW last, NEW fDirect, NEW fSpam, Headers(p, first, last, fDirect, fSpam) PROVE Linked'
  <2> DEFINE new == header \cup {b \in Ancestors[last] : Height[b] >= Height[first]}
  <2>1. /\ p \in Node /\ UNCHANGED <<status, fDisconnect, have, tip, pindexLastCommonBlock>>
        /\ \/ header' = header /\ UpdateBlockAvailability(p, last, header)
           \/ header' = new /\ UNCHANGED pindexBestKnownBlock
           \/ header' = new /\ UpdateBlockAvailability(p, last, new)
    BY <1>2, ReceiverIsNode DEF Headers, conn, known, UpdateBlockAvailability
  <2>2. header \subseteq new
    OBVIOUS
  <2> HIDE DEF new
  <2>3. Grows /\ fDisconnect' \subseteq Node'
    BY <1>0, <2>1, <2>2, ChainTxGrows, SameConnections
  <2>4. BestIn(pindexBestKnownBlock', header')
    BY <1>0, <2>1, <2>2, <2>3, AvailabilityLinked, KnownGrows
  <2> QED BY <2>1, <2>3, <2>4, KnownGrows DEF Linked
<1>3. ASSUME NEW b, NEW fForce, NEW verdict, BlockMsg(p, b, fForce, verdict) \/ BlockTxn(p, b, verdict) PROVE Linked'
  <2>1. /\ p \in Node /\ UNCHANGED <<status, pindexBestKnownBlock, pindexLastCommonBlock>>
        /\ fDisconnect' \in {fDisconnect, fDisconnect \cup {p}}
        /\ ProcessNewBlock(dl, header, b, fForce, verdict) \/ FillBlock(dl, header, b, verdict)
    BY <1>3, ReceiverIsNode DEF BlockMsg, BlockTxn, Misbehaving, known
  <2>2. Grows /\ fDisconnect' \subseteq Node'
    BY <1>0, <2>1, ProcessGrows, FillGrows, SameConnections
  <2> QED BY <2>1, <2>2, KnownGrows DEF Linked
<1>4. ASSUME NEW b, NEW fDirect, NEW verdict, CmpctBlock(p, b, fDirect, verdict) PROVE Linked'
  <2> DEFINE hd == header \cup {b}
  <2>1. /\ p \in Node /\ UNCHANGED <<status, pindexLastCommonBlock>>
        /\ UpdateBlockAvailability(p, b, hd)
        /\ \/ header' = hd /\ UNCHANGED <<have, tip, fDisconnect>>
           \/ PutTogether(p, b, hd, verdict)
    BY <1>4, ReceiverIsNode DEF CmpctBlock, UpdateBlockAvailability
  <2>2. header \subseteq hd
    OBVIOUS
  <2> HIDE DEF hd
  <2>3. Grows /\ fDisconnect' \in {fDisconnect, fDisconnect \cup {p}} /\ hd \subseteq header'
    <3>1. CASE header' = hd /\ UNCHANGED <<have, tip, fDisconnect>>
      BY <1>0, <2>2, <3>1, ChainTxGrows
    <3>2. CASE PutTogether(p, b, hd, verdict)
      <4>1. Grows /\ fDisconnect' \in {fDisconnect, fDisconnect \cup {p}}
        BY <1>0, <2>2, <3>2, PutTogetherGrows
      <4>2. hd \subseteq header'
        BY <3>2 DEF PutTogether, FillBlock, ProcessNewBlock
      <4> QED BY <4>1, <4>2
    <3> QED BY <2>1, <3>1, <3>2
  <2>4. fDisconnect' \subseteq Node'
    BY <2>1, <2>3, SameConnections
  <2>5. BestIn(pindexBestKnownBlock', hd)
    BY <1>0, <2>1, <2>2, AvailabilityLinked
  <2>6. BestIn(pindexBestKnownBlock', header')
    BY <2>3, <2>5 DEF BestIn
  <2> QED BY <2>1, <2>3, <2>4, <2>6, KnownGrows DEF Linked
<1> QED BY <1>1, <1>2, <1>3, <1>4 DEF Message

LEMMA TurnLinked ==
    ASSUME IInv, Linked, NEW p \in Peer, Turn(p)
    PROVE  Linked'
<1> PICK fRecent, fIBD, fStall, fLate \in BOOLEAN : SendMessages(p, fRecent, fIBD, fStall, fLate)
    BY DEF Turn
<1> DEFINE best == Resolved(p, header).best
           next == FindNextBlocksToDownload(p, best)
<1>1. /\ p \in Node /\ UNCHANGED <<status, header, have, tip>>
      /\ fDisconnect' \in {fDisconnect, fDisconnect \cup {p}}
    BY ReceiverIsNode DEF SendMessages, index
<1>2. /\ UNCHANGED pindexBestKnownBlock \/ ProcessBlockAvailability(p)
      /\ \/ UNCHANGED pindexLastCommonBlock
         \/ /\ best # NoBlock /\ ~(Height[best] < Height[tip])
            /\ pindexLastCommonBlock' = [pindexLastCommonBlock EXCEPT ![p] = next.common]
    BY DEF SendMessages, known
<1>3. IndexOK /\ KnownOK /\ tip \in ChainTx /\ BestIn(pindexBestKnownBlock, header)
    BY DEF IInv, Linked
<1>4. best \in header \cup {NoBlock} /\ (ProcessBlockAvailability(p) => BestIn(pindexBestKnownBlock', header))
    BY <1>3, AvailabilityLinked
<1>5. header \subseteq Block
    BY <1>3 DEF IndexOK
<1> HIDE DEF best
<1>6. best # NoBlock /\ ~(Height[best] < Height[tip]) => next.common \in ChainTx
    BY <1>3, <1>4, <1>5, FindNextLinked
<1> HIDE DEF next
<1>7. ChainTx' = ChainTx
    BY <1>1 DEF ChainTx
<1>8. fDisconnect' \subseteq Node'
    BY <1>1, SameConnections
<1>9. CommonIn(pindexLastCommonBlock', ChainTx)
    BY <1>2, <1>6, SMT DEF CommonIn, Linked
<1>10. BestIn(pindexBestKnownBlock', header)
    BY <1>2, <1>3, <1>4
<1> QED BY <1>1, <1>3, <1>7, <1>8, <1>9, <1>10 DEF Linked

\* Every variable keeps its type: a peer's best known block has a header, and
\* the tip and every pindexLastCommonBlock are linked to genesis by blocks
\* whose data is there, so that FindNextBlocksToDownload never starts its walk
\* above a gap; only a connected peer is preferred, synchronised with or about
\* to be disconnected.
THEOREM DownloadTypes == Spec => []TypeOK
<1>1. Init => IInv /\ Linked
  <2> SUFFICES ASSUME Init PROVE Linked
    BY InitIInv
  <2>1. tip \in ChainTx /\ fDisconnect \subseteq Node /\ BestIn(pindexBestKnownBlock, header)
    BY TreeAssumption DEF Init, ChainTx, BestIn
  <2>2. CommonIn(pindexLastCommonBlock, ChainTx)
    BY SMT DEF Init, CommonIn
  <2> QED BY <2>1, <2>2 DEF Linked
<1>2. (IInv /\ Linked) /\ [Next]_vars => (IInv /\ Linked)'
  <2> SUFFICES ASSUME IInv, Linked, [Next]_vars PROVE IInv' /\ Linked'
    OBVIOUS
  <2>1. IInv'
    BY NextIInv
  <2>2. ASSUME UNCHANGED vars PROVE Linked'
    <3>1. /\ UNCHANGED <<header, have, tip, status, fDisconnect>>
          /\ UNCHANGED <<pindexBestKnownBlock, pindexLastCommonBlock>>
      BY <2>2 DEF vars, index, known, conn
    <3>2. ChainTx' = ChainTx /\ Node' = Node
      BY <3>1 DEF ChainTx, Node
    <3> QED BY <3>1, <3>2 DEF Linked
  <2>3. ASSUME NEW p \in Peer,
               \/ InitializeNode(p) \/ Version(p) \/ CloseConnection(p) \/ FinalizeNode(p)
               \/ Message(p) \/ Turn(p)
        PROVE  Linked'
    BY <2>3, ConnectionLinked, MessageLinked, TurnLinked
  <2> QED BY <2>1, <2>2, <2>3 DEF Next
<1>3. (IInv /\ Linked) => TypeOK
  <2> SUFFICES ASSUME IInv, Linked PROVE TypeOK
    OBVIOUS
  <2>1. /\ header \subseteq Block /\ have \subseteq header /\ tip \in ChainTx /\ fDisconnect \subseteq Node
        /\ status \in [Peer -> {"new", "connected", "up", "gone"}] /\ dl \in Downloads
        /\ hashLastUnknownBlock \in [Peer -> Block \cup {NoBlock}]
        /\ pindexLastCommonBlock \in [Peer -> ChainTx \cup {NoBlock}]
        /\ fPreferredDownload \subseteq Node /\ fSyncStarted \subseteq Node
    BY DEF IInv, Linked, IndexOK, KnownOK, SyncOK, Fine, Good, CommonIn
  <2>2. pindexBestKnownBlock \in [Peer -> header \cup {NoBlock}]
    BY SMT DEF IInv, KnownOK, Linked, BestIn
  <2>3. nPreferredDownload \in Int /\ nSyncStarted \in Int
    <3>1. fPreferredDownload \in SUBSET Peer /\ fSyncStarted \in SUBSET Peer
      BY <2>1 DEF Node
    <3>2. nPreferredDownload \in Nat /\ nSyncStarted \in Nat
      BY <3>1, FinitePeers DEF IInv, SyncOK
    <3> QED BY <3>2, SMT
  <2> QED BY <2>1, <2>2, <2>3 DEF TypeOK
<1> QED BY <1>1, <1>2, <1>3, PTL DEF Spec
=============================================================================
