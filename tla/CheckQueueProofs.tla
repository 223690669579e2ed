-------------------------- MODULE CheckQueueProofs ---------------------------
(***************************************************************************)
(* Proofs about CheckQueue, for any number of workers, checks and any      *)
(* batch size: the counters are the sizes of the sets they stand for, and  *)
(* the flags carry the outcome of every check that is no longer            *)
(* outstanding.                                                            *)
(***************************************************************************)
EXTENDS CheckQueue, FiniteSetTheorems, TLAPS

InLoop == {t \in Thread : pc[t] \in {"work", "wait", "woken", "gone"}}
Sleeping == {t \in Thread : pc[t] \in {"wait", "woken", "gone"}}

\* The shape of the state: who may be where, and every outstanding check is in
\* one place.
PlaceInv ==
    /\ queue \subseteq added /\ added \subseteq Check
    /\ pc \in [Thread -> {"start", "out", "add", "work", "wait", "woken", "gone"}]
    /\ batch \in [Thread -> SUBSET added]
    /\ pc[Master] \notin {"start", "gone"}
    /\ \A t \in Worker : pc[t] \notin {"out", "add"}
    /\ \A t \in Thread : pc[t] = "work" <=> batch[t] # {}
    /\ \A t \in Thread : batch[t] \cap queue = {}
    /\ \A t, u \in Thread : t # u => batch[t] \cap batch[u] = {}

\* The counters.
CountInv ==
    /\ nTotal = Cardinality(InLoop)
    /\ nIdle = Cardinality(Sleeping)
    /\ nTodo = Cardinality(Outstanding)

\* The flags.
VerdictInv ==
    /\ fAllOk \in BOOLEAN /\ result \in BOOLEAN /\ fOk \subseteq Thread
    /\ ~fAllOk => ~(added \subseteq Valid)
    /\ \A t \in Thread : pc[t] = "work" /\ t \notin fOk => ~(added \subseteq Valid)
    /\ fAllOk /\ pc[Master] # "out" => added \ Outstanding \subseteq Valid
    /\ \A t \in Thread : pc[t] = "work" /\ t \in fOk => batch[t] \subseteq Valid

\* Nothing is left when the master is out.
OutInv == pc[Master] = "out" => /\ Outstanding = {} /\ fAllOk = TRUE
                                /\ result = (added \subseteq Valid)

LEMMA FiniteThreads == IsFiniteSet(Thread) /\ IsFiniteSet(InLoop) /\ IsFiniteSet(Sleeping)
<1>1. IsFiniteSet(Thread)
    BY QueueAssumption, FS_AddElement DEF Thread
<1> QED
    BY <1>1, FS_Subset DEF InLoop, Sleeping

LEMMA FiniteChecks == PlaceInv => /\ IsFiniteSet(Outstanding) /\ Outstanding \subseteq added
                                  /\ \A S \in SUBSET Check : IsFiniteSet(S)
<1> SUFFICES ASSUME PlaceInv PROVE /\ IsFiniteSet(Outstanding) /\ Outstanding \subseteq added
                                   /\ \A S \in SUBSET Check : IsFiniteSet(S)
    OBVIOUS
<1>1. Outstanding \subseteq added
    BY DEF PlaceInv, Outstanding
<1>2. \A S \in SUBSET Check : IsFiniteSet(S)
    BY QueueAssumption, FS_Subset
<1> QED
    BY <1>1, <1>2 DEF PlaceInv

\* A batch is never empty.
LEMMA BatchPositive ==
    ASSUME NEW t \in Thread, PlaceInv, CountInv, Entering(t)
    PROVE  BatchLength(t) \in Int /\ BatchLength(t) >= 1
<1> DEFINE n == Total(t) + Idle(t) + 1
<1> DEFINE share == Cardinality(queue) \div n
<1>1. Cardinality(queue) \in Nat
    BY FiniteChecks, FS_CardinalityType DEF PlaceInv
<1>2. nTotal \in Nat /\ nIdle \in Nat
    BY FiniteThreads, FS_CardinalityType DEF CountInv
<1>3. pc[t] = "woken" => nIdle >= 1
  <2> SUFFICES ASSUME pc[t] = "woken" PROVE nIdle # 0
    BY <1>2
  <2>1. t \in Sleeping
    BY DEF Sleeping
  <2> QED
    BY <2>1, FiniteThreads, FS_EmptySet DEF CountInv
<1>4. n \in Nat \ {0}
    BY <1>2, <1>3 DEF Total, Idle
<1>5. share \in Int
    BY <1>1, <1>4
<1> HIDE DEF share, n
<1> DEFINE least == Min({nBatchSize, share})
<1>6. least \in Int
    BY <1>5, QueueAssumption DEF Min
<1> HIDE DEF least
<1>7. Max({1, least}) \in Int /\ Max({1, least}) >= 1
    BY <1>6 DEF Max
<1> QED
    BY <1>7 DEF BatchLength, least, share, n

-----------------------------------------------------------------------------
\* A critical section of thread t in general: it gives up its batch, takes B
\* from the queue and goes on to place to.
Section(t, B, to) ==
    /\ Entering(t)
    /\ B \subseteq queue /\ (to = "work" <=> B # {})
    /\ to \in {"wait", "work"} \/ (to = "out" /\ t = Master)
    /\ Move(t, to)
    /\ queue' = queue \ B /\ batch' = [batch EXCEPT ![t] = B]
    /\ nTotal' = IF to = "out" THEN Total(t) - 1 ELSE Total(t)
    /\ nIdle' = IF to = "wait" THEN Idle(t) + 1 ELSE Idle(t)
    /\ nTodo' = Todo(t)
    /\ added' = added

LEMMA SectionPlaces ==
    ASSUME PlaceInv, NEW t \in Thread, NEW B, NEW to, Section(t, B, to)
    PROVE  /\ PlaceInv'
           /\ Outstanding' = Outstanding \ batch[t]
           /\ \A u \in Thread \ {t} : batch'[u] = batch[u] /\ (pc'[u] = "work" <=> pc[u] = "work")
<1>1. \A u \in Thread \ {t} : /\ batch'[u] = batch[u]
                              /\ pc'[u] = pc[u] \/ (pc[u] = "wait" /\ pc'[u] = "woken" /\ u = Master)
    BY DEF Section, Move, PlaceInv
<1>2. pc'[t] = to /\ batch'[t] = B
    BY DEF Section, Move, PlaceInv
<1>3. /\ pc' \in [Thread -> {"start", "out", "add", "work", "wait", "woken", "gone"}]
      /\ batch' \in [Thread -> SUBSET added']
    BY DEF Section, Move, PlaceInv
<1>4. PlaceInv'
    BY <1>1, <1>2, <1>3, QueueAssumption DEF Section, PlaceInv, Thread
<1>5. Outstanding' = Outstanding \ batch[t]
    BY <1>1, <1>2 DEF Section, PlaceInv, Outstanding
<1> QED
    BY <1>1, <1>4, <1>5

LEMMA SectionCounts ==
    ASSUME PlaceInv, CountInv, NEW t \in Thread, NEW B, NEW to, Section(t, B, to)
    PROVE  CountInv'
<1>1. /\ Cardinality(InLoop) \in Int /\ Cardinality(Sleeping) \in Int
      /\ Cardinality(Outstanding) \in Int
    BY FiniteThreads, FiniteChecks, FS_CardinalityType
<1>2. InLoop' = IF to = "out" THEN InLoop \ {t} ELSE InLoop \cup {t}
    BY DEF Section, Move, Entering, PlaceInv, InLoop
<1>3. Sleeping' = IF to = "wait" THEN Sleeping \cup {t} ELSE Sleeping \ {t}
    BY DEF Section, Move, Entering, PlaceInv, Sleeping
<1>4. nTotal' = Cardinality(InLoop')
  <2>1. First(t) <=> t \notin InLoop
    BY DEF Section, Entering, First, InLoop
  <2>2. Cardinality(InLoop \cup {t}) = IF t \in InLoop THEN Cardinality(InLoop) ELSE Cardinality(InLoop) + 1
    BY FiniteThreads, FS_AddElement
  <2>3. Cardinality(InLoop \ {t}) = IF t \in InLoop THEN Cardinality(InLoop) - 1 ELSE Cardinality(InLoop)
    BY FiniteThreads, FS_RemoveElement
  <2> QED
    BY <1>1, <1>2, <2>1, <2>2, <2>3 DEF Section, Total, CountInv
<1>5. nIdle' = Cardinality(Sleeping')
  <2>1. pc[t] = "woken" <=> t \in Sleeping
    BY DEF Section, Entering, Sleeping
  <2>2. Cardinality(Sleeping \cup {t}) = IF t \in Sleeping THEN Cardinality(Sleeping) ELSE Cardinality(Sleeping) + 1
    BY FiniteThreads, FS_AddElement
  <2>3. Cardinality(Sleeping \ {t}) = IF t \in Sleeping THEN Cardinality(Sleeping) - 1 ELSE Cardinality(Sleeping)
    BY FiniteThreads, FS_RemoveElement
  <2> QED
    BY <1>1, <1>3, <2>1, <2>2, <2>3 DEF Section, Idle, CountInv
<1>6. nTodo' = Cardinality(Outstanding')
  <2>1. Outstanding' = Outstanding \ batch[t]
    BY SectionPlaces
  <2>2. Outstanding \cap batch[t] = batch[t]
    BY DEF Outstanding
  <2>3. Cardinality(Outstanding \ batch[t]) = Cardinality(Outstanding) - Cardinality(batch[t])
    BY <2>2, FiniteChecks, FS_Difference
  <2>4. pc[t] # "work" => batch[t] = {}
    BY DEF PlaceInv
  <2>5. CASE pc[t] = "work"
    BY <2>1, <2>3, <2>5 DEF Section, Todo, CountInv
  <2>6. CASE pc[t] # "work"
    BY <2>1, <2>4, <2>6 DEF Section, Todo, CountInv
  <2> QED
    BY <2>5, <2>6
<1> QED
    BY <1>4, <1>5, <1>6 DEF CountInv

\* What AllOk says when thread t gives up its batch.
LEMMA AllOkFacts ==
    ASSUME PlaceInv, VerdictInv, NEW t \in Thread
    PROVE  /\ AllOk(t) \in BOOLEAN
           /\ ~AllOk(t) => ~(added \subseteq Valid)
           /\ AllOk(t) /\ pc[Master] # "out" => added \ (Outstanding \ batch[t]) \subseteq Valid
<1>1. AllOk(t) \in BOOLEAN /\ (~AllOk(t) => ~(added \subseteq Valid))
    BY DEF AllOk, VerdictInv
<1>2. ASSUME AllOk(t), pc[Master] # "out" PROVE added \ (Outstanding \ batch[t]) \subseteq Valid
  <2>1. added \ Outstanding \subseteq Valid
    BY <1>2 DEF AllOk, VerdictInv
  <2>2. batch[t] \subseteq Valid
    BY <1>2 DEF AllOk, VerdictInv, PlaceInv
  <2> QED
    BY <2>1, <2>2
<1> QED
    BY <1>1, <1>2

\* A section that does not end Wait.
LEMMA SectionVerdict ==
    ASSUME PlaceInv, VerdictInv, NEW t \in Thread, NEW B, NEW to, Section(t, B, to),
           to # "out", fAllOk' = AllOk(t), result' = result,
           fOk' = IF to # "work" THEN fOk
                  ELSE IF AllOk(t) /\ B \subseteq Valid THEN fOk \cup {t} ELSE fOk \ {t}
    PROVE  VerdictInv' /\ (pc'[Master] = "out" => pc[Master] = "out" /\ t # Master)
<1>1. pc'[t] = to /\ batch'[t] = B /\ added' = added /\ B \subseteq added
    BY DEF Section, Move, PlaceInv
<1>2. \A u \in Thread \ {t} : (u \in fOk' <=> u \in fOk)
    BY DEF VerdictInv
<1>3. pc'[Master] = "out" <=> pc[Master] = "out"
    BY DEF Section, Move, Entering, PlaceInv, Thread
<1>4. pc[Master] = "out" => t # Master
    BY DEF Section, Entering
<1>5. fAllOk' \in BOOLEAN /\ (~fAllOk' => ~(added' \subseteq Valid))
    BY <1>1, AllOkFacts
<1>6. fAllOk' /\ pc'[Master] # "out" => added' \ Outstanding' \subseteq Valid
    BY <1>1, <1>3, AllOkFacts, SectionPlaces
<1>7. pc'[t] = "work" /\ t \notin fOk' => ~(added' \subseteq Valid)
  <2> SUFFICES ASSUME to = "work", t \notin fOk' PROVE ~(added \subseteq Valid)
    BY <1>1
  <2>1. ~(AllOk(t) /\ B \subseteq Valid)
    OBVIOUS
  <2> QED
    BY <1>1, <2>1, AllOkFacts
<1>8. pc'[t] = "work" /\ t \in fOk' => batch'[t] \subseteq Valid
  <2> SUFFICES ASSUME to = "work", t \in fOk' PROVE B \subseteq Valid
    BY <1>1
  <2> QED
    OBVIOUS
<1>9. result' \in BOOLEAN /\ fOk' \subseteq Thread
    BY DEF VerdictInv
<1>10. \A u \in Thread \ {t} :
         /\ pc'[u] = "work" /\ u \notin fOk' => ~(added' \subseteq Valid)
         /\ pc'[u] = "work" /\ u \in fOk' => batch'[u] \subseteq Valid
    BY <1>1, <1>2, SectionPlaces DEF VerdictInv
<1> QED
    BY <1>3, <1>4, <1>5, <1>6, <1>7, <1>8, <1>9, <1>10 DEF VerdictInv

-----------------------------------------------------------------------------
IndInv == PlaceInv /\ CountInv /\ VerdictInv /\ OutInv

LEMMA InitInd == Init => IndInv
<1> SUFFICES ASSUME Init PROVE IndInv
    OBVIOUS
<1>1. PlaceInv
    BY QueueAssumption DEF Init, PlaceInv, Thread
<1>2. Outstanding = {} /\ InLoop = {} /\ Sleeping = {}
    BY DEF Init, Outstanding, InLoop, Sleeping
<1>3. CountInv
    BY <1>2, FS_EmptySet DEF Init, CountInv
<1>4. VerdictInv
    BY DEF Init, VerdictInv
<1>5. OutInv
    BY <1>2 DEF Init, OutInv
<1> QED
    BY <1>1, <1>3, <1>4, <1>5 DEF IndInv

\* A step that moves threads only among places that count the same.
LEMMA SameSets ==
    ASSUME IndInv, UNCHANGED <<queue, counts, fAllOk, batch, fOk, result>>,
           PlaceInv', InLoop' = InLoop, Sleeping' = Sleeping
    PROVE  CountInv' /\ Outstanding' = Outstanding
BY DEF IndInv, CountInv, counts, Outstanding

LEMMA ConstructInd == IndInv /\ Construct => IndInv'
<1> SUFFICES ASSUME IndInv, Construct PROVE IndInv'
    OBVIOUS
<1> USE DEF IndInv, Construct
<1>1. Outstanding = {} /\ fAllOk = TRUE
    BY DEF OutInv
<1>2. \A t \in Thread : batch[t] = {} /\ pc[t] # "work"
    BY <1>1 DEF Outstanding, PlaceInv
<1>3. queue = {}
    BY <1>1 DEF Outstanding
<1>4. PlaceInv'
    BY <1>2, <1>3, QueueAssumption DEF PlaceInv, Thread
<1>5. InLoop' = InLoop /\ Sleeping' = Sleeping
    BY DEF PlaceInv, InLoop, Sleeping
<1>6. CountInv'
    BY <1>4, <1>5, SameSets
<1>7. VerdictInv'
    BY <1>1, <1>2 DEF VerdictInv, PlaceInv, Thread
<1>8. OutInv'
    BY DEF OutInv, PlaceInv, Thread
<1> QED
    BY <1>4, <1>6, <1>7, <1>8

LEMMA AddInd == ASSUME IndInv, NEW S \in SUBSET Check, Add(S) PROVE IndInv'
<1> USE DEF IndInv
<1>1. PICK woken \in SUBSET Asleep :
        pc' = [t \in Thread |-> IF t \in woken THEN "woken" ELSE pc[t]]
    BY DEF Add
<1>2. \A t \in Thread : pc'[t] = pc[t] \/ (t \in Worker /\ pc[t] = "wait" /\ pc'[t] = "woken")
    BY <1>1 DEF Asleep
<1>3. pc[Master] = "add" /\ pc'[Master] = "add"
    BY <1>2 DEF Add, Thread
<1>4. \A t \in Thread : S \cap batch[t] = {}
    BY DEF Add, PlaceInv
<1>5. PlaceInv'
  <2>1. queue' = queue \cup S /\ added' = added \cup S /\ batch' = batch
    BY DEF Add
  <2>2. pc' \in [Thread -> {"start", "out", "add", "work", "wait", "woken", "gone"}]
    BY <1>1 DEF PlaceInv
  <2>3. \A t \in Thread : pc'[t] = "work" <=> pc[t] = "work"
    BY <1>2
  <2>4. \A t \in Worker : pc'[t] \notin {"out", "add"}
    BY <1>2 DEF PlaceInv, Thread
  <2>5. \A t \in Thread : batch[t] \cap (queue \cup S) = {}
    BY <1>4 DEF PlaceInv
  <2>6. batch \in [Thread -> SUBSET (added \cup S)]
    BY DEF PlaceInv
  <2> QED
    BY <1>3, <2>1, <2>2, <2>3, <2>4, <2>5, <2>6 DEF PlaceInv
<1>6. InLoop' = InLoop /\ Sleeping' = Sleeping
    BY <1>2 DEF InLoop, Sleeping
<1>7. Outstanding' = Outstanding \cup S /\ Outstanding \cap S = {}
    BY <1>4 DEF Add, Outstanding, PlaceInv
<1>8. CountInv'
  <2>1. Cardinality(Outstanding \cup S) = Cardinality(Outstanding) + Cardinality(S)
    <3>1. IsFiniteSet(S) /\ IsFiniteSet(Outstanding)
      BY FiniteChecks
    <3>2. Cardinality(Outstanding \cup S)
            = Cardinality(Outstanding) + Cardinality(S) - Cardinality({})
      BY <1>7, <3>1, FS_Union
    <3> QED
      BY <3>1, <3>2, FS_EmptySet, FS_CardinalityType
  <2> QED
    BY <1>6, <1>7, <2>1 DEF CountInv, Add
<1>9. VerdictInv'
    BY <1>2, <1>3, <1>7 DEF VerdictInv, Add
<1> QED
    BY <1>3, <1>5, <1>8, <1>9 DEF OutInv

LEMMA ReturnInd == IndInv /\ ReturnFromWait => IndInv'
<1> SUFFICES ASSUME IndInv, ReturnFromWait PROVE IndInv'
    OBVIOUS
<1> USE DEF IndInv
<1>1. Master \in Thread
    BY DEF Thread
<1>2. Section(Master, {}, "out")
    BY DEF ReturnFromWait, Section, Leaves
<1>3. PlaceInv' /\ CountInv' /\ Outstanding' = Outstanding \ batch[Master]
    BY <1>1, <1>2, SectionPlaces, SectionCounts
<1>4. Outstanding' = {}
  <2>1. Cardinality(Outstanding') = 0 /\ IsFiniteSet(Outstanding')
    BY <1>3, FiniteChecks, FS_Difference DEF CountInv, ReturnFromWait
  <2> QED
    BY <2>1, FS_EmptySet
<1>5. result' = (added \subseteq Valid)
  <2>1. pc[Master] # "out"
    BY DEF ReturnFromWait, Entering
  <2>2. AllOk(Master) \in BOOLEAN /\ (AllOk(Master) <=> added \subseteq Valid)
    BY <1>1, <1>3, <1>4, <2>1, AllOkFacts
  <2> QED
    BY <2>2 DEF ReturnFromWait
<1>6. \A u \in Thread : pc'[u] # "work"
    BY <1>3, <1>4 DEF PlaceInv, Outstanding
<1>7. added' = added /\ fAllOk' = TRUE /\ fOk' = fOk /\ pc'[Master] = "out"
    BY <1>1 DEF ReturnFromWait, Move
<1>8. VerdictInv'
    BY <1>5, <1>6, <1>7 DEF VerdictInv
<1>9. OutInv'
    BY <1>4, <1>5, <1>7 DEF OutInv
<1> QED
    BY <1>3, <1>8, <1>9

\* While the master is out a section of a worker finds nothing to do.
LEMMA SectionOut ==
    ASSUME IndInv, NEW t \in Thread, NEW B, NEW to, Section(t, B, to), to # "out",
           fAllOk' = AllOk(t), result' = result, pc[Master] = "out"
    PROVE  /\ Outstanding' = {} /\ fAllOk' = TRUE /\ result' = (added' \subseteq Valid)
<1> USE DEF IndInv
<1>1. Outstanding = {} /\ fAllOk = TRUE /\ result = (added \subseteq Valid)
    BY DEF OutInv
<1>2. Outstanding' = {}
    BY <1>1, SectionPlaces
<1>3. pc[t] # "work"
    BY <1>1 DEF PlaceInv, Outstanding
<1>4. fAllOk' = TRUE
    BY <1>1, <1>3 DEF AllOk
<1> QED
    BY <1>1, <1>2, <1>4 DEF Section

LEMMA BlockInd == ASSUME IndInv, NEW t \in Thread, Block(t) PROVE IndInv'
<1> USE DEF IndInv
<1>1. Section(t, {}, "wait")
    BY DEF Block, Section
<1>2. fAllOk' = AllOk(t) /\ result' = result /\ fOk' = fOk
    BY DEF Block
<1>3. PlaceInv' /\ CountInv'
    BY <1>1, SectionPlaces, SectionCounts
<1>4. VerdictInv' /\ (pc'[Master] = "out" => pc[Master] = "out")
    BY <1>1, <1>2, SectionVerdict
<1>5. OutInv'
    BY <1>1, <1>2, <1>4, SectionOut DEF OutInv
<1> QED
    BY <1>3, <1>4, <1>5

LEMMA TakeInd == ASSUME IndInv, NEW t \in Thread, NEW S \in SUBSET queue, Take(t, S) PROVE IndInv'
<1> USE DEF IndInv
<1>1. S # {}
    BY BatchPositive, FS_EmptySet DEF Take
<1>2. Section(t, S, "work")
    BY <1>1 DEF Take, Section
<1>3. /\ fAllOk' = AllOk(t) /\ result' = result
      /\ fOk' = IF AllOk(t) /\ S \subseteq Valid THEN fOk \cup {t} ELSE fOk \ {t}
    BY DEF Take
<1>4. PlaceInv' /\ CountInv'
    BY <1>2, SectionPlaces, SectionCounts
<1>5. VerdictInv' /\ (pc'[Master] = "out" => pc[Master] = "out")
    BY <1>2, <1>3, SectionVerdict
<1>6. OutInv'
    BY <1>2, <1>3, <1>5, SectionOut DEF OutInv
<1> QED
    BY <1>4, <1>5, <1>6

LEMMA WakeInd ==
    ASSUME IndInv, NEW t \in Thread, SpuriousWakeup(t) \/ (t \in Worker /\ Interrupt(t))
    PROVE  IndInv'
<1> USE DEF IndInv
<1>1. /\ UNCHANGED <<queue, counts, fAllOk, batch, fOk, result>> /\ added' = added
      /\ pc' \in [Thread -> {"start", "out", "add", "work", "wait", "woken", "gone"}]
      /\ pc[t] \in {"wait", "woken"} /\ pc'[t] \in {"woken", "gone"}
      /\ pc'[t] = "gone" => t \in Worker
      /\ \A u \in Thread \ {t} : pc'[u] = pc[u]
    BY DEF SpuriousWakeup, Interrupt, PlaceInv
<1>2. PlaceInv'
    BY <1>1, QueueAssumption DEF PlaceInv, Thread
<1>3. InLoop' = InLoop /\ Sleeping' = Sleeping
    BY <1>1 DEF InLoop, Sleeping
<1>4. CountInv' /\ Outstanding' = Outstanding
    BY <1>1, <1>2, <1>3, SameSets
<1>5. pc'[Master] = "out" <=> pc[Master] = "out"
    BY <1>1 DEF Thread
<1>6. VerdictInv'
    BY <1>1, <1>4, <1>5 DEF VerdictInv
<1>7. OutInv'
    BY <1>1, <1>4, <1>5 DEF OutInv
<1> QED
    BY <1>2, <1>4, <1>6, <1>7

LEMMA StutterInd == IndInv /\ UNCHANGED vars => IndInv'
BY DEF IndInv, PlaceInv, CountInv, VerdictInv, OutInv, InLoop, Sleeping, Outstanding, vars, counts

LEMMA NextInd == IndInv /\ [Next]_vars => IndInv'
BY ConstructInd, AddInd, ReturnInd, BlockInd, TakeInd, WakeInd, StutterInd DEF Next, Thread

-----------------------------------------------------------------------------
\* Wait returns only when no check is outstanding, with the verdict over all of
\* them (CCheckQueue::Loop), and the assertion of CCheckQueueControl holds at
\* every block, whatever workers start, wake up or are interrupted.
THEOREM QueueIsSound == Spec => [](WaitTellsAll /\ IdleBetweenBlocks)
<1>1. IndInv => WaitTellsAll
    BY DEF IndInv, OutInv, WaitTellsAll
<1>2. IndInv => IdleBetweenBlocks
  <2> SUFFICES ASSUME IndInv, pc[Master] = "out" PROVE IsIdle
    BY DEF IdleBetweenBlocks
  <2>1. Outstanding = {} /\ fAllOk = TRUE
    BY DEF IndInv, OutInv
  <2>2. InLoop = Sleeping
    BY <2>1 DEF IndInv, PlaceInv, Outstanding, InLoop, Sleeping
  <2> QED
    BY <2>1, <2>2, FS_EmptySet DEF IndInv, CountInv, IsIdle
<1> QED
    BY <1>1, <1>2, InitInd, NextInd, PTL DEF Spec

\* The assertion of CCheckQueueControl (checkqueue.h:189) holds whenever a block
\* begins.
THEOREM QueueIdle == Spec => []IdleBetweenBlocks
  BY QueueIsSound, PTL

\* The counters of CCheckQueue stay within the number of threads and checks.
THEOREM QueueTypes == Spec => []TypeOK
<1>1. IndInv => TypeOK
  <2> SUFFICES ASSUME IndInv PROVE TypeOK
    OBVIOUS
  <2>1. IsFiniteSet(Thread) /\ InLoop \in SUBSET Thread /\ Sleeping \in SUBSET Thread
    BY FiniteThreads DEF InLoop, Sleeping
  <2>2. Cardinality(InLoop) \in 0 .. Cardinality(Thread) /\ Cardinality(Sleeping) \in 0 .. Cardinality(Thread)
    BY <2>1, FS_Subset, FS_CardinalityType
  <2>3. IsFiniteSet(Check) /\ Outstanding \in SUBSET Check
    BY QueueAssumption DEF Outstanding, IndInv, PlaceInv
  <2>4. Cardinality(Outstanding) \in 0 .. Cardinality(Check)
    BY <2>3, FS_Subset, FS_CardinalityType
  <2> QED BY <2>2, <2>4 DEF IndInv, PlaceInv, CountInv, VerdictInv, TypeOK
<1> QED BY <1>1, InitInd, NextInd, PTL DEF Spec
=============================================================================
