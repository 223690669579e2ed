----------------------------- MODULE CheckQueue ------------------------------
(***************************************************************************)
(* The queue of script checks (src/src/checkqueue.h): ConnectBlock adds    *)
(* checks while it goes through the transactions of a block, worker        *)
(* threads take them in batches, and Wait makes the caller one more worker *)
(* until all are done.                                                     *)
(*                                                                         *)
(* A critical section of the mutex is one action.  A thread that has been  *)
(* notified still needs the mutex ("woken").  Checks are taken in any      *)
(* order ("the order of booleans doesn't matter").  Workers may start late *)
(* and are interrupted at shutdown, which boost allows only in a wait.     *)
(***************************************************************************)
EXTENDS Integers, FiniteSets, FiniteSetsExt

CONSTANTS Worker, Master,
          Check,          \* bound: at most the checks of this set in one block
          Valid,          \* what a check returns
          nBatchSize

Thread == Worker \cup {Master}

ASSUME QueueAssumption ==
    /\ IsFiniteSet(Worker) /\ Master \notin Worker
    /\ IsFiniteSet(Check) /\ Valid \subseteq Check
    /\ nBatchSize \in Nat \ {0}

VARIABLES
    queue, nIdle, nTotal, fAllOk, nTodo,
    pc,        \* where a thread is
    batch,     \* vChecks of a thread
    fOk,       \* the threads whose fOk is true
    added,     \* the checks added since the control was constructed
    result     \* what the last Wait returned

counts == <<nIdle, nTotal, nTodo>>
vars == <<queue, counts, fAllOk, pc, batch, fOk, added, result>>

Init ==
    /\ queue = {} /\ nIdle = 0 /\ nTotal = 0 /\ fAllOk = TRUE /\ nTodo = 0
    /\ pc = [t \in Thread |-> IF t = Master THEN "out" ELSE "start"]
    /\ batch = [t \in Thread |-> {}] /\ fOk = Thread
    /\ added = {} /\ result = TRUE

-----------------------------------------------------------------------------
IsIdle == nTotal = nIdle /\ nTodo = 0 /\ fAllOk

\* CCheckQueueControl: asserts IsIdle.
Construct ==
    /\ pc[Master] = "out"
    /\ IsIdle
    /\ pc' = [pc EXCEPT ![Master] = "add"]
    /\ added' = {}
    /\ UNCHANGED <<queue, counts, fAllOk, batch, fOk, result>>

Asleep == {t \in Worker : pc[t] = "wait"}

\* Add: notify_one for a single check, notify_all for more.
Add(S) ==
    /\ pc[Master] = "add"
    /\ S # {} /\ S \cap added = {}
    /\ queue' = queue \cup S
    /\ nTodo' = nTodo + Cardinality(S)
    /\ added' = added \cup S
    /\ \E woken \in SUBSET Asleep :
         /\ IF Cardinality(S) = 1 /\ Asleep # {} THEN Cardinality(woken) = 1 ELSE woken = Asleep
         /\ pc' = [t \in Thread |-> IF t \in woken THEN "woken" ELSE pc[t]]
    /\ UNCHANGED <<nIdle, nTotal, fAllOk, batch, fOk, result>>

-----------------------------------------------------------------------------
(* Loop.  A thread enters its critical section at the first iteration, with *)
(* a finished batch, or from cond.wait.                                     *)

Entering(t) == pc[t] \in {"start", "add", "work", "woken"}

First(t) == pc[t] \in {"start", "add"}

\* Mutant: the outcome of the batch is not taken over.
AllOkBefore(t) == fAllOk

AllOk(t) == fAllOk /\ (pc[t] = "work" => t \in fOk)

Todo(t) == IF pc[t] = "work" THEN nTodo - Cardinality(batch[t]) ELSE nTodo

Total(t) == IF First(t) THEN nTotal + 1 ELSE nTotal

Idle(t) == IF pc[t] = "woken" THEN nIdle - 1 ELSE nIdle

\* Mutant: the master is not notified.
MoveQuietly(t, to) == pc' = [pc EXCEPT ![t] = to]

\* Thread t goes on to place to; the worker that processed the last check
\* notifies the master.
Move(t, to) ==
    LET notify == pc[t] = "work" /\ Todo(t) = 0 /\ t # Master /\ pc[Master] = "wait"
    IN  pc' = [u \in Thread |-> IF u = t THEN to
                                ELSE IF u = Master /\ notify THEN "woken" ELSE pc[u]]

\* Mutant: nTotal is not decremented.
LeavesKeep(t) == Total(t)

\* nTotal when the thread returns.
Leaves(t) == Total(t) - 1

\* Nothing is queued, the thread is the master and nothing is outstanding: Wait
\* returns.  fQuit is never set, so that a worker does not return.
ReturnFromWait ==
    /\ Entering(Master)
    /\ queue = {} /\ Todo(Master) = 0
    /\ nTotal' = Leaves(Master) /\ nIdle' = Idle(Master) /\ nTodo' = 0
    /\ result' = AllOk(Master) /\ fAllOk' = TRUE
    /\ Move(Master, "out")
    /\ batch' = [batch EXCEPT ![Master] = {}]
    /\ UNCHANGED <<queue, fOk, added>>

\* Nothing is queued: cond.wait.
Block(t) ==
    /\ Entering(t)
    /\ queue = {} /\ ~(t = Master /\ Todo(t) = 0)
    /\ nTotal' = Total(t) /\ nIdle' = Idle(t) + 1 /\ nTodo' = Todo(t)
    /\ fAllOk' = AllOk(t)
    /\ Move(t, "wait")
    /\ batch' = [batch EXCEPT ![t] = {}]
    /\ UNCHANGED <<queue, fOk, added, result>>

\* nNow.
BatchLength(t) ==
    LET share == Cardinality(queue) \div (Total(t) + Idle(t) + 1)
    IN  Max({1, Min({nBatchSize, share})})

\* The thread takes a batch and, outside the mutex, executes the checks, unless
\* one has failed already.
Take(t, S) ==
    /\ Entering(t)
    /\ S \subseteq queue /\ Cardinality(S) = BatchLength(t)
    /\ queue' = queue \ S
    /\ nTotal' = Total(t) /\ nIdle' = Idle(t) /\ nTodo' = Todo(t)
    /\ fAllOk' = AllOk(t)
    /\ Move(t, "work")
    /\ batch' = [batch EXCEPT ![t] = S]
    /\ fOk' = IF AllOk(t) /\ S \subseteq Valid THEN fOk \cup {t} ELSE fOk \ {t}
    /\ UNCHANGED <<added, result>>

Critical(t) ==
    \/ t = Master /\ ReturnFromWait
    \/ Block(t)
    \/ \E S \in SUBSET queue : Take(t, S)

\* A wait ends without a notification.
SpuriousWakeup(t) ==
    /\ pc[t] = "wait"
    /\ pc' = [pc EXCEPT ![t] = "woken"]
    /\ UNCHANGED <<queue, counts, fAllOk, batch, fOk, added, result>>

\* threadGroup.interrupt_all at shutdown: the wait of a worker throws.
Interrupt(t) ==
    /\ pc[t] \in {"wait", "woken"}
    /\ pc' = [pc EXCEPT ![t] = "gone"]
    /\ UNCHANGED <<queue, counts, fAllOk, batch, fOk, added, result>>

Next ==
    \/ Construct
    \/ \E S \in SUBSET Check : Add(S)
    \/ ReturnFromWait
    \/ \E t \in Thread : Block(t)
    \/ \E t \in Thread : \E S \in SUBSET queue : Take(t, S)
    \/ \E t \in Thread : SpuriousWakeup(t)
    \/ \E t \in Worker : Interrupt(t)

Spec == Init /\ [][Next]_vars

\* A thread that wants the mutex gets it, a check returns, and the caller of
\* Add ends with Wait, in the destructor of the control if not before.
FairSpec == Spec /\ \A t \in Thread : WF_vars(Critical(t))

-----------------------------------------------------------------------------
Outstanding == queue \cup UNION {batch[t] : t \in Thread}

\* The types of the queue; its counters stay within what they count.
TypeOK ==
    /\ queue \subseteq added /\ added \subseteq Check
    /\ nIdle \in 0 .. Cardinality(Thread) /\ nTotal \in 0 .. Cardinality(Thread)
    /\ nTodo \in 0 .. Cardinality(Check)
    /\ fAllOk \in BOOLEAN /\ result \in BOOLEAN
    /\ pc \in [Thread -> {"start", "out", "add", "work", "wait", "woken", "gone"}]
    /\ batch \in [Thread -> SUBSET added] /\ fOk \subseteq Thread

\* "Wait until execution finishes, and return whether all evaluations were
\* successful" (src/src/checkqueue.h:139): when Wait has returned nothing is in
\* the queue or in a batch, and the result is true exactly if every check added
\* since the control was constructed is valid.
WaitTellsAll ==
    pc[Master] = "out" => Outstanding = {} /\ result = (added \subseteq Valid)

\* The assertion of CCheckQueueControl: "passed queue is supposed to be unused"
\* (src/src/checkqueue.h:186), whatever workers started, woke up or were
\* interrupted since the last block.
IdleBetweenBlocks == pc[Master] = "out" => IsIdle

\* Wait returns: the last worker's notification of the master is never lost, and
\* the master does without workers that are gone.
WaitReturns == pc[Master] \in {"work", "wait", "woken"} ~> pc[Master] = "out"
=============================================================================
