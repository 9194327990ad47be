----------------------------- MODULE CheckQueue -----------------------------
(***************************************************************************)
(* CCheckQueue: the master adds script checks to a queue and then joins    *)
(* the worker threads until all of them are done.  Every critical section  *)
(* of the mutex is one action; a thread that waits on its condition        *)
(* variable leaves it and comes back in an action of its own.              *)
(*                                                                         *)
(* As the source says, the order of the checks does not matter, so the     *)
(* stack is a set and a batch any subset of the right size.  Threads may   *)
(* be interrupted while they wait, as they are at shutdown: the import     *)
(* thread, which is then a master, among them.                             *)
(***************************************************************************)
EXTENDS Integers, FiniteSets, FiniteSetsExt

CONSTANTS
  Workers,       \* threads in CCheckQueue::Thread
  Masters,       \* threads that create a CCheckQueueControl
  Checks,        \* the checks that can be added
  Bad,           \* the checks that return false
  nBatchSize,
  MaxRounds,     \* how many controls are created
  MaxInterrupts,
  Null

Threads == Workers \cup Masters

ASSUME ThreadsAndChecks ==
  /\ Workers \cap Masters = {} /\ Null \notin Threads
  /\ IsFiniteSet(Checks) /\ Bad \subseteq Checks
  /\ nBatchSize \in Nat \ {0}

VARIABLES
  queue,         \* queue
  nTodo, nIdle, nTotal, fAllOk,
  control,       \* the owner of ControlMutex
  pc,            \* where a thread is
  sleeping,      \* threads blocked on condWorker or condMaster
  vChecks,       \* the local batch of a thread; nNow is its size
  fOk,           \* the local result of a thread
  result,        \* what Wait returned to the owner of the control
  added,         \* history: the checks added under the current control
  ran,           \* history: the ones evaluated
  rounds, interrupts

shared == <<queue, nTodo, nIdle, nTotal, fAllOk>>
locals == <<pc, sleeping, vChecks, fOk>>
round == <<control, result, added, ran>>
vars == <<shared, locals, round, rounds, interrupts>>

\* One type invariant for the module.
TypeOK ==
  /\ queue \subseteq Checks
  /\ nTodo \in Nat /\ nIdle \in Nat /\ nTotal \in Nat /\ fAllOk \in BOOLEAN
  /\ control \in Masters \cup {Null}
  /\ pc \in [Threads -> {"out", "adding", "unwind", "waiting", "work", "clean", "returned", "gone"}]
  /\ sleeping \subseteq Threads
  /\ vChecks \in [Threads -> SUBSET Checks]
  /\ fOk \in [Threads -> BOOLEAN]
  /\ result \in BOOLEAN
  /\ added \subseteq Checks /\ ran \subseteq Checks
  /\ rounds \in 0..MaxRounds /\ interrupts \in 0..MaxInterrupts

(***************************************************************************)
(* The master's side.                                                      *)
(***************************************************************************)
\* CCheckQueueControl's constructor takes ControlMutex.
NewControl(m) ==
  /\ pc[m] = "out" /\ control = Null /\ rounds < MaxRounds
  /\ control' = m
  /\ pc' = [pc EXCEPT ![m] = "adding"]
  /\ added' = {} /\ ran' = {}
  /\ rounds' = rounds + 1
  /\ UNCHANGED <<shared, sleeping, vChecks, fOk, result, interrupts>>

\* Add: one worker is notified of one check, all of them of several.
Add(m, S) ==
  /\ pc[m] = "adding"
  /\ S # {} /\ S \cap added = {}
  /\ queue' = queue \cup S
  /\ nTodo' = nTodo + Cardinality(S)
  /\ added' = added \cup S
  /\ IF Cardinality(S) = 1 /\ sleeping \cap Workers # {}
     THEN \E w \in sleeping \cap Workers : sleeping' = sleeping \ {w}
     ELSE sleeping' = IF Cardinality(S) = 1 THEN sleeping ELSE sleeping \ Workers
  /\ UNCHANGED <<nIdle, nTotal, fAllOk, pc, vChecks, fOk, control, result, ran, rounds, interrupts>>

\* CCheckQueueControl's destructor after Wait has returned.
ReleaseControl(m) ==
  /\ pc[m] = "returned"
  /\ control' = Null
  /\ pc' = [pc EXCEPT ![m] = "out"]
  /\ UNCHANGED <<shared, sleeping, vChecks, fOk, result, added, ran, rounds, interrupts>>

(***************************************************************************)
(* Loop.                                                                   *)
(***************************************************************************)
\* How many of n queued checks a thread takes.
BatchSize(n, total, idle) ==
  LET share == n \div (total + idle + 1)
      capped == IF share > nBatchSize THEN nBatchSize ELSE share
  IN IF capped < 1 THEN 1 ELSE capped

\* Mutant: the result is not reset for the next round.
ReturnStatusKept(t, total, idle, allOk, awake) ==
  /\ result' = allOk
  /\ fAllOk' = allOk
  /\ nTotal' = total - 1 /\ nIdle' = idle
  /\ pc' = [pc EXCEPT ![t] = "returned"]
  /\ vChecks' = [vChecks EXCEPT ![t] = {}]
  /\ sleeping' = awake
  /\ UNCHANGED <<queue, fOk>>

\* The master leaves Loop with the result, which is reset for new work later.
ReturnStatus(t, total, idle, allOk, awake) ==
  /\ result' = allOk
  /\ fAllOk' = TRUE
  /\ nTotal' = total - 1 /\ nIdle' = idle
  /\ pc' = [pc EXCEPT ![t] = "returned"]
  /\ vChecks' = [vChecks EXCEPT ![t] = {}]
  /\ sleeping' = awake
  /\ UNCHANGED <<queue, fOk>>

\* cond.wait
Sleep(t, total, idle, allOk, awake) ==
  /\ nIdle' = idle + 1 /\ nTotal' = total /\ fAllOk' = allOk
  /\ pc' = [pc EXCEPT ![t] = "waiting"]
  /\ vChecks' = [vChecks EXCEPT ![t] = {}]
  /\ sleeping' = awake \cup {t}
  /\ UNCHANGED <<queue, fOk, result>>

\* Mutant: the batch is copied.
TakeBatchCopies(t, total, idle, allOk, awake) ==
  \E S \in kSubset(BatchSize(Cardinality(queue), total, idle), queue) :
    /\ vChecks' = [vChecks EXCEPT ![t] = S]
    /\ fOk' = [fOk EXCEPT ![t] = allOk]
    /\ pc' = [pc EXCEPT ![t] = "work"]
    /\ nTotal' = total /\ nIdle' = idle /\ fAllOk' = allOk
    /\ sleeping' = awake
    /\ UNCHANGED <<queue, result>>

\* A batch is moved from the queue to the thread.
TakeBatch(t, total, idle, allOk, awake) ==
  \E S \in kSubset(BatchSize(Cardinality(queue), total, idle), queue) :
    /\ vChecks' = [vChecks EXCEPT ![t] = S]
    /\ queue' = queue \ S
    /\ fOk' = [fOk EXCEPT ![t] = allOk]
    /\ pc' = [pc EXCEPT ![t] = "work"]
    /\ nTotal' = total /\ nIdle' = idle /\ fAllOk' = allOk
    /\ sleeping' = awake
    /\ UNCHANGED result

\* Mutant: the master leaves when the queue is empty.
LoopFromQueueEmptyOnly(t, todo, total, idle, allOk, awake) ==
  /\ nTodo' = todo
  /\ IF queue # {} THEN TakeBatch(t, total, idle, allOk, awake)
     ELSE IF t \in Masters THEN ReturnStatus(t, total, idle, allOk, awake)
     ELSE Sleep(t, total, idle, allOk, awake)
  /\ UNCHANGED <<control, added, ran, rounds, interrupts>>

\* The critical section from "logically, the do loop starts here" on, with the
\* values the counters have there and the threads not notified so far.
LoopFrom(t, todo, total, idle, allOk, awake) ==
  /\ nTodo' = todo
  /\ IF queue # {} THEN TakeBatch(t, total, idle, allOk, awake)
     ELSE IF t \in Masters /\ todo = 0 THEN ReturnStatus(t, total, idle, allOk, awake)
     ELSE Sleep(t, total, idle, allOk, awake)
  /\ UNCHANGED <<control, added, ran, rounds, interrupts>>

\* The first iteration: a worker starts, the master calls Wait, or the
\* destructor of its control does.
EnterLoop(t) ==
  /\ pc[t] \in IF t \in Masters THEN {"adding", "unwind"} ELSE {"out"}
  /\ LoopFrom(t, nTodo, nTotal + 1, nIdle, fAllOk, sleeping)

\* The batch is executed without the lock.  After the first failure, and when a
\* failure was known before, the rest is skipped.
Execute(t) ==
  /\ pc[t] = "work"
  /\ fOk' = [fOk EXCEPT ![t] = @ /\ vChecks[t] \cap Bad = {}]
  /\ \E S \in SUBSET vChecks[t] :
       /\ S = {} <=> ~fOk[t]
       /\ fOk[t] => IF vChecks[t] \cap Bad = {} THEN S = vChecks[t] ELSE Cardinality(S \cap Bad) = 1
       /\ ran' = ran \cup S
  /\ pc' = [pc EXCEPT ![t] = "clean"]
  /\ UNCHANGED <<shared, sleeping, vChecks, control, result, added, rounds, interrupts>>

\* Mutant: the master is not told that the last check is done.
CleanUpSilent(t) ==
  /\ pc[t] = "clean"
  /\ LoopFrom(t, nTodo - Cardinality(vChecks[t]), nTotal, nIdle, fAllOk /\ fOk[t], sleeping)

\* Mutant: the batch's result is assigned, not combined.
CleanUpOverwrites(t) ==
  /\ pc[t] = "clean"
  /\ LET todo == nTodo - Cardinality(vChecks[t])
         notify == todo = 0 /\ t \notin Masters
     IN LoopFrom(t, todo, nTotal, nIdle, fOk[t],
                 IF notify THEN sleeping \ Masters ELSE sleeping)

\* The clean-up of the previous iteration.  Only the owner of the control waits
\* on condMaster, so notify_one reaches it.
CleanUp(t) ==
  /\ pc[t] = "clean"
  /\ LET todo == nTodo - Cardinality(vChecks[t])
         notify == todo = 0 /\ t \notin Masters
     IN LoopFrom(t, todo, nTotal, nIdle, fAllOk /\ fOk[t],
                 IF notify THEN sleeping \ Masters ELSE sleeping)

\* cond.wait returns.
WakeUp(t) ==
  /\ pc[t] = "waiting" /\ t \notin sleeping
  /\ LoopFrom(t, nTodo, nTotal, nIdle - 1, fAllOk, sleeping)

\* A condition variable may wake a thread without notification.
SpuriousWakeUp(t) ==
  /\ t \in sleeping
  /\ sleeping' = sleeping \ {t}
  /\ UNCHANGED <<shared, pc, vChecks, fOk, round, rounds, interrupts>>

\* cond.wait throws boost::thread_interrupted.  A worker ends; a master unwinds
\* into the destructor of its control, which calls Wait again.
Interrupt(t) ==
  /\ pc[t] = "waiting" /\ interrupts < MaxInterrupts
  /\ interrupts' = interrupts + 1
  /\ sleeping' = sleeping \ {t}
  /\ pc' = [pc EXCEPT ![t] = IF t \in Masters THEN "unwind" ELSE "gone"]
  /\ UNCHANGED <<shared, vChecks, fOk, round, rounds>>

Init ==
  /\ queue = {} /\ nTodo = 0 /\ nIdle = 0 /\ nTotal = 0 /\ fAllOk = TRUE
  /\ control = Null /\ result = TRUE /\ added = {} /\ ran = {}
  /\ pc = [t \in Threads |-> "out"] /\ sleeping = {}
  /\ vChecks = [t \in Threads |-> {}] /\ fOk = [t \in Threads |-> TRUE]
  /\ rounds = 0 /\ interrupts = 0

Step(t) == EnterLoop(t) \/ Execute(t) \/ CleanUp(t) \/ WakeUp(t)

Next ==
  \/ \E m \in Masters :
       \/ NewControl(m) \/ ReleaseControl(m)
       \/ \E S \in SUBSET Checks : Add(m, S)
  \/ \E t \in Threads : Step(t) \/ SpuriousWakeUp(t) \/ Interrupt(t)

\* Threads keep running; that a worker is started at all is not assumed, as the
\* master can do everything alone.
Fairness ==
  /\ \A m \in Masters : WF_vars(Step(m)) /\ WF_vars(ReleaseControl(m))
  /\ \A w \in Workers : WF_vars(Execute(w) \/ CleanUp(w) \/ WakeUp(w))

Spec == Init /\ [][Next]_vars /\ Fairness

(***************************************************************************)
(* Properties.                                                             *)
(***************************************************************************)
\* The checks that are queued or in a thread's batch.
Outstanding == queue \cup UNION {vChecks[t] : t \in Threads}

\* nTodo counts the verifications that have not completed yet, those in the
\* threads' own batches included, and no check is in two places.
TodoCounts ==
  /\ nTodo = Cardinality(Outstanding)
  /\ \A t \in Threads : vChecks[t] \cap queue = {}
  /\ \A t, u \in Threads : t # u => vChecks[t] \cap vChecks[u] = {}

\* Wait returns whether all evaluations were successful, although batches are
\* cut short and rounds share the counters.
WaitReturnsConjunction ==
  \A m \in Masters : pc[m] = "returned" => (result <=> added \cap Bad = {})

\* When Wait returns true, every check of the round has been evaluated.
NoneSkipped ==
  \A m \in Masters : pc[m] = "returned" /\ result => ran = added

\* "guarantees the passed queue is finished before continuing": outside of a
\* control nothing is outstanding and no failure is left over, whatever was
\* interrupted.
FinishedBeforeRelease ==
  control = Null => /\ nTodo = 0 /\ Outstanding = {} /\ fAllOk
                    /\ \A w \in Workers : pc[w] \notin {"work", "clean"}

\* The master never waits forever: a control taken is released.
ControlReleased ==
  \A m \in Masters : pc[m] \in {"unwind", "waiting", "work", "clean"} ~> control = Null
=============================================================================
