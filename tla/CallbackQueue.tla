---------------------------- MODULE CallbackQueue ----------------------------
(***************************************************************************)
(* The validation interface's callback queue: SingleThreadedSchedulerClient *)
(* on top of CScheduler, the threads that generate callbacks, and the      *)
(* shutdown sequence.  A callback is not run by a thread of its own: a     *)
(* ProcessQueue task is given to the scheduler when there is something to  *)
(* do and nobody is doing it, and each runs one callback.                  *)
(*                                                                         *)
(* Critical sections of newTaskMutex and of m_cs_callbacks_pending are one *)
(* action each.  A thread that generates an event does so while it holds   *)
(* cs_main, and subscribers take cs_main in their callbacks.               *)
(***************************************************************************)
EXTENDS Integers, Sequences, FiniteSets

CONSTANTS
  Services,      \* threads in CScheduler::serviceQueue
  Clients,       \* RPC and message threads: stopped before the thread group
  Importers,     \* threads of the thread group that run ActivateBestChain
  Main,          \* the thread that runs Shutdown
  QueueLimit,    \* the backlog above which ActivateBestChain waits
  MaxPush,       \* how many callbacks a thread generates
  Null

Producers == Clients \cup Importers
Threads == Services \cup Producers \cup {Main}

ASSUME ThreadKinds ==
  /\ Services \cap Producers = {} /\ Main \notin Services \cup Producers /\ Null \notin Threads
  /\ Clients \cap Importers = {}
  /\ QueueLimit \in Nat /\ MaxPush \in Nat

Callbacks == [by : Threads, n : Nat, kind : {"event", "promise"}]

ASSUME NullIsNoCallback == Null \notin Callbacks

VARIABLES
  callbacksPending,   \* m_callbacks_pending
  callbacksRunning,   \* m_are_callbacks_running
  taskQueue,          \* the tasks whose time has come, earliest first
  timer,              \* the periodic task: "later", or due or "running"
  sleeping,           \* service threads blocked on newTaskScheduled
  interrupted,        \* threadGroup.interrupt_all was called
  pc, after,          \* where each thread is, and continues after AddToProcessQueue
  current,            \* the callback a thread is running
  csMain,             \* the owner of cs_main
  pushed,             \* how many callbacks each thread has generated
  completed           \* how many of each thread's callbacks have run

client == <<callbacksPending, callbacksRunning>>
scheduler == <<taskQueue, timer, sleeping>>
vars == <<client, scheduler, interrupted, pc, after, current, csMain, pushed, completed>>

Labels == {"top", "wait", "waituntil", "repeat", "process", "callback", "ran", "maybe", "schedule",
           "idle", "lock", "push", "unlock", "throttle", "waitsync", "waitthrottle",
           "joining", "flush", "empty", "done", "gone"}

\* Where a thread may go on after AddToProcessQueue or ProcessQueue.
Continuations == {"top", "idle", "unlock", "waitsync", "waitthrottle", "empty"}

\* The type of the state; a thread has a callback in hand while it runs it.
TypeOK ==
  /\ callbacksPending \in Seq(Callbacks) /\ callbacksRunning \in BOOLEAN
  /\ taskQueue \in Seq({"process", "timer"}) /\ timer \in {"later", "due", "running"}
  /\ sleeping \subseteq Services /\ interrupted \in BOOLEAN
  /\ pc \in [Threads -> Labels] /\ after \in [Threads -> Continuations]
  /\ current \in [Threads -> Callbacks \cup {Null}]
  /\ csMain \in Threads \cup {Null}
  /\ pushed \in [Threads -> Nat]
  /\ completed \in [Threads -> Nat]
  /\ \A t \in Threads : current[t] # Null <=> pc[t] = "callback"

Goto(t, label) == pc' = [pc EXCEPT ![t] = label]

\* CScheduler::schedule wakes one of the threads that wait for a task.
NotifyOne ==
  IF sleeping = {} THEN UNCHANGED sleeping
  ELSE \E t \in sleeping : sleeping' = sleeping \ {t}

(***************************************************************************)
(* SingleThreadedSchedulerClient.                                          *)
(***************************************************************************)
\* AddToProcessQueue up to its call of MaybeScheduleProcessQueue, after which
\* the thread continues at label.
AddToProcessQueue(t, kind, label) ==
  /\ callbacksPending' = Append(callbacksPending, [by |-> t, n |-> pushed[t] + 1, kind |-> kind])
  /\ pushed' = [pushed EXCEPT ![t] = @ + 1]
  /\ after' = [after EXCEPT ![t] = label]
  /\ Goto(t, "maybe")
  /\ UNCHANGED <<callbacksRunning, current>>

\* MaybeScheduleProcessQueue: nothing to do, or somebody is doing it.
MaybeScheduleProcessQueue(t) ==
  /\ pc[t] = "maybe"
  /\ Goto(t, IF callbacksRunning \/ callbacksPending = <<>> THEN after[t] ELSE "schedule")
  /\ UNCHANGED <<client, scheduler, interrupted, after, current, csMain, pushed, completed>>

\* CScheduler::schedule of a ProcessQueue task.
Schedule(t) ==
  /\ pc[t] = "schedule"
  /\ taskQueue' = Append(taskQueue, "process")
  /\ NotifyOne
  /\ Goto(t, after[t])
  /\ UNCHANGED <<client, timer, interrupted, after, current, csMain, pushed, completed>>

\* Mutant: nobody looks whether a callback is running.
ProcessQueueConcurrent(t) ==
  /\ pc[t] = "process"
  /\ IF callbacksPending = <<>>
     THEN /\ Goto(t, after[t])
          /\ UNCHANGED <<client, current>>
     ELSE /\ callbacksRunning' = TRUE
          /\ current' = [current EXCEPT ![t] = Head(callbacksPending)]
          /\ callbacksPending' = Tail(callbacksPending)
          /\ Goto(t, "callback")
  /\ UNCHANGED <<scheduler, interrupted, after, csMain, pushed, completed>>

\* ProcessQueue up to the call of the callback.
ProcessQueue(t) ==
  /\ pc[t] = "process"
  /\ IF callbacksRunning \/ callbacksPending = <<>>
     THEN /\ Goto(t, after[t])
          /\ UNCHANGED <<client, current>>
     ELSE /\ callbacksRunning' = TRUE
          /\ current' = [current EXCEPT ![t] = Head(callbacksPending)]
          /\ callbacksPending' = Tail(callbacksPending)
          /\ Goto(t, "callback")
  /\ UNCHANGED <<scheduler, interrupted, after, csMain, pushed, completed>>

\* The callback.  A subscriber's takes cs_main and releases it; the one of
\* SyncWithValidationInterfaceQueue only sets the promise.
Callback(t) ==
  /\ pc[t] = "callback"
  /\ current[t].kind = "event" => csMain = Null
  /\ completed' = [completed EXCEPT ![current[t].by] = @ + 1]
  /\ current' = [current EXCEPT ![t] = Null]
  /\ Goto(t, "ran")
  /\ UNCHANGED <<client, scheduler, interrupted, after, csMain, pushed>>

\* Mutant: the queue is not looked at again.
ClearRunningOnly(t) ==
  /\ pc[t] = "ran"
  /\ callbacksRunning' = FALSE
  /\ Goto(t, after[t])
  /\ UNCHANGED <<callbacksPending, scheduler, interrupted, after, current, csMain, pushed, completed>>

\* RAIICallbacksRunning: the flag is cleared, then MaybeScheduleProcessQueue.
ClearRunning(t) ==
  /\ pc[t] = "ran"
  /\ callbacksRunning' = FALSE
  /\ Goto(t, "maybe")
  /\ UNCHANGED <<callbacksPending, scheduler, interrupted, after, current, csMain, pushed, completed>>

(***************************************************************************)
(* CScheduler::serviceQueue.                                               *)
(***************************************************************************)
\* The thread has newTaskMutex: at the top of the loop, or woken.
AtTop(t) == t \in Services \ sleeping /\ pc[t] \in {"top", "wait", "waituntil"}

\* taskQueue is empty, or its first task is the periodic one and not due.
WaitForTask(t) ==
  /\ AtTop(t) /\ ~interrupted
  /\ taskQueue = <<>>
  /\ Goto(t, IF timer = "later" THEN "waituntil" ELSE "wait")
  /\ sleeping' = sleeping \cup {t}
  /\ UNCHANGED <<client, taskQueue, timer, interrupted, after, current, csMain, pushed, completed>>

TakeTask(t) ==
  /\ AtTop(t) /\ ~interrupted
  /\ taskQueue # <<>> /\ Head(taskQueue) = "process"
  /\ taskQueue' = Tail(taskQueue)
  /\ Goto(t, "process")
  /\ UNCHANGED <<client, timer, sleeping, interrupted, after, current, csMain, pushed, completed>>

TakeTimer(t) ==
  /\ AtTop(t) /\ ~interrupted
  /\ taskQueue # <<>> /\ Head(taskQueue) = "timer"
  /\ taskQueue' = Tail(taskQueue)
  /\ timer' = "running"
  /\ Goto(t, "repeat")
  /\ UNCHANGED <<client, sleeping, interrupted, after, current, csMain, pushed, completed>>

\* Repeat: the periodic function schedules itself again.
Repeat(t) ==
  /\ pc[t] = "repeat"
  /\ timer' = "later"
  /\ NotifyOne
  /\ Goto(t, "top")
  /\ UNCHANGED <<client, taskQueue, interrupted, after, current, csMain, pushed, completed>>

\* Time passes: wait_until returns with a timeout.
TimerDue ==
  /\ timer = "later"
  /\ timer' = "due"
  /\ taskQueue' = Append(taskQueue, "timer")
  /\ sleeping' = {t \in sleeping : pc[t] # "waituntil"}
  /\ UNCHANGED <<client, interrupted, pc, after, current, csMain, pushed, completed>>

\* Both wait and wait_until throw when the thread was interrupted, and every
\* task is preceded by one of them.
ServiceInterrupted(t) ==
  /\ AtTop(t) /\ interrupted
  /\ Goto(t, "gone")
  /\ UNCHANGED <<client, scheduler, interrupted, after, current, csMain, pushed, completed>>

(***************************************************************************)
(* The threads that generate callbacks.                                    *)
(***************************************************************************)
\* SyncWithValidationInterfaceQueue, called by an RPC.
Sync(p) ==
  /\ p \in Clients /\ pc[p] = "idle" /\ pushed[p] < MaxPush
  /\ AddToProcessQueue(p, "promise", "waitsync")
  /\ UNCHANGED <<scheduler, interrupted, csMain, completed>>

\* A round of ActivateBestChain begins and looks at the backlog.
BeginRound(p) ==
  /\ pc[p] = "idle" /\ pushed[p] < MaxPush
  /\ p \in Importers => ~interrupted
  /\ Goto(p, IF Len(callbacksPending) > QueueLimit THEN "throttle" ELSE "lock")
  /\ UNCHANGED <<client, scheduler, interrupted, after, current, csMain, pushed, completed>>

Throttle(p) ==
  /\ pc[p] = "throttle"
  /\ AddToProcessQueue(p, "promise", "waitthrottle")
  /\ UNCHANGED <<scheduler, interrupted, csMain, completed>>

\* promise.get_future().wait() returns.
SyncReturns(p) ==
  /\ pc[p] \in {"waitsync", "waitthrottle"}
  /\ completed[p] = pushed[p]
  /\ Goto(p, IF pc[p] = "waitsync" THEN "idle" ELSE "lock")
  /\ UNCHANGED <<client, scheduler, interrupted, after, current, csMain, pushed, completed>>

LockMain(p) ==
  /\ pc[p] = "lock" /\ csMain = Null
  /\ csMain' = p
  /\ Goto(p, "push")
  /\ UNCHANGED <<client, scheduler, interrupted, after, current, pushed, completed>>

\* A signal generated while the chain is updated, under cs_main.
PushEvent(p) ==
  /\ pc[p] = "push"
  /\ AddToProcessQueue(p, "event", "unlock")
  /\ UNCHANGED <<scheduler, interrupted, csMain, completed>>

\* Mutant: cs_main is held until the event has been completed.
UnlockMainDrained(p) ==
  /\ pc[p] = "unlock" /\ completed[p] = pushed[p]
  /\ csMain' = Null
  /\ Goto(p, "idle")
  /\ UNCHANGED <<client, scheduler, interrupted, after, current, pushed, completed>>

UnlockMain(p) ==
  /\ pc[p] = "unlock"
  /\ csMain' = Null
  /\ Goto(p, "idle")
  /\ UNCHANGED <<client, scheduler, interrupted, after, current, pushed, completed>>

\* The interruption point at the top of ActivateBestChain's loop, or the end of
\* the import.
ImporterEnds(p) ==
  /\ p \in Importers /\ pc[p] = "idle" /\ interrupted
  /\ Goto(p, "gone")
  /\ UNCHANGED <<client, scheduler, interrupted, after, current, csMain, pushed, completed>>

(***************************************************************************)
(* Shutdown.                                                               *)
(***************************************************************************)
\* The RPC and network threads are stopped, then interrupt_all.
InterruptAll ==
  /\ pc[Main] = "idle" /\ \A p \in Clients : pc[p] = "idle"
  /\ interrupted' = TRUE
  /\ sleeping' = {}
  /\ pc' = [t \in Threads |-> IF t \in Clients THEN "gone" ELSE IF t = Main THEN "joining" ELSE pc[t]]
  /\ UNCHANGED <<client, taskQueue, timer, after, current, csMain, pushed, completed>>

\* Mutant: only the import thread is waited for.
JoinAllImporters ==
  /\ pc[Main] = "joining" /\ \A t \in Importers : pc[t] = "gone"
  /\ Goto(Main, "flush")
  /\ UNCHANGED <<client, scheduler, interrupted, after, current, csMain, pushed, completed>>

JoinAll ==
  /\ pc[Main] = "joining" /\ \A t \in Services \cup Importers : pc[t] = "gone"
  /\ Goto(Main, "flush")
  /\ UNCHANGED <<client, scheduler, interrupted, after, current, csMain, pushed, completed>>

\* FlushStateToDisk generates a ChainStateFlushed callback.
FlushStateToDisk ==
  /\ pc[Main] = "flush" /\ csMain = Null
  /\ AddToProcessQueue(Main, "event", "empty")
  /\ UNCHANGED <<scheduler, interrupted, csMain, completed>>

\* Mutant: the callback of the flush itself is not run.
EmptyQueueAllButOne ==
  /\ pc[Main] = "empty"
  /\ Goto(Main, IF Len(callbacksPending) < 2 THEN "done" ELSE "process")
  /\ UNCHANGED <<client, scheduler, interrupted, after, current, csMain, pushed, completed>>

\* EmptyQueue calls ProcessQueue until nothing is pending.
EmptyQueue ==
  /\ pc[Main] = "empty"
  /\ Goto(Main, IF callbacksPending = <<>> THEN "done" ELSE "process")
  /\ UNCHANGED <<client, scheduler, interrupted, after, current, csMain, pushed, completed>>

Init ==
  /\ callbacksPending = <<>> /\ callbacksRunning = FALSE
  /\ taskQueue = <<>> /\ timer = "later" /\ sleeping = {} /\ interrupted = FALSE
  /\ pc = [t \in Threads |-> IF t \in Services THEN "top" ELSE "idle"]
  /\ after = [t \in Threads |-> IF t \in Services THEN "top" ELSE "idle"]
  /\ current = [t \in Threads |-> Null]
  /\ csMain = Null
  /\ pushed = [t \in Threads |-> 0]
  /\ completed = [t \in Threads |-> 0]

Process(t) ==
  \/ MaybeScheduleProcessQueue(t) \/ Schedule(t)
  \/ ProcessQueue(t) \/ Callback(t) \/ ClearRunning(t)

Service(t) ==
  \/ WaitForTask(t) \/ TakeTask(t) \/ TakeTimer(t) \/ Repeat(t) \/ ServiceInterrupted(t)

Produce(p) ==
  \/ Throttle(p) \/ SyncReturns(p) \/ LockMain(p) \/ PushEvent(p) \/ UnlockMain(p) \/ ImporterEnds(p)

Shutdown == JoinAll \/ FlushStateToDisk \/ EmptyQueue

\* What a thread goes on to do by itself.
Step(t) ==
  \/ Process(t)
  \/ t \in Services /\ Service(t)
  \/ t \in Producers /\ Produce(t)
  \/ t = Main /\ Shutdown

Next ==
  \/ \E t \in Threads : Step(t)
  \/ \E p \in Producers : Sync(p) \/ BeginRound(p)
  \/ TimerDue \/ InterruptAll

\* Every thread goes on with what it has begun.  Nothing obliges a thread to
\* generate another callback, nor the user to stop the node.
Fairness == \A t \in Threads : WF_vars(Step(t))

Spec == Init /\ [][Next]_vars /\ Fairness

(***************************************************************************)
(* Properties.                                                             *)
(***************************************************************************)
\* A callback is never stranded: when one is pending, a callback is running
\* whose end will look at the queue, a ProcessQueue task is scheduled, or a
\* thread is about to schedule or to run one.
NotStranded ==
  callbacksPending # <<>> =>
    \/ callbacksRunning
    \/ \E i \in DOMAIN taskQueue : taskQueue[i] = "process"
    \/ \E t \in Threads : pc[t] \in {"maybe", "schedule", "process"}

\* The promise of validationinterface.h: callbacks run in the order in which
\* they were generated, each completing before the next one is invoked.
Interface == INSTANCE ValidationQueue WITH
  pending <- callbacksPending,
  executing <- {current[t] : t \in {x \in Threads : pc[x] = "callback"}}

ImplementsInterface == Interface!Spec

\* The assertion of EmptyQueue: no thread services the queue any more when the
\* main thread does, and no other thread can still generate a callback.
EmptyQueueAlone ==
  pc[Main] \in {"empty", "process", "callback", "ran", "done"} =>
    \A t \in Threads \ {Main} : pc[t] = "gone"

\* Every callback generated, before or during the shutdown, has run at its end,
\* also the ones whose scheduled task no thread was left to run.
ShutdownDrains == pc[Main] = "done" => callbacksPending = <<>> /\ completed = pushed

\* While the node runs every callback is completed and every caller of
\* SyncWithValidationInterfaceQueue returns, although callbacks need cs_main.
EventuallyDelivered ==
  \A p \in Producers :
    pc[p] \in {"waitsync", "waitthrottle", "unlock"} ~> completed[p] = pushed[p] \/ interrupted

\* The comment on shutdown in init.cpp: all threads of the thread group join the
\* main thread.
ThreadGroupJoins == pc[Main] = "joining" ~> pc[Main] = "flush"
=============================================================================
