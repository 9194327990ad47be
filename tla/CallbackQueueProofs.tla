------------------------- MODULE CallbackQueueProofs -------------------------
(***************************************************************************)
(* For any number of service threads, producers and callbacks: callbacks   *)
(* run one at a time and in order (the refinement of ValidationQueue), no  *)
(* callback is stranded, EmptyQueue runs alone, and at the end of the      *)
(* shutdown every callback has run.                                        *)
(***************************************************************************)
EXTENDS CallbackQueue, SequenceTheorems, TLAPS

\* The thread that set m_are_callbacks_running is the only one between
\* ProcessQueue's check of the flag and the end of RAIICallbacksRunning.
Serial ==
  /\ callbacksRunning <=> \E t \in Threads : pc[t] \in {"callback", "ran"}
  /\ \A t, u \in Threads : pc[t] \in {"callback", "ran"} /\ pc[u] \in {"callback", "ran"} => t = u

\* From the join on, the other threads have ended.
Joined ==
  /\ pc[Main] = "joining" => \A p \in Clients : pc[p] = "gone"
  /\ pc[Main] \in {"flush", "empty", "process", "callback", "ran", "maybe", "schedule", "done"} =>
       \A t \in Threads \ {Main} : pc[t] = "gone"

IInv == TypeOK /\ NotStranded /\ Serial /\ Joined

\* The initial state satisfies the inductive invariant.
LEMMA InitIInv == Init => IInv
<1> SUFFICES ASSUME Init PROVE IInv  BY Zenon
<1>1. TypeOK
  <2>1. callbacksPending \in Seq(Callbacks) /\ taskQueue \in Seq({"process", "timer"})
    BY DEF Init
  <2> QED BY <2>1, ThreadKinds, Zenon DEF Init, TypeOK, Labels, Continuations
<1>2. NotStranded
  BY Zenon DEF Init, NotStranded
<1>3. Serial
  BY Zenon DEF Init, Serial
<1>4. Joined
  BY ThreadKinds, Zenon DEF Init, Joined, Threads
<1> QED BY <1>1, <1>2, <1>3, <1>4, Zenon DEF IInv

\* Every action keeps the types.
LEMMA TypeNext == TypeOK /\ [Next]_vars => TypeOK'
<1> SUFFICES ASSUME TypeOK, [Next]_vars PROVE TypeOK'  BY Zenon
<1> USE ThreadKinds, NullIsNoCallback
<1>0. Services \subseteq Threads /\ Producers \subseteq Threads /\ Main \in Threads /\ Clients \subseteq Producers
  BY Zenon DEF Threads, Producers
<1>1. ASSUME NEW t \in Threads, MaybeScheduleProcessQueue(t) PROVE TypeOK'
  BY <1>1, Zenon DEF TypeOK, MaybeScheduleProcessQueue, Goto, Labels, Continuations, client, scheduler
<1>2. ASSUME NEW t \in Threads, Schedule(t) PROVE TypeOK'
  <2>1. taskQueue' \in Seq({"process", "timer"}) /\ sleeping' \subseteq Services
    BY <1>2 DEF TypeOK, Schedule, NotifyOne
  <2> QED BY <1>2, <2>1, Zenon DEF TypeOK, Schedule, Goto, Labels, Continuations, client
<1>3. ASSUME NEW t \in Threads, ProcessQueue(t) PROVE TypeOK'
  <2>1. CASE callbacksRunning \/ callbacksPending = <<>>
    <3>1. UNCHANGED <<callbacksPending, callbacksRunning, taskQueue, timer, sleeping, interrupted, after,
                      current, csMain, pushed, completed>>
      BY <1>3, <2>1, Zenon DEF ProcessQueue, client, scheduler
    <3>2. pc[t] = "process" /\ pc' = [pc EXCEPT ![t] = after[t]] /\ after[t] \in Labels \ {"callback"}
      BY <1>3, <2>1, Zenon DEF TypeOK, ProcessQueue, Goto, Labels, Continuations
    <3>3. pc' \in [Threads -> Labels] /\ \A x \in Threads : pc[x] = "callback" <=> pc'[x] = "callback"
      BY <3>2, Zenon DEF TypeOK
    <3> QED BY <3>1, <3>3, Zenon DEF TypeOK
  <2>2. CASE ~(callbacksRunning \/ callbacksPending = <<>>)
    <3>0. callbacksPending \in Seq(Callbacks) /\ callbacksPending # <<>>
      BY <2>2, Zenon DEF TypeOK
    <3>1. Head(callbacksPending) \in Callbacks /\ callbacksPending' \in Seq(Callbacks)
      <4>1. Head(callbacksPending) \in Callbacks /\ Tail(callbacksPending) \in Seq(Callbacks)
        BY <3>0, HeadTailProperties, Zenon
      <4> QED BY <1>3, <2>2, <4>1, Zenon DEF ProcessQueue
    <3>2. UNCHANGED <<taskQueue, timer, sleeping, interrupted, after, csMain, pushed, completed>>
      BY <1>3, Zenon DEF ProcessQueue, scheduler
    <3>3. callbacksRunning' = TRUE /\ pc' = [pc EXCEPT ![t] = "callback"]
          /\ current' = [current EXCEPT ![t] = Head(callbacksPending)]
      BY <1>3, <2>2, Zenon DEF ProcessQueue, Goto
    <3>4. pc' \in [Threads -> Labels] /\ current' \in [Threads -> Callbacks \cup {Null}]
      BY <3>1, <3>3, Zenon DEF TypeOK, Labels
    <3>5. \A x \in Threads : current'[x] # Null <=> pc'[x] = "callback"
      BY <3>1, <3>3, Zenon DEF TypeOK
    <3> QED BY <3>1, <3>2, <3>3, <3>4, <3>5, Zenon DEF TypeOK
  <2> QED BY <2>1, <2>2, Zenon
<1>4. ASSUME NEW t \in Threads, Callback(t) PROVE TypeOK'
  <2>1. current[t] \in Callbacks
    BY <1>4, Zenon DEF TypeOK, Callback
  <2>2. current[t].by \in Threads
    BY <2>1, Zenon DEF Callbacks
  <2> QED BY <1>4, <2>2 DEF TypeOK, Callback, Goto, Labels, client, scheduler
<1>5. ASSUME NEW t \in Threads, ClearRunning(t) PROVE TypeOK'
  BY <1>5, Zenon DEF TypeOK, ClearRunning, Goto, Labels, scheduler
<1>6. ASSUME NEW t \in Services, WaitForTask(t) PROVE TypeOK'
  BY <1>0, <1>6, Zenon DEF TypeOK, WaitForTask, AtTop, Goto, Labels, client
<1>7. ASSUME NEW t \in Services, TakeTask(t) PROVE TypeOK'
  BY <1>0, <1>7 DEF TypeOK, TakeTask, AtTop, Goto, Labels, client
<1>8. ASSUME NEW t \in Services, TakeTimer(t) PROVE TypeOK'
  BY <1>0, <1>8 DEF TypeOK, TakeTimer, AtTop, Goto, Labels, client
<1>9. ASSUME NEW t \in Services, Repeat(t) PROVE TypeOK'
  BY <1>0, <1>9, Zenon DEF TypeOK, Repeat, NotifyOne, Goto, Labels, client
<1>10. ASSUME NEW t \in Services, ServiceInterrupted(t) PROVE TypeOK'
  BY <1>0, <1>10, Zenon DEF TypeOK, ServiceInterrupted, AtTop, Goto, Labels, client, scheduler
<1>11. ASSUME NEW p \in Threads, NEW kind \in {"event", "promise"}, NEW label \in Continuations,
              pc[p] # "callback", AddToProcessQueue(p, kind, label),
              UNCHANGED <<scheduler, interrupted, csMain, completed>>
       PROVE TypeOK'
  <2>1. [by |-> p, n |-> pushed[p] + 1, kind |-> kind] \in Callbacks
    BY DEF TypeOK, Callbacks
  <2>2. callbacksPending' \in Seq(Callbacks)
    BY <1>11, <2>1 DEF AddToProcessQueue, TypeOK
  <2> QED BY <1>11, <2>2 DEF TypeOK, AddToProcessQueue, Goto, Labels, scheduler
<1>12. ASSUME NEW p \in Producers, Throttle(p) \/ PushEvent(p) \/ Sync(p) PROVE TypeOK'
  BY <1>0, <1>11, <1>12, Zenon DEF Throttle, PushEvent, Sync, Continuations
<1>13. ASSUME FlushStateToDisk PROVE TypeOK'
  BY <1>0, <1>11, <1>13, Zenon DEF FlushStateToDisk, Continuations
<1>14. ASSUME NEW p \in Producers, SyncReturns(p) \/ ImporterEnds(p) \/ BeginRound(p) PROVE TypeOK'
  <2>1. \E l \in Labels \ {"callback"} : pc[p] # "callback" /\ pc' = [pc EXCEPT ![p] = l]
    BY <1>14, Zenon DEF SyncReturns, ImporterEnds, BeginRound, Goto, Labels
  <2>2. UNCHANGED <<callbacksPending, callbacksRunning, taskQueue, timer, sleeping, interrupted, after,
                    current, csMain, pushed, completed>>
    BY <1>14, Zenon DEF SyncReturns, ImporterEnds, BeginRound, client, scheduler
  <2>3. pc' \in [Threads -> Labels] /\ \A x \in Threads : pc[x] = "callback" <=> pc'[x] = "callback"
    BY <1>0, <2>1 DEF TypeOK
  <2> QED BY <2>2, <2>3, Zenon DEF TypeOK
<1>15. ASSUME NEW p \in Producers, LockMain(p) \/ UnlockMain(p) PROVE TypeOK'
  <2>1. p \in Threads /\ csMain' \in Threads \cup {Null}
    BY <1>0, <1>15, Zenon DEF LockMain, UnlockMain
  <2>2. pc' \in [Threads -> Labels] /\ \A t \in Threads : pc[t] = "callback" <=> pc'[t] = "callback"
    BY <2>1, <1>15, Zenon DEF TypeOK, LockMain, UnlockMain, Goto, Labels
  <2> QED BY <1>15, <2>1, <2>2, Zenon DEF TypeOK, LockMain, UnlockMain, client, scheduler
<1>16. CASE JoinAll \/ EmptyQueue
  <2>1. \E l \in Labels \ {"callback"} : pc[Main] # "callback" /\ pc' = [pc EXCEPT ![Main] = l]
    BY <1>16, Zenon DEF JoinAll, EmptyQueue, Goto, Labels
  <2>2. pc' \in [Threads -> Labels] /\ \A x \in Threads : pc[x] = "callback" <=> pc'[x] = "callback"
    BY <1>0, <2>1 DEF TypeOK
  <2> QED BY <1>0, <1>16, <2>2, Zenon DEF TypeOK, JoinAll, EmptyQueue, Continuations, client, scheduler
<1>17. CASE TimerDue
  BY <1>0, <1>17 DEF TypeOK, TimerDue, client
<1>18. CASE InterruptAll
  BY <1>0, <1>18, Zenon DEF TypeOK, InterruptAll, Labels, client
<1>19. CASE UNCHANGED vars
  BY <1>19, Zenon DEF TypeOK, vars, client, scheduler
<1> QED
  BY <1>1, <1>2, <1>3, <1>4, <1>5, <1>6, <1>7, <1>8, <1>9, <1>10, <1>12, <1>13, <1>14, <1>15, <1>16,
     <1>17, <1>18, <1>19, Zenon
  DEF Next, Step, Process, Service, Produce, Shutdown

\* Every action leaves a pending callback with somebody who will see to it.
LEMMA NotStrandedNext == TypeOK /\ NotStranded /\ [Next]_vars => NotStranded'
<1> SUFFICES ASSUME TypeOK, NotStranded, [Next]_vars PROVE NotStranded'  BY Zenon
<1> USE ThreadKinds
<1>0. Services \subseteq Threads /\ Producers \subseteq Threads /\ Main \in Threads
  BY Zenon DEF Threads
<1>t. pc \in [Threads -> Labels] /\ callbacksPending \in Seq(Callbacks) /\ taskQueue \in Seq({"process", "timer"})
  BY Zenon DEF TypeOK
<1>1. ASSUME NEW t \in Threads, MaybeScheduleProcessQueue(t) PROVE NotStranded'
  <2>1. CASE callbacksRunning \/ callbacksPending = <<>>
    BY <1>1, <2>1, Zenon DEF NotStranded, MaybeScheduleProcessQueue, client
  <2>2. CASE ~(callbacksRunning \/ callbacksPending = <<>>)
    <3>1. pc'[t] = "schedule"
      BY <1>t, <1>1, <2>2, Zenon DEF MaybeScheduleProcessQueue, Goto
    <3> QED BY <3>1, Zenon DEF NotStranded
  <2> QED BY <2>1, <2>2, Zenon
<1>2. ASSUME NEW t \in Threads, Schedule(t) PROVE NotStranded'
  <2>1. Len(taskQueue) + 1 \in DOMAIN taskQueue' /\ taskQueue'[Len(taskQueue) + 1] = "process"
    BY <1>t, <1>2 DEF Schedule
  <2> QED BY <2>1, Zenon DEF NotStranded
<1>3. ASSUME NEW t \in Threads, ProcessQueue(t) PROVE NotStranded'
  <2>1. callbacksRunning' \/ callbacksPending' = <<>>
    BY <1>3 DEF ProcessQueue, client
  <2> QED BY <2>1, Zenon DEF NotStranded
<1>4. ASSUME NEW t \in Threads, Callback(t) PROVE NotStranded'
  BY <1>t, <1>4, Zenon DEF NotStranded, Callback, Goto, client, scheduler
<1>5. ASSUME NEW t \in Threads, ClearRunning(t) PROVE NotStranded'
  <2>1. pc'[t] = "maybe"
    BY <1>t, <1>5, Zenon DEF ClearRunning, Goto
  <2> QED BY <2>1, Zenon DEF NotStranded
<1>7. ASSUME NEW t \in Services, TakeTask(t) PROVE NotStranded'
  <2>1. pc'[t] = "process"
    BY <1>0, <1>t, <1>7, Zenon DEF TakeTask, Goto
  <2> QED BY <1>0, <2>1, Zenon DEF NotStranded
<1>8. ASSUME NEW t \in Services, TakeTimer(t) PROVE NotStranded'
  <2>1. taskQueue # <<>> /\ taskQueue[1] = "timer" /\ taskQueue' = Tail(taskQueue)
    BY <1>t, <1>8 DEF TakeTimer
  <2>2. ASSUME NEW i \in DOMAIN taskQueue, taskQueue[i] = "process"
        PROVE  \E j \in DOMAIN taskQueue' : taskQueue'[j] = "process"
    <3>1. i # 1 /\ i \in 1..Len(taskQueue)
      BY <1>t, <2>1, <2>2
    <3>2. i - 1 \in 1..Len(taskQueue') /\ taskQueue'[i - 1] = taskQueue[i]
      BY <1>t, <2>1, <3>1
    <3>3. taskQueue' \in Seq({"process", "timer"})
      BY <1>t, <2>1
    <3> QED BY <2>2, <3>2, <3>3
  <2>3. \A u \in Threads : pc[u] \in {"maybe", "schedule", "process"} => pc'[u] = pc[u]
    BY <1>t, <1>8, Zenon DEF TakeTimer, AtTop, Goto
  <2> QED BY <1>8, <2>2, <2>3, Zenon DEF NotStranded, TakeTimer, client
<1>9. ASSUME NEW t \in Services,
             WaitForTask(t) \/ Repeat(t) \/ ServiceInterrupted(t)
      PROVE NotStranded'
  <2>1. \A u \in Threads : pc[u] \in {"maybe", "schedule", "process"} => pc'[u] = pc[u]
    BY <1>t, <1>9, Zenon DEF WaitForTask, Repeat, ServiceInterrupted, AtTop, Goto
  <2>2. UNCHANGED <<client, taskQueue>>
    BY <1>9, Zenon DEF WaitForTask, Repeat, ServiceInterrupted, client, scheduler
  <2> QED BY <2>1, <2>2, Zenon DEF NotStranded, client
<1>11. ASSUME NEW p \in Threads, NEW kind, NEW label, AddToProcessQueue(p, kind, label) PROVE NotStranded'
  <2>1. pc'[p] = "maybe"
    BY <1>t, <1>11, Zenon DEF AddToProcessQueue, Goto
  <2> QED BY <2>1, Zenon DEF NotStranded
<1>12. ASSUME NEW p \in Producers, Throttle(p) \/ PushEvent(p) \/ Sync(p) PROVE NotStranded'
  BY <1>0, <1>11, <1>12, Zenon DEF Throttle, PushEvent, Sync
<1>13. ASSUME FlushStateToDisk PROVE NotStranded'
  BY <1>0, <1>11, <1>13, Zenon DEF FlushStateToDisk
<1>14. ASSUME NEW p \in Producers,
              SyncReturns(p) \/ ImporterEnds(p) \/ BeginRound(p) \/ LockMain(p) \/ UnlockMain(p)
       PROVE NotStranded'
  <2>1. \A u \in Threads : pc[u] \in {"maybe", "schedule", "process"} => pc'[u] = pc[u]
    BY <1>t, <1>14, Zenon DEF SyncReturns, ImporterEnds, BeginRound, LockMain, UnlockMain, Goto
  <2>2. UNCHANGED <<client, scheduler>>
    BY <1>14, Zenon DEF SyncReturns, ImporterEnds, BeginRound, LockMain, UnlockMain
  <2> QED BY <2>1, <2>2, Zenon DEF NotStranded, client, scheduler
<1>16. CASE JoinAll \/ EmptyQueue
  <2>1. \A u \in Threads : pc[u] \in {"maybe", "schedule", "process"} => pc'[u] = pc[u]
    BY <1>t, <1>16, Zenon DEF JoinAll, EmptyQueue, Goto
  <2> QED BY <1>16, <2>1, Zenon DEF NotStranded, JoinAll, EmptyQueue, client, scheduler
<1>17. CASE TimerDue
  <2>1. \A i \in DOMAIN taskQueue : i \in DOMAIN taskQueue' /\ taskQueue'[i] = taskQueue[i]
    BY <1>t, <1>17 DEF TimerDue
  <2> QED BY <1>17, <2>1, Zenon DEF NotStranded, TimerDue, client
<1>18. CASE InterruptAll
  <2>1. \A u \in Threads : pc[u] \in {"maybe", "schedule", "process"} => pc'[u] = pc[u]
    BY <1>t, <1>18, Zenon DEF InterruptAll, Threads
  <2> QED BY <1>18, <2>1, Zenon DEF NotStranded, InterruptAll, client
<1>19. CASE UNCHANGED vars
  BY <1>19, Zenon DEF NotStranded, vars, client, scheduler
<1> QED
  BY <1>1, <1>2, <1>3, <1>4, <1>5, <1>7, <1>8, <1>9, <1>12, <1>13, <1>14, <1>16, <1>17, <1>18, <1>19, Zenon
  DEF Next, Step, Process, Service, Produce, Shutdown

\* A step other than ProcessQueue's, Callback and ClearRunning leaves the flag
\* and the threads between it and its reset alone.
LEMMA OtherSteps ==
  ASSUME TypeOK, [Next]_vars,
         \A t \in Threads : ~ProcessQueue(t) /\ ~Callback(t) /\ ~ClearRunning(t)
  PROVE  /\ UNCHANGED <<callbacksRunning, current>>
         /\ \A t \in Threads : \A l \in {"callback", "ran"} : pc[t] = l <=> pc'[t] = l
         /\ callbacksPending' = callbacksPending
            \/ \E c : callbacksPending' = Append(callbacksPending, c)
<1> DEFINE Goal == /\ UNCHANGED <<callbacksRunning, current>>
                   /\ \A t \in Threads : \A l \in {"callback", "ran"} : pc[t] = l <=> pc'[t] = l
                   /\ callbacksPending' = callbacksPending
                      \/ \E c : callbacksPending' = Append(callbacksPending, c)
<1> SUFFICES Goal  BY Zenon
<1> USE ThreadKinds
<1>0. Services \subseteq Threads /\ Producers \subseteq Threads /\ Main \in Threads
  BY Zenon DEF Threads
<1>t. pc \in [Threads -> Labels] /\ after \in [Threads -> Continuations]
  BY Zenon DEF TypeOK
<1>1. ASSUME NEW t \in Threads, MaybeScheduleProcessQueue(t) \/ Schedule(t) PROVE Goal
  BY <1>t, <1>1, Zenon DEF MaybeScheduleProcessQueue, Schedule, Goto, Continuations, client
<1>2. ASSUME NEW t \in Services,
             WaitForTask(t) \/ TakeTask(t) \/ TakeTimer(t) \/ Repeat(t) \/ ServiceInterrupted(t)
      PROVE Goal
  BY <1>0, <1>t, <1>2, Zenon DEF WaitForTask, TakeTask, TakeTimer, Repeat, ServiceInterrupted, AtTop, Goto, client
<1>3. ASSUME NEW p \in Threads, NEW kind, NEW label, pc[p] \notin {"callback", "ran"},
             AddToProcessQueue(p, kind, label)
      PROVE Goal
  BY <1>t, <1>3, Zenon DEF AddToProcessQueue, Goto
<1>4. ASSUME NEW p \in Producers, Throttle(p) \/ PushEvent(p) \/ Sync(p) PROVE Goal
  BY <1>0, <1>3, <1>4, Zenon DEF Throttle, PushEvent, Sync
<1>5. ASSUME FlushStateToDisk PROVE Goal
  BY <1>0, <1>3, <1>5, Zenon DEF FlushStateToDisk
<1>6. ASSUME NEW p \in Producers,
              SyncReturns(p) \/ ImporterEnds(p) \/ BeginRound(p) \/ LockMain(p) \/ UnlockMain(p)
       PROVE Goal
  BY <1>t, <1>6, Zenon DEF SyncReturns, ImporterEnds, BeginRound, LockMain, UnlockMain, Goto, client
<1>7. CASE JoinAll \/ EmptyQueue
  BY <1>t, <1>7, Zenon DEF JoinAll, EmptyQueue, Goto, client
<1>8. CASE TimerDue
  BY <1>8, Zenon DEF TimerDue, client
<1>9. CASE InterruptAll
  BY <1>t, <1>9, Zenon DEF InterruptAll, Threads, Producers, client
<1>10. CASE UNCHANGED vars
  BY <1>10, Zenon DEF vars, client
<1> QED
  BY <1>1, <1>2, <1>4, <1>5, <1>6, <1>7, <1>8, <1>9, <1>10, Zenon
  DEF Next, Step, Process, Service, Produce, Shutdown

\* The flag admits one thread.
LEMMA SerialNext == TypeOK /\ Serial /\ [Next]_vars => Serial'
<1> SUFFICES ASSUME TypeOK, Serial, [Next]_vars PROVE Serial'  BY Zenon
<1>t. pc \in [Threads -> Labels] /\ after \in [Threads -> Continuations]
  BY Zenon DEF TypeOK
<1>1. ASSUME NEW t \in Threads, ProcessQueue(t) PROVE Serial'
  <2>1. CASE callbacksRunning \/ callbacksPending = <<>>
    BY <1>t, <1>1, <2>1, Zenon DEF Serial, ProcessQueue, Goto, Continuations, client
  <2>2. CASE ~(callbacksRunning \/ callbacksPending = <<>>)
    BY <1>t, <1>1, <2>2, Zenon DEF Serial, ProcessQueue, Goto
  <2> QED BY <2>1, <2>2, Zenon
<1>2. ASSUME NEW t \in Threads, Callback(t) PROVE Serial'
  BY <1>t, <1>2, Zenon DEF Serial, Callback, Goto, client
<1>3. ASSUME NEW t \in Threads, ClearRunning(t) PROVE Serial'
  BY <1>t, <1>3, Zenon DEF Serial, ClearRunning, Goto
<1>4. CASE \A t \in Threads : ~ProcessQueue(t) /\ ~Callback(t) /\ ~ClearRunning(t)
  BY <1>4, OtherSteps DEF Serial
<1> QED BY <1>1, <1>2, <1>3, <1>4, Zenon

\* A thread that has ended takes no step, so the main thread stays alone.
LEMMA JoinedNext == TypeOK /\ Joined /\ [Next]_vars => Joined'
<1> SUFFICES ASSUME TypeOK, Joined, [Next]_vars PROVE Joined'  BY Zenon
<1> USE ThreadKinds
<1> DEFINE Alone == {"flush", "empty", "process", "callback", "ran", "maybe", "schedule", "done"}
<1>0. /\ Services \subseteq Threads \ {Main} /\ Producers \subseteq Threads \ {Main} /\ Main \in Threads
      /\ Clients \subseteq Threads \ {Main} /\ Threads \ {Main} = Services \cup Importers \cup Clients
  BY Zenon DEF Threads, Producers
<1>t. pc \in [Threads -> Labels] /\ after \in [Threads -> Continuations]
  BY Zenon DEF TypeOK
<1>1. ASSUME NEW t \in Threads, NEW l, pc' = [pc EXCEPT ![t] = l], pc[t] # "gone",
             t = Main => pc[Main] \in Alone /\ l # "joining"
      PROVE Joined'
  BY <1>0, <1>t, <1>1, Zenon DEF Joined
<1>2. ASSUME NEW t \in Threads, Process(t) PROVE Joined'
  BY <1>1, <1>2, <1>t, Zenon
  DEF Process, MaybeScheduleProcessQueue, Schedule, ProcessQueue, Callback, ClearRunning, Goto, Continuations
<1>3. ASSUME NEW t \in Services, Service(t) PROVE Joined'
  BY <1>0, <1>1, <1>3, Zenon DEF Service, WaitForTask, TakeTask, TakeTimer, Repeat, ServiceInterrupted, AtTop, Goto
<1>4. ASSUME NEW p \in Producers, Produce(p) \/ Sync(p) \/ BeginRound(p) PROVE Joined'
  BY <1>0, <1>1, <1>4, Zenon
  DEF Produce, Throttle, SyncReturns, LockMain, PushEvent, UnlockMain, ImporterEnds, Sync, BeginRound,
      AddToProcessQueue, Goto
<1>5. CASE JoinAll
  BY <1>0, <1>t, <1>5, Zenon DEF JoinAll, Joined, Goto
<1>6. CASE FlushStateToDisk \/ EmptyQueue
  BY <1>0, <1>1, <1>6, Zenon DEF FlushStateToDisk, EmptyQueue, AddToProcessQueue, Goto
<1>7. CASE InterruptAll
  BY <1>0, <1>7, Zenon DEF InterruptAll, Joined
<1>8. CASE TimerDue \/ UNCHANGED vars
  BY <1>8, Zenon DEF TimerDue, vars, Joined
<1> QED BY <1>2, <1>3, <1>4, <1>5, <1>6, <1>7, <1>8, Zenon DEF Next, Step, Shutdown

\* The inductive invariant holds in every reachable state.
THEOREM Invariant == Spec => []IInv
<1>1. IInv /\ [Next]_vars => IInv'
  BY TypeNext, NotStrandedNext, SerialNext, JoinedNext, Zenon DEF IInv
<1> QED BY InitIInv, <1>1, PTL DEF Spec

\* No callback is stranded, whatever the number of threads that run
\* MaybeScheduleProcessQueue and ProcessQueue at once.
THEOREM NeverStranded == Spec => []NotStranded
<1>1. IInv => NotStranded
  BY Zenon DEF IInv
<1> QED BY Invariant, <1>1, PTL

\* The assertion of EmptyQueue never fails: Shutdown calls it after join_all.
THEOREM MainThreadAlone == Spec => []EmptyQueueAlone
<1>1. IInv => EmptyQueueAlone
  BY Zenon DEF IInv, Joined, EmptyQueueAlone
<1> QED BY Invariant, <1>1, PTL

\* The queue built on the scheduler implements the serial queue that
\* validationinterface.h promises: ProcessQueue is Invoke, the callback is
\* Complete, AddToProcessQueue is Generate, and every other step stutters.
THEOREM Refinement == Spec => ImplementsInterface
<1> DEFINE Executing == {current[t] : t \in {x \in Threads : pc[x] = "callback"}}
<1>1. Init => Interface!Init
  BY Zenon DEF Init, Interface!Init
<1>2. ASSUME IInv, [Next]_vars PROVE [Interface!Next]_(Interface!vars)
  <2>t. /\ pc \in [Threads -> Labels] /\ after \in [Threads -> Continuations]
        /\ current \in [Threads -> Callbacks \cup {Null}] /\ callbacksPending \in Seq(Callbacks)
    BY <1>2, Zenon DEF IInv, TypeOK
  <2>s. Serial
    BY <1>2, Zenon DEF IInv
  <2>1. ASSUME NEW t \in Threads, ProcessQueue(t), callbacksRunning \/ callbacksPending = <<>>
        PROVE  UNCHANGED Interface!vars
    <3>1. \A x \in Threads : pc[x] = "callback" <=> pc'[x] = "callback"
      BY <2>t, <2>1, Zenon DEF ProcessQueue, Goto, Continuations
    <3> QED BY <2>1, <3>1, Zenon DEF Interface!vars, ProcessQueue, client
  <2>2. ASSUME NEW t \in Threads, ProcessQueue(t), ~(callbacksRunning \/ callbacksPending = <<>>)
        PROVE  Interface!Invoke
    <3>1. \A x \in Threads : pc[x] # "callback"
      BY <2>s, <2>2, Zenon DEF Serial
    <3>2. Executing = {}
      BY <3>1, Zenon
    <3>3. \A x \in Threads : pc'[x] = "callback" <=> x = t
      BY <2>t, <2>2, <3>1, Zenon DEF ProcessQueue, Goto
    <3>4. current'[t] = Head(callbacksPending)
      BY <2>t, <2>2, Zenon DEF ProcessQueue
    <3>5. Executing' = {Head(callbacksPending)}
      BY <3>3, <3>4, Zenon
    <3>6. callbacksPending # <<>> /\ callbacksPending' = Tail(callbacksPending)
      BY <2>2, Zenon DEF ProcessQueue
    <3> QED BY <3>2, <3>5, <3>6, Zenon DEF Interface!Invoke
  <2>3. ASSUME NEW t \in Threads, Callback(t)
        PROVE  Interface!Complete
    <3>1. current[t] \in Executing
      BY <2>3, Zenon DEF Callback
    <3>2. \A x \in Threads : pc[x] = "callback" => x = t
      BY <2>s, <2>3, Zenon DEF Serial, Callback
    <3>3. \A x \in Threads : pc'[x] # "callback"
      BY <2>t, <2>3, <3>2, Zenon DEF Callback, Goto
    <3>4. Executing' = {}
      BY <3>3, Zenon
    <3>5. callbacksPending' = callbacksPending
      BY <2>3, Zenon DEF Callback, client
    <3> QED BY <3>1, <3>4, <3>5, Zenon DEF Interface!Complete
  <2>4. ASSUME NEW t \in Threads, ClearRunning(t)
        PROVE  UNCHANGED Interface!vars
    <3>1. \A x \in Threads : pc[x] = "callback" <=> pc'[x] = "callback"
      BY <2>t, <2>4, Zenon DEF ClearRunning, Goto
    <3> QED BY <2>4, <3>1, Zenon DEF Interface!vars, ClearRunning
  <2>5. ASSUME \A t \in Threads : ~ProcessQueue(t) /\ ~Callback(t) /\ ~ClearRunning(t)
        PROVE  [Interface!Next]_(Interface!vars)
    <3>0. TypeOK
      BY <1>2, Zenon DEF IInv
    <3>1. /\ current' = current
          /\ \A x \in Threads : pc[x] = "callback" <=> pc'[x] = "callback"
          /\ callbacksPending' = callbacksPending \/ \E c : callbacksPending' = Append(callbacksPending, c)
      BY <1>2, <2>5, <3>0, OtherSteps, Zenon
    <3>2. Executing' = Executing
      BY <3>1, Zenon
    <3>3. CASE callbacksPending' = callbacksPending
      BY <3>2, <3>3, Zenon DEF Interface!vars
    <3>4. ASSUME NEW c, callbacksPending' = Append(callbacksPending, c)
          PROVE  Interface!Generate
      <4>1. callbacksPending' # <<>> /\ callbacksPending'[Len(callbacksPending')] = c
        BY <2>t, <3>4
      <4> QED BY <3>2, <3>4, <4>1, Zenon DEF Interface!Generate
    <3> QED BY <3>1, <3>3, <3>4, Zenon DEF Interface!Next
  <2> QED BY <2>1, <2>2, <2>3, <2>4, <2>5, Zenon DEF Interface!Next
<1> QED BY <1>1, <1>2, Invariant, PTL DEF Spec, ImplementsInterface, Interface!Spec

(***************************************************************************)
(* The end of Shutdown.  The numbers of a thread's callbacks that are      *)
(* pending or running are those from completed[t] + 1 to pushed[t]: when   *)
(* nothing is pending and nobody runs one, all have been completed.        *)
(***************************************************************************)
Running(x) == pc[x] = "callback"

\* The n-th callback of thread t is somewhere.
Present(t, n) ==
  \/ \E i \in DOMAIN callbacksPending : callbacksPending[i].by = t /\ callbacksPending[i].n = n
  \/ \E x \in Threads : Running(x) /\ current[x].by = t /\ current[x].n = n

\* Callbacks are numbered in the order in which they wait and run.
Numbered ==
  /\ \A t \in Threads : completed[t] <= pushed[t]
  /\ \A i \in DOMAIN callbacksPending :
       /\ completed[callbacksPending[i].by] < callbacksPending[i].n
       /\ callbacksPending[i].n <= pushed[callbacksPending[i].by]
  /\ \A i, j \in DOMAIN callbacksPending :
       i < j /\ callbacksPending[i].by = callbacksPending[j].by => callbacksPending[i].n < callbacksPending[j].n
  /\ \A x \in Threads : Running(x) =>
       /\ current[x].n = completed[current[x].by] + 1 /\ current[x].n <= pushed[current[x].by]
       /\ \A i \in DOMAIN callbacksPending :
            callbacksPending[i].by = current[x].by => current[x].n < callbacksPending[i].n
  /\ \A t \in Threads : \A n \in (completed[t] + 1)..pushed[t] : Present(t, n)

Drained == pc[Main] = "done" => callbacksPending = <<>>

\* The types the numbers need.
LEMMA NumberTypes ==
  ASSUME TypeOK
  PROVE  /\ callbacksPending \in Seq(Callbacks)
         /\ \A i \in DOMAIN callbacksPending : callbacksPending[i].by \in Threads /\ callbacksPending[i].n \in Nat
         /\ \A x \in Threads : Running(x) => current[x].by \in Threads /\ current[x].n \in Nat
         /\ \A t \in Threads : pushed[t] \in Nat /\ completed[t] \in Nat
<1>1. \A c \in Callbacks : c.by \in Threads /\ c.n \in Nat
  BY Zenon DEF Callbacks
<1>2. \A x \in Threads : Running(x) => current[x] \in Callbacks
  BY Zenon DEF TypeOK, Running
<1>3. \A i \in DOMAIN callbacksPending : callbacksPending[i] \in Callbacks
  BY DEF TypeOK
<1> QED BY <1>1, <1>2, <1>3, Zenon DEF TypeOK

\* AddToProcessQueue: the new callback has the thread's highest number.
LEMMA NumberedPush ==
  ASSUME TypeOK, Numbered, NEW p \in Threads, NEW kind,
         callbacksPending' = Append(callbacksPending, [by |-> p, n |-> pushed[p] + 1, kind |-> kind]),
         pushed' = [pushed EXCEPT ![p] = @ + 1], UNCHANGED <<current, completed>>,
         \A x \in Threads : Running(x) <=> Running(x)'
  PROVE  Numbered'
<1> DEFINE q == callbacksPending
           c == [by |-> p, n |-> pushed[p] + 1, kind |-> kind]
           k == Len(q)
<1>t. /\ q \in Seq(Callbacks) /\ k \in Nat
      /\ \A i \in DOMAIN q : q[i].by \in Threads /\ q[i].n \in Nat
      /\ \A x \in Threads : Running(x) => current[x].by \in Threads /\ current[x].n \in Nat
      /\ \A t \in Threads : pushed[t] \in Nat /\ completed[t] \in Nat
  BY NumberTypes
<1>1. DOMAIN q = 1..k /\ DOMAIN q' = 1..(k + 1) /\ q'[k + 1] = c /\ \A i \in 1..k : q'[i] = q[i]
  BY <1>t
<1>2. \A t \in Threads : pushed'[t] = IF t = p THEN pushed[t] + 1 ELSE pushed[t]
  BY Zenon DEF TypeOK
<1>3. c.by = p /\ c.n = pushed[p] + 1
  BY Zenon
<1> HIDE DEF q, c, k
<1>p. /\ completed' = completed /\ current' = current
      /\ \A x \in Threads : Running(x) <=> Running(x)'
  BY Zenon
<1>n. /\ \A t \in Threads : completed[t] <= pushed[t]
      /\ \A i \in 1..k : completed[q[i].by] < q[i].n /\ q[i].n <= pushed[q[i].by]
      /\ \A i, j \in 1..k : i < j /\ q[i].by = q[j].by => q[i].n < q[j].n
      /\ \A x \in Threads : Running(x) =>
           /\ current[x].n = completed[current[x].by] + 1 /\ current[x].n <= pushed[current[x].by]
           /\ \A i \in 1..k : q[i].by = current[x].by => current[x].n < q[i].n
      /\ \A t \in Threads : \A n \in (completed[t] + 1)..pushed[t] : Present(t, n)
  BY <1>1, Zenon DEF Numbered, q
<1>4. \A t \in Threads : completed'[t] <= pushed'[t]
  BY <1>t, <1>2, <1>n, <1>p
<1>5. ASSUME NEW i \in 1..(k + 1) PROVE completed[q'[i].by] < q'[i].n /\ q'[i].n <= pushed'[q'[i].by]
  <2>1. CASE i = k + 1
    <3>1. q'[i].by = p /\ q'[i].n = pushed[p] + 1 /\ pushed'[p] = pushed[p] + 1
      BY <1>1, <1>2, <1>3, <2>1, Zenon
    <3>2. completed[p] <= pushed[p] /\ completed[p] \in Nat /\ pushed[p] \in Nat
      BY <1>t, <1>n, Zenon
    <3> QED BY <3>1, <3>2
  <2>2. CASE i # k + 1
    <3>0. i \in 1..k
      BY <1>t, <2>2
    <3>1. i \in 1..k /\ q'[i] = q[i] /\ q[i].by \in Threads /\ q[i].n \in Nat
      BY <1>t, <1>1, <3>0, ZenonT(30)
    <3> QED BY <1>t, <1>2, <1>n, <3>1
  <2> QED BY <2>1, <2>2, Zenon
<1>6. ASSUME NEW i \in 1..(k + 1), NEW j \in 1..(k + 1), i < j, q'[i].by = q'[j].by PROVE q'[i].n < q'[j].n
  <2>0. i \in 1..k /\ q'[i] = q[i] /\ q[i].by \in Threads /\ q[i].n \in Nat
    <3>1. i \in 1..k
      BY <1>t, <1>6
    <3> QED BY <1>t, <1>1, <3>1, Zenon
  <2>1. CASE j = k + 1
    <3>1. q'[j].n = pushed[p] + 1 /\ q'[j].by = p /\ q[i].n <= pushed[p]
      BY <1>1, <1>3, <1>6, <1>n, <2>0, <2>1, ZenonT(30)
    <3> QED BY <1>t, <2>0, <3>1
  <2>2. CASE j # k + 1
    <3>1. j \in 1..k /\ q'[j] = q[j]
      BY <1>t, <1>1, <2>2
    <3> QED BY <1>6, <1>n, <2>0, <3>1, Zenon
  <2> QED BY <2>1, <2>2, Zenon
<1>7. ASSUME NEW x \in Threads, Running(x)
      PROVE  /\ current[x].n = completed[current[x].by] + 1 /\ current[x].n <= pushed'[current[x].by]
             /\ \A i \in 1..(k + 1) : q'[i].by = current[x].by => current[x].n < q'[i].n
  <2>1. /\ current[x].by \in Threads /\ current[x].n \in Nat
        /\ current[x].n = completed[current[x].by] + 1 /\ current[x].n <= pushed[current[x].by]
    BY <1>7, <1>n, <1>t, Zenon
  <2>2. current[x].n <= pushed'[current[x].by]
    BY <1>t, <1>2, <2>1
  <2>3. ASSUME NEW i \in 1..(k + 1), q'[i].by = current[x].by PROVE current[x].n < q'[i].n
    <3>1. CASE i = k + 1
      BY <1>t, <1>1, <1>3, <2>1, <2>3, <3>1, SMTT(30)
    <3>2. CASE i # k + 1
      <4>1. i \in 1..k /\ q'[i] = q[i]
        BY <1>t, <1>1, <3>2
      <4> QED BY <1>7, <1>n, <2>3, <4>1, Zenon
    <3> QED BY <3>1, <3>2, Zenon
  <2> QED BY <2>1, <2>2, <2>3, Zenon
<1>8. ASSUME NEW t \in Threads, NEW n \in (completed[t] + 1)..pushed'[t] PROVE Present(t, n)'
  <2>1. CASE t = p /\ n = pushed[p] + 1
    <3>1. k + 1 \in DOMAIN q' /\ q'[k + 1].by = t /\ q'[k + 1].n = n
      BY <1>t, <1>1, <1>3, <2>1
    <3> QED BY <3>1, Zenon DEF Present, q
  <2>2. CASE ~(t = p /\ n = pushed[p] + 1)
    <3>1. n \in (completed[t] + 1)..pushed[t]
      BY <1>t, <1>2, <2>2
    <3>2. Present(t, n)
      BY <1>n, <3>1, Zenon
    <3>3. \A i \in DOMAIN q : i \in DOMAIN q' /\ q'[i] = q[i]
      BY <1>t, <1>1
    <3> QED BY <1>p, <3>2, <3>3, Zenon DEF Present, q
  <2> QED BY <2>1, <2>2, Zenon
<1> QED BY <1>1, <1>4, <1>5, <1>6, <1>7, <1>8, <1>p, ZenonT(30) DEF Numbered, q

\* ProcessQueue takes the lowest number of its thread: the next to be completed.
LEMMA NumberedInvoke ==
  ASSUME TypeOK, Numbered, NEW y \in Threads, callbacksPending # <<>>,
         callbacksPending' = Tail(callbacksPending), UNCHANGED <<pushed, completed>>,
         \A x \in Threads : ~Running(x), \A x \in Threads : Running(x)' <=> x = y,
         current'[y] = callbacksPending[1]
  PROVE  Numbered'
<1> DEFINE q == callbacksPending
           k == Len(q)
           c == q[1]
<1>t. /\ q \in Seq(Callbacks) /\ k \in Nat /\ k > 0 /\ 1 \in DOMAIN q
      /\ \A i \in DOMAIN q : q[i].by \in Threads /\ q[i].n \in Nat
      /\ \A t \in Threads : pushed[t] \in Nat /\ completed[t] \in Nat
  <2>1. q \in Seq(Callbacks) /\ q # <<>>
    BY NumberTypes, Zenon
  <2>2. k \in Nat /\ k > 0 /\ 1 \in DOMAIN q
    BY <2>1
  <2> QED BY <2>1, <2>2, NumberTypes, Zenon
<1>1. DOMAIN q = 1..k /\ DOMAIN q' = 1..(k - 1) /\ \A i \in 1..(k - 1) : i + 1 \in 1..k /\ q'[i] = q[i + 1]
  BY <1>t
<1> HIDE DEF q, k
<1>p. /\ completed' = completed /\ pushed' = pushed
      /\ \A x \in Threads : ~Running(x)
      /\ \A x \in Threads : Running(x)' <=> x = y
      /\ current'[y] = c
  BY Zenon DEF q
<1> HIDE DEF c
<1>n. /\ \A t \in Threads : completed[t] <= pushed[t]
      /\ \A i \in 1..k : completed[q[i].by] < q[i].n /\ q[i].n <= pushed[q[i].by]
      /\ \A i, j \in 1..k : i < j /\ q[i].by = q[j].by => q[i].n < q[j].n
      /\ \A t \in Threads : \A n \in (completed[t] + 1)..pushed[t] :
           \E i \in 1..k : q[i].by = t /\ q[i].n = n
  <2>1. \A t, n : Present(t, n) => \E i \in 1..k : q[i].by = t /\ q[i].n = n
    BY <1>1, <1>p, Zenon DEF Present, q
  <2>2. \A t \in Threads : \A n \in (completed[t] + 1)..pushed[t] : Present(t, n)
    BY Zenon DEF Numbered
  <2>3. /\ \A t \in Threads : completed[t] <= pushed[t]
        /\ \A i \in 1..k : completed[q[i].by] < q[i].n /\ q[i].n <= pushed[q[i].by]
        /\ \A i, j \in 1..k : i < j /\ q[i].by = q[j].by => q[i].n < q[j].n
    BY <1>1, ZenonT(30) DEF Numbered, q
  <2> QED BY <2>1, <2>2, <2>3, Zenon
<1>3. c.by \in Threads /\ c.n \in Nat /\ completed[c.by] < c.n /\ c.n <= pushed[c.by] /\ 1 \in 1..k
  BY <1>t, <1>1, <1>n, Zenon DEF c
<1>4. c.n = completed[c.by] + 1
  <2>1. completed[c.by] + 1 \in (completed[c.by] + 1)..pushed[c.by]
    BY <1>t, <1>3
  <2>2. PICK i \in 1..k : q[i].by = c.by /\ q[i].n = completed[c.by] + 1
    BY <1>3, <1>n, <2>1
  <2>3. CASE i = 1
    BY <2>2, <2>3, Zenon DEF c
  <2>4. CASE i # 1
    <3>1. c.n < q[i].n
      BY <1>3, <1>n, <2>2, <2>4 DEF c
    <3> QED BY <1>t, <1>3, <2>2, <3>1
  <2> QED BY <2>3, <2>4, Zenon
<1>5. \A i \in 1..(k - 1) : q'[i].by = c.by => c.n < q'[i].n
  <2> TAKE i \in 1..(k - 1)
  <2>1. i + 1 \in 1..k /\ q'[i] = q[i + 1] /\ 1 < i + 1
    BY <1>1
  <2> QED BY <1>3, <1>n, <2>1 DEF c
<1>6. \A i \in 1..(k - 1) : completed[q'[i].by] < q'[i].n /\ q'[i].n <= pushed[q'[i].by]
  BY <1>1, <1>n
<1>7. ASSUME NEW i \in 1..(k - 1), NEW j \in 1..(k - 1), i < j, q'[i].by = q'[j].by PROVE q'[i].n < q'[j].n
  <2>1. i + 1 \in 1..k /\ j + 1 \in 1..k /\ q'[i] = q[i + 1] /\ q'[j] = q[j + 1] /\ i + 1 < j + 1
    BY <1>1, <1>7
  <2> QED BY <1>7, <1>n, <2>1
<1>8. ASSUME NEW t \in Threads, NEW n \in (completed[t] + 1)..pushed[t] PROVE Present(t, n)'
  <2>1. PICK i \in 1..k : q[i].by = t /\ q[i].n = n
    BY <1>n
  <2>2. CASE i = 1
    BY <1>p, <2>1, <2>2, Zenon DEF Present, c
  <2>3. CASE i # 1
    <3>1. i - 1 \in DOMAIN q' /\ (i - 1) + 1 = i
      BY <1>t, <1>1, <2>3
    <3>2. q'[i - 1] = q[i]
      BY <1>1, <3>1, Zenon
    <3> QED BY <2>1, <3>1, <3>2, Zenon DEF Present, q
  <2> QED BY <2>2, <2>3, Zenon
<1>9. \A x \in Threads : Running(x)' =>
        /\ current'[x].n = completed'[current'[x].by] + 1 /\ current'[x].n <= pushed'[current'[x].by]
        /\ \A i \in 1..(k - 1) : q'[i].by = current'[x].by => current'[x].n < q'[i].n
  BY <1>3, <1>4, <1>5, <1>p, Zenon
<1> QED BY <1>1, <1>6, <1>7, <1>8, <1>9, <1>n, <1>p, Zenon DEF Numbered, q

\* The callback that completes is the next of its thread.
LEMMA NumberedComplete ==
  ASSUME TypeOK, Numbered, NEW y \in Threads,
         \A x \in Threads : Running(x) <=> x = y, \A x \in Threads : ~Running(x)',
         UNCHANGED <<callbacksPending, pushed>>,
         completed' = [completed EXCEPT ![current[y].by] = @ + 1]
  PROVE  Numbered'
<1> DEFINE q == callbacksPending
           c == current[y]
<1>t. /\ c.by \in Threads /\ c.n \in Nat
      /\ \A i \in DOMAIN q : q[i].by \in Threads /\ q[i].n \in Nat
      /\ \A t \in Threads : pushed[t] \in Nat /\ completed[t] \in Nat
  BY NumberTypes, Zenon
<1>1. /\ \A t \in Threads : completed'[t] = IF t = c.by THEN completed[t] + 1 ELSE completed[t]
      /\ q' = q /\ pushed' = pushed /\ \A x \in Threads : ~Running(x)'
  BY Zenon DEF TypeOK
<1>n. /\ \A t \in Threads : completed[t] <= pushed[t]
      /\ \A i \in DOMAIN q : completed[q[i].by] < q[i].n /\ q[i].n <= pushed[q[i].by]
      /\ \A i, j \in DOMAIN q : i < j /\ q[i].by = q[j].by => q[i].n < q[j].n
      /\ c.n = completed[c.by] + 1 /\ c.n <= pushed[c.by]
      /\ \A i \in DOMAIN q : q[i].by = c.by => c.n < q[i].n
      /\ \A t \in Threads : \A n \in (completed[t] + 1)..pushed[t] :
           (\E i \in DOMAIN q : q[i].by = t /\ q[i].n = n) \/ (c.by = t /\ c.n = n)
  <2>1. \A t, n : Present(t, n) => (\E i \in DOMAIN q : q[i].by = t /\ q[i].n = n) \/ (c.by = t /\ c.n = n)
    BY Zenon DEF Present
  <2>2. \A t \in Threads : \A n \in (completed[t] + 1)..pushed[t] : Present(t, n)
    BY Zenon DEF Numbered
  <2>3. /\ \A t \in Threads : completed[t] <= pushed[t]
        /\ \A i \in DOMAIN q : completed[q[i].by] < q[i].n /\ q[i].n <= pushed[q[i].by]
        /\ \A i, j \in DOMAIN q : i < j /\ q[i].by = q[j].by => q[i].n < q[j].n
    BY Zenon DEF Numbered
  <2>4. Running(y)
    BY Zenon
  <2>5. /\ c.n = completed[c.by] + 1 /\ c.n <= pushed[c.by]
        /\ \A i \in DOMAIN q : q[i].by = c.by => c.n < q[i].n
    BY <2>4, Zenon DEF Numbered
  <2> HIDE DEF q, c
  <2>6. ASSUME NEW t \in Threads, NEW n \in (completed[t] + 1)..pushed[t]
        PROVE  (\E i \in DOMAIN q : q[i].by = t /\ q[i].n = n) \/ (c.by = t /\ c.n = n)
    BY <2>1, <2>2
  <2> QED BY <2>3, <2>5, <2>6, Zenon
<1> HIDE DEF q, c
<1>2. \A t \in Threads : completed'[t] <= pushed[t]
  BY <1>t, <1>1, <1>n, Zenon
<1>3. \A i \in DOMAIN q : completed'[q[i].by] < q[i].n
  BY <1>t, <1>1, <1>n, SMTT(30)
<1>4. ASSUME NEW t \in Threads, NEW n \in (completed'[t] + 1)..pushed[t]
      PROVE  \E i \in DOMAIN q : q[i].by = t /\ q[i].n = n
  <2>1. n \in (completed[t] + 1)..pushed[t] /\ ~(c.by = t /\ c.n = n)
    BY <1>t, <1>1, <1>n
  <2> QED BY <1>n, <2>1
<1>5. ASSUME NEW t \in Threads, NEW n \in (completed'[t] + 1)..pushed'[t] PROVE Present(t, n)'
  <2>1. \E i \in DOMAIN q' : q'[i].by = t /\ q'[i].n = n
    BY <1>1, <1>4
  <2> QED BY <2>1, Zenon DEF Present, q
<1>6. \A i \in DOMAIN q' : completed'[q'[i].by] < q'[i].n /\ q'[i].n <= pushed'[q'[i].by]
  BY <1>1, <1>3, <1>n, Zenon
<1> QED BY <1>1, <1>2, <1>5, <1>6, <1>n, ZenonT(30) DEF Numbered, q

\* A step that is not ProcessQueue or Callback leaves the numbers alone or is a
\* call of AddToProcessQueue by a thread that has not ended.
LEMMA Pushes ==
  ASSUME TypeOK, [Next]_vars, \A t \in Threads : ~ProcessQueue(t) /\ ~Callback(t)
  PROVE  /\ completed' = completed
         /\ \/ UNCHANGED <<callbacksPending, pushed>>
            \/ \E p \in Threads, kind \in {"event", "promise"} :
                 /\ callbacksPending' = Append(callbacksPending, [by |-> p, n |-> pushed[p] + 1, kind |-> kind])
                 /\ pushed' = [pushed EXCEPT ![p] = @ + 1]
                 /\ pc[p] \notin {"gone", "done"} /\ pc'[p] # "done"
<1> DEFINE Push(p, kind) ==
             /\ callbacksPending' = Append(callbacksPending, [by |-> p, n |-> pushed[p] + 1, kind |-> kind])
             /\ pushed' = [pushed EXCEPT ![p] = @ + 1]
             /\ pc[p] \notin {"gone", "done"} /\ pc'[p] # "done"
           Goal == /\ completed' = completed
                   /\ \/ UNCHANGED <<callbacksPending, pushed>>
                      \/ \E p \in Threads, kind \in {"event", "promise"} : Push(p, kind)
<1> SUFFICES Goal  BY Zenon
<1>0. Services \subseteq Threads /\ Producers \subseteq Threads /\ Main \in Threads
  BY Zenon DEF Threads
<1>t. pc \in [Threads -> Labels]
  BY Zenon DEF TypeOK
<1>1. ASSUME NEW t \in Threads, MaybeScheduleProcessQueue(t) \/ Schedule(t) \/ ClearRunning(t) PROVE Goal
  BY <1>1, Zenon DEF MaybeScheduleProcessQueue, Schedule, ClearRunning, client
<1>2. ASSUME NEW t \in Services,
             WaitForTask(t) \/ TakeTask(t) \/ TakeTimer(t) \/ Repeat(t) \/ ServiceInterrupted(t)
      PROVE Goal
  BY <1>2, Zenon DEF WaitForTask, TakeTask, TakeTimer, Repeat, ServiceInterrupted, client
<1>3. ASSUME NEW p \in Threads, NEW kind \in {"event", "promise"}, NEW label, pc[p] \notin {"gone", "done"},
             AddToProcessQueue(p, kind, label), UNCHANGED completed
      PROVE Goal
  <2>1. Push(p, kind)
    BY <1>t, <1>3, Zenon DEF AddToProcessQueue, Goto
  <2> HIDE DEF Push
  <2> QED BY <1>3, <2>1, Zenon
<1> HIDE DEF Push
<1>4. ASSUME NEW p \in Producers, Throttle(p) \/ PushEvent(p) \/ Sync(p) PROVE Goal
  BY <1>0, <1>3, <1>4, Zenon DEF Throttle, PushEvent, Sync
<1>5. ASSUME FlushStateToDisk PROVE Goal
  BY <1>0, <1>3, <1>5, Zenon DEF FlushStateToDisk
<1>6. ASSUME NEW p \in Producers,
              SyncReturns(p) \/ ImporterEnds(p) \/ BeginRound(p) \/ LockMain(p) \/ UnlockMain(p)
       PROVE Goal
  BY <1>6, Zenon DEF SyncReturns, ImporterEnds, BeginRound, LockMain, UnlockMain, client
<1>7. CASE JoinAll \/ EmptyQueue \/ TimerDue \/ InterruptAll \/ UNCHANGED vars
  BY <1>7, Zenon DEF JoinAll, EmptyQueue, TimerDue, InterruptAll, vars, client
<1> HIDE DEF Goal
<1> QED
  BY <1>1, <1>2, <1>4, <1>5, <1>6, <1>7, Zenon
  DEF Next, Step, Process, Service, Produce, Shutdown

\* Every step keeps the numbering.
LEMMA NumberedNext == TypeOK /\ Serial /\ Numbered /\ [Next]_vars => Numbered'
<1> SUFFICES ASSUME TypeOK, Serial, Numbered, [Next]_vars PROVE Numbered'  BY Zenon
<1>t. pc \in [Threads -> Labels] /\ after \in [Threads -> Continuations]
      /\ current \in [Threads -> Callbacks \cup {Null}] /\ callbacksPending \in Seq(Callbacks)
  BY Zenon DEF TypeOK
<1>0. ASSUME UNCHANGED <<callbacksPending, pushed, completed, current>>,
             \A x \in Threads : Running(x) <=> Running(x)'
      PROVE  Numbered'
  <2>1. \A t, n : Present(t, n) => Present(t, n)'
    BY <1>0, ZenonT(30) DEF Present
  <2> HIDE DEF Present
  <2> QED BY <1>0, <2>1, Zenon DEF Numbered
<1>1. ASSUME NEW t \in Threads, ProcessQueue(t) PROVE Numbered'
  <2>1. CASE callbacksRunning \/ callbacksPending = <<>>
    BY <1>0, <1>t, <1>1, <2>1, Zenon DEF ProcessQueue, Goto, Continuations, client, Running
  <2>2. CASE ~(callbacksRunning \/ callbacksPending = <<>>)
    <3>1. \A x \in Threads : ~Running(x)
      BY <2>2, Zenon DEF Serial, Running
    <3>2. \A x \in Threads : Running(x)' <=> x = t
      BY <1>t, <1>1, <2>2, <3>1, Zenon DEF ProcessQueue, Goto, Running
    <3>3. /\ callbacksPending # <<>> /\ callbacksPending' = Tail(callbacksPending)
          /\ UNCHANGED <<pushed, completed>> /\ current'[t] = Head(callbacksPending)
      BY <1>t, <1>1, <2>2, Zenon DEF ProcessQueue
    <3>4. Head(callbacksPending) = callbacksPending[1]
      BY <1>t, <3>3
    <3> QED BY <3>1, <3>2, <3>3, <3>4, NumberedInvoke, Zenon
  <2> QED BY <2>1, <2>2, Zenon
<1>2. ASSUME NEW t \in Threads, Callback(t) PROVE Numbered'
  <2>1. \A x \in Threads : Running(x) <=> x = t
    BY <1>2, Zenon DEF Serial, Callback, Running
  <2>2. \A x \in Threads : ~Running(x)'
    BY <1>t, <1>2, <2>1, Zenon DEF Callback, Goto, Running
  <2>3. UNCHANGED <<callbacksPending, pushed>> /\ completed' = [completed EXCEPT ![current[t].by] = @ + 1]
    BY <1>2, Zenon DEF Callback, client
  <2> QED BY <2>1, <2>2, <2>3, NumberedComplete, Zenon
<1>3. CASE \A t \in Threads : ~ProcessQueue(t) /\ ~Callback(t)
  <2>1. current' = current /\ \A x \in Threads : Running(x) <=> Running(x)'
    <3>1. ASSUME NEW t \in Threads, ClearRunning(t)
          PROVE  current' = current /\ \A x \in Threads : Running(x) <=> Running(x)'
      BY <1>t, <3>1, Zenon DEF ClearRunning, Goto, Running
    <3>2. CASE \A t \in Threads : ~ClearRunning(t)
      BY <1>3, <3>2, OtherSteps, Zenon DEF Running
    <3> QED BY <3>1, <3>2, Zenon
  <2>2. CASE UNCHANGED <<callbacksPending, pushed, completed>>
    BY <1>0, <2>1, <2>2, Zenon
  <2> QED BY <1>3, <2>1, <2>2, Pushes, NumberedPush, Zenon
<1> QED BY <1>1, <1>2, <1>3, Zenon

\* At the end of Shutdown no thread is left to generate a callback.
LEMMA DrainedNext == TypeOK /\ Joined /\ Drained /\ [Next]_vars => Drained'
<1> SUFFICES ASSUME TypeOK, Joined, Drained, [Next]_vars, pc'[Main] = "done" PROVE callbacksPending' = <<>>
  BY Zenon DEF Drained
<1>0. Services \subseteq Threads /\ Producers \subseteq Threads /\ Main \in Threads
  BY Zenon DEF Threads
<1>t. pc \in [Threads -> Labels] /\ after \in [Threads -> Continuations]
  BY Zenon DEF TypeOK
<1>1. CASE pc[Main] = "done"
  <2>1. callbacksPending = <<>> /\ \A t \in Threads : pc[t] \in {"gone", "done"}
    BY <1>1, Zenon DEF Drained, Joined
  <2>2. \A t \in Threads : ~ProcessQueue(t) /\ ~Callback(t)
    BY <2>1, Zenon DEF ProcessQueue, Callback
  <2> QED BY <2>1, <2>2, Pushes, Zenon
<1>2. CASE pc[Main] # "done"
  <2>1. ASSUME NEW t \in Threads, NEW l, pc' = [pc EXCEPT ![t] = l] PROVE t = Main /\ l = "done"
    BY <1>0, <1>t, <1>2, <2>1, Zenon
  <2>2. ASSUME NEW t \in Threads, Process(t) PROVE FALSE
    BY <1>t, <2>1, <2>2, Zenon
    DEF Process, MaybeScheduleProcessQueue, Schedule, ProcessQueue, Callback, ClearRunning, Goto, Continuations
  <2>3. ASSUME NEW t \in Services, Service(t) PROVE FALSE
    <3>1. t # Main /\ t \in Threads
      BY <1>0, ThreadKinds, Zenon
    <3>2. \E l : pc' = [pc EXCEPT ![t] = l]
      BY <2>3, Zenon DEF Service, WaitForTask, TakeTask, TakeTimer, Repeat, ServiceInterrupted, Goto
    <3> QED BY <2>1, <3>1, <3>2, Zenon
  <2>4. ASSUME NEW p \in Producers, Produce(p) \/ Sync(p) \/ BeginRound(p) PROVE FALSE
    <3>1. p # Main /\ p \in Threads
      BY <1>0, ThreadKinds, Zenon
    <3>2. \E l : pc' = [pc EXCEPT ![p] = l]
      BY <2>4, Zenon
      DEF Produce, Throttle, SyncReturns, LockMain, PushEvent, UnlockMain, ImporterEnds, Sync, BeginRound,
          AddToProcessQueue, Goto
    <3> QED BY <2>1, <3>1, <3>2, Zenon
  <2>5. ~JoinAll /\ ~FlushStateToDisk
    BY <1>0, <2>1, Zenon DEF JoinAll, FlushStateToDisk, AddToProcessQueue, Goto
  <2>6. ~InterruptAll /\ ~TimerDue /\ ~UNCHANGED vars
    BY <1>0, <1>2, ThreadKinds, Zenon DEF InterruptAll, TimerDue, vars, Producers
  <2>7. EmptyQueue
    BY <2>2, <2>3, <2>4, <2>5, <2>6, Zenon DEF Next, Step, Shutdown
  <2> QED BY <1>0, <2>1, <2>7 DEF EmptyQueue, Goto, client
<1> QED BY <1>1, <1>2, Zenon

\* Shutdown ends with every callback that was ever generated completed, also
\* those whose scheduled task no thread was left to run: EmptyQueue runs them.
THEOREM EndOfShutdown == Spec => []ShutdownDrains
<1>1. Init => Numbered /\ Drained
  BY DEF Init, Numbered, Drained, Present, Running, Threads
<1>2. IInv /\ Numbered /\ Drained /\ [Next]_vars => (Numbered /\ Drained)'
  BY NumberedNext, DrainedNext, Zenon DEF IInv
<1>3. IInv /\ Numbered /\ Drained => ShutdownDrains
  <2> SUFFICES ASSUME IInv, Numbered, Drained, pc[Main] = "done"
               PROVE  callbacksPending = <<>> /\ completed = pushed
    BY Zenon DEF ShutdownDrains
  <2>1. callbacksPending = <<>> /\ \A x \in Threads : ~Running(x)
    BY Zenon DEF Drained, IInv, Joined, Running
  <2>2. \A t, n : ~Present(t, n)
    BY <2>1 DEF Present
  <2>3. ASSUME NEW t \in Threads PROVE completed[t] = pushed[t]
    <3>1. completed[t] \in Nat /\ pushed[t] \in Nat /\ completed[t] <= pushed[t]
      BY Zenon DEF IInv, TypeOK, Numbered
    <3>2. pushed[t] \notin (completed[t] + 1)..pushed[t]
      BY <2>2, Zenon DEF Numbered
    <3> QED BY <3>1, <3>2
  <2>4. completed \in [Threads -> Nat] /\ pushed \in [Threads -> Nat]
    BY Zenon DEF IInv, TypeOK
  <2> QED BY <2>1, <2>3, <2>4
<1> QED BY Invariant, <1>1, <1>2, <1>3, PTL DEF Spec
=============================================================================
