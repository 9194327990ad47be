--------------------------- MODULE CheckQueueProofs ---------------------------
(***************************************************************************)
(* The safety of CCheckQueue for any number of workers and masters, any    *)
(* batch size and any set of checks.  The sizes of the batches play no     *)
(* part beyond being at least one, so nIdle and nTotal are not mentioned.  *)
(***************************************************************************)
EXTENDS CheckQueue, FiniteSetTheorems, TLAPS

Types ==
  /\ queue \subseteq Checks /\ fAllOk \in BOOLEAN
  /\ control \in Masters \cup {Null}
  /\ pc \in [Threads -> {"out", "adding", "unwind", "waiting", "work", "clean", "returned", "gone"}]
  /\ vChecks \in [Threads -> SUBSET Checks]
  /\ fOk \in [Threads -> BOOLEAN]
  /\ result \in BOOLEAN
  /\ added \subseteq Checks /\ ran \subseteq added

\* A control is at work: what the history says is about its checks.
Active == control # Null /\ pc[control] # "returned"

\* A thread has a batch exactly while it executes it or has not reported it, and
\* everything outstanding was added under the current control.
Placed ==
  /\ \A t \in Threads : vChecks[t] # {} <=> pc[t] \in {"work", "clean"}
  /\ Outstanding \subseteq added

\* A master is inside exactly when it owns ControlMutex.
Owner == \A m \in Masters : pc[m] # "out" <=> control = m

\* Without an active control nothing is outstanding and no failure is left.
Quiet == ~Active => Outstanding = {} /\ fAllOk

\* What fAllOk and the threads' own results say of the checks.
Sound ==
  /\ Active /\ ~fAllOk => added \cap Bad # {}
  /\ Active /\ fAllOk => (added \ Outstanding) \cap Bad = {} /\ added \ Outstanding \subseteq ran
  /\ \A t \in Threads :
       /\ pc[t] = "clean" /\ fOk[t] => vChecks[t] \cap Bad = {} /\ vChecks[t] \subseteq ran
       /\ pc[t] \in {"work", "clean"} /\ ~fOk[t] => added \cap Bad # {}

\* What Wait has returned.
Returned ==
  \A m \in Masters : pc[m] = "returned" => (result <=> added \cap Bad = {}) /\ (result => ran = added)

IInv == Types /\ TodoCounts /\ Placed /\ Owner /\ Quiet /\ Sound /\ Returned

\* Membership in Outstanding.
LEMMA OutstandingHas ==
  \A x : x \in Outstanding <=> x \in queue \/ \E t \in Threads : x \in vChecks[t]
BY DEF Outstanding

\* The same in the next state.
LEMMA OutstandingHasNext ==
  \A x : x \in Outstanding' <=> x \in queue' \/ \E t \in Threads : x \in vChecks'[t]
BY DEF Outstanding

\* Everything outstanding is a finite set of checks.
LEMMA OutstandingFinite == Types => IsFiniteSet(Outstanding) /\ Outstanding \subseteq Checks
<1> SUFFICES ASSUME Types PROVE IsFiniteSet(Outstanding) /\ Outstanding \subseteq Checks  OBVIOUS
<1>1. Outstanding \subseteq Checks
  BY OutstandingHas DEF Types
<1> QED BY <1>1, FS_Subset, ThreadsAndChecks

\* The initial state satisfies the inductive invariant.
LEMMA InitIInv == Init => IInv
<1> SUFFICES ASSUME Init PROVE IInv  OBVIOUS
<1>1. Outstanding = {}
  BY OutstandingHas DEF Init
<1>2. Types /\ ~Active
  BY ThreadsAndChecks DEF Init, Types, Active
<1>3. TodoCounts
  BY <1>1, FS_EmptySet DEF Init, TodoCounts
<1>4. Placed /\ Owner /\ Quiet /\ Returned
  BY <1>1, ThreadsAndChecks DEF Init, Placed, Owner, Quiet, Returned, Threads
<1>5. Sound
  BY <1>2 DEF Init, Sound
<1> QED BY <1>2, <1>3, <1>4, <1>5 DEF IInv

\* A batch is never empty.
LEMMA BatchNotEmpty ==
  ASSUME NEW n, NEW total, NEW idle, NEW S \in kSubset(BatchSize(n, total, idle), queue)
  PROVE  S \subseteq queue /\ S # {}
<1>1. BatchSize(n, total, idle) # 0
  BY DEF BatchSize
<1>2. S \subseteq queue /\ Cardinality(S) = BatchSize(n, total, idle)
  BY DEF kSubset
<1> QED BY <1>1, <1>2, FS_EmptySet

\* The critical section of Loop, entered with thread t's batch taken off the
\* count: left outstanding is what is neither done nor in t's hands.
LEMMA LoopFromIInv ==
  ASSUME IInv,
         NEW t \in Threads, NEW todo, NEW total, NEW idle, NEW allOk \in BOOLEAN, NEW awake,
         NEW Left, Left = Outstanding \ vChecks[t], todo = Cardinality(Left),
         pc[t] \in {"out", "adding", "unwind", "waiting", "clean"},
         t \in Masters => control = t,
         ~Active => allOk = fAllOk /\ vChecks[t] = {},
         Active /\ ~allOk => added \cap Bad # {},
         Active /\ allOk => (added \ Left) \cap Bad = {} /\ added \ Left \subseteq ran,
         LoopFrom(t, todo, total, idle, allOk, awake)
  PROVE  IInv'
<1>t. Types /\ TodoCounts /\ Placed /\ Owner /\ Quiet /\ Sound /\ Returned
  BY DEF IInv
<1>u. UNCHANGED <<control, added, ran>> /\ nTodo' = todo
  BY DEF LoopFrom
<1>l. /\ Left \subseteq Outstanding /\ queue \subseteq Left
      /\ \A x : x \in Left <=> x \in queue \/ \E u \in Threads : u # t /\ x \in vChecks[u]
  BY <1>t, OutstandingHas DEF TodoCounts
<1>f. IsFiniteSet(Left) /\ Left \subseteq Checks
  BY <1>t, <1>l, OutstandingFinite, FS_Subset
<1>1. CASE queue # {}
  <2>1. PICK S \in kSubset(BatchSize(Cardinality(queue), total, idle), queue) :
          /\ vChecks' = [vChecks EXCEPT ![t] = S]
          /\ queue' = queue \ S
          /\ fOk' = [fOk EXCEPT ![t] = allOk]
          /\ pc' = [pc EXCEPT ![t] = "work"]
          /\ fAllOk' = allOk
          /\ UNCHANGED result
    BY <1>1 DEF LoopFrom, TakeBatch
  <2>2. S \subseteq queue /\ S # {}
    BY BatchNotEmpty
  <2>a. Active
    BY <1>1, <1>t, OutstandingHas DEF Quiet
  <2>3. Types'
    BY <1>t, <1>u, <2>1, <2>2 DEF Types
  <2>4. \A u \in Threads : vChecks'[u] = IF u = t THEN S ELSE vChecks[u]
    BY <1>t, <2>1 DEF Types
  <2>5. \A u \in Threads : pc'[u] = IF u = t THEN "work" ELSE pc[u]
    BY <1>t, <2>1 DEF Types
  <2>6. Outstanding' = Left
    <3>1. ASSUME NEW x PROVE x \in Outstanding' <=> x \in Left
      BY <1>l, <2>1, <2>2, <2>4, OutstandingHasNext
    <3> QED BY <3>1
  <2>7. TodoCounts'
    <3>1. nTodo' = Cardinality(Outstanding')
      BY <1>u, <2>6
    <3>2. \A u \in Threads : vChecks'[u] \cap queue' = {}
      BY <1>t, <2>1, <2>2, <2>4 DEF TodoCounts
    <3>3. \A u, v \in Threads : u # v => vChecks'[u] \cap vChecks'[v] = {}
      BY <1>t, <2>2, <2>4 DEF TodoCounts
    <3> QED BY <3>1, <3>2, <3>3 DEF TodoCounts
  <2>8. Placed'
    BY <1>t, <1>l, <1>u, <2>2, <2>4, <2>5, <2>6 DEF Placed
  <2>9. Owner' /\ Active'
    <3>1. t \in Masters => control = t
      OBVIOUS
    <3>2. \A m \in Masters : m \in Threads
      BY DEF Threads
    <3>3. control \in Masters
      BY <1>t, <2>a DEF Active, Types
    <3> QED BY <1>t, <1>u, <2>a, <2>5, <3>1, <3>2, <3>3 DEF Owner, Active
  <2>10. Sound'
    <3>1. (Active /\ ~fAllOk => added \cap Bad # {})'
      BY <1>u, <2>1, <2>a
    <3>2. (Active /\ fAllOk => (added \ Outstanding) \cap Bad = {} /\ added \ Outstanding \subseteq ran)'
      BY <1>u, <2>1, <2>6, <2>a
    <3>3. ASSUME NEW u \in Threads
          PROVE  /\ pc'[u] = "clean" /\ fOk'[u] => vChecks'[u] \cap Bad = {} /\ vChecks'[u] \subseteq ran'
                 /\ pc'[u] \in {"work", "clean"} /\ ~fOk'[u] => added' \cap Bad # {}
      <4>1. CASE u = t
        BY <1>t, <1>u, <2>1, <2>5, <2>a, <4>1 DEF Types
      <4>2. CASE u # t
        BY <1>t, <1>u, <2>1, <2>4, <2>5, <4>2 DEF Types, Sound
      <4> QED BY <4>1, <4>2
    <3> QED BY <3>1, <3>2, <3>3 DEF Sound
  <2>11. Returned'
    BY <1>t, <1>u, <2>1, <2>5 DEF Returned, Threads
  <2> QED BY <2>3, <2>7, <2>8, <2>9, <2>10, <2>11 DEF IInv, Quiet
<1>2. CASE queue = {}
  <2>1. /\ queue' = {} /\ vChecks' = [vChecks EXCEPT ![t] = {}] /\ UNCHANGED fOk
        /\ \/ /\ t \in Masters /\ todo = 0 /\ result' = allOk /\ fAllOk' = TRUE
              /\ pc' = [pc EXCEPT ![t] = "returned"]
           \/ fAllOk' = allOk /\ pc' = [pc EXCEPT ![t] = "waiting"] /\ UNCHANGED result
    BY <1>2 DEF LoopFrom, ReturnStatus, Sleep
  <2>3. Types'
    BY <1>t, <1>u, <2>1, Zenon DEF Types
  <2>4. \A u \in Threads : vChecks'[u] = IF u = t THEN {} ELSE vChecks[u]
    BY <1>t, <2>1 DEF Types
  <2>5. \A u \in Threads : u # t => pc'[u] = pc[u]
    BY <1>t, <2>1 DEF Types
  <2>6. Outstanding' = Left
    <3>1. ASSUME NEW x PROVE x \in Outstanding' <=> x \in Left
      BY <1>2, <1>l, <2>1, <2>4, OutstandingHasNext
    <3> QED BY <3>1
  <2>7. TodoCounts'
    <3>1. nTodo' = Cardinality(Outstanding')
      BY <1>u, <2>6
    <3>2. \A u, v \in Threads : u # v => vChecks'[u] \cap vChecks'[v] = {}
      BY <1>t, <2>4 DEF TodoCounts
    <3> QED BY <2>1, <3>1, <3>2 DEF TodoCounts
  <2>8. pc'[t] \in {"waiting", "returned"} /\ (t \notin Masters => pc'[t] = "waiting")
    BY <1>t, <2>1 DEF Types
  <2>9. Placed'
    BY <1>t, <1>l, <1>u, <2>4, <2>5, <2>6, <2>8 DEF Placed
  <2>10. Owner'
    BY <1>t, <1>u, <2>5, <2>8 DEF Owner, Threads
  <2>11. \A u \in Threads :
           /\ pc'[u] = "clean" /\ fOk'[u] => vChecks'[u] \cap Bad = {} /\ vChecks'[u] \subseteq ran'
           /\ pc'[u] \in {"work", "clean"} /\ ~fOk'[u] => added' \cap Bad # {}
    BY <1>t, <1>u, <2>1, <2>4, <2>5, <2>8 DEF Sound
  <2>12. CASE t \in Masters /\ todo = 0 /\ result' = allOk /\ fAllOk' = TRUE /\ pc' = [pc EXCEPT ![t] = "returned"]
    <3>1. Left = {}
      BY <1>f, <2>12, FS_EmptySet, Zenon
    <3>2. control = t /\ control # Null /\ Active
      BY <1>t, <2>12, ThreadsAndChecks DEF Active, Threads
    <3>3. pc'[t] = "returned"
      BY <1>t, <2>12 DEF Types
    <3>4. ~Active'
      BY <1>u, <3>2, <3>3 DEF Active
    <3>5. Returned'
      <4>1. (allOk <=> added \cap Bad = {}) /\ (allOk => ran = added)
        BY <3>1, <3>2, <1>t DEF Types
      <4>2. \A m \in Masters : pc'[m] = "returned" => m = t
        BY <1>t, <1>u, <2>5, <3>2, <2>10 DEF Owner, Threads
      <4> QED BY <1>u, <2>12, <4>1 DEF Returned
    <3> QED BY <2>3, <2>6, <2>7, <2>9, <2>10, <2>11, <2>12, <3>1, <3>4, <3>5 DEF IInv, Quiet, Sound
  <2>13. CASE fAllOk' = allOk /\ pc' = [pc EXCEPT ![t] = "waiting"] /\ UNCHANGED result
    <3>1. pc'[t] = "waiting"
      BY <1>t, <2>13 DEF Types
    <3>2. Active' <=> Active
      <4>1. CASE control = t
        BY <1>u, <3>1, <4>1 DEF Active
      <4>2. CASE control # t
        BY <1>t, <1>u, <2>5, <4>2 DEF Active, Types, Threads
      <4> QED BY <4>1, <4>2
    <3>3. Quiet'
      BY <1>t, <1>l, <2>6, <2>13, <3>2 DEF Quiet
    <3>4. Sound'
      <4>1. (Active /\ ~fAllOk => added \cap Bad # {})'
        BY <1>u, <2>13, <3>2
      <4>2. (Active /\ fAllOk => (added \ Outstanding) \cap Bad = {} /\ added \ Outstanding \subseteq ran)'
        BY <1>u, <2>13, <2>6, <3>2
      <4> QED BY <2>11, <4>1, <4>2 DEF Sound
    <3>5. Returned'
      BY <1>t, <1>u, <2>5, <2>13, <3>1 DEF Returned, Threads
    <3> QED BY <2>3, <2>7, <2>9, <2>10, <3>3, <3>4, <3>5 DEF IInv
  <2> QED BY <2>1, <2>12, <2>13, Zenon
<1> QED BY <1>1, <1>2

\* Entering Loop and returning from cond.wait: the thread has no batch.
LEMMA EnterIInv ==
  ASSUME IInv, NEW t \in Threads, EnterLoop(t) \/ WakeUp(t)
  PROVE  IInv'
<1>t. Types /\ TodoCounts /\ Placed /\ Owner /\ Quiet /\ Sound /\ Returned
  BY DEF IInv
<1>1. pc[t] \in {"out", "adding", "unwind", "waiting"} /\ (t \in Masters => pc[t] # "out")
  BY DEF EnterLoop, WakeUp
<1>2. vChecks[t] = {} /\ Outstanding = Outstanding \ vChecks[t]
  BY <1>t, <1>1 DEF Placed
<1>3. t \in Masters => control = t
  BY <1>t, <1>1 DEF Owner
<1>4. PICK total, idle : LoopFrom(t, nTodo, total, idle, fAllOk, sleeping)
  BY DEF EnterLoop, WakeUp
<1>5. nTodo = Cardinality(Outstanding) /\ fAllOk \in BOOLEAN
  BY <1>t DEF TodoCounts, Types
<1>6. /\ Active /\ ~fAllOk => added \cap Bad # {}
      /\ Active /\ fAllOk => (added \ Outstanding) \cap Bad = {} /\ added \ Outstanding \subseteq ran
  BY <1>t DEF Sound
<1> QED BY <1>1, <1>2, <1>3, <1>4, <1>5, <1>6, LoopFromIInv

\* Reporting a batch and going on with Loop.
LEMMA CleanUpIInv ==
  ASSUME IInv, NEW t \in Threads, CleanUp(t)
  PROVE  IInv'
<1>t. Types /\ TodoCounts /\ Placed /\ Owner /\ Quiet /\ Sound /\ Returned
  BY DEF IInv
<1> DEFINE Left == Outstanding \ vChecks[t]
<1>1. pc[t] = "clean" /\ vChecks[t] # {} /\ vChecks[t] \subseteq Outstanding
  BY <1>t, OutstandingHas DEF CleanUp, Placed
<1>2. Active
  BY <1>t, <1>1 DEF Quiet
<1>3. t \in Masters => control = t
  BY <1>t, <1>1 DEF Owner
<1>4. nTodo - Cardinality(vChecks[t]) = Cardinality(Left)
  <2>1. IsFiniteSet(Outstanding) /\ nTodo = Cardinality(Outstanding)
    BY <1>t, OutstandingFinite DEF TodoCounts
  <2>2. Outstanding \cap vChecks[t] = vChecks[t]
    BY <1>1
  <2>3. Cardinality(Outstanding \ vChecks[t]) = Cardinality(Outstanding) - Cardinality(Outstanding \cap vChecks[t])
    BY <2>1, FS_Difference, Zenon
  <2> QED BY <2>1, <2>2, <2>3
<1>5. (fAllOk /\ fOk[t]) \in BOOLEAN
  OBVIOUS
<1>6. ~(fAllOk /\ fOk[t]) => added \cap Bad # {}
  BY <1>t, <1>1, <1>2 DEF Sound, Types
<1>7. fAllOk /\ fOk[t] => (added \ Left) \cap Bad = {} /\ added \ Left \subseteq ran
  <2> SUFFICES ASSUME fAllOk, fOk[t] PROVE (added \ Left) \cap Bad = {} /\ added \ Left \subseteq ran
    OBVIOUS
  <2>1. (added \ Outstanding) \cap Bad = {} /\ added \ Outstanding \subseteq ran
    BY <1>t, <1>2 DEF Sound
  <2>2. vChecks[t] \cap Bad = {} /\ vChecks[t] \subseteq ran
    BY <1>t, <1>1 DEF Sound
  <2>3. added \ Left \subseteq (added \ Outstanding) \cup vChecks[t]
    OBVIOUS
  <2> QED BY <2>1, <2>2, <2>3
<1>8. PICK awake : LoopFrom(t, nTodo - Cardinality(vChecks[t]), nTotal, nIdle, fAllOk /\ fOk[t], awake)
  BY DEF CleanUp
<1> DEFINE ok == fAllOk /\ fOk[t]
           todo == nTodo - Cardinality(vChecks[t])
<1>9. /\ Left = Outstanding \ vChecks[t] /\ ok \in BOOLEAN /\ todo = Cardinality(Left)
      /\ ~ok => added \cap Bad # {}
      /\ ok => (added \ Left) \cap Bad = {} /\ added \ Left \subseteq ran
      /\ LoopFrom(t, todo, nTotal, nIdle, ok, awake)
  BY <1>4, <1>5, <1>6, <1>7, <1>8
<1> HIDE DEF Left, ok, todo
<1> QED BY <1>1, <1>2, <1>3, <1>9, LoopFromIInv

\* The evaluation of a batch.
LEMMA ExecuteIInv ==
  ASSUME IInv, NEW t \in Threads, Execute(t)
  PROVE  IInv'
<1>t. Types /\ TodoCounts /\ Placed /\ Owner /\ Quiet /\ Sound /\ Returned
  BY DEF IInv
<1>u. UNCHANGED <<queue, nTodo, fAllOk, vChecks, control, result, added>>
  BY DEF Execute, shared
<1>1. pc[t] = "work" /\ pc' = [pc EXCEPT ![t] = "clean"] /\ fOk' = [fOk EXCEPT ![t] = @ /\ vChecks[t] \cap Bad = {}]
  BY DEF Execute
<1>2. PICK S \in SUBSET vChecks[t] :
        /\ fOk[t] => IF vChecks[t] \cap Bad = {} THEN S = vChecks[t] ELSE Cardinality(S \cap Bad) = 1
        /\ ran' = ran \cup S
  BY Zenon DEF Execute
<1>3. vChecks[t] \subseteq added /\ vChecks[t] # {} /\ vChecks[t] \subseteq Outstanding
  BY <1>t, <1>1, OutstandingHas DEF Placed
<1>4. Outstanding' = Outstanding
  BY <1>u DEF Outstanding
<1>5. Types'
  BY <1>t, <1>u, <1>1, <1>2, <1>3 DEF Types
<1>6. \A x \in Threads : pc'[x] = IF x = t THEN "clean" ELSE pc[x]
  BY <1>t, <1>1 DEF Types
<1>7. TodoCounts' /\ Placed' /\ Owner'
  BY <1>t, <1>u, <1>1, <1>4, <1>6 DEF TodoCounts, Placed, Owner, Threads
<1>8. Active /\ Active'
  <2>1. Active
    BY <1>t, <1>3 DEF Quiet
  <2>2. control \in Threads
    BY <1>t, <2>1 DEF Active, Types, Threads
  <2> QED BY <1>u, <1>6, <2>1, <2>2 DEF Active
<1>9. Sound'
  <2>1. ASSUME NEW x \in Threads
        PROVE  /\ pc'[x] = "clean" /\ fOk'[x] => vChecks'[x] \cap Bad = {} /\ vChecks'[x] \subseteq ran'
               /\ pc'[x] \in {"work", "clean"} /\ ~fOk'[x] => added' \cap Bad # {}
    <3>1. CASE x = t
      BY <1>t, <1>u, <1>1, <1>2, <1>3, <3>1, Zenon DEF Types, Sound
    <3>2. CASE x # t
      BY <1>t, <1>u, <1>1, <1>2, <1>6, <3>2 DEF Types, Sound
    <3> QED BY <3>1, <3>2
  <2>2. (Active /\ ~fAllOk => added \cap Bad # {})'
    BY <1>t, <1>u, <1>8 DEF Sound
  <2>3. (Active /\ fAllOk => (added \ Outstanding) \cap Bad = {} /\ added \ Outstanding \subseteq ran)'
    BY <1>t, <1>u, <1>2, <1>4, <1>8 DEF Sound
  <2> QED BY <2>1, <2>2, <2>3 DEF Sound
<1>10. Returned'
  <2>1. \A m \in Masters : pc'[m] # "returned"
    BY <1>t, <1>6, <1>8 DEF Owner, Active, Threads
  <2> QED BY <2>1 DEF Returned
<1> QED BY <1>5, <1>7, <1>8, <1>9, <1>10 DEF IInv, Quiet

\* Taking ControlMutex.
LEMMA NewControlIInv ==
  ASSUME IInv, NEW m \in Masters, NewControl(m)
  PROVE  IInv'
<1>t. Types /\ TodoCounts /\ Placed /\ Owner /\ Quiet /\ Sound /\ Returned
  BY DEF IInv
<1>m. m \in Threads /\ m # Null
  BY ThreadsAndChecks DEF Threads
<1>u. UNCHANGED <<queue, nTodo, fAllOk, vChecks, fOk, result>>
  BY DEF NewControl, shared
<1>1. control = Null /\ control' = m /\ pc' = [pc EXCEPT ![m] = "adding"] /\ added' = {} /\ ran' = {} /\ pc[m] = "out"
  BY DEF NewControl
<1>2. Outstanding = {} /\ Outstanding' = {} /\ fAllOk
  BY <1>t, <1>u, <1>1 DEF Quiet, Active, Outstanding
<1>3. \A x \in Threads : pc'[x] = IF x = m THEN "adding" ELSE pc[x]
  BY <1>t, <1>m, <1>1 DEF Types
<1>4. \A x \in Threads : pc[x] \notin {"work", "clean"}
  BY <1>t, <1>2, OutstandingHas DEF Placed
<1>5. Types' /\ Active'
  BY <1>t, <1>m, <1>u, <1>1, <1>3 DEF Types, Active
<1>6. TodoCounts' /\ Placed'
  BY <1>t, <1>u, <1>1, <1>2, <1>3 DEF TodoCounts, Placed
<1>7. Owner' /\ Returned'
  BY <1>t, <1>1, <1>3, ThreadsAndChecks DEF Owner, Returned, Threads
<1>8. Sound'
  BY <1>u, <1>1, <1>2, <1>3, <1>4 DEF Sound
<1> QED BY <1>5, <1>6, <1>7, <1>8 DEF IInv, Quiet

\* Adding checks: they are new, so the count grows by their number.
LEMMA AddIInv ==
  ASSUME IInv, NEW m \in Masters, NEW S \in SUBSET Checks, Add(m, S)
  PROVE  IInv'
<1>t. Types /\ TodoCounts /\ Placed /\ Owner /\ Quiet /\ Sound /\ Returned
  BY DEF IInv
<1>u. UNCHANGED <<fAllOk, pc, vChecks, fOk, control, result, ran>>
  BY DEF Add
<1>1. pc[m] = "adding" /\ S \cap added = {} /\ queue' = queue \cup S /\ nTodo' = nTodo + Cardinality(S) /\ added' = added \cup S
  BY DEF Add
<1>2. control = m /\ Active /\ Active'
  BY <1>t, <1>u, <1>1, ThreadsAndChecks DEF Owner, Active, Threads
<1>3. Outstanding' = Outstanding \cup S
  <2>1. ASSUME NEW x PROVE x \in Outstanding' <=> x \in Outstanding \cup S
    BY <1>u, <1>1, OutstandingHas, OutstandingHasNext
  <2> QED BY <2>1
<1>4. Outstanding \cap S = {}
  BY <1>t, <1>1 DEF Placed
<1>5. nTodo' = Cardinality(Outstanding')
  <2>1. IsFiniteSet(Outstanding) /\ IsFiniteSet(S) /\ nTodo = Cardinality(Outstanding)
    BY <1>t, OutstandingFinite, FS_Subset, ThreadsAndChecks DEF TodoCounts
  <2>2. Cardinality(Outstanding \cup S) = Cardinality(Outstanding) + Cardinality(S) - Cardinality(Outstanding \cap S)
    BY <2>1, FS_Union
  <2>3. Cardinality(Outstanding \cap S) = 0 /\ Cardinality(Outstanding) \in Nat /\ Cardinality(S) \in Nat
    BY <1>4, <2>1, FS_EmptySet, FS_CardinalityType
  <2> QED BY <1>1, <1>3, <2>1, <2>2, <2>3
<1>6. TodoCounts'
  <2>1. \A x \in Threads : vChecks[x] \cap S = {}
    BY <1>4, OutstandingHas
  <2> QED BY <1>t, <1>u, <1>1, <1>5, <2>1 DEF TodoCounts
<1>7. Types'
  BY <1>t, <1>u, <1>1 DEF Types
<1>8. Placed' /\ Owner'
  BY <1>t, <1>u, <1>1, <1>3 DEF Placed, Owner
<1>9. Sound'
  <2>1. added' \ Outstanding' = added \ Outstanding /\ (added \cap Bad # {} => added' \cap Bad # {})
    BY <1>1, <1>3
  <2> QED BY <1>t, <1>u, <1>2, <2>1 DEF Sound
<1>10. Returned'
  BY <1>t, <1>u, <1>1, <1>2 DEF Returned, Owner
<1> QED BY <1>2, <1>6, <1>7, <1>8, <1>9, <1>10 DEF IInv, Quiet

\* The destructor of the control.
LEMMA ReleaseIInv ==
  ASSUME IInv, NEW m \in Masters, ReleaseControl(m)
  PROVE  IInv'
<1>t. Types /\ TodoCounts /\ Placed /\ Owner /\ Quiet /\ Sound /\ Returned
  BY DEF IInv
<1>u. UNCHANGED <<queue, nTodo, fAllOk, vChecks, fOk, result, added, ran>>
  BY DEF ReleaseControl, shared
<1>1. pc[m] = "returned" /\ control' = Null /\ pc' = [pc EXCEPT ![m] = "out"] /\ m \in Threads
  BY DEF ReleaseControl, Threads
<1>2. control = m /\ ~Active /\ ~Active'
  BY <1>t, <1>1 DEF Owner, Active
<1>3. Outstanding = {} /\ Outstanding' = {} /\ fAllOk
  BY <1>t, <1>u, <1>2 DEF Quiet, Outstanding
<1>4. \A x \in Threads : pc'[x] = IF x = m THEN "out" ELSE pc[x]
  BY <1>t, <1>1 DEF Types
<1>5. Types'
  BY <1>t, <1>u, <1>1, <1>4 DEF Types
<1>6. TodoCounts' /\ Placed'
  BY <1>t, <1>u, <1>3, <1>4, <1>1 DEF TodoCounts, Placed
<1>7. Owner' /\ Returned'
  BY <1>t, <1>u, <1>1, <1>2, <1>4, ThreadsAndChecks DEF Owner, Returned, Threads
<1>8. Sound'
  BY <1>t, <1>u, <1>2, <1>4 DEF Sound
<1> QED BY <1>3, <1>5, <1>6, <1>7, <1>8, <1>u DEF IInv, Quiet

\* An interruption while waiting: the thread has no batch, and a master stays
\* inside until the destructor of its control has waited again.
LEMMA InterruptIInv ==
  ASSUME IInv, NEW t \in Threads, Interrupt(t)
  PROVE  IInv'
<1>t. Types /\ TodoCounts /\ Placed /\ Owner /\ Quiet /\ Sound /\ Returned
  BY DEF IInv
<1>u. UNCHANGED <<queue, nTodo, fAllOk, vChecks, fOk, control, result, added, ran>>
  BY DEF Interrupt, shared, round
<1>1. pc[t] = "waiting" /\ pc' = [pc EXCEPT ![t] = IF t \in Masters THEN "unwind" ELSE "gone"]
  BY DEF Interrupt
<1>2. \A x \in Threads : pc'[x] = IF x = t THEN (IF t \in Masters THEN "unwind" ELSE "gone") ELSE pc[x]
  BY <1>t, <1>1 DEF Types
<1>3. Types'
  BY <1>t, <1>u, <1>1 DEF Types
<1>4. Outstanding' = Outstanding
  BY <1>u DEF Outstanding
<1>5. Active' <=> Active
  <2>1. control' = control /\ (control # Null => control \in Threads)
    BY <1>t, <1>u DEF Types, Threads
  <2>2. control # Null => (pc'[control] = "returned" <=> pc[control] = "returned")
    BY <2>1, <1>1, <1>2
  <2> QED BY <2>1, <2>2 DEF Active
<1>6. TodoCounts' /\ Placed' /\ Quiet'
  <2>1. TodoCounts'
    BY <1>t, <1>u, <1>4 DEF TodoCounts
  <2>2. \A x \in Threads : pc'[x] \in {"work", "clean"} <=> pc[x] \in {"work", "clean"}
    BY <1>1, <1>2
  <2>3. Placed'
    BY <1>t, <1>u, <1>4, <2>2 DEF Placed
  <2>4. Quiet'
    BY <1>t, <1>u, <1>4, <1>5 DEF Quiet
  <2> QED BY <2>1, <2>3, <2>4, SMTT(30)
<1>7. Owner' /\ Returned'
  BY <1>t, <1>u, <1>1, <1>2, SMTT(30) DEF Owner, Returned, Threads
<1>8. Sound'
  <2>1. \A x \in Threads : /\ pc'[x] = "clean" <=> pc[x] = "clean"
                           /\ pc'[x] = "work" <=> pc[x] = "work"
    BY <1>1, <1>2
  <2>2. \A x \in Threads :
          /\ pc'[x] = "clean" /\ fOk[x] => vChecks[x] \cap Bad = {} /\ vChecks[x] \subseteq ran
          /\ pc'[x] \in {"work", "clean"} /\ ~fOk[x] => added \cap Bad # {}
    BY <1>t, <2>1 DEF Sound
  <2> QED BY <1>t, <1>u, <1>4, <1>5, <2>2 DEF Sound
<1> QED BY <1>3, <1>6, <1>7, <1>8 DEF IInv

\* Steps that change nothing the invariant mentions.
LEMMA StutterIInv ==
  ASSUME IInv, UNCHANGED <<queue, nTodo, fAllOk, pc, vChecks, fOk, control, result, added, ran>>
  PROVE  IInv'
<1>1. (Outstanding' = Outstanding) /\ (Active' <=> Active)
  BY DEF Outstanding, Active
<1>2. Types' /\ TodoCounts' /\ Placed' /\ Owner' /\ Quiet' /\ Returned'
  BY <1>1, SMTT(30) DEF IInv, Types, TodoCounts, Placed, Owner, Quiet, Returned
<1>3. Sound'
  BY <1>1 DEF IInv, Sound
<1> QED BY <1>2, <1>3 DEF IInv

\* The inductive invariant holds in every reachable state.
THEOREM Invariant == Spec => []IInv
<1>1. IInv /\ [Next]_vars => IInv'
  <2> SUFFICES ASSUME IInv, [Next]_vars PROVE IInv'  OBVIOUS
  <2>1. ASSUME NEW m \in Masters, NewControl(m) \/ ReleaseControl(m) PROVE IInv'
    BY <2>1, NewControlIInv, ReleaseIInv
  <2>2. ASSUME NEW m \in Masters, NEW S \in SUBSET Checks, Add(m, S) PROVE IInv'
    BY <2>2, AddIInv
  <2>3. ASSUME NEW t \in Threads, Step(t) PROVE IInv'
    BY <2>3, EnterIInv, ExecuteIInv, CleanUpIInv DEF Step
  <2>4. ASSUME NEW t \in Threads, SpuriousWakeUp(t) PROVE IInv'
    BY <2>4, StutterIInv DEF SpuriousWakeUp, shared, round
  <2>5. ASSUME NEW t \in Threads, Interrupt(t) PROVE IInv'
    BY <2>5, InterruptIInv
  <2>6. CASE UNCHANGED vars
    BY <2>6, StutterIInv DEF vars, shared, locals, round
  <2> QED BY <2>1, <2>2, <2>3, <2>4, <2>5, <2>6 DEF Next
<1> QED BY InitIInv, <1>1, PTL DEF Spec

\* nTodo is exact: it counts the queued checks and those in the threads' batches,
\* and no check is in two places.
THEOREM NTodoExact == Spec => []TodoCounts
<1>1. IInv => TodoCounts
  BY DEF IInv
<1> QED BY Invariant, <1>1, PTL

\* Wait returns the conjunction of all results, also when batches were cut short
\* and whichever thread ran which check.
THEOREM WaitIsConjunction == Spec => []WaitReturnsConjunction
<1>1. IInv => WaitReturnsConjunction
  BY DEF IInv, Returned, WaitReturnsConjunction
<1> QED BY Invariant, <1>1, PTL

\* When Wait returns true every check of the round was evaluated.
THEOREM NoCheckSkipped == Spec => []NoneSkipped
<1>1. IInv => NoneSkipped
  BY DEF IInv, Returned, NoneSkipped
<1> QED BY Invariant, <1>1, PTL

\* CCheckQueueControl's promise: the queue is finished when it is released.
THEOREM ReleasedFinished == Spec => []FinishedBeforeRelease
<1>1. IInv => FinishedBeforeRelease
  <2> SUFFICES ASSUME IInv, control = Null PROVE nTodo = 0 /\ Outstanding = {} /\ fAllOk /\ \A w \in Workers : pc[w] \notin {"work", "clean"}
    BY DEF FinishedBeforeRelease
  <2>1. Outstanding = {} /\ fAllOk
    BY DEF IInv, Quiet, Active
  <2>2. nTodo = 0
    BY <2>1, FS_EmptySet DEF IInv, TodoCounts
  <2>3. \A w \in Workers : pc[w] \notin {"work", "clean"}
    BY <2>1, OutstandingHas DEF IInv, Placed, Threads
  <2> QED BY <2>1, <2>2, <2>3
<1> QED BY Invariant, <1>1, PTL
=============================================================================
