------------------------ MODULE DispatchQueueProofs ------------------------
(***************************************************************************)
(* Proofs about DispatchQueue for every set of closures, every number of   *)
(* threads and every number of setThreadCount calls.                       *)
(*                                                                         *)
(* finishTasks returns when a counter it reads without the lock is zero.   *)
(* That is a barrier because PoolInv is inductive: the counter equals the  *)
(* closures in q_ plus the threads that hold one (PendingCounts), and a    *)
(* dispatched closure is in one of those places or executed (Accounted).   *)
(***************************************************************************)
EXTENDS DispatchQueue, TLAPS, FiniteSetTheorems, SequenceTheorems

(* The elements of a sequence to which one is appended.                    *)
LEMMA AppendRange ==
  ASSUME NEW S, NEW s \in Seq(S), NEW e \in S
  PROVE  {Append(s, e)[i] : i \in DOMAIN Append(s, e)}
           = {s[i] : i \in DOMAIN s} \cup {e}
<1> DEFINE a == Append(s, e)
<1>1. /\ a \in Seq(S)
      /\ Len(a) = Len(s) + 1
      /\ \A i \in 1 .. Len(s) : a[i] = s[i]
      /\ a[Len(s) + 1] = e
  BY AppendProperties
<1>2. /\ DOMAIN a = 1 .. Len(a)
      /\ DOMAIN s = 1 .. Len(s)
      /\ Len(s) \in Nat
  BY <1>1, LenProperties
<1>3. DOMAIN a = DOMAIN s \cup {Len(s) + 1}
  BY <1>1, <1>2
<1> QED
  BY <1>1, <1>2, <1>3

(* The elements of a sequence are its head and those of its tail.          *)
LEMMA TailRange ==
  ASSUME NEW S, NEW s \in Seq(S), s # <<>>
  PROVE  {s[i] : i \in DOMAIN s}
           = {Tail(s)[i] : i \in DOMAIN Tail(s)} \cup {Head(s)}
<1> DEFINE t == Tail(s)
<1>1. /\ t \in Seq(S)
      /\ Len(t) = Len(s) - 1
      /\ \A i \in 1 .. Len(t) : t[i] = s[i + 1]
  BY HeadTailProperties
<1>2. /\ DOMAIN t = 1 .. Len(t)
      /\ DOMAIN s = 1 .. Len(s)
      /\ Len(s) \in Nat
      /\ Len(t) \in Nat
      /\ Len(s) # 0
  BY <1>1, LenProperties, EmptySeq
<1>3. Head(s) = s[1]
  BY <1>2
<1>4. \A i \in DOMAIN s : i = 1 \/ (i - 1 \in DOMAIN t /\ s[i] = t[i - 1])
  BY <1>1, <1>2
<1>5. \A i \in DOMAIN t : i + 1 \in DOMAIN s /\ t[i] = s[i + 1]
  BY <1>1, <1>2
<1>6. 1 \in DOMAIN s
  BY <1>2
<1> HIDE DEF t
<1>7. {s[i] : i \in DOMAIN s} \subseteq {t[i] : i \in DOMAIN t} \cup {Head(s)}
  BY <1>3, <1>4
<1>8. {t[i] : i \in DOMAIN t} \cup {Head(s)} \subseteq {s[i] : i \in DOMAIN s}
  BY <1>3, <1>5, <1>6
<1> QED
  BY <1>7, <1>8 DEF t

(* The threads that hold a closure are finitely many.                      *)
LEMMA BusyFinite ==
  /\ IsFiniteSet(Workers)
  /\ IsFiniteSet(BusyWorkers)
  /\ Cardinality(BusyWorkers) \in Nat
<1>1. IsFiniteSet(Workers)
  BY FS_Interval, ConstantsAssumption DEF Workers
<1>2. BusyWorkers \subseteq Workers
  BY DEF BusyWorkers
<1>3. IsFiniteSet(BusyWorkers)
  BY <1>1, <1>2, FS_Subset
<1> QED
  BY <1>1, <1>3, FS_CardinalityType

(* An action that leaves the threads, the queue and the histories alone    *)
(* keeps the bookkeeping that is stated of them.                           *)
LEMMA BookkeepingUntouched ==
  ASSUME PoolInv, UNCHANGED <<q, pending, wtask, dispatched, executed>>,
         BusyWorkers' = BusyWorkers
  PROVE  PendingCounts' /\ Accounted'
  BY DEF PoolInv, PendingCounts, Accounted, Queued, InHand

(* Waking the sleepers changes no thread that holds a closure.             *)
LEMMA WakeAllBusy ==
  ASSUME TypeOK, HandsMatchPc, wpc' = WakeAll, UNCHANGED <<wtask, executed>>
  PROVE  /\ wpc' \in [Workers -> WorkerPc]
         /\ BusyWorkers' = BusyWorkers
         /\ HandsMatchPc'
<1>1. /\ wpc' \in [Workers -> WorkerPc]
      /\ \A w \in Workers : \/ wpc'[w] = wpc[w]
                            \/ wpc[w] = "waiting" /\ wpc'[w] = "acquire"
  BY DEF TypeOK, WakeAll, WorkerPc
<1>2. BusyWorkers' = BusyWorkers
  BY <1>1 DEF BusyWorkers, Busy
<1>3. HandsMatchPc'
  BY <1>1 DEF HandsMatchPc, Busy
<1> QED
  BY <1>1, <1>2, <1>3

(* Fresh threads hold nothing.                                             *)
LEMMA StartThreadsType ==
  ASSUME NEW n \in Nat
  PROVE  /\ StartThreads(n) \in [Workers -> WorkerPc]
         /\ \A w \in Workers : StartThreads(n)[w] \notin Busy
  BY DEF StartThreads, WorkerPc, Busy

(* The pool starts with agreeing books.                                    *)
LEMMA InitInv == Init => PoolInv
<1> SUFFICES ASSUME Init PROVE PoolInv
  OBVIOUS
<1> USE ConstantsAssumption
<1>1. threadCount \in Nat /\ threadCount \in 1 .. MaxThreads
  BY DEF Init
<1>2. /\ wpc \in [Workers -> WorkerPc]
      /\ \A w \in Workers : wpc[w] \notin Busy
  BY <1>1, StartThreadsType DEF Init
<1>3. TypeOK
  <2>1. q \in Seq(Tasks)
    BY EmptySeq DEF Init
  <2>2. wtask \in [Workers -> SUBSET Tasks]
    BY DEF Init
  <2>3. /\ pending \in Nat
        /\ newCount \in 0 .. MaxThreads
        /\ resizes \in 0 .. MaxResizes
    BY DEF Init
  <2>4. /\ quit \in BOOLEAN
        /\ mpc \in ClientPc
        /\ dispatched \subseteq Tasks
        /\ executed \subseteq Tasks
    BY DEF Init, ClientPc
  <2> QED
    BY <1>1, <1>2, <2>1, <2>2, <2>3, <2>4 DEF TypeOK
<1>4. PendingCounts
  <2>1. BusyWorkers = {}
    BY <1>2 DEF BusyWorkers
  <2>2. Cardinality(BusyWorkers) = 0
    BY <2>1, FS_EmptySet
  <2> QED
    BY <2>2, EmptySeq DEF Init, PendingCounts
<1>5. HandsMatchPc
  BY <1>2 DEF Init, HandsMatchPc, Busy
<1>6. Accounted
  BY DEF Init, Accounted, Queued, InHand
<1>7. Settled
  BY DEF Init, Settled
<1> QED
  BY <1>3, <1>4, <1>5, <1>6, <1>7 DEF PoolInv

(* Every step keeps the books in agreement.                                *)
LEMMA NextInv == PoolInv /\ [Next]_vars => PoolInv'
<1> SUFFICES ASSUME PoolInv, [Next]_vars PROVE PoolInv'
  OBVIOUS
<1> USE ConstantsAssumption
<1>a. /\ TypeOK
      /\ PendingCounts
      /\ HandsMatchPc
      /\ Accounted
      /\ Settled
  BY DEF PoolInv
<1>b. /\ IsFiniteSet(BusyWorkers)
      /\ Cardinality(BusyWorkers) \in Nat
      /\ q \in Seq(Tasks)
      /\ Len(q) \in Nat
  BY <1>a, BusyFinite, LenProperties DEF TypeOK
<1>1. ASSUME NEW t \in Tasks, Dispatch(t) PROVE PoolInv'
  <2>1. TypeOK'
    BY <1>1, <1>a, AppendProperties DEF Dispatch, TypeOK, ClientPc, workerVars
  <2>2. PendingCounts'
    <3>1. Len(q') = Len(q) + 1
      BY <1>1, <1>b, AppendProperties DEF Dispatch
    <3>2. BusyWorkers' = BusyWorkers
      BY <1>1 DEF Dispatch, BusyWorkers, workerVars
    <3> QED
      BY <1>1, <1>a, <1>b, <3>1, <3>2 DEF Dispatch, PendingCounts
  <2>3. HandsMatchPc'
    BY <1>1, <1>a DEF Dispatch, HandsMatchPc, workerVars
  <2>4. Accounted'
    <3>1. Queued' = Queued \cup {t}
      BY <1>1, <1>b, AppendRange DEF Dispatch, Queued
    <3>2. InHand' = InHand
      BY <1>1 DEF Dispatch, InHand, workerVars
    <3> QED
      BY <1>1, <1>a, <3>1, <3>2 DEF Dispatch, Accounted
  <2>5. Settled'
    BY <1>1 DEF Dispatch, Settled
  <2> QED
    BY <2>1, <2>2, <2>3, <2>4, <2>5 DEF PoolInv
<1>2. ASSUME DispatchNotify PROVE PoolInv'
  <2>1. /\ wpc' \in [Workers -> WorkerPc]
        /\ BusyWorkers' = BusyWorkers
        /\ HandsMatchPc'
    BY <1>2, <1>a, WakeAllBusy DEF DispatchNotify, history
  <2>2. PendingCounts' /\ Accounted'
    BY <1>2, <2>1, BookkeepingUntouched DEF DispatchNotify, poolVars, history
  <2>3. TypeOK'
    BY <1>2, <1>a, <2>1
    DEF DispatchNotify, TypeOK, ClientPc, poolVars, history
  <2>4. Settled'
    BY <1>2 DEF DispatchNotify, Settled
  <2> QED
    BY <2>1, <2>2, <2>3, <2>4 DEF PoolInv
<1>3. ASSUME FinishTasks PROVE PoolInv'
  <2>1. BusyWorkers' = BusyWorkers
    BY <1>3 DEF FinishTasks, BusyWorkers, workerVars
  <2>2. PendingCounts' /\ Accounted'
    BY <1>3, <2>1, BookkeepingUntouched
    DEF FinishTasks, poolVars, workerVars, history
  <2>3. TypeOK' /\ HandsMatchPc'
    BY <1>3, <1>a
    DEF FinishTasks, TypeOK, HandsMatchPc, ClientPc, poolVars, workerVars, history
  <2>4. Settled'
    BY <1>3 DEF FinishTasks, Settled, poolVars
  <2> QED
    BY <2>2, <2>3, <2>4 DEF PoolInv
<1>4. ASSUME UNCHANGED vars PROVE PoolInv'
  BY <1>4, <1>a
  DEF vars, poolVars, workerVars, clientVars, history, PoolInv, TypeOK,
      PendingCounts, HandsMatchPc, Accounted, Settled, BusyWorkers, Queued,
      InHand
<1>5. ASSUME NEW n \in 0 .. MaxThreads, TerminateThreads(n),
             resizes' \in 0 .. MaxResizes
      PROVE  PoolInv'
  <2>1. BusyWorkers' = BusyWorkers
    BY <1>5 DEF TerminateThreads, BusyWorkers, workerVars
  <2>2. PendingCounts' /\ Accounted'
    BY <1>5, <2>1, BookkeepingUntouched
    DEF TerminateThreads, workerVars, history
  <2>3. TypeOK' /\ HandsMatchPc'
    BY <1>5, <1>a
    DEF TerminateThreads, TypeOK, HandsMatchPc, ClientPc, workerVars, history
  <2>4. Settled'
    BY <1>5, <1>a DEF TerminateThreads, Settled
  <2> QED
    BY <2>2, <2>3, <2>4 DEF PoolInv
<1>6. ASSUME NEW n \in 1 .. MaxThreads, SetThreadCount(n) PROVE PoolInv'
  <2>1. resizes' \in 0 .. MaxResizes
    BY <1>6, <1>a DEF SetThreadCount, TypeOK
  <2> QED
    BY <1>5, <1>6, <2>1 DEF SetThreadCount
<1>7. ASSUME Destroy PROVE PoolInv'
  <2>1. resizes' \in 0 .. MaxResizes
    BY <1>7, <1>a DEF Destroy, TypeOK
  <2> QED
    BY <1>5, <1>7, <2>1 DEF Destroy
<1>8. ASSUME TerminateNotify PROVE PoolInv'
  <2>1. /\ wpc' \in [Workers -> WorkerPc]
        /\ BusyWorkers' = BusyWorkers
        /\ HandsMatchPc'
    BY <1>8, <1>a, WakeAllBusy DEF TerminateNotify, history
  <2>2. PendingCounts' /\ Accounted'
    BY <1>8, <2>1, BookkeepingUntouched DEF TerminateNotify, poolVars, history
  <2>3. TypeOK'
    BY <1>8, <1>a, <2>1
    DEF TerminateNotify, TypeOK, ClientPc, poolVars, history
  <2>4. Settled'
    BY <1>8, <1>a DEF TerminateNotify, Settled, poolVars
  <2> QED
    BY <2>1, <2>2, <2>3, <2>4 DEF PoolInv
<1>9. ASSUME Respawn PROVE PoolInv'
  <2>1. /\ wpc' \in [Workers -> WorkerPc]
        /\ \A w \in Workers : wpc'[w] \notin Busy
    BY <1>9, <1>a, StartThreadsType DEF Respawn, TypeOK
  <2>2. \A w \in Workers : wpc[w] \notin Busy
    BY <1>9 DEF Respawn, AllJoined, Busy
  <2>3. BusyWorkers' = BusyWorkers
    BY <2>1, <2>2 DEF BusyWorkers
  <2>4. PendingCounts' /\ Accounted'
    BY <1>9, <2>3, BookkeepingUntouched DEF Respawn, history
  <2>5. HandsMatchPc'
    BY <1>9, <1>a, <2>1, <2>2 DEF Respawn, HandsMatchPc, Busy, history
  <2>6. TypeOK'
    BY <1>9, <1>a, <2>1 DEF Respawn, TypeOK, ClientPc, history
  <2>7. Settled'
    BY <1>9, <1>a DEF Respawn, Settled
  <2> QED
    BY <2>4, <2>5, <2>6, <2>7 DEF PoolInv
<1>10. ASSUME Destroyed PROVE PoolInv'
  <2>1. BusyWorkers' = BusyWorkers
    BY <1>10 DEF Destroyed, BusyWorkers, workerVars
  <2>2. PendingCounts' /\ Accounted'
    BY <1>10, <2>1, BookkeepingUntouched
    DEF Destroyed, poolVars, workerVars, history
  <2>3. TypeOK' /\ HandsMatchPc'
    BY <1>10, <1>a
    DEF Destroyed, TypeOK, HandsMatchPc, ClientPc, poolVars, workerVars, history
  <2>4. Settled'
    BY <1>10, <1>a DEF Destroyed, Settled, poolVars
  <2> QED
    BY <2>2, <2>3, <2>4 DEF PoolInv
<1>11. ASSUME NEW w \in Workers, Wait(w) \/ SpuriousWakeup(w) \/ Exit(w)
       PROVE  PoolInv'
  <2>1. /\ wpc[w] \notin Busy
        /\ \E pc \in WorkerPc \ Busy : wpc' = [wpc EXCEPT ![w] = pc]
        /\ UNCHANGED <<poolVars, wtask, clientVars, history>>
    BY <1>11 DEF Wait, SpuriousWakeup, Exit, Busy, WorkerPc
  <2>2. PICK pc \in WorkerPc \ Busy : wpc' = [wpc EXCEPT ![w] = pc]
    BY <2>1
  <2>3. BusyWorkers' = BusyWorkers
    BY <2>1, <2>2, <1>a DEF BusyWorkers, TypeOK
  <2>4. PendingCounts' /\ Accounted'
    BY <2>1, <2>3, BookkeepingUntouched DEF poolVars, history
  <2>5. TypeOK'
    BY <2>1, <2>2, <1>a DEF TypeOK, poolVars, clientVars, history
  <2>6. HandsMatchPc'
    BY <2>1, <2>2, <1>a DEF HandsMatchPc, TypeOK, Busy, history
  <2>7. Settled'
    BY <2>1, <1>a DEF Settled, poolVars, clientVars
  <2> QED
    BY <2>4, <2>5, <2>6, <2>7 DEF PoolInv
<1>12. ASSUME NEW w \in Workers, Pop(w) PROVE PoolInv'
  <2>1. /\ Head(q) \in Tasks
        /\ Tail(q) \in Seq(Tasks)
        /\ Len(Tail(q)) = Len(q) - 1
    BY <1>12, <1>b, HeadTailProperties DEF Pop
  <2>2. TypeOK'
    BY <1>12, <1>a, <2>1 DEF Pop, TypeOK, WorkerPc, clientVars, history
  <2>3. PendingCounts'
    <3>1. w \notin BusyWorkers
      BY <1>12 DEF Pop, BusyWorkers, Busy
    <3>2. BusyWorkers' = BusyWorkers \cup {w}
      BY <1>12, <1>a DEF Pop, BusyWorkers, Busy, TypeOK
    <3>3. Cardinality(BusyWorkers') = Cardinality(BusyWorkers) + 1
      BY <3>1, <3>2, <1>b, FS_AddElement
    <3> QED
      BY <1>12, <1>a, <1>b, <2>1, <3>3 DEF Pop, PendingCounts
  <2>4. HandsMatchPc'
    BY <1>12, <1>a, <2>1 DEF Pop, HandsMatchPc, Busy, TypeOK, history
  <2>5. Accounted'
    <3>1. Queued = Queued' \cup {Head(q)}
      BY <1>12, <1>b, TailRange DEF Pop, Queued
    <3>2. wtask[w] = {}
      BY <1>12, <1>a DEF Pop, HandsMatchPc, Busy
    <3>3. InHand' = InHand \cup {Head(q)}
      <4>1. \A v \in Workers : wtask'[v] = IF v = w THEN {Head(q)} ELSE wtask[v]
        BY <1>12, <1>a DEF Pop, TypeOK
      <4> QED
        BY <4>1, <3>2 DEF InHand
    <3> QED
      BY <1>12, <1>a, <3>1, <3>3 DEF Pop, Accounted, history
  <2>6. Settled'
    BY <1>12, <1>a DEF Pop, Settled, clientVars
  <2> QED
    BY <2>2, <2>3, <2>4, <2>5, <2>6 DEF PoolInv
<1>13. ASSUME NEW w \in Workers, Execute(w) PROVE PoolInv'
  <2>1. TypeOK'
    BY <1>13, <1>a DEF Execute, TypeOK, WorkerPc, poolVars, clientVars
  <2>2. BusyWorkers' = BusyWorkers
    BY <1>13, <1>a DEF Execute, BusyWorkers, Busy, TypeOK
  <2>3. PendingCounts'
    BY <1>13, <1>a, <2>2 DEF Execute, PendingCounts, poolVars
  <2>4. HandsMatchPc'
    BY <1>13, <1>a DEF Execute, HandsMatchPc, Busy, TypeOK
  <2>5. Accounted'
    <3>1. wtask[w] \subseteq InHand
      BY DEF InHand
    <3>2. Queued' = Queued /\ InHand' = InHand
      BY <1>13 DEF Execute, Queued, InHand, poolVars
    <3> QED
      BY <1>13, <1>a, <3>1, <3>2 DEF Execute, Accounted
  <2>6. Settled'
    BY <1>13, <1>a DEF Execute, Settled, poolVars, clientVars
  <2> QED
    BY <2>1, <2>3, <2>4, <2>5, <2>6 DEF PoolInv
<1>14. ASSUME NEW w \in Workers, Decrement(w) PROVE PoolInv'
  <2>1. w \in BusyWorkers
    BY <1>14 DEF Decrement, BusyWorkers, Busy
  <2>2. BusyWorkers' = BusyWorkers \ {w}
    BY <1>14, <1>a DEF Decrement, BusyWorkers, Busy, TypeOK
  <2>3. Cardinality(BusyWorkers') = Cardinality(BusyWorkers) - 1
    BY <2>1, <2>2, <1>b, FS_RemoveElement
  <2>4. Cardinality(BusyWorkers') \in Nat
    BY <2>2, <1>b, FS_RemoveElement, FS_CardinalityType
  <2>5. PendingCounts'
    BY <1>14, <1>a, <1>b, <2>3 DEF Decrement, PendingCounts
  <2>6. TypeOK'
    <3>1. pending' \in Nat
      BY <1>14, <1>a, <1>b, <2>3, <2>4 DEF Decrement, PendingCounts
    <3> QED
      BY <1>14, <1>a, <3>1
      DEF Decrement, TypeOK, WorkerPc, clientVars, history
  <2>7. HandsMatchPc'
    BY <1>14, <1>a DEF Decrement, HandsMatchPc, Busy, TypeOK, history
  <2>8. Accounted'
    <3>1. wtask[w] \subseteq executed
      BY <1>14, <1>a DEF Decrement, HandsMatchPc
    <3>2. \A v \in Workers : wtask'[v] = IF v = w THEN {} ELSE wtask[v]
      BY <1>14, <1>a DEF Decrement, TypeOK
    <3>3. InHand = InHand' \cup wtask[w]
      BY <3>2 DEF InHand
    <3>4. Queued' = Queued
      BY <1>14 DEF Decrement, Queued
    <3> QED
      BY <1>14, <1>a, <3>1, <3>3, <3>4 DEF Decrement, Accounted, history
  <2>9. Settled'
    <3>1. pending # 0
      BY <2>1, <1>a, <1>b, FS_EmptySet DEF PendingCounts
    <3> QED
      BY <1>14, <1>a, <3>1 DEF Decrement, Settled, clientVars
  <2> QED
    BY <2>5, <2>6, <2>7, <2>8, <2>9 DEF PoolInv
<1> QED
  <2>1. CASE Client
    BY <2>1, <1>1, <1>2, <1>3, <1>4, <1>6, <1>7, <1>8, <1>9, <1>10
    DEF Client, Yield, Ended
  <2>2. CASE \E w \in Workers : Worker(w) \/ SpuriousWakeup(w)
    BY <2>2, <1>11, <1>12, <1>13, <1>14 DEF Worker
  <2> QED
    BY <2>1, <2>2, <1>4 DEF Next

(* The pool's counter, queue and threads agree in every reachable state.   *)
THEOREM PoolInvariant == Spec => []PoolInv
<1> QED
  BY InitInv, NextInv, PTL DEF Spec

(* The state of the pool has its types: pending_task_count_ never wraps.   *)
THEOREM TypeCorrect == Spec => []TypeOK
<1>1. PoolInv => TypeOK
  BY DEF PoolInv
<1> QED
  BY <1>1, PoolInvariant, PTL

(* The counter finishTasks polls is the number of unfinished closures.     *)
THEOREM CounterCorrect == Spec => []PendingCounts
<1>1. PoolInv => PendingCounts
  BY DEF PoolInv
<1> QED
  BY <1>1, PoolInvariant, PTL

(* A zero counter means that nothing is queued and no thread is busy.      *)
LEMMA ZeroMeansDone ==
  ASSUME PoolInv, pending = 0
  PROVE  q = <<>> /\ BusyWorkers = {} /\ executed = dispatched
<1>1. q \in Seq(Tasks) /\ Len(q) \in Nat
  BY LenProperties DEF PoolInv, TypeOK
<1>2. Len(q) = 0 /\ Cardinality(BusyWorkers) = 0
  BY <1>1, BusyFinite DEF PoolInv, PendingCounts
<1>3. q = <<>> /\ BusyWorkers = {}
  BY <1>1, <1>2, BusyFinite, EmptySeq, FS_EmptySet
<1>4. Queued = {}
  BY <1>3 DEF Queued
<1>5. InHand = {}
  BY <1>3 DEF InHand, PoolInv, HandsMatchPc, BusyWorkers
<1> QED
  BY <1>3, <1>4, <1>5 DEF PoolInv, Accounted

(* finishTasks is a barrier: once it has returned every closure that was   *)
(* dispatched has been executed and no thread is still inside one.         *)
THEOREM BarrierCorrect == Spec => []BatchDone
<1>1. PoolInv => BatchDone
  BY ZeroMeansDone DEF PoolInv, Settled, BatchDone
<1> QED
  BY <1>1, PoolInvariant, PTL

(* The pool implements TaskPool: its initial states are initial there, and *)
(* every step is a submission, an execution, a return of the wait, or      *)
(* invisible.                                                              *)
LEMMA PoolStep ==
  ASSUME PoolInv, [Next]_vars
  PROVE  [Pool!Next]_(Pool!vars)
<1> DEFINE isOpen == mpc \in {"notify", "batch"}
<1> USE DEF Pool!vars
<1>1. ASSUME NEW t \in Tasks, Dispatch(t) PROVE Pool!Submit(t)
  BY <1>1 DEF Dispatch, Pool!Submit
<1>2. ASSUME FinishTasks PROVE Pool!Return
  BY <1>2, ZeroMeansDone DEF FinishTasks, Pool!Return, history
<1>3. ASSUME NEW w \in Workers, Execute(w) PROVE [Pool!Next]_(Pool!vars)
  <2>1. PICK t \in Tasks : wtask[w] = {t}
    BY <1>3 DEF Execute, PoolInv, HandsMatchPc
  <2>2. t \in dispatched
    BY <2>1 DEF PoolInv, Accounted, InHand
  <2>3. /\ executed' = executed \cup {t}
        /\ UNCHANGED <<dispatched, mpc>>
    BY <1>3, <2>1 DEF Execute, clientVars
  <2>4. CASE t \in executed
    BY <2>3, <2>4
  <2>5. CASE t \notin executed
    BY <2>2, <2>3, <2>5 DEF Pool!Execute, Pool!Next
  <2> QED
    BY <2>4, <2>5
<1>4. ASSUME UNCHANGED history, isOpen' = isOpen
      PROVE  UNCHANGED (Pool!vars)
  BY <1>4 DEF history
<1>5. ASSUME Client PROVE [Pool!Next]_(Pool!vars)
  <2>1. CASE \E t \in Tasks : Dispatch(t)
    BY <2>1, <1>1 DEF Pool!Next
  <2>2. CASE FinishTasks
    BY <2>2, <1>2 DEF Pool!Next
  <2>3. CASE DispatchNotify \/ Yield \/ TerminateNotify \/ Respawn
             \/ Destroyed \/ Ended
    BY <2>3, <1>4
    DEF DispatchNotify, Yield, TerminateNotify, Respawn, Destroyed, Ended,
        vars, clientVars
  <2>4. CASE Destroy \/ \E n \in 1 .. MaxThreads : SetThreadCount(n)
    BY <2>4, <1>4 DEF Destroy, SetThreadCount, TerminateThreads
  <2> QED
    BY <1>5, <2>1, <2>2, <2>3, <2>4 DEF Client
<1>6. ASSUME NEW w \in Workers,
             Wait(w) \/ SpuriousWakeup(w) \/ Pop(w) \/ Exit(w) \/ Decrement(w)
      PROVE  UNCHANGED (Pool!vars)
  BY <1>6, <1>4
  DEF Wait, SpuriousWakeup, Pop, Exit, Decrement, clientVars
<1>7. ASSUME UNCHANGED vars PROVE UNCHANGED (Pool!vars)
  BY <1>7, <1>4 DEF vars, clientVars
<1> QED
  BY <1>3, <1>5, <1>6, <1>7 DEF Next, Worker

(* Every behaviour of the pool is one TaskPool allows: each closure is     *)
(* executed once, after its dispatch, and the wait for a batch returns     *)
(* only when nothing is left.                                              *)
THEOREM PoolImplementsTaskPool == Spec => PoolSpec
<1>1. Init => Pool!Init
  BY DEF Init, Pool!Init
<1>2. PoolInv /\ [Next]_vars => [Pool!Next]_(Pool!vars)
  BY PoolStep
<1> QED
  BY <1>1, <1>2, PoolInvariant, PTL DEF Spec, PoolSpec, Pool!Spec
============================================================================
