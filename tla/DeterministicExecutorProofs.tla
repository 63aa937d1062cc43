--------------------- MODULE DeterministicExecutorProofs ---------------------
(***************************************************************************)
(* Proofs about DeterministicExecutor for any number of callers and any     *)
(* width: IInv is inductive, and the safety properties follow from it.      *)
(***************************************************************************)
EXTENDS DeterministicExecutor, FiniteSetTheorems, TLAPS

USE ConstantsAssumption DEF ConstantsAssumption, ExecutionFree, FinishedFree, AllFinished,
    ScopeEnd, ClearFailures, Included, Adopt

\* The variable groups of the specification, expanded together.
LEMMA InitIInv == Init => IInv
<1> SUFFICES ASSUME Init PROVE IInv
  OBVIOUS
<1>1. TypeOK
  <2>1. SharedTypes
    BY DEF Init, SharedTypes, Indices, NoFailure
  <2>2. CallerTypes
    BY DEF Init, CallerTypes, CallerPcs
  <2>3. WorkerTypes /\ HistoryTypes
    BY DEF Init, WorkerTypes, WorkerPcs, HistoryTypes
  <2>4. FlagTypes
    BY DEF Init, FlagTypes
  <2>5. QED
    BY <2>1, <2>2, <2>3, <2>4 DEF TypeOK
<1>2. Unfinished = {}
  BY DEF Init, Unfinished
<1>3. Countdown
  BY <1>2, FS_EmptySet DEF Init, Countdown, Open
<1>4. Ownership /\ Publication /\ PoolInv
  BY DEF Init, Ownership, Publication, PoolInv, Open, Busy, Workers
<1>5. Calls /\ FailuresInv /\ DepthInv /\ NestedNeverLocks
  BY DEF Init, Calls, FailuresInv, DepthInv, NestedNeverLocks, Open
<1>6. QED
  BY <1>1, <1>3, <1>4, <1>5 DEF IInv

\* The countdown is zero exactly when no worker owes a callback.
LEMMA CountdownFacts ==
  ASSUME IInv
  PROVE  /\ IsFiniteSet(Unfinished)
         /\ remaining = 0 <=> Unfinished = {}
<1>1. IsFiniteSet(1 .. activeBackground)
  BY FS_Interval DEF IInv, TypeOK, SharedTypes, Indices
<1>2. Unfinished \subseteq 1 .. activeBackground
  BY DEF Unfinished
<1>3. IsFiniteSet(Unfinished)
  BY <1>1, <1>2, FS_Subset
<1>4. QED
  BY <1>3, FS_EmptySet DEF IInv, Countdown

\* Between batches no worker is busy.
LEMMA QuietBetweenBatches ==
  ASSUME IInv, \A c \in Callers : ~Open(c)
  PROVE  \A w \in Workers :
           ~Busy(w) /\ (w <= activeBackground => seen[w] = generation)
<1>1. Unfinished = {}
  BY CountdownFacts DEF IInv, Countdown
<1>2. \A w \in Workers : w <= activeBackground => w \in 1 .. activeBackground
  BY DEF IInv, TypeOK, SharedTypes, Workers, Indices
<1>3. QED
  BY <1>1, <1>2 DEF IInv, PoolInv, Unfinished

\* Steps that move one caller along without touching the batch: taking or
\* giving up the execution mutex before publication, the nested call, and the
\* completion wait.
LEMMA CallerControlStep ==
  ASSUME IInv, NEW c \in Callers,
         \/ \E w \in 2 .. MaxWidth : Submit(c, w)
         \/ StartWorkerFails(c) \/ CallerNested(c) \/ Spin(c)
         \/ LockFinished(c) \/ EvaluatePredicate(c) \/ Block(c)
  PROVE  IInv'
<1> USE DEF IInv, Submit, StartWorkerFails, CallerNested, NestedCall, Spin,
           LockFinished, EvaluatePredicate, Block, CallerGoto, mutexes, task, process, callerLocals, workerLocals, workers, history
<1>1. TypeOK'
  <2>1. CallerTypes'
    BY DEF TypeOK, CallerTypes, CallerPcs
  <2>2. SharedTypes' /\ WorkerTypes' /\ FlagTypes' /\ HistoryTypes'
    BY DEF TypeOK, SharedTypes, WorkerTypes, FlagTypes, HistoryTypes
  <2>3. QED
    BY <2>1, <2>2 DEF TypeOK
<1>2. Unfinished' = Unfinished
  BY DEF Unfinished, Busy
<1>3. \A d \in Callers : Open(d)' = Open(d)
  BY DEF Open, TypeOK, CallerTypes
<1>4. Countdown'
  BY <1>2, <1>3 DEF Countdown, TypeOK, CallerTypes
<1>5. Ownership'
  BY DEF Ownership, TypeOK, CallerTypes
<1>6. Publication'
  BY <1>3 DEF Publication, TypeOK, CallerTypes, Open
<1>7. PoolInv'
  BY DEF PoolInv, Busy
<1>8. Calls' /\ FailuresInv'
  BY <1>3 DEF Calls, FailuresInv, TypeOK, CallerTypes, Open
<1>9. DepthInv' /\ NestedNeverLocks'
  BY DEF DepthInv, NestedNeverLocks, TypeOK, CallerTypes
<1>10. QED
  BY <1>1, <1>4, <1>5, <1>6, <1>7, <1>8, <1>9

\* The destructor sets the flag while no caller is inside run().
LEMMA StopStep ==
  ASSUME IInv, Stop
  PROVE  IInv'
<1> USE DEF IInv, Stop, mutexes, task, callerLocals, callers, workerLocals, workers,
           history
<1>1. TypeOK'
  <2>1. CallerTypes' /\ WorkerTypes' /\ SharedTypes' /\ HistoryTypes'
    BY DEF TypeOK, CallerTypes, WorkerTypes, SharedTypes, HistoryTypes
  <2>2. FlagTypes'
    BY DEF TypeOK, FlagTypes
  <2>3. QED
    BY <2>1, <2>2 DEF TypeOK
<1>2. Countdown' /\ Publication' /\ PoolInv' /\ Calls' /\ FailuresInv'
  BY DEF Countdown, Unfinished, Publication, PoolInv, Calls, FailuresInv, Open, Busy
<1>3. Ownership' /\ DepthInv' /\ NestedNeverLocks'
  BY DEF Ownership, DepthInv, NestedNeverLocks
<1>4. QED
  BY <1>1, <1>2, <1>3

\* Wake-ups and the steps of a worker that has no callback to
\* run, or is inside one: no worker starts or ends a callback.
LEMMA WakeStep ==
  ASSUME IInv,
         \/ \E c \in Callers : NotifyReady(c)
         \/ \E w \in Workers : NotifyFinished(w) \/ SpinStops(w) \/ WorkerNested(w)
         \/ \E w \in Workers : Observe(w) /\ (ObserveStop(w) \/ ObserveNothing(w))
         \/ Spurious \/ NotifyStop
  PROVE  IInv'
<1> USE DEF IInv, NotifyReady, NotifyFinished, NotifyOne, SpinStops, WorkerNested,
           NestedCall, Observe, ObserveStop, ObserveNothing, Spurious,
           NotifyStop, WakeAll, CallerGoto, WorkerGoto, mutexes, task, process,
           callerLocals, callers, workerLocals, workers, history
<1>1. TypeOK'
  <2>1. CallerTypes'
    BY DEF TypeOK, CallerTypes, CallerPcs
  <2>2. WorkerTypes'
    BY DEF TypeOK, WorkerTypes, WorkerPcs
  <2>3. spurious' \in {spurious, spurious + 1}
    OBVIOUS
  <2>4. UNCHANGED <<mutexes, task, failures, remaining, pool, history>>
    OBVIOUS
  <2>5. SharedTypes' /\ HistoryTypes'
    BY ONLY IInv, <2>3, <2>4
    DEF IInv, TypeOK, SharedTypes, HistoryTypes, mutexes, task, history
  <2>6. FlagTypes'
    BY DEF TypeOK, FlagTypes
  <2>7. QED
    BY <2>1, <2>2, <2>5, <2>6 DEF TypeOK
<1>2. Unfinished' = Unfinished
  <2>1. \A w \in Workers : Busy(w)' = Busy(w) /\ seen'[w] = seen[w]
    BY DEF Busy, TypeOK, WorkerTypes, DepthInv, NestedNeverLocks
  <2>2. 1 .. activeBackground \subseteq Workers
    BY DEF TypeOK, SharedTypes, Workers, Indices
  <2>3. QED
    BY <2>1, <2>2 DEF Unfinished
<1>3. \A d \in Callers : Open(d)' = Open(d)
  BY DEF Open, TypeOK, CallerTypes
<1>4. Countdown'
  BY <1>2, <1>3 DEF Countdown, TypeOK, CallerTypes
<1>5. Ownership'
  BY DEF Ownership, TypeOK, CallerTypes
<1>6. Publication'
  BY <1>3 DEF Publication, TypeOK, CallerTypes, Open
<1>7. PoolInv'
  BY DEF PoolInv, Busy, TypeOK, WorkerTypes
<1>8. Calls' /\ FailuresInv'
  <2>1. \A i \in Indices : i > 0 => (workerPc'[i] = "enter" <=> workerPc[i] = "enter")
    BY DEF TypeOK, WorkerTypes, Workers, Indices
  <2>2. \A d \in Callers :
          callerPc'[d] \in {"notify", "own"} <=> callerPc[d] \in {"notify", "own"}
    BY DEF TypeOK, CallerTypes
  <2>3. QED
    BY <1>3, <2>1, <2>2 DEF Calls, FailuresInv
<1>9. DepthInv' /\ NestedNeverLocks'
  BY DEF DepthInv, NestedNeverLocks, TypeOK, CallerTypes, WorkerTypes
<1>10. QED
  BY <1>1, <1>4, <1>5, <1>6, <1>7, <1>8, <1>9

\* The callback of index 0 begins and ends on the calling thread.
LEMMA CallerCallbackStep ==
  ASSUME IInv, NEW c \in Callers, CallerEnter(c) \/ CallerLeave(c)
  PROVE  IInv'
<1> USE DEF IInv, CallerEnter, CallerLeave, Enter, Leave, CallerGoto, mutexes, task,
           process, callerLocals, workerLocals, workers, history
<1>1. TypeOK'
  <2>1. CallerTypes'
    BY DEF TypeOK, CallerTypes, CallerPcs, DepthInv
  <2>2. SharedTypes'
    BY DEF TypeOK, SharedTypes, CallerTypes, Indices
  <2>3. WorkerTypes' /\ FlagTypes'
    BY DEF TypeOK, WorkerTypes, FlagTypes
  <2>4. HistoryTypes'
    <3>1. 0 \in Indices
      BY DEF Indices
    <3>2. visits' \in [Indices -> Nat]
      <4>1. visits' = visits \/ visits' = [visits EXCEPT ![0] = visits[0] + 1]
        OBVIOUS
      <4>2. QED
        BY <3>1, <4>1 DEF TypeOK, HistoryTypes
    <3>3. QED
      BY <3>1, <3>2 DEF TypeOK, HistoryTypes
  <2>5. QED
    BY <2>1, <2>2, <2>3, <2>4 DEF TypeOK
<1>2. Unfinished' = Unfinished
  BY DEF Unfinished, Busy
<1>3. \A d \in Callers : Open(d)' = Open(d)
  BY DEF Open, TypeOK, CallerTypes
<1>4. Countdown'
  BY <1>2, <1>3 DEF Countdown, TypeOK, CallerTypes
<1>5. Ownership'
  BY DEF Ownership, TypeOK, CallerTypes
<1>6. Publication'
  BY <1>3 DEF Publication, TypeOK, CallerTypes, Open
<1>7. PoolInv'
  BY DEF PoolInv, Busy
<1>8. \A d \in Callers : Open(d) => d = c
  BY DEF Open, Ownership
<1>9. Calls'
  <2>1. SUFFICES ASSUME Open(c), NEW i \in Indices
                 PROVE  visits'[i] =
                          IF \/ i = 0 /\ callerPc'[c] \in {"notify", "own"}
                             \/ i > activeBackground
                             \/ i > 0 /\ (seen[i] # generation \/ workerPc[i] = "enter")
                          THEN 0 ELSE 1
    BY <1>3, <1>8 DEF Calls
  <2>2. CASE CallerEnter(c)
    <3>1. callerPc[c] = "own" /\ callerPc'[c] = "running"
      BY <2>2 DEF TypeOK, CallerTypes
    <3>2. visits'[i] = IF i = 0 THEN visits[0] + 1 ELSE visits[i]
      BY <2>2 DEF TypeOK, HistoryTypes, Indices
    <3>3. visits[i] = IF i = 0 \/ i > activeBackground
                         \/ seen[i] # generation \/ workerPc[i] = "enter"
                      THEN 0 ELSE 1
      BY <2>1, <3>1 DEF Calls, Indices
    <3>4. activeBackground \in Nat /\ i \in Nat
      BY DEF TypeOK, SharedTypes, Indices
    <3>5. QED
      BY <3>1, <3>2, <3>3, <3>4
  <2>3. CASE CallerLeave(c)
    BY <2>1, <2>3 DEF Calls, TypeOK, CallerTypes
  <2>4. QED
    BY <2>2, <2>3
<1>10. FailuresInv'
  <2>1. SUFFICES ASSUME Open(c)
                 PROVE  /\ failed' \subseteq 0 .. activeBackground
                        /\ \A i \in 0 .. activeBackground :
                             failures'[i] # NoFailure <=> i \in failed'
    BY <1>3, <1>8 DEF FailuresInv
  <2>2. callerBatch[c] # NoFailure /\ 0 \in 0 .. activeBackground
    BY <2>1 DEF Publication, NoFailure, TypeOK, SharedTypes, Indices
  <2>3. failures \in [Indices -> Nat] /\ 0 .. activeBackground \subseteq Indices
    BY DEF TypeOK, SharedTypes, Indices
  <2>4. QED
    BY <2>1, <2>2, <2>3 DEF FailuresInv
<1>11. DepthInv' /\ NestedNeverLocks'
  BY DEF DepthInv, NestedNeverLocks, TypeOK, CallerTypes
<1>12. QED
  BY <1>1, <1>4, <1>5, <1>6, <1>7, <1>9, <1>10, <1>11

\* The caller returns: no run() is open any more.
LEMMA CollectStep ==
  ASSUME IInv, NEW c \in Callers, Collect(c)
  PROVE  IInv'
<1> USE DEF IInv, Collect, CallerGoto, mutexes, task, process, callerLocals,
           workerLocals, workers, history
<1>1. \A d \in Callers : ~Open(d)'
  BY DEF Open, Ownership, TypeOK, CallerTypes
<1>2. TypeOK'
  <2>1. CallerTypes' /\ SharedTypes'
    BY DEF TypeOK, CallerTypes, CallerPcs, SharedTypes
  <2>2. WorkerTypes' /\ FlagTypes'
    BY DEF TypeOK, WorkerTypes, FlagTypes
  <2>3. rethrown' \subseteq Indices
    BY DEF TypeOK, CallerTypes, Indices
  <2>4. HistoryTypes'
    BY <2>3 DEF TypeOK, HistoryTypes
  <2>5. QED
    BY <2>1, <2>2, <2>4 DEF TypeOK
<1>3. Unfinished' = Unfinished
  BY DEF Unfinished, Busy
<1>4. Countdown'
  BY <1>3 DEF Countdown, TypeOK, CallerTypes
<1>5. Ownership'
  BY DEF Ownership, TypeOK, CallerTypes
<1>6. Publication' /\ Calls' /\ FailuresInv'
  BY <1>1 DEF Publication, Calls, FailuresInv, TypeOK, CallerTypes
<1>7. PoolInv'
  BY DEF PoolInv, Busy
<1>8. DepthInv' /\ NestedNeverLocks'
  BY DEF DepthInv, NestedNeverLocks, TypeOK, CallerTypes
<1>9. QED
  BY <1>2, <1>4, <1>5, <1>6, <1>7, <1>8

\* A thread started by ensure_workers owes nothing to the last batch.
LEMMA StartWorkerStep ==
  ASSUME IInv, NEW c \in Callers, StartWorker(c)
  PROVE  IInv'
<1> USE DEF IInv, StartWorker, task, callerLocals, callers, history, mutexes
<1>1. /\ pool + 1 \in Workers /\ pool \in Nat /\ activeBackground \in Nat
      /\ activeBackground <= pool /\ workerPc[pool + 1] = "absent"
  BY DEF Publication, PoolInv, TypeOK, SharedTypes, CallerTypes, Workers, Indices
<1>2. /\ workerPc' = [workerPc EXCEPT ![pool + 1] = "observe"]
      /\ seen' = [seen EXCEPT ![pool + 1] = generation]
      /\ pool' = pool + 1
  OBVIOUS
<1>3. TypeOK'
  <2>1. CallerTypes' /\ HistoryTypes'
    BY DEF TypeOK, CallerTypes, HistoryTypes
  <2>2. SharedTypes'
    BY <1>1 DEF TypeOK, SharedTypes, Workers, Indices
  <2>3. WorkerTypes'
    BY <1>1 DEF TypeOK, WorkerTypes, WorkerPcs, SharedTypes
  <2>4. FlagTypes'
    BY DEF TypeOK, FlagTypes
  <2>5. QED
    BY <2>1, <2>2, <2>3, <2>4 DEF TypeOK
<1>4. \A w \in Workers : w # pool + 1 =>
        workerPc'[w] = workerPc[w] /\ seen'[w] = seen[w]
  BY <1>1, <1>2 DEF TypeOK, WorkerTypes
<1>5. workerPc'[pool + 1] = "observe" /\ seen'[pool + 1] = generation
  BY <1>1, <1>2 DEF TypeOK, WorkerTypes
<1>6. Unfinished' = Unfinished
  <2>1. \A w \in 1 .. activeBackground : w \in Workers /\ w # pool + 1
    BY <1>1 DEF TypeOK, SharedTypes, Workers, Indices
  <2>2. QED
    BY <1>4, <2>1 DEF Unfinished, Busy
<1>7. Countdown' /\ Ownership' /\ Publication'
  BY <1>6 DEF Countdown, Ownership, Publication, Open
<1>8. PoolInv'
  <2>1. activeBackground' <= pool'
    BY <1>1, <1>2
  <2>2. ASSUME NEW w \in Workers
        PROVE  /\ workerPc'[w] = "absent" <=> w > pool'
               /\ seen'[w] <= generation'
               /\ Busy(w)' => /\ seen'[w] = generation'
                              /\ workerContext'[w] = generation'
                              /\ w <= activeBackground'
    <3>1. CASE w = pool + 1
      BY <1>1, <1>2, <1>5, <3>1 DEF Busy, TypeOK, SharedTypes
    <3>2. CASE w # pool + 1
      <4>1. w > pool <=> w > pool + 1
        BY <1>1, <3>2 DEF Workers
      <4>2. QED
        BY <1>2, <1>4, <3>2, <4>1 DEF PoolInv, Busy
    <3>3. QED
      BY <3>1, <3>2
  <2>3. QED
    BY <2>1, <2>2 DEF PoolInv
<1>9. Calls' /\ FailuresInv'
  <2>1. \A d \in Callers : ~Open(d)
    BY DEF Ownership, Open
  <2>2. QED
    BY <2>1 DEF Calls, FailuresInv, Open
<1>10. DepthInv' /\ NestedNeverLocks'
  BY <1>1, <1>4, <1>5 DEF DepthInv, NestedNeverLocks
<1>11. QED
  BY <1>3, <1>7, <1>8, <1>9, <1>10

\* Publication happens with nobody busy, and makes every included worker owe
\* one callback.
LEMMA PublishStep ==
  ASSUME IInv, NEW c \in Callers, Publish(c)
  PROVE  IInv'
<1> USE DEF IInv, Publish, CallerGoto, mutexes, process, workerLocals, workers
<1>1. \A d \in Callers : ~Open(d)
  BY DEF Open, Ownership
<1>2. \A d \in Callers : Open(d)' <=> d = c
  BY <1>1 DEF Open, TypeOK, CallerTypes
<1>3. \A w \in Workers : ~Busy(w)
  BY <1>1, QuietBetweenBatches
<1>4. /\ callerWidth[c] \in 2 .. MaxWidth /\ generation \in Nat /\ pool \in Nat
      /\ activeBackground' = callerWidth[c] - 1
      /\ generation' = generation + 1
  BY DEF Publication, TypeOK, SharedTypes, Indices
<1>5. 1 .. activeBackground' \subseteq Workers /\ activeBackground' \in Nat
  BY <1>4 DEF Workers
<1>6. TypeOK'
  <2>1. CallerTypes'
    BY <1>4 DEF TypeOK, CallerTypes, CallerPcs
  <2>2. failures' \in [Indices -> Nat]
    BY DEF TypeOK, SharedTypes, NoFailure
  <2>3. SharedTypes'
    BY <1>4, <2>2 DEF TypeOK, SharedTypes, Indices
  <2>4. WorkerTypes' /\ FlagTypes'
    BY DEF TypeOK, WorkerTypes, FlagTypes
  <2>5. HistoryTypes'
    BY <1>4 DEF TypeOK, HistoryTypes
  <2>6. QED
    BY <2>1, <2>3, <2>4, <2>5 DEF TypeOK
<1>7. \A w \in Workers : seen[w] # generation'
  BY <1>4 DEF PoolInv, TypeOK, WorkerTypes
<1>8. Countdown'
  <2>1. Unfinished' = 1 .. activeBackground'
    BY <1>5, <1>7 DEF Unfinished
  <2>2. \A n \in Nat : Cardinality(1 .. n) = n
    BY FS_Interval
  <2>3. remaining' = activeBackground'
    OBVIOUS
  <2>4. remaining' = Cardinality(Unfinished')
    BY <1>5, <2>1, <2>2, <2>3
  <2>5. \A d \in Callers : callerPc'[d] # "collect"
    BY DEF TypeOK, CallerTypes, Ownership
  <2>6. QED
    BY <1>2, <2>4, <2>5 DEF Countdown
<1>9. Ownership'
  BY DEF Ownership, TypeOK, CallerTypes
<1>10. Publication'
  BY <1>2, <1>4 DEF Publication, TypeOK, CallerTypes
<1>11. PoolInv'
  BY <1>3, <1>4 DEF PoolInv, Busy, TypeOK, WorkerTypes
<1>12. Calls'
  <2>1. callerPc'[c] = "notify"
    BY DEF TypeOK, CallerTypes
  <2>2. \A i \in Indices : visits'[i] = 0
    OBVIOUS
  <2>3. ASSUME NEW i \in Indices
        PROVE  i = 0 \/ (i > 0 /\ i \in Workers)
    BY DEF Indices, Workers
  <2>4. QED
    BY <1>2, <1>7, <2>1, <2>2, <2>3 DEF Calls
<1>13. FailuresInv'
  <2>1. \A i \in 0 .. activeBackground' : i \in Indices /\ i < callerWidth[c]
    BY <1>4 DEF Indices
  <2>2. failed' = {}
    OBVIOUS
  <2>3. QED
    BY <1>2, <2>1, <2>2 DEF FailuresInv
<1>14. DepthInv' /\ NestedNeverLocks'
  BY DEF DepthInv, NestedNeverLocks, TypeOK, CallerTypes
<1>15. QED
  BY <1>6, <1>8, <1>9, <1>10, <1>11, <1>12, <1>13, <1>14

\* A worker takes the batch, or sits it out because it lies outside its width.
LEMMA ObserveBatchStep ==
  ASSUME IInv, NEW w \in Workers, Observe(w), ObserveBatch(w)
  PROVE  IInv'
<1> USE DEF IInv
<1>1. /\ workerPc[w] = "observe" /\ generation # seen[w] /\ workerPc[w] # "enter"
      /\ workerPc' = [workerPc EXCEPT ![w] = IF w <= activeBackground
                                              THEN "enter" ELSE "observe"]
      /\ seen' = [seen EXCEPT ![w] = generation]
      /\ workerContext' = [workerContext EXCEPT ![w] = context]
      /\ UNCHANGED <<mutexes, task, failures, remaining, process, callers,
                     workerDepth, history>>
  BY DEF Observe, ObserveBatch, WorkerGoto
<1> USE DEF mutexes, task, process, callerLocals, callers, history
<1>2. TypeOK'
  <2>1. CallerTypes' /\ HistoryTypes' /\ SharedTypes'
    BY <1>1 DEF TypeOK, CallerTypes, HistoryTypes, SharedTypes
  <2>2. WorkerTypes'
    BY <1>1 DEF TypeOK, WorkerTypes, WorkerPcs, SharedTypes
  <2>3. hot' = [hot EXCEPT ![w] = w <= activeBackground]
    BY DEF ObserveBatch
  <2>4. (w <= activeBackground) \in BOOLEAN
    OBVIOUS
  <2>5. FlagTypes'
    BY <1>1, <2>3, <2>4, Zenon DEF TypeOK, FlagTypes
  <2>6. QED
    BY <2>1, <2>2, <2>5 DEF TypeOK
<1>3. \A v \in Workers : v # w =>
        /\ workerPc'[v] = workerPc[v] /\ seen'[v] = seen[v]
        /\ workerContext'[v] = workerContext[v]
  BY <1>1 DEF TypeOK, WorkerTypes
<1>4. /\ workerPc'[w] = IF w <= activeBackground THEN "enter" ELSE "observe"
      /\ seen'[w] = generation /\ workerContext'[w] = context
  BY <1>1 DEF TypeOK, WorkerTypes
<1>5. 1 .. activeBackground \subseteq Workers
  BY DEF TypeOK, SharedTypes, Workers, Indices
<1>6. Unfinished' = Unfinished
  <2>1. ASSUME NEW v \in 1 .. activeBackground
        PROVE  (Busy(v) \/ seen[v] # generation)' <=> (Busy(v) \/ seen[v] # generation)
    <3>1. v \in Workers /\ v <= activeBackground
      BY <1>5
    <3>2. CASE v = w
      BY <1>1, <1>4, <3>1, <3>2 DEF Busy
    <3>3. CASE v # w
      BY <1>1, <1>3, <3>1, <3>3 DEF Busy
    <3>4. QED
      BY <3>2, <3>3
  <2>2. QED
    BY <1>1, <2>1 DEF Unfinished
<1>7. \A d \in Callers : Open(d)' = Open(d)
  BY <1>1 DEF Open
<1>8. Countdown' /\ Ownership' /\ Publication' /\ FailuresInv'
  BY <1>1, <1>6, <1>7 DEF Countdown, Ownership, Publication, FailuresInv
<1>9. w <= activeBackground => context = generation
  <2>1. SUFFICES ASSUME w <= activeBackground PROVE context = generation
    OBVIOUS
  <2>2. \E d \in Callers : Open(d)
    BY <1>1, <2>1, QuietBetweenBatches
  <2>3. QED
    BY <2>2 DEF Publication
<1>10. PoolInv'
  BY <1>1, <1>3, <1>4, <1>9 DEF PoolInv, Busy, TypeOK, SharedTypes
<1>11. Calls'
  <2>1. SUFFICES ASSUME NEW d \in Callers, Open(d), NEW i \in Indices
                 PROVE  (\/ i = 0 /\ callerPc[d] \in {"notify", "own"}
                         \/ i > activeBackground
                         \/ i > 0 /\ (seen[i] # generation \/ workerPc[i] = "enter"))'
                        <=> (\/ i = 0 /\ callerPc[d] \in {"notify", "own"}
                             \/ i > activeBackground
                             \/ i > 0 /\ (seen[i] # generation \/ workerPc[i] = "enter"))
    BY <1>1, <1>7 DEF Calls
  <2>2. CASE i = w
    <3>1. w \in Nat /\ w > 0 /\ activeBackground \in Nat
      BY DEF Workers, TypeOK, SharedTypes, Indices
    <3>2. QED
      BY <1>1, <1>4, <2>2, <3>1
  <2>3. CASE i # w
    <3>1. i > 0 => i \in Workers
      BY DEF Indices, Workers
    <3>2. QED
      BY <1>1, <1>3, <2>3, <3>1
  <2>4. QED
    BY <2>2, <2>3
<1>12. DepthInv' /\ NestedNeverLocks'
  BY <1>1, <1>3, <1>4 DEF DepthInv, NestedNeverLocks
<1>13. QED
  BY <1>2, <1>8, <1>10, <1>11, <1>12

\* A worker's callback begins and ends: it stays among those that owe.
LEMMA WorkerCallbackStep ==
  ASSUME IInv, NEW w \in Workers, WorkerEnter(w) \/ WorkerLeave(w)
  PROVE  IInv'
<1> USE DEF IInv
<1>1. /\ UNCHANGED <<mutexes, task, remaining, process, callers, workerLocals,
                     live, rethrown>>
      /\ \/ /\ workerPc[w] = "enter"
            /\ workerPc' = [workerPc EXCEPT ![w] = "running"]
            /\ workerDepth' = [workerDepth EXCEPT ![w] = workerDepth[w] + 1]
            /\ visits' = [visits EXCEPT ![w] = visits[w] + 1]
            /\ UNCHANGED <<failures, failed>>
         \/ /\ workerPc[w] \in {"running", "inline"}
            /\ workerPc' = [workerPc EXCEPT ![w] = "decrement"]
            /\ workerDepth' = [workerDepth EXCEPT ![w] = workerDepth[w] - 1]
            /\ UNCHANGED visits
            /\ \/ UNCHANGED <<failures, failed>>
               \/ /\ failures' = [failures EXCEPT ![w] = workerContext[w]]
                  /\ failed' = failed \cup {w}
  BY DEF WorkerEnter, WorkerLeave, Enter, Leave, WorkerGoto
<1> USE DEF mutexes, task, process, callerLocals, callers, workerLocals
<1>2. w \in Indices /\ w > 0 /\ w \in Nat
  BY DEF Workers, Indices
<1>3. Busy(w) /\ seen[w] = generation /\ workerContext[w] = generation
      /\ w <= activeBackground
  BY <1>1 DEF PoolInv, Busy
<1>4. \E d \in Callers : Open(d)
  BY <1>3, QuietBetweenBatches
<1>5. TypeOK'
  <2>1. CallerTypes' /\ FlagTypes'
    BY <1>1 DEF TypeOK, CallerTypes, FlagTypes
  <2>2. WorkerTypes'
    <3>1. workerDepth[w] = IF workerPc[w] = "enter" THEN 0 ELSE 1
      BY <1>1 DEF DepthInv
    <3>2. QED
      BY <1>1, <3>1 DEF TypeOK, WorkerTypes, WorkerPcs
  <2>3. SharedTypes'
    BY <1>1, <1>2, <1>3 DEF TypeOK, SharedTypes
  <2>4. HistoryTypes'
    <3>1. visits' \in [Indices -> Nat]
      BY <1>1, <1>2 DEF TypeOK, HistoryTypes
    <3>2. QED
      BY <1>1, <1>2, <3>1 DEF TypeOK, HistoryTypes
  <2>5. QED
    BY <2>1, <2>2, <2>3, <2>4 DEF TypeOK
<1>6. \A v \in Workers : v # w => workerPc'[v] = workerPc[v]
  BY <1>1 DEF TypeOK, WorkerTypes
<1>7. workerPc'[w] \in {"running", "decrement"}
  BY <1>1 DEF TypeOK, WorkerTypes
<1>8. \A v \in Workers : Busy(v)' <=> Busy(v)
  BY <1>3, <1>6, <1>7 DEF Busy
<1>9. Unfinished' = Unfinished
  <2>1. 1 .. activeBackground \subseteq Workers
    BY DEF TypeOK, SharedTypes, Workers, Indices
  <2>2. QED
    BY <1>1, <1>8, <2>1 DEF Unfinished
<1>10. Countdown' /\ Ownership' /\ Publication'
  BY <1>1, <1>9 DEF Countdown, Ownership, Publication, Open
<1>11. PoolInv'
  BY <1>1, <1>3, <1>6, <1>7, <1>8 DEF PoolInv
<1>12. Calls'
  <2>1. SUFFICES ASSUME NEW d \in Callers, Open(d), NEW i \in Indices
                 PROVE  visits'[i] =
                          IF \/ i = 0 /\ callerPc[d] \in {"notify", "own"}
                             \/ i > activeBackground
                             \/ i > 0 /\ (seen[i] # generation \/ workerPc'[i] = "enter")
                          THEN 0 ELSE 1
    BY <1>1 DEF Calls, Open
  <2>2. CASE i = w
    <3>1. visits[w] = IF workerPc[w] = "enter" THEN 0 ELSE 1
      BY <1>2, <1>3, <2>1, <2>2 DEF Calls, TypeOK, SharedTypes, Indices
    <3>2. visits'[w] = 1
      BY <1>1, <1>2, <3>1 DEF TypeOK, HistoryTypes
    <3>3. QED
      BY <1>2, <1>3, <1>7, <2>2, <3>2 DEF TypeOK, SharedTypes, Indices
  <2>3. CASE i # w
    <3>1. visits'[i] = visits[i]
      BY <1>1, <1>2, <2>3 DEF TypeOK, HistoryTypes
    <3>2. i > 0 => workerPc'[i] = workerPc[i]
      BY <1>6, <2>3 DEF Indices, Workers
    <3>3. QED
      BY <2>1, <3>1, <3>2 DEF Calls
  <2>4. QED
    BY <2>2, <2>3
<1>13. FailuresInv'
  <2>1. SUFFICES ASSUME NEW d \in Callers, Open(d)
                 PROVE  /\ failed' \subseteq 0 .. activeBackground
                        /\ \A i \in 0 .. activeBackground :
                             failures'[i] # NoFailure <=> i \in failed'
    BY <1>1 DEF FailuresInv, Open
  <2>2. workerContext[w] # NoFailure /\ w \in 0 .. activeBackground
    BY <1>2, <1>3, <2>1 DEF Publication, NoFailure, TypeOK, SharedTypes, Indices
  <2>3. failures \in [Indices -> Nat] /\ 0 .. activeBackground \subseteq Indices
    BY DEF TypeOK, SharedTypes, Indices
  <2>4. /\ failed \subseteq 0 .. activeBackground
        /\ \A i \in 0 .. activeBackground : failures[i] # NoFailure <=> i \in failed
    BY <2>1 DEF FailuresInv
  <2>5. QED
    BY <1>1, <2>2, <2>3, <2>4
<1>14. DepthInv' /\ NestedNeverLocks'
  BY <1>1, <1>6, <1>7 DEF DepthInv, NestedNeverLocks, TypeOK, WorkerTypes
<1>15. QED
  BY <1>5, <1>10, <1>11, <1>12, <1>13, <1>14

\* fetch_sub takes exactly the worker's own unit off the countdown.
LEMMA DecrementStep ==
  ASSUME IInv, NEW w \in Workers, Decrement(w)
  PROVE  IInv'
<1> USE DEF IInv, Decrement, WorkerGoto, mutexes, task, process, callerLocals,
           callers, workerLocals, history
<1>1. Busy(w) /\ seen[w] = generation /\ w <= activeBackground
  BY DEF PoolInv, Busy
<1>2. w \in Unfinished
  BY <1>1 DEF Unfinished, Workers, TypeOK, SharedTypes, Indices
<1>3. Unfinished' = Unfinished \ {w}
  <2>1. 1 .. activeBackground \subseteq Workers
    BY DEF TypeOK, SharedTypes, Workers, Indices
  <2>2. \A v \in Workers : v # w => workerPc'[v] = workerPc[v]
    BY DEF TypeOK, WorkerTypes
  <2>3. workerPc'[w] \in {"signal", "observe"}
    BY DEF TypeOK, WorkerTypes
  <2>4. QED
    BY <1>1, <2>1, <2>2, <2>3 DEF Unfinished, Busy
<1>4. remaining # 0
  BY <1>2, CountdownFacts
<1>5. remaining' = Cardinality(Unfinished')
  <2>1. Cardinality(Unfinished \ {w}) = Cardinality(Unfinished) - 1
    BY <1>2, CountdownFacts, FS_RemoveElement
  <2>2. QED
    BY <1>3, <2>1 DEF Countdown
<1>6. Countdown'
  BY <1>4, <1>5 DEF Countdown, Open
<1>7. TypeOK'
  <2>1. CallerTypes' /\ HistoryTypes' /\ FlagTypes'
    BY DEF TypeOK, CallerTypes, HistoryTypes, FlagTypes
  <2>2. WorkerTypes'
    BY DEF TypeOK, WorkerTypes, WorkerPcs
  <2>3. SharedTypes'
    BY <1>4 DEF TypeOK, SharedTypes, Indices
  <2>4. QED
    BY <2>1, <2>2, <2>3 DEF TypeOK
<1>8. Ownership' /\ Publication' /\ FailuresInv'
  BY DEF Ownership, Publication, FailuresInv, Open
<1>9. PoolInv'
  BY DEF PoolInv, Busy, TypeOK, WorkerTypes
<1>10. Calls'
  <2>1. \A i \in Indices : i > 0 => (workerPc'[i] = "enter" <=> workerPc[i] = "enter")
    BY DEF TypeOK, WorkerTypes, Workers, Indices
  <2>2. QED
    BY <2>1 DEF Calls, Open
<1>11. DepthInv' /\ NestedNeverLocks'
  BY DEF DepthInv, NestedNeverLocks, TypeOK, WorkerTypes
<1>12. QED
  BY <1>6, <1>7, <1>8, <1>9, <1>10, <1>11

-----------------------------------------------------------------------------
\* Every step of the specification keeps the inductive invariant.
LEMMA NextIInv == IInv /\ [Next]_vars => IInv'
<1> SUFFICES ASSUME IInv, [Next]_vars PROVE IInv'
  OBVIOUS
<1>1. ASSUME NEW c \in Callers, NEW w \in 2 .. MaxWidth, Submit(c, w) PROVE IInv'
  BY <1>1, CallerControlStep
<1>2. ASSUME NEW c \in Callers, CallerStep(c) PROVE IInv'
  BY <1>2, StartWorkerStep, PublishStep, WakeStep, CallerCallbackStep,
     CallerControlStep, CollectStep DEF CallerStep
<1>3. ASSUME NEW c \in Callers, StartWorkerFails(c) \/ CallerNested(c) PROVE IInv'
  BY <1>3, CallerControlStep
<1>4. ASSUME NEW w \in Workers, WorkerStep(w) \/ WorkerNested(w) PROVE IInv'
  <2>1. CASE Observe(w)
    BY <2>1, WakeStep, ObserveBatchStep DEF Observe
  <2>2. CASE WorkerEnter(w) \/ WorkerLeave(w)
    BY <2>2, WorkerCallbackStep
  <2>3. CASE Decrement(w)
    BY <2>3, DecrementStep
  <2>4. CASE SpinStops(w) \/ NotifyFinished(w) \/ WorkerNested(w)
    BY <2>4, WakeStep
  <2>5. QED
    BY <1>4, <2>1, <2>2, <2>3, <2>4 DEF WorkerStep
<1>5. CASE Spurious \/ NotifyStop
  BY <1>5, WakeStep
<1>6. CASE Stop
  BY <1>6, StopStep
<1>7. CASE Joined \/ UNCHANGED vars
  <2>1. UNCHANGED vars
    BY <1>7 DEF Joined
  <2>2. TypeOK'
    <3>1. CallerTypes' /\ WorkerTypes' /\ SharedTypes' /\ HistoryTypes'
      BY <2>1 DEF IInv, TypeOK, CallerTypes, WorkerTypes, SharedTypes, HistoryTypes,
                  vars, mutexes, task, process, callerLocals, callers, workerLocals,
                  workers, history
    <3>2. FlagTypes'
      BY <2>1 DEF IInv, TypeOK, FlagTypes, vars, process, workers, workerLocals
    <3>3. QED
      BY <3>1, <3>2 DEF TypeOK
  <2>3. QED
    BY <2>1, <2>2 DEF IInv, Ownership, Publication, PoolInv, Countdown, Unfinished,
       Calls, FailuresInv, DepthInv, NestedNeverLocks, Open, Busy, vars, mutexes,
       task, process, callerLocals, callers, workerLocals, workers, history
<1>8. QED
  BY <1>1, <1>2, <1>3, <1>4, <1>5, <1>6, <1>7 DEF Next

\* The inductive invariant holds in every reachable state of the executor.
THEOREM InductiveInvariant == Spec => []IInv
<1>1. Init => IInv
  BY InitIInv
<1>2. IInv /\ [Next]_vars => IInv'
  BY NextIInv
<1>3. QED
  BY <1>1, <1>2, PTL DEF Spec

\* The members, locals and history keep their types.
THEOREM TypeCorrectness == Spec => []TypeOK
<1>1. IInv => TypeOK
  BY DEF IInv
<1>2. QED
  BY <1>1, InductiveInvariant, PTL

\* No worker calls back into, or reads, the stack frame of a run() that has
\* returned, for any number of callers, widths and batches.
THEOREM ContextsAreLive == Spec => []NoDeadContext
<1>1. IInv => NoDeadContext
  <2>1. SUFFICES ASSUME IInv, NEW w \in Workers, Busy(w)
                 PROVE  workerContext[w] \in live
    BY DEF NoDeadContext, Busy
  <2>2. \E c \in Callers : Open(c)
    BY <2>1, QuietBetweenBatches
  <2>3. QED
    BY <2>1, <2>2 DEF IInv, Publication, PoolInv
<1>2. QED
  BY <1>1, InductiveInvariant, PTL

\* At the end of the countdown every index was called once.
LEMMA OnceAtCollect == IInv => ExactlyOnce
<1>1. SUFFICES ASSUME IInv, NEW c \in Callers, callerPc[c] = "collect",
                      NEW i \in Indices
               PROVE  visits[i] = IF i < callerWidth[c] THEN 1 ELSE 0
  BY DEF ExactlyOnce
<1>2. Open(c)
  BY <1>1 DEF Open
<1>3. Unfinished = {}
  BY <1>1, CountdownFacts DEF IInv, Countdown
<1>4. /\ activeBackground = callerWidth[c] - 1 /\ callerWidth[c] \in 2 .. MaxWidth
      /\ activeBackground \in Nat /\ i \in Nat
  BY <1>1, <1>2 DEF IInv, Publication, TypeOK, SharedTypes, Indices
<1>5. i > activeBackground <=> ~(i < callerWidth[c])
  BY <1>4
<1>6. i > 0 /\ ~(i > activeBackground) => seen[i] = generation /\ workerPc[i] # "enter"
  BY <1>3, <1>4 DEF Unfinished, Busy
<1>7. visits[i] = IF \/ i = 0 /\ callerPc[c] \in {"notify", "own"}
                     \/ i > activeBackground
                     \/ i > 0 /\ (seen[i] # generation \/ workerPc[i] = "enter")
                  THEN 0 ELSE 1
  BY <1>1, <1>2 DEF IInv, Calls
<1>8. QED
  BY <1>1, <1>4, <1>5, <1>6, <1>7

\* When run() returns, each of its indices was called exactly once.
THEOREM EveryIndexOnce == Spec => []ExactlyOnce
BY OnceAtCollect, InductiveInvariant, PTL

\* Collect picks the lowest failing index of its batch.
LEMMA CollectRethrows ==
  ASSUME IInv, NEW c \in Callers, Collect(c)
  PROVE  rethrown' = {i \in failed : \A j \in failed : i <= j}
<1>1. Open(c)
  BY DEF Open, Collect, CallerGoto
<1>2. /\ failed \subseteq 0 .. activeBackground
      /\ \A i \in 0 .. activeBackground : failures[i] # NoFailure <=> i \in failed
      /\ activeBackground = callerWidth[c] - 1
  BY <1>1 DEF IInv, FailuresInv, Publication
<1>3. activeBackground \in Nat
  BY DEF IInv, TypeOK, SharedTypes, Indices
<1>4. rethrown' = {i \in 0 .. activeBackground :
                     /\ failures[i] # NoFailure
                     /\ \A j \in 0 .. (i - 1) : failures[j] = NoFailure}
  BY <1>2 DEF Collect
<1>5. ASSUME NEW i \in 0 .. activeBackground, i \in failed
      PROVE  (\A j \in 0 .. (i - 1) : failures[j] = NoFailure)
             <=> (\A j \in failed : i <= j)
  <2>1. \A j \in 0 .. (i - 1) : j \in 0 .. activeBackground
    BY <1>3
  <2>2. \A j \in failed : i <= j \/ j \in 0 .. (i - 1)
    BY <1>2, <1>3
  <2>3. \A j \in 0 .. (i - 1) : ~(i <= j)
    OBVIOUS
  <2>4. QED
    BY <1>2, <2>1, <2>2, <2>3
<1>6. QED
  BY <1>2, <1>4, <1>5

\* What run() rethrows is the failure of the lowest failing index of its batch.
THEOREM FirstFailure == Spec => RethrowsFirstFailure
<1>1. IInv /\ [Next]_vars =>
        [\A c \in Callers : callerPc[c] = "collect" /\ callerPc'[c] = "idle" =>
           rethrown' = {i \in failed : \A j \in failed : i <= j}]_vars
  <2>1. SUFFICES ASSUME IInv, Next, NEW c \in Callers,
                        callerPc[c] = "collect", callerPc'[c] = "idle"
                 PROVE  rethrown' = {i \in failed : \A j \in failed : i <= j}
    OBVIOUS
  <2>2. Collect(c)
    <3>1. ASSUME NEW d \in Callers, NEW w \in 2 .. MaxWidth, Submit(d, w)
          PROVE  FALSE
      BY <2>1, <3>1 DEF Submit, CallerGoto, IInv, TypeOK, CallerTypes, Ownership
    <3>2. ASSUME NEW d \in Callers, StartWorkerFails(d) \/ CallerNested(d)
          PROVE  FALSE
      BY <2>1, <3>2 DEF StartWorkerFails, CallerNested, NestedCall, CallerGoto, IInv,
                        TypeOK, CallerTypes
    <3>3. ASSUME NEW d \in Callers, CallerStep(d), ~Collect(d)
          PROVE  FALSE
      BY <2>1, <3>3 DEF CallerStep, StartWorker, Publish, NotifyReady, CallerEnter,
                        CallerLeave, Spin, LockFinished, EvaluatePredicate, Block,
                        CallerGoto, callers, IInv, TypeOK, CallerTypes
    <3>4. ASSUME NEW d \in Callers, Collect(d)
          PROVE  d = c
      BY <2>1, <3>4 DEF Collect, CallerGoto, IInv, TypeOK, CallerTypes
    <3>5. ASSUME NEW w \in Workers, WorkerStep(w) \/ WorkerNested(w)
          PROVE  FALSE
      BY <2>1, <3>5 DEF WorkerStep, Observe, SpinStops, WorkerEnter, WorkerLeave,
                        Decrement, NotifyFinished, NotifyOne, WorkerNested, CallerGoto,
                        callers, IInv, TypeOK, CallerTypes
    <3>6. ~(Spurious \/ Stop \/ NotifyStop \/ Joined)
      BY <2>1 DEF Spurious, Stop, NotifyStop, Joined, CallerGoto, callers, vars, IInv,
                  TypeOK, CallerTypes
    <3>7. QED
      BY <2>1, <3>1, <3>2, <3>3, <3>4, <3>5, <3>6 DEF Next
  <2>3. QED
    BY <2>1, <2>2, CollectRethrows
<1>2. QED
  BY <1>1, InductiveInvariant, PTL DEF RethrowsFirstFailure, Spec

\* A nested call never waits for the executor, and a worker outside the batch
\* takes no part in it.
THEOREM NoNestedLock == Spec => []NestedNeverLocks
<1>1. IInv => NestedNeverLocks
  BY DEF IInv
<1>2. QED
  BY <1>1, InductiveInvariant, PTL

THEOREM ExcludedStayOut == Spec => []ExcludedWorkersIdle
<1>1. IInv => ExcludedWorkersIdle
  <2>1. SUFFICES ASSUME IInv, NEW c \in Callers, executionOwner = c,
                        callerPc[c] # "grow", NEW w \in Workers, w >= callerWidth[c]
                 PROVE  workerPc[w] \in {"absent", "observe", "waiting", "exited", "signal"}
    BY DEF ExcludedWorkersIdle
  <2>2. Open(c)
    BY <2>1 DEF IInv, Ownership, Open
  <2>3. activeBackground = callerWidth[c] - 1 /\ callerWidth[c] \in 2 .. MaxWidth
    BY <2>1, <2>2 DEF IInv, Publication, Open
  <2>4. ~(w <= activeBackground)
    BY <2>1, <2>3 DEF Workers
  <2>5. ~Busy(w)
    BY <2>1, <2>4 DEF IInv, PoolInv
  <2>6. QED
    BY <2>1, <2>5 DEF IInv, NestedNeverLocks, Busy, TypeOK, WorkerTypes, WorkerPcs
<1>2. QED
  BY <1>1, InductiveInvariant, PTL

-----------------------------------------------------------------------------
(* The refinement of ParallelBatch: which steps are hidden, and which start,  *)
(* advance and end the batch.                                                *)

\* Done only looks at the calls of the batch and at who is inside one.
LEMMA DoneKept ==
  ASSUME UNCHANGED visits,
         \A c \in Callers : callerPc'[c] \in InCallback <=> callerPc[c] \in InCallback,
         \A w \in Workers : workerPc'[w] \in InCallback <=> workerPc[w] \in InCallback
  PROVE  Done' = Done
<1>1. \A i \in Indices : i # 0 => i \in Workers
  BY DEF Indices, Workers
<1> QED
  BY <1>1 DEF Done

\* At most one caller is inside run(), and it holds execution_mutex_.
LEMMA OneRunning ==
  ASSUME IInv, NEW c \in Callers, callerPc[c] \notin {"idle", "grow"}
  PROVE  /\ Runner = c /\ Runner # NoCaller
         /\ \A d \in Callers : d # c => callerPc[d] = "idle"
BY DEF IInv, Ownership, Runner

\* Steps that leave the batch as it is, or move a caller between idle and grow.
LEMMA StepHidden ==
  ASSUME UNCHANGED <<activeBackground, failed, rethrown>>, Done' = Done,
         \/ /\ UNCHANGED executionOwner
            /\ \A c \in Callers : callerPc'[c] = "grow" <=> callerPc[c] = "grow"
         \/ /\ Runner = NoCaller /\ Runner' = NoCaller
  PROVE  UNCHANGED Abstract!vars
<1>1. Runner' = Runner
  BY DEF Runner
<1> QED
  BY <1>1 DEF Abstract!vars

\* The callback of an index returns: the index joins Done.
LEMMA LeaveExecutes ==
  ASSUME IInv, NEW c \in Callers, Open(c), NEW i \in Indices, i <= activeBackground,
         i \notin Done, Done' = Done \cup {i},
         failed' \in {failed, failed \cup {i}},
         UNCHANGED <<activeBackground, rethrown>>, Runner' = Runner
  PROVE  Abstract!Execute(i)
<1>1. Runner # NoCaller
  BY OneRunning DEF Open
<1>2. i \in 0 .. ((activeBackground + 1) - 1)
  BY DEF Indices, IInv, TypeOK, SharedTypes
<1> QED
  BY <1>1, <1>2 DEF Abstract!Execute

\* CallerLeave is the abstract Execute(0).
LEMMA CallerLeaveExecutes ==
  ASSUME IInv, NEW c \in Callers, CallerLeave(c)
  PROVE  Abstract!Execute(0)
<1>1. /\ callerPc[c] \in {"running", "inline"}
      /\ callerPc' = [callerPc EXCEPT ![c] = "check"]
      /\ UNCHANGED <<executionOwner, activeBackground, visits, workerPc, rethrown>>
  BY DEF CallerLeave, CallerGoto, mutexes, task, workers
<1>2. Open(c) /\ 0 \in Indices /\ 0 <= activeBackground
  BY <1>1 DEF Open, Indices, IInv, TypeOK, SharedTypes
<1>3. \A d \in Callers : d # c => callerPc[d] = "idle"
  BY <1>1, OneRunning
<1>4. callerPc \in [Callers -> CallerPcs]
  BY DEF IInv, TypeOK, CallerTypes
<1>5. visits[0] = 1
  BY <1>1, <1>2 DEF IInv, Calls, TypeOK, SharedTypes, Indices
<1>6. 0 \notin Done
  BY <1>1 DEF Done, InCallback
<1>7. Done' = Done \cup {0}
  <2>1. \A d \in Callers : callerPc'[d] \notin InCallback
    BY <1>1, <1>3, <1>4 DEF InCallback
  <2>2. ASSUME NEW i \in Indices PROVE i \in Done' <=> i \in Done \/ i = 0
    BY <1>1, <1>2, <1>5, <1>6, <2>1 DEF Done
  <2> QED
    BY <1>2, <2>2 DEF Done
<1>8. failed' \in {failed, failed \cup {0}}
  BY DEF CallerLeave, Leave
<1>9. Runner' = Runner
  BY <1>1, <1>3, <1>4 DEF Runner
<1> QED
  BY <1>1, <1>2, <1>6, <1>7, <1>8, <1>9, LeaveExecutes

\* WorkerLeave(w) is the abstract Execute(w).
LEMMA WorkerLeaveExecutes ==
  ASSUME IInv, NEW w \in Workers, WorkerLeave(w)
  PROVE  Abstract!Execute(w)
<1>1. /\ workerPc[w] \in {"running", "inline"}
      /\ workerPc' = [workerPc EXCEPT ![w] = "decrement"]
      /\ UNCHANGED <<executionOwner, activeBackground, visits, callerPc, rethrown>>
  BY DEF WorkerLeave, WorkerGoto, mutexes, task, callers
<1>2. w \in Indices /\ w # 0 /\ w > 0
  BY DEF Workers, Indices
<1>3. Busy(w) /\ w <= activeBackground /\ seen[w] = generation
  BY <1>1 DEF Busy, IInv, PoolInv
<1>4. PICK c \in Callers : Open(c)
  BY <1>3, QuietBetweenBatches
<1>5. visits[w] = 1
  <2>1. ~(w > activeBackground)
    BY <1>2, <1>3 DEF IInv, TypeOK, SharedTypes, Indices
  <2> QED
    BY <1>1, <1>2, <1>3, <1>4, <2>1 DEF IInv, Calls
<1>6. w \notin Done
  BY <1>1, <1>2 DEF Done, InCallback
<1>7. Done' = Done \cup {w}
  <2>1. workerPc \in [Workers -> WorkerPcs]
    BY DEF IInv, TypeOK, WorkerTypes
  <2>2. ASSUME NEW i \in Indices PROVE i \in Done' <=> i \in Done \/ i = w
    <3>1. i # 0 => i \in Workers
      BY DEF Indices, Workers
    <3>2. i = w => workerPc'[i] = "decrement"
      BY <1>1, <2>1
    <3>3. i # w /\ i # 0 => workerPc'[i] = workerPc[i]
      BY <1>1, <2>1, <3>1
    <3> QED
      BY <1>1, <1>2, <1>5, <3>1, <3>2, <3>3 DEF Done, InCallback
  <2> QED
    BY <1>2, <2>2 DEF Done
<1>8. failed' \in {failed, failed \cup {w}}
  BY DEF WorkerLeave, Leave
<1>9. Runner' = Runner
  BY <1>1 DEF Runner
<1> QED
  BY <1>1, <1>2, <1>3, <1>4, <1>6, <1>7, <1>8, <1>9, LeaveExecutes

\* Publish starts the abstract batch.
LEMMA PublishStarts ==
  ASSUME IInv, NEW c \in Callers, Publish(c)
  PROVE  Abstract!Start(c)
<1>1. /\ callerPc[c] = "grow" /\ callerPc' = [callerPc EXCEPT ![c] = "notify"]
      /\ executionOwner' = executionOwner /\ UNCHANGED rethrown
      /\ visits' = [i \in Indices |-> 0] /\ failed' = {}
      /\ activeBackground' = callerWidth[c] - 1
  BY DEF Publish, CallerGoto, mutexes
<1>2. executionOwner = c /\ \A d \in Callers : d # c => callerPc[d] = "idle"
  BY <1>1 DEF IInv, Ownership
<1>3. Runner = NoCaller
  BY <1>1 DEF Runner
<1>4. Runner' = c
  <2>1. \A d \in Callers : callerPc'[d] # "grow"
    BY <1>1, <1>2 DEF IInv, TypeOK, CallerTypes
  <2> QED
    BY <1>1, <1>2, <2>1 DEF Runner
<1>5. Done' = {}
  BY <1>1 DEF Done
<1>6. activeBackground' + 1 \in 2 .. MaxWidth
  BY <1>1 DEF IInv, Publication
<1> QED
  BY <1>1, <1>3, <1>4, <1>5, <1>6 DEF Abstract!Start

\* Collect ends it: every index is done, the lowest failure is the result.
LEMMA CollectFinishes ==
  ASSUME IInv, NEW c \in Callers, Collect(c)
  PROVE  Abstract!Finish
<1>1. /\ callerPc[c] = "collect" /\ callerPc' = [callerPc EXCEPT ![c] = "idle"]
      /\ executionOwner' = NoCaller
      /\ UNCHANGED <<activeBackground, visits, failed, workerPc>>
  BY DEF Collect, CallerGoto, task, workers
<1>2. /\ Runner = c /\ Runner # NoCaller
      /\ \A d \in Callers : d # c => callerPc[d] = "idle"
  BY <1>1, OneRunning
<1>3. callerPc \in [Callers -> CallerPcs] /\ workerPc \in [Workers -> WorkerPcs]
  BY DEF IInv, TypeOK, CallerTypes, WorkerTypes
<1>4. \A d \in Callers : callerPc'[d] = "idle"
  BY <1>1, <1>2, <1>3
<1>5. Runner' = NoCaller
  BY <1>1, <1>4 DEF Runner
<1>6. Done' = Done
  BY <1>1, <1>2, <1>4, DoneKept DEF InCallback
<1>7. Done = 0 .. ((activeBackground + 1) - 1)
  <2>1. /\ activeBackground \in Nat /\ activeBackground < MaxWidth
        /\ callerWidth[c] = activeBackground + 1
    <3>1. Open(c)
      BY <1>1 DEF Open
    <3>2. activeBackground = callerWidth[c] - 1 /\ callerWidth[c] \in 2 .. MaxWidth
      BY <1>1, <3>1 DEF IInv, Publication
    <3>3. activeBackground \in Nat /\ activeBackground < MaxWidth
      BY DEF IInv, TypeOK, SharedTypes, Indices
    <3> QED
      BY <3>2, <3>3
  <2>2. \A i \in Indices : visits[i] = IF i <= activeBackground THEN 1 ELSE 0
    BY <1>1, <2>1, OnceAtCollect DEF ExactlyOnce, Indices
  <2>3. ASSUME NEW i \in Indices, i <= activeBackground, i # 0
        PROVE  workerPc[i] \notin InCallback
    <3>1. i \in Workers /\ i \in 1 .. activeBackground
      BY <2>1, <2>3 DEF Indices, Workers
    <3>2. Unfinished = {}
      BY <1>1, CountdownFacts DEF IInv, Countdown
    <3> QED
      BY <3>1, <3>2 DEF Unfinished, Busy, IInv, NestedNeverLocks, InCallback
  <2>4. \A d \in Callers : callerPc[d] \notin InCallback
    BY <1>1, <1>2 DEF InCallback
  <2>5. \A i \in Indices : i \in Done <=> i <= activeBackground
    BY <2>2, <2>3, <2>4 DEF Done
  <2>6. \A i : i \in 0 .. activeBackground <=> i \in Indices /\ i <= activeBackground
    BY <2>1 DEF Indices
  <2>7. (activeBackground + 1) - 1 = activeBackground /\ Done \subseteq Indices
    BY <2>1 DEF Done
  <2> QED
    BY <2>5, <2>6, <2>7
<1>8. rethrown' = Abstract!Lowest(failed)
  BY CollectRethrows DEF Abstract!Lowest
<1> QED
  BY <1>1, <1>2, <1>5, <1>6, <1>7, <1>8 DEF Abstract!Finish

\* Entering a callback does not complete its index.
LEMMA EnterHidden ==
  ASSUME IInv,
         (\E c \in Callers : CallerEnter(c)) \/ (\E w \in Workers : WorkerEnter(w))
  PROVE  UNCHANGED Abstract!vars
<1>1. /\ callerPc \in [Callers -> CallerPcs] /\ workerPc \in [Workers -> WorkerPcs]
      /\ visits \in [Indices -> Nat]
  BY DEF IInv, TypeOK, CallerTypes, WorkerTypes, HistoryTypes
<1>2. ASSUME NEW c \in Callers, CallerEnter(c) PROVE UNCHANGED Abstract!vars
  <2>1. /\ callerPc[c] = "own" /\ callerPc' = [callerPc EXCEPT ![c] = "running"]
        /\ visits' = [visits EXCEPT ![0] = visits[0] + 1]
        /\ UNCHANGED <<executionOwner, activeBackground, failed, rethrown, workerPc>>
    BY <1>2 DEF CallerEnter, CallerGoto, Enter, mutexes, task, workers
  <2>2. callerPc'[c] = "running" /\ \A d \in Callers : d # c => callerPc'[d] = callerPc[d]
    BY <1>1, <2>1
  <2>3. visits[0] = 0 /\ 0 \in Indices
    BY <2>1 DEF IInv, Calls, Open, Indices
  <2>4. \A i \in Indices : i # 0 => visits'[i] = visits[i]
    BY <1>1, <2>1
  <2>5. 0 \notin Done /\ 0 \notin Done'
    BY <2>2, <2>3 DEF Done, InCallback
  <2>6. \A i \in Indices : i \in Done' <=> i \in Done
    BY <2>1, <2>4, <2>5 DEF Done
  <2>7. Done' = Done
    BY <2>6 DEF Done
  <2> QED
    BY <2>1, <2>2, <2>7, StepHidden
<1>3. ASSUME NEW w \in Workers, WorkerEnter(w) PROVE UNCHANGED Abstract!vars
  <2>1. /\ workerPc[w] = "enter" /\ workerPc' = [workerPc EXCEPT ![w] = "running"]
        /\ visits' = [visits EXCEPT ![w] = visits[w] + 1]
        /\ UNCHANGED <<executionOwner, activeBackground, failed, rethrown, callerPc>>
    BY <1>3 DEF WorkerEnter, WorkerGoto, Enter, mutexes, task, callers
  <2>2. /\ workerPc'[w] = "running"
        /\ \A i \in Workers : i # w => workerPc'[i] = workerPc[i]
    BY <1>1, <2>1
  <2>3. w \in Indices /\ w > 0 /\ w # 0
    BY DEF Indices, Workers
  <2>4. visits[w] = 0
    <3>1. PICK c \in Callers : Open(c)
      BY <2>1, QuietBetweenBatches DEF Busy
    <3> QED
      BY <2>1, <2>3, <3>1 DEF IInv, Calls
  <2>5. \A i \in Indices : i # w => visits'[i] = visits[i]
    BY <1>1, <2>1
  <2>6. w \notin Done /\ w \notin Done'
    BY <2>2, <2>3, <2>4 DEF Done, InCallback
  <2>7. \A i \in Indices : i # 0 => i \in Workers
    BY DEF Indices, Workers
  <2>8. \A i \in Indices : i \in Done' <=> i \in Done
    BY <2>1, <2>2, <2>5, <2>6, <2>7 DEF Done
  <2>9. Done' = Done
    BY <2>8 DEF Done
  <2> QED
    BY <2>1, <2>9, StepHidden
<1> QED
  BY <1>2, <1>3

\* A thread that starts is not inside a callback.
LEMMA StartedOutside ==
  ASSUME IInv, NEW c \in Callers, StartWorker(c), NEW w \in Workers
  PROVE  workerPc'[w] \in InCallback <=> workerPc[w] \in InCallback
<1>1. workerPc' = [workerPc EXCEPT ![pool + 1] = "observe"]
  BY DEF StartWorker
<1>2. workerPc \in [Workers -> WorkerPcs] /\ pool \in Indices
  BY DEF IInv, TypeOK, WorkerTypes, SharedTypes
<1>3. w = pool + 1 => workerPc[w] = "absent"
  BY <1>2 DEF IInv, PoolInv, Workers, Indices
<1>4. workerPc'[w] = IF w = pool + 1 THEN "observe" ELSE workerPc[w]
  BY <1>1, <1>2
<1> QED
  BY <1>3, <1>4 DEF InCallback

\* The steps between publication and return that neither begin nor end a callback.
LEMMA ControlHidden ==
  ASSUME IInv,
         \/ \E c \in Callers :
              \/ StartWorker(c) \/ NotifyReady(c) \/ CallerNested(c) \/ Spin(c)
              \/ LockFinished(c) \/ EvaluatePredicate(c) \/ Block(c)
         \/ \E w \in Workers :
              \/ Observe(w) \/ SpinStops(w) \/ WorkerNested(w) \/ Decrement(w)
              \/ NotifyFinished(w)
         \/ Spurious \/ Stop \/ NotifyStop \/ Joined \/ UNCHANGED vars
  PROVE  UNCHANGED Abstract!vars
<1> USE DEF StartWorker, NotifyReady, CallerNested, Spin, LockFinished,
            EvaluatePredicate, Block, Observe, ObserveStop, ObserveNothing,
            ObserveBatch, SpinStops, WorkerNested, NestedCall, Decrement,
            NotifyFinished, NotifyOne, Spurious, Stop, NotifyStop, WakeAll, Joined,
            CallerGoto, WorkerGoto, mutexes, task, callerLocals, callers,
            workerLocals, workers, history, vars
<1>1. /\ callerPc \in [Callers -> CallerPcs] /\ workerPc \in [Workers -> WorkerPcs]
      /\ pool \in Indices
  BY DEF IInv, TypeOK, CallerTypes, WorkerTypes, SharedTypes
<1>2. UNCHANGED <<executionOwner, activeBackground, visits, failed, rethrown>>
  <2>1. UNCHANGED executionOwner
    OBVIOUS
  <2>2. UNCHANGED activeBackground
    OBVIOUS
  <2>3. UNCHANGED history
    OBVIOUS
  <2> QED
    BY <2>1, <2>2, <2>3
<1>3. \A c \in Callers : /\ callerPc'[c] \in InCallback <=> callerPc[c] \in InCallback
                         /\ callerPc'[c] = "grow" <=> callerPc[c] = "grow"
  BY <1>1 DEF InCallback
<1>4. ASSUME NEW w \in Workers
      PROVE  workerPc'[w] \in InCallback <=> workerPc[w] \in InCallback
  <2>1. ASSUME NEW c \in Callers, StartWorker(c)
        PROVE  workerPc'[w] \in InCallback <=> workerPc[w] \in InCallback
    BY <2>1, StartedOutside
  <2>2. CASE ~\E c \in Callers : StartWorker(c)
    BY <1>1, <2>2 DEF InCallback
  <2> QED
    BY <2>1, <2>2
<1> HIDE DEF StartWorker, NotifyReady, CallerNested, Spin, LockFinished,
             EvaluatePredicate, Block, Observe, SpinStops, WorkerNested, Decrement,
             NotifyFinished, Spurious, Stop, NotifyStop, Joined, vars
<1>5. Done' = Done
  BY <1>2, <1>3, <1>4, DoneKept
<1> QED
  BY <1>2, <1>3, <1>5, StepHidden

\* Getting the executor, and losing it to a failed thread start, happen before
\* the batch exists.
LEMMA BeforePublicationHidden ==
  ASSUME IInv, NEW c \in Callers,
         (\E w \in 2 .. MaxWidth : Submit(c, w)) \/ StartWorkerFails(c)
  PROVE  UNCHANGED Abstract!vars
<1> USE DEF Submit, StartWorkerFails, CallerGoto, mutexes, task, workers, history
<1>1. callerPc \in [Callers -> CallerPcs]
  BY DEF IInv, TypeOK, CallerTypes
<1>2. /\ UNCHANGED <<activeBackground, visits, failed, rethrown, workerPc>>
      /\ callerPc[c] \in {"idle", "grow"}
      /\ \/ executionOwner' = c /\ callerPc' = [callerPc EXCEPT ![c] = "grow"]
            /\ executionOwner = NoCaller
         \/ executionOwner' = NoCaller /\ callerPc' = [callerPc EXCEPT ![c] = "idle"]
            /\ callerPc[c] = "grow"
  OBVIOUS
<1>3. Runner = NoCaller
  BY <1>2 DEF Runner
<1>4. Runner' = NoCaller
  BY <1>1, <1>2 DEF Runner
<1>5. Done' = Done
  BY <1>1, <1>2, DoneKept DEF InCallback
<1> QED
  BY <1>2, <1>3, <1>4, <1>5, StepHidden

\* Every step of the executor is a step of ParallelBatch or hidden from it.
LEMMA StepRefines ==
  ASSUME IInv, [Next]_vars
  PROVE  [Abstract!Next]_(Abstract!vars)
<1>1. ASSUME NEW c \in Callers, CallerStep(c)
      PROVE  [Abstract!Next]_(Abstract!vars)
  <2>1. CASE CallerLeave(c)
    <3>1. 0 \in 0 .. (MaxWidth - 1)
      OBVIOUS
    <3> QED
      BY <2>1, <3>1, CallerLeaveExecutes DEF Abstract!Next, Abstract!Progress
  <2>2. CASE Publish(c)
    BY <2>2, PublishStarts DEF Abstract!Next
  <2>3. CASE Collect(c)
    BY <2>3, CollectFinishes DEF Abstract!Next, Abstract!Progress
  <2> QED
    BY <1>1, <2>1, <2>2, <2>3, EnterHidden, ControlHidden DEF CallerStep
<1>2. ASSUME NEW w \in Workers, WorkerStep(w)
      PROVE  [Abstract!Next]_(Abstract!vars)
  <2>1. CASE WorkerLeave(w)
    <3>1. w \in 0 .. (MaxWidth - 1)
      BY DEF Workers
    <3> QED
      BY <2>1, <3>1, WorkerLeaveExecutes DEF Abstract!Next, Abstract!Progress
  <2> QED
    BY <1>2, <2>1, EnterHidden, ControlHidden DEF WorkerStep
<1> QED
  BY <1>1, <1>2, BeforePublicationHidden, ControlHidden DEF Next

\* The safety half of ImplementsParallelBatch: batches run one at a time, every
\* index is called once and in any order, and run() ends after the last of them
\* with the failure of the lowest failing index.
THEOREM ExecutorRefinesBatch ==
  Spec => Abstract!Init /\ [][Abstract!Next]_(Abstract!vars)
<1>1. Init => Abstract!Init
  BY DEF Init, Abstract!Init, Runner, Done
<1>2. IInv /\ [Next]_vars => [Abstract!Next]_(Abstract!vars)
  BY StepRefines
<1> QED
  BY <1>1, <1>2, InductiveInvariant, PTL DEF Spec
=============================================================================
