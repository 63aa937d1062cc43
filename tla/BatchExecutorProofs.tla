------------------------- MODULE BatchExecutorProofs -------------------------
(***************************************************************************)
(* Proofs about BatchExecutor for any number of callers, workers and items: *)
(* IInv is inductive, a background thread only runs the task of the call    *)
(* that is open, and every step is a step of ParallelBatch or none.         *)
(***************************************************************************)
EXTENDS BatchExecutor, FiniteSetTheorems, TLAPS

USE ConstantsAssumption DEF ConstantsAssumption

CallerPcs == {"idle", "grow", "notify", "running", "inline", "wait", "parked", "collect"}
WorkerPcs == {"absent", "observe", "waiting", "running", "inline", "exited"}

\* No thread is ever at "nestedLock", where it would wait for its own batch.
TypeOK ==
  /\ executionOwner \in Callers \cup {NoCaller}
  /\ generation \in Nat /\ completed \in Nat
  /\ active \in 0 .. MaxWorkers - 1 /\ pool \in 0 .. MaxWorkers - 1
  /\ task \in [set : BOOLEAN, workers : 1 .. MaxWorkers, items : 1 .. MaxItems]
  /\ requested \in 2 .. MaxWorkers /\ itemCount \in requested .. MaxItems
  /\ callerPc \in [Callers -> CallerPcs] /\ workerPc \in [Background -> WorkerPcs]
  /\ seen \in [Background -> Nat]
  /\ next \in [Threads -> Nat] /\ inside \in [Threads -> BOOLEAN]

Open(c) == callerPc[c] \in {"notify", "running", "inline", "wait", "parked"}
Busy(w) == workerPc[w] \in {"running", "inline"}
Unfinished == {w \in 1 .. active : Busy(w) \/ seen[w] # generation}

\* execution_mutex_ is held by the caller inside run().
Ownership == \A c \in Callers : callerPc[c] # "idle" <=> executionOwner = c

\* From its publication to its collection the batch is the one of the call.
Published ==
  /\ \A c \in Callers : callerPc[c] \notin {"idle", "grow"} =>
       active = requested - 1 /\ task.workers = requested /\ task.items = itemCount
  /\ task.set <=> \E c \in Callers : Open(c)

\* The pool is a prefix of the workers that the last batch fits into; a worker
\* in the task has seen the batch, which includes it.
PoolInv ==
  /\ active <= pool
  /\ \A w \in Background :
       /\ workerPc[w] = "absent" <=> w > pool
       /\ seen[w] <= generation
       /\ Busy(w) => seen[w] = generation /\ w <= active /\ inside[w]
  /\ \A c \in Callers : callerPc[c] \in {"running", "inline"} => inside[0]

\* completed_background_workers_ counts all but the workers that owe the batch
\* their block, and none does when no call is open.
Countdown ==
  /\ completed + Cardinality(Unfinished) = active
  /\ (\A c \in Callers : ~Open(c)) => Unfinished = {}

\* Which threads of the batch have begun their blocks, and which are in them.
Begun(t) == IF t = 0 THEN \A c \in Callers : callerPc[c] # "notify" ELSE seen[t] = generation
Running(t) == IF t = 0 THEN \E c \in Callers : callerPc[c] \in {"running", "inline"} ELSE Busy(t)

\* The items called are those that the threads have come past in their blocks.
Calls ==
  (\E c \in Callers : callerPc[c] \notin {"idle", "grow"}) =>
    /\ \A t \in 0 .. active : Begun(t) =>
         /\ Begin(t) <= next[t] /\ next[t] <= End(t)
         /\ Running(t) \/ next[t] = End(t)
    /\ called = {i \in Items : \E t \in 0 .. active : Begun(t) /\ Begin(t) <= i /\ i < next[t]}

IInv == TypeOK /\ Ownership /\ Published /\ PoolInv /\ Countdown /\ Calls

-----------------------------------------------------------------------------
(* The blocks of k workers that share n items.                              *)

BlockBegin(t, k, n) == t * (n \div k) + Least(t, n % k)

LEMMA DivMod ==
  ASSUME NEW n \in Nat, NEW k \in Nat \ {0}
  PROVE  /\ n \div k \in Nat /\ n % k \in 0 .. k - 1
         /\ n = k * (n \div k) + (n % k)
         /\ k * (n \div k) \in Nat /\ k * (n \div k) <= n /\ n < k * (n \div k) + k
<1>1. n \div k \in Nat /\ n % k \in 0 .. k - 1 /\ n = k * (n \div k) + (n % k)
  BY Z3
<1>2. k * (n \div k) \in Nat
  BY <1>1, Z3
<1> QED
  BY <1>1, <1>2

LEMMA LeastOf ==
  ASSUME NEW a \in Nat, NEW b \in Nat
  PROVE  /\ Least(a, b) \in Nat /\ Least(a, b) <= a /\ Least(a, b) <= b
         /\ a <= b => Least(a, b) = a
         /\ b <= a => Least(a, b) = b
  BY DEF Least

\* A block ends where the next one begins.
LEMMA NextBlock ==
  ASSUME NEW n \in Nat, NEW k \in Nat \ {0}, NEW t \in Nat
  PROVE  /\ BlockBegin(t, k, n) \in Nat
         /\ BlockBegin(t + 1, k, n)
              = BlockBegin(t, k, n) + n \div k + (IF t < n % k THEN 1 ELSE 0)
<1> DEFINE q == n \div k
           r == n % k
<1>1. q \in Nat /\ r \in Nat
  BY DivMod
<1> HIDE DEF q, r
<1>2. t * q \in Nat /\ (t + 1) * q = t * q + q
  BY <1>1, Z3
<1>3. Least(t, r) \in Nat
  BY <1>1, LeastOf
<1>4. Least(t + 1, r) = Least(t, r) + (IF t < r THEN 1 ELSE 0)
  BY <1>1 DEF Least
<1>5. t * q + Least(t, r) \in Nat
  BY <1>2, <1>3
<1>6. (t + 1) * q + Least(t + 1, r) = t * q + Least(t, r) + q + (IF t < r THEN 1 ELSE 0)
  BY <1>1, <1>2, <1>3, <1>4
<1> QED
  BY <1>5, <1>6 DEF BlockBegin, q, r

LEMMA BlocksAscend ==
  ASSUME NEW n \in Nat, NEW k \in Nat \ {0}, NEW t \in Nat, NEW u \in Nat, t <= u
  PROVE  BlockBegin(t, k, n) <= BlockBegin(u, k, n)
<1> DEFINE q == n \div k
           r == n % k
<1>1. q \in Nat /\ r \in Nat
  BY DivMod
<1> HIDE DEF q, r
<1>2. t * q \in Nat /\ u * q \in Nat /\ t * q <= u * q
  BY <1>1, Z3
<1>3. Least(t, r) \in Nat /\ Least(u, r) \in Nat /\ Least(t, r) <= Least(u, r)
  BY <1>1 DEF Least
<1>4. t * q + Least(t, r) <= u * q + Least(u, r)
  BY <1>2, <1>3
<1> QED
  BY <1>4 DEF BlockBegin, q, r

LEMMA BlocksFill ==
  ASSUME NEW n \in Nat, NEW k \in Nat \ {0}
  PROVE  BlockBegin(0, k, n) = 0 /\ BlockBegin(k, k, n) = n
<1> DEFINE q == n \div k
           r == n % k
<1>1. q \in Nat /\ r \in Nat /\ r < k /\ n = k * q + r
  BY DivMod
<1> HIDE DEF q, r
<1>2. Least(0, r) = 0 /\ Least(k, r) = r
  BY <1>1, LeastOf
<1>3. 0 * q = 0
  BY <1>1
<1> QED
  BY <1>1, <1>2, <1>3 DEF BlockBegin, q, r

\* The block of an item, by division: the first r blocks have q + 1 items.
LEMMA BlocksCover ==
  ASSUME NEW n \in Nat, NEW k \in Nat \ {0}, NEW i \in 0 .. n - 1
  PROVE  \E t \in 0 .. k - 1 : BlockBegin(t, k, n) <= i /\ i < BlockBegin(t + 1, k, n)
<1> DEFINE q == n \div k
           r == n % k
<1>1. q \in Nat /\ r \in Nat /\ r < k /\ n = k * q + r
  BY DivMod
<1>2. \A t \in Nat : BlockBegin(t, k, n) = t * q + Least(t, r)
  BY DEF BlockBegin
<1> HIDE DEF q, r
<1>3. \A t \in Nat : t <= r => BlockBegin(t, k, n) = t * q + t
  BY <1>1, <1>2, LeastOf
<1>4. \A t \in Nat : r <= t => BlockBegin(t, k, n) = t * q + r
  BY <1>1, <1>2, LeastOf
<1>5. r * q \in Nat
  BY <1>1, Z3
<1>6. CASE i < r * q + r
  <2> DEFINE t == i \div (q + 1)
  <2>1. t \in Nat /\ (q + 1) * t <= i /\ i < (q + 1) * t + (q + 1)
    <3>1. q + 1 \in Nat \ {0} /\ i \in Nat
      BY <1>1
    <3> QED
      BY <3>1, DivMod
  <2> HIDE DEF t
  <2>2. (q + 1) * t = t * q + t /\ t * q \in Nat
    BY <1>1, <2>1, Z3
  <2>3. t < r
    <3>1. SUFFICES ASSUME r <= t PROVE FALSE
      BY <1>1, <2>1
    <3>2. r * q <= t * q
      BY <1>1, <2>1, <3>1, Z3
    <3> QED
      BY <1>1, <1>5, <1>6, <2>1, <2>2, <3>1, <3>2
  <2>4. (t + 1) * q = t * q + q
    BY <1>1, <2>1, Z3
  <2>5. BlockBegin(t, k, n) = t * q + t /\ BlockBegin(t + 1, k, n) = t * q + q + (t + 1)
    BY <1>1, <1>3, <2>1, <2>3, <2>4
  <2> QED
    BY <1>1, <2>1, <2>2, <2>3, <2>5
<1>7. CASE i >= r * q + r
  <2>1. q # 0
    <3>1. SUFFICES ASSUME q = 0 PROVE FALSE
      OBVIOUS
    <3>2. k * q = 0
      BY <3>1
    <3> QED
      BY <1>1, <1>5, <1>7, <3>2
  <2> DEFINE t == (i - r) \div q
  <2>2. i - r \in Nat /\ q \in Nat \ {0}
    BY <1>1, <1>5, <1>7, <2>1
  <2>3. t \in Nat /\ q * t <= i - r /\ i - r < q * t + q
    BY <2>2, DivMod
  <2> HIDE DEF t
  <2>4. t * q = q * t /\ t * q \in Nat /\ (t + 1) * q = t * q + q
    BY <1>1, <2>3, Z3
  <2>5. r <= t
    <3>1. SUFFICES ASSUME t + 1 <= r PROVE FALSE
      BY <1>1, <2>3
    <3>2. (t + 1) * q <= r * q
      BY <1>1, <2>3, <3>1, Z3
    <3> QED
      BY <1>1, <1>5, <1>7, <2>3, <2>4, <3>2
  <2>6. t < k
    <3>1. SUFFICES ASSUME k <= t PROVE FALSE
      BY <2>3
    <3>2. k * q <= t * q /\ k * q \in Nat
      BY <1>1, <2>3, <3>1, Z3
    <3> QED
      BY <1>1, <2>3, <2>4, <3>2
  <2>7. BlockBegin(t, k, n) = t * q + r /\ BlockBegin(t + 1, k, n) = t * q + q + r
    BY <1>1, <1>4, <2>3, <2>4, <2>5
  <2> QED
    BY <1>1, <2>2, <2>3, <2>4, <2>6, <2>7
<1> QED
  BY <1>1, <1>5, <1>6, <1>7

\* The blocks of the task: inside its items, apart from each other, covering.
LEMMA BlocksOfTask ==
  ASSUME TypeOK
  PROVE  \A t \in Nat : /\ Begin(t) = BlockBegin(t, task.workers, task.items)
                        /\ End(t) = BlockBegin(t + 1, task.workers, task.items)
                        /\ Begin(t) \in Nat /\ End(t) \in Nat /\ Begin(t) <= End(t)
<1>1. task.workers \in Nat \ {0} /\ task.items \in Nat
  BY DEF TypeOK
<1>2. SUFFICES ASSUME NEW t \in Nat
               PROVE  /\ Begin(t) = BlockBegin(t, task.workers, task.items)
                      /\ End(t) = BlockBegin(t + 1, task.workers, task.items)
                      /\ Begin(t) \in Nat /\ End(t) \in Nat /\ Begin(t) <= End(t)
  OBVIOUS
<1>3. Begin(t) = BlockBegin(t, task.workers, task.items)
  BY DEF Begin, BlockBegin
<1>4. End(t) = BlockBegin(t + 1, task.workers, task.items)
  <2>1. BlockBegin(t + 1, task.workers, task.items)
          = BlockBegin(t, task.workers, task.items) + task.items \div task.workers
              + (IF t < task.items % task.workers THEN 1 ELSE 0)
    BY <1>1, NextBlock
  <2> QED
    BY <1>3, <2>1 DEF End
<1>5. t + 1 \in Nat /\ t <= t + 1
  OBVIOUS
<1>6. BlockBegin(t, task.workers, task.items) <= BlockBegin(t + 1, task.workers, task.items)
  BY <1>1, <1>5, BlocksAscend
<1>7. BlockBegin(t, task.workers, task.items) \in Nat
  BY <1>1, NextBlock
<1>8. BlockBegin(t + 1, task.workers, task.items) \in Nat
  BY <1>1, <1>5, NextBlock
<1> QED
  BY <1>3, <1>4, <1>6, <1>7, <1>8

LEMMA Shares ==
  ASSUME IInv, NEW c \in Callers, callerPc[c] \notin {"idle", "grow"}
  PROVE  /\ \A t \in 0 .. active : End(t) <= task.items
         /\ \A t, u \in 0 .. active : t < u => End(t) <= Begin(u)
         /\ \A i \in 0 .. task.items - 1 : \E t \in 0 .. active : Begin(t) <= i /\ i < End(t)
<1>1. /\ task.workers \in Nat \ {0} /\ task.items \in Nat /\ active \in Nat
      /\ task.workers = active + 1
  BY DEF IInv, TypeOK, Published
<1>2. \A t \in 0 .. active : t \in Nat /\ t + 1 \in Nat /\ t + 1 <= task.workers
  BY <1>1
<1>3. \A t \in Nat : /\ Begin(t) = BlockBegin(t, task.workers, task.items)
                     /\ End(t) = BlockBegin(t + 1, task.workers, task.items)
  BY BlocksOfTask DEF IInv
<1>4. ASSUME NEW t \in 0 .. active PROVE End(t) <= task.items
  <2>1. BlockBegin(t + 1, task.workers, task.items)
          <= BlockBegin(task.workers, task.workers, task.items)
    BY <1>1, <1>2, BlocksAscend
  <2> QED
    BY <1>1, <1>2, <1>3, <2>1, BlocksFill
<1>5. ASSUME NEW t \in 0 .. active, NEW u \in 0 .. active, t < u PROVE End(t) <= Begin(u)
  <2>1. t + 1 <= u /\ t + 1 \in Nat /\ u \in Nat /\ t \in Nat
    BY <1>1, <1>5
  <2>2. BlockBegin(t + 1, task.workers, task.items) <= BlockBegin(u, task.workers, task.items)
    BY <1>1, <2>1, BlocksAscend
  <2> QED
    BY <1>3, <2>1, <2>2
<1>6. ASSUME NEW i \in 0 .. task.items - 1
      PROVE  \E t \in 0 .. active : Begin(t) <= i /\ i < End(t)
  <2>1. PICK t \in 0 .. task.workers - 1 :
            /\ BlockBegin(t, task.workers, task.items) <= i
            /\ i < BlockBegin(t + 1, task.workers, task.items)
    BY <1>1, BlocksCover
  <2>2. t \in 0 .. active
    BY <1>1
  <2> QED
    BY <1>2, <1>3, <2>1, <2>2
<1> QED
  BY <1>4, <1>5, <1>6

-----------------------------------------------------------------------------
(* The initial state, and what holds between batches.                       *)

LEMMA InitIInv == Init => IInv
<1> SUFFICES ASSUME Init PROVE IInv
  OBVIOUS
<1>1. TypeOK
  BY DEF Init, TypeOK, CallerPcs, WorkerPcs, Threads, Background
<1>2. Unfinished = {}
  BY DEF Init, Unfinished
<1>3. Ownership /\ Published
  BY DEF Init, Ownership, Published, Open
<1>4. PoolInv /\ Calls
  BY DEF Init, PoolInv, Calls, Busy, Background, Threads
<1>5. Countdown
  BY <1>2, FS_EmptySet DEF Init, Countdown
<1> QED
  BY <1>1, <1>3, <1>4, <1>5 DEF IInv

LEMMA UnfinishedFinite ==
  ASSUME IInv
  PROVE  /\ 1 .. active \subseteq Background /\ active \in Nat
         /\ IsFiniteSet(Unfinished)
         /\ completed = active <=> Unfinished = {}
<1>1. 1 .. active \subseteq Background /\ active \in Nat
  BY DEF IInv, TypeOK, Background, Threads
<1>2. IsFiniteSet(Unfinished)
  <2>1. IsFiniteSet(1 .. active)
    BY <1>1, FS_Interval
  <2>2. Unfinished \subseteq 1 .. active
    BY DEF Unfinished
  <2> QED
    BY <2>1, <2>2, FS_Subset
<1>3. Cardinality(Unfinished) \in Nat /\ (Cardinality(Unfinished) = 0 <=> Unfinished = {})
  BY <1>2, FS_EmptySet, FS_CardinalityType
<1> QED
  BY <1>1, <1>2, <1>3 DEF IInv, Countdown, TypeOK

\* Between batches no worker is in a task, and all have seen the last one.
LEMMA QuietBetweenBatches ==
  ASSUME IInv, \A c \in Callers : ~Open(c)
  PROVE  \A w \in Background : ~Busy(w) /\ (w <= active => seen[w] = generation)
<1>1. Unfinished = {}
  BY DEF IInv, Countdown
<1>2. \A w \in Background : w <= active => w \in 1 .. active
  BY DEF IInv, TypeOK, Background, Threads
<1> QED
  BY <1>1, <1>2 DEF IInv, PoolInv, Unfinished

-----------------------------------------------------------------------------
(* Each action keeps the invariant.                                         *)

LEMMA TypeStep ==
  ASSUME IInv, [Next]_vars
  PROVE  TypeOK'
<1> USE DEF IInv, TypeOK, CallerPcs, WorkerPcs, monitor, process, call, locals, history, CallerGoto
<1>1. ASSUME NEW c \in Callers, NEW k \in 2 .. MaxWorkers, NEW n \in k .. MaxItems, Submit(c, k, n)
      PROVE  TypeOK'
  BY <1>1 DEF Submit
<1>2. ASSUME NEW c \in Callers, StartWorker(c) PROVE TypeOK'
  <2>1. pool + 1 \in 0 .. MaxWorkers - 1 /\ pool + 1 \in Background
    BY <1>2 DEF StartWorker, Background, Threads
  <2> QED
    BY <1>2, <2>1 DEF StartWorker
<1>3. ASSUME NEW c \in Callers, Publish(c) PROVE TypeOK'
  BY <1>3 DEF Publish, StartOver
<1>4. ASSUME NEW c \in Callers, NotifyReady(c) PROVE TypeOK'
  <2>1. 0 \in Threads /\ Begin(0) \in Nat
    BY BlocksOfTask DEF Threads
  <2> QED
    BY <1>4, <2>1 DEF NotifyReady, WakeAll, Started
<1>5. ASSUME NEW c \in Callers, CallerCalls(c) PROVE TypeOK'
  <2>1. 0 \in Threads
    BY DEF Threads
  <2> QED
    BY <1>5, <2>1 DEF CallerCalls, CallItem
<1>6. ASSUME NEW c \in Callers, CallerReturns(c) PROVE TypeOK'
  BY <1>6 DEF CallerReturns
<1>7. ASSUME NEW c \in Callers, Wait(c) PROVE TypeOK'
  <2>1. (task.set /\ ~AllCompleted) \in BOOLEAN
    OBVIOUS
  <2> QED
    BY <1>7, <2>1 DEF Wait
<1>8. ASSUME NEW c \in Callers, Collect(c) \/ StartWorkerFails(c) PROVE TypeOK'
  BY <1>8 DEF Collect, StartWorkerFails
<1>9. ASSUME NEW c \in Callers, CallerNested(c) PROVE TypeOK'
  <2>1. NestedCall(0) = "inline"
    BY <1>9 DEF CallerNested, NestedCall, PoolInv
  <2> QED
    BY <1>9, <2>1 DEF CallerNested
<1>10. ASSUME NEW w \in Background, Observe(w) PROVE TypeOK'
  <2>1. w \in Threads /\ w \in Nat
    BY DEF Background, Threads
  <2>2. Begin(w) \in Nat
    BY <2>1, BlocksOfTask
  <2>3. /\ UNCHANGED <<executionOwner, monitor, process, callerPc, call>>
        /\ workerPc' \in [Background -> WorkerPcs]
        /\ seen' = seen \/ seen' = [seen EXCEPT ![w] = generation]
        /\ UNCHANGED locals \/ Started(w)
    BY <1>10 DEF Observe
  <2>4. seen' \in [Background -> Nat]
    BY <2>3
  <2>5. CASE Started(w)
    <3>1. next' \in [Threads -> Nat] /\ inside' \in [Threads -> BOOLEAN]
      BY <2>1, <2>2, <2>5 DEF Started
    <3> QED
      BY <2>3, <2>4, <3>1
  <2>6. CASE next' = next /\ inside' = inside
    BY <2>3, <2>4, <2>6
  <2> QED
    BY <2>3, <2>5, <2>6
<1>11. ASSUME NEW w \in Background, WorkerCalls(w) PROVE TypeOK'
  <2>1. w \in Threads
    BY DEF Background
  <2> QED
    BY <1>11, <2>1 DEF WorkerCalls, CallItem
<1>12. ASSUME NEW w \in Background, WorkerNested(w) PROVE TypeOK'
  <2>1. NestedCall(w) = "inline"
    BY <1>12 DEF WorkerNested, NestedCall, PoolInv, Busy
  <2> QED
    BY <1>12, <2>1 DEF WorkerNested
<1>13. ASSUME NEW w \in Background, Complete(w) PROVE TypeOK'
  <2>1. workerPc' \in [Background -> WorkerPcs] /\ callerPc' \in [Callers -> CallerPcs]
    BY <1>13 DEF Complete
  <2>2. inside' \in [Threads -> BOOLEAN] /\ completed' \in Nat
    <3>1. inside' = [inside EXCEPT ![w] = FALSE] /\ completed' = completed + 1
      BY <1>13 DEF Complete
    <3>2. inside \in [Threads -> BOOLEAN] /\ completed \in Nat
      OBVIOUS
    <3>3. completed' \in Nat
      BY <3>1, <3>2
    <3>4. inside' \in [Threads -> BOOLEAN]
      BY <3>1, <3>2
    <3> QED
      BY <3>3, <3>4
  <2>3. UNCHANGED <<executionOwner, task, generation, active, process, call, seen, next>>
    BY <1>13 DEF Complete
  <2> QED
    BY <2>1, <2>2, <2>3
<1>14. CASE Spurious
  BY <1>14 DEF Spurious
<1>15. CASE Stop \/ NotifyStop
  BY <1>15 DEF Stop, NotifyStop, WakeAll
<1>16. CASE Joined \/ UNCHANGED vars
  BY <1>16 DEF Joined, vars
<1> QED
  BY <1>1, <1>2, <1>3, <1>4, <1>5, <1>6, <1>7, <1>8, <1>9, <1>10, <1>11, <1>12, <1>13, <1>14,
     <1>15, <1>16 DEF Next, CallerStep, WorkerStep

\* At most one caller is inside run().
LEMMA OneInside ==
  ASSUME IInv
  PROVE  /\ \A c, d \in Callers : callerPc[c] # "idle" /\ callerPc[d] # "idle" => c = d
         /\ executionOwner = NoCaller => \A c \in Callers : callerPc[c] = "idle"
  BY DEF IInv, Ownership

LEMMA OwnershipStep ==
  ASSUME IInv, [Next]_vars
  PROVE  Ownership'
<1> USE DEF Ownership, CallerGoto
<1>1. Ownership /\ callerPc \in [Callers -> CallerPcs] /\ NoCaller \notin Callers
  BY DEF IInv, TypeOK
<1>2. ASSUME NEW c \in Callers, NEW k \in 2 .. MaxWorkers, NEW n \in k .. MaxItems, Submit(c, k, n)
      PROVE  Ownership'
  BY <1>1, <1>2 DEF Submit
<1>3. ASSUME NEW c \in Callers, StartWorkerFails(c) \/ Collect(c)
      PROVE  Ownership'
  BY <1>1, <1>3 DEF StartWorkerFails, Collect
<1>4. ASSUME NEW c \in Callers, StartWorker(c) PROVE Ownership'
  BY <1>1, <1>4 DEF StartWorker
<1>5. ASSUME NEW c \in Callers, CallerCalls(c) PROVE Ownership'
  BY <1>1, <1>5 DEF CallerCalls, CallItem
<1>6. ASSUME NEW c \in Callers, Publish(c) \/ NotifyReady(c) \/ CallerReturns(c)
      PROVE  Ownership'
  BY <1>1, <1>6 DEF Publish, NotifyReady, CallerReturns
<1>7. ASSUME NEW c \in Callers, Wait(c) PROVE Ownership'
  BY <1>1, <1>7 DEF Wait
<1>8. ASSUME NEW c \in Callers, CallerNested(c) PROVE Ownership'
  BY <1>1, <1>8 DEF CallerNested, NestedCall
<1>9. ASSUME NEW w \in Background, Complete(w) PROVE Ownership'
  BY <1>1, <1>9 DEF Complete
<1>10. ASSUME NEW w \in Background, Observe(w) \/ WorkerCalls(w) \/ WorkerNested(w)
       PROVE  Ownership'
  BY <1>1, <1>10 DEF Observe, WorkerCalls, CallItem, WorkerNested
<1>11. CASE Spurious
  BY <1>1, <1>11 DEF Spurious
<1>12. CASE Stop \/ NotifyStop \/ Joined \/ UNCHANGED vars
  BY <1>1, <1>12 DEF Stop, NotifyStop, Joined, vars
<1> QED
  BY <1>2, <1>3, <1>4, <1>5, <1>6, <1>7, <1>8, <1>9, <1>10, <1>11, <1>12
  DEF Next, CallerStep, WorkerStep

LEMMA PublishedStep ==
  ASSUME IInv, [Next]_vars
  PROVE  Published'
<1> USE DEF Published, Open, CallerGoto, monitor, call, vars
<1>1. /\ Published /\ callerPc \in [Callers -> CallerPcs]
      /\ task = [set |-> task.set, workers |-> task.workers, items |-> task.items]
  BY DEF IInv, TypeOK
<1>2. \A c, d \in Callers : callerPc[c] # "idle" /\ callerPc[d] # "idle" => c = d
  BY OneInside
<1>3. ASSUME NEW c \in Callers, NEW k \in 2 .. MaxWorkers, NEW n \in k .. MaxItems, Submit(c, k, n)
      PROVE  Published'
  <2>1. \A d \in Callers : callerPc[d] = "idle"
    BY <1>3, OneInside DEF Submit
  <2> QED
    BY <1>1, <1>3, <2>1 DEF Submit
<1>4. ASSUME NEW c \in Callers, StartWorkerFails(c) \/ Collect(c)
      PROVE  Published'
  BY <1>1, <1>2, <1>4 DEF StartWorkerFails, Collect
<1>5. ASSUME NEW c \in Callers, StartWorker(c) PROVE Published'
  BY <1>1, <1>5 DEF StartWorker
<1>6. ASSUME NEW c \in Callers, Publish(c) PROVE Published'
  <2>1. /\ active' = requested' - 1 /\ task'.workers = requested' /\ task'.items = itemCount'
        /\ task'.set /\ callerPc'[c] = "notify"
    BY <1>1, <1>6 DEF Publish
  <2> QED
    BY <2>1
<1>7. ASSUME NEW c \in Callers, CallerCalls(c) PROVE Published'
  BY <1>1, <1>7 DEF CallerCalls, CallItem
<1>8. ASSUME NEW c \in Callers, NotifyReady(c) \/ CallerReturns(c) PROVE Published'
  BY <1>1, <1>8 DEF NotifyReady, CallerReturns
<1>9. ASSUME NEW c \in Callers, Wait(c) PROVE Published'
  <2>1. /\ task'.workers = task.workers /\ task'.items = task.items
        /\ task'.set = (task.set /\ ~AllCompleted)
        /\ UNCHANGED <<active, call>>
    BY <1>1, <1>9 DEF Wait
  <2>2. CASE AllCompleted
    <3>1. callerPc' = [callerPc EXCEPT ![c] = "collect"] /\ callerPc[c] = "wait"
      BY <1>9, <2>2 DEF Wait
    <3>2. \A d \in Callers : callerPc'[d] \notin {"notify", "running", "inline", "wait", "parked"}
      BY <1>1, <1>2, <3>1
    <3>3. ~task'.set
      BY <2>1, <2>2
    <3> QED
      BY <1>1, <2>1, <3>1, <3>2, <3>3
  <2>3. CASE ~AllCompleted
    <3>1. callerPc' = [callerPc EXCEPT ![c] = "parked"] /\ callerPc[c] = "wait"
      BY <1>9, <2>3 DEF Wait
    <3>2. task'.set = task.set
      BY <1>1, <2>1, <2>3, <3>1
    <3> QED
      BY <1>1, <2>1, <3>1, <3>2
  <2> QED
    BY <2>2, <2>3
<1>10. ASSUME NEW c \in Callers, CallerNested(c) PROVE Published'
  <2>1. NestedCall(0) = "inline"
    BY <1>10 DEF CallerNested, NestedCall, IInv, PoolInv
  <2> QED
    BY <1>1, <1>10, <2>1 DEF CallerNested
<1>11. ASSUME NEW w \in Background, Complete(w) PROVE Published'
  <2>1. UNCHANGED <<task, active, call>>
    BY <1>11 DEF Complete
  <2>2. \A c \in Callers : callerPc'[c] = (IF callerPc[c] = "parked" /\ completed + 1 = active
                                           THEN "wait" ELSE callerPc[c])
    BY <1>11 DEF Complete
  <2> QED
    BY <1>1, <2>1, <2>2
<1>12. ASSUME NEW w \in Background, Observe(w) \/ WorkerCalls(w) \/ WorkerNested(w)
       PROVE  Published'
  BY <1>1, <1>12 DEF Observe, WorkerCalls, CallItem, WorkerNested
<1>13. CASE Spurious
  BY <1>1, <1>13 DEF Spurious
<1>14. CASE Stop \/ NotifyStop \/ Joined \/ UNCHANGED vars
  BY <1>1, <1>14 DEF Stop, NotifyStop, Joined
<1> QED
  BY <1>3, <1>4, <1>5, <1>6, <1>7, <1>8, <1>9, <1>10, <1>11, <1>12, <1>13, <1>14
  DEF Next, CallerStep, WorkerStep

\* What a step that leaves the workers' loops alone has to keep of PoolInv.
LEMMA PoolKept ==
  ASSUME IInv, UNCHANGED <<active, pool, generation, workerPc, seen>>,
         \A w \in Background : inside'[w] = inside[w],
         \A c \in Callers : callerPc'[c] \in {"running", "inline"} => inside'[0]
  PROVE  PoolInv'
  BY DEF IInv, PoolInv, Busy

LEMMA PoolStep ==
  ASSUME IInv, [Next]_vars
  PROVE  PoolInv'
<1> USE DEF CallerGoto, monitor, process, call, locals, history, vars
<1>1. /\ PoolInv /\ callerPc \in [Callers -> CallerPcs] /\ workerPc \in [Background -> WorkerPcs]
      /\ seen \in [Background -> Nat] /\ inside \in [Threads -> BOOLEAN]
      /\ generation \in Nat /\ active \in Nat /\ pool \in Nat
  BY DEF IInv, TypeOK
<1>2. \A c, d \in Callers : callerPc[c] # "idle" /\ callerPc[d] # "idle" => c = d
  BY OneInside
<1>3. Background \subseteq Threads /\ 0 \in Threads /\ 0 \notin Background
      /\ Background \subseteq Nat /\ Threads \subseteq Nat
  BY DEF Background, Threads
<1>4. ASSUME NEW c \in Callers, NEW k \in 2 .. MaxWorkers, NEW n \in k .. MaxItems, Submit(c, k, n)
      PROVE  PoolInv'
  <2>1. \A d \in Callers : callerPc'[d] \in {"running", "inline"} => inside[0]
    BY <1>1, <1>4 DEF Submit, PoolInv
  <2> QED
    BY <1>4, <2>1, PoolKept DEF Submit
<1>5. ASSUME NEW c \in Callers, StartWorkerFails(c) \/ Collect(c) \/ Wait(c) PROVE PoolInv'
  <2>1. /\ UNCHANGED <<active, pool, generation, workerPc, seen, inside>>
        /\ \E s \in CallerPcs : s \notin {"running", "inline"} /\ callerPc' = [callerPc EXCEPT ![c] = s]
    BY <1>5 DEF StartWorkerFails, Collect, Wait, CallerPcs
  <2>2. \A d \in Callers : callerPc'[d] \in {"running", "inline"} => inside[0]
    BY <1>1, <2>1 DEF PoolInv
  <2> QED
    BY <2>1, <2>2, PoolKept
<1>6. ASSUME NEW c \in Callers, StartWorker(c) PROVE PoolInv'
  <2>1. pool + 1 \in Background /\ pool' = pool + 1
    BY <1>6 DEF StartWorker, IInv, TypeOK, Background, Threads
  <2>2. /\ UNCHANGED <<active, generation, callerPc, inside>>
        /\ workerPc' = [workerPc EXCEPT ![pool + 1] = "observe"]
        /\ seen' = [seen EXCEPT ![pool + 1] = generation]
    BY <1>6 DEF StartWorker
  <2>3. ASSUME NEW w \in Background
        PROVE  /\ workerPc'[w] = "absent" <=> w > pool'
               /\ seen'[w] <= generation
               /\ Busy(w)' => seen'[w] = generation /\ w <= active /\ inside[w]
    <3>1. CASE w = pool + 1
      BY <1>1, <2>1, <2>2, <3>1 DEF Busy
    <3>2. CASE w # pool + 1
      <4>1. workerPc'[w] = workerPc[w] /\ seen'[w] = seen[w]
        BY <1>1, <2>2, <3>2
      <4>2. w > pool + 1 <=> w > pool
        BY <1>1, <1>3, <3>2
      <4> QED
        BY <1>1, <2>1, <4>1, <4>2 DEF PoolInv, Busy
    <3> QED
      BY <3>1, <3>2
  <2>4. active <= pool'
    BY <1>1, <2>1 DEF PoolInv
  <2>5. \A d \in Callers : callerPc[d] \in {"running", "inline"} => inside[0]
    BY <1>1 DEF PoolInv
  <2> QED
    BY <2>2, <2>3, <2>4, <2>5 DEF PoolInv
<1>7. ASSUME NEW c \in Callers, Publish(c) PROVE PoolInv'
  <2>1. /\ UNCHANGED <<pool, workerPc, seen, inside>> /\ generation' = generation + 1
        /\ active' = requested - 1 /\ active' <= pool
        /\ callerPc[c] = "grow" /\ callerPc' = [callerPc EXCEPT ![c] = "notify"]
    BY <1>7 DEF Publish, IInv, TypeOK
  <2>2. \A d \in Callers : ~Open(d) /\ callerPc'[d] \notin {"running", "inline"}
    BY <1>1, <1>2, <2>1 DEF Open
  <2>3. \A w \in Background : ~Busy(w)
    BY <2>2, QuietBetweenBatches
  <2>4. \A w \in Background : seen[w] <= generation + 1
    BY <1>1 DEF PoolInv
  <2> QED
    BY <1>1, <2>1, <2>2, <2>3, <2>4 DEF PoolInv, Busy
<1>8. ASSUME NEW c \in Callers, NotifyReady(c) PROVE PoolInv'
  <2>1. /\ UNCHANGED <<active, pool, generation, seen>>
        /\ inside' = [inside EXCEPT ![0] = TRUE]
        /\ \A w \in Background : workerPc'[w] = IF workerPc[w] = "waiting" THEN "observe"
                                                ELSE workerPc[w]
    BY <1>8 DEF NotifyReady, WakeAll, Woken, Started
  <2>2. inside'[0] /\ \A w \in Background : inside'[w] = inside[w]
    BY <1>1, <1>3, <2>1
  <2> QED
    BY <1>1, <2>1, <2>2 DEF PoolInv, Busy
<1>9. ASSUME NEW c \in Callers, CallerCalls(c) PROVE PoolInv'
  <2>1. /\ UNCHANGED <<active, pool, generation, workerPc, seen, inside>>
        /\ callerPc[c] \in {"running", "inline"} /\ callerPc' = [callerPc EXCEPT ![c] = "running"]
    BY <1>9 DEF CallerCalls, CallItem
  <2>2. \A d \in Callers : callerPc'[d] \in {"running", "inline"} => inside[0]
    BY <1>1, <2>1 DEF PoolInv
  <2> QED
    BY <2>1, <2>2, PoolKept
<1>10. ASSUME NEW c \in Callers, CallerNested(c) PROVE PoolInv'
  <2>1. /\ UNCHANGED <<active, pool, generation, workerPc, seen, inside>>
        /\ callerPc[c] = "running" /\ callerPc' = [callerPc EXCEPT ![c] = NestedCall(0)]
    BY <1>10 DEF CallerNested
  <2>2. \A d \in Callers : callerPc'[d] \in {"running", "inline"} => inside[0]
    BY <1>1, <2>1 DEF PoolInv
  <2> QED
    BY <2>1, <2>2, PoolKept
<1>11. ASSUME NEW c \in Callers, CallerReturns(c) PROVE PoolInv'
  <2>1. /\ UNCHANGED <<active, pool, generation, workerPc, seen>>
        /\ inside' = [inside EXCEPT ![0] = FALSE]
        /\ callerPc[c] = "running" /\ callerPc' = [callerPc EXCEPT ![c] = "wait"]
    BY <1>11 DEF CallerReturns
  <2>2. \A w \in Background : inside'[w] = inside[w]
    BY <1>1, <1>3, <2>1
  <2>3. \A d \in Callers : callerPc'[d] \notin {"running", "inline"}
    BY <1>1, <1>2, <2>1
  <2> QED
    BY <2>1, <2>2, <2>3, PoolKept
<1>12. ASSUME NEW w \in Background, Observe(w) PROVE PoolInv'
  <2>1. /\ UNCHANGED <<active, pool, generation, callerPc>>
        /\ workerPc[w] = "observe"
        /\ \A v \in Background : v # w => workerPc'[v] = workerPc[v] /\ seen'[v] = seen[v]
                                          /\ inside'[v] = inside[v]
        /\ inside'[0] = inside[0]
    BY <1>1, <1>3, <1>12 DEF Observe, Started
  <2>2. /\ workerPc'[w] # "absent" /\ w <= pool
        /\ seen'[w] <= generation
        /\ Busy(w)' => seen'[w] = generation /\ w <= active /\ inside'[w]
    BY <1>1, <1>3, <1>12 DEF Observe, Started, PoolInv, Busy
  <2> QED
    BY <1>1, <1>3, <2>1, <2>2 DEF PoolInv, Busy
<1>13. ASSUME NEW w \in Background, WorkerCalls(w) PROVE PoolInv'
  BY <1>1, <1>13 DEF WorkerCalls, CallItem, PoolInv, Busy
<1>14. ASSUME NEW w \in Background, WorkerNested(w) PROVE PoolInv'
  <2>1. NestedCall(w) = "inline"
    BY <1>1, <1>14 DEF WorkerNested, NestedCall, PoolInv, Busy
  <2> QED
    BY <1>1, <1>14, <2>1 DEF WorkerNested, PoolInv, Busy
<1>15. ASSUME NEW w \in Background, Complete(w) PROVE PoolInv'
  <2>1. /\ UNCHANGED <<active, pool, generation, seen>>
        /\ workerPc[w] = "running" /\ workerPc'[w] \in {"waiting", "observe"}
        /\ \A v \in Background : v # w => workerPc'[v] = workerPc[v] /\ inside'[v] = inside[v]
        /\ inside'[0] = inside[0]
        /\ \A c \in Callers : callerPc'[c] \in {"running", "inline"} => callerPc'[c] = callerPc[c]
    BY <1>1, <1>3, <1>15 DEF Complete
  <2> QED
    BY <1>1, <2>1 DEF PoolInv, Busy
<1>16. CASE Spurious
  BY <1>1, <1>16 DEF Spurious, PoolInv, Busy
<1>17. CASE NotifyStop
  BY <1>1, <1>17 DEF NotifyStop, WakeAll, Woken, PoolInv, Busy
<1>18. CASE Stop \/ Joined \/ UNCHANGED vars
  BY <1>1, <1>18 DEF Stop, Joined, PoolInv, Busy
<1> QED
  BY <1>4, <1>5, <1>6, <1>7, <1>8, <1>9, <1>10, <1>11, <1>12, <1>13, <1>14, <1>15, <1>16, <1>17,
     <1>18 DEF Next, CallerStep, WorkerStep

\* What a step that neither counts nor opens or ends a batch keeps.
LEMMA CountdownKept ==
  ASSUME IInv, UNCHANGED <<completed, active>>, Unfinished' = Unfinished,
         (\A c \in Callers : ~Open(c)') => (\A c \in Callers : ~Open(c)) \/ Unfinished = {}
  PROVE  Countdown'
  BY DEF IInv, Countdown

LEMMA SameUnfinished ==
  ASSUME UNCHANGED <<active, generation>>,
         \A w \in 1 .. active : (Busy(w) \/ seen[w] # generation)'
                                  <=> (Busy(w) \/ seen[w] # generation)
  PROVE  Unfinished' = Unfinished
  BY DEF Unfinished

LEMMA CountdownStep ==
  ASSUME IInv, [Next]_vars
  PROVE  Countdown'
<1> USE DEF CallerGoto, monitor, process, call, locals, history, vars
<1>1. /\ callerPc \in [Callers -> CallerPcs] /\ workerPc \in [Background -> WorkerPcs]
      /\ seen \in [Background -> Nat]
      /\ generation \in Nat /\ active \in Nat /\ pool \in Nat /\ completed \in Nat
      /\ 1 .. active \subseteq Background
      /\ IsFiniteSet(Unfinished) /\ (completed = active <=> Unfinished = {})
  BY UnfinishedFinite DEF IInv, TypeOK
<1>2. \A c, d \in Callers : callerPc[c] # "idle" /\ callerPc[d] # "idle" => c = d
  BY OneInside
<1>3. Background \subseteq Nat
  BY DEF Background, Threads
<1>4. ASSUME NEW c \in Callers, NEW k \in 2 .. MaxWorkers, NEW n \in k .. MaxItems, Submit(c, k, n)
      PROVE  Countdown'
  <2>1. Unfinished' = Unfinished
    BY <1>4, SameUnfinished DEF Submit, Busy
  <2>2. \A d \in Callers : ~Open(d)
    BY <1>4, OneInside DEF Submit, Open
  <2> QED
    BY <1>4, <2>1, <2>2, CountdownKept DEF Submit
<1>5. ASSUME NEW c \in Callers, StartWorkerFails(c) \/ Collect(c) PROVE Countdown'
  <2>1. UNCHANGED <<active, generation, completed, workerPc, seen>> /\ callerPc[c] \in {"grow", "collect"}
    BY <1>5 DEF StartWorkerFails, Collect
  <2>2. Unfinished' = Unfinished
    BY <2>1, SameUnfinished DEF Busy
  <2>3. \A d \in Callers : ~Open(d)
    BY <1>2, <2>1 DEF Open
  <2> QED
    BY <2>1, <2>2, <2>3, CountdownKept
<1>6. ASSUME NEW c \in Callers, StartWorker(c) PROVE Countdown'
  <2>1. /\ UNCHANGED <<active, generation, completed, callerPc>>
        /\ workerPc' = [workerPc EXCEPT ![pool + 1] = "observe"]
        /\ seen' = [seen EXCEPT ![pool + 1] = generation]
    BY <1>6 DEF StartWorker
  <2>2. \A w \in 1 .. active : w # pool + 1
    BY <1>1 DEF IInv, PoolInv
  <2>3. \A w \in 1 .. active : workerPc'[w] = workerPc[w] /\ seen'[w] = seen[w]
    BY <1>1, <2>1, <2>2
  <2>4. Unfinished' = Unfinished
    BY <2>1, <2>3, SameUnfinished DEF Busy
  <2> QED
    BY <2>1, <2>4, CountdownKept DEF Open
<1>7. ASSUME NEW c \in Callers, Publish(c) PROVE Countdown'
  <2>1. /\ UNCHANGED <<workerPc, seen>> /\ generation' = generation + 1 /\ completed' = 0
        /\ active' \in Nat /\ active' <= MaxWorkers - 1 /\ callerPc'[c] = "notify"
    BY <1>1, <1>7 DEF Publish, StartOver, IInv, TypeOK
  <2>2. 1 .. active' \subseteq Background
    BY <2>1 DEF Background, Threads
  <2>3. \A w \in 1 .. active' : seen'[w] # generation'
    <3>1. \A w \in Background : seen[w] <= generation
      BY DEF IInv, PoolInv
    <3> QED
      BY <1>1, <2>1, <2>2, <3>1
  <2>4. Unfinished' = 1 .. active'
    BY <2>3 DEF Unfinished
  <2>5. Cardinality(1 .. active') = active'
    <3>1. \A m \in Nat : Cardinality(1 .. m) = m
      BY FS_Interval
    <3> QED
      BY <2>1, <3>1
  <2> QED
    BY <2>1, <2>4, <2>5 DEF Countdown, Open
<1>8. ASSUME NEW c \in Callers, NotifyReady(c) PROVE Countdown'
  <2>1. /\ UNCHANGED <<active, generation, completed, seen>>
        /\ callerPc[c] = "notify"
        /\ \A w \in Background : workerPc'[w] = IF workerPc[w] = "waiting" THEN "observe"
                                                ELSE workerPc[w]
        /\ callerPc'[c] = "running"
    BY <1>1, <1>8 DEF NotifyReady, WakeAll, Woken
  <2>2. Unfinished' = Unfinished
    BY <1>1, <2>1, SameUnfinished DEF Busy
  <2> QED
    BY <2>1, <2>2, CountdownKept DEF Open
<1>9. ASSUME NEW c \in Callers, CallerCalls(c) \/ CallerNested(c) \/ CallerReturns(c)
      PROVE  Countdown'
  <2>1. UNCHANGED <<active, generation, completed, workerPc, seen>>
    BY <1>9 DEF CallerCalls, CallItem, CallerNested, CallerReturns
  <2>2. callerPc'[c] \in {"running", "inline", "wait"}
    <3>1. CallerNested(c) => NestedCall(0) = "inline"
      BY DEF CallerNested, NestedCall, IInv, PoolInv
    <3> QED
      BY <1>1, <1>9, <3>1 DEF CallerCalls, CallerNested, CallerReturns
  <2>3. Unfinished' = Unfinished
    BY <2>1, SameUnfinished DEF Busy
  <2> QED
    BY <2>1, <2>2, <2>3, CountdownKept DEF Open
<1>10. ASSUME NEW c \in Callers, Wait(c) PROVE Countdown'
  <2>1. /\ UNCHANGED <<active, generation, completed, workerPc, seen>>
        /\ callerPc'[c] = IF AllCompleted THEN "collect" ELSE "parked"
    BY <1>1, <1>10 DEF Wait
  <2>2. Unfinished' = Unfinished
    BY <2>1, SameUnfinished DEF Busy
  <2>3. (\A d \in Callers : ~Open(d)') => Unfinished = {}
    BY <1>1, <2>1 DEF Open, AllCompleted
  <2> QED
    BY <2>1, <2>2, <2>3, CountdownKept
<1>11. ASSUME NEW w \in Background, Observe(w) PROVE Countdown'
  <2>1. /\ UNCHANGED <<active, generation, completed, callerPc>>
        /\ workerPc[w] = "observe"
        /\ \A v \in Background : v # w => workerPc'[v] = workerPc[v] /\ seen'[v] = seen[v]
    BY <1>1, <1>11 DEF Observe
  <2>2. w \in 1 .. active => ((Busy(w) \/ seen[w] # generation)' <=> (Busy(w) \/ seen[w] # generation))
    BY <1>1, <1>11 DEF Observe, Busy
  <2>3. Unfinished' = Unfinished
    BY <1>1, <2>1, <2>2, SameUnfinished DEF Busy
  <2> QED
    BY <2>1, <2>3, CountdownKept DEF Open
<1>12. ASSUME NEW w \in Background, WorkerCalls(w) \/ WorkerNested(w) PROVE Countdown'
  <2>1. UNCHANGED <<active, generation, completed, callerPc, seen>>
    BY <1>12 DEF WorkerCalls, CallItem, WorkerNested
  <2>2. \A v \in Background : Busy(v)' <=> Busy(v)
    <3>1. WorkerNested(w) => NestedCall(w) = "inline"
      BY DEF WorkerNested, NestedCall, IInv, PoolInv, Busy
    <3> QED
      BY <1>1, <1>12, <3>1 DEF WorkerCalls, WorkerNested, Busy
  <2>3. Unfinished' = Unfinished
    BY <1>1, <2>1, <2>2, SameUnfinished
  <2> QED
    BY <2>1, <2>3, CountdownKept DEF Open
<1>13. ASSUME NEW w \in Background, Complete(w) PROVE Countdown'
  <2>1. /\ UNCHANGED <<active, generation, seen>> /\ completed' = completed + 1
        /\ workerPc[w] = "running" /\ workerPc'[w] \in {"waiting", "observe"}
        /\ \A v \in Background : v # w => workerPc'[v] = workerPc[v]
        /\ \A c \in Callers : callerPc'[c] = callerPc[c] \/ (callerPc[c] = "parked" /\ callerPc'[c] = "wait")
    BY <1>1, <1>13 DEF Complete
  <2>2. w \in 1 .. active /\ seen[w] = generation
    BY <1>1, <1>3, <2>1 DEF IInv, PoolInv, Busy, Background, Threads
  <2>3. w \in Unfinished
    BY <2>1, <2>2 DEF Unfinished, Busy
  <2>4. Unfinished' = Unfinished \ {w}
    BY <1>1, <2>1, <2>2 DEF Unfinished, Busy
  <2>5. Cardinality(Unfinished') = Cardinality(Unfinished) - 1 /\ Cardinality(Unfinished) \in Nat
    BY <1>1, <2>3, <2>4, FS_RemoveElement, FS_CardinalityType
  <2>6. completed' + Cardinality(Unfinished') = active'
    BY <1>1, <2>1, <2>5 DEF IInv, Countdown
  <2>7. ~ \A c \in Callers : ~Open(c)'
    BY <2>1, <2>3 DEF IInv, Countdown, Open
  <2> QED
    BY <2>6, <2>7 DEF Countdown
<1>14. CASE Spurious
  <2>1. UNCHANGED <<active, generation, completed, seen>>
    BY <1>14 DEF Spurious
  <2>2. /\ \A w \in Background : Busy(w)' <=> Busy(w)
        /\ \A c \in Callers : Open(c)' <=> Open(c)
    BY <1>1, <1>14 DEF Spurious, Busy, Open
  <2>3. Unfinished' = Unfinished
    BY <1>1, <2>1, <2>2, SameUnfinished
  <2> QED
    BY <2>1, <2>2, <2>3, CountdownKept
<1>15. CASE Stop \/ NotifyStop \/ Joined \/ UNCHANGED vars
  <2>1. UNCHANGED <<active, generation, completed, seen, callerPc>>
    BY <1>15 DEF Stop, NotifyStop, Joined
  <2>2. \A w \in Background : Busy(w)' <=> Busy(w)
    BY <1>1, <1>15 DEF Stop, NotifyStop, Joined, WakeAll, Woken, Busy
  <2>3. Unfinished' = Unfinished
    BY <1>1, <2>1, <2>2, SameUnfinished
  <2> QED
    BY <2>1, <2>3, CountdownKept DEF Open
<1> QED
  BY <1>4, <1>5, <1>6, <1>7, <1>8, <1>9, <1>10, <1>11, <1>12, <1>13, <1>14, <1>15
  DEF Next, CallerStep, WorkerStep

\* A step that calls no item leaves a thread where it is in its block, lets it
\* leave the block at its end, or lets it begin the block.
LEMMA CallsKept ==
  ASSUME IInv, TypeOK', UNCHANGED <<active, called>>,
         task'.workers = task.workers, task'.items = task.items,
         NEW c \in Callers, callerPc[c] \notin {"idle", "grow"},
         \A t \in 0 .. active :
           \/ /\ Begun(t)' <=> Begun(t)
              /\ Begun(t) => next'[t] = next[t] /\ (Running(t) => Running(t)' \/ next[t] = End(t))
           \/ ~Begun(t) /\ Begun(t)' /\ next'[t] = Begin(t) /\ Running(t)'
  PROVE  Calls'
<1>1. \A t \in 0 .. active : /\ t \in Nat /\ Begin(t) \in Nat /\ End(t) \in Nat
                             /\ Begin(t) <= End(t)
  BY BlocksOfTask DEF IInv, TypeOK
<1>2. \A t \in Nat : Begin(t)' = Begin(t) /\ End(t)' = End(t)
  BY DEF Begin, End
<1>3. /\ \A t \in 0 .. active : Begun(t) =>
           /\ Begin(t) <= next[t] /\ next[t] <= End(t)
           /\ Running(t) \/ next[t] = End(t)
      /\ called = {i \in Items : \E t \in 0 .. active : Begun(t) /\ Begin(t) <= i /\ i < next[t]}
  BY DEF IInv, Calls
<1>4. ASSUME NEW t \in 0 .. active, Begun(t)'
      PROVE  /\ Begin(t)' <= next'[t] /\ next'[t] <= End(t)'
             /\ Running(t)' \/ next'[t] = End(t)'
  BY <1>1, <1>2, <1>3, <1>4
<1>5. ASSUME NEW t \in 0 .. active, NEW i \in Items
      PROVE  (Begun(t)' /\ Begin(t)' <= i /\ i < next'[t]) <=> (Begun(t) /\ Begin(t) <= i /\ i < next[t])
  <2>1. i \in Nat
    BY DEF Items
  <2> QED
    BY <1>1, <1>2, <2>1
<1>6. called' = {i \in Items : \E t \in 0 .. active : Begun(t)' /\ Begin(t)' <= i /\ i < next'[t]}
  BY <1>3, <1>5
<1> QED
  BY <1>4, <1>6 DEF Calls

\* A thread calls the next item of its block.
LEMMA CallsItem ==
  ASSUME IInv, TypeOK', NEW t \in 0 .. active, CallItem(t), Running(t), Begun(t),
         NEW c \in Callers, callerPc[c] \notin {"idle", "grow"},
         \A u \in 0 .. active : (Begun(u)' <=> Begun(u)) /\ (Running(u) => Running(u)')
  PROVE  Calls'
<1>1. \A u \in 0 .. active : /\ u \in Nat /\ u \in Threads /\ Begin(u) \in Nat /\ End(u) \in Nat
                             /\ Begin(u) <= End(u)
  <2>1. active \in 0 .. MaxWorkers - 1 /\ TypeOK
    BY DEF IInv, TypeOK
  <2>2. \A u \in 0 .. active : u \in Nat /\ u \in Threads
    BY <2>1 DEF Threads
  <2> QED
    BY <2>1, <2>2, BlocksOfTask
<1>2. \A u \in Nat : Begin(u)' = Begin(u) /\ End(u)' = End(u)
  BY DEF CallItem, monitor, Begin, End
<1>3. /\ \A u \in 0 .. active : Begun(u) =>
           /\ Begin(u) <= next[u] /\ next[u] <= End(u)
           /\ Running(u) \/ next[u] = End(u)
      /\ called = {i \in Items : \E u \in 0 .. active : Begun(u) /\ Begin(u) <= i /\ i < next[u]}
  BY DEF IInv, Calls
<1>4. /\ next[t] < End(t) /\ next' = [next EXCEPT ![t] = @ + 1] /\ next \in [Threads -> Nat]
      /\ called' = called \cup {next[t]} /\ active' = active
  BY DEF CallItem, monitor, IInv, TypeOK
<1>5. /\ next'[t] = next[t] + 1 /\ next[t] \in Nat
      /\ \A u \in 0 .. active : u # t => next'[u] = next[u]
      /\ \A u \in 0 .. active : next[u] \in Nat
  BY <1>1, <1>4
<1>6. next[t] \in Items
  <2>1. End(t) <= task.items /\ task.items \in Nat /\ task.items <= MaxItems
    BY Shares DEF IInv, TypeOK
  <2> QED
    BY <1>1, <1>4, <1>5, <2>1 DEF Items
<1>7. ASSUME NEW u \in 0 .. active, Begun(u)'
      PROVE  /\ Begin(u)' <= next'[u] /\ next'[u] <= End(u)'
             /\ Running(u)' \/ next'[u] = End(u)'
  <2>1. CASE u = t
    BY <1>1, <1>2, <1>3, <1>4, <1>5, <2>1
  <2>2. CASE u # t
    BY <1>1, <1>2, <1>3, <1>5, <1>7, <2>2
  <2> QED
    BY <2>1, <2>2
<1>8. ASSUME NEW i \in Items
      PROVE  (\E u \in 0 .. active : Begun(u)' /\ Begin(u)' <= i /\ i < next'[u])
               <=> (i = next[t] \/ \E u \in 0 .. active : Begun(u) /\ Begin(u) <= i /\ i < next[u])
  <2>1. i \in Nat
    BY DEF Items
  <2>2. ASSUME NEW u \in 0 .. active, u # t
        PROVE  (Begun(u)' /\ Begin(u)' <= i /\ i < next'[u]) <=> (Begun(u) /\ Begin(u) <= i /\ i < next[u])
    BY <1>1, <1>2, <1>5, <2>2
  <2>3. (Begun(t)' /\ Begin(t)' <= i /\ i < next'[t])
           <=> (i = next[t] \/ (Begun(t) /\ Begin(t) <= i /\ i < next[t]))
    BY <1>1, <1>2, <1>3, <1>5, <2>1
  <2> QED
    BY <2>2, <2>3
<1>9. called' = {i \in Items : \E u \in 0 .. active : Begun(u)' /\ Begin(u)' <= i /\ i < next'[u]}
  BY <1>3, <1>4, <1>6, <1>8
<1> QED
  BY <1>4, <1>7, <1>9 DEF Calls

LEMMA CallsStep ==
  ASSUME IInv, TypeOK', [Next]_vars
  PROVE  Calls'
<1> USE DEF CallerGoto, monitor, process, call, locals, history, vars
<1>1. /\ callerPc \in [Callers -> CallerPcs] /\ workerPc \in [Background -> WorkerPcs]
      /\ seen \in [Background -> Nat] /\ next \in [Threads -> Nat]
      /\ generation \in Nat /\ active \in Nat /\ pool \in Nat
      /\ 1 .. active \subseteq Background /\ 0 \notin Background
      /\ 0 \in Threads /\ 0 \in 0 .. active
  <2>1. 1 .. active \subseteq Background /\ active \in Nat
    BY UnfinishedFinite
  <2>2. 0 \notin Background /\ 0 \in Threads
    BY DEF Background, Threads
  <2>3. 0 \in 0 .. active
    BY <2>1
  <2> QED
    BY <2>1, <2>2, <2>3 DEF IInv, TypeOK
<1>2. \A c, d \in Callers : callerPc[c] # "idle" /\ callerPc[d] # "idle" => c = d
  BY OneInside
<1>3. \A t \in 0 .. active : t = 0 \/ (t \in 1 .. active /\ t # 0)
  BY <1>1
<1>4. ASSUME NEW c \in Callers, NEW k \in 2 .. MaxWorkers, NEW n \in k .. MaxItems, Submit(c, k, n)
      PROVE  Calls'
  <2>1. \A d \in Callers : callerPc'[d] \in {"idle", "grow"}
    BY <1>1, <1>4, OneInside DEF Submit
  <2> QED
    BY <2>1 DEF Calls
<1>5. ASSUME NEW c \in Callers, StartWorkerFails(c) \/ Collect(c) \/ StartWorker(c) PROVE Calls'
  <2>1. \A d \in Callers : callerPc'[d] \in {"idle", "grow"}
    BY <1>1, <1>2, <1>5 DEF StartWorkerFails, Collect, StartWorker
  <2> QED
    BY <2>1 DEF Calls
<1>6. ASSUME NEW c \in Callers, Publish(c) PROVE Calls'
  <2>1. /\ UNCHANGED seen /\ generation' = generation + 1 /\ called' = {}
        /\ active' \in Nat /\ active' <= MaxWorkers - 1 /\ callerPc'[c] = "notify"
    BY <1>1, <1>6 DEF Publish, IInv, TypeOK
  <2>2. \A w \in Background : seen[w] <= generation
    BY DEF IInv, PoolInv
  <2>3. \A t \in 0 .. active' : ~Begun(t)'
    <3>1. \A t \in 0 .. active' : t = 0 \/ t \in Background
      BY <2>1 DEF Background, Threads
    <3> QED
      BY <1>1, <2>1, <2>2, <3>1 DEF Begun
  <2> QED
    BY <2>1, <2>3 DEF Calls
<1>7. ASSUME NEW c \in Callers, NotifyReady(c) PROVE Calls'
  <2>1. /\ UNCHANGED <<task, active, generation, called, seen>>
        /\ callerPc[c] = "notify" /\ callerPc' = [callerPc EXCEPT ![c] = "running"]
        /\ \A w \in Background : workerPc'[w] = IF workerPc[w] = "waiting" THEN "observe"
                                                ELSE workerPc[w]
        /\ next' = [next EXCEPT ![0] = Begin(0)]
    BY <1>7 DEF NotifyReady, WakeAll, Woken, Started
  <2>2. ~Begun(0) /\ Begun(0)' /\ next'[0] = Begin(0) /\ Running(0)'
    BY <1>1, <1>2, <2>1 DEF Begun, Running
  <2>3. ASSUME NEW t \in 1 .. active
        PROVE  /\ Begun(t)' <=> Begun(t)
               /\ next'[t] = next[t] /\ (Running(t) => Running(t)')
    BY <1>1, <2>1 DEF Begun, Running, Busy
  <2> QED
    BY <1>3, <2>1, <2>2, <2>3, CallsKept
<1>8. ASSUME NEW c \in Callers, CallerCalls(c) PROVE Calls'
  <2>1. /\ CallItem(0) /\ UNCHANGED <<active, generation, seen, workerPc>>
        /\ callerPc[c] \in {"running", "inline"} /\ callerPc' = [callerPc EXCEPT ![c] = "running"]
    BY <1>8 DEF CallerCalls, CallItem
  <2>2. Running(0) /\ Begun(0) /\ Begun(0)' /\ Running(0)'
    BY <1>1, <1>2, <2>1 DEF Begun, Running
  <2>3. \A t \in 1 .. active : (Begun(t)' <=> Begun(t)) /\ (Running(t) => Running(t)')
    BY <1>1, <2>1 DEF Begun, Running, Busy
  <2> QED
    BY <1>1, <1>3, <2>1, <2>2, <2>3, CallsItem
<1>9. ASSUME NEW c \in Callers, CallerNested(c) PROVE Calls'
  <2>1. NestedCall(0) = "inline"
    BY <1>9 DEF CallerNested, NestedCall, IInv, PoolInv
  <2>2. /\ UNCHANGED <<task, active, generation, seen, workerPc, next, called>>
        /\ callerPc[c] = "running" /\ callerPc' = [callerPc EXCEPT ![c] = "inline"]
    BY <1>9, <2>1 DEF CallerNested
  <2>3. \A t \in 0 .. active : (Begun(t)' <=> Begun(t)) /\ (Running(t) => Running(t)')
    BY <1>1, <1>2, <2>2 DEF Begun, Running, Busy
  <2> QED
    BY <2>2, <2>3, CallsKept
<1>10. ASSUME NEW c \in Callers, CallerReturns(c) PROVE Calls'
  <2>1. /\ UNCHANGED <<task, active, generation, seen, workerPc, next, called>>
        /\ callerPc[c] = "running" /\ callerPc' = [callerPc EXCEPT ![c] = "wait"]
        /\ next[0] = End(0)
    BY <1>10 DEF CallerReturns
  <2>2. \A t \in 0 .. active : (Begun(t)' <=> Begun(t)) /\ (Running(t) => Running(t)' \/ next[t] = End(t))
    BY <1>1, <1>2, <2>1 DEF Begun, Running, Busy
  <2> QED
    BY <2>1, <2>2, CallsKept
<1>11. ASSUME NEW c \in Callers, Wait(c) PROVE Calls'
  <2>1. /\ UNCHANGED <<active, generation, seen, workerPc, next, called>>
        /\ task'.workers = task.workers /\ task'.items = task.items
        /\ callerPc[c] = "wait" /\ \E s \in {"collect", "parked"} : callerPc' = [callerPc EXCEPT ![c] = s]
    BY <1>11 DEF Wait, IInv, TypeOK
  <2>2. \A t \in 0 .. active : (Begun(t)' <=> Begun(t)) /\ (Running(t) => Running(t)')
    BY <1>1, <1>2, <2>1 DEF Begun, Running, Busy
  <2> QED
    BY <2>1, <2>2, CallsKept
<1>12. ASSUME NEW w \in Background, Observe(w) PROVE Calls'
  <2>1. /\ UNCHANGED <<task, active, generation, called, callerPc>>
        /\ workerPc[w] = "observe"
        /\ \A v \in Background : v # w => workerPc'[v] = workerPc[v] /\ seen'[v] = seen[v]
        /\ \A t \in Threads : t # w => next'[t] = next[t]
    BY <1>1, <1>12 DEF Observe, Started
  <2>2. SUFFICES ASSUME NEW c \in Callers, callerPc[c] \notin {"idle", "grow"} PROVE Calls'
    BY <2>1 DEF Calls
  <2>3. ASSUME w \in 1 .. active
        PROVE  \/ seen'[w] = seen[w] /\ next' = next
               \/ /\ seen[w] # generation /\ seen'[w] = generation /\ next'[w] = Begin(w)
                  /\ workerPc'[w] = "running"
    <3>1. ~(w > active) /\ w \in Threads
      BY <1>1, <2>3 DEF Background
    <3> QED
      BY <1>1, <1>12, <3>1 DEF Observe, Started
  <2>4. ASSUME NEW t \in 0 .. active
        PROVE  \/ /\ Begun(t)' <=> Begun(t)
                  /\ Begun(t) => next'[t] = next[t] /\ (Running(t) => Running(t)' \/ next[t] = End(t))
               \/ ~Begun(t) /\ Begun(t)' /\ next'[t] = Begin(t) /\ Running(t)'
    <3>1. CASE t = 0
      BY <1>1, <2>1, <3>1 DEF Begun, Running
    <3>2. CASE t \in 1 .. active /\ t = w
      BY <1>1, <2>1, <2>3, <3>2 DEF Begun, Running, Busy
    <3>3. CASE t \in 1 .. active /\ t # w /\ t # 0
      <4>1. t \in Background /\ t \in Threads
        BY <1>1, <3>3 DEF Background
      <4> QED
        BY <2>1, <3>3, <4>1 DEF Begun, Running, Busy
    <3> QED
      BY <1>1, <1>3, <3>1, <3>2, <3>3
  <2> QED
    BY <2>1, <2>2, <2>4, CallsKept
<1>13. ASSUME NEW w \in Background, Busy(w)
       PROVE  /\ w \in 1 .. active /\ w \in 0 .. active /\ Running(w) /\ Begun(w)
              /\ \E c \in Callers : callerPc[c] \notin {"idle", "grow"}
  <2>1. w \in 1 .. active /\ seen[w] = generation /\ w # 0
    BY <1>1, <1>13 DEF IInv, PoolInv, Background, Threads
  <2>2. w \in Unfinished
    BY <1>13, <2>1 DEF Unfinished
  <2>3. \E c \in Callers : Open(c)
    BY <2>2 DEF IInv, Countdown
  <2> QED
    BY <1>13, <2>1, <2>3 DEF Running, Begun, Open
<1>14. ASSUME NEW w \in Background, WorkerCalls(w) PROVE Calls'
  <2>1. /\ CallItem(w) /\ UNCHANGED <<active, generation, seen, callerPc>>
        /\ workerPc[w] \in {"running", "inline"} /\ workerPc' = [workerPc EXCEPT ![w] = "running"]
    BY <1>14 DEF WorkerCalls, CallItem
  <2>2. \A t \in 0 .. active : (Begun(t)' <=> Begun(t)) /\ (Running(t) => Running(t)')
    BY <1>1, <2>1 DEF Begun, Running, Busy
  <2> QED
    BY <1>13, <2>1, <2>2, CallsItem DEF Busy
<1>15. ASSUME NEW w \in Background, WorkerNested(w) PROVE Calls'
  <2>1. NestedCall(w) = "inline"
    BY <1>15 DEF WorkerNested, NestedCall, IInv, PoolInv, Busy
  <2>2. /\ UNCHANGED <<task, active, generation, seen, callerPc, next, called>>
        /\ workerPc[w] = "running" /\ workerPc' = [workerPc EXCEPT ![w] = "inline"]
    BY <1>15, <2>1 DEF WorkerNested
  <2>3. \A t \in 0 .. active : (Begun(t)' <=> Begun(t)) /\ (Running(t) => Running(t)')
    BY <1>1, <2>2 DEF Begun, Running, Busy
  <2> QED
    BY <1>13, <2>2, <2>3, CallsKept DEF Busy
<1>16. ASSUME NEW w \in Background, Complete(w) PROVE Calls'
  <2>1. /\ UNCHANGED <<task, active, generation, seen, next, called>>
        /\ workerPc[w] = "running" /\ next[w] = End(w)
        /\ \A v \in Background : v # w => workerPc'[v] = workerPc[v]
        /\ \A c \in Callers : \/ callerPc'[c] = callerPc[c]
                              \/ callerPc[c] = "parked" /\ callerPc'[c] = "wait"
    BY <1>1, <1>16 DEF Complete
  <2>2. \A t \in 0 .. active : (Begun(t)' <=> Begun(t)) /\ (Running(t) => Running(t)' \/ next[t] = End(t))
    BY <1>1, <2>1 DEF Begun, Running, Busy
  <2> QED
    BY <1>13, <2>1, <2>2, CallsKept DEF Busy
<1>17. CASE Spurious \/ Stop \/ NotifyStop \/ Joined \/ UNCHANGED vars
  <2>1. UNCHANGED <<task, active, generation, seen, next, called>>
    BY <1>17 DEF Spurious, Stop, NotifyStop, Joined
  <2>2. /\ \A w \in Background : Busy(w)' <=> Busy(w)
        /\ \A c \in Callers : \/ callerPc'[c] = callerPc[c]
                              \/ callerPc[c] = "parked" /\ callerPc'[c] = "wait"
    BY <1>1, <1>17 DEF Spurious, Stop, NotifyStop, Joined, WakeAll, Woken, Busy
  <2>3. SUFFICES ASSUME NEW c \in Callers, callerPc[c] \notin {"idle", "grow"} PROVE Calls'
    BY <2>2 DEF Calls
  <2>4. \A t \in 0 .. active : (Begun(t)' <=> Begun(t)) /\ (Running(t) => Running(t)')
    BY <1>1, <2>1, <2>2 DEF Begun, Running
  <2> QED
    BY <2>1, <2>3, <2>4, CallsKept
<1> QED
  BY <1>4, <1>5, <1>6, <1>7, <1>8, <1>9, <1>10, <1>11, <1>12, <1>14, <1>15, <1>16, <1>17
  DEF Next, CallerStep, WorkerStep

LEMMA NextIInv == IInv /\ [Next]_vars => IInv'
  BY TypeStep, OwnershipStep, PublishedStep, PoolStep, CountdownStep, CallsStep DEF IInv

\* The blocks and counts of Spec keep their meaning for any constants: IInv
\* holds in every reachable state of the pool.
THEOREM InductiveInvariant == Spec => []IInv
  BY InitIInv, NextIInv, PTL DEF Spec

\* Every variable has its type; a worker or a caller that calls the pool from
\* inside a task never waits for execution_mutex_.
THEOREM TypeCorrectness == Spec => []TypeOK
<1>1. IInv => TypeOK
  BY DEF IInv
<1> QED
  BY <1>1, InductiveInvariant, PTL

\* A background thread in the task finds the vector of failures, on the stack of
\* the caller that published it, alive: run() does not return before the last.
THEOREM OpenCallTasks == Spec => []TasksBelongToTheOpenCall
<1>1. ASSUME IInv PROVE TasksBelongToTheOpenCall
  <2>1. ASSUME NEW w \in Background, workerPc[w] \in {"running", "inline", "nestedLock"}
        PROVE  /\ task.set
               /\ \E c \in Callers : callerPc[c] \notin {"idle", "grow", "collect"}
               /\ seen[w] = generation /\ w <= active
    <3>1. Busy(w)
      BY <1>1, <2>1 DEF IInv, TypeOK, WorkerPcs, Busy
    <3>2. seen[w] = generation /\ w <= active
      BY <1>1, <3>1 DEF IInv, PoolInv
    <3>3. \E c \in Callers : Open(c)
      BY <1>1, <3>1, QuietBetweenBatches
    <3> QED
      BY <1>1, <3>2, <3>3 DEF IInv, Published, Open
  <2> QED
    BY <2>1 DEF TasksBelongToTheOpenCall
<1> QED
  BY <1>1, InductiveInvariant, PTL

-----------------------------------------------------------------------------
(* The pool implements ParallelBatch, as far as safety goes.                *)

\* Calling the next item of a block is executing an item not yet done.
LEMMA CallExecutes ==
  ASSUME IInv, NEW t \in 0 .. active, CallItem(t), Running(t), Begun(t),
         NEW c \in Callers, callerPc[c] \notin {"idle", "grow"}, UNCHANGED Runner
  PROVE  Batch!Execute(next[t]) /\ next[t] \in 0 .. MaxItems - 1
<1>1. \A u \in 0 .. active : u \in Nat /\ Begin(u) \in Nat /\ End(u) \in Nat
  BY BlocksOfTask DEF IInv, TypeOK
<1>2. /\ \A u \in 0 .. active : Begun(u) => Begin(u) <= next[u] /\ next[u] <= End(u)
      /\ called = {i \in Items : \E u \in 0 .. active : Begun(u) /\ Begin(u) <= i /\ i < next[u]}
  BY DEF IInv, Calls
<1>3. \A u \in 0 .. active : next[u] \in Nat
  BY DEF IInv, TypeOK, Threads
<1>4. next[t] < End(t) /\ called' = called \cup {next[t]} /\ UNCHANGED <<task, rethrown>>
      /\ failures' \in {failures, failures \cup {next[t]}}
  BY DEF CallItem, monitor
<1>5. next[t] \in 0 .. task.items - 1 /\ task.items \in Nat /\ task.items <= MaxItems
  <2>1. End(t) <= task.items /\ task.items \in Nat /\ task.items <= MaxItems
    BY Shares DEF IInv, TypeOK
  <2> QED
    BY <1>1, <1>3, <1>4, <2>1
<1>6. next[t] \notin called
  <2>1. SUFFICES ASSUME NEW u \in 0 .. active, Begun(u), Begin(u) <= next[t], next[t] < next[u]
                 PROVE FALSE
    BY <1>2
  <2>2. u # t /\ next[t] < End(u) /\ Begin(t) <= next[t]
    BY <1>1, <1>2, <1>3, <2>1
  <2>3. End(u) <= Begin(t) \/ End(t) <= Begin(u)
    <3>1. u < t \/ t < u
      BY <1>1, <2>2
    <3> QED
      BY <3>1, Shares
  <2> QED
    BY <1>1, <1>3, <1>4, <2>1, <2>2, <2>3
<1>7. Runner # NoCaller
  BY OneInside DEF IInv, Ownership, Runner
<1> QED
  BY <1>4, <1>5, <1>6, <1>7 DEF Batch!Execute

\* When the caller collects, every item has been called.
LEMMA AllCalled ==
  ASSUME IInv, NEW c \in Callers, callerPc[c] = "collect"
  PROVE  called = 0 .. task.items - 1
<1>1. \A d \in Callers : d # c => callerPc[d] = "idle"
  BY OneInside
<1>2. \A d \in Callers : ~Open(d)
  BY <1>1 DEF Open
<1>3. ASSUME NEW t \in 0 .. active PROVE Begun(t) /\ ~Running(t)
  <2>1. CASE t = 0
    BY <1>1, <2>1 DEF Begun, Running
  <2>2. CASE t # 0
    <3>1. t \in Background /\ t <= active
      BY <2>2 DEF IInv, TypeOK, Background, Threads
    <3> QED
      BY <1>2, <2>2, <3>1, QuietBetweenBatches DEF Begun, Running
  <2> QED
    BY <2>1, <2>2
<1>4. /\ \A t \in 0 .. active : next[t] = End(t)
      /\ called = {i \in Items : \E t \in 0 .. active : Begin(t) <= i /\ i < End(t)}
  BY <1>3 DEF IInv, Calls
<1>5. /\ \A t \in 0 .. active : End(t) <= task.items /\ End(t) \in Nat
      /\ task.items \in Nat /\ task.items <= MaxItems
  BY Shares, BlocksOfTask DEF IInv, TypeOK
<1>6. ASSUME NEW i \in Items, NEW t \in 0 .. active, i < End(t) PROVE i \in 0 .. task.items - 1
  BY <1>5, <1>6 DEF Items
<1>7. ASSUME NEW i \in 0 .. task.items - 1
      PROVE  i \in Items /\ \E t \in 0 .. active : Begin(t) <= i /\ i < End(t)
  BY <1>5, Shares DEF Items
<1> QED
  BY <1>4, <1>6, <1>7

\* A step of the monitor that calls no item, opens no batch and ends none is hidden.
LEMMA StepHidden ==
  ASSUME IInv, UNCHANGED <<called, failures, rethrown>>, task'.items = task.items,
         \/ /\ UNCHANGED executionOwner
            /\ \A c \in Callers : callerPc'[c] = "grow" <=> callerPc[c] = "grow"
         \/ /\ Runner = NoCaller /\ Runner' = NoCaller
  PROVE  UNCHANGED Batch!vars
<1>1. UNCHANGED Runner
  BY DEF Runner
<1> QED
  BY <1>1 DEF Batch!vars

LEMMA StepRefines ==
  ASSUME IInv, [Next]_vars
  PROVE  [Batch!Next]_(Batch!vars)
<1> USE DEF CallerGoto, monitor, process, call, locals, history, vars
<1>1. /\ callerPc \in [Callers -> CallerPcs] /\ workerPc \in [Background -> WorkerPcs]
      /\ executionOwner \in Callers \cup {NoCaller}
      /\ \A c \in Callers : callerPc[c] # "idle" => executionOwner = c
  BY DEF IInv, TypeOK, Ownership
<1>2. \A c, d \in Callers : callerPc[c] # "idle" /\ callerPc[d] # "idle" => c = d
  BY OneInside
<1>3. ASSUME NEW c \in Callers, NEW k \in 2 .. MaxWorkers, NEW n \in k .. MaxItems, Submit(c, k, n)
      PROVE  UNCHANGED Batch!vars
  <2>1. Runner = NoCaller /\ Runner' = NoCaller
    BY <1>1, <1>3 DEF Submit, Runner
  <2> QED
    BY <1>3, <2>1, StepHidden DEF Submit
<1>4. ASSUME NEW c \in Callers, StartWorkerFails(c) PROVE UNCHANGED Batch!vars
  <2>1. Runner = NoCaller /\ Runner' = NoCaller
    BY <1>4 DEF StartWorkerFails, Runner
  <2> QED
    BY <1>4, <2>1, StepHidden DEF StartWorkerFails
<1>5. ASSUME NEW c \in Callers, Publish(c) PROVE Batch!Start(c)
  <2>1. Runner = NoCaller
    BY <1>5 DEF Publish, Runner
  <2>2. /\ callerPc[c] = "grow" /\ callerPc' = [callerPc EXCEPT ![c] = "notify"]
        /\ UNCHANGED <<executionOwner, rethrown>> /\ called' = {} /\ failures' = {}
        /\ task'.items = itemCount
    BY <1>5 DEF Publish
  <2>3. \A d \in Callers : callerPc'[d] # "grow"
    BY <1>1, <1>2, <2>2
  <2>4. Runner' = c
    BY <1>1, <2>2, <2>3 DEF Runner
  <2>5. itemCount \in 2 .. MaxItems
    BY DEF IInv, TypeOK
  <2> QED
    BY <2>1, <2>2, <2>4, <2>5 DEF Batch!Start
<1>6. ASSUME NEW c \in Callers, CallerCalls(c)
      PROVE  \E i \in 0 .. MaxItems - 1 : Batch!Execute(i)
  <2>1. /\ CallItem(0) /\ UNCHANGED executionOwner
        /\ callerPc[c] \in {"running", "inline"} /\ callerPc' = [callerPc EXCEPT ![c] = "running"]
    BY <1>6 DEF CallerCalls, CallItem
  <2>2. Running(0) /\ Begun(0) /\ 0 \in 0 .. active
    BY <1>2, <2>1 DEF Begun, Running, IInv, TypeOK
  <2>3. UNCHANGED Runner
    BY <1>1, <2>1 DEF Runner
  <2> QED
    BY <2>1, <2>2, <2>3, CallExecutes
<1>7. ASSUME NEW w \in Background, WorkerCalls(w)
      PROVE  \E i \in 0 .. MaxItems - 1 : Batch!Execute(i)
  <2>1. CallItem(w) /\ UNCHANGED <<executionOwner, callerPc>> /\ Busy(w)
    BY <1>7 DEF WorkerCalls, CallItem, Busy
  <2>2. w \in 0 .. active /\ w # 0 /\ seen[w] = generation
    BY <2>1 DEF IInv, PoolInv, TypeOK, Background, Threads
  <2>3. \E c \in Callers : Open(c)
    BY <2>1, QuietBetweenBatches
  <2>4. UNCHANGED Runner
    BY <2>1 DEF Runner
  <2>5. Running(w) /\ Begun(w)
    BY <2>1, <2>2 DEF Running, Begun
  <2>6. PICK c \in Callers : callerPc[c] \notin {"idle", "grow"}
    BY <2>3 DEF Open
  <2> QED
    BY <2>1, <2>2, <2>4, <2>5, <2>6, CallExecutes
<1>8. ASSUME NEW c \in Callers, Collect(c) PROVE Batch!Finish
  <2>1. /\ callerPc[c] = "collect" /\ callerPc' = [callerPc EXCEPT ![c] = "idle"]
        /\ executionOwner' = NoCaller /\ UNCHANGED <<task, failures, called>>
        /\ rethrown' = Batch!Lowest(failures)
    BY <1>8 DEF Collect, Batch!Lowest
  <2>2. Runner = c /\ Runner' = NoCaller
    BY <1>1, <1>2, <2>1 DEF Runner
  <2>3. called = 0 .. task.items - 1
    BY <2>1, AllCalled
  <2> QED
    BY <2>1, <2>2, <2>3 DEF Batch!Finish
<1>9. ASSUME NEW c \in Callers,
             StartWorker(c) \/ NotifyReady(c) \/ CallerReturns(c) \/ Wait(c) \/ CallerNested(c)
      PROVE  UNCHANGED Batch!vars
  <2>1. UNCHANGED <<executionOwner, called, failures, rethrown>>
    BY <1>9 DEF StartWorker, NotifyReady, CallerReturns, Wait, CallerNested
  <2>2. task'.items = task.items
    BY <1>9 DEF StartWorker, NotifyReady, CallerReturns, Wait, CallerNested, IInv, TypeOK
  <2>3. \A d \in Callers : callerPc'[d] = "grow" <=> callerPc[d] = "grow"
    BY <1>1, <1>9
    DEF StartWorker, NotifyReady, CallerReturns, Wait, CallerNested, NestedCall
  <2> QED
    BY <2>1, <2>2, <2>3, StepHidden
<1>10. ASSUME NEW w \in Background, Observe(w) \/ WorkerNested(w) \/ Complete(w)
       PROVE  UNCHANGED Batch!vars
  <2>1. UNCHANGED <<executionOwner, called, failures, rethrown, task>>
    BY <1>10 DEF Observe, WorkerNested, Complete
  <2>2. \A d \in Callers : callerPc'[d] = "grow" <=> callerPc[d] = "grow"
    BY <1>1, <1>10 DEF Observe, WorkerNested, Complete
  <2> QED
    BY <2>1, <2>2, StepHidden
<1>11. CASE Spurious \/ Stop \/ NotifyStop \/ Joined \/ UNCHANGED vars
  <2>1. UNCHANGED <<executionOwner, called, failures, rethrown, task>>
    BY <1>11 DEF Spurious, Stop, NotifyStop, Joined
  <2>2. \A d \in Callers : callerPc'[d] = "grow" <=> callerPc[d] = "grow"
    BY <1>1, <1>11 DEF Spurious, Stop, NotifyStop, Joined
  <2> QED
    BY <2>1, <2>2, StepHidden
<1> QED
  BY <1>3, <1>4, <1>5, <1>6, <1>7, <1>8, <1>9, <1>10, <1>11
  DEF Next, CallerStep, WorkerStep, Batch!Next, Batch!Progress

\* Every step of the pool is a step of ParallelBatch or hidden from it: batches
\* run one at a time, call each item once, in any order, and end after the last
\* with the failure of the lowest item.
THEOREM PoolRefinesBatch == Spec => Batch!Init /\ [][Batch!Next]_(Batch!vars)
<1>1. Init => Batch!Init
  BY DEF Init, Batch!Init, Runner
<1>2. IInv /\ [Next]_vars => [Batch!Next]_(Batch!vars)
  BY StepRefines
<1> QED
  BY <1>1, <1>2, InductiveInvariant, PTL DEF Spec
=============================================================================
