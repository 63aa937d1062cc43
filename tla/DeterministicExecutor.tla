------------------------ MODULE DeterministicExecutor ------------------------
(***************************************************************************)
(* The process-wide worker pool of virne/utils/deterministic_executor.h.    *)
(* Callers submit a batch: one callback per index 0 .. width-1.  Index 0    *)
(* runs on the calling thread, index w on background worker w.  A batch is  *)
(* published by storing a pointer to a context on the caller's stack and    *)
(* incrementing a generation under ready_mutex_; its end is a countdown     *)
(* with a condition variable guarded by finished_mutex_.                    *)
(*                                                                          *)
(* Every critical section of ready_mutex_ is one step; finished_mutex_ is   *)
(* explicit, because the countdown is decremented outside it.  The bounded  *)
(* spins only read, so they are the freedom to take the next step late.     *)
(***************************************************************************)
EXTENDS Naturals, FiniteSets

CONSTANTS
  Callers,      \* threads that call run()
  NoCaller,     \* "nobody holds the mutex"
  MaxWidth,     \* largest worker_count a caller asks for
  MaxBatches,   \* bound: batches published in one behaviour
  MaxSpurious   \* bound: spurious wakes of condition variables

ASSUME ConstantsAssumption ==
  /\ NoCaller \notin Callers
  /\ MaxWidth \in Nat /\ MaxWidth >= 2
  /\ MaxBatches \in Nat
  /\ MaxSpurious \in Nat

Workers == 1 .. (MaxWidth - 1)
Indices == 0 .. (MaxWidth - 1)
NoFailure == 0   \* a null exception_ptr; b stands for an exception of batch b

VARIABLES
  executionOwner, finishedOwner,              \* execution_mutex_, finished_mutex_
  generation, context, activeBackground,      \* published under ready_mutex_
  failures, remaining, stopping, joining, pool,
  callerPc, callerWidth, callerBatch, callerDepth,
  workerPc, seen, workerContext, hot, workerDepth,
  spurious,                                   \* spurious wakes so far
  live, visits, failed, rethrown              \* history of the current batch

mutexes == <<executionOwner, finishedOwner>>
task == <<generation, context, activeBackground>>
process == <<stopping, joining, pool, spurious>>
callerLocals == <<callerWidth, callerBatch>>
workerLocals == <<seen, workerContext, hot>>
callers == <<callerPc, callerLocals, callerDepth>>
workers == <<workerPc, workerLocals, workerDepth>>
history == <<live, visits, failed, rethrown>>
vars == <<mutexes, task, failures, remaining, process, callers, workers, history>>

-----------------------------------------------------------------------------
(* Faulty variants, each a plausible slip; none is used by Spec.            *)
FinishedFree_Unlocked == TRUE                  \* notify without finished_mutex_
AllFinished_Early == remaining <= 1            \* off by one in the countdown
Included_Wide(w) == w <= activeBackground + 1  \* off by one in the width
Adopt_Forgotten(w) == UNCHANGED seen           \* seen_generation not updated
ClearFailures_Short(w) == [i \in Indices |-> IF i + 1 < w THEN NoFailure
                                             ELSE failures[i]]
WakeAll_One ==                                 \* notify_one for notify_all
  \/ \E w \in Workers : /\ workerPc[w] = "waiting"
                        /\ workerPc' = [workerPc EXCEPT ![w] = "observe"]
  \/ /\ \A w \in Workers : workerPc[w] # "waiting"
     /\ UNCHANGED workerPc

-----------------------------------------------------------------------------
\* execution_mutex_ and finished_mutex_ can be locked.
ExecutionFree == executionOwner = NoCaller
FinishedFree == finishedOwner = NoCaller

\* The completion predicate of the spin and of the wait.
AllFinished == remaining = 0

\* The thread-local depth when a DeterministicExecutorScope ends.
ScopeEnd(depth) == depth - 1

\* failures_ with its first w entries reset.
ClearFailures(w) == [i \in Indices |-> IF i < w THEN NoFailure ELSE failures[i]]

\* Worker w is inside the published width; it adopts the generation.
Included(w) == w <= activeBackground
Adopt(w) == seen' = [seen EXCEPT ![w] = generation]

\* A callback that calls deterministic_parallel_blocks runs the range inline
\* when the thread-local depth is not zero; else it locks execution_mutex_.
NestedCall(depth) == IF depth # 0 THEN "inline" ELSE "nestedLock"

\* The callback of index i is entered; visits counts the calls of this batch.
Enter(i) == visits' = [visits EXCEPT ![i] = @ + 1]

\* The callback of index i returns, or throws and its exception is kept.
Leave(b, i) ==
  \/ UNCHANGED <<failures, failed>>
  \/ /\ failures' = [failures EXCEPT ![i] = b]
     /\ failed' = failed \cup {i}

-----------------------------------------------------------------------------
(* run(worker_count, function) on a calling thread, worker_count >= 2.      *)

CallerGoto(c, from, to) ==
  /\ callerPc[c] = from
  /\ callerPc' = [callerPc EXCEPT ![c] = to]

Submit(c, w) ==
  /\ CallerGoto(c, "idle", "grow")
  /\ ~stopping
  /\ generation < MaxBatches
  /\ ExecutionFree
  /\ executionOwner' = c
  /\ callerWidth' = [callerWidth EXCEPT ![c] = w]
  /\ UNCHANGED <<finishedOwner, task, failures, remaining, process, callerBatch,
                 callerDepth, workers, history>>

\* ensure_workers starts one thread more; it begins at the current generation.
StartWorker(c) ==
  /\ callerPc[c] = "grow"
  /\ pool < callerWidth[c] - 1
  /\ pool' = pool + 1
  /\ workerPc' = [workerPc EXCEPT ![pool + 1] = "observe"]
  /\ seen' = [seen EXCEPT ![pool + 1] = generation]
  /\ UNCHANGED <<mutexes, task, failures, remaining, stopping, joining, spurious,
                 callers, workerContext, hot, workerDepth, history>>

\* The std::thread constructor throws: run() leaves, nothing was published.
StartWorkerFails(c) ==
  /\ CallerGoto(c, "grow", "idle")
  /\ pool < callerWidth[c] - 1
  /\ executionOwner' = NoCaller
  /\ UNCHANGED <<finishedOwner, task, failures, remaining, process, callerLocals,
                 callerDepth, workers, history>>

\* failures_ is cleared for this width, then the batch is published.
Publish(c) ==
  /\ CallerGoto(c, "grow", "notify")
  /\ pool >= callerWidth[c] - 1
  /\ failures' = ClearFailures(callerWidth[c])
  /\ generation' = generation + 1
  /\ context' = generation + 1
  /\ activeBackground' = callerWidth[c] - 1
  /\ remaining' = callerWidth[c] - 1
  /\ callerBatch' = [callerBatch EXCEPT ![c] = generation + 1]
  /\ live' = live \cup {generation + 1}
  /\ visits' = [i \in Indices |-> 0]
  /\ failed' = {}
  /\ UNCHANGED <<mutexes, process, callerWidth, callerDepth, workers, rethrown>>

\* ready_.notify_all()
WakeAll == workerPc' = [w \in Workers |-> IF workerPc[w] = "waiting"
                                          THEN "observe" ELSE workerPc[w]]

NotifyReady(c) ==
  /\ CallerGoto(c, "notify", "own")
  /\ WakeAll
  /\ UNCHANGED <<mutexes, task, failures, remaining, process, callerLocals,
                 callerDepth, workerLocals, workerDepth, history>>

\* callback(&context, 0U)
CallerEnter(c) ==
  /\ CallerGoto(c, "own", "running")
  /\ callerDepth' = [callerDepth EXCEPT ![c] = @ + 1]
  /\ Enter(0)
  /\ UNCHANGED <<mutexes, task, failures, remaining, process, callerLocals,
                 workers, live, failed, rethrown>>

CallerNested(c) ==
  /\ CallerGoto(c, "running", NestedCall(callerDepth[c]))
  /\ UNCHANGED <<mutexes, task, failures, remaining, process, callerLocals,
                 callerDepth, workers, history>>

CallerLeave(c) ==
  /\ \/ CallerGoto(c, "running", "check")
     \/ CallerGoto(c, "inline", "check")
  /\ callerDepth' = [callerDepth EXCEPT ![c] = ScopeEnd(@)]
  /\ Leave(callerBatch[c], 0)
  /\ UNCHANGED <<mutexes, task, remaining, process, callerLocals, workers, live,
                 visits, rethrown>>

\* The spin sees zero, or gives up and goes for finished_mutex_.
Spin(c) ==
  /\ CallerGoto(c, "check", IF AllFinished THEN "collect" ELSE "lockFinished")
  /\ UNCHANGED <<mutexes, task, failures, remaining, process, callerLocals,
                 callerDepth, workers, history>>

LockFinished(c) ==
  /\ CallerGoto(c, "lockFinished", "predicate")
  /\ FinishedFree
  /\ finishedOwner' = c
  /\ UNCHANGED <<executionOwner, task, failures, remaining, process, callerLocals,
                 callerDepth, workers, history>>

\* The wait predicate, evaluated with finished_mutex_ held.
EvaluatePredicate(c) ==
  /\ CallerGoto(c, "predicate", IF AllFinished THEN "collect" ELSE "block")
  /\ finishedOwner' = IF AllFinished THEN NoCaller ELSE finishedOwner
  /\ UNCHANGED <<executionOwner, task, failures, remaining, process, callerLocals,
                 callerDepth, workers, history>>

\* wait() joins the waiters and releases the mutex in one step.
Block(c) ==
  /\ CallerGoto(c, "block", "parked")
  /\ finishedOwner' = NoCaller
  /\ UNCHANGED <<executionOwner, task, failures, remaining, process, callerLocals,
                 callerDepth, workers, history>>

\* The first kept failure in index order is rethrown (none: the empty set);
\* the stack context dies and execution_mutex_ is released.
Collect(c) ==
  /\ CallerGoto(c, "collect", "idle")
  /\ rethrown' = {i \in 0 .. (callerWidth[c] - 1) :
                    /\ failures[i] # NoFailure
                    /\ \A j \in 0 .. (i - 1) : failures[j] = NoFailure}
  /\ live' = live \ {callerBatch[c]}
  /\ executionOwner' = NoCaller
  /\ UNCHANGED <<finishedOwner, task, failures, remaining, process, callerLocals,
                 callerDepth, workers, visits, failed>>

-----------------------------------------------------------------------------
(* worker_loop(worker_index, seen_generation) on background worker w.       *)

WorkerGoto(w, from, to) ==
  /\ workerPc[w] = from
  /\ workerPc' = [workerPc EXCEPT ![w] = to]

\* One critical section of ready_mutex_: exit, wait, sit the batch out, or
\* take the snapshot of the published task.
ObserveStop(w) ==
  /\ stopping
  /\ WorkerGoto(w, "observe", "exited")
  /\ UNCHANGED workerLocals

ObserveNothing(w) ==
  /\ ~stopping /\ generation = seen[w]
  /\ WorkerGoto(w, "observe", "waiting")
  /\ UNCHANGED workerLocals

ObserveBatch(w) ==
  /\ ~stopping /\ generation # seen[w]
  /\ WorkerGoto(w, "observe", IF Included(w) THEN "enter" ELSE "observe")
  /\ Adopt(w)
  /\ workerContext' = [workerContext EXCEPT ![w] = context]
  /\ hot' = [hot EXCEPT ![w] = Included(w)]

Observe(w) ==
  /\ ObserveStop(w) \/ ObserveNothing(w) \/ ObserveBatch(w)
  /\ UNCHANGED <<mutexes, task, failures, remaining, process, callers,
                 workerDepth, history>>

\* A hot worker that spins on the generation sees the stop without the mutex.
SpinStops(w) ==
  /\ hot[w] /\ generation = seen[w] /\ stopping
  /\ WorkerGoto(w, "observe", "exited")
  /\ UNCHANGED <<mutexes, task, failures, remaining, process, callers,
                 workerLocals, workerDepth, history>>

\* callback(context, worker_index)
WorkerEnter(w) ==
  /\ WorkerGoto(w, "enter", "running")
  /\ workerDepth' = [workerDepth EXCEPT ![w] = @ + 1]
  /\ Enter(w)
  /\ UNCHANGED <<mutexes, task, failures, remaining, process, callers,
                 workerLocals, live, failed, rethrown>>

WorkerNested(w) ==
  /\ WorkerGoto(w, "running", NestedCall(workerDepth[w]))
  /\ UNCHANGED <<mutexes, task, failures, remaining, process, callers,
                 workerLocals, workerDepth, history>>

WorkerLeave(w) ==
  /\ \/ WorkerGoto(w, "running", "decrement")
     \/ WorkerGoto(w, "inline", "decrement")
  /\ workerDepth' = [workerDepth EXCEPT ![w] = ScopeEnd(@)]
  /\ Leave(workerContext[w], w)
  /\ UNCHANGED <<mutexes, task, remaining, process, callers, workerLocals, live,
                 visits, rethrown>>

\* fetch_sub: the worker that takes the last unit goes on to notify.
Decrement(w) ==
  /\ WorkerGoto(w, "decrement", IF remaining = 1 THEN "signal" ELSE "observe")
  /\ remaining' = remaining - 1
  /\ UNCHANGED <<mutexes, task, failures, process, callers, workerLocals,
                 workerDepth, history>>

\* finished_.notify_one() with finished_mutex_ held.
NotifyOne ==
  \/ \E c \in Callers : CallerGoto(c, "parked", "lockFinished")
  \/ /\ \A c \in Callers : callerPc[c] # "parked"
     /\ UNCHANGED callerPc

NotifyFinished(w) ==
  /\ WorkerGoto(w, "signal", "observe")
  /\ FinishedFree
  /\ NotifyOne
  /\ UNCHANGED <<mutexes, task, failures, remaining, process, callerLocals,
                 callerDepth, workerLocals, workerDepth, history>>

-----------------------------------------------------------------------------
\* A condition variable may wake a waiter without a notification.
Spurious ==
  /\ spurious < MaxSpurious
  /\ spurious' = spurious + 1
  /\ \/ /\ \E w \in Workers : WorkerGoto(w, "waiting", "observe")
        /\ UNCHANGED callerPc
     \/ /\ \E c \in Callers : CallerGoto(c, "parked", "lockFinished")
        /\ UNCHANGED workerPc
  /\ UNCHANGED <<mutexes, task, failures, remaining, stopping, joining, pool,
                 callerLocals, callerDepth, workerLocals, workerDepth, history>>

\* The destructor at process exit, when no thread is inside run(): the flag
\* is set under ready_mutex_, then the waiting workers are notified, once.
Stop ==
  /\ ~stopping
  /\ executionOwner = NoCaller
  /\ stopping' = TRUE
  /\ UNCHANGED <<mutexes, task, failures, remaining, joining, pool, spurious,
                 callers, workers, history>>

NotifyStop ==
  /\ stopping /\ ~joining
  /\ joining' = TRUE
  /\ WakeAll
  /\ UNCHANGED <<mutexes, task, failures, remaining, stopping, pool, spurious,
                 callers, workerLocals, workerDepth, history>>

\* All threads were joined: the process ends.
Joined ==
  /\ joining
  /\ \A w \in Workers : workerPc[w] \in {"absent", "exited"}
  /\ UNCHANGED vars

-----------------------------------------------------------------------------
Init ==
  /\ executionOwner = NoCaller /\ finishedOwner = NoCaller
  /\ generation = 0 /\ context = 0 /\ activeBackground = 0 /\ remaining = 0
  /\ stopping = FALSE /\ joining = FALSE /\ pool = 0 /\ spurious = 0
  /\ failures = [i \in Indices |-> NoFailure]
  /\ callerPc = [c \in Callers |-> "idle"]
  /\ callerWidth = [c \in Callers |-> 0]
  /\ callerBatch = [c \in Callers |-> 0]
  /\ callerDepth = [c \in Callers |-> 0]
  /\ workerPc = [w \in Workers |-> "absent"]
  /\ seen = [w \in Workers |-> 0]
  /\ workerContext = [w \in Workers |-> 0]
  /\ hot = [w \in Workers |-> FALSE]
  /\ workerDepth = [w \in Workers |-> 0]
  /\ live = {} /\ failed = {} /\ rethrown = {}
  /\ visits = [i \in Indices |-> 0]

CallerStep(c) ==
  \/ StartWorker(c) \/ Publish(c) \/ NotifyReady(c)
  \/ CallerEnter(c) \/ CallerLeave(c) \/ Spin(c)
  \/ LockFinished(c) \/ EvaluatePredicate(c) \/ Block(c) \/ Collect(c)

WorkerStep(w) ==
  \/ Observe(w) \/ SpinStops(w)
  \/ WorkerEnter(w) \/ WorkerLeave(w) \/ Decrement(w) \/ NotifyFinished(w)

Next ==
  \/ \E c \in Callers :
       \/ \E w \in 2 .. MaxWidth : Submit(c, w)
       \/ CallerStep(c) \/ StartWorkerFails(c) \/ CallerNested(c)
  \/ \E w \in Workers : WorkerStep(w) \/ WorkerNested(w)
  \/ Spurious \/ Stop \/ NotifyStop \/ Joined

\* The scheduler runs every thread.  Nothing forces a caller to submit, a
\* callback to nest, a thread construction to fail, a wake to be spurious or
\* the process to stop.
Fairness ==
  /\ \A c \in Callers : WF_vars(CallerStep(c))
  /\ \A w \in Workers : WF_vars(WorkerStep(w))
  /\ WF_vars(NotifyStop)

Spec == Init /\ [][Next]_vars /\ Fairness

-----------------------------------------------------------------------------
(* Properties                                                               *)

CallerPcs == {"idle", "grow", "notify", "own", "running", "inline", "nestedLock",
              "check", "lockFinished", "predicate", "block", "parked", "collect"}
WorkerPcs == {"absent", "observe", "waiting", "enter", "running", "inline",
              "nestedLock", "decrement", "signal", "exited"}

SharedTypes ==
  /\ executionOwner \in Callers \cup {NoCaller}
  /\ finishedOwner \in Callers \cup {NoCaller}
  /\ generation \in Nat /\ context \in Nat
  /\ activeBackground \in Indices /\ remaining \in Indices
  /\ pool \in Indices /\ spurious \in Nat
  /\ failures \in [Indices -> Nat]

CallerTypes ==
  /\ callerPc \in [Callers -> CallerPcs]
  /\ callerWidth \in [Callers -> 0 .. MaxWidth]
  /\ callerBatch \in [Callers -> Nat]
  /\ callerDepth \in [Callers -> 0 .. 1]

WorkerTypes ==
  /\ workerPc \in [Workers -> WorkerPcs]
  /\ seen \in [Workers -> Nat]
  /\ workerContext \in [Workers -> Nat]
  /\ workerDepth \in [Workers -> 0 .. 1]

FlagTypes ==
  stopping \in BOOLEAN /\ joining \in BOOLEAN /\ hot \in [Workers -> BOOLEAN]

HistoryTypes ==
  /\ live \in SUBSET Nat
  /\ visits \in [Indices -> Nat]
  /\ failed \in SUBSET Indices /\ rethrown \in SUBSET Indices

\* Type invariant of the executor's members, the threads' locals and the history.
TypeOK == SharedTypes /\ CallerTypes /\ WorkerTypes /\ FlagTypes /\ HistoryTypes

\* A worker between its snapshot and its decrement holds the stack context of
\* a run() that has not returned (deterministic_executor.h:274 dereferences it).
NoDeadContext ==
  \A w \in Workers :
    workerPc[w] \in {"enter", "running", "inline", "decrement"} =>
      workerContext[w] \in live

\* When run() is about to return, every index of the batch was called exactly
\* once and no other index was: skipped generations lose and repeat nothing.
ExactlyOnce ==
  \A c \in Callers : callerPc[c] = "collect" =>
    \A i \in Indices : visits[i] = IF i < callerWidth[c] THEN 1 ELSE 0

\* The failure run() rethrows is the one of the lowest failing index of this
\* batch, and there is one exactly when some callback of this batch threw.
RethrowsFirstFailure ==
  [][\A c \in Callers : callerPc[c] = "collect" /\ callerPc'[c] = "idle" =>
       rethrown' = {i \in failed : \A j \in failed : i <= j}]_vars

\* No callback waits for execution_mutex_, which its own batch holds.
NestedNeverLocks ==
  /\ \A c \in Callers : callerPc[c] # "nestedLock"
  /\ \A w \in Workers : workerPc[w] # "nestedLock"

\* A worker outside the width of the running batch neither calls back nor
\* takes part in the countdown.
ExcludedWorkersIdle ==
  \A c \in Callers : executionOwner = c /\ callerPc[c] # "grow" =>
    \A w \in Workers : w >= callerWidth[c] =>
      workerPc[w] \in {"absent", "observe", "waiting", "exited", "signal"}

-----------------------------------------------------------------------------
(* The inductive invariant behind the safety properties, by parts.          *)

Open(c) == callerPc[c] \notin {"idle", "grow"}
Busy(w) == workerPc[w] \in {"enter", "running", "inline", "decrement"}
Unfinished == {w \in 1 .. activeBackground : Busy(w) \/ seen[w] # generation}

\* execution_mutex_ is held exactly by the caller inside run().
Ownership ==
  /\ \A c \in Callers : callerPc[c] # "idle" <=> executionOwner = c
  /\ stopping => executionOwner = NoCaller

\* What an open run() published is what workers read.
Publication ==
  \A c \in Callers :
    /\ callerPc[c] # "idle" => callerWidth[c] \in 2 .. MaxWidth
    /\ Open(c) => /\ callerBatch[c] = generation /\ context = generation
                  /\ generation \in live /\ generation > 0
                  /\ activeBackground = callerWidth[c] - 1

\* The pool is a prefix of the workers, at least as wide as the last batch; a
\* busy worker has taken the open batch, which includes it.
PoolInv ==
  /\ activeBackground <= pool
  /\ \A w \in Workers :
       /\ workerPc[w] = "absent" <=> w > pool
       /\ seen[w] <= generation
       /\ Busy(w) => /\ seen[w] = generation /\ workerContext[w] = generation
                     /\ w <= activeBackground

\* The countdown counts the workers that still owe the batch their callback.
Countdown ==
  /\ remaining = Cardinality(Unfinished)
  /\ (\A c \in Callers : ~Open(c)) => remaining = 0
  /\ \A c \in Callers : callerPc[c] = "collect" => remaining = 0

\* Who has called back so far in the open batch.
Calls ==
  \A c \in Callers : Open(c) => \A i \in Indices :
    visits[i] =
      IF \/ i = 0 /\ callerPc[c] \in {"notify", "own"}
         \/ i > activeBackground
         \/ i > 0 /\ (seen[i] # generation \/ workerPc[i] = "enter")
      THEN 0 ELSE 1

\* The kept exceptions are those of the callbacks of the open batch.
FailuresInv ==
  \A c \in Callers : Open(c) =>
    /\ failed \subseteq 0 .. activeBackground
    /\ \A i \in 0 .. activeBackground : failures[i] # NoFailure <=> i \in failed

\* A thread's depth is one inside a callback and zero outside.
DepthInv ==
  /\ \A c \in Callers :
       callerDepth[c] = IF callerPc[c] \in {"running", "inline"} THEN 1 ELSE 0
  /\ \A w \in Workers :
       workerDepth[w] = IF workerPc[w] \in {"running", "inline"} THEN 1 ELSE 0

\* The inductive invariant: mutual exclusion, publication, countdown, calls,
\* failures and depths of DeterministicExecutor::run and worker_loop together.
IInv ==
  /\ TypeOK /\ Ownership /\ Publication /\ PoolInv /\ Countdown /\ Calls
  /\ FailuresInv /\ DepthInv /\ NestedNeverLocks

-----------------------------------------------------------------------------
\* The pool implements ParallelBatch: a batch starts at its publication, an
\* index is done once its callback has returned.
InCallback == {"running", "inline", "nestedLock"}
Done ==
  {i \in Indices : /\ visits[i] > 0
                   /\ IF i = 0 THEN \A c \in Callers : callerPc[c] \notin InCallback
                               ELSE workerPc[i] \notin InCallback}
Runner == IF \E c \in Callers : callerPc[c] = "grow" THEN NoCaller
          ELSE executionOwner
Abstract == INSTANCE ParallelBatch WITH
  runner <- Runner, width <- activeBackground + 1, done <- Done, result <- rethrown
ImplementsParallelBatch == Abstract!Spec

\* Every run() that got the executor returns: no wake-up is lost.
EveryRunReturns ==
  \A c \in Callers : (callerPc[c] = "grow") ~> (callerPc[c] = "idle")

\* The destructor's joins end: every worker that was started exits.
StopJoins ==
  stopping ~> \A w \in Workers : workerPc[w] \in {"absent", "exited"}
=============================================================================
