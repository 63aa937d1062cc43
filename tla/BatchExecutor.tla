---------------------------- MODULE BatchExecutor ----------------------------
(***************************************************************************)
(* The worker pool that utils/class_dict.cpp, utils/setting.cpp,            *)
(* utils/network.cpp and topology/topological_metric_calculator.cpp each    *)
(* keep a private copy of, and deterministic_parallel_for on top of it      *)
(* (translated from class_dict.cpp).                                        *)
(*                                                                          *)
(* Everything the threads share is guarded by one monitor, state_mutex_     *)
(* with the conditions ready_ and finished_; a critical section of it is    *)
(* one step.  A worker that comes back from its block counts itself and     *)
(* evaluates its wait predicate without letting go of the mutex.            *)
(***************************************************************************)
EXTENDS Naturals

CONSTANTS
  Callers,      \* threads that call deterministic_parallel_for
  NoCaller,     \* "nobody holds execution_mutex_"
  MaxWorkers,   \* largest worker count
  MaxItems,     \* bound: items of a batch
  MaxBatches,   \* bound: batches published in one behaviour
  MaxSpurious   \* bound: spurious wakes

ASSUME ConstantsAssumption ==
  /\ NoCaller \notin Callers
  /\ MaxWorkers \in Nat /\ MaxWorkers >= 2
  /\ MaxItems \in Nat /\ MaxItems >= MaxWorkers
  /\ MaxBatches \in Nat /\ MaxSpurious \in Nat

Threads == 0 .. (MaxWorkers - 1)     \* thread 0 of a batch is its caller
Background == Threads \ {0}
Items == 0 .. (MaxItems - 1)

VARIABLES
  executionOwner,           \* execution_mutex_
  generation, active, completed, stopping,    \* guarded by state_mutex_
  joining, pool,            \* the destructor joins; threads started so far
  callerPc, workerPc,
  requested, itemCount,     \* worker_count and item_count of the call inside
  task,                     \* task_: set or not, and the counts it captured
  seen,                     \* seen_generation of each worker
  next,                     \* what each thread calls next of its block
  inside,                   \* the thread-local flag of each thread of the batch
  failures,                 \* the vector of the open call, on its caller's stack
  spurious,
  called, rethrown          \* history: items called; what the last call threw

monitor == <<task, generation, active, completed>>
process == <<stopping, joining, pool>>
call == <<requested, itemCount>>
locals == <<next, inside>>
history == <<called, rethrown>>
vars == <<executionOwner, monitor, process, callerPc, workerPc, call, seen,
          locals, failures, spurious, history>>

-----------------------------------------------------------------------------
(* Faulty variants, each a plausible slip; none is used by Spec.            *)
NestedCall_Unguarded(t) == "nestedLock"         \* the flag is not consulted
StartOver_Kept == UNCHANGED completed           \* the count is not reset

-----------------------------------------------------------------------------
\* Static contiguous blocks, the first item_count % worker_count one longer.
Least(a, b) == IF a < b THEN a ELSE b
Begin(t) == t * (task.items \div task.workers)
            + Least(t, task.items % task.workers)
End(t) == Begin(t) + task.items \div task.workers
          + (IF t < task.items % task.workers THEN 1 ELSE 0)

\* completed_background_workers_ when a batch is published.
StartOver == completed' = 0

\* A nested call runs inline when the thread is inside a task; else it would
\* lock execution_mutex_.
NestedCall(t) == IF inside[t] THEN "inline" ELSE "nestedLock"

\* ready_.notify_all()
Woken == {w \in Background : workerPc[w] = "waiting"}
WakeAll == workerPc' = [w \in Background |-> IF w \in Woken THEN "observe"
                                             ELSE workerPc[w]]

\* A thread with its block left to do, or done.
Started(t) == /\ next' = [next EXCEPT ![t] = Begin(t)]
              /\ inside' = [inside EXCEPT ![t] = TRUE]

\* function(index) returns, or throws and the exception is kept in its slot.
CallItem(t) ==
  /\ next[t] < End(t)
  /\ called' = called \cup {next[t]}
  /\ failures' \in {failures, failures \cup {next[t]}}
  /\ next' = [next EXCEPT ![t] = @ + 1]
  /\ UNCHANGED <<executionOwner, monitor, process, call, seen, inside, spurious,
                 rethrown>>

-----------------------------------------------------------------------------
(* The caller: deterministic_parallel_for and run.                          *)

CallerGoto(c, from, to) ==
  /\ callerPc[c] = from
  /\ callerPc' = [callerPc EXCEPT ![c] = to]

\* Two or more workers are worth it: the call takes execution_mutex_.
Submit(c, k, n) ==
  /\ CallerGoto(c, "idle", "grow")
  /\ ~stopping
  /\ generation < MaxBatches
  /\ executionOwner = NoCaller
  /\ executionOwner' = c
  /\ requested' = k /\ itemCount' = n
  /\ UNCHANGED <<monitor, process, workerPc, seen, locals, failures, spurious,
                 history>>

\* The generation a new thread compares with is read by its creator.
StartWorker(c) ==
  /\ callerPc[c] = "grow"
  /\ pool < requested - 1
  /\ pool' = pool + 1
  /\ workerPc' = [workerPc EXCEPT ![pool + 1] = "observe"]
  /\ seen' = [seen EXCEPT ![pool + 1] = generation]
  /\ UNCHANGED <<executionOwner, monitor, stopping, joining, callerPc, call,
                 locals, failures, spurious, history>>

\* std::thread throws: the call leaves; the threads it started stay.
StartWorkerFails(c) ==
  /\ CallerGoto(c, "grow", "idle")
  /\ pool < requested - 1
  /\ executionOwner' = NoCaller
  /\ UNCHANGED <<monitor, process, workerPc, call, seen, locals, failures,
                 spurious, history>>

\* The task, with a vector of failures that is new, becomes visible.
Publish(c) ==
  /\ CallerGoto(c, "grow", "notify")
  /\ pool >= requested - 1
  /\ task' = [set |-> TRUE, workers |-> requested, items |-> itemCount]
  /\ generation' = generation + 1
  /\ active' = requested - 1
  /\ StartOver
  /\ failures' = {} /\ called' = {}
  /\ UNCHANGED <<executionOwner, process, workerPc, call, seen, locals, spurious,
                 rethrown>>

\* ready_.notify_all(), then the caller enters the task as worker 0.
NotifyReady(c) ==
  /\ CallerGoto(c, "notify", "running")
  /\ WakeAll
  /\ Started(0)
  /\ UNCHANGED <<executionOwner, monitor, process, call, seen, failures, spurious,
                 history>>

CallerCalls(c) ==
  /\ callerPc[c] \in {"running", "inline"}
  /\ callerPc' = [callerPc EXCEPT ![c] = "running"]
  /\ CallItem(0)
  /\ UNCHANGED workerPc

CallerNested(c) ==
  /\ next[0] < End(0)
  /\ CallerGoto(c, "running", NestedCall(0))
  /\ UNCHANGED <<executionOwner, monitor, process, workerPc, call, seen, locals,
                 failures, spurious, history>>

CallerReturns(c) ==
  /\ CallerGoto(c, "running", "wait")
  /\ next[0] = End(0)
  /\ inside' = [inside EXCEPT ![0] = FALSE]
  /\ UNCHANGED <<executionOwner, monitor, process, workerPc, call, seen, next,
                 failures, spurious, history>>

\* finished_.wait: the predicate is evaluated under state_mutex_, and task_ is
\* cleared before the mutex is let go.
AllCompleted == completed = active
Wait(c) ==
  /\ CallerGoto(c, "wait", IF AllCompleted THEN "collect" ELSE "parked")
  /\ task' = [task EXCEPT !.set = @ /\ ~AllCompleted]
  /\ UNCHANGED <<executionOwner, generation, active, completed, process, workerPc,
                 call, seen, locals, failures, spurious, history>>

\* The mutex is released and the first failure in item order is rethrown; the
\* vector of failures dies.
Collect(c) ==
  /\ CallerGoto(c, "collect", "idle")
  /\ executionOwner' = NoCaller
  /\ rethrown' = {i \in failures : \A j \in failures : i <= j}
  /\ UNCHANGED <<monitor, process, workerPc, call, seen, locals, failures,
                 spurious, called>>

-----------------------------------------------------------------------------
(* worker_loop on background thread w.                                      *)

\* The wait predicate of ready_: what a worker does when it finds it false.
Idle(w) == generation = seen[w] /\ ~stopping

\* One critical section: exit, wait, sit the batch out, or take its task.
Observe(w) ==
  /\ workerPc[w] = "observe"
  /\ \/ /\ Idle(w)
        /\ workerPc' = [workerPc EXCEPT ![w] = "waiting"]
        /\ UNCHANGED <<seen, locals>>
     \/ /\ stopping
        /\ workerPc' = [workerPc EXCEPT ![w] = "exited"]
        /\ UNCHANGED <<seen, locals>>
     \/ /\ ~stopping /\ generation # seen[w]
        /\ seen' = [seen EXCEPT ![w] = generation]
        /\ IF w > active
             THEN /\ workerPc' = [workerPc EXCEPT ![w] = "waiting"]
                  /\ UNCHANGED locals
             ELSE /\ workerPc' = [workerPc EXCEPT ![w] = "running"]
                  /\ Started(w)
  /\ UNCHANGED <<executionOwner, monitor, process, callerPc, call, failures,
                 spurious, history>>

WorkerCalls(w) ==
  /\ workerPc[w] \in {"running", "inline"}
  /\ workerPc' = [workerPc EXCEPT ![w] = "running"]
  /\ CallItem(w)
  /\ UNCHANGED callerPc

WorkerNested(w) ==
  /\ workerPc[w] = "running"
  /\ next[w] < End(w)
  /\ workerPc' = [workerPc EXCEPT ![w] = NestedCall(w)]
  /\ UNCHANGED <<executionOwner, monitor, process, callerPc, call, seen, locals,
                 failures, spurious, history>>

\* Back from the task: counted, the last one notifies the caller, and the
\* predicate of ready_ is evaluated in the same critical section.
Complete(w) ==
  /\ workerPc[w] = "running"
  /\ next[w] = End(w)
  /\ workerPc' = [workerPc EXCEPT ![w] = IF Idle(w) THEN "waiting"
                                                ELSE "observe"]
  /\ completed' = completed + 1
  /\ inside' = [inside EXCEPT ![w] = FALSE]
  /\ callerPc' = [c \in Callers |->
                    IF callerPc[c] = "parked" /\ completed + 1 = active
                    THEN "wait" ELSE callerPc[c]]
  /\ UNCHANGED <<executionOwner, task, generation, active, process, call, seen, next,
                 failures, spurious, history>>

-----------------------------------------------------------------------------
Spurious ==
  /\ spurious < MaxSpurious
  /\ spurious' = spurious + 1
  /\ \/ /\ \E w \in Background :
             /\ workerPc[w] = "waiting"
             /\ workerPc' = [workerPc EXCEPT ![w] = "observe"]
        /\ UNCHANGED callerPc
     \/ /\ \E c \in Callers : CallerGoto(c, "parked", "wait")
        /\ UNCHANGED workerPc
  /\ UNCHANGED <<executionOwner, monitor, process, call, seen, locals, failures,
                 history>>

\* The destructor of the static pool, when no thread is inside run().
Stop ==
  /\ ~stopping /\ executionOwner = NoCaller
  /\ stopping' = TRUE
  /\ UNCHANGED <<executionOwner, monitor, joining, pool, callerPc, workerPc, call,
                 seen, locals, failures, spurious, history>>

NotifyStop ==
  /\ stopping /\ ~joining
  /\ joining' = TRUE
  /\ WakeAll
  /\ UNCHANGED <<executionOwner, monitor, stopping, pool, callerPc, call, seen,
                 locals, failures, spurious, history>>

Joined ==
  /\ joining
  /\ \A w \in Background : workerPc[w] \in {"absent", "exited"}
  /\ UNCHANGED vars

Init ==
  /\ executionOwner = NoCaller
  /\ generation = 0 /\ active = 0 /\ completed = 0
  /\ stopping = FALSE /\ joining = FALSE /\ pool = 0 /\ spurious = 0
  /\ callerPc = [c \in Callers |-> "idle"]
  /\ workerPc = [w \in Background |-> "absent"]
  /\ requested = 2 /\ itemCount = 2 /\ task = [set |-> FALSE, workers |-> 1, items |-> 1]
  /\ seen = [w \in Background |-> 0]
  /\ next = [t \in Threads |-> 0]
  /\ inside = [t \in Threads |-> FALSE]
  /\ failures = {} /\ called = {} /\ rethrown = {}

CallerStep(c) ==
  \/ StartWorker(c) \/ Publish(c) \/ NotifyReady(c) \/ CallerCalls(c)
  \/ CallerReturns(c) \/ Wait(c) \/ Collect(c)

WorkerStep(w) == Observe(w) \/ WorkerCalls(w) \/ Complete(w)

Next ==
  \/ \E c \in Callers :
       \/ \E k \in 2 .. MaxWorkers : \E n \in k .. MaxItems : Submit(c, k, n)
       \/ CallerStep(c) \/ StartWorkerFails(c) \/ CallerNested(c)
  \/ \E w \in Background : WorkerStep(w) \/ WorkerNested(w)
  \/ Spurious \/ Stop \/ NotifyStop \/ Joined

\* Every thread is scheduled; nobody has to submit, nest or stop.
Fairness ==
  /\ \A c \in Callers : WF_vars(CallerStep(c))
  /\ \A w \in Background : WF_vars(WorkerStep(w))
  /\ WF_vars(NotifyStop)

Spec == Init /\ [][Next]_vars /\ Fairness

-----------------------------------------------------------------------------
(* Properties                                                               *)

\* A background thread inside the task works for the call that is open: its
\* slots are in a vector that exists, and the count it owes is of this batch.
TasksBelongToTheOpenCall ==
  \A w \in Background : workerPc[w] \in {"running", "inline", "nestedLock"} =>
    /\ task.set
    /\ \E c \in Callers : callerPc[c] \notin {"idle", "grow", "collect"}
    /\ seen[w] = generation /\ w <= active

\* Seen from its items, deterministic_parallel_for is ParallelBatch: every item
\* once, then the failure of the lowest item, and it does come to an end.
Runner == IF \E c \in Callers : callerPc[c] = "grow" THEN NoCaller
          ELSE executionOwner
Batch == INSTANCE ParallelBatch WITH
  MaxWidth <- MaxItems, runner <- Runner, width <- task.items, done <- called,
  failed <- failures, result <- rethrown
ImplementsParallelBatch == Batch!Spec
=============================================================================
