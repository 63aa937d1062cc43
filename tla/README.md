# VirneCpp in TLA+

VirneCpp (`src/README.md`) is a C++17 runtime for virtual network embedding:
virtual network requests arrive at and leave a physical network over time, a
solver maps the nodes and links of each arrival onto physical nodes and paths,
and an environment accepts or rejects the mapping and gives its resources back
when the request leaves. This directory holds TLA+ models of the parts of the
runtime where order matters: who owns the resources at which moment, what is
undone when a step fails, how worker threads share a batch, what a dataset on
disk can be read as while it is written, and that sorts and searches answer what
a simple definition says.

Source paths below are relative to `src/virne/`.

- [1. The system](#1-the-system)
- [2. Modules](#2-modules)
- [3. What each run checks](#3-what-each-run-checks)
- [4. What is proved](#4-what-is-proved)
- [5. Fairness](#5-fairness)
- [6. Where the code and its documents disagree](#6-where-the-code-and-its-documents-disagree)
- [7. What is not modelled](#7-what-is-not-modelled)
- [8. Plan](#8-plan)

## 1. The system

### Components and what makes each correct

| Component | State it keeps | Operations | Correct when |
| --- | --- | --- | --- |
| Deterministic executor, `utils/deterministic_executor.h` | process-wide pool of workers, generation, pointer to the open batch, countdown, failure slots | `run`, nested ranges, growth of the pool, shutdown | every index of a batch is called once, the lowest failure is rethrown, no worker touches a batch that has returned, no wake-up is lost |
| Private batch executors, copies in `utils/class_dict.cpp`, `utils/setting.cpp`, `utils/network.cpp`, `network/topology/topological_metric_calculator.cpp` | the same with one mutex and a counter | `deterministic_parallel_for` | every item once, lowest failure, nested calls inline |
| Environment, `core/environment.cpp` | phase, event schedule and cursor, record index of every arrival | `reset`, `solver_transaction`, `step`, `drain_leaves` | a failed step changes nothing; an accepted request holds what it was admitted with until its leave |
| Controller transactions, `PreparedControllerMutation` in `core/controller/controller.cpp` | one mutation per request, open checkpoint, pool of checkpoint buffers | `begin_transaction`, `commit_transaction`, `rollback_transaction`, `deploy`, `release` | rollback restores exactly; a checkpoint is open only while its arrival is decided |
| Recorder, `core/recorder.cpp` | history of records, arrival index, service counters, memberships of physical nodes | `count`, `add_record`, `reset` | a leave finds the arrival of its own request; counters follow the services |
| Online system, `system/online_system.cpp` | epoch summaries | `run` | every epoch steps every arrival, releases every leave and ends |
| Node and link mapper, controller placement interface, `core/controller/` | the tables of a Solution (slots, paths and the journals of what each took), live resources | `place`, `route`, `undo_*`, `place_and_route`, `undo_place_and_route`, `link_mapping` | tables, journals and resources tell the same story at every moment |
| Candidate search, in both mappers | candidates, window, outcomes of the workers | ordered search in windows | same answer as a sequential search |
| RL instance environment, `solver/learning/rl_core/instance_environment.cpp` | placement so far, bans of revoked placements, interactions | `reset`, `action_masks`, `step`, `revoke`, `reject` | success means a whole mapping; no placement is revoked twice; episodes end |
| BFS solvers, `solver/heuristic/bfs_trials.cpp` | queue of hosts, ranking, limits | `bfs_deploy`, `solve_ranked_mutable` | a host carries one node; commit means everything mapped, anything else leaves no trace |
| Meta-heuristic solvers, `solver/meta_heuristic/meta_heuristic.cpp` | population, personal and global best, tabu moves | five searches, `solve_mutable` | a position puts one node on a host; the best position seen is the one deployed |
| Rankers' sort, `solver/rank/python310_timsort.h`, `python310_generic_timsort.h` | values, temporary half, stack of pending runs | `sort` | Python's stable order; no entry lost when NaN scores compare inconsistently |
| Offline system, `system/offline_system.cpp` | one working clone, a mutation per request | `run` | requests do not see each other, whatever a solver does |
| Time-window and changeable systems, `system/time_window_system.cpp`, `changeable_system.cpp` | windows; stages and renumbered epochs | `run` | a step counts in the window of its arrival and epoch; an epoch in one stage |
| Dispatch of `run_main`, `system/main_runtime.cpp` | configured mode | `run_main` | every mode ends |
| Dataset store, `network/virtual_network_request_simulator_io.cpp` | files of a directory, staging directories, cache of a process | `save_dataset`, `load_dataset` | a load is as new as the order of the files promises; a completed save can be loaded |
| Request simulator, `network/virtual_network_*` | requests, schedule of events | `renew` | a schedule pairs arrivals and leaves |
| Solver registry, `solver/base_solver.cpp` | slots, names, frozen flag | `register_solver`, `freeze`, `resolve`, `create` | nothing is written once readers go without the lock |
| RL online environment, `solver/learning/rl_core/online_environment.cpp` | instance of the current arrival, credited reward | `reset`, `step`, `step_solution`, `finish_instance` | the instance is one of the live network, its Solution submitted once, its reward credited once |
| Logger, `core/logger.cpp` | sinks, files, metric schema | `log`, `log_batch`, `close` | lines of a batch keep their order, also up to a failure |

The remaining components compute values: rankings, constraint checks,
counters, features, tensors, random data, files. `PROJECT.json` lists all of
them with the reason they are inputs or choices of the models.

### How they interact

`OnlineSystem::run` resets the environment, and for each arrival opens
`solver_transaction()`, a checkpoint of the physical network in the request's
`PreparedControllerMutation`. The solver works on the live network through that
mutation and the mappers and returns a Solution that is *committed* (its
resources are taken), or *detached* (they are not, the checkpoint decides).
`step()` counts the Solution, checks it, deploys a detached one, has the
recorder save it, closes the checkpoint, moves the cursor and then drains the
leave events that follow, each of which releases the share its arrival's record
holds. Every call on this way can throw. Mappers and other batch code fan out to
the executor and block until it is done, so that threads never meet outside a
batch; the lifecycle itself runs on one thread.

`run_main` picks one of four systems. The time-window system is the same loop
with a second count, the changeable system runs an online system per stage, on
environments that stages may share, and the offline system has no environment:
it opens and rolls back the transaction around each solver itself. For learning,
`OnlineEnvironment` stands where the online system stands: it clones the network
for an `InstanceEnvironment`, lets an agent work on the clone, and submits what
came out as a detached Solution. Datasets are the only state that outlives a
process: `save_dataset` writes files one by one, others may load meanwhile.

### Which behaviours are hard

- *Threads*: workers that sleep through batches, are excluded by a narrower
  batch, or wake late; countdown and notification under different locks;
  callbacks that submit again; thread creation that fails half-way.
- *Partial failure*: exceptions between the subtraction of a resource and the
  journal entry, between deployment and the record, between release and the
  record.
- *Retry*: a step or a leave tried again after it threw, by hand or through
  `finish_instance()`.
- *Crashes and other processes*: a save that dies between two files, or is read
  while it is written.
- *Long sequences of legal calls*: place, route, revoke and re-place in an
  episode, with failed routes that leave an empty entry in the tables.
- *Boundaries*: windows and blocks by integer division, the last event of an
  epoch, the interaction limit, the 85 places of the run stack.
- *Inconsistent comparisons*: NaN scores in a sort that gallops.

`PROJECT.json` lists them at the lines where they bite.

## 2. Modules

| Module | Models | Extends or instances |
| --- | --- | --- |
| `ParallelBatch` | abstract: what a batch executor promises | |
| `DeterministicExecutor` | `utils/deterministic_executor.h` | instances `ParallelBatch` |
| `DeterministicExecutorProofs` | its theorems | |
| `BatchExecutor` | the private pools and `deterministic_parallel_for`, from `utils/class_dict.cpp` | instances `ParallelBatch` |
| `BatchExecutorProofs` | its theorems, and that it refines `ParallelBatch` | |
| `AdmissionControl` | abstract: shares are taken once and come back once | |
| `ControllerMutation` | transactions, checkpoint buffers, deploy and release | |
| `Recorder` | history, arrival index, counters, memberships | extends `ControllerMutation` |
| `Environment` | lifecycle, solver and direct caller around it | extends `Recorder`, instances `AdmissionControl` |
| `EnvironmentProofs` | its theorems | |
| `OnlineSystem` | the run loop as the caller of `Environment` | extends `Environment` |
| `TimeWindowSystem`, `ChangeableSystem`, `OfflineSystem` | the other three systems | extend `OnlineSystem` |
| `MainRuntime` | `run_main`: one of the four | extends all systems |
| `OnlineEnvironment` | the RL environment over the lifecycle | extends `Environment` |
| `DriverProofs` | theorems of `OnlineEnvironment`, which implements `Environment`, and of `MainRuntime` | extends both and `EnvironmentProofs` |
| `Totals` | totals of amounts over finite sets | |
| `CommonLemmas` | lemmas on totals, and induction over numbers | extends `Totals` |
| `Placement` | mapping tables, journals and resources | extends `Totals` |
| `InstanceEnvironment` | RL environment, joint, node-pair and placement modes | extends `Placement` |
| `BfsDeploy` | BFS solver | extends `Placement` |
| `MetaHeuristic` | the five population searches | |
| `HeuristicSolvers` | the solver a name is created as, one or the other | extends both |
| `PlacementProofs` | lemmas on `Placement`; theorems of `InstanceEnvironment`, `BfsDeploy` and `MetaHeuristic` | extends their modules and `CommonLemmas` |
| `ParallelBlocks` | block arithmetic of `deterministic_parallel_blocks` | |
| `CandidateSearch` | ordered parallel search | extends `ParallelBlocks` |
| `RunStack` | abstract: the pending runs of a sort, by their lengths | |
| `TimSort` | the sort: runs, insertion, merges, galloping | extends `RunStack` |
| `CandidateProofs` | theorems of `CandidateSearch` and of `TimSort`, which implements `RunStack` | extends both and `CommonLemmas` |
| `DatasetStore` | a dataset directory with several processes | |
| `DatasetStoreProofs` | its theorems | |

`MC*` modules give the constants of a run their values. Each module begins with a section of faulty variants:
operators that no specification uses and that state slips the properties can
tell from the code.

### Executors

`DeterministicExecutor` has a program counter for each caller and each
background worker. The critical sections of `ready_mutex_` are single steps.
`finished_mutex_` is explicit because the countdown is decremented outside it:
the caller's predicate, its going to sleep (`Block`) and the worker's decrement
and notification are separate steps. The bounded spins of the code only read,
so in the model they are the freedom to take the next step late; `SpinStops` is
the one place where a spin leaves without the mutex. `live` is the set of
contexts on the stacks of callers that are inside `run()`, `visits`, `failed` and
`rethrown` are history.

`BatchExecutor` differs in what the code does differently: everything is behind
one monitor, a worker that comes back counts itself and evaluates its wait
predicate in the same critical section (`Complete`), failures are kept per item
on the caller's stack, and a thread-local flag instead of a depth makes nested
calls run inline. It is shown to implement the same `ParallelBatch`, item by
item: `width` is the number of items and an index is done when its item was
called.

### Environment

The lifecycle is sequential, so `pc` names who has control: the caller, a solver
inside `solve_mutable`, the caller with a Solution in hand, or the loop of
`drain_leaves`. `step()` and each release are one action per way they end
(`StepRejects`, `StepAccepts`, `StepThrows`, `StepRatioThrows`, `StepSaveFails`,
`ReleaseCurrent`, `ReleaseSaveFails`, `ReleaseThrows`), because no other caller
can see the middle of them; the middle of a solver is visible and has actions of
its own: `SolverTakes`, `SolverGivesBack`, `SolverTears` (subtracted, not yet in
the journal), `SolverThrows`. Resources are one amount per slot, a slot being a
node or a link. A Solution is what it holds of each slot (`held`), its result and
how it is submitted; gates and validation are nondeterministic. The checkpoint is
the network as `begin_transaction` found it. Record positions are those of the
code's vector plus one, so that 0 means none.

`OnlineSystem` restricts the caller to the one the program has: `run` says where
the loop is, and each of its actions is an action of `Environment` together with
what the loop does next, an exception included, which leaves the run.

### Systems and runtime

A system drives the lifecycle, so its module extends `OnlineSystem` and adds what the
system keeps: `TimeWindowSystem` the sorted event times and the windows,
`ChangeableSystem` the slices of its stages, with a new or a used environment for each.
`OfflineSystem` has no environment and says which of its variables are what there:
`avail` is the working clone, `cursor` the request index. `MainRuntime` is the
configured choice between the four, and the run that checks them. Event times are
integers; a window is found by flooring division, as in the code.

### Learning

`OnlineEnvironment` has one action for each call of an agent. The call goes through
`Environment`'s own actions (`step()`, `drain_leaves()`, `reset()`) and returns or
throws with them. An agent may step the instance itself through `instance()`, and must then call
`finish_instance()`; in solution mode it only calls `step_solution()`. Two consequences of
the code the models show: after a leave whose record cannot be saved the
old instance stays and only `reset()` goes on (`lifecycle()` is const, so nobody can drain the
leave again), and a Solution whose submission threw is credited through `finish_instance()` with the
reward it brought from outside as well.

### Dataset store

`DatasetStore` is one directory: a file per request, the events, the setting. Each file is
written in two steps (truncated, then complete), each read is one. A save is a version, and
`files` holds the version of every file. A process may die anywhere, a write may fail,
a wide save stages its files in a directory inside `v_nets`, where a load
counts it as a network: a process that dies there leaves a directory that makes every later load fail, until
someone removes it by hand. So does one that cannot be removed: `~StageDirectory` drops the error, and the
save goes on or returns as if nothing had happened (`RemoveStage`, `stuck`). One process at a time saves;
the code has no lock for two.

A save takes the names of its events and setting files from the configuration of its simulator, a load only
looks for `events.yaml` and `v_sim_setting.yaml`. `known[v]` says which of the two save `v` calls so; what it
writes under another name is read by no load (`IsRead`). A save whose names are both other ones therefore
returns and still cannot be loaded, as the test "hard-coded load names" of
`porting/virtual_network_request_simulator_io_unit.cpp` expects; over an earlier dataset, it leaves that one's
events and setting beside its own requests. The settings that the repository ships use the names that loads look for.
The properties of the run are stated, and proved, for any names.

### Sorting

`TimSort` moves entries one at a time inside a merge, as the code does, so that a merge
can be caught with an inconsistent comparison. The galloping searches are given by what
they return (`GallopLeft`, `GallopRight`: any place a search on inconsistent comparisons can return).
`RunStack` is the same sort without entries: where runs lie, when neighbours merge. The two
headers of the code, for positions and for generic values, are the same algorithm; `RunStack` cites one,
`TimSort` the other.

### Placement

`Placement` is the safe mode of the mappers over one integer resource for each
node and link. As a virtual network does not change while it is mapped, a journal
entry is its key: the amount is the demand. `linkPaths[l] = {}` for a routed `l` is the
empty entry the code leaves after a failed route. The path finder is external:
any path of `Paths` that fits may be the answer, or none.

`InstanceEnvironment` and `BfsDeploy` take one link at a time, with `todo` the
links a running call has left. Masks, bans keyed by the prefix of slots, the
interaction limit, and what ends an episode come from the code. An agent that is
given an empty mask draws from all actions alike, banned ones included
(`Offered`), since masking gives each the same logit.

### Population searches

`MetaHeuristic` has one action per individual that is proposed for and one per
evaluated batch. A position's fitness is an input (`Landscapes`), so that what is left is
the control: what is crossed, copied, mutated and repaired, who is accepted, and which position
survives as the best. Random draws are choices; probabilities, temperatures and pheromones
only weigh them. Evaluation on clones fans out over `ParallelBlocks` and cannot change the live network.
`HeuristicSolvers` is the dispatch of `SolverRegistry::create`.

### Candidate search

`CandidateSearch` is the loop that `PreparedNodeMapper` and `PreparedLinkMapper`
each contain: a few sequential probes, then windows whose candidates the workers
check in any interleaving, then a scan of the outcomes in order. The thresholds
are constants. In the code windows start at 128 hosts or 64 paths, at most 8
candidates are probed first, and a window has at least 32; the run uses 3, 1 and
3, so that a list of seven has several windows and a short last one.

## 3. What each run checks

| Run | Instance | Properties |
| --- | --- | --- |
| `executor` | two interchangeable callers, widths 2 and 3, two batches, one spurious wake, failing thread construction, shutdown | `NoDeadContext`, `ExactlyOnce`, `ImplementsParallelBatch`, `EveryRunReturns`, `StopJoins` |
| `batch_executor` | two callers, two or three workers, two or three items, three batches | `TasksBelongToTheOpenCall`, `ImplementsParallelBatch` |
| `environment_safety` | two requests, one node, one link with two units, six schedules, one recorder failure at an arrival, two episodes | `TransactionScope`, `ReleaseFindsItsArrival`, `RecorderAgrees`, `NothingLeaks`, `FailedStepRestores`, `ImplementsAdmission` |
| `leave_retry`, `membership` | small | the disagreements of section 6 |
| `systems` | four modes, four schedules, three rows of event times, three lists of requests, none to two epochs, three stages, each with its own number of them, one failure anywhere | `EpochsComplete`, `WindowsAccountForEpochs`, `SlicesAreOfTheirStage`, `EveryRequestStartsAlike`, `RuntimeEnds` |
| `learning` | three schedules and an empty one, two recorder failures at arrivals and leaves, two episodes | `SnapshotIsLive`, `RewardCreditedOnce`, `NothingIsLost` |
| `instance_environment` | a triangle on a triangle of hosts with scarce links; joint and placement mode with masks, node-pair mode with any action; two episodes | `Balanced`, `RoutesFollowSlots`, `MappingIsWhole`, `NeverRevokedTwice`, `EpisodeEnds` |
| `candidate_search` | up to seven candidates, three workers, every outcome of every candidate | `SearchesInOrder` |
| `heuristic_solvers` | a triangle on four hosts, four rankings, three roots, four limits; or two to three genes on two to four hosts, two individuals, two iterations | `HostsOfferedOnce`, `CommittedIsWhole`, `RolledBackIsUntouched`, `OneNodePerHost`, `BestIsKept` |
| `timsort` | every array of up to five of {1, 2, 3, NaN}, runs of five and four that gallop, long patterns of run lengths; both directions; minimum run 4, gallop threshold 2, five places on the stack | `PendingInvariant`, `KeepsEntries`, `SortsStably`, `SortReturns` |
| `dataset_store` | two processes, one or two requests, two loads, one failure, one crash: three saves under the names that loads look for, or two under any names with a staging directory that stays; or three saves under any names and one load, without trouble | `LoadIsLayered`, `PlainLoadsAreFresh`, `CompletedSaveLoads`, `SeededLoadsAgree` |

Type invariants are not among the runs' properties: that of the executor, the environment, the
search, the sort's stack and the store is proved.

Why the bounds are enough to be interesting:

- *Batches of widths 2 and 3* give the sequences wide after narrow and narrow after
  wide: a worker is part of one batch and excluded from the other, or asleep
  through the first; with two callers one waits for the mutex while the other's
  batch ends. `batch_executor` has three of them, wide, narrow, wide. Two workers are the fewest that can be included and excluded at
  once.
- *Two requests and two units* let services overlap, nest and follow each other,
  and let a request be refused because another holds what it needs. Two episodes
  show what a reset leaves behind. One failure makes one retry; the second in
  `learning` makes a retry of a retry.
- *A triangle with scarce links* is the smallest virtual network where a node has
  two placed neighbours, so that a route can fail after another succeeded and a
  revocation has several routes to undo, in either orientation.
- *Seven candidates in windows of three* have a window after a window and one that
  is cut off.
- *Four modes with three stages* have a stage that shares the environment of the one before and one that
  does not, and stages with more, fewer and no epochs, of which `ChangeableSystem` takes any number for each (`run_main`
  configures all alike); three rows of times have all events in one window, two windows in an epoch, and
  an event before the origin, so that one epoch may end in the window the next begins in.
- *Two requests and three saves* give files of three different ages at once, and a smaller
  dataset over a larger one; a crash leaves a staging directory for the save after it. With other file names
  two saves are enough for events and a setting of another save than the requests, and three for requests,
  events and setting of three saves. `MCBounds` has one record for each combination of saves, names and troubles
  that is small enough; each behaviour takes one of them.
- *Arrays of five with NaN* make every sequence of comparisons an inconsistent order can
  give in a merge; the longer arrays only have few entries out of place, so that merges gallop and
  runs stack up in the pattern that is hard for `merge_collapse`.
- *Two individuals* are the fewest that cross, and two iterations the fewest where
  one iteration's accepted position, personal best or tabu move matters to the next. The three landscapes have
  more hosts than nodes, as many, and fewer.

Deadlock is checked in the executor runs. The other models stop when their bounds are used
up or the work is done, so their configurations say `CHECK_DEADLOCK FALSE`.

## 4. What is proved

The theorems hold for every value of the constants: any number of callers,
workers, requests, slots and candidates.

### `DeterministicExecutorProofs`

`IInv` of `DeterministicExecutor` is the conjunction of: who holds
`execution_mutex_` (`Ownership`); the published generation, context and width are
those of the open `run()` (`Publication`); the pool is a prefix at least as wide as
the batch and a busy worker has adopted the open generation (`PoolInv`); the countdown is the number of
included workers that have not finished or not even seen the batch (`Countdown`);
which callbacks were called (`Calls`) and failed (`FailuresInv`); and the depths
(`DepthInv`). None of `NoDeadContext`, `ExactlyOnce` and `RethrowsFirstFailure` is
inductive: each depends on the countdown being exact, and that on which
generations sleeping workers have seen. Cardinalities are dealt with in lemmas on
`Unfinished`. From `InductiveInvariant` follow `TypeCorrectness`,
`ContextsAreLive`, `EveryIndexOnce`, `FirstFailure`, `ExcludedStayOut` and
`NoNestedLock`. `RethrowsFirstFailure`, the property of `FirstFailure`, is part of what
`ImplementsParallelBatch` says and not checked a second time.

`ExecutorRefinesBatch`: `Spec => Abstract!Init /\ [][Abstract!Next]_(Abstract!vars)` is the safety
half of `ImplementsParallelBatch`. Publishing is the abstract start, a callback's return the
execution of its index, `Collect` the end; every other step is hidden. That `Collect` finds all
indices done rests on `ExactlyOnce` and an empty `Unfinished`.

### `BatchExecutorProofs`

The argument is the same, on other state: `Countdown` says that the count of completed workers and the workers
in 1 .. `active` that are in the task, or have not seen the batch, add up to `active`; and that
nobody is unfinished when no call is open. `OpenCallTasks` follows. `Calls` says which part of its block each
thread has called; with the block arithmetic (`BlocksAscend`, `BlocksCover`, `Shares`) calling the
next item is executing an item nobody has called, and all are called when the caller collects. So
`PoolRefinesBatch`: `Spec => Batch!Init /\ [][Batch!Next]_(Batch!vars)`, the safety half of `ImplementsParallelBatch`.

### `EnvironmentProofs`

`IInv` of `Environment` adds to `TypeOK`, `TransactionScope` and
`ReleaseFindsItsArrival`: what the control state says of checkpoint and cursor
(`ControlInv`), the balance of the working solver, what is live plus what its
journal holds being the checkpoint (`JournalBalances`), a detached Solution having
taken nothing (`DetachedUntouched`), and which requests can have arrived at each
position of the schedule (`HistoryReaches`, `DecidedArrivals`,
`DepartedWereDecided`); these need schedules without repeated events, which
`EnvironmentAssumption` states. `FailedStepsRestore` is an action property that
follows from it. `EnvironmentImplementsAdmission` is the refinement of
`AdmissionControl`, of `RecordedSpec`, the behaviours in which the record of a leave can be
saved; section 6 shows that it fails otherwise.

`NothingEverLeaks` follows from that refinement: each step of `AdmissionControl` keeps what is free and the
total of the shares (`AbstractStepLedger`), so each step of the environment does. Only a leave that
is retried is no such step, and it can only add (`RetriedLeaveLedger`), which gives
`NothingIsEverLost` of every behaviour. `RecorderAgreesAlways` needs that the index by event id and
the one by position name the same record (`IndexesAgree`) and that the requests in service are finitely many
(`ServiceIsFinite`), since there may be infinitely many requests.

### `CommonLemmas`

A total of natural amounts is the number of its units (`Totals`), so that its laws, adding, removing
and changing one amount, follow from the library's theorems on cardinalities. The ledgers, journals and windows below use
them. *Induction* over numbers is stated for sets: the library's induction theorems take a predicate, which
no prover here can instantiate, but its `WFMin` takes a set, and says that a set of numbers has a least
member (`LeastNat`). So a set with 0 and with the successors of its members has every number (`CountingUp`), and what
each step defines from the step before exists (`StepsExist`).

### `CandidateProofs`

*The candidate search.* Lemmas on integer division show that the blocks of `ParallelBlocks` are within
the range, apart from each other and cover it (`BlockBounds`, `BlocksApart`,
`BlocksCover`); windows and probes fit (`WindowsFit`, `ProbesFit`). `SearchInv` says that
all candidates before the window are infeasible, that an outcome a worker has stored is
its candidate's, and how far the scan has come. `AnswersInOrder` is that the parallel search gives the
answer of a sequential one, `BlocksShareAll` that each candidate of a window has
one worker, `NoLateFanOut` that nothing is started after the decision.

*The sort.* `PendingRunsOutweigh` is what makes 85 places enough: outside `merge_collapse` every pending
run is longer than the two after it together. A push spoils that for the last three runs and a merge for the last four
(`CollapseInvariant`), which is why the code looks one run further down than a first version of Timsort did.
`PendingRunsAdjoin`: the runs lie side by side, so a merge is of neighbours. `SortImplementsStack`: the sort with its
entries, for any scores, implements the stack. Of the entries the argument only needs that
a counted run is not empty and does not reach past the array.

`EntriesAreKept` is about the entries. In a merge the settled places leave a gap (`Bottom` to `Top`), and what is
left of both sides fills it exactly (`Lies`): the side that was not copied away lies at the far end of it, so the side in
`temporary_` has just as many places before that. So a copy never reaches an entry that is still needed, and
each entry is outside the gap or left of a side (`Held`). `TakeHolds` is that step for any number of entries from
either side in either direction, and `FinishedHolds` for the four ways a merge ends. Counting, reversing
and inserting rearrange the array (`ReversedHolds`, `InsertHolds`). `EntriesInv` puts this together; nowhere does it ask what
the comparisons say, which is why it holds with NaNs. That `temporary_`, half of the array, has room for the shorter run is
part of it (`CopiedAway`).

`SortIsStable` is about their order, with no NaN among the scores. `Before` is the order of a stable sort: by score, and entries with the same
score as they were given. `OrderInv` says that the places of the array can be given labels (`Labels`), one for
each pending run and one for the run that is being extended, such that entries with the same label are in that order and
entries with different labels still stand as they were given (`IsSorted`). Counting and insertion give
a run its label (`Counts`, `CountRunOrder`, `InsertOrder`), and `merge_at` replaces two neighbouring labels by one
(`OneLabelOfTwo`, `Joins`). A merge that is under way is looked at as if it were yet to be made: `Unmerged` is the array
with what is left of the kept side back in its place, and it is in order but for the two sides, from `Bottom` to `Middle`
and from there to `Top`. Taking entries of the kept side leaves that array as it is, and taking them from
the other side rotates a part of it (`Rotates`, `TakenOrder`), which keeps it sorted if the entries taken come before all that
is left of the other side, or behind it when the gap is filled from above (`Fits`). That is what the comparison, the gallop or
the trimming before it has found, where `GallopRight` and `GallopLeft` take the right side of a tie (`RightSplit`,
`LeftSplit`); the entry that is moved without a comparison fits because the step before has compared it (`DueFits`). When the
sort is over there is one label.

### `PlacementProofs`

*Shared lemmas.* For each operation of `Placement` one lemma says what it does to tables and journals (`PlaceTables`,
`RouteTables`, `RouteFailsTables`, `UndoRouteTables`, ...) and one that it keeps the balance of resources and journals
(`PlaceBalances`, ...). They rest on slots of distinct nodes (`DistinctNodes`), on journals that match the
tables, and on links that are in the tables in one orientation (`TablesInv`); `JournalMatches` alone is not inductive,
because routing a link that is there already would charge it twice. `RollbackRestores`: where they
balance, a rollback by the journal finds what a checkpoint would restore. Networks are finite.

*RL instance environment.* `IInv` of `InstanceEnvironment` says what a call that is under way has still to do (`PhaseInv`):
one that routes has only links of the node placed last left, none of them in the tables in either orientation; one that
revokes has exactly the links left that the tables have of the node it took back. With that, a link of the tables
joins the hosts of its ends or is about to go, and a link between placed nodes is in the tables or
about to be routed (`WholeInv`); `RoutesJoinSlots` and `MappingStaysWhole` follow, the
latter in node-pair mode by counting: as many distinct nodes as there are is all of them.
`BansInv` says that no slot an agent keeps is banned under the prefix before it, which gives `EachBanIsNew`: a
revocation always bans the last placement under a prefix shorter than any ban that still
matters. It needs `Heeds`, as the mask of node-pair mode ignores bans. `ResourcesBalance` is `Balanced`, for any agent.

*BFS solvers.* `BfsInv` of `BfsDeploy` has the hosts in the queue distinct and the counters in step
with its head (`QueueInv`); the slots the beginning of the ranking, on distinct hosts that were visited
(`RankInv`); what a running call has still to route or undo (`CallInv`, as `PhaseInv` above); and, until a
rollback, every link between placed nodes routed or about to be, and the balance (`KeptInv`).
That a visit queues each new host once is the lemma `FoundHosts`: positions in a list of edges
are taken in order (`NthOf`), and a list of incident edges names a neighbour once. Then
`EachHostOfferedOnce`, `CommittedStaysWhole` and `RollbackLeavesNothing` follow, the last from `RollbackRestores`: a
call may throw when some of its links are routed, and the journal has exactly those. `SolverInv` adds that the other
kind of solver leaves all this alone.

*Population searches.* A position is full when it has as many nodes on hosts as can be, and no two on one
(`FullPositions`). Greedy starts, tours and neighbours are full by construction; crossed, mutated and copied positions are
when `repair_position` has gone over them (`RepairedIsFull`). The repair is a recursive function over the genes, so
that is an induction: that the function exists (`StepsExist`), and that after each gene the
part done has no host twice, and no gene without a host while one is free. `MetaInv` says that all
positions are full, and `PositionsKeepNodesApart` follows. For `BestIsNeverLost`, `BestOf` is shown to find one that none in a
population beats, as `better` is an order (`BetterOrders`), and each algorithm to keep a best that no proposal beats.

### `DatasetStoreProofs`

Files are written requests first and setting last. So whatever save a file of events or a setting is of, all that this
save wrote before it, where loads look for it, is of that save or newer (`Reached`, `Layers`), and so is all
of the last save that returned (`CompletedKept`). A load reads the files the other way round,
and what it has still to read only gets newer (`Grows`): it has three saves to go by, the last that had returned when it
began, the one its setting is of and the one its events are of (`Basis`, `LoaderAt`). With how far the one
save has come (`SaverAt`) and why a staging directory without its saver is there (`StagesInv`: a crash, or it could not
be removed) this is inductive, for any number of processes, requests, saves, failures, crashes and directories that
stay, and any file names of each save. It gives all four properties of the run.

### `DriverProofs`

*Learning.* Whatever an agent calls is a call that some caller of the lifecycle could have made:
`OnlineImplementsEnvironment` is `OnlineSpec => Spec`, so `IInv` of `Environment` holds during learning.
On top of it, `InstanceInv` ties the instance to the arrival at the cursor and its clone to
the live network, and `RewardInv` says how much of its reward was credited in each phase of a call.
`SnapshotsAreLive` and `RewardsCreditedOnce` follow, and `NothingIsLostOnline` from the implementation alone.

*The systems.* Steps of the run loop are steps of the environment (`RunStepsAreSteps`), and with the next stage another
environment begins, so that `LifecycleInv` holds in every mode; the offline system uses the same
state in another way, which `OfflineInv` describes and `RequestsStartAlike` rests on. `EpochsAreComplete`: the
summary of a running epoch has counted exactly the events before the cursor (`EpochInv`), each step of the
loop moves the cursor past the events it counts (`RunPasses`), and an epoch only ends behind the last.
`SlicesStayOfTheirStage` follows from how the epochs of a stage are renumbered (`GatherKeepsSlices`).
`WindowsAccount`: the windows of the running epoch add up to its summary so far and none is of a later time than the current event
(`OpenWindows`), and windows come in the order of their epochs (`WindowsInOrder`), which is what makes an epoch's windows
closed when it is. Event times are sorted by assumption, as the simulator sorts them.

### Only model-checked

Liveness (`EveryRunReturns`, `StopJoins`, `RuntimeEnds`, `EpisodeEnds`, `SortReturns`) and the
fairness halves of both `ImplementsParallelBatch`, as no prover here reasons about fairness of actions.

## 5. Fairness

- *Executors*: weak fairness of each thread's next step, which is what the
  operating system's scheduler gives a runnable thread. Mutexes are not fair, and
  no property needs them to be: a caller that waits for `execution_mutex_` has not
  begun. Submitting, nesting, failing to create a thread, waking spuriously and
  stopping the process are never forced. Callbacks are assumed to return.
- *Systems* (`RuntimeSpec`): one thread that goes on, with solvers that return or throw.
  Within a solver only its return is fair, not any number of placements. Whether anything fails is never
  forced.
- *Sorting*: one thread that goes on.
- *RL episodes*: the collecting loop of `learning_session.cpp:690-724` steps until
  the episode is done, so steps and the rest of a running call are fair; direct
  calls of `revoke()` and `reject()` and resets are not.

`Environment`, `OnlineEnvironment`, `CandidateSearch`, `HeuristicSolvers` and
`DatasetStore` are checked for safety only.

## 6. Where the code and its documents disagree

**A leave that is tried again gives its resources back twice** (run
`leave_retry`). `release_current()` releases the arrival's resources before the
leave is counted and saved, and nothing undoes the release when `add_record`
throws. `porting/components/environment.md:187-189` says that
`drain_leaves()` can then be called again. The run takes that retry and ends
with a slot above its capacity. `NothingIsLost` shows the error is one-sided:
nothing is ever missing.

**Memberships outlive the service** (run `membership`).
`release_current()` hands the recorder the leave event's blank Solution, so
`remove_membership` finds no slots and removes nothing, while
`porting/components/recorder.md:159-161` says that a leave removes one entry for
every node slot. The count of running physical nodes never falls within an
episode.

Two smaller things that the models had to follow rather than a reader's first
guess: a failed step of a revocable RL episode revokes the *previous* node if the new one
could not be placed at all (`StepUnfit`), and the test `depth > max_depth` of the BFS is
never true for a positive `max_depth`, because nodes at that depth are not expanded.

## 7. What is not modelled

- *Data*: floating-point resources, several resources per element, thresholds of
  soft constraints, rewards of actions, features, tensors, fitness values. One integer amount per slot
  is what ownership and balance need. Most of the repository's lines are of this kind: numerical
  columns, a port of NetworkX, random streams, tensors, parsers, an integer program built for an external
  solver. They compute a value from a value, in one thread, and a model of them would be a
  second program. The map is therefore a small share of all lines, and a large one of the files that
  keep state across calls.
- *The unsafe mapping mode* (mappings allowed to violate constraints, judged by a score),
  pooled step offsets, split-flow routing, and `reusable` hosts. The code itself
  refuses some combinations of them, for instance pooled offsets for two adjacent
  nodes on one host.
- *`node_slots` mode* of the RL environment, and `deploy_with_node_slots` beyond what
  `MetaHeuristic` needs of it: whether a position can be deployed.
- *Requests loaded from hand-written files*: the models assume a request arrives
  at most once and that hosts and virtual nodes are valid, as the simulator
  guarantees. Loading does not check the first: a second arrival of one request overwrites the
  arrival record of the first (`core/environment.cpp:541`), whose resources are then never released.
- *The contract of solvers*: one that returns a detached successful Solution
  after changing the network is charged twice. No solver of the repository does.
- *The contract of agents*: an instance stepped from outside is ended with
  `finish_instance()`, and in solution mode only `step_solution()` is called.
- *Two savers of one dataset directory*: the code has no lock for them; the model lets one
  process at a time save.
- *File names that cross*: a save that calls its events `v_sim_setting.yaml`, or its setting `events.yaml`, or
  puts either into `v_nets`. In the model a name is the one loads look for, or one they do not read.
- *Errors of a load's own reads, and files that nobody saved in a dataset directory*: a load of the model reads
  every file it finds, and what it finds there some save has written.
- *Memory ordering weaker than sequential consistency*: the atomics of the
  executor are modelled as atomic steps; the code's acquire and release pairs are
  taken to be sufficient for that.
- *Registration of solvers*: names are registered and frozen before a solver is made; `HeuristicSolvers` begins
  with the solver made. That readers without the lock never see a registration half done
  (`solver/base_solver.cpp:290`) is not modelled, and no property says it.
- Components of pure computation and I/O, listed in `PROJECT.json`.

## 8. Plan

The order is by how much of the program depends on a part. Done: executors,
environment with transactions and recorder, the four systems and their dispatch, learning over
the lifecycle, placement with its drivers, heuristic and meta-heuristic searches, candidate search,
the dataset store and the rankers' sort.

Left, extending the models:

1. `SolverRegistry`: registration, freeze and unlocked reads; property: no read
   without the lock overlaps a write, and what was resolved stays.
2. Unsafe routing and `deploy_with_node_slots` in `Placement`.
3. Event schedule: construction in lanes, stable order of ties; duplicate arrivals from files.
4. The random-walk order of `solver/heuristic/bfs_trials.cpp:249` on disconnected virtual
   networks, and a `release()` that throws half-way (`core/controller/controller.cpp:783`).

Every safety property that a passing run checks is a theorem now. Worth proving next: type correctness of `OfflineSystem`.
