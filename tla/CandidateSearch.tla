---------------------------- MODULE CandidateSearch ----------------------------
(***************************************************************************)
(* The ordered search for the first feasible candidate, written out twice:   *)
(* PreparedNodeMapper::node_mapping_inplace over hosts and                    *)
(* PreparedLinkMapper::safely_route over paths, both in                       *)
(* virne/core/controller.  A short prefix is checked one by one; after it    *)
(* the workers of the executor check a window at a time, each its own block, *)
(* and the outcomes are then read in the order of the candidates.            *)
(*                                                                           *)
(* A check either finds its candidate feasible or infeasible, or throws.     *)
(***************************************************************************)
EXTENDS ParallelBlocks

CONSTANTS
  MaxLength,        \* bound: candidates of one search
  MaxRequested,     \* bound: candidate_workers
  MinimumParallel,  \* minimum_parallel_candidate_count, _path_count
  MaximumProbes,    \* maximum_sequential_probe_count
  MinimumWindow,    \* minimum_candidate_window, _path_window
  WindowPerWorker   \* candidate_window_per_worker, path_window_per_worker

ASSUME SearchAssumption ==
  /\ MaxLength \in Nat /\ MaxRequested \in Nat
  /\ MinimumParallel \in Nat /\ MaximumProbes \in Nat
  /\ MinimumWindow \in Nat \ {0} /\ WindowPerWorker \in Nat

VARIABLES
  length,     \* number of candidates
  outcome,    \* what the check of each candidate gives
  requested,  \* candidate_workers
  nested,     \* the search runs inside a callback of the executor
  pc,         \* "search", "blocks", "scan" or "done"
  at,         \* next candidate to probe, and where an open window begins
  window,     \* where the last window ends
  cursor,     \* next candidate of each worker, relative to the window
  slots,      \* outcomes of the window, "none" until a worker wrote them
  read,       \* next outcome of the window to read
  result      \* how the search ended, and at which candidate

input == <<length, outcome, requested, nested>>
searchVars == <<input, pc, at, window, cursor, slots, read, result>>

Outcomes == {"feasible", "infeasible", "throws"}
Ended(how, i) == [how |-> how, at |-> i]
Unended == Ended("none", 0)

Count == window - at               \* candidates of the open window

\* A feasible candidate is committed, an exception leaves the search, and so
\* does an outcome nobody wrote ("candidate check produced no result").
Verdict(o) ==
  IF o = "feasible" THEN "committed" ELSE IF o = "throws" THEN "threw" ELSE "logic_error"

-----------------------------------------------------------------------------
SearchInit ==
  /\ length \in 1 .. MaxLength /\ outcome \in [0 .. length - 1 -> Outcomes]
  /\ requested \in 0 .. MaxRequested /\ nested \in BOOLEAN
  /\ pc = "search" /\ at = 0 /\ window = 0
  /\ cursor = <<>> /\ slots = <<>> /\ read = 0 /\ result = Unended

UsesWindows == requested > 1 /\ length >= MinimumParallel
BoundedWorkers == Min({requested, length})

\* Candidates that are checked one by one.
ProbeCount ==
  IF UsesWindows THEN Min({length, BoundedWorkers, MaximumProbes}) ELSE length

WindowWidth == Max({MinimumWindow, BoundedWorkers * WindowPerWorker})

\* Faulty variant, not used by the specification: outcomes read error first.
Read_ErrorsFirst(j) == IF \E k \in DOMAIN slots : slots[k] = "throws" THEN "throws" ELSE slots[j]

WindowEnd == at + Min({WindowWidth, length - at})

\* The width of the executor's batch over a window of count candidates.
Workers(count) == IF nested THEN 1 ELSE WorkerCount(count, requested, 1)

Ends(how, i) == pc' = "done" /\ result' = Ended(how, i)

Probe ==
  /\ pc = "search" /\ at < ProbeCount
  /\ \/ outcome[at] = "infeasible" /\ at' = at + 1 /\ UNCHANGED <<pc, result>>
     \/ outcome[at] # "infeasible" /\ Ends(Verdict(outcome[at]), at) /\ UNCHANGED at
  /\ UNCHANGED <<input, window, cursor, slots, read>>

Exhausted ==
  /\ pc = "search" /\ at >= ProbeCount /\ at = length
  /\ Ends("exhausted", length - 1)
  /\ UNCHANGED <<input, at, window, cursor, slots, read>>

\* check_candidates_ordered, check_paths_ordered: the scratch is cleared and
\* deterministic_parallel_blocks started.
OpenWindow ==
  /\ pc = "search" /\ at >= ProbeCount /\ at < length
  /\ LET count == WindowEnd - at IN
     /\ cursor' = [w \in 0 .. Workers(count) - 1 |-> Begin(count, Workers(count), w)]
     /\ slots' = [j \in 0 .. count - 1 |-> "none"]
  /\ pc' = "blocks" /\ window' = WindowEnd /\ read' = 0
  /\ UNCHANGED <<input, at, result>>

BlockEnd(w) == End(Count, Workers(Count), w)

\* A worker writes the outcome or the exception of its next candidate.
Check(w) ==
  /\ pc = "blocks" /\ cursor[w] < BlockEnd(w)
  /\ slots' = [slots EXCEPT ![cursor[w]] = outcome[at + cursor[w]]]
  /\ cursor' = [cursor EXCEPT ![w] = cursor[w] + 1]
  /\ UNCHANGED <<input, pc, at, window, read, result>>

\* The executor's run() returns when every block is done.
Joined ==
  /\ pc = "blocks" /\ \A w \in DOMAIN cursor : cursor[w] >= BlockEnd(w)
  /\ pc' = "scan"
  /\ UNCHANGED <<input, at, window, cursor, slots, read, result>>

Read(j) == slots[j]
AllRead == read >= Count

ReadOne ==
  /\ pc = "scan" /\ ~AllRead
  /\ \/ Read(read) = "infeasible" /\ read' = read + 1 /\ UNCHANGED <<pc, result>>
     \/ Read(read) # "infeasible" /\ Ends(Verdict(Read(read)), at + read) /\ UNCHANGED read
  /\ UNCHANGED <<input, at, window, cursor, slots>>

NextWindow ==
  /\ pc = "scan" /\ AllRead
  /\ at' = window /\ pc' = "search"
  /\ UNCHANGED <<input, window, cursor, slots, read, result>>

SearchNext ==
  \/ Probe \/ Exhausted \/ OpenWindow
  \/ \E w \in DOMAIN cursor : Check(w)
  \/ Joined \/ ReadOne \/ NextWindow

SearchSpec == SearchInit /\ [][SearchNext]_searchVars

-----------------------------------------------------------------------------
\* Types, and where the open window lies among the candidates.
TypeOK ==
  /\ length \in Nat \ {0} /\ outcome \in [0 .. length - 1 -> Outcomes]
  /\ requested \in Nat /\ nested \in BOOLEAN
  /\ pc \in {"search", "blocks", "scan", "done"}
  /\ at \in 0 .. length /\ window \in 0 .. length /\ read \in Nat
  /\ pc \in {"blocks", "scan"} =>
       /\ at < window /\ read <= Count
       /\ slots \in [0 .. Count - 1 -> Outcomes \cup {"none"}]
       /\ cursor \in [0 .. Workers(Count) - 1 -> 0 .. Count]

\* What checking the candidates one after the other would end with.
Answers(r) ==
  \/ /\ r.at \in 0 .. length - 1 /\ outcome[r.at] # "infeasible"
     /\ \A i \in 0 .. r.at - 1 : outcome[i] = "infeasible"
     /\ r.how = Verdict(outcome[r.at])
  \/ /\ \A i \in 0 .. length - 1 : outcome[i] = "infeasible"
     /\ r = Ended("exhausted", length - 1)

\* Windows and workers change nothing of what the search answers: the same
\* candidate, the same exception, the same last check, and never "no result".
SearchesInOrder == pc = "done" => Answers(result)

\* The blocks of an open window share all of its candidates, each in one.
BlocksPartition ==
  pc = "blocks" =>
    /\ \A j \in 0 .. Count - 1 : \E w \in DOMAIN cursor : j \in Block(Count, Workers(Count), w)
    /\ \A v, w \in DOMAIN cursor :
         v # w => Block(Count, Workers(Count), v) \cap Block(Count, Workers(Count), w) = {}

\* No worker is started once an earlier candidate was feasible or threw.
NoFanOutAfterDecision ==
  pc \in {"blocks", "scan"} => \A i \in 0 .. at - 1 : outcome[i] = "infeasible"

\* The invariant the proofs rest on: what the workers and the scan have done.
SearchInv ==
  /\ TypeOK
  /\ pc # "done" => \A i \in 0 .. at - 1 : outcome[i] = "infeasible"
  /\ pc = "blocks" => \A w \in DOMAIN cursor :
       /\ cursor[w] \in Begin(Count, Workers(Count), w) .. BlockEnd(w)
       /\ \A j \in Begin(Count, Workers(Count), w) .. cursor[w] - 1 : slots[j] = outcome[at + j]
  /\ pc = "blocks" => read = 0
  /\ pc = "scan" => \A j \in 0 .. Count - 1 : slots[j] = outcome[at + j]
  /\ pc = "scan" => \A j \in 0 .. read - 1 : outcome[at + j] = "infeasible"
  /\ SearchesInOrder
=============================================================================
