---------------------------- MODULE ParallelBatch ----------------------------
(***************************************************************************)
(* What deterministic_executor.h promises its callers: batches run one at   *)
(* a time; the callbacks of a batch run once per index, in any order; run() *)
(* returns after the last of them, with the first failure in index order.   *)
(***************************************************************************)
EXTENDS Naturals

CONSTANTS Callers, NoCaller, MaxWidth

VARIABLES runner,   \* the caller whose batch is running
          width,    \* its number of indices
          done,     \* the indices whose callback has returned
          failed,   \* those that threw
          result    \* {} or {the index whose failure run() threw}

vars == <<runner, width, done, failed, result>>

Lowest(S) == {i \in S : \A j \in S : i <= j}

Init ==
  /\ runner = NoCaller /\ width = 1
  /\ done = {} /\ failed = {} /\ result = {}

Start(c) ==
  /\ runner = NoCaller
  /\ runner' = c
  /\ width' \in 2 .. MaxWidth
  /\ done' = {} /\ failed' = {}
  /\ UNCHANGED result

Execute(i) ==
  /\ runner # NoCaller
  /\ i \in 0 .. (width - 1)
  /\ i \notin done
  /\ done' = done \cup {i}
  /\ failed' \in {failed, failed \cup {i}}
  /\ UNCHANGED <<runner, width, result>>

Finish ==
  /\ runner # NoCaller
  /\ done = 0 .. (width - 1)
  /\ runner' = NoCaller
  /\ result' = Lowest(failed)
  /\ UNCHANGED <<width, done, failed>>

Progress == Finish \/ \E i \in 0 .. (MaxWidth - 1) : Execute(i)

Next == Progress \/ \E c \in Callers : Start(c)

Spec == Init /\ [][Next]_vars /\ WF_vars(Progress)
=============================================================================
