---------------------------- MODULE ParallelBlocks ----------------------------
(***************************************************************************)
(* The arithmetic of deterministic_parallel_blocks,                          *)
(* virne/utils/deterministic_executor.h: how many workers share a range of   *)
(* count items, and the half-open block of indexes each is given.            *)
(***************************************************************************)
EXTENDS Integers, FiniteSetsExt

\* A worker for every full grain of items, and one for the rest.
UsefulWorkers(count, grain) == 1 + (count - 1) \div Max({1, grain})

\* Of a range that is not empty, outside any callback of the executor.
WorkerCount(count, requested, grain) ==
  IF requested <= 1 THEN 1 ELSE Min({requested, count, UsefulWorkers(count, grain)})

Begin(count, workers, w) == (count * w) \div workers

\* A faulty variant: the remainder is given to nobody.
End_Even(count, workers, w) == Begin(count, workers, w) + count \div workers

End(count, workers, w) == (count * (w + 1)) \div workers

Block(count, workers, w) == Begin(count, workers, w) .. End(count, workers, w) - 1
=============================================================================
