--------------------------- MODULE MCBatchExecutor ---------------------------
(* Instances of BatchExecutor for TLC. *)
EXTENDS BatchExecutor
=============================================================================
