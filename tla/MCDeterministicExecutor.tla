----------------------- MODULE MCDeterministicExecutor -----------------------
(* Instance of DeterministicExecutor for TLC. *)
EXTENDS DeterministicExecutor
=============================================================================
