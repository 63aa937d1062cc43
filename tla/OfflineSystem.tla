----------------------------- MODULE OfflineSystem -----------------------------
(***************************************************************************)
(* OfflineSystem::run of virne/system/offline_system.cpp: every request is  *)
(* solved on its own against the same physical network.  One working clone   *)
(* serves all requests of all epochs; a checkpoint around each solver puts   *)
(* it back, whatever the solver did.                                         *)
(*                                                                          *)
(* There is no Environment here.  Its variables are used for what OfflineSystem *)
(* has of its own: avail is the working clone, the mutations are those it    *)
(* prepared, schedule its requests and cursor the request_index.             *)
(***************************************************************************)
EXTENDS OnlineSystem

CONSTANT RequestLists   \* simulator_.v_nets(), the lists it may hold

ASSUME ListsAssumption ==
  /\ RequestLists \subseteq Seq(Requests)
  /\ \A l \in RequestLists : \A i, j \in DOMAIN l : l[i] = l[j] => i = j

-----------------------------------------------------------------------------
(* Faulty variant, not used by the specification.                           *)
Evaluated_Committed ==   \* only what the solver did not commit is put back
  IF mode = "committed" THEN CloseTransaction(Event.req, FALSE) /\ UNCHANGED avail
  ELSE RollbackTransaction(Event.req, FALSE)
-----------------------------------------------------------------------------

\* The clone and the prepared counters and mutations, once per run.
OfflineReady ==
  /\ run = "between" /\ phase = "unready"
  /\ \E list \in RequestLists : schedule' = [i \in DOMAIN list |-> Arrival(list[i])]
  /\ phase' = "finished" /\ cursor' = 0
  /\ avail' = Capacity
  /\ UNCHANGED <<transactionVars, recorderVars, pc, arrivalRecord, solutionVars,
                 historyVars, run, summaries, summary>>

OfflineEpoch ==
  /\ run = "between" /\ phase = "finished" /\ EpochsLeft
  /\ IF schedule = <<>>
     THEN summaries' = Append(summaries, NoSummary) /\ UNCHANGED <<run, phase, cursor>>
     ELSE run' = "looping" /\ phase' = "active" /\ cursor' = 1 /\ UNCHANGED summaries
  /\ summary' = NoSummary
  /\ UNCHANGED <<mutationVars, recorderVars, pc, schedule, arrivalRecord,
                 solutionVars, historyVars>>

\* solve_independently puts the network back, whether the solver committed,
\* detached, or rolled back itself.
Evaluated == RollbackTransaction(Event.req, FALSE)

OfflineCounts ==
  /\ run = "looping" /\ pc = "returned"
  /\ Evaluated
  /\ LET counted == IF result THEN [summary EXCEPT !.accepted = @ + 1]
                    ELSE [summary EXCEPT !.rejected = @ + 1]
     IN IF Last
        THEN /\ run' = "between" /\ summaries' = Append(summaries, counted)
             /\ summary' = NoSummary /\ phase' = "finished" /\ UNCHANGED cursor
        ELSE /\ summary' = counted /\ cursor' = cursor + 1
             /\ UNCHANGED <<run, summaries, phase>>
  /\ pc' = "idle" /\ BlankSolution
  /\ UNCHANGED <<recorderVars, schedule, arrivalRecord, historyVars>>

\* count_solution throws, after the network was put back.
OfflineCountThrows ==
  /\ run = "looping" /\ pc = "returned"
  /\ Evaluated
  /\ run' = "threw"
  /\ pc' = "idle" /\ BlankSolution
  /\ UNCHANGED <<recorderVars, episodeVars, arrivalRecord, historyVars, summaries, summary>>

OfflineNext ==
  \/ OfflineReady \/ OfflineEpoch \/ OfflineCounts \/ OfflineCountThrows
  \/ phase = "finished" /\ Finish
  \/ OpenTransaction \/ SolverWorks \/ SolverReturns \/ SolverFails

-----------------------------------------------------------------------------
\* The network every request is solved on is the network of the run, whatever
\* the solvers before it did to it, in this epoch or an earlier one.
SnapshotIsPristine == active = {} => avail = Capacity
=============================================================================
