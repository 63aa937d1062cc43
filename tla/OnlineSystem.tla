----------------------------- MODULE OnlineSystem -----------------------------
(***************************************************************************)
(* OnlineSystem::run of virne/system/online_system.cpp, the caller that the  *)
(* program uses to drive Environment: per epoch a reset, then one solver     *)
(* transaction, one solve and one step per arrival until the step is done.   *)
(* Any exception leaves the run; nothing is retried.                         *)
(***************************************************************************)
EXTENDS Environment

CONSTANT Simulations   \* config.num_simulations is one of them, for each run

ASSUME OnlineAssumption == Simulations \subseteq Nat

VARIABLES
  run,       \* "between" epochs, "looping", "threw" or "finished"
  summaries, \* result.epochs
  summary    \* epoch_summary of the epoch in progress

onlineVars == <<vars, run, summaries, summary>>

NoSummary == [accepted |-> 0, rejected |-> 0, released |-> 0]

-----------------------------------------------------------------------------
(* Faulty variants, none is used by Spec.                                   *)
EpochDone_Early == cursor >= Len(schedule) - 1   \* off by one at the last event
Propagates_Retry == UNCHANGED run                \* a failing step tried again
-----------------------------------------------------------------------------

RunInit ==
  /\ Init
  /\ run = "between" /\ summaries = <<>> /\ summary = NoSummary

\* A run that ends after n epochs is one that n were configured for.
EpochsLeft == \E n \in Simulations : Len(summaries) < n
EpochsDone == Len(summaries) \in Simulations

BeginEpoch ==
  /\ run = "between" /\ EpochsLeft
  /\ Reset
  /\ run' = "looping" /\ summary' = NoSummary
  /\ UNCHANGED summaries

ResetFails ==
  /\ run = "between" /\ EpochsLeft
  /\ ResetThrows
  /\ run' = "threw"
  /\ UNCHANGED <<summaries, summary>>

Finish ==
  /\ run = "between" /\ EpochsDone
  /\ run' = "finished"
  /\ UNCHANGED <<vars, summaries, summary>>

\* The head of the loop: the current event has to be an arrival.
OpenTransaction ==
  /\ run = "looping"
  /\ SolverTransaction
  /\ UNCHANGED <<run, summaries, summary>>

NoArrival ==
  /\ run = "looping" /\ pc = "idle" /\ AtLeave
  /\ run' = "threw"
  /\ UNCHANGED <<vars, summaries, summary>>

SolverWorks ==
  /\ run = "looping"
  /\ \E s \in Slots : SolverTakes(s) \/ SolverGivesBack(s) \/ SolverTears(s)
  /\ UNCHANGED <<run, summaries, summary>>

SolverReturns ==
  /\ run = "looping"
  /\ SolverCommits \/ SolverGivesUp \/ SolverRejects \/ SolverDetaches
  /\ UNCHANGED <<run, summaries, summary>>

\* The catch of the lambda around solve_mutable.
SolverFails ==
  /\ run = "looping"
  /\ SolverThrows
  /\ run' = "threw"
  /\ UNCHANGED <<summaries, summary>>

Propagates == run' = "threw"

StepFails ==
  /\ run = "looping"
  /\ \/ StepRefused \/ StepThrows \/ StepRatioThrows
     \/ \E ok \in BOOLEAN : StepSaveFails(ok)
  /\ Propagates
  /\ UNCHANGED <<summaries, summary>>

\* step() returns once transit_after_arrival has come to the next arrival or
\* to the end; step.done ends the epoch.
EpochDone == phase' = "finished"

AfterStep(counted) ==
  IF EpochDone
  THEN run' = "between" /\ summaries' = Append(summaries, counted) /\ summary' = NoSummary
  ELSE summary' = counted /\ UNCHANGED <<run, summaries>>

StepAccepted ==
  /\ run = "looping"
  /\ StepAccepts
  /\ AfterStep([summary EXCEPT !.accepted = @ + 1])

StepRejected ==
  /\ run = "looping"
  /\ StepRejects
  /\ AfterStep([summary EXCEPT !.rejected = @ + 1])

AutoRelease ==
  /\ run = "looping"
  /\ ReleaseCurrent
  /\ AfterStep([summary EXCEPT !.released = @ + 1])

ReleaseFails ==
  /\ run = "looping"
  /\ ReleaseThrows \/ ReleaseSaveFails
  /\ run' = "threw"
  /\ UNCHANGED <<summaries, summary>>

RunNext ==
  \/ BeginEpoch \/ ResetFails \/ Finish
  \/ OpenTransaction \/ NoArrival \/ SolverWorks \/ SolverReturns \/ SolverFails
  \/ StepFails \/ StepAccepted \/ StepRejected
  \/ AutoRelease \/ ReleaseFails

\* One thread runs the loop, and solve_mutable ends after finitely many
\* placements: it returns or throws.
RunSpec ==
  /\ RunInit /\ [][RunNext]_onlineVars
  /\ WF_onlineVars(RunNext)
  /\ WF_onlineVars(SolverReturns \/ SolverFails)

-----------------------------------------------------------------------------
Planned(type) == Cardinality({i \in DOMAIN schedule : schedule[i].type = type})
EpochOver == run = "between" /\ summaries # <<>>

\* An epoch that ends has stepped every arrival and released every leave of
\* its schedule exactly once.
EpochsComplete ==
  EpochOver =>
     LET last == summaries[Len(summaries)]
     IN /\ last.accepted + last.rejected = Planned("arrival")
        /\ last.released = Planned("leave")
=============================================================================
