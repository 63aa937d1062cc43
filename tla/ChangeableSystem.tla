--------------------------- MODULE ChangeableSystem ---------------------------
(***************************************************************************)
(* ChangeableSystem::run of virne/system/changeable_system.cpp: an          *)
(* OnlineSystem run per stage, one after the other, whose epochs are        *)
(* numbered on and put into one result.  Every stage names an environment;  *)
(* several may name the same one.                                           *)
(***************************************************************************)
EXTENDS OnlineSystem

CONSTANT NumStages   \* stages_.size()

ASSUME StagesAssumption == NumStages \in Nat \ {0}

VARIABLES
  stages,   \* result.stages: the first epoch of each, and how many
  epochs    \* result.run.epochs: index, and the stage that ran it

stageVars == <<stages, epochs>>

StageInit == stages = <<>> /\ epochs = <<>>

-----------------------------------------------------------------------------
(* Faulty variant, not used by the specification.                           *)
NextEpochIndex_Stage == Len(stages)   \* one epoch per stage
-----------------------------------------------------------------------------

\* next_epoch_index.
NextEpochIndex == Len(epochs)

\* What a stage's run returned is renumbered and appended.
Gather ==
  /\ stages' = Append(stages, [first |-> NextEpochIndex, num |-> Len(summaries)])
  /\ epochs' = epochs \o [i \in DOMAIN summaries |->
                            [index |-> i - 1 + NextEpochIndex, stage |-> Len(stages)]]

\* The environment of the next stage: the same one, or one nobody has used.
OtherEnvironment ==
  /\ avail' = Capacity
  /\ DropMutations /\ ResetRecorder
  /\ phase' = "unready" /\ schedule' = <<>> /\ cursor' = 0
  /\ arrivalRecord' = [r \in Requests |-> 0]
  /\ UNCHANGED <<pc, solutionVars, historyVars>>

NextStage ==
  /\ run = "finished" /\ Len(stages) + 1 < NumStages
  /\ Gather
  /\ OtherEnvironment \/ UNCHANGED vars
  /\ run' = "between" /\ summaries' = <<>> /\ summary' = NoSummary

LastStage ==
  /\ run = "finished" /\ Len(stages) + 1 = NumStages
  /\ Gather
  /\ UNCHANGED onlineVars

ChangeableNext ==
  \/ NextStage \/ LastStage
  \/ RunNext /\ UNCHANGED stageVars
=============================================================================
