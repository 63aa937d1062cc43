------------------------------ MODULE MainRuntime ------------------------------
(***************************************************************************)
(* The dispatch of run_main (virne/system/main_runtime.cpp): the configured *)
(* mode picks one of the four systems, which drives the environment, or in  *)
(* offline mode the solver alone, to the end of the run.                     *)
(***************************************************************************)
EXTENDS TimeWindowSystem, ChangeableSystem, OfflineSystem

CONSTANT SystemModes   \* of "online", "offline", "time_window", "changeable"

ASSUME ModesAssumption ==
  SystemModes \subseteq {"online", "offline", "time_window", "changeable"}

VARIABLE systemMode   \* config.mode

runtimeVars == <<onlineVars, windowVars, stageVars, systemMode>>

RuntimeInit ==
  /\ RunInit /\ WindowInit /\ StageInit
  /\ systemMode \in SystemModes

RunOnline == systemMode = "online" /\ RunNext /\ UNCHANGED <<windowVars, stageVars, systemMode>>
RunOffline == systemMode = "offline" /\ OfflineNext /\ UNCHANGED <<windowVars, stageVars, systemMode>>
RunWindows == systemMode = "time_window" /\ WindowNext /\ UNCHANGED <<stageVars, systemMode>>
RunStages == systemMode = "changeable" /\ ChangeableNext /\ UNCHANGED <<windowVars, systemMode>>

RuntimeNext == RunOnline \/ RunOffline \/ RunWindows \/ RunStages

\* One thread runs the system, and solve_mutable ends after finitely many
\* placements: it returns or throws.
SolverEnds ==
  (SolverReturns \/ SolverFails) /\ UNCHANGED <<windowVars, stageVars, systemMode>>
RuntimeSpec ==
  /\ RuntimeInit /\ [][RuntimeNext]_runtimeVars
  /\ WF_runtimeVars(RuntimeNext) /\ WF_runtimeVars(SolverEnds)

-----------------------------------------------------------------------------
Returned ==
  \/ run = "threw"
  \/ run = "finished" /\ (systemMode = "changeable" => Len(stages) = NumStages)

\* Every mode ends: each epoch of each stage comes to its last event or
\* request, or an exception leaves.
RuntimeEnds == <>Returned

Total(field, S) == TotalOf(S, [i \in DOMAIN windows |-> windows[i][field]])
InEpoch(e) == {i \in DOMAIN windows : windows[i].epoch = e}

\* The windows of an epoch account for all of it: what they counted adds up to
\* the epoch's summary, and no two of them are of the same time, even when one
\* epoch ends in the window the next one begins in.
WindowsAccountForEpochs ==
  systemMode = "time_window" =>
    \A e \in DOMAIN summaries :
      LET W == InEpoch(e - 1)
      IN /\ \A field \in DOMAIN NoSummary : Total(field, W) = summaries[e][field]
         /\ \A i, j \in W : i < j => windows[i].index < windows[j].index

\* run_main saves, for each stage, the slice of the epochs its summary names
\* with that stage's records: the slices are of the stage, and cover all
\* epochs, which are numbered in order.
SlicesAreOfTheirStage ==
  /\ \A i \in DOMAIN epochs : epochs[i].index = i - 1
  /\ \A k \in DOMAIN stages :
       {i \in DOMAIN epochs : epochs[i].stage = k - 1}
         = stages[k].first + 1 .. stages[k].first + stages[k].num

\* Offline, every request is solved on the untouched network.
EveryRequestStartsAlike == systemMode = "offline" => SnapshotIsPristine

-----------------------------------------------------------------------------
(* The inductive invariant of the proofs.                                   *)

SummaryType == [accepted : Nat, rejected : Nat, released : Nat]
WindowType == [epoch : Nat, index : Int, accepted : Nat, rejected : Nat, released : Nat]

\* The loop runs while an event is current; between epochs nobody is at work.
RunInv ==
  /\ run \in {"between", "looping", "threw", "finished"}
  /\ summaries \in Seq(SummaryType) /\ summary \in SummaryType
  /\ run = "looping" => phase = "active"
  /\ run \in {"between", "finished"} => pc = "idle" /\ phase # "active"

\* What the summary of a running epoch has counted are the events before the
\* current one.
Passed(type, n) == {i \in DOMAIN schedule : i <= n /\ schedule[i].type = type}
EpochInv ==
  run = "looping" =>
    /\ summary.accepted + summary.rejected = Cardinality(Passed("arrival", cursor - 1))
    /\ summary.released = Cardinality(Passed("leave", cursor - 1))

\* An open checkpoint of the offline run holds the untouched network.
OfflineInv ==
  /\ schedule \in Seq({Arrival(r) : r \in Requests})
  /\ cursor \in Nat /\ (phase = "active" => cursor \in DOMAIN schedule)
  /\ phase = "unready" => summaries = <<>>
  /\ checkpoint = [r \in Requests |-> checkpoint[r]]
  /\ pc = "idle" => active = {}
  /\ pc \in {"solving", "torn"} => active # {}
  /\ SnapshotIsPristine
  /\ active # {} => phase = "active" /\ active = {Event.req} /\ checkpoint[Event.req] = Capacity

\* Environment's own invariant, where there is an environment.
LifecycleInv == IF systemMode = "offline" THEN OfflineInv ELSE IInv

\* Epochs gathered so far belong to the stages gathered so far.
SlicesInv ==
  /\ stages \in Seq([first : Nat, num : Nat]) /\ epochs \in Seq([index : Nat, stage : Nat])
  /\ \A i \in DOMAIN epochs : epochs[i].stage < Len(stages)
  /\ SlicesAreOfTheirStage

\* The windows of the epoch in progress add up to what was counted so far, and
\* none of them is of a later time than the current event.
OpenWindows ==
  LET W == InEpoch(Epoch)
  IN /\ schedule \in Schedules /\ times \in EventTimes
     /\ \A field \in DOMAIN NoSummary : Total(field, W) = summary[field]
     /\ \A i \in W : windows[i].index <= WindowIndex
     /\ \A i, j \in W : i < j => windows[i].index < windows[j].index
     /\ pc # "idle" => windows # <<>> /\ windows[Len(windows)].epoch = Epoch

\* Windows come in the order of their epochs, and only a running epoch has
\* some that its summary does not account for yet.
WindowsInOrder ==
  /\ windows \in Seq(WindowType)
  /\ \A i, j \in DOMAIN windows : i < j => windows[i].epoch <= windows[j].epoch
  /\ \A i \in DOMAIN windows : windows[i].epoch <= Epoch
  /\ run = "between" => InEpoch(Epoch) = {}

WindowInv ==
  systemMode = "time_window" => WindowsInOrder /\ (run = "looping" => OpenWindows)
=============================================================================
