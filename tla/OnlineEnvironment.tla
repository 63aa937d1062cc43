-------------------------- MODULE OnlineEnvironment --------------------------
(***************************************************************************)
(* OnlineEnvironment of                                                     *)
(* virne/solver/learning/rl_core/online_environment.cpp: the lifecycle of    *)
(* SolutionStepEnvironment as an agent sees it.  The current arrival is      *)
(* worked on in an InstanceEnvironment of its own, on a clone of the         *)
(* physical network; when it is done its Solution is submitted to step() as  *)
(* a detached journal and the next arrival gets a new instance.              *)
(*                                                                          *)
(* An agent steps through this class, or steps the instance itself and then  *)
(* calls finish_instance, which is also how a submission that threw is tried *)
(* again.  A caller in solution mode submits Solutions made elsewhere.       *)
(* What an instance does inside a step is InstanceEnvironment's; here it     *)
(* earns a reward and ends with a journal its own clone could carry.         *)
(***************************************************************************)
EXTENDS Environment

CONSTANTS
  Rewards,    \* rewards of a single step
  MaxReward   \* bound: what one instance earns at most, either way

ASSUME RewardAssumption == Rewards \subseteq Int /\ MaxReward \in Nat

VARIABLES
  solutionMode,  \* options_.mode is InstanceStepMode::solution
  call,          \* the call that is in the lifecycle: "none", "reset", "submit"
  instance,      \* instance_
  cumulative,    \* cumulative_reward_
  credited,      \* credited_instance_reward_
  before         \* history: cumulative_reward_ when the instance was prepared

agentVars == <<instance, cumulative, credited, before>>
rlVars == <<vars, solutionMode, call, agentVars>>

None == [req |-> "none"]

\* reward is info().cumulative_reward, brought what a submitted Solution had
\* earned elsewhere; external says that the agent steps the instance itself.
Fresh(r, network) ==
  [req |-> r, snapshot |-> network, done |-> FALSE, held |-> Zero, result |-> FALSE,
   reward |-> 0, brought |-> 0, external |-> FALSE]

-----------------------------------------------------------------------------
(* Faulty variants, none is used by the specification.                      *)
Snapshot_Initial == Capacity            \* cloned from the network as configured
Remainder_All == instance.reward        \* what was credited step by step again
-----------------------------------------------------------------------------

OnlineInit ==
  /\ Init
  /\ solutionMode \in BOOLEAN
  /\ call = "none" /\ instance = None
  /\ cumulative = 0 /\ credited = 0 /\ before = 0

\* lifecycle_.physical_network().clone(), in the state the call left it in.
SnapshotNow == avail'

\* prepare_instance, after the call in the lifecycle: no instance when all is
\* done or when its constructor refuses the request.
Prepare ==
  /\ credited' = 0 /\ before' = cumulative'
  /\ \/ phase' = "finished" /\ instance' = None
     \/ phase' # "finished" /\ instance' \in {None, Fresh(schedule'[cursor'].req, SnapshotNow)}

\* The call in the lifecycle goes on, or ends with an instance prepared.
Returns ==
  \/ pc' = "draining" /\ UNCHANGED <<call, agentVars>>
  \/ pc' = "idle" /\ call' = "none" /\ UNCHANGED cumulative /\ Prepare

\* The exception leaves this class, with what was credited and the instance.
Throws == call' = "none" /\ UNCHANGED agentVars

Calls == call = "none" /\ pc = "idle"

-----------------------------------------------------------------------------
(* reset().                                                                 *)

ResetAgain ==
  /\ Calls
  /\ Reset
  /\ cumulative' = 0
  /\ IF schedule'[1].type = "leave"
     THEN call' = "reset" /\ instance' = None /\ UNCHANGED <<credited, before>>
     ELSE Prepare /\ UNCHANGED call
  /\ UNCHANGED solutionMode

ResetRefused ==
  /\ Calls
  /\ ResetThrows
  /\ instance' = None /\ cumulative' = 0
  /\ UNCHANGED <<solutionMode, call, credited, before>>

ResetDrains ==
  /\ call = "reset"
  /\ DrainLeaves
  /\ UNCHANGED <<solutionMode, call, agentVars>>

-----------------------------------------------------------------------------
(* The steps of the instance.                                               *)

lifecycleFrame == <<mutationVars, recorderVars, episodeVars, arrivalRecord, historyVars>>

Running == Calls /\ instance # None /\ ~instance.done
Earns(r) == instance.reward + r \in -MaxReward .. MaxReward
Credit(r) == cumulative' = cumulative + r /\ credited' = credited + r

\* transition() of a step that is done: the journal goes to the lifecycle.
Submit(d, ok) ==
  /\ held' = d /\ result' = ok /\ mode' = "detached"
  /\ pc' = "returned" /\ call' = "submit"

\* step, step_node_slots, reject, revoke of this class: the agent leaves the
\* instance alone.
StepOn(r) ==
  /\ Running /\ ~solutionMode /\ ~instance.external /\ Earns(r)
  /\ Credit(r)
  /\ instance' = [instance EXCEPT !.reward = @ + r]
  /\ UNCHANGED <<lifecycleFrame, solutionVars, pc, solutionMode, call, before>>

StepDone(r, d, ok) ==
  /\ Running /\ ~solutionMode /\ ~instance.external /\ Earns(r)
  /\ Covers(instance.snapshot, d)
  /\ Credit(r)
  /\ instance' = [instance EXCEPT !.reward = @ + r, !.done = TRUE, !.held = d, !.result = ok]
  /\ Submit(d, ok)
  /\ UNCHANGED <<lifecycleFrame, solutionMode, before>>

\* step_solution: the Solution replaces the instance's own, with the reward it
\* had earned where it was made.
StepSolution(r, brought, d, ok) ==
  /\ Running /\ solutionMode /\ brought \in 0 .. MaxReward /\ Earns(r)
  /\ Credit(r)
  /\ instance' = [instance EXCEPT !.reward = brought + r, !.brought = brought,
                                  !.done = TRUE, !.held = d, !.result = ok]
  /\ Submit(d, ok)
  /\ UNCHANGED <<lifecycleFrame, solutionMode, before>>

\* The agent steps instance() itself: nothing is credited.
StepInstance(r) ==
  /\ Running /\ ~solutionMode /\ Earns(r)
  /\ instance' = [instance EXCEPT !.reward = @ + r, !.external = TRUE]
  /\ UNCHANGED <<lifecycleFrame, solutionVars, pc, solutionMode, call, cumulative, credited, before>>

EndInstance(r, d, ok) ==
  /\ Running /\ ~solutionMode /\ Earns(r)
  /\ Covers(instance.snapshot, d)
  /\ instance' = [instance EXCEPT !.reward = @ + r, !.external = TRUE,
                                  !.done = TRUE, !.held = d, !.result = ok]
  /\ UNCHANGED <<lifecycleFrame, solutionVars, pc, solutionMode, call, cumulative, credited, before>>

\* instance().reset(): its clone and its reward begin again.
ResetInstance ==
  /\ Calls /\ instance # None /\ ~solutionMode
  /\ instance' = [Fresh(instance.req, instance.snapshot) EXCEPT !.external = TRUE]
  /\ UNCHANGED <<lifecycleFrame, solutionVars, pc, solutionMode, call, cumulative, credited, before>>

\* What finish_instance credits.
Remainder == instance.reward - credited

FinishInstance ==
  /\ Calls /\ instance # None /\ instance.done
  /\ Credit(Remainder)
  /\ Submit(instance.held, instance.result)
  /\ UNCHANGED <<lifecycleFrame, solutionMode, instance, before>>

-----------------------------------------------------------------------------
(* The lifecycle's step() and its drain.                                    *)

Admits == (StepAccepts \/ StepRejects) /\ Returns /\ UNCHANGED solutionMode

SubmitThrows ==
  /\ StepThrows \/ StepRatioThrows \/ \E ok \in BOOLEAN : StepSaveFails(ok)
  /\ Throws /\ UNCHANGED solutionMode

Drains == ReleaseCurrent /\ Returns /\ UNCHANGED solutionMode

DrainThrows == (ReleaseThrows \/ ReleaseSaveFails) /\ Throws /\ UNCHANGED solutionMode

OnlineNext ==
  \/ ResetAgain \/ ResetRefused \/ ResetDrains
  \/ \E r \in Rewards :
       \/ StepOn(r) \/ StepInstance(r)
       \/ \E d \in Holdings, ok \in BOOLEAN :
            \/ StepDone(r, d, ok) \/ EndInstance(r, d, ok)
            \/ \E brought \in Rewards : StepSolution(r, brought, d, ok)
  \/ ResetInstance \/ FinishInstance
  \/ Admits \/ SubmitThrows \/ Drains \/ DrainThrows

OnlineSpec == OnlineInit /\ [][OnlineNext]_rlVars

-----------------------------------------------------------------------------
\* The instance of an arrival that is still to be decided is of that arrival,
\* on the network as it is: however often its submission threw and whatever
\* the lifecycle did in between, what the agent built can still be deployed.
SnapshotIsLive ==
  AtArrival /\ pc = "idle" /\ instance # None =>
     /\ instance.req = Event.req
     /\ instance.snapshot = avail
     /\ ~solutionMode => Covers(avail, instance.held)

\* A request adds to the cumulative reward what its instance earned, once, no
\* matter who stepped it or how often its submission threw.  A Solution made
\* elsewhere adds its own reward, and when it is submitted again also the
\* reward it came with.
RewardCreditedOnce ==
  /\ instance # None => cumulative = before + credited
  /\ pc = "returned" =>
        \/ credited = instance.reward
        \/ solutionMode /\ credited = instance.reward - instance.brought
=============================================================================
