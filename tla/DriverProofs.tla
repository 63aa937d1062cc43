----------------------------- MODULE DriverProofs -----------------------------
(***************************************************************************)
(* Proofs about what drives Environment, for any requests, schedules and    *)
(* recorder failures: the OnlineEnvironment of an agent, and the systems of *)
(* MainRuntime.                                                             *)
(*                                                                          *)
(* Whatever an agent calls is a call that a caller of the lifecycle could   *)
(* have made: OnlineSpec implements Environment's Spec, so that everything  *)
(* proved there holds here.  What is left is how the instance relates to    *)
(* the lifecycle (InstanceInv) and its reward to what was credited          *)
(* (RewardInv).                                                             *)
(***************************************************************************)
EXTENDS OnlineEnvironment, MainRuntime, EnvironmentProofs

USE RewardAssumption, CapacityAssumption, EnvironmentAssumption
DEF RewardAssumption, CapacityAssumption, EnvironmentAssumption

Instances ==
  [req : Requests, snapshot : Amounts, done : BOOLEAN, held : Holdings, result : BOOLEAN,
   reward : Int, brought : Int, external : BOOLEAN]

OnlineTypes ==
  /\ instance \in {None} \cup Instances
  /\ cumulative \in Int /\ credited \in Int /\ before \in Int
  /\ solutionMode \in BOOLEAN

\* No transaction is ever open between two calls, and Solutions are detached.
NoTransaction == active = {} /\ mode = "detached" /\ pc \in {"idle", "returned", "draining"}

\* The instance is of the current arrival, as long as there is one.
InstanceInv ==
  instance # None =>
    /\ phase = "active"
    /\ AtArrival /\ pc # "draining" =>
         /\ instance.req = Event.req /\ instance.snapshot = avail
         /\ ~solutionMode => Covers(avail, instance.held)

\* What was credited of the instance's reward.
RewardInv ==
  /\ instance # None =>
       /\ cumulative = before + credited
       /\ ~solutionMode /\ ~instance.external => credited = instance.reward
       /\ solutionMode => ~instance.external
       /\ solutionMode /\ ~instance.done => credited = 0
  /\ pc = "returned" =>
       /\ instance # None
       /\ \/ credited = instance.reward
          \/ solutionMode /\ credited = instance.reward - instance.brought

OInv == IInv /\ OnlineTypes /\ NoTransaction /\ InstanceInv /\ RewardInv

-----------------------------------------------------------------------------
\* A new instance.
LEMMA FreshFacts ==
  ASSUME NEW r \in Requests, NEW a \in Amounts
  PROVE  /\ Fresh(r, a) \in Instances
         /\ Fresh(r, a).req = r /\ Fresh(r, a).snapshot = a /\ Fresh(r, a).held = Zero
         /\ Fresh(r, a).reward = 0 /\ ~Fresh(r, a).external /\ ~Fresh(r, a).done
         /\ Fresh(r, a) # None
         /\ Covers(a, Zero)
<1>1. Zero \in Holdings /\ Covers(a, Zero)
  BY DEF Zero, Holdings, Covers, Amounts
<1>2. QED
  BY <1>1 DEF Fresh, Instances, None

\* An instance after a step of its own, and at its end.
LEMMA Earned == \A i \in Instances, r \in Int : i.reward + r \in Int
BY DEF Instances

Stepped(i, x, e) == [i EXCEPT !.reward = x, !.external = e]
Ended(i, x, d, ok) ==
  [i EXCEPT !.reward = x, !.external = TRUE, !.done = TRUE, !.held = d, !.result = ok]
Completed(i, x, d, ok) == [i EXCEPT !.reward = x, !.done = TRUE, !.held = d, !.result = ok]
Brought(i, x, b, d, ok) ==
  [i EXCEPT !.reward = x, !.brought = b, !.done = TRUE, !.held = d, !.result = ok]

LEMMA SteppedFacts ==
  ASSUME NEW i \in Instances, NEW x \in Int, NEW e \in BOOLEAN
  PROVE  /\ Stepped(i, x, e) \in Instances /\ Stepped(i, x, e).external = e
         /\ Stepped(i, x, e).req = i.req /\ Stepped(i, x, e).snapshot = i.snapshot
         /\ Stepped(i, x, e).held = i.held
BY DEF Instances, Stepped

LEMMA EndedType ==
  \A i \in Instances, x \in Int, d \in Holdings, ok \in BOOLEAN : Ended(i, x, d, ok) \in Instances
BY DEF Instances, Ended

LEMMA EndedFields ==
  ASSUME NEW i \in Instances, NEW x, NEW d, NEW ok
  PROVE  /\ Ended(i, x, d, ok).external /\ Ended(i, x, d, ok).held = d
         /\ Ended(i, x, d, ok).req = i.req /\ Ended(i, x, d, ok).snapshot = i.snapshot
BY DEF Instances, Ended

LEMMA CompletedFacts ==
  ASSUME NEW i \in Instances, NEW x \in Int, NEW d \in Holdings, NEW ok \in BOOLEAN
  PROVE  /\ Completed(i, x, d, ok) \in Instances /\ Completed(i, x, d, ok).reward = x
         /\ Completed(i, x, d, ok).external = i.external
         /\ Completed(i, x, d, ok).req = i.req /\ Completed(i, x, d, ok).snapshot = i.snapshot
         /\ Completed(i, x, d, ok).held = d
BY DEF Instances, Completed

LEMMA BroughtType ==
  \A i \in Instances, x \in Int, b \in Int, d \in Holdings, ok \in BOOLEAN :
    Brought(i, x, b, d, ok) \in Instances
BY DEF Instances, Brought

LEMMA BroughtFields ==
  ASSUME NEW i \in Instances, NEW x, NEW b, NEW d, NEW ok
  PROVE  /\ Brought(i, x, b, d, ok).reward = x /\ Brought(i, x, b, d, ok).brought = b
         /\ Brought(i, x, b, d, ok).done /\ Brought(i, x, b, d, ok).external = i.external
         /\ Brought(i, x, b, d, ok).req = i.req /\ Brought(i, x, b, d, ok).snapshot = i.snapshot
BY DEF Instances, Brought

LEMMA NoneIsNone == None \notin Instances
BY DEF None, Instances

LEMMA InitOInv == OnlineInit => OInv
<1> SUFFICES ASSUME OnlineInit PROVE OInv
  OBVIOUS
<1>1. Init /\ IInv
  BY InitIInv DEF OnlineInit
<1>2. OnlineTypes /\ InstanceInv /\ RewardInv
  BY <1>1 DEF OnlineInit, Init, OnlineTypes, InstanceInv, RewardInv
<1>3. NoTransaction
  BY <1>1 DEF Init, MutationInit, NoTransaction
<1>4. QED
  BY <1>1, <1>2, <1>3 DEF OInv

-----------------------------------------------------------------------------
(* The calls of the lifecycle.                                              *)

\* The agent's calls that submit an instance, and those that do not.
Submits ==
  \/ \E r \in Rewards, d \in Holdings, ok \in BOOLEAN :
       \/ StepDone(r, d, ok)
       \/ \E brought \in Rewards : StepSolution(r, brought, d, ok)
  \/ FinishInstance

Tends ==
  \/ \E r \in Rewards :
       \/ StepOn(r) \/ StepInstance(r)
       \/ \E d \in Holdings, ok \in BOOLEAN : EndInstance(r, d, ok)
  \/ ResetInstance

\* A call in the lifecycle that failed, and one that returned.
Fails == SubmitThrows \/ DrainThrows
GoesOn == Admits \/ Drains
Resets == ResetAgain \/ ResetRefused \/ ResetDrains

LEMMA Calling == OnlineNext <=> Submits \/ Tends \/ Fails \/ GoesOn \/ Resets
BY DEF OnlineNext, Submits, Tends, Fails, GoesOn, Resets

\* A submission is one that CallerPrepares could have made.
LEMMA SubmitsPrepare ==
  ASSUME OInv, Submits
  PROVE  /\ CallerPrepares
         /\ UNCHANGED <<avail, active, phase, schedule, cursor>>
         /\ pc' = "returned" /\ mode' = "detached"
<1>1. pc = "idle" /\ instance # None /\ phase = "active"
  BY DEF Submits, StepDone, StepSolution, FinishInstance, Running, Calls, OInv, InstanceInv
<1>2. UNCHANGED lifecycleFrame /\ mode' = "detached" /\ pc' = "returned"
  BY DEF Submits, StepDone, StepSolution, FinishInstance, Submit
<1>3. held' \in Holdings /\ result' \in BOOLEAN
  <2>1. CASE FinishInstance
    BY <2>1, <1>1 DEF FinishInstance, Submit, OInv, OnlineTypes, Instances
  <2>2. CASE ~FinishInstance
    BY <2>2 DEF Submits, StepDone, StepSolution, Submit
  <2>3. QED
    BY <2>1, <2>2
<1>4. QED
  BY <1>1, <1>2, <1>3 DEF CallerPrepares, lifecycleFrame, solverFrame, mutationVars, transactionVars, episodeVars

\* What the agent does to its instance is hidden from the lifecycle.
LEMMA TendsHidden == Tends => UNCHANGED <<vars, solutionMode>>
BY DEF Tends, StepOn, StepInstance, EndInstance, ResetInstance, lifecycleFrame, vars

LEMMA OnlineStepsAreSteps == OInv /\ [OnlineNext]_rlVars => [Next]_vars
<1> SUFFICES ASSUME OInv, [OnlineNext]_rlVars PROVE [Next]_vars
  OBVIOUS
<1>1. CASE Submits
  BY <1>1, SubmitsPrepare DEF Next
<1>2. CASE Tends
  BY <1>2, TendsHidden
<1>3. CASE Fails \/ GoesOn
  BY <1>3 DEF Fails, GoesOn, SubmitThrows, DrainThrows, Admits, Drains, Next, Step, Drain
<1>4. CASE Resets
  BY <1>4 DEF Resets, ResetAgain, ResetRefused, ResetDrains, Next, Drain
<1>5. CASE UNCHANGED rlVars
  BY <1>5 DEF rlVars
<1>6. QED
  BY <1>1, <1>2, <1>3, <1>4, <1>5, Calling

\* How the calls in the lifecycle end.
LEMMA FailsEnd ==
  ASSUME OInv, Fails
  PROVE  /\ pc' = "idle" /\ active' = {} /\ mode' = "detached"
         /\ UNCHANGED <<phase, schedule, cursor, agentVars, solutionMode>>
         /\ AtArrival => avail' = avail
<1>1. active = {} /\ mode = "detached" /\ TypeOK /\ ControlInv
  BY DEF OInv, NoTransaction, IInv
<1>2. ASSUME NEW r, NEW o, RollbackTransaction(r, o) PROVE active' = {} /\ avail' = avail
  BY <1>1, <1>2 DEF RollbackTransaction, CloseTransaction, Restored
<1>3. CASE SubmitThrows
  BY <1>2, <1>3 DEF SubmitThrows, StepThrows, StepRatioThrows, StepSaveFails, BlankSolution,
     Throws, agentVars, episodeVars
<1>4. CASE DrainThrows
  <2>1. AtLeave /\ ~AtArrival
    BY <1>1, <1>4 DEF DrainThrows, ReleaseThrows, ReleaseSaveFails, GiveBack, ControlInv, AtLeave, AtArrival
  <2>2. QED
    BY <2>1, <1>1, <1>4 DEF DrainThrows, ReleaseThrows, ReleaseSaveFails, mutationVars,
       transactionVars, solutionVars, episodeVars, Throws, agentVars
<1>5. QED
  BY <1>3, <1>4 DEF Fails

LEMMA GoesOnEnds ==
  ASSUME OInv, GoesOn
  PROVE  /\ active' = {} /\ mode' = "detached" /\ Transit /\ Returns /\ UNCHANGED solutionMode
<1>1. active = {} /\ mode = "detached"
  BY DEF OInv, NoTransaction
<1>2. ASSUME NEW r, NEW o, CloseTransaction(r, o) PROVE active' = {}
  BY <1>1, <1>2 DEF CloseTransaction
<1>3. CASE Admits
  BY <1>2, <1>3 DEF Admits, StepAccepts, StepRejects, RollbackTransaction, BlankSolution
<1>4. CASE Drains
  BY <1>1, <1>4 DEF Drains, ReleaseCurrent, transactionVars, solutionVars
<1>5. QED
  BY <1>3, <1>4 DEF GoesOn

LEMMA NoTransactionStep == OInv /\ [OnlineNext]_rlVars => NoTransaction'
<1> SUFFICES ASSUME OInv, [OnlineNext]_rlVars PROVE NoTransaction'
  OBVIOUS
<1> USE DEF NoTransaction
<1>0. NoTransaction
  BY DEF OInv
<1>1. CASE Submits
  BY <1>0, <1>1, SubmitsPrepare
<1>2. CASE Tends
  BY <1>0, <1>2, TendsHidden DEF vars, mutationVars, solutionVars
<1>3. CASE Fails
  BY <1>3, FailsEnd
<1>4. CASE GoesOn
  BY <1>4, GoesOnEnds DEF Transit
<1>5. CASE Resets
  <2>1. CASE ResetAgain \/ ResetRefused
    BY <2>1 DEF ResetAgain, ResetRefused, Reset, ResetThrows, BeginReset, DropMutations, BlankSolution
  <2>2. CASE ResetDrains
    BY <1>0, <2>2 DEF ResetDrains, DrainLeaves, mutationVars, solutionVars
  <2>3. QED
    BY <1>5, <2>1, <2>2 DEF Resets
<1>6. CASE UNCHANGED rlVars
  BY <1>0, <1>6 DEF rlVars, vars, mutationVars, solutionVars
<1>7. QED
  BY <1>1, <1>2, <1>3, <1>4, <1>5, <1>6, Calling

-----------------------------------------------------------------------------
(* A new instance is of the event that is now current.                      *)

LEMMA PlannedRequest ==
  ASSUME NEW s \in Seq(Events), NEW c \in DOMAIN s
  PROVE  s[c].req \in Requests
<1>1. s[c] \in Events
  OBVIOUS
<1>2. PICK r \in Requests : s[c] = Arrival(r) \/ s[c] = Leave(r)
  BY <1>1 DEF Events
<1>3. QED
  BY <1>2 DEF Arrival, Leave

LEMMA Prepared ==
  ASSUME TypeOK', Prepare, phase' \in {"active", "finished"}, pc' = "idle",
         cumulative' \in Int, solutionMode' \in BOOLEAN
  PROVE  OnlineTypes' /\ InstanceInv' /\ RewardInv'
<1>1. CASE instance' = None
  BY <1>1 DEF Prepare, OnlineTypes, InstanceInv, RewardInv
<1>2. CASE instance' # None
  <2>1. phase' = "active" /\ instance' = Fresh(schedule'[cursor'].req, avail')
    BY <1>2 DEF Prepare, SnapshotNow
  <2>2. schedule'[cursor'].req \in Requests /\ avail' \in Amounts
    BY <2>1, PlannedRequest DEF TypeOK, EpisodeTypes, MutationTypes
  <2> DEFINE f == Fresh(schedule'[cursor'].req, avail')
  <2>3. /\ f \in Instances /\ f.req = schedule'[cursor'].req /\ f.snapshot = avail'
        /\ Covers(avail', f.held) /\ f.reward = 0 /\ ~f.external /\ ~f.done
    BY <2>2, FreshFacts
  <2> HIDE DEF f
  <2>4. instance' = f
    BY <2>1 DEF f
  <2>5. OnlineTypes'
    BY <2>3, <2>4 DEF Prepare, OnlineTypes
  <2>6. InstanceInv'
    BY <2>1, <2>3, <2>4 DEF InstanceInv, Event
  <2>7. RewardInv'
    BY <2>3, <2>4 DEF Prepare, RewardInv
  <2>8. QED
    BY <2>5, <2>6, <2>7
<1>3. QED
  BY <1>1, <1>2

-----------------------------------------------------------------------------
(* Each call keeps the instance and its reward accounted for.               *)

Accounted == OnlineTypes /\ InstanceInv /\ RewardInv

LEMMA TendsAccount ==
  ASSUME OInv, Tends
  PROVE  Accounted'
<1> USE DEF OInv, Accounted
<1>0. /\ UNCHANGED <<pc, phase, schedule, cursor, avail, solutionMode, before>>
      /\ instance \in Instances /\ pc = "idle" /\ ~solutionMode
  BY TendsHidden DEF Tends, StepOn, StepInstance, EndInstance, ResetInstance, vars, mutationVars,
     episodeVars, Running, Calls, OnlineTypes
<1>1. Event' = Event /\ AtArrival' = AtArrival
  BY <1>0 DEF Event, AtArrival
<1>2. ASSUME NEW r \in Rewards, StepOn(r) PROVE Accounted'
  <2>1. /\ instance' = [instance EXCEPT !.reward = @ + r]
        /\ cumulative' = cumulative + r /\ credited' = credited + r /\ ~instance.external
    BY <1>2 DEF StepOn, Credit
  <2>2. /\ instance' \in Instances /\ instance'.reward = instance.reward + r /\ ~instance'.external
        /\ instance'.req = instance.req /\ instance'.snapshot = instance.snapshot
        /\ instance'.held = instance.held
    BY <1>0, <2>1 DEF Instances
  <2>3. OnlineTypes' /\ InstanceInv'
    BY <1>0, <1>1, <2>1, <2>2, NoneIsNone DEF OnlineTypes, InstanceInv
  <2>4. RewardInv'
    BY <1>0, <2>1, <2>2, NoneIsNone DEF OnlineTypes, RewardInv
  <2>5. QED
    BY <2>3, <2>4
<1>3. ASSUME instance' \in Instances, instance'.external = TRUE, UNCHANGED <<cumulative, credited>>,
             instance'.req = instance.req, instance'.snapshot = instance.snapshot,
             AtArrival => Covers(instance.snapshot, instance'.held)
      PROVE  Accounted'
  <2>1. OnlineTypes' /\ InstanceInv'
    BY <1>0, <1>1, <1>3, NoneIsNone DEF OnlineTypes, InstanceInv
  <2>2. RewardInv'
    BY <1>0, <1>3, NoneIsNone DEF OnlineTypes, RewardInv
  <2>3. QED
    BY <2>1, <2>2
<1>4. ASSUME NEW r \in Rewards, StepInstance(r) PROVE Accounted'
  <2>1. instance' = [instance EXCEPT !.reward = @ + r, !.external = TRUE] /\ UNCHANGED <<cumulative, credited>>
    BY <1>4 DEF StepInstance
  <2>2. /\ instance' \in Instances /\ instance'.external = TRUE /\ instance'.held = instance.held
        /\ instance'.req = instance.req /\ instance'.snapshot = instance.snapshot
    <3>1. instance.reward + r \in Int /\ TRUE \in BOOLEAN
      BY <1>0, Earned
    <3>2. instance' = Stepped(instance, instance.reward + r, TRUE)
      BY <2>1 DEF Stepped
    <3>3. QED
      BY <1>0, <3>1, <3>2, SteppedFacts
  <2>3. AtArrival => Covers(instance.snapshot, instance'.held)
    BY <1>0, <2>2, NoneIsNone DEF InstanceInv
  <2>4. QED
    BY <2>1, <2>2, <2>3, <1>3
<1>5. ASSUME NEW r \in Rewards, NEW d \in Holdings, NEW ok \in BOOLEAN, EndInstance(r, d, ok)
      PROVE  Accounted'
  <2>1. /\ instance' = [instance EXCEPT !.reward = @ + r, !.external = TRUE,
                                        !.done = TRUE, !.held = d, !.result = ok]
        /\ UNCHANGED <<cumulative, credited>> /\ Covers(instance.snapshot, d)
    BY <1>5 DEF EndInstance
  <2>2. /\ instance' \in Instances /\ instance'.external = TRUE /\ instance'.held = d
        /\ instance'.req = instance.req /\ instance'.snapshot = instance.snapshot
    <3>1. instance.reward + r \in Int /\ TRUE \in BOOLEAN
      BY <1>0, Earned
    <3>2. PICK x \in Int : x = instance.reward + r
      BY <3>1
    <3>3. instance' = Ended(instance, x, d, ok)
      BY <2>1, <3>2 DEF Ended
    <3>4. Ended(instance, x, d, ok) \in Instances
      BY <1>0, EndedType
    <3>5. /\ Ended(instance, x, d, ok).external /\ Ended(instance, x, d, ok).held = d
          /\ Ended(instance, x, d, ok).req = instance.req
          /\ Ended(instance, x, d, ok).snapshot = instance.snapshot
      BY <1>0, EndedFields
    <3>6. QED
      BY <3>3, <3>4, <3>5
  <2>3. QED
    BY <2>1, <2>2, <1>3
<1>6. CASE ResetInstance
  <2> DEFINE f == Fresh(instance.req, instance.snapshot)
  <2>1. instance.req \in Requests /\ instance.snapshot \in Amounts
    BY <1>0 DEF Instances
  <2>2. /\ f \in Instances /\ f.req = instance.req /\ f.snapshot = instance.snapshot
        /\ Covers(instance.snapshot, f.held)
    BY <2>1, FreshFacts
  <2> HIDE DEF f
  <2>3. instance' = [f EXCEPT !.external = TRUE] /\ UNCHANGED <<cumulative, credited>>
    BY <1>6 DEF ResetInstance, f
  <2>4. /\ instance' \in Instances /\ instance'.external = TRUE /\ instance'.held = f.held
        /\ instance'.req = f.req /\ instance'.snapshot = f.snapshot
    BY <2>2, <2>3 DEF Instances
  <2>5. QED
    BY <2>2, <2>3, <2>4, <1>3
<1>7. QED
  BY <1>2, <1>4, <1>5, <1>6 DEF Tends

LEMMA SubmitsAccount ==
  ASSUME OInv, Submits
  PROVE  Accounted'
<1> USE DEF OInv, Accounted
<1>0. /\ UNCHANGED <<phase, schedule, cursor, avail, solutionMode, before>>
      /\ pc = "idle" /\ pc' = "returned" /\ instance \in Instances
  BY SubmitsPrepare DEF Submits, StepDone, StepSolution, FinishInstance, CallerPrepares, Running, Calls,
     OnlineTypes
<1>1. Event' = Event /\ AtArrival' = AtArrival
  BY <1>0 DEF Event, AtArrival
<1>2. ASSUME NEW r \in Rewards, NEW d \in Holdings, NEW ok \in BOOLEAN, StepDone(r, d, ok)
      PROVE  Accounted'
  <2>1. /\ instance' = [instance EXCEPT !.reward = @ + r, !.done = TRUE, !.held = d, !.result = ok]
        /\ cumulative' = cumulative + r /\ credited' = credited + r
        /\ ~instance.external /\ ~solutionMode /\ Covers(instance.snapshot, d)
    BY <1>2 DEF StepDone, Credit
  <2>2. /\ instance' \in Instances /\ instance'.reward = instance.reward + r /\ instance'.external = instance.external
        /\ instance'.req = instance.req /\ instance'.snapshot = instance.snapshot
        /\ instance'.held = d
    <3>1. instance.reward + r \in Int /\ TRUE \in BOOLEAN
      BY <1>0, Earned
    <3>2. instance' = Completed(instance, instance.reward + r, d, ok)
      BY <2>1 DEF Completed
    <3>3. QED
      BY <1>0, <3>1, <3>2, CompletedFacts
  <2>3. OnlineTypes' /\ InstanceInv'
    BY <1>0, <1>1, <2>1, <2>2, NoneIsNone DEF OnlineTypes, InstanceInv
  <2>4. RewardInv'
    BY <1>0, <2>1, <2>2, NoneIsNone DEF OnlineTypes, RewardInv
  <2>5. QED
    BY <2>3, <2>4
<1>3. ASSUME NEW r \in Rewards, NEW brought \in Rewards, NEW d \in Holdings, NEW ok \in BOOLEAN,
             StepSolution(r, brought, d, ok)
      PROVE  Accounted'
  <2>1. /\ instance' = [instance EXCEPT !.reward = brought + r, !.brought = brought,
                                        !.done = TRUE, !.held = d, !.result = ok]
        /\ cumulative' = cumulative + r /\ credited' = credited + r
        /\ ~instance.done /\ solutionMode
    BY <1>3 DEF StepSolution, Credit, Running
  <2>2. /\ instance' \in Instances /\ instance'.reward = brought + r /\ instance'.brought = brought
        /\ instance'.req = instance.req /\ instance'.snapshot = instance.snapshot
        /\ instance'.external = instance.external /\ instance'.done = TRUE
    <3>1. brought + r \in Int /\ brought \in Int /\ TRUE \in BOOLEAN
      OBVIOUS
    <3>2. PICK x \in Int : x = brought + r
      BY <3>1
    <3>3. instance' = Brought(instance, x, brought, d, ok)
      BY <2>1, <3>2 DEF Brought
    <3>4. Brought(instance, x, brought, d, ok) \in Instances
      BY <1>0, <3>1, BroughtType
    <3>5. /\ Brought(instance, x, brought, d, ok).reward = x
          /\ Brought(instance, x, brought, d, ok).brought = brought
          /\ Brought(instance, x, brought, d, ok).done
          /\ Brought(instance, x, brought, d, ok).external = instance.external
          /\ Brought(instance, x, brought, d, ok).req = instance.req
          /\ Brought(instance, x, brought, d, ok).snapshot = instance.snapshot
      BY <1>0, BroughtFields
    <3>6. QED
      BY <3>2, <3>3, <3>4, <3>5
  <2>3. OnlineTypes' /\ InstanceInv'
    BY <1>0, <1>1, <2>1, <2>2, NoneIsNone DEF OnlineTypes, InstanceInv
  <2>4. credited = 0 /\ ~instance.external
    BY <1>0, <2>1, NoneIsNone DEF RewardInv
  <2>5. RewardInv'
    BY <1>0, <2>1, <2>2, <2>4, NoneIsNone DEF OnlineTypes, RewardInv
  <2>6. QED
    BY <2>3, <2>5
<1>4. CASE FinishInstance
  <2>1. /\ cumulative' = cumulative + Remainder /\ credited' = credited + Remainder
        /\ UNCHANGED instance /\ instance.done
    BY <1>4 DEF FinishInstance, Credit
  <2>2. Remainder \in Int /\ credited + Remainder = instance.reward
    BY <1>0 DEF Remainder, OnlineTypes, Instances
  <2>3. OnlineTypes' /\ InstanceInv'
    BY <1>0, <1>1, <2>1, <2>2 DEF OnlineTypes, InstanceInv
  <2>4. RewardInv'
    BY <1>0, <2>1, <2>2, NoneIsNone DEF OnlineTypes, RewardInv
  <2>5. QED
    BY <2>3, <2>4
<1>5. QED
  BY <1>2, <1>3, <1>4 DEF Submits

LEMMA FailsAccount ==
  ASSUME OInv, Fails
  PROVE  Accounted'
<1>1. Event' = Event /\ AtArrival' = AtArrival
  BY FailsEnd DEF Event, AtArrival
<1>2. pc = "draining" => ~AtArrival
  BY DEF OInv, IInv, ControlInv, AtLeave, AtArrival
<1>3. QED
  BY <1>1, <1>2, FailsEnd DEF OInv, Accounted, OnlineTypes, InstanceInv, RewardInv, agentVars

LEMMA GoesOnAccount ==
  ASSUME OInv, TypeOK', ControlInv', GoesOn
  PROVE  Accounted'
<1>0. Transit /\ Returns /\ UNCHANGED solutionMode /\ pc # "idle" /\ phase = "active"
  BY GoesOnEnds DEF GoesOn, Admits, Drains, StepAccepts, StepRejects, SubmittedForArrival, Submitted,
     ReleaseCurrent, GiveBack, OInv, IInv, ControlInv
<1>1. CASE pc' = "draining"
  <2>1. UNCHANGED agentVars /\ phase' = "active" /\ ~AtArrival'
    BY <1>0, <1>1 DEF Returns, ControlInv, AtLeave, AtArrival
  <2>2. QED
    BY <2>1, <1>0, <1>1 DEF OInv, Accounted, OnlineTypes, InstanceInv, RewardInv, agentVars
<1>2. CASE pc' = "idle"
  <2>1. Prepare /\ UNCHANGED cumulative /\ phase' \in {"active", "finished"}
    BY <1>0, <1>2 DEF Returns, Transit
  <2>2. QED
    BY <2>1, <1>0, <1>2, Prepared DEF OInv, OnlineTypes, Accounted
<1>3. QED
  BY <1>0, <1>1, <1>2 DEF Returns

LEMMA ResetsAccount ==
  ASSUME OInv, TypeOK', Resets
  PROVE  Accounted'
<1> USE DEF OInv, Accounted
<1>1. CASE ResetAgain
  <2>1. phase' = "active" /\ pc' = "idle" /\ cumulative' = 0 /\ solutionMode' \in BOOLEAN
    BY <1>1 DEF ResetAgain, Reset, BeginReset, OnlineTypes
  <2>2. CASE instance' = None /\ UNCHANGED <<credited, before>>
    BY <2>1, <2>2 DEF OnlineTypes, InstanceInv, RewardInv
  <2>3. CASE Prepare
    BY <2>1, <2>3, Prepared
  <2>4. QED
    BY <1>1, <2>2, <2>3 DEF ResetAgain
<1>2. CASE ResetRefused
  BY <1>2 DEF ResetRefused, ResetThrows, BeginReset, OnlineTypes, InstanceInv, RewardInv
<1>3. CASE ResetDrains
  <2>1. /\ UNCHANGED <<agentVars, solutionMode, phase>> /\ pc' = "draining" /\ AtLeave
        /\ UNCHANGED <<schedule, cursor>>
    BY <1>3 DEF ResetDrains, DrainLeaves, episodeVars
  <2>2. QED
    BY <2>1 DEF OnlineTypes, InstanceInv, RewardInv, agentVars
<1>4. QED
  BY <1>1, <1>2, <1>3 DEF Resets

LEMMA StepOInv == OInv /\ [OnlineNext]_rlVars => OInv'
<1> SUFFICES ASSUME OInv, [OnlineNext]_rlVars PROVE OInv'
  OBVIOUS
<1>1. IInv'
  BY OnlineStepsAreSteps, StepIInv DEF OInv
<1>2. NoTransaction'
  BY NoTransactionStep
<1>3. Accounted'
  <2>1. CASE UNCHANGED rlVars
    BY <2>1 DEF rlVars, vars, agentVars, mutationVars, episodeVars, OInv, Accounted, OnlineTypes,
       InstanceInv, RewardInv, Event, AtArrival
  <2>2. TypeOK' /\ ControlInv'
    BY <1>1 DEF IInv
  <2>3. QED
    BY <2>1, <2>2, Calling, TendsAccount, SubmitsAccount, FailsAccount, GoesOnAccount, ResetsAccount
<1>4. QED
  BY <1>1, <1>2, <1>3 DEF OInv, Accounted

-----------------------------------------------------------------------------
\* OInv is an invariant of the agent's environment.
THEOREM OnlineInvariant == OnlineSpec => []OInv
<1>1. OnlineInit => OInv
  BY InitOInv
<1>2. OInv /\ [OnlineNext]_rlVars => OInv'
  BY StepOInv
<1>3. QED
  BY <1>1, <1>2, PTL DEF OnlineSpec

\* An agent uses the lifecycle as any caller may: all that is proved about
\* Environment holds behind an OnlineEnvironment as well.
THEOREM OnlineImplementsEnvironment == OnlineSpec => Spec
<1>1. OnlineInit => Init
  BY DEF OnlineInit
<1>2. OInv /\ [OnlineNext]_rlVars => [Next]_vars
  BY OnlineStepsAreSteps
<1>3. QED
  BY <1>1, <1>2, OnlineInvariant, PTL DEF OnlineSpec, Spec

\* What an agent built, on a clone, still fits the network its submission is
\* tried on, after any number of failed tries.
THEOREM SnapshotsAreLive == OnlineSpec => []SnapshotIsLive
<1>1. OInv => SnapshotIsLive
  BY DEF OInv, InstanceInv, SnapshotIsLive
<1>2. QED
  BY <1>1, OnlineInvariant, PTL

\* The reward of an instance is credited once, whoever stepped it and however
\* often its submission threw.
THEOREM RewardsCreditedOnce == OnlineSpec => []RewardCreditedOnce
<1>1. OInv => RewardCreditedOnce
  BY DEF OInv, RewardInv, RewardCreditedOnce
<1>2. QED
  BY <1>1, OnlineInvariant, PTL

\* Whatever an agent does, and whatever fails and is tried again, no resource
\* of the network is lost.
THEOREM NothingIsLostOnline == OnlineSpec => []NothingIsLost
BY OnlineImplementsEnvironment, NothingIsEverLost, PTL

-----------------------------------------------------------------------------
(* The systems of MainRuntime: what a step of theirs does to the lifecycle. *)

USE OnlineAssumption, WindowAssumption, StagesAssumption, ListsAssumption
DEF OnlineAssumption, WindowAssumption, StagesAssumption, ListsAssumption

LEMMA RunStepsAreSteps == RunNext => [Next]_vars
<1>1. ASSUME BeginEpoch \/ ResetFails \/ Finish \/ NoArrival PROVE [Next]_vars
  BY <1>1 DEF BeginEpoch, ResetFails, Finish, NoArrival, Next
<1>2. ASSUME OpenTransaction \/ SolverWorks \/ SolverReturns \/ SolverFails PROVE Next
  BY <1>2 DEF OpenTransaction, SolverWorks, SolverReturns, SolverFails, Next, SolverStep
<1>3. ASSUME StepFails \/ StepAccepted \/ StepRejected PROVE Next
  BY <1>3 DEF StepFails, StepAccepted, StepRejected, Next, Step
<1>4. ASSUME AutoRelease \/ ReleaseFails PROVE Next
  BY <1>4 DEF AutoRelease, ReleaseFails, Next, Drain
<1>5. QED
  BY <1>1, <1>2, <1>3, <1>4 DEF RunNext

\* The modes with an environment only differ in what they note beside it.
LEMMA RuntimeStepKinds ==
  ASSUME [RuntimeNext]_runtimeVars
  PROVE  /\ systemMode' = systemMode
         /\ \/ UNCHANGED runtimeVars
            \/ systemMode # "offline" /\ RunNext
            \/ systemMode = "offline" /\ OfflineNext
            \/ systemMode = "time_window" /\ WindowThrows
            \/ systemMode = "changeable" /\ (NextStage \/ LastStage)
<1>1. WindowNext => RunNext \/ WindowThrows
  BY DEF WindowNext, WindowEpoch, WindowTransaction, WindowSteps, WindowQuiet, RunNext
<1>2. QED
  BY <1>1 DEF RuntimeNext, RunOnline, RunOffline, RunWindows, RunStages, ChangeableNext, runtimeVars

-----------------------------------------------------------------------------
(* LifecycleInv: the environment of the next stage, and the network of the  *)
(* offline run.                                                             *)

LEMMA OtherEnvironmentIInv ==
  ASSUME IInv, pc = "idle", OtherEnvironment
  PROVE  IInv'
<1>1. /\ avail' = Capacity /\ active' = {} /\ checkpoint' = [r \in Requests |-> Zero]
      /\ freeBuffers' = freeBuffers /\ ResetRecorder
      /\ phase' = "unready" /\ schedule' = <<>> /\ cursor' = 0
      /\ arrivalRecord' = [r \in Requests |-> 0]
      /\ UNCHANGED <<pc, solutionVars, historyVars>>
  BY DEF OtherEnvironment, DropMutations
<1>2. MutationTypes'
  BY <1>1, AmountFacts DEF IInv, TypeOK, MutationTypes
<1>3. RecorderTypes'
  BY <1>1 DEF ResetRecorder, RecorderTypes, NoCounts, NoMembers
<1>4. EpisodeTypes'
  BY <1>1 DEF EpisodeTypes
<1>5. SolutionTypes'
  BY <1>1, Zenon DEF IInv, TypeOK, SolutionTypes, solutionVars
<1>6. episodes' \in Nat /\ failures' \in Nat /\ recorderFailed' \in BOOLEAN
  BY <1>1, Zenon DEF IInv, TypeOK, historyVars
<1>7. TypeOK'
  BY <1>2, <1>3, <1>4, <1>5, <1>6 DEF TypeOK
<1>8. (TransactionScope /\ JournalBalances /\ DetachedUntouched)'
  BY <1>1 DEF TransactionScope, JournalBalances, DetachedUntouched
<1>9. (ReleaseFindsItsArrival /\ DecidedArrivals /\ ControlInv /\ HistoryReaches /\ DepartedWereDecided)'
  BY <1>1 DEF ResetRecorder, ReleaseFindsItsArrival, DecidedArrivals, ControlInv,
     HistoryReaches, Processed, DepartedWereDecided, Departed
<1>10. QED
  BY <1>7, <1>8, <1>9 DEF IInv

LEMMA CheckpointFacts ==
  ASSUME checkpoint = [r \in Requests |-> checkpoint[r]], NEW q \in Requests, NEW v
  PROVE  [checkpoint EXCEPT ![q] = v] = [r \in Requests |-> IF r = q THEN v ELSE checkpoint[r]]
OBVIOUS

\* The open checkpoint is the current request's, and putting it back gives the
\* untouched network.
LEMMA OfflineRollback ==
  ASSUME OfflineInv, phase = "active", RollbackTransaction(Event.req, FALSE)
  PROVE  /\ avail' = Capacity /\ active' = {}
         /\ checkpoint' = [r \in Requests |-> checkpoint'[r]]
<1>1. avail' = Capacity /\ active' = {}
  BY DEF OfflineInv, RollbackTransaction, Restored, CloseTransaction, SnapshotIsPristine
<1>2. checkpoint' = [checkpoint EXCEPT ![Event.req] = Zero]
  BY DEF RollbackTransaction, CloseTransaction
<1>3. checkpoint = [r \in Requests |-> checkpoint[r]]
  BY DEF OfflineInv
<1>4. QED
  BY <1>1, <1>2, <1>3

LEMMA OfflineInvStep ==
  ASSUME OfflineInv, RunInv, OfflineNext
  PROVE  OfflineInv'
<1> DEFINE arrivals == {Arrival(r) : r \in Requests}
<1>0. /\ schedule \in Seq(arrivals) /\ cursor \in Nat /\ (phase = "active" => cursor \in DOMAIN schedule)
      /\ checkpoint = [r \in Requests |-> checkpoint[r]]
      /\ SnapshotIsPristine
  BY DEF OfflineInv
<1>1. phase = "active" => Event.req \in Requests /\ Event.type = "arrival"
  BY <1>0 DEF Event, Arrival
<1>2. CASE OfflineReady
  <2>1. PICK list \in RequestLists : schedule' = [i \in DOMAIN list |-> Arrival(list[i])]
    BY <1>2 DEF OfflineReady
  <2>2. list \in Seq(Requests)
    BY <2>1
  <2>3. schedule' \in Seq(arrivals)
    BY <2>1, <2>2
  <2>4. /\ phase' = "finished" /\ cursor' = 0 /\ avail' = Capacity
        /\ UNCHANGED <<active, checkpoint, pc, summaries>>
    BY <1>2 DEF OfflineReady, transactionVars
  <2>5. QED
    BY <2>3, <2>4, <1>2 DEF OfflineReady, OfflineInv, SnapshotIsPristine
<1>3. CASE OfflineEpoch
  <2>1. UNCHANGED <<avail, active, checkpoint, pc, schedule>> /\ phase = "finished"
    BY <1>3 DEF OfflineEpoch, mutationVars
  <2>2. \/ UNCHANGED <<phase, cursor>>
        \/ schedule # <<>> /\ phase' = "active" /\ cursor' = 1
    BY <1>3 DEF OfflineEpoch
  <2>3. active = {}
    BY <2>1 DEF OfflineInv
  <2>4. cursor' \in Nat /\ (phase' = "active" => cursor' \in DOMAIN schedule')
    BY <1>0, <2>1, <2>2
  <2>5. phase' # "unready"
    BY <2>1, <2>2
  <2>6. SnapshotIsPristine'
    BY <1>0, <2>1 DEF SnapshotIsPristine
  <2>7. QED
    BY <2>1, <2>3, <2>4, <2>5, <2>6 DEF OfflineInv
<1>4. ASSUME run = "looping", RollbackTransaction(Event.req, FALSE), schedule' = schedule,
             pc' \in {"idle", "returned"}, phase' \in {"active", "finished"},
             \/ cursor' = cursor
             \/ ~Last /\ cursor' = cursor + 1
      PROVE  OfflineInv'
  <2>1. avail' = Capacity /\ active' = {} /\ checkpoint' = [r \in Requests |-> checkpoint'[r]]
    BY <1>4, OfflineRollback DEF RunInv
  <2>2. cursor \in DOMAIN schedule
    BY <1>0, <1>4 DEF RunInv
  <2>3. cursor' \in Nat /\ cursor' \in DOMAIN schedule'
    BY <1>0, <1>4, <2>2 DEF Last
  <2>4. QED
    BY <1>0, <1>4, <2>1, <2>3 DEF OfflineInv, SnapshotIsPristine
<1>5. CASE OfflineCounts
  BY <1>4, <1>5 DEF OfflineCounts, Evaluated, RunInv
<1>6. CASE OfflineCountThrows
  BY <1>4, <1>6 DEF OfflineCountThrows, Evaluated, RunInv, episodeVars
<1>7. CASE SolverFails
  BY <1>4, <1>7 DEF SolverFails, SolverThrows, RunInv, episodeVars
<1>8. CASE Finish
  BY <1>8 DEF Finish, vars, mutationVars, episodeVars, OfflineInv, SnapshotIsPristine, Event
<1>9. CASE OpenTransaction
  <2>1. /\ pc = "idle" /\ phase = "active" /\ BeginTransaction(Event.req) /\ pc' = "solving"
        /\ UNCHANGED <<avail, episodeVars, summaries>>
    BY <1>9 DEF OpenTransaction, SolverTransaction, AtArrival
  <2>2. active = {} /\ avail = Capacity
    BY <2>1 DEF OfflineInv, SnapshotIsPristine
  <2>3. active' = {Event.req} /\ checkpoint' = [checkpoint EXCEPT ![Event.req] = Capacity]
    BY <2>1, <2>2 DEF BeginTransaction, Snapshot
  <2>4. Event.req \in Requests
    BY <1>1, <2>1
  <2>5. checkpoint' = [r \in Requests |-> checkpoint'[r]] /\ checkpoint'[Event.req] = Capacity
    BY <1>0, <2>3, <2>4
  <2>6. QED
    BY <1>0, <2>1, <2>3, <2>5 DEF OfflineInv, SnapshotIsPristine, episodeVars, Event
<1>10. ASSUME UNCHANGED <<active, checkpoint, episodeVars, summaries>>, pc' # "idle",
              pc \in {"solving", "torn"}
       PROVE  OfflineInv'
  BY <1>0, <1>10 DEF OfflineInv, SnapshotIsPristine, episodeVars, Event
<1>11. CASE SolverWorks
  BY <1>10, <1>11 DEF SolverWorks, SolverTakes, SolverGivesBack, SolverTears, solverFrame, transactionVars
<1>12. CASE SolverReturns
  <2>1. CASE SolverGivesUp
    BY <1>4, <1>12, <2>1 DEF SolverReturns, SolverGivesUp, RunInv, episodeVars
  <2>2. CASE ~SolverGivesUp
    BY <1>10, <1>12, <2>2 DEF SolverReturns, SolverCommits, SolverRejects, SolverDetaches, solverFrame, transactionVars
  <2>3. QED
    BY <2>1, <2>2
<1>13. QED
  BY <1>2, <1>3, <1>5, <1>6, <1>7, <1>8, <1>9, <1>11, <1>12 DEF OfflineNext

-----------------------------------------------------------------------------
(* What a step does to the summaries: nothing (Waits), or it begins an      *)
(* epoch, ends one that has no requests, begins the next stage, or counts    *)
(* the current event and goes on to the next one (Passes).                  *)

Waits ==
  /\ UNCHANGED <<summaries, summary>>
  /\ run' = "looping" => run = "looping" /\ UNCHANGED <<schedule, cursor>>
  /\ run' = "between" => run = "between" /\ (summaries = <<>> \/ UNCHANGED schedule)

Begins ==
  /\ run = "between" /\ run' = "looping"
  /\ cursor' = 1 /\ summary' = NoSummary /\ UNCHANGED summaries

Skips ==
  /\ run = "between" /\ run' = "between"
  /\ schedule = <<>> /\ UNCHANGED schedule
  /\ summaries' = Append(summaries, NoSummary) /\ summary' = NoSummary

NextBegins == run' = "between" /\ summaries' = <<>> /\ summary' = NoSummary

CountsEvent(c) ==
  /\ c \in SummaryType
  /\ Event.type = "arrival" =>
       /\ c.accepted + c.rejected = summary.accepted + summary.rejected + 1
       /\ c.released = summary.released
  /\ Event.type = "leave" =>
       /\ c.accepted + c.rejected = summary.accepted + summary.rejected
       /\ c.released = summary.released + 1

GoesTo(c) ==
  IF Last
  THEN run' = "between" /\ summaries' = Append(summaries, c) /\ summary' = NoSummary
  ELSE run' = "looping" /\ cursor' = cursor + 1 /\ summary' = c /\ UNCHANGED summaries

Passes(c) == run = "looping" /\ UNCHANGED schedule /\ CountsEvent(c) /\ GoesTo(c)

\* The counts of a summary.
LEMMA SummaryFacts ==
  ASSUME NEW c \in SummaryType
  PROVE  /\ c.accepted \in Nat /\ c.rejected \in Nat /\ c.released \in Nat
         /\ LET d == [c EXCEPT !.accepted = @ + 1]
            IN d \in SummaryType /\ d.accepted = c.accepted + 1 /\ d.rejected = c.rejected
               /\ d.released = c.released
         /\ LET d == [c EXCEPT !.rejected = @ + 1]
            IN d \in SummaryType /\ d.accepted = c.accepted /\ d.rejected = c.rejected + 1
               /\ d.released = c.released
         /\ LET d == [c EXCEPT !.released = @ + 1]
            IN d \in SummaryType /\ d.accepted = c.accepted /\ d.rejected = c.rejected
               /\ d.released = c.released + 1
BY DEF SummaryType

\* A decided arrival, and a leave that was drained.
LEMMA CountsFacts ==
  ASSUME RunInv
  PROVE  /\ Event.type = "arrival" =>
              /\ CountsEvent([summary EXCEPT !.accepted = @ + 1])
              /\ CountsEvent([summary EXCEPT !.rejected = @ + 1])
         /\ Event.type = "leave" => CountsEvent([summary EXCEPT !.released = @ + 1])
<1>1. summary \in SummaryType
  BY DEF RunInv
<1> DEFINE a == [summary EXCEPT !.accepted = @ + 1]
           b == [summary EXCEPT !.rejected = @ + 1]
           d == [summary EXCEPT !.released = @ + 1]
<1>2. /\ summary.accepted \in Nat /\ summary.rejected \in Nat /\ summary.released \in Nat
      /\ a \in SummaryType /\ a.accepted = summary.accepted + 1 /\ a.rejected = summary.rejected
      /\ a.released = summary.released
      /\ b \in SummaryType /\ b.accepted = summary.accepted /\ b.rejected = summary.rejected + 1
      /\ b.released = summary.released
      /\ d \in SummaryType /\ d.accepted = summary.accepted /\ d.rejected = summary.rejected
      /\ d.released = summary.released + 1
  BY <1>1, SummaryFacts
<1> HIDE DEF a, b, d
<1>3. (Event.type = "arrival" => CountsEvent(a) /\ CountsEvent(b)) /\ (Event.type = "leave" => CountsEvent(d))
  BY <1>2 DEF CountsEvent
<1>4. QED
  BY <1>3 DEF a, b, d

LEMMA NothingCounted == NoSummary \in SummaryType
BY DEF NoSummary, SummaryType

\* The event that is current while the loop runs.
LEMMA CurrentEvent ==
  ASSUME LifecycleInv, phase = "active"
  PROVE  /\ cursor \in DOMAIN schedule /\ cursor \in Nat /\ Len(schedule) \in Nat
         /\ DOMAIN schedule = 1 .. Len(schedule)
         /\ Event.type \in {"arrival", "leave"}
         /\ systemMode = "offline" => Event.type = "arrival"
<1>1. CASE systemMode = "offline"
  <2>1. schedule \in Seq({Arrival(r) : r \in Requests}) /\ cursor \in DOMAIN schedule /\ cursor \in Nat
    BY <1>1 DEF LifecycleInv, OfflineInv
  <2>2. schedule[cursor] \in {Arrival(r) : r \in Requests}
    BY <2>1
  <2>3. QED
    BY <2>1, <2>2 DEF Event, Arrival
<1>2. CASE systemMode # "offline"
  <2>1. schedule \in Seq(Events) /\ cursor \in DOMAIN schedule /\ cursor \in Nat
    BY <1>2 DEF LifecycleInv, IInv, TypeOK, EpisodeTypes
  <2>2. schedule[cursor] \in Events
    BY <2>1
  <2>3. \A e \in Events : e.type \in {"arrival", "leave"}
    <3> TAKE e \in Events
    <3>1. PICK r \in Requests : e = Arrival(r) \/ e = Leave(r)
      BY DEF Events
    <3>2. QED
      BY <3>1 DEF Arrival, Leave
  <2>4. Event.type \in {"arrival", "leave"}
    BY <2>2, <2>3 DEF Event
  <2>5. QED
    BY <1>2, <2>1, <2>4
<1>3. QED
  BY <1>1, <1>2

LEMMA EndingsPass ==
  ASSUME RunInv, NEW c, CountsEvent(c), run = "looping", Transit, AfterStep(c)
  PROVE  Passes(c)
BY DEF RunInv, Transit, AfterStep, EpochDone, Passes, GoesTo

LEMMA RunPasses ==
  ASSUME IInv, RunInv, RunNext
  PROVE  Waits \/ Begins \/ \E c : Passes(c)
<1>1. CASE BeginEpoch
  BY <1>1 DEF BeginEpoch, Reset, Begins
<1>2. CASE ResetFails \/ Finish \/ NoArrival \/ SolverFails \/ StepFails \/ ReleaseFails
  BY <1>2 DEF ResetFails, Finish, NoArrival, SolverFails, StepFails, Propagates, ReleaseFails, Waits
<1>3. CASE OpenTransaction \/ SolverWorks \/ SolverReturns
  <2>1. UNCHANGED <<schedule, cursor, run, summaries, summary>>
    BY <1>3 DEF OpenTransaction, SolverTransaction, SolverWorks, SolverTakes, SolverGivesBack,
       SolverTears, SolverReturns, SolverCommits, SolverGivesUp, SolverRejects, SolverDetaches,
       solverFrame, episodeVars
  <2>2. QED
    BY <2>1 DEF Waits
<1>4. CASE StepAccepted
  <2> DEFINE c == [summary EXCEPT !.accepted = @ + 1]
  <2>1. run = "looping" /\ StepAccepts /\ AfterStep(c)
    BY <1>4 DEF StepAccepted
  <2>2. Event.type = "arrival" /\ Transit
    BY <2>1 DEF StepAccepts, SubmittedForArrival, AtArrival
  <2>3. CountsEvent(c)
    BY <2>2, CountsFacts
  <2>4. Passes(c)
    BY <2>1, <2>2, <2>3, EndingsPass
  <2>5. QED
    BY <2>4
<1>5. CASE StepRejected
  <2> DEFINE c == [summary EXCEPT !.rejected = @ + 1]
  <2>1. run = "looping" /\ StepRejects /\ AfterStep(c)
    BY <1>5 DEF StepRejected
  <2>2. Event.type = "arrival" /\ Transit
    BY <2>1 DEF StepRejects, SubmittedForArrival, AtArrival
  <2>3. CountsEvent(c)
    BY <2>2, CountsFacts
  <2>4. Passes(c)
    BY <2>1, <2>2, <2>3, EndingsPass
  <2>5. QED
    BY <2>4
<1>6. CASE AutoRelease
  <2> DEFINE c == [summary EXCEPT !.released = @ + 1]
  <2>1. run = "looping" /\ ReleaseCurrent /\ AfterStep(c)
    BY <1>6 DEF AutoRelease
  <2>2. Event.type = "leave" /\ Transit
    BY <2>1 DEF ReleaseCurrent, GiveBack, IInv, ControlInv, AtLeave
  <2>3. CountsEvent(c)
    BY <2>2, CountsFacts
  <2>4. Passes(c)
    BY <2>1, <2>2, <2>3, EndingsPass
  <2>5. QED
    BY <2>4
<1>7. QED
  BY <1>1, <1>2, <1>3, <1>4, <1>5, <1>6 DEF RunNext

LEMMA OfflinePasses ==
  ASSUME OfflineInv, RunInv, OfflineNext, systemMode = "offline"
  PROVE  Waits \/ Begins \/ Skips \/ \E c : Passes(c)
<1>1. CASE OfflineReady
  BY <1>1 DEF OfflineReady, OfflineInv, Waits
<1>2. CASE OfflineEpoch
  BY <1>2 DEF OfflineEpoch, Begins, Skips
<1>3. CASE OfflineCounts
  <2> DEFINE c == IF result THEN [summary EXCEPT !.accepted = @ + 1]
                  ELSE [summary EXCEPT !.rejected = @ + 1]
  <2>1. /\ run = "looping" /\ UNCHANGED schedule /\ GoesTo(c)
    BY <1>3 DEF OfflineCounts, GoesTo
  <2>2. Event.type = "arrival"
    BY <2>1, CurrentEvent DEF LifecycleInv, RunInv
  <2>3. CountsEvent(c)
    BY <2>2, CountsFacts
  <2>4. Passes(c)
    BY <2>1, <2>3 DEF Passes
  <2>5. QED
    BY <2>4
<1>4. CASE OfflineCountThrows \/ Finish \/ SolverFails
  BY <1>4 DEF OfflineCountThrows, Finish, SolverFails, Waits
<1>5. CASE OpenTransaction \/ SolverWorks \/ SolverReturns
  <2>1. UNCHANGED <<schedule, cursor, run, summaries, summary>>
    BY <1>5 DEF OpenTransaction, SolverTransaction, SolverWorks, SolverTakes, SolverGivesBack,
       SolverTears, SolverReturns, SolverCommits, SolverGivesUp, SolverRejects, SolverDetaches,
       solverFrame, episodeVars
  <2>2. QED
    BY <2>1 DEF Waits
<1>6. QED
  BY <1>1, <1>2, <1>3, <1>4, <1>5 DEF OfflineNext

\* The kinds of steps of a run.
LEMMA RunKinds ==
  ASSUME LifecycleInv, RunInv, [RuntimeNext]_runtimeVars
  PROVE  Waits \/ Begins \/ Skips \/ NextBegins \/ \E c : Passes(c)
<1>1. CASE UNCHANGED runtimeVars
  BY <1>1 DEF runtimeVars, onlineVars, vars, episodeVars, Waits
<1>2. CASE systemMode # "offline" /\ RunNext
  BY <1>2, RunPasses DEF LifecycleInv
<1>3. CASE systemMode = "offline" /\ OfflineNext
  BY <1>3, OfflinePasses DEF LifecycleInv
<1>4. CASE WindowThrows
  BY <1>4 DEF WindowThrows, Waits
<1>5. CASE NextStage \/ LastStage
  BY <1>5 DEF NextStage, LastStage, onlineVars, vars, episodeVars, Waits, NextBegins
<1>6. QED
  BY <1>1, <1>2, <1>3, <1>4, <1>5, RuntimeStepKinds

-----------------------------------------------------------------------------
(* RunInv and LifecycleInv are kept.                                        *)

RunPhases ==
  /\ run \in {"between", "looping", "threw", "finished"}
  /\ run = "looping" => phase = "active"
  /\ run \in {"between", "finished"} => pc = "idle" /\ phase # "active"

LEMMA RunPhasesStep ==
  ASSUME RunInv, [RuntimeNext]_runtimeVars
  PROVE  RunPhases'
<1>0. RunPhases
  BY DEF RunInv, RunPhases
<1>1. CASE UNCHANGED <<run, phase, pc>>
  BY <1>0, <1>1 DEF RunPhases
<1>2. CASE run' = "threw"
  BY <1>2 DEF RunPhases
<1>3. CASE run' = "looping" /\ phase' = "active"
  BY <1>3 DEF RunPhases
<1>4. ASSUME RunNext PROVE RunPhases'
  <2>1. CASE BeginEpoch
    BY <1>3, <2>1 DEF BeginEpoch, Reset
  <2>2. CASE ResetFails \/ NoArrival \/ SolverFails \/ StepFails \/ ReleaseFails
    BY <1>2, <2>2 DEF ResetFails, NoArrival, SolverFails, StepFails, Propagates, ReleaseFails
  <2>3. CASE Finish
    BY <1>0, <2>3 DEF Finish, RunPhases, vars, episodeVars
  <2>4. CASE OpenTransaction \/ SolverWorks \/ SolverReturns
    <3>1. UNCHANGED <<run, phase>> /\ run = "looping"
      BY <2>4 DEF OpenTransaction, SolverTransaction, SolverWorks, SolverTakes, SolverGivesBack,
         SolverTears, SolverReturns, SolverCommits, SolverGivesUp, SolverRejects, SolverDetaches,
         solverFrame, episodeVars
    <3>2. QED
      BY <1>0, <3>1 DEF RunPhases
  <2>5. ASSUME run = "looping", NEW c, AfterStep(c), Transit PROVE RunPhases'
    BY <1>0, <2>5 DEF AfterStep, EpochDone, Transit, RunPhases
  <2>6. CASE StepAccepted \/ StepRejected \/ AutoRelease
    BY <2>5, <2>6 DEF StepAccepted, StepAccepts, StepRejected, StepRejects, AutoRelease, ReleaseCurrent
  <2>7. QED
    BY <1>4, <2>1, <2>2, <2>3, <2>4, <2>6 DEF RunNext
<1>5. ASSUME OfflineNext PROVE RunPhases'
  <2>1. CASE OfflineReady
    BY <1>0, <2>1 DEF OfflineReady, RunPhases
  <2>2. CASE OfflineEpoch
    BY <1>0, <2>2 DEF OfflineEpoch, RunPhases
  <2>3. CASE OfflineCounts
    BY <1>0, <2>3 DEF OfflineCounts, RunPhases
  <2>4. CASE OfflineCountThrows \/ SolverFails
    BY <1>2, <2>4 DEF OfflineCountThrows, SolverFails
  <2>5. CASE Finish \/ OpenTransaction \/ SolverWorks \/ SolverReturns
    BY <1>4, <2>5 DEF RunNext
  <2>6. QED
    BY <1>5, <2>1, <2>2, <2>3, <2>4, <2>5 DEF OfflineNext
<1>6. CASE UNCHANGED runtimeVars
  BY <1>1, <1>6 DEF runtimeVars, onlineVars, vars, episodeVars
<1>7. CASE WindowThrows
  BY <1>2, <1>7 DEF WindowThrows
<1>8. CASE NextStage
  BY <1>0, <1>8 DEF NextStage, OtherEnvironment, vars, episodeVars, RunPhases
<1>9. CASE LastStage
  BY <1>1, <1>9 DEF LastStage, onlineVars, vars, episodeVars
<1>10. QED
  BY <1>4, <1>5, <1>6, <1>7, <1>8, <1>9, RuntimeStepKinds

LEMMA RunInvStep ==
  ASSUME LifecycleInv, RunInv, [RuntimeNext]_runtimeVars
  PROVE  RunInv'
<1>1. summaries \in Seq(SummaryType) /\ summary \in SummaryType
  BY DEF RunInv
<1>2. summaries' \in Seq(SummaryType) /\ summary' \in SummaryType
  <2>1. CASE Waits \/ Begins \/ Skips \/ NextBegins
    <3>1. /\ summary' \in {summary, NoSummary}
          /\ summaries' \in {summaries, Append(summaries, NoSummary), <<>>}
      BY <2>1 DEF Waits, Begins, Skips, NextBegins
    <3>2. /\ Append(summaries, NoSummary) \in Seq(SummaryType)
          /\ <<>> \in Seq(SummaryType)
      BY <1>1, NothingCounted
    <3>3. QED
      BY <1>1, <3>1, <3>2, NothingCounted
  <2>2. ASSUME NEW c, Passes(c) PROVE summaries' \in Seq(SummaryType) /\ summary' \in SummaryType
    BY <1>1, <2>2, NothingCounted DEF Passes, GoesTo, CountsEvent
  <2>3. QED
    BY <2>1, <2>2, RunKinds
<1>3. QED
  BY <1>2, RunPhasesStep DEF RunPhases, RunInv

LEMMA LifecycleInvStep ==
  ASSUME LifecycleInv, RunInv, [RuntimeNext]_runtimeVars
  PROVE  LifecycleInv'
<1>0. systemMode' = systemMode
  BY RuntimeStepKinds
<1>1. CASE systemMode = "offline"
  <2>1. OfflineInv
    BY <1>1 DEF LifecycleInv
  <2>2. CASE OfflineNext
    BY <1>0, <1>1, <2>1, <2>2, OfflineInvStep DEF LifecycleInv
  <2>3. CASE UNCHANGED runtimeVars
    <3>1. UNCHANGED <<schedule, cursor, phase, pc, avail, active, checkpoint, summaries>>
      BY <2>3 DEF runtimeVars, onlineVars, vars, mutationVars, episodeVars
    <3>2. OfflineInv'
      BY <2>1, <3>1 DEF OfflineInv, SnapshotIsPristine, Event
    <3>3. QED
      BY <1>0, <1>1, <3>2 DEF LifecycleInv
  <2>4. QED
    BY <1>1, <2>2, <2>3, RuntimeStepKinds
<1>2. CASE systemMode # "offline"
  <2>1. IInv
    BY <1>2 DEF LifecycleInv
  <2>2. CASE [Next]_vars
    BY <1>0, <1>2, <2>1, <2>2, StepIInv DEF LifecycleInv
  <2>3. CASE RunNext
    BY <2>2, <2>3, RunStepsAreSteps
  <2>4. CASE UNCHANGED runtimeVars \/ WindowThrows \/ LastStage
    BY <2>2, <2>4 DEF runtimeVars, onlineVars, WindowThrows, LastStage
  <2>5. CASE NextStage
    <3>1. pc = "idle" /\ (OtherEnvironment \/ UNCHANGED vars)
      BY <2>5 DEF NextStage, RunInv
    <3>2. CASE OtherEnvironment
      BY <1>0, <1>2, <2>1, <3>1, <3>2, OtherEnvironmentIInv DEF LifecycleInv
    <3>3. QED
      BY <2>2, <3>1, <3>2
  <2>6. QED
    BY <1>2, <2>3, <2>4, <2>5, RuntimeStepKinds
<1>3. QED
  BY <1>1, <1>2

-----------------------------------------------------------------------------
(* The epochs.                                                              *)

\* One more event has passed.
LEMMA PassedNext ==
  ASSUME LifecycleInv, phase = "active", NEW type
  PROVE  /\ Cardinality(Passed(type, cursor - 1)) \in Nat
         /\ Cardinality(Passed(type, cursor))
              = Cardinality(Passed(type, cursor - 1)) + IF Event.type = type THEN 1 ELSE 0
<1>1. /\ cursor \in DOMAIN schedule /\ cursor \in Nat /\ cursor - 1 \in Nat
      /\ DOMAIN schedule = 1 .. Len(schedule) /\ Len(schedule) \in Nat
  BY CurrentEvent
<1>2. IsFiniteSet(Passed(type, cursor - 1)) /\ Cardinality(Passed(type, cursor - 1)) \in Nat
  <2>1. IsFiniteSet(DOMAIN schedule)
    BY <1>1, FS_Interval
  <2>2. Passed(type, cursor - 1) \subseteq DOMAIN schedule
    BY DEF Passed
  <2>3. QED
    BY <2>1, <2>2, FS_Subset, FS_CardinalityType
<1>3. CASE Event.type = type
  <2>1. Passed(type, cursor) = Passed(type, cursor - 1) \cup {cursor}
    BY <1>1, <1>3 DEF Passed, Event
  <2>2. cursor \notin Passed(type, cursor - 1)
    BY <1>1 DEF Passed
  <2>3. QED
    BY <1>2, <1>3, <2>1, <2>2, FS_AddElement
<1>4. CASE Event.type # type
  <2>1. Passed(type, cursor) = Passed(type, cursor - 1)
    BY <1>1, <1>4 DEF Passed, Event
  <2>2. QED
    BY <1>2, <1>4, <2>1
<1>5. QED
  BY <1>2, <1>3, <1>4

\* The whole schedule has passed at its last event.
LEMMA PassedAll ==
  ASSUME LifecycleInv, phase = "active", Last, NEW type
  PROVE  Cardinality(Passed(type, cursor)) = Planned(type)
<1>1. Passed(type, cursor) = {i \in DOMAIN schedule : schedule[i].type = type}
  BY CurrentEvent DEF Passed, Last
<1>2. QED
  BY <1>1 DEF Planned

LEMMA EpochsStep ==
  ASSUME LifecycleInv, RunInv, EpochInv, EpochsComplete, [RuntimeNext]_runtimeVars
  PROVE  EpochInv' /\ EpochsComplete'
<1>1. CASE Waits
  BY <1>1 DEF Waits, EpochInv, EpochsComplete, EpochOver, Planned, Passed
<1>2. CASE Begins
  <2>1. schedule' \in Seq(Events) \cup Seq({Arrival(r) : r \in Requests})
    BY LifecycleInvStep DEF LifecycleInv, OfflineInv, IInv, TypeOK, EpisodeTypes
  <2>2. DOMAIN schedule' = 1 .. Len(schedule')
    BY <2>1
  <2>3. \A type : Passed(type, cursor - 1)' = {}
    BY <1>2, <2>2 DEF Passed, Begins
  <2>4. /\ summary' = NoSummary /\ run' = "looping"
        /\ Cardinality(Passed("arrival", cursor - 1)') = 0
        /\ Cardinality(Passed("leave", cursor - 1)') = 0
    BY <1>2, <2>3, FS_EmptySet DEF Begins
  <2>5. QED
    BY <2>4 DEF EpochInv, EpochsComplete, EpochOver, NoSummary
<1>3. CASE Skips
  <2>1. \A type : {i \in DOMAIN schedule' : schedule'[i].type = type} = {}
    BY <1>3 DEF Skips
  <2>2. \A type : Planned(type)' = 0
    BY <2>1, FS_EmptySet DEF Planned
  <2>3. summaries'[Len(summaries')] = NoSummary
    BY <1>3 DEF Skips, RunInv
  <2>4. QED
    BY <1>3, <2>2, <2>3 DEF Skips, EpochInv, EpochsComplete, NoSummary
<1>4. CASE NextBegins
  BY <1>4 DEF NextBegins, EpochInv, EpochsComplete, EpochOver
<1>5. ASSUME NEW c, Passes(c) PROVE EpochInv' /\ EpochsComplete'
  <2>1. /\ run = "looping" /\ phase = "active" /\ schedule' = schedule
        /\ CountsEvent(c) /\ GoesTo(c)
    BY <1>5 DEF Passes, RunInv
  <2>2. /\ c.accepted + c.rejected = Cardinality(Passed("arrival", cursor))
        /\ c.released = Cardinality(Passed("leave", cursor))
    <3>1. Event.type \in {"arrival", "leave"}
      BY <2>1, CurrentEvent
    <3>2. /\ summary.accepted + summary.rejected = Cardinality(Passed("arrival", cursor - 1))
          /\ summary.released = Cardinality(Passed("leave", cursor - 1))
      BY <2>1 DEF EpochInv
    <3>3. CASE Event.type = "arrival"
      BY <2>1, <3>2, <3>3, PassedNext DEF CountsEvent
    <3>4. CASE Event.type = "leave"
      BY <2>1, <3>2, <3>4, PassedNext DEF CountsEvent
    <3>5. QED
      BY <3>1, <3>3, <3>4
  <2>3. CASE Last
    <3>1. /\ c.accepted + c.rejected = Planned("arrival") /\ c.released = Planned("leave")
          /\ \A type : Planned(type)' = Planned(type)
      BY <2>1, <2>2, <2>3, PassedAll DEF Planned
    <3>2. run' = "between" /\ summaries' = Append(summaries, c)
      BY <2>1, <2>3 DEF GoesTo
    <3>3. summaries'[Len(summaries')] = c
      BY <2>1, <3>2 DEF RunInv, CountsEvent
    <3>4. QED
      BY <3>1, <3>2, <3>3 DEF EpochInv, EpochsComplete
  <2>4. CASE ~Last
    <3>1. run' = "looping" /\ cursor' = cursor + 1 /\ summary' = c
      BY <2>1, <2>4 DEF GoesTo
    <3>2. \A type : Passed(type, cursor - 1)' = Passed(type, cursor)
      BY <2>1, <3>1, CurrentEvent DEF Passed
    <3>3. QED
      BY <2>2, <3>1, <3>2 DEF EpochInv, EpochsComplete, EpochOver
  <2>5. QED
    BY <2>3, <2>4
<1>6. QED
  BY <1>1, <1>2, <1>3, <1>4, <1>5, RunKinds

-----------------------------------------------------------------------------
\* Whatever mode is configured, and whatever fails, the run stays in the states
\* of RunInv and the lifecycle, or the offline network, in its own invariant.
LEMMA InitRuntime == RuntimeInit => LifecycleInv /\ RunInv /\ EpochInv /\ EpochsComplete
<1> SUFFICES ASSUME RuntimeInit PROVE LifecycleInv /\ RunInv /\ EpochInv /\ EpochsComplete
  OBVIOUS
<1>1. Init /\ run = "between" /\ summaries = <<>> /\ summary = NoSummary
  BY DEF RuntimeInit, RunInit
<1>2. IInv
  BY <1>1, InitIInv
<1>3. OfflineInv
  BY <1>1 DEF Init, MutationInit, OfflineInv, SnapshotIsPristine
<1>4. RunInv
  BY <1>1, NothingCounted DEF Init, RunInv
<1>5. EpochInv /\ EpochsComplete
  BY <1>1 DEF EpochInv, EpochsComplete, EpochOver
<1>6. QED
  BY <1>2, <1>3, <1>4, <1>5 DEF LifecycleInv

LEMMA RuntimeInvariant == RuntimeSpec => [](LifecycleInv /\ RunInv)
<1>1. RuntimeInit => LifecycleInv /\ RunInv
  BY InitRuntime
<1>2. LifecycleInv /\ RunInv /\ [RuntimeNext]_runtimeVars => LifecycleInv' /\ RunInv'
  BY LifecycleInvStep, RunInvStep
<1>3. QED
  BY <1>1, <1>2, PTL DEF RuntimeSpec

\* In every mode, an epoch that ends has counted each arrival and each leave of
\* its schedule once.
THEOREM EpochsAreComplete == RuntimeSpec => []EpochsComplete
<1>1. RuntimeInit => EpochInv /\ EpochsComplete
  BY InitRuntime
<1>2. LifecycleInv /\ RunInv /\ EpochInv /\ EpochsComplete /\ [RuntimeNext]_runtimeVars
        => EpochInv' /\ EpochsComplete'
  BY EpochsStep
<1>3. QED
  BY <1>1, <1>2, RuntimeInvariant, PTL DEF RuntimeSpec

\* Offline, every request of every epoch meets the untouched network, however
\* the solvers before it ended.
THEOREM RequestsStartAlike == RuntimeSpec => []EveryRequestStartsAlike
<1>1. LifecycleInv => EveryRequestStartsAlike
  BY DEF LifecycleInv, OfflineInv, EveryRequestStartsAlike
<1>2. QED
  BY <1>1, RuntimeInvariant, PTL

-----------------------------------------------------------------------------
(* The stages.                                                              *)

\* What Gather appends: the epochs of one more stage, numbered on.
Slice == [index : Nat, stage : Nat]

LEMMA GatherKeepsSlices ==
  ASSUME SlicesInv, RunInv, Gather
  PROVE  SlicesInv'
<1> DEFINE n == Len(epochs)  m == Len(summaries)  k == Len(stages)
           entry(i) == [index |-> i - 1 + n, stage |-> k]
           more == [i \in DOMAIN summaries |-> entry(i)]
<1>1. /\ stages \in Seq([first : Nat, num : Nat]) /\ epochs \in Seq(Slice)
      /\ summaries \in Seq(SummaryType) /\ n \in Nat /\ m \in Nat /\ k \in Nat
      /\ DOMAIN summaries = 1 .. m /\ DOMAIN epochs = 1 .. n /\ DOMAIN stages = 1 .. k
      /\ \A i \in 1 .. n : epochs[i] \in Slice
  <2>1. epochs \in Seq(Slice)
    BY Zenon DEF SlicesInv, Slice
  <2>2. stages \in Seq([first : Nat, num : Nat]) /\ summaries \in Seq(SummaryType)
    BY DEF SlicesInv, RunInv
  <2>3. QED
    BY <2>1, <2>2
<1>2. /\ stages' = Append(stages, [first |-> n, num |-> m])
      /\ epochs' = epochs \o more
  BY DEF Gather, NextEpochIndex
<1> HIDE DEF n, m, k
<1>3. \A i \in 1 .. m : entry(i) \in Slice /\ entry(i).index = i - 1 + n /\ entry(i).stage = k
  BY <1>1 DEF Slice
<1> HIDE DEF entry
<1>4. /\ DOMAIN epochs' = 1 .. n + m /\ epochs' \in Seq(Slice)
      /\ \A i \in 1 .. n : epochs'[i] = epochs[i]
      /\ \A i \in n + 1 .. n + m : epochs'[i].index = i - 1 /\ epochs'[i].stage = k
  <2>1. Len(epochs) = n
    BY DEF n
  <2>2. more \in [1 .. m -> Slice]
    BY <1>1, <1>3
  <2>3. more \in Seq(Slice) /\ Len(more) = m
    BY <1>1, <2>2
  <2>4. \A i \in 1 .. m : more[i] = entry(i)
    BY <1>1
  <2> HIDE DEF more
  <2>5. /\ epochs' \in Seq(Slice) /\ Len(epochs') = n + m
        /\ \A i \in 1 .. n + m : epochs'[i] = IF i <= n THEN epochs[i] ELSE more[i - n]
    <3>1. epochs \in Seq(Slice)
      BY <1>1
    <3>2. /\ epochs \o more \in Seq(Slice) /\ Len(epochs \o more) = Len(epochs) + Len(more)
          /\ \A i \in 1 .. Len(epochs) + Len(more) :
               (epochs \o more)[i] = IF i <= Len(epochs) THEN epochs[i] ELSE more[i - Len(epochs)]
      BY <2>3, <3>1, ConcatProperties
    <3>3. epochs' = epochs \o more
      BY <1>2
    <3>4. QED
      BY <2>1, <2>3, <3>2, <3>3
  <2>6. DOMAIN epochs' = 1 .. n + m
    BY <2>5
  <2>7. ASSUME NEW i \in 1 .. n PROVE epochs'[i] = epochs[i]
    BY <1>1, <2>5
  <2>8. ASSUME NEW i \in n + 1 .. n + m PROVE epochs'[i].index = i - 1 /\ epochs'[i].stage = k
    <3>1. i - n \in 1 .. m /\ i \in 1 .. n + m /\ ~(i <= n) /\ i - n - 1 + n = i - 1
      BY <1>1
    <3>2. epochs'[i] = entry(i - n)
      BY <2>4, <2>5, <3>1
    <3>3. QED
      BY <1>3, <3>1, <3>2
  <2>9. QED
    BY <2>5, <2>6, <2>7, <2>8
<1>5. /\ DOMAIN stages' = 1 .. k + 1 /\ Len(stages') = k + 1
      /\ stages' \in Seq([first : Nat, num : Nat])
      /\ \A j \in 1 .. k : stages'[j] = stages[j]
      /\ stages'[k + 1] = [first |-> n, num |-> m]
  BY <1>1, <1>2 DEF k
<1>6. /\ \A i \in 1 .. n : epochs[i].stage < k /\ epochs[i].stage \in Nat /\ epochs[i].index = i - 1
      /\ \A j \in 1 .. k : {i \in 1 .. n : epochs[i].stage = j - 1}
                             = stages[j].first + 1 .. stages[j].first + stages[j].num
  <2>1. \A i \in 1 .. n : epochs[i].stage \in Nat
    BY <1>1 DEF Slice
  <2>2. \A i \in 1 .. n : epochs[i].stage < k /\ epochs[i].index = i - 1
    BY <1>1 DEF SlicesInv, SlicesAreOfTheirStage, k
  <2>3. \A j \in 1 .. k : {i \in 1 .. n : epochs[i].stage = j - 1}
                             = stages[j].first + 1 .. stages[j].first + stages[j].num
    BY <1>1, Zenon DEF SlicesInv, SlicesAreOfTheirStage
  <2>4. QED
    BY <2>1, <2>2, <2>3
<1>7. ASSUME NEW i \in 1 .. n + m PROVE epochs'[i].stage < k + 1 /\ epochs'[i].index = i - 1
  <2>1. CASE i \in 1 .. n
    BY <1>1, <1>4, <1>6, <2>1
  <2>2. CASE i \in n + 1 .. n + m
    BY <1>1, <1>4, <2>2
  <2>3. QED
    BY <1>1, <2>1, <2>2
<1>8. ASSUME NEW j \in 1 .. k + 1
      PROVE  {i \in 1 .. n + m : epochs'[i].stage = j - 1}
               = stages'[j].first + 1 .. stages'[j].first + stages'[j].num
  <2>1. CASE j \in 1 .. k
    <3>1. ASSUME NEW i \in n + 1 .. n + m PROVE epochs'[i].stage # j - 1
      <4>1. epochs'[i].stage = k
        BY <1>4
      <4>2. QED
        BY <1>1, <2>1, <4>1
    <3>2. \A i : i \in 1 .. n + m <=> i \in 1 .. n \/ i \in n + 1 .. n + m
      BY <1>1
    <3>3. {i \in 1 .. n + m : epochs'[i].stage = j - 1} = {i \in 1 .. n : epochs[i].stage = j - 1}
      BY <1>4, <3>1, <3>2
    <3>4. QED
      BY <1>5, <1>6, <2>1, <3>3
  <2>2. CASE j = k + 1
    <3>1. \A i \in 1 .. n : epochs'[i].stage # j - 1
      BY <1>1, <1>4, <1>6, <2>2
    <3>2. \A i : i \in 1 .. n + m <=> i \in 1 .. n \/ i \in n + 1 .. n + m
      BY <1>1
    <3>3. ASSUME NEW i \in n + 1 .. n + m PROVE epochs'[i].stage = j - 1
      <4>1. epochs'[i].stage = k
        BY <1>4
      <4>2. QED
        BY <1>1, <2>2, <4>1
    <3>4. {i \in 1 .. n + m : epochs'[i].stage = j - 1} = n + 1 .. n + m
      BY <3>1, <3>2, <3>3
    <3>5. QED
      BY <1>5, <2>2, <3>4
  <2>3. QED
    BY <1>1, <2>1, <2>2
<1>9. QED
  <2>1. SlicesAreOfTheirStage'
    BY <1>4, <1>5, <1>7, <1>8 DEF SlicesAreOfTheirStage
  <2>2. stages' \in Seq([first : Nat, num : Nat]) /\ epochs' \in Seq([index : Nat, stage : Nat])
    BY <1>4, <1>5, Zenon DEF Slice
  <2>3. \A i \in DOMAIN epochs' : epochs'[i].stage < Len(stages')
    BY <1>4, <1>5, <1>7
  <2>4. QED
    BY <2>1, <2>2, <2>3 DEF SlicesInv

LEMMA SlicesStep ==
  ASSUME SlicesInv, RunInv, [RuntimeNext]_runtimeVars
  PROVE  SlicesInv'
<1>1. CASE UNCHANGED stageVars
  BY <1>1 DEF SlicesInv, SlicesAreOfTheirStage, stageVars
<1>2. CASE Gather
  BY <1>2, GatherKeepsSlices
<1>3. UNCHANGED stageVars \/ Gather
  BY DEF RuntimeNext, RunOnline, RunOffline, RunWindows, RunStages, ChangeableNext, NextStage,
     LastStage, runtimeVars
<1>4. QED
  BY <1>1, <1>2, <1>3

\* The slices that run_main saves are of their stage, for any number of stages
\* and epochs, on environments that are shared or not.
THEOREM SlicesStayOfTheirStage == RuntimeSpec => []SlicesAreOfTheirStage
<1>1. RuntimeInit => SlicesInv
  BY DEF RuntimeInit, StageInit, SlicesInv, SlicesAreOfTheirStage
<1>2. RunInv /\ SlicesInv /\ [RuntimeNext]_runtimeVars => SlicesInv'
  BY SlicesStep
<1>3. SlicesInv => SlicesAreOfTheirStage
  BY DEF SlicesInv
<1>4. QED
  BY <1>1, <1>2, <1>3, RuntimeInvariant, PTL DEF RuntimeSpec

-----------------------------------------------------------------------------
(* The windows.                                                             *)

Fields == {"accepted", "rejected", "released"}
OfEpoch(w, e) == {i \in DOMAIN w : w[i].epoch = e}
Sum(w, field, e) == TotalOf(OfEpoch(w, e), [i \in DOMAIN w |-> w[i][field]])

LEMMA WindowFacts ==
  ASSUME NEW w \in Seq(WindowType)
  PROVE  /\ \A e : IsFiniteSet(OfEpoch(w, e))
         /\ \A i \in DOMAIN w : w[i].epoch \in Nat /\ w[i].index \in Int
         /\ \A i \in DOMAIN w, field \in Fields : w[i][field] \in Nat
         /\ \A e : \A field \in Fields : Sum(w, field, e) \in Nat
<1>1. ASSUME NEW e PROVE IsFiniteSet(OfEpoch(w, e))
  <2>1. OfEpoch(w, e) \subseteq 1 .. Len(w) /\ Len(w) \in Nat
    BY DEF OfEpoch
  <2>2. IsFiniteSet(1 .. Len(w))
    BY <2>1, FS_Interval
  <2>3. QED
    BY <2>1, <2>2, FS_Subset
<1>2. \A i \in DOMAIN w : w[i] \in WindowType
  OBVIOUS
<1>3. \A i \in DOMAIN w : w[i].epoch \in Nat /\ w[i].index \in Int
  BY <1>2 DEF WindowType
<1>4. \A i \in DOMAIN w, field \in Fields : w[i][field] \in Nat
  BY <1>2 DEF WindowType, Fields
<1>5. ASSUME NEW e, NEW field \in Fields PROVE Sum(w, field, e) \in Nat
  BY <1>1, <1>4, TotalIsNat DEF Sum, OfEpoch
<1>6. QED
  BY <1>1, <1>3, <1>4, <1>5

Opened(w, e, x) == Append(w, Window(e, x))

HasOpened(v, w, e, x) ==
  /\ v \in Seq(WindowType) /\ Len(v) = Len(w) + 1 /\ DOMAIN v = 1 .. Len(w) + 1
  /\ \A i \in 1 .. Len(w) : v[i] = w[i]
  /\ v[Len(w) + 1].epoch = e /\ v[Len(w) + 1].index = x
  /\ \A d : OfEpoch(v, d) = IF d = e THEN OfEpoch(w, d) \cup {Len(w) + 1} ELSE OfEpoch(w, d)
  /\ \A d : \A field \in Fields : Sum(v, field, d) = Sum(w, field, d)

\* A window that is opened is the last one and has counted nothing.
LEMMA OpenedWindow ==
  ASSUME NEW w \in Seq(WindowType), NEW e \in Nat, NEW x \in Int
  PROVE  HasOpened(Opened(w, e, x), w, e, x)
<1> DEFINE v == Opened(w, e, x)
<1> DEFINE n == Len(w)
<1>1. /\ Window(e, x) \in WindowType /\ Window(e, x).epoch = e /\ Window(e, x).index = x
      /\ \A field \in Fields : Window(e, x)[field] = 0
  BY DEF Window, WindowType, Fields
<1>2. /\ v \in Seq(WindowType) /\ Len(v) = n + 1 /\ DOMAIN v = 1 .. n + 1 /\ n \in Nat
      /\ \A i \in 1 .. n : v[i] = w[i]
      /\ v[n + 1] = Window(e, x)
  BY <1>1 DEF Opened
<1>3. /\ DOMAIN w = 1 .. n /\ n + 1 \notin DOMAIN w
      /\ \A i : i \in 1 .. n + 1 <=> i \in 1 .. n \/ i = n + 1
  BY <1>2
<1> HIDE DEF n, v
<1>4. ASSUME NEW d
      PROVE  OfEpoch(v, d) = IF d = e THEN OfEpoch(w, d) \cup {n + 1} ELSE OfEpoch(w, d)
  BY <1>1, <1>2, <1>3 DEF OfEpoch
<1>5. ASSUME NEW d, NEW field \in Fields
      PROVE  Sum(v, field, d) = Sum(w, field, d)
  <2> DEFINE a == [i \in DOMAIN w |-> w[i][field]]
             b == [i \in DOMAIN v |-> v[i][field]]
             W == OfEpoch(w, d)
  <2>1. \A i \in W : a[i] = b[i] /\ b[i] \in Nat
    BY <1>2, <1>3, WindowFacts DEF OfEpoch
  <2>2. IsFiniteSet(W) /\ n + 1 \notin W
    BY <1>3, WindowFacts DEF OfEpoch
  <2>3. b[n + 1] = 0
    BY <1>1, <1>2, <1>3
  <2> HIDE DEF a, b, W
  <2>4. \A i \in W \cup {n + 1} : b[i] \in Nat
    BY <2>1, <2>3
  <2>5. TotalOf(W, b) = TotalOf(W, a)
    BY <2>1, TotalOfEqual
  <2>6. TotalOf(W \cup {n + 1}, b) = TotalOf(W, b) + 0
    BY <2>2, <2>3, <2>4, TotalOfAdded
  <2>7. TotalOf(W, b) \in Nat
    BY <2>1, <2>2, TotalIsNat
  <2>8. OfEpoch(v, d) = W \/ OfEpoch(v, d) = W \cup {n + 1}
    BY <1>4 DEF W
  <2>9. TotalOf(OfEpoch(v, d), b) = TotalOf(W, a)
    <3>1. TotalOf(W \cup {n + 1}, b) = TotalOf(W, b)
      BY <2>6, <2>7
    <3>2. QED
      BY <2>5, <2>8, <3>1, Zenon
  <2>10. QED
    BY <2>9 DEF Sum, W, a, b
<1>6. QED
  BY <1>1, <1>2, <1>4, <1>5 DEF n, v, HasOpened

OneUp(r, field) == [r EXCEPT ![field] = @ + 1]

\* One of the counts of a window goes up.
LEMMA CountedRecord ==
  ASSUME NEW r \in WindowType, NEW field \in Fields
  PROVE  /\ OneUp(r, field) \in WindowType
         /\ OneUp(r, field).epoch = r.epoch /\ OneUp(r, field).index = r.index
         /\ \A f \in Fields : OneUp(r, field)[f] = r[f] + IF f = field THEN 1 ELSE 0
<1> DEFINE d == [r EXCEPT ![field] = @ + 1]
<1>1. /\ r.accepted \in Nat /\ r.rejected \in Nat /\ r.released \in Nat
      /\ r.epoch \in Nat /\ r.index \in Int
      /\ DOMAIN r = {"epoch", "index", "accepted", "rejected", "released"}
      /\ r = [x \in DOMAIN r |-> r[x]]
  BY DEF WindowType
<1>2. DOMAIN d = DOMAIN r /\ \A x \in DOMAIN r : d[x] = IF x = field THEN r[field] + 1 ELSE r[x]
  OBVIOUS
<1>3. /\ d.epoch = r.epoch /\ d.index = r.index
      /\ d.accepted = (IF "accepted" = field THEN r.accepted + 1 ELSE r.accepted)
      /\ d.rejected = (IF "rejected" = field THEN r.rejected + 1 ELSE r.rejected)
      /\ d.released = (IF "released" = field THEN r.released + 1 ELSE r.released)
  BY <1>1, <1>2 DEF Fields
<1>4. d \in WindowType
  <2>1. CASE field = "accepted"
    <3>1. [r EXCEPT !.accepted = @ + 1] \in WindowType
      BY DEF WindowType
    <3>2. QED
      BY <2>1, <3>1
  <2>2. CASE field = "rejected"
    <3>1. [r EXCEPT !.rejected = @ + 1] \in WindowType
      BY DEF WindowType
    <3>2. QED
      BY <2>2, <3>1
  <2>3. CASE field = "released"
    <3>1. [r EXCEPT !.released = @ + 1] \in WindowType
      BY DEF WindowType
    <3>2. QED
      BY <2>3, <3>1
  <2>4. QED
    BY <2>1, <2>2, <2>3 DEF Fields
<1> HIDE DEF d
<1>5. \A f \in Fields : d[f] = r[f] + IF f = field THEN 1 ELSE 0
  BY <1>1, <1>3 DEF Fields
<1>6. QED
  BY <1>3, <1>4, <1>5 DEF OneUp, d

Raised(w, field) == [w EXCEPT ![Len(w)][field] = @ + 1]

HasRaised(v, w, field) ==
  /\ v \in Seq(WindowType) /\ Len(v) = Len(w) /\ DOMAIN v = DOMAIN w
  /\ \A i \in DOMAIN w : v[i].epoch = w[i].epoch /\ v[i].index = w[i].index
  /\ \A d : OfEpoch(v, d) = OfEpoch(w, d)
  /\ \A d : \A f \in Fields :
       Sum(v, f, d) = Sum(w, f, d) + IF f = field /\ d = w[Len(w)].epoch THEN 1 ELSE 0

\* A count goes into the last window and its epoch.
LEMMA CountedWindow ==
  ASSUME NEW w \in Seq(WindowType), w # <<>>, NEW field \in Fields
  PROVE  HasRaised(Raised(w, field), w, field)
<1> DEFINE v == Raised(w, field)
<1> DEFINE n == Len(w)  last == [w[n] EXCEPT ![field] = @ + 1]
<1>1. n \in Nat /\ n \in DOMAIN w /\ DOMAIN w = 1 .. n /\ w[n] \in WindowType
  OBVIOUS
<1>2. /\ last \in WindowType /\ last.epoch = w[n].epoch /\ last.index = w[n].index
      /\ \A f \in Fields : last[f] = w[n][f] + IF f = field THEN 1 ELSE 0
  <2>1. last = OneUp(w[n], field)
    BY DEF OneUp
  <2> HIDE DEF last, n
  <2>2. QED
    BY <1>1, <2>1, CountedRecord
<1>3. v = [w EXCEPT ![n] = last]
  BY DEF Raised
<1> HIDE DEF n, last, v
<1>4. /\ v \in Seq(WindowType) /\ Len(v) = Len(w) /\ DOMAIN v = DOMAIN w
      /\ v[n] = last /\ \A i \in DOMAIN w : i # n => v[i] = w[i]
  BY <1>1, <1>2, <1>3
<1>5. \A i \in DOMAIN w : v[i].epoch = w[i].epoch /\ v[i].index = w[i].index
  BY <1>2, <1>4
<1>6. \A d : OfEpoch(v, d) = OfEpoch(w, d)
  BY <1>4, <1>5 DEF OfEpoch
<1>7. ASSUME NEW d, NEW f \in Fields
      PROVE  Sum(v, f, d) = Sum(w, f, d) + IF f = field /\ d = w[n].epoch THEN 1 ELSE 0
  <2> DEFINE a == [i \in DOMAIN w |-> w[i][f]]
             b == [i \in DOMAIN v |-> v[i][f]]
             W == OfEpoch(w, d)
  <2>1. IsFiniteSet(W) /\ W \subseteq DOMAIN w /\ (n \in W <=> d = w[n].epoch)
    BY <1>1, WindowFacts DEF OfEpoch
  <2>2. \A i \in DOMAIN w : a[i] \in Nat /\ b[i] \in Nat /\ (i # n => a[i] = b[i])
    BY <1>4, WindowFacts
  <2>3. b[n] = a[n] + IF f = field THEN 1 ELSE 0
    BY <1>1, <1>2, <1>4
  <2> HIDE DEF a, b, W
  <2>4. TotalOf(W, a) \in Nat
    BY <2>1, <2>2, TotalIsNat
  <2>5. TotalOf(W, b) = TotalOf(W, a) + IF f = field /\ d = w[n].epoch THEN 1 ELSE 0
    <3>1. CASE n \in W
      <4>1. TotalOf(W, b) = TotalOf(W, a) - a[n] + b[n]
        BY <2>1, <2>2, <3>1, TotalOfChanged
      <4>2. a[n] \in Nat
        BY <1>1, <2>2
      <4>3. QED
        BY <2>1, <2>3, <2>4, <3>1, <4>1, <4>2
    <3>2. CASE n \notin W
      <4>1. TotalOf(W, b) = TotalOf(W, a)
        BY <2>1, <2>2, <3>2, TotalOfEqual
      <4>2. QED
        BY <2>1, <2>4, <3>2, <4>1
    <3>3. QED
      BY <3>1, <3>2
  <2>6. QED
    BY <1>6, <2>5 DEF Sum, W, a, b
<1>8. QED
  BY <1>4, <1>5, <1>6, <1>7 DEF n, v, HasRaised

InWindow(t) == (t - WindowOrigin) \div WindowSize

\* Later times fall in later windows, or in the same one.
LEMMA WindowsFollowTime ==
  ASSUME NEW s \in Int, NEW t \in Int, s <= t
  PROVE  InWindow(s) \in Int /\ InWindow(t) \in Int /\ InWindow(s) <= InWindow(t)
BY DEF InWindow

-----------------------------------------------------------------------------
(* WindowInv is kept, with what the windows of past epochs account for.     *)

WindowsOK == WindowInv /\ WindowsAccountForEpochs

\* Both in terms of the lemmas above.
InOrder(w, n) ==
  /\ w \in Seq(WindowType)
  /\ \A i, j \in DOMAIN w : i < j => w[i].epoch <= w[j].epoch
  /\ \A i \in DOMAIN w : w[i].epoch <= n

PastAccounted(w, s) ==
  \A e \in DOMAIN s :
    /\ \A field \in Fields : Sum(w, field, e - 1) = s[e][field]
    /\ \A i, j \in OfEpoch(w, e - 1) : i < j => w[i].index < w[j].index

OpenAccounted(w, e, c, x) ==
  /\ \A field \in Fields : Sum(w, field, e) = c[field]
  /\ \A i \in OfEpoch(w, e) : w[i].index <= x
  /\ \A i, j \in OfEpoch(w, e) : i < j => w[i].index < w[j].index

LEMMA FieldsOfSummary == DOMAIN NoSummary = Fields
BY DEF NoSummary, Fields

LEMMA WindowsOKMeans ==
  WindowsOK <=>
    (systemMode = "time_window" =>
      /\ InOrder(windows, Len(summaries)) /\ PastAccounted(windows, summaries)
      /\ run = "between" => OfEpoch(windows, Len(summaries)) = {}
      /\ run = "looping" =>
           /\ schedule \in Schedules /\ times \in EventTimes
           /\ OpenAccounted(windows, Len(summaries), summary, WindowIndex)
           /\ pc # "idle" => windows # <<>> /\ windows[Len(windows)].epoch = Len(summaries))
BY FieldsOfSummary, Zenon DEF WindowsOK, WindowInv, WindowsAccountForEpochs, WindowsInOrder, OpenWindows,
   InEpoch, Total, Epoch, InOrder, PastAccounted, OpenAccounted, OfEpoch, Sum

LEMMA WindowsOKMeansNext ==
  WindowsOK' <=>
    (systemMode' = "time_window" =>
      /\ InOrder(windows', Len(summaries')) /\ PastAccounted(windows', summaries')
      /\ run' = "between" => OfEpoch(windows', Len(summaries')) = {}
      /\ run' = "looping" =>
           /\ schedule' \in Schedules /\ times' \in EventTimes
           /\ OpenAccounted(windows', Len(summaries'), summary', WindowIndex')
           /\ pc' # "idle" => windows' # <<>> /\ windows'[Len(windows')].epoch = Len(summaries'))
BY FieldsOfSummary, Zenon DEF WindowsOK, WindowInv, WindowsAccountForEpochs, WindowsInOrder, OpenWindows,
   InEpoch, Total, Epoch, InOrder, PastAccounted, OpenAccounted, OfEpoch, Sum

\* Steps that leave the windows and the loop's own state alone.
LEMMA WindowsKept ==
  ASSUME WindowsOK, UNCHANGED <<systemMode, windows, summaries>>,
         run' = "between" => run = "between",
         run' = "looping" =>
           /\ run = "looping" /\ UNCHANGED <<times, schedule, cursor, summary>>
           /\ pc' # "idle" => pc # "idle"
  PROVE  WindowsOK'
BY WindowsOKMeans, WindowsOKMeansNext DEF WindowIndex

\* The time of the current event.
LEMMA CurrentTime ==
  ASSUME RunInv, LifecycleInv, run = "looping", schedule \in Schedules, times \in EventTimes
  PROVE  /\ cursor \in DOMAIN times /\ WindowIndex \in Int
         /\ ~Last => /\ cursor + 1 \in DOMAIN times
                     /\ times[cursor] \in Int /\ times[cursor + 1] \in Int
                     /\ times[cursor] <= times[cursor + 1]
<1>1. cursor \in 1 .. Len(schedule) /\ cursor \in Nat /\ Len(schedule) \in Nat
  BY CurrentEvent DEF RunInv
<1>2. times \in Seq(Int) /\ Len(schedule) <= Len(times) /\ DOMAIN times = 1 .. Len(times)
  OBVIOUS
<1>3. cursor \in DOMAIN times /\ (~Last => cursor + 1 \in DOMAIN times)
  BY <1>1, <1>2 DEF Last
<1>4. \A i \in DOMAIN times : times[i] \in Int
  BY <1>2
<1>5. WindowIndex \in Int
  BY <1>3, <1>4, WindowsFollowTime DEF WindowIndex, InWindow
<1>6. ASSUME ~Last PROVE times[cursor] <= times[cursor + 1]
  BY <1>1, <1>3, <1>6
<1>7. QED
  BY <1>3, <1>4, <1>5, <1>6

LEMMA WindowEpochStep ==
  ASSUME WindowsOK, RunInv, WindowEpoch, systemMode' = systemMode
  PROVE  WindowsOK'
<1>1. CASE systemMode # "time_window"
  BY <1>1, WindowsOKMeansNext
<1>2. CASE systemMode = "time_window"
  <2>1. /\ run = "between" /\ UNCHANGED <<windows, summaries>>
        /\ run' = "looping" /\ pc' = "idle" /\ summary' = NoSummary
        /\ schedule' \in Schedules /\ times' \in EventTimes
    BY <1>2 DEF WindowEpoch, BeginEpoch, Reset, BeginReset
  <2>2. OfEpoch(windows, Len(summaries)) = {}
    BY <1>2, <2>1, WindowsOKMeans
  <2>3. \A field \in Fields : Sum(windows, field, Len(summaries)) = NoSummary[field]
    BY <2>2, TotalOfEmpty DEF Sum, NoSummary, Fields
  <2>4. OpenAccounted(windows', Len(summaries'), summary', WindowIndex')
    BY <2>1, <2>2, <2>3 DEF OpenAccounted
  <2>5. QED
    BY <1>2, <2>1, <2>4, WindowsOKMeans, WindowsOKMeansNext
<1>3. QED
  BY <1>1, <1>2

LEMMA WindowTransactionStep ==
  ASSUME WindowsOK, RunInv, LifecycleInv, WindowTransaction, systemMode' = systemMode
  PROVE  WindowsOK'
<1>1. CASE systemMode # "time_window"
  BY <1>1, WindowsOKMeansNext
<1>2. CASE systemMode = "time_window"
  <2> DEFINE n == Len(windows)  e == Len(summaries)  x == WindowIndex
  <2>1. /\ run = "looping" /\ run' = "looping" /\ UNCHANGED <<summaries, summary, schedule, cursor, times>>
    BY <1>2 DEF WindowTransaction, OpenTransaction, SolverTransaction, episodeVars
  <2>2. /\ InOrder(windows, e) /\ PastAccounted(windows, summaries)
        /\ schedule \in Schedules /\ times \in EventTimes
        /\ OpenAccounted(windows, e, summary, x)
    BY <1>2, <2>1, WindowsOKMeans
  <2>3. x \in Int /\ x' = x /\ e \in Nat /\ DOMAIN summaries = 1 .. e
        /\ windows \in Seq(WindowType) /\ n \in Nat /\ DOMAIN windows = 1 .. n
    BY <2>1, <2>2, CurrentTime DEF WindowIndex, RunInv, InOrder
  <2>4. CASE SameWindow(x)
    <3>1. windows' = windows /\ windows # <<>> /\ windows[n].epoch = e
      BY <2>4 DEF WindowTransaction, SameWindow, Epoch
    <3>2. QED
      BY <1>2, <2>1, <2>2, <2>3, <3>1, WindowsOKMeansNext
  <2>5. CASE ~SameWindow(x)
    <3>1. windows' = Append(windows, Window(e, x))
      BY <2>5 DEF WindowTransaction, Epoch
    <3> HIDE DEF x, e
    <3>2. /\ windows' \in Seq(WindowType) /\ Len(windows') = n + 1 /\ DOMAIN windows' = 1 .. n + 1
          /\ \A i \in 1 .. n : windows'[i] = windows[i]
          /\ windows'[n + 1].epoch = e /\ windows'[n + 1].index = x
          /\ \A d : OfEpoch(windows', d) = IF d = e THEN OfEpoch(windows, d) \cup {n + 1}
                                           ELSE OfEpoch(windows, d)
          /\ \A d : \A field \in Fields : Sum(windows', field, d) = Sum(windows, field, d)
      <4>1. windows' = Opened(windows, e, x)
        BY <3>1 DEF Opened
      <4>2. HasOpened(windows', windows, e, x)
        BY <2>3, <4>1, OpenedWindow
      <4>3. QED
        BY <4>2 DEF HasOpened
    <3> HIDE DEF n
    <3>3. \A i : i \in 1 .. n + 1 <=> i \in 1 .. n \/ i = n + 1
      BY <2>3
    <3>4. \A i \in 1 .. n : windows[i].epoch \in Nat /\ windows[i].epoch <= e /\ windows[i].index \in Int
      BY <2>2, <2>3, WindowFacts DEF InOrder
    <3>5. InOrder(windows', e)
      <4>1. ASSUME NEW i \in 1 .. n + 1, NEW j \in 1 .. n + 1, i < j
            PROVE  windows'[i].epoch <= windows'[j].epoch
        <5>1. i \in 1 .. n
          BY <2>3, <4>1
        <5>2. CASE j \in 1 .. n
          BY <2>2, <2>3, <3>2, <4>1, <5>1, <5>2 DEF InOrder
        <5>3. CASE j = n + 1
          BY <3>2, <3>4, <5>1, <5>3
        <5>4. QED
          BY <3>3, <5>2, <5>3
      <4>2. ASSUME NEW i \in 1 .. n + 1 PROVE windows'[i].epoch <= e
        BY <2>3, <3>2, <3>3, <3>4
      <4>3. QED
        BY <3>2, <4>1, <4>2 DEF InOrder
    <3>6. PastAccounted(windows', summaries)
      <4> SUFFICES ASSUME NEW s \in DOMAIN summaries
                   PROVE  /\ \A field \in Fields : Sum(windows', field, s - 1) = summaries[s][field]
                          /\ \A i, j \in OfEpoch(windows', s - 1) :
                               i < j => windows'[i].index < windows'[j].index
        BY DEF PastAccounted
      <4>1. s - 1 # e
        BY <2>3
      <4>2. OfEpoch(windows', s - 1) = OfEpoch(windows, s - 1)
        BY <3>2, <4>1
      <4>3. OfEpoch(windows, s - 1) \subseteq 1 .. n
        BY <2>3 DEF OfEpoch
      <4>4. \A i, j \in OfEpoch(windows, s - 1) : i < j => windows'[i].index < windows'[j].index
        BY <2>2, <3>2, <4>3 DEF PastAccounted
      <4>5. \A field \in Fields : Sum(windows, field, s - 1) = summaries[s][field]
        BY <2>2 DEF PastAccounted
      <4>6. \A field \in Fields : Sum(windows', field, s - 1) = Sum(windows, field, s - 1)
        BY <3>2
      <4>7. QED
        BY <4>2, <4>4, <4>5, <4>6, Zenon
    <3>7. OpenAccounted(windows', e, summary, x)
      <4>1. OfEpoch(windows', e) = OfEpoch(windows, e) \cup {n + 1}
        BY <3>2
      <4>2. OfEpoch(windows, e) \subseteq 1 .. n
        BY <2>3 DEF OfEpoch
      <4>3. ASSUME NEW i \in OfEpoch(windows, e) PROVE windows[i].index < x
        <5>1. i \in 1 .. n /\ windows[i].epoch = e /\ n \in 1 .. n
          BY <2>3, <4>2 DEF OfEpoch
        <5>2. windows[i].epoch <= windows[n].epoch
          <6>1. i < n \/ i = n
            BY <2>3, <5>1
          <6>2. QED
            BY <2>2, <2>3, <3>4, <5>1, <6>1 DEF InOrder
        <5>3. windows[n].epoch = e
          BY <2>3, <3>4, <5>1, <5>2
        <5>4. n \in OfEpoch(windows, e) /\ windows # <<>>
          BY <2>3, <5>1, <5>3 DEF OfEpoch
        <5>5. windows[n].index # x
          BY <2>5, <5>3, <5>4 DEF SameWindow, Epoch, e, n
        <5>6. windows[n].index <= x /\ (i < n => windows[i].index < windows[n].index)
          BY <2>2, <5>4 DEF OpenAccounted
        <5>7. windows[n].index < x
          BY <2>3, <3>4, <5>1, <5>5, <5>6
        <5>8. CASE i = n
          BY <5>7, <5>8
        <5>9. CASE i < n
          BY <2>3, <3>4, <5>1, <5>6, <5>7, <5>9
        <5>10. QED
          BY <2>3, <5>1, <5>8, <5>9
      <4>4. \A i \in OfEpoch(windows, e) : windows'[i].index = windows[i].index
        BY <3>2, <4>2
      <4>5. ASSUME NEW i \in OfEpoch(windows', e) PROVE windows'[i].index <= x
        <5>1. CASE i = n + 1
          BY <2>3, <3>2, <5>1
        <5>2. CASE i \in OfEpoch(windows, e)
          BY <2>2, <4>4, <5>2 DEF OpenAccounted
        <5>3. QED
          BY <4>1, <5>1, <5>2
      <4>6. ASSUME NEW i \in OfEpoch(windows', e), NEW j \in OfEpoch(windows', e), i < j
            PROVE  windows'[i].index < windows'[j].index
        <5>1. i \in 1 .. n + 1 /\ j \in 1 .. n + 1 /\ i # n + 1
          BY <2>3, <4>1, <4>2, <4>6
        <5>2. i \in OfEpoch(windows, e)
          BY <4>1, <5>1
        <5>3. CASE j = n + 1
          BY <3>2, <4>3, <4>4, <5>2, <5>3
        <5>4. CASE j # n + 1
          BY <2>2, <4>1, <4>4, <4>6, <5>2, <5>4 DEF OpenAccounted
        <5>5. QED
          BY <5>3, <5>4
      <4>7. \A field \in Fields : Sum(windows', field, e) = summary[field]
        <5>1. \A field \in Fields : Sum(windows, field, e) = summary[field]
          BY <2>2 DEF OpenAccounted
        <5>2. \A field \in Fields : Sum(windows', field, e) = Sum(windows, field, e)
          BY <3>2
        <5>3. QED
          BY <5>1, <5>2
      <4>8. QED
        BY <4>5, <4>6, <4>7 DEF OpenAccounted
    <3>8. windows' # <<>> /\ windows'[Len(windows')].epoch = e
      BY <2>3, <3>2
    <3>9. /\ Len(summaries') = e /\ summaries' = summaries /\ summary' = summary
          /\ WindowIndex' = x /\ schedule' \in Schedules /\ times' \in EventTimes
      BY <2>1, <2>2, <2>3 DEF e, x, WindowIndex
    <3>10. QED
      BY <1>2, <2>1, <3>5, <3>6, <3>7, <3>8, <3>9, WindowsOKMeansNext
  <2>6. QED
    BY <2>4, <2>5
<1>3. QED
  BY <1>1, <1>2

\* What a step counts, it counts in the summary and in the last window.
CountsIn(field, c) ==
  /\ run = "looping" /\ pc # "idle"
  /\ windows' = Raised(windows, field) /\ times' = times /\ schedule' = schedule
  /\ c \in SummaryType /\ \A f \in Fields : c[f] = summary[f] + IF f = field THEN 1 ELSE 0
  /\ GoesTo(c)

LEMMA CountedBoth ==
  ASSUME IInv, RunInv, WindowSteps
  PROVE  \E field \in Fields : \E c : CountsIn(field, c)
<1>1. ASSUME NEW field \in Fields, NEW c \in SummaryType, run = "looping", pc # "idle", Counted(field),
             Transit, AfterStep(c), CountsEvent(c),
             \A f \in Fields : c[f] = summary[f] + IF f = field THEN 1 ELSE 0
      PROVE  \E g \in Fields : \E d : CountsIn(g, d)
  <2>1. Passes(c)
    BY <1>1, EndingsPass
  <2>2. windows' = Raised(windows, field) /\ times' = times
    BY <1>1 DEF Counted, Raised
  <2>3. CountsIn(field, c)
    BY <1>1, <2>1, <2>2 DEF Passes, CountsIn
  <2>4. QED
    BY <2>3
<1>2. summary \in SummaryType
  BY DEF RunInv
<1>3. CASE StepAccepted /\ Counted("accepted")
  <2> DEFINE c == [summary EXCEPT !.accepted = @ + 1]
  <2>1. run = "looping" /\ pc # "idle" /\ Transit /\ AfterStep(c) /\ Event.type = "arrival"
    BY <1>3 DEF StepAccepted, StepAccepts, SubmittedForArrival, Submitted, AtArrival
  <2>2. CountsEvent(c)
    BY <2>1, CountsFacts
  <2>3. /\ c \in SummaryType /\ c.accepted = summary.accepted + 1 /\ c.rejected = summary.rejected
        /\ c.released = summary.released
        /\ summary.accepted \in Nat /\ summary.rejected \in Nat /\ summary.released \in Nat
    BY <1>2, SummaryFacts
  <2> HIDE DEF c
  <2>4. \A f \in Fields : c[f] = summary[f] + IF f = "accepted" THEN 1 ELSE 0
    BY <2>3 DEF Fields
  <2>5. "accepted" \in Fields
    BY DEF Fields
  <2>6. QED
    BY <1>1, <1>3, <2>1, <2>2, <2>3, <2>4, <2>5
<1>4. CASE StepRejected /\ Counted("rejected")
  <2> DEFINE c == [summary EXCEPT !.rejected = @ + 1]
  <2>1. run = "looping" /\ pc # "idle" /\ Transit /\ AfterStep(c) /\ Event.type = "arrival"
    BY <1>4 DEF StepRejected, StepRejects, SubmittedForArrival, Submitted, AtArrival
  <2>2. CountsEvent(c)
    BY <2>1, CountsFacts
  <2>3. /\ c \in SummaryType /\ c.accepted = summary.accepted /\ c.rejected = summary.rejected + 1
        /\ c.released = summary.released
        /\ summary.accepted \in Nat /\ summary.rejected \in Nat /\ summary.released \in Nat
    BY <1>2, SummaryFacts
  <2> HIDE DEF c
  <2>4. \A f \in Fields : c[f] = summary[f] + IF f = "rejected" THEN 1 ELSE 0
    BY <2>3 DEF Fields
  <2>5. "rejected" \in Fields
    BY DEF Fields
  <2>6. QED
    BY <1>1, <1>4, <2>1, <2>2, <2>3, <2>4, <2>5
<1>5. CASE AutoRelease /\ Counted("released")
  <2> DEFINE c == [summary EXCEPT !.released = @ + 1]
  <2>1. run = "looping" /\ pc # "idle" /\ Transit /\ AfterStep(c) /\ Event.type = "leave"
    BY <1>5 DEF AutoRelease, ReleaseCurrent, GiveBack, IInv, ControlInv, AtLeave
  <2>2. CountsEvent(c)
    BY <2>1, CountsFacts
  <2>3. /\ c \in SummaryType /\ c.accepted = summary.accepted /\ c.rejected = summary.rejected
        /\ c.released = summary.released + 1
        /\ summary.accepted \in Nat /\ summary.rejected \in Nat /\ summary.released \in Nat
    BY <1>2, SummaryFacts
  <2> HIDE DEF c
  <2>4. \A f \in Fields : c[f] = summary[f] + IF f = "released" THEN 1 ELSE 0
    BY <2>3 DEF Fields
  <2>5. "released" \in Fields
    BY DEF Fields
  <2>6. QED
    BY <1>1, <1>5, <2>1, <2>2, <2>3, <2>4, <2>5
<1>6. QED
  BY <1>3, <1>4, <1>5 DEF WindowSteps

LEMMA WindowCountStep ==
  ASSUME WindowsOK, RunInv, LifecycleInv, systemMode = "time_window", systemMode' = systemMode,
         NEW field \in Fields, NEW c, CountsIn(field, c)
  PROVE  WindowsOK'
<1> DEFINE e == Len(summaries)
<1>1. /\ run = "looping" /\ pc # "idle" /\ times' = times /\ schedule' = schedule
      /\ c \in SummaryType /\ GoesTo(c)
      /\ \A f \in Fields : c[f] = summary[f] + IF f = field THEN 1 ELSE 0
  BY DEF CountsIn
<1>2. /\ InOrder(windows, e) /\ PastAccounted(windows, summaries)
      /\ schedule \in Schedules /\ times \in EventTimes
      /\ OpenAccounted(windows, e, summary, WindowIndex)
      /\ windows # <<>> /\ windows[Len(windows)].epoch = e
  BY <1>1, WindowsOKMeans
<1>3. /\ summaries \in Seq(SummaryType) /\ e \in Nat /\ DOMAIN summaries = 1 .. e
      /\ windows \in Seq(WindowType) /\ WindowIndex \in Int
  BY <1>1, <1>2, CurrentTime DEF RunInv, InOrder
<1>4. HasRaised(windows', windows, field)
  BY <1>2, <1>3, CountedWindow DEF CountsIn
<1> HIDE DEF e
<1>5. InOrder(windows', e)
  BY <1>2, <1>4 DEF InOrder, HasRaised
<1>6. ASSUME NEW d
      PROVE  /\ OfEpoch(windows', d) = OfEpoch(windows, d)
             /\ \A i \in OfEpoch(windows, d) : windows'[i].index = windows[i].index
  BY <1>4 DEF HasRaised, OfEpoch
<1>7. \A f \in Fields : Sum(windows, f, e) = summary[f] /\ Sum(windows', f, e) = c[f]
  BY <1>1, <1>2, <1>4 DEF HasRaised, OpenAccounted
<1>8. PastAccounted(windows', summaries)
  <2> SUFFICES ASSUME NEW s \in DOMAIN summaries
               PROVE  /\ \A f \in Fields : Sum(windows', f, s - 1) = summaries[s][f]
                      /\ \A i, j \in OfEpoch(windows', s - 1) :
                           i < j => windows'[i].index < windows'[j].index
    BY DEF PastAccounted
  <2>1. s - 1 # e
    BY <1>3
  <2>2. /\ \A f \in Fields : Sum(windows, f, s - 1) = summaries[s][f]
        /\ \A i, j \in OfEpoch(windows, s - 1) : i < j => windows[i].index < windows[j].index
    BY <1>2 DEF PastAccounted
  <2>3. \A f \in Fields : Sum(windows', f, s - 1) = Sum(windows, f, s - 1) + 0
    BY <1>2, <1>4, <2>1 DEF HasRaised
  <2>4. \A f \in Fields : Sum(windows, f, s - 1) \in Nat
    BY <1>3, WindowFacts
  <2>5. \A f \in Fields : Sum(windows', f, s - 1) = Sum(windows, f, s - 1)
    BY <2>3, <2>4
  <2>6. QED
    BY <1>6, <2>2, <2>5
<1>9. \A i, j \in OfEpoch(windows', e) : i < j => windows'[i].index < windows'[j].index
  BY <1>2, <1>6 DEF OpenAccounted
<1>10. CASE Last
  <2>1. run' = "between" /\ summaries' = Append(summaries, c) /\ summary' = NoSummary
    BY <1>1, <1>10 DEF GoesTo
  <2>2. /\ Len(summaries') = e + 1 /\ DOMAIN summaries' = 1 .. e + 1 /\ summaries'[e + 1] = c
        /\ \A s \in 1 .. e : summaries'[s] = summaries[s]
    BY <1>1, <1>3, <2>1 DEF e
  <2>3. \A i \in DOMAIN windows' : windows'[i].epoch \in Nat /\ windows'[i].epoch <= e
    BY <1>5, WindowFacts DEF InOrder
  <2>4. InOrder(windows', e + 1) /\ OfEpoch(windows', e + 1) = {}
    BY <1>3, <1>5, <2>3 DEF InOrder, OfEpoch
  <2>5. PastAccounted(windows', summaries')
    <3> SUFFICES ASSUME NEW s \in 1 .. e + 1
                 PROVE  /\ \A f \in Fields : Sum(windows', f, s - 1) = summaries'[s][f]
                        /\ \A i, j \in OfEpoch(windows', s - 1) :
                             i < j => windows'[i].index < windows'[j].index
      BY <2>2 DEF PastAccounted
    <3>1. CASE s \in 1 .. e
      BY <1>3, <1>8, <2>2, <3>1 DEF PastAccounted
    <3>2. CASE s = e + 1
      <4>1. s - 1 = e /\ summaries'[s] = c
        BY <1>3, <2>2, <3>2
      <4>2. QED
        BY <1>7, <1>9, <4>1
    <3>3. QED
      BY <1>3, <3>1, <3>2
  <2>6. QED
    BY <2>1, <2>2, <2>4, <2>5, WindowsOKMeansNext
<1>11. CASE ~Last
  <2>1. run' = "looping" /\ cursor' = cursor + 1 /\ summary' = c /\ summaries' = summaries
    BY <1>1, <1>11 DEF GoesTo
  <2>2. WindowIndex' \in Int /\ WindowIndex <= WindowIndex'
    <3>1. /\ times[cursor] \in Int /\ times[cursor + 1] \in Int
          /\ times[cursor] <= times[cursor + 1]
      BY <1>1, <1>2, <1>11, CurrentTime
    <3>2. WindowIndex = InWindow(times[cursor]) /\ WindowIndex' = InWindow(times[cursor + 1])
      BY <1>1, <2>1 DEF WindowIndex, InWindow
    <3>3. QED
      BY <3>1, <3>2, WindowsFollowTime
  <2>3. ASSUME NEW i \in OfEpoch(windows', e) PROVE windows'[i].index <= WindowIndex'
    <3>1. i \in OfEpoch(windows, e) /\ windows'[i].index = windows[i].index
      BY <1>6
    <3>2. windows[i].index <= WindowIndex /\ windows[i].index \in Int
      BY <1>2, <1>3, <3>1, WindowFacts DEF OpenAccounted, OfEpoch
    <3>3. QED
      BY <1>3, <2>2, <3>1, <3>2
  <2>4. OpenAccounted(windows', e, c, WindowIndex')
    BY <1>7, <1>9, <2>3 DEF OpenAccounted
  <2>5. windows' # <<>> /\ windows'[Len(windows')].epoch = e
    <3>1. windows # <<>> /\ windows[Len(windows)].epoch = e
      BY <1>2
    <3>2. windows \in Seq(WindowType)
      BY <1>3
    <3>3. /\ Len(windows) \in DOMAIN windows /\ Len(windows) \in Nat
          /\ Len(windows) # 0
      BY <3>1, <3>2
    <3>4. /\ windows' \in Seq(WindowType) /\ Len(windows') = Len(windows)
          /\ \A i \in DOMAIN windows : windows'[i].epoch = windows[i].epoch
      BY <1>4 DEF HasRaised
    <3>5. windows' # <<>>
      BY <3>3, <3>4
    <3>6. QED
      BY <3>1, <3>3, <3>4, <3>5
  <2>6. Len(summaries') = e
    BY <2>1 DEF e
  <2>7. QED
    BY <1>1, <1>2, <1>5, <1>8, <2>1, <2>4, <2>5, <2>6, WindowsOKMeansNext
<1>12. QED
  BY <1>10, <1>11

LEMMA WindowsStep ==
  ASSUME WindowsOK, RunInv, LifecycleInv, [RuntimeNext]_runtimeVars
  PROVE  WindowsOK'
<1>0. systemMode' = systemMode
  BY RuntimeStepKinds
<1>1. CASE systemMode # "time_window"
  BY <1>0, <1>1, WindowsOKMeansNext
<1>2. CASE systemMode = "time_window" /\ WindowNext
  <2>1. CASE WindowEpoch
    BY <1>0, <2>1, WindowEpochStep
  <2>2. CASE WindowTransaction
    BY <1>0, <2>2, WindowTransactionStep
  <2>3. CASE WindowThrows
    BY <1>0, <2>3, WindowsKept DEF WindowThrows, windowVars
  <2>4. CASE WindowSteps
    BY <1>0, <1>2, <2>4, CountedBoth, WindowCountStep DEF LifecycleInv
  <2>5. CASE WindowQuiet
    <3>1. UNCHANGED <<windows, times>>
      BY <2>5 DEF WindowQuiet, windowVars
    <3>2. CASE ResetFails \/ Finish \/ NoArrival \/ SolverFails \/ StepFails \/ ReleaseFails
      BY <1>0, <3>1, <3>2, WindowsKept DEF ResetFails, Finish, NoArrival, SolverFails, StepFails,
         Propagates, ReleaseFails
    <3>3. CASE SolverWorks \/ SolverReturns
      <4>1. run = "looping" /\ UNCHANGED <<run, summaries, summary, schedule, cursor>> /\ pc # "idle"
        BY <3>3 DEF SolverWorks, SolverTakes, SolverGivesBack, SolverTears, SolverReturns,
           SolverCommits, SolverGivesUp, SolverRejects, SolverDetaches, solverFrame, episodeVars
      <4>2. QED
        BY <1>0, <3>1, <4>1, WindowsKept
    <3>4. QED
      BY <2>5, <3>2, <3>3 DEF WindowQuiet
  <2>6. QED
    BY <1>2, <2>1, <2>2, <2>3, <2>4, <2>5 DEF WindowNext
<1>3. CASE UNCHANGED runtimeVars
  BY <1>0, <1>3, WindowsKept DEF runtimeVars, onlineVars, vars, episodeVars, windowVars
<1>4. QED
  BY <1>1, <1>2, <1>3 DEF RuntimeNext, RunOnline, RunOffline, RunWindows, RunStages

\* The windows of an epoch add up to its summary and are of different times,
\* for any event times, window size and number of epochs.
THEOREM WindowsAccount == RuntimeSpec => []WindowsAccountForEpochs
<1>1. RuntimeInit => WindowsOK
  <2> SUFFICES ASSUME RuntimeInit PROVE WindowsOK
    OBVIOUS
  <2>1. run = "between" /\ windows = <<>> /\ summaries = <<>>
    BY DEF RuntimeInit, RunInit, WindowInit
  <2>2. InOrder(windows, Len(summaries)) /\ PastAccounted(windows, summaries)
        /\ OfEpoch(windows, Len(summaries)) = {}
    BY <2>1 DEF InOrder, PastAccounted, OfEpoch
  <2>3. QED
    BY <2>1, <2>2, WindowsOKMeans
<1>2. WindowsOK /\ RunInv /\ LifecycleInv /\ [RuntimeNext]_runtimeVars => WindowsOK'
  BY WindowsStep
<1>3. WindowsOK => WindowsAccountForEpochs
  BY DEF WindowsOK
<1>4. QED
  BY <1>1, <1>2, <1>3, RuntimeInvariant, PTL DEF RuntimeSpec
=============================================================================
