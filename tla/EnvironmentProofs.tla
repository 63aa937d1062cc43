--------------------------- MODULE EnvironmentProofs ---------------------------
(***************************************************************************)
(* Proofs about Environment for any requests, slots, capacities, schedules  *)
(* and failures: IInv is inductive, and the safety properties and the       *)
(* refinement of AdmissionControl follow from it.                           *)
(***************************************************************************)
EXTENDS Environment, CommonLemmas

USE CapacityAssumption, EnvironmentAssumption DEF CapacityAssumption, EnvironmentAssumption

-----------------------------------------------------------------------------
(* Arithmetic of slots.                                                     *)

\* No amount at all, sums, and differences that are covered, are amounts.
LEMMA AmountFacts ==
  /\ Zero \in Amounts
  /\ \A a, d \in Amounts : Plus(a, d) \in Amounts
  /\ \A a, d \in Amounts : Covers(a, d) => Minus(a, d) \in Amounts
<1>1. Zero \in Amounts
  BY DEF Zero, Amounts
<1>2. \A a, d \in Amounts : Plus(a, d) \in Amounts
  BY DEF Plus, Amounts
<1>3. \A a, d \in Amounts : Covers(a, d) => Minus(a, d) \in Amounts
  BY DEF Covers, Minus, Amounts
<1>4. QED
  BY <1>1, <1>2, <1>3

\* What a Solution may hold is an amount of every slot.
LEMMA HoldingsAreAmounts == Holdings \subseteq Amounts
BY DEF Holdings, Amounts

\* The current event of an active episode.
LEMMA EventFacts ==
  ASSUME TypeOK, phase = "active"
  PROVE  /\ cursor \in DOMAIN schedule
         /\ Event.req \in Requests
         /\ Event.type \in {"arrival", "leave"}
         /\ Event.type = "arrival" => Event = Arrival(Event.req)
         /\ Event.type = "leave" => Event = Leave(Event.req)
<1>1. cursor \in DOMAIN schedule
  BY DEF TypeOK, EpisodeTypes
<1>2. schedule \in Seq(Events)
  BY DEF TypeOK, EpisodeTypes
<1>3. Event \in Events
  BY <1>1, <1>2 DEF Event
<1>4. PICK r \in Requests : Event = Arrival(r) \/ Event = Leave(r)
  BY <1>3 DEF Events
<1>5. Event.req = r /\ Event.type \in {"arrival", "leave"}
  BY <1>4 DEF Arrival, Leave
<1>6. (Event.type = "arrival" => Event = Arrival(r)) /\ (Event.type = "leave" => Event = Leave(r))
  BY <1>4 DEF Arrival, Leave
<1>7. QED
  BY <1>1, <1>5, <1>6

-----------------------------------------------------------------------------
(* The transaction calls preserve the types of the network.                 *)

LEMMA CloseTypes ==
  ASSUME MutationTypes, NEW r \in Requests, NEW o, CloseTransaction(r, o)
  PROVE  active' \subseteq Requests /\ checkpoint' \in [Requests -> Amounts]
         /\ freeBuffers' \in Nat
BY AmountFacts DEF MutationTypes, CloseTransaction, BuffersClosed, AfterTake

LEMMA RollbackTypes ==
  ASSUME MutationTypes, NEW r \in Requests, NEW o, RollbackTransaction(r, o)
  PROVE  MutationTypes'
<1>1. avail' \in Amounts
  BY DEF MutationTypes, RollbackTransaction, Restored
<1>2. QED
  BY <1>1, CloseTypes DEF MutationTypes, RollbackTransaction

LEMMA BeginTypes ==
  ASSUME MutationTypes, NEW r \in Requests, BeginTransaction(r), UNCHANGED avail
  PROVE  MutationTypes'
BY DEF MutationTypes, BeginTransaction, AfterTake, Snapshot

\* Recording an event preserves the types of the recorder.
LEMMA AddRecordTypes ==
  ASSUME memory \in Seq(RecordType), NEW record \in RecordType, AddRecord(record)
  PROVE  /\ memory' \in Seq(RecordType)
         /\ Len(memory') = Len(memory) + 1
         /\ DOMAIN memory' = 1 .. (Len(memory) + 1)
         /\ \A i \in DOMAIN memory : i \in DOMAIN memory' /\ memory'[i] = memory[i]
         /\ memory'[Len(memory) + 1] = record
BY DEF AddRecord

LEMMA ArrivalCountTypes ==
  ASSUME RecorderTypes, NEW r \in Requests, NEW ok \in BOOLEAN, NEW d \in Amounts,
         NEW e \in Nat, CountArrival(e, r, ok, d)
  PROVE  /\ eventIndex' \in [Requests -> Nat]
         /\ counts' \in [arrivals : Nat, successes : Nat, inservice : Int]
         /\ members' \in [Nodes -> [Requests -> Nat]]
<1>1. eventIndex' \in [Requests -> Nat]
  BY DEF RecorderTypes, CountArrival
<1>2. counts' \in [arrivals : Nat, successes : Nat, inservice : Int]
  <2>1. CASE ok
    BY <2>1 DEF RecorderTypes, CountArrival, CountedArrival
  <2>2. CASE ~ok
    BY <2>2 DEF RecorderTypes, CountArrival, CountedArrival
  <2>3. QED
    BY <2>1, <2>2
<1>3. members' \in [Nodes -> [Requests -> Nat]]
  <2>1. \A n \in Nodes : d[n] \in Nat
    BY DEF Amounts, Slots
  <2>2. \A n \in Nodes : [members[n] EXCEPT ![r] = @ + d[n]] \in [Requests -> Nat]
    BY <2>1 DEF RecorderTypes
  <2>3. CASE ok
    BY <2>2, <2>3 DEF CountArrival
  <2>4. CASE ~ok
    BY <2>4 DEF RecorderTypes, CountArrival
  <2>5. QED
    BY <2>3, <2>4
<1>4. QED
  BY <1>1, <1>2, <1>3

LEMMA LeaveCountTypes ==
  ASSUME RecorderTypes, NEW r \in Requests, CountLeave(r)
  PROVE  /\ eventIndex' \in [Requests -> Nat]
         /\ counts' \in [arrivals : Nat, successes : Nat, inservice : Int]
         /\ members' \in [Nodes -> [Requests -> Nat]]
<1>1. CountedLeave(r) = counts \/ CountedLeave(r) = [counts EXCEPT !.inservice = @ - 1]
  BY DEF CountedLeave
<1>2. counts' \in [arrivals : Nat, successes : Nat, inservice : Int]
  BY <1>1 DEF RecorderTypes, CountLeave
<1>3. QED
  BY <1>2 DEF RecorderTypes, CountLeave

-----------------------------------------------------------------------------
(* Types, group by group.                                                   *)

\* A Solution in hand, a working solver and a draining loop have an event.
LEMMA BusyFacts ==
  ASSUME IInv, pc # "idle"
  PROVE  /\ phase = "active" /\ cursor \in DOMAIN schedule
         /\ Event.req \in Requests
BY EventFacts DEF IInv, ControlInv

\* Resources, checkpoints and buffers keep their types.
LEMMA MutationTypesStep ==
  ASSUME IInv, [Next]_vars
  PROVE  MutationTypes'
<1>0. MutationTypes
  BY DEF IInv, TypeOK
<1>1. CASE Reset \/ ResetThrows
  <2>1. BeginReset
    BY <1>1 DEF Reset, ResetThrows
  <2>2. QED
    BY <1>0, <2>1, AmountFacts DEF BeginReset, DropMutations, MutationTypes
<1>2. CASE SolverTransaction
  <2>1. Event.req \in Requests
    BY <1>2, EventFacts DEF SolverTransaction, AtArrival, IInv
  <2>2. QED
    BY <1>0, <1>2, <2>1, BeginTypes DEF SolverTransaction
<1>3. ASSUME NEW s \in Slots, SolverTakes(s) \/ SolverGivesBack(s) \/ SolverTears(s)
      PROVE  MutationTypes'
  <2>1. avail' \in Amounts
    <3>1. avail \in [Slots -> Nat]
      BY <1>0 DEF MutationTypes, Amounts
    <3>2. CASE SolverTakes(s) \/ SolverTears(s)
      <4>1. avail[s] - 1 \in Nat /\ avail' = [avail EXCEPT ![s] = avail[s] - 1]
        BY <3>1, <3>2 DEF SolverTakes, SolverTears
      <4>2. QED
        BY <3>1, <4>1 DEF Amounts
    <3>3. CASE SolverGivesBack(s)
      BY <3>1, <3>3 DEF SolverGivesBack, Amounts
    <3>4. QED
      BY <1>3, <3>2, <3>3
  <2>2. UNCHANGED transactionVars
    BY <1>3 DEF SolverTakes, SolverGivesBack, SolverTears, solverFrame
  <2>3. QED
    BY <1>0, <2>1, <2>2 DEF MutationTypes, transactionVars
<1>4. ASSUME pc # "idle", NEW o, RollbackTransaction(Event.req, o)
      PROVE  MutationTypes'
  BY <1>0, <1>4, BusyFacts, RollbackTypes
<1>5. CASE StepAccepts
  <2>1. pc # "idle" /\ CloseTransaction(Event.req, Opens) /\ Carried
    BY <1>5 DEF StepAccepts, SubmittedForArrival, Submitted
  <2>2. avail' \in Amounts
    <3>1. CASE NeedsDeploy
      <4>1. Covers(avail, held) /\ avail' = Minus(avail, held)
        BY <2>1, <3>1 DEF Carried, Deploy
      <4>2. QED
        BY <1>0, <4>1, AmountFacts DEF IInv, TypeOK, SolutionTypes, MutationTypes
    <3>2. CASE ~NeedsDeploy
      BY <1>0, <2>1, <3>2 DEF Carried, MutationTypes
    <3>3. QED
      BY <3>1, <3>2
  <2>3. QED
    BY <1>0, <2>1, <2>2, BusyFacts, CloseTypes DEF MutationTypes
<1>6. CASE ReleaseCurrent \/ ReleaseSaveFails
  <2>1. GiveBack /\ UNCHANGED transactionVars
    BY <1>6 DEF ReleaseCurrent, ReleaseSaveFails
  <2>2. memory[arrivalRecord[Event.req]] \in RecordType
    BY <2>1 DEF GiveBack, HasArrivalRecord, IInv, TypeOK, RecorderTypes
  <2>3. ReleasedShare(memory[arrivalRecord[Event.req]]) \in Amounts
    BY <2>2, AmountFacts DEF ReleasedShare, RecordType
  <2>4. avail' \in Amounts
    BY <1>0, <2>1, <2>3, AmountFacts DEF GiveBack, Release, MutationTypes
  <2>5. QED
    BY <1>0, <2>1, <2>4 DEF MutationTypes, transactionVars
<1>7. CASE UNCHANGED mutationVars
  BY <1>0, <1>7 DEF MutationTypes, mutationVars
<1>8. CASE SolverThrows \/ SolverGivesUp
  BY <1>4, <1>8 DEF SolverThrows, SolverGivesUp
<1>9. CASE StepThrows \/ StepRejects \/ StepRatioThrows \/ \E ok \in BOOLEAN : StepSaveFails(ok)
  BY <1>4, <1>9 DEF StepThrows, StepRejects, StepRatioThrows, StepSaveFails,
       SubmittedForArrival, Submitted
<1>10. CASE SolverCommits \/ SolverRejects \/ SolverDetaches \/ CallerPrepares
  BY <1>7, <1>10 DEF SolverCommits, SolverRejects, SolverDetaches, CallerPrepares,
       solverFrame, mutationVars, transactionVars
<1>11. CASE StepRefused \/ DrainLeaves \/ ReleaseThrows \/ UNCHANGED vars
  BY <1>7, <1>11 DEF StepRefused, DrainLeaves, ReleaseThrows, vars
<1>12. QED
  BY <1>1, <1>2, <1>3, <1>5, <1>6, <1>8, <1>9, <1>10, <1>11
     DEF Next, SolverStep, Step, Drain

\* The history, the indexes and the counters keep their types.
LEMMA RecorderTypesStep ==
  ASSUME IInv, [Next]_vars
  PROVE  RecorderTypes'
<1>0. RecorderTypes /\ held \in Amounts
  BY DEF IInv, TypeOK, SolutionTypes
<1>1. CASE Reset \/ ResetThrows
  <2>1. ResetRecorder
    BY <1>1 DEF Reset, ResetThrows, BeginReset
  <2>2. QED
    BY <2>1 DEF ResetRecorder, RecorderTypes, NoCounts, NoMembers
<1>2. ASSUME pc # "idle", NEW ok \in BOOLEAN, CountArrival(cursor, Event.req, ok, held),
             AddRecord(Record("arrival", Event.req, ok, held))
      PROVE  RecorderTypes'
  <2>1. Event.req \in Requests /\ cursor \in Nat
    BY <1>2, BusyFacts DEF IInv, TypeOK, EpisodeTypes
  <2>2. Record("arrival", Event.req, ok, held) \in RecordType
    BY <1>0, <2>1 DEF Record, RecordType
  <2>3. memory' \in Seq(RecordType)
    BY <1>0, <1>2, <2>2, AddRecordTypes DEF RecorderTypes
  <2>4. QED
    BY <1>0, <1>2, <2>1, <2>3, ArrivalCountTypes DEF RecorderTypes
<1>3. CASE StepRejects \/ StepAccepts
  BY <1>2, <1>3 DEF StepRejects, StepAccepts, SubmittedForArrival, Submitted, RecordArrival
<1>4. CASE \E ok \in BOOLEAN : StepSaveFails(ok)
  BY <1>2, <1>4 DEF StepSaveFails, SubmittedForArrival, Submitted
<1>5. CASE StepRatioThrows
  <2>1. Event.req \in Requests /\ cursor \in Nat /\ CountArrivalThrows(cursor, Event.req)
    BY <1>5, BusyFacts DEF StepRatioThrows, SubmittedForArrival, Submitted, IInv, TypeOK,
         EpisodeTypes
  <2>2. CountedArrival(TRUE) \in [arrivals : Nat, successes : Nat, inservice : Int]
    BY <1>0 DEF CountedArrival, RecorderTypes
  <2>3. QED
    BY <1>0, <2>1, <2>2 DEF CountArrivalThrows, RecorderTypes
<1>6. CASE ReleaseCurrent \/ ReleaseSaveFails
  <2>1. GiveBack
    BY <1>6 DEF ReleaseCurrent, ReleaseSaveFails
  <2>2. Event.req \in Requests
    BY <2>1, BusyFacts DEF GiveBack
  <2>3. Record("leave", Event.req, FALSE, Zero) \in RecordType
    BY <2>2, AmountFacts DEF Record, RecordType
  <2>4. memory' \in Seq(RecordType)
    BY <1>0, <2>1, <2>3, AddRecordTypes DEF RecorderTypes, GiveBack
  <2>5. QED
    BY <1>0, <2>1, <2>2, <2>4, LeaveCountTypes DEF RecorderTypes, GiveBack
<1>7. CASE UNCHANGED recorderVars
  BY <1>0, <1>7 DEF RecorderTypes, recorderVars
<1>8. CASE SolverThrows \/ SolverGivesUp \/ StepThrows \/ StepRefused
  BY <1>7, <1>8 DEF SolverThrows, SolverGivesUp, StepThrows, StepRefused
<1>9. CASE \/ SolverTransaction \/ SolverCommits \/ SolverRejects \/ SolverDetaches
           \/ CallerPrepares \/ \E s \in Slots : SolverTakes(s) \/ SolverGivesBack(s) \/ SolverTears(s)
  BY <1>7, <1>9 DEF SolverTransaction, SolverCommits, SolverRejects, SolverDetaches,
       CallerPrepares, SolverTakes, SolverGivesBack, SolverTears, solverFrame
<1>10. CASE DrainLeaves \/ ReleaseThrows \/ UNCHANGED vars
  BY <1>7, <1>10 DEF DrainLeaves, ReleaseThrows, vars
<1>11. QED
  BY <1>1, <1>3, <1>4, <1>5, <1>6, <1>8, <1>9, <1>10
     DEF Next, SolverStep, Step, Drain

\* After an event the episode is over, or the next event of the plan is current.
LEMMA TransitFacts ==
  ASSUME IInv, pc # "idle", Transit
  PROVE  /\ pc' \in {"idle", "draining"} /\ phase' \in {"active", "finished"}
         /\ schedule' = schedule /\ cursor' \in DOMAIN schedule /\ cursor' \in Nat
         /\ IF phase' = "finished" THEN cursor' = cursor /\ pc' = "idle"
            ELSE /\ phase' = "active" /\ cursor' = cursor + 1
                 /\ pc' = "draining" => schedule[cursor'].type = "leave"
<1>1. phase = "active" /\ cursor \in 1 .. Len(schedule) /\ schedule \in Seq(Events)
  BY BusyFacts DEF IInv, TypeOK, EpisodeTypes
<1>2. CASE Last
  BY <1>1, <1>2 DEF Transit
<1>3. CASE ~Last
  BY <1>1, <1>3 DEF Transit, Last
<1>4. QED
  BY <1>2, <1>3

\* The event schedule, the cursor and the arrival records keep their types.
LEMMA EpisodeTypesStep ==
  ASSUME IInv, [Next]_vars
  PROVE  EpisodeTypes'
<1>0. EpisodeTypes
  BY DEF IInv, TypeOK
<1>1. CASE Reset
  <2>1. schedule' \in Seq(Events) /\ schedule' # <<>> /\ schedule' \in Schedules
    BY <1>1 DEF Reset
  <2>2. \A i, j \in DOMAIN schedule' : schedule'[i] = schedule'[j] => i = j
    BY <2>1
  <2>3. 1 \in DOMAIN schedule'
    BY <2>1
  <2>4. QED
    BY <1>1, <2>1, <2>2, <2>3 DEF Reset, BeginReset, EpisodeTypes
<1>2. CASE ResetThrows
  BY <1>2 DEF ResetThrows, BeginReset, EpisodeTypes
<1>3. ASSUME pc # "idle", Transit, arrivalRecord' \in [Requests -> Nat]
      PROVE  EpisodeTypes'
  BY <1>0, <1>3, TransitFacts DEF EpisodeTypes
<1>4. CASE StepRejects \/ StepAccepts
  <2>1. arrivalRecord' \in [Requests -> Nat]
    <3>1. RecordIndex \in Nat
      BY DEF RecordIndex, IInv, TypeOK, RecorderTypes
    <3>2. QED
      BY <1>0, <1>4, <3>1 DEF StepRejects, StepAccepts, RecordArrival, EpisodeTypes
  <2>2. QED
    BY <1>3, <1>4, <2>1 DEF StepRejects, StepAccepts, SubmittedForArrival, Submitted
<1>5. CASE ReleaseCurrent
  BY <1>0, <1>3, <1>5 DEF ReleaseCurrent, GiveBack, EpisodeTypes
<1>6. CASE UNCHANGED <<episodeVars, arrivalRecord>> /\ pc' \in {"idle", "solving", "torn", "returned", "draining"}
  BY <1>0, <1>6 DEF EpisodeTypes, episodeVars
<1>7. CASE SolverThrows \/ SolverGivesUp \/ StepThrows \/ StepRefused \/ DrainLeaves \/ ReleaseThrows
  BY <1>6, <1>7 DEF SolverThrows, SolverGivesUp, StepThrows, StepRefused, DrainLeaves, ReleaseThrows
<1>8. CASE \/ SolverTransaction \/ SolverCommits \/ SolverRejects \/ SolverDetaches \/ CallerPrepares
  BY <1>6, <1>8 DEF SolverTransaction, SolverCommits, SolverRejects, SolverDetaches,
       CallerPrepares, solverFrame
<1>9. CASE \E s \in Slots : SolverTakes(s) \/ SolverGivesBack(s) \/ SolverTears(s)
  BY <1>0, <1>6, <1>9 DEF SolverTakes, SolverGivesBack, SolverTears, solverFrame, EpisodeTypes
<1>10. CASE StepRatioThrows \/ (\E ok \in BOOLEAN : StepSaveFails(ok)) \/ ReleaseSaveFails
  BY <1>6, <1>10 DEF StepRatioThrows, StepSaveFails, ReleaseSaveFails
<1>11. CASE UNCHANGED vars
  BY <1>0, <1>11 DEF vars, episodeVars, EpisodeTypes
<1>12. QED
  BY <1>1, <1>2, <1>4, <1>5, <1>7, <1>8, <1>9, <1>10, <1>11
     DEF Next, SolverStep, Step, Drain

\* The Solution being built keeps its types.
LEMMA SolutionTypesStep ==
  ASSUME IInv, [Next]_vars
  PROVE  SolutionTypes'
<1>0. SolutionTypes
  BY DEF IInv, TypeOK
<1>1. CASE BlankSolution
  BY <1>1, AmountFacts DEF BlankSolution, SolutionTypes
<1>2. CASE UNCHANGED solutionVars
  BY <1>0, <1>2 DEF solutionVars, SolutionTypes
<1>3. CASE \/ Reset \/ ResetThrows \/ SolverTransaction \/ SolverThrows \/ Step
  BY <1>1, <1>3 DEF Reset, ResetThrows, BeginReset, SolverTransaction, SolverThrows, Step,
       StepRefused, StepThrows, StepRejects, StepAccepts, StepRatioThrows, StepSaveFails
<1>4. CASE Drain \/ UNCHANGED vars
  BY <1>2, <1>4 DEF Drain, DrainLeaves, ReleaseCurrent, ReleaseSaveFails, ReleaseThrows, vars
<1>5. CASE \E s \in Slots : SolverTears(s)
  BY <1>2, <1>5 DEF SolverTears
<1>6. ASSUME NEW s \in Slots, SolverTakes(s) \/ SolverGivesBack(s)
      PROVE  SolutionTypes'
  <2>1. held \in [Slots -> Nat]
    BY <1>0 DEF SolutionTypes, Amounts
  <2>2. CASE SolverTakes(s)
    BY <1>0, <2>1, <2>2 DEF SolverTakes, SolutionTypes, Amounts
  <2>3. CASE SolverGivesBack(s)
    <3>1. held[s] - 1 \in Nat /\ held' = [held EXCEPT ![s] = held[s] - 1]
      BY <2>1, <2>3 DEF SolverGivesBack
    <3>2. QED
      BY <1>0, <2>1, <2>3, <3>1 DEF SolverGivesBack, SolutionTypes, Amounts
  <2>4. QED
    BY <1>6, <2>2, <2>3
<1>7. CASE SolverCommits \/ SolverGivesUp \/ SolverRejects
  BY <1>0, <1>7 DEF SolverCommits, SolverGivesUp, SolverRejects, SolutionTypes
<1>8. CASE SolverDetaches \/ CallerPrepares
  BY <1>0, <1>8, HoldingsAreAmounts DEF SolverDetaches, CallerPrepares, SolutionTypes
<1>9. QED
  BY <1>3, <1>4, <1>5, <1>6, <1>7, <1>8 DEF Next, SolverStep

\* The bounds of the model count, and the failure flag is a flag.
LEMMA HistoryTypesStep ==
  ASSUME IInv, [Next]_vars
  PROVE  episodes' \in Nat /\ failures' \in Nat /\ recorderFailed' \in BOOLEAN
<1>0. episodes \in Nat /\ failures \in Nat /\ recorderFailed \in BOOLEAN
  BY DEF IInv, TypeOK
<1>1. CASE Reset \/ ResetThrows
  <2>1. BeginReset
    BY <1>1 DEF Reset, ResetThrows
  <2>2. recorderFailed' \in BOOLEAN
    BY <2>1, Zenon DEF BeginReset
  <2>3. episodes' \in Nat /\ failures' \in Nat
    BY <1>0, <2>1 DEF BeginReset
  <2>4. QED
    BY <2>2, <2>3
<1>2. CASE RecorderFails
  BY <1>0, <1>2 DEF RecorderFails
<1>3. CASE UNCHANGED historyVars
  BY <1>0, <1>3 DEF historyVars
<1>4. CASE StepRatioThrows \/ (\E ok \in BOOLEAN : StepSaveFails(ok)) \/ ReleaseSaveFails
  BY <1>2, <1>4 DEF StepRatioThrows, StepSaveFails, ReleaseSaveFails
<1>5. CASE SolverTransaction \/ CallerPrepares \/ SolverStep
  BY <1>3, <1>5 DEF SolverTransaction, CallerPrepares, SolverStep, SolverThrows, SolverCommits,
       SolverGivesUp, SolverRejects, SolverDetaches, SolverTakes, SolverGivesBack, SolverTears,
       solverFrame
<1>6. CASE \/ StepRefused \/ StepThrows \/ StepRejects \/ StepAccepts
           \/ DrainLeaves \/ ReleaseCurrent \/ ReleaseThrows
  BY <1>3, <1>6 DEF StepRefused, StepThrows, StepRejects, StepAccepts, DrainLeaves,
       ReleaseCurrent, ReleaseThrows
<1>7. CASE UNCHANGED vars
  BY <1>3, <1>7 DEF vars
<1>8. QED
  BY <1>1, <1>4, <1>5, <1>6, <1>7 DEF Next, Step, Drain

\* Type correctness is preserved.
LEMMA TypeOKStep ==
  ASSUME IInv, [Next]_vars
  PROVE  TypeOK'
BY MutationTypesStep, RecorderTypesStep, EpisodeTypesStep, SolutionTypesStep, HistoryTypesStep
   DEF TypeOK

-----------------------------------------------------------------------------
(* The transaction.                                                         *)

\* The only open checkpoint is the current arrival's, so closing it closes all.
LEMMA CloserEmpties ==
  ASSUME IInv, NEW o, CloseTransaction(Event.req, o)
  PROVE  active' = {}
BY DEF IInv, TransactionScope, CloseTransaction

\* An idle caller and a draining loop have no checkpoint open.
LEMMA OutsideTransaction ==
  ASSUME IInv, pc \notin {"solving", "torn", "returned"}
  PROVE  active = {}
BY DEF IInv, TransactionScope

\* Every way out of step() and of a throwing solver closes the transaction.
LEMMA EndingsClose ==
  ASSUME IInv,
         \/ SolverThrows \/ SolverGivesUp \/ StepThrows \/ StepRejects \/ StepAccepts
         \/ StepRatioThrows \/ \E ok \in BOOLEAN : StepSaveFails(ok)
  PROVE  active' = {}
<1>1. \E o : CloseTransaction(Event.req, o)
  BY DEF SolverThrows, SolverGivesUp, StepThrows, StepRejects, StepAccepts, StepRatioThrows,
     StepSaveFails, RollbackTransaction
<1>2. QED
  BY <1>1, CloserEmpties

\* Steps that start where no transaction is open, and open none.
LEMMA OutsideStays ==
  ASSUME IInv,
         \/ Reset \/ ResetThrows \/ CallerPrepares \/ StepRefused
         \/ DrainLeaves \/ ReleaseCurrent \/ ReleaseSaveFails \/ ReleaseThrows
  PROVE  active' = {}
<1>1. CASE Reset \/ ResetThrows
  BY <1>1 DEF Reset, ResetThrows, BeginReset, DropMutations
<1>2. CASE CallerPrepares \/ DrainLeaves \/ ReleaseThrows
  BY <1>2, OutsideTransaction DEF CallerPrepares, DrainLeaves, ReleaseThrows,
     solverFrame, transactionVars, mutationVars
<1>3. CASE ReleaseCurrent \/ ReleaseSaveFails
  BY <1>3, OutsideTransaction DEF ReleaseCurrent, ReleaseSaveFails, GiveBack, transactionVars
<1>4. CASE StepRefused
  BY <1>4 DEF StepRefused, Refused, IInv, TransactionScope, mutationVars
<1>5. QED
  BY <1>1, <1>2, <1>3, <1>4

\* The steps of a solver that keep the transaction open.
LEMMA SolverStays ==
  ASSUME IInv,
         \/ SolverCommits \/ SolverRejects \/ SolverDetaches
         \/ \E s \in Slots : SolverTakes(s) \/ SolverGivesBack(s) \/ SolverTears(s)
  PROVE  /\ pc = "solving" /\ active # {}
         /\ pc' \in {"solving", "torn", "returned"}
         /\ UNCHANGED <<active, checkpoint, phase, schedule, cursor, memory, arrivalRecord, eventIndex>>
<1>1. pc = "solving" /\ active # {}
  BY DEF SolverCommits, SolverRejects, SolverDetaches, SolverTakes, SolverGivesBack, SolverTears,
     IInv, ControlInv
<1>2. pc' \in {"solving", "torn", "returned"}
  BY <1>1 DEF SolverCommits, SolverRejects, SolverDetaches, SolverTakes, SolverGivesBack, SolverTears
<1>3. UNCHANGED solverFrame
  BY DEF SolverCommits, SolverRejects, SolverDetaches, SolverTakes, SolverGivesBack, SolverTears
<1>4. QED
  BY <1>1, <1>2, <1>3 DEF solverFrame, transactionVars, episodeVars, recorderVars

\* The beginning of a solver transaction.
LEMMA TransactionOpens ==
  ASSUME IInv, SolverTransaction
  PROVE  /\ Event.req \in Requests /\ active' = {Event.req}
         /\ checkpoint'[Event.req] = avail /\ avail' = avail
         /\ pc' = "solving" /\ held' = Zero
         /\ UNCHANGED <<phase, schedule, cursor, memory, arrivalRecord, eventIndex>>
<1>1. Event.req \in Requests
  BY EventFacts DEF SolverTransaction, AtArrival, IInv
<1>2. active = {}
  BY OutsideTransaction DEF SolverTransaction
<1>3. active' = {Event.req} /\ checkpoint'[Event.req] = avail
  BY <1>1, <1>2 DEF SolverTransaction, BeginTransaction, Snapshot, IInv, TypeOK, MutationTypes
<1>4. QED
  BY <1>1, <1>3 DEF SolverTransaction, BlankSolution, recorderVars, episodeVars

LEMMA TransactionScopeStep ==
  ASSUME IInv, [Next]_vars
  PROVE  TransactionScope'
<1>0. TransactionScope
  BY DEF IInv
<1>1. CASE active' = {}
  BY <1>1 DEF TransactionScope
<1>2. CASE SolverTransaction
  BY <1>2, TransactionOpens DEF TransactionScope, SolverTransaction, AtArrival, Event
<1>3. CASE \/ SolverCommits \/ SolverRejects \/ SolverDetaches
           \/ \E s \in Slots : SolverTakes(s) \/ SolverGivesBack(s) \/ SolverTears(s)
  BY <1>0, <1>3, SolverStays DEF TransactionScope, AtArrival, Event
<1>4. CASE UNCHANGED vars
  BY <1>0, <1>4 DEF vars, mutationVars, episodeVars, TransactionScope, AtArrival, Event
<1>5. QED
  BY <1>1, <1>2, <1>3, <1>4, EndingsClose, OutsideStays DEF Next, SolverStep, Step, Drain

LEMMA ControlInvStep ==
  ASSUME IInv, [Next]_vars
  PROVE  ControlInv'
<1>0. ControlInv
  BY DEF IInv
<1>1. CASE pc' = "idle"
  BY <1>1 DEF ControlInv
<1>2. CASE SolverTransaction
  BY <1>2, TransactionOpens DEF ControlInv, SolverTransaction, AtArrival
<1>3. CASE \/ SolverCommits \/ SolverRejects \/ SolverDetaches
           \/ \E s \in Slots : SolverTakes(s) \/ SolverGivesBack(s) \/ SolverTears(s)
  BY <1>0, <1>3, SolverStays DEF ControlInv
<1>4. CASE CallerPrepares \/ SolverGivesUp
  BY <1>0, <1>4 DEF ControlInv, CallerPrepares, SolverGivesUp, solverFrame, episodeVars
<1>5. CASE StepRejects \/ StepAccepts \/ ReleaseCurrent
  <2>1. pc # "idle" /\ Transit
    BY <1>5 DEF StepRejects, StepAccepts, ReleaseCurrent, SubmittedForArrival, Submitted, GiveBack
  <2>2. QED
    BY <2>1, TransitFacts DEF ControlInv, AtLeave, Event
<1>6. CASE DrainLeaves
  BY <1>6 DEF DrainLeaves, ControlInv, AtLeave, Event, episodeVars
<1>7. CASE UNCHANGED vars
  BY <1>0, <1>7 DEF vars, mutationVars, episodeVars, ControlInv, AtLeave, Event
<1>8. CASE \/ Reset \/ ResetThrows \/ SolverThrows \/ StepRefused \/ StepThrows
           \/ StepRatioThrows \/ (\E ok \in BOOLEAN : StepSaveFails(ok))
           \/ ReleaseSaveFails \/ ReleaseThrows
  BY <1>1, <1>8 DEF Reset, ResetThrows, BeginReset, SolverThrows, StepRefused, StepThrows,
     StepRatioThrows, StepSaveFails, ReleaseSaveFails, ReleaseThrows
<1>9. QED
  BY <1>2, <1>3, <1>4, <1>5, <1>6, <1>7, <1>8 DEF Next, SolverStep, Step, Drain

LEMMA JournalBalancesStep ==
  ASSUME IInv, [Next]_vars
  PROVE  JournalBalances'
<1>0. JournalBalances /\ avail \in [Slots -> Nat] /\ held \in [Slots -> Nat]
  BY DEF IInv, TypeOK, MutationTypes, SolutionTypes, Amounts
<1>1. CASE active' = {}
  BY <1>1 DEF JournalBalances
<1>2. CASE SolverTransaction
  <2>1. \A s \in Slots : avail'[s] + held'[s] = checkpoint'[Event.req][s]
    BY <1>0, <1>2, TransactionOpens DEF Zero
  <2>2. Event' = Event
    BY <1>2, TransactionOpens DEF Event
  <2>3. QED
    BY <2>1, <2>2 DEF JournalBalances
<1>3. ASSUME NEW s \in Slots, SolverTakes(s) \/ SolverGivesBack(s)
      PROVE  JournalBalances'
  <2>1. /\ \A t \in Slots : avail[t] + held[t] = checkpoint[Event.req][t]
        /\ Event' = Event /\ checkpoint' = checkpoint
    BY <1>0, <1>3, SolverStays DEF JournalBalances, Event
  <2>2. \A t \in Slots : avail'[t] + held'[t] = avail[t] + held[t]
    <3>1. CASE SolverTakes(s)
      BY <1>0, <3>1 DEF SolverTakes
    <3>2. CASE SolverGivesBack(s)
      BY <1>0, <3>2 DEF SolverGivesBack
    <3>3. QED
      BY <1>3, <3>1, <3>2
  <2>3. QED
    BY <2>1, <2>2 DEF JournalBalances
<1>4. CASE SolverCommits
  <2>1. /\ \A t \in Slots : avail[t] + held[t] = checkpoint[Event.req][t]
        /\ Event' = Event /\ checkpoint' = checkpoint
    BY <1>0, <1>4, SolverStays DEF JournalBalances, Event
  <2>2. QED
    BY <1>4, <2>1 DEF JournalBalances, SolverCommits
<1>5. CASE SolverRejects \/ SolverDetaches \/ \E s \in Slots : SolverTears(s)
  BY <1>5 DEF JournalBalances, SolverRejects, SolverDetaches, SolverTears
<1>6. CASE UNCHANGED vars
  BY <1>0, <1>6 DEF vars, mutationVars, episodeVars, solutionVars, JournalBalances, Event
<1>7. QED
  BY <1>1, <1>2, <1>3, <1>4, <1>5, <1>6, EndingsClose, OutsideStays
     DEF Next, SolverStep, Step, Drain

LEMMA DetachedUntouchedStep ==
  ASSUME IInv, [Next]_vars
  PROVE  DetachedUntouched'
<1>0. DetachedUntouched /\ MutationTypes /\ held \in [Slots -> Nat]
  BY DEF IInv, TypeOK, SolutionTypes, Amounts
<1>1. CASE active' = {}
  BY <1>1 DEF DetachedUntouched
<1>2. CASE SolverTransaction \/ \E s \in Slots : SolverTakes(s) \/ SolverGivesBack(s) \/ SolverTears(s)
  BY <1>2 DEF DetachedUntouched, SolverTransaction, SolverTakes, SolverGivesBack, SolverTears
<1>3. CASE SolverCommits \/ SolverRejects
  BY <1>3 DEF DetachedUntouched, SolverCommits, SolverRejects
<1>4. CASE SolverDetaches
  <2>1. /\ \A t \in Slots : avail[t] + held[t] = checkpoint[Event.req][t]
        /\ Event' = Event /\ checkpoint' = checkpoint /\ Event.req \in Requests
    BY <1>4, SolverStays, BusyFacts DEF IInv, JournalBalances, Event
  <2>2. \A t \in Slots : avail[t] = checkpoint[Event.req][t]
    BY <1>0, <1>4, <2>1 DEF SolverDetaches, Zero, MutationTypes, Amounts
  <2>3. avail \in [Slots -> Nat] /\ checkpoint[Event.req] \in [Slots -> Nat]
    BY <1>0, <2>1 DEF MutationTypes, Amounts
  <2>4. avail = checkpoint[Event.req]
    BY <2>2, <2>3
  <2>5. QED
    BY <1>4, <2>1, <2>4 DEF DetachedUntouched, SolverDetaches
<1>5. CASE UNCHANGED vars
  BY <1>0, <1>5 DEF vars, mutationVars, episodeVars, solutionVars, DetachedUntouched, Event
<1>6. QED
  BY <1>1, <1>2, <1>3, <1>4, <1>5, EndingsClose, OutsideStays
     DEF Next, SolverStep, Step, Drain

-----------------------------------------------------------------------------
(* The history and the arrival records.                                     *)

\* An arrival that is being decided has no record of it yet.
LEMMA UndecidedArrival ==
  ASSUME IInv, AtArrival
  PROVE  /\ Event.req \in Requests /\ arrivalRecord[Event.req] = 0
         /\ cursor \in DOMAIN schedule /\ schedule[cursor] = Arrival(Event.req)
<1>1. Event.req \in Requests /\ cursor \in DOMAIN schedule /\ schedule[cursor] = Arrival(Event.req)
  BY EventFacts DEF AtArrival, IInv, Event
<1>2. ASSUME arrivalRecord[Event.req] # 0
      PROVE  FALSE
  <2>1. PICK i \in DOMAIN schedule :
          /\ schedule[i] = Arrival(Event.req)
          /\ i < cursor \/ (i = cursor /\ phase = "finished")
    BY <1>1, <1>2 DEF IInv, DecidedArrivals
  <2>2. i = cursor
    BY <1>1, <2>1 DEF IInv, TypeOK, EpisodeTypes
  <2>3. i < cursor
    BY <2>1 DEF AtArrival
  <2>4. QED
    BY <2>2, <2>3 DEF IInv, TypeOK, EpisodeTypes
<1>3. QED
  BY <1>1, <1>2

\* What counting and recording an arrival does to the history.
LEMMA ArrivalRecorded ==
  ASSUME IInv, SubmittedForArrival, NEW ok \in BOOLEAN,
         CountArrival(cursor, Event.req, ok, held),
         AddRecord(Record("arrival", Event.req, ok, held))
  PROVE  /\ memory' \in Seq(RecordType) /\ Len(memory') = Len(memory) + 1
         /\ DOMAIN memory = 1 .. Len(memory) /\ Len(memory) \in Nat
         /\ DOMAIN memory' = 1 .. (Len(memory) + 1)
         /\ \A i \in DOMAIN memory : memory'[i] = memory[i]
         /\ memory'[Len(memory) + 1] = Record("arrival", Event.req, ok, held)
         /\ eventIndex' = [eventIndex EXCEPT ![Event.req] = cursor]
         /\ cursor \in DOMAIN memory'
<1>1. Event.req \in Requests /\ cursor \in 1 .. Len(schedule) /\ phase = "active"
  BY UndecidedArrival DEF SubmittedForArrival, AtArrival, IInv, TypeOK, EpisodeTypes
<1>2. memory \in Seq(RecordType) /\ held \in Amounts
  BY DEF IInv, TypeOK, RecorderTypes, SolutionTypes
<1>3. Record("arrival", Event.req, ok, held) \in RecordType
  BY <1>1, <1>2 DEF Record, RecordType
<1>4. Len(memory) >= cursor - 1 /\ Len(memory) \in Nat
  BY <1>1, <1>2 DEF IInv, HistoryReaches, Processed
<1>5. cursor \in 1 .. (Len(memory) + 1)
  BY <1>1, <1>4
<1>6. QED
  BY <1>2, <1>3, <1>4, <1>5, AddRecordTypes DEF CountArrival

\* What a release does to the history.
LEMMA LeaveRecorded ==
  ASSUME IInv, GiveBack
  PROVE  /\ Len(memory') = Len(memory) + 1 /\ Len(memory) \in Nat
         /\ DOMAIN memory = 1 .. Len(memory) /\ DOMAIN memory' = 1 .. (Len(memory) + 1)
         /\ \A i \in DOMAIN memory : memory'[i] = memory[i]
         /\ UNCHANGED eventIndex
<1>1. Event.req \in Requests
  BY BusyFacts DEF GiveBack
<1>2. Record("leave", Event.req, FALSE, Zero) \in RecordType
  BY <1>1, AmountFacts DEF Record, RecordType
<1>3. memory \in Seq(RecordType)
  BY DEF IInv, TypeOK, RecorderTypes
<1>4. AddRecord(Record("leave", Event.req, FALSE, Zero)) /\ UNCHANGED eventIndex
  BY DEF GiveBack, CountLeave
<1>5. DOMAIN memory = 1 .. Len(memory) /\ Len(memory) \in Nat
  BY <1>3
<1>6. QED
  BY <1>2, <1>3, <1>4, <1>5, AddRecordTypes

\* Steps that neither count nor record anything.
LEMMA RecordsKept ==
  ASSUME IInv,
         \/ SolverTransaction \/ CallerPrepares \/ SolverStep \/ StepRefused \/ StepThrows
         \/ DrainLeaves \/ ReleaseThrows \/ UNCHANGED vars
  PROVE  UNCHANGED <<memory, arrivalRecord, eventIndex, phase, schedule, cursor>>
<1>1. CASE SolverTransaction \/ CallerPrepares \/ SolverStep
  BY <1>1 DEF SolverTransaction, CallerPrepares, SolverStep, SolverThrows, SolverCommits,
     SolverGivesUp, SolverRejects, SolverDetaches, SolverTakes, SolverGivesBack, SolverTears,
     solverFrame, recorderVars, episodeVars
<1>2. CASE StepRefused \/ StepThrows \/ DrainLeaves \/ ReleaseThrows \/ UNCHANGED vars
  BY <1>2 DEF StepRefused, StepThrows, DrainLeaves, ReleaseThrows, vars, recorderVars, episodeVars
<1>3. QED
  BY <1>1, <1>2

LEMMA ReleaseFindsItsArrivalStep ==
  ASSUME IInv, [Next]_vars
  PROVE  ReleaseFindsItsArrival'
<1>0. /\ ReleaseFindsItsArrival /\ memory \in Seq(RecordType)
      /\ arrivalRecord \in [Requests -> Nat] /\ eventIndex \in [Requests -> Nat]
  BY DEF IInv, TypeOK, RecorderTypes, EpisodeTypes
<1>1. CASE Reset \/ ResetThrows
  BY <1>1 DEF Reset, ResetThrows, BeginReset, ReleaseFindsItsArrival
<1>2. CASE UNCHANGED <<memory, arrivalRecord, eventIndex>>
  BY <1>0, <1>2 DEF ReleaseFindsItsArrival
<1>3. ASSUME NEW ok \in BOOLEAN, SubmittedForArrival, RecordArrival(ok)
      PROVE  ReleaseFindsItsArrival'
  <2>1. arrivalRecord' = [arrivalRecord EXCEPT ![Event.req] = Len(memory) + 1]
    BY <1>3 DEF RecordArrival, RecordIndex
  <2>2. Event.req \in Requests
    BY <1>3, UndecidedArrival DEF SubmittedForArrival
  <2>3. /\ DOMAIN memory = 1 .. Len(memory) /\ Len(memory) \in Nat
        /\ DOMAIN memory' = 1 .. (Len(memory) + 1)
        /\ \A i \in DOMAIN memory : memory'[i] = memory[i]
        /\ memory'[Len(memory) + 1] = Record("arrival", Event.req, ok, held)
        /\ eventIndex' = [eventIndex EXCEPT ![Event.req] = cursor]
        /\ cursor \in DOMAIN memory'
    BY <1>3, ArrivalRecorded DEF RecordArrival
  <2>4. /\ memory'[Len(memory) + 1].type = "arrival"
        /\ memory'[Len(memory) + 1].req = Event.req
    BY <2>3 DEF Record
  <2>5. QED
    BY <1>0, <2>1, <2>2, <2>3, <2>4 DEF ReleaseFindsItsArrival
<1>4. CASE StepRejects \/ StepAccepts
  BY <1>3, <1>4 DEF StepRejects, StepAccepts
<1>5. CASE \E ok \in BOOLEAN : StepSaveFails(ok)
  <2>1. PICK ok \in BOOLEAN : StepSaveFails(ok)
    BY <1>5
  <2>2. Event.req \in Requests /\ arrivalRecord[Event.req] = 0 /\ arrivalRecord' = arrivalRecord
    BY <2>1, UndecidedArrival DEF StepSaveFails, SubmittedForArrival
  <2>3. /\ DOMAIN memory = 1 .. Len(memory) /\ Len(memory) \in Nat
        /\ DOMAIN memory' = 1 .. (Len(memory) + 1)
        /\ \A i \in DOMAIN memory : memory'[i] = memory[i]
        /\ eventIndex' = [eventIndex EXCEPT ![Event.req] = cursor]
    BY <2>1, ArrivalRecorded DEF StepSaveFails
  <2>4. QED
    BY <1>0, <2>2, <2>3 DEF ReleaseFindsItsArrival
<1>6. CASE StepRatioThrows
  BY <1>0, <1>6, UndecidedArrival
     DEF StepRatioThrows, SubmittedForArrival, CountArrivalThrows, ReleaseFindsItsArrival
<1>7. CASE ReleaseCurrent \/ ReleaseSaveFails
  <2>1. GiveBack /\ arrivalRecord' = arrivalRecord
    BY <1>7 DEF ReleaseCurrent, ReleaseSaveFails
  <2>2. QED
    BY <1>0, <2>1, LeaveRecorded DEF ReleaseFindsItsArrival
<1>8. QED
  BY <1>1, <1>2, <1>4, <1>5, <1>6, <1>7, RecordsKept DEF Next, SolverStep, Step, Drain

LEMMA HistoryReachesStep ==
  ASSUME IInv, [Next]_vars
  PROVE  HistoryReaches'
<1>0. /\ HistoryReaches /\ memory \in Seq(RecordType) /\ cursor \in Nat
      /\ phase = "unready" => cursor = 0
  BY DEF IInv, TypeOK, RecorderTypes, EpisodeTypes
<1>1. CASE Reset \/ ResetThrows
  BY <1>1 DEF Reset, ResetThrows, BeginReset, ResetRecorder, HistoryReaches, Processed
<1>2. CASE UNCHANGED <<memory, phase, cursor>>
  BY <1>0, <1>2 DEF HistoryReaches, Processed
<1>3. ASSUME pc # "idle", Transit, Len(memory') = Len(memory) + 1
      PROVE  HistoryReaches'
  <2>1. phase = "active"
    BY <1>3, BusyFacts
  <2>2. QED
    BY <1>0, <1>3, <2>1, TransitFacts DEF HistoryReaches, Processed
<1>4. CASE StepRejects \/ StepAccepts
  <2>1. PICK ok \in BOOLEAN : SubmittedForArrival /\ RecordArrival(ok) /\ Transit
    BY <1>4 DEF StepRejects, StepAccepts
  <2>2. QED
    BY <1>3, <2>1, ArrivalRecorded DEF RecordArrival, SubmittedForArrival, Submitted
<1>5. CASE ReleaseCurrent
  BY <1>3, <1>5, LeaveRecorded DEF ReleaseCurrent, GiveBack
<1>6. CASE ReleaseSaveFails
  BY <1>0, <1>6, LeaveRecorded DEF ReleaseSaveFails, HistoryReaches, Processed, episodeVars
<1>7. CASE \E ok \in BOOLEAN : StepSaveFails(ok)
  BY <1>0, <1>7, ArrivalRecorded DEF StepSaveFails, HistoryReaches, Processed, episodeVars
<1>8. CASE StepRatioThrows
  BY <1>2, <1>8 DEF StepRatioThrows, CountArrivalThrows, episodeVars
<1>9. QED
  BY <1>1, <1>2, <1>4, <1>5, <1>6, <1>7, <1>8, RecordsKept DEF Next, SolverStep, Step, Drain

LEMMA DecidedArrivalsStep ==
  ASSUME IInv, [Next]_vars
  PROVE  DecidedArrivals'
<1>0. /\ DecidedArrivals /\ cursor \in Nat /\ arrivalRecord \in [Requests -> Nat]
      /\ DOMAIN schedule = 1 .. Len(schedule) /\ Len(schedule) \in Nat
  BY DEF IInv, TypeOK, EpisodeTypes
<1>1. CASE Reset \/ ResetThrows
  BY <1>1 DEF Reset, ResetThrows, BeginReset, DecidedArrivals
<1>2. CASE UNCHANGED <<arrivalRecord, schedule, phase, cursor>>
  BY <1>0, <1>2 DEF DecidedArrivals
<1>3. ASSUME pc # "idle", Transit
      PROVE  /\ schedule' = schedule
             /\ \A i \in DOMAIN schedule :
                  i < cursor \/ (i = cursor /\ phase = "finished") \/ i = cursor
                  => i < cursor' \/ (i = cursor' /\ phase' = "finished")
  BY <1>0, <1>3, TransitFacts, BusyFacts
<1>4. CASE StepRejects \/ StepAccepts
  <2>1. PICK ok \in BOOLEAN : SubmittedForArrival /\ RecordArrival(ok) /\ Transit
    BY <1>4 DEF StepRejects, StepAccepts
  <2>2. pc # "idle" /\ AtArrival
    BY <2>1 DEF SubmittedForArrival, Submitted
  <2>3. cursor \in DOMAIN schedule /\ schedule[cursor] = Arrival(Event.req)
    BY <2>2, UndecidedArrival
  <2>4. \A r \in Requests : r # Event.req => arrivalRecord'[r] = arrivalRecord[r]
    BY <1>0, <2>1 DEF RecordArrival
  <2>5. QED
    BY <1>0, <1>3, <2>1, <2>2, <2>3, <2>4 DEF DecidedArrivals
<1>5. CASE ReleaseCurrent
  BY <1>0, <1>3, <1>5 DEF ReleaseCurrent, GiveBack, DecidedArrivals
<1>6. CASE StepRatioThrows \/ (\E ok \in BOOLEAN : StepSaveFails(ok)) \/ ReleaseSaveFails
  BY <1>2, <1>6 DEF StepRatioThrows, StepSaveFails, ReleaseSaveFails, episodeVars
<1>7. QED
  BY <1>1, <1>2, <1>4, <1>5, <1>6, RecordsKept DEF Next, SolverStep, Step, Drain

\* Moving past an event makes its request departed when it is a leave, and
\* changes nothing for the others.
LEMMA DepartedAfterTransit ==
  ASSUME IInv, pc # "idle", Transit, NEW r \in Requests
  PROVE  Departed(r)' <=> Departed(r) \/ Event = Leave(r)
<1>1. /\ cursor \in DOMAIN schedule /\ phase = "active"
      /\ DOMAIN schedule = 1 .. Len(schedule) /\ Len(schedule) \in Nat
  BY BusyFacts DEF IInv, TypeOK, EpisodeTypes
<1>2. /\ schedule' = schedule
      /\ \A i \in DOMAIN schedule : (i < cursor' \/ (i = cursor' /\ phase' = "finished"))
                                   <=> (i < cursor \/ i = cursor)
  BY <1>1, TransitFacts
<1>3. Departed(r)' <=> \E i \in DOMAIN schedule : schedule[i] = Leave(r) /\ (i < cursor \/ i = cursor)
  BY <1>2 DEF Departed, Leave
<1>4. Departed(r) <=> \E i \in DOMAIN schedule : schedule[i] = Leave(r) /\ i < cursor
  BY <1>1 DEF Departed
<1>5. QED
  BY <1>1, <1>3, <1>4 DEF Event

LEMMA DepartedWereDecidedStep ==
  ASSUME IInv, [Next]_vars
  PROVE  DepartedWereDecided'
<1>0. DepartedWereDecided /\ arrivalRecord \in [Requests -> Nat] /\ memory \in Seq(RecordType)
  BY DEF IInv, TypeOK, EpisodeTypes, RecorderTypes
<1>1. CASE Reset
  <2>1. schedule' \in Seq(Events) /\ cursor' = 1 /\ phase' = "active"
    BY <1>1 DEF Reset
  <2>2. QED
    BY <2>1 DEF DepartedWereDecided, Departed
<1>2. CASE ResetThrows
  BY <1>2 DEF ResetThrows, DepartedWereDecided, Departed
<1>3. CASE UNCHANGED <<arrivalRecord, schedule, phase, cursor>>
  BY <1>0, <1>3 DEF DepartedWereDecided, Departed
<1>4. CASE StepRejects \/ StepAccepts
  <2>1. PICK ok \in BOOLEAN : SubmittedForArrival /\ RecordArrival(ok) /\ Transit
    BY <1>4 DEF StepRejects, StepAccepts
  <2>2. pc # "idle" /\ Event.type = "arrival"
    BY <2>1 DEF SubmittedForArrival, Submitted, AtArrival
  <2>3. \A r \in Requests : arrivalRecord[r] # 0 => arrivalRecord'[r] # 0
    BY <1>0, <2>1 DEF RecordArrival, RecordIndex
  <2>4. \A r \in Requests : Departed(r)' => Departed(r)
    BY <2>1, <2>2, DepartedAfterTransit DEF Leave
  <2>5. QED
    BY <1>0, <2>3, <2>4 DEF DepartedWereDecided
<1>5. CASE ReleaseCurrent
  <2>1. GiveBack /\ Transit /\ pc # "idle" /\ arrivalRecord' = arrivalRecord
    BY <1>5 DEF ReleaseCurrent, GiveBack
  <2>2. arrivalRecord[Event.req] # 0
    BY <1>0, <2>1 DEF GiveBack, HasArrivalRecord
  <2>3. \A r \in Requests : Departed(r)' => Departed(r) \/ r = Event.req
    BY <2>1, DepartedAfterTransit DEF Leave
  <2>4. QED
    BY <1>0, <2>1, <2>2, <2>3 DEF DepartedWereDecided
<1>6. CASE StepRatioThrows \/ (\E ok \in BOOLEAN : StepSaveFails(ok)) \/ ReleaseSaveFails
  BY <1>3, <1>6 DEF StepRatioThrows, StepSaveFails, ReleaseSaveFails, episodeVars
<1>7. QED
  BY <1>1, <1>2, <1>3, <1>4, <1>5, <1>6, RecordsKept DEF Next, SolverStep, Step, Drain

-----------------------------------------------------------------------------
(* The inductive invariant and what follows from it.                        *)

LEMMA InitIInv == Init => IInv
<1> SUFFICES ASSUME Init PROVE IInv
  OBVIOUS
<1>1. MutationTypes /\ RecorderTypes
  BY AmountFacts DEF Init, MutationInit, RecorderInit, MutationTypes, RecorderTypes, NoCounts, NoMembers
<1>2. EpisodeTypes
  BY DEF Init, EpisodeTypes
<1>8. SolutionTypes
  <2>1. held \in Amounts /\ mode \in {"committed", "detached"}
    BY AmountFacts DEF Init
  <2>2. result \in BOOLEAN
    BY Zenon DEF Init
  <2>3. QED
    BY <2>1, <2>2 DEF SolutionTypes
<1>3. recorderFailed \in BOOLEAN
  BY Zenon DEF Init
<1>4. TypeOK
  BY <1>1, <1>2, <1>3, <1>8 DEF Init, TypeOK
<1>5. TransactionScope /\ JournalBalances /\ DetachedUntouched
  BY DEF Init, MutationInit, TransactionScope, JournalBalances, DetachedUntouched
<1>6. /\ ReleaseFindsItsArrival /\ DecidedArrivals /\ ControlInv /\ HistoryReaches
      /\ DepartedWereDecided
  BY DEF Init, RecorderInit, ReleaseFindsItsArrival, DecidedArrivals, ControlInv,
     HistoryReaches, Processed, DepartedWereDecided, Departed
<1>7. QED
  BY <1>4, <1>5, <1>6 DEF IInv

LEMMA StepIInv == IInv /\ [Next]_vars => IInv'
BY TypeOKStep, TransactionScopeStep, ControlInvStep, JournalBalancesStep, DetachedUntouchedStep,
   ReleaseFindsItsArrivalStep, HistoryReachesStep, DecidedArrivalsStep, DepartedWereDecidedStep
   DEF IInv

\* IInv holds in every state: for all requests, slots, capacities, schedules
\* of distinct events, and recorder failures.
THEOREM InductiveInvariant == Spec => []IInv
<1>1. Init => IInv
  BY InitIInv
<1>2. IInv /\ [Next]_vars => IInv'
  BY StepIInv
<1>3. QED
  BY <1>1, <1>2, PTL DEF Spec

\* Types are kept; in particular no resource of the physical network is ever
\* negative, whatever is deployed, rolled back or released.
THEOREM TypeCorrectness == Spec => []TypeOK
<1>1. IInv => TypeOK
  BY DEF IInv
<1>2. QED
  BY <1>1, InductiveInvariant, PTL

\* A checkpoint of step_solution or solver_transaction is open only while its
\* own arrival is being decided, on every path including the throwing ones.
THEOREM TransactionsStayInScope == Spec => []TransactionScope
<1>1. IInv => TransactionScope
  BY DEF IInv
<1>2. QED
  BY <1>1, InductiveInvariant, PTL

\* A leave finds the record of its own request's arrival although failed and
\* retried arrivals have made the history longer than the event schedule.
THEOREM LeavesFindTheirArrival == Spec => []ReleaseFindsItsArrival
<1>1. IInv => ReleaseFindsItsArrival
  BY DEF IInv
<1>2. QED
  BY <1>1, InductiveInvariant, PTL

-----------------------------------------------------------------------------
(* A failed step.                                                           *)

\* Rolling the current request back leaves the network as the transaction
\* found it.
LEMMA RollbackFrees ==
  ASSUME IInv, NEW o, RollbackTransaction(Event.req, o)
  PROVE  avail' = Free
<1>1. CASE active = {}
  BY <1>1 DEF RollbackTransaction, Restored, Free
<1>2. CASE active # {}
  BY <1>2 DEF RollbackTransaction, Restored, Free, IInv, TransactionScope
<1>3. QED
  BY <1>1, <1>2

LEMMA FailedStepRestoresStep ==
  ASSUME IInv, [Next]_vars, pc = "returned", pc' = "idle",
         phase' = phase, cursor' = cursor, episodes' = episodes
  PROVE  avail' = Free /\ active' = {} /\ arrivalRecord' = arrivalRecord
<1>1. CASE StepThrows \/ StepRatioThrows \/ \E ok \in BOOLEAN : StepSaveFails(ok)
  <2>1. \E o : RollbackTransaction(Event.req, o)
    BY <1>1 DEF StepThrows, StepRatioThrows, StepSaveFails
  <2>2. arrivalRecord' = arrivalRecord
    BY <1>1 DEF StepThrows, StepRatioThrows, StepSaveFails
  <2>3. QED
    BY <1>1, <2>1, <2>2, RollbackFrees, EndingsClose
<1>2. CASE StepRefused
  <2>1. active = {} /\ UNCHANGED <<avail, active, arrivalRecord>>
    BY <1>2 DEF StepRefused, Refused, IInv, TransactionScope, mutationVars
  <2>2. QED
    BY <2>1 DEF Free
<1>3. CASE StepRejects \/ StepAccepts
  <2>1. Transit /\ phase = "active" /\ cursor \in Nat
    BY <1>3, BusyFacts DEF StepRejects, StepAccepts, IInv, TypeOK, EpisodeTypes
  <2>2. FALSE
    BY <2>1, TransitFacts
  <2>3. QED
    BY <2>2
<1>4. CASE Reset \/ ResetThrows
  BY <1>4 DEF Reset, ResetThrows, BeginReset, IInv, TypeOK
<1>5. CASE SolverTransaction \/ CallerPrepares \/ SolverStep
  BY <1>5 DEF SolverTransaction, CallerPrepares, SolverStep, SolverThrows, SolverCommits,
     SolverGivesUp, SolverRejects, SolverDetaches, SolverTakes, SolverGivesBack, SolverTears
<1>6. CASE Drain \/ UNCHANGED vars
  BY <1>6 DEF Drain, DrainLeaves, ReleaseCurrent, ReleaseSaveFails, ReleaseThrows, GiveBack, vars
<1>7. QED
  BY <1>1, <1>2, <1>3, <1>4, <1>5, <1>6 DEF Next, Step

\* Every call of step() that throws before its arrival is decided restores the
\* network and leaves the arrival undecided, whatever was opened, deployed or
\* recorded before.
THEOREM FailedStepsRestore == Spec => FailedStepRestores
<1>1. IInv /\ [Next]_vars =>
        [pc = "returned" /\ pc' = "idle" /\ phase' = phase /\ cursor' = cursor
           /\ episodes' = episodes
         => avail' = Free /\ active' = {} /\ arrivalRecord' = arrivalRecord]_vars
  BY FailedStepRestoresStep
<1>2. QED
  BY <1>1, InductiveInvariant, PTL DEF Spec, FailedStepRestores

-----------------------------------------------------------------------------
(* The refinement of AdmissionControl.                                      *)

\* The record of a decided arrival is never overwritten, so an unaffected
\* request is seen as before.
LEMMA UnaffectedRequest ==
  ASSUME IInv, NEW q \in Requests, arrivalRecord'[q] = arrivalRecord[q],
         \A i \in DOMAIN memory : memory'[i] = memory[i],
         Departed(q)' <=> Departed(q)
  PROVE  /\ q \in InService' <=> q \in InService
         /\ Share'[q] = Share[q]
<1>1. arrivalRecord[q] # 0 => arrivalRecord[q] \in DOMAIN memory
  BY DEF IInv, ReleaseFindsItsArrival
<1>2. Accepted(q)' <=> Accepted(q)
  BY <1>1 DEF Accepted
<1>3. q \in InService' <=> q \in InService
  BY <1>2 DEF InService
<1>4. q \in InService => memory'[arrivalRecord'[q]] = memory[arrivalRecord[q]]
  BY <1>1 DEF InService, Accepted
<1>5. QED
  BY <1>3, <1>4 DEF Share

\* The requests in service are requests, and shares are a table over them.
LEMMA ViewShape ==
  /\ InService \subseteq Requests /\ InService' \subseteq Requests
  /\ Share = [r \in Requests |-> Share[r]] /\ Share' = [r \in Requests |-> Share'[r]]
<1>1. InService \subseteq Requests /\ InService' \subseteq Requests
  BY DEF InService
<1>2. Share = [r \in Requests |-> Share[r]]
  BY DEF Share
<1>3. Share' = [r \in Requests |-> Share'[r]]
  BY DEF Share
<1>4. QED
  BY <1>1, <1>2, <1>3

\* The initial state shows nobody in service and everything free.
LEMMA InitRefines == Init => Abstract!Init
<1> SUFFICES ASSUME Init PROVE Abstract!Init
  OBVIOUS
<1>1. Free = Capacity
  BY DEF Init, MutationInit, Free
<1>2. InService = {}
  BY DEF Init, InService, Accepted
<1>3. Share = [r \in Requests |-> Abstract!Nothing]
  BY <1>2 DEF Share, Zero, Abstract!Nothing
<1>4. QED
  BY <1>1, <1>2, <1>3 DEF Abstract!Init

\* A reset is the start of a new episode.
LEMMA ResetRefines ==
  ASSUME Reset \/ ResetThrows
  PROVE  Abstract!Restart
<1>1. BeginReset
  BY DEF Reset, ResetThrows
<1>2. Free' = Capacity
  BY <1>1 DEF BeginReset, DropMutations, Free
<1>3. InService' = {}
  BY <1>1 DEF BeginReset, InService, Accepted
<1>4. Share' = [r \in Requests |-> Abstract!Nothing]
  BY <1>3 DEF Share, Zero, Abstract!Nothing
<1>5. QED
  BY <1>2, <1>3, <1>4 DEF Abstract!Restart

\* A step that decides and releases nothing and keeps what is free is not
\* seen at all.
LEMMA HiddenStep ==
  ASSUME IInv, Free' = Free, UNCHANGED <<arrivalRecord, schedule, phase, cursor>>,
         \A i \in DOMAIN memory : memory'[i] = memory[i]
  PROVE  UNCHANGED Abstract!vars
<1>1. \A q \in Requests : Departed(q)' <=> Departed(q)
  BY DEF Departed
<1>2. \A q \in Requests : (q \in InService' <=> q \in InService) /\ Share'[q] = Share[q]
  BY <1>1, UnaffectedRequest
<1>3. InService' = InService
  BY <1>2, ViewShape
<1>4. Share' = Share
  BY <1>2, ViewShape
<1>5. QED
  BY <1>3, <1>4 DEF Abstract!vars

\* A solver and its transaction are not seen: what it takes is not free
\* to anybody else, but its checkpoint still says it is.
LEMMA SolverHidden ==
  ASSUME IInv, SolverTransaction \/ CallerPrepares \/ SolverStep
  PROVE  UNCHANGED Abstract!vars
<1>1. /\ UNCHANGED <<arrivalRecord, schedule, phase, cursor>>
      /\ \A i \in DOMAIN memory : memory'[i] = memory[i]
  BY RecordsKept
<1>2. CASE SolverTransaction
  <2>1. Free' = avail
    BY <1>2, TransactionOpens DEF Free, Event
  <2>2. active = {}
    BY <1>2, OutsideTransaction DEF SolverTransaction
  <2>3. QED
    BY <1>1, <2>1, <2>2, HiddenStep DEF Free
<1>3. CASE CallerPrepares
  <2>1. active = {} /\ active' = {} /\ avail' = avail
    BY <1>3, OutsideTransaction, OutsideStays DEF CallerPrepares
  <2>2. QED
    BY <1>1, <2>1, HiddenStep DEF Free
<1>4. CASE \/ SolverCommits \/ SolverRejects \/ SolverDetaches
           \/ \E s \in Slots : SolverTakes(s) \/ SolverGivesBack(s) \/ SolverTears(s)
  <2>1. Free' = Free
    BY <1>4, SolverStays DEF Free, Event
  <2>2. QED
    BY <1>1, <2>1, HiddenStep
<1>5. CASE SolverThrows \/ SolverGivesUp
  <2>1. avail' = Free /\ active' = {}
    BY <1>5, RollbackFrees, EndingsClose DEF SolverThrows, SolverGivesUp
  <2>2. QED
    BY <1>1, <2>1, HiddenStep DEF Free
<1>6. QED
  BY <1>2, <1>3, <1>4, <1>5 DEF SolverStep

\* A step() that throws, and a drain_leaves() that only starts or finds no
\* record, are not seen.
LEMMA FailureHidden ==
  ASSUME IInv, \/ StepRefused \/ StepThrows \/ StepRatioThrows
               \/ (\E ok \in BOOLEAN : StepSaveFails(ok)) \/ DrainLeaves \/ ReleaseThrows
  PROVE  UNCHANGED Abstract!vars
<1>1. CASE StepThrows \/ StepRatioThrows \/ \E ok \in BOOLEAN : StepSaveFails(ok)
  <2>1. avail' = Free /\ active' = {}
    <3>1. \E o : RollbackTransaction(Event.req, o)
      BY <1>1 DEF StepThrows, StepRatioThrows, StepSaveFails
    <3>2. QED
      BY <1>1, <3>1, RollbackFrees, EndingsClose
  <2>2. UNCHANGED <<arrivalRecord, schedule, phase, cursor>>
    BY <1>1 DEF StepThrows, StepRatioThrows, StepSaveFails, episodeVars
  <2>3. \A i \in DOMAIN memory : memory'[i] = memory[i]
    <3>1. CASE StepThrows \/ StepRatioThrows
      BY <3>1 DEF StepThrows, StepRatioThrows, CountArrivalThrows, recorderVars
    <3>2. CASE \E ok \in BOOLEAN : StepSaveFails(ok)
      BY <3>2, ArrivalRecorded DEF StepSaveFails
    <3>3. QED
      BY <1>1, <3>1, <3>2
  <2>4. QED
    BY <2>1, <2>2, <2>3, HiddenStep DEF Free
<1>2. CASE StepRefused \/ DrainLeaves \/ ReleaseThrows
  <2>1. active = {} /\ UNCHANGED <<avail, active>>
    <3>1. CASE StepRefused
      BY <3>1 DEF StepRefused, Refused, IInv, TransactionScope, mutationVars
    <3>2. CASE DrainLeaves \/ ReleaseThrows
      BY <3>2, OutsideTransaction DEF DrainLeaves, ReleaseThrows, mutationVars
    <3>3. QED
      BY <1>2, <3>1, <3>2
  <2>2. /\ UNCHANGED <<arrivalRecord, schedule, phase, cursor>>
        /\ \A i \in DOMAIN memory : memory'[i] = memory[i]
    BY <1>2, RecordsKept
  <2>3. QED
    BY <2>1, <2>2, HiddenStep DEF Free
<1>3. QED
  BY <1>1, <1>2

\* What deciding an arrival does to the view: only its own request may change.
LEMMA DecidedView ==
  ASSUME IInv, NEW ok \in BOOLEAN, SubmittedForArrival, RecordArrival(ok), Transit
  PROVE  /\ Event.req \in Requests /\ Event.req \notin InService
         /\ Event.req \in InService' <=> ok
         /\ Share'[Event.req] = IF ok THEN held ELSE Zero
         /\ \A q \in Requests \ {Event.req} :
              (q \in InService' <=> q \in InService) /\ Share'[q] = Share[q]
<1>1. /\ pc # "idle" /\ Event.req \in Requests /\ arrivalRecord[Event.req] = 0
      /\ Event.type = "arrival"
  BY UndecidedArrival DEF SubmittedForArrival, Submitted, AtArrival
<1>2. Event.req \notin InService
  BY <1>1 DEF InService, Accepted
<1>3. /\ DOMAIN memory = 1 .. Len(memory) /\ Len(memory) \in Nat
      /\ \A i \in DOMAIN memory : memory'[i] = memory[i]
      /\ memory'[Len(memory) + 1] = Record("arrival", Event.req, ok, held)
  BY ArrivalRecorded DEF RecordArrival
<1>4. arrivalRecord' = [arrivalRecord EXCEPT ![Event.req] = Len(memory) + 1]
      /\ arrivalRecord \in [Requests -> Nat]
  BY DEF RecordArrival, RecordIndex, IInv, TypeOK, EpisodeTypes
<1>5. \A q \in Requests : Departed(q)' <=> Departed(q)
  BY <1>1, DepartedAfterTransit DEF Leave
<1>6. \A r \in Requests : r = Event.req => ~Departed(r)'
  BY <1>1, <1>5 DEF IInv, DepartedWereDecided
<1>7. arrivalRecord'[Event.req] = Len(memory) + 1
  BY <1>1, <1>4
<1>8. memory'[arrivalRecord'[Event.req]].result = ok /\ memory'[arrivalRecord'[Event.req]].held = held
  BY <1>3, <1>7 DEF Record
<1>9. \A r \in Requests : r = Event.req => (Accepted(r)' <=> ok)
  BY <1>3, <1>7, <1>8 DEF Accepted
<1>10. \A r \in Requests : r = Event.req => (r \in InService' <=> ok)
  BY <1>5, <1>6, <1>9 DEF InService
<1>11. Share'[Event.req] = IF ok THEN held ELSE Zero
  BY <1>1, <1>8, <1>10 DEF Share
<1>12. \A q \in Requests \ {Event.req} :
         (q \in InService' <=> q \in InService) /\ Share'[q] = Share[q]
  BY <1>1, <1>3, <1>4, <1>5, UnaffectedRequest
<1>13. QED
  BY <1>1, <1>2, <1>10, <1>11, <1>12

\* A rejected arrival is not seen: the network is what the checkpoint says.
LEMMA RejectHidden ==
  ASSUME IInv, StepRejects
  PROVE  UNCHANGED Abstract!vars
<1>1. SubmittedForArrival /\ RecordArrival(FALSE) /\ Transit
  BY DEF StepRejects
<1>2. avail' = Free /\ active' = {}
  BY RollbackFrees, EndingsClose DEF StepRejects
<1>3. Share[Event.req] = Zero
  BY <1>1, DecidedView DEF Share
<1>4. \A q \in Requests : (q \in InService' <=> q \in InService) /\ Share'[q] = Share[q]
  BY <1>1, <1>3, DecidedView
<1>5. InService' = InService /\ Share' = Share
  BY <1>4, ViewShape
<1>6. QED
  BY <1>2, <1>5 DEF Free, Abstract!vars

\* What an accepted Solution holds was free, and is gone afterwards, however
\* it was submitted.
LEMMA AcceptedWasFree ==
  ASSUME IInv, StepAccepts
  PROVE  \A s \in Slots : held[s] <= Free[s] /\ Free'[s] = Free[s] - held[s]
<1>1. /\ Event.req \in Requests /\ pc = "returned" /\ active' = {} /\ Carried /\ result
      /\ mode = "committed" => Event.req \in active
  BY BusyFacts, EndingsClose DEF StepAccepts, SubmittedForArrival, Submitted, Refused
<1>2. /\ avail \in [Slots -> Nat] /\ held \in [Slots -> Nat] /\ checkpoint[Event.req] \in [Slots -> Nat]
  BY <1>1 DEF IInv, TypeOK, MutationTypes, SolutionTypes, Amounts
<1>3. Free' = avail'
  BY <1>1 DEF Free
<1>4. CASE mode = "committed"
  <2>1. avail' = avail
    BY <1>1, <1>4 DEF Carried, NeedsDeploy
  <2>2. Free = checkpoint[Event.req] /\ \A s \in Slots : avail[s] + held[s] = checkpoint[Event.req][s]
    BY <1>1, <1>4 DEF Free, IInv, JournalBalances
  <2>3. QED
    BY <1>2, <1>3, <2>1, <2>2
<1>5. CASE mode = "detached"
  <2>1. Covers(avail, held) /\ avail' = Minus(avail, held)
    BY <1>1, <1>5 DEF Carried, NeedsDeploy, Deploy
  <2>2. Free = avail
    BY <1>1, <1>5 DEF Free, IInv, DetachedUntouched
  <2>3. QED
    BY <1>2, <1>3, <2>1, <2>2 DEF Covers, Minus
<1>6. QED
  BY <1>4, <1>5 DEF IInv, TypeOK, SolutionTypes

\* An accepted arrival is the admission of its request.
LEMMA AcceptRefines ==
  ASSUME IInv, StepAccepts
  PROVE  \E r \in Requests : Abstract!Admit(r)
<1>1. SubmittedForArrival /\ RecordArrival(TRUE) /\ Transit
  BY DEF StepAccepts
<1>2. /\ Event.req \in Requests /\ Event.req \notin InService /\ Event.req \in InService'
      /\ Share'[Event.req] = held
      /\ \A q \in Requests \ {Event.req} :
           (q \in InService' <=> q \in InService) /\ Share'[q] = Share[q]
  BY <1>1, DecidedView
<1>3. held \in [Slots -> Nat]
  BY DEF IInv, TypeOK, SolutionTypes, Amounts
<1>4. InService' = InService \cup {Event.req}
  BY <1>2, ViewShape
<1>5. Share' = [Share EXCEPT ![Event.req] = Share'[Event.req]]
  BY <1>2, ViewShape
<1>6. Free' = [s \in Slots |-> Free[s] - Share'[Event.req][s]]
  <2>1. Free' = avail' /\ avail' \in [Slots -> Nat]
    BY EndingsClose, MutationTypesStep DEF Free, MutationTypes, Amounts, Next, Step
  <2>2. Free' \in [Slots -> Nat]
    BY <2>1
  <2>3. \A s \in Slots : Free'[s] = Free[s] - Share'[Event.req][s]
    BY <1>2, AcceptedWasFree
  <2>4. QED
    BY <2>2, <2>3
<1>7. \A s \in Slots : Share'[Event.req][s] <= Free[s]
  BY <1>2, AcceptedWasFree
<1>8. Abstract!Admit(Event.req)
  BY <1>2, <1>3, <1>4, <1>5, <1>6, <1>7 DEF Abstract!Admit
<1>9. QED
  BY <1>2, <1>8

\* What a release does to the view: only its own request leaves, if it was in
\* service, which is what its arrival's record says.
LEMMA ReleasedView ==
  ASSUME IInv, ReleaseCurrent
  PROVE  LET rec == memory[arrivalRecord[Event.req]]
         IN /\ Event.req \in Requests /\ arrivalRecord[Event.req] # 0
            /\ Event.req \in InService <=> rec.result
            /\ Share[Event.req] = IF rec.result THEN rec.held ELSE Zero
            /\ Event.req \notin InService' /\ Share'[Event.req] = Zero
            /\ \A q \in Requests \ {Event.req} :
                 (q \in InService' <=> q \in InService) /\ Share'[q] = Share[q]
            /\ active = {} /\ active' = {} /\ avail' = Plus(avail, ReleasedShare(rec))
<1> DEFINE rec == memory[arrivalRecord[Event.req]]
<1>1. /\ GiveBack /\ Transit /\ pc = "draining" /\ arrivalRecord' = arrivalRecord
      /\ avail' = Plus(avail, ReleasedShare(rec)) /\ active = {} /\ active' = {}
  BY OutsideTransaction, OutsideStays DEF ReleaseCurrent, GiveBack, Release
<1>2. /\ Event.req \in Requests /\ cursor \in DOMAIN schedule /\ phase = "active"
      /\ Event = Leave(Event.req)
  BY <1>1, BusyFacts, EventFacts DEF IInv, ControlInv, AtLeave
<1>4. \A i \in DOMAIN memory : memory'[i] = memory[i]
  BY <1>1, LeaveRecorded
<1>5. arrivalRecord[Event.req] # 0 /\ arrivalRecord[Event.req] \in DOMAIN memory
  <2>1. DOMAIN memory = 1 .. Len(memory)
    BY DEF IInv, TypeOK, RecorderTypes
  <2>2. QED
    BY <1>1, <2>1 DEF GiveBack, HasArrivalRecord, IInv, TypeOK, RecorderTypes
<1>6. ~Departed(Event.req)
  <2>1. \A i \in DOMAIN schedule : schedule[i] = Leave(Event.req) => i = cursor
    BY <1>2 DEF IInv, TypeOK, EpisodeTypes, Event
  <2>2. cursor \in Nat /\ phase # "finished"
    BY <1>2 DEF IInv, TypeOK, EpisodeTypes
  <2>3. QED
    BY <2>1, <2>2 DEF Departed
<1>7. \A r \in Requests : r = Event.req => Departed(r)'
  BY <1>1, <1>2, DepartedAfterTransit
<1>8. \A q \in Requests \ {Event.req} : Departed(q)' <=> Departed(q)
  BY <1>1, <1>2, DepartedAfterTransit DEF Leave
<1>9. \A q \in Requests \ {Event.req} :
        (q \in InService' <=> q \in InService) /\ Share'[q] = Share[q]
  BY <1>1, <1>4, <1>8, UnaffectedRequest
<1>10. Event.req \notin InService' /\ Share'[Event.req] = Zero
  <2>1. \A r \in Requests : r = Event.req => r \notin InService'
    BY <1>7 DEF InService
  <2>2. QED
    BY <1>2, <2>1 DEF Share
<1>11. Event.req \in InService <=> rec.result
  BY <1>2, <1>5, <1>6 DEF InService, Accepted
<1>12. Share[Event.req] = IF rec.result THEN rec.held ELSE Zero
  BY <1>2, <1>11 DEF Share
<1>13. QED
  BY <1>1, <1>2, <1>5, <1>9, <1>10, <1>11, <1>12

\* The release of an accepted request is its departure; that of a rejected one
\* is not seen.
LEMMA ReleaseRefines ==
  ASSUME IInv, ReleaseCurrent
  PROVE  (\E r \in Requests : Abstract!Leave(r)) \/ UNCHANGED Abstract!vars
<1> DEFINE rec == memory[arrivalRecord[Event.req]]
<1>1. /\ Event.req \in Requests
      /\ Event.req \in InService <=> rec.result
      /\ Share[Event.req] = IF rec.result THEN rec.held ELSE Zero
      /\ Event.req \notin InService' /\ Share'[Event.req] = Zero
      /\ \A q \in Requests \ {Event.req} :
           (q \in InService' <=> q \in InService) /\ Share'[q] = Share[q]
      /\ active = {} /\ active' = {} /\ avail' = Plus(avail, ReleasedShare(rec))
  BY ReleasedView
<1>2. Free = avail /\ Free' = avail' /\ avail \in [Slots -> Nat]
  BY <1>1 DEF Free, IInv, TypeOK, MutationTypes, Amounts
<1>3. CASE rec.result
  <2>1. InService' = InService \ {Event.req}
    BY <1>1, ViewShape
  <2>2. Share' = [Share EXCEPT ![Event.req] = Abstract!Nothing]
    BY <1>1, ViewShape DEF Zero, Abstract!Nothing
  <2>3. Free' = [s \in Slots |-> Free[s] + Share[Event.req][s]]
    BY <1>1, <1>2, <1>3 DEF Plus, ReleasedShare
  <2>4. Abstract!Leave(Event.req)
    BY <1>1, <1>3, <2>1, <2>2, <2>3 DEF Abstract!Leave
  <2>5. QED
    BY <1>1, <2>4
<1>4. CASE ~rec.result
  <2>1. \A q \in Requests : (q \in InService' <=> q \in InService) /\ Share'[q] = Share[q]
    BY <1>1, <1>4
  <2>2. InService' = InService /\ Share' = Share
    BY <2>1, ViewShape
  <2>3. avail' = avail
    BY <1>1, <1>2, <1>4 DEF ReleasedShare, Plus, Zero
  <2>4. QED
    BY <1>2, <2>2, <2>3 DEF Abstract!vars
<1>5. QED
  BY <1>3, <1>4

LEMMA StepRefines ==
  ASSUME IInv, [RecordedNext]_vars
  PROVE  [Abstract!Next]_(Abstract!vars)
<1>0. [Next]_vars
  BY DEF RecordedNext, Next, Drain
<1>1. CASE Reset \/ ResetThrows
  BY <1>1, ResetRefines DEF Abstract!Next
<1>2. CASE SolverTransaction \/ CallerPrepares \/ SolverStep
  BY <1>2, SolverHidden
<1>3. CASE \/ StepRefused \/ StepThrows \/ StepRatioThrows
           \/ (\E ok \in BOOLEAN : StepSaveFails(ok)) \/ DrainLeaves \/ ReleaseThrows
  BY <1>3, FailureHidden
<1>4. CASE StepRejects
  BY <1>4, RejectHidden
<1>5. CASE StepAccepts
  BY <1>5, AcceptRefines DEF Abstract!Next
<1>6. CASE ReleaseCurrent
  BY <1>6, ReleaseRefines DEF Abstract!Next
<1>8. CASE UNCHANGED vars
  <2>1. UNCHANGED <<arrivalRecord, schedule, phase, cursor, memory>> /\ Free' = Free
    BY <1>8 DEF vars, mutationVars, recorderVars, episodeVars, Free, Event
  <2>2. QED
    BY <2>1, HiddenStep
<1>9. QED
  BY <1>1, <1>2, <1>3, <1>4, <1>5, <1>6, <1>8 DEF RecordedNext, Step

\* As long as the temporary record of a leave can be saved, the environment
\* implements AdmissionControl: resources are shared out at accepted arrivals
\* only, never more than is free, and come back exactly once.
THEOREM EnvironmentImplementsAdmission == RecordedSpec => ImplementsAdmission
<1>1. Init => Abstract!Init
  BY InitRefines
<1>2. IInv /\ [RecordedNext]_vars => [Abstract!Next]_(Abstract!vars)
  BY StepRefines
<1>3. [RecordedNext]_vars => [Next]_vars
  BY DEF RecordedNext, Next, Drain
<1>4. RecordedSpec => Spec
  BY <1>3, PTL DEF RecordedSpec, Spec
<1>5. QED
  BY <1>1, <1>2, <1>4, InductiveInvariant, PTL DEF RecordedSpec, ImplementsAdmission, Abstract!Spec

-----------------------------------------------------------------------------
(* The ledger: what is free and what the requests in service hold.          *)

ViewTyped ==
  Free \in [Slots -> Nat] /\ Share \in [Requests -> [Slots -> Nat]] /\ InService \subseteq Requests

LEMMA ViewTypes == IInv => ViewTyped
<1> SUFFICES ASSUME IInv PROVE ViewTyped
  OBVIOUS
<1>1. Free \in Amounts
  BY DEF IInv, TypeOK, MutationTypes, TransactionScope, Free
<1>2. ASSUME NEW r \in Requests PROVE Share[r] \in Amounts
  <2>1. CASE r \in InService
    <3>1. memory[arrivalRecord[r]] \in RecordType
      BY <2>1 DEF InService, Accepted, IInv, ReleaseFindsItsArrival, TypeOK, RecorderTypes
    <3>2. QED
      BY <2>1, <3>1 DEF Share, RecordType
  <2>2. CASE r \notin InService
    BY <2>2, AmountFacts DEF Share
  <2>3. QED
    BY <2>1, <2>2
<1>3. QED
  BY <1>1, <1>2, ViewShape DEF Amounts, ViewTyped

\* What is held of one slot, now and after a step.
LEMMA HeldAtFacts ==
  ASSUME IInv, IInv', NEW s \in Slots
  PROVE  /\ \A r \in Requests : HeldAt(s)[r] = Share[r][s] /\ HeldAt(s)[r] \in Nat
         /\ \A r \in Requests : HeldAt(s)'[r] = Share'[r][s] /\ HeldAt(s)'[r] \in Nat
         /\ Free[s] \in Nat /\ Free'[s] \in Nat
<1>1. IInv' => ViewTyped'
  BY ViewTypes, PTL
<1>2. ViewTyped /\ ViewTyped'
  BY <1>1, ViewTypes
<1>3. QED
  BY <1>2 DEF HeldAt, ViewTyped

\* An admission moves its share from what is free to what is held.
LEMMA AdmitKeepsLedger ==
  ASSUME IInv, IInv', IsFiniteSet(InService), NEW r \in Requests, Abstract!Admit(r), NEW s \in Slots
  PROVE  Ledger(s)' = Ledger(s)
<1>1. /\ r \notin InService /\ InService' = InService \cup {r}
      /\ Share' = [Share EXCEPT ![r] = Share'[r]] /\ Free'[s] = Free[s] - Share'[r][s]
  BY DEF Abstract!Admit
<1>2. InService \subseteq Requests
  BY ViewTypes DEF ViewTyped
<1>3. \A q \in InService : HeldAt(s)'[q] = HeldAt(s)[q]
  BY <1>1, <1>2, HeldAtFacts, ViewTypes DEF ViewTyped
<1>4. TotalOf(InService, HeldAt(s)') = TotalOf(InService, HeldAt(s))
  BY <1>3, TotalOfEqual
<1>5. TotalOf(InService \cup {r}, HeldAt(s)') = TotalOf(InService, HeldAt(s)') + HeldAt(s)'[r]
  <2>1. \A q \in InService \cup {r} : HeldAt(s)'[q] \in Nat
    BY <1>2, HeldAtFacts
  <2>2. QED
    BY <1>1, <2>1, TotalOfAdded
<1>6. TotalOf(InService, HeldAt(s)) \in Nat
  BY <1>2, HeldAtFacts, TotalIsNat
<1>7. Ledger(s)' = Free[s] - Share'[r][s] + (TotalOf(InService, HeldAt(s)) + Share'[r][s])
  BY <1>1, <1>4, <1>5, HeldAtFacts DEF Ledger
<1>8. QED
  BY <1>1, <1>6, <1>7, HeldAtFacts DEF Ledger

\* A departure moves it back.
LEMMA LeaveKeepsLedger ==
  ASSUME IInv, IInv', IsFiniteSet(InService), NEW r \in Requests, Abstract!Leave(r), NEW s \in Slots
  PROVE  Ledger(s)' = Ledger(s)
<1>1. /\ r \in InService /\ InService' = InService \ {r}
      /\ Share' = [Share EXCEPT ![r] = Abstract!Nothing] /\ Free'[s] = Free[s] + Share[r][s]
  BY DEF Abstract!Leave
<1>2. InService \subseteq Requests
  BY ViewTypes DEF ViewTyped
<1>3. \A q \in InService \ {r} : HeldAt(s)'[q] = HeldAt(s)[q]
  BY <1>1, <1>2, HeldAtFacts, ViewTypes DEF ViewTyped
<1>4. TotalOf(InService \ {r}, HeldAt(s)') = TotalOf(InService \ {r}, HeldAt(s))
  BY <1>3, TotalOfEqual
<1>5. TotalOf(InService, HeldAt(s)) = TotalOf(InService \ {r}, HeldAt(s)) + HeldAt(s)[r]
  <2>1. \A q \in InService : HeldAt(s)[q] \in Nat
    BY <1>2, HeldAtFacts
  <2>2. QED
    BY <1>1, <2>1, TotalOfRemoved
<1>6. IsFiniteSet(InService \ {r}) /\ TotalOf(InService \ {r}, HeldAt(s)) \in Nat
  BY <1>2, HeldAtFacts, TotalIsNat, FS_RemoveElement
<1>7. Ledger(s)' = Free[s] + HeldAt(s)[r] + TotalOf(InService \ {r}, HeldAt(s))
  BY <1>1, <1>4, HeldAtFacts DEF Ledger
<1>8. HeldAt(s)[r] \in Nat /\ Free[s] \in Nat
  BY HeldAtFacts
<1>9. QED
  BY <1>1, <1>5, <1>6, <1>7, <1>8 DEF Ledger

\* A new episode starts with everything free.
LEMMA RestartFillsLedger ==
  ASSUME Abstract!Restart, NEW s \in Slots
  PROVE  Ledger(s)' = Capacity[s]
<1>1. InService' = {} /\ Free' = Capacity
  BY DEF Abstract!Restart
<1>2. Ledger(s)' = Capacity[s] + 0
  BY <1>1, TotalOfEmpty DEF Ledger
<1>3. Capacity[s] \in Nat
  BY DEF Amounts
<1>4. QED
  BY <1>2, <1>3

\* No step that AdmissionControl allows changes the ledger, save a restart.
LEMMA AbstractStepLedger ==
  ASSUME IInv, IInv', IsFiniteSet(InService), [Abstract!Next]_(Abstract!vars), NEW s \in Slots
  PROVE  Ledger(s)' = Ledger(s) \/ Ledger(s)' = Capacity[s]
<1>1. CASE Abstract!Restart
  BY <1>1, RestartFillsLedger
<1>2. CASE \E r \in Requests : Abstract!Admit(r)
  BY <1>2, AdmitKeepsLedger
<1>3. CASE \E r \in Requests : Abstract!Leave(r)
  BY <1>3, LeaveKeepsLedger
<1>4. CASE UNCHANGED Abstract!vars
  <2>1. InService' = InService /\ Free' = Free /\ Share' = Share
    BY <1>4 DEF Abstract!vars
  <2>2. HeldAt(s)' = HeldAt(s)
    BY <2>1 DEF HeldAt
  <2>3. QED
    BY <2>1, <2>2 DEF Ledger
<1>5. QED
  BY <1>1, <1>2, <1>3, <1>4 DEF Abstract!Next

\* A leave whose record cannot be saved gives back what is given back again
\* when it is tried again: the ledger only grows.
LEMMA RetriedLeaveLedger ==
  ASSUME IInv, IInv', IsFiniteSet(InService), ReleaseSaveFails, NEW s \in Slots
  PROVE  Ledger(s)' >= Ledger(s)
<1>1. /\ GiveBack /\ UNCHANGED <<arrivalRecord, schedule, phase, cursor>>
      /\ active = {} /\ active' = {}
  BY OutsideTransaction, OutsideStays DEF ReleaseSaveFails, GiveBack, episodeVars
<1>2. \A i \in DOMAIN memory : memory'[i] = memory[i]
  BY <1>1, LeaveRecorded
<1>3. \A q \in Requests : Departed(q)' <=> Departed(q)
  BY <1>1 DEF Departed
<1>4. \A q \in Requests : (q \in InService' <=> q \in InService) /\ Share'[q] = Share[q]
  BY <1>1, <1>2, <1>3, UnaffectedRequest
<1>5. InService' = InService /\ Share' = Share
  BY <1>4, ViewShape
<1>6. HeldAt(s)' = HeldAt(s)
  BY <1>5 DEF HeldAt
<1>7. Free'[s] >= Free[s]
  <2> DEFINE back == ReleasedShare(memory[arrivalRecord[Event.req]])
  <2>1. memory[arrivalRecord[Event.req]] \in RecordType
    BY <1>1 DEF GiveBack, HasArrivalRecord, IInv, TypeOK, RecorderTypes
  <2>2. back \in Amounts
    BY <2>1, AmountFacts DEF ReleasedShare, RecordType
  <2>3. Free = avail /\ Free' = Plus(avail, back)
    BY <1>1 DEF Free, GiveBack, Release
  <2> HIDE DEF back
  <2>4. QED
    BY <2>2, <2>3, HeldAtFacts DEF Plus, Amounts
<1>8. TotalOf(InService, HeldAt(s)) \in Nat
  BY HeldAtFacts, ViewTypes, TotalIsNat DEF ViewTyped
<1>9. QED
  BY <1>5, <1>6, <1>7, <1>8, HeldAtFacts DEF Ledger

\* Only a release whose record cannot be saved is not in RecordedNext.
LEMMA NextIsRecordedOrRetried == [Next]_vars => [RecordedNext]_vars \/ ReleaseSaveFails
BY DEF Next, RecordedNext, Drain

\* A request comes into service one at a time.
LEMMA ServiceStaysFinite ==
  ASSUME IInv, ServiceIsFinite, [Next]_vars
  PROVE  ServiceIsFinite'
<1>1. CASE [RecordedNext]_vars
  <2>1. [Abstract!Next]_(Abstract!vars)
    BY <1>1, StepRefines
  <2>2. InService' \subseteq InService \/ \E r \in Requests : InService' = InService \cup {r}
    BY <2>1 DEF Abstract!Next, Abstract!vars, Abstract!Restart, Abstract!Admit, Abstract!Leave
  <2>3. QED
    BY <2>2, FS_Subset, FS_AddElement DEF ServiceIsFinite
<1>2. CASE ReleaseSaveFails
  <2>1. UNCHANGED <<arrivalRecord, schedule, phase, cursor>> /\ GiveBack
    BY <1>2 DEF ReleaseSaveFails, episodeVars
  <2>2. \A q \in Requests : Departed(q)' <=> Departed(q)
    BY <2>1 DEF Departed
  <2>3. \A q \in Requests : q \in InService' <=> q \in InService
    BY <2>1, <2>2, LeaveRecorded, UnaffectedRequest
  <2>4. InService' = InService
    BY <2>3, ViewShape
  <2>5. QED
    BY <2>4 DEF ServiceIsFinite
<1>3. QED
  BY <1>1, <1>2, NextIsRecordedOrRetried

LEMMA InitLedger == Init => ServiceIsFinite /\ NothingLeaks /\ NothingIsLost
<1> SUFFICES ASSUME Init PROVE ServiceIsFinite /\ NothingLeaks /\ NothingIsLost
  OBVIOUS
<1>1. InService = {} /\ Free = Capacity
  BY DEF Init, MutationInit, InService, Accepted, Free
<1>2. \A s \in Slots : Capacity[s] \in Nat
  BY DEF Amounts
<1>3. \A s \in Slots : Ledger(s) = Capacity[s] + 0
  BY <1>1, TotalOfEmpty DEF Ledger
<1>4. QED
  BY <1>1, <1>2, <1>3, FS_EmptySet DEF ServiceIsFinite, NothingLeaks, NothingIsLost

\* As long as the record of every leave can be saved, what is free and what the
\* requests in service hold make up the initial network: for any number of
\* requests and slots, nothing leaks in any order of accepted, rejected, failed
\* and retried arrivals, and nothing is given back twice.
THEOREM NothingEverLeaks == RecordedSpec => []NothingLeaks
<1>1. Init => ServiceIsFinite /\ NothingLeaks
  BY InitLedger
<1>2. [RecordedNext]_vars => [Next]_vars
  BY DEF RecordedNext, Next, Drain
<1>3. ASSUME IInv, IInv', ServiceIsFinite, NothingLeaks, [RecordedNext]_vars
      PROVE  ServiceIsFinite' /\ NothingLeaks'
  <2>1. [Abstract!Next]_(Abstract!vars)
    BY <1>3, StepRefines
  <2>2. \A s \in Slots : Ledger(s)' = Capacity[s]
    BY <1>3, <2>1, AbstractStepLedger DEF ServiceIsFinite, NothingLeaks
  <2>3. QED
    BY <1>2, <1>3, <2>2, ServiceStaysFinite DEF NothingLeaks
<1>4. RecordedSpec => Spec
  BY <1>2, PTL DEF RecordedSpec, Spec
<1>5. QED
  BY <1>1, <1>3, <1>4, InductiveInvariant, PTL DEF RecordedSpec

\* Whatever fails in the recorder, at arrivals or at leaves, nothing that was
\* free or held is lost.
THEOREM NothingIsEverLost == Spec => []NothingIsLost
<1>1. Init => ServiceIsFinite /\ NothingIsLost
  BY InitLedger
<1>2. ASSUME IInv, IInv', ServiceIsFinite, NothingIsLost, [Next]_vars
      PROVE  ServiceIsFinite' /\ NothingIsLost'
  <2>1. ASSUME NEW s \in Slots PROVE Ledger(s)' >= Capacity[s]
    <3>1. TotalOf(InService, HeldAt(s)) \in Nat /\ TotalOf(InService', HeldAt(s)') \in Nat
      <4>1. IsFiniteSet(InService) /\ IsFiniteSet(InService')
        BY <1>2, ServiceStaysFinite DEF ServiceIsFinite
      <4>2. \A q \in InService : HeldAt(s)[q] \in Nat
        BY <1>2, HeldAtFacts, ViewShape
      <4>3. \A q \in InService' : HeldAt(s)'[q] \in Nat
        BY <1>2, HeldAtFacts, ViewShape
      <4>4. QED
        BY <4>1, <4>2, <4>3, TotalIsNat
    <3>2. Ledger(s) \in Nat /\ Ledger(s)' \in Nat /\ Capacity[s] \in Nat /\ Ledger(s) >= Capacity[s]
      BY <1>2, <3>1, HeldAtFacts DEF Ledger, NothingIsLost, Amounts
    <3>3. CASE [RecordedNext]_vars
      BY <1>2, <3>2, <3>3, StepRefines, AbstractStepLedger DEF ServiceIsFinite
    <3>4. CASE ReleaseSaveFails
      BY <1>2, <3>2, <3>4, RetriedLeaveLedger DEF ServiceIsFinite
    <3>5. QED
      BY <1>2, <3>3, <3>4, NextIsRecordedOrRetried
  <2>2. QED
    BY <1>2, <2>1, ServiceStaysFinite DEF NothingIsLost
<1>3. QED
  BY <1>1, <1>2, InductiveInvariant, PTL DEF Spec

-----------------------------------------------------------------------------
(* The counters and indexes of the recorder.                                *)

\* Steps that do not come to the recorder at all.
LEMMA RecorderKept ==
  ASSUME IInv,
         \/ SolverTransaction \/ CallerPrepares \/ SolverStep \/ StepRefused \/ StepThrows
         \/ DrainLeaves \/ ReleaseThrows \/ UNCHANGED vars
  PROVE  UNCHANGED <<memory, eventIndex, counts, arrivalRecord, phase, schedule, cursor, recorderFailed>>
<1>1. CASE SolverTransaction \/ CallerPrepares \/ SolverStep
  BY <1>1 DEF SolverTransaction, CallerPrepares, SolverStep, SolverThrows, SolverCommits,
     SolverGivesUp, SolverRejects, SolverDetaches, SolverTakes, SolverGivesBack, SolverTears,
     solverFrame, recorderVars, episodeVars, historyVars
<1>2. CASE StepRefused \/ StepThrows \/ DrainLeaves \/ ReleaseThrows \/ UNCHANGED vars
  BY <1>2 DEF StepRefused, StepThrows, DrainLeaves, ReleaseThrows, vars, recorderVars,
     episodeVars, historyVars
<1>3. QED
  BY <1>1, <1>2

LEMMA KeptAgrees ==
  ASSUME IInv, CountingInv,
         UNCHANGED <<memory, eventIndex, counts, arrivalRecord, phase, schedule, cursor, recorderFailed>>
  PROVE  IndexesAgree' /\ RecorderAgrees'
<1>1. InService' = InService
  BY DEF InService, Accepted, Departed
<1>2. QED
  BY <1>1 DEF CountingInv, IndexesAgree, RecorderAgrees, Processed

LEMMA ResetAgrees ==
  ASSUME Reset \/ ResetThrows
  PROVE  IndexesAgree' /\ RecorderAgrees'
<1>1. memory' = <<>> /\ arrivalRecord' = [r \in Requests |-> 0] /\ counts' = NoCounts
  BY DEF Reset, ResetThrows, BeginReset, ResetRecorder
<1>6. (phase' = "active" /\ cursor' = 1) \/ (phase' = "unready" /\ cursor' = 0)
  BY DEF Reset, ResetThrows
<1>2. InService' = {}
  BY ResetRefines DEF Abstract!Restart
<1>3. counts'.inservice = Cardinality(InService')
  BY <1>1, <1>2, FS_EmptySet DEF NoCounts
<1>4. Len(memory') = Processed'
  BY <1>1, <1>6 DEF Processed
<1>5. QED
  BY <1>1, <1>3, <1>4 DEF IndexesAgree, RecorderAgrees

\* A record that is saved moves the history on together with the schedule.
LEMMA TransitAgrees ==
  ASSUME IInv, pc # "idle", Transit, Len(memory) = Processed,
         \A i \in DOMAIN memory :
            memory[i].type = schedule[i].type /\ memory[i].req = schedule[i].req,
         NEW rec, rec.type = Event.type, rec.req = Event.req, rec \in RecordType, AddRecord(rec)
  PROVE  /\ Len(memory') = Processed' /\ Len(memory) + 1 = cursor
         /\ \A i \in DOMAIN memory' :
              memory'[i].type = schedule'[i].type /\ memory'[i].req = schedule'[i].req
<1>1. phase = "active" /\ cursor \in 1 .. Len(schedule) /\ memory \in Seq(RecordType)
  BY BusyFacts DEF IInv, TypeOK, EpisodeTypes, RecorderTypes
<1>2. Len(memory) + 1 = cursor /\ DOMAIN memory = 1 .. Len(memory) /\ Len(memory) \in Nat
  BY <1>1 DEF Processed
<1>3. /\ Len(memory') = Len(memory) + 1 /\ DOMAIN memory' = 1 .. (Len(memory) + 1)
      /\ \A i \in DOMAIN memory : memory'[i] = memory[i]
      /\ memory'[Len(memory) + 1] = rec
  BY <1>1, AddRecordTypes
<1>4. schedule' = schedule
  BY TransitFacts
<1>5. Processed' = cursor
  BY <1>1, TransitFacts DEF Processed
<1>6. QED
  BY <1>2, <1>3, <1>4, <1>5 DEF Event

\* A decided arrival is counted as in service when it is.
LEMMA ArrivalAgrees ==
  ASSUME IInv, CountingInv, NEW ok \in BOOLEAN, SubmittedForArrival, RecordArrival(ok), Transit,
         UNCHANGED recorderFailed
  PROVE  IndexesAgree' /\ RecorderAgrees'
<1> SUFFICES ASSUME ~recorderFailed'
             PROVE  /\ \A r \in Requests : arrivalRecord'[r] # 0 => eventIndex'[r] = arrivalRecord'[r]
                    /\ Len(memory') = Processed'
                    /\ \A i \in DOMAIN memory' :
                         memory'[i].type = schedule'[i].type /\ memory'[i].req = schedule'[i].req
                    /\ counts'.inservice = Cardinality(InService')
  BY DEF IndexesAgree, RecorderAgrees
<1>0. /\ \A r \in Requests : arrivalRecord[r] # 0 => eventIndex[r] = arrivalRecord[r]
      /\ Len(memory) = Processed /\ counts.inservice = Cardinality(InService)
      /\ \A i \in DOMAIN memory :
            memory[i].type = schedule[i].type /\ memory[i].req = schedule[i].req
      /\ IsFiniteSet(InService)
  BY DEF CountingInv, IndexesAgree, RecorderAgrees, ServiceIsFinite
<1> DEFINE rec == Record("arrival", Event.req, ok, held)
<1>1. /\ pc # "idle" /\ Event.type = "arrival" /\ Event.req \in Requests
      /\ held \in Amounts
  BY UndecidedArrival DEF SubmittedForArrival, Submitted, AtArrival, IInv, TypeOK, SolutionTypes
<1>2. rec.type = Event.type /\ rec.req = Event.req /\ rec \in RecordType /\ AddRecord(rec)
  BY <1>1 DEF Record, RecordType, RecordArrival
<1> HIDE DEF rec
<1>3. /\ Len(memory') = Processed' /\ Len(memory) + 1 = cursor
      /\ \A i \in DOMAIN memory' :
           memory'[i].type = schedule'[i].type /\ memory'[i].req = schedule'[i].req
  BY <1>0, <1>1, <1>2, TransitAgrees
<1>4. \A r \in Requests : arrivalRecord'[r] # 0 => eventIndex'[r] = arrivalRecord'[r]
  BY <1>0, <1>1, <1>3 DEF RecordArrival, RecordIndex, CountArrival, IInv, TypeOK, EpisodeTypes,
     RecorderTypes
<1>5. /\ Event.req \notin InService /\ (Event.req \in InService' <=> ok)
      /\ \A q \in Requests \ {Event.req} : q \in InService' <=> q \in InService
  BY DecidedView
<1>6. InService' = IF ok THEN InService \cup {Event.req} ELSE InService
  <2>1. CASE ok
    BY <1>1, <1>5, <2>1, ViewShape
  <2>2. CASE ~ok
    <3>1. \A q \in Requests : q \in InService' <=> q \in InService
      BY <1>5, <2>2
    <3>2. QED
      BY <2>2, <3>1, ViewShape
  <2>3. QED
    BY <2>1, <2>2
<1>7. counts'.inservice = counts.inservice + (IF ok THEN 1 ELSE 0)
  BY DEF RecordArrival, CountArrival, CountedArrival
<1>8. counts'.inservice = Cardinality(InService')
  BY <1>0, <1>5, <1>6, <1>7, FS_AddElement, FS_CardinalityType
<1>9. QED
  BY <1>3, <1>4, <1>8

\* A release looks the arrival up by event id and counts what the lookup by
\* position gave back.
LEMMA ReleaseAgrees ==
  ASSUME IInv, CountingInv, ReleaseCurrent
  PROVE  IndexesAgree' /\ RecorderAgrees'
<1>1. /\ GiveBack /\ Transit /\ pc # "idle"
      /\ UNCHANGED <<arrivalRecord, recorderFailed>>
  BY DEF ReleaseCurrent, GiveBack, historyVars
<1> SUFFICES ASSUME ~recorderFailed'
             PROVE  /\ \A r \in Requests : arrivalRecord'[r] # 0 => eventIndex'[r] = arrivalRecord'[r]
                    /\ Len(memory') = Processed'
                    /\ \A i \in DOMAIN memory' :
                         memory'[i].type = schedule'[i].type /\ memory'[i].req = schedule'[i].req
                    /\ counts'.inservice = Cardinality(InService')
  BY DEF IndexesAgree, RecorderAgrees
<1>0. /\ \A r \in Requests : arrivalRecord[r] # 0 => eventIndex[r] = arrivalRecord[r]
      /\ Len(memory) = Processed /\ counts.inservice = Cardinality(InService)
      /\ \A i \in DOMAIN memory :
            memory[i].type = schedule[i].type /\ memory[i].req = schedule[i].req
      /\ IsFiniteSet(InService)
  BY <1>1 DEF CountingInv, IndexesAgree, RecorderAgrees, ServiceIsFinite
<1> DEFINE rec == Record("leave", Event.req, FALSE, Zero)
<1>2. Event.type = "leave" /\ Event.req \in Requests
  BY <1>1, BusyFacts DEF GiveBack, IInv, ControlInv, AtLeave
<1>3. rec.type = Event.type /\ rec.req = Event.req /\ rec \in RecordType /\ AddRecord(rec)
  BY <1>1, <1>2, AmountFacts DEF Record, RecordType, GiveBack
<1> HIDE DEF rec
<1>4. /\ Len(memory') = Processed'
      /\ \A i \in DOMAIN memory' :
           memory'[i].type = schedule'[i].type /\ memory'[i].req = schedule'[i].req
  BY <1>0, <1>1, <1>3, TransitAgrees
<1>5. eventIndex' = eventIndex /\ counts' = CountedLeave(Event.req)
  BY <1>1 DEF GiveBack, CountLeave
<1> DEFINE arrived == memory[arrivalRecord[Event.req]]
<1>6. /\ arrivalRecord[Event.req] # 0 /\ (Event.req \in InService <=> arrived.result)
      /\ Event.req \notin InService'
      /\ \A q \in Requests \ {Event.req} : q \in InService' <=> q \in InService
  BY ReleasedView
<1>7. eventIndex[Event.req] = arrivalRecord[Event.req]
  BY <1>0, <1>2, <1>6
<1>8. InService' = InService \ {Event.req}
  BY <1>6, ViewShape
<1>9. counts'.inservice = IF arrived.result THEN counts.inservice - 1 ELSE counts.inservice
  BY <1>5, <1>7 DEF CountedLeave, IInv, TypeOK, RecorderTypes
<1>10. counts'.inservice = Cardinality(InService')
  BY <1>0, <1>6, <1>8, <1>9, FS_RemoveElement
<1>11. QED
  BY <1>0, <1>1, <1>4, <1>5, <1>10

LEMMA CountingInvStep ==
  ASSUME IInv, CountingInv, [Next]_vars
  PROVE  CountingInv'
<1>1. ServiceIsFinite'
  BY ServiceStaysFinite DEF CountingInv
<1>2. CASE Reset \/ ResetThrows
  BY <1>1, <1>2, ResetAgrees DEF CountingInv
<1>3. CASE StepRejects \/ StepAccepts
  <2>1. PICK ok \in BOOLEAN : SubmittedForArrival /\ RecordArrival(ok) /\ Transit
    BY <1>3 DEF StepRejects, StepAccepts
  <2>2. UNCHANGED recorderFailed
    BY <1>3 DEF StepRejects, StepAccepts, historyVars
  <2>3. QED
    BY <1>1, <2>1, <2>2, ArrivalAgrees DEF CountingInv
<1>4. CASE ReleaseCurrent
  BY <1>1, <1>4, ReleaseAgrees DEF CountingInv
<1>5. CASE StepRatioThrows \/ (\E ok \in BOOLEAN : StepSaveFails(ok)) \/ ReleaseSaveFails
  <2>1. recorderFailed'
    BY <1>5 DEF StepRatioThrows, StepSaveFails, ReleaseSaveFails, RecorderFails
  <2>2. QED
    BY <1>1, <2>1 DEF CountingInv, IndexesAgree, RecorderAgrees
<1>6. CASE \/ SolverTransaction \/ CallerPrepares \/ SolverStep \/ StepRefused \/ StepThrows
           \/ DrainLeaves \/ ReleaseThrows \/ UNCHANGED vars
  BY <1>1, <1>6, RecorderKept, KeptAgrees DEF CountingInv
<1>7. QED
  BY <1>2, <1>3, <1>4, <1>5, <1>6 DEF Next, Step, Drain

\* While no recorder call has failed, the history and the schedule agree event
\* by event and the service counter is the number of requests that really hold
\* resources, however many arrivals were retried for other reasons.
THEOREM RecorderAgreesAlways == Spec => []RecorderAgrees
<1>1. Init => CountingInv
  <2> SUFFICES ASSUME Init PROVE CountingInv
    OBVIOUS
  <2>1. /\ memory = <<>> /\ arrivalRecord = [r \in Requests |-> 0] /\ counts = NoCounts
        /\ phase = "unready" /\ cursor = 0
    BY DEF Init, RecorderInit
  <2>2. InService = {}
    BY <2>1 DEF InService, Accepted
  <2>3. counts.inservice = Cardinality(InService)
    BY <2>1, <2>2, FS_EmptySet DEF NoCounts
  <2>4. QED
    BY <2>1, <2>3, InitLedger DEF CountingInv, IndexesAgree, RecorderAgrees, Processed
<1>2. IInv /\ CountingInv /\ [Next]_vars => CountingInv'
  BY CountingInvStep
<1>3. CountingInv => RecorderAgrees
  BY DEF CountingInv
<1>4. QED
  BY <1>1, <1>2, <1>3, InductiveInvariant, PTL DEF Spec
=============================================================================
