------------------------------ MODULE Environment ------------------------------
(***************************************************************************)
(* BaseEnvironment and SolutionStepEnvironment of virne/core/environment.cpp *)
(* composed with Recorder and ControllerMutation, and the caller that drives *)
(* them: it resets an episode, opens a solver transaction on the current     *)
(* arrival, lets a solver work on the network, submits the Solution to       *)
(* step(), and calls drain_leaves() again after an automatic leave threw.    *)
(*                                                                          *)
(* The program is sequential; pc says who has control: the caller ("idle"), *)
(* a solver inside solve_mutable ("solving", "torn"), the caller with a      *)
(* Solution in hand ("returned"), or the loop of drain_leaves ("draining").  *)
(* step() and one release of that loop are one action per way they end.      *)
(***************************************************************************)
EXTENDS Recorder, Totals

CONSTANTS
  Schedules,      \* event schedules a simulator can hand out, <<>> included
  MaxHeld,        \* bound: largest amount of one slot in one Solution
  FailingEvents,  \* event types whose temporary record may fail to be saved
  MaxFailures,    \* bound: recorder failures in one behaviour
  MaxEpisodes     \* bound: resets in one behaviour

Arrival(r) == [type |-> "arrival", req |-> r]
Leave(r) == [type |-> "leave", req |-> r]
Events == {Arrival(r) : r \in Requests} \cup {Leave(r) : r \in Requests}

\* A request arrives at most once and leaves at most once.
ASSUME EnvironmentAssumption ==
  /\ Schedules \subseteq Seq(Events)
  /\ \A s \in Schedules : \A i, j \in DOMAIN s : s[i] = s[j] => i = j
  /\ MaxHeld \in Nat /\ MaxFailures \in Nat /\ MaxEpisodes \in Nat
  /\ FailingEvents \subseteq {"arrival", "leave"}

VARIABLES
  pc,
  phase,          \* state_.phase
  schedule,       \* events of the simulator, as planned by the last reset
  cursor,         \* schedule index of current_event, 0 when there is none
  arrivalRecord,  \* arrival_record_indices_, 0 when there is none
  held,           \* the Solution being built: what its tables hold
  result,         \* its result flag
  mode,           \* how it is submitted: committed or detached
  episodes,       \* resets so far
  failures,       \* recorder failures so far
  recorderFailed  \* history: one of them was in this episode

solutionVars == <<held, result, mode>>
episodeVars == <<phase, schedule, cursor>>
historyVars == <<episodes, failures, recorderFailed>>
vars == <<mutationVars, recorderVars, pc, episodeVars, arrivalRecord,
          solutionVars, historyVars>>

Event == schedule[cursor]
Last == cursor >= Len(schedule)
Holdings == [Slots -> 0 .. MaxHeld]
AtArrival == phase = "active" /\ Event.type = "arrival"
AtLeave == phase = "active" /\ Event.type = "leave"

-----------------------------------------------------------------------------
(* Faulty variants, each a plausible slip; none is used by Spec.            *)
NeedsDeploy_Always == TRUE             \* a committed Solution deployed again
RecordIndex_EventId == cursor          \* the history taken to be dense
ReleasedShare_Failed(rec) == rec.held  \* the arrival's result is not consulted
ReleasedShare_None(rec) == Zero        \* the release forgotten
-----------------------------------------------------------------------------

Init ==
  /\ MutationInit /\ RecorderInit
  /\ pc = "idle" /\ phase = "unready"
  /\ schedule = <<>> /\ cursor = 0
  /\ arrivalRecord = [r \in Requests |-> 0]
  /\ held = Zero /\ result = FALSE /\ mode = "detached"
  /\ episodes = 0 /\ failures = 0 /\ recorderFailed = FALSE

BlankSolution == held' = Zero /\ result' = FALSE /\ mode' = "detached"

\* reset and renew_and_reset, from any state the caller has control in.
BeginReset ==
  /\ pc \in {"idle", "returned"} /\ episodes < MaxEpisodes
  /\ episodes' = episodes + 1
  /\ avail' = Capacity
  /\ DropMutations /\ ResetRecorder /\ BlankSolution
  /\ pc' = "idle"
  /\ arrivalRecord' = [r \in Requests |-> 0]
  /\ recorderFailed' = FALSE
  /\ UNCHANGED failures

\* ready(0): the first event may well be a leave; nothing is drained here.
Reset ==
  /\ BeginReset
  /\ schedule' \in Schedules \ {<<>>}
  /\ phase' = "active" /\ cursor' = 1

\* build_event_plan refuses an empty schedule after the network was reset.
ResetThrows ==
  /\ BeginReset
  /\ <<>> \in Schedules
  /\ schedule' = <<>>
  /\ phase' = "unready" /\ cursor' = 0

-----------------------------------------------------------------------------
(* The solver transaction and the solver that works inside it.              *)

SolverTransaction ==
  /\ pc = "idle" /\ AtArrival
  /\ BeginTransaction(Event.req)
  /\ BlankSolution
  /\ pc' = "solving"
  /\ UNCHANGED <<avail, recorderVars, episodeVars, arrivalRecord, historyVars>>

solverFrame == <<transactionVars, recorderVars, episodeVars, arrivalRecord, historyVars>>

\* A placement or a routed hop: subtract from the network, then note it.
SolverTakes(s) ==
  /\ pc = "solving"
  /\ avail[s] > 0 /\ held[s] < MaxHeld
  /\ avail' = [avail EXCEPT ![s] = @ - 1]
  /\ held' = [held EXCEPT ![s] = @ + 1]
  /\ UNCHANGED <<solverFrame, pc, result, mode>>

\* undo_place or undo_route of something noted.
SolverGivesBack(s) ==
  /\ pc = "solving" /\ held[s] > 0
  /\ avail' = [avail EXCEPT ![s] = @ + 1]
  /\ held' = [held EXCEPT ![s] = @ - 1]
  /\ UNCHANGED <<solverFrame, pc, result, mode>>

\* An exception between the subtraction and its entry in the Solution.
SolverTears(s) ==
  /\ pc = "solving" /\ avail[s] > 0
  /\ avail' = [avail EXCEPT ![s] = @ - 1]
  /\ pc' = "torn"
  /\ UNCHANGED <<solverFrame, solutionVars>>

\* solve_mutable throws: the caller rolls the checkpoint back and rethrows.
SolverThrows ==
  /\ pc \in {"solving", "torn"}
  /\ RollbackTransaction(Event.req, FALSE)
  /\ pc' = "idle" /\ BlankSolution
  /\ UNCHANGED <<recorderVars, episodeVars, arrivalRecord, historyVars>>

\* A complete mapping made in place.
SolverCommits ==
  /\ pc = "solving"
  /\ result' = TRUE /\ mode' = "committed"
  /\ pc' = "returned"
  /\ UNCHANGED <<avail, solverFrame, held>>

\* No mapping: the solver rolled back itself ...
SolverGivesUp ==
  /\ pc = "solving"
  /\ RollbackTransaction(Event.req, FALSE)
  /\ result' = FALSE /\ mode' = "detached"
  /\ pc' = "returned"
  /\ UNCHANGED <<recorderVars, episodeVars, arrivalRecord, historyVars, held>>

\* ... or left the checkpoint to step().
SolverRejects ==
  /\ pc = "solving"
  /\ result' = FALSE /\ mode' = "detached"
  /\ pc' = "returned"
  /\ UNCHANGED <<avail, solverFrame, held>>

\* A solver that worked on a clone: the network is as the checkpoint has it.
SolverDetaches ==
  /\ pc = "solving" /\ held = Zero
  /\ held' \in {d \in Holdings : Covers(avail, d)}
  /\ result' = TRUE /\ mode' = "detached"
  /\ pc' = "returned"
  /\ UNCHANGED <<avail, solverFrame>>

\* A caller that never opened a transaction submits any Solution, with any
\* flag, even one the network cannot carry.
CallerPrepares ==
  /\ pc = "idle" /\ phase = "active"
  /\ held' \in Holdings /\ result' \in BOOLEAN /\ mode' \in {"detached", "committed"}
  /\ pc' = "returned"
  /\ UNCHANGED <<avail, solverFrame>>


-----------------------------------------------------------------------------
(* step(): the Solution in hand against the current event.                  *)

\* A committed Solution needs the checkpoint it was made under; a detached
\* successful one gets a checkpoint of its own before anything else.
Refused == mode = "committed" /\ Event.req \notin active
Opens == mode = "detached" /\ result /\ Event.req \notin active
NeedsDeploy == mode = "detached"

Submitted == pc = "returned" /\ phase = "active" /\ ~Refused
SubmittedForArrival == Submitted /\ AtArrival

StepRefused ==
  /\ pc = "returned" /\ phase = "active" /\ Refused
  /\ pc' = "idle" /\ BlankSolution
  /\ UNCHANGED <<mutationVars, recorderVars, episodeVars, arrivalRecord, historyVars>>

\* Not an arrival, another request's Solution, a failing count, missing nodes
\* or links, or a deployment the network cannot carry: whatever was opened or
\* deployed is rolled back, nothing is recorded.
StepThrows ==
  /\ Submitted
  /\ RollbackTransaction(Event.req, Opens)
  /\ pc' = "idle" /\ BlankSolution
  /\ UNCHANGED <<recorderVars, episodeVars, arrivalRecord, historyVars>>

\* transit_after_arrival and the tail of the drain_leaves loop: finish after
\* the last event, else ready the next one and drain it when it is a leave.
Transit ==
  IF Last
  THEN phase' = "finished" /\ pc' = "idle" /\ UNCHANGED <<cursor, schedule>>
  ELSE /\ cursor' = cursor + 1
       /\ pc' = IF schedule[cursor + 1].type = "leave" THEN "draining" ELSE "idle"
       /\ UNCHANGED <<phase, schedule>>

\* recorder_.memory().size() before the push.
RecordIndex == Len(memory) + 1

RecordArrival(ok) ==
  /\ CountArrival(cursor, Event.req, ok, held)
  /\ AddRecord(Record("arrival", Event.req, ok, held))
  /\ arrivalRecord' = [arrivalRecord EXCEPT ![Event.req] = RecordIndex]

\* No result, a hard violation or the r2c admission gate.
StepRejects ==
  /\ SubmittedForArrival
  /\ RollbackTransaction(Event.req, Opens)
  /\ RecordArrival(FALSE)
  /\ Transit /\ BlankSolution
  /\ UNCHANGED historyVars

Carried == IF NeedsDeploy THEN Deploy(held) ELSE UNCHANGED avail

StepAccepts ==
  /\ SubmittedForArrival /\ result
  /\ Carried
  /\ CloseTransaction(Event.req, Opens)
  /\ RecordArrival(TRUE)
  /\ Transit /\ BlankSolution
  /\ UNCHANGED historyVars

\* The recorder throws after it has counted, or after it has pushed the
\* record: the network is rolled back, the recorder and the cursor are not.
RecorderFails ==
  /\ failures < MaxFailures
  /\ failures' = failures + 1
  /\ recorderFailed' = TRUE
  /\ UNCHANGED episodes

StepRatioThrows ==
  /\ SubmittedForArrival /\ result
  /\ NeedsDeploy => Covers(avail, held)
  /\ RecorderFails
  /\ RollbackTransaction(Event.req, Opens)
  /\ CountArrivalThrows(cursor, Event.req)
  /\ pc' = "idle" /\ BlankSolution
  /\ UNCHANGED <<episodeVars, arrivalRecord>>

StepSaveFails(ok) ==
  /\ SubmittedForArrival /\ "arrival" \in FailingEvents
  /\ ok => result /\ (NeedsDeploy => Covers(avail, held))
  /\ RecorderFails
  /\ RollbackTransaction(Event.req, Opens)
  /\ CountArrival(cursor, Event.req, ok, held)
  /\ AddRecord(Record("arrival", Event.req, ok, held))
  /\ pc' = "idle" /\ BlankSolution
  /\ UNCHANGED <<episodeVars, arrivalRecord>>

-----------------------------------------------------------------------------
(* drain_leaves(): one release_current per round of its loop.               *)

DrainLeaves ==
  /\ pc = "idle" /\ AtLeave
  /\ pc' = "draining"
  /\ UNCHANGED <<mutationVars, recorderVars, episodeVars, arrivalRecord,
                 solutionVars, historyVars>>

HasArrivalRecord(r) == arrivalRecord[r] \in 1 .. Len(memory)

\* release(): nothing is given back for an arrival that was not accepted.
ReleasedShare(rec) == IF rec.result THEN rec.held ELSE Zero

\* The resources go back before anything is recorded.
GiveBack ==
  /\ pc = "draining" /\ HasArrivalRecord(Event.req)
  /\ Release(ReleasedShare(memory[arrivalRecord[Event.req]]))
  /\ CountLeave(Event.req)
  /\ AddRecord(Record("leave", Event.req, FALSE, Zero))

ReleaseCurrent ==
  /\ GiveBack
  /\ Transit
  /\ UNCHANGED <<transactionVars, arrivalRecord, solutionVars, historyVars>>

\* The temporary file fails: the call leaves with the event still current.
ReleaseSaveFails ==
  /\ GiveBack
  /\ "leave" \in FailingEvents /\ RecorderFails
  /\ pc' = "idle"
  /\ UNCHANGED <<transactionVars, episodeVars, arrivalRecord, solutionVars>>

ReleaseThrows ==
  /\ pc = "draining" /\ ~HasArrivalRecord(Event.req)
  /\ pc' = "idle"
  /\ UNCHANGED <<mutationVars, recorderVars, episodeVars, arrivalRecord,
                 solutionVars, historyVars>>

-----------------------------------------------------------------------------
SolverStep ==
  \/ SolverThrows \/ SolverCommits \/ SolverGivesUp \/ SolverRejects \/ SolverDetaches
  \/ \E s \in Slots : SolverTakes(s) \/ SolverGivesBack(s) \/ SolverTears(s)

Step ==
  \/ StepRefused \/ StepThrows \/ StepRejects \/ StepAccepts \/ StepRatioThrows
  \/ \E ok \in BOOLEAN : StepSaveFails(ok)

Drain == DrainLeaves \/ ReleaseCurrent \/ ReleaseSaveFails \/ ReleaseThrows

Next ==
  \/ Reset \/ ResetThrows
  \/ SolverTransaction \/ CallerPrepares
  \/ SolverStep \/ Step \/ Drain

Spec == Init /\ [][Next]_vars

\* The same as long as the record of every leave can be saved.
RecordedNext ==
  \/ Reset \/ ResetThrows
  \/ SolverTransaction \/ CallerPrepares
  \/ SolverStep \/ Step
  \/ DrainLeaves \/ ReleaseCurrent \/ ReleaseThrows

RecordedSpec == Init /\ [][RecordedNext]_vars

-----------------------------------------------------------------------------
(* What an observer of the network sees: who is in service, with what, and  *)
(* what is left when an open transaction is disregarded.                    *)

Departed(r) ==
  \E i \in DOMAIN schedule :
     schedule[i] = Leave(r) /\ (i < cursor \/ (i = cursor /\ phase = "finished"))

Accepted(r) == arrivalRecord[r] # 0 /\ memory[arrivalRecord[r]].result
InService == {r \in Requests : Accepted(r) /\ ~Departed(r)}
Share == [r \in Requests |-> IF r \in InService THEN memory[arrivalRecord[r]].held ELSE Zero]
Free == IF active = {} THEN avail ELSE checkpoint[Event.req]

RecordType == [type : {"arrival", "leave"}, req : Requests, result : BOOLEAN, held : Amounts]

MutationTypes ==
  /\ avail \in Amounts
  /\ active \subseteq Requests
  /\ checkpoint \in [Requests -> Amounts]
  /\ freeBuffers \in Nat

RecorderTypes ==
  /\ memory \in Seq(RecordType)
  /\ eventIndex \in [Requests -> Nat]
  /\ counts \in [arrivals : Nat, successes : Nat, inservice : Int]
  /\ members \in [Nodes -> [Requests -> Nat]]

EpisodeTypes ==
  /\ pc \in {"idle", "solving", "torn", "returned", "draining"}
  /\ phase \in {"unready", "active", "finished"}
  /\ schedule \in Seq(Events)
  /\ cursor \in Nat
  /\ IF phase = "unready" THEN cursor = 0 ELSE cursor \in DOMAIN schedule
  /\ \A i, j \in DOMAIN schedule : schedule[i] = schedule[j] => i = j
  /\ arrivalRecord \in [Requests -> Nat]

SolutionTypes ==
  /\ held \in Amounts
  /\ result \in BOOLEAN
  /\ mode \in {"committed", "detached"}

\* Every variable has its type; resource amounts never go below zero.
TypeOK ==
  /\ MutationTypes /\ RecorderTypes /\ EpisodeTypes /\ SolutionTypes
  /\ episodes \in Nat /\ failures \in Nat /\ recorderFailed \in BOOLEAN

\* A checkpoint is open only while the arrival it was taken for is being
\* decided: none survives into a leave, another event or an idle caller
\* (begin_transaction in solver_transaction and step_solution against every
\* commit and rollback).
TransactionScope ==
  active # {} => /\ pc \in {"solving", "torn", "returned"}
                 /\ AtArrival
                 /\ active = {Event.req}

\* arrival_record_indices_ always leads a leave to the arrival of its own
\* request, and the recorder's own lookup by event id stays inside the
\* history, whatever failed and was retried before.
ReleaseFindsItsArrival ==
  \A r \in Requests : arrivalRecord[r] # 0 =>
     /\ arrivalRecord[r] \in DOMAIN memory
     /\ memory[arrivalRecord[r]].type = "arrival"
     /\ memory[arrivalRecord[r]].req = r
     /\ eventIndex[r] \in DOMAIN memory

\* Events that have been dealt with, every one of them counted.
Processed == IF phase = "active" THEN cursor - 1 ELSE cursor

\* While no recorder call has failed, the history is dense in event ids, so
\* that record_by_event finds the arrival, and the service counter agrees
\* with the requests that really hold resources.
RecorderAgrees ==
  ~recorderFailed =>
     /\ Len(memory) = Processed
     /\ \A i \in DOMAIN memory :
          memory[i].type = schedule[i].type /\ memory[i].req = schedule[i].req
     /\ counts.inservice = Cardinality(InService)

\* What the requests in service hold of one slot.
HeldAt(s) == [r \in Requests |-> Share[r][s]]
Ledger(s) == Free[s] + TotalOf(InService, HeldAt(s))

\* Nothing leaks and nothing is given back twice: what is free and what the
\* requests in service hold make up the initial network, at every moment.
NothingLeaks == \A s \in Slots : Ledger(s) = Capacity[s]

\* Whatever fails in the recorder, at arrivals or at leaves, and is tried again,
\* no resource of a request in service or of the free network is lost.
NothingIsLost == \A s \in Slots : Ledger(s) >= Capacity[s]

\* A step() that throws before it has decided its arrival leaves the network as
\* the transaction found it, no checkpoint open, and the arrival undecided, so that
\* it can be tried again.  One that throws later, in the automatic drain of the
\* leaves that follow, has decided it and stays at the leave it could not release;
\* it is no step from "returned", and nothing is restored.
FailedStepRestores ==
  [][pc = "returned" /\ pc' = "idle" /\ phase' = phase /\ cursor' = cursor
       /\ episodes' = episodes
     => avail' = Free /\ active' = {} /\ arrivalRecord' = arrivalRecord]_vars

\* The environment implements AdmissionControl: a request is admitted with
\* its share at the step that accepts it and gives it back at its leave.
Abstract == INSTANCE AdmissionControl WITH
  free <- Free, inService <- InService, share <- Share
ImplementsAdmission == Abstract!Spec


-----------------------------------------------------------------------------
(* The inductive invariant of the proofs.                                   *)

\* Control and phase: a solver, a Solution in hand and the loop of
\* drain_leaves only exist while an event is current.
ControlInv ==
  /\ pc # "idle" => phase = "active"
  /\ pc = "draining" => AtLeave
  /\ pc \in {"solving", "torn"} => active # {}

\* A committed Solution still in its transaction lists exactly what the
\* network lacks since the checkpoint.
JournalBalances ==
  active # {} /\ (pc = "solving" \/ (pc = "returned" /\ mode = "committed")) =>
     \A s \in Slots : avail[s] + held[s] = checkpoint[Event.req][s]

\* A detached successful Solution of a solver left the network untouched.
DetachedUntouched ==
  active # {} /\ pc = "returned" /\ mode = "detached" /\ result =>
     avail = checkpoint[Event.req]

\* Only arrivals already decided have a record.
DecidedArrivals ==
  \A r \in Requests : arrivalRecord[r] # 0 =>
     \E i \in DOMAIN schedule :
        /\ schedule[i] = Arrival(r)
        /\ i < cursor \/ (i = cursor /\ phase = "finished")

\* A leave is only dealt with after its arrival was.
DepartedWereDecided == \A r \in Requests : Departed(r) => arrivalRecord[r] # 0

\* A failed and retried record only makes the history longer.
HistoryReaches == Len(memory) >= Processed

\* Only finitely many requests are in service, so that they can be counted.
ServiceIsFinite == IsFiniteSet(InService)

\* While no recorder call has failed, the index by event id and the one by
\* position agree on every arrival.
IndexesAgree ==
  ~recorderFailed =>
     \A r \in Requests : arrivalRecord[r] # 0 => eventIndex[r] = arrivalRecord[r]

IInv ==
  /\ HistoryReaches /\ TypeOK /\ TransactionScope /\ ReleaseFindsItsArrival
  /\ ControlInv /\ JournalBalances /\ DetachedUntouched /\ DecidedArrivals
  /\ DepartedWereDecided

\* With the counters of the recorder.
CountingInv == ServiceIsFinite /\ IndexesAgree /\ RecorderAgrees
=============================================================================
