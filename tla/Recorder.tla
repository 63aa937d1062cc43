------------------------------- MODULE Recorder -------------------------------
(***************************************************************************)
(* Recorder of virne/core/recorder.cpp: the history of event records, the   *)
(* index from a request to its arrival event, the service counters and the  *)
(* membership multisets of physical nodes.  Event ids are dense and count   *)
(* from 1 here, so that event e is expected at memory[e].                   *)
(*                                                                          *)
(* Amounts of resources, revenues and ratios are left out; the ratio check  *)
(* that can throw is RecordArrivalThrows.                                   *)
(***************************************************************************)
EXTENDS ControllerMutation, Integers, Sequences

VARIABLES
  memory,       \* memory_: one record per counted event
  eventIndex,   \* virtual_network_event_indices_, 0 when absent
  counts,       \* virtual_network_count, success_count, inservice_count
  members       \* physical_node_memberships_: multiplicity per node and request

recorderVars == <<memory, eventIndex, counts, members>>

NoCounts == [arrivals |-> 0, successes |-> 0, inservice |-> 0]
NoMembers == [n \in Nodes |-> [r \in Requests |-> 0]]

\* What is kept of a Solution in a record: its outcome and what it holds.
Record(kind, r, ok, d) == [type |-> kind, req |-> r, result |-> ok, held |-> d]

-----------------------------------------------------------------------------
(* Faulty variant, not used by the specification.                           *)
CountedLeave_NoLookup(r) == [counts EXCEPT !.inservice = @ - 1]
-----------------------------------------------------------------------------

RecorderInit ==
  /\ memory = <<>>
  /\ eventIndex = [r \in Requests |-> 0]
  /\ counts = NoCounts
  /\ members = NoMembers

ResetRecorder ==
  /\ memory' = <<>>
  /\ eventIndex' = [r \in Requests |-> 0]
  /\ counts' = NoCounts
  /\ members' = NoMembers

CountedArrival(ok) ==
  [arrivals |-> counts.arrivals + 1,
   successes |-> counts.successes + (IF ok THEN 1 ELSE 0),
   inservice |-> counts.inservice + (IF ok THEN 1 ELSE 0)]

\* update_count_state of an arrival: a successful one joins its nodes.
CountArrival(e, r, ok, d) ==
  /\ eventIndex' = [eventIndex EXCEPT ![r] = e]
  /\ counts' = CountedArrival(ok)
  /\ members' = IF ~ok THEN members
                ELSE [n \in Nodes |-> [members[n] EXCEPT ![r] = @ + d[n]]]

\* The time ratio check throws after the counters and before the memberships.
CountArrivalThrows(e, r) ==
  /\ eventIndex' = [eventIndex EXCEPT ![r] = e]
  /\ counts' = CountedArrival(TRUE)
  /\ UNCHANGED <<memory, members>>

\* A leave looks its arrival up in the history by event id.  The leave record
\* of the environment carries a fresh Solution, whose node slots are empty:
\* no membership is removed.
CountedLeave(r) ==
  IF memory[eventIndex[r]].result THEN [counts EXCEPT !.inservice = @ - 1] ELSE counts

CountLeave(r) ==
  /\ counts' = CountedLeave(r)
  /\ UNCHANGED <<eventIndex, members>>

\* add_record: the push comes first, the temporary file may fail after it.
AddRecord(record) == memory' = Append(memory, record)
=============================================================================
