---------------------------- MODULE MCMainRuntime ----------------------------
(* Instance of MainRuntime for TLC. *)
EXTENDS MainRuntime

CONSTANTS r1, r2, n1, l1

MCCapacity == [s \in {n1, l1} |-> IF s = n1 THEN 2 ELSE 1]

\* A service inside another, an episode ending with an arrival, a schedule
\* that opens with a leave, and an empty one.
MCSchedules ==
  { <<>>,
    <<Arrival(r1), Arrival(r2), Leave(r2), Leave(r1)>>,
    <<Arrival(r1), Leave(r1), Arrival(r2)>>,
    <<Leave(r2), Arrival(r1), Leave(r1)>> }

\* All in one window, two windows, and one before the origin.
MCEventTimes == { <<1, 1, 1, 1>>, <<0, 1, 2, 3>>, <<-1, 0, 1, 1>> }

MCRequestLists == { <<>>, <<r1>>, <<r2, r1>> }
=============================================================================
