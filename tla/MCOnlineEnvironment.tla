------------------------- MODULE MCOnlineEnvironment -------------------------
(* Instance of OnlineEnvironment for TLC. *)
EXTENDS OnlineEnvironment

CONSTANTS r1, r2, n1, l1

MCCapacity == [s \in {n1, l1} |-> IF s = n1 THEN 2 ELSE 1]

\* Overlapping services, two leaves before the last arrival, a schedule that
\* opens with a leave, and an empty one.
MCSchedules ==
  { <<>>,
    <<Arrival(r1), Arrival(r2), Leave(r2), Leave(r1)>>,
    <<Arrival(r1), Leave(r1), Arrival(r2)>>,
    <<Leave(r2), Arrival(r1)>> }

MCRewards == {0, 1}
=============================================================================
