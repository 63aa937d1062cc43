---------------------------- MODULE MCEnvironment ----------------------------
(* Instances of Environment for TLC, and what its docs say of it. *)
EXTENDS Environment, TLC

CONSTANTS r1, r2, n1, l1

MCRequests == {r1, r2}
TwoOfEach == [s \in {n1, l1} |-> 2]

\* Overlapping, nested and back-to-back services, an episode that ends with an
\* arrival, and a leave whose request never arrived.
MCSchedules ==
  { <<>>,
    <<Arrival(r1), Arrival(r2), Leave(r1), Leave(r2)>>,
    <<Arrival(r1), Arrival(r2), Leave(r2), Leave(r1)>>,
    <<Arrival(r1), Leave(r1), Arrival(r2), Leave(r2)>>,
    <<Arrival(r1), Arrival(r2)>>,
    <<Arrival(r1), Leave(r2), Leave(r1)>> }

\* environment.md: "If an automatic leave throws, drain_leaves() exposes the
\* same retry point": trying a leave again gives back nothing twice.
LeaveRetryIsSafe == \A s \in Slots : Free[s] <= Capacity[s]

\* recorder.md: "Physical-node service membership": a request that has left is
\* a member of no physical node.
MembersAreServed ==
  ~recorderFailed => \A n \in Nodes, r \in Requests : members[n][r] > 0 => r \in InService
=============================================================================
