--------------------------- MODULE AdmissionControl ---------------------------
(***************************************************************************)
(* What the environment promises: a request is in service with the share of *)
(* the physical network it was admitted with, from its accepted arrival to  *)
(* its leave, and what is not shared out is free.                           *)
(***************************************************************************)
EXTENDS Naturals

CONSTANTS Requests, Slots, Capacity

VARIABLES free,        \* amount of every slot that no request holds
          inService,   \* requests being served
          share        \* what each of them holds

vars == <<free, inService, share>>

Nothing == [s \in Slots |-> 0]

Init ==
  /\ free = Capacity
  /\ inService = {}
  /\ share = [r \in Requests |-> Nothing]

Admit(r) ==
  /\ r \notin inService
  /\ share' = [share EXCEPT ![r] = share'[r]]
  /\ share'[r] \in [Slots -> Nat]
  /\ \A s \in Slots : share'[r][s] <= free[s]
  /\ free' = [s \in Slots |-> free[s] - share'[r][s]]
  /\ inService' = inService \cup {r}

Leave(r) ==
  /\ r \in inService
  /\ free' = [s \in Slots |-> free[s] + share[r][s]]
  /\ share' = [share EXCEPT ![r] = Nothing]
  /\ inService' = inService \ {r}

\* A new episode starts from the initial snapshot.
Restart ==
  /\ free' = Capacity
  /\ inService' = {}
  /\ share' = [r \in Requests |-> Nothing]

Next == Restart \/ \E r \in Requests : Admit(r) \/ Leave(r)

Spec == Init /\ [][Next]_vars
=============================================================================
