-------------------------- MODULE ControllerMutation --------------------------
(***************************************************************************)
(* PreparedControllerMutation of virne/core/controller/controller.cpp: the  *)
(* resource slots of the physical network and, per virtual request, a       *)
(* checkpoint of them.  A transaction copies every selected slot into a     *)
(* buffer of a pool shared by all requests; rollback writes the copied      *)
(* values back, commit only returns the buffer.                             *)
(*                                                                          *)
(* A slot is one (node or link, resource) pair with an integer amount.      *)
(* The operators below are the calls; Environment composes them.            *)
(***************************************************************************)
EXTENDS Integers

CONSTANTS
  Requests,   \* virtual network requests, one prepared mutation each
  Nodes,      \* resource slots of physical nodes
  Links,      \* resource slots of physical links
  Capacity    \* initial amount of every slot

Slots == Nodes \cup Links
Amounts == [Slots -> Nat]

ASSUME CapacityAssumption == Capacity \in Amounts /\ Nodes \cap Links = {}

VARIABLES
  avail,        \* live resource values of the physical network
  active,       \* requests whose checkpoint_active_ is set
  checkpoint,   \* checkpoint_values_ of those requests
  freeBuffers   \* buffers in checkpoint_workspace_->free_buffers

mutationVars == <<avail, active, checkpoint, freeBuffers>>
transactionVars == <<active, checkpoint, freeBuffers>>

Zero == [s \in Slots |-> 0]
Plus(a, d) == [s \in Slots |-> a[s] + d[s]]
Minus(a, d) == [s \in Slots |-> a[s] - d[s]]
Covers(a, d) == \A s \in Slots : d[s] <= a[s]
One(s) == [t \in Slots |-> IF t = s THEN 1 ELSE 0]

-----------------------------------------------------------------------------
(* Faulty variants, each a plausible slip; none is used by the specification *)
Restored_Live(r) == avail                      \* rollback only closes
CloseTransaction_Open(r, opened) ==            \* the flag never cleared
  UNCHANGED transactionVars
-----------------------------------------------------------------------------

MutationInit ==
  /\ avail = Capacity
  /\ active = {} /\ checkpoint = [r \in Requests |-> Zero]
  /\ freeBuffers = 0

\* The workspace hands out a pooled buffer, or allocates when it is empty.
AfterTake(n) == IF n > 0 THEN n - 1 ELSE 0
BuffersClosed(n) == n + 1

\* What rollback_transaction leaves in the network: the copied values, or the
\* live ones when no transaction is active.
Restored(r) == IF r \in active THEN checkpoint[r] ELSE avail

\* Every selected slot of the network, as it is now.
Snapshot == avail

BeginTransaction(r) ==
  /\ r \notin active
  /\ active' = active \cup {r}
  /\ checkpoint' = [checkpoint EXCEPT ![r] = Snapshot]
  /\ freeBuffers' = AfterTake(freeBuffers)

\* commit_transaction, also the last call of rollback_transaction.  "opened"
\* says that the same handler began the transaction just before.
CloseTransaction(r, opened) ==
  /\ active' = active \ {r}
  /\ checkpoint' = [checkpoint EXCEPT ![r] = Zero]
  /\ freeBuffers' = IF r \in active THEN BuffersClosed(freeBuffers)
                    ELSE IF opened THEN BuffersClosed(AfterTake(freeBuffers))
                    ELSE freeBuffers

RollbackTransaction(r, opened) ==
  /\ avail' = Restored(r)
  /\ CloseTransaction(r, opened)

\* Dropping the prepared mutations destroys their buffers, the pool stays.
DropMutations ==
  /\ active' = {} /\ checkpoint' = [r \in Requests |-> Zero]
  /\ UNCHANGED freeBuffers

\* deploy subtracts a recorded journal, failing before a slot would go below
\* zero; release adds what a mapping recorded.
Deploy(d) == Covers(avail, d) /\ avail' = Minus(avail, d)
Release(d) == avail' = Plus(avail, d)
=============================================================================
