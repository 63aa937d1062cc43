------------------------------ MODULE BfsDeploy ------------------------------
(***************************************************************************)
(* BfsSolver::bfs_deploy and solve_ranked_mutable of                         *)
(* virne/solver/heuristic/bfs_trials.cpp: the hosts around a first one are   *)
(* visited breadth first, each is offered the next virtual node of a         *)
(* ranking, a host whose node cannot be routed to its neighbours is undone,  *)
(* and a search that runs out of hosts or throws is rolled back.             *)
(*                                                                           *)
(* place_and_route and undo_place_and_route are sequences of actions, one    *)
(* per link; where says how far the running call has come.                 *)
(***************************************************************************)
EXTENDS Placement, FiniteSetsExt

CONSTANTS
  Rankings,     \* virtual_nodes: rankings of the virtual network
  Roots,        \* initial_physical_node: hosts that may be ranked first
  Neighbours,   \* incident neighbours of each host, in the order of its edges
  Limits,       \* limits of the traversal, with the root they give
  Checkpoint    \* the environment opened a transaction for the solver

\* branch, max_visit_at_every_depth, is the depth-th root of visit.
ASSUME BfsAssumption ==
  /\ Rankings \subseteq Seq(VNodes) \ {<<>>} /\ \A r \in Rankings : IsInjective(r)
  /\ Roots \subseteq PNodes /\ Neighbours \in [PNodes -> Seq(PNodes)]
  /\ \A p \in PNodes : IsInjective(Neighbours[p])
  /\ Limits \subseteq [visit : Nat, depth : Nat \ {0}, branch : Nat]
  /\ Checkpoint \in BOOLEAN

VARIABLES
  order,     \* the ranking and the limits of this search
  limits,
  where,     \* "visit", "routing", "undoing" or "done"
  queue,     \* every host found so far, with its depth
  head,      \* queue_head: how many of them were visited
  pending,   \* links the running call still has to route or undo
  placed,    \* num_placed_nodes
  attempts,  \* num_attempt_times
  ended      \* "no", "committed", "detached" or "threw"

searchVars == <<queue, head, placed, attempts, ended>>
input == <<order, limits>>
bfsVars == <<placementVars, input, where, pending, searchVars>>

Visited == {queue[i].p : i \in DOMAIN queue}
Visit == queue[head]

-----------------------------------------------------------------------------
\* A faulty variant: a host counts as visited once it is taken from the queue.
Fresh_Popped(n) == n \notin {queue[i].p : i \in 1 .. head}
-----------------------------------------------------------------------------

BfsInit ==
  /\ PlacementInit
  /\ order \in Rankings /\ limits \in Limits
  /\ where = "visit" /\ pending = {}
  /\ \E root \in Roots : queue = <<[p |-> root, depth |-> 0]>>
  /\ head = 0
  /\ placed = 0 /\ attempts = 0 /\ ended = "no"

Node == order[placed + 1]

\* The incident edges are cut before it is known which of them lead to hosts
\* that were found already.
EdgesSeen(p) ==
  IF Len(Neighbours[p]) > limits.visit
  THEN SubSeq(Neighbours[p], 1, Min({Len(Neighbours[p]), limits.branch}))
  ELSE Neighbours[p]

Fresh(n) == n \notin Visited

\* The j-th smallest of some positions.
Nth(K, j) == CHOOSE k \in K : Cardinality({i \in K : i <= k}) = j

\* The hosts that a visit finds, in the order of its edges.
Found(host) ==
  LET seen == EdgesSeen(host.p)
      new == {k \in DOMAIN seen : Fresh(seen[k])}
  IN [j \in 1 .. Cardinality(new) |-> [p |-> seen[Nth(new, j)], depth |-> host.depth + 1]]

Expanded(host) == IF host.depth = limits.depth THEN queue ELSE queue \o Found(host)

HasHost == head < Len(queue) /\ queue[head + 1].depth <= limits.depth

PlaceFails ==
  /\ where = "visit" /\ HasHost /\ ~Fits(Node, queue[head + 1].p)
  /\ head' = head + 1 /\ attempts' = attempts + 1
  /\ queue' = Expanded(queue[head + 1])
  /\ UNCHANGED <<placementVars, input, where, pending, placed, ended>>

Places ==
  /\ where = "visit" /\ HasHost
  /\ Place(Node, queue[head + 1].p)
  /\ head' = head + 1
  /\ where' = "routing" /\ pending' = LinksToRoute(Node)
  /\ UNCHANGED <<linkVars, input, queue, placed, attempts, ended>>

RoutesLink(l) ==
  /\ where = "routing" /\ l \in pending
  /\ Route(l)
  /\ pending' = pending \ {l}
  /\ UNCHANGED <<nodeAvail, nodeSlots, nodeInfo, input, where, searchVars>>

\* The start of undo_place_and_route.
Failed(l) ==
  /\ UndoPlace
  /\ where' = "undoing" /\ pending' = {k \in routed' : Touches(k, LastSlot.v)}

RoutesNoLink(l) ==
  /\ where = "routing" /\ l \in pending
  /\ RouteFails(l) /\ Failed(l)
  /\ attempts' = attempts + 1
  /\ UNCHANGED <<input, queue, head, placed, ended>>

UndoesLink(l) ==
  /\ where = "undoing" /\ l \in pending
  /\ UndoRoute(l)
  /\ pending' = pending \ {l}
  /\ UNCHANGED <<nodeAvail, nodeSlots, nodeInfo, input, where, searchVars>>

Undone ==
  /\ where = "undoing" /\ pending = {}
  /\ where' = "visit" /\ queue' = Expanded(Visit)
  /\ UNCHANGED <<placementVars, input, pending, head, placed, attempts, ended>>

\* The node and all its links are mapped; the last one commits.
Succeeds ==
  /\ where = "routing" /\ pending = {}
  /\ placed' = placed + 1
  /\ IF placed + 1 < Len(order)
     THEN where' = "visit" /\ queue' = Expanded(Visit) /\ UNCHANGED ended
     ELSE where' = "done" /\ ended' = "committed" /\ UNCHANGED queue
  /\ UNCHANGED <<placementVars, input, pending, head, attempts>>

GivesUp ==
  /\ where = "visit" /\ ~HasHost
  /\ Rollback(Checkpoint)
  /\ where' = "done" /\ ended' = "detached"
  /\ UNCHANGED <<input, pending, queue, head, placed, attempts>>

\* The path finder or a check throws.
Throws ==
  /\ where = "routing" /\ pending # {}
  /\ Rollback(Checkpoint)
  /\ where' = "done" /\ ended' = "threw"
  /\ UNCHANGED <<input, pending, queue, head, placed, attempts>>

BfsNext ==
  \/ PlaceFails \/ Places
  \/ \E l \in pending : RoutesLink(l) \/ RoutesNoLink(l) \/ UndoesLink(l)
  \/ Undone \/ Succeeds \/ GivesUp \/ Throws

BfsSpec == BfsInit /\ [][BfsNext]_bfsVars

-----------------------------------------------------------------------------
\* No host is offered twice, which is all that keeps two virtual nodes of a
\* request apart, and the solver's two counters account for every host it
\* visited and every node it placed.
HostsOfferedOnce ==
  /\ \A i, j \in DOMAIN queue : queue[i].p = queue[j].p => i = j
  /\ Cardinality(Hosts) = Len(nodeSlots)
  /\ where = "visit" => placed = Len(nodeSlots) /\ placed + attempts = head

\* A committed Solution maps every node of the ranking and every link between
\* them along paths between their hosts.
CommittedIsWhole ==
  ended = "committed" => RoutesAreWhole /\ Placed = {order[i] : i \in DOMAIN order}

\* A search that gave up or threw leaves the network as it was, even where no
\* transaction is open and only the journal can tell what was taken.
RolledBackIsUntouched ==
  ended \in {"detached", "threw"} => nodeAvail = NodeCapacity /\ linkAvail = LinkCapacity
=============================================================================
