------------------------------- MODULE Placement -------------------------------
(***************************************************************************)
(* PreparedController's place, route and undo of                            *)
(* virne/core/controller/{controller,node_mapper,link_mapper}.cpp, in their  *)
(* safe mode: the mapping tables of one Solution and the resources of the    *)
(* physical network they are taken from.                                     *)
(*                                                                           *)
(* Every node and link has one integer resource.  A virtual network never    *)
(* changes, so that what the journals record is which entries exist: the     *)
(* amount of an entry is the demand of its virtual node or link.             *)
(* The path finder and its constraint checks are external: any path it can   *)
(* return may be the first feasible one, and it may always find none.        *)
(***************************************************************************)
EXTENDS Sequences, Totals

CONSTANTS
  VNodes,        \* virtual nodes
  VLinks,        \* virtual links, each in the orientation of the graph
  NodeDemand,    \* resources of virtual nodes
  LinkDemand,    \* resources of virtual links, by orientation
  PNodes, PLinks,
  NodeCapacity, LinkCapacity,
  Paths          \* what the finder can return for a pair of hosts

Reversed(l) == <<l[2], l[1]>>
Adjacent == VLinks \cup {Reversed(l) : l \in VLinks}

ASSUME PlacementAssumption ==
  /\ IsFiniteSet(VNodes) /\ IsFiniteSet(PNodes) /\ IsFiniteSet(PLinks)
  /\ VLinks \subseteq VNodes \X VNodes
  /\ \A l \in VLinks : l[1] # l[2] /\ Reversed(l) \notin VLinks
  /\ NodeDemand \in [VNodes -> Nat] /\ LinkDemand \in [Adjacent -> Nat]
  /\ NodeCapacity \in [PNodes -> Nat] /\ LinkCapacity \in [PLinks -> Nat]
  /\ Paths \in [PNodes \X PNodes -> SUBSET ((SUBSET PLinks) \ {{}})]

VARIABLES
  nodeAvail, linkAvail,  \* live resources of the physical network
  nodeSlots,   \* node_slots: placed nodes with their hosts, in insertion order
  nodeInfo,    \* keys of node_slots_info
  routed,      \* keys of link_paths
  linkPaths,   \* link_paths: physical links of each key, {} without one
  pathInfo     \* keys of link_paths_info

availVars == <<nodeAvail, linkAvail>>
linkVars == <<linkAvail, routed, linkPaths, pathInfo>>
placementVars == <<nodeAvail, nodeSlots, nodeInfo, linkVars>>

Slot(v, p) == [v |-> v, p |-> p]
Placed == {nodeSlots[i].v : i \in DOMAIN nodeSlots}
Hosts == {nodeSlots[i].p : i \in DOMAIN nodeSlots}
HostOf(v) == nodeSlots[CHOOSE i \in DOMAIN nodeSlots : nodeSlots[i].v = v].p
LastSlot == nodeSlots[Len(nodeSlots)]

-----------------------------------------------------------------------------
(* Faulty variants, each a plausible slip; none is used by a specification. *)
Touches_Target(l, v) == l[2] = v
WithoutLast_Slots == nodeInfo                  \* the info entry stays behind
Returned_Link(l) ==                            \* one link of the path only
  [e \in PLinks |-> linkAvail[e]
     + IF linkPaths[l] # {} /\ e = CHOOSE x \in linkPaths[l] : TRUE THEN LinkDemand[l] ELSE 0]
-----------------------------------------------------------------------------

PlacementInit ==
  /\ nodeAvail = NodeCapacity /\ linkAvail = LinkCapacity
  /\ nodeSlots = <<>> /\ nodeInfo = {}
  /\ routed = {} /\ linkPaths = [l \in Adjacent |-> {}] /\ pathInfo = {}

ResetPlacement ==
  /\ nodeAvail' = NodeCapacity /\ linkAvail' = LinkCapacity
  /\ nodeSlots' = <<>> /\ nodeInfo' = {}
  /\ routed' = {} /\ linkPaths' = [l \in Adjacent |-> {}] /\ pathInfo' = {}

\* check_node_level_constraints against the live network.
Fits(v, p) == NodeDemand[v] <= nodeAvail[p]

\* node_slots.insert_or_assign: a node placed again keeps its position.
Assigned(v, p) ==
  IF v \in Placed
  THEN [i \in DOMAIN nodeSlots |-> IF nodeSlots[i].v = v THEN Slot(v, p) ELSE nodeSlots[i]]
  ELSE Append(nodeSlots, Slot(v, p))

\* commit_place_after_check of a feasible candidate.
Place(v, p) ==
  /\ Fits(v, p)
  /\ nodeAvail' = [nodeAvail EXCEPT ![p] = @ - NodeDemand[v]]
  /\ nodeSlots' = Assigned(v, p)
  /\ nodeInfo' = nodeInfo \cup {<<v, p>>}

\* links_to_route after v was placed: no orientation has an entry yet.
LinksToRoute(v) ==
  {l \in Adjacent : l[1] = v /\ l[2] \in Placed' /\ l \notin routed /\ Reversed(l) \notin routed}

Cleared(l) == pathInfo \ ({l} \X linkPaths[l])
FitsPath(l, path) == \A e \in path : LinkDemand[l] <= linkAvail[e]

\* link_mapping in place: the tables are cleared, every link is to be routed.
ClearRoutes ==
  /\ routed' = {} /\ linkPaths' = [l \in Adjacent |-> {}] /\ pathInfo' = {}
  /\ UNCHANGED linkAvail

\* safely_route: the first feasible path is written, subtracted and noted.
Route(l) ==
  \E path \in Paths[<<HostOf(l[1]), HostOf(l[2])>>] :
    /\ FitsPath(l, path)
    /\ linkAvail' = [e \in PLinks |-> IF e \in path THEN linkAvail[e] - LinkDemand[l] ELSE linkAvail[e]]
    /\ routed' = routed \cup {l}
    /\ linkPaths' = [linkPaths EXCEPT ![l] = path]
    /\ pathInfo' = Cleared(l) \cup ({l} \X path)

\* No feasible path: the table keeps an empty entry for the link.
RouteFails(l) ==
  /\ routed' = routed \cup {l}
  /\ linkPaths' = [linkPaths EXCEPT ![l] = {}]
  /\ pathInfo' = Cleared(l)
  /\ UNCHANGED linkAvail

\* undo_place of the node placed last, which is how every caller uses it.
WithoutLast == nodeInfo \ {<<LastSlot.v, LastSlot.p>>}
UndoPlace ==
  /\ nodeAvail' = [nodeAvail EXCEPT ![LastSlot.p] = @ + NodeDemand[LastSlot.v]]
  /\ nodeSlots' = SubSeq(nodeSlots, 1, Len(nodeSlots) - 1)
  /\ nodeInfo' = WithoutLast

\* The link_paths entries that undo_place_and_route undoes after it.
Touches(l, v) == l[1] = v \/ l[2] = v
LinksToUndo(v) == {l \in routed : Touches(l, v)}

Returned(l) == [e \in PLinks |-> IF e \in linkPaths[l] THEN linkAvail[e] + LinkDemand[l] ELSE linkAvail[e]]

UndoRoute(l) ==
  /\ linkAvail' = Returned(l)
  /\ routed' = routed \ {l}
  /\ linkPaths' = [linkPaths EXCEPT ![l] = {}]
  /\ pathInfo' = pathInfo \ ({l} \X linkPaths[l])

\* What a journal accounts for: the demands of its entries at one host or link.
NodeCharge == [x \in VNodes \X PNodes |-> NodeDemand[x[1]]]
LinkCharge == [x \in Adjacent \X PLinks |-> LinkDemand[x[1]]]
NodesHeld(p) == TotalOf({x \in nodeInfo : x[2] = p}, NodeCharge)
LinksHeld(e) == TotalOf({x \in pathInfo : x[2] = e}, LinkCharge)

\* PreparedControllerMutation::rollback: the checkpoint if one is open, else
\* every entry of the journals is given back.  The Solution is left alone.
Rollback(checkpoint) ==
  /\ nodeAvail' = IF checkpoint THEN NodeCapacity ELSE [p \in PNodes |-> nodeAvail[p] + NodesHeld(p)]
  /\ linkAvail' = IF checkpoint THEN LinkCapacity ELSE [e \in PLinks |-> linkAvail[e] + LinksHeld(e)]
  /\ UNCHANGED <<nodeSlots, nodeInfo, routed, linkPaths, pathInfo>>

-----------------------------------------------------------------------------
SlotType == [v : VNodes, p : PNodes]

\* Types; no resource of the physical network is ever negative.
PlacementTypeOK ==
  /\ nodeAvail \in [PNodes -> Nat] /\ linkAvail \in [PLinks -> Nat]
  /\ nodeSlots \in Seq(SlotType) /\ nodeInfo \subseteq VNodes \X PNodes
  /\ routed \subseteq Adjacent /\ linkPaths \in [Adjacent -> SUBSET PLinks]
  /\ pathInfo \subseteq Adjacent \X PLinks

\* The journals list exactly what the mapping tables do, so that rolling a
\* Solution back by its journal and releasing it by its tables agree, and no
\* undo finds an entry missing.
JournalMatches ==
  /\ nodeInfo = {<<nodeSlots[i].v, nodeSlots[i].p>> : i \in DOMAIN nodeSlots}
  /\ pathInfo = {x \in Adjacent \X PLinks : x[2] \in linkPaths[x[1]]}

\* What the journal lists and what the network has left add up to what it had,
\* after any sequence of placements, failed routes and undone ones.
NodesBalanced == \A p \in PNodes : NodeCapacity[p] = nodeAvail[p] + NodesHeld(p)
LinksBalanced == \A e \in PLinks : LinkCapacity[e] = linkAvail[e] + LinksHeld(e)
Balanced == NodesBalanced /\ LinksBalanced

\* Both ends of a link are placed and its path joins their hosts.
Joins(l) ==
  /\ {l[1], l[2]} \subseteq Placed
  /\ linkPaths[l] \in Paths[<<HostOf(l[1]), HostOf(l[2])>>]

\* Every link between placed nodes is routed, in one orientation, along a path
\* that joins their hosts, and the tables hold no other link.
RoutesAreWhole ==
  /\ \A l \in VLinks : {l[1], l[2]} \subseteq Placed => (l \in routed) # (Reversed(l) \in routed)
  /\ \A l \in routed : Joins(l)
=============================================================================
