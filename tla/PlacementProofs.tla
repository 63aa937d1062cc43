--------------------------- MODULE PlacementProofs ---------------------------
(***************************************************************************)
(* Proofs about Placement and the two programs that use it here, for any     *)
(* virtual and physical network and any path finder, and about the           *)
(* population searches.                                                      *)
(*                                                                           *)
(* InstanceEnvironment, for any agent: the routes of the tables join the     *)
(* hosts of the slots, a mapping that goes on is whole, resources and        *)
(* journals balance, and an agent that heeds the masks never makes the same  *)
(* placement twice.  BfsDeploy, for any rankings, roots and limits: no host  *)
(* is offered twice, what is committed is whole, and what is rolled back     *)
(* leaves the network as it was, with a checkpoint or by the journal.        *)
(*                                                                           *)
(* MetaHeuristic, for any fitness: positions are full and without a host     *)
(* twice, and the best that was evaluated is kept.                           *)
(***************************************************************************)
EXTENDS InstanceEnvironment, HeuristicSolvers, CommonLemmas

\* The slots are of distinct virtual nodes.
DistinctNodes ==
  \A i, j \in DOMAIN nodeSlots : nodeSlots[i].v = nodeSlots[j].v => i = j

\* The journals agree with the tables, which have a link in one orientation.
TablesInv ==
  /\ JournalMatches
  /\ \A l \in Adjacent \ routed : linkPaths[l] = {}
  /\ \A l \in routed : Reversed(l) \notin routed

-----------------------------------------------------------------------------
(* Links, slots and routes.                                                 *)

LEMMA AdjacentLinks ==
  /\ \A l \in Adjacent : /\ Reversed(l) \in Adjacent /\ Reversed(Reversed(l)) = l
                         /\ l[1] \in VNodes /\ l[2] \in VNodes /\ l[1] # l[2]
                         /\ Reversed(l)[1] = l[2] /\ Reversed(l)[2] = l[1]
                         /\ l \in VLinks \/ Reversed(l) \in VLinks
  /\ VLinks \subseteq Adjacent
  /\ \A l \in VLinks : Reversed(l) \notin VLinks
<1>1. \A l \in VLinks : /\ l = <<l[1], l[2]>> /\ l[1] \in VNodes /\ l[2] \in VNodes /\ l[1] # l[2]
                        /\ Reversed(l) \notin VLinks
  BY PlacementAssumption
<1>2. ASSUME NEW l \in VLinks
      PROVE  /\ Reversed(l) = <<l[2], l[1]>> /\ Reversed(Reversed(l)) = l
             /\ Reversed(l)[1] = l[2] /\ Reversed(l)[2] = l[1]
  BY <1>1 DEF Reversed
<1>3. \A l \in Adjacent : l \in VLinks \/ \E k \in VLinks : l = Reversed(k)
  BY DEF Adjacent
<1>4. \A l \in VLinks : l \in Adjacent /\ Reversed(l) \in Adjacent
  BY DEF Adjacent
<1> QED
  BY <1>1, <1>2, <1>3, <1>4

\* The slots of distinct nodes are a function from nodes to hosts.
LEMMA HostOfSlot ==
  ASSUME PlacementTypeOK, DistinctNodes, NEW i \in DOMAIN nodeSlots
  PROVE  /\ HostOf(nodeSlots[i].v) = nodeSlots[i].p
         /\ nodeSlots[i] \in SlotType /\ nodeSlots[i].v \in Placed
<1>1. nodeSlots[i] \in SlotType /\ nodeSlots[i].v \in Placed
  BY DEF PlacementTypeOK, Placed
<1>2. PICK j \in DOMAIN nodeSlots :
        /\ nodeSlots[j].v = nodeSlots[i].v /\ HostOf(nodeSlots[i].v) = nodeSlots[j].p
  BY DEF HostOf
<1> QED
  BY <1>1, <1>2 DEF DistinctNodes

LEMMA AppendSlot ==
  ASSUME PlacementTypeOK, DistinctNodes, NEW v \in VNodes, NEW p \in PNodes, v \notin Placed,
         nodeSlots' = Append(nodeSlots, Slot(v, p))
  PROVE  /\ nodeSlots' \in Seq(SlotType) /\ nodeSlots' # <<>>
         /\ Len(nodeSlots') = Len(nodeSlots) + 1 /\ LastSlot' = Slot(v, p)
         /\ DOMAIN nodeSlots' = 1 .. Len(nodeSlots) + 1
         /\ \A i \in DOMAIN nodeSlots : nodeSlots'[i] = nodeSlots[i]
         /\ nodeSlots'[Len(nodeSlots) + 1] = Slot(v, p)
         /\ \A i, j \in DOMAIN nodeSlots' : nodeSlots'[i].v = nodeSlots'[j].v => i = j
         /\ Placed' = Placed \cup {v}
         /\ \A u \in Placed : HostOf(u)' = HostOf(u)
<1>1. nodeSlots \in Seq(SlotType) /\ Slot(v, p) \in SlotType
  BY DEF PlacementTypeOK, Slot, SlotType
<1>2. /\ nodeSlots' \in Seq(SlotType) /\ nodeSlots' # <<>>
      /\ Len(nodeSlots') = Len(nodeSlots) + 1
      /\ DOMAIN nodeSlots' = 1 .. Len(nodeSlots) + 1 /\ DOMAIN nodeSlots = 1 .. Len(nodeSlots)
      /\ \A i \in DOMAIN nodeSlots : nodeSlots'[i] = nodeSlots[i]
      /\ nodeSlots'[Len(nodeSlots) + 1] = Slot(v, p)
      /\ Len(nodeSlots) \in Nat
  BY <1>1
<1>3. LastSlot' = Slot(v, p)
  BY <1>2 DEF LastSlot
<1>4. \A i \in DOMAIN nodeSlots' : i \in DOMAIN nodeSlots \/ i = Len(nodeSlots) + 1
  BY <1>2
<1>5. \A i \in DOMAIN nodeSlots : nodeSlots[i].v \in Placed /\ nodeSlots[i].v # v
  BY DEF Placed
<1>6. \A i, j \in DOMAIN nodeSlots' : nodeSlots'[i].v = nodeSlots'[j].v => i = j
  BY <1>2, <1>4, <1>5 DEF DistinctNodes, Slot
<1>7. Placed' = Placed \cup {v}
  <2>1. \A u : u \in Placed' <=> \E i \in DOMAIN nodeSlots' : nodeSlots'[i].v = u
    BY DEF Placed
  <2>2. \A u : u \in Placed <=> \E i \in DOMAIN nodeSlots : nodeSlots[i].v = u
    BY DEF Placed
  <2>3. Len(nodeSlots) + 1 \in DOMAIN nodeSlots' /\ DOMAIN nodeSlots \subseteq DOMAIN nodeSlots'
    BY <1>2
  <2> QED
    BY <1>2, <1>4, <2>1, <2>2, <2>3 DEF Slot
<1>8. ASSUME NEW u \in Placed PROVE HostOf(u)' = HostOf(u)
  <2>1. PICK i \in DOMAIN nodeSlots : nodeSlots[i].v = u
    BY DEF Placed
  <2>2. HostOf(u) = nodeSlots[i].p
    BY <2>1, HostOfSlot
  <2>3. PICK j \in DOMAIN nodeSlots' : nodeSlots'[j].v = u /\ HostOf(u)' = nodeSlots'[j].p
    <3>1. i \in DOMAIN nodeSlots' /\ nodeSlots'[i].v = u
      BY <1>2, <2>1
    <3> QED
      BY <3>1 DEF HostOf
  <2>4. j = i
    BY <1>2, <1>6, <2>1, <2>3
  <2> QED
    BY <1>2, <2>2, <2>3, <2>4
<1> QED
  BY <1>2, <1>3, <1>6, <1>7, <1>8

LEMMA DropSlot ==
  ASSUME PlacementTypeOK, DistinctNodes, nodeSlots # <<>>,
         nodeSlots' = SubSeq(nodeSlots, 1, Len(nodeSlots) - 1)
  PROVE  /\ nodeSlots' \in Seq(SlotType) /\ Len(nodeSlots') = Len(nodeSlots) - 1
         /\ Len(nodeSlots) \in DOMAIN nodeSlots /\ LastSlot \in SlotType /\ LastSlot.v \in Placed
         /\ DOMAIN nodeSlots' = 1 .. Len(nodeSlots) - 1
         /\ DOMAIN nodeSlots' \subseteq DOMAIN nodeSlots
         /\ \A i \in DOMAIN nodeSlots' : nodeSlots'[i] = nodeSlots[i]
         /\ \A i, j \in DOMAIN nodeSlots' : nodeSlots'[i].v = nodeSlots'[j].v => i = j
         /\ Placed' = Placed \ {LastSlot.v}
         /\ \A u \in Placed' : HostOf(u)' = HostOf(u)
<1>1. /\ nodeSlots \in Seq(SlotType) /\ Len(nodeSlots) \in Nat /\ Len(nodeSlots) # 0
      /\ DOMAIN nodeSlots = 1 .. Len(nodeSlots)
  BY DEF PlacementTypeOK
<1>2. /\ nodeSlots' \in Seq(SlotType) /\ Len(nodeSlots') = Len(nodeSlots) - 1
      /\ DOMAIN nodeSlots' = 1 .. Len(nodeSlots) - 1
      /\ \A i \in DOMAIN nodeSlots' : nodeSlots'[i] = nodeSlots[i]
  BY <1>1
<1>3. /\ Len(nodeSlots) \in DOMAIN nodeSlots /\ DOMAIN nodeSlots' \subseteq DOMAIN nodeSlots
      /\ \A i \in DOMAIN nodeSlots : i \in DOMAIN nodeSlots' \/ i = Len(nodeSlots)
      /\ Len(nodeSlots) \notin DOMAIN nodeSlots'
  BY <1>1, <1>2
<1>4. LastSlot \in SlotType /\ LastSlot.v \in Placed
  BY <1>3, HostOfSlot DEF LastSlot
<1>5. \A i, j \in DOMAIN nodeSlots' : nodeSlots'[i].v = nodeSlots'[j].v => i = j
  BY <1>2, <1>3 DEF DistinctNodes
<1>6. Placed' = Placed \ {LastSlot.v}
  <2>1. \A u : u \in Placed' <=> \E i \in DOMAIN nodeSlots' : nodeSlots'[i].v = u
    BY DEF Placed
  <2>2. \A u : u \in Placed <=> \E i \in DOMAIN nodeSlots : nodeSlots[i].v = u
    BY DEF Placed
  <2>3. \A i \in DOMAIN nodeSlots' : nodeSlots[i].v # LastSlot.v
    BY <1>3 DEF DistinctNodes, LastSlot
  <2>4. ASSUME NEW u, u \in Placed' PROVE u \in Placed /\ u # LastSlot.v
    BY <1>2, <1>3, <2>1, <2>2, <2>3, <2>4
  <2>5. ASSUME NEW u, u \in Placed, u # LastSlot.v PROVE u \in Placed'
    <3>1. PICK i \in DOMAIN nodeSlots : nodeSlots[i].v = u
      BY <2>2, <2>5
    <3>2. i \in DOMAIN nodeSlots'
      BY <1>3, <2>5, <3>1 DEF LastSlot
    <3> QED
      BY <1>2, <2>1, <3>1, <3>2
  <2> QED
    BY <2>4, <2>5
<1>7. ASSUME NEW u \in Placed' PROVE HostOf(u)' = HostOf(u)
  <2>1. PICK i \in DOMAIN nodeSlots' : nodeSlots'[i].v = u /\ HostOf(u)' = nodeSlots'[i].p
    BY DEF Placed, HostOf
  <2>2. HostOf(u) = nodeSlots[i].p
    BY <1>2, <1>3, <2>1, HostOfSlot
  <2> QED
    BY <1>2, <2>1, <2>2
<1> QED
  BY <1>2, <1>3, <1>4, <1>5, <1>6, <1>7

LEMMA JoinsKept ==
  ASSUME NEW l \in Adjacent, Joins(l), linkPaths'[l] = linkPaths[l],
         {l[1], l[2]} \subseteq Placed',
         \A u \in {l[1], l[2]} : HostOf(u)' = HostOf(u)
  PROVE  Joins(l)'
  BY DEF Joins

-----------------------------------------------------------------------------
(* What placing, routing and undoing do to tables and journals.             *)

LEMMA PlaceTables ==
  ASSUME PlacementTypeOK, DistinctNodes, TablesInv,
         NEW v \in VNodes, NEW p \in PNodes, v \notin Placed, Place(v, p)
  PROVE  /\ nodeSlots' = Append(nodeSlots, Slot(v, p))
         /\ nodeAvail' \in [PNodes -> Nat] /\ nodeInfo' \subseteq VNodes \X PNodes
         /\ nodeInfo' = {<<nodeSlots'[i].v, nodeSlots'[i].p>> : i \in DOMAIN nodeSlots'}
<1>1. nodeSlots' = Append(nodeSlots, Slot(v, p)) /\ nodeInfo' = nodeInfo \cup {<<v, p>>}
  BY DEF Place, Assigned
<1>2. /\ DOMAIN nodeSlots' = 1 .. Len(nodeSlots) + 1
      /\ \A i \in DOMAIN nodeSlots : nodeSlots'[i] = nodeSlots[i]
      /\ nodeSlots'[Len(nodeSlots) + 1] = Slot(v, p)
      /\ DOMAIN nodeSlots = 1 .. Len(nodeSlots) /\ Len(nodeSlots) \in Nat
  BY <1>1, AppendSlot DEF PlacementTypeOK
<1>3. nodeAvail' \in [PNodes -> Nat]
  <2>1. nodeAvail \in [PNodes -> Nat] /\ NodeDemand[v] \in Nat /\ NodeDemand[v] <= nodeAvail[p]
    BY PlacementAssumption DEF PlacementTypeOK, Place, Fits
  <2>2. nodeAvail[p] - NodeDemand[v] \in Nat
    BY <2>1
  <2> QED
    BY <2>1, <2>2 DEF Place
<1>4. nodeInfo = {<<nodeSlots[i].v, nodeSlots[i].p>> : i \in DOMAIN nodeSlots}
  BY DEF TablesInv, JournalMatches
<1>5. DOMAIN nodeSlots' = DOMAIN nodeSlots \cup {Len(nodeSlots) + 1}
  BY <1>2
<1>6. nodeInfo' = {<<nodeSlots'[i].v, nodeSlots'[i].p>> : i \in DOMAIN nodeSlots'}
  BY <1>1, <1>2, <1>4, <1>5 DEF Slot
<1>7. nodeInfo' \subseteq VNodes \X PNodes
  BY <1>1 DEF PlacementTypeOK
<1> QED
  BY <1>1, <1>3, <1>6, <1>7

\* undo_place: the journal loses the entry of the slot, the host its demand.
LEMMA UndoPlaceTables ==
  ASSUME PlacementTypeOK, DistinctNodes, TablesInv, nodeSlots # <<>>, UndoPlace
  PROVE  /\ nodeAvail' \in [PNodes -> Nat] /\ nodeInfo' \subseteq VNodes \X PNodes
         /\ nodeInfo' = {<<nodeSlots'[i].v, nodeSlots'[i].p>> : i \in DOMAIN nodeSlots'}
<1>1. nodeSlots' = SubSeq(nodeSlots, 1, Len(nodeSlots) - 1) /\ nodeInfo' = WithoutLast
  BY DEF UndoPlace
<1>2. /\ DOMAIN nodeSlots' = 1 .. Len(nodeSlots) - 1 /\ DOMAIN nodeSlots' \subseteq DOMAIN nodeSlots
      /\ \A i \in DOMAIN nodeSlots' : nodeSlots'[i] = nodeSlots[i]
      /\ Len(nodeSlots) \in DOMAIN nodeSlots /\ LastSlot \in SlotType
  BY <1>1, DropSlot
<1>3. nodeAvail' \in [PNodes -> Nat]
  <2>1. LastSlot.v \in VNodes /\ LastSlot.p \in PNodes /\ NodeDemand[LastSlot.v] \in Nat
    BY <1>2, PlacementAssumption DEF SlotType
  <2>2. nodeAvail \in [PNodes -> Nat]
    BY DEF PlacementTypeOK
  <2> QED
    BY <2>1, <2>2 DEF UndoPlace
<1>4. nodeInfo = {<<nodeSlots[i].v, nodeSlots[i].p>> : i \in DOMAIN nodeSlots}
  BY DEF TablesInv, JournalMatches
<1>5. ASSUME NEW i \in DOMAIN nodeSlots
      PROVE  i \in DOMAIN nodeSlots' <=> <<nodeSlots[i].v, nodeSlots[i].p>> # <<LastSlot.v, LastSlot.p>>
  <2>1. i \in DOMAIN nodeSlots' <=> i # Len(nodeSlots)
    BY <1>2 DEF PlacementTypeOK
  <2>2. nodeSlots[i].v = LastSlot.v => i = Len(nodeSlots)
    BY <1>2 DEF DistinctNodes, LastSlot
  <2> QED
    BY <2>1, <2>2 DEF LastSlot
<1>6. nodeInfo' = {<<nodeSlots'[i].v, nodeSlots'[i].p>> : i \in DOMAIN nodeSlots'}
  <2>1. nodeInfo' = {x \in nodeInfo : x # <<LastSlot.v, LastSlot.p>>}
    BY <1>1 DEF WithoutLast
  <2> QED
    BY <1>2, <1>4, <1>5, <2>1
<1>7. nodeInfo' \subseteq VNodes \X PNodes
  BY <1>1 DEF WithoutLast, PlacementTypeOK
<1> QED
  BY <1>3, <1>6, <1>7

\* A link without an entry has no path in the tables, nor in the journal.
LEMMA FreeLink ==
  ASSUME TablesInv, NEW l \in Adjacent, l \notin routed
  PROVE  linkPaths[l] = {} /\ Cleared(l) = pathInfo
  BY DEF TablesInv, Cleared

LEMMA RouteTables ==
  ASSUME PlacementTypeOK, DistinctNodes, TablesInv,
         NEW l \in Adjacent, l \notin routed, {l[1], l[2]} \subseteq Placed, Route(l)
  PROVE  /\ linkAvail' \in [PLinks -> Nat] /\ routed' = routed \cup {l}
         /\ linkPaths' \in [Adjacent -> SUBSET PLinks]
         /\ linkPaths'[l] \in Paths[<<HostOf(l[1]), HostOf(l[2])>>]
         /\ \A k \in Adjacent : k # l => linkPaths'[k] = linkPaths[k]
         /\ pathInfo' = {x \in Adjacent \X PLinks : x[2] \in linkPaths'[x[1]]}
<1>1. linkPaths[l] = {} /\ Cleared(l) = pathInfo
  BY FreeLink
<1>2. PICK path \in Paths[<<HostOf(l[1]), HostOf(l[2])>>] :
        /\ FitsPath(l, path)
        /\ linkAvail' = [e \in PLinks |-> IF e \in path THEN linkAvail[e] - LinkDemand[l] ELSE linkAvail[e]]
        /\ routed' = routed \cup {l}
        /\ linkPaths' = [linkPaths EXCEPT ![l] = path]
        /\ pathInfo' = Cleared(l) \cup ({l} \X path)
  BY DEF Route
<1>3. path \subseteq PLinks
  <2>1. \A u \in Placed : HostOf(u) \in PNodes
    <3>1. \A i \in DOMAIN nodeSlots : HostOf(nodeSlots[i].v) \in PNodes
      BY HostOfSlot DEF SlotType
    <3> QED
      BY <3>1 DEF Placed
  <2>2. <<HostOf(l[1]), HostOf(l[2])>> \in PNodes \X PNodes
    BY <1>1, <2>1
  <2> QED
    BY <2>2, PlacementAssumption
<1>4. /\ linkAvail \in [PLinks -> Nat] /\ linkPaths \in [Adjacent -> SUBSET PLinks]
      /\ pathInfo = {x \in Adjacent \X PLinks : x[2] \in linkPaths[x[1]]}
      /\ LinkDemand[l] \in Nat
  BY <1>1, PlacementAssumption DEF PlacementTypeOK, TablesInv, JournalMatches
<1>5. linkAvail' \in [PLinks -> Nat]
  <2>1. ASSUME NEW e \in PLinks
        PROVE  (IF e \in path THEN linkAvail[e] - LinkDemand[l] ELSE linkAvail[e]) \in Nat
    BY <1>2, <1>4 DEF FitsPath
  <2> QED
    BY <1>2, <2>1
<1>6. /\ linkPaths' \in [Adjacent -> SUBSET PLinks] /\ linkPaths'[l] = path
      /\ \A k \in Adjacent : k # l => linkPaths'[k] = linkPaths[k]
  BY <1>1, <1>2, <1>3, <1>4
<1>7. pathInfo' = {x \in Adjacent \X PLinks : x[2] \in linkPaths'[x[1]]}
  <2>1. ASSUME NEW k \in Adjacent, NEW e \in PLinks
        PROVE  <<k, e>> \in pathInfo' <=> e \in linkPaths'[k]
    BY <1>1, <1>2, <1>4, <1>6
  <2>2. pathInfo' \subseteq Adjacent \X PLinks
    BY <1>1, <1>2, <1>3, <1>4
  <2> QED
    BY <2>1, <2>2
<1> QED
  BY <1>2, <1>5, <1>6, <1>7

LEMMA RouteFailsTables ==
  ASSUME PlacementTypeOK, TablesInv, NEW l \in Adjacent, l \notin routed, RouteFails(l)
  PROVE  /\ linkAvail' = linkAvail /\ routed' = routed \cup {l}
         /\ linkPaths' = linkPaths /\ pathInfo' = pathInfo
<1>1. linkPaths[l] = {} /\ Cleared(l) = pathInfo
  BY FreeLink
<1>2. linkPaths \in [Adjacent -> SUBSET PLinks]
  BY DEF PlacementTypeOK
<1>3. [linkPaths EXCEPT ![l] = {}] = linkPaths
  BY <1>1, <1>2
<1> QED
  BY <1>1, <1>3 DEF RouteFails

\* A revocation or an undo takes back what the tables have of one link.
LEMMA UndoRouteTables ==
  ASSUME PlacementTypeOK, TablesInv, NEW l \in routed, UndoRoute(l)
  PROVE  /\ linkAvail' \in [PLinks -> Nat] /\ routed' = routed \ {l}
         /\ linkPaths' \in [Adjacent -> SUBSET PLinks] /\ linkPaths'[l] = {}
         /\ \A k \in Adjacent : k # l => linkPaths'[k] = linkPaths[k]
         /\ pathInfo' = {x \in Adjacent \X PLinks : x[2] \in linkPaths'[x[1]]}
<1>1. l \in Adjacent
  BY DEF PlacementTypeOK
<1>2. /\ routed' = routed \ {l} /\ linkPaths' = [linkPaths EXCEPT ![l] = {}]
      /\ pathInfo' = pathInfo \ ({l} \X linkPaths[l])
      /\ linkAvail' = [e \in PLinks |-> IF e \in linkPaths[l] THEN linkAvail[e] + LinkDemand[l] ELSE linkAvail[e]]
  BY DEF UndoRoute, Returned
<1>3. /\ linkAvail \in [PLinks -> Nat] /\ linkPaths \in [Adjacent -> SUBSET PLinks]
      /\ pathInfo = {x \in Adjacent \X PLinks : x[2] \in linkPaths[x[1]]}
      /\ LinkDemand[l] \in Nat
  BY <1>1, PlacementAssumption DEF PlacementTypeOK, TablesInv, JournalMatches
<1>4. /\ linkPaths' \in [Adjacent -> SUBSET PLinks] /\ linkPaths'[l] = {}
      /\ \A k \in Adjacent : k # l => linkPaths'[k] = linkPaths[k]
  BY <1>1, <1>2, <1>3
<1>5. linkAvail' \in [PLinks -> Nat]
  <2>1. ASSUME NEW e \in PLinks
        PROVE  (IF e \in linkPaths[l] THEN linkAvail[e] + LinkDemand[l] ELSE linkAvail[e]) \in Nat
    BY <1>3
  <2> QED
    BY <1>2, <2>1
<1>6. pathInfo' = {x \in Adjacent \X PLinks : x[2] \in linkPaths'[x[1]]}
  <2>1. ASSUME NEW k \in Adjacent, NEW e \in PLinks
        PROVE  <<k, e>> \in pathInfo' <=> e \in linkPaths'[k]
    BY <1>2, <1>3, <1>4
  <2>2. pathInfo' \subseteq Adjacent \X PLinks
    BY <1>2, <1>3
  <2> QED
    BY <2>1, <2>2
<1> QED
  BY <1>2, <1>4, <1>5, <1>6

-----------------------------------------------------------------------------
(* What is left of the resources and what the journals list.                *)

\* Journals are finite, and charge natural amounts.
LEMMA JournalsCharge ==
  ASSUME PlacementTypeOK
  PROVE  /\ \A p : IsFiniteSet({x \in nodeInfo : x[2] = p})
         /\ \A e : IsFiniteSet({x \in pathInfo : x[2] = e})
         /\ \A x \in VNodes \X PNodes : NodeCharge[x] = NodeDemand[x[1]] /\ NodeCharge[x] \in Nat
         /\ \A x \in Adjacent \X PLinks : LinkCharge[x] = LinkDemand[x[1]] /\ LinkCharge[x] \in Nat
<1>1. IsFiniteSet(VNodes \X PNodes)
  BY PlacementAssumption, FS_Product
<1>2. IsFiniteSet(Adjacent)
  <2>1. IsFiniteSet(VNodes \X VNodes)
    BY PlacementAssumption, FS_Product
  <2>2. Adjacent \subseteq VNodes \X VNodes
    <3>1. \A l \in VLinks : l \in VNodes \X VNodes /\ Reversed(l) \in VNodes \X VNodes
      BY PlacementAssumption DEF Reversed
    <3> QED
      BY <3>1 DEF Adjacent
  <2> QED
    BY <2>1, <2>2, FS_Subset
<1>3. IsFiniteSet(Adjacent \X PLinks)
  BY <1>2, PlacementAssumption, FS_Product
<1>4. \A p : {x \in nodeInfo : x[2] = p} \subseteq VNodes \X PNodes
  BY DEF PlacementTypeOK
<1>5. \A e : {x \in pathInfo : x[2] = e} \subseteq Adjacent \X PLinks
  BY DEF PlacementTypeOK
<1>6. \A x \in VNodes \X PNodes : NodeCharge[x] = NodeDemand[x[1]] /\ NodeCharge[x] \in Nat
  BY PlacementAssumption DEF NodeCharge
<1>7. \A x \in Adjacent \X PLinks : LinkCharge[x] = LinkDemand[x[1]] /\ LinkCharge[x] \in Nat
  BY PlacementAssumption DEF LinkCharge
<1>8. \A p : IsFiniteSet({x \in nodeInfo : x[2] = p})
  BY <1>1, <1>4, FS_Subset
<1>9. \A e : IsFiniteSet({x \in pathInfo : x[2] = e})
  BY <1>3, <1>5, FS_Subset
<1> QED
  BY <1>6, <1>7, <1>8, <1>9

LEMMA HeldIsNat ==
  ASSUME PlacementTypeOK
  PROVE  (\A p : NodesHeld(p) \in Nat) /\ (\A e : LinksHeld(e) \in Nat)
<1>1. ASSUME NEW p PROVE NodesHeld(p) \in Nat
  <2>1. \A x \in {x \in nodeInfo : x[2] = p} : NodeCharge[x] \in Nat
    BY JournalsCharge DEF PlacementTypeOK
  <2> QED
    BY <2>1, JournalsCharge, TotalIsNat DEF NodesHeld
<1>2. ASSUME NEW e PROVE LinksHeld(e) \in Nat
  <2>1. \A x \in {x \in pathInfo : x[2] = e} : LinkCharge[x] \in Nat
    BY JournalsCharge DEF PlacementTypeOK
  <2> QED
    BY <2>1, JournalsCharge, TotalIsNat DEF LinksHeld
<1> QED
  BY <1>1, <1>2

\* Empty journals account for nothing.
LEMMA NothingHeld == \A a, r : TotalOf({x \in {} : x[2] = r}, a) = 0
<1>1. \A r : {x \in {} : x[2] = r} = {}
  OBVIOUS
<1> QED
  BY <1>1, TotalOfEmpty

LEMMA PlaceBalances ==
  ASSUME PlacementTypeOK, TablesInv, NodesBalanced,
         NEW v \in VNodes, NEW p \in PNodes, v \notin Placed, Place(v, p)
  PROVE  NodesBalanced'
<1> DEFINE x == <<v, p>>
           J(q) == {y \in nodeInfo : y[2] = q}
           K(q) == {y \in nodeInfo' : y[2] = q}
<1>1. x \notin nodeInfo
  BY DEF TablesInv, JournalMatches, Placed
<1>2. /\ nodeInfo' = nodeInfo \cup {x} /\ nodeAvail' = [nodeAvail EXCEPT ![p] = @ - NodeDemand[v]]
      /\ nodeAvail \in [PNodes -> Nat] /\ nodeInfo \subseteq VNodes \X PNodes
  BY DEF Place, PlacementTypeOK
<1>3. NodeDemand[v] \in Nat /\ \A q \in PNodes : NodeCapacity[q] \in Nat
  BY PlacementAssumption
<1>4. ASSUME NEW q \in PNodes, q # p PROVE NodeCapacity[q] = nodeAvail'[q] + NodesHeld(q)'
  <2>1. K(q) = J(q) /\ nodeAvail'[q] = nodeAvail[q]
    BY <1>2, <1>4
  <2> QED
    BY <2>1 DEF NodesBalanced, NodesHeld
<1>5. NodeCapacity[p] = nodeAvail'[p] + NodesHeld(p)'
  <2>1. K(p) = J(p) \cup {x} /\ x \notin J(p)
    BY <1>1, <1>2
  <2>2. IsFiniteSet(J(p)) /\ NodeCharge[x] = NodeDemand[v] /\ \A y \in J(p) \cup {x} : NodeCharge[y] \in Nat
    BY <1>2, JournalsCharge
  <2>3. TotalOf(J(p) \cup {x}, NodeCharge) = TotalOf(J(p), NodeCharge) + NodeCharge[x]
    BY <2>1, <2>2, TotalOfAdded
  <2>4. NodesHeld(p)' = NodesHeld(p) + NodeDemand[v]
    BY <2>1, <2>2, <2>3 DEF NodesHeld
  <2>5. nodeAvail'[p] = nodeAvail[p] - NodeDemand[v] /\ nodeAvail[p] \in Nat /\ NodesHeld(p) \in Nat
    BY <1>2, HeldIsNat
  <2>6. NodeCapacity[p] = nodeAvail[p] + NodesHeld(p)
    BY DEF NodesBalanced
  <2> QED
    BY <1>3, <2>4, <2>5, <2>6
<1> QED
  BY <1>4, <1>5 DEF NodesBalanced

LEMMA UndoPlaceBalances ==
  ASSUME PlacementTypeOK, DistinctNodes, TablesInv, NodesBalanced, nodeSlots # <<>>, UndoPlace
  PROVE  NodesBalanced'
<1>1. Len(nodeSlots) \in DOMAIN nodeSlots /\ LastSlot \in SlotType
  <2>1. nodeSlots' = SubSeq(nodeSlots, 1, Len(nodeSlots) - 1)
    BY DEF UndoPlace
  <2> QED
    BY <2>1, DropSlot
<1>2. PICK v \in VNodes, p \in PNodes : v = LastSlot.v /\ p = LastSlot.p
  BY <1>1 DEF SlotType
<1> DEFINE x == <<v, p>>
           J(q) == {y \in nodeInfo : y[2] = q}
           K(q) == {y \in nodeInfo' : y[2] = q}
<1>3. /\ nodeInfo' = nodeInfo \ {x} /\ nodeAvail' = [nodeAvail EXCEPT ![p] = @ + NodeDemand[v]]
      /\ nodeAvail \in [PNodes -> Nat] /\ nodeInfo \subseteq VNodes \X PNodes
      /\ x \in nodeInfo
  BY <1>1, <1>2 DEF UndoPlace, WithoutLast, PlacementTypeOK, LastSlot, TablesInv, JournalMatches
<1>4. NodeDemand[v] \in Nat /\ \A q \in PNodes : NodeCapacity[q] \in Nat
  BY PlacementAssumption
<1>5. ASSUME NEW q \in PNodes, q # p PROVE NodeCapacity[q] = nodeAvail'[q] + NodesHeld(q)'
  <2>1. K(q) = J(q) /\ nodeAvail'[q] = nodeAvail[q]
    BY <1>3, <1>5
  <2> QED
    BY <2>1 DEF NodesBalanced, NodesHeld
<1>6. NodeCapacity[p] = nodeAvail'[p] + NodesHeld(p)'
  <2>1. K(p) = J(p) \ {x} /\ x \in J(p)
    BY <1>3
  <2>2. IsFiniteSet(J(p)) /\ NodeCharge[x] = NodeDemand[v] /\ \A y \in J(p) : NodeCharge[y] \in Nat
    BY <1>3, JournalsCharge
  <2>3. TotalOf(J(p), NodeCharge) = TotalOf(J(p) \ {x}, NodeCharge) + NodeCharge[x]
    BY <2>1, <2>2, TotalOfRemoved
  <2>4. NodesHeld(p) = NodesHeld(p)' + NodeDemand[v]
    BY <2>1, <2>2, <2>3 DEF NodesHeld
  <2>5. nodeAvail'[p] = nodeAvail[p] + NodeDemand[v] /\ nodeAvail[p] \in Nat
    BY <1>3
  <2>6. NodesHeld(p)' \in Nat
    <3>1. IsFiniteSet(J(p) \ {x}) /\ \A y \in J(p) \ {x} : NodeCharge[y] \in Nat
      BY <2>2, FS_Subset
    <3> QED
      BY <2>1, <3>1, TotalIsNat DEF NodesHeld
  <2>7. NodeCapacity[p] = nodeAvail[p] + NodesHeld(p)
    BY DEF NodesBalanced
  <2> QED
    BY <1>4, <2>4, <2>5, <2>6, <2>7
<1> QED
  BY <1>5, <1>6 DEF NodesBalanced

LEMMA RouteBalances ==
  ASSUME PlacementTypeOK, TablesInv, LinksBalanced,
         NEW l \in Adjacent, l \notin routed, Route(l), pathInfo' \subseteq Adjacent \X PLinks
  PROVE  LinksBalanced'
<1> DEFINE J(e) == {y \in pathInfo : y[2] = e}
           K(e) == {y \in pathInfo' : y[2] = e}
<1>1. PICK path \in Paths[<<HostOf(l[1]), HostOf(l[2])>>] :
        /\ FitsPath(l, path)
        /\ linkAvail' = [e \in PLinks |-> IF e \in path THEN linkAvail[e] - LinkDemand[l] ELSE linkAvail[e]]
        /\ pathInfo' = Cleared(l) \cup ({l} \X path)
  BY DEF Route
<1>2. pathInfo' = pathInfo \cup ({l} \X path) /\ \A e : <<l, e>> \notin pathInfo
  BY <1>1, FreeLink DEF TablesInv, JournalMatches
<1>3. linkAvail \in [PLinks -> Nat] /\ LinkDemand[l] \in Nat /\ pathInfo \subseteq Adjacent \X PLinks
  BY PlacementAssumption DEF PlacementTypeOK
<1>4. ASSUME NEW e \in PLinks, e \notin path PROVE LinkCapacity[e] = linkAvail'[e] + LinksHeld(e)'
  <2>1. K(e) = J(e) /\ linkAvail'[e] = linkAvail[e]
    BY <1>1, <1>2, <1>4
  <2> QED
    BY <2>1 DEF LinksBalanced, LinksHeld
<1>5. ASSUME NEW e \in PLinks, e \in path PROVE LinkCapacity[e] = linkAvail'[e] + LinksHeld(e)'
  <2> DEFINE x == <<l, e>>
  <2>1. K(e) = J(e) \cup {x} /\ x \notin J(e)
    BY <1>2, <1>5
  <2>2. IsFiniteSet(J(e)) /\ LinkCharge[x] = LinkDemand[l] /\ \A y \in J(e) \cup {x} : LinkCharge[y] \in Nat
    BY <1>3, JournalsCharge
  <2>3. TotalOf(J(e) \cup {x}, LinkCharge) = TotalOf(J(e), LinkCharge) + LinkCharge[x]
    BY <2>1, <2>2, TotalOfAdded
  <2>4. LinksHeld(e)' = LinksHeld(e) + LinkDemand[l]
    BY <2>1, <2>2, <2>3 DEF LinksHeld
  <2>5. linkAvail'[e] = linkAvail[e] - LinkDemand[l] /\ linkAvail[e] \in Nat /\ LinksHeld(e) \in Nat
    BY <1>1, <1>3, <1>5, HeldIsNat
  <2>6. LinkCapacity[e] = linkAvail[e] + LinksHeld(e)
    BY DEF LinksBalanced
  <2> QED
    BY <1>3, <2>4, <2>5, <2>6
<1> QED
  BY <1>4, <1>5 DEF LinksBalanced

LEMMA UndoRouteBalances ==
  ASSUME PlacementTypeOK, TablesInv, LinksBalanced, NEW l \in routed, UndoRoute(l)
  PROVE  LinksBalanced'
<1> DEFINE J(e) == {y \in pathInfo : y[2] = e}
           K(e) == {y \in pathInfo' : y[2] = e}
<1>1. l \in Adjacent
  BY DEF PlacementTypeOK
<1>2. /\ pathInfo' = pathInfo \ ({l} \X linkPaths[l])
      /\ linkAvail' = [e \in PLinks |-> IF e \in linkPaths[l] THEN linkAvail[e] + LinkDemand[l] ELSE linkAvail[e]]
  BY DEF UndoRoute, Returned
<1>3. linkAvail \in [PLinks -> Nat] /\ LinkDemand[l] \in Nat /\ pathInfo \subseteq Adjacent \X PLinks
  BY <1>1, PlacementAssumption DEF PlacementTypeOK
<1>4. \A e \in PLinks : <<l, e>> \in pathInfo <=> e \in linkPaths[l]
  BY <1>1 DEF TablesInv, JournalMatches
<1>5. ASSUME NEW e \in PLinks, e \notin linkPaths[l]
      PROVE  LinkCapacity[e] = linkAvail'[e] + LinksHeld(e)'
  <2>1. K(e) = J(e) /\ linkAvail'[e] = linkAvail[e]
    BY <1>2, <1>5
  <2> QED
    BY <2>1 DEF LinksBalanced, LinksHeld
<1>6. ASSUME NEW e \in PLinks, e \in linkPaths[l]
      PROVE  LinkCapacity[e] = linkAvail'[e] + LinksHeld(e)'
  <2> DEFINE x == <<l, e>>
  <2>1. K(e) = J(e) \ {x} /\ x \in J(e)
    <3>1. x \in pathInfo
      BY <1>4, <1>6
    <3>2. \A y \in pathInfo : y[2] = e => (y \in {l} \X linkPaths[l] <=> y = x)
      BY <1>3, <1>6
    <3> QED
      BY <1>2, <3>1, <3>2
  <2>2. IsFiniteSet(J(e)) /\ LinkCharge[x] = LinkDemand[l] /\ \A y \in J(e) : LinkCharge[y] \in Nat
    BY <1>1, <1>3, JournalsCharge
  <2>3. TotalOf(J(e), LinkCharge) = TotalOf(J(e) \ {x}, LinkCharge) + LinkCharge[x]
    BY <2>1, <2>2, TotalOfRemoved
  <2>4. LinksHeld(e) = LinksHeld(e)' + LinkDemand[l]
    BY <2>1, <2>2, <2>3 DEF LinksHeld
  <2>5. linkAvail'[e] = linkAvail[e] + LinkDemand[l] /\ linkAvail[e] \in Nat
    BY <1>2, <1>3, <1>6
  <2>6. LinksHeld(e)' \in Nat
    <3>1. IsFiniteSet(J(e) \ {x}) /\ \A y \in J(e) \ {x} : LinkCharge[y] \in Nat
      BY <2>2, FS_Subset
    <3> QED
      BY <2>1, <3>1, TotalIsNat DEF LinksHeld
  <2>7. LinkCapacity[e] = linkAvail[e] + LinksHeld(e)
    BY DEF LinksBalanced
  <2> QED
    BY <1>3, <2>4, <2>5, <2>6, <2>7
<1> QED
  BY <1>5, <1>6 DEF LinksBalanced

\* A rollback finds by its journals what a checkpoint would restore.
LEMMA RollbackRestores ==
  ASSUME PlacementTypeOK, Balanced, NEW checkpoint \in BOOLEAN, Rollback(checkpoint)
  PROVE  nodeAvail' = NodeCapacity /\ linkAvail' = LinkCapacity
<1>1. nodeAvail' = NodeCapacity
  <2>1. \A p \in PNodes : NodeCapacity[p] = nodeAvail[p] + NodesHeld(p)
    BY DEF Balanced, NodesBalanced
  <2>2. NodeCapacity \in [PNodes -> Nat]
    BY PlacementAssumption
  <2>3. NodeCapacity = [p \in PNodes |-> nodeAvail[p] + NodesHeld(p)]
    BY <2>1, <2>2
  <2> QED
    BY <2>3 DEF Rollback
<1>2. linkAvail' = LinkCapacity
  <2>1. \A e \in PLinks : LinkCapacity[e] = linkAvail[e] + LinksHeld(e)
    BY DEF Balanced, LinksBalanced
  <2>2. LinkCapacity \in [PLinks -> Nat]
    BY PlacementAssumption
  <2>3. LinkCapacity = [e \in PLinks |-> linkAvail[e] + LinksHeld(e)]
    BY <2>1, <2>2
  <2> QED
    BY <2>3 DEF Rollback
<1> QED
  BY <1>1, <1>2

-----------------------------------------------------------------------------
(* InstanceEnvironment.                                                      *)

\* The slots are of distinct virtual nodes, which outside node_pair mode come
\* in the order of the options.
SlotsInv ==
  /\ DistinctNodes
  /\ Len(nodeSlots) <= Len(NodeOrder)
  /\ ~Pair => \A i \in DOMAIN nodeSlots : nodeSlots[i].v = NodeOrder[i]

\* What the running call still has to do.  A call that routes after a placement
\* only routes links of the node placed last, and a revocation undoes exactly
\* the links that the tables have of the node it took back.
PhaseInv ==
  /\ pc = "idle" =>
       /\ todo = {}
       /\ status = "running" => Len(nodeSlots) < Len(NodeOrder) \/ VNodes = {}
  /\ pc = "routing" =>
       /\ status = "running" /\ nodeSlots # <<>>
       /\ Joint => \A l \in todo : l[1] = LastSlot.v
       /\ ~Joint => Len(nodeSlots) = Len(NodeOrder)
       /\ \A l \in todo : /\ {l[1], l[2]} \subseteq Placed
                          /\ l \notin routed /\ Reversed(l) \notin routed \cup todo
  /\ pc = "undoing" =>
       /\ status = "running" /\ Len(nodeSlots) < Len(NodeOrder)
       /\ undone \in SlotType /\ undone.v \notin Placed
       /\ todo = LinksToUndo(undone.v)

\* A link of the tables is whole or about to be undone, and as long as nothing
\* has failed every link between placed nodes is routed or about to be.
Pending == IF pc = "routing" THEN todo ELSE {}
UndoneSoon(l) == pc = "undoing" /\ l \in todo
WholeInv ==
  /\ RoutesFollowSlots
  /\ status \in {"running", "success"} =>
       /\ \A l \in routed : Joins(l) \/ UndoneSoon(l)
       /\ Joint \/ pc = "routing" \/ status = "success" =>
            \A l \in VLinks : {l[1], l[2]} \subseteq Placed =>
              l \in routed \cup Pending \/ Reversed(l) \in routed \cup Pending
       /\ ~Joint /\ pc # "routing" /\ status = "running" => routed = {}
  /\ status = "success" => Len(nodeSlots) = Len(NodeOrder)

\* No placement that an agent keeps to is banned where it was made.
BansInv ==
  Heeds =>
    /\ \A i \in DOMAIN nodeSlots :
         [prefix |-> SubSeq(nodeSlots, 1, i - 1), slot |-> nodeSlots[i]] \notin revoked
    /\ pc = "undoing" => [prefix |-> nodeSlots, slot |-> undone] \notin revoked

IInv == TypeOK /\ SlotsInv /\ TablesInv /\ PhaseInv /\ WholeInv /\ BansInv

\* The modes are those of an environment, not of a step.
LEMMA SameMode ==
  ASSUME UNCHANGED mode
  PROVE  Pair' = Pair /\ Joint' = Joint /\ Heeds' = Heeds
  BY DEF Pair, Joint, Heeds, FollowMask, AllowRejection

\* What the lemmas about the tables ask for.
LEMMA Shared == IInv => PlacementTypeOK /\ DistinctNodes /\ TablesInv
  BY DEF IInv, TypeOK, SlotsInv

-----------------------------------------------------------------------------
(* The initial state and resets.                                            *)

LEMMA InitIInv == Init => IInv
<1> SUFFICES ASSUME Init PROVE IInv
  OBVIOUS
<1> USE DEF Init, PlacementInit
<1>1. PlacementTypeOK
  BY PlacementAssumption DEF PlacementTypeOK
<1>2. TypeOK
  BY <1>1 DEF TypeOK
<1>3. VNodes = {} \/ Len(NodeOrder) > 0
  BY InstanceAssumption
<1>4. Len(nodeSlots) = 0 /\ DOMAIN nodeSlots = {} /\ Placed = {}
  BY DEF Placed
<1>5. SlotsInv /\ BansInv
  BY <1>4, InstanceAssumption DEF SlotsInv, DistinctNodes, BansInv
<1>6. TablesInv
  BY <1>4 DEF TablesInv, JournalMatches
<1>7. PhaseInv
  BY <1>3, <1>4, InstanceAssumption DEF PhaseInv
<1>8. WholeInv
  BY <1>4 DEF WholeInv, RoutesFollowSlots
<1> QED
  BY <1>2, <1>5, <1>6, <1>7, <1>8 DEF IInv

LEMMA ResetStep ==
  ASSUME IInv, Reset
  PROVE  IInv'
<1>1. mode' \in Modes /\ undone' \in SlotType \cup {NoSlot} /\ episodes' \in Nat
  BY DEF Reset, IInv, TypeOK, callVars
<1>2. /\ pc' = "idle" /\ todo' = {}
      /\ nodeAvail' = NodeCapacity /\ linkAvail' = LinkCapacity /\ nodeSlots' = <<>> /\ nodeInfo' = {}
      /\ routed' = {} /\ linkPaths' = [l \in Adjacent |-> {}] /\ pathInfo' = {}
      /\ status' = "running" /\ interactions' = 0 /\ revoked' = {}
  BY DEF Reset, ResetPlacement, callVars, IInv, PhaseInv
<1>3. PlacementTypeOK'
  BY <1>2, PlacementAssumption DEF PlacementTypeOK
<1>4. TypeOK'
  BY <1>1, <1>2, <1>3 DEF TypeOK
<1>5. VNodes = {} \/ Len(NodeOrder) > 0
  BY InstanceAssumption
<1>6. Len(nodeSlots') = 0 /\ DOMAIN nodeSlots' = {} /\ Placed' = {}
  BY <1>2 DEF Placed
<1>7. SlotsInv' /\ BansInv'
  BY <1>2, <1>6, InstanceAssumption DEF SlotsInv, DistinctNodes, BansInv
<1>8. TablesInv'
  BY <1>2, <1>6 DEF TablesInv, JournalMatches
<1>9. PhaseInv'
  BY <1>2, <1>5, <1>6, InstanceAssumption DEF PhaseInv
<1>10. WholeInv'
  BY <1>2, <1>6 DEF WholeInv, RoutesFollowSlots
<1> QED
  BY <1>4, <1>7, <1>8, <1>9, <1>10 DEF IInv

-----------------------------------------------------------------------------
(* Steps that leave the tables alone.                                       *)

\* A step that only counts, or that ends the episode without success.
LEMMA QuietStep ==
  ASSUME IInv, pc = "idle", UNCHANGED <<placementVars, callVars, revoked, run>>,
         status' = status \/ status' \in {"rejected", "placement_failed"},
         interactions' \in Nat
  PROVE  IInv'
<1> USE DEF placementVars, linkVars, callVars, run
<1>1. Pair' = Pair /\ Joint' = Joint /\ Heeds' = Heeds
  BY SameMode
<1>2. TypeOK'
  BY DEF IInv, TypeOK, PlacementTypeOK
<1>3. Placed' = Placed /\ \A l : Joins(l)' <=> Joins(l)
  BY DEF Placed, Joins, HostOf
<1>4. SlotsInv' /\ TablesInv' /\ BansInv'
  BY <1>1 DEF IInv, SlotsInv, DistinctNodes, TablesInv, JournalMatches, BansInv
<1>5. PhaseInv'
  BY DEF IInv, PhaseInv
<1>6. WholeInv'
  BY <1>1, <1>3 DEF IInv, WholeInv, RoutesFollowSlots, Pending, UndoneSoon
<1> QED
  BY <1>2, <1>4, <1>5, <1>6 DEF IInv

LEMMA Counted ==
  ASSUME TypeOK
  PROVE  interactions + 1 \in Nat /\ Interacted \in Nat
  BY DEF TypeOK, Interacted

\* The node of an action that may be taken has no slot yet.
LEMMA NextIsNew ==
  ASSUME IInv, pc = "idle", status = "running",
         NEW v \in VNodes, NEW p \in PNodes, Chosen(v, p), ~Taken(v, p)
  PROVE  /\ v \notin Placed /\ Len(nodeSlots) < Len(NodeOrder)
         /\ ~Pair => v = NodeOrder[Len(nodeSlots) + 1]
<1>1. Len(nodeSlots) < Len(NodeOrder)
  BY DEF IInv, PhaseInv
<1>2. ~Pair => v = NodeOrder[Len(nodeSlots) + 1]
  BY DEF Chosen, Current
<1>3. CASE Pair
  BY <1>1, <1>3 DEF Taken
<1>4. CASE ~Pair
  <2>1. /\ nodeSlots \in Seq(SlotType) /\ Len(nodeSlots) \in Nat
        /\ DOMAIN nodeSlots = 1 .. Len(nodeSlots)
    BY DEF IInv, TypeOK, PlacementTypeOK
  <2>2. /\ NodeOrder \in Seq(VNodes) /\ DOMAIN NodeOrder = 1 .. Len(NodeOrder) /\ Len(NodeOrder) \in Nat
        /\ \A i, j \in DOMAIN NodeOrder : NodeOrder[i] = NodeOrder[j] => i = j
    BY InstanceAssumption
  <2>3. Len(nodeSlots) + 1 \in DOMAIN NodeOrder
    BY <1>1, <2>1, <2>2
  <2>4. ASSUME NEW i \in DOMAIN nodeSlots PROVE nodeSlots[i].v # v
    <3>1. nodeSlots[i].v = NodeOrder[i]
      BY <1>4 DEF IInv, SlotsInv, DistinctNodes
    <3>2. i \in DOMAIN NodeOrder /\ i # Len(nodeSlots) + 1
      BY <1>1, <2>1, <2>2
    <3> QED
      BY <1>2, <1>4, <2>2, <2>3, <3>1, <3>2
  <2>5. v \notin Placed
    BY <2>4 DEF Placed
  <2> QED
    BY <1>1, <1>2, <2>5
<1> QED
  BY <1>3, <1>4

-----------------------------------------------------------------------------
(* Revoking.                                                                *)

\* The slots after an undo, and the bans of those that are left.
LEMMA UndoPlaceSlots ==
  ASSUME IInv, nodeSlots # <<>>, UndoPlace, UNCHANGED <<mode, revoked>>, pc' = "undoing",
         undone' = LastSlot
  PROVE  SlotsInv' /\ BansInv'
<1>1. nodeSlots' = SubSeq(nodeSlots, 1, Len(nodeSlots) - 1)
  BY DEF UndoPlace
<1>2. /\ nodeSlots' \in Seq(SlotType) /\ Len(nodeSlots') = Len(nodeSlots) - 1
      /\ DOMAIN nodeSlots' = 1 .. Len(nodeSlots) - 1 /\ DOMAIN nodeSlots' \subseteq DOMAIN nodeSlots
      /\ \A i \in DOMAIN nodeSlots' : nodeSlots'[i] = nodeSlots[i]
      /\ \A i, j \in DOMAIN nodeSlots' : nodeSlots'[i].v = nodeSlots'[j].v => i = j
      /\ Len(nodeSlots) \in DOMAIN nodeSlots
  BY <1>1, DropSlot, Shared DEF IInv
<1>3. nodeSlots \in Seq(SlotType) /\ Len(nodeSlots) \in Nat /\ Len(NodeOrder) \in Nat
  BY InstanceAssumption DEF IInv, TypeOK, PlacementTypeOK
<1>4. Pair' = Pair /\ Heeds' = Heeds
  BY SameMode
<1>5. SlotsInv'
  BY <1>2, <1>3, <1>4 DEF IInv, SlotsInv, DistinctNodes
<1>6. ASSUME Heeds, NEW i \in DOMAIN nodeSlots'
      PROVE  [prefix |-> SubSeq(nodeSlots', 1, i - 1), slot |-> nodeSlots'[i]] \notin revoked
  <2>1. SubSeq(nodeSlots', 1, i - 1) = SubSeq(nodeSlots, 1, i - 1)
    BY <1>1, <1>2, <1>3
  <2> QED
    BY <1>2, <1>6, <2>1 DEF IInv, BansInv
<1>7. ASSUME Heeds PROVE [prefix |-> nodeSlots', slot |-> LastSlot] \notin revoked
  BY <1>1, <1>2, <1>7 DEF IInv, BansInv, LastSlot
<1> QED
  BY <1>4, <1>5, <1>6, <1>7 DEF BansInv

LEMMA RevokeStep ==
  ASSUME IInv, pc = "idle", status = "running", BeginRevoke, UNCHANGED <<revoked, run>>,
         interactions' \in Nat
  PROVE  IInv'
<1> USE DEF run, linkVars
<1>1. /\ nodeSlots # <<>> /\ UndoPlace /\ undone' = LastSlot /\ todo' = LinksToUndo(LastSlot.v)
      /\ pc' = "undoing" /\ UNCHANGED <<linkVars, status>>
  BY DEF BeginRevoke
<1>2. /\ nodeSlots' \in Seq(SlotType) /\ Len(nodeSlots') = Len(nodeSlots) - 1
      /\ LastSlot \in SlotType /\ LastSlot.v \in Placed
      /\ Placed' = Placed \ {LastSlot.v}
      /\ \A u \in Placed' : HostOf(u)' = HostOf(u)
  BY <1>1, DropSlot, Shared DEF IInv, UndoPlace
<1>3. Joint' = Joint
  BY SameMode
<1>4. LinksToUndo(LastSlot.v) = {l \in routed : Touches(l, LastSlot.v)} /\ routed \subseteq Adjacent
  BY DEF LinksToUndo, IInv, TypeOK, PlacementTypeOK
<1>5. TypeOK'
  BY <1>1, <1>2, <1>4, UndoPlaceTables, Shared DEF IInv, TypeOK, PlacementTypeOK
<1>6. SlotsInv' /\ BansInv'
  BY <1>1, UndoPlaceSlots
<1>7. TablesInv'
  BY <1>1, UndoPlaceTables, Shared DEF IInv, TablesInv, JournalMatches
<1>8. PhaseInv'
  <2>1. Len(nodeSlots') < Len(NodeOrder)
    BY <1>2, InstanceAssumption DEF IInv, SlotsInv, DistinctNodes, TypeOK, PlacementTypeOK
  <2>2. undone'.v \notin Placed' /\ todo' = LinksToUndo(undone.v)'
    BY <1>1, <1>2 DEF LinksToUndo
  <2> QED
    BY <1>1, <1>2, <2>1, <2>2 DEF PhaseInv
<1>9. ASSUME NEW l \in routed PROVE Joins(l)' \/ l \in todo'
  <2>1. Joins(l) /\ l \in Adjacent
    BY <1>4, <1>9 DEF IInv, WholeInv, UndoneSoon
  <2>2. CASE Touches(l, LastSlot.v)
    BY <1>1, <1>4, <2>2
  <2>3. CASE ~Touches(l, LastSlot.v)
    BY <1>1, <1>2, <2>1, <2>3, JoinsKept DEF Joins, Touches
  <2> QED
    BY <2>2, <2>3
<1>10. ASSUME Joint, NEW l \in VLinks, {l[1], l[2]} \subseteq Placed'
       PROVE  l \in routed \/ Reversed(l) \in routed
  BY <1>2, <1>10 DEF IInv, WholeInv, Pending
<1>11. WholeInv'
  <2>1. RoutesFollowSlots'
    BY <1>1, <1>9 DEF RoutesFollowSlots
  <2>2. ~Joint => routed = {}
    BY DEF IInv, WholeInv
  <2> QED
    BY <1>1, <1>3, <1>9, <1>10, <2>1, <2>2 DEF WholeInv, UndoneSoon, Pending
<1> QED
  BY <1>5, <1>6, <1>7, <1>8, <1>11 DEF IInv

-----------------------------------------------------------------------------
(* Placing.                                                                 *)

LEMMA PlaceSlots ==
  ASSUME IInv, pc = "idle", status = "running", UNCHANGED <<mode, revoked>>, pc' # "undoing",
         NEW v \in VNodes, NEW p \in PNodes, Chosen(v, p), ~Taken(v, p), Place(v, p)
  PROVE  SlotsInv' /\ BansInv'
<1>1. nodeSlots' = Append(nodeSlots, Slot(v, p)) /\ v \notin Placed
  BY PlaceTables, NextIsNew, Shared
<1>2. /\ DOMAIN nodeSlots' = 1 .. Len(nodeSlots) + 1 /\ Len(nodeSlots') = Len(nodeSlots) + 1
      /\ \A i \in DOMAIN nodeSlots : nodeSlots'[i] = nodeSlots[i]
      /\ nodeSlots'[Len(nodeSlots) + 1] = Slot(v, p)
      /\ \A i, j \in DOMAIN nodeSlots' : nodeSlots'[i].v = nodeSlots'[j].v => i = j
  BY <1>1, AppendSlot, Shared DEF IInv
<1>3. /\ nodeSlots \in Seq(SlotType) /\ Len(nodeSlots) \in Nat /\ DOMAIN nodeSlots = 1 .. Len(nodeSlots)
      /\ nodeSlots' \in Seq(SlotType) /\ Len(NodeOrder) \in Nat
  BY <1>1, AppendSlot, Shared, InstanceAssumption DEF IInv, TypeOK, PlacementTypeOK
<1>4. Pair' = Pair /\ Heeds' = Heeds
  BY SameMode
<1>5. Len(nodeSlots) < Len(NodeOrder) /\ (~Pair => v = NodeOrder[Len(nodeSlots) + 1])
  BY NextIsNew
<1>6. \A i \in DOMAIN nodeSlots' : i \in DOMAIN nodeSlots \/ i = Len(nodeSlots) + 1
  BY <1>2, <1>3
<1>7. SlotsInv'
  <2>1. Len(nodeSlots') <= Len(NodeOrder)
    BY <1>2, <1>3, <1>5
  <2>2. ~Pair => \A i \in DOMAIN nodeSlots' : nodeSlots'[i].v = NodeOrder[i]
    BY <1>2, <1>5, <1>6 DEF IInv, SlotsInv, DistinctNodes, Slot
  <2> QED
    BY <1>2, <1>4, <2>1, <2>2 DEF SlotsInv, DistinctNodes
<1>8. ASSUME Heeds, NEW i \in DOMAIN nodeSlots'
      PROVE  [prefix |-> SubSeq(nodeSlots', 1, i - 1), slot |-> nodeSlots'[i]] \notin revoked
  <2>1. CASE i \in DOMAIN nodeSlots
    <3>1. SubSeq(nodeSlots', 1, i - 1) = SubSeq(nodeSlots, 1, i - 1)
      BY <1>1, <1>2, <1>3, <2>1
    <3> QED
      BY <1>2, <1>8, <2>1, <3>1 DEF IInv, BansInv
  <2>2. CASE i = Len(nodeSlots) + 1
    <3>1. SubSeq(nodeSlots', 1, i - 1) = nodeSlots
      BY <1>1, <1>2, <1>3, <2>2
    <3>2. ~Banned(v, p)
      BY <1>8 DEF Heeds, Chosen, Offered, Allowed
    <3> QED
      BY <1>2, <2>2, <3>1, <3>2 DEF Banned
  <2> QED
    BY <1>6, <2>1, <2>2
<1> QED
  BY <1>4, <1>7, <1>8 DEF BansInv

LEMMA PlaceJointStep ==
  ASSUME IInv, pc = "idle", status = "running", Joint, UNCHANGED <<undone, status, revoked, run>>,
         interactions' \in Nat, NEW v \in VNodes, NEW p \in PNodes, Chosen(v, p), ~Taken(v, p),
         Place(v, p), pc' = "routing", todo' = LinksToRoute(v), UNCHANGED linkVars
  PROVE  IInv'
<1> USE DEF run, linkVars
<1>1. /\ nodeSlots' = Append(nodeSlots, Slot(v, p)) /\ v \notin Placed
      /\ nodeAvail' \in [PNodes -> Nat] /\ nodeInfo' \subseteq VNodes \X PNodes
      /\ nodeInfo' = {<<nodeSlots'[i].v, nodeSlots'[i].p>> : i \in DOMAIN nodeSlots'}
  BY PlaceTables, NextIsNew, Shared
<1>2. /\ nodeSlots' \in Seq(SlotType) /\ nodeSlots' # <<>> /\ LastSlot' = Slot(v, p)
      /\ Placed' = Placed \cup {v} /\ \A u \in Placed : HostOf(u)' = HostOf(u)
  BY <1>1, AppendSlot, Shared DEF IInv
<1>3. Joint' = Joint
  BY SameMode
<1>4. /\ todo' = {l \in Adjacent : /\ l[1] = v /\ l[2] \in Placed'
                                   /\ l \notin routed /\ Reversed(l) \notin routed}
      /\ routed \subseteq Adjacent
  BY DEF LinksToRoute, IInv, TypeOK, PlacementTypeOK
<1>5. TypeOK'
  BY <1>1, <1>2, <1>4 DEF IInv, TypeOK, PlacementTypeOK
<1>6. SlotsInv' /\ BansInv'
  BY PlaceSlots
<1>7. TablesInv'
  BY <1>1 DEF IInv, TablesInv, JournalMatches
<1>8. PhaseInv'
  <2>1. ASSUME NEW l \in todo'
        PROVE  /\ l[1] = v /\ {l[1], l[2]} \subseteq Placed'
               /\ l \notin routed /\ Reversed(l) \notin routed /\ Reversed(l) \notin todo'
    BY <1>2, <1>4, AdjacentLinks
  <2> QED
    BY <1>2, <1>3, <2>1 DEF PhaseInv, Slot
<1>9. ASSUME NEW l \in routed PROVE Joins(l) /\ Joins(l)' /\ {l[1], l[2]} \subseteq Placed
  <2>1. Joins(l) /\ l \in Adjacent
    BY <1>4 DEF IInv, WholeInv, UndoneSoon
  <2> QED
    BY <1>2, <2>1, JoinsKept DEF Joins
<1>10. ASSUME NEW l \in VLinks, {l[1], l[2]} \subseteq Placed'
       PROVE  l \in routed \cup todo' \/ Reversed(l) \in routed \cup todo'
  <2>1. l \in Adjacent /\ Reversed(l) \in Adjacent /\ Reversed(Reversed(l)) = l
        /\ Reversed(l)[1] = l[2] /\ Reversed(l)[2] = l[1]
    BY AdjacentLinks
  <2>2. CASE {l[1], l[2]} \subseteq Placed
    BY <2>2 DEF IInv, WholeInv, Pending
  <2>3. CASE l[1] = v
    BY <1>4, <1>10, <2>1, <2>3
  <2>4. CASE l[2] = v
    BY <1>4, <1>10, <2>1, <2>4
  <2> QED
    BY <1>2, <1>10, <2>2, <2>3, <2>4
<1>11. WholeInv'
  <2>1. RoutesFollowSlots'
    BY <1>9 DEF RoutesFollowSlots
  <2> QED
    BY <1>3, <1>9, <1>10, <2>1 DEF WholeInv, Pending, UndoneSoon
<1> QED
  BY <1>5, <1>6, <1>7, <1>8, <1>11 DEF IInv

LEMMA PlaceOneStep ==
  ASSUME IInv, pc = "idle", status = "running", ~Joint, UNCHANGED <<undone, status, revoked, run>>,
         interactions' \in Nat, NEW v \in VNodes, NEW p \in PNodes, Chosen(v, p), ~Taken(v, p),
         Place(v, p), Len(nodeSlots) + 1 < Len(NodeOrder), UNCHANGED <<pc, todo, linkVars>>
  PROVE  IInv'
<1> USE DEF run, linkVars
<1>1. /\ nodeSlots' = Append(nodeSlots, Slot(v, p)) /\ v \notin Placed
      /\ nodeAvail' \in [PNodes -> Nat] /\ nodeInfo' \subseteq VNodes \X PNodes
      /\ nodeInfo' = {<<nodeSlots'[i].v, nodeSlots'[i].p>> : i \in DOMAIN nodeSlots'}
  BY PlaceTables, NextIsNew, Shared
<1>2. nodeSlots' \in Seq(SlotType) /\ Len(nodeSlots') = Len(nodeSlots) + 1
  BY <1>1, AppendSlot, Shared DEF IInv
<1>3. Joint' = Joint
  BY SameMode
<1>4. TypeOK'
  BY <1>1, <1>2 DEF IInv, TypeOK, PlacementTypeOK
<1>5. SlotsInv' /\ BansInv'
  BY PlaceSlots
<1>6. TablesInv'
  BY <1>1 DEF IInv, TablesInv, JournalMatches
<1>7. PhaseInv'
  BY <1>2 DEF IInv, PhaseInv
<1>8. routed = {}
  BY DEF IInv, WholeInv
<1>9. WholeInv'
  BY <1>3, <1>8 DEF WholeInv, RoutesFollowSlots
<1> QED
  BY <1>4, <1>5, <1>6, <1>7, <1>9 DEF IInv

LEMMA PlaceLastStep ==
  ASSUME IInv, pc = "idle", status = "running", ~Joint, UNCHANGED <<undone, status, revoked, run>>,
         interactions' \in Nat, NEW v \in VNodes, NEW p \in PNodes, Chosen(v, p), ~Taken(v, p),
         Place(v, p), ~(Len(nodeSlots) + 1 < Len(NodeOrder)),
         pc' = "routing", todo' = VLinks, ClearRoutes
  PROVE  IInv'
<1> USE DEF run, ClearRoutes
<1>1. /\ nodeSlots' = Append(nodeSlots, Slot(v, p)) /\ v \notin Placed
      /\ nodeAvail' \in [PNodes -> Nat] /\ nodeInfo' \subseteq VNodes \X PNodes
      /\ nodeInfo' = {<<nodeSlots'[i].v, nodeSlots'[i].p>> : i \in DOMAIN nodeSlots'}
  BY PlaceTables, NextIsNew, Shared
<1>2. /\ nodeSlots' \in Seq(SlotType) /\ nodeSlots' # <<>>
      /\ Len(nodeSlots') = Len(nodeSlots) + 1 /\ Len(nodeSlots) \in Nat
      /\ DOMAIN nodeSlots' = 1 .. Len(nodeSlots')
  BY <1>1, AppendSlot, Shared DEF IInv, TypeOK, PlacementTypeOK
<1>3. Joint' = Joint /\ Pair' = Pair /\ ~Pair
  BY SameMode DEF Joint, Pair
<1>4. /\ Len(NodeOrder) \in Nat /\ DOMAIN NodeOrder = 1 .. Len(NodeOrder)
      /\ \A u \in VNodes : \E i \in DOMAIN NodeOrder : NodeOrder[i] = u
  BY InstanceAssumption
<1>5. Len(nodeSlots') = Len(NodeOrder)
  <2>1. Len(nodeSlots) < Len(NodeOrder) /\ ~(Len(nodeSlots) + 1 < Len(NodeOrder))
    BY NextIsNew
  <2>2. \A a, b \in Nat : a < b /\ ~(a + 1 < b) => a + 1 = b
    OBVIOUS
  <2>3. Len(nodeSlots) \in Nat /\ Len(NodeOrder) \in Nat
    BY <1>2, <1>4
  <2>4. Len(nodeSlots) + 1 = Len(NodeOrder)
    BY <2>1, <2>2, <2>3
  <2> QED
    BY <1>2, <2>4
<1>6. SlotsInv' /\ BansInv'
  BY PlaceSlots
<1>7. VNodes \subseteq Placed'
  <2>1. \A i \in DOMAIN nodeSlots' : nodeSlots'[i].v = NodeOrder[i]
    BY <1>3, <1>6 DEF SlotsInv, DistinctNodes
  <2> QED
    BY <1>2, <1>4, <1>5, <2>1 DEF Placed
<1>8. TypeOK'
  BY <1>1, <1>2, AdjacentLinks DEF IInv, TypeOK, PlacementTypeOK
<1>9. TablesInv'
  BY <1>1 DEF IInv, TablesInv, JournalMatches
<1>10. PhaseInv'
  <2>1. ASSUME NEW l \in VLinks
        PROVE  {l[1], l[2]} \subseteq Placed' /\ Reversed(l) \notin VLinks
    BY <1>7, AdjacentLinks
  <2> QED
    BY <1>2, <1>3, <1>5, <2>1 DEF PhaseInv
<1>11. WholeInv'
  BY <1>3 DEF WholeInv, RoutesFollowSlots, Pending
<1> QED
  BY <1>6, <1>8, <1>9, <1>10, <1>11 DEF IInv

LEMMA PlaceStep ==
  ASSUME IInv, NEW v \in VNodes, NEW p \in PNodes, StepPlaces(v, p)
  PROVE  IInv'
<1>1. /\ pc = "idle" /\ status = "running" /\ interactions' \in Nat
      /\ Chosen(v, p) /\ ~Taken(v, p) /\ Place(v, p) /\ UNCHANGED <<undone, status, revoked, run>>
  BY Counted DEF StepPlaces, Interacts, IInv
<1>2. CASE Joint
  BY <1>1, <1>2, PlaceJointStep DEF StepPlaces
<1>3. CASE ~Joint /\ Len(nodeSlots) + 1 < Len(NodeOrder)
  BY <1>1, <1>3, PlaceOneStep DEF StepPlaces
<1>4. CASE ~Joint /\ ~(Len(nodeSlots) + 1 < Len(NodeOrder))
  BY <1>1, <1>4, PlaceLastStep DEF StepPlaces
<1> QED
  BY <1>2, <1>3, <1>4

-----------------------------------------------------------------------------
(* Routing.                                                                 *)

\* The links of the call that routes, before its next step.
LEMMA LinkToRoute ==
  ASSUME IInv, pc = "routing", NEW l \in todo
  PROVE  /\ l \in Adjacent /\ l \notin routed /\ Reversed(l) \notin routed /\ Reversed(l) \notin todo
         /\ linkPaths[l] = {} /\ Cleared(l) = pathInfo
         /\ {l[1], l[2]} \subseteq Placed /\ status = "running"
<1>1. /\ l \in Adjacent /\ l \notin routed /\ Reversed(l) \notin routed \cup todo
      /\ {l[1], l[2]} \subseteq Placed /\ status = "running"
  BY DEF IInv, TypeOK, PhaseInv
<1>2. linkPaths[l] = {}
  BY <1>1 DEF IInv, TablesInv
<1> QED
  BY <1>1, <1>2 DEF Cleared

LEMMA RouteStep ==
  ASSUME IInv, NEW l \in todo, RoutesOne(l)
  PROVE  IInv'
<1>1. /\ pc = "routing" /\ Route(l) /\ todo' = todo \ {l}
      /\ UNCHANGED <<nodeAvail, nodeSlots, nodeInfo, pc, undone, status, interactions, revoked, mode, episodes>>
  BY DEF RoutesOne, run
<1>2. /\ l \in Adjacent /\ l \notin routed /\ Reversed(l) \notin routed /\ Reversed(l) \notin todo
      /\ {l[1], l[2]} \subseteq Placed /\ status = "running"
  BY <1>1, LinkToRoute
<1>3. /\ linkAvail' \in [PLinks -> Nat] /\ routed' = routed \cup {l}
      /\ linkPaths' \in [Adjacent -> SUBSET PLinks]
      /\ linkPaths'[l] \in Paths[<<HostOf(l[1]), HostOf(l[2])>>]
      /\ \A k \in Adjacent : k # l => linkPaths'[k] = linkPaths[k]
      /\ pathInfo' = {x \in Adjacent \X PLinks : x[2] \in linkPaths'[x[1]]}
  BY <1>1, <1>2, RouteTables, Shared
<1>4. Pair' = Pair /\ Joint' = Joint /\ Heeds' = Heeds
  BY <1>1, SameMode
<1>5. Placed' = Placed /\ LastSlot' = LastSlot /\ \A u : HostOf(u)' = HostOf(u)
  BY <1>1 DEF Placed, LastSlot, HostOf
<1>6. routed \subseteq Adjacent /\ todo \subseteq Adjacent
  BY DEF IInv, TypeOK, PlacementTypeOK
<1>7. TypeOK'
  BY <1>1, <1>2, <1>3, <1>6 DEF IInv, TypeOK, PlacementTypeOK
<1>8. SlotsInv' /\ BansInv'
  BY <1>1, <1>4 DEF IInv, SlotsInv, DistinctNodes, BansInv
<1>9. TablesInv'
  <2>1. JournalMatches'
    BY <1>1, <1>3 DEF IInv, TablesInv, JournalMatches
  <2>2. \A k \in routed' : Reversed(k) \notin routed'
    BY <1>2, <1>3, <1>6, AdjacentLinks DEF IInv, TablesInv
  <2> QED
    BY <1>3, <2>1, <2>2 DEF IInv, TablesInv
<1>10. PhaseInv'
  <2>1. ASSUME NEW k \in todo'
        PROVE  /\ {k[1], k[2]} \subseteq Placed' /\ k \notin routed' /\ Reversed(k) \notin routed'
               /\ Reversed(k) \notin todo'
    <3>1. k \in todo /\ k # l /\ k \in Adjacent
      BY <1>1, <1>6
    <3>2. /\ {k[1], k[2]} \subseteq Placed /\ k \notin routed /\ Reversed(k) \notin routed
          /\ Reversed(k) \notin todo
      BY <1>1, <3>1, LinkToRoute
    <3> QED
      BY <1>1, <1>3, <1>5, <3>1, <3>2
  <2> QED
    BY <1>1, <1>4, <1>5, <2>1 DEF IInv, PhaseInv
<1>11. ASSUME NEW k \in routed' PROVE Joins(k)'
  <2>1. CASE k = l
    BY <1>2, <1>3, <1>5, <2>1 DEF Joins
  <2>2. CASE k # l
    <3>1. k \in routed /\ Joins(k)
      BY <1>1, <1>2, <1>3, <2>2 DEF IInv, WholeInv, UndoneSoon
    <3> QED
      BY <1>3, <1>5, <1>6, <2>2, <3>1 DEF Joins
  <2> QED
    BY <2>1, <2>2
<1>12. WholeInv'
  <2>1. RoutesFollowSlots'
    BY <1>11 DEF RoutesFollowSlots
  <2>2. \A k \in VLinks : {k[1], k[2]} \subseteq Placed =>
          k \in routed \cup todo \/ Reversed(k) \in routed \cup todo
    BY <1>1, <1>2 DEF IInv, WholeInv, Pending
  <2>3. routed' \cup todo' = routed \cup todo
    BY <1>1, <1>3
  <2> QED
    BY <1>1, <1>2, <1>5, <1>11, <2>1, <2>2, <2>3 DEF WholeInv, Pending
<1> QED
  BY <1>7, <1>8, <1>9, <1>10, <1>12 DEF IInv

\* A failed link ends the episode: its empty entry stays in the tables.
LEMMA RouteEndsStep ==
  ASSUME IInv, NEW l \in todo, RoutesNone(l), ~(Joint /\ AllowRevocable)
  PROVE  IInv'
<1>1. /\ pc = "routing" /\ RouteFails(l) /\ pc' = "idle" /\ todo' = {} /\ status' = "routing_failed"
      /\ UNCHANGED <<nodeAvail, nodeSlots, nodeInfo, undone, interactions, revoked, mode, episodes>>
  BY DEF RoutesNone, FailedRoute, FailedNode, run
<1>2. UNCHANGED <<linkAvail, linkPaths, pathInfo>> /\ routed' = routed \cup {l}
  BY <1>1, LinkToRoute, RouteFailsTables, Shared
<1>3. l \in Adjacent /\ l \notin routed /\ Reversed(l) \notin routed /\ linkPaths[l] = {}
  BY <1>1, LinkToRoute
<1>4. Pair' = Pair /\ Heeds' = Heeds
  BY <1>1, SameMode
<1>5. routed \subseteq Adjacent
  BY DEF IInv, TypeOK, PlacementTypeOK
<1>6. TypeOK'
  BY <1>1, <1>2, <1>3 DEF IInv, TypeOK, PlacementTypeOK
<1>7. SlotsInv' /\ BansInv'
  BY <1>1, <1>4 DEF IInv, SlotsInv, DistinctNodes, BansInv
<1>8. TablesInv'
  <2>1. \A k \in routed' : Reversed(k) \notin routed'
    BY <1>2, <1>3, <1>5, AdjacentLinks DEF IInv, TablesInv
  <2> QED
    BY <1>1, <1>2, <2>1 DEF IInv, TablesInv, JournalMatches
<1>9. PhaseInv'
  BY <1>1 DEF PhaseInv
<1>10. WholeInv'
  <2>1. ASSUME NEW k \in routed', linkPaths'[k] # {} PROVE Joins(k)'
    <3>1. k \in routed /\ Joins(k)
      BY <1>1, <1>2, <1>3, <2>1 DEF IInv, WholeInv, RoutesFollowSlots
    <3> QED
      BY <1>1, <1>2, <3>1 DEF Joins, Placed, HostOf
  <2> QED
    BY <1>1, <2>1 DEF WholeInv, RoutesFollowSlots
<1> QED
  BY <1>6, <1>7, <1>8, <1>9, <1>10 DEF IInv

\* A failed link starts a revocation: the node goes at once, then its links.
LEMMA RouteRevokesStep ==
  ASSUME IInv, NEW l \in todo, RoutesNone(l), Joint /\ AllowRevocable
  PROVE  IInv'
<1>1. /\ pc = "routing" /\ RouteFails(l) /\ pc' = "undoing" /\ undone' = LastSlot
      /\ todo' = {k \in routed' : Touches(k, LastSlot.v)} /\ UndoPlace
      /\ UNCHANGED <<status, interactions, revoked, mode, episodes>>
  BY DEF RoutesNone, FailedRoute, FailedNode, run
<1>2. UNCHANGED <<linkAvail, linkPaths, pathInfo>> /\ routed' = routed \cup {l}
  BY <1>1, LinkToRoute, RouteFailsTables, Shared
<1>3. /\ l \in Adjacent /\ l \notin routed /\ Reversed(l) \notin routed /\ linkPaths[l] = {}
      /\ status = "running" /\ nodeSlots # <<>> /\ \A k \in todo : k[1] = LastSlot.v
  BY <1>1, LinkToRoute DEF IInv, PhaseInv
<1>4. /\ nodeSlots' \in Seq(SlotType) /\ Len(nodeSlots') = Len(nodeSlots) - 1
      /\ LastSlot \in SlotType /\ LastSlot.v \in Placed
      /\ Placed' = Placed \ {LastSlot.v}
      /\ \A u \in Placed' : HostOf(u)' = HostOf(u)
  BY <1>1, <1>3, DropSlot, Shared DEF IInv, UndoPlace
<1>5. Joint' = Joint
  BY <1>1, SameMode
<1>6. routed \subseteq Adjacent /\ todo \subseteq Adjacent
  BY DEF IInv, TypeOK, PlacementTypeOK
<1>7. TypeOK'
  BY <1>1, <1>2, <1>3, <1>4, <1>6, UndoPlaceTables, Shared DEF IInv, TypeOK, PlacementTypeOK
<1>8. SlotsInv' /\ BansInv'
  BY <1>1, <1>3, UndoPlaceSlots
<1>9. TablesInv'
  <2>1. \A k \in routed' : Reversed(k) \notin routed'
    BY <1>2, <1>3, <1>6, AdjacentLinks DEF IInv, TablesInv
  <2>2. JournalMatches'
    BY <1>1, <1>2, <1>3, UndoPlaceTables, Shared DEF IInv, TablesInv, JournalMatches
  <2> QED
    BY <1>2, <2>1, <2>2 DEF IInv, TablesInv
<1>10. PhaseInv'
  <2>1. Len(nodeSlots') < Len(NodeOrder)
    BY <1>4, InstanceAssumption DEF IInv, SlotsInv, DistinctNodes, TypeOK, PlacementTypeOK
  <2>2. undone'.v \notin Placed' /\ todo' = LinksToUndo(undone.v)'
    BY <1>1, <1>4 DEF LinksToUndo
  <2> QED
    BY <1>1, <1>3, <1>4, <2>1, <2>2 DEF PhaseInv
<1>11. ASSUME NEW k \in routed' PROVE Joins(k)' \/ k \in todo'
  <2>1. CASE Touches(k, LastSlot.v)
    BY <1>1, <2>1
  <2>2. CASE ~Touches(k, LastSlot.v)
    <3>1. k \in routed /\ Joins(k) /\ k \in Adjacent
      BY <1>1, <1>2, <1>3, <1>6, <2>2 DEF IInv, WholeInv, UndoneSoon, Touches
    <3> QED
      BY <1>2, <1>4, <2>2, <3>1, JoinsKept DEF Joins, Touches
  <2> QED
    BY <2>1, <2>2
<1>12. ASSUME NEW k \in VLinks, {k[1], k[2]} \subseteq Placed'
       PROVE  k \in routed \/ Reversed(k) \in routed
  <2>1. k \in routed \cup todo \/ Reversed(k) \in routed \cup todo
    BY <1>1, <1>3, <1>4, <1>12 DEF IInv, WholeInv, Pending
  <2>2. Reversed(k)[1] = k[2]
    BY AdjacentLinks
  <2> QED
    BY <1>3, <1>4, <1>12, <2>1, <2>2
<1>13. WholeInv'
  <2>1. RoutesFollowSlots'
    BY <1>1, <1>11 DEF RoutesFollowSlots
  <2> QED
    BY <1>1, <1>2, <1>3, <1>5, <1>11, <1>12, <2>1 DEF WholeInv, UndoneSoon, Pending
<1> QED
  BY <1>7, <1>8, <1>9, <1>10, <1>13 DEF IInv

LEMMA RouteNoneStep ==
  ASSUME IInv, NEW l \in todo, RoutesNone(l)
  PROVE  IInv'
  BY RouteEndsStep, RouteRevokesStep

\* All links are routed: the call returns, with success after the last node.
LEMMA ReturnStep ==
  ASSUME IInv, StepReturns
  PROVE  IInv'
<1> USE DEF placementVars, linkVars, run
<1>1. /\ pc = "routing" /\ todo = {} /\ pc' = "idle"
      /\ UNCHANGED <<placementVars, todo, undone, interactions, revoked, run>>
      /\ status = "running"
  BY DEF StepReturns, IInv, PhaseInv
<1>2. /\ status' \in {"running", "success"}
      /\ status' = "running" => Len(nodeSlots) < Len(NodeOrder)
      /\ status' = "success" => ~(Len(nodeSlots) < Len(NodeOrder))
  BY DEF StepReturns
<1>3. Pair' = Pair /\ Joint' = Joint /\ Heeds' = Heeds
  BY <1>1, SameMode
<1>4. Placed' = Placed /\ \A l : Joins(l)' <=> Joins(l)
  BY <1>1 DEF Placed, Joins, HostOf
<1>5. TypeOK'
  BY <1>1, <1>2 DEF IInv, TypeOK, PlacementTypeOK
<1>6. SlotsInv' /\ TablesInv' /\ BansInv'
  BY <1>1, <1>3 DEF IInv, SlotsInv, DistinctNodes, TablesInv, JournalMatches, BansInv
<1>7. PhaseInv'
  BY <1>1, <1>2 DEF PhaseInv
<1>8. /\ RoutesFollowSlots /\ \A l \in routed : Joins(l)
      /\ \A l \in VLinks : {l[1], l[2]} \subseteq Placed => l \in routed \/ Reversed(l) \in routed
      /\ ~Joint => Len(nodeSlots) = Len(NodeOrder)
  BY <1>1 DEF IInv, WholeInv, PhaseInv, UndoneSoon, Pending
<1>9. Len(nodeSlots) <= Len(NodeOrder) /\ Len(nodeSlots) \in Nat /\ Len(NodeOrder) \in Nat
  BY InstanceAssumption DEF IInv, SlotsInv, DistinctNodes, TypeOK, PlacementTypeOK
<1>10. /\ status' = "success" => Len(nodeSlots) = Len(NodeOrder)
       /\ status' = "running" => Joint
  <2>1. \A a, b \in Nat : a <= b /\ ~(a < b) => a = b
    OBVIOUS
  <2>2. ~(Len(NodeOrder) < Len(NodeOrder))
    BY <1>9
  <2> QED
    BY <1>2, <1>8, <1>9, <2>1, <2>2
<1>11. WholeInv'
  <2>1. RoutesFollowSlots'
    BY <1>1, <1>4, <1>8 DEF RoutesFollowSlots
  <2> QED
    BY <1>1, <1>2, <1>3, <1>4, <1>8, <1>10, <2>1 DEF WholeInv, Pending
<1> QED
  BY <1>5, <1>6, <1>7, <1>11 DEF IInv

\* A revocation takes back one link of the node.
LEMMA UndoStep ==
  ASSUME IInv, NEW l \in todo, UndoesOne(l)
  PROVE  IInv'
<1>1. /\ pc = "undoing" /\ UndoRoute(l) /\ todo' = todo \ {l}
      /\ UNCHANGED <<nodeAvail, nodeSlots, nodeInfo, pc, undone, status, interactions, revoked, mode, episodes>>
  BY DEF UndoesOne, run
<1>2. /\ l \in Adjacent /\ l \in routed /\ todo = {k \in routed : Touches(k, undone.v)}
      /\ todo \subseteq Adjacent /\ routed \subseteq Adjacent /\ status = "running"
      /\ undone.v \notin Placed
  BY <1>1 DEF IInv, TypeOK, PlacementTypeOK, PhaseInv, LinksToUndo
<1>3. /\ linkAvail' \in [PLinks -> Nat] /\ routed' = routed \ {l}
      /\ linkPaths' \in [Adjacent -> SUBSET PLinks] /\ linkPaths'[l] = {}
      /\ \A k \in Adjacent : k # l => linkPaths'[k] = linkPaths[k]
      /\ pathInfo' = {x \in Adjacent \X PLinks : x[2] \in linkPaths'[x[1]]}
  BY <1>1, <1>2, Shared, UndoRouteTables
<1>4. Pair' = Pair /\ Joint' = Joint /\ Heeds' = Heeds
  BY <1>1, SameMode
<1>5. Placed' = Placed /\ \A u : HostOf(u)' = HostOf(u)
  BY <1>1 DEF Placed, HostOf
<1>6. TypeOK'
  BY <1>1, <1>2, <1>3 DEF IInv, TypeOK, PlacementTypeOK
<1>7. SlotsInv' /\ BansInv'
  BY <1>1, <1>4 DEF IInv, SlotsInv, DistinctNodes, BansInv
<1>8. TablesInv'
  <2>1. JournalMatches'
    BY <1>1, <1>3 DEF IInv, TablesInv, JournalMatches
  <2> QED
    BY <1>3, <2>1 DEF IInv, TablesInv
<1>9. PhaseInv'
  <2>1. todo' = LinksToUndo(undone.v)'
    BY <1>1, <1>2, <1>3 DEF LinksToUndo
  <2> QED
    BY <1>1, <1>5, <2>1 DEF IInv, PhaseInv
<1>10. ASSUME NEW k \in routed' PROVE Joins(k)' \/ k \in todo'
  <2>1. k \in routed /\ k # l /\ k \in Adjacent /\ (Joins(k) \/ k \in todo)
    BY <1>1, <1>2, <1>3 DEF IInv, WholeInv, UndoneSoon
  <2> QED
    BY <1>1, <1>3, <1>5, <2>1 DEF Joins
<1>11. ASSUME Joint, NEW k \in VLinks, {k[1], k[2]} \subseteq Placed
       PROVE  k \in routed' \/ Reversed(k) \in routed'
  <2>1. k \in routed \/ Reversed(k) \in routed
    BY <1>1, <1>2, <1>11 DEF IInv, WholeInv, Pending
  <2>2. Reversed(k)[1] = k[2] /\ Reversed(k)[2] = k[1]
    BY AdjacentLinks
  <2> QED
    BY <1>2, <1>3, <1>11, <2>1, <2>2 DEF Touches
<1>12. WholeInv'
  <2>1. RoutesFollowSlots'
    BY <1>1, <1>10 DEF RoutesFollowSlots
  <2>2. ~Joint => routed' = {}
    BY <1>1, <1>2, <1>3 DEF IInv, WholeInv
  <2> QED
    BY <1>1, <1>2, <1>4, <1>5, <1>10, <1>11, <2>1, <2>2 DEF WholeInv, UndoneSoon, Pending
<1> QED
  BY <1>6, <1>7, <1>8, <1>9, <1>12 DEF IInv

\* The revocation is over: what it took back is banned from now on.
LEMMA RevokeReturnsStep ==
  ASSUME IInv, RevokeReturns
  PROVE  IInv'
<1> USE DEF placementVars, linkVars, run
<1>1. /\ pc = "undoing" /\ todo = {} /\ pc' = "idle" /\ undone' = NoSlot
      /\ revoked' = revoked \cup {[prefix |-> nodeSlots, slot |-> undone]}
      /\ UNCHANGED <<placementVars, todo, status, interactions, run>>
  BY DEF RevokeReturns, Prefix
<1>2. undone \in SlotType /\ status = "running" /\ Len(nodeSlots) < Len(NodeOrder)
  BY <1>1 DEF IInv, PhaseInv
<1>3. Pair' = Pair /\ Joint' = Joint /\ Heeds' = Heeds
  BY <1>1, SameMode
<1>4. Placed' = Placed /\ \A l : Joins(l)' <=> Joins(l)
  BY <1>1 DEF Placed, Joins, HostOf
<1>5. nodeSlots \in Seq(SlotType) /\ Len(nodeSlots) \in Nat /\ DOMAIN nodeSlots = 1 .. Len(nodeSlots)
  BY DEF IInv, TypeOK, PlacementTypeOK
<1>6. TypeOK'
  BY <1>1, <1>2, <1>5 DEF IInv, TypeOK, PlacementTypeOK
<1>7. SlotsInv' /\ TablesInv'
  BY <1>1, <1>3 DEF IInv, SlotsInv, DistinctNodes, TablesInv, JournalMatches
<1>8. PhaseInv'
  BY <1>1, <1>2 DEF PhaseInv
<1>9. BansInv'
  <2>1. ASSUME Heeds, NEW i \in DOMAIN nodeSlots
        PROVE  [prefix |-> SubSeq(nodeSlots, 1, i - 1), slot |-> nodeSlots[i]] \notin revoked'
    <3>1. Len(SubSeq(nodeSlots, 1, i - 1)) # Len(nodeSlots)
      BY <1>5
    <3>2. [prefix |-> SubSeq(nodeSlots, 1, i - 1), slot |-> nodeSlots[i]]
            # [prefix |-> nodeSlots, slot |-> undone]
      BY <3>1
    <3> QED
      BY <1>1, <2>1, <3>2 DEF IInv, BansInv
  <2> QED
    BY <1>1, <1>3, <2>1 DEF BansInv
<1>10. WholeInv'
  <2>1. /\ RoutesFollowSlots /\ \A l \in routed : Joins(l)
        /\ Joint => \A l \in VLinks : {l[1], l[2]} \subseteq Placed => l \in routed \/ Reversed(l) \in routed
        /\ ~Joint => routed = {}
    BY <1>1, <1>2 DEF IInv, WholeInv, UndoneSoon, Pending
  <2>2. RoutesFollowSlots'
    BY <1>1, <1>4, <2>1 DEF RoutesFollowSlots
  <2> QED
    BY <1>1, <1>2, <1>3, <1>4, <2>1, <2>2 DEF WholeInv, Pending
<1> QED
  BY <1>6, <1>7, <1>8, <1>9, <1>10 DEF IInv

-----------------------------------------------------------------------------
(* The balance of a step.                                                   *)

\* What the journal lists and what the clone has left add up to what it had.
LEMMA UnchangedBalances ==
  ASSUME Balanced, UNCHANGED placementVars
  PROVE  Balanced'
  BY DEF Balanced, NodesBalanced, LinksBalanced, NodesHeld, LinksHeld, placementVars, linkVars

LEMMA RevokeBalances ==
  ASSUME IInv, Balanced, BeginRevoke
  PROVE  Balanced'
<1>1. NodesBalanced'
  BY Shared, UndoPlaceBalances DEF BeginRevoke, Balanced
<1>2. LinksBalanced'
  BY DEF BeginRevoke, Balanced, LinksBalanced, LinksHeld, linkVars
<1> QED
  BY <1>1, <1>2 DEF Balanced

LEMMA StepPlacesBalances ==
  ASSUME IInv, Balanced, NEW v \in VNodes, NEW p \in PNodes, StepPlaces(v, p)
  PROVE  Balanced'
<1>1. pc = "idle" /\ status = "running" /\ Chosen(v, p) /\ ~Taken(v, p) /\ Place(v, p)
  BY DEF StepPlaces, Interacts
<1>2. NodesBalanced'
  BY <1>1, NextIsNew, Shared, PlaceBalances DEF Balanced
<1>3. CASE UNCHANGED linkVars
  <2>1. LinksBalanced'
    BY <1>3 DEF Balanced, LinksBalanced, LinksHeld, linkVars
  <2> QED
    BY <1>2, <2>1 DEF Balanced
<1>4. CASE ~Joint /\ ClearRoutes
  <2>1. routed = {}
    BY <1>1, <1>4 DEF IInv, WholeInv
  <2>2. pathInfo = {}
    BY <2>1, Shared, FreeLink DEF PlacementTypeOK, TablesInv, JournalMatches
  <2>3. LinksBalanced'
    BY <1>4, <2>2 DEF ClearRoutes, Balanced, LinksBalanced, LinksHeld
  <2> QED
    BY <1>2, <2>3 DEF Balanced
<1> QED
  BY <1>3, <1>4 DEF StepPlaces

LEMMA RoutesNoneBalances ==
  ASSUME IInv, Balanced, NEW l \in todo, RoutesNone(l)
  PROVE  Balanced'
<1>1. UNCHANGED <<linkAvail, pathInfo>>
  BY Shared, LinkToRoute, RouteFailsTables DEF RoutesNone
<1>2. LinksBalanced'
  BY <1>1 DEF Balanced, LinksBalanced, LinksHeld
<1>3. CASE UndoPlace
  <2>1. NodesBalanced'
    BY <1>3, Shared, UndoPlaceBalances DEF RoutesNone, IInv, PhaseInv, Balanced
  <2> QED
    BY <1>2, <2>1 DEF Balanced
<1>4. CASE UNCHANGED <<nodeAvail, nodeSlots, nodeInfo>>
  <2>1. NodesBalanced'
    BY <1>4 DEF Balanced, NodesBalanced, NodesHeld
  <2> QED
    BY <1>2, <2>1 DEF Balanced
<1> QED
  BY <1>3, <1>4 DEF RoutesNone, FailedNode

LEMMA NextBalances ==
  ASSUME IInv, Balanced, [Next]_vars
  PROVE  Balanced'
<1>1. CASE Reset
  BY <1>1, NothingHeld, PlacementAssumption
     DEF Reset, ResetPlacement, Balanced, NodesBalanced, LinksBalanced, NodesHeld, LinksHeld
<1>2. CASE BeginRevoke
  BY <1>2, RevokeBalances
<1>3. ASSUME NEW v \in VNodes, NEW p \in PNodes, StepPlaces(v, p) PROVE Balanced'
  BY <1>3, StepPlacesBalances
<1>4. ASSUME NEW l \in todo, RoutesOne(l) PROVE Balanced'
  <2>1. /\ l \in Adjacent /\ l \notin routed /\ {l[1], l[2]} \subseteq Placed
        /\ Route(l) /\ UNCHANGED <<nodeAvail, nodeInfo>>
    BY <1>4, LinkToRoute DEF RoutesOne
  <2>2. LinksBalanced'
    BY <2>1, Shared, RouteTables, RouteBalances DEF Balanced
  <2>3. NodesBalanced'
    BY <2>1 DEF Balanced, NodesBalanced, NodesHeld
  <2> QED
    BY <2>2, <2>3 DEF Balanced
<1>5. ASSUME NEW l \in todo, RoutesNone(l) PROVE Balanced'
  BY <1>5, RoutesNoneBalances
<1>6. ASSUME NEW l \in todo, UndoesOne(l) PROVE Balanced'
  <2>1. l \in routed /\ UndoRoute(l) /\ UNCHANGED <<nodeAvail, nodeInfo>>
    BY <1>6 DEF UndoesOne, IInv, PhaseInv, LinksToUndo
  <2>2. LinksBalanced'
    BY <2>1, Shared, UndoRouteBalances DEF Balanced
  <2>3. NodesBalanced'
    BY <2>1 DEF Balanced, NodesBalanced, NodesHeld
  <2> QED
    BY <2>2, <2>3 DEF Balanced
<1>7. CASE UNCHANGED placementVars
  BY <1>7, UnchangedBalances
<1> QED
  BY <1>1, <1>2, <1>3, <1>4, <1>5, <1>6, <1>7
     DEF Next, Step, Inside, Reject, Revoke, GiveUp, StepRejects, StepRevokes, StepRevokesNothing,
         StepTaken, StepUnfit, StepReturns, RevokeReturns, vars

-----------------------------------------------------------------------------
(* The theorems.                                                            *)

LEMMA NextIInv ==
  ASSUME IInv, [Next]_vars
  PROVE  IInv'
<1>1. CASE Reset
  BY <1>1, ResetStep
<1>2. CASE Reject \/ GiveUp \/ StepRejects \/ StepRevokesNothing
  <2>1. /\ pc = "idle" /\ UNCHANGED <<placementVars, callVars, revoked, run>>
        /\ status' = status \/ status' \in {"rejected", "placement_failed"}
    BY <1>2 DEF Reject, GiveUp, StepRejects, StepRevokesNothing, Interacts
  <2>2. interactions' \in Nat
    BY <1>2, Counted DEF Reject, GiveUp, StepRejects, StepRevokesNothing, Interacts, IInv, TypeOK
  <2> QED
    BY <2>1, <2>2, QuietStep
<1>3. CASE StepRevokes \/ Revoke
  <2>1. pc = "idle" /\ status = "running" /\ BeginRevoke /\ UNCHANGED <<revoked, run>>
    BY <1>3 DEF StepRevokes, Revoke, Interacts
  <2>2. interactions' \in Nat
    BY <1>3, Counted DEF StepRevokes, Revoke, Interacts, IInv, TypeOK
  <2> QED
    BY <2>1, <2>2, RevokeStep
<1>4. ASSUME NEW v \in VNodes, NEW p \in PNodes, StepTaken(v, p) \/ StepUnfit(v, p)
      PROVE  IInv'
  <2>1. pc = "idle" /\ status = "running" /\ UNCHANGED <<revoked, run>> /\ interactions' \in Nat
    BY <1>4, Counted DEF StepTaken, StepUnfit, Interacts, IInv
  <2>2. CASE BeginRevoke
    BY <2>1, <2>2, RevokeStep
  <2>3. CASE status' = "placement_failed" /\ UNCHANGED <<placementVars, callVars>>
    BY <2>1, <2>3, QuietStep
  <2> QED
    BY <1>4, <2>2, <2>3 DEF StepTaken, StepUnfit
<1>5. ASSUME NEW v \in VNodes, NEW p \in PNodes, StepPlaces(v, p) PROVE IInv'
  BY <1>5, PlaceStep
<1>6. CASE Inside
  BY <1>6, RouteStep, RouteNoneStep, UndoStep, ReturnStep, RevokeReturnsStep DEF Inside
<1>7. CASE UNCHANGED vars
  <2> USE <1>7 DEF vars, placementVars, linkVars, callVars, run
  <2>1. Pair' = Pair /\ Joint' = Joint /\ Heeds' = Heeds
    BY SameMode
  <2>2. Placed' = Placed /\ LastSlot' = LastSlot /\ \A l : Joins(l)' <=> Joins(l)
    BY DEF Placed, LastSlot, Joins, HostOf
  <2>3. TypeOK'
    BY DEF IInv, TypeOK, PlacementTypeOK
  <2>4. SlotsInv' /\ TablesInv' /\ BansInv'
    BY <2>1 DEF IInv, SlotsInv, DistinctNodes, TablesInv, JournalMatches, BansInv
  <2>5. PhaseInv'
    BY <2>1, <2>2 DEF IInv, PhaseInv, LinksToUndo
  <2>6. WholeInv'
    BY <2>1, <2>2 DEF IInv, WholeInv, RoutesFollowSlots, Pending, UndoneSoon
  <2> QED
    BY <2>3, <2>4, <2>5, <2>6 DEF IInv
<1> QED
  BY <1>1, <1>2, <1>3, <1>4, <1>5, <1>6, <1>7 DEF Next, Step

\* The tables, the running call and the bans fit together in every reachable
\* state, for any networks, modes and agents.
THEOREM InductiveInvariant == Spec => []IInv
<1>1. IInv /\ [Next]_vars => IInv'
  BY NextIInv
<1> QED
  BY InitIInv, <1>1, PTL DEF Spec

\* Types; in them, that no placement, route or revocation takes more resources
\* than a host or link has.
THEOREM TypeCorrectness == Spec => []TypeOK
<1>1. IInv => TypeOK
  BY DEF IInv
<1> QED
  BY <1>1, InductiveInvariant, PTL

\* The journal that a rollback would follow lists the entries of the tables.
THEOREM JournalsMatchTables == Spec => []JournalMatches
<1>1. IInv => JournalMatches
  BY DEF IInv, TablesInv
<1> QED
  BY <1>1, InductiveInvariant, PTL

\* Whatever an agent places, fails to route, revokes and places again: what the
\* journal lists is what its clone of the network misses.
THEOREM ResourcesBalance == Spec => []Balanced
<1>1. Init => Balanced
  BY NothingHeld, PlacementAssumption
     DEF Init, PlacementInit, Balanced, NodesBalanced, LinksBalanced, NodesHeld, LinksHeld
<1>2. IInv /\ Balanced /\ [Next]_vars => Balanced'
  BY NextBalances
<1> QED
  BY <1>1, <1>2, InductiveInvariant, PTL DEF Spec

\* A path in the tables joins the hosts its ends have now, or is about to go.
THEOREM RoutesJoinSlots == Spec => []RoutesFollowSlots
<1>1. IInv => RoutesFollowSlots
  BY DEF IInv, WholeInv
<1> QED
  BY <1>1, InductiveInvariant, PTL

\* As many distinct nodes as the order has are all of them.
LEMMA AllPlaced ==
  ASSUME TypeOK, SlotsInv, Len(nodeSlots) = Len(NodeOrder)
  PROVE  Placed = VNodes
<1> DEFINE n == Len(NodeOrder)
           f == [i \in 1 .. n |-> nodeSlots[i].v]
<1>1. n \in Nat /\ DOMAIN NodeOrder = 1 .. n /\ NodeOrder \in [1 .. n -> VNodes]
  BY InstanceAssumption
<1>2. DOMAIN nodeSlots = 1 .. n /\ \A i \in 1 .. n : nodeSlots[i] \in SlotType
  BY <1>1 DEF TypeOK, PlacementTypeOK
<1>3. IsFiniteSet(1 .. n) /\ Cardinality(1 .. n) = n
  <2>1. \A m \in Nat : IsFiniteSet(1 .. m) /\ Cardinality(1 .. m) = m
    BY FS_Interval
  <2> QED
    BY <1>1, <2>1
<1>4. IsFiniteSet(VNodes) /\ Cardinality(VNodes) = Cardinality(1 .. n)
  <2>1. NodeOrder \in Bijection(1 .. n, VNodes)
    BY <1>1, InstanceAssumption DEF Bijection, Injection, IsInjective, Surjection
  <2>2. ExistsBijection(1 .. n, VNodes)
    BY <2>1 DEF ExistsBijection
  <2> QED
    BY <1>3, <2>2, FS_Bijection
<1>5. f \in Injection(1 .. n, VNodes)
  <2>1. f \in [1 .. n -> VNodes]
    BY <1>2 DEF SlotType
  <2>2. \A i, j \in 1 .. n : f[i] = f[j] => i = j
    BY <1>2 DEF SlotsInv, DistinctNodes
  <2> QED
    BY <2>1, <2>2 DEF Injection, IsInjective
<1>6. f \in Surjection(1 .. n, VNodes)
  BY <1>4, <1>5, FS_Injection
<1>7. \A u \in VNodes : \E i \in 1 .. n : nodeSlots[i].v = u
  BY <1>6 DEF Surjection
<1> QED
  BY <1>2, <1>7 DEF Placed, SlotType

\* Whatever was placed, revoked and placed again: an episode that goes on or
\* succeeded has each link between placed nodes routed once, between their hosts.
THEOREM MappingStaysWhole == Spec => []MappingIsWhole
<1>1. ASSUME IInv PROVE MappingIsWhole
  <2>1. SUFFICES ASSUME pc = "idle", status = "success" \/ (Joint /\ status = "running")
                 PROVE  RoutesAreWhole /\ (status = "success" => Placed = VNodes)
    BY DEF MappingIsWhole
  <2>2. \A l \in routed : Joins(l)
    BY <1>1, <2>1 DEF IInv, WholeInv, UndoneSoon
  <2>3. ASSUME NEW l \in VLinks, {l[1], l[2]} \subseteq Placed
        PROVE  (l \in routed) # (Reversed(l) \in routed)
    <3>1. l \in routed \/ Reversed(l) \in routed
      BY <1>1, <2>1, <2>3 DEF IInv, WholeInv, Pending
    <3>2. ~(l \in routed /\ Reversed(l) \in routed)
      BY <1>1 DEF IInv, TablesInv
    <3> QED
      BY <3>1, <3>2
  <2>4. ASSUME status = "success" PROVE Placed = VNodes
    BY <1>1, <2>4, AllPlaced DEF IInv, WholeInv
  <2> QED
    BY <2>2, <2>3, <2>4 DEF RoutesAreWhole
<1> QED
  BY <1>1, InductiveInvariant, PTL

\* An agent that heeds the masks never makes a placement it has taken back after
\* the same prefix, so that every revocation bans something new.
THEOREM EachBanIsNew == Spec => NeverRevokedTwice
<1>1. ASSUME IInv, [Next]_vars, Heeds, pc = "undoing", pc' = "idle"
      PROVE  revoked' # revoked
  <2>1. RevokeReturns
    BY <1>1 DEF Next, Step, Inside, vars, callVars, Reset, Reject, Revoke, GiveUp, StepRejects,
       StepRevokes, StepRevokesNothing, StepTaken, StepUnfit, StepPlaces, Interacts,
       RoutesOne, RoutesNone, UndoesOne, StepReturns
  <2>2. [prefix |-> nodeSlots, slot |-> undone] \in revoked'
    BY <2>1 DEF RevokeReturns, Prefix
  <2>3. [prefix |-> nodeSlots, slot |-> undone] \notin revoked
    BY <1>1 DEF IInv, BansInv
  <2> QED
    BY <2>2, <2>3
<1>2. IInv /\ [Next]_vars => [Heeds /\ pc = "undoing" /\ pc' = "idle" => revoked' # revoked]_vars
  BY <1>1
<1> QED
  BY <1>2, InductiveInvariant, PTL DEF Spec, NeverRevokedTwice

-----------------------------------------------------------------------------
(* BfsDeploy.                                                               *)

\* Distinct hosts were found, and the counters account for those visited.
QueueInv ==
  /\ \A i, j \in DOMAIN queue : queue[i].p = queue[j].p => i = j
  /\ where \in {"routing", "undoing"} => head > 0
  /\ where \in {"visit", "undoing"} => placed + attempts = head
  /\ where = "routing" => placed + attempts + 1 = head

\* The slots are the beginning of the ranking, on hosts that were visited.
RankInv ==
  /\ DistinctNodes
  /\ \A i \in DOMAIN nodeSlots : nodeSlots[i].v = order[i]
  /\ \A i \in DOMAIN nodeSlots : \E j \in 1 .. head : queue[j].p = nodeSlots[i].p
  /\ \A i, j \in DOMAIN nodeSlots : nodeSlots[i].p = nodeSlots[j].p => i = j
  /\ Len(nodeSlots) <= Len(order)
  /\ where \in {"visit", "undoing"} => Len(nodeSlots) = placed /\ placed < Len(order)
  /\ where = "routing" => Len(nodeSlots) = placed + 1
  /\ ended = "committed" => Len(nodeSlots) = Len(order)

\* What the running call still has to route, or to undo.
CallInv ==
  /\ where = "visit" => pending = {}
  /\ where = "routing" =>
       \A l \in pending : /\ l[1] = LastSlot.v /\ {l[1], l[2]} \subseteq Placed
                          /\ l \notin routed /\ Reversed(l) \notin routed \cup pending
  /\ where = "undoing" => pending = LinksToUndo(Node)
  /\ where = "done" <=> ended # "no"

\* As long as nothing was rolled back, the links between placed nodes are routed
\* or about to be, and what the journal lists is what the network misses.
Unrouted == IF where = "routing" THEN pending ELSE {}
Leaving(l) == where = "undoing" /\ l \in pending
KeptInv ==
  ended \in {"no", "committed"} =>
    /\ \A l \in routed : Joins(l) \/ Leaving(l)
    /\ \A l \in VLinks : {l[1], l[2]} \subseteq Placed =>
         l \in routed \cup Unrouted \/ Reversed(l) \in routed \cup Unrouted
    /\ Balanced

BfsTypeOK ==
  /\ PlacementTypeOK
  /\ order \in Rankings /\ limits \in Limits
  /\ where \in {"visit", "routing", "undoing", "done"} /\ pending \subseteq Adjacent
  /\ queue \in Seq([p : PNodes, depth : Nat]) /\ head \in 0 .. Len(queue)
  /\ placed \in Nat /\ attempts \in Nat
  /\ ended \in {"no", "committed", "detached", "threw"}

BfsInv ==
  /\ BfsTypeOK /\ QueueInv /\ RankInv /\ TablesInv /\ CallInv /\ KeptInv /\ RolledBackIsUntouched

-----------------------------------------------------------------------------
(* Rankings and queues.                                                     *)

\* A ranking has distinct nodes, at least one.
LEMMA RankedNodes ==
  ASSUME BfsTypeOK
  PROVE  /\ order \in Seq(VNodes) /\ Len(order) \in Nat \ {0} /\ DOMAIN order = 1 .. Len(order)
         /\ \A i, j \in DOMAIN order : order[i] = order[j] => i = j
         /\ \A i \in DOMAIN order : order[i] \in VNodes
<1>1. order \in Seq(VNodes) /\ order # <<>> /\ IsInjective(order)
  BY BfsAssumption DEF BfsTypeOK
<1> QED
  BY <1>1 DEF IsInjective

\* The next node of the ranking has no slot while it is offered or undone.
LEMMA NodeIsNew ==
  ASSUME BfsInv, where \in {"visit", "undoing"}
  PROVE  Node \in VNodes /\ Node \notin Placed /\ placed + 1 \in DOMAIN order
<1>1. placed \in Nat /\ placed < Len(order) /\ Len(nodeSlots) = placed
  BY DEF BfsInv, RankInv, BfsTypeOK
<1>2. placed + 1 \in DOMAIN order
  BY <1>1, RankedNodes DEF BfsInv
<1>3. ASSUME NEW i \in DOMAIN nodeSlots PROVE nodeSlots[i].v # order[placed + 1]
  <2>1. i \in 1 .. placed /\ nodeSlots[i].v = order[i]
    BY <1>1 DEF BfsInv, BfsTypeOK, PlacementTypeOK, RankInv
  <2>2. i \in DOMAIN order /\ i # placed + 1
    BY <1>1, <1>2, <2>1, RankedNodes DEF BfsInv
  <2> QED
    BY <1>2, <2>1, <2>2, RankedNodes DEF BfsInv
<1> QED
  BY <1>2, <1>3, RankedNodes DEF BfsInv, Node, Placed

\* The positions below each of some positions are as many as its rank.
LEMMA NthOf ==
  ASSUME NEW K, K \subseteq Int, IsFiniteSet(K), NEW j \in 1 .. Cardinality(K)
  PROVE  Nth(K, j) \in K /\ Cardinality({i \in K : i <= Nth(K, j)}) = j
<1> DEFINE n == Cardinality(K)
           below(k) == {i \in K : i <= k}
           rank == [k \in K |-> Cardinality(below(k))]
<1>1. n \in Nat
  BY FS_CardinalityType
<1>2. ASSUME NEW k \in K
      PROVE  IsFiniteSet(below(k)) /\ Cardinality(below(k)) \in 1 .. n
  <2>1. below(k) \subseteq K /\ k \in below(k)
    BY <1>2
  <2>2. IsFiniteSet(below(k)) /\ Cardinality(below(k)) <= n /\ Cardinality(below(k)) \in Nat
    BY <2>1, FS_Subset, FS_CardinalityType
  <2>3. Cardinality(below(k)) # 0
    BY <2>1, <2>2, FS_EmptySet
  <2> QED
    BY <1>1, <2>2, <2>3
<1>3. ASSUME NEW k \in K, NEW m \in K, k < m
      PROVE  Cardinality(below(k)) # Cardinality(below(m))
  <2>1. below(k) \subseteq below(m) \ {m} /\ m \in below(m)
    <3>1. \A i \in K : i \in Int
      OBVIOUS
    <3>2. \A i \in K : i <= k => i <= m /\ i # m
      BY <1>3, <3>1
    <3>3. \A i \in below(k) : i \in below(m) \ {m}
      BY <3>2
    <3>4. m <= m
      BY <3>1
    <3> QED
      BY <3>3, <3>4
  <2>2. /\ IsFiniteSet(below(m) \ {m})
        /\ Cardinality(below(m) \ {m}) = Cardinality(below(m)) - 1
    BY <1>2, <2>1, FS_RemoveElement
  <2>3. Cardinality(below(k)) <= Cardinality(below(m) \ {m})
    BY <2>1, <2>2, FS_Subset
  <2>4. Cardinality(below(k)) \in Nat /\ Cardinality(below(m)) \in Nat
    BY <1>2
  <2> QED
    BY <2>2, <2>3, <2>4
<1>4. rank \in Injection(K, 1 .. n)
  <2>1. rank \in [K -> 1 .. n]
    BY <1>2
  <2>2. \A k, m \in K : rank[k] = rank[m] => k = m
    <3> SUFFICES ASSUME NEW k \in K, NEW m \in K, k # m PROVE rank[k] # rank[m]
      OBVIOUS
    <3>1. k < m \/ m < k
      OBVIOUS
    <3> QED
      BY <1>3, <3>1
  <2> QED
    BY <2>1, <2>2 DEF Injection, IsInjective
<1>5. IsFiniteSet(1 .. n) /\ Cardinality(1 .. n) = n
  <2>1. \A m \in Nat : IsFiniteSet(1 .. m) /\ Cardinality(1 .. m) = m
    BY FS_Interval
  <2> QED
    BY <1>1, <2>1
<1>6. rank \in Surjection(K, 1 .. n)
  BY <1>4, <1>5, FS_Injection
<1>7. PICK k \in K : rank[k] = j
  BY <1>6 DEF Surjection
<1>8. Cardinality({i \in K : i <= k}) = j
  BY <1>7
<1> QED
  BY <1>8 DEF Nth

\* The edges a visit looks at are the first of its host.
LEMMA SeenEdges ==
  ASSUME BfsTypeOK, NEW p \in PNodes
  PROVE  /\ EdgesSeen(p) \in Seq(PNodes)
         /\ \A i, j \in DOMAIN EdgesSeen(p) : EdgesSeen(p)[i] = EdgesSeen(p)[j] => i = j
<1> DEFINE s == Neighbours[p]
           m == Min({Len(s), limits.branch})
<1>1. s \in Seq(PNodes) /\ \A i, j \in DOMAIN s : s[i] = s[j] => i = j
  BY BfsAssumption DEF IsInjective
<1>2. Len(s) \in Nat /\ limits.branch \in Nat
  BY <1>1, BfsAssumption DEF BfsTypeOK
<1> HIDE DEF s
<1>3. m \in Nat /\ m <= Len(s)
  <2>1. \E x \in {Len(s), limits.branch} : \A y \in {Len(s), limits.branch} : x <= y
    <3>1. CASE Len(s) <= limits.branch
      BY <1>2, <3>1
    <3>2. CASE limits.branch <= Len(s)
      BY <1>2, <3>2
    <3> QED
      BY <1>2, <3>1, <3>2
  <2>2. m \in {Len(s), limits.branch} /\ \A y \in {Len(s), limits.branch} : m <= y
    BY <2>1 DEF Min
  <2> QED
    BY <1>2, <2>2
<1> HIDE DEF m
<1>4. /\ SubSeq(s, 1, m) \in Seq(PNodes)
      /\ DOMAIN SubSeq(s, 1, m) = 1 .. m /\ 1 .. m \subseteq DOMAIN s
      /\ \A i \in 1 .. m : SubSeq(s, 1, m)[i] = s[i]
  BY <1>1, <1>3
<1>5. \A i, j \in DOMAIN SubSeq(s, 1, m) : SubSeq(s, 1, m)[i] = SubSeq(s, 1, m)[j] => i = j
  BY <1>1, <1>4
<1>6. EdgesSeen(p) = s \/ EdgesSeen(p) = SubSeq(s, 1, m)
  BY DEF EdgesSeen, s, m
<1> QED
  BY <1>1, <1>4, <1>5, <1>6

\* What a visit adds to the queue are new hosts, each once.
LEMMA FoundHosts ==
  ASSUME BfsTypeOK, NEW host \in [p : PNodes, depth : Nat]
  PROVE  /\ Found(host) \in Seq([p : PNodes, depth : Nat])
         /\ \A i \in DOMAIN Found(host) : Found(host)[i].p \notin Visited
         /\ \A i, j \in DOMAIN Found(host) : Found(host)[i].p = Found(host)[j].p => i = j
<1> DEFINE seen == EdgesSeen(host.p)
           new == {k \in DOMAIN seen : Fresh(seen[k])}
           n == Cardinality(new)
           f == [j \in 1 .. n |-> [p |-> seen[Nth(new, j)], depth |-> host.depth + 1]]
<1>1. host.p \in PNodes /\ host.depth + 1 \in Nat
  OBVIOUS
<1>2. seen \in Seq(PNodes) /\ \A i, j \in DOMAIN seen : seen[i] = seen[j] => i = j
  BY <1>1, SeenEdges
<1> HIDE DEF seen
<1>3. /\ DOMAIN seen = 1 .. Len(seen) /\ Len(seen) \in Nat
      /\ \A k \in DOMAIN seen : seen[k] \in PNodes
  BY <1>2
<1>4. IsFiniteSet(new) /\ new \subseteq DOMAIN seen /\ new \subseteq Int
  <2>1. \A m \in Nat : IsFiniteSet(1 .. m)
    BY FS_Interval
  <2>2. IsFiniteSet(DOMAIN seen)
    BY <1>3, <2>1
  <2> QED
    BY <1>3, <2>2, FS_Subset
<1>5. n \in Nat
  BY <1>4, FS_CardinalityType
<1>6. ASSUME NEW j \in 1 .. n
      PROVE  Nth(new, j) \in new /\ Cardinality({i \in new : i <= Nth(new, j)}) = j
  BY <1>4, <1>6, NthOf
<1> HIDE DEF new, n
<1>7. \A j \in 1 .. n : Nth(new, j) \in DOMAIN seen /\ Fresh(seen[Nth(new, j)])
  BY <1>6 DEF new
<1>8. \A j \in 1 .. n : seen[Nth(new, j)] \in PNodes
  BY <1>3, <1>7
<1>9. f \in Seq([p : PNodes, depth : Nat]) /\ DOMAIN f = 1 .. n
  BY <1>1, <1>5, <1>8
<1>10. \A i \in DOMAIN f : f[i].p \notin Visited
  BY <1>7, <1>9 DEF Fresh
<1>11. ASSUME NEW i \in DOMAIN f, NEW j \in DOMAIN f, f[i].p = f[j].p PROVE i = j
  <2>1. seen[Nth(new, i)] = seen[Nth(new, j)]
    BY <1>9, <1>11
  <2>2. Nth(new, i) = Nth(new, j)
    BY <1>2, <1>7, <1>9, <2>1
  <2> QED
    BY <1>6, <1>9, <2>2
<1>12. Found(host) = f
  BY DEF Found, seen, new, n
<1> HIDE DEF f
<1> QED
  BY <1>9, <1>10, <1>11, <1>12

\* A visit leaves the queue as it was, but for new hosts at its end.
LEMMA QueueGrows ==
  ASSUME BfsTypeOK, \A i, j \in DOMAIN queue : queue[i].p = queue[j].p => i = j,
         NEW host \in [p : PNodes, depth : Nat], queue' = Expanded(host)
  PROVE  /\ queue' \in Seq([p : PNodes, depth : Nat]) /\ Len(queue) <= Len(queue')
         /\ \A i \in DOMAIN queue : queue'[i] = queue[i]
         /\ \A i, j \in DOMAIN queue' : queue'[i].p = queue'[j].p => i = j
<1> DEFINE q == Expanded(host)
           T == [p : PNodes, depth : Nat]
<1>1. queue \in Seq(T) /\ DOMAIN queue = 1 .. Len(queue) /\ Len(queue) \in Nat
  BY DEF BfsTypeOK
<1>2. CASE q = queue
  BY <1>1, <1>2
<1>3. CASE q = queue \o Found(host)
  <2> DEFINE f == Found(host)
  <2>1. /\ f \in Seq(T) /\ \A i \in DOMAIN f : f[i].p \notin Visited
        /\ \A i, j \in DOMAIN f : f[i].p = f[j].p => i = j
    BY FoundHosts
  <2> HIDE DEF f
  <2>2. DOMAIN f = 1 .. Len(f) /\ Len(f) \in Nat
    BY <2>1
  <2>3. q = queue \o f
    BY <1>3 DEF f
  <2> HIDE DEF q
  <2>4. q \in Seq(T) /\ Len(q) = Len(queue) + Len(f) /\ DOMAIN q = 1 .. Len(queue) + Len(f)
    BY <1>1, <2>1, <2>3
  <2>5. \A i \in DOMAIN q : q[i] = IF i <= Len(queue) THEN queue[i] ELSE f[i - Len(queue)]
    BY <1>1, <2>1, <2>3, <2>4
  <2>6. \A i \in DOMAIN queue : queue[i].p \in Visited
    BY DEF Visited
  <2>7. ASSUME NEW i \in DOMAIN q, NEW j \in DOMAIN q, q[i].p = q[j].p PROVE i = j
    <3>1. ASSUME NEW k \in DOMAIN q
          PROVE  k \in DOMAIN queue \/ (k - Len(queue) \in DOMAIN f /\ ~(k <= Len(queue)))
      <4>1. Len(queue) \in Nat /\ Len(f) \in Nat /\ k \in 1 .. Len(queue) + Len(f)
        BY <1>1, <2>2, <2>4
      <4>2. \A a, b \in Nat : \A x \in 1 .. a + b : x \in 1 .. a \/ (x - a \in 1 .. b /\ ~(x <= a))
        <5> SUFFICES ASSUME NEW a \in Nat, NEW b \in Nat, NEW x \in 1 .. a + b
                     PROVE  x \in 1 .. a \/ (x - a \in 1 .. b /\ ~(x <= a))
          OBVIOUS
        <5>1. x \in Int /\ 1 <= x /\ x <= a + b
          OBVIOUS
        <5>2. x <= a => x \in 1 .. a
          BY <5>1
        <5>3. ~(x <= a) => x - a \in 1 .. b
          BY <5>1
        <5>4. x <= a \/ ~(x <= a)
          OBVIOUS
        <5> QED
          BY <5>2, <5>3, <5>4
      <4>3. k \in 1 .. Len(queue) \/ (k - Len(queue) \in 1 .. Len(f) /\ ~(k <= Len(queue)))
        BY <4>1, <4>2
      <4> QED
        BY <1>1, <2>2, <4>3
    <3>2. \A k \in DOMAIN queue : k <= Len(queue)
      BY <1>1
    <3>3. CASE i \in DOMAIN queue /\ j \in DOMAIN queue
      BY <2>5, <2>7, <3>2, <3>3
    <3>4. CASE i - Len(queue) \in DOMAIN f /\ ~(i <= Len(queue)) /\ j - Len(queue) \in DOMAIN f /\ ~(j <= Len(queue))
      <4>1. i - Len(queue) = j - Len(queue)
        BY <2>1, <2>5, <2>7, <3>4
      <4> QED
        BY <1>1, <2>4, <4>1
    <3>5. CASE i \in DOMAIN queue /\ j - Len(queue) \in DOMAIN f /\ ~(j <= Len(queue))
      BY <2>1, <2>5, <2>6, <2>7, <3>2, <3>5
    <3>6. CASE j \in DOMAIN queue /\ i - Len(queue) \in DOMAIN f /\ ~(i <= Len(queue))
      BY <2>1, <2>5, <2>6, <2>7, <3>2, <3>6
    <3> QED
      BY <3>1, <3>3, <3>4, <3>5, <3>6
  <2>8. Len(queue) <= Len(q) /\ \A i \in DOMAIN queue : q[i] = queue[i]
    BY <1>1, <2>2, <2>4, <2>5
  <2> QED
    BY <2>4, <2>7, <2>8 DEF q
<1>4. q = queue \/ q = queue \o Found(host)
  BY DEF Expanded
<1> QED
  BY <1>2, <1>3, <1>4

-----------------------------------------------------------------------------
(* The initial state, and what the steps share.                             *)

LEMMA BfsShared ==
  BfsInv => /\ BfsTypeOK /\ PlacementTypeOK /\ DistinctNodes /\ TablesInv
            /\ \A l \in pending : l \in Adjacent
            /\ DOMAIN queue = 1 .. Len(queue) /\ Len(queue) \in Nat /\ head \in Nat
  BY DEF BfsInv, BfsTypeOK, RankInv

\* Steps that leave the placement alone leave all that is said of it alone.
LEMMA SamePlacement ==
  ASSUME UNCHANGED placementVars
  PROVE  /\ PlacementTypeOK' <=> PlacementTypeOK
         /\ DistinctNodes' <=> DistinctNodes
         /\ TablesInv' <=> TablesInv
         /\ Balanced' <=> Balanced
         /\ Placed' = Placed /\ LastSlot' = LastSlot
         /\ \A l : Joins(l)' <=> Joins(l)
         /\ \A v : LinksToUndo(v)' = LinksToUndo(v)
<1> USE DEF placementVars, linkVars
<1>1. Placed' = Placed /\ LastSlot' = LastSlot /\ \A v : HostOf(v)' = HostOf(v)
  BY DEF Placed, LastSlot, HostOf
<1>2. (\A l : Joins(l)' <=> Joins(l)) /\ \A v : LinksToUndo(v)' = LinksToUndo(v)
  BY <1>1 DEF Joins, LinksToUndo
<1>3. (PlacementTypeOK' <=> PlacementTypeOK) /\ (DistinctNodes' <=> DistinctNodes)
  BY DEF PlacementTypeOK, DistinctNodes
<1>4. TablesInv' <=> TablesInv
  BY DEF TablesInv, JournalMatches
<1>5. Balanced' <=> Balanced
  BY DEF Balanced, NodesBalanced, LinksBalanced, NodesHeld, LinksHeld
<1> QED
  BY <1>1, <1>2, <1>3, <1>4, <1>5

LEMMA InitPlacement ==
  ASSUME PlacementInit
  PROVE  PlacementTypeOK /\ DistinctNodes /\ TablesInv /\ Balanced /\ Placed = {}
<1> USE DEF PlacementInit
<1>1. PlacementTypeOK
  BY PlacementAssumption DEF PlacementTypeOK
<1>2. DistinctNodes /\ Placed = {} /\ DOMAIN nodeSlots = {}
  BY DEF DistinctNodes, Placed
<1>3. TablesInv
  <2>1. nodeInfo = {<<nodeSlots[i].v, nodeSlots[i].p>> : i \in DOMAIN nodeSlots}
    BY <1>2
  <2>2. pathInfo = {x \in Adjacent \X PLinks : x[2] \in linkPaths[x[1]]}
    OBVIOUS
  <2> QED
    BY <2>1, <2>2 DEF TablesInv, JournalMatches
<1>4. Balanced
  <2>1. (\A p : NodesHeld(p) = 0) /\ (\A e : LinksHeld(e) = 0)
    BY NothingHeld DEF NodesHeld, LinksHeld
  <2> QED
    BY <2>1, PlacementAssumption DEF Balanced, NodesBalanced, LinksBalanced
<1> QED
  BY <1>1, <1>2, <1>3, <1>4

LEMMA BfsInitInv == BfsInit => BfsInv
<1> SUFFICES ASSUME BfsInit PROVE BfsInv
  OBVIOUS
<1>1. PlacementTypeOK /\ DistinctNodes /\ TablesInv /\ Balanced /\ Placed = {}
  BY InitPlacement DEF BfsInit
<1>2. /\ nodeSlots = <<>> /\ routed = {} /\ where = "visit" /\ pending = {} /\ head = 0
      /\ placed = 0 /\ attempts = 0 /\ ended = "no" /\ order \in Rankings /\ limits \in Limits
  BY DEF BfsInit, PlacementInit
<1>3. PICK root \in PNodes : queue = <<[p |-> root, depth |-> 0]>>
  BY BfsAssumption DEF BfsInit
<1>4. /\ queue \in Seq([p : PNodes, depth : Nat]) /\ Len(queue) = 1
      /\ \A i, j \in DOMAIN queue : queue[i].p = queue[j].p => i = j
  BY <1>3
<1>5. BfsTypeOK
  BY <1>1, <1>2, <1>4 DEF BfsTypeOK
<1>6. QueueInv
  BY <1>2, <1>4 DEF QueueInv
<1>7. RankInv
  <2>1. DOMAIN nodeSlots = {} /\ Len(nodeSlots) = 0
    BY <1>2
  <2>2. Len(order) \in Nat \ {0}
    BY <1>5, RankedNodes
  <2> QED
    BY <1>1, <1>2, <2>1, <2>2 DEF RankInv
<1>8. CallInv
  BY <1>2 DEF CallInv
<1>9. KeptInv
  BY <1>1, <1>2 DEF KeptInv
<1>10. RolledBackIsUntouched
  BY <1>2 DEF RolledBackIsUntouched
<1> QED
  BY <1>1, <1>5, <1>6, <1>7, <1>8, <1>9, <1>10 DEF BfsInv

\* Hosts of slots stay among the visited ones.
LEMMA VisitsKept ==
  ASSUME BfsInv, head' \in {head, head + 1}, \A i \in DOMAIN queue : queue'[i] = queue[i]
  PROVE  \A i \in DOMAIN nodeSlots : \E j \in 1 .. head' : queue'[j].p = nodeSlots[i].p
<1> SUFFICES ASSUME NEW i \in DOMAIN nodeSlots
             PROVE  \E j \in 1 .. head' : queue'[j].p = nodeSlots[i].p
  OBVIOUS
<1>1. PICK j \in 1 .. head : queue[j].p = nodeSlots[i].p
  BY DEF BfsInv, RankInv
<1>2. j \in DOMAIN queue /\ j \in 1 .. head'
  BY BfsShared DEF BfsInv, BfsTypeOK
<1> QED
  BY <1>1, <1>2

LEMMA NextHost ==
  ASSUME BfsInv, HasHost
  PROVE  /\ head + 1 \in 1 .. Len(queue) /\ queue[head + 1] \in [p : PNodes, depth : Nat]
         /\ \A j \in 1 .. head : queue[j].p # queue[head + 1].p
<1>1. /\ queue \in Seq([p : PNodes, depth : Nat]) /\ DOMAIN queue = 1 .. Len(queue)
      /\ head \in Nat /\ Len(queue) \in Nat
  BY BfsShared DEF BfsTypeOK
<1>2. head + 1 \in 1 .. Len(queue)
  BY <1>1 DEF HasHost
<1>3. \A j \in 1 .. head : j \in DOMAIN queue /\ j # head + 1
  BY <1>1, <1>2
<1>4. queue[head + 1] \in [p : PNodes, depth : Nat]
  <2> DEFINE T == [p : PNodes, depth : Nat]
  <2>1. queue \in Seq(T)
    BY <1>1
  <2> HIDE DEF T
  <2>2. queue[head + 1] \in T
    BY <1>1, <1>2, <2>1
  <2> QED
    BY <2>2 DEF T
<1>5. \A i, j \in DOMAIN queue : queue[i].p = queue[j].p => i = j
  BY DEF BfsInv, QueueInv
<1> QED
  BY <1>1, <1>2, <1>3, <1>4, <1>5

LEMMA PlaceFailsStep ==
  ASSUME BfsInv, PlaceFails
  PROVE  BfsInv'
<1>1. /\ where = "visit" /\ where' = "visit" /\ HasHost /\ head' = head + 1 /\ attempts' = attempts + 1
      /\ queue' = Expanded(queue[head + 1])
      /\ UNCHANGED <<placementVars, order, limits, pending, placed, ended>>
      /\ ended = "no"
  BY DEF PlaceFails, input, BfsInv, CallInv
<1>2. /\ PlacementTypeOK' /\ DistinctNodes' /\ TablesInv' /\ (Balanced' <=> Balanced) /\ Placed' = Placed
      /\ \A l : Joins(l)' <=> Joins(l)
  BY <1>1, SamePlacement, BfsShared
<1>3. nodeSlots' = nodeSlots /\ routed' = routed
  BY <1>1 DEF placementVars, linkVars
<1>4. queue[head + 1] \in [p : PNodes, depth : Nat] /\ head + 1 \in 1 .. Len(queue)
  BY <1>1, NextHost
<1>5. /\ queue' \in Seq([p : PNodes, depth : Nat]) /\ Len(queue) <= Len(queue')
      /\ \A i \in DOMAIN queue : queue'[i] = queue[i]
      /\ \A i, j \in DOMAIN queue' : queue'[i].p = queue'[j].p => i = j
  BY <1>1, <1>4, BfsShared, QueueGrows DEF BfsInv, QueueInv
<1>6. BfsTypeOK'
  <2>1. head' \in 0 .. Len(queue') /\ attempts' \in Nat
    BY <1>1, <1>4, <1>5, BfsShared DEF BfsTypeOK
  <2> QED
    BY <1>1, <1>2, <1>5, <2>1, BfsShared DEF BfsTypeOK
<1>7. QueueInv'
  BY <1>1, <1>5, BfsShared DEF QueueInv, BfsInv, BfsTypeOK
<1>8. RankInv'
  <2>1. \A i \in DOMAIN nodeSlots' : \E j \in 1 .. head' : queue'[j].p = nodeSlots'[i].p
    BY <1>1, <1>3, <1>5, VisitsKept
  <2> QED
    BY <1>1, <1>2, <1>3, <2>1 DEF RankInv, BfsInv
<1>9. CallInv'
  BY <1>1 DEF CallInv, BfsInv
<1>10. KeptInv'
  BY <1>1, <1>2, <1>3 DEF KeptInv, Unrouted, Leaving, BfsInv
<1>11. RolledBackIsUntouched'
  BY <1>1 DEF RolledBackIsUntouched
<1> QED
  BY <1>2, <1>6, <1>7, <1>8, <1>9, <1>10, <1>11 DEF BfsInv

\* The node of the call takes the host of the visit; its links are to be routed.
LEMMA PlacesStep ==
  ASSUME BfsInv, Places
  PROVE  BfsInv'
<1>1. /\ where = "visit" /\ where' = "routing" /\ HasHost /\ head' = head + 1
      /\ Place(Node, queue[head + 1].p) /\ pending' = LinksToRoute(Node)
      /\ UNCHANGED <<linkAvail, routed, linkPaths, pathInfo, order, limits, queue, placed, attempts, ended>>
  BY DEF Places, input, linkVars
<1>2. PICK v \in VNodes, p \in PNodes :
        v = Node /\ p = queue[head + 1].p /\ v \notin Placed /\ v = order[placed + 1]
  BY <1>1, NodeIsNew, NextHost DEF Node
<1>3. /\ ended = "no" /\ pending = {} /\ placed + attempts = head /\ Len(nodeSlots) = placed
      /\ placed < Len(order) /\ placed \in Nat /\ attempts \in Nat
  BY <1>1 DEF BfsInv, CallInv, QueueInv, RankInv, BfsTypeOK
<1>4. /\ nodeSlots' = Append(nodeSlots, Slot(v, p)) /\ nodeAvail' \in [PNodes -> Nat]
      /\ nodeInfo' \subseteq VNodes \X PNodes
      /\ nodeInfo' = {<<nodeSlots'[i].v, nodeSlots'[i].p>> : i \in DOMAIN nodeSlots'}
  BY <1>1, <1>2, PlaceTables, BfsShared
<1>5. /\ nodeSlots' \in Seq(SlotType) /\ nodeSlots' # <<>>
      /\ Len(nodeSlots') = Len(nodeSlots) + 1 /\ LastSlot' = Slot(v, p)
      /\ DOMAIN nodeSlots' = 1 .. Len(nodeSlots) + 1
      /\ \A i \in DOMAIN nodeSlots : nodeSlots'[i] = nodeSlots[i]
      /\ nodeSlots'[Len(nodeSlots) + 1] = Slot(v, p)
      /\ \A i, j \in DOMAIN nodeSlots' : nodeSlots'[i].v = nodeSlots'[j].v => i = j
      /\ Placed' = Placed \cup {v} /\ \A u \in Placed : HostOf(u)' = HostOf(u)
  BY <1>2, <1>4, AppendSlot, BfsShared
<1>6. /\ pending' = {l \in Adjacent : /\ l[1] = v /\ l[2] \in Placed'
                                      /\ l \notin routed /\ Reversed(l) \notin routed}
      /\ routed \subseteq Adjacent /\ routed' = routed /\ linkPaths' = linkPaths
  BY <1>1, <1>2 DEF LinksToRoute, BfsInv, BfsTypeOK, PlacementTypeOK
<1>7. BfsTypeOK'
  <2>1. PlacementTypeOK'
    BY <1>1, <1>4, <1>5 DEF BfsInv, BfsTypeOK, PlacementTypeOK
  <2>2. head' \in 0 .. Len(queue')
    BY <1>1, NextHost, BfsShared
  <2> QED
    BY <1>1, <1>6, <2>1, <2>2 DEF BfsInv, BfsTypeOK
<1>8. QueueInv'
  BY <1>1, <1>3, BfsShared DEF QueueInv, BfsInv
<1>9. RankInv'
  <2>1. DOMAIN nodeSlots = 1 .. placed /\ DOMAIN nodeSlots' = DOMAIN nodeSlots \cup {placed + 1}
    <3>1. DOMAIN nodeSlots = 1 .. Len(nodeSlots)
      BY DEF BfsInv, BfsTypeOK, PlacementTypeOK
    <3> QED
      BY <1>3, <1>5, <3>1
  <2>2. nodeSlots'[placed + 1].v = v /\ nodeSlots'[placed + 1].p = p
    BY <1>3, <1>5 DEF Slot
  <2>3. \A i \in DOMAIN nodeSlots' : nodeSlots'[i].v = order'[i]
    BY <1>1, <1>2, <1>5, <2>1, <2>2 DEF BfsInv, RankInv
  <2>4. \A i \in DOMAIN nodeSlots : \E j \in 1 .. head : queue[j].p = nodeSlots[i].p
    BY DEF BfsInv, RankInv
  <2>5. \A i \in DOMAIN nodeSlots' : \E j \in 1 .. head' : queue'[j].p = nodeSlots'[i].p
    <3>1. ASSUME NEW i \in DOMAIN nodeSlots PROVE \E j \in 1 .. head' : queue'[j].p = nodeSlots'[i].p
      <4>1. PICK j \in 1 .. head : queue[j].p = nodeSlots[i].p
        BY <2>4
      <4>2. j \in 1 .. head'
        BY <1>1, BfsShared
      <4> QED
        BY <1>1, <1>5, <4>1, <4>2
    <3>2. head + 1 \in 1 .. head'
      BY <1>1, BfsShared
    <3> QED
      BY <1>1, <1>2, <2>1, <2>2, <3>1, <3>2
  <2>6. \A i \in DOMAIN nodeSlots : nodeSlots[i].p # p
    BY <1>1, <1>2, <2>4, NextHost
  <2>7. \A i, j \in DOMAIN nodeSlots' : nodeSlots'[i].p = nodeSlots'[j].p => i = j
    BY <1>5, <2>1, <2>2, <2>6 DEF BfsInv, RankInv
  <2>8. Len(nodeSlots') = placed' + 1 /\ Len(nodeSlots') <= Len(order')
    <3>1. Len(order) \in Nat
      BY RankedNodes, BfsShared
    <3> QED
      BY <1>1, <1>3, <1>5, <3>1
  <2>9. DistinctNodes'
    BY <1>5 DEF DistinctNodes
  <2> QED
    BY <1>1, <1>3, <2>3, <2>5, <2>7, <2>8, <2>9 DEF RankInv
<1>10. TablesInv'
  BY <1>1, <1>4 DEF BfsInv, TablesInv, JournalMatches
<1>11. CallInv'
  <2>1. ASSUME NEW l \in pending'
        PROVE  /\ l[1] = v /\ {l[1], l[2]} \subseteq Placed'
               /\ l \notin routed' /\ Reversed(l) \notin routed' \cup pending'
    BY <1>5, <1>6, AdjacentLinks
  <2> QED
    BY <1>1, <1>3, <1>5, <2>1 DEF CallInv, Slot
<1>12. ASSUME NEW l \in routed PROVE Joins(l)'
  <2>1. Joins(l) /\ l \in Adjacent
    BY <1>1, <1>3, <1>6 DEF BfsInv, KeptInv, Leaving
  <2> QED
    BY <1>5, <1>6, <2>1, JoinsKept DEF Joins
<1>13. ASSUME NEW l \in VLinks, {l[1], l[2]} \subseteq Placed'
       PROVE  l \in routed \cup pending' \/ Reversed(l) \in routed \cup pending'
  <2>1. l \in Adjacent /\ Reversed(l) \in Adjacent /\ Reversed(Reversed(l)) = l
        /\ Reversed(l)[1] = l[2] /\ Reversed(l)[2] = l[1]
    BY AdjacentLinks
  <2>2. CASE {l[1], l[2]} \subseteq Placed
    BY <1>1, <1>3, <2>2 DEF BfsInv, KeptInv, Unrouted
  <2>3. CASE l[1] = v
    BY <1>6, <1>13, <2>1, <2>3
  <2>4. CASE l[2] = v
    BY <1>6, <1>13, <2>1, <2>4
  <2> QED
    BY <1>5, <1>13, <2>2, <2>3, <2>4
<1>14. Balanced'
  <2>1. NodesBalanced'
    BY <1>1, <1>2, <1>3, PlaceBalances, BfsShared DEF BfsInv, KeptInv, Balanced
  <2>2. LinksBalanced'
    BY <1>1, <1>3 DEF BfsInv, KeptInv, Balanced, LinksBalanced, LinksHeld
  <2> QED
    BY <2>1, <2>2 DEF Balanced
<1>15. KeptInv'
  BY <1>1, <1>6, <1>12, <1>13, <1>14 DEF KeptInv, Unrouted
<1>16. RolledBackIsUntouched'
  BY <1>1, <1>3 DEF RolledBackIsUntouched
<1> QED
  BY <1>7, <1>8, <1>9, <1>10, <1>11, <1>15, <1>16 DEF BfsInv

\* The links of the call that routes, before its next step.
LEMMA BfsLinkToRoute ==
  ASSUME BfsInv, where = "routing", NEW l \in pending
  PROVE  /\ l \in Adjacent /\ l \notin routed /\ Reversed(l) \notin routed /\ Reversed(l) \notin pending
         /\ l[1] = LastSlot.v /\ {l[1], l[2]} \subseteq Placed /\ ended = "no"
  BY DEF BfsInv, BfsTypeOK, CallInv

LEMMA BfsRoutesStep ==
  ASSUME BfsInv, NEW l \in pending, RoutesLink(l)
  PROVE  BfsInv'
<1>1. /\ where = "routing" /\ where' = "routing" /\ Route(l) /\ pending' = pending \ {l}
      /\ UNCHANGED <<nodeAvail, nodeSlots, nodeInfo, order, limits, queue, head, placed, attempts, ended>>
  BY DEF RoutesLink, input, searchVars
<1>2. /\ l \in Adjacent /\ l \notin routed /\ Reversed(l) \notin routed /\ Reversed(l) \notin pending
      /\ {l[1], l[2]} \subseteq Placed /\ ended = "no"
  BY <1>1, BfsLinkToRoute
<1>3. /\ linkAvail' \in [PLinks -> Nat] /\ routed' = routed \cup {l}
      /\ linkPaths' \in [Adjacent -> SUBSET PLinks]
      /\ linkPaths'[l] \in Paths[<<HostOf(l[1]), HostOf(l[2])>>]
      /\ \A k \in Adjacent : k # l => linkPaths'[k] = linkPaths[k]
      /\ pathInfo' = {x \in Adjacent \X PLinks : x[2] \in linkPaths'[x[1]]}
  BY <1>1, <1>2, RouteTables, BfsShared
<1>4. Placed' = Placed /\ LastSlot' = LastSlot /\ \A u : HostOf(u)' = HostOf(u)
  BY <1>1 DEF Placed, LastSlot, HostOf
<1>5. routed \subseteq Adjacent /\ pending \subseteq Adjacent
  BY DEF BfsInv, BfsTypeOK, PlacementTypeOK
<1>6. BfsTypeOK'
  <2>1. PlacementTypeOK'
    BY <1>1, <1>2, <1>3, <1>5 DEF BfsInv, BfsTypeOK, PlacementTypeOK
  <2> QED
    BY <1>1, <1>5, <2>1 DEF BfsInv, BfsTypeOK
<1>7. QueueInv' /\ RankInv'
  BY <1>1 DEF BfsInv, QueueInv, RankInv, DistinctNodes
<1>8. TablesInv'
  <2>1. JournalMatches'
    BY <1>1, <1>3 DEF BfsInv, TablesInv, JournalMatches
  <2>2. \A k \in routed' : Reversed(k) \notin routed'
    BY <1>2, <1>3, <1>5, AdjacentLinks DEF BfsInv, TablesInv
  <2> QED
    BY <1>3, <2>1, <2>2 DEF BfsInv, TablesInv
<1>9. CallInv'
  <2>1. ASSUME NEW k \in pending'
        PROVE  /\ k[1] = LastSlot'.v /\ {k[1], k[2]} \subseteq Placed' /\ k \notin routed'
               /\ Reversed(k) \notin routed' \cup pending'
    <3>1. k \in pending /\ k # l /\ k \in Adjacent
      BY <1>1, <1>5
    <3>2. /\ {k[1], k[2]} \subseteq Placed /\ k \notin routed /\ Reversed(k) \notin routed
          /\ Reversed(k) \notin pending /\ k[1] = LastSlot.v
      BY <1>1, <3>1, BfsLinkToRoute
    <3> QED
      BY <1>1, <1>3, <1>4, <3>1, <3>2
  <2> QED
    BY <1>1, <1>2, <2>1 DEF CallInv
<1>10. ASSUME NEW k \in routed' PROVE Joins(k)'
  <2>1. CASE k = l
    BY <1>2, <1>3, <1>4, <2>1 DEF Joins
  <2>2. CASE k # l
    <3>1. k \in routed /\ Joins(k)
      BY <1>1, <1>2, <1>3, <2>2 DEF BfsInv, KeptInv, Leaving
    <3> QED
      BY <1>3, <1>4, <1>5, <2>2, <3>1 DEF Joins
  <2> QED
    BY <2>1, <2>2
<1>11. Balanced'
  <2>1. Balanced
    BY <1>2 DEF BfsInv, KeptInv
  <2>2. NodesBalanced'
    BY <1>1, <2>1 DEF Balanced, NodesBalanced, NodesHeld
  <2>3. LinksBalanced'
    <3>1. pathInfo' \subseteq Adjacent \X PLinks
      BY <1>3
    <3> QED
      BY <1>1, <1>2, <2>1, <3>1, RouteBalances, BfsShared DEF Balanced
  <2> QED
    BY <2>2, <2>3 DEF Balanced
<1>12. KeptInv'
  <2>1. \A k \in VLinks : {k[1], k[2]} \subseteq Placed =>
          k \in routed \cup pending \/ Reversed(k) \in routed \cup pending
    BY <1>1, <1>2 DEF BfsInv, KeptInv, Unrouted
  <2>2. routed' \cup pending' = routed \cup pending
    BY <1>1, <1>3
  <2> QED
    BY <1>1, <1>4, <1>10, <1>11, <2>1, <2>2 DEF KeptInv, Unrouted
<1>13. RolledBackIsUntouched'
  BY <1>1, <1>2 DEF RolledBackIsUntouched
<1> QED
  BY <1>6, <1>7, <1>8, <1>9, <1>12, <1>13 DEF BfsInv

\* A link without a path: its node is taken back, and its entries are to be undone.
LEMMA BfsRevokesStep ==
  ASSUME BfsInv, NEW l \in pending, RoutesNoLink(l)
  PROVE  BfsInv'
<1>1. /\ where = "routing" /\ where' = "undoing" /\ RouteFails(l) /\ UndoPlace
      /\ pending' = {k \in routed' : Touches(k, LastSlot.v)} /\ attempts' = attempts + 1
      /\ UNCHANGED <<order, limits, queue, head, placed, ended>>
  BY DEF RoutesNoLink, Failed, input
<1>2. /\ l \in Adjacent /\ l \notin routed /\ Reversed(l) \notin routed /\ l[1] = LastSlot.v
      /\ {l[1], l[2]} \subseteq Placed /\ ended = "no"
  BY <1>1, BfsLinkToRoute
<1>3. UNCHANGED <<linkAvail, linkPaths, pathInfo>> /\ routed' = routed \cup {l}
  BY <1>1, <1>2, RouteFailsTables, BfsShared
<1>4. /\ Len(nodeSlots) = placed + 1 /\ placed + attempts + 1 = head /\ placed < Len(order)
      /\ placed \in Nat /\ attempts \in Nat /\ nodeSlots # <<>>
      /\ \A k \in pending : k[1] = LastSlot.v
  <2>1. /\ Len(nodeSlots) = placed + 1 /\ placed + attempts + 1 = head
        /\ Len(nodeSlots) <= Len(order) /\ placed \in Nat /\ attempts \in Nat
        /\ \A k \in pending : k[1] = LastSlot.v
    BY <1>1 DEF BfsInv, QueueInv, RankInv, CallInv, BfsTypeOK
  <2>2. Len(order) \in Nat
    BY RankedNodes, BfsShared
  <2> QED
    BY <2>1, <2>2
<1>5. /\ nodeSlots' \in Seq(SlotType) /\ Len(nodeSlots') = Len(nodeSlots) - 1
      /\ Len(nodeSlots) \in DOMAIN nodeSlots /\ LastSlot \in SlotType /\ LastSlot.v \in Placed
      /\ DOMAIN nodeSlots' \subseteq DOMAIN nodeSlots
      /\ \A i \in DOMAIN nodeSlots' : nodeSlots'[i] = nodeSlots[i]
      /\ \A i, j \in DOMAIN nodeSlots' : nodeSlots'[i].v = nodeSlots'[j].v => i = j
      /\ Placed' = Placed \ {LastSlot.v}
      /\ \A u \in Placed' : HostOf(u)' = HostOf(u)
  BY <1>1, <1>4, DropSlot, BfsShared DEF UndoPlace
<1>6. Node' = LastSlot.v
  <2>1. nodeSlots[placed + 1].v = order[placed + 1]
    BY <1>4, <1>5 DEF BfsInv, RankInv
  <2> QED
    BY <1>1, <1>4, <2>1 DEF Node, LastSlot
<1>7. routed \subseteq Adjacent /\ pending \subseteq Adjacent
  BY DEF BfsInv, BfsTypeOK, PlacementTypeOK
<1>8. /\ nodeAvail' \in [PNodes -> Nat] /\ nodeInfo' \subseteq VNodes \X PNodes
      /\ nodeInfo' = {<<nodeSlots'[i].v, nodeSlots'[i].p>> : i \in DOMAIN nodeSlots'}
  BY <1>1, <1>4, UndoPlaceTables, BfsShared
<1>9. BfsTypeOK'
  <2>1. PlacementTypeOK'
    BY <1>2, <1>3, <1>5, <1>7, <1>8 DEF BfsInv, BfsTypeOK, PlacementTypeOK
  <2>2. attempts' \in Nat /\ pending' \subseteq Adjacent
    BY <1>1, <1>2, <1>3, <1>4, <1>7
  <2> QED
    BY <1>1, <2>1, <2>2 DEF BfsInv, BfsTypeOK
<1>10. QueueInv'
  BY <1>1, <1>4 DEF BfsInv, QueueInv
<1>11. RankInv'
  <2>1. DistinctNodes'
    BY <1>5 DEF DistinctNodes
  <2>2. Len(nodeSlots') = placed' /\ placed' < Len(order') /\ Len(nodeSlots') <= Len(order')
    <3>1. Len(order) \in Nat
      BY RankedNodes, BfsShared
    <3> QED
      BY <1>1, <1>4, <1>5, <3>1
  <2>3. /\ \A i \in DOMAIN nodeSlots' : nodeSlots'[i].v = order'[i]
        /\ \A i \in DOMAIN nodeSlots' : \E j \in 1 .. head' : queue'[j].p = nodeSlots'[i].p
    BY <1>1, <1>5 DEF BfsInv, RankInv
  <2>4. \A i, j \in DOMAIN nodeSlots' : nodeSlots'[i].p = nodeSlots'[j].p => i = j
    BY <1>5 DEF BfsInv, RankInv
  <2> QED
    BY <1>1, <1>2, <2>1, <2>2, <2>3, <2>4 DEF RankInv
<1>12. TablesInv'
  <2>1. \A k \in routed' : Reversed(k) \notin routed'
    BY <1>2, <1>3, <1>7, AdjacentLinks DEF BfsInv, TablesInv
  <2>2. JournalMatches'
    BY <1>3, <1>8 DEF BfsInv, TablesInv, JournalMatches
  <2> QED
    BY <1>3, <2>1, <2>2 DEF BfsInv, TablesInv
<1>13. CallInv'
  BY <1>1, <1>2, <1>6 DEF CallInv, LinksToUndo
<1>14. ASSUME NEW k \in routed' PROVE Joins(k)' \/ k \in pending'
  <2>1. CASE Touches(k, LastSlot.v)
    BY <1>1, <2>1
  <2>2. CASE ~Touches(k, LastSlot.v)
    <3>1. k \in routed /\ Joins(k) /\ k \in Adjacent
      BY <1>1, <1>2, <1>3, <1>7, <2>2 DEF BfsInv, KeptInv, Leaving, Touches
    <3> QED
      BY <1>3, <1>5, <2>2, <3>1, JoinsKept DEF Joins, Touches
  <2> QED
    BY <2>1, <2>2
<1>15. ASSUME NEW k \in VLinks, {k[1], k[2]} \subseteq Placed'
       PROVE  k \in routed \/ Reversed(k) \in routed
  <2>1. k \in routed \cup pending \/ Reversed(k) \in routed \cup pending
    BY <1>1, <1>2, <1>5, <1>15 DEF BfsInv, KeptInv, Unrouted
  <2>2. Reversed(k)[1] = k[2]
    BY AdjacentLinks
  <2> QED
    BY <1>4, <1>5, <1>15, <2>1, <2>2
<1>16. Balanced'
  <2>1. Balanced
    BY <1>2 DEF BfsInv, KeptInv
  <2>2. NodesBalanced'
    BY <1>1, <1>4, <2>1, UndoPlaceBalances, BfsShared DEF Balanced
  <2>3. LinksBalanced'
    BY <1>3, <2>1 DEF Balanced, LinksBalanced, LinksHeld
  <2> QED
    BY <2>2, <2>3 DEF Balanced
<1>17. KeptInv'
  BY <1>1, <1>3, <1>14, <1>15, <1>16 DEF KeptInv, Leaving, Unrouted
<1>18. RolledBackIsUntouched'
  BY <1>1, <1>2 DEF RolledBackIsUntouched
<1> QED
  BY <1>9, <1>10, <1>11, <1>12, <1>13, <1>17, <1>18 DEF BfsInv

LEMMA BfsUndoesStep ==
  ASSUME BfsInv, NEW l \in pending, UndoesLink(l)
  PROVE  BfsInv'
<1>1. /\ where = "undoing" /\ where' = "undoing" /\ UndoRoute(l) /\ pending' = pending \ {l}
      /\ UNCHANGED <<nodeAvail, nodeSlots, nodeInfo, order, limits, queue, head, placed, attempts, ended>>
  BY DEF UndoesLink, input, searchVars
<1>2. /\ l \in Adjacent /\ l \in routed /\ pending = {k \in routed : Touches(k, Node)}
      /\ pending \subseteq Adjacent /\ routed \subseteq Adjacent /\ ended = "no"
      /\ Node \notin Placed
  BY <1>1, NodeIsNew DEF BfsInv, BfsTypeOK, PlacementTypeOK, CallInv, LinksToUndo
<1>3. /\ linkAvail' \in [PLinks -> Nat] /\ routed' = routed \ {l}
      /\ linkPaths' \in [Adjacent -> SUBSET PLinks] /\ linkPaths'[l] = {}
      /\ \A k \in Adjacent : k # l => linkPaths'[k] = linkPaths[k]
      /\ pathInfo' = {x \in Adjacent \X PLinks : x[2] \in linkPaths'[x[1]]}
  BY <1>1, <1>2, BfsShared, UndoRouteTables
<1>4. Placed' = Placed /\ Node' = Node /\ \A u : HostOf(u)' = HostOf(u)
  BY <1>1 DEF Placed, HostOf, Node
<1>5. BfsTypeOK'
  <2>1. PlacementTypeOK'
    BY <1>1, <1>2, <1>3 DEF BfsInv, BfsTypeOK, PlacementTypeOK
  <2> QED
    BY <1>1, <1>2, <2>1 DEF BfsInv, BfsTypeOK
<1>6. QueueInv' /\ RankInv'
  BY <1>1 DEF BfsInv, QueueInv, RankInv, DistinctNodes
<1>7. TablesInv'
  <2>1. JournalMatches'
    BY <1>1, <1>3 DEF BfsInv, TablesInv, JournalMatches
  <2> QED
    BY <1>3, <2>1 DEF BfsInv, TablesInv
<1>8. CallInv'
  <2>1. pending' = LinksToUndo(Node)'
    BY <1>1, <1>2, <1>3, <1>4 DEF LinksToUndo
  <2> QED
    BY <1>1, <1>2, <2>1 DEF CallInv
<1>9. ASSUME NEW k \in routed' PROVE Joins(k)' \/ k \in pending'
  <2>1. k \in routed /\ k # l /\ k \in Adjacent /\ (Joins(k) \/ k \in pending)
    BY <1>1, <1>2, <1>3 DEF BfsInv, KeptInv, Leaving
  <2> QED
    BY <1>1, <1>3, <1>4, <2>1 DEF Joins
<1>10. ASSUME NEW k \in VLinks, {k[1], k[2]} \subseteq Placed
       PROVE  k \in routed' \/ Reversed(k) \in routed'
  <2>1. k \in routed \/ Reversed(k) \in routed
    BY <1>1, <1>2, <1>10 DEF BfsInv, KeptInv, Unrouted
  <2>2. Reversed(k)[1] = k[2] /\ Reversed(k)[2] = k[1]
    BY AdjacentLinks
  <2> QED
    BY <1>2, <1>3, <1>10, <2>1, <2>2 DEF Touches
<1>11. Balanced'
  <2>1. Balanced
    BY <1>2 DEF BfsInv, KeptInv
  <2>2. NodesBalanced'
    BY <1>1, <2>1 DEF Balanced, NodesBalanced, NodesHeld
  <2>3. LinksBalanced'
    BY <1>1, <1>2, <2>1, UndoRouteBalances, BfsShared DEF Balanced
  <2> QED
    BY <2>2, <2>3 DEF Balanced
<1>12. KeptInv'
  BY <1>1, <1>4, <1>9, <1>10, <1>11 DEF KeptInv, Leaving, Unrouted
<1>13. RolledBackIsUntouched'
  BY <1>1, <1>2 DEF RolledBackIsUntouched
<1> QED
  BY <1>5, <1>6, <1>7, <1>8, <1>12, <1>13 DEF BfsInv

\* The visit goes on to the next host once the call has left nothing behind.
LEMMA VisitGoesOn ==
  ASSUME BfsInv, where \in {"routing", "undoing"}, pending = {}, where' = "visit",
         queue' = Expanded(Visit), placed' \in Nat, placed' + attempts = head,
         Len(nodeSlots) = placed', placed' < Len(order),
         UNCHANGED <<placementVars, order, limits, pending, head, attempts, ended>>
  PROVE  BfsInv'
<1>1. ended = "no" /\ head \in DOMAIN queue
  BY BfsShared DEF BfsInv, CallInv, QueueInv, BfsTypeOK
<1>2. Visit \in [p : PNodes, depth : Nat]
  <2> DEFINE T == [p : PNodes, depth : Nat]
  <2>1. queue \in Seq(T)
    BY DEF BfsInv, BfsTypeOK
  <2> HIDE DEF T
  <2>2. queue[head] \in T
    BY <1>1, <2>1
  <2> QED
    BY <2>2 DEF T, Visit
<1>3. /\ queue' \in Seq([p : PNodes, depth : Nat]) /\ Len(queue) <= Len(queue')
      /\ \A i \in DOMAIN queue : queue'[i] = queue[i]
      /\ \A i, j \in DOMAIN queue' : queue'[i].p = queue'[j].p => i = j
  BY <1>2, BfsShared, QueueGrows DEF BfsInv, QueueInv
<1>4. /\ PlacementTypeOK' /\ DistinctNodes' /\ TablesInv' /\ (Balanced' <=> Balanced) /\ Placed' = Placed
      /\ \A l : Joins(l)' <=> Joins(l)
  BY SamePlacement, BfsShared
<1>5. nodeSlots' = nodeSlots /\ routed' = routed
  BY DEF placementVars, linkVars
<1>6. BfsTypeOK'
  <2>1. head' \in 0 .. Len(queue')
    BY <1>1, <1>3, BfsShared
  <2> QED
    BY <1>3, <1>4, <2>1, BfsShared DEF BfsTypeOK
<1>7. QueueInv'
  BY <1>3 DEF QueueInv
<1>8. RankInv'
  <2>1. \A i \in DOMAIN nodeSlots' : \E j \in 1 .. head' : queue'[j].p = nodeSlots'[i].p
    BY <1>3, <1>5, VisitsKept
  <2>2. Len(nodeSlots') = placed' /\ placed' < Len(order') /\ ended' # "committed"
    BY <1>1, <1>5
  <2> QED
    BY <1>4, <1>5, <2>1, <2>2 DEF RankInv, BfsInv
<1>9. CallInv'
  BY <1>1 DEF CallInv
<1>10. KeptInv'
  BY <1>1, <1>4, <1>5 DEF KeptInv, Unrouted, Leaving, BfsInv
<1>11. RolledBackIsUntouched'
  BY <1>1 DEF RolledBackIsUntouched
<1> QED
  BY <1>4, <1>6, <1>7, <1>8, <1>9, <1>10, <1>11 DEF BfsInv

LEMMA UndoneStep ==
  ASSUME BfsInv, Undone
  PROVE  BfsInv'
<1>1. /\ where = "undoing" /\ pending = {} /\ where' = "visit" /\ queue' = Expanded(Visit)
      /\ UNCHANGED <<placementVars, order, limits, pending, head, placed, attempts, ended>>
  BY DEF Undone, input
<1>2. /\ placed' \in Nat /\ placed' + attempts = head /\ Len(nodeSlots) = placed' /\ placed' < Len(order)
  BY <1>1 DEF BfsInv, BfsTypeOK, QueueInv, RankInv
<1> QED
  BY <1>1, <1>2, VisitGoesOn

LEMMA SucceedsStep ==
  ASSUME BfsInv, Succeeds
  PROVE  BfsInv'
<1>1. /\ where = "routing" /\ pending = {} /\ placed' = placed + 1
      /\ UNCHANGED <<placementVars, order, limits, pending, head, attempts>>
  BY DEF Succeeds, input
<1>2. /\ placed \in Nat /\ attempts \in Nat /\ placed + attempts + 1 = head
      /\ Len(nodeSlots) = placed + 1 /\ Len(nodeSlots) <= Len(order) /\ ended = "no"
  BY <1>1 DEF BfsInv, BfsTypeOK, QueueInv, RankInv, CallInv
<1>3. Len(order) \in Nat
  BY RankedNodes, BfsShared
<1>4. CASE placed + 1 < Len(order)
  <2>1. where' = "visit" /\ queue' = Expanded(Visit) /\ UNCHANGED ended
    BY <1>4 DEF Succeeds
  <2>2. placed' \in Nat /\ placed' + attempts = head /\ Len(nodeSlots) = placed' /\ placed' < Len(order)
    BY <1>1, <1>2, <1>4
  <2> QED
    BY <1>1, <2>1, <2>2, VisitGoesOn
<1>5. CASE ~(placed + 1 < Len(order))
  <2>1. where' = "done" /\ ended' = "committed" /\ queue' = queue
    BY <1>5 DEF Succeeds
  <2>2. /\ PlacementTypeOK' /\ DistinctNodes' /\ TablesInv' /\ (Balanced' <=> Balanced) /\ Placed' = Placed
        /\ \A l : Joins(l)' <=> Joins(l)
    BY <1>1, SamePlacement, BfsShared
  <2>3. nodeSlots' = nodeSlots /\ routed' = routed
    BY <1>1 DEF placementVars, linkVars
  <2>4. BfsTypeOK'
    BY <1>1, <1>2, <2>1, <2>2 DEF BfsInv, BfsTypeOK
  <2>5. QueueInv'
    BY <1>1, <2>1 DEF BfsInv, QueueInv
  <2>6. RankInv'
    <3>1. Len(nodeSlots) = Len(order)
      BY <1>2, <1>3, <1>5
    <3> QED
      BY <1>1, <2>1, <2>2, <2>3, <3>1 DEF BfsInv, RankInv
  <2>7. CallInv'
    BY <2>1 DEF CallInv
  <2>8. KeptInv'
    BY <1>1, <1>2, <2>1, <2>2, <2>3 DEF BfsInv, KeptInv, Unrouted, Leaving
  <2>9. RolledBackIsUntouched'
    BY <2>1 DEF RolledBackIsUntouched
  <2> QED
    BY <2>2, <2>4, <2>5, <2>6, <2>7, <2>8, <2>9 DEF BfsInv
<1> QED
  BY <1>4, <1>5

\* Giving up and throwing roll back, in the middle of a call or between two.
LEMMA RollsBackStep ==
  ASSUME BfsInv, where # "done", Rollback(Checkpoint), where' = "done", ended' \in {"detached", "threw"},
         UNCHANGED <<order, limits, pending, queue, head, placed, attempts>>
  PROVE  BfsInv'
<1>1. ended = "no" /\ Balanced
  BY DEF BfsInv, CallInv, BfsTypeOK, KeptInv
<1>2. nodeAvail' = NodeCapacity /\ linkAvail' = LinkCapacity
  BY <1>1, BfsAssumption, RollbackRestores, BfsShared
<1>3. UNCHANGED <<nodeSlots, nodeInfo, routed, linkPaths, pathInfo>>
  BY DEF Rollback
<1>4. BfsTypeOK'
  <2>1. PlacementTypeOK'
    BY <1>2, <1>3, PlacementAssumption DEF BfsInv, BfsTypeOK, PlacementTypeOK
  <2> QED
    BY <2>1 DEF BfsInv, BfsTypeOK
<1>5. QueueInv' /\ RankInv' /\ CallInv'
  BY <1>3 DEF BfsInv, QueueInv, RankInv, DistinctNodes, CallInv
<1>6. TablesInv'
  BY <1>3 DEF BfsInv, TablesInv, JournalMatches
<1>7. KeptInv' /\ RolledBackIsUntouched'
  BY <1>2 DEF KeptInv, RolledBackIsUntouched
<1> QED
  BY <1>4, <1>5, <1>6, <1>7 DEF BfsInv

LEMMA BfsStutters ==
  ASSUME BfsInv, UNCHANGED bfsVars
  PROVE  BfsInv'
<1>1. UNCHANGED <<placementVars, order, limits, where, pending, queue, head, placed, attempts, ended>>
  BY DEF bfsVars, input, searchVars
<1>2. /\ PlacementTypeOK' /\ DistinctNodes' /\ TablesInv' /\ (Balanced' <=> Balanced) /\ Placed' = Placed
      /\ LastSlot' = LastSlot
      /\ (\A l : Joins(l)' <=> Joins(l)) /\ \A v : LinksToUndo(v)' = LinksToUndo(v)
  BY <1>1, SamePlacement, BfsShared
<1>3. UNCHANGED <<nodeSlots, routed, nodeAvail, linkAvail>>
  BY <1>1 DEF placementVars, linkVars
<1>4. BfsTypeOK' /\ QueueInv'
  BY <1>1, <1>2 DEF BfsInv, BfsTypeOK, QueueInv
<1>5. RankInv'
  BY <1>1, <1>2, <1>3 DEF BfsInv, RankInv
<1>6. CallInv'
  <2>1. Node' = Node
    BY <1>1 DEF Node
  <2> QED
    BY <1>1, <1>2, <1>3, <2>1 DEF BfsInv, CallInv
<1>7. KeptInv' /\ RolledBackIsUntouched'
  BY <1>1, <1>2, <1>3 DEF BfsInv, KeptInv, Unrouted, Leaving, RolledBackIsUntouched
<1> QED
  BY <1>2, <1>4, <1>5, <1>6, <1>7 DEF BfsInv

LEMMA BfsNextInv == BfsInv /\ [BfsNext]_bfsVars => BfsInv'
<1> SUFFICES ASSUME BfsInv, [BfsNext]_bfsVars PROVE BfsInv'
  OBVIOUS
<1>1. CASE PlaceFails
  BY <1>1, PlaceFailsStep
<1>2. CASE Places
  BY <1>2, PlacesStep
<1>3. ASSUME NEW l \in pending, RoutesLink(l) \/ RoutesNoLink(l) \/ UndoesLink(l) PROVE BfsInv'
  BY <1>3, BfsRoutesStep, BfsRevokesStep, BfsUndoesStep
<1>4. CASE Undone
  BY <1>4, UndoneStep
<1>5. CASE Succeeds
  BY <1>5, SucceedsStep
<1>6. CASE GivesUp
  BY <1>6, RollsBackStep DEF GivesUp, input
<1>7. CASE Throws
  BY <1>7, RollsBackStep DEF Throws, input
<1>8. CASE UNCHANGED bfsVars
  BY <1>8, BfsStutters
<1> QED
  BY <1>1, <1>2, <1>3, <1>4, <1>5, <1>6, <1>7, <1>8 DEF BfsNext

-----------------------------------------------------------------------------
(* MetaHeuristic: positions.                                                *)

PositionsHere == [Genes -> HostIds \cup {Unplaced}]

\* A position with one gene per host that leaves no gene out while a host is free.
FullPositions ==
  {p \in PositionsHere :
     /\ \A g, k \in Genes : g # k /\ p[g] = p[k] => p[g] = Unplaced
     /\ (\E g \in Genes : p[g] = Unplaced) => HostIds \subseteq HostsOf(p)}

LEMMA LandscapeTypes ==
  ASSUME landscape \in Landscapes
  PROVE  /\ landscape.nodes \in Nat \ {0} /\ landscape.hosts \in Nat \ {0}
         /\ \A p \in PositionsHere : Cost(p) \in Nat /\ Cost(p) <= Infinite
         /\ Infinite \in Nat /\ PopulationSize \in Nat \ {0} /\ Iterations \in Nat
         /\ 1 \in Genes /\ Genes \subseteq Nat /\ HostIds \subseteq Nat /\ Unplaced \notin HostIds
<1>1. landscape.nodes \in Nat \ {0} /\ landscape.hosts \in Nat \ {0} /\ Infinite \in Nat
      /\ PopulationSize \in Nat \ {0} /\ Iterations \in Nat
  BY MetaAssumption
<1>2. landscape.cost \in [PositionsOf(landscape.nodes, landscape.hosts) -> 0 .. Infinite]
  BY MetaAssumption
<1>3. PositionsHere = PositionsOf(landscape.nodes, landscape.hosts)
  BY DEF PositionsHere, PositionsOf, Genes, HostIds
<1>4. ASSUME NEW p \in PositionsHere PROVE Cost(p) \in Nat /\ Cost(p) <= Infinite
  <2>1. landscape.cost[p] \in 0 .. Infinite
    BY <1>2, <1>3
  <2>2. QED
    BY <2>1, <1>1 DEF Cost
<1>5. QED
  BY <1>1, <1>4 DEF Genes, HostIds, Unplaced

\* A position that is not empty is one of genes.
LEMMA PositionsAreFull ==
  ASSUME landscape \in Landscapes, NEW p \in FullPositions
  PROVE  p \in PositionsHere /\ p # <<>>
<1>1. p \in [Genes -> HostIds \cup {Unplaced}]
  BY DEF FullPositions, PositionsHere
<1>2. 1 \in DOMAIN p /\ DOMAIN <<>> = {}
  BY <1>1, LandscapeTypes
<1>3. QED
  BY <1>1, <1>2 DEF PositionsHere

LEMMA CountsHere ==
  ASSUME landscape \in Landscapes
  PROVE  /\ IsFiniteSet(Genes) /\ Cardinality(Genes) = landscape.nodes
         /\ IsFiniteSet(HostIds) /\ Cardinality(HostIds) = landscape.hosts
<1>1. landscape.nodes \in Nat \ {0} /\ landscape.hosts \in Nat \ {0}
  BY LandscapeTypes
<1>2. QED
  BY <1>1, CountTo DEF Genes, HostIds

\* A full position has as many hosts as it can have.
LEMMA FullCount ==
  ASSUME landscape \in Landscapes, NEW p \in FullPositions
  PROVE  Cardinality(HostsOf(p)) = Min({landscape.nodes, landscape.hosts})
<1> DEFINE n == landscape.nodes
           h == landscape.hosts
<1>1. n \in Nat \ {0} /\ h \in Nat \ {0}
  BY LandscapeTypes
<1>2. /\ IsFiniteSet(Genes) /\ Cardinality(Genes) = n
      /\ IsFiniteSet(HostIds) /\ Cardinality(HostIds) = h
  BY CountsHere
<1>3. p \in [Genes -> HostIds \cup {Unplaced}]
  BY DEF FullPositions, PositionsHere
<1>4. HostsOf(p) \subseteq HostIds
  BY <1>3 DEF HostsOf
<1>5. CASE \E g \in Genes : p[g] = Unplaced
  <2>1. PICK g0 \in Genes : p[g0] = Unplaced
    BY <1>5
  <2>2. HostsOf(p) = HostIds
    BY <1>5, <1>4 DEF FullPositions
  <2> DEFINE f == [x \in HostIds |-> CHOOSE g \in Genes : p[g] = x]
  <2>3. ASSUME NEW x \in HostIds PROVE f[x] \in Genes \ {g0} /\ p[f[x]] = x
    <3>1. \E g \in Genes : p[g] = x
      BY <2>2, <1>3 DEF HostsOf
    <3>2. f[x] \in Genes /\ p[f[x]] = x
      BY <3>1
    <3>3. QED
      BY <3>2, <2>1, LandscapeTypes
  <2>4. f \in [HostIds -> Genes \ {g0}] /\ \A x, y \in HostIds : f[x] = f[y] => x = y
    <3> HIDE DEF f
    <3>1. \A x, y \in HostIds : f[x] = f[y] => x = y
      BY <2>3
    <3>2. f = [x \in HostIds |-> f[x]]
      BY DEF f
    <3>3. QED
      BY <3>1, <3>2, <2>3
  <2> HIDE DEF f
  <2>5. f \in Injection(HostIds, Genes \ {g0})
    BY <2>4 DEF Injection, IsInjective
  <2>6. IsFiniteSet(Genes \ {g0}) /\ Cardinality(Genes \ {g0}) = n - 1
    BY <1>2, <2>1, FS_RemoveElement
  <2>7. h <= n - 1
    BY <2>5, <2>6, <1>2, FS_Injection
  <2>8. Min({n, h}) = h
    BY <2>7, <1>1 DEF Min
  <2>9. QED
    BY <2>2, <2>8, <1>2
<1>6. CASE \A g \in Genes : p[g] # Unplaced
  <2>1. p \in [Genes -> HostIds] /\ \A g, k \in Genes : p[g] = p[k] => g = k
    BY <1>6, <1>3 DEF FullPositions
  <2>2. HostsOf(p) = {p[g] : g \in Genes}
    BY <1>6, <1>3 DEF HostsOf
  <2>3. p \in Injection(Genes, HostIds) /\ p \in Bijection(Genes, HostsOf(p))
    BY <2>1, <2>2 DEF Injection, IsInjective, Bijection, Surjection
  <2>4. n <= h
    BY <2>3, <1>2, FS_Injection
  <2>5. Cardinality(HostsOf(p)) = n
    BY <2>3, <1>2, FS_Bijection DEF ExistsBijection
  <2>6. Min({n, h}) = n
    BY <2>4, <1>1 DEF Min
  <2>7. QED
    BY <2>5, <2>6
<1>7. QED
  BY <1>5, <1>6

\* The random starts, the greedy one and the ants' tours are full.
LEMMA ToursAreFull ==
  ASSUME landscape \in Landscapes, NEW p \in Tours
  PROVE  p \in FullPositions
<1> DEFINE n == landscape.nodes
           h == landscape.hosts
<1>1. n \in Nat \ {0} /\ h \in Nat \ {0}
  BY LandscapeTypes
<1>2. /\ p \in [Genes -> HostIds \cup {Unplaced}]
      /\ \A g \in Genes : p[g] = Unplaced <=> g > h
      /\ \A g, k \in Genes : g # k /\ p[g] # Unplaced => p[g] # p[k]
  BY DEF Tours
<1>3. ASSUME NEW g0 \in Genes, p[g0] = Unplaced PROVE HostIds \subseteq HostsOf(p)
  <2>1. 1 .. h \subseteq Genes
    BY <1>1, <1>2, <1>3 DEF Genes
  <2> DEFINE f == [g \in 1 .. h |-> p[g]]
  <2>2. \A g \in 1 .. h : p[g] \in HostIds
    BY <2>1, <1>1, <1>2
  <2>3. f \in Injection(1 .. h, HostIds)
    <3>1. f \in [1 .. h -> HostIds]
      BY <2>2
    <3>2. \A g, k \in 1 .. h : f[g] = f[k] => g = k
      <4>1. \A g, k \in 1 .. h : g # k => p[g] # p[k]
        BY <2>1, <2>2, <1>2, LandscapeTypes
      <4>2. QED
        BY <4>1
    <3>3. QED
      BY <3>1, <3>2 DEF Injection, IsInjective
  <2>4. IsFiniteSet(HostIds) /\ Cardinality(HostIds) = h
    BY CountsHere
  <2>9. Cardinality(1 .. h) = h
    BY <1>1, CountTo
  <2>5. f \in Surjection(1 .. h, HostIds)
    BY <2>3, <2>4, <2>9, FS_Injection
  <2>6. \A x \in HostIds : \E g \in 1 .. h : p[g] = x
    BY <2>5 DEF Surjection
  <2>7. \A x \in HostIds : \E g \in Genes : p[g] = x /\ x # Unplaced
    BY <2>6, <2>1, LandscapeTypes
  <2>8. QED
    BY <2>7, <1>2 DEF HostsOf
<1>4. QED
  BY <1>2, <1>3 DEF FullPositions, PositionsHere

LEMMA GreedyIsTour ==
  ASSUME landscape \in Landscapes
  PROVE  Greedy \in Tours
<1>1. landscape.nodes \in Nat \ {0} /\ landscape.hosts \in Nat \ {0}
  BY LandscapeTypes
<1>2. \A g \in Genes : Greedy[g] \in HostIds \cup {Unplaced}
  BY <1>1 DEF Greedy, Genes, HostIds
<1>3. Greedy \in [Genes -> HostIds \cup {Unplaced}]
  BY <1>2 DEF Greedy
<1>4. \A g \in Genes : Greedy[g] = Unplaced <=> g > landscape.hosts
  BY <1>1 DEF Greedy, Genes, Unplaced
<1>5. \A g, k \in Genes : g # k /\ Greedy[g] # Unplaced => Greedy[g] # Greedy[k]
  BY <1>1 DEF Greedy, Genes, Unplaced
<1>6. QED
  BY <1>3, <1>4, <1>5 DEF Tours

\* A neighbour of a position is a position, and of a full one a full one.
LEMMA NeighborsAreFull ==
  ASSUME landscape \in Landscapes, NEW p \in PositionsHere, NEW q \in NeighborPositions(p)
  PROVE  q \in PositionsHere /\ (p \in FullPositions => q \in FullPositions)
<1>1. CASE HostIds \subseteq HostsOf(p)
  BY <1>1 DEF NeighborPositions
<1>2. CASE ~(HostIds \subseteq HostsOf(p))
  <2>1. PICK g \in Genes, x \in HostIds \ HostsOf(p) : q = [p EXCEPT ![g] = x]
    BY <1>2 DEF NeighborPositions
  <2>2. q \in PositionsHere
    BY <2>1 DEF PositionsHere
  <2>3. ASSUME p \in FullPositions PROVE q \in FullPositions
    <3>1. \A k \in Genes : p[k] # Unplaced
      BY <1>2, <2>3 DEF FullPositions
    <3>2. \A k \in Genes : p[k] # x
      BY <2>1, <3>1, LandscapeTypes DEF HostsOf, PositionsHere
    <3>3. \A k \in Genes : q[k] = IF k = g THEN x ELSE p[k]
      BY <2>1 DEF PositionsHere
    <3>4. \A k, m \in Genes : k # m => q[k] # q[m]
      BY <3>1, <3>2, <3>3, <2>3 DEF FullPositions
    <3>5. \A k \in Genes : q[k] # Unplaced
      BY <3>1, <3>3, LandscapeTypes
    <3>6. QED
      BY <2>2, <3>4, <3>5 DEF FullPositions
  <2>4. QED
    BY <2>2, <2>3
<1>3. QED
  BY <1>1, <1>2

-----------------------------------------------------------------------------
(* MetaHeuristic: repair.                                                   *)

\* What repair_position makes of the host of one more gene.
Kept(kept, host) ==
  LET free == HostIds \ Occupied(kept)
  IN Append(kept, IF host \in free THEN host ELSE IF free = {} THEN Unplaced ELSE Min(free))

\* The genes kept so far are apart, and none has no host while one is free.
KeptSoFar(g) ==
  {kept \in [1 .. g -> HostIds \cup {Unplaced}] :
     /\ \A i, j \in 1 .. g : i # j /\ kept[i] = kept[j] => kept[i] = Unplaced
     /\ (\E i \in 1 .. g : kept[i] = Unplaced) => HostIds \subseteq HostsOf(kept)}

LEMMA LeastHost ==
  ASSUME landscape \in Landscapes, NEW free \in SUBSET HostIds, free # {}
  PROVE  Min(free) \in free
<1>1. free \in SUBSET Nat
  BY LandscapeTypes
<1>2. \E x \in free : \A y \in free : x <= y
  BY <1>1, LeastNat
<1>3. QED
  BY <1>2 DEF Min

LEMMA KeptGrows ==
  ASSUME landscape \in Landscapes, NEW g \in Nat, NEW kept \in KeptSoFar(g), NEW host
  PROVE  Kept(kept, host) \in KeptSoFar(g + 1)
<1> DEFINE free == HostIds \ HostsOf(kept)
           new == IF host \in free THEN host ELSE IF free = {} THEN Unplaced ELSE Min(free)
           q == Append(kept, new)
<1>1. /\ kept \in [1 .. g -> HostIds \cup {Unplaced}] /\ DOMAIN kept = 1 .. g
      /\ \A i, j \in 1 .. g : i # j /\ kept[i] = kept[j] => kept[i] = Unplaced
      /\ (\E i \in 1 .. g : kept[i] = Unplaced) => HostIds \subseteq HostsOf(kept)
  BY DEF KeptSoFar
<1>2. new \in HostIds \cup {Unplaced} /\ (free # {} => new \in free) /\ (free = {} => new = Unplaced)
  BY LeastHost
<1>3. Kept(kept, host) = q
  BY DEF Kept, Occupied
<1>4. /\ q \in [1 .. g + 1 -> HostIds \cup {Unplaced}]
      /\ \A i \in 1 .. g + 1 : q[i] = IF i = g + 1 THEN new ELSE kept[i]
  <2> HIDE DEF new
  <2>1. kept \in Seq(HostIds \cup {Unplaced}) /\ Len(kept) = g
    BY <1>1
  <2>2. q \in Seq(HostIds \cup {Unplaced}) /\ Len(q) = g + 1
    BY <2>1, <1>2
  <2>3. \A i \in 1 .. g + 1 : q[i] = IF i = g + 1 THEN new ELSE kept[i]
    BY <2>1, <1>2
  <2>4. q \in [1 .. Len(q) -> HostIds \cup {Unplaced}]
    BY <2>2, LenProperties
  <2>5. QED
    BY <2>2, <2>3, <2>4
<1> HIDE DEF new, q
<1>5. \A i \in 1 .. g : kept[i] # new \/ new = Unplaced
  <2>1. ASSUME NEW i \in 1 .. g, kept[i] = new, new # Unplaced PROVE FALSE
    <3>1. new \notin HostsOf(kept)
      BY <1>2, <2>1
    <3>2. QED
      BY <3>1, <2>1, <1>1 DEF HostsOf
  <2>2. QED
    BY <2>1
<1>6. \A i, j \in 1 .. g + 1 : i # j /\ q[i] = q[j] => q[i] = Unplaced
  BY <1>1, <1>4, <1>5
<1>7. HostsOf(kept) \subseteq HostsOf(q)
  BY <1>1, <1>4 DEF HostsOf
<1>8. ASSUME NEW i \in 1 .. g + 1, q[i] = Unplaced PROVE HostIds \subseteq HostsOf(q)
  <2>1. CASE i \in 1 .. g
    BY <2>1, <1>8, <1>4, <1>1, <1>7
  <2>2. CASE i = g + 1
    <3>1. new = Unplaced
      BY <2>2, <1>8, <1>4
    <3>2. free = {}
      BY <3>1, <1>2, LandscapeTypes
    <3>3. QED
      BY <3>2, <1>7
  <2>3. QED
    BY <2>1, <2>2
<1>9. QED
  BY <1>3, <1>4, <1>6, <1>8 DEF KeptSoFar

\* repair_position gives a full position whatever it is given.
LEMMA RepairedIsFull ==
  ASSUME landscape \in Landscapes, NEW p \in PositionsHere
  PROVE  Repaired(p) \in FullPositions
<1> DEFINE n == landscape.nodes
           X == Seq(HostIds \cup {Unplaced})
           IsUpTo(f) == f = [g \in 0 .. n |-> IF g = 0 THEN <<>> ELSE Kept(f[g - 1], p[g])]
<1>1. n \in Nat \ {0}
  BY LandscapeTypes
<1>2. \E f : IsUpTo(f)
  <2> DEFINE step == [s \in (1 .. n) \X X |-> Kept(s[2], p[s[1]])]
  <2>1. ASSUME NEW s \in (1 .. n) \X X PROVE Kept(s[2], p[s[1]]) \in X
    <3>1. p[s[1]] \in HostIds \cup {Unplaced} /\ s[2] \in X
      BY DEF PositionsHere, Genes
    <3> DEFINE free == HostIds \ HostsOf(s[2])
               new == IF p[s[1]] \in free THEN p[s[1]] ELSE IF free = {} THEN Unplaced ELSE Min(free)
    <3>2. new \in HostIds \cup {Unplaced}
      BY LeastHost
    <3>3. Kept(s[2], p[s[1]]) = Append(s[2], new)
      BY DEF Kept, Occupied
    <3> HIDE DEF new
    <3>4. QED
      BY <3>1, <3>2, <3>3
  <2>2. step \in [(1 .. n) \X X -> X]
    BY <2>1
  <2>3. <<>> \in X
    OBVIOUS
  <2> HIDE DEF step
  <2>4. PICK f : Steps(n, X, <<>>, step, f)
    BY <1>1, <2>2, <2>3, StepsExist
  <2>5. f \in [0 .. n -> X] /\ f[0] = <<>> /\ \A k \in 1 .. n : f[k] = step[<<k, f[k - 1]>>]
    BY <2>4 DEF Steps
  <2>6. ASSUME NEW k \in 1 .. n PROVE f[k] = Kept(f[k - 1], p[k])
    <3>1. k - 1 \in 0 .. n
      BY <1>1
    <3>2. f[k - 1] \in X
      BY <3>1, <2>5
    <3>3. step[<<k, f[k - 1]>>] = Kept(f[k - 1], p[k])
      BY <3>2 DEF step
    <3>4. QED
      BY <3>3, <2>5
  <2>7. \A g \in 0 .. n : f[g] = IF g = 0 THEN <<>> ELSE Kept(f[g - 1], p[g])
    BY <2>5, <2>6, <1>1
  <2>8. IsUpTo(f)
    BY <2>5, <2>7
  <2>9. QED
    BY <2>8
<1> DEFINE upTo == CHOOSE f : IsUpTo(f)
<1>3. IsUpTo(upTo)
  BY <1>2
<1>4. Repaired(p) = upTo[n]
  BY DEF Repaired, Kept
<1> HIDE DEF upTo
<1> DEFINE T == {g \in 0 .. n : upTo[g] \in KeptSoFar(g)}
<1>5. 0 \in T
  <2>1. upTo[0] = <<>>
    BY <1>3, <1>1
  <2>2. <<>> \in KeptSoFar(0)
    BY DEF KeptSoFar
  <2>3. QED
    BY <2>1, <2>2, <1>1
<1>6. ASSUME NEW g \in 0 .. n - 1, g \in T PROVE g + 1 \in T
  <2>1. upTo[g] \in KeptSoFar(g)
    BY <1>6
  <2>2. g \in Nat /\ g + 1 \in 0 .. n /\ g + 1 # 0 /\ (g + 1) - 1 = g
    BY <1>1
  <2>3. upTo[g + 1] = Kept(upTo[g], p[g + 1])
    BY <1>3, <2>2
  <2>4. upTo[g + 1] \in KeptSoFar(g + 1)
    BY <2>1, <2>2, <2>3, KeptGrows
  <2>5. QED
    BY <2>4, <2>2
<1>7. upTo[n] \in KeptSoFar(n)
  <2> HIDE DEF T
  <2>1. 0 .. n \subseteq T
    BY <1>1, <1>5, <1>6, CountingUp
  <2>2. n \in T
    BY <2>1, <1>1
  <2>3. QED
    BY <2>2 DEF T
<1>8. KeptSoFar(n) = FullPositions
  BY DEF KeptSoFar, FullPositions, PositionsHere, Genes
<1>9. QED
  BY <1>4, <1>7, <1>8

-----------------------------------------------------------------------------
(* MetaHeuristic: what best_of and KeptBest compare.                        *)

\* Positions are ordered by their first difference.
LEMMA PrecedesOrders ==
  ASSUME landscape \in Landscapes, NEW p \in PositionsHere, NEW q \in PositionsHere, NEW r \in PositionsHere
  PROVE  /\ ~Precedes(p, p)
         /\ Precedes(p, q) /\ Precedes(q, r) => Precedes(p, r)
         /\ p = q \/ Precedes(p, q) \/ Precedes(q, p)
<1>1. \A g \in Genes : p[g] \in Int /\ q[g] \in Int /\ r[g] \in Int
  BY LandscapeTypes DEF PositionsHere, HostIds, Unplaced
<1>2. \A g \in Genes : g \in Nat /\ 1 .. g - 1 \subseteq Genes
  BY LandscapeTypes DEF Genes
<1>3. ~Precedes(p, p)
  BY <1>1 DEF Precedes
<1>4. ASSUME Precedes(p, q), Precedes(q, r) PROVE Precedes(p, r)
  <2>1. PICK g \in Genes : p[g] < q[g] /\ \A k \in 1 .. g - 1 : p[k] = q[k]
    BY <1>4 DEF Precedes
  <2>2. PICK m \in Genes : q[m] < r[m] /\ \A k \in 1 .. m - 1 : q[k] = r[k]
    BY <1>4 DEF Precedes
  <2>3. CASE g <= m
    <3>1. p[g] < r[g]
      <4>1. CASE g = m
        BY <4>1, <2>1, <2>2, <1>1
      <4>2. CASE g # m
        <5>1. g \in 1 .. m - 1
          BY <4>2, <2>3, <1>2 DEF Genes
        <5>2. QED
          BY <5>1, <2>1, <2>2, <1>1
      <4>3. QED
        BY <4>1, <4>2
    <3>2. \A k \in 1 .. g - 1 : p[k] = r[k]
      <4>1. 1 .. g - 1 \subseteq 1 .. m - 1
        BY <2>3, <1>2
      <4>2. QED
        BY <4>1, <2>1, <2>2
    <3>3. QED
      BY <3>1, <3>2 DEF Precedes
  <2>4. CASE m < g
    <3>1. m \in 1 .. g - 1
      BY <2>4, <1>2 DEF Genes
    <3>2. p[m] < r[m]
      BY <3>1, <2>1, <2>2
    <3>3. \A k \in 1 .. m - 1 : p[k] = r[k]
      <4>1. 1 .. m - 1 \subseteq 1 .. g - 1
        BY <2>4, <1>2
      <4>2. QED
        BY <4>1, <2>1, <2>2
    <3>4. QED
      BY <3>2, <3>3 DEF Precedes
  <2>5. QED
    BY <2>3, <2>4, <1>2
<1>5. p = q \/ Precedes(p, q) \/ Precedes(q, p)
  <2> DEFINE apart == {g \in Genes : p[g] # q[g]}
  <2>1. CASE apart = {}
    BY <2>1 DEF PositionsHere
  <2>2. CASE apart # {}
    <3>1. apart \in SUBSET Nat
      BY <1>2
    <3>2. PICK g \in apart : \A k \in apart : g <= k
      <4> HIDE DEF apart
      <4>1. QED
        BY <2>2, <3>1, LeastNat
    <3>3. \A k \in 1 .. g - 1 : p[k] = q[k]
      BY <3>2, <1>2
    <3>4. p[g] < q[g] \/ q[g] < p[g]
      BY <3>2, <1>1
    <3>5. QED
      BY <3>2, <3>3, <3>4 DEF Precedes
  <2>3. QED
    BY <2>1, <2>2
<1>6. QED
  BY <1>3, <1>4, <1>5

\* Better is a strict order, and what beats one position beats every position
\* that this one is no better than.
LEMMA BetterOrders ==
  ASSUME landscape \in Landscapes, NEW p \in PositionsHere, NEW q \in PositionsHere, NEW r \in PositionsHere
  PROVE  /\ ~Better(p, p)
         /\ Better(p, q) /\ Better(q, r) => Better(p, r)
         /\ Better(p, r) => Better(p, q) \/ Better(q, r)
<1>1. Cost(p) \in Nat /\ Cost(q) \in Nat /\ Cost(r) \in Nat
  BY LandscapeTypes
<1>2. ~Better(p, p)
  BY <1>1, PrecedesOrders DEF Better
<1>3. Better(p, q) /\ Better(q, r) => Better(p, r)
  BY <1>1, PrecedesOrders DEF Better, Feasible
<1>4. ASSUME Better(p, r) PROVE Better(p, q) \/ Better(q, r)
  <2>1. CASE Cost(p) < Cost(r)
    BY <2>1, <1>1 DEF Better
  <2>2. CASE Cost(p) = Cost(r) /\ Feasible(p) /\ Precedes(p, r)
    <3>1. CASE Cost(q) # Cost(p)
      BY <2>2, <3>1, <1>1 DEF Better
    <3>2. CASE Cost(q) = Cost(p)
      <4>1. p = q \/ Precedes(p, q) \/ Precedes(q, p)
        BY PrecedesOrders
      <4>2. Precedes(q, p) /\ Precedes(p, r) => Precedes(q, r)
        BY PrecedesOrders
      <4>3. Precedes(p, q) \/ Precedes(q, r)
        BY <4>1, <4>2, <2>2
      <4>4. QED
        BY <4>3, <3>2, <2>2 DEF Better, Feasible
    <3>3. QED
      BY <3>1, <3>2
  <2>3. QED
    BY <1>4, <2>1, <2>2 DEF Better
<1>5. QED
  BY <1>2, <1>3, <1>4

\* best_of finds a candidate that none of the others is better than.
LEMMA BestOfIsBest ==
  ASSUME landscape \in Landscapes, NEW n \in Nat \ {0}, NEW candidates,
         DOMAIN candidates = 1 .. n, \A i \in 1 .. n : candidates[i] \in PositionsHere
  PROVE  /\ \E i \in 1 .. n : BestOf(candidates) = candidates[i]
         /\ \A j \in 1 .. n : ~Better(candidates[j], BestOf(candidates))
<1> DEFINE top == {i \in 1 .. n : \A j \in 1 .. n : ~Better(candidates[j], candidates[i])}
           T == {m \in 0 .. n : m = 0 \/ \E i \in 1 .. m : \A j \in 1 .. m : ~Better(candidates[j], candidates[i])}
<1>1. 0 \in T
  OBVIOUS
<1>2. ASSUME NEW m \in 0 .. n - 1, m \in T PROVE m + 1 \in T
  <2>1. m + 1 \in 1 .. n /\ \A j \in 1 .. m + 1 : j \in 1 .. n /\ (j \in 1 .. m \/ j = m + 1)
    OBVIOUS
  <2>2. ~Better(candidates[m + 1], candidates[m + 1])
    BY <2>1, BetterOrders
  <2>3. CASE m = 0
    <3>1. \A j \in 1 .. m + 1 : j = m + 1
      BY <2>3
    <3>2. QED
      BY <2>1, <2>2, <3>1
  <2>4. CASE m # 0
    <3>1. PICK i \in 1 .. m : \A j \in 1 .. m : ~Better(candidates[j], candidates[i])
      BY <1>2, <2>4
    <3>2. i \in 1 .. n /\ i \in 1 .. m + 1
      OBVIOUS
    <3>3. CASE ~Better(candidates[m + 1], candidates[i])
      <4>1. \A j \in 1 .. m + 1 : ~Better(candidates[j], candidates[i])
        BY <3>1, <3>3, <2>1
      <4>2. QED
        BY <3>2, <4>1, <2>1
    <3>4. CASE Better(candidates[m + 1], candidates[i])
      <4>1. ASSUME NEW j \in 1 .. m PROVE ~Better(candidates[j], candidates[m + 1])
        <5>1. j \in 1 .. n
          OBVIOUS
        <5>2. Better(candidates[j], candidates[m + 1]) => Better(candidates[j], candidates[i])
          BY <5>1, <3>2, <3>4, <2>1, BetterOrders
        <5>3. QED
          BY <5>2, <3>1
      <4>2. \A j \in 1 .. m + 1 : ~Better(candidates[j], candidates[m + 1])
        BY <4>1, <2>1, <2>2
      <4>3. QED
        BY <4>2, <2>1
    <3>5. QED
      BY <3>3, <3>4
  <2>5. QED
    BY <2>3, <2>4
<1>3. top # {}
  <2> HIDE DEF T
  <2>1. 0 .. n \subseteq T
    BY <1>1, <1>2, CountingUp
  <2>2. n \in T
    BY <2>1
  <2>3. QED
    BY <2>2 DEF T
<1>4. Min(top) \in top
  <2>1. top \in SUBSET Nat
    OBVIOUS
  <2>2. \E x \in top : \A y \in top : x <= y
    <3> HIDE DEF top
    <3>1. QED
      BY <1>3, <2>1, LeastNat
  <2> HIDE DEF top
  <2>3. QED
    BY <2>2 DEF Min
<1>5. BestOf(candidates) = candidates[Min(top)]
  BY DEF BestOf
<1>6. QED
  BY <1>4, <1>5

\* The best so far is beaten by nothing that was evaluated.
LEMMA KeptIsBest ==
  ASSUME landscape \in Landscapes, NEW old \in FullPositions, NEW n \in Nat \ {0},
         NEW candidates \in [1 .. n -> FullPositions],
         NEW offers, \A i \in DOMAIN offers : offers[i] # <<>> =>
                        i \in 1 .. n /\ offers[i] \in FullPositions /\ ~Better(offers[i], candidates[i]),
         NEW kept, kept = KeptBest(old, BestOf(candidates))
  PROVE  /\ kept \in FullPositions
         /\ kept # old => Better(kept, old)
         /\ \A i \in DOMAIN offers : offers[i] # <<>> => ~Better(offers[i], kept)
<1> DEFINE b == BestOf(candidates)
<1>1. FullPositions \subseteq PositionsHere
  BY PositionsAreFull
<1>2. /\ \E i \in 1 .. n : b = candidates[i]
      /\ \A j \in 1 .. n : ~Better(candidates[j], b)
  <2>1. DOMAIN candidates = 1 .. n /\ \A i \in 1 .. n : candidates[i] \in PositionsHere
    BY <1>1
  <2>2. QED
    BY <2>1, BestOfIsBest
<1>3. b \in FullPositions
  BY <1>2
<1> HIDE DEF b
<1>4. kept = IF Better(b, old) THEN b ELSE old
  BY DEF KeptBest, b
<1>5. kept \in FullPositions /\ (kept # old => Better(kept, old)) /\ (kept = b \/ ~Better(b, kept))
  BY <1>3, <1>4
<1>6. ASSUME NEW i \in DOMAIN offers, offers[i] # <<>>, Better(offers[i], kept) PROVE FALSE
  <2>1. i \in 1 .. n /\ offers[i] \in PositionsHere /\ ~Better(offers[i], candidates[i])
    BY <1>6, <1>1
  <2>2. Better(offers[i], b) \/ Better(b, kept)
    BY <1>6, <1>1, <1>3, <1>5, <2>1, BetterOrders
  <2>3. Better(offers[i], b)
    BY <2>2, <1>5, <1>6
  <2>4. Better(offers[i], candidates[i]) \/ Better(candidates[i], b)
    BY <2>3, <2>1, <1>1, <1>3, BetterOrders
  <2>5. QED
    BY <2>1, <2>4, <1>2
<1>7. QED
  BY <1>5, <1>6

-----------------------------------------------------------------------------
(* MetaHeuristic: what is proposed.                                         *)

\* Who is in the population: the ants have one start between them.
Crowd == IF algorithm = "ants" THEN 1 .. 1 ELSE Individuals

MetaInv ==
  /\ algorithm \in Algorithms /\ landscape \in Landscapes /\ iteration \in Nat
  /\ population \in [Crowd -> FullPositions] /\ personal \in [Crowd -> FullPositions]
  /\ best \in FullPositions
  /\ proposed \in Seq(FullPositions \cup {<<>>}) /\ Len(proposed) <= PopulationSize
  /\ algorithm # "tabu" => proposed \in Seq(FullPositions)

LEMMA FullStays ==
  ASSUME landscape' = landscape
  PROVE  FullPositions' = FullPositions
BY DEF FullPositions, PositionsHere, Genes, HostIds, HostsOf, Unplaced

\* Children are full whatever was crossed and mutated.
LEMMA CrossedArePositions ==
  ASSUME NEW p \in PositionsHere, NEW q \in PositionsHere, NEW pair \in Crossed(p, q)
  PROVE  pair[1] \in PositionsHere /\ pair[2] \in PositionsHere
<1>1. CASE pair = <<p, q>>
  BY <1>1
<1>2. CASE \E l, r \in Genes :
             pair = <<[g \in Genes |-> IF g \in l .. r THEN q[g] ELSE p[g]],
                      [g \in Genes |-> IF g \in l .. r THEN p[g] ELSE q[g]]>>
  <2>1. PICK l, r \in Genes :
             pair = <<[g \in Genes |-> IF g \in l .. r THEN q[g] ELSE p[g]],
                      [g \in Genes |-> IF g \in l .. r THEN p[g] ELSE q[g]]>>
    BY <1>2
  <2>2. /\ [g \in Genes |-> IF g \in l .. r THEN q[g] ELSE p[g]] \in PositionsHere
        /\ [g \in Genes |-> IF g \in l .. r THEN p[g] ELSE q[g]] \in PositionsHere
    BY DEF PositionsHere
  <2>3. QED
    BY <2>1, <2>2
<1>3. QED
  BY <1>1, <1>2 DEF Crossed

LEMMA MutatedAreFull ==
  ASSUME landscape \in Landscapes, NEW p \in PositionsHere
  PROVE  Mutated(p) \subseteq FullPositions
<1> DEFINE n == landscape.nodes
           X == SUBSET PositionsHere
           Wider(S) == S \cup UNION {NeighborPositions(q) : q \in S}
           IsAfter(f) == f = [g \in 0 .. n |-> IF g = 0 THEN {p}
                                ELSE f[g - 1] \cup UNION {NeighborPositions(q) : q \in f[g - 1]}]
<1>1. n \in Nat \ {0}
  BY LandscapeTypes
<1>2. ASSUME NEW S \in X PROVE Wider(S) \in X
  BY NeighborsAreFull
<1>3. \E f : IsAfter(f) /\ f \in [0 .. n -> X]
  <2> DEFINE step == [s \in (1 .. n) \X X |-> Wider(s[2])]
  <2>1. step \in [(1 .. n) \X X -> X] /\ {p} \in X
    <3>1. \A s \in (1 .. n) \X X : Wider(s[2]) \in X
      BY <1>2
    <3> HIDE DEF Wider, X
    <3>2. step \in [(1 .. n) \X X -> X]
      BY <3>1
    <3>3. QED
      BY <3>2 DEF X
  <2> HIDE DEF step, Wider, X
  <2>2. PICK f : Steps(n, X, {p}, step, f)
    BY <1>1, <2>1, StepsExist
  <2>3. f \in [0 .. n -> X] /\ f[0] = {p} /\ \A k \in 1 .. n : f[k] = step[<<k, f[k - 1]>>]
    BY <2>2 DEF Steps
  <2>4. ASSUME NEW k \in 1 .. n PROVE f[k] = Wider(f[k - 1])
    <3>1. f[k - 1] \in X
      BY <2>3, <1>1
    <3>2. QED
      BY <3>1, <2>3 DEF step
  <2>5. \A g \in 0 .. n : f[g] = IF g = 0 THEN {p} ELSE Wider(f[g - 1])
    <3>1. TAKE g \in 0 .. n
    <3>2. CASE g = 0
      BY <3>2, <2>3
    <3>3. CASE g # 0
      <4>1. g \in 1 .. n
        BY <3>3, <1>1
      <4>2. QED
        BY <4>1, <3>3, <2>4
    <3>4. QED
      BY <3>2, <3>3
  <2>6. f = [g \in 0 .. n |-> IF g = 0 THEN {p} ELSE Wider(f[g - 1])]
    BY <2>3, <2>5
  <2>7. IsAfter(f)
    BY <2>6 DEF Wider
  <2>8. QED
    BY <2>3, <2>7
<1> DEFINE after == CHOOSE f : IsAfter(f)
<1>4. IsAfter(after)
  BY <1>3
<1>5. Mutated(p) = {Repaired(q) : q \in after[n]}
  BY DEF Mutated
<1> DEFINE T == {g \in 0 .. n : after[g] \in X}
<1>6. after[n] \in X
  <2> HIDE DEF after
  <2>1. 0 \in T
    BY <1>4, <1>1
  <2>2. ASSUME NEW g \in 0 .. n - 1, g \in T PROVE g + 1 \in T
    <3>1. g + 1 \in 0 .. n /\ g + 1 # 0 /\ (g + 1) - 1 = g /\ after[g] \in X
      BY <2>2, <1>1
    <3>2. after[g + 1] = Wider(after[g])
      BY <3>1, <1>4
    <3> HIDE DEF Wider, X
    <3>3. QED
      BY <3>1, <3>2, <1>2
  <2> HIDE DEF T
  <2>3. 0 .. n \subseteq T
    BY <1>1, <2>1, <2>2, CountingUp
  <2>4. n \in T
    BY <2>3, <1>1
  <2>5. QED
    BY <2>4 DEF T
<1> HIDE DEF after
<1>7. QED
  BY <1>5, <1>6, RepairedIsFull

\* What a particle flies to is full, whatever it copies from the best ones.
LEMMA FlownAreFull ==
  ASSUME MetaInv, algorithm = "swarm", NEW i \in Individuals
  PROVE  Flown(i) \subseteq FullPositions
<1> DEFINE n == landscape.nodes
           X == SUBSET PositionsHere
           Moves(q, g) == {q, [q EXCEPT ![g] = personal[i][g]], [q EXCEPT ![g] = best[g]]} \cup NeighborPositions(q)
           Wider(S, g) == UNION {Moves(q, g) : q \in S}
           IsAfter(f) == f = [g \in 0 .. n |-> IF g = 0 THEN {population[i]}
              ELSE UNION {{q, [q EXCEPT ![g] = personal[i][g]], [q EXCEPT ![g] = best[g]]}
                            \cup NeighborPositions(q) : q \in f[g - 1]}]
<1>1. /\ landscape \in Landscapes /\ n \in Nat \ {0} /\ Genes = 1 .. n
      /\ population[i] \in PositionsHere /\ personal[i] \in PositionsHere /\ best \in PositionsHere
  <2>1. landscape \in Landscapes
    BY DEF MetaInv
  <2>2. population[i] \in FullPositions /\ personal[i] \in FullPositions /\ best \in FullPositions
    BY DEF MetaInv, Crowd
  <2>3. QED
    BY <2>1, <2>2, PositionsAreFull, LandscapeTypes DEF Genes
<1>2. ASSUME NEW S \in X, NEW g \in 1 .. n PROVE Wider(S, g) \in X
  <2>1. ASSUME NEW q \in S PROVE Moves(q, g) \subseteq PositionsHere
    <3>1. q \in PositionsHere
      OBVIOUS
    <3>2. personal[i][g] \in HostIds \cup {Unplaced} /\ best[g] \in HostIds \cup {Unplaced}
      BY <1>1 DEF PositionsHere
    <3>3. [q EXCEPT ![g] = personal[i][g]] \in PositionsHere /\ [q EXCEPT ![g] = best[g]] \in PositionsHere
      BY <3>1, <3>2 DEF PositionsHere
    <3>4. NeighborPositions(q) \subseteq PositionsHere
      BY <3>1, <1>1, NeighborsAreFull
    <3>5. QED
      BY <3>1, <3>3, <3>4
  <2> HIDE DEF Moves
  <2>2. QED
    BY <2>1
<1>3. \E f : IsAfter(f) /\ f \in [0 .. n -> X]
  <2> DEFINE step == [s \in (1 .. n) \X X |-> Wider(s[2], s[1])]
  <2>1. step \in [(1 .. n) \X X -> X] /\ {population[i]} \in X
    <3> HIDE DEF Wider
    <3>1. \A s \in (1 .. n) \X X : Wider(s[2], s[1]) \in X
      BY <1>2
    <3> HIDE DEF X
    <3>2. step \in [(1 .. n) \X X -> X]
      BY <3>1
    <3>3. QED
      BY <3>2, <1>1 DEF X
  <2> HIDE DEF step, Wider, X
  <2>2. PICK f : Steps(n, X, {population[i]}, step, f)
    BY <1>1, <2>1, StepsExist
  <2>3. f \in [0 .. n -> X] /\ f[0] = {population[i]} /\ \A k \in 1 .. n : f[k] = step[<<k, f[k - 1]>>]
    BY <2>2 DEF Steps
  <2>4. ASSUME NEW k \in 1 .. n PROVE f[k] = Wider(f[k - 1], k)
    <3>1. f[k - 1] \in X
      BY <2>3, <1>1
    <3>2. QED
      BY <3>1, <2>3 DEF step
  <2>5. \A g \in 0 .. n : f[g] = IF g = 0 THEN {population[i]} ELSE Wider(f[g - 1], g)
    <3>1. TAKE g \in 0 .. n
    <3>2. CASE g = 0
      BY <3>2, <2>3
    <3>3. CASE g # 0
      <4>1. g \in 1 .. n
        BY <3>3, <1>1
      <4>2. QED
        BY <4>1, <3>3, <2>4
    <3>4. QED
      BY <3>2, <3>3
  <2>6. f = [g \in 0 .. n |-> IF g = 0 THEN {population[i]} ELSE Wider(f[g - 1], g)]
    BY <2>3, <2>5
  <2>7. IsAfter(f)
    BY <2>6 DEF Wider
  <2>8. QED
    BY <2>3, <2>7
<1> DEFINE after == CHOOSE f : IsAfter(f)
<1>4. IsAfter(after)
  BY <1>3
<1>5. Flown(i) = {Repaired(q) : q \in after[n]}
  BY DEF Flown
<1> DEFINE T == {g \in 0 .. n : after[g] \in X}
<1>6. after[n] \in X
  <2> HIDE DEF after
  <2>1. 0 \in T
    BY <1>4, <1>1
  <2>2. ASSUME NEW g \in 0 .. n - 1, g \in T PROVE g + 1 \in T
    <3>1. g + 1 \in 1 .. n /\ g + 1 \in 0 .. n /\ g + 1 # 0 /\ (g + 1) - 1 = g /\ after[g] \in X
      BY <2>2, <1>1
    <3>2. after[g + 1] = Wider(after[g], g + 1)
      BY <3>1, <1>4
    <3> HIDE DEF Wider, X
    <3>3. QED
      BY <3>1, <3>2, <1>2
  <2> HIDE DEF T
  <2>3. 0 .. n \subseteq T
    BY <1>1, <2>1, <2>2, CountingUp
  <2>4. n \in T
    BY <2>3, <1>1
  <2>5. QED
    BY <2>4 DEF T
<1> HIDE DEF after
<1>7. QED
  BY <1>1, <1>5, <1>6, RepairedIsFull

\* Whatever is proposed of full positions keeps the invariant.
LEMMA ProposesStep ==
  ASSUME MetaInv, NEW batch \in Seq(FullPositions \cup {<<>>}), Proposes(batch),
         algorithm # "tabu" => batch \in Seq(FullPositions)
  PROVE  MetaInv' /\ UNCHANGED <<iteration, best>>
<1> DEFINE all == proposed \o batch
           m == Min({PopulationSize, Len(all)})
<1>1. landscape \in Landscapes /\ PopulationSize \in Nat \ {0}
  BY LandscapeTypes DEF MetaInv
<1>2. all \in Seq(FullPositions \cup {<<>>}) /\ (algorithm # "tabu" => all \in Seq(FullPositions))
  BY DEF MetaInv
<1> HIDE DEF all
<1>3. m \in Nat /\ m <= PopulationSize /\ m <= Len(all)
  <2>1. Len(all) \in Nat
    BY <1>2
  <2>2. QED
    BY <1>1, <2>1 DEF Min
<1>4. proposed' = SubSeq(all, 1, m)
  BY DEF Proposes, all
<1> HIDE DEF m
<1>5. ASSUME NEW S, all \in Seq(S) PROVE proposed' \in Seq(S) /\ Len(proposed') <= PopulationSize
  <2>1. \A k \in 1 .. m : all[k] \in S
    BY <1>3, <1>5
  <2>2. proposed' \in Seq(S) /\ Len(proposed') = IF 1 <= m THEN m - 1 + 1 ELSE 0
    BY <2>1, <1>3, <1>4, SubSeqProperties
  <2>3. QED
    BY <2>2, <1>1, <1>3
<1>6. /\ proposed' \in Seq(FullPositions \cup {<<>>}) /\ Len(proposed') <= PopulationSize
      /\ algorithm # "tabu" => proposed' \in Seq(FullPositions)
  BY <1>2, <1>5
<1>7. UNCHANGED <<algorithm, landscape, population, personal, best, iteration>>
  BY DEF Proposes
<1>8. FullPositions' = FullPositions /\ Crowd' = Crowd
  BY <1>7, FullStays DEF Crowd, Individuals
<1>9. QED
  BY <1>6, <1>7, <1>8 DEF MetaInv

-----------------------------------------------------------------------------
(* MetaHeuristic: the steps.                                                *)

\* What BestIsKept says of a step.
KeepsBest ==
  /\ best' # best => Better(best', best)
  /\ iteration' # iteration =>
       \A i \in DOMAIN proposed : proposed[i] # <<>> => ~Better(proposed[i], best')

LEMMA MetaTypes ==
  ASSUME MetaInv
  PROVE  /\ landscape \in Landscapes /\ PopulationSize \in Nat \ {0}
         /\ Individuals = 1 .. PopulationSize
         /\ \A p \in FullPositions : p \in PositionsHere /\ p # <<>>
         /\ algorithm # "ants" => Crowd = Individuals
BY LandscapeTypes, PositionsAreFull DEF MetaInv, Individuals, Crowd

\* Everyone has a proposal when an iteration ends.
LEMMA AllProposed ==
  ASSUME MetaInv, NEW a, Evaluating(a)
  PROVE  /\ algorithm = a /\ DOMAIN proposed = Individuals
         /\ \A i \in Individuals : proposed[i] # <<>> => proposed[i] \in FullPositions
         /\ algorithm # "tabu" => proposed \in [Individuals -> FullPositions]
<1>1. /\ proposed \in Seq(FullPositions \cup {<<>>}) /\ Len(proposed) \in Nat
      /\ Len(proposed) <= PopulationSize /\ PopulationSize \in Nat
  BY MetaTypes DEF MetaInv
<1>2. Len(proposed) + 1 \notin 1 .. PopulationSize
  BY DEF Evaluating, Proposer, Individuals
<1>3. Len(proposed) = PopulationSize
  BY <1>1, <1>2
<1>4. proposed \in [1 .. Len(proposed) -> FullPositions \cup {<<>>}]
  BY <1>1, LenProperties
<1>5. proposed \in Seq(FullPositions) => proposed \in [1 .. Len(proposed) -> FullPositions]
  BY LenProperties
<1>6. QED
  BY <1>3, <1>4, <1>5 DEF Individuals, MetaInv, Evaluating

LEMMA IteratedStays ==
  ASSUME MetaInv, Iterated
  PROVE  /\ FullPositions' = FullPositions /\ Crowd' = Crowd
         /\ algorithm' \in Algorithms /\ landscape' \in Landscapes /\ iteration' \in Nat
         /\ proposed' \in Seq(FullPositions) /\ proposed' \in Seq(FullPositions \cup {<<>>})
         /\ Len(proposed') <= PopulationSize
<1>1. UNCHANGED <<algorithm, landscape>> /\ proposed' = <<>> /\ iteration' = iteration + 1
  BY DEF Iterated
<1>2. FullPositions' = FullPositions /\ Crowd' = Crowd
  BY <1>1, FullStays DEF Crowd, Individuals
<1>3. QED
  BY <1>1, <1>2, MetaTypes DEF MetaInv

LEMMA ProposalSteps ==
  ASSUME MetaInv, Breeds \/ Cools \/ Looks \/ Flies \/ Walks
  PROVE  MetaInv' /\ UNCHANGED <<iteration, best>>
<1>1. CASE Breeds
  <2>1. PICK i, j \in Individuals : \E pair \in Crossed(population[i], population[j]) :
               \E first \in Mutated(pair[1]), second \in Mutated(pair[2]) : Proposes(<<first, second>>)
    BY <1>1 DEF Breeds
  <2>2. PICK pair \in Crossed(population[i], population[j]) :
               \E first \in Mutated(pair[1]), second \in Mutated(pair[2]) : Proposes(<<first, second>>)
    BY <2>1
  <2>3. PICK first \in Mutated(pair[1]), second \in Mutated(pair[2]) : Proposes(<<first, second>>)
    BY <2>2
  <2>4. algorithm = "genetic"
    BY <1>1 DEF Breeds, Proposing
  <2>5. population[i] \in PositionsHere /\ population[j] \in PositionsHere /\ landscape \in Landscapes
    BY <2>4, MetaTypes DEF MetaInv
  <2>6. pair[1] \in PositionsHere /\ pair[2] \in PositionsHere
    BY <2>5, CrossedArePositions
  <2>7. first \in FullPositions /\ second \in FullPositions
    BY <2>3, <2>5, <2>6, MutatedAreFull
  <2>8. <<first, second>> \in Seq(FullPositions) /\ <<first, second>> \in Seq(FullPositions \cup {<<>>})
    BY <2>7
  <2>9. QED
    BY <2>3, <2>8, ProposesStep
<1>2. CASE Cools
  <2>1. PICK p \in NeighborPositions(population[Proposer]) : Proposes(<<p>>)
    BY <1>2 DEF Cools
  <2>2. population[Proposer] \in FullPositions /\ landscape \in Landscapes
    BY <1>2, MetaTypes DEF MetaInv, Cools, Proposing
  <2>3. p \in FullPositions
    BY <2>2, MetaTypes, NeighborsAreFull
  <2>4. <<p>> \in Seq(FullPositions) /\ <<p>> \in Seq(FullPositions \cup {<<>>})
    BY <2>3
  <2>5. QED
    BY <2>1, <2>4, ProposesStep
<1>3. CASE Looks
  <2>1. PICK p \in NeighborPositions(population[Proposer]) : Proposes(<< <<>> >>) \/ Proposes(<<p>>)
    BY <1>3 DEF Looks
  <2>2. population[Proposer] \in FullPositions /\ landscape \in Landscapes /\ algorithm = "tabu"
    BY <1>3, MetaTypes DEF MetaInv, Looks, Proposing
  <2>3. p \in FullPositions
    BY <2>2, MetaTypes, NeighborsAreFull
  <2>4. <<p>> \in Seq(FullPositions \cup {<<>>}) /\ << <<>> >> \in Seq(FullPositions \cup {<<>>})
    BY <2>3
  <2>5. QED
    BY <2>1, <2>2, <2>4, ProposesStep
<1>4. CASE Flies
  <2>1. PICK p \in Flown(Proposer) : Proposes(<<p>>)
    BY <1>4 DEF Flies
  <2>2. algorithm = "swarm" /\ Proposer \in Individuals
    BY <1>4 DEF Flies, Proposing
  <2>3. p \in FullPositions
    BY <2>1, <2>2, FlownAreFull
  <2>4. <<p>> \in Seq(FullPositions) /\ <<p>> \in Seq(FullPositions \cup {<<>>})
    BY <2>3
  <2>5. QED
    BY <2>1, <2>4, ProposesStep
<1>5. CASE Walks
  <2>1. PICK p \in Tours : Proposes(<<p>>)
    BY <1>5 DEF Walks
  <2>2. p \in FullPositions
    BY <2>1, ToursAreFull, MetaTypes
  <2>4. <<p>> \in Seq(FullPositions) /\ <<p>> \in Seq(FullPositions \cup {<<>>})
    BY <2>2
  <2>5. QED
    BY <2>1, <2>4, ProposesStep
<1>6. QED
  BY <1>1, <1>2, <1>3, <1>4, <1>5

\* The genetic search and the ants evaluate what was proposed.
LEMMA ProposalsEvaluated ==
  ASSUME MetaInv, EvaluateGenetic \/ EvaluateAnts
  PROVE  MetaInv' /\ KeepsBest
<1>1. PICK a \in {"genetic", "ants"} : Evaluating(a)
  BY DEF EvaluateGenetic, EvaluateAnts
<1>2. /\ proposed \in [Individuals -> FullPositions] /\ algorithm # "tabu"
      /\ landscape \in Landscapes /\ PopulationSize \in Nat \ {0} /\ Individuals = 1 .. PopulationSize
      /\ \A p \in FullPositions : p \in PositionsHere
  BY <1>1, AllProposed, MetaTypes
<1>3. Iterated /\ best' = KeptBest(best, BestOf(proposed)) /\ personal' = personal
  BY DEF EvaluateGenetic, EvaluateAnts
<1>4. \A i \in DOMAIN proposed : proposed[i] # <<>> =>
         i \in 1 .. PopulationSize /\ proposed[i] \in FullPositions /\ ~Better(proposed[i], proposed[i])
  BY <1>2, BetterOrders
<1>5. best \in FullPositions
  BY DEF MetaInv
<1>6. /\ best' \in FullPositions
      /\ best' # best => Better(best', best)
      /\ \A i \in DOMAIN proposed : proposed[i] # <<>> => ~Better(proposed[i], best')
  BY <1>2, <1>3, <1>4, <1>5, KeptIsBest
<1>7. population' \in [Crowd -> FullPositions]
  <2>1. CASE EvaluateGenetic
    BY <2>1, <1>2, MetaTypes DEF EvaluateGenetic, Evaluating
  <2>2. CASE EvaluateAnts
    BY <2>2 DEF EvaluateAnts, MetaInv
  <2>3. QED
    BY <2>1, <2>2
<1>8. MetaInv'
  BY <1>3, <1>6, <1>7, IteratedStays DEF MetaInv
<1>9. QED
  BY <1>6, <1>8 DEF KeepsBest

\* Annealing and tabu search evaluate their individuals, of whom some moved:
\* all those whose proposal is better.
LEMMA IndividualsEvaluated ==
  ASSUME MetaInv, EvaluateAnnealing \/ EvaluateTabu
  PROVE  MetaInv' /\ KeepsBest
<1>1. PICK a \in {"annealing", "tabu"} : Evaluating(a)
  BY DEF EvaluateAnnealing, EvaluateTabu
<1>2. /\ DOMAIN proposed = Individuals /\ algorithm = a /\ Crowd = Individuals
      /\ landscape \in Landscapes /\ PopulationSize \in Nat \ {0} /\ Individuals = 1 .. PopulationSize
      /\ \A p \in FullPositions : p \in PositionsHere
      /\ \A i \in Individuals : proposed[i] # <<>> => proposed[i] \in FullPositions
      /\ \A i \in Individuals : population[i] \in FullPositions
  BY <1>1, AllProposed, MetaTypes DEF MetaInv
<1>3. Iterated /\ best' = KeptBest(best, BestOf(population')) /\ personal' = personal
  BY DEF EvaluateAnnealing, EvaluateTabu
<1>4. PICK accepted \in SUBSET Individuals :
         /\ population' = [i \in Individuals |-> IF i \in accepted THEN proposed[i] ELSE population[i]]
         /\ \A i \in accepted : proposed[i] \in FullPositions
         /\ \A i \in Individuals : Improves(i) => i \in accepted
  <2>1. CASE EvaluateAnnealing
    <3>1. algorithm = "annealing" /\ proposed \in [Individuals -> FullPositions]
      BY <2>1, AllProposed DEF EvaluateAnnealing
    <3>2. QED
      BY <2>1, <3>1 DEF EvaluateAnnealing, Accepting
  <2>2. CASE EvaluateTabu
    <3>1. \A i \in Individuals : Improves(i) => proposed[i] \in FullPositions
      BY <1>2 DEF Improves
    <3>2. Accepting({i \in Individuals : Improves(i)})
      BY <2>2 DEF EvaluateTabu
    <3> DEFINE better == {i \in Individuals : Improves(i)}
    <3>3. /\ population' = [i \in Individuals |-> IF i \in better THEN proposed[i] ELSE population[i]]
          /\ \A i \in better : proposed[i] \in FullPositions
          /\ \A i \in Individuals : Improves(i) => i \in better
      BY <3>1, <3>2 DEF Accepting
    <3>4. better \in SUBSET Individuals
      OBVIOUS
    <3> HIDE DEF better
    <3>5. QED
      BY <3>3, <3>4
  <2>3. QED
    BY <2>1, <2>2
<1>5. population' \in [Individuals -> FullPositions]
  BY <1>2, <1>4
<1>6. ASSUME NEW i \in DOMAIN proposed, proposed[i] # <<>>
      PROVE  i \in 1 .. PopulationSize /\ proposed[i] \in FullPositions /\ ~Better(proposed[i], population'[i])
  <2>1. i \in Individuals /\ proposed[i] \in FullPositions
    BY <1>2, <1>6
  <2>2. CASE i \in accepted
    BY <2>1, <2>2, <1>2, <1>4, BetterOrders
  <2>3. CASE i \notin accepted
    BY <2>1, <2>3, <1>2, <1>4, <1>6 DEF Improves
  <2>4. QED
    BY <2>2, <2>3, <2>1, <1>2
<1>7. best \in FullPositions
  BY DEF MetaInv
<1>8. /\ best' \in FullPositions
      /\ best' # best => Better(best', best)
      /\ \A i \in DOMAIN proposed : proposed[i] # <<>> => ~Better(proposed[i], best')
  BY <1>2, <1>3, <1>5, <1>6, <1>7, KeptIsBest
<1>9. MetaInv'
  BY <1>2, <1>3, <1>5, <1>8, IteratedStays DEF MetaInv
<1>10. QED
  BY <1>8, <1>9 DEF KeepsBest

\* The swarm evaluates the best position of every particle.
LEMMA ParticlesEvaluated ==
  ASSUME MetaInv, EvaluateSwarm
  PROVE  MetaInv' /\ KeepsBest
<1>1. Evaluating("swarm") /\ Iterated /\ population' = proposed
      /\ personal' = [i \in Individuals |->
                        IF Better(proposed[i], personal[i]) THEN proposed[i] ELSE personal[i]]
      /\ best' = KeptBest(best, BestOf(personal'))
  BY DEF EvaluateSwarm
<1>2. /\ proposed \in [Individuals -> FullPositions] /\ Crowd = Individuals
      /\ landscape \in Landscapes /\ PopulationSize \in Nat \ {0} /\ Individuals = 1 .. PopulationSize
      /\ \A p \in FullPositions : p \in PositionsHere
      /\ personal \in [Individuals -> FullPositions] /\ best \in FullPositions
  BY <1>1, AllProposed, MetaTypes DEF MetaInv
<1>3. personal' \in [Individuals -> FullPositions]
  BY <1>1, <1>2
<1>4. \A i \in DOMAIN proposed : proposed[i] # <<>> =>
         i \in 1 .. PopulationSize /\ proposed[i] \in FullPositions /\ ~Better(proposed[i], personal'[i])
  BY <1>1, <1>2, BetterOrders
<1>5. /\ best' \in FullPositions
      /\ best' # best => Better(best', best)
      /\ \A i \in DOMAIN proposed : proposed[i] # <<>> => ~Better(proposed[i], best')
  <2>1. best' = KeptBest(best, BestOf(personal'))
    BY <1>1
  <2>2. /\ personal' \in [1 .. PopulationSize -> FullPositions] /\ best \in FullPositions
        /\ landscape \in Landscapes /\ PopulationSize \in Nat \ {0}
    BY <1>2, <1>3
  <2>3. QED
    BY <2>1, <2>2, <1>4, KeptIsBest
<1>6. MetaInv'
  BY <1>1, <1>2, <1>3, <1>5, IteratedStays DEF MetaInv
<1>7. QED
  BY <1>5, <1>6 DEF KeepsBest

LEMMA MetaStutters ==
  ASSUME MetaInv, Settle \/ UNCHANGED metaVars
  PROVE  MetaInv' /\ KeepsBest
<1>1. UNCHANGED <<algorithm, landscape, population, personal, best, proposed, iteration>>
  BY DEF Settle, metaVars
<1>2. FullPositions' = FullPositions /\ Crowd' = Crowd
  BY <1>1, FullStays DEF Crowd, Individuals
<1>3. QED
  BY <1>1, <1>2 DEF MetaInv, KeepsBest

LEMMA MetaNextInv ==
  ASSUME MetaInv, [MetaNext]_metaVars
  PROVE  MetaInv' /\ KeepsBest
<1>1. CASE Breeds \/ Cools \/ Looks \/ Flies \/ Walks
  BY <1>1, ProposalSteps DEF KeepsBest
<1>2. CASE EvaluateGenetic \/ EvaluateAnts
  BY <1>2, ProposalsEvaluated
<1>3. CASE EvaluateAnnealing \/ EvaluateTabu
  BY <1>3, IndividualsEvaluated
<1>4. CASE EvaluateSwarm
  BY <1>4, ParticlesEvaluated
<1>5. CASE Settle \/ UNCHANGED metaVars
  BY <1>5, MetaStutters
<1>6. QED
  BY <1>1, <1>2, <1>3, <1>4, <1>5 DEF MetaNext

LEMMA MetaInitInv == MetaInit => MetaInv
<1> SUFFICES ASSUME MetaInit PROVE MetaInv
  OBVIOUS
<1>1. /\ algorithm \in Algorithms /\ landscape \in Landscapes /\ personal = population
      /\ best = BestOf(population) /\ proposed = <<>> /\ iteration = 0
  BY DEF MetaInit
<1>2. PopulationSize \in Nat \ {0} /\ Individuals = 1 .. PopulationSize
  BY <1>1, LandscapeTypes DEF Individuals
<1>3. population \in [Crowd -> FullPositions]
  <2>1. CASE algorithm = "ants"
    <3>1. population = <<Greedy>> /\ Greedy \in FullPositions
      BY <2>1, <1>1, GreedyIsTour, ToursAreFull DEF MetaInit
    <3>2. <<Greedy>> \in [1 .. 1 -> FullPositions]
      BY <3>1
    <3>3. QED
      BY <2>1, <3>1, <3>2 DEF Crowd
  <2>2. CASE algorithm # "ants"
    <3>1. population \in [Individuals -> Tours]
      BY <2>2 DEF MetaInit
    <3>2. QED
      BY <2>2, <3>1, <1>1, ToursAreFull DEF Crowd
  <2>3. QED
    BY <2>1, <2>2
<1>4. best \in FullPositions
  <2>1. \E n \in Nat \ {0} : Crowd = 1 .. n
    <3>1. CASE algorithm = "ants"
      <4>1. Crowd = 1 .. 1 /\ 1 \in Nat \ {0}
        BY <3>1 DEF Crowd
      <4>2. QED
        BY <4>1
    <3>2. CASE algorithm # "ants"
      BY <3>2, <1>2 DEF Crowd
    <3>3. QED
      BY <3>1, <3>2
  <2>2. PICK n \in Nat \ {0} : Crowd = 1 .. n
    BY <2>1
  <2>3. DOMAIN population = 1 .. n /\ \A i \in 1 .. n : population[i] \in FullPositions
    BY <2>2, <1>3
  <2>4. \A i \in 1 .. n : population[i] \in PositionsHere
    BY <2>3, <1>1, PositionsAreFull
  <2>5. \E i \in 1 .. n : BestOf(population) = population[i]
    BY <1>1, <2>3, <2>4, BestOfIsBest
  <2>6. QED
    BY <2>3, <2>5, <1>1
<1>5. QED
  BY <1>1, <1>2, <1>3, <1>4 DEF MetaInv

LEMMA FullOneNodePerHost ==
  ASSUME MetaInv
  PROVE  OneNodePerHost
<1>1. ASSUME NEW s \in {population, personal, proposed, <<best>>}, NEW i \in DOMAIN s, s[i] # <<>>
      PROVE  s[i] \in FullPositions
  <2>1. CASE s = population \/ s = personal
    BY <2>1 DEF MetaInv
  <2>2. CASE s = proposed
    <3>1. proposed \in [1 .. Len(proposed) -> FullPositions \cup {<<>>}]
      BY LenProperties DEF MetaInv
    <3>2. QED
      BY <3>1, <2>2, <1>1
  <2>3. CASE s = <<best>>
    BY <2>3 DEF MetaInv
  <2>4. QED
    BY <2>1, <2>2, <2>3
<1>2. landscape \in Landscapes
  BY DEF MetaInv
<1>3. \A p \in FullPositions :
         /\ Cardinality(HostsOf(p)) = Min({landscape.nodes, landscape.hosts})
         /\ \A g, k \in Genes : g # k /\ p[g] = p[k] => p[g] = Unplaced
  BY <1>2, FullCount DEF FullPositions
<1>4. QED
  BY <1>1, <1>3 DEF OneNodePerHost

-----------------------------------------------------------------------------
(* The solver of a request: whichever search was made.                    *)

SolverInv ==
  \/ category = "heuristic" /\ BfsInv /\ NoPopulation
  \/ category = "meta_heuristic" /\ MetaInv /\ NoSearch

\* What a solver that was not made says of its own search never changes.
LEMMA SolverStep ==
  ASSUME SolverInv, [SolversNext]_solverVars
  PROVE  /\ SolverInv'
         /\ UNCHANGED metaVars \/ KeepsBest
<1>1. CASE category = "heuristic" /\ BfsInv /\ NoPopulation
  <2>1. category' = category /\ [BfsNext]_bfsVars /\ UNCHANGED metaVars
    BY <1>1 DEF SolversNext, Searches, Evolves, solverVars
  <2>2. NoPopulation'
    BY <1>1, <2>1 DEF NoPopulation, metaVars
  <2> QED
    BY <1>1, <2>1, <2>2, BfsNextInv DEF SolverInv
<1>2. CASE category = "meta_heuristic" /\ MetaInv /\ NoSearch
  <2>1. category' = category /\ UNCHANGED bfsVars /\ [MetaNext]_metaVars
    BY <1>2 DEF SolversNext, Searches, Evolves, solverVars
  <2>2. NoSearch'
    BY <1>2, <2>1
       DEF NoSearch, PlacementInit, bfsVars, placementVars, linkVars, input, searchVars
  <2>3. MetaInv' /\ KeepsBest
    BY <1>2, <2>1, MetaNextInv
  <2> QED
    BY <1>2, <2>1, <2>2, <2>3 DEF SolverInv
<1> QED
  BY <1>1, <1>2 DEF SolverInv

\* The inductive invariant: whichever search was made, its own invariant holds
\* and the other search was never made.
THEOREM SolversInvariant == SolversSpec => []SolverInv
<1>1. SolversInit => SolverInv
  BY BfsInitInv, MetaInitInv DEF SolversInit, SolverInv
<1>2. SolverInv /\ [SolversNext]_solverVars => SolverInv'
  BY SolverStep
<1> QED
  BY <1>1, <1>2, PTL DEF SolversSpec

\* OneNodePerHost: every position that is evaluated gives as many virtual nodes
\* a host as there are hosts, and no two the same, whatever was crossed,
\* copied or mutated before repair_position looked at it.
THEOREM PositionsKeepNodesApart == SolversSpec => []OneNodePerHost
<1>1. SolverInv => OneNodePerHost
  <2>1. CASE category = "heuristic" /\ BfsInv /\ NoPopulation
    <3>1. \A s \in {population, personal, proposed, <<best>>} : \A i \in DOMAIN s : s[i] = <<>>
      BY <2>1 DEF NoPopulation
    <3>2. QED
      BY <3>1 DEF OneNodePerHost
  <2>2. CASE category = "meta_heuristic" /\ MetaInv /\ NoSearch
    BY <2>2, FullOneNodePerHost
  <2>3. QED
    BY <2>1, <2>2 DEF SolverInv
<1>2. QED
  BY <1>1, SolversInvariant, PTL

\* BestIsKept: the best position changes to a better one only, and nothing that
\* an iteration evaluated is better than what is kept at its end.
THEOREM BestIsNeverLost == SolversSpec => BestIsKept
<1>1. SolverInv /\ [SolversNext]_solverVars => [KeepsBest]_metaVars
  BY SolverStep
<1>2. SolversSpec => [][KeepsBest]_metaVars
  BY <1>1, SolversInvariant, PTL DEF SolversSpec
<1>3. QED
  BY <1>2 DEF BestIsKept, KeepsBest

\* Functions without repetition have as many values as arguments.
LEMMA DistinctCount ==
  ASSUME NEW n \in Nat, NEW f, \A i, j \in 1 .. n : f[i] = f[j] => i = j
  PROVE  Cardinality({f[i] : i \in 1 .. n}) = n
<1> DEFINE g == [i \in 1 .. n |-> f[i]]
           R == {f[i] : i \in 1 .. n}
<1>1. g \in Bijection(1 .. n, R)
  BY DEF Bijection, Injection, IsInjective, Surjection
<1>2. IsFiniteSet(1 .. n) /\ Cardinality(1 .. n) = n
  <2>1. \A m \in Nat : IsFiniteSet(1 .. m) /\ Cardinality(1 .. m) = m
    BY FS_Interval
  <2> QED
    BY <2>1
<1>3. \E h : h \in Bijection(1 .. n, R)
  BY <1>1
<1> QED
  BY <1>2, <1>3, FS_Bijection DEF ExistsBijection

LEMMA OfferedOnce == BfsInv => HostsOfferedOnce
<1> SUFFICES ASSUME BfsInv PROVE HostsOfferedOnce
  OBVIOUS
<1>1. DOMAIN nodeSlots = 1 .. Len(nodeSlots) /\ Len(nodeSlots) \in Nat
  BY DEF BfsInv, BfsTypeOK, PlacementTypeOK
<1>2. \A i, j \in 1 .. Len(nodeSlots) : nodeSlots[i].p = nodeSlots[j].p => i = j
  BY <1>1 DEF BfsInv, RankInv
<1>3. Cardinality(Hosts) = Len(nodeSlots)
  <2> DEFINE f == [i \in 1 .. Len(nodeSlots) |-> nodeSlots[i].p]
  <2>1. \A i, j \in 1 .. Len(nodeSlots) : f[i] = f[j] => i = j
    BY <1>2
  <2>2. Hosts = {f[i] : i \in 1 .. Len(nodeSlots)}
    BY <1>1 DEF Hosts
  <2> HIDE DEF f
  <2> QED
    BY <1>1, <2>1, <2>2, DistinctCount
<1>4. \A i, j \in DOMAIN queue : queue[i].p = queue[j].p => i = j
  BY DEF BfsInv, QueueInv
<1>5. where = "visit" => placed = Len(nodeSlots) /\ placed + attempts = head
  BY DEF BfsInv, RankInv, QueueInv
<1> QED
  BY <1>3, <1>4, <1>5 DEF HostsOfferedOnce

\* HostsOfferedOnce: no breadth-first search visits a host twice, so that no two
\* virtual nodes share one, whatever is undone in between, and its counters
\* account for every host visited and every node placed.
THEOREM EachHostOfferedOnce == SolversSpec => []HostsOfferedOnce
<1>1. NoSearch => HostsOfferedOnce
  <2> SUFFICES ASSUME NoSearch PROVE HostsOfferedOnce
    OBVIOUS
  <2>1. nodeSlots = <<>> /\ queue = <<>> /\ where = "none"
    BY DEF NoSearch, PlacementInit
  <2>2. DOMAIN queue = {} /\ Hosts = {} /\ Len(nodeSlots) = 0
    BY <2>1 DEF Hosts
  <2> QED
    BY <2>1, <2>2, FS_EmptySet DEF HostsOfferedOnce
<1>2. SolverInv => HostsOfferedOnce
  BY <1>1, OfferedOnce DEF SolverInv
<1> QED
  BY <1>2, SolversInvariant, PTL

LEMMA CommittedWhole == BfsInv => CommittedIsWhole
<1> SUFFICES ASSUME BfsInv, ended = "committed" PROVE RoutesAreWhole /\ Placed = {order[i] : i \in DOMAIN order}
  BY DEF CommittedIsWhole
<1>1. where = "done" /\ Unrouted = {} /\ \A l : ~Leaving(l)
  BY DEF BfsInv, CallInv, Unrouted, Leaving
<1>2. /\ \A l \in routed : Joins(l)
      /\ \A l \in VLinks : {l[1], l[2]} \subseteq Placed => l \in routed \/ Reversed(l) \in routed
  BY <1>1 DEF BfsInv, KeptInv
<1>3. \A l \in VLinks : ~(l \in routed /\ Reversed(l) \in routed)
  BY DEF BfsInv, TablesInv
<1>4. RoutesAreWhole
  BY <1>2, <1>3 DEF RoutesAreWhole
<1>5. DOMAIN nodeSlots = DOMAIN order /\ \A i \in DOMAIN nodeSlots : nodeSlots[i].v = order[i]
  <2>1. DOMAIN nodeSlots = 1 .. Len(nodeSlots) /\ Len(nodeSlots) = Len(order)
    BY DEF BfsInv, BfsTypeOK, PlacementTypeOK, RankInv
  <2> QED
    BY <2>1, RankedNodes, BfsShared DEF BfsInv, RankInv
<1> QED
  BY <1>4, <1>5 DEF Placed

\* CommittedIsWhole: what a search commits maps every node of its ranking, and
\* every link between them along a path between their hosts.
THEOREM CommittedStaysWhole == SolversSpec => []CommittedIsWhole
<1>1. SolverInv => CommittedIsWhole
  <2>1. NoSearch => CommittedIsWhole
    BY DEF NoSearch, CommittedIsWhole
  <2> QED
    BY <2>1, CommittedWhole DEF SolverInv
<1> QED
  BY <1>1, SolversInvariant, PTL

\* RolledBackIsUntouched: a search that gave up or threw, in the middle of a call
\* or between two, leaves the network as it was, by its journal alone if need be.
THEOREM RollbackLeavesNothing == SolversSpec => []RolledBackIsUntouched
<1>1. SolverInv => RolledBackIsUntouched
  <2>1. NoSearch => RolledBackIsUntouched
    BY DEF NoSearch, RolledBackIsUntouched
  <2> QED
    BY <2>1 DEF SolverInv, BfsInv
<1> QED
  BY <1>1, SolversInvariant, PTL
=============================================================================
