-------------------------- MODULE InstanceEnvironment --------------------------
(***************************************************************************)
(* InstanceEnvironment of                                                    *)
(* virne/solver/learning/rl_core/instance_environment.cpp in its joint,      *)
(* node-pair and placement modes: an agent places one virtual node per step  *)
(* and routes the links to its neighbours (in placement mode all links after *)
(* the last node), may revoke the last placement or reject the request, and  *)
(* is made to give up after a number of interactions.                        *)
(*                                                                           *)
(* A step that routes or undoes several links is a sequence of actions, one  *)
(* per link; pc says how far the call has come and no other call is possible *)
(* in between.  Hosts are never reused and constraint violations never       *)
(* allowed.                                                                  *)
(***************************************************************************)
EXTENDS Placement

CONSTANTS
  NodeOrder,       \* options.node_order: a permutation of VNodes
  Modes,           \* of "joint", "node_pair" and "placement"
  AllowRevocable,
  RejectingModes,  \* environments with options.allow_rejection
  MaskedModes,     \* where the agent only takes actions of action_masks()
  InteractionLimit,\* by mode; ten interactions per virtual node in the code
  MaxEpisodes      \* bound: resets in one behaviour

ASSUME InstanceAssumption ==
  /\ NodeOrder \in Seq(VNodes)
  /\ \A i, j \in DOMAIN NodeOrder : NodeOrder[i] = NodeOrder[j] => i = j
  /\ \A v \in VNodes : \E i \in DOMAIN NodeOrder : NodeOrder[i] = v
  /\ Modes \subseteq {"joint", "node_pair", "placement"}
  /\ AllowRevocable \in BOOLEAN
  /\ RejectingModes \subseteq Modes /\ MaskedModes \subseteq Modes
  /\ InteractionLimit \in [Modes -> Nat] /\ MaxEpisodes \in Nat

VARIABLES
  mode,          \* options.mode of this environment
  pc,            \* "idle", "routing" or "undoing": where the running call is
  todo,          \* links it still has to route or undo
  undone,        \* the slot a revocation is taking back
  status,        \* EpisodeStatus
  interactions,  \* num_interactions
  revoked,       \* revoked: prefix of slots, and the slot taken back after it
  episodes       \* resets so far

Pair == mode = "node_pair"           \* the action names the virtual node too
Joint == mode # "placement"          \* nodes and links are mapped together
AllowRejection == mode \in RejectingModes
FollowMask == mode \in MaskedModes

callVars == <<pc, todo, undone>>
run == <<mode, episodes>>
vars == <<placementVars, callVars, status, interactions, revoked, run>>

NoSlot == [v |-> NodeOrder[1], p |-> CHOOSE p \in PNodes : TRUE]

-----------------------------------------------------------------------------
(* Faulty variants, none is used by the specification.                      *)
Prefix_Before == Append(nodeSlots, undone)     \* the ban keyed before the undo
Interacted_Free == interactions                \* revocations that are not counted
FailedRoute_Goes(l) == pc' = "routing" /\ todo' = todo \ {l} /\ UNCHANGED <<undone, status>>
-----------------------------------------------------------------------------

Init ==
  /\ mode \in Modes
  /\ PlacementInit
  /\ pc = "idle" /\ todo = {} /\ undone = NoSlot
  /\ status = "running" /\ interactions = 0 /\ revoked = {} /\ episodes = 0

\* reset(): a clone of the untouched network, a fresh Solution.
Reset ==
  /\ pc = "idle" /\ episodes < MaxEpisodes
  /\ ResetPlacement
  /\ status' = "running" /\ interactions' = 0 /\ revoked' = {}
  /\ episodes' = episodes + 1
  /\ UNCHANGED <<mode, callVars>>

-----------------------------------------------------------------------------
(* action_masks().                                                          *)

Banned(v, p) == [prefix |-> nodeSlots, slot |-> Slot(v, p)] \in revoked
Current == NodeOrder[Len(nodeSlots) + 1]

\* In node_pair mode the mask is built from the candidates of the untouched
\* network and knows nothing of revocations.
Allowed(v, p) ==
  IF Pair THEN v \notin Placed /\ p \notin Hosts /\ NodeDemand[v] <= NodeCapacity[p]
  ELSE p \notin Hosts /\ Fits(v, p) /\ ~Banned(v, p)

\* Some entry of the mask is set.  A policy given an empty mask draws from all
\* actions alike, for each has the same masked logit.
Offered ==
  \/ AllowRejection \/ (AllowRevocable /\ nodeSlots # <<>>)
  \/ \E v \in VNodes, p \in PNodes : (Pair \/ v = Current) /\ Allowed(v, p)

-----------------------------------------------------------------------------
(* step().                                                                  *)

\* Placement mode does not count, and so never gives up.
Interacted == IF Joint THEN interactions + 1 ELSE interactions

\* The prologue of every step: an interaction within the limit.
Interacts ==
  /\ pc = "idle" /\ status = "running"
  /\ Joint => interactions < InteractionLimit[mode]
  /\ interactions' = Interacted

GiveUp ==
  /\ Joint /\ pc = "idle" /\ status = "running"
  /\ interactions >= InteractionLimit[mode]
  /\ interactions' = interactions + 1
  /\ status' = "rejected"
  /\ UNCHANGED <<placementVars, callVars, revoked, run>>

\* The rejection action of the action space.
StepRejects ==
  /\ AllowRejection /\ Interacts
  /\ status' = "rejected"
  /\ UNCHANGED <<placementVars, callVars, revoked, run>>

\* reject(), called directly.
Reject ==
  /\ pc = "idle" /\ status = "running"
  /\ status' = "rejected"
  /\ UNCHANGED <<placementVars, callVars, interactions, revoked, run>>

\* The beginning of revoke(): the last placement is undone, then its routes.
BeginRevoke ==
  /\ nodeSlots # <<>>
  /\ UndoPlace
  /\ undone' = LastSlot
  /\ todo' = LinksToUndo(LastSlot.v)
  /\ pc' = "undoing"
  /\ UNCHANGED <<linkVars, status>>

StepRevokes ==
  /\ AllowRevocable /\ Interacts
  /\ BeginRevoke
  /\ UNCHANGED <<revoked, run>>

\* revoke(), called directly.
Revoke ==
  /\ pc = "idle" /\ status = "running"
  /\ BeginRevoke
  /\ UNCHANGED <<interactions, revoked, run>>

\* Nothing to revoke: the call throws, the interaction counts.
StepRevokesNothing ==
  /\ AllowRevocable /\ Interacts
  /\ nodeSlots = <<>> /\ (FollowMask => ~Offered)
  /\ UNCHANGED <<placementVars, callVars, status, revoked, run>>

\* The virtual node of an action the agent may take.
Chosen(v, p) ==
  /\ Pair \/ v = Current
  /\ FollowMask => Allowed(v, p) \/ ~Offered

Taken(v, p) == (Pair /\ v \in Placed) \/ p \in Hosts

StepTaken(v, p) ==
  /\ Interacts /\ Chosen(v, p) /\ Taken(v, p)
  /\ status' = "placement_failed"
  /\ UNCHANGED <<placementVars, callVars, revoked, run>>

\* A failed place_and_route is revoked when it may be, and ends the episode
\* otherwise.  Only a node that was placed, perhaps an earlier one, is revoked.
StepUnfit(v, p) ==
  /\ Interacts /\ Chosen(v, p) /\ ~Taken(v, p) /\ ~Fits(v, p)
  /\ IF Joint /\ AllowRevocable /\ nodeSlots # <<>>
     THEN BeginRevoke
     ELSE status' = "placement_failed" /\ UNCHANGED <<placementVars, callVars>>
  /\ UNCHANGED <<revoked, run>>

StepPlaces(v, p) ==
  /\ Interacts /\ Chosen(v, p) /\ ~Taken(v, p)
  /\ Place(v, p)
  /\ IF Joint THEN pc' = "routing" /\ todo' = LinksToRoute(v) /\ UNCHANGED linkVars
     ELSE IF Len(nodeSlots) + 1 < Len(NodeOrder) THEN UNCHANGED <<pc, todo, linkVars>>
     ELSE pc' = "routing" /\ todo' = VLinks /\ ClearRoutes
  /\ UNCHANGED <<undone, status, revoked, run>>

RoutesOne(l) ==
  /\ pc = "routing" /\ l \in todo
  /\ Route(l)
  /\ todo' = todo \ {l}
  /\ UNCHANGED <<nodeAvail, nodeSlots, nodeInfo, pc, undone, status, interactions,
                 revoked, run>>

\* The end of the episode, or the start of a revocation: the links that were
\* routed before stay in the tables until it comes to them.
FailedRoute(l) ==
  IF Joint /\ AllowRevocable
  THEN /\ pc' = "undoing" /\ undone' = LastSlot
       /\ todo' = {k \in routed' : Touches(k, LastSlot.v)}
       /\ UNCHANGED status
  ELSE /\ pc' = "idle" /\ todo' = {} /\ status' = "routing_failed"
       /\ UNCHANGED undone

FailedNode ==
  IF Joint /\ AllowRevocable THEN UndoPlace ELSE UNCHANGED <<nodeAvail, nodeSlots, nodeInfo>>

RoutesNone(l) ==
  /\ pc = "routing" /\ l \in todo
  /\ RouteFails(l)
  /\ FailedRoute(l) /\ FailedNode
  /\ UNCHANGED <<interactions, revoked, run>>

\* Every link to a placed neighbour is routed: success after the last node.
StepReturns ==
  /\ pc = "routing" /\ todo = {}
  /\ pc' = "idle"
  /\ status' = IF Len(nodeSlots) < Len(NodeOrder) THEN "running" ELSE "success"
  /\ UNCHANGED <<placementVars, todo, undone, interactions, revoked, run>>

UndoesOne(l) ==
  /\ pc = "undoing" /\ l \in todo
  /\ UndoRoute(l)
  /\ todo' = todo \ {l}
  /\ UNCHANGED <<nodeAvail, nodeSlots, nodeInfo, pc, undone, status, interactions,
                 revoked, run>>

\* revoked[{prefix(), last.key}].push_back(last.value), after the undo.
Prefix == nodeSlots

RevokeReturns ==
  /\ pc = "undoing" /\ todo = {}
  /\ revoked' = revoked \cup {[prefix |-> Prefix, slot |-> undone]}
  /\ pc' = "idle" /\ undone' = NoSlot
  /\ UNCHANGED <<placementVars, todo, status, interactions, run>>

-----------------------------------------------------------------------------
Step ==
  \/ GiveUp \/ StepRejects \/ StepRevokes \/ StepRevokesNothing
  \/ \E v \in VNodes, p \in PNodes : StepTaken(v, p) \/ StepUnfit(v, p) \/ StepPlaces(v, p)

Inside ==
  \/ \E l \in todo : RoutesOne(l) \/ RoutesNone(l) \/ UndoesOne(l)
  \/ StepReturns \/ RevokeReturns

Next == Reset \/ Reject \/ Revoke \/ Step \/ Inside

Spec == Init /\ [][Next]_vars

\* The agent's loop steps until the episode is done, and a call returns.
FairSpec == Spec /\ WF_vars(Step) /\ WF_vars(Inside)

-----------------------------------------------------------------------------
\* Types; no resource of the physical network is ever negative.
TypeOK ==
  /\ PlacementTypeOK
  /\ mode \in Modes
  /\ pc \in {"idle", "routing", "undoing"} /\ todo \subseteq Adjacent
  /\ undone \in SlotType \cup {NoSlot}
  /\ status \in {"running", "success", "rejected", "placement_failed", "routing_failed"}
  /\ interactions \in Nat /\ episodes \in Nat
  /\ revoked \subseteq [prefix : Seq(SlotType), slot : SlotType]

\* A path in the tables joins the hosts its link's ends have now; only a
\* running revocation still has paths of the node it took back.
RoutesFollowSlots ==
  \A l \in routed : linkPaths[l] # {} => Joins(l) \/ (pc = "undoing" /\ l \in todo)

\* Between calls of an episode that goes on or succeeded, every virtual link
\* between placed nodes is routed, once; success means all nodes are placed.
MappingIsWhole ==
  pc = "idle" /\ (status = "success" \/ (Joint /\ status = "running")) =>
    RoutesAreWhole /\ (status = "success" => Placed = VNodes)

\* An agent that follows the masks, with a rejection to fall back on, is never
\* led to take back the same placement after the same prefix twice in an
\* episode: every revocation bans something new.  Not in node_pair mode, whose
\* mask does not know the bans.
Heeds == ~Pair /\ FollowMask /\ AllowRejection
NeverRevokedTwice ==
  [][Heeds /\ pc = "undoing" /\ pc' = "idle" => revoked' # revoked]_vars

\* Every episode ends, whatever is placed and revoked.
EpisodeEnds == []<>(status # "running")
=============================================================================
