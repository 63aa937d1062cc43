----------------------------- MODULE MetaHeuristic -----------------------------
(***************************************************************************)
(* MetaHeuristicSolver of virne/solver/meta_heuristic/meta_heuristic.cpp:    *)
(* five searches for a good assignment of virtual nodes to hosts.  Each      *)
(* iteration proposes a position for every individual, evaluates them all on *)
(* clones of the physical network, and keeps the best position ever seen,    *)
(* whose Solution is deployed in the end.                                    *)
(*                                                                           *)
(* A position gives gene g, the g-th virtual node, a host or Unplaced.  What *)
(* evaluate() finds is a function of the position, its cost, infinite where  *)
(* the position cannot be deployed (a request has a positive revenue);       *)
(* random draws are choices.                                                 *)
(***************************************************************************)
EXTENDS Integers, Sequences, FiniteSetsExt

CONSTANTS
  Algorithms,      \* of "genetic", "annealing", "tabu", "swarm" and "ants"
  Landscapes,      \* virtual nodes, hosts, and the fitness of every position
  Infinite,        \* kInfinity: the fitness of what cannot be deployed
  PopulationSize, Iterations, TabuTenure

Unplaced == -1
PositionsOf(n, h) == [1 .. n -> (0 .. h - 1) \cup {Unplaced}]

ASSUME MetaAssumption ==
  /\ Algorithms \subseteq {"genetic", "annealing", "tabu", "swarm", "ants"}
  /\ Infinite \in Nat /\ PopulationSize \in Nat \ {0} /\ {Iterations, TabuTenure} \subseteq Nat
  /\ \A l \in Landscapes :
       /\ {l.nodes, l.hosts} \subseteq Nat \ {0}
       /\ l.cost \in [PositionsOf(l.nodes, l.hosts) -> 0 .. Infinite]
       /\ \A p \in DOMAIN l.cost : Unplaced \in {p[g] : g \in DOMAIN p} => l.cost[p] = Infinite

VARIABLES
  algorithm, landscape,
  population,   \* positions of the individuals
  personal,     \* personal_best of the particle swarm
  best,         \* global_best
  tabu,         \* the last moves of each individual in tabu search
  proposed,     \* next_positions so far, <<>> where tabu search found no move
  iteration,
  solution      \* "none", and in the end "committed" or "detached"

metaVars == <<algorithm, landscape, population, personal, best, tabu, proposed, iteration, solution>>

Genes == 1 .. landscape.nodes
HostIds == 0 .. landscape.hosts - 1
Individuals == 1 .. PopulationSize
Cost(p) == landscape.cost[p]
Feasible(p) == Cost(p) # Infinite

-----------------------------------------------------------------------------
(* Faulty variants, none is used by the specification.                      *)
Occupied_Repaired(kept) ==                           \* the last gene's host is not marked
  {kept[k] : k \in 1 .. Len(kept) - 1} \ {Unplaced}
KeptBest_Latest(old, new) == new                  \* the latest instead of the best
-----------------------------------------------------------------------------
(* Positions.                                                               *)

\* An injection of as many genes as there are hosts, first genes first.
Tours == {p \in [Genes -> HostIds \cup {Unplaced}] :
            /\ \A g \in Genes : p[g] = Unplaced <=> g > landscape.hosts
            /\ \A g, k \in Genes : g # k /\ p[g] # Unplaced => p[g] # p[k]}

Greedy == [g \in Genes |-> IF g <= landscape.hosts THEN g - 1 ELSE Unplaced]

HostsOf(p) == {p[g] : g \in DOMAIN p} \ {Unplaced}

\* neighbor_position: some gene moves to a host no gene has, if there is one.
NeighborPositions(p) ==
  IF HostIds \subseteq HostsOf(p) THEN {p}
  ELSE {[p EXCEPT ![g] = h] : g \in Genes, h \in HostIds \ HostsOf(p)}

\* repair_position: a gene whose host an earlier gene has gets the first host
\* that none of them has.
Occupied(kept) == HostsOf(kept)
Repaired(p) ==
  LET Keep(kept, host) ==
        LET free == HostIds \ Occupied(kept)
        IN Append(kept, IF host \in free THEN host ELSE IF free = {} THEN Unplaced ELSE Min(free))
      upTo[g \in 0 .. landscape.nodes] == IF g = 0 THEN <<>> ELSE Keep(upTo[g - 1], p[g])
  IN upTo[landscape.nodes]

-----------------------------------------------------------------------------
(* Candidates.                                                              *)

Precedes(p, q) == \E g \in Genes : p[g] < q[g] /\ \A k \in 1 .. g - 1 : p[k] = q[k]

Better(p, q) ==
  \/ Cost(p) < Cost(q)
  \/ Cost(p) = Cost(q) /\ Feasible(p) /\ Precedes(p, q)

\* best_of: the first that none of the others is better than.
BestOf(candidates) ==
  LET top == {i \in DOMAIN candidates : \A j \in DOMAIN candidates : ~Better(candidates[j], candidates[i])}
  IN candidates[Min(top)]

KeptBest(old, new) == IF Better(new, old) THEN new ELSE old

-----------------------------------------------------------------------------
MetaInit ==
  /\ algorithm \in Algorithms /\ landscape \in Landscapes
  /\ population \in IF algorithm = "ants" THEN {<<Greedy>>}
                    ELSE {s \in [Individuals -> Tours] : s[1] = Greedy}
  /\ personal = population /\ best = BestOf(population)
  /\ tabu = [i \in Individuals |-> <<>>]
  /\ proposed = <<>> /\ iteration = 0 /\ solution = "none"

Proposer == Len(proposed) + 1           \* the individual that is proposed for
Proposing(a) == algorithm = a /\ iteration < Iterations /\ Proposer \in Individuals
Evaluating(a) == algorithm = a /\ iteration < Iterations /\ Proposer \notin Individuals

Proposes(batch) ==
  /\ proposed' = SubSeq(proposed \o batch, 1, Min({PopulationSize, Len(proposed \o batch)}))
  /\ UNCHANGED <<algorithm, landscape, population, personal, best, tabu, iteration, solution>>

\* run_genetic: any individual can win a tournament; a segment may be swapped,
\* and each child is mutated gene by gene, which may happen to none, and repaired.
Crossed(p, q) ==
  {<<p, q>>} \cup
    {<<[g \in Genes |-> IF g \in l .. r THEN q[g] ELSE p[g]],
       [g \in Genes |-> IF g \in l .. r THEN p[g] ELSE q[g]]>> : l, r \in Genes}

Mutated(p) ==
  LET after[g \in 0 .. landscape.nodes] ==
        IF g = 0 THEN {p} ELSE after[g - 1] \cup UNION {NeighborPositions(q) : q \in after[g - 1]}
  IN {Repaired(q) : q \in after[landscape.nodes]}

Breeds ==
  /\ Proposing("genetic")
  /\ \E i, j \in Individuals : \E pair \in Crossed(population[i], population[j]) :
       \E first \in Mutated(pair[1]), second \in Mutated(pair[2]) : Proposes(<<first, second>>)

\* run_simulated_annealing
Cools == Proposing("annealing") /\ \E p \in NeighborPositions(population[Proposer]) : Proposes(<<p>>)

\* run_tabu_search: a neighbour whose move is not tabu, or nothing when every
\* attempt drew a tabu move or found no free host.
Moved(p, q) == LET g == Min({k \in Genes : p[k] # q[k]}) IN [gene |-> g, host |-> q[g]]
IsTabu(i, q) == Moved(population[i], q) \in {tabu[i][k] : k \in DOMAIN tabu[i]}
Looks ==
  /\ Proposing("tabu")
  /\ \E p \in NeighborPositions(population[Proposer]) :
       IF p = population[Proposer] \/ IsTabu(Proposer, p) THEN Proposes(<< <<>> >>) ELSE Proposes(<<p>>)

\* run_particle_swarm: each gene stays, follows the personal or the global
\* best, or the whole position wanders; then the position is repaired.
Flown(i) ==
  LET after[g \in 0 .. landscape.nodes] ==
        IF g = 0 THEN {population[i]}
        ELSE UNION {{q, [q EXCEPT ![g] = personal[i][g]], [q EXCEPT ![g] = best[g]]}
                      \cup NeighborPositions(q) : q \in after[g - 1]}
  IN {Repaired(q) : q \in after[landscape.nodes]}
Flies == Proposing("swarm") /\ \E p \in Flown(Proposer) : Proposes(<<p>>)

\* run_ant_colony: every host has some pheromone, so an ant may take any tour.
Walks == Proposing("ants") /\ \E p \in Tours : Proposes(<<p>>)

-----------------------------------------------------------------------------
(* The end of an iteration.                                                 *)

Iterated ==
  /\ iteration' = iteration + 1 /\ proposed' = <<>>
  /\ UNCHANGED <<algorithm, landscape, solution>>

EvaluateGenetic ==
  /\ Evaluating("genetic") /\ Iterated
  /\ population' = proposed /\ best' = KeptBest(best, BestOf(proposed))
  /\ UNCHANGED <<personal, tabu>>

EvaluateAnts ==
  /\ Evaluating("ants") /\ Iterated
  /\ best' = KeptBest(best, BestOf(proposed))
  /\ UNCHANGED <<population, personal, tabu>>

\* What the individuals become when those of `accepted` take their proposal.
Accepting(accepted) ==
  population' = [i \in Individuals |-> IF i \in accepted THEN proposed[i] ELSE population[i]]

\* A feasible position that is no better is accepted by chance, while it is warm.
Warm(i) == Feasible(population[i]) /\ Feasible(proposed[i])
Improves(i) == proposed[i] # <<>> /\ Better(proposed[i], population[i])
EvaluateAnnealing ==
  /\ Evaluating("annealing") /\ Iterated
  /\ \E accepted \in SUBSET Individuals :
       /\ \A i \in accepted : Improves(i) \/ Warm(i)
       /\ \A i \in Individuals : Improves(i) => i \in accepted
       /\ Accepting(accepted)
  /\ best' = KeptBest(best, BestOf(population'))
  /\ UNCHANGED <<personal, tabu>>

\* The move is tabu whether it was accepted or not.
Remembered(i) ==
  LET moves == Append(tabu[i], Moved(population[i], proposed[i]))
  IN IF Len(moves) > TabuTenure THEN Tail(moves) ELSE moves
EvaluateTabu ==
  /\ Evaluating("tabu") /\ Iterated
  /\ tabu' = [i \in Individuals |-> IF proposed[i] = <<>> THEN tabu[i] ELSE Remembered(i)]
  /\ Accepting({i \in Individuals : Improves(i)})
  /\ best' = KeptBest(best, BestOf(population'))
  /\ UNCHANGED personal

EvaluateSwarm ==
  /\ Evaluating("swarm") /\ Iterated
  /\ population' = proposed
  /\ personal' = [i \in Individuals |-> IF Better(proposed[i], personal[i]) THEN proposed[i] ELSE personal[i]]
  /\ best' = KeptBest(best, BestOf(personal'))
  /\ UNCHANGED tabu

\* solve_mutable: a best Solution that could be deployed is.
Settle ==
  /\ iteration = Iterations /\ solution = "none"
  /\ solution' = IF Feasible(best) THEN "committed" ELSE "detached"
  /\ UNCHANGED <<algorithm, landscape, population, personal, best, tabu, proposed, iteration>>

MetaNext ==
  \/ Breeds \/ Cools \/ Looks \/ Flies \/ Walks
  \/ EvaluateGenetic \/ EvaluateAnts \/ EvaluateAnnealing \/ EvaluateTabu \/ EvaluateSwarm
  \/ Settle

MetaSpec == MetaInit /\ [][MetaNext]_metaVars

-----------------------------------------------------------------------------
\* Every position that is evaluated gives as many virtual nodes a host as there
\* are hosts, and no two the same, whatever was crossed, copied from others or
\* mutated: deploy_with_node_slots does not look, and two adjacent nodes on one
\* host make the link mapper throw out of the whole search.
OneNodePerHost ==
  \A s \in {population, personal, proposed, <<best>>} : \A i \in DOMAIN s :
    s[i] # <<>> => Cardinality(HostsOf(s[i])) = Min({landscape.nodes, landscape.hosts})
                   /\ \A g, k \in Genes : g # k /\ s[i][g] = s[i][k] => s[i][g] = Unplaced

\* What the search returns was beaten by nothing it evaluated: a request is
\* refused only when no position of any iteration could be deployed.
BestIsKept ==
  [][/\ best' # best => Better(best', best)
     /\ iteration' # iteration =>
          \A i \in DOMAIN proposed : proposed[i] # <<>> => ~Better(proposed[i], best')]_metaVars
=============================================================================
