---------------------------- MODULE HeuristicSolvers ---------------------------
(***************************************************************************)
(* The solver that SolverRegistry::create makes of a configured name is one  *)
(* of the breadth-first searches of BfsDeploy or one of the population       *)
(* searches of MetaHeuristic; it works alone on the network of its request.  *)
(***************************************************************************)
EXTENDS BfsDeploy, MetaHeuristic

VARIABLE category     \* SolverCategory: "heuristic" or "meta_heuristic"

solverVars == <<category, bfsVars, metaVars>>

\* Nothing of the solver that was not made.
NoSearch ==
  /\ PlacementInit
  /\ order = <<>> /\ limits = <<>> /\ where = "none" /\ pending = {}
  /\ queue = <<>> /\ head = 0 /\ placed = 0 /\ attempts = 0 /\ ended = "no"

NoPopulation ==
  /\ algorithm = "none" /\ landscape = <<>> /\ iteration = 0 /\ solution = "none"
  /\ population = <<>> /\ personal = <<>> /\ best = <<>> /\ tabu = <<>> /\ proposed = <<>>

SolversInit ==
  \/ category = "heuristic" /\ BfsInit /\ NoPopulation
  \/ category = "meta_heuristic" /\ MetaInit /\ NoSearch

Searches == category = "heuristic" /\ BfsNext /\ UNCHANGED <<category, metaVars>>
Evolves == category = "meta_heuristic" /\ MetaNext /\ UNCHANGED <<category, bfsVars>>

SolversNext == Searches \/ Evolves

SolversSpec == SolversInit /\ [][SolversNext]_solverVars
=============================================================================
