CONSTANTS
  a = a
  b = b
  c = c
  h1 = h1
  h2 = h2
  h3 = h3
  h4 = h4
  e12 = e12
  e13 = e13
  e23 = e23
  e24 = e24
  e34 = e34
  VNodes = {a, b, c}
  PNodes = {h1, h2, h3, h4}
  PLinks = {e12, e13, e23, e24, e34}
  VLinks <- MCLinks
  NodeDemand <- MCNodeDemand
  LinkDemand <- MCLinkDemand
  NodeCapacity <- MCNodeCapacity
  LinkCapacity <- MCLinkCapacity
  Paths <- MCPaths
  Rankings <- MCRankings
  Neighbours <- MCNeighbours
  Limits <- MCLimits
  Roots = {h1, h2, h4}
  Checkpoint = FALSE
  Algorithms = {"genetic", "annealing", "tabu", "swarm", "ants"}
  Landscapes <- MCLandscapes
  Infinite = 9
  PopulationSize = 2
  Iterations = 2
  TabuTenure = 1
SPECIFICATION SolversSpec
INVARIANTS
  HostsOfferedOnce
  CommittedIsWhole
  RolledBackIsUntouched
  OneNodePerHost
PROPERTIES
  BestIsKept
CHECK_DEADLOCK FALSE
