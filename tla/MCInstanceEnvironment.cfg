CONSTANTS
  a = a
  b = b
  c = c
  h1 = h1
  h2 = h2
  h3 = h3
  e12 = e12
  e13 = e13
  e23 = e23
  VNodes = {a, b, c}
  PNodes = {h1, h2, h3}
  PLinks = {e12, e13, e23}
  VLinks <- MCLinks
  NodeDemand <- MCNodeDemand
  LinkDemand <- MCLinkDemand
  NodeCapacity <- MCNodeCapacity
  LinkCapacity <- MCLinkCapacity
  Paths <- MCPaths
  NodeOrder <- MCOrder
  Modes = {"joint", "placement", "node_pair"}
  RejectingModes = {"joint", "placement"}
  AllowRevocable = TRUE
  MaskedModes = {"joint", "placement"}
  InteractionLimit <- MCLimit
  MaxEpisodes = 2
SPECIFICATION FairSpec
INVARIANTS
  Balanced
  RoutesFollowSlots
  MappingIsWhole
PROPERTIES
  NeverRevokedTwice
  EpisodeEnds
CHECK_DEADLOCK FALSE
