------------------------- MODULE MCInstanceEnvironment -------------------------
(* A triangle of virtual nodes on a triangle of hosts.                       *)
EXTENDS InstanceEnvironment, TLC

CONSTANTS a, b, c, h1, h2, h3, e12, e13, e23

MCOrder == <<a, b, c>>
MCLinks == {<<a, b>>, <<b, c>>, <<a, c>>}
MCNodeDemand == a :> 2 @@ b :> 1 @@ c :> 1
MCLinkDemand == [l \in Adjacent |-> IF c \in {l[1], l[2]} THEN 1 ELSE 2]
MCNodeCapacity == h1 :> 2 @@ h2 :> 2 @@ h3 :> 1
MCLinkCapacity == e12 :> 3 @@ e13 :> 2 @@ e23 :> 1

MCLimit == [m \in Modes |-> IF m = "node_pair" THEN 4 ELSE 7]

\* The simple paths between two hosts of the triangle.
Direct(pair) == CASE pair = {h1, h2} -> e12 [] pair = {h1, h3} -> e13 [] pair = {h2, h3} -> e23
MCPaths ==
  [pair \in PNodes \X PNodes |->
     IF pair[1] = pair[2] THEN {}
     ELSE LET e == Direct({pair[1], pair[2]}) IN {{e}, {e12, e13, e23} \ {e}}]
=============================================================================
