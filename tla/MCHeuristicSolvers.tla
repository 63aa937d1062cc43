---------------------------- MODULE MCHeuristicSolvers -------------------------
(* A triangle of virtual nodes on a square of hosts with one diagonal, and    *)
(* three landscapes for the population searches.                             *)
EXTENDS HeuristicSolvers, SequencesExt

CONSTANTS a, b, c, h1, h2, h3, h4, e12, e13, e23, e24, e34

MCRankings == {<<a, b, c>>, <<b, c, a>>, <<c, a, b>>, <<a, c>>}
MCLimits == {[visit |-> 2, depth |-> 2, branch |-> 1], [visit |-> 4, depth |-> 2, branch |-> 2],
             [visit |-> 2, depth |-> 3, branch |-> 1], [visit |-> 4, depth |-> 1, branch |-> 4]}
MCLinks == {<<a, b>>, <<b, c>>, <<a, c>>}
MCNodeDemand == a :> 1 @@ b :> 2 @@ c :> 1
MCLinkDemand == [l \in Adjacent |-> IF c \in {l[1], l[2]} THEN 1 ELSE 2]
MCNodeCapacity == h1 :> 1 @@ h2 :> 2 @@ h3 :> 1 @@ h4 :> 2
MCLinkCapacity == e12 :> 3 @@ e13 :> 1 @@ e23 :> 2 @@ e24 :> 2 @@ e34 :> 1

MCNeighbours == h1 :> <<h2, h3>> @@ h2 :> <<h1, h3, h4>> @@ h3 :> <<h1, h2, h4>> @@ h4 :> <<h2, h3>>

\* Some simple paths between two hosts, at most two for each pair.
Between(pair) ==
  CASE pair = {h1, h2} -> {{e12}, {e13, e23}}
    [] pair = {h1, h3} -> {{e13}, {e12, e23}}
    [] pair = {h1, h4} -> {{e12, e24}, {e13, e34}}
    [] pair = {h2, h3} -> {{e23}, {e24, e34}}
    [] pair = {h2, h4} -> {{e24}, {e23, e34}}
    [] pair = {h3, h4} -> {{e34}, {e23, e24}}
    [] OTHER -> {}
MCPaths == [pair \in PNodes \X PNodes |-> Between({pair[1], pair[2]})]

\* The fitness adds up what each gene costs on each host; a gene that has no
\* host or does not fit on it cannot be deployed.
Landscape(w) ==
  LET n == Len(w)
      h == Len(w[1])
      Paid(p, g) == IF p[g] = Unplaced THEN Infinite ELSE w[g][p[g] + 1]
      Total(p) == FoldLeft(LAMBDA acc, x : acc + x, 0, [g \in 1 .. n |-> Paid(p, g)])
  IN [nodes |-> n, hosts |-> h,
      cost |-> [p \in PositionsOf(n, h) |-> Min({Total(p), Infinite})]]

\* Two nodes on four hosts, three on three, and three on two, which never fits.
MCLandscapes ==
  {Landscape(w) : w \in {<< <<1, 2, 3, 9>>, <<2, 1, 9, 3>> >>,
                         << <<9, 1, 9>>, <<9, 9, 1>>, <<1, 2, 9>> >>,
                         << <<1, 9>>, <<1, 1>>, <<2, 2>> >>}}
=============================================================================
