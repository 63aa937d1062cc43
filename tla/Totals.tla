-------------------------------- MODULE Totals --------------------------------
(***************************************************************************)
(* The total of natural amounts over a finite set: what the journals and    *)
(* counters of the program add up in loops.  An amount of n is counted as n *)
(* units, so that a total is a cardinality.                                 *)
(***************************************************************************)
EXTENDS Integers, FiniteSets

Units(S, amount) == UNION {{x} \X (1 .. amount[x]) : x \in S}

TotalOf(S, amount) == Cardinality(Units(S, amount))
=============================================================================
