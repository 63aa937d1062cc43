------------------------------ MODULE MCTimSort ------------------------------
(***************************************************************************)
(* Instances of TimSort: every array of up to MaxLength scores of Scores   *)
(* and NaNs, two ascending runs, each with at most one NaN, whose merges    *)
(* gallop, and longer arrays made of ascending runs of given lengths,      *)
(* which stack up in the pattern that is hard for merge_collapse.          *)
(***************************************************************************)
EXTENDS TimSort, FiniteSetsExt

CONSTANTS MaxLength, Halves, Scores

\* Two ascending runs side by side.
Ascending(n) == {f \in [1 .. n -> Scores] : \A i \in 2 .. n : f[i - 1] <= f[i]}
WithNaN(n) == Ascending(n) \cup {[f EXCEPT ![i] = NaN] : f \in Ascending(n), i \in 1 .. n}
TwoRuns(m, n) ==
    {[i \in 0 .. m + n - 1 |-> IF i < m THEN f[i + 1] ELSE g[i - m + 1]]
        : f \in WithNaN(m), g \in WithNaN(n)}

\* An array whose natural runs have these lengths; run k counts from 0 again.
Total[s \in Seq(Nat)] == IF s = <<>> THEN 0 ELSE Head(s) + Total[Tail(s)]
RunsOf(lengths) ==
    [i \in 0 .. Total[lengths] - 1 |->
        LET k == Min({j \in 1 .. Len(lengths) : i < Total[SubSeq(lengths, 1, j)]})
        IN  i - Total[SubSeq(lengths, 1, k - 1)]]

MCHalves == <<5, 4>>

LongRuns == {<<18, 13, 4, 3, 5, 3>>, <<5, 4, 7>>, <<3, 9>>, <<9, 3>>, <<8, 8>>}

\* reverse=True reverses the array first: these have the runs once reversed.
Mirrored(a) == LET n == Cardinality(DOMAIN a) IN Reversed(a, 0, n)

MCInputs ==
    UNION {[0 .. n - 1 -> Scores \cup {NaN}] : n \in 2 .. MaxLength}
        \cup TwoRuns(Halves[1], Halves[2])
        \cup {RunsOf(l) : l \in LongRuns} \cup {Mirrored(RunsOf(l)) : l \in LongRuns}

MCSizes == {Cardinality(DOMAIN a) : a \in MCInputs}
=============================================================================
