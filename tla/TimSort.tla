------------------------------ MODULE TimSort ------------------------------
(***************************************************************************)
(* Python310TimSort of src/virne/solver/rank/python310_generic_timsort.h,  *)
(* by which the rankers order nodes and links as Python's sorted() would:  *)
(* natural runs, binary insertion up to the minimum run, the run stack,    *)
(* and merges that copy the shorter run away and gallop.  Scores may be    *)
(* NaN, which no comparison orders.  Indices are the code's, from 0.       *)
(*                                                                         *)
(* A merge is a record `work`: which run sits in temporary_ (the left one  *)
(* in merge_low, the right one in merge_high), where each run's remaining  *)
(* entries start, how many there are, and where the next entry goes.       *)
(***************************************************************************)
EXTENDS RunStack, FiniteSets

CONSTANTS Inputs,            \* arrays of scores, functions on 0 .. n - 1
          NaN,               \* the score that < never relates
          MinimumRunLimit,   \* 64 in compute_minimum_run
          MinimumGallop      \* minimum_gallop, 7 in the code

\* Numbers and NaN are all that a comparison of scores tells apart.
ASSUME TimSortAssumption ==
    /\ \A s \in Inputs : \E n \in Sizes : s \in [0 .. n - 1 -> {NaN} \cup Int]
    /\ MinimumRunLimit \in Nat \ {0} /\ MinimumGallop \in Nat \ {0}

VARIABLES scores,           \* the array given to sort()
          reverse,          \* its argument
          ranking,          \* values_
          temporary,        \* temporary_
          minimumGallop,    \* current_minimum_gallop_
          work              \* the insertion or merge in progress

vars == <<phase, pending, first, remaining, scores, reverse, ranking,
          temporary, minimumGallop, work>>

Idle == [step |-> "idle"]

Less(x, y) == x.value # NaN /\ y.value # NaN /\ x.value < y.value

Size == Cardinality(DOMAIN scores)

\* compute_minimum_run.
MinimumRun[n \in Nat, bit \in 0 .. 1] ==
    IF n < MinimumRunLimit THEN n + bit
    ELSE MinimumRun[n \div 2, IF n % 2 = 1 THEN 1 ELSE bit]

Reversed(r, from, last) ==
    [i \in DOMAIN r |-> IF i \in from .. last - 1 THEN r[from + last - 1 - i] ELSE r[i]]

\* The element loops that copy n entries of `source` into `target`.
Copied(target, to, source, from, n) ==
    [i \in DOMAIN target |->
        IF i \in to .. to + n - 1 THEN source[from + i - to] ELSE target[i]]

Slice(r, from, n) == [i \in 1 .. n |-> r[from + i - 1]]

\* Where gallop_right, and the binary search of binary_sort, may put the key:
\* after an entry it is not less than and before one it is less than.  There
\* is one such place in a sorted run; with NaNs the probes decide.
GallopRight(key, run) ==
    {k \in 0 .. Len(run) : /\ k = 0 \/ ~Less(key, run[k])
                           /\ k = Len(run) \/ Less(key, run[k + 1])}

\* Faulty: gallop_left passes the entries that equal the key.
FaultyGallopLeft(key, run) == GallopRight(key, run)

\* Where gallop_left may: before all entries that are not less than the key.
GallopLeft(key, run) ==
    {k \in 0 .. Len(run) : /\ k = 0 \/ Less(run[k], key)
                           /\ k = Len(run) \/ ~Less(run[k + 1], key)}

Init ==
    /\ StackInit
    /\ scores \in Inputs
    /\ remaining = Size
    /\ reverse \in BOOLEAN
    /\ ranking = LET entries == [i \in DOMAIN scores |-> [value |-> scores[i], id |-> i]]
                 IN  IF reverse THEN Reversed(entries, 0, Size) ELSE entries
    /\ temporary = [i \in 0 .. (Size + 1) \div 2 - 1 |-> [value |-> scores[0], id |-> 0]]
    /\ minimumGallop = MinimumGallop
    /\ work = Idle

-----------------------------------------------------------------------------
\* Runs: count_run, binary_sort, push_run.

Descends == remaining > 1 /\ Less(ranking[first + 1], ranking[first])

\* How far the run that starts at `first` goes, as long as the comparison of
\* neighbours gives what it gave for the first two.
RunLengths ==
    LET Continues(c) == Less(ranking[c], ranking[c - 1]) = Descends
    IN  {n \in 1 .. remaining :
            /\ \A c \in first + 1 .. first + n - 1 : Continues(c)
            /\ n = remaining \/ ~Continues(first + n)}

\* A short run is extended to the minimum run, or to the last entry.
Extensions(n) ==
    LET minimum == MinimumRun[Size, 0]
    IN  {k \in n .. remaining :
            IF n >= minimum THEN k = n
            ELSE k = minimum \/ (k = remaining /\ k < minimum)}

CountRun ==
    /\ phase = "count" /\ work = Idle
    /\ \E n \in RunLengths :
          /\ \E k \in Extensions(n) :
                work' = [step |-> "insert", at |-> first + n, length |-> k]
          /\ ranking' = IF Descends THEN Reversed(ranking, first, first + n) ELSE ranking
    /\ UNCHANGED <<stackVars, scores, reverse, temporary, minimumGallop>>

\* One round of binary_sort: the entry at `at` goes among those before it.
Insert ==
    /\ work.step = "insert" /\ work.at < first + work.length
    /\ LET pivot == ranking[work.at]
       IN  \E k \in GallopRight(pivot, Slice(ranking, first, work.at - first)) :
              ranking' = [Copied(ranking, first + k + 1, ranking, first + k,
                                 work.at - first - k) EXCEPT ![first + k] = pivot]
    /\ work' = [work EXCEPT !.at = @ + 1]
    /\ UNCHANGED <<stackVars, scores, reverse, temporary, minimumGallop>>

Push ==
    /\ work.step = "insert" /\ work.at = first + work.length
    /\ PushRun(work.length)
    /\ work' = Idle
    /\ UNCHANGED <<scores, reverse, ranking, temporary, minimumGallop>>

-----------------------------------------------------------------------------
\* Merges: merge_at trims the two runs, merge_low and merge_high do the rest.

\* What merge_at leaves to be merged of runs i and i + 1: entries of the left
\* run that are in place already, and of the right one, take no part.
Trimmed(i) ==
    LET a == pending[i]
        b == pending[i + 1]
        runB == Slice(ranking, b.base, b.length)
    IN  UNION {LET na == a.length - prefix
                   last == ranking[a.base + a.length - 1]
               IN  IF na = 0 THEN {Idle}
                   ELSE {IF nb = 0 THEN Idle
                         ELSE [step |-> "begin",
                               start |-> [a |-> a.base + prefix, b |-> b.base],
                               left |-> [a |-> na, b |-> nb]]
                         : nb \in GallopLeft(last, runB)}
               : prefix \in GallopRight(runB[1], Slice(ranking, a.base, a.length))}

MergeRuns(i) ==
    /\ work = Idle
    /\ work' \in Trimmed(i)
    /\ UNCHANGED <<scores, reverse, ranking, temporary, minimumGallop>>

CollapseRuns == Collapse /\ MergeRuns(CollapseIndex(pending))
ForceRuns == ForceCollapse /\ MergeRuns(MergeIndex(pending))
EndCollapse == work = Idle /\ Collapsed /\ UNCHANGED <<scores, reverse, ranking, temporary, minimumGallop, work>>

\* merge_low keeps the left run in temporary_ and fills from the left;
\* merge_high keeps the right run there and fills from the right.
Low(w) == w.low
Kept(w) == IF Low(w) THEN "a" ELSE "b"
Other(w) == IF Low(w) THEN "b" ELSE "a"
Store(w, r, side) == IF side = Kept(w) THEN temporary ELSE r

\* The remaining entries of a side, and the one of them that goes next.
Remaining(side) == Slice(Store(work, ranking, side), work.start[side], work.left[side])
Front(side) == Remaining(side)[IF Low(work) THEN 1 ELSE work.left[side]]

\* No entry is left beside the kept run, or the kept run has one at most:
\* the returns of merge_low and merge_high.
MergeEnds(w) == w.left[Other(w)] = 0 \/ w.left[Kept(w)] <= 1

\* Faulty: the last kept entry goes where the other run's first entry went.
FaultyFinished(w, r) ==
    LET n == w.left[Other(w)]
        to == IF Low(w) THEN w.to ELSE w.to - n
        shifted == Copied(r, to, r, w.start[Other(w)], n)
    IN  IF n = 0
        THEN Copied(r, IF Low(w) THEN w.to ELSE w.to - w.left[Kept(w)],
                    temporary, w.start[Kept(w)], w.left[Kept(w)])
        ELSE IF w.left[Kept(w)] = 0 THEN r
             ELSE [shifted EXCEPT ![to] = temporary[w.start[Kept(w)]]]

\* finish_merge_low, finish_merge_high, copy_b_then_last_a, copy_a_then_first_b.
Finished(w, r) ==
    LET kept == Kept(w)
        other == Other(w)
        Filled(q, n) == IF Low(w) THEN q ELSE q - n
    IN  IF w.left[other] = 0
        THEN Copied(r, Filled(w.to, w.left[kept]), temporary, w.start[kept], w.left[kept])
        ELSE LET n == w.left[other]
                 shifted == Copied(r, Filled(w.to, n), r, w.start[other], n)
             IN  IF w.left[kept] = 0 THEN r
                 ELSE [shifted EXCEPT ![IF Low(w) THEN w.to + n ELSE w.to - n - 1]
                                          = temporary[w.start[kept]]]

\* n entries of a side move to their place, and the merge ends or goes on
\* with the rest of the work w.
Take(w, side, n) ==
    LET from == IF Low(w) THEN w.start[side] ELSE w.start[side] + w.left[side] - n
        to == IF Low(w) THEN w.to ELSE w.to - n
        moved == Copied(ranking, to, Store(w, ranking, side), from, n)
        rest == [w EXCEPT !.left[side] = @ - n,
                          !.start[side] = IF Low(w) THEN @ + n ELSE @,
                          !.to = IF Low(w) THEN @ + n ELSE @ - n]
    IN  IF MergeEnds(rest)
        THEN ranking' = Finished(rest, moved) /\ work' = Idle
        ELSE ranking' = moved /\ work' = rest

\* The shorter run is copied away, which frees the place of one entry.
Shorter == IF work.left.a <= work.left.b THEN "a" ELSE "b"

KeepShorter ==
    /\ work.step = "begin"
    /\ temporary' = Copied(temporary, 0, ranking, work.start[Shorter], work.left[Shorter])
    /\ work' = [step |-> "first",
                low |-> Shorter = "a",
                start |-> [work.start EXCEPT ![Shorter] = 0],
                left |-> work.left,
                to |-> IF Shorter = "a" THEN work.start.a ELSE work.start.b + work.left.b,
                wins |-> [a |-> 0, b |-> 0],
                gallop |-> minimumGallop]
    /\ UNCHANGED <<stackVars, scores, reverse, ranking, minimumGallop>>

FirstEntry ==
    /\ work.step = "first"
    /\ Take([work EXCEPT !.step = "pair"], Other(work), 1)
    /\ UNCHANGED <<stackVars, scores, reverse, temporary, minimumGallop>>

\* One entry at a time, until one side has won often enough to gallop.
Pair ==
    /\ work.step = "pair"
    /\ LET winner == IF Less(Front("b"), Front("a")) = Low(work) THEN "b" ELSE "a"
           won == [s \in {"a", "b"} |-> IF s = winner THEN work.wins[s] + 1 ELSE 0]
           next == IF won[winner] < work.gallop
                   THEN [work EXCEPT !.wins = won]
                   ELSE [work EXCEPT !.wins = won, !.gallop = @ + 1, !.step = "gallop_a"]
       IN  Take(next, winner, 1)
    /\ UNCHANGED <<stackVars, scores, reverse, temporary, minimumGallop>>

\* As many entries of a side as its gallop finds.
Galloped(side, splits) ==
    {IF Low(work) THEN k ELSE work.left[side] - k : k \in splits}

GallopA ==
    /\ work.step = "gallop_a"
    /\ LET lowered == IF work.gallop > 1 THEN work.gallop - 1 ELSE work.gallop
       IN  /\ minimumGallop' = lowered
           /\ \E n \in Galloped("a", GallopRight(Front("b"), Remaining("a"))) :
                 Take([work EXCEPT !.wins.a = n, !.gallop = lowered, !.step = "one_b"], "a", n)
    /\ UNCHANGED <<stackVars, scores, reverse, temporary>>

OneB ==
    /\ work.step = "one_b"
    /\ Take([work EXCEPT !.step = "gallop_b"], "b", 1)
    /\ UNCHANGED <<stackVars, scores, reverse, temporary, minimumGallop>>

GallopB ==
    /\ work.step = "gallop_b"
    /\ \E n \in Galloped("b", GallopLeft(Front("a"), Remaining("b"))) :
          Take([work EXCEPT !.wins.b = n, !.step = "one_a"], "b", n)
    /\ UNCHANGED <<stackVars, scores, reverse, temporary, minimumGallop>>

\* The last entry of a gallop round; galloping stops once it does not pay.
OneA ==
    /\ work.step = "one_a"
    /\ LET pays == work.wins.a >= MinimumGallop \/ work.wins.b >= MinimumGallop
           next == IF pays THEN [work EXCEPT !.step = "gallop_a"]
                   ELSE [work EXCEPT !.step = "pair", !.gallop = @ + 1,
                                     !.wins = [a |-> 0, b |-> 0]]
       IN  /\ Take(next, "a", 1)
           /\ minimumGallop' = IF work' # Idle /\ work'.step = "pair"
                               THEN work.gallop + 1 ELSE minimumGallop
    /\ UNCHANGED <<stackVars, scores, reverse, temporary>>

Return ==
    /\ work = Idle
    /\ StackDone
    /\ ranking' = IF reverse THEN Reversed(ranking, 0, Size) ELSE ranking
    /\ UNCHANGED <<scores, reverse, temporary, minimumGallop, work>>

Next ==
    \/ CountRun \/ Insert \/ Push
    \/ CollapseRuns \/ EndCollapse \/ ForceRuns
    \/ KeepShorter \/ FirstEntry \/ Pair
    \/ GallopA \/ OneB \/ GallopB \/ OneA
    \/ Return

Spec == Init /\ [][Next]_vars /\ WF_vars(Next)

-----------------------------------------------------------------------------
\* Between merges the array holds every entry once, whatever the scores are:
\* the in-place copies overwrite no entry that is still needed, also when
\* NaNs make the comparisons inconsistent.
KeepsEntries ==
    work.step \in {"idle", "insert"} =>
        {ranking[i].id : i \in DOMAIN ranking} = DOMAIN scores

\* sort() returns what Python's sorted() would: ascending, or descending
\* with reverse, and equal scores in the order they were given in.
SortsStably ==
    (phase = "done" /\ \A i \in DOMAIN scores : scores[i] # NaN) =>
        \A i, j \in DOMAIN ranking : i < j =>
            \/ IF reverse THEN Less(ranking[j], ranking[i]) ELSE Less(ranking[i], ranking[j])
            \/ ranking[i].value = ranking[j].value /\ ranking[i].id < ranking[j].id

\* Every sort returns: no NaN keeps a merge going for ever, and the run
\* stack never overflows.
SortReturns == <>(phase = "done")
=============================================================================
