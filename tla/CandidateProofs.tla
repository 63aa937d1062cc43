-------------------------- MODULE CandidateProofs --------------------------
(***************************************************************************)
(* The order of candidates, and the search among them.                     *)
(*                                                                         *)
(* The run stack of TimSort keeps its invariant for arrays of any size and *)
(* any scores: after merge_collapse every pending run outweighs the two    *)
(* that follow it, and the pending runs lie side by side.  The argument is *)
(* about the lengths of the runs alone; of the entries it needs that a     *)
(* counted run is not empty and does not reach past the array.             *)
(*                                                                         *)
(* Its merges lose no entry, whatever the comparisons say: what is left of *)
(* both sides fills the gap between the places that are settled, so each   *)
(* entry is outside the gap or left of a side.                             *)
(*                                                                         *)
(* Without NaNs the sort is stable.  Places of one run have one label, and *)
(* the entries of one label are in order; entries of different runs still  *)
(* stand as they were given.  A merge under way is looked at as if what is *)
(* left of its two sides were yet to be merged, with the side that was     *)
(* copied away put back in its place.                                      *)
(*                                                                         *)
(* The blocks of deterministic_parallel_blocks partition any range, and    *)
(* the windowed search of CandidateSearch answers what a sequential search *)
(* answers, for any number of candidates, workers and window constants.    *)
(***************************************************************************)
EXTENDS TimSort, CandidateSearch, CommonLemmas

USE RunStackAssumption DEF RunStackAssumption

StackTypeOK ==
    /\ phase \in Phases
    /\ pending \in Seq(Run)
    /\ first \in Nat
    /\ remaining \in Nat

\* While runs are counted there are entries left, and the run at hand is a
\* part of them.
CountedRunFits ==
    phase = "count" =>
        /\ remaining # 0
        /\ \/ work = Idle
           \/ \E next \in Nat, n \in 1 .. remaining :
                 work = [step |-> "insert", at |-> next, length |-> n]

\* What is left of the invariant in the middle of merge_collapse: a push
\* spoils it for the last three runs, a merge for the last four.
CollapseInvariant ==
    phase = "collapse" => \A i \in 1 .. Len(pending) - 4 : Outweighs(pending, i)

IInv == StackTypeOK /\ CountedRunFits /\ CollapseInvariant /\ PendingInvariant

-----------------------------------------------------------------------------
(* What push_run and merge_at do to the stack.                              *)

LEMMA AppendRun ==
  ASSUME NEW p \in Seq(Run), NEW r \in Run
  PROVE  /\ Append(p, r) \in Seq(Run)
         /\ Len(Append(p, r)) = Len(p) + 1
         /\ \A i \in 1 .. Len(p) : Append(p, r)[i] = p[i]
         /\ Append(p, r)[Len(p) + 1] = r
  OBVIOUS

\* The run at a position of the stack.
LEMMA RunAt ==
  ASSUME NEW p \in Seq(Run), NEW i \in 1 .. Len(p)
  PROVE  p[i].base \in Nat /\ p[i].length \in Nat \ {0}
<1>1. p[i] \in Run
  OBVIOUS
<1>2. QED
  BY <1>1 DEF Run

LEMMA MergedRuns ==
  ASSUME NEW p \in Seq(Run), NEW i \in 1 .. Len(p) - 1
  PROVE  /\ Merged(p, i) \in Seq(Run)
         /\ Len(Merged(p, i)) = Len(p) - 1
         /\ \A k \in 1 .. i - 1 : Merged(p, i)[k] = p[k]
<1>1. \A k \in 1 .. Len(p) - 1 :
         (IF k < i THEN p[k]
          ELSE IF k = i THEN [base |-> p[i].base, length |-> p[i].length + p[i + 1].length]
          ELSE p[k + 1]) \in Run
  <2> SUFFICES ASSUME NEW k \in 1 .. Len(p) - 1
               PROVE  (IF k < i THEN p[k]
                       ELSE IF k = i THEN [base |-> p[i].base,
                                           length |-> p[i].length + p[i + 1].length]
                       ELSE p[k + 1]) \in Run
    OBVIOUS
  <2>1. p[k] \in Run /\ k + 1 \in 1 .. Len(p) /\ p[k + 1] \in Run
    OBVIOUS
  <2>2. [base |-> p[i].base, length |-> p[i].length + p[i + 1].length] \in Run
    <3>1. /\ p[i].base \in Nat /\ p[i].length \in Nat \ {0}
          /\ p[i + 1].length \in Nat \ {0}
      BY RunAt
    <3>2. p[i].length + p[i + 1].length \in Nat \ {0}
      BY <3>1
    <3>3. QED
      BY <3>1, <3>2 DEF Run
  <2>3. QED
    BY <2>1, <2>2
<1>2. Len(p) - 1 \in Nat
  OBVIOUS
<1>3. QED
  BY <1>1, <1>2 DEF Merged

\* merge_collapse merges one of the last three runs with the next.
LEMMA CollapseIndexInRange ==
  ASSUME NEW p \in Seq(Run), Len(p) > 1
  PROVE  /\ CollapseIndex(p) \in 1 .. Len(p) - 1
         /\ CollapseIndex(p) >= Len(p) - 2
         /\ MergeIndex(p) \in 1 .. Len(p) - 1
  BY DEF CollapseIndex, MergeIndex

-----------------------------------------------------------------------------
(* Every step of the sort is a step of the run stack.                       *)

LEMMA StepsOfTheStack ==
  ASSUME IInv, [Next]_vars
  PROVE  StackNext \/ UNCHANGED stackVars
<1>1. CASE Push
  <2>1. phase = "count" /\ work # Idle
    BY <1>1 DEF Push, PushRun, Idle
  <2>2. work.length \in 1 .. remaining
    BY <2>1 DEF IInv, CountedRunFits
  <2>3. QED
    BY <1>1, <2>2 DEF Push, StackNext
<1>2. CASE CollapseRuns
  BY <1>2 DEF CollapseRuns, StackNext
<1>3. CASE ForceRuns
  BY <1>3 DEF ForceRuns, StackNext
<1>4. CASE EndCollapse
  BY <1>4 DEF EndCollapse, StackNext
<1>5. CASE Return
  BY <1>5 DEF Return, StackNext
<1>6. CASE CountRun \/ Insert \/ KeepShorter \/ FirstEntry \/ Pair
  BY <1>6 DEF CountRun, Insert, KeepShorter, FirstEntry, Pair
<1>7. CASE GallopA \/ OneB \/ GallopB \/ OneA
  BY <1>7 DEF GallopA, OneB, GallopB, OneA
<1>8. CASE UNCHANGED vars
  BY <1>8 DEF vars, stackVars
<1>9. QED
  BY <1>1, <1>2, <1>3, <1>4, <1>5, <1>6, <1>7, <1>8 DEF Next

LEMMA CountedRunFitsStays ==
  ASSUME IInv, [Next]_vars
  PROVE  CountedRunFits'
<1> USE DEF CountedRunFits
<1> SUFFICES ASSUME phase' = "count"
             PROVE  /\ remaining' # 0
                    /\ \/ work' = Idle
                       \/ \E next \in Nat, n \in 1 .. remaining' :
                             work' = [step |-> "insert", at |-> next, length |-> n]
  OBVIOUS
<1>1. phase = "count" /\ UNCHANGED stackVars => remaining' # 0
  BY DEF IInv, stackVars
<1>2. CASE CountRun
  <2>1. PICK n \in RunLengths : \E k \in Extensions(n) :
           work' = [step |-> "insert", at |-> first + n, length |-> k]
    BY <1>2, Zenon DEF CountRun
  <2>2. PICK k \in Extensions(n) :
           work' = [step |-> "insert", at |-> first + n, length |-> k]
    BY <2>1
  <2>3. first + n \in Nat /\ k \in 1 .. remaining
    <3>1. n \in 1 .. remaining
      BY <2>1 DEF RunLengths
    <3>2. k \in n .. remaining
      BY <2>2, <3>1 DEF Extensions
    <3>3. QED
      BY <3>1, <3>2 DEF IInv, StackTypeOK
  <2>4. QED
    BY <1>1, <1>2, <2>2, <2>3 DEF CountRun, stackVars
<1>3. CASE Insert
  <2>1. phase = "count" /\ work # Idle /\ UNCHANGED stackVars
    BY <1>3 DEF Insert, Idle, stackVars
  <2>2. PICK next \in Nat, n \in 1 .. remaining :
           work = [step |-> "insert", at |-> next, length |-> n]
    BY <2>1 DEF IInv
  <2>3. work' = [step |-> "insert", at |-> next + 1, length |-> n]
    BY <1>3, <2>2 DEF Insert
  <2>4. QED
    BY <1>1, <2>1, <2>2, <2>3 DEF stackVars
<1>4. CASE EndCollapse
  BY <1>4 DEF EndCollapse, Collapsed
<1>5. CASE Push \/ CollapseRuns \/ ForceRuns \/ Return
  BY <1>5 DEF Push, PushRun, CollapseRuns, Collapse, ForceRuns, ForceCollapse,
              MergeAt, Return, StackDone
<1>6. ASSUME work.step \in {"begin", "first", "pair", "gallop_a", "one_b", "gallop_b", "one_a"},
             UNCHANGED stackVars
      PROVE  FALSE
  <2>1. phase = "count"
    BY <1>6 DEF stackVars
  <2>2. work.step \in {"idle", "insert"}
    BY <2>1 DEF IInv, Idle
  <2>3. QED
    BY <1>6, <2>2
<1>7. ~ (KeepShorter \/ FirstEntry \/ Pair \/ GallopA \/ OneB \/ GallopB \/ OneA)
  <2>1. ~KeepShorter
    BY <1>6 DEF KeepShorter
  <2>2. ~FirstEntry
    BY <1>6 DEF FirstEntry
  <2>3. ~Pair
    BY <1>6 DEF Pair
  <2>4. ~GallopA
    BY <1>6 DEF GallopA
  <2>5. ~OneB
    BY <1>6 DEF OneB
  <2>6. ~GallopB
    BY <1>6 DEF GallopB
  <2>7. ~OneA
    BY <1>6 DEF OneA
  <2>8. QED
    BY <2>1, <2>2, <2>3, <2>4, <2>5, <2>6, <2>7
<1>8. CASE UNCHANGED vars
  BY <1>1, <1>8 DEF vars, stackVars, IInv
<1>9. QED
  BY <1>2, <1>3, <1>4, <1>5, <1>7, <1>8 DEF Next

-----------------------------------------------------------------------------
(* The invariant of the stack.                                              *)

\* A run that outweighs the two that follow it is longer than the next one.
LEMMA OutweighsNext ==
  ASSUME NEW p \in Seq(Run), NEW i \in 1 .. Len(p) - 2, Outweighs(p, i)
  PROVE  p[i].length > p[i + 1].length
<1>1. i \in 1 .. Len(p) /\ i + 1 \in 1 .. Len(p) /\ i + 2 \in 1 .. Len(p)
  OBVIOUS
<1>2. /\ p[i].length \in Nat /\ p[i + 1].length \in Nat
      /\ p[i + 2].length \in Nat \ {0}
  BY <1>1, RunAt
<1>3. QED
  BY <1>2 DEF Outweighs

\* Where merge_collapse stops, the invariant holds of the whole stack.
LEMMA StopsBalanced ==
  ASSUME NEW p \in Seq(Run), ~MustCollapse(p),
         \A i \in 1 .. Len(p) - 4 : Outweighs(p, i)
  PROVE  /\ \A i \in 1 .. Len(p) - 2 : Outweighs(p, i)
         /\ \A i \in 1 .. Len(p) - 1 : p[i].length > p[i + 1].length
<1>1. \A i \in 1 .. Len(p) : p[i].length \in Nat
  BY RunAt
<1>2. ASSUME NEW i \in 1 .. Len(p) - 2 PROVE Outweighs(p, i)
  <2>1. CASE i <= Len(p) - 4
    BY <2>1
  <2>2. CASE i = Len(p) - 3
    <3>1. ~ (p[i].length <= p[i + 1].length + p[i + 2].length)
      BY <2>2 DEF MustCollapse, TooShort
    <3>2. p[i].length \in Nat /\ p[i + 1].length \in Nat /\ p[i + 2].length \in Nat
      BY <1>1
    <3>3. QED
      BY <3>1, <3>2 DEF Outweighs
  <2>3. CASE i = Len(p) - 2
    <3>1. ~ (p[i].length <= p[i + 1].length + p[i + 2].length)
      BY <2>3 DEF MustCollapse, TooShort
    <3>2. p[i].length \in Nat /\ p[i + 1].length \in Nat /\ p[i + 2].length \in Nat
      BY <1>1
    <3>3. QED
      BY <3>1, <3>2 DEF Outweighs
  <2>4. QED
    BY <2>1, <2>2, <2>3
<1>3. ASSUME NEW i \in 1 .. Len(p) - 1 PROVE p[i].length > p[i + 1].length
  <2>1. CASE i <= Len(p) - 2
    BY <2>1, <1>2, OutweighsNext
  <2>2. CASE i = Len(p) - 1
    <3>1. ~ (p[i].length <= p[i + 1].length)
      BY <2>2 DEF MustCollapse
    <3>2. p[i].length \in Nat /\ p[i + 1].length \in Nat
      BY <1>1
    <3>3. QED
      BY <3>1, <3>2
  <2>3. QED
    BY <2>1, <2>2
<1>4. QED
  BY <1>2, <1>3

\* A step of the stack keeps its part of the invariant.
LEMMA StackKeepsInvariant ==
  ASSUME StackTypeOK, CollapseInvariant, PendingInvariant, StackNext
  PROVE  (StackTypeOK /\ CollapseInvariant /\ PendingInvariant)'
<1> USE DEF StackTypeOK, CollapseInvariant, PendingInvariant, Phases
<1>1. ASSUME NEW size \in 1 .. remaining, PushRun(size)
      PROVE  (StackTypeOK /\ CollapseInvariant /\ PendingInvariant)'
  <2>1. CASE Len(pending) = MaximumPendingRuns
    BY <1>1, <2>1 DEF PushRun
  <2>2. CASE Len(pending) # MaximumPendingRuns
    <3> DEFINE r == [base |-> first, length |-> size]
    <3>1. r \in Run /\ phase = "count"
      BY <1>1 DEF Run, PushRun
    <3>2. /\ pending' = Append(pending, r)
          /\ phase' = "collapse" /\ first' \in Nat /\ remaining' \in Nat
      BY <1>1, <2>2 DEF PushRun
    <3> HIDE DEF r
    <3>3. /\ pending' \in Seq(Run) /\ Len(pending') = Len(pending) + 1
          /\ \A i \in 1 .. Len(pending) : pending'[i] = pending[i]
      BY <3>1, <3>2, AppendRun
    <3>4. \A i \in 1 .. Len(pending') - 4 : Outweighs(pending', i)
      <4> SUFFICES ASSUME NEW i \in 1 .. Len(pending') - 4 PROVE Outweighs(pending', i)
        OBVIOUS
      <4>1. Len(pending) \in Nat /\ i \in 1 .. Len(pending) - 3
        BY <3>3
      <4>2. Outweighs(pending, i)
        BY <3>1, <4>1
      <4>3. pending'[i] = pending[i] /\ pending'[i + 1] = pending[i + 1] /\ pending'[i + 2] = pending[i + 2]
        BY <3>3, <4>1
      <4> QED
        BY <4>2, <4>3 DEF Outweighs
    <3>5. QED
      BY <3>2, <3>3, <3>4
  <2>3. QED
    BY <2>1, <2>2
<1>2. CASE Collapse
  <2> DEFINE i == CollapseIndex(pending)
  <2>1. /\ phase = "collapse" /\ Len(pending) > 1
        /\ pending' = Merged(pending, i) /\ UNCHANGED <<phase, first, remaining>>
    BY <1>2 DEF Collapse, MergeAt, MustCollapse
  <2>2. i \in 1 .. Len(pending) - 1 /\ i >= Len(pending) - 2
    BY <2>1, CollapseIndexInRange
  <2> HIDE DEF i
  <2>3. /\ pending' \in Seq(Run) /\ Len(pending') = Len(pending) - 1
        /\ \A k \in 1 .. i - 1 : pending'[k] = pending[k]
    BY <2>1, <2>2, MergedRuns
  <2>4. ASSUME NEW k \in 1 .. Len(pending') - 4 PROVE Outweighs(pending', k)
    <3>1. k \in 1 .. Len(pending) - 4 /\ k + 2 <= i - 1
      BY <2>2, <2>3
    <3>2. Outweighs(pending, k)
      BY <2>1, <3>1
    <3>3. /\ pending'[k] = pending[k] /\ pending'[k + 1] = pending[k + 1]
          /\ pending'[k + 2] = pending[k + 2]
      BY <2>2, <2>3, <3>1
    <3>4. QED
      BY <3>2, <3>3 DEF Outweighs
  <2>5. QED
    BY <2>1, <2>3, <2>4
<1>3. CASE Collapsed
  <2>1. \A i \in 1 .. Len(pending) - 2 : Outweighs(pending, i)
    BY <1>3, StopsBalanced DEF Collapsed
  <2>2. \A i \in 1 .. Len(pending) - 1 : pending[i].length > pending[i + 1].length
    BY <1>3, StopsBalanced DEF Collapsed
  <2>3. QED
    BY <1>3, <2>1, <2>2 DEF Collapsed
<1>4. CASE ForceCollapse
  <2>1. MergeIndex(pending) \in 1 .. Len(pending) - 1
    BY <1>4, CollapseIndexInRange DEF ForceCollapse
  <2>2. pending' \in Seq(Run)
    BY <1>4, <2>1, MergedRuns DEF ForceCollapse, MergeAt
  <2>3. QED
    BY <1>4, <2>2 DEF ForceCollapse, MergeAt
<1>5. CASE StackDone
  BY <1>5 DEF StackDone
<1>6. QED
  BY <1>1, <1>2, <1>3, <1>4, <1>5 DEF StackNext

-----------------------------------------------------------------------------
LEMMA InitIInv == Init => IInv
<1> SUFFICES ASSUME Init PROVE IInv
  OBVIOUS
<1>1. phase = "count" /\ pending = <<>> /\ first = 0 /\ remaining \in Sizes /\ work = Idle
  BY DEF Init, StackInit
<1>2. remaining \in Nat /\ remaining # 0
  BY <1>1
<1>3. pending \in Seq(Run) /\ Len(pending) = 0
  BY <1>1
<1>4. QED
  BY <1>1, <1>2, <1>3 DEF IInv, StackTypeOK, CountedRunFits, CollapseInvariant,
                          PendingInvariant, Phases

LEMMA NextIInv == IInv /\ [Next]_vars => IInv'
<1> SUFFICES ASSUME IInv, [Next]_vars PROVE IInv'
  OBVIOUS
<1>1. CountedRunFits'
  BY CountedRunFitsStays
<1>2. CASE StackNext
  BY <1>1, <1>2, StackKeepsInvariant DEF IInv
<1>3. CASE UNCHANGED stackVars
  BY <1>1, <1>3 DEF IInv, StackTypeOK, CollapseInvariant, PendingInvariant,
                    Outweighs, stackVars
<1>4. QED
  BY <1>2, <1>3, StepsOfTheStack

LEMMA SpecIInv == Spec => []IInv
  BY InitIInv, NextIInv, PTL DEF Spec

\* Whenever merge_collapse has returned, every pending run outweighs the two
\* that follow it and is longer than the next, for arrays of any size and
\* any scores: the lengths on the stack grow like the Fibonacci numbers.
THEOREM PendingRunsOutweigh == Spec => []PendingInvariant
<1>1. IInv => PendingInvariant
  BY DEF IInv
<1>2. QED
  BY <1>1, SpecIInv, PTL

\* The sort is an implementation of the run stack: its steps merge and push
\* runs only as merge_collapse and the loop of sort() allow.
THEOREM SortImplementsStack == Spec => StackSpec
<1>1. Init => StackInit
  BY DEF Init
<1>2. IInv /\ [Next]_vars => [StackNext]_stackVars
  BY StepsOfTheStack
<1>3. QED
  BY <1>1, <1>2, SpecIInv, PTL DEF Spec, StackSpec

-----------------------------------------------------------------------------
(* The runs lie side by side.                                               *)

LEMMA PushKeepsContiguous ==
  ASSUME StackTypeOK, RunsAreContiguous, NEW size \in 1 .. remaining, PushRun(size)
  PROVE  RunsAreContiguous'
<1> USE DEF RunsAreContiguous, StackTypeOK
<1>1. CASE Len(pending) = MaximumPendingRuns
  BY <1>1 DEF PushRun
<1>2. CASE Len(pending) # MaximumPendingRuns
  <2> DEFINE r == [base |-> first, length |-> size]
             n == Len(pending)
  <2>1. r \in Run /\ r.base = first /\ r.length = size /\ n \in Nat
    BY DEF Run
  <2>2. pending' = Append(pending, r) /\ first' = first + size
    BY <1>2 DEF PushRun
  <2> HIDE DEF r
  <2>3. /\ pending' \in Seq(Run) /\ Len(pending') = n + 1
        /\ \A i \in 1 .. n : pending'[i] = pending[i]
        /\ pending'[n + 1] = r
    BY <2>1, <2>2, AppendRun
  <2>4. ASSUME NEW i \in 1 .. n
        PROVE  pending'[i + 1].base = pending'[i].base + pending'[i].length
    <3>1. CASE i = n
      <4>1. pending # <<>>
        BY <3>1, <2>1
      <4>2. QED
        BY <3>1, <4>1, <2>1, <2>3
    <3>2. CASE i # n
      <4>1. i \in 1 .. n - 1 /\ i + 1 \in 1 .. n
        BY <3>2, <2>1
      <4>2. QED
        BY <4>1, <2>3
    <3>3. QED
      BY <3>1, <3>2
  <2>5. pending'[1].base = 0
    <3>1. CASE n = 0
      <4>1. pending = <<>>
        BY <3>1
      <4>2. first = 0
        BY <4>1
      <4>3. QED
        BY <3>1, <4>2, <2>1, <2>3
    <3>2. CASE n # 0
      <4>1. pending # <<>> /\ 1 \in 1 .. n
        BY <3>2, <2>1
      <4>2. QED
        BY <4>1, <2>3
    <3>3. QED
      BY <3>1, <3>2
  <2>6. QED
    BY <2>1, <2>2, <2>3, <2>4, <2>5
<1>3. QED
  BY <1>1, <1>2

LEMMA MergeKeepsContiguous ==
  ASSUME StackTypeOK, RunsAreContiguous, NEW m \in 1 .. Len(pending) - 1, MergeAt(m)
  PROVE  RunsAreContiguous'
<1> USE DEF RunsAreContiguous, StackTypeOK
<1> DEFINE n == Len(pending)
           Both == [base |-> pending[m].base,
                      length |-> pending[m].length + pending[m + 1].length]
<1>1. /\ \A i \in 1 .. n : pending[i].base \in Nat /\ pending[i].length \in Nat
      /\ n \in Nat
  BY RunAt
<1>2. /\ pending' \in Seq(Run) /\ Len(pending') = n - 1 /\ first' = first
      /\ \A k \in 1 .. n - 1 :
            pending'[k] = IF k < m THEN pending[k]
                          ELSE IF k = m THEN Both ELSE pending[k + 1]
  BY MergedRuns DEF MergeAt, Merged
<1>3. Both.base = pending[m].base /\ Both.length = pending[m].length + pending[m + 1].length
  OBVIOUS
<1> HIDE DEF Both
<1>4. \A i \in 1 .. n - 1 : pending[i + 1].base = pending[i].base + pending[i].length
  OBVIOUS
<1>5. ASSUME NEW i \in 1 .. n - 2
      PROVE  pending'[i + 1].base = pending'[i].base + pending'[i].length
  <2>1. i \in 1 .. n - 1 /\ i + 1 \in 1 .. n - 1 /\ i + 2 \in 1 .. n
    BY <1>1
  <2>2. CASE i + 1 < m
    BY <2>1, <2>2, <1>1, <1>2, <1>4
  <2>3. CASE i + 1 = m
    BY <2>1, <2>3, <1>1, <1>2, <1>3, <1>4
  <2>4. CASE i = m
    <3>1. pending'[i] = Both /\ pending'[i + 1] = pending[i + 2]
      BY <2>1, <2>4, <1>2
    <3>2. /\ pending[i + 2].base = pending[i + 1].base + pending[i + 1].length
          /\ pending[i + 1].base = pending[i].base + pending[i].length
      BY <2>1, <1>4
    <3>3. QED
      BY <2>1, <2>4, <3>1, <3>2, <1>1, <1>3
  <2>5. CASE i > m
    <3>1. pending'[i] = pending[i + 1] /\ pending'[i + 1] = pending[i + 2]
      BY <2>1, <2>5, <1>2
    <3>2. pending[i + 2].base = pending[i + 1].base + pending[i + 1].length
      BY <2>1, <1>4
    <3>3. QED
      BY <3>1, <3>2
  <2>6. QED
    BY <2>1, <2>2, <2>3, <2>4, <2>5
<1>6. pending'[1].base = 0
  <2>1. 1 \in 1 .. n - 1 /\ pending # <<>>
    BY <1>1
  <2>2. pending[1].base = 0
    BY <2>1
  <2>3. QED
    BY <2>1, <2>2, <1>2, <1>3
<1>7. pending'[n - 1].base + pending'[n - 1].length = first
  <2>1. n - 1 \in 1 .. n - 1 /\ n \in 1 .. n /\ pending # <<>>
    BY <1>1
  <2>2. pending[n].base + pending[n].length = first
    BY <2>1
  <2>3. CASE m = n - 1
    <3>1. pending'[n - 1] = Both
      BY <2>1, <2>3, <1>2
    <3>2. pending[n].base = pending[n - 1].base + pending[n - 1].length
      BY <2>1, <1>4
    <3>3. QED
      BY <2>1, <2>2, <2>3, <3>1, <3>2, <1>1, <1>3
  <2>4. CASE m # n - 1
    <3>1. pending'[n - 1] = pending[n]
      BY <2>1, <2>4, <1>2
    <3>2. QED
      BY <2>2, <3>1
  <2>5. QED
    BY <2>3, <2>4
<1>8. pending' # <<>>
  BY <1>1, <1>2
<1>9. QED
  BY <1>1, <1>2, <1>5, <1>6, <1>7, <1>8

LEMMA NextKeepsContiguous ==
  ASSUME IInv, RunsAreContiguous, [Next]_vars
  PROVE  RunsAreContiguous'
<1> USE DEF IInv
<1>1. ASSUME NEW size \in 1 .. remaining, PushRun(size) PROVE RunsAreContiguous'
  BY <1>1, PushKeepsContiguous
<1>2. CASE Collapse
  <2>1. CollapseIndex(pending) \in 1 .. Len(pending) - 1
    BY <1>2, CollapseIndexInRange DEF Collapse, MustCollapse, StackTypeOK
  <2>2. QED
    BY <1>2, <2>1, MergeKeepsContiguous DEF Collapse
<1>3. CASE ForceCollapse
  <2>1. MergeIndex(pending) \in 1 .. Len(pending) - 1
    BY <1>3, CollapseIndexInRange DEF ForceCollapse, StackTypeOK
  <2>2. QED
    BY <1>3, <2>1, MergeKeepsContiguous DEF ForceCollapse
<1>4. CASE Collapsed \/ StackDone
  BY <1>4 DEF Collapsed, StackDone, RunsAreContiguous
<1>5. CASE UNCHANGED stackVars
  BY <1>5 DEF stackVars, RunsAreContiguous
<1>6. QED
  BY <1>1, <1>2, <1>3, <1>4, <1>5, StepsOfTheStack DEF StackNext

\* The pending runs always cover what was counted so far, side by side: the
\* two runs that merge_at merges are neighbours in the array.
THEOREM PendingRunsAdjoin == Spec => []RunsAreContiguous
<1>1. Init => RunsAreContiguous
  BY DEF Init, StackInit, RunsAreContiguous
<1>2. IInv /\ RunsAreContiguous /\ [Next]_vars => RunsAreContiguous'
  BY NextKeepsContiguous
<1>3. QED
  BY <1>1, <1>2, SpecIInv, PTL DEF Spec

HIDE RunStackAssumption DEF RunStackAssumption

-----------------------------------------------------------------------------
(* TimSort: the entries of a merge.                                          *)

Sides == {"a", "b"}
MergeSteps == {"first", "pair", "gallop_a", "one_b", "gallop_b", "one_a"}
Merges == [step : MergeSteps, low : BOOLEAN, start : [Sides -> Int], left : [Sides -> Int],
           to : Int, wins : [Sides -> Int], gallop : Int]

\* What is left of both sides fills the places from Bottom to below Top.
Bottom(w) == IF w.low THEN w.to ELSE w.start.a
Top(w) == IF w.low THEN w.start.b + w.left.b ELSE w.to

\* The side that is not kept lies at the far end of those places, and the kept
\* one in the temporary array.
Lies(w, size, half) ==
  /\ w \in Merges
  /\ w.left.a >= 0 /\ w.left.b >= 0 /\ Bottom(w) >= 0 /\ Top(w) <= size
  /\ IF w.low THEN w.start.b = w.to + w.left.a ELSE w.to = w.start.a + w.left.a + w.left.b
  /\ w.start[Kept(w)] >= 0 /\ w.start[Kept(w)] + w.left[Kept(w)] <= half

Places(w, side) == w.start[side] .. w.start[side] + w.left[side] - 1

\* The entries a merge has not lost: outside the gap, or left of a side.
Held(w, r, size) ==
  {r[j] : j \in {k \in 0 .. size - 1 : k < Bottom(w) \/ k >= Top(w)}}
    \cup {Store(w, r, "a")[j] : j \in Places(w, "a")}
    \cup {Store(w, r, "b")[j] : j \in Places(w, "b")}

Rest(w, side, n) ==
  [w EXCEPT !.left[side] = @ - n,
            !.start[side] = IF Low(w) THEN @ + n ELSE @,
            !.to = IF Low(w) THEN @ + n ELSE @ - n]

Moved(w, side, n) ==
  Copied(ranking, IF Low(w) THEN w.to ELSE w.to - n, Store(w, ranking, side),
         IF Low(w) THEN w.start[side] ELSE w.start[side] + w.left[side] - n, n)

LEMMA TakeIs ==
  ASSUME NEW w, NEW side, NEW n, Take(w, side, n)
  PROVE  IF MergeEnds(Rest(w, side, n))
         THEN ranking' = Finished(Rest(w, side, n), Moved(w, side, n)) /\ work' = Idle
         ELSE ranking' = Moved(w, side, n) /\ work' = Rest(w, side, n)
BY DEF Take, Rest, Moved

LEMMA RestOf ==
  ASSUME NEW w \in Merges, NEW side \in Sides, NEW n \in Int
  PROVE  /\ Rest(w, side, n) \in Merges
         /\ Rest(w, side, n).low = w.low /\ Rest(w, side, n).step = w.step
         /\ Rest(w, side, n).left = [w.left EXCEPT ![side] = @ - n]
         /\ Rest(w, side, n).start = [w.start EXCEPT ![side] = IF w.low THEN @ + n ELSE @]
         /\ Rest(w, side, n).to = IF w.low THEN w.to + n ELSE w.to - n
<1> DEFINE rest == Rest(w, side, n)
           left == [w.left EXCEPT ![side] = @ - n]
           start == [w.start EXCEPT ![side] = IF w.low THEN @ + n ELSE @]
           to == IF w.low THEN w.to + n ELSE w.to - n
<1>1. w.left \in [Sides -> Int] /\ w.start \in [Sides -> Int] /\ w.to \in Int /\ w.low \in BOOLEAN
  BY DEF Merges
<1>2. left \in [Sides -> Int] /\ start \in [Sides -> Int] /\ to \in Int
  BY <1>1
<1>3. rest = [w EXCEPT !.left = left, !.start = start, !.to = to]
  BY DEF Rest, Low, Merges
<1> HIDE DEF left, start, to, rest
<1>4. rest \in Merges /\ rest.low = w.low /\ rest.step = w.step
      /\ rest.left = left /\ rest.start = start /\ rest.to = to
  BY <1>2, <1>3 DEF Merges
<1>5. QED
  BY <1>4 DEF rest, left, start, to

\* merge_low, in numbers.
LEMMA LowMerge ==
  ASSUME NEW w, NEW size \in Nat, NEW half \in Nat, w.low, NEW r
  PROVE  /\ Lies(w, size, half) <=>
              /\ w \in Merges /\ w.left.a >= 0 /\ w.left.b >= 0
              /\ w.to >= 0 /\ w.start.b = w.to + w.left.a /\ w.start.b + w.left.b <= size
              /\ w.start.a >= 0 /\ w.start.a + w.left.a <= half
         /\ Kept(w) = "a" /\ Other(w) = "b"
         /\ Bottom(w) = w.to /\ Top(w) = w.start.b + w.left.b
         /\ Store(w, r, "a") = temporary /\ Store(w, r, "b") = r
         /\ Places(w, "a") = w.start.a .. w.start.a + w.left.a - 1
         /\ Places(w, "b") = w.start.b .. w.start.b + w.left.b - 1
BY DEF Lies, Kept, Other, Low, Bottom, Top, Store, Places

\* merge_high, in numbers.
LEMMA HighMerge ==
  ASSUME NEW w, NEW size \in Nat, NEW half \in Nat, ~w.low, NEW r
  PROVE  /\ Lies(w, size, half) <=>
              /\ w \in Merges /\ w.left.a >= 0 /\ w.left.b >= 0
              /\ w.start.a >= 0 /\ w.to = w.start.a + w.left.a + w.left.b /\ w.to <= size
              /\ w.start.b >= 0 /\ w.start.b + w.left.b <= half
         /\ Kept(w) = "b" /\ Other(w) = "a"
         /\ Bottom(w) = w.start.a /\ Top(w) = w.to
         /\ Store(w, r, "a") = r /\ Store(w, r, "b") = temporary
         /\ Places(w, "a") = w.start.a .. w.start.a + w.left.a - 1
         /\ Places(w, "b") = w.start.b .. w.start.b + w.left.b - 1
BY DEF Lies, Kept, Other, Low, Bottom, Top, Store, Places

LEMMA MergeNumbers ==
  ASSUME NEW w \in Merges
  PROVE  /\ w.low \in BOOLEAN /\ w.to \in Int
         /\ w.left.a \in Int /\ w.left.b \in Int /\ w.start.a \in Int /\ w.start.b \in Int
         /\ w.left \in [Sides -> Int] /\ w.start \in [Sides -> Int]
BY DEF Merges, Sides

\* What an element loop makes of the array r.
IsCopied(c, size, E, r, to, source, from, n) ==
  /\ c \in [0 .. size - 1 -> E]
  /\ \A j \in 0 .. size - 1 : j < to \/ j >= to + n => c[j] = r[j]
  /\ \A k \in from .. from + n - 1 : to + k - from \in 0 .. size - 1 => c[to + k - from] = source[k]

LEMMA CopiedEntries ==
  ASSUME NEW size \in Nat, NEW E, NEW r \in [0 .. size - 1 -> E], NEW source,
         NEW to \in Int, NEW from \in Int, NEW n \in Int, 0 <= n,
         \A k \in from .. from + n - 1 : source[k] \in E
  PROVE  IsCopied(Copied(r, to, source, from, n), size, E, r, to, source, from, n)
<1> DEFINE c == Copied(r, to, source, from, n)
<1>1. \A j \in 0 .. size - 1 : c[j] = IF j \in to .. to + n - 1 THEN source[from + j - to] ELSE r[j]
  BY DEF Copied
<1>2. c = [j \in 0 .. size - 1 |-> c[j]]
  BY DEF Copied
<1> HIDE DEF c
<1>3. ASSUME NEW j \in 0 .. size - 1 PROVE c[j] \in E
  <2>1. CASE j \in to .. to + n - 1
    <3>1. from + j - to \in from .. from + n - 1
      BY <2>1
    <3>2. QED
      BY <3>1, <2>1, <1>1
  <2>2. CASE j \notin to .. to + n - 1
    BY <2>2, <1>1
  <2>3. QED
    BY <2>1, <2>2
<1>4. c \in [0 .. size - 1 -> E]
  BY <1>2, <1>3
<1>5. ASSUME NEW j \in 0 .. size - 1, j < to \/ j >= to + n PROVE c[j] = r[j]
  <2>1. j \notin to .. to + n - 1
    BY <1>5
  <2>2. QED
    BY <2>1, <1>1
<1>6. ASSUME NEW k \in from .. from + n - 1, to + k - from \in 0 .. size - 1
      PROVE  c[to + k - from] = source[k]
  <2>1. to + k - from \in to .. to + n - 1 /\ from + (to + k - from) - to = k
    OBVIOUS
  <2>2. QED
    BY <2>1, <1>1, <1>6
<1>7. QED
  BY <1>4, <1>5, <1>6 DEF c, IsCopied

\* Where the sides are when n entries of one are taken.
LEMMA RestNumbers ==
  ASSUME NEW w \in Merges, NEW n \in Int
  PROVE  /\ Rest(w, "a", n) \in Merges /\ Rest(w, "b", n) \in Merges
         /\ Rest(w, "a", n).low = w.low /\ Rest(w, "b", n).low = w.low
         /\ Rest(w, "a", n).step = w.step /\ Rest(w, "b", n).step = w.step
         /\ Rest(w, "a", n).left.a = w.left.a - n /\ Rest(w, "a", n).left.b = w.left.b
         /\ Rest(w, "b", n).left.a = w.left.a /\ Rest(w, "b", n).left.b = w.left.b - n
         /\ Rest(w, "a", n).start.a = (IF w.low THEN w.start.a + n ELSE w.start.a)
         /\ Rest(w, "a", n).start.b = w.start.b
         /\ Rest(w, "b", n).start.b = (IF w.low THEN w.start.b + n ELSE w.start.b)
         /\ Rest(w, "b", n).start.a = w.start.a
         /\ Rest(w, "a", n).to = (IF w.low THEN w.to + n ELSE w.to - n)
         /\ Rest(w, "b", n).to = (IF w.low THEN w.to + n ELSE w.to - n)
<1>1. "a" \in Sides /\ "b" \in Sides
  BY DEF Sides
<1>2. /\ w.left \in [Sides -> Int] /\ w.start \in [Sides -> Int]
  BY MergeNumbers
<1>3. /\ Rest(w, "a", n) \in Merges /\ Rest(w, "a", n).low = w.low /\ Rest(w, "a", n).step = w.step
      /\ Rest(w, "a", n).left = [w.left EXCEPT !["a"] = @ - n]
      /\ Rest(w, "a", n).start = [w.start EXCEPT !["a"] = IF w.low THEN @ + n ELSE @]
      /\ Rest(w, "a", n).to = (IF w.low THEN w.to + n ELSE w.to - n)
  BY <1>1, RestOf
<1>4. /\ Rest(w, "b", n) \in Merges /\ Rest(w, "b", n).low = w.low /\ Rest(w, "b", n).step = w.step
      /\ Rest(w, "b", n).left = [w.left EXCEPT !["b"] = @ - n]
      /\ Rest(w, "b", n).start = [w.start EXCEPT !["b"] = IF w.low THEN @ + n ELSE @]
      /\ Rest(w, "b", n).to = (IF w.low THEN w.to + n ELSE w.to - n)
  BY <1>1, RestOf
<1>5. QED
  BY <1>1, <1>2, <1>3, <1>4

\* The entries a merge has not lost: outside the gap from `bottom` to `top`, in
\* the temporary array from `kept` on, and in the array from `other` on.
HeldIn(r, size, bottom, top, kept, m, other, n) ==
  {r[j] : j \in {k \in 0 .. size - 1 : k < bottom \/ k >= top}}
    \cup {temporary[j] : j \in kept .. kept + m - 1}
    \cup {r[j] : j \in other .. other + n - 1}

\* merge_low takes n entries of the left run.
LEMMA LowTakesKept ==
  ASSUME NEW size \in Nat, NEW half \in Nat, NEW E,
         NEW r \in [0 .. size - 1 -> E], temporary \in [0 .. half - 1 -> E],
         NEW to \in Int, NEW a \in Int, NEW b \in Int, NEW la \in Int, NEW lb \in Int, NEW n \in Int,
         0 <= to, b = to + la, b + lb <= size, 0 <= a, a + la <= half, 0 <= la, 0 <= lb, 0 <= n, n <= la
  PROVE  /\ Copied(r, to, temporary, a, n) \in [0 .. size - 1 -> E]
         /\ HeldIn(r, size, to, b + lb, a, la, b, lb) \subseteq
              HeldIn(Copied(r, to, temporary, a, n), size, to + n, b + lb, a + n, la - n, b, lb)
<1> DEFINE source == temporary
           target == to
           from == a
           c == Copied(r, target, source, from, n)
<1>1. ASSUME NEW k \in from .. from + n - 1 PROVE source[k] \in E
  <2>1. k \in 0 .. half - 1
    OBVIOUS
  <2>2. QED
    BY <2>1
<1>2. target \in Int /\ from \in Int
  OBVIOUS
<1>3. /\ c \in [0 .. size - 1 -> E]
      /\ \A j \in 0 .. size - 1 : j < target \/ j >= target + n => c[j] = r[j]
      /\ \A k \in from .. from + n - 1 : target + k - from \in 0 .. size - 1 => c[target + k - from] = source[k]
  <2> HIDE DEF source, target, from
  <2>1. IsCopied(c, size, E, r, target, source, from, n)
    BY <1>1, <1>2, CopiedEntries
  <2>2. QED
    BY <2>1 DEF IsCopied
<1> HIDE DEF c
<1>4. ASSUME NEW k \in from .. from + n - 1
      PROVE  \E j \in 0 .. size - 1 : (j < to + n \/ j >= b + lb) /\ c[j] = source[k]
  <2>1. target + k - from \in 0 .. size - 1 /\ (target + k - from < to + n \/ target + k - from >= b + lb)
    OBVIOUS
  <2>2. c[target + k - from] = source[k]
    BY <1>3, <2>1
  <2> HIDE DEF source, target, from
  <2>3. QED
    BY <2>1, <2>2
<1>5. ASSUME NEW j \in 0 .. size - 1, j < to \/ j >= b + lb
      PROVE  (j < to + n \/ j >= b + lb) /\ c[j] = r[j]
  <2>1. (j < target \/ j >= target + n) /\ (j < to + n \/ j >= b + lb)
    BY <1>5
  <2>2. QED
    BY <2>1, <1>3
<1>6. ASSUME NEW k \in a .. a + la - 1
      PROVE  \/ k \in a + n .. a + n + (la - n) - 1 /\ temporary[k] = temporary[k]
             \/ \E j \in 0 .. size - 1 : (j < to + n \/ j >= b + lb) /\ c[j] = temporary[k]
  <2>1. CASE k \in from .. from + n - 1
    BY <2>1, <1>4
  <2>2. CASE k \notin from .. from + n - 1
    <3>1. k \in a + n .. a + n + (la - n) - 1
      BY <2>2
    <3>2. QED
      BY <3>1
  <2>3. QED
    BY <2>1, <2>2
<1>7. ASSUME NEW k \in b .. b + lb - 1
      PROVE  \/ k \in b .. b + lb - 1 /\ c[k] = r[k]
             \/ \E j \in 0 .. size - 1 : (j < to + n \/ j >= b + lb) /\ c[j] = r[k]
  <2>1. k \in b .. b + lb - 1
    OBVIOUS
  <2>2. k \in 0 .. size - 1 /\ (k < target \/ k >= target + n)
    OBVIOUS
  <2>3. QED
    BY <2>1, <2>2, <1>3
<1> HIDE DEF source, target, from
<1>8. ASSUME NEW x \in HeldIn(r, size, to, b + lb, a, la, b, lb)
      PROVE  x \in HeldIn(c, size, to + n, b + lb, a + n, la - n, b, lb)
  <2>1. \/ \E j \in 0 .. size - 1 : (j < to \/ j >= b + lb) /\ x = r[j]
        \/ \E k \in a .. a + la - 1 : x = temporary[k]
        \/ \E k \in b .. b + lb - 1 : x = r[k]
    BY <1>8 DEF HeldIn
  <2>2. CASE \E j \in 0 .. size - 1 : (j < to \/ j >= b + lb) /\ x = r[j]
    BY <2>2, <1>5 DEF HeldIn
  <2>3. CASE \E k \in a .. a + la - 1 : x = temporary[k]
    BY <2>3, <1>6 DEF HeldIn
  <2>4. CASE \E k \in b .. b + lb - 1 : x = r[k]
    BY <2>4, <1>7 DEF HeldIn
  <2>5. QED
    BY <2>1, <2>2, <2>3, <2>4
<1>9. QED
  BY <1>3, <1>8 DEF c, source, target, from

\* merge_low takes n entries of the right run.
LEMMA LowTakesOther ==
  ASSUME NEW size \in Nat, NEW half \in Nat, NEW E,
         NEW r \in [0 .. size - 1 -> E], temporary \in [0 .. half - 1 -> E],
         NEW to \in Int, NEW a \in Int, NEW b \in Int, NEW la \in Int, NEW lb \in Int, NEW n \in Int,
         0 <= to, b = to + la, b + lb <= size, 0 <= a, a + la <= half, 0 <= la, 0 <= lb, 0 <= n, n <= lb
  PROVE  /\ Copied(r, to, r, b, n) \in [0 .. size - 1 -> E]
         /\ HeldIn(r, size, to, b + lb, a, la, b, lb) \subseteq
              HeldIn(Copied(r, to, r, b, n), size, to + n, b + lb, a, la, b + n, lb - n)
<1> DEFINE source == r
           target == to
           from == b
           c == Copied(r, target, source, from, n)
<1>1. ASSUME NEW k \in from .. from + n - 1 PROVE source[k] \in E
  <2>1. k \in 0 .. size - 1
    OBVIOUS
  <2>2. QED
    BY <2>1
<1>2. target \in Int /\ from \in Int
  OBVIOUS
<1>3. /\ c \in [0 .. size - 1 -> E]
      /\ \A j \in 0 .. size - 1 : j < target \/ j >= target + n => c[j] = r[j]
      /\ \A k \in from .. from + n - 1 : target + k - from \in 0 .. size - 1 => c[target + k - from] = source[k]
  <2> HIDE DEF source, target, from
  <2>1. IsCopied(c, size, E, r, target, source, from, n)
    BY <1>1, <1>2, CopiedEntries
  <2>2. QED
    BY <2>1 DEF IsCopied
<1> HIDE DEF c
<1>4. ASSUME NEW k \in from .. from + n - 1
      PROVE  \E j \in 0 .. size - 1 : (j < to + n \/ j >= b + lb) /\ c[j] = source[k]
  <2>1. target + k - from \in 0 .. size - 1 /\ (target + k - from < to + n \/ target + k - from >= b + lb)
    OBVIOUS
  <2>2. c[target + k - from] = source[k]
    BY <1>3, <2>1
  <2> HIDE DEF source, target, from
  <2>3. QED
    BY <2>1, <2>2
<1>5. ASSUME NEW j \in 0 .. size - 1, j < to \/ j >= b + lb
      PROVE  (j < to + n \/ j >= b + lb) /\ c[j] = r[j]
  <2>1. (j < target \/ j >= target + n) /\ (j < to + n \/ j >= b + lb)
    BY <1>5
  <2>2. QED
    BY <2>1, <1>3
<1>6. ASSUME NEW k \in a .. a + la - 1
      PROVE  \/ k \in a .. a + la - 1 /\ temporary[k] = temporary[k]
             \/ \E j \in 0 .. size - 1 : (j < to + n \/ j >= b + lb) /\ c[j] = temporary[k]
  <2>1. k \in a .. a + la - 1
    OBVIOUS
  <2>2. QED
    BY <2>1
<1>7. ASSUME NEW k \in b .. b + lb - 1
      PROVE  \/ k \in b + n .. b + n + (lb - n) - 1 /\ c[k] = r[k]
             \/ \E j \in 0 .. size - 1 : (j < to + n \/ j >= b + lb) /\ c[j] = r[k]
  <2>1. CASE k \in from .. from + n - 1
    BY <2>1, <1>4
  <2>2. CASE k \notin from .. from + n - 1
    <3>1. k \in b + n .. b + n + (lb - n) - 1
      BY <2>2
    <3>2. k \in 0 .. size - 1 /\ (k < target \/ k >= target + n)
      BY <2>2
    <3>3. QED
      BY <3>1, <3>2, <1>3
  <2>3. QED
    BY <2>1, <2>2
<1> HIDE DEF source, target, from
<1>8. ASSUME NEW x \in HeldIn(r, size, to, b + lb, a, la, b, lb)
      PROVE  x \in HeldIn(c, size, to + n, b + lb, a, la, b + n, lb - n)
  <2>1. \/ \E j \in 0 .. size - 1 : (j < to \/ j >= b + lb) /\ x = r[j]
        \/ \E k \in a .. a + la - 1 : x = temporary[k]
        \/ \E k \in b .. b + lb - 1 : x = r[k]
    BY <1>8 DEF HeldIn
  <2>2. CASE \E j \in 0 .. size - 1 : (j < to \/ j >= b + lb) /\ x = r[j]
    BY <2>2, <1>5 DEF HeldIn
  <2>3. CASE \E k \in a .. a + la - 1 : x = temporary[k]
    BY <2>3, <1>6 DEF HeldIn
  <2>4. CASE \E k \in b .. b + lb - 1 : x = r[k]
    BY <2>4, <1>7 DEF HeldIn
  <2>5. QED
    BY <2>1, <2>2, <2>3, <2>4
<1>9. QED
  BY <1>3, <1>8 DEF c, source, target, from

\* merge_high takes n entries of the left run.
LEMMA HighTakesOther ==
  ASSUME NEW size \in Nat, NEW half \in Nat, NEW E,
         NEW r \in [0 .. size - 1 -> E], temporary \in [0 .. half - 1 -> E],
         NEW to \in Int, NEW a \in Int, NEW b \in Int, NEW la \in Int, NEW lb \in Int, NEW n \in Int,
         0 <= a, to = a + la + lb, to <= size, 0 <= b, b + lb <= half, 0 <= la, 0 <= lb, 0 <= n, n <= la
  PROVE  /\ Copied(r, to - n, r, a + la - n, n) \in [0 .. size - 1 -> E]
         /\ HeldIn(r, size, a, to, b, lb, a, la) \subseteq
              HeldIn(Copied(r, to - n, r, a + la - n, n), size, a, to - n, b, lb, a, la - n)
<1> DEFINE source == r
           target == to - n
           from == a + la - n
           c == Copied(r, target, source, from, n)
<1>1. ASSUME NEW k \in from .. from + n - 1 PROVE source[k] \in E
  <2>1. k \in 0 .. size - 1
    OBVIOUS
  <2>2. QED
    BY <2>1
<1>2. target \in Int /\ from \in Int
  OBVIOUS
<1>3. /\ c \in [0 .. size - 1 -> E]
      /\ \A j \in 0 .. size - 1 : j < target \/ j >= target + n => c[j] = r[j]
      /\ \A k \in from .. from + n - 1 : target + k - from \in 0 .. size - 1 => c[target + k - from] = source[k]
  <2> HIDE DEF source, target, from
  <2>1. IsCopied(c, size, E, r, target, source, from, n)
    BY <1>1, <1>2, CopiedEntries
  <2>2. QED
    BY <2>1 DEF IsCopied
<1> HIDE DEF c
<1>4. ASSUME NEW k \in from .. from + n - 1
      PROVE  \E j \in 0 .. size - 1 : (j < a \/ j >= to - n) /\ c[j] = source[k]
  <2>1. target + k - from \in 0 .. size - 1 /\ (target + k - from < a \/ target + k - from >= to - n)
    OBVIOUS
  <2>2. c[target + k - from] = source[k]
    BY <1>3, <2>1
  <2> HIDE DEF source, target, from
  <2>3. QED
    BY <2>1, <2>2
<1>5. ASSUME NEW j \in 0 .. size - 1, j < a \/ j >= to
      PROVE  (j < a \/ j >= to - n) /\ c[j] = r[j]
  <2>1. (j < target \/ j >= target + n) /\ (j < a \/ j >= to - n)
    BY <1>5
  <2>2. QED
    BY <2>1, <1>3
<1>6. ASSUME NEW k \in b .. b + lb - 1
      PROVE  \/ k \in b .. b + lb - 1 /\ temporary[k] = temporary[k]
             \/ \E j \in 0 .. size - 1 : (j < a \/ j >= to - n) /\ c[j] = temporary[k]
  <2>1. k \in b .. b + lb - 1
    OBVIOUS
  <2>2. QED
    BY <2>1
<1>7. ASSUME NEW k \in a .. a + la - 1
      PROVE  \/ k \in a .. a + (la - n) - 1 /\ c[k] = r[k]
             \/ \E j \in 0 .. size - 1 : (j < a \/ j >= to - n) /\ c[j] = r[k]
  <2>1. CASE k \in from .. from + n - 1
    BY <2>1, <1>4
  <2>2. CASE k \notin from .. from + n - 1
    <3>1. k \in a .. a + (la - n) - 1
      BY <2>2
    <3>2. k \in 0 .. size - 1 /\ (k < target \/ k >= target + n)
      BY <2>2
    <3>3. QED
      BY <3>1, <3>2, <1>3
  <2>3. QED
    BY <2>1, <2>2
<1> HIDE DEF source, target, from
<1>8. ASSUME NEW x \in HeldIn(r, size, a, to, b, lb, a, la)
      PROVE  x \in HeldIn(c, size, a, to - n, b, lb, a, la - n)
  <2>1. \/ \E j \in 0 .. size - 1 : (j < a \/ j >= to) /\ x = r[j]
        \/ \E k \in b .. b + lb - 1 : x = temporary[k]
        \/ \E k \in a .. a + la - 1 : x = r[k]
    BY <1>8 DEF HeldIn
  <2>2. CASE \E j \in 0 .. size - 1 : (j < a \/ j >= to) /\ x = r[j]
    BY <2>2, <1>5 DEF HeldIn
  <2>3. CASE \E k \in b .. b + lb - 1 : x = temporary[k]
    BY <2>3, <1>6 DEF HeldIn
  <2>4. CASE \E k \in a .. a + la - 1 : x = r[k]
    BY <2>4, <1>7 DEF HeldIn
  <2>5. QED
    BY <2>1, <2>2, <2>3, <2>4
<1>9. QED
  BY <1>3, <1>8 DEF c, source, target, from

\* merge_high takes n entries of the right run.
LEMMA HighTakesKept ==
  ASSUME NEW size \in Nat, NEW half \in Nat, NEW E,
         NEW r \in [0 .. size - 1 -> E], temporary \in [0 .. half - 1 -> E],
         NEW to \in Int, NEW a \in Int, NEW b \in Int, NEW la \in Int, NEW lb \in Int, NEW n \in Int,
         0 <= a, to = a + la + lb, to <= size, 0 <= b, b + lb <= half, 0 <= la, 0 <= lb, 0 <= n, n <= lb
  PROVE  /\ Copied(r, to - n, temporary, b + lb - n, n) \in [0 .. size - 1 -> E]
         /\ HeldIn(r, size, a, to, b, lb, a, la) \subseteq
              HeldIn(Copied(r, to - n, temporary, b + lb - n, n), size, a, to - n, b, lb - n, a, la)
<1> DEFINE source == temporary
           target == to - n
           from == b + lb - n
           c == Copied(r, target, source, from, n)
<1>1. ASSUME NEW k \in from .. from + n - 1 PROVE source[k] \in E
  <2>1. k \in 0 .. half - 1
    OBVIOUS
  <2>2. QED
    BY <2>1
<1>2. target \in Int /\ from \in Int
  OBVIOUS
<1>3. /\ c \in [0 .. size - 1 -> E]
      /\ \A j \in 0 .. size - 1 : j < target \/ j >= target + n => c[j] = r[j]
      /\ \A k \in from .. from + n - 1 : target + k - from \in 0 .. size - 1 => c[target + k - from] = source[k]
  <2> HIDE DEF source, target, from
  <2>1. IsCopied(c, size, E, r, target, source, from, n)
    BY <1>1, <1>2, CopiedEntries
  <2>2. QED
    BY <2>1 DEF IsCopied
<1> HIDE DEF c
<1>4. ASSUME NEW k \in from .. from + n - 1
      PROVE  \E j \in 0 .. size - 1 : (j < a \/ j >= to - n) /\ c[j] = source[k]
  <2>1. target + k - from \in 0 .. size - 1 /\ (target + k - from < a \/ target + k - from >= to - n)
    OBVIOUS
  <2>2. c[target + k - from] = source[k]
    BY <1>3, <2>1
  <2> HIDE DEF source, target, from
  <2>3. QED
    BY <2>1, <2>2
<1>5. ASSUME NEW j \in 0 .. size - 1, j < a \/ j >= to
      PROVE  (j < a \/ j >= to - n) /\ c[j] = r[j]
  <2>1. (j < target \/ j >= target + n) /\ (j < a \/ j >= to - n)
    BY <1>5
  <2>2. QED
    BY <2>1, <1>3
<1>6. ASSUME NEW k \in b .. b + lb - 1
      PROVE  \/ k \in b .. b + (lb - n) - 1 /\ temporary[k] = temporary[k]
             \/ \E j \in 0 .. size - 1 : (j < a \/ j >= to - n) /\ c[j] = temporary[k]
  <2>1. CASE k \in from .. from + n - 1
    BY <2>1, <1>4
  <2>2. CASE k \notin from .. from + n - 1
    <3>1. k \in b .. b + (lb - n) - 1
      BY <2>2
    <3>2. QED
      BY <3>1
  <2>3. QED
    BY <2>1, <2>2
<1>7. ASSUME NEW k \in a .. a + la - 1
      PROVE  \/ k \in a .. a + la - 1 /\ c[k] = r[k]
             \/ \E j \in 0 .. size - 1 : (j < a \/ j >= to - n) /\ c[j] = r[k]
  <2>1. k \in a .. a + la - 1
    OBVIOUS
  <2>2. k \in 0 .. size - 1 /\ (k < target \/ k >= target + n)
    OBVIOUS
  <2>3. QED
    BY <2>1, <2>2, <1>3
<1> HIDE DEF source, target, from
<1>8. ASSUME NEW x \in HeldIn(r, size, a, to, b, lb, a, la)
      PROVE  x \in HeldIn(c, size, a, to - n, b, lb - n, a, la)
  <2>1. \/ \E j \in 0 .. size - 1 : (j < a \/ j >= to) /\ x = r[j]
        \/ \E k \in b .. b + lb - 1 : x = temporary[k]
        \/ \E k \in a .. a + la - 1 : x = r[k]
    BY <1>8 DEF HeldIn
  <2>2. CASE \E j \in 0 .. size - 1 : (j < a \/ j >= to) /\ x = r[j]
    BY <2>2, <1>5 DEF HeldIn
  <2>3. CASE \E k \in b .. b + lb - 1 : x = temporary[k]
    BY <2>3, <1>6 DEF HeldIn
  <2>4. CASE \E k \in a .. a + la - 1 : x = r[k]
    BY <2>4, <1>7 DEF HeldIn
  <2>5. QED
    BY <2>1, <2>2, <2>3, <2>4
<1>9. QED
  BY <1>3, <1>8 DEF c, source, target, from

Members(r, size) == {r[j] : j \in 0 .. size - 1}

\* The array c has all that a merge had not lost.
Fills(c, size, E, r, bottom, top, kept, m, other, n) ==
  /\ c \in [0 .. size - 1 -> E]
  /\ HeldIn(r, size, bottom, top, kept, m, other, n) \subseteq Members(c, size)

\* Beside the kept run nothing is left.
LEMMA KeptFills ==
  ASSUME NEW size \in Nat, NEW half \in Nat, NEW E,
         NEW r \in [0 .. size - 1 -> E], temporary \in [0 .. half - 1 -> E],
         NEW x \in Int, NEW m \in Int, NEW k \in Int, NEW o \in Int,
         0 <= x, x + m <= size, 0 <= m, 0 <= k, k + m <= half
  PROVE  Fills(Copied(r, x, temporary, k, m), size, E, r, x, x + m, k, m, o, 0)
<1> DEFINE source == temporary
           c == Copied(r, x, source, k, m)
<1>1. ASSUME NEW i \in k .. k + m - 1 PROVE source[i] \in E /\ x + i - k \in 0 .. size - 1
  <2>1. i \in 0 .. half - 1 /\ x + i - k \in 0 .. size - 1
    OBVIOUS
  <2>2. QED
    BY <2>1
<1> HIDE DEF source
<1>2. IsCopied(c, size, E, r, x, source, k, m)
  BY <1>1, CopiedEntries
<1> HIDE DEF c
<1>3. ASSUME NEW y \in HeldIn(r, size, x, x + m, k, m, o, 0) PROVE y \in Members(c, size)
  <2>1. \/ \E j \in 0 .. size - 1 : (j < x \/ j >= x + m) /\ y = r[j]
        \/ \E i \in k .. k + m - 1 : y = source[i]
        \/ \E i \in o .. o + 0 - 1 : y = r[i]
    BY <1>3 DEF HeldIn, source
  <2>2. ~ \E i \in o .. o + 0 - 1 : y = r[i]
    OBVIOUS
  <2>3. QED
    BY <2>1, <2>2, <1>1, <1>2 DEF IsCopied, Members
<1>4. QED
  BY <1>2, <1>3 DEF IsCopied, Fills, c, source

\* One entry is kept: the other run moves over, and the kept entry goes last.
LEMMA LastFills ==
  ASSUME NEW size \in Nat, NEW half \in Nat, NEW E,
         NEW r \in [0 .. size - 1 -> E], temporary \in [0 .. half - 1 -> E],
         NEW x \in Int, NEW n \in Int, NEW k \in Int, NEW o \in Int, NEW z \in Int, NEW bottom \in Int, NEW top \in Int,
         0 <= bottom, bottom <= x, x + n <= top, top <= size, bottom <= z, z < top, z < x \/ z >= x + n,
         0 <= n, 0 <= k, k < half, 0 <= o, o + n <= size
  PROVE  Fills([Copied(r, x, r, o, n) EXCEPT ![z] = temporary[k]], size, E, r, bottom, top, k, 1, o, n)
<1> DEFINE c == Copied(r, x, r, o, n)
           d == [c EXCEPT ![z] = temporary[k]]
<1>1. ASSUME NEW i \in o .. o + n - 1 PROVE r[i] \in E /\ x + i - o \in 0 .. size - 1
  <2>1. i \in 0 .. size - 1 /\ x + i - o \in 0 .. size - 1
    OBVIOUS
  <2>2. QED
    BY <2>1
<1>2. IsCopied(c, size, E, r, x, r, o, n)
  BY <1>1, CopiedEntries
<1> HIDE DEF c
<1>3. c \in [0 .. size - 1 -> E]
  BY <1>2 DEF IsCopied
<1>4. z \in 0 .. size - 1 /\ temporary[k] \in E
  OBVIOUS
<1>5. /\ d \in [0 .. size - 1 -> E] /\ d[z] = temporary[k]
      /\ \A j \in 0 .. size - 1 : j # z => d[j] = c[j]
  BY <1>3, <1>4
<1> HIDE DEF d
<1>6. ASSUME NEW j \in 0 .. size - 1, j < bottom \/ j >= top PROVE d[j] = r[j]
  <2>1. j # z /\ (j < x \/ j >= x + n)
    BY <1>6
  <2>2. QED
    BY <2>1, <1>2, <1>5 DEF IsCopied
<1>7. ASSUME NEW i \in o .. o + n - 1 PROVE d[x + i - o] = r[i]
  <2>1. x + i - o \in 0 .. size - 1 /\ x + i - o # z
    OBVIOUS
  <2>2. QED
    BY <2>1, <1>2, <1>5 DEF IsCopied
<1>8. ASSUME NEW y \in HeldIn(r, size, bottom, top, k, 1, o, n) PROVE y \in Members(d, size)
  <2>1. \/ \E j \in 0 .. size - 1 : (j < bottom \/ j >= top) /\ y = r[j]
        \/ \E i \in k .. k + 1 - 1 : y = temporary[i]
        \/ \E i \in o .. o + n - 1 : y = r[i]
    BY <1>8 DEF HeldIn
  <2>2. \A i \in k .. k + 1 - 1 : i = k
    OBVIOUS
  <2>3. CASE \E j \in 0 .. size - 1 : (j < bottom \/ j >= top) /\ y = r[j]
    BY <2>3, <1>6 DEF Members
  <2>4. CASE \E i \in k .. k + 1 - 1 : y = temporary[i]
    BY <2>4, <2>2, <1>4, <1>5 DEF Members
  <2>5. CASE \E i \in o .. o + n - 1 : y = r[i]
    BY <2>5, <1>1, <1>7 DEF Members
  <2>6. QED
    BY <2>1, <2>3, <2>4, <2>5
<1>9. QED
  BY <1>5, <1>8 DEF d, c, Fills

\* No entry is kept: the other run is in place.
LEMMA OtherIsInPlace ==
  ASSUME NEW size \in Nat, NEW r, NEW bottom, NEW top, NEW k \in Int, NEW o \in Int, NEW n \in Int,
         0 <= o, o + n <= size
  PROVE  HeldIn(r, size, bottom, top, k, 0, o, n) \subseteq Members(r, size)
<1>1. ASSUME NEW y \in HeldIn(r, size, bottom, top, k, 0, o, n) PROVE y \in Members(r, size)
  <2>1. \/ \E j \in 0 .. size - 1 : y = r[j]
        \/ \E i \in k .. k + 0 - 1 : y = temporary[i]
        \/ \E i \in o .. o + n - 1 : y = r[i]
    BY <1>1 DEF HeldIn
  <2>2. ~ \E i \in k .. k + 0 - 1 : y = temporary[i]
    OBVIOUS
  <2>3. \A i \in o .. o + n - 1 : i \in 0 .. size - 1
    OBVIOUS
  <2>4. QED
    BY <2>1, <2>2, <2>3 DEF Members
<1>2. QED
  BY <1>1

LEMMA HeldLow ==
  ASSUME NEW w, NEW r, NEW size, w.low
  PROVE  Held(w, r, size) = HeldIn(r, size, w.to, w.start.b + w.left.b, w.start.a, w.left.a, w.start.b, w.left.b)
BY DEF Held, HeldIn, Bottom, Top, Places, Store, Kept, Low

LEMMA HeldHigh ==
  ASSUME NEW w, NEW r, NEW size, ~w.low
  PROVE  Held(w, r, size) = HeldIn(r, size, w.start.a, w.to, w.start.b, w.left.b, w.start.a, w.left.a)
<1>1. Held(w, r, size) = {r[j] : j \in {k \in 0 .. size - 1 : k < w.start.a \/ k >= w.to}}
    \cup {r[j] : j \in w.start.a .. w.start.a + w.left.a - 1}
    \cup {temporary[j] : j \in w.start.b .. w.start.b + w.left.b - 1}
  BY DEF Held, Bottom, Top, Places, Store, Kept, Low
<1>2. QED
  BY <1>1 DEF HeldIn

\* The end of a merge puts all that is left in the gap.
LEMMA FinishedHolds ==
  ASSUME NEW size \in Nat, NEW half \in Nat, NEW E,
         NEW r \in [0 .. size - 1 -> E], temporary \in [0 .. half - 1 -> E],
         NEW w, Lies(w, size, half), MergeEnds(w)
  PROVE  /\ Finished(w, r) \in [0 .. size - 1 -> E]
         /\ Held(w, r, size) \subseteq Members(Finished(w, r), size)
<1>1. w \in Merges
  BY DEF Lies
<1>2. /\ w.to \in Int /\ w.left.a \in Int /\ w.left.b \in Int /\ w.start.a \in Int /\ w.start.b \in Int
  BY <1>1, MergeNumbers
<1>3. CASE w.low
  <2>1. /\ w.left.a >= 0 /\ w.left.b >= 0
        /\ w.to >= 0 /\ w.start.b = w.to + w.left.a /\ w.start.b + w.left.b <= size
        /\ w.start.a >= 0 /\ w.start.a + w.left.a <= half
        /\ Kept(w) = "a" /\ Other(w) = "b"
    BY <1>3, LowMerge
  <2>2. w.left.b = 0 \/ w.left.a <= 1
    BY <2>1 DEF MergeEnds
  <2>3. CASE w.left.b = 0
    <3>1. Finished(w, r) = Copied(r, w.to, temporary, w.start.a, w.left.a)
      BY <2>1, <2>3, <1>3 DEF Finished, Low
    <3>2. w.start.b + w.left.b = w.to + w.left.a
      BY <2>1, <2>3, <1>2
    <3>3. Held(w, r, size) = HeldIn(r, size, w.to, w.to + w.left.a, w.start.a, w.left.a, w.start.b, 0)
      BY <1>3, <2>3, <3>2, HeldLow
    <3>4. w.to + w.left.a <= size
      BY <2>1, <3>2
    <3>5. QED
      <4> DEFINE x == w.to
                 m == w.left.a
                 k == w.start.a
                 o == w.start.b
      <4>1. /\ x \in Int /\ m \in Int /\ k \in Int /\ o \in Int
            /\ 0 <= x /\ x + m <= size /\ 0 <= m /\ 0 <= k /\ k + m <= half
        BY <3>4, <2>1, <1>2
      <4>2. /\ Finished(w, r) = Copied(r, x, temporary, k, m)
            /\ Held(w, r, size) = HeldIn(r, size, x, x + m, k, m, o, 0)
        BY <3>1, <3>3
      <4> HIDE DEF x, m, k, o
      <4>3. Fills(Copied(r, x, temporary, k, m), size, E, r, x, x + m, k, m, o, 0)
        BY <4>1, KeptFills
      <4>4. QED
        BY <4>2, <4>3 DEF Fills
  <2>4. CASE w.left.b # 0 /\ w.left.a = 0
    <3>1. Finished(w, r) = r
      BY <2>1, <2>4 DEF Finished
    <3>2. Held(w, r, size) = HeldIn(r, size, w.to, w.start.b + w.left.b, w.start.a, 0, w.start.b, w.left.b)
      BY <1>3, <2>4, HeldLow
    <3>3. 0 <= w.start.b /\ w.start.b + w.left.b <= size
      BY <2>1, <1>2
    <3>4. QED
      BY <3>1, <3>2, <3>3, <1>2, OtherIsInPlace
  <2>5. CASE w.left.b # 0 /\ w.left.a = 1
    <3>1. Finished(w, r) = [Copied(r, w.to, r, w.start.b, w.left.b) EXCEPT ![w.to + w.left.b] = temporary[w.start.a]]
      BY <2>1, <2>5, <1>3 DEF Finished, Low
    <3>2. Held(w, r, size) = HeldIn(r, size, w.to, w.start.b + w.left.b, w.start.a, 1, w.start.b, w.left.b)
      BY <1>3, <2>5, HeldLow
    <3> DEFINE to == w.to
               top == w.start.b + w.left.b
               z == w.to + w.left.b
               n == w.left.b
               o == w.start.b
               k == w.start.a
    <3>3. /\ to \in Int /\ top \in Int /\ z \in Int /\ n \in Int /\ o \in Int /\ k \in Int
          /\ 0 <= to /\ to + n <= top /\ top <= size /\ to <= z /\ z < top /\ z >= to + n
          /\ 0 <= n /\ 0 <= k /\ k < half /\ 0 <= o /\ o + n <= size /\ to <= to
      <4>1. w.start.b = w.to + 1 /\ w.start.a < half
        BY <2>1, <2>5, <1>2
      <4>2. to \in Int /\ n \in Int /\ o = to + 1 /\ top = to + 1 + n /\ z = to + n /\ k \in Int
        BY <4>1, <1>2
      <4>3. 0 <= to /\ top <= size /\ 0 <= n /\ 0 <= k /\ k < half
        BY <4>1, <2>1
      <4> HIDE DEF to, top, z, n, o, k
      <4>4. QED
        BY <4>2, <4>3
    <3>4. /\ Finished(w, r) = [Copied(r, to, r, o, n) EXCEPT ![z] = temporary[k]]
          /\ Held(w, r, size) = HeldIn(r, size, to, top, k, 1, o, n)
      BY <3>1, <3>2
    <3> HIDE DEF to, top, z, n, o, k
    <3>5. QED
      <4>1. Fills([Copied(r, to, r, o, n) EXCEPT ![z] = temporary[k]], size, E, r, to, top, k, 1, o, n)
        BY <3>3, LastFills
      <4>2. QED
        BY <3>4, <4>1 DEF Fills
  <2>6. QED
    BY <2>1, <2>2, <2>3, <2>4, <2>5, <1>2
<1>4. CASE ~w.low
  <2>1. /\ w.left.a >= 0 /\ w.left.b >= 0
        /\ w.start.a >= 0 /\ w.to = w.start.a + w.left.a + w.left.b /\ w.to <= size
        /\ w.start.b >= 0 /\ w.start.b + w.left.b <= half
        /\ Kept(w) = "b" /\ Other(w) = "a"
    BY <1>4, HighMerge
  <2>2. w.left.a = 0 \/ w.left.b <= 1
    BY <2>1 DEF MergeEnds
  <2>3. CASE w.left.a = 0
    <3> DEFINE x == w.to - w.left.b
    <3>1. Finished(w, r) = Copied(r, x, temporary, w.start.b, w.left.b)
      BY <2>1, <2>3, <1>4 DEF Finished, Low
    <3>2. x = w.start.a /\ x + w.left.b = w.to /\ x \in Int
      BY <2>1, <2>3, <1>2
    <3> HIDE DEF x
    <3>3. Held(w, r, size) = HeldIn(r, size, x, x + w.left.b, w.start.b, w.left.b, w.start.a, 0)
      BY <1>4, <2>3, <3>2, HeldHigh
    <3>4. 0 <= x /\ x + w.left.b <= size
      BY <2>1, <3>2
    <3>5. QED
      <4> DEFINE m == w.left.b
                 k == w.start.b
                 o == w.start.a
      <4>1. /\ x \in Int /\ m \in Int /\ k \in Int /\ o \in Int
            /\ 0 <= x /\ x + m <= size /\ 0 <= m /\ 0 <= k /\ k + m <= half
        BY <3>2, <3>4, <2>1, <1>2
      <4>2. /\ Finished(w, r) = Copied(r, x, temporary, k, m)
            /\ Held(w, r, size) = HeldIn(r, size, x, x + m, k, m, o, 0)
        BY <3>1, <3>3
      <4> HIDE DEF m, k, o
      <4>3. Fills(Copied(r, x, temporary, k, m), size, E, r, x, x + m, k, m, o, 0)
        BY <4>1, KeptFills
      <4>4. QED
        BY <4>2, <4>3 DEF Fills
  <2>4. CASE w.left.a # 0 /\ w.left.b = 0
    <3>1. Finished(w, r) = r
      BY <2>1, <2>4 DEF Finished
    <3>2. Held(w, r, size) = HeldIn(r, size, w.start.a, w.to, w.start.b, 0, w.start.a, w.left.a)
      BY <1>4, <2>4, HeldHigh
    <3>3. 0 <= w.start.a /\ w.start.a + w.left.a <= size
      BY <2>1, <1>2
    <3>4. QED
      BY <3>1, <3>2, <3>3, <1>2, OtherIsInPlace
  <2>5. CASE w.left.a # 0 /\ w.left.b = 1
    <3> DEFINE x == w.to - w.left.a
               z == w.to - w.left.a - 1
               top == w.to
               n == w.left.a
               o == w.start.a
               k == w.start.b
    <3>1. Finished(w, r) = [Copied(r, x, r, w.start.a, w.left.a) EXCEPT ![z] = temporary[w.start.b]]
      BY <2>1, <2>5, <1>4 DEF Finished, Low
    <3>2. Held(w, r, size) = HeldIn(r, size, w.start.a, w.to, w.start.b, 1, w.start.a, w.left.a)
      BY <1>4, <2>5, HeldHigh
    <3>3. /\ x \in Int /\ top \in Int /\ z \in Int /\ n \in Int /\ o \in Int /\ k \in Int
          /\ 0 <= o /\ o <= x /\ x + n <= top /\ top <= size /\ o <= z /\ z < top /\ z < x
          /\ 0 <= n /\ 0 <= k /\ k < half /\ o + n <= size
      BY <2>1, <2>5, <1>2
    <3>4. /\ Finished(w, r) = [Copied(r, x, r, o, n) EXCEPT ![z] = temporary[k]]
          /\ Held(w, r, size) = HeldIn(r, size, o, top, k, 1, o, n)
      BY <3>1, <3>2
    <3> HIDE DEF x, top, z, n, o, k
    <3>5. QED
      <4>1. Fills([Copied(r, x, r, o, n) EXCEPT ![z] = temporary[k]], size, E, r, o, top, k, 1, o, n)
        BY <3>3, LastFills
      <4>2. QED
        BY <3>4, <4>1 DEF Fills
  <2>6. QED
    BY <2>1, <2>2, <2>3, <2>4, <2>5, <1>2
<1>5. QED
  BY <1>3, <1>4

\* Taking entries of a side keeps all that the merge had not lost.
LEMMA TakenHolds ==
  ASSUME NEW size \in Nat, NEW half \in Nat, NEW E,
         ranking \in [0 .. size - 1 -> E], temporary \in [0 .. half - 1 -> E],
         NEW w, Lies(w, size, half), NEW side \in Sides, NEW n \in Int, 0 <= n, n <= w.left[side]
  PROVE  /\ Lies(Rest(w, side, n), size, half)
         /\ Moved(w, side, n) \in [0 .. size - 1 -> E]
         /\ Held(w, ranking, size) \subseteq Held(Rest(w, side, n), Moved(w, side, n), size)
<1> DEFINE rest == Rest(w, side, n)
           moved == Moved(w, side, n)
           to == w.to
           a == w.start.a
           b == w.start.b
           la == w.left.a
           lb == w.left.b
<1>1. w \in Merges
  BY DEF Lies
<1>2. to \in Int /\ la \in Int /\ lb \in Int /\ a \in Int /\ b \in Int
  BY <1>1, MergeNumbers
<1>3. side = "a" \/ side = "b"
  BY DEF Sides
<1>4. CASE w.low
  <2>1. /\ 0 <= la /\ 0 <= lb /\ 0 <= to /\ b = to + la /\ b + lb <= size /\ 0 <= a /\ a + la <= half
        /\ Store(w, ranking, "a") = temporary /\ Store(w, ranking, "b") = ranking
    BY <1>4, LowMerge
  <2>2. Held(w, ranking, size) = HeldIn(ranking, size, to, b + lb, a, la, b, lb)
    BY <1>4, HeldLow
  <2>3. CASE side = "a"
    <3>1. /\ rest \in Merges /\ rest.low /\ rest.left.a = la - n /\ rest.left.b = lb
          /\ rest.start.a = a + n /\ rest.start.b = b /\ rest.to = to + n
      <4>1. rest = Rest(w, "a", n)
        BY <2>3
      <4> DEFINE new == Rest(w, "a", n)
      <4>2. /\ new \in Merges /\ new.low = w.low
            /\ new.left.a = w.left.a - n /\ new.left.b = w.left.b
            /\ new.start.a = (IF w.low THEN w.start.a + n ELSE w.start.a) /\ new.start.b = w.start.b
            /\ new.to = (IF w.low THEN w.to + n ELSE w.to - n)
        BY <1>1, RestNumbers
      <4>3. rest = new
        BY <4>1
      <4> HIDE DEF rest, new
      <4>4. QED
        BY <4>2, <4>3, <1>4
    <3>2. moved = Copied(ranking, to, temporary, a, n) /\ n <= la
      BY <2>1, <2>3, <1>4 DEF Moved, Low
    <3> HIDE DEF rest, moved, to, a, b, la, lb
    <3>3. /\ Copied(ranking, to, temporary, a, n) \in [0 .. size - 1 -> E]
          /\ HeldIn(ranking, size, to, b + lb, a, la, b, lb) \subseteq
               HeldIn(Copied(ranking, to, temporary, a, n), size, to + n, b + lb, a + n, la - n, b, lb)
      BY <1>2, <2>1, <3>2, LowTakesKept
    <3>4. Held(rest, moved, size) = HeldIn(moved, size, to + n, b + lb, a + n, la - n, b, lb)
      BY <3>1, HeldLow
    <3>5. la - n >= 0 /\ to + n >= 0 /\ b = (to + n) + (la - n) /\ a + n >= 0 /\ (a + n) + (la - n) <= half
      BY <1>2, <2>1, <3>2
    <3>6. Lies(rest, size, half)
      BY <2>1, <3>1, <3>5, LowMerge
    <3>7. QED
      BY <2>2, <3>2, <3>3, <3>4, <3>6 DEF rest, moved
  <2>4. CASE side = "b"
    <3>1. /\ rest \in Merges /\ rest.low /\ rest.left.a = la /\ rest.left.b = lb - n
          /\ rest.start.a = a /\ rest.start.b = b + n /\ rest.to = to + n
      <4>1. rest = Rest(w, "b", n)
        BY <2>4
      <4> DEFINE new == Rest(w, "b", n)
      <4>2. /\ new \in Merges /\ new.low = w.low
            /\ new.left.b = w.left.b - n /\ new.left.a = w.left.a
            /\ new.start.b = (IF w.low THEN w.start.b + n ELSE w.start.b) /\ new.start.a = w.start.a
            /\ new.to = (IF w.low THEN w.to + n ELSE w.to - n)
        BY <1>1, RestNumbers
      <4>3. rest = new
        BY <4>1
      <4> HIDE DEF rest, new
      <4>4. QED
        BY <4>2, <4>3, <1>4
    <3>2. moved = Copied(ranking, to, ranking, b, n) /\ n <= lb
      BY <2>1, <2>4, <1>4 DEF Moved, Low
    <3> HIDE DEF rest, moved, to, a, b, la, lb
    <3>3. /\ Copied(ranking, to, ranking, b, n) \in [0 .. size - 1 -> E]
          /\ HeldIn(ranking, size, to, b + lb, a, la, b, lb) \subseteq
               HeldIn(Copied(ranking, to, ranking, b, n), size, to + n, b + lb, a, la, b + n, lb - n)
      BY <1>2, <2>1, <3>2, LowTakesOther
    <3>4. Held(rest, moved, size) = HeldIn(moved, size, to + n, b + lb, a, la, b + n, lb - n)
      <4>1. (b + n) + (lb - n) = b + lb
        BY <1>2
      <4>2. QED
        BY <3>1, <4>1, HeldLow
    <3>5. lb - n >= 0 /\ to + n >= 0 /\ b + n = (to + n) + la /\ (b + n) + (lb - n) <= size
      BY <1>2, <2>1, <3>2
    <3>6. Lies(rest, size, half)
      BY <2>1, <3>1, <3>5, LowMerge
    <3>7. QED
      BY <2>2, <3>2, <3>3, <3>4, <3>6 DEF rest, moved
  <2>5. QED
    BY <2>3, <2>4, <1>3
<1>5. CASE ~w.low
  <2>1. /\ 0 <= la /\ 0 <= lb /\ 0 <= a /\ to = a + la + lb /\ to <= size /\ 0 <= b /\ b + lb <= half
        /\ Store(w, ranking, "a") = ranking /\ Store(w, ranking, "b") = temporary
    BY <1>5, HighMerge
  <2>2. Held(w, ranking, size) = HeldIn(ranking, size, a, to, b, lb, a, la)
    BY <1>5, HeldHigh
  <2>3. CASE side = "a"
    <3>1. /\ rest \in Merges /\ ~rest.low /\ rest.left.a = la - n /\ rest.left.b = lb
          /\ rest.start.a = a /\ rest.start.b = b /\ rest.to = to - n
      <4>1. rest = Rest(w, "a", n)
        BY <2>3
      <4> DEFINE new == Rest(w, "a", n)
      <4>2. /\ new \in Merges /\ new.low = w.low
            /\ new.left.a = w.left.a - n /\ new.left.b = w.left.b
            /\ new.start.a = (IF w.low THEN w.start.a + n ELSE w.start.a) /\ new.start.b = w.start.b
            /\ new.to = (IF w.low THEN w.to + n ELSE w.to - n)
        BY <1>1, RestNumbers
      <4>3. rest = new
        BY <4>1
      <4> HIDE DEF rest, new
      <4>4. QED
        BY <4>2, <4>3, <1>5
    <3>2. moved = Copied(ranking, to - n, ranking, a + la - n, n) /\ n <= la
      BY <2>1, <2>3, <1>5 DEF Moved, Low
    <3> HIDE DEF rest, moved, to, a, b, la, lb
    <3>3. /\ Copied(ranking, to - n, ranking, a + la - n, n) \in [0 .. size - 1 -> E]
          /\ HeldIn(ranking, size, a, to, b, lb, a, la) \subseteq
               HeldIn(Copied(ranking, to - n, ranking, a + la - n, n), size, a, to - n, b, lb, a, la - n)
      BY <1>2, <2>1, <3>2, HighTakesOther
    <3>4. Held(rest, moved, size) = HeldIn(moved, size, a, to - n, b, lb, a, la - n)
      BY <3>1, HeldHigh
    <3>5. la - n >= 0 /\ to - n = a + (la - n) + lb /\ to - n <= size
      BY <1>2, <2>1, <3>2
    <3>6. Lies(rest, size, half)
      BY <2>1, <3>1, <3>5, HighMerge
    <3>7. QED
      BY <2>2, <3>2, <3>3, <3>4, <3>6 DEF rest, moved
  <2>4. CASE side = "b"
    <3>1. /\ rest \in Merges /\ ~rest.low /\ rest.left.a = la /\ rest.left.b = lb - n
          /\ rest.start.a = a /\ rest.start.b = b /\ rest.to = to - n
      <4>1. rest = Rest(w, "b", n)
        BY <2>4
      <4> DEFINE new == Rest(w, "b", n)
      <4>2. /\ new \in Merges /\ new.low = w.low
            /\ new.left.b = w.left.b - n /\ new.left.a = w.left.a
            /\ new.start.b = (IF w.low THEN w.start.b + n ELSE w.start.b) /\ new.start.a = w.start.a
            /\ new.to = (IF w.low THEN w.to + n ELSE w.to - n)
        BY <1>1, RestNumbers
      <4>3. rest = new
        BY <4>1
      <4> HIDE DEF rest, new
      <4>4. QED
        BY <4>2, <4>3, <1>5
    <3>2. moved = Copied(ranking, to - n, temporary, b + lb - n, n) /\ n <= lb
      BY <2>1, <2>4, <1>5 DEF Moved, Low
    <3> HIDE DEF rest, moved, to, a, b, la, lb
    <3>3. /\ Copied(ranking, to - n, temporary, b + lb - n, n) \in [0 .. size - 1 -> E]
          /\ HeldIn(ranking, size, a, to, b, lb, a, la) \subseteq
               HeldIn(Copied(ranking, to - n, temporary, b + lb - n, n), size, a, to - n, b, lb - n, a, la)
      BY <1>2, <2>1, <3>2, HighTakesKept
    <3>4. Held(rest, moved, size) = HeldIn(moved, size, a, to - n, b, lb - n, a, la)
      BY <3>1, HeldHigh
    <3>5. lb - n >= 0 /\ to - n = a + la + (lb - n) /\ to - n <= size /\ b + (lb - n) <= half
      BY <1>2, <2>1, <3>2
    <3>6. Lies(rest, size, half)
      BY <2>1, <3>1, <3>5, HighMerge
    <3>7. QED
      BY <2>2, <3>2, <3>3, <3>4, <3>6 DEF rest, moved
  <2>5. QED
    BY <2>3, <2>4, <1>3
<1>6. QED
  BY <1>4, <1>5

\* A step of a merge: it goes on or it ends, and no entry is lost.
LEMMA TakeHolds ==
  ASSUME NEW size \in Nat, NEW half \in Nat, NEW E,
         ranking \in [0 .. size - 1 -> E], temporary \in [0 .. half - 1 -> E],
         NEW w, Lies(w, size, half), NEW side \in Sides, NEW n \in Int, 0 <= n, n <= w.left[side],
         Take(w, side, n)
  PROVE  /\ ranking' \in [0 .. size - 1 -> E]
         /\ \/ work' = Idle /\ Held(w, ranking, size) \subseteq Members(ranking', size)
            \/ /\ work' = Rest(w, side, n) /\ ~MergeEnds(work') /\ Lies(work', size, half)
               /\ Held(w, ranking, size) \subseteq Held(Rest(w, side, n), ranking', size)
<1> DEFINE rest == Rest(w, side, n)
           moved == Moved(w, side, n)
<1>1. IF MergeEnds(rest) THEN ranking' = Finished(rest, moved) /\ work' = Idle
      ELSE ranking' = moved /\ work' = rest
  BY TakeIs
<1>2. /\ Lies(rest, size, half)
      /\ moved \in [0 .. size - 1 -> E]
      /\ Held(w, ranking, size) \subseteq Held(rest, moved, size)
  BY TakenHolds
<1> HIDE DEF rest, moved
<1>3. CASE MergeEnds(rest)
  <2>1. /\ Finished(rest, moved) \in [0 .. size - 1 -> E]
        /\ Held(rest, moved, size) \subseteq Members(Finished(rest, moved), size)
    BY <1>2, <1>3, FinishedHolds
  <2>2. QED
    BY <1>1, <1>2, <1>3, <2>1 DEF rest
<1>4. CASE ~MergeEnds(rest)
  BY <1>1, <1>2, <1>4 DEF rest
<1>5. QED
  BY <1>3, <1>4

\* The array c has the entries of r.
Rearranges(c, r, size, E) ==
  c \in [0 .. size - 1 -> E] /\ Members(r, size) \subseteq Members(c, size)

\* Reversing a part of an array moves its entries about.
LEMMA ReversedHolds ==
  ASSUME NEW size \in Nat, NEW E, NEW r \in [0 .. size - 1 -> E],
         NEW from \in Int, NEW last \in Int, 0 <= from, last <= size
  PROVE  Rearranges(Reversed(r, from, last), r, size, E)
<1> DEFINE c == Reversed(r, from, last)
<1>1. \A j \in 0 .. size - 1 : c[j] = IF j \in from .. last - 1 THEN r[from + last - 1 - j] ELSE r[j]
  BY DEF Reversed
<1>2. c = [j \in 0 .. size - 1 |-> c[j]]
  BY DEF Reversed
<1> HIDE DEF c
<1>3. ASSUME NEW j \in from .. last - 1
      PROVE  from + last - 1 - j \in from .. last - 1 /\ from + last - 1 - j \in 0 .. size - 1
             /\ from + last - 1 - (from + last - 1 - j) = j /\ j \in 0 .. size - 1
  OBVIOUS
<1>4. \A j \in 0 .. size - 1 : c[j] \in E
  BY <1>1, <1>3
<1>5. ASSUME NEW j \in 0 .. size - 1 PROVE \E k \in 0 .. size - 1 : c[k] = r[j]
  <2>1. CASE j \in from .. last - 1
    BY <2>1, <1>1, <1>3
  <2>2. CASE j \notin from .. last - 1
    BY <2>2, <1>1
  <2>3. QED
    BY <2>1, <2>2
<1>6. QED
  BY <1>2, <1>4, <1>5 DEF Members, Rearranges, c

\* One round of binary_sort moves the entry `here` down to z.
LEMMA InsertHolds ==
  ASSUME NEW size \in Nat, NEW E, NEW r \in [0 .. size - 1 -> E],
         NEW z \in Int, NEW here \in Int, 0 <= z, z <= here, here < size
  PROVE  Rearranges([Copied(r, z + 1, r, z, here - z) EXCEPT ![z] = r[here]], r, size, E)
<1> DEFINE c == Copied(r, z + 1, r, z, here - z)
           d == [c EXCEPT ![z] = r[here]]
           n == here - z
           to == z + 1
<1>1. /\ n \in Int /\ 0 <= n /\ to \in Int
      /\ \A k \in z .. z + n - 1 : r[k] \in E
  <2>1. \A k \in z .. z + n - 1 : k \in 0 .. size - 1
    OBVIOUS
  <2>2. QED
    BY <2>1
<1>2. IsCopied(c, size, E, r, to, r, z, n)
  <2>1. c = Copied(r, to, r, z, n)
    OBVIOUS
  <2> HIDE DEF c, to, n
  <2>2. QED
    BY <1>1, <2>1, CopiedEntries
<1> HIDE DEF c
<1>3. c \in [0 .. size - 1 -> E] /\ z \in 0 .. size - 1 /\ here \in 0 .. size - 1
  BY <1>2 DEF IsCopied
<1>4. /\ d \in [0 .. size - 1 -> E] /\ d[z] = r[here]
      /\ \A j \in 0 .. size - 1 : j # z => d[j] = c[j]
  BY <1>3
<1> HIDE DEF d
<1>5. ASSUME NEW j \in 0 .. size - 1 PROVE \E k \in 0 .. size - 1 : d[k] = r[j]
  <2>1. CASE j = here
    BY <2>1, <1>3, <1>4
  <2>2. CASE j \in z .. here - 1
    <3>1. j \in z .. z + n - 1 /\ to + j - z = j + 1 /\ j + 1 \in 0 .. size - 1 /\ j + 1 # z
      BY <2>2
    <3>2. c[j + 1] = r[j]
      BY <3>1, <1>2 DEF IsCopied
    <3>3. QED
      BY <3>1, <3>2, <1>4
  <2>3. CASE j < z \/ j > here
    <3>1. (j < to \/ j >= to + n) /\ j # z
      BY <2>3
    <3>2. QED
      BY <3>1, <1>2, <1>4 DEF IsCopied
  <2>4. QED
    BY <2>1, <2>2, <2>3
<1>6. QED
  BY <1>4, <1>5 DEF Members, Rearranges, d, c

\* The temporary array c has n entries of r.
IsAway(c, half, E, r, from, n) ==
  /\ c \in [0 .. half - 1 -> E]
  /\ \A j \in from .. from + n - 1 : \E k \in 0 .. n - 1 : c[k] = r[j]

LEMMA CopiedAway ==
  ASSUME NEW size \in Nat, NEW half \in Nat, NEW E,
         NEW r \in [0 .. size - 1 -> E], NEW t \in [0 .. half - 1 -> E],
         NEW from \in Int, NEW n \in Int, 0 <= from, 0 <= n, from + n <= size, n <= half
  PROVE  IsAway(Copied(t, 0, r, from, n), half, E, r, from, n)
<1> DEFINE c == Copied(t, 0, r, from, n)
           to == 0
<1>1. \A k \in from .. from + n - 1 : r[k] \in E
  <2>1. \A k \in from .. from + n - 1 : k \in 0 .. size - 1
    OBVIOUS
  <2>2. QED
    BY <2>1
<1>2. IsCopied(c, half, E, t, to, r, from, n)
  <2>1. c = Copied(t, to, r, from, n) /\ to \in Int
    OBVIOUS
  <2> HIDE DEF c, to
  <2>2. QED
    BY <1>1, <2>1, CopiedEntries
<1> HIDE DEF c
<1>3. ASSUME NEW j \in from .. from + n - 1 PROVE \E k \in 0 .. n - 1 : c[k] = r[j]
  <2>1. to + j - from = j - from /\ j - from \in 0 .. half - 1 /\ j - from \in 0 .. n - 1
    OBVIOUS
  <2>2. c[j - from] = r[j]
    BY <2>1, <1>2 DEF IsCopied
  <2>3. QED
    BY <2>1, <2>2
<1>4. QED
  BY <1>2, <1>3 DEF IsCopied, IsAway, c

LEMMA Pairs ==
  ASSUME NEW x \in Int, NEW y \in Int
  PROVE  [a |-> x, b |-> y] \in [Sides -> Int]
BY DEF Sides

LEMMA HalfIs ==
  ASSUME NEW n \in Nat, NEW k \in Int, 2 * k <= n
  PROVE  (n + 1) \div 2 \in Nat /\ k <= (n + 1) \div 2
OBVIOUS

\* The entries the array begins with.
Entries == {[value |-> scores[i], id |-> i] : i \in 0 .. Size - 1}
Half == (Size + 1) \div 2

\* Runs lie within the array, and what is held there are the given entries.
ArrayInv ==
  /\ Size \in Nat /\ Size >= 2 /\ DOMAIN scores = 0 .. Size - 1
  /\ first + remaining = Size
  /\ ranking \in [0 .. Size - 1 -> Entries]
  /\ temporary \in [0 .. Half - 1 -> Entries]
  /\ minimumGallop \in Int

AllThere == Entries \subseteq Members(ranking, Size)

Inserting ==
  \E here, n \in Int :
    /\ work = [step |-> "insert", at |-> here, length |-> n]
    /\ first < here /\ here <= first + n /\ n <= remaining

\* What merge_at found to merge: two neighbouring parts of the array.
Beginning ==
  \E a, b, la, lb \in Int :
    /\ work = [step |-> "begin", start |-> [a |-> a, b |-> b], left |-> [a |-> la, b |-> lb]]
    /\ 0 <= a /\ 1 <= la /\ b = a + la /\ 1 <= lb /\ b + lb <= Size

\* In a merge each entry is outside the gap or left of a side.
Merging ==
  /\ work.step \in MergeSteps
  /\ Lies(work, Size, Half)
  /\ work.step = "first" => work.left.a >= 1 /\ work.left.b >= 1
  /\ work.step # "first" => ~MergeEnds(work)
  /\ Entries \subseteq Held(work, ranking, Size)

EntriesInv ==
  /\ ArrayInv
  /\ \/ work = Idle /\ AllThere
     \/ Inserting /\ AllThere
     \/ Beginning /\ AllThere
     \/ Merging

LEMMA SliceLength ==
  ASSUME NEW r, NEW from, NEW n \in Nat
  PROVE  Len(Slice(r, from, n)) = n
<1>1. Slice(r, from, n) = [i \in 1 .. n |-> r[from + i - 1]]
  BY DEF Slice
<1>2. QED
  BY <1>1

LEMMA InitEntries == Init => EntriesInv
<1> SUFFICES ASSUME Init PROVE EntriesInv
  OBVIOUS
<1>1. PICK n \in Sizes : scores \in [0 .. n - 1 -> {NaN} \cup Int]
  BY TimSortAssumption DEF Init
<1>2. n \in Nat /\ n >= 2
  BY <1>1, RunStackAssumption DEF RunStackAssumption
<1>3. DOMAIN scores = 0 .. n - 1
  BY <1>1
<1>4. Size = n
  <2>1. Cardinality(0 .. n - 1) = n
    BY <1>2, FS_Interval
  <2>2. QED
    BY <2>1, <1>3 DEF Size
<1> DEFINE entries == [i \in DOMAIN scores |-> [value |-> scores[i], id |-> i]]
<1>5. entries \in [0 .. n - 1 -> Entries] /\ \A i \in 0 .. n - 1 : entries[i] = [value |-> scores[i], id |-> i]
  BY <1>3, <1>4 DEF Entries
<1>6. Entries \subseteq Members(entries, n)
  BY <1>4, <1>5 DEF Entries, Members
<1>7. ranking = IF reverse THEN Reversed(entries, 0, Size) ELSE entries
  BY DEF Init
<1> HIDE DEF entries
<1>8. Rearranges(Reversed(entries, 0, n), entries, n, Entries)
  BY <1>2, <1>5, ReversedHolds
<1>9. ranking \in [0 .. Size - 1 -> Entries] /\ AllThere
  BY <1>4, <1>5, <1>6, <1>7, <1>8 DEF AllThere, Rearranges
<1>10. temporary \in [0 .. Half - 1 -> Entries]
  <2>1. temporary = [i \in 0 .. (Size + 1) \div 2 - 1 |-> [value |-> scores[0], id |-> 0]]
    BY DEF Init
  <2>2. [value |-> scores[0], id |-> 0] \in Entries
    BY <1>2, <1>4 DEF Entries
  <2>3. QED
    BY <2>1, <2>2 DEF Half
<1>11. first = 0 /\ remaining = Size /\ minimumGallop \in Int /\ work = Idle
  BY TimSortAssumption DEF Init, StackInit
<1>12. QED
  BY <1>2, <1>3, <1>4, <1>9, <1>10, <1>11 DEF EntriesInv, ArrayInv

LEMMA KeptEntries == EntriesInv => KeepsEntries
<1> SUFFICES ASSUME EntriesInv, work.step \in {"idle", "insert"}
             PROVE  {ranking[i].id : i \in DOMAIN ranking} = DOMAIN scores
  BY DEF KeepsEntries
<1>1. AllThere
  <2>1. CASE Beginning
    BY <2>1 DEF Beginning
  <2>2. CASE Merging
    BY <2>2 DEF Merging, MergeSteps
  <2>3. QED
    BY <2>1, <2>2 DEF EntriesInv
<1>2. DOMAIN ranking = 0 .. Size - 1 /\ DOMAIN scores = 0 .. Size - 1
  BY DEF EntriesInv, ArrayInv
<1>3. ASSUME NEW i \in DOMAIN ranking PROVE ranking[i].id \in DOMAIN scores
  <2>1. ranking[i] \in Entries
    BY <1>2 DEF EntriesInv, ArrayInv
  <2>2. QED
    BY <2>1, <1>2 DEF Entries
<1>4. ASSUME NEW i \in DOMAIN scores PROVE \E j \in DOMAIN ranking : ranking[j].id = i
  <2>1. [value |-> scores[i], id |-> i] \in Entries
    BY <1>2 DEF Entries
  <2>2. [value |-> scores[i], id |-> i] \in Members(ranking, Size)
    BY <2>1, <1>1 DEF AllThere
  <2>3. QED
    BY <2>2, <1>2 DEF Members
<1>5. QED
  BY <1>3, <1>4

LEMMA ScoresStay ==
  ASSUME scores' = scores
  PROVE  Size' = Size /\ Half' = Half /\ Entries' = Entries
BY DEF Size, Half, Entries

LEMMA ArrayStays ==
  ASSUME ArrayInv, scores' = scores, first' + remaining' = first + remaining,
         ranking' \in [0 .. Size - 1 -> Entries], temporary' \in [0 .. Half - 1 -> Entries],
         minimumGallop' \in Int
  PROVE  ArrayInv'
BY ScoresStay DEF ArrayInv

LEMMA AllStay ==
  ASSUME AllThere, scores' = scores, Rearranges(ranking', ranking, Size, Entries) \/ ranking' = ranking
  PROVE  AllThere'
<1>1. Members(ranking, Size) \subseteq Members(ranking', Size)
  BY DEF Rearranges
<1>2. AllThere' <=> Entries' \subseteq Members(ranking', Size')
  BY DEF AllThere, Members
<1>3. QED
  BY <1>1, <1>2, ScoresStay DEF AllThere

\* What the step of the work tells of the work.
LEMMA WorkAtHand ==
  ASSUME EntriesInv
  PROVE  /\ work = Idle => AllThere
         /\ work.step = "insert" => Inserting /\ AllThere
         /\ work.step = "begin" => Beginning /\ AllThere
         /\ work.step \in MergeSteps => Merging
         /\ work = Idle => work.step = "idle"
<1>1. work = Idle => work.step = "idle"
  BY DEF Idle
<1>2. Inserting => work.step = "insert" /\ work # Idle
  BY DEF Inserting, Idle
<1>3. Beginning => work.step = "begin" /\ work # Idle
  BY DEF Beginning, Idle
<1>4. Merging => work.step \in MergeSteps
  BY DEF Merging
<1>5. QED
  BY <1>1, <1>2, <1>3, <1>4 DEF EntriesInv, MergeSteps

LEMMA CountRunEntries == ASSUME IInv, EntriesInv, CountRun PROVE EntriesInv'
<1>1. ArrayInv /\ AllThere /\ first \in Nat /\ remaining \in Nat
  BY WorkAtHand DEF EntriesInv, CountRun, IInv, StackTypeOK
<1>2. PICK n \in RunLengths :
          /\ \E k \in Extensions(n) :
                work' = [step |-> "insert", at |-> first + n, length |-> k]
          /\ ranking' = IF Descends THEN Reversed(ranking, first, first + n) ELSE ranking
  BY DEF CountRun
<1>3. n \in 1 .. remaining
  BY DEF RunLengths
<1>4. PICK k \in Extensions(n) : work' = [step |-> "insert", at |-> first + n, length |-> k]
  BY <1>2
<1>5. k \in n .. remaining
  BY DEF Extensions
<1>6. Rearranges(Reversed(ranking, first, first + n), ranking, Size, Entries)
  <2>1. first + n \in Int /\ first \in Int /\ 0 <= first /\ first + n <= Size
    BY <1>1, <1>3 DEF ArrayInv
  <2>2. QED
    BY <1>1, <2>1, ReversedHolds DEF ArrayInv
<1>7. Rearranges(ranking', ranking, Size, Entries) \/ ranking' = ranking
  BY <1>2, <1>6
<1>8. AllThere' /\ ArrayInv'
  <2>1. ranking' \in [0 .. Size - 1 -> Entries]
    BY <1>1, <1>7 DEF Rearranges, ArrayInv
  <2>2. scores' = scores /\ temporary' = temporary /\ minimumGallop' = minimumGallop
        /\ first' = first /\ remaining' = remaining
    BY DEF CountRun, stackVars
  <2>3. AllThere'
    BY <1>1, <1>7, <2>2, AllStay
  <2>4. ArrayInv'
    BY <1>1, <2>1, <2>2, ArrayStays DEF ArrayInv
  <2>5. QED
    BY <2>3, <2>4
<1>9. Inserting'
  <2>1. first' = first /\ remaining' = remaining
    BY DEF CountRun, stackVars
  <2>2. first + n \in Int /\ k \in Int /\ first < first + n /\ first + n <= first + k /\ k <= remaining
    BY <1>1, <1>3, <1>5
  <2>3. QED
    BY <1>4, <2>1, <2>2 DEF Inserting
<1>10. QED
  BY <1>8, <1>9 DEF EntriesInv

LEMMA InsertEntries == ASSUME IInv, EntriesInv, Insert PROVE EntriesInv'
<1>1. ArrayInv /\ AllThere /\ Inserting /\ first \in Nat /\ remaining \in Nat
  BY WorkAtHand DEF EntriesInv, Insert, IInv, StackTypeOK
<1>2. PICK here, n \in Int :
    /\ work = [step |-> "insert", at |-> here, length |-> n]
    /\ first < here /\ here <= first + n /\ n <= remaining
  BY <1>1 DEF Inserting
<1>3. work.at = here /\ work.length = n
  BY <1>2
<1>4. PICK k \in GallopRight(ranking[here], Slice(ranking, first, here - first)) :
        ranking' = [Copied(ranking, first + k + 1, ranking, first + k, here - first - k)
                       EXCEPT ![first + k] = ranking[here]]
  BY <1>3 DEF Insert
<1>5. k \in 0 .. here - first
  <2>1. here - first \in Nat
    BY <1>1, <1>2
  <2>2. Len(Slice(ranking, first, here - first)) = here - first
    BY <2>1, SliceLength
  <2>3. QED
    BY <2>2 DEF GallopRight
<1>6. Rearranges(ranking', ranking, Size, Entries)
  <2> DEFINE z == first + k
  <2>1. z \in Int /\ 0 <= z /\ z <= here
    BY <1>1, <1>2, <1>5
  <2>2. here < Size
    BY <1>1, <1>2, <1>3 DEF Insert, ArrayInv
  <2>3. here - first - k = here - z
    BY <1>1, <1>2, <1>5
  <2>4. ranking' = [Copied(ranking, z + 1, ranking, z, here - z) EXCEPT ![z] = ranking[here]]
    BY <1>4, <2>3
  <2> HIDE DEF z
  <2>5. Rearranges([Copied(ranking, z + 1, ranking, z, here - z) EXCEPT ![z] = ranking[here]], ranking, Size, Entries)
    BY <1>1, <2>1, <2>2, InsertHolds DEF ArrayInv
  <2>6. QED
    BY <2>4, <2>5
<1>7. scores' = scores /\ temporary' = temporary /\ minimumGallop' = minimumGallop
        /\ first' = first /\ remaining' = remaining /\ work' = [work EXCEPT !.at = @ + 1]
  BY DEF Insert, stackVars
<1>8. AllThere'
  BY <1>1, <1>6, <1>7, AllStay
<1>9. ArrayInv'
  BY <1>1, <1>6, <1>7, ArrayStays DEF ArrayInv, Rearranges
<1>10. Inserting'
  <2>1. work' = [step |-> "insert", at |-> here + 1, length |-> n]
    BY <1>2, <1>7
  <2>2. here + 1 \in Int /\ first < here + 1 /\ here + 1 <= first + n
    BY <1>1, <1>2, <1>3 DEF Insert
  <2>3. QED
    BY <1>2, <1>7, <2>1, <2>2 DEF Inserting
<1>11. QED
  BY <1>8, <1>9, <1>10 DEF EntriesInv

LEMMA PushEntries == ASSUME IInv, EntriesInv, Push PROVE EntriesInv'
<1>1. ArrayInv /\ AllThere /\ Inserting /\ first \in Nat /\ remaining \in Nat
  BY WorkAtHand DEF EntriesInv, Push, IInv, StackTypeOK
<1>2. work.length \in Int
  BY <1>1 DEF Inserting
<1>3. scores' = scores /\ temporary' = temporary /\ minimumGallop' = minimumGallop /\ ranking' = ranking /\ work' = Idle
  BY DEF Push
<1>4. first' + remaining' = first + remaining
  <2>1. \/ first' = first /\ remaining' = remaining
        \/ first' = first + work.length /\ remaining' = remaining - work.length
    BY DEF Push, PushRun
  <2>2. QED
    BY <2>1, <1>1, <1>2
<1>5. ArrayInv'
  BY <1>1, <1>3, <1>4, ArrayStays DEF ArrayInv
<1>6. AllThere'
  BY <1>1, <1>3, AllStay
<1>7. QED
  BY <1>3, <1>5, <1>6 DEF EntriesInv, Idle

\* The two runs that are merged lie within the array, side by side.
LEMMA RunsWithin ==
  ASSUME IInv, RunsAreContiguous, NEW i \in 1 .. Len(pending) - 1, i >= Len(pending) - 2
  PROVE  /\ pending[i].base \in Nat /\ pending[i].length \in Nat \ {0}
         /\ pending[i + 1].base = pending[i].base + pending[i].length
         /\ pending[i + 1].length \in Nat \ {0}
         /\ pending[i + 1].base + pending[i + 1].length <= first
<1>1. pending \in Seq(Run) /\ first \in Nat
  BY DEF IInv, StackTypeOK
<1>2. Len(pending) \in Nat /\ i \in 1 .. Len(pending) /\ i + 1 \in 1 .. Len(pending)
  BY <1>1
<1>3. /\ pending[i].base \in Nat /\ pending[i].length \in Nat \ {0}
      /\ pending[i + 1].base \in Nat /\ pending[i + 1].length \in Nat \ {0}
  BY <1>1, <1>2, RunAt
<1>4. pending[i + 1].base = pending[i].base + pending[i].length
  BY DEF RunsAreContiguous
<1>5. pending[Len(pending)].base + pending[Len(pending)].length = first
  <2>1. pending # <<>>
    BY <1>2
  <2>2. QED
    BY <2>1 DEF RunsAreContiguous
<1>6. CASE i + 1 = Len(pending)
  BY <1>3, <1>4, <1>5, <1>6
<1>7. CASE i + 2 = Len(pending)
  <2>1. i + 1 \in 1 .. Len(pending) - 1 /\ i + 2 \in 1 .. Len(pending) /\ (i + 1) + 1 = i + 2
    BY <1>2, <1>7
  <2>2. pending[i + 2].base = pending[i + 1].base + pending[i + 1].length
    BY <2>1 DEF RunsAreContiguous
  <2>3. pending[i + 2].length \in Nat \ {0} /\ pending[i + 2].base \in Nat
    BY <1>1, <2>1, RunAt
  <2>4. pending[i + 2].base + pending[i + 2].length = first
    BY <1>5, <1>7
  <2>5. pending[i + 2].base <= first
    BY <2>3, <2>4
  <2>6. QED
    BY <1>3, <1>4, <2>2, <2>5
<1>8. QED
  BY <1>2, <1>6, <1>7

LEMMA MergeRunsEntries ==
  ASSUME IInv, RunsAreContiguous, EntriesInv,
         NEW i \in 1 .. Len(pending) - 1, i >= Len(pending) - 2, MergeRuns(i),
         first' = first, remaining' = remaining
  PROVE  EntriesInv'
<1>1. ArrayInv /\ AllThere /\ first \in Nat /\ remaining \in Nat
  BY WorkAtHand DEF EntriesInv, MergeRuns, IInv, StackTypeOK
<1>2. scores' = scores /\ temporary' = temporary /\ minimumGallop' = minimumGallop /\ ranking' = ranking
  BY DEF MergeRuns
<1>3. ArrayInv' /\ AllThere'
  BY <1>1, <1>2, ArrayStays, AllStay DEF ArrayInv
<1> DEFINE r1 == pending[i]
           r2 == pending[i + 1]
<1>4. /\ r1.base \in Nat /\ r1.length \in Nat \ {0} /\ r2.base = r1.base + r1.length
      /\ r2.length \in Nat \ {0} /\ r2.base + r2.length <= first
  BY RunsWithin
<1>5. \/ work' = Idle
      \/ \E prefix \in 0 .. r1.length, nb \in 0 .. r2.length :
           /\ r1.length - prefix # 0 /\ nb # 0
           /\ work' = [step |-> "begin", start |-> [a |-> r1.base + prefix, b |-> r2.base],
                       left |-> [a |-> r1.length - prefix, b |-> nb]]
  <2> DEFINE sliceA == Slice(ranking, r1.base, r1.length)
             sliceB == Slice(ranking, r2.base, r2.length)
             last == ranking[r1.base + r1.length - 1]
  <2>1. PICK prefix \in GallopRight(sliceB[1], sliceA) :
          work' \in IF r1.length - prefix = 0 THEN {Idle}
                    ELSE {IF nb = 0 THEN Idle
                          ELSE [step |-> "begin",
                                start |-> [a |-> r1.base + prefix, b |-> r2.base],
                                left |-> [a |-> r1.length - prefix, b |-> nb]]
                          : nb \in GallopLeft(last, sliceB)}
    BY DEF MergeRuns, Trimmed
  <2>2. Len(sliceA) = r1.length /\ Len(sliceB) = r2.length
    BY <1>4, SliceLength
  <2>3. prefix \in 0 .. r1.length
    BY <2>2 DEF GallopRight
  <2>4. GallopLeft(last, sliceB) \subseteq 0 .. r2.length
    BY <2>2 DEF GallopLeft
  <2> HIDE DEF sliceA, sliceB, last, r1, r2
  <2>5. QED
    BY <2>1, <2>3, <2>4
<1> HIDE DEF r1, r2
<1>6. CASE work' = Idle
  BY <1>3, <1>6 DEF EntriesInv, Idle
<1>7. CASE work' # Idle
  <2>1. PICK prefix \in 0 .. r1.length, nb \in 0 .. r2.length :
           /\ r1.length - prefix # 0 /\ nb # 0
           /\ work' = [step |-> "begin", start |-> [a |-> r1.base + prefix, b |-> r2.base],
                       left |-> [a |-> r1.length - prefix, b |-> nb]]
    BY <1>5, <1>7
  <2> DEFINE a == r1.base + prefix
             b == r2.base
             la == r1.length - prefix
  <2>2. /\ a \in Int /\ b \in Int /\ la \in Int /\ nb \in Int
        /\ 0 <= a /\ 1 <= la /\ b = a + la /\ 1 <= nb
    <3>1. /\ r1.base \in Int /\ 0 <= r1.base /\ r1.length \in Int /\ r2.base = r1.base + r1.length
          /\ r2.length \in Int
      BY <1>4
    <3>2. prefix \in Int /\ 0 <= prefix /\ prefix < r1.length /\ nb \in Int /\ 1 <= nb
      <4>1. prefix \in 0 .. r1.length /\ nb \in 0 .. r2.length /\ r1.length - prefix # 0 /\ nb # 0
        BY <2>1
      <4>2. QED
        BY <3>1, <4>1
    <3>3. QED
      BY <3>1, <3>2
  <2>3. b + nb <= Size
    BY <1>1, <1>4, <2>1 DEF ArrayInv
  <2>4. work' = [step |-> "begin", start |-> [a |-> a, b |-> b], left |-> [a |-> la, b |-> nb]]
    BY <2>1
  <2> HIDE DEF a, b, la
  <2>5. Size' = Size
    BY <1>2, ScoresStay
  <2>6. Beginning'
    BY <2>2, <2>3, <2>4, <2>5 DEF Beginning
  <2>7. QED
    BY <1>3, <2>6 DEF EntriesInv
<1>8. QED
  BY <1>6, <1>7

LEMMA IdleEntries ==
  ASSUME EntriesInv, work = Idle, work' = Idle, scores' = scores, temporary' = temporary,
         minimumGallop' = minimumGallop, first' = first, remaining' = remaining,
         ranking' = ranking \/ ranking' = Reversed(ranking, 0, Size)
  PROVE  EntriesInv'
<1>1. ArrayInv /\ AllThere
  BY WorkAtHand DEF EntriesInv
<1>2. Rearranges(Reversed(ranking, 0, Size), ranking, Size, Entries)
  BY <1>1, ReversedHolds DEF ArrayInv
<1>3. ranking' \in [0 .. Size - 1 -> Entries]
  BY <1>1, <1>2 DEF ArrayInv, Rearranges
<1>4. AllThere'
  BY <1>1, <1>2, AllStay
<1>5. ArrayInv'
  BY <1>1, <1>3, ArrayStays DEF ArrayInv
<1>6. QED
  BY <1>4, <1>5 DEF EntriesInv, Idle

LEMMA MergeRecord ==
  ASSUME NEW low \in BOOLEAN, NEW start \in [Sides -> Int], NEW left \in [Sides -> Int], NEW to \in Int,
         NEW wins \in [Sides -> Int], NEW gallop \in Int
  PROVE  [step |-> "first", low |-> low, start |-> start, left |-> left, to |-> to,
          wins |-> wins, gallop |-> gallop] \in Merges
BY DEF Merges, MergeSteps

\* The shorter run is in the temporary array, and the merge begins.
KeptAway(a, b, la, lb) ==
  /\ 0 <= a /\ 1 <= la /\ b = a + la /\ 1 <= lb /\ b + lb <= Size
  /\ work.start.a = a /\ work.start.b = b /\ work.left.a = la /\ work.left.b = lb
  /\ work' \in Merges /\ work'.step = "first" /\ work'.left.a = la /\ work'.left.b = lb
  /\ IF la <= lb
     THEN /\ work'.low /\ work'.to = a /\ work'.start.a = 0 /\ work'.start.b = b
          /\ la <= Half /\ temporary' = Copied(temporary, 0, ranking, a, la)
     ELSE /\ ~work'.low /\ work'.to = b + lb /\ work'.start.a = a /\ work'.start.b = 0
          /\ lb <= Half /\ temporary' = Copied(temporary, 0, ranking, b, lb)

LEMMA KeepsAway ==
  ASSUME EntriesInv, KeepShorter
  PROVE  \E a, b, la, lb \in Int : KeptAway(a, b, la, lb)
<1>1. ArrayInv /\ Beginning
  BY WorkAtHand DEF EntriesInv, KeepShorter
<1>2. PICK a, b, la, lb \in Int :
    /\ work = [step |-> "begin", start |-> [a |-> a, b |-> b], left |-> [a |-> la, b |-> lb]]
    /\ 0 <= a /\ 1 <= la /\ b = a + la /\ 1 <= lb /\ b + lb <= Size
  BY <1>1 DEF Beginning
<1>3. /\ work.start = [a |-> a, b |-> b] /\ work.left = [a |-> la, b |-> lb]
      /\ work.start.a = a /\ work.start.b = b /\ work.left.a = la /\ work.left.b = lb
  BY <1>2
<1>4. Size \in Nat /\ Half = (Size + 1) \div 2 /\ minimumGallop \in Int
  BY <1>1 DEF ArrayInv, Half
<1> DEFINE left == [a |-> la, b |-> lb]
           none == [a |-> 0, b |-> 0]
<1>5. left \in [Sides -> Int] /\ none \in [Sides -> Int]
  BY Pairs
<1>6. CASE la <= lb
  <2>1. Shorter = "a"
    BY <1>3, <1>6 DEF Shorter
  <2>2. temporary' = Copied(temporary, 0, ranking, a, la)
    BY <1>3, <2>1 DEF KeepShorter
  <2>3. la <= Half
    <3>1. 2 * la <= Size
      BY <1>2, <1>4, <1>6
    <3>2. QED
      BY <3>1, <1>4, HalfIs
  <2> DEFINE start == [a |-> 0, b |-> b]
  <2>4. start \in [Sides -> Int]
    BY Pairs
  <2>5. work' = [step |-> "first", low |-> TRUE, start |-> start, left |-> left,
                 to |-> a, wins |-> none, gallop |-> minimumGallop]
    <3>1. [work.start EXCEPT !["a"] = 0] = [a |-> 0, b |-> b]
      BY <1>3
    <3>2. QED
      BY <1>3, <2>1, <3>1 DEF KeepShorter
  <2>6. work' \in Merges
    <3> HIDE DEF start, left, none
    <3>1. QED
      BY <1>4, <1>5, <2>4, <2>5, MergeRecord
  <2>7. /\ work'.step = "first" /\ work'.low /\ work'.to = a /\ work'.start.a = 0 /\ work'.start.b = b
        /\ work'.left.a = la /\ work'.left.b = lb
    BY <2>5
  <2>8. KeptAway(a, b, la, lb)
    BY <1>2, <1>3, <1>6, <2>2, <2>3, <2>6, <2>7 DEF KeptAway
  <2>9. QED
    BY <2>8
<1>7. CASE ~(la <= lb)
  <2>1. Shorter = "b"
    BY <1>3, <1>7 DEF Shorter
  <2>2. temporary' = Copied(temporary, 0, ranking, b, lb)
    BY <1>3, <2>1 DEF KeepShorter
  <2>3. lb <= Half
    <3>1. 2 * lb <= Size
      BY <1>2, <1>4, <1>7
    <3>2. QED
      BY <3>1, <1>4, HalfIs
  <2> DEFINE start == [a |-> a, b |-> 0]
             to == b + lb
  <2>4. start \in [Sides -> Int] /\ to \in Int
    BY Pairs
  <2>5. work' = [step |-> "first", low |-> FALSE, start |-> start, left |-> left,
                 to |-> to, wins |-> none, gallop |-> minimumGallop]
    <3>1. [work.start EXCEPT !["b"] = 0] = [a |-> a, b |-> 0]
      BY <1>3
    <3>2. QED
      BY <1>3, <2>1, <3>1 DEF KeepShorter
  <2>6. work' \in Merges
    <3> HIDE DEF start, left, none, to
    <3>1. QED
      BY <1>4, <1>5, <2>4, <2>5, MergeRecord
  <2>7. /\ work'.step = "first" /\ ~work'.low /\ work'.to = b + lb /\ work'.start.a = a /\ work'.start.b = 0
        /\ work'.left.a = la /\ work'.left.b = lb
    BY <2>5
  <2>8. KeptAway(a, b, la, lb)
    BY <1>2, <1>3, <1>7, <2>2, <2>3, <2>6, <2>7 DEF KeptAway
  <2>9. QED
    BY <2>8
<1>8. QED
  BY <1>6, <1>7

LEMMA KeepShorterEntries == ASSUME EntriesInv, KeepShorter PROVE EntriesInv'
<1>1. ArrayInv /\ AllThere
  BY WorkAtHand DEF EntriesInv, KeepShorter
<1>2. PICK a, b, la, lb \in Int : KeptAway(a, b, la, lb)
  BY KeepsAway
<1>3. /\ 0 <= a /\ 1 <= la /\ b = a + la /\ 1 <= lb /\ b + lb <= Size
      /\ work' \in Merges /\ work'.step = "first" /\ work'.left.a = la /\ work'.left.b = lb
  BY <1>2 DEF KeptAway
<1>4. /\ scores' = scores /\ ranking' = ranking /\ minimumGallop' = minimumGallop
      /\ first' = first /\ remaining' = remaining /\ Size' = Size /\ Half' = Half /\ Entries' = Entries
  BY ScoresStay DEF KeepShorter, stackVars
<1>5. Size \in Nat /\ Half \in Nat /\ ranking \in [0 .. Size - 1 -> Entries]
      /\ temporary \in [0 .. Half - 1 -> Entries] /\ minimumGallop \in Int
  BY <1>1, HalfIs DEF ArrayInv, Half
<1>6. \A x \in Entries : \E j \in 0 .. Size - 1 : ranking[j] = x
  BY <1>1 DEF AllThere, Members
<1>7. CASE la <= lb
  <2>1. /\ work'.low /\ work'.to = a /\ work'.start.a = 0 /\ work'.start.b = b
        /\ la <= Half /\ temporary' = Copied(temporary, 0, ranking, a, la)
    BY <1>2, <1>7 DEF KeptAway
  <2>2. IsAway(temporary', Half, Entries, ranking, a, la)
    <3>1. 0 <= la /\ a + la <= Size
      BY <1>3, <1>5
    <3>2. QED
      BY <1>3, <1>5, <2>1, <3>1, CopiedAway
  <2>3. Lies(work', Size, Half)
    <3>1. /\ 0 <= la /\ 0 <= lb /\ 0 <= a /\ 0 <= 0 /\ 0 + la <= Half
      BY <1>3, <2>1
    <3>2. Kept(work') = "a" /\ Bottom(work') = a /\ Top(work') = b + lb
      BY <1>3, <2>1 DEF Kept, Low, Bottom, Top
    <3>3. QED
      BY <1>3, <2>1, <3>1, <3>2 DEF Lies
  <2>4. ASSUME NEW x \in Entries PROVE x \in Held(work, ranking, Size)'
    <3>1. PICK j \in 0 .. Size - 1 : ranking[j] = x
      BY <1>6
    <3>2. CASE j < a \/ j >= b + lb
      BY <1>3, <3>1, <3>2, <2>1, <1>4 DEF Held, Bottom, Top
    <3>3. CASE j \in a .. a + la - 1
      <4>1. PICK k \in 0 .. la - 1 : temporary'[k] = x
        BY <3>1, <3>3, <2>2 DEF IsAway
      <4>2. k \in Places(work', "a")
        BY <2>1, <1>3 DEF Places
      <4>3. QED
        BY <1>3, <4>1, <4>2, <2>1 DEF Held, Places, Store, Kept, Low
    <3>4. CASE j \in b .. b + lb - 1
      <4>1. j \in Places(work', "b")
        BY <1>3, <3>4, <2>1 DEF Places
      <4>2. QED
        BY <1>3, <4>1, <3>1, <2>1, <1>4 DEF Held, Places, Store, Kept, Low
    <3>5. QED
      BY <3>2, <3>3, <3>4, <1>3
  <2>5. Merging'
    BY <1>3, <1>4, <2>1, <2>3, <2>4 DEF Merging, MergeSteps
  <2>6. ArrayInv'
    BY <1>1, <1>4, <1>5, <2>2, ArrayStays DEF ArrayInv, IsAway
  <2>7. QED
    BY <2>5, <2>6 DEF EntriesInv
<1>8. CASE ~(la <= lb)
  <2>1. /\ ~work'.low /\ work'.to = b + lb /\ work'.start.a = a /\ work'.start.b = 0
        /\ lb <= Half /\ temporary' = Copied(temporary, 0, ranking, b, lb)
    BY <1>2, <1>8 DEF KeptAway
  <2>2. IsAway(temporary', Half, Entries, ranking, b, lb)
    <3>1. 0 <= lb /\ 0 <= b
      BY <1>3, <1>5
    <3>2. QED
      BY <1>3, <1>5, <2>1, <3>1, CopiedAway
  <2>3. Lies(work', Size, Half)
    <3>1. b + lb = a + la + lb
      BY <1>3
    <3>2. QED
      <4>1. 0 <= la /\ 0 <= lb /\ 0 <= a /\ 0 <= 0 /\ 0 + lb <= Half
        BY <1>3, <2>1
      <4>2. Kept(work') = "b" /\ Bottom(work') = a /\ Top(work') = b + lb
        BY <1>3, <2>1 DEF Kept, Low, Bottom, Top
      <4>3. QED
        BY <1>3, <2>1, <3>1, <4>1, <4>2 DEF Lies
  <2>4. ASSUME NEW x \in Entries PROVE x \in Held(work, ranking, Size)'
    <3>1. PICK j \in 0 .. Size - 1 : ranking[j] = x
      BY <1>6
    <3>2. CASE j < a \/ j >= b + lb
      BY <1>3, <3>1, <3>2, <2>1, <1>4 DEF Held, Bottom, Top
    <3>3. CASE j \in b .. b + lb - 1
      <4>1. PICK k \in 0 .. lb - 1 : temporary'[k] = x
        BY <3>1, <3>3, <2>2 DEF IsAway
      <4>2. k \in Places(work', "b")
        BY <2>1, <1>3 DEF Places
      <4>3. QED
        BY <1>3, <4>1, <4>2, <2>1 DEF Held, Places, Store, Kept, Low
    <3>4. CASE j \in a .. a + la - 1
      <4>1. j \in Places(work', "a")
        BY <1>3, <3>4, <2>1 DEF Places
      <4>2. QED
        BY <1>3, <4>1, <3>1, <2>1, <1>4 DEF Held, Places, Store, Kept, Low
    <3>5. QED
      BY <3>2, <3>3, <3>4, <1>3
  <2>5. Merging'
    BY <1>3, <1>4, <2>1, <2>3, <2>4 DEF Merging, MergeSteps
  <2>6. ArrayInv'
    BY <1>1, <1>4, <1>5, <2>2, ArrayStays DEF ArrayInv, IsAway
  <2>7. QED
    BY <2>5, <2>6 DEF EntriesInv
<1>9. QED
  BY <1>7, <1>8

\* A merge is where it was when only its counters and its step change.
SameMerge(w) ==
  /\ w \in Merges /\ w.step \in MergeSteps \ {"first"}
  /\ w.low = work.low /\ w.start = work.start /\ w.left = work.left /\ w.to = work.to

LEMMA MergeStepEntries ==
  ASSUME EntriesInv, Merging, NEW w, SameMerge(w), NEW side \in Sides,
         NEW n \in Int, 0 <= n, n <= work.left[side], Take(w, side, n),
         UNCHANGED stackVars, scores' = scores, temporary' = temporary, minimumGallop' \in Int
  PROVE  EntriesInv'
<1>1. ArrayInv
  BY DEF EntriesInv
<1>2. Size \in Nat /\ Half \in Nat /\ ranking \in [0 .. Size - 1 -> Entries]
      /\ temporary \in [0 .. Half - 1 -> Entries]
  BY <1>1, HalfIs DEF ArrayInv, Half
<1>3. w.low = work.low /\ w.start = work.start /\ w.left = work.left /\ w.to = work.to /\ w \in Merges
  BY DEF SameMerge
<1>4. Lies(w, Size, Half)
  BY <1>3 DEF Merging, Lies, Bottom, Top, Kept, Low
<1>5. Held(w, ranking, Size) = Held(work, ranking, Size)
  BY <1>3 DEF Held, Bottom, Top, Places, Store, Kept, Low
<1>6. n <= w.left[side]
  BY <1>3
<1> DEFINE rest == Rest(w, side, n)
<1>7. /\ ranking' \in [0 .. Size - 1 -> Entries]
      /\ \/ work' = Idle /\ Held(w, ranking, Size) \subseteq Members(ranking', Size)
         \/ /\ work' = rest /\ ~MergeEnds(work') /\ Lies(work', Size, Half)
            /\ Held(w, ranking, Size) \subseteq Held(rest, ranking', Size)
  BY <1>2, <1>4, <1>6, TakeHolds
<1>8. Entries \subseteq Held(w, ranking, Size)
  BY <1>5 DEF Merging
<1>9. Size' = Size /\ Half' = Half /\ Entries' = Entries
  BY ScoresStay
<1>10. ArrayInv'
  BY <1>1, <1>2, <1>7, ArrayStays DEF stackVars
<1>11. CASE work' = Idle /\ Held(w, ranking, Size) \subseteq Members(ranking', Size)
  <2>1. AllThere'
    BY <1>8, <1>9, <1>11 DEF AllThere, Members
  <2>2. QED
    BY <2>1, <1>10, <1>11 DEF EntriesInv, Idle
<1>12. CASE /\ work' = rest /\ ~MergeEnds(work') /\ Lies(work', Size, Half)
            /\ Held(w, ranking, Size) \subseteq Held(rest, ranking', Size)
  <2>1. rest.step = w.step
    BY <1>3, RestOf
  <2>2. Held(rest, ranking', Size) = Held(work, ranking, Size)'
    BY <1>9, <1>12 DEF Held, Bottom, Top, Places, Store, Kept, Low
  <2>3. Merging'
    BY <1>8, <1>9, <1>12, <2>1, <2>2 DEF Merging, SameMerge, MergeEnds, Kept, Other, Low
  <2>4. QED
    BY <1>10, <2>3 DEF EntriesInv
<1>13. QED
  BY <1>7, <1>11, <1>12

\* A step of a merge: n entries of a side are taken, and the merge goes on as w.
Takes(w, side, n) ==
  /\ Merging /\ SameMerge(w) /\ side \in Sides /\ n \in Int /\ 0 <= n /\ n <= work.left[side]
  /\ Take(w, side, n)
  /\ UNCHANGED <<stackVars, scores, reverse, temporary>> /\ minimumGallop' \in Int

LEMMA TakesEntries ==
  ASSUME EntriesInv, NEW w, NEW side, NEW n, Takes(w, side, n)
  PROVE  EntriesInv'
BY MergeStepEntries DEF Takes

LEMMA MergeSides ==
  ASSUME Merging
  PROVE  /\ work \in Merges
         /\ work.left \in [Sides -> Int] /\ \A s \in Sides : work.left[s] \in Nat
         /\ Other(work) \in Sides /\ Kept(work) \in Sides
         /\ work.step # "first" => \A s \in Sides : work.left[s] >= 1
         /\ work.step = "first" => \A s \in Sides : work.left[s] >= 1
<1>1. work \in Merges /\ work.left.a >= 0 /\ work.left.b >= 0
  BY DEF Merging, Lies
<1>2. work.left \in [Sides -> Int] /\ work.left.a \in Int /\ work.left.b \in Int
  BY <1>1, MergeNumbers
<1>3. Other(work) \in Sides /\ Kept(work) \in Sides
  BY DEF Other, Kept, Sides
<1>4. ASSUME work.step # "first" PROVE work.left.a >= 1 /\ work.left.b >= 1
  BY <1>1, <1>2, <1>4 DEF Merging, MergeEnds, Kept, Other
<1>5. QED
  BY <1>1, <1>2, <1>3, <1>4 DEF Merging, Sides

LEMMA SteppedMerge ==
  ASSUME work \in Merges, NEW wins \in [Sides -> Int], NEW gallop \in Int, NEW step \in MergeSteps \ {"first"}
  PROVE  SameMerge([work EXCEPT !.wins = wins, !.gallop = gallop, !.step = step])
BY DEF SameMerge, Merges

LEMMA FirstEntryTakes ==
  ASSUME EntriesInv, FirstEntry
  PROVE  /\ work.step = "first"
         /\ \E w : Takes(w, Other(work), 1) /\ w.step \notin {"one_a", "one_b"}
<1>1. Merging /\ work.step = "first"
  BY WorkAtHand DEF FirstEntry, MergeSteps
<1> DEFINE w == [work EXCEPT !.step = "pair"]
<1>2. SameMerge(w)
  BY <1>1, MergeSides DEF SameMerge, Merges, MergeSteps
<1>3. Take(w, Other(work), 1) /\ UNCHANGED <<stackVars, scores, reverse, temporary, minimumGallop>>
  BY DEF FirstEntry
<1>4. Other(work) \in Sides /\ 1 <= work.left[Other(work)]
  BY <1>1, MergeSides
<1>5. minimumGallop \in Int
  BY DEF EntriesInv, ArrayInv
<1>6. w.step = "pair"
  BY <1>1, MergeSides DEF Merges
<1> HIDE DEF w
<1>7. Takes(w, Other(work), 1)
  BY <1>1, <1>2, <1>3, <1>4, <1>5 DEF Takes
<1>8. QED
  BY <1>1, <1>6, <1>7

LEMMA PairTakes ==
  ASSUME EntriesInv, Pair
  PROVE  \E w : /\ Takes(w, IF Less(Front("b"), Front("a")) = Low(work) THEN "b" ELSE "a", 1)
               /\ w.step \notin {"one_a", "one_b"}
<1>1. Merging /\ work.step = "pair"
  BY WorkAtHand DEF Pair, MergeSteps
<1> DEFINE winner == IF Less(Front("b"), Front("a")) = Low(work) THEN "b" ELSE "a"
           won == [s \in {"a", "b"} |-> IF s = winner THEN work.wins[s] + 1 ELSE 0]
           w == IF won[winner] < work.gallop
                THEN [work EXCEPT !.wins = won]
                ELSE [work EXCEPT !.wins = won, !.gallop = @ + 1, !.step = "gallop_a"]
<1>2. winner \in Sides
  BY DEF Sides
<1>3. Take(w, winner, 1) /\ UNCHANGED <<stackVars, scores, reverse, temporary, minimumGallop>>
  BY DEF Pair
<1> HIDE DEF winner
<1>4. work \in Merges /\ won \in [Sides -> Int]
  <2>1. work \in Merges
    BY <1>1, MergeSides
  <2>2. work.wins \in [Sides -> Int]
    BY <2>1 DEF Merges
  <2>3. QED
    BY <2>1, <2>2 DEF Sides
<1> HIDE DEF won
<1>5. SameMerge(w)
  <2>1. SameMerge([work EXCEPT !.wins = won])
    BY <1>1, <1>4 DEF SameMerge, Merges, MergeSteps
  <2>2. SameMerge([work EXCEPT !.wins = won, !.gallop = @ + 1, !.step = "gallop_a"])
    <3> DEFINE gallop == work.gallop + 1
    <3>1. gallop \in Int
      BY <1>4 DEF Merges
    <3> HIDE DEF gallop
    <3>2. SameMerge([work EXCEPT !.wins = won, !.gallop = gallop, !.step = "gallop_a"])
      BY <1>4, <3>1, SteppedMerge DEF MergeSteps
    <3>3. QED
      BY <3>2 DEF gallop
  <2>3. QED
    BY <2>1, <2>2
<1>6. 1 <= work.left[winner]
  BY <1>1, <1>2, MergeSides
<1>7. minimumGallop \in Int
  BY DEF EntriesInv, ArrayInv
<1>8. w.step \notin {"one_a", "one_b"}
  BY <1>1, <1>4 DEF Merges
<1> HIDE DEF w
<1>9. Takes(w, winner, 1)
  BY <1>1, <1>2, <1>3, <1>5, <1>6, <1>7 DEF Takes
<1>10. QED
  BY <1>8, <1>9 DEF winner

\* A gallop finds at most what is left of its side.
LEMMA GallopedWithin ==
  ASSUME Merging, NEW side \in Sides, NEW key, NEW n,
         n \in Galloped(side, GallopRight(key, Remaining(side)))
           \cup Galloped(side, GallopLeft(key, Remaining(side)))
  PROVE  n \in Int /\ 0 <= n /\ n <= work.left[side]
<1>1. work.left[side] \in Nat
  BY MergeSides
<1>2. Len(Remaining(side)) = work.left[side]
  BY <1>1, SliceLength DEF Remaining
<1>3. PICK k \in 0 .. work.left[side] : n = IF Low(work) THEN k ELSE work.left[side] - k
  BY <1>2 DEF Galloped, GallopRight, GallopLeft
<1>4. QED
  BY <1>1, <1>3

LEMMA GallopATakes ==
  ASSUME EntriesInv, GallopA
  PROVE  \E w, n : /\ n \in Galloped("a", GallopRight(Front("b"), Remaining("a")))
                  /\ Takes(w, "a", n) /\ w.step = "one_b"
<1>1. Merging /\ work.step = "gallop_a"
  BY WorkAtHand DEF GallopA, MergeSteps
<1> DEFINE lowered == IF work.gallop > 1 THEN work.gallop - 1 ELSE work.gallop
<1>2. PICK n \in Galloped("a", GallopRight(Front("b"), Remaining("a"))) :
         Take([work EXCEPT !.wins.a = n, !.gallop = lowered, !.step = "one_b"], "a", n)
  BY DEF GallopA
<1>3. UNCHANGED <<stackVars, scores, reverse, temporary>> /\ minimumGallop' = lowered
  BY DEF GallopA
<1>4. "a" \in Sides
  BY DEF Sides
<1>5. n \in Int /\ 0 <= n /\ n <= work.left["a"]
  BY <1>1, <1>4, GallopedWithin
<1>6. work \in Merges /\ work.gallop \in Int /\ lowered \in Int
  BY <1>1, MergeSides DEF Merges
<1> DEFINE w == [work EXCEPT !.wins.a = n, !.gallop = lowered, !.step = "one_b"]
           wins == [work.wins EXCEPT !["a"] = n]
<1> HIDE DEF lowered
<1>7. wins \in [Sides -> Int]
  BY <1>5, <1>6 DEF Merges
<1>8. w = [work EXCEPT !.wins = wins, !.gallop = lowered, !.step = "one_b"]
  BY <1>6 DEF Merges
<1>9. Take(w, "a", n)
  BY <1>2
<1> HIDE DEF w, wins
<1>10. SameMerge(w)
  BY <1>1, <1>6, <1>7, <1>8 DEF SameMerge, Merges, MergeSteps
<1>11. w.step = "one_b"
  BY <1>6, <1>8 DEF Merges
<1>12. Takes(w, "a", n)
  BY <1>1, <1>3, <1>4, <1>5, <1>6, <1>9, <1>10 DEF Takes
<1>13. QED
  BY <1>2, <1>11, <1>12

LEMMA GallopBTakes ==
  ASSUME EntriesInv, GallopB
  PROVE  \E w, n : /\ n \in Galloped("b", GallopLeft(Front("a"), Remaining("b")))
                  /\ Takes(w, "b", n) /\ w.step = "one_a"
<1>1. Merging /\ work.step = "gallop_b"
  BY WorkAtHand DEF GallopB, MergeSteps
<1>2. PICK n \in Galloped("b", GallopLeft(Front("a"), Remaining("b"))) :
          Take([work EXCEPT !.wins.b = n, !.step = "one_a"], "b", n)
  BY DEF GallopB
<1>3. UNCHANGED <<stackVars, scores, reverse, temporary, minimumGallop>>
  BY DEF GallopB
<1>4. "b" \in Sides
  BY DEF Sides
<1>5. n \in Int /\ 0 <= n /\ n <= work.left["b"]
  BY <1>1, <1>4, GallopedWithin
<1>6. work \in Merges /\ minimumGallop \in Int
  BY <1>1, MergeSides DEF EntriesInv, ArrayInv
<1> DEFINE w == [work EXCEPT !.wins.b = n, !.step = "one_a"]
           wins == [work.wins EXCEPT !["b"] = n]
<1>7. wins \in [Sides -> Int]
  BY <1>5, <1>6 DEF Merges
<1>8. w = [work EXCEPT !.wins = wins, !.step = "one_a"]
  BY <1>6 DEF Merges
<1>9. Take(w, "b", n)
  BY <1>2
<1> HIDE DEF w, wins
<1>10. SameMerge(w)
  BY <1>1, <1>6, <1>7, <1>8 DEF SameMerge, Merges, MergeSteps
<1>11. w.step = "one_a"
  BY <1>6, <1>8 DEF Merges
<1>12. Takes(w, "b", n)
  BY <1>1, <1>3, <1>4, <1>5, <1>6, <1>9, <1>10 DEF Takes
<1>13. QED
  BY <1>2, <1>11, <1>12

LEMMA OneBTakes ==
  ASSUME EntriesInv, OneB
  PROVE  work.step = "one_b" /\ \E w : Takes(w, "b", 1) /\ w.step \notin {"one_a", "one_b"}
<1>1. Merging /\ work.step = "one_b"
  BY WorkAtHand DEF OneB, MergeSteps
<1> DEFINE w == [work EXCEPT !.step = "gallop_b"]
<1>2. SameMerge(w)
  BY <1>1, MergeSides DEF SameMerge, Merges, MergeSteps
<1>3. Take(w, "b", 1) /\ UNCHANGED <<stackVars, scores, reverse, temporary, minimumGallop>>
  BY DEF OneB
<1>4. "b" \in Sides /\ 1 <= work.left["b"]
  BY <1>1, MergeSides DEF Sides
<1>5. minimumGallop \in Int
  BY DEF EntriesInv, ArrayInv
<1>6. w.step = "gallop_b"
  BY <1>1, MergeSides DEF Merges
<1> HIDE DEF w
<1>7. Takes(w, "b", 1)
  BY <1>1, <1>2, <1>3, <1>4, <1>5 DEF Takes
<1>8. QED
  BY <1>1, <1>6, <1>7

LEMMA OneATakes ==
  ASSUME EntriesInv, OneA
  PROVE  work.step = "one_a" /\ \E w : Takes(w, "a", 1) /\ w.step \notin {"one_a", "one_b"}
<1>1. Merging /\ work.step = "one_a"
  BY WorkAtHand DEF OneA, MergeSteps
<1> DEFINE pays == work.wins.a >= MinimumGallop \/ work.wins.b >= MinimumGallop
           none == [a |-> 0, b |-> 0]
           w == IF pays THEN [work EXCEPT !.step = "gallop_a"]
                ELSE [work EXCEPT !.step = "pair", !.gallop = @ + 1, !.wins = none]
<1>2. Take(w, "a", 1) /\ UNCHANGED <<stackVars, scores, reverse, temporary>>
      /\ minimumGallop' \in {work.gallop + 1, minimumGallop}
  BY DEF OneA
<1>3. work \in Merges /\ work.gallop \in Int /\ minimumGallop \in Int
  BY <1>1, MergeSides DEF Merges, EntriesInv, ArrayInv
<1>4. none \in [Sides -> Int]
  BY Pairs
<1> HIDE DEF pays, none
<1>5. SameMerge(w)
  <2>1. SameMerge([work EXCEPT !.step = "gallop_a"])
    BY <1>1, <1>3 DEF SameMerge, Merges, MergeSteps
  <2>2. SameMerge([work EXCEPT !.step = "pair", !.gallop = @ + 1, !.wins = none])
    <3> DEFINE gallop == work.gallop + 1
    <3>1. gallop \in Int
      BY <1>3
    <3> HIDE DEF gallop
    <3>2. SameMerge([work EXCEPT !.wins = none, !.gallop = gallop, !.step = "pair"])
      BY <1>3, <1>4, <3>1, SteppedMerge DEF MergeSteps
    <3>3. [work EXCEPT !.wins = none, !.gallop = gallop, !.step = "pair"]
            = [work EXCEPT !.step = "pair", !.gallop = gallop, !.wins = none]
      BY <1>3 DEF Merges
    <3>4. QED
      BY <3>2, <3>3 DEF gallop
  <2>3. QED
    BY <2>1, <2>2
<1>6. "a" \in Sides /\ 1 <= work.left["a"]
  BY <1>1, MergeSides DEF Sides
<1>7. minimumGallop' \in Int
  BY <1>2, <1>3
<1>8. w.step \notin {"one_a", "one_b"}
  BY <1>3 DEF Merges
<1> HIDE DEF w
<1>9. Takes(w, "a", 1)
  BY <1>1, <1>2, <1>5, <1>6, <1>7 DEF Takes
<1>10. QED
  BY <1>1, <1>8, <1>9

LEMMA MergeTakes ==
  ASSUME EntriesInv, FirstEntry \/ Pair \/ GallopA \/ OneB \/ GallopB \/ OneA
  PROVE  \E w, side, n : Takes(w, side, n)
BY FirstEntryTakes, PairTakes, GallopATakes, OneBTakes, GallopBTakes, OneATakes

LEMMA NextEntries ==
  ASSUME IInv, RunsAreContiguous, EntriesInv, [Next]_vars
  PROVE  EntriesInv'
<1>1. CASE CollapseRuns
  <2>1. CollapseIndex(pending) \in 1 .. Len(pending) - 1 /\ CollapseIndex(pending) >= Len(pending) - 2
    BY <1>1, CollapseIndexInRange DEF CollapseRuns, Collapse, MustCollapse, IInv, StackTypeOK
  <2>2. MergeRuns(CollapseIndex(pending)) /\ first' = first /\ remaining' = remaining
    BY <1>1 DEF CollapseRuns, Collapse, MergeAt
  <2>3. QED
    BY <2>1, <2>2, MergeRunsEntries
<1>2. CASE ForceRuns
  <2>1. Len(pending) > 1 /\ pending \in Seq(Run)
    BY <1>2 DEF ForceRuns, ForceCollapse, IInv, StackTypeOK
  <2>2. MergeIndex(pending) \in 1 .. Len(pending) - 1 /\ MergeIndex(pending) >= Len(pending) - 2
    BY <2>1 DEF MergeIndex
  <2>3. MergeRuns(MergeIndex(pending)) /\ first' = first /\ remaining' = remaining
    BY <1>2 DEF ForceRuns, ForceCollapse, MergeAt
  <2>4. QED
    BY <2>2, <2>3, MergeRunsEntries
<1>3. CASE EndCollapse
  BY <1>3, IdleEntries DEF EndCollapse, Collapsed
<1>4. CASE Return
  BY <1>4, IdleEntries DEF Return, StackDone
<1>5. CASE CountRun \/ Insert \/ Push
  BY <1>5, CountRunEntries, InsertEntries, PushEntries
<1>6. CASE KeepShorter
  BY <1>6, KeepShorterEntries
<1>7. CASE FirstEntry \/ Pair \/ GallopA \/ OneB \/ GallopB \/ OneA
  BY <1>7, MergeTakes, TakesEntries
<1>8. CASE UNCHANGED vars
  BY <1>8 DEF vars, EntriesInv, ArrayInv, AllThere, Inserting, Beginning, Merging, Entries, Half, Size,
              Members, Held, Lies, Bottom, Top, Places, Store, Kept, Other, Low, MergeEnds
<1>9. QED
  BY <1>1, <1>2, <1>3, <1>4, <1>5, <1>6, <1>7, <1>8 DEF Next

\* KeepsEntries: between merges the array holds each given entry once, whatever
\* the scores are.
THEOREM EntriesAreKept == Spec => []KeepsEntries
<1>1. IInv /\ RunsAreContiguous /\ EntriesInv /\ [Next]_vars => EntriesInv'
  BY NextEntries
<1>2. Spec => []EntriesInv
  BY <1>1, InitEntries, SpecIInv, PendingRunsAdjoin, PTL DEF Spec
<1>3. QED
  BY <1>2, KeptEntries, PTL

-----------------------------------------------------------------------------
(* TimSort: the order of the entries.                                        *)

\* The place at which an entry was given to the sort, counted from the other
\* end when the array is reversed first.
Given(x) == IF reverse THEN Size - 1 - x.id ELSE x.id
Earlier(x, y) == Given(x) < Given(y)

\* The order of a stable sort.
Before(x, y) == x.value < y.value \/ (x.value = y.value /\ Earlier(x, y))

\* Places with the same label are of one run, which is sorted; the entries of
\* different runs are in the order they were given in, and so are those of the
\* two sides that are yet to be merged, from `lo` and from `mid`.
IsSorted(v, label, size, lo, mid, hi) ==
  \A i, j \in 0 .. size - 1 : i < j =>
    IF label[i] = label[j] /\ ~(lo <= i /\ i < mid /\ mid <= j /\ j < hi)
    THEN Before(v[i], v[j]) ELSE Earlier(v[i], v[j])

\* Holds of entries without NaN; comparisons with a NaN are not transitive.
IsTransitive(E) == \A x, y, z \in E : Before(x, y) /\ Before(y, z) => Before(x, z)

\* Two sorted parts of an array are in order if the last of one and the first
\* of the other are.
Comes(v, p, q, s, t) == \A i \in p .. q, j \in s .. t : Before(v[i], v[j])

LEMMA Chain ==
  ASSUME NEW size \in Nat, NEW E, IsTransitive(E), NEW v \in [0 .. size - 1 -> E],
         NEW p \in Int, NEW q \in Int, NEW s \in Int, NEW t \in Int,
         0 <= p, q < size, 0 <= s, t < size,
         \A i, j \in p .. q : i < j => Before(v[i], v[j]),
         \A i, j \in s .. t : i < j => Before(v[i], v[j]),
         p <= q /\ s <= t => Before(v[q], v[s])
  PROVE  Comes(v, p, q, s, t)
<1> SUFFICES ASSUME NEW i \in p .. q, NEW j \in s .. t PROVE Before(v[i], v[j])
  BY DEF Comes
<1>1. q \in p .. q /\ s \in s .. t /\ i <= q /\ s <= j
  OBVIOUS
<1>2. i \in 0 .. size - 1 /\ j \in 0 .. size - 1 /\ q \in 0 .. size - 1 /\ s \in 0 .. size - 1
  BY <1>1
<1>3. v[i] \in E /\ v[j] \in E /\ v[q] \in E /\ v[s] \in E
  BY <1>2
<1>4. Before(v[q], v[s])
  BY <1>1
<1>5. i = q \/ Before(v[i], v[q])
  BY <1>1
<1>6. Before(v[i], v[s])
  BY <1>3, <1>4, <1>5 DEF IsTransitive
<1>7. j = s \/ Before(v[s], v[j])
  BY <1>1
<1>8. QED
  BY <1>3, <1>6, <1>7 DEF IsTransitive

\* Nothing is left to merge when one side is empty.
LEMMA NoSplit ==
  ASSUME NEW v, NEW label, NEW size \in Nat, NEW lo \in Int, NEW mid \in Int, NEW hi \in Int,
         lo >= mid \/ mid >= hi
  PROVE  IsSorted(v, label, size, lo, mid, hi) <=> IsSorted(v, label, size, 0, 0, 0)
<1>1. \A i, j \in 0 .. size - 1 : ~(lo <= i /\ i < mid /\ mid <= j /\ j < hi)
  OBVIOUS
<1>2. \A i, j \in 0 .. size - 1 : ~(0 <= i /\ i < 0 /\ 0 <= j /\ j < 0)
  OBVIOUS
<1>3. QED
  BY <1>1, <1>2 DEF IsSorted

\* Entries of one side that come before what is left of the other are in place.
LEMMA Settled ==
  ASSUME NEW v, NEW label, NEW size \in Nat, NEW lo \in Int, NEW mid \in Int, NEW hi \in Int,
         NEW n \in Int, 0 <= n, IsSorted(v, label, size, lo, mid, hi)
  PROVE  /\ Comes(v, lo, lo + n - 1, mid, hi - 1) => IsSorted(v, label, size, lo + n, mid, hi)
         /\ Comes(v, lo, mid - 1, hi - n, hi - 1) => IsSorted(v, label, size, lo, mid, hi - n)
<1>1. ASSUME Comes(v, lo, lo + n - 1, mid, hi - 1), NEW i \in 0 .. size - 1, NEW j \in 0 .. size - 1, i < j
      PROVE  IF label[i] = label[j] /\ ~(lo + n <= i /\ i < mid /\ mid <= j /\ j < hi)
             THEN Before(v[i], v[j]) ELSE Earlier(v[i], v[j])
  <2>1. CASE i \in lo .. lo + n - 1 /\ j \in mid .. hi - 1 /\ i < mid
    BY <1>1, <2>1 DEF Comes, IsSorted
  <2>2. CASE ~(i \in lo .. lo + n - 1 /\ j \in mid .. hi - 1 /\ i < mid)
    BY <1>1, <2>2 DEF IsSorted
  <2>3. QED
    BY <2>1, <2>2
<1>2. ASSUME Comes(v, lo, mid - 1, hi - n, hi - 1), NEW i \in 0 .. size - 1, NEW j \in 0 .. size - 1, i < j
      PROVE  IF label[i] = label[j] /\ ~(lo <= i /\ i < mid /\ mid <= j /\ j < hi - n)
             THEN Before(v[i], v[j]) ELSE Earlier(v[i], v[j])
  <2>1. CASE i \in lo .. mid - 1 /\ j \in hi - n .. hi - 1 /\ mid <= j
    BY <1>2, <2>1 DEF Comes, IsSorted
  <2>2. CASE ~(i \in lo .. mid - 1 /\ j \in hi - n .. hi - 1 /\ mid <= j)
    BY <1>2, <2>2 DEF IsSorted
  <2>3. QED
    BY <2>1, <2>2
<1>3. QED
  BY <1>1, <1>2 DEF IsSorted

\* In u the parts of v from p and from q have changed places.
Rotates(u, v, size, p, q, s) ==
  /\ \A i \in 0 .. size - 1 : i < p \/ s <= i => u[i] = v[i]
  /\ \A i \in p .. p + (s - q) - 1 : u[i] = v[i + (q - p)]
  /\ \A i \in p + (s - q) .. s - 1 : u[i] = v[i - (s - q)]

\* The places from lo to hi are of one run.
OneLabel(label, lo, hi) == \A i, j \in lo .. hi - 1 : label[i] = label[j]

\* Entries of the right side that come before all of the left go to its left.
LEMMA RotatesLow ==
  ASSUME NEW v, NEW u, NEW label, NEW size \in Nat, NEW lo \in Int, NEW mid \in Int, NEW hi \in Int,
         NEW n \in Int, 0 <= n, 0 <= lo, lo <= mid, mid + n <= hi, hi <= size,
         IsSorted(v, label, size, lo, mid, hi), OneLabel(label, lo, hi),
         Comes(v, mid, mid + n - 1, lo, mid - 1), Rotates(u, v, size, lo, mid, mid + n)
  PROVE  IsSorted(u, label, size, lo + n, mid + n, hi)
<1> DEFINE Was(i) == IF i < lo \/ mid + n <= i THEN i ELSE IF i < lo + n THEN i + (mid - lo) ELSE i - n
<1>1. ASSUME NEW i \in 0 .. size - 1
      PROVE  /\ Was(i) \in 0 .. size - 1 /\ u[i] = v[Was(i)]
             /\ label[Was(i)] = label[i]
  <2>1. CASE i < lo \/ mid + n <= i
    BY <2>1 DEF Rotates
  <2>2. CASE lo <= i /\ i < lo + n
    <3>1. i \in lo .. lo + (mid + n - mid) - 1 /\ i \in lo .. hi - 1 /\ i + (mid - lo) \in lo .. hi - 1
          /\ i + (mid - lo) \in 0 .. size - 1
      BY <2>2
    <3>2. QED
      BY <2>2, <3>1 DEF Rotates, OneLabel
  <2>3. CASE lo + n <= i /\ i < mid + n
    <3>1. i \in lo + (mid + n - mid) .. mid + n - 1 /\ i \in lo .. hi - 1 /\ i - n \in lo .. hi - 1
          /\ i - n \in 0 .. size - 1 /\ mid + n - mid = n
      BY <2>3
    <3>2. u[i] = v[i - n]
      BY <3>1 DEF Rotates
    <3>3. label[i - n] = label[i]
      BY <3>1 DEF OneLabel
    <3>4. QED
      BY <2>3, <3>1, <3>2, <3>3
  <2>4. QED
    BY <2>1, <2>2, <2>3
<1>2. ASSUME NEW i \in 0 .. size - 1, NEW j \in 0 .. size - 1, i < j
      PROVE  IF label[i] = label[j] /\ ~(lo + n <= i /\ i < mid + n /\ mid + n <= j /\ j < hi)
             THEN Before(u[i], u[j]) ELSE Earlier(u[i], u[j])
  <2>1. CASE lo <= i /\ i < lo + n /\ lo + n <= j /\ j < mid + n
    <3>1. Was(i) \in mid .. mid + n - 1 /\ Was(j) \in lo .. mid - 1
      BY <2>1
    <3>2. Before(v[Was(i)], v[Was(j)])
      BY <3>1 DEF Comes
    <3>3. label[i] = label[j]
      BY <2>1 DEF OneLabel
    <3>4. QED
      BY <1>1, <2>1, <3>2, <3>3
  <2>2. CASE ~(lo <= i /\ i < lo + n /\ lo + n <= j /\ j < mid + n)
    <3>1. Was(i) < Was(j)
      BY <2>2, <1>2
    <3>2. (lo <= Was(i) /\ Was(i) < mid /\ mid <= Was(j) /\ Was(j) < hi)
            <=> (lo + n <= i /\ i < mid + n /\ mid + n <= j /\ j < hi)
      BY <2>2, <1>2
    <3>3. /\ Was(i) \in 0 .. size - 1 /\ Was(j) \in 0 .. size - 1 /\ u[i] = v[Was(i)] /\ u[j] = v[Was(j)]
          /\ label[Was(i)] = label[i] /\ label[Was(j)] = label[j]
      BY <1>1
    <3> HIDE DEF Was
    <3>4. QED
      BY <3>1, <3>2, <3>3 DEF IsSorted
  <2>3. QED
    BY <2>1, <2>2
<1>3. QED
  BY <1>2 DEF IsSorted

\* Entries of the left side that come behind all of the right go to its right.
LEMMA RotatesHigh ==
  ASSUME NEW v, NEW u, NEW label, NEW size \in Nat, NEW lo \in Int, NEW mid \in Int, NEW hi \in Int,
         NEW n \in Int, 0 <= n, 0 <= lo, lo <= mid - n, mid <= hi, hi <= size,
         IsSorted(v, label, size, lo, mid, hi), OneLabel(label, lo, hi),
         Comes(v, mid, hi - 1, mid - n, mid - 1), Rotates(u, v, size, mid - n, mid, hi)
  PROVE  IsSorted(u, label, size, lo, mid - n, hi - n)
<1> DEFINE p == mid - n
           q == hi - n
           Was(i) == IF i < p \/ hi <= i THEN i ELSE IF i < q THEN i + n ELSE i - (hi - mid)
<1>0. p \in Int /\ q \in Int /\ p + (hi - mid) = q /\ mid - p = n
  OBVIOUS
<1>1. ASSUME NEW i \in 0 .. size - 1
      PROVE  /\ Was(i) \in 0 .. size - 1 /\ u[i] = v[Was(i)]
             /\ label[Was(i)] = label[i]
  <2>1. CASE i < p \/ hi <= i
    BY <2>1 DEF Rotates
  <2>2. CASE p <= i /\ i < q
    <3>1. i \in mid - n .. (mid - n) + (hi - mid) - 1 /\ i \in lo .. hi - 1 /\ i + n \in lo .. hi - 1
          /\ i + n \in 0 .. size - 1 /\ mid - (mid - n) = n
      BY <2>2
    <3>2. u[i] = v[i + n]
      BY <3>1 DEF Rotates
    <3>3. label[i + n] = label[i]
      BY <3>1 DEF OneLabel
    <3>4. QED
      BY <2>2, <3>1, <3>2, <3>3
  <2>3. CASE q <= i /\ i < hi
    <3>1. i \in (mid - n) + (hi - mid) .. hi - 1 /\ i \in lo .. hi - 1 /\ i - (hi - mid) \in lo .. hi - 1
          /\ i - (hi - mid) \in 0 .. size - 1
      BY <2>3
    <3>2. u[i] = v[i - (hi - mid)]
      BY <3>1 DEF Rotates
    <3>3. label[i - (hi - mid)] = label[i]
      BY <3>1 DEF OneLabel
    <3>4. QED
      BY <2>3, <3>1, <3>2, <3>3
  <2>4. QED
    BY <2>1, <2>2, <2>3
<1>2. ASSUME NEW i \in 0 .. size - 1, NEW j \in 0 .. size - 1, i < j
      PROVE  IF label[i] = label[j] /\ ~(lo <= i /\ i < p /\ p <= j /\ j < q)
             THEN Before(u[i], u[j]) ELSE Earlier(u[i], u[j])
  <2>1. CASE p <= i /\ i < q /\ q <= j /\ j < hi
    <3>1. Was(i) \in mid .. hi - 1 /\ Was(j) \in mid - n .. mid - 1
      BY <2>1
    <3>2. Before(v[Was(i)], v[Was(j)])
      BY <3>1 DEF Comes
    <3>3. label[i] = label[j]
      BY <2>1 DEF OneLabel
    <3>4. QED
      BY <1>1, <2>1, <3>2, <3>3
  <2>2. CASE ~(p <= i /\ i < q /\ q <= j /\ j < hi)
    <3>1. Was(i) < Was(j)
      BY <2>2, <1>2
    <3>2. (lo <= Was(i) /\ Was(i) < mid /\ mid <= Was(j) /\ Was(j) < hi)
            <=> (lo <= i /\ i < p /\ p <= j /\ j < q)
      BY <2>2, <1>2
    <3>3. /\ Was(i) \in 0 .. size - 1 /\ Was(j) \in 0 .. size - 1 /\ u[i] = v[Was(i)] /\ u[j] = v[Was(j)]
          /\ label[Was(i)] = label[i] /\ label[Was(j)] = label[j]
      BY <1>1
    <3> HIDE DEF Was
    <3>4. QED
      BY <3>1, <3>2, <3>3 DEF IsSorted
  <2>3. QED
    BY <2>1, <2>2
<1>3. QED
  BY <1>2 DEF IsSorted

\* Two neighbouring runs become one, with all of both yet to be merged.
Relabelled(label, size, p, mid, hi) ==
  [i \in 0 .. size - 1 |-> IF mid <= i /\ i < hi THEN label[p] ELSE label[i]]
\* The run that begins at p ends before q.
IsRun(label, size, p, q) ==
  \A i \in 0 .. size - 1 : label[i] = label[p] <=> p <= i /\ i < q

LEMMA Joins ==
  ASSUME NEW v, NEW size \in Nat, NEW label \in [0 .. size - 1 -> Int], NEW lo \in Int, NEW mid \in Int, NEW hi \in Int,
         0 <= lo, lo < mid, mid < hi, hi <= size, IsSorted(v, label, size, 0, 0, 0),
         IsRun(label, size, lo, mid), IsRun(label, size, mid, hi)
  PROVE  /\ Relabelled(label, size, lo, mid, hi) \in [0 .. size - 1 -> Int]
         /\ IsSorted(v, Relabelled(label, size, lo, mid, hi), size, lo, mid, hi)
         /\ OneLabel(Relabelled(label, size, lo, mid, hi), lo, hi)
<1> DEFINE new == Relabelled(label, size, lo, mid, hi)
<1>1. new \in [0 .. size - 1 -> Int] /\ \A i \in 0 .. size - 1 : new[i] = IF mid <= i /\ i < hi THEN label[lo] ELSE label[i]
  <2>1. lo \in 0 .. size - 1
    OBVIOUS
  <2>2. QED
    BY <2>1 DEF Relabelled
<1> HIDE DEF new
<1>2. ASSUME NEW i \in 0 .. size - 1, NEW j \in 0 .. size - 1, i < j
      PROVE  IF new[i] = new[j] /\ ~(lo <= i /\ i < mid /\ mid <= j /\ j < hi)
             THEN Before(v[i], v[j]) ELSE Earlier(v[i], v[j])
  <2>1. IF label[i] = label[j] THEN Before(v[i], v[j]) ELSE Earlier(v[i], v[j])
    BY <1>2 DEF IsSorted
  <2>2. /\ label[i] = label[lo] <=> lo <= i /\ i < mid
        /\ label[j] = label[lo] <=> lo <= j /\ j < mid
        /\ label[i] = label[mid] <=> mid <= i /\ i < hi
        /\ label[j] = label[mid] <=> mid <= j /\ j < hi
    BY DEF IsRun
  <2>3. /\ new[i] = IF mid <= i /\ i < hi THEN label[lo] ELSE label[i]
        /\ new[j] = IF mid <= j /\ j < hi THEN label[lo] ELSE label[j]
    BY <1>1
  <2>4. QED
    BY <2>1, <2>2, <2>3, <1>2
<1>3. OneLabel(new, lo, hi)
  <2>1. ASSUME NEW i \in lo .. hi - 1 PROVE new[i] = label[lo]
    <3>1. i \in 0 .. size - 1
      OBVIOUS
    <3>2. QED
      BY <3>1, <1>1 DEF IsRun
  <2>2. QED
    BY <2>1 DEF OneLabel
<1>4. QED
  BY <1>1, <1>2, <1>3 DEF IsSorted, new

\* Where the right side begins in the gap, and the array as if what is left of
\* both sides were yet to be merged: the kept side is back in its place.
Middle(w) == Bottom(w) + w.left.a
Unmerged(w, r) ==
  Copied(r, IF w.low THEN w.to ELSE Middle(w), temporary, w.start[Kept(w)], w.left[Kept(w)])

\* v is r with n entries of t, from `from` on, in the places from `to` on.
Overlays(v, size, to, n, t, from, r) ==
  \A i \in 0 .. size - 1 : v[i] = IF to <= i /\ i < to + n THEN t[from + i - to] ELSE r[i]

LEMMA CopiedOverlays ==
  ASSUME NEW size \in Nat, NEW r, DOMAIN r = 0 .. size - 1,
         NEW to \in Int, NEW n \in Int, NEW from, NEW t
  PROVE  Overlays(Copied(r, to, t, from, n), size, to, n, t, from, r)
<1>1. \A i \in 0 .. size - 1 :
        Copied(r, to, t, from, n)[i] = IF i \in to .. to + n - 1 THEN t[from + i - to] ELSE r[i]
  BY DEF Copied
<1>2. \A i \in 0 .. size - 1 : i \in to .. to + n - 1 <=> to <= i /\ i < to + n
  OBVIOUS
<1>3. QED
  BY <1>1, <1>2 DEF Overlays

LEMMA UnmergedLow ==
  ASSUME NEW w, NEW size \in Nat, NEW half \in Nat, NEW E, w.low, Lies(w, size, half),
         NEW r \in [0 .. size - 1 -> E], temporary \in [0 .. half - 1 -> E]
  PROVE  /\ Unmerged(w, r) \in [0 .. size - 1 -> E]
         /\ Middle(w) = w.to + w.left.a
         /\ Overlays(Unmerged(w, r), size, w.to, w.left.a, temporary, w.start.a, r)
<1>1. /\ w \in Merges /\ w.left.a >= 0 /\ w.start.a >= 0 /\ w.start.a + w.left.a <= half
      /\ Kept(w) = "a" /\ Bottom(w) = w.to /\ w.to >= 0
  BY LowMerge
<1>2. w.to \in Int /\ w.left.a \in Int /\ w.start.a \in Int
  BY <1>1, MergeNumbers
<1> DEFINE to == w.to
           n == w.left.a
           from == w.start.a
<1>3. Unmerged(w, r) = Copied(r, to, temporary, from, n)
  BY <1>1 DEF Unmerged
<1>4. /\ to \in Int /\ n \in Int /\ from \in Int /\ 0 <= n /\ 0 <= from /\ from + n <= half
  BY <1>1, <1>2
<1> HIDE DEF to, n, from
<1>5. \A k \in from .. from + n - 1 : temporary[k] \in E
  <2>1. \A k \in from .. from + n - 1 : k \in 0 .. half - 1
    BY <1>4
  <2>2. QED
    BY <2>1
<1>6. Unmerged(w, r) \in [0 .. size - 1 -> E]
  <2>1. IsCopied(Copied(r, to, temporary, from, n), size, E, r, to, temporary, from, n)
    BY <1>4, <1>5, CopiedEntries
  <2>2. QED
    BY <1>3, <2>1 DEF IsCopied
<1>7. Overlays(Unmerged(w, r), size, to, n, temporary, from, r)
  BY <1>3, <1>4, CopiedOverlays
<1>8. QED
  BY <1>1, <1>6, <1>7 DEF Middle, to, n, from

LEMMA UnmergedHigh ==
  ASSUME NEW w, NEW size \in Nat, NEW half \in Nat, NEW E, ~w.low, Lies(w, size, half),
         NEW r \in [0 .. size - 1 -> E], temporary \in [0 .. half - 1 -> E]
  PROVE  /\ Unmerged(w, r) \in [0 .. size - 1 -> E]
         /\ Middle(w) = w.start.a + w.left.a
         /\ Overlays(Unmerged(w, r), size, Middle(w), w.left.b, temporary, w.start.b, r)
<1>1. /\ w \in Merges /\ w.left.b >= 0 /\ w.start.b >= 0 /\ w.start.b + w.left.b <= half
      /\ Kept(w) = "b" /\ Bottom(w) = w.start.a
  BY HighMerge
<1>2. w.start.a \in Int /\ w.left.a \in Int /\ w.start.b \in Int /\ w.left.b \in Int
  BY <1>1, MergeNumbers
<1> DEFINE to == Middle(w)
           n == w.left.b
           from == w.start.b
<1>3. Unmerged(w, r) = Copied(r, to, temporary, from, n)
  BY <1>1 DEF Unmerged
<1>4. /\ to \in Int /\ n \in Int /\ from \in Int /\ 0 <= n /\ 0 <= from /\ from + n <= half
      /\ to = w.start.a + w.left.a
  BY <1>1, <1>2 DEF Middle
<1> HIDE DEF to, n, from
<1>5. \A k \in from .. from + n - 1 : temporary[k] \in E
  <2>1. \A k \in from .. from + n - 1 : k \in 0 .. half - 1
    BY <1>4
  <2>2. QED
    BY <2>1
<1>6. Unmerged(w, r) \in [0 .. size - 1 -> E]
  <2>1. IsCopied(Copied(r, to, temporary, from, n), size, E, r, to, temporary, from, n)
    BY <1>4, <1>5, CopiedEntries
  <2>2. QED
    BY <1>3, <2>1 DEF IsCopied
<1>7. Overlays(Unmerged(w, r), size, to, n, temporary, from, r)
  BY <1>3, <1>4, CopiedOverlays
<1>8. QED
  BY <1>4, <1>6, <1>7 DEF to, n, from

\* The same arrays, place by place.
Agree(u, v, size) == \A i \in 0 .. size - 1 : u[i] = v[i]

\* Moving n entries, in plain numbers: from the kept side they go where they
\* are counted already, from the other one they change places with what is left
\* of the kept side.
LEMMA ShiftsLow ==
  ASSUME NEW size \in Nat, NEW r, NEW t, NEW m, NEW v, NEW u,
         NEW to \in Int, NEW la \in Int, NEW n \in Int, NEW sa \in Int, 0 <= to, 0 <= la, 0 <= n, to + la + n <= size,
         Overlays(m, size, to, n, r, to + la, r), Overlays(v, size, to, la, t, sa, r),
         Overlays(u, size, to + n, la, t, sa, m)
  PROVE  Rotates(u, v, size, to, to + la, to + la + n)
<1> USE DEF Overlays
<1>1. ASSUME NEW i \in 0 .. size - 1, i < to \/ to + la + n <= i PROVE u[i] = v[i]
  BY <1>1
<1>2. ASSUME NEW i \in to .. to + n - 1 PROVE u[i] = v[i + la]
  <2>1. /\ i \in 0 .. size - 1 /\ i + la \in 0 .. size - 1 /\ to + la + i - to = i + la
        /\ to <= i /\ i < to + n /\ ~(i + la < to + la)
    OBVIOUS
  <2>2. m[i] = r[i + la] /\ u[i] = m[i]
    BY <2>1
  <2>3. v[i + la] = r[i + la]
    BY <2>1
  <2>4. QED
    BY <2>2, <2>3
<1>3. ASSUME NEW i \in to + n .. to + la + n - 1 PROVE u[i] = v[i - n]
  <2>1. /\ i \in 0 .. size - 1 /\ i - n \in 0 .. size - 1 /\ sa + i - (to + n) = sa + (i - n) - to
        /\ to + n <= i /\ i < to + n + la /\ to <= i - n /\ i - n < to + la
    OBVIOUS
  <2>2. u[i] = t[sa + i - (to + n)]
    BY <2>1
  <2>3. v[i - n] = t[sa + (i - n) - to]
    BY <2>1
  <2>4. QED
    BY <2>1, <2>2, <2>3
<1>4. to + la + n - (to + la) = n /\ to + la - to = la
  OBVIOUS
<1>5. QED
  BY <1>1, <1>2, <1>3, <1>4 DEF Rotates

LEMMA StaysLow ==
  ASSUME NEW size \in Nat, NEW r, NEW t, NEW m, NEW v, NEW u,
         NEW to \in Int, NEW la \in Int, NEW n \in Int, NEW sa \in Int, 0 <= n, n <= la,
         Overlays(m, size, to, n, t, sa, r), Overlays(v, size, to, la, t, sa, r),
         Overlays(u, size, to + n, la - n, t, sa + n, m)
  PROVE  Agree(u, v, size)
<1> USE DEF Overlays
<1> SUFFICES ASSUME NEW i \in 0 .. size - 1 PROVE u[i] = v[i]
  BY DEF Agree
<1>1. CASE to + n <= i /\ i < to + la
  <2>1. sa + n + i - (to + n) = sa + i - to /\ i < to + n + (la - n) /\ to <= i
    BY <1>1
  <2>2. u[i] = t[sa + n + i - (to + n)] /\ v[i] = t[sa + i - to]
    BY <2>1, <1>1
  <2>3. QED
    BY <2>1, <2>2
<1>2. CASE ~(to + n <= i /\ i < to + la)
  <2>1. u[i] = m[i]
    BY <1>2
  <2>2. QED
    BY <1>2, <2>1
<1>3. QED
  BY <1>1, <1>2

LEMMA ShiftsHigh ==
  ASSUME NEW size \in Nat, NEW r, NEW t, NEW m, NEW v, NEW u,
         NEW mid \in Int, NEW lb \in Int, NEW n \in Int, NEW sb \in Int, 0 <= lb, 0 <= n, 0 <= mid - n, mid + lb <= size,
         Overlays(m, size, mid + lb - n, n, r, mid - n, r), Overlays(v, size, mid, lb, t, sb, r),
         Overlays(u, size, mid - n, lb, t, sb, m)
  PROVE  Rotates(u, v, size, mid - n, mid, mid + lb)
<1> USE DEF Overlays
<1>1. ASSUME NEW i \in 0 .. size - 1, i < mid - n \/ mid + lb <= i PROVE u[i] = v[i]
  BY <1>1
<1>2. ASSUME NEW i \in mid - n .. mid - n + lb - 1 PROVE u[i] = v[i + n]
  <2>1. /\ i \in 0 .. size - 1 /\ i + n \in 0 .. size - 1 /\ sb + i - (mid - n) = sb + (i + n) - mid
        /\ mid - n <= i /\ i < mid - n + lb /\ mid <= i + n /\ i + n < mid + lb
    OBVIOUS
  <2>2. u[i] = t[sb + i - (mid - n)]
    BY <2>1
  <2>3. v[i + n] = t[sb + (i + n) - mid]
    BY <2>1
  <2>4. QED
    BY <2>1, <2>2, <2>3
<1>3. ASSUME NEW i \in mid - n + lb .. mid + lb - 1 PROVE u[i] = v[i - lb]
  <2>1. /\ i \in 0 .. size - 1 /\ i - lb \in 0 .. size - 1 /\ mid - n + i - (mid + lb - n) = i - lb
        /\ mid + lb - n <= i /\ i < mid + lb /\ ~(i < mid - n + lb) /\ ~(mid <= i - lb)
    OBVIOUS
  <2>2. m[i] = r[mid - n + i - (mid + lb - n)] /\ u[i] = m[i]
    BY <2>1
  <2>3. v[i - lb] = r[i - lb]
    BY <2>1
  <2>4. QED
    BY <2>1, <2>2, <2>3
<1>4. mid + lb - mid = lb /\ mid - (mid - n) = n
  OBVIOUS
<1>5. QED
  BY <1>1, <1>2, <1>3, <1>4 DEF Rotates

LEMMA StaysHigh ==
  ASSUME NEW size \in Nat, NEW r, NEW t, NEW m, NEW v, NEW u,
         NEW mid \in Int, NEW lb \in Int, NEW n \in Int, NEW sb \in Int, 0 <= n, n <= lb,
         Overlays(m, size, mid + lb - n, n, t, sb + lb - n, r), Overlays(v, size, mid, lb, t, sb, r),
         Overlays(u, size, mid, lb - n, t, sb, m)
  PROVE  Agree(u, v, size)
<1> USE DEF Overlays
<1> SUFFICES ASSUME NEW i \in 0 .. size - 1 PROVE u[i] = v[i]
  BY DEF Agree
<1>1. CASE mid + lb - n <= i /\ i < mid + lb
  <2>1. sb + lb - n + i - (mid + lb - n) = sb + i - mid /\ ~(i < mid + (lb - n)) /\ mid <= i
    BY <1>1
  <2>2. m[i] = t[sb + lb - n + i - (mid + lb - n)] /\ v[i] = t[sb + i - mid] /\ u[i] = m[i]
    BY <2>1, <1>1
  <2>3. QED
    BY <2>1, <2>2
<1>2. CASE ~(mid + lb - n <= i /\ i < mid + lb)
  <2>1. m[i] = r[i]
    BY <1>2
  <2>2. mid <= i /\ i < mid + (lb - n) <=> mid <= i /\ i < mid + lb
    BY <1>2
  <2>3. QED
    BY <2>1, <2>2
<1>3. QED
  BY <1>1, <1>2

LEMMA MovedAre ==
  ASSUME NEW size \in Nat, NEW half \in Nat, NEW E, ranking \in [0 .. size - 1 -> E],
         NEW w, Lies(w, size, half), NEW n \in Int, NEW side
  PROVE  /\ w.low => Overlays(Moved(w, side, n), size, w.to, n, Store(w, ranking, side), w.start[side], ranking)
         /\ ~w.low => Overlays(Moved(w, side, n), size, w.to - n, n, Store(w, ranking, side),
                              w.start[side] + w.left[side] - n, ranking)
<1>1. w.to \in Int /\ w.to - n \in Int
  BY MergeNumbers DEF Lies
<1>2. DOMAIN ranking = 0 .. size - 1
  OBVIOUS
<1>3. CASE w.low
  <2>1. Moved(w, side, n) = Copied(ranking, w.to, Store(w, ranking, side), w.start[side], n)
    BY <1>3 DEF Moved, Low
  <2>2. QED
    BY <1>1, <1>2, <1>3, <2>1, CopiedOverlays
<1>4. CASE ~w.low
  <2>1. Moved(w, side, n) = Copied(ranking, w.to - n, Store(w, ranking, side), w.start[side] + w.left[side] - n, n)
    BY <1>4 DEF Moved, Low
  <2>2. QED
    BY <1>1, <1>2, <1>4, <2>1, CopiedOverlays
<1>5. QED
  BY <1>3, <1>4

LEMMA RestOfLeft ==
  ASSUME NEW w \in Merges, NEW n \in Int, NEW side, side = "a", NEW rest, rest = Rest(w, side, n)
  PROVE  /\ rest.low = w.low /\ rest.left.a = w.left.a - n /\ rest.left.b = w.left.b /\ rest.start.b = w.start.b
         /\ rest.start.a = (IF w.low THEN w.start.a + n ELSE w.start.a)
         /\ rest.to = (IF w.low THEN w.to + n ELSE w.to - n)
<1>1. rest = Rest(w, "a", n)
  OBVIOUS
<1>2. QED
  BY <1>1, RestNumbers

LEMMA RestOfRight ==
  ASSUME NEW w \in Merges, NEW n \in Int, NEW side, side = "b", NEW rest, rest = Rest(w, side, n)
  PROVE  /\ rest.low = w.low /\ rest.left.a = w.left.a /\ rest.left.b = w.left.b - n /\ rest.start.a = w.start.a
         /\ rest.start.b = (IF w.low THEN w.start.b + n ELSE w.start.b)
         /\ rest.to = (IF w.low THEN w.to + n ELSE w.to - n)
<1>1. rest = Rest(w, "b", n)
  OBVIOUS
<1>2. QED
  BY <1>1, RestNumbers

\* What taking n entries of a side does to the array as if yet to be merged.
TakenOrder(w, side, n, size) ==
  LET v == Unmerged(w, ranking)
      u == Unmerged(Rest(w, side, n), Moved(w, side, n))
      rest == Rest(w, side, n)
  IN  /\ Bottom(rest) = IF w.low THEN Bottom(w) + n ELSE Bottom(w)
      /\ Top(rest) = IF w.low THEN Top(w) ELSE Top(w) - n
      /\ Middle(rest) = IF side = Kept(w) THEN Middle(w) ELSE IF w.low THEN Middle(w) + n ELSE Middle(w) - n
      /\ IF side = Kept(w) THEN Agree(u, v, size)
         ELSE IF w.low THEN Rotates(u, v, size, Bottom(w), Middle(w), Middle(w) + n)
         ELSE Rotates(u, v, size, Middle(w) - n, Middle(w), Top(w))

LEMMA LowTakes ==
  ASSUME NEW size \in Nat, NEW half \in Nat, NEW E,
         ranking \in [0 .. size - 1 -> E], temporary \in [0 .. half - 1 -> E],
         NEW w, Lies(w, size, half), w.low, NEW side \in Sides, NEW n \in Int, 0 <= n, n <= w.left[side]
  PROVE  TakenOrder(w, side, n, size)
<1> DEFINE rest == Rest(w, side, n)
           m == Moved(w, side, n)
           v == Unmerged(w, ranking)
           u == Unmerged(rest, m)
           to == w.to
           la == w.left.a
           sa == w.start.a
           sb == w.start.b
<1>1. /\ w \in Merges /\ la >= 0 /\ w.left.b >= 0
      /\ to >= 0 /\ sb = to + la /\ sb + w.left.b <= size
      /\ sa >= 0
      /\ Bottom(w) = to /\ Top(w) = sb + w.left.b
      /\ Kept(w) = "a" /\ Store(w, ranking, "a") = temporary /\ Store(w, ranking, "b") = ranking
  BY LowMerge
<1>2. to \in Int /\ la \in Int /\ w.left.b \in Int /\ sa \in Int /\ sb \in Int
  BY <1>1, MergeNumbers
<1>3. Lies(rest, size, half) /\ m \in [0 .. size - 1 -> E]
  BY TakenHolds
<1>4. Middle(w) = to + la
  BY <1>1 DEF Middle
<1>5. Overlays(v, size, to, la, temporary, sa, ranking)
  BY UnmergedLow
<1>6. Overlays(m, size, to, n, Store(w, ranking, side), w.start[side], ranking)
  BY MovedAre
<1>7. CASE side = "a"
  <2>1. /\ rest.low /\ rest.left.a = la - n /\ rest.left.b = w.left.b /\ rest.start.a = sa + n
        /\ rest.start.b = sb /\ rest.to = to + n
    <3>1. w \in Merges
      BY <1>1
    <3>2. rest = Rest(w, side, n)
      OBVIOUS
    <3> HIDE DEF rest
    <3>3. QED
      BY <3>1, <3>2, <1>7, RestOfLeft
  <2> HIDE DEF rest, m
  <2>2. Overlays(u, size, to + n, la - n, temporary, sa + n, m)
    <3>1. Overlays(Unmerged(rest, m), size, rest.to, rest.left.a, temporary, rest.start.a, m)
      BY <1>3, <2>1, UnmergedLow
    <3>2. QED
      BY <2>1, <3>1
  <2>3. Overlays(m, size, to, n, temporary, sa, ranking)
    BY <1>1, <1>6, <1>7
  <2>4. n <= la
    BY <1>7
  <2>5. Bottom(rest) = to + n /\ Top(rest) = sb + w.left.b /\ Middle(rest) = to + la
    BY <1>2, <2>1 DEF Bottom, Top, Middle
  <2> HIDE DEF v, u, to, la, sa, sb
  <2>6. Agree(u, v, size)
    BY <1>2, <1>5, <2>2, <2>3, <2>4, StaysLow
  <2>7. QED
    BY <1>1, <1>4, <1>7, <2>5, <2>6 DEF TakenOrder, rest, m, v, u
<1>8. CASE side = "b"
  <2>1. /\ rest.low /\ rest.left.a = la /\ rest.left.b = w.left.b - n /\ rest.start.a = sa
        /\ rest.start.b = sb + n /\ rest.to = to + n
    <3>1. w \in Merges
      BY <1>1
    <3>2. rest = Rest(w, side, n)
      OBVIOUS
    <3> HIDE DEF rest
    <3>3. QED
      BY <3>1, <3>2, <1>8, RestOfRight
  <2> HIDE DEF rest, m
  <2>2. Overlays(u, size, to + n, la, temporary, sa, m)
    <3>1. Overlays(Unmerged(rest, m), size, rest.to, rest.left.a, temporary, rest.start.a, m)
      BY <1>3, <2>1, UnmergedLow
    <3>2. QED
      BY <2>1, <3>1
  <2>3. Overlays(m, size, to, n, ranking, to + la, ranking)
    BY <1>1, <1>6, <1>8
  <2>4. n <= w.left.b
    BY <1>8
  <2>5. Bottom(rest) = to + n /\ Top(rest) = sb + w.left.b /\ Middle(rest) = to + la + n
    BY <1>2, <2>1 DEF Bottom, Top, Middle
  <2>6. to + la + n <= size /\ 0 <= to /\ 0 <= la
    BY <1>1, <1>2, <2>4
  <2> HIDE DEF v, u, to, la, sa, sb
  <2>7. Rotates(u, v, size, to, to + la, to + la + n)
    BY <1>2, <1>5, <2>2, <2>3, <2>6, ShiftsLow
  <2>8. QED
    BY <1>1, <1>4, <1>8, <2>5, <2>7 DEF TakenOrder, rest, m, v, u
<1>9. QED
  BY <1>7, <1>8 DEF Sides

LEMMA HighTakes ==
  ASSUME NEW size \in Nat, NEW half \in Nat, NEW E,
         ranking \in [0 .. size - 1 -> E], temporary \in [0 .. half - 1 -> E],
         NEW w, Lies(w, size, half), ~w.low, NEW side \in Sides, NEW n \in Int, 0 <= n, n <= w.left[side]
  PROVE  TakenOrder(w, side, n, size)
<1> DEFINE rest == Rest(w, side, n)
           m == Moved(w, side, n)
           v == Unmerged(w, ranking)
           u == Unmerged(rest, m)
           mid == Middle(w)
           lb == w.left.b
           sa == w.start.a
           sb == w.start.b
<1>1. /\ w \in Merges /\ w.left.a >= 0 /\ lb >= 0
      /\ sa >= 0 /\ w.to = sa + w.left.a + lb /\ w.to <= size /\ sb >= 0
      /\ Bottom(w) = sa /\ Top(w) = w.to
      /\ Kept(w) = "b" /\ Store(w, ranking, "a") = ranking /\ Store(w, ranking, "b") = temporary
  BY HighMerge
<1>2. w.to \in Int /\ w.left.a \in Int /\ lb \in Int /\ sa \in Int /\ sb \in Int
  BY <1>1, MergeNumbers
<1>3. Lies(rest, size, half) /\ m \in [0 .. size - 1 -> E]
  BY TakenHolds
<1>4. mid = sa + w.left.a /\ mid \in Int /\ w.to = mid + lb
  BY <1>1, <1>2 DEF Middle
<1>5. Overlays(v, size, mid, lb, temporary, sb, ranking)
  BY UnmergedHigh
<1>6. Overlays(m, size, w.to - n, n, Store(w, ranking, side), w.start[side] + w.left[side] - n, ranking)
  BY MovedAre
<1>7. CASE side = "b"
  <2>1. /\ ~rest.low /\ rest.left.a = w.left.a /\ rest.left.b = lb - n /\ rest.start.a = sa
        /\ rest.start.b = sb /\ rest.to = w.to - n
    <3>1. w \in Merges
      BY <1>1
    <3>2. rest = Rest(w, side, n)
      OBVIOUS
    <3> HIDE DEF rest
    <3>3. QED
      BY <3>1, <3>2, <1>7, RestOfRight
  <2> HIDE DEF rest, m
  <2>2. Bottom(rest) = sa /\ Top(rest) = w.to - n /\ Middle(rest) = mid
    BY <1>2, <1>4, <2>1 DEF Bottom, Top, Middle
  <2>3. Overlays(u, size, mid, lb - n, temporary, sb, m)
    <3>1. Overlays(Unmerged(rest, m), size, Middle(rest), rest.left.b, temporary, rest.start.b, m)
      BY <1>3, <2>1, UnmergedHigh
    <3>2. QED
      BY <2>1, <2>2, <3>1
  <2>4. Overlays(m, size, mid + lb - n, n, temporary, sb + lb - n, ranking)
    <3>1. w.to - n = mid + lb - n
      BY <1>2, <1>4
    <3>2. QED
      BY <1>1, <1>6, <1>7, <3>1
  <2>5. n <= lb
    BY <1>7
  <2> HIDE DEF v, u, mid, lb, sa, sb
  <2>6. Agree(u, v, size)
    BY <1>2, <1>4, <1>5, <2>3, <2>4, <2>5, StaysHigh
  <2>7. QED
    BY <1>1, <1>7, <2>2, <2>6 DEF TakenOrder, rest, m, v, u, mid
<1>8. CASE side = "a"
  <2>1. /\ ~rest.low /\ rest.left.a = w.left.a - n /\ rest.left.b = lb /\ rest.start.a = sa
        /\ rest.start.b = sb /\ rest.to = w.to - n
    <3>1. w \in Merges
      BY <1>1
    <3>2. rest = Rest(w, side, n)
      OBVIOUS
    <3> HIDE DEF rest
    <3>3. QED
      BY <3>1, <3>2, <1>8, RestOfLeft
  <2> HIDE DEF rest, m
  <2>2. Bottom(rest) = sa /\ Top(rest) = w.to - n /\ Middle(rest) = mid - n
    BY <1>2, <1>4, <2>1 DEF Bottom, Top, Middle
  <2>3. Overlays(u, size, mid - n, lb, temporary, sb, m)
    <3>1. Overlays(Unmerged(rest, m), size, Middle(rest), rest.left.b, temporary, rest.start.b, m)
      BY <1>3, <2>1, UnmergedHigh
    <3>2. QED
      BY <2>1, <2>2, <3>1
  <2>4. Overlays(m, size, mid + lb - n, n, ranking, mid - n, ranking)
    <3>1. w.to - n = mid + lb - n /\ w.start[side] + w.left[side] - n = mid - n
      <4>1. w.start[side] = sa /\ w.left[side] = w.left.a
        BY <1>8
      <4> HIDE DEF mid, lb, sa
      <4>2. QED
        BY <1>2, <1>4, <4>1
    <3>2. QED
      BY <1>1, <1>6, <1>8, <3>1
  <2>5. n <= w.left.a
    BY <1>8
  <2>6. 0 <= mid - n /\ mid + lb <= size /\ 0 <= lb /\ mid + lb = w.to
    BY <1>1, <1>2, <1>4, <2>5
  <2> HIDE DEF v, u, mid, lb, sa, sb
  <2>7. Rotates(u, v, size, mid - n, mid, mid + lb)
    BY <1>2, <1>4, <1>5, <2>3, <2>4, <2>6, ShiftsHigh
  <2>8. QED
    BY <1>1, <1>8, <2>2, <2>6, <2>7 DEF TakenOrder, rest, m, v, u, mid
<1>9. QED
  BY <1>7, <1>8 DEF Sides

LEMMA AgreeSorted ==
  ASSUME NEW u, NEW v, NEW label, NEW size \in Nat, NEW lo, NEW mid, NEW hi,
         Agree(u, v, size), IsSorted(v, label, size, lo, mid, hi)
  PROVE  IsSorted(u, label, size, lo, mid, hi)
BY DEF Agree, IsSorted

\* Parts of the two sides are in order if their nearest ends are.
LEMMA ChainSides ==
  ASSUME NEW size \in Nat, NEW E, IsTransitive(E), NEW v \in [0 .. size - 1 -> E], NEW label,
         NEW lo \in Int, NEW mid \in Int, NEW hi \in Int, 0 <= lo, lo <= mid, mid <= hi, hi <= size,
         IsSorted(v, label, size, lo, mid, hi), OneLabel(label, lo, hi),
         NEW p \in Int, NEW q \in Int, NEW s \in Int, NEW t \in Int,
         lo <= p, q < mid, mid <= s, t < hi
  PROVE  /\ (p <= q /\ s <= t => Before(v[q], v[s])) => Comes(v, p, q, s, t)
         /\ (p <= q /\ s <= t => Before(v[t], v[p])) => Comes(v, s, t, p, q)
<1>1. ASSUME NEW i \in p .. q, NEW j \in p .. q, i < j PROVE Before(v[i], v[j])
  <2>1. i \in 0 .. size - 1 /\ j \in 0 .. size - 1 /\ i \in lo .. hi - 1 /\ j \in lo .. hi - 1 /\ j < mid
    OBVIOUS
  <2>2. label[i] = label[j]
    BY <2>1 DEF OneLabel
  <2>3. QED
    BY <1>1, <2>1, <2>2 DEF IsSorted
<1>2. ASSUME NEW i \in s .. t, NEW j \in s .. t, i < j PROVE Before(v[i], v[j])
  <2>1. i \in 0 .. size - 1 /\ j \in 0 .. size - 1 /\ i \in lo .. hi - 1 /\ j \in lo .. hi - 1 /\ mid <= i
    OBVIOUS
  <2>2. label[i] = label[j]
    BY <2>1 DEF OneLabel
  <2>3. QED
    BY <1>2, <2>1, <2>2 DEF IsSorted
<1>3. 0 <= p /\ q < size /\ 0 <= s /\ t < size
  OBVIOUS
<1>4. ASSUME p <= q /\ s <= t => Before(v[q], v[s]) PROVE Comes(v, p, q, s, t)
  BY <1>1, <1>2, <1>3, <1>4, Chain
<1>5. ASSUME p <= q /\ s <= t => Before(v[t], v[p]) PROVE Comes(v, s, t, p, q)
  BY <1>1, <1>2, <1>3, <1>5, Chain
<1>6. QED
  BY <1>4, <1>5

\* What is left of a merge: both sides are sorted, every entry of the left one was
\* given earlier, and so far they fit.  merge_low relies on the last entry of
\* the left side to go last, merge_high on the first of the right one to go first.
InOrder(v, label, size, low, lo, mid, hi) ==
  /\ IsSorted(v, label, size, lo, mid, hi)
  /\ OneLabel(label, lo, hi)
  /\ lo < mid /\ mid < hi => IF low THEN Before(v[hi - 1], v[mid - 1]) ELSE Before(v[mid], v[lo])
\* The merge that is under way, seen as one that is yet to be made.
MergeOrder(w, r, label, size) ==
  InOrder(Unmerged(w, r), label, size, w.low, Bottom(w), Middle(w), Top(w))

\* The n entries of the side that are next come before what is left of the
\* other side, or behind it when the gap is filled from above.
Fits(v, low, side, n, lo, mid, hi) ==
  n >= 1 =>
    IF low THEN IF side = "a" THEN Before(v[lo + n - 1], v[mid]) ELSE Before(v[mid + n - 1], v[lo])
    ELSE IF side = "a" THEN Before(v[hi - 1], v[mid - n]) ELSE Before(v[mid - 1], v[hi - n])

\* The ends of what is then left of the sides.
EndsStay(u, v, low, side, n, lo, mid, hi) ==
  IF low
  THEN IF side = "a"
       THEN mid - lo > n => u[lo + n] = v[lo + n] /\ u[mid - 1] = v[mid - 1] /\ u[mid] = v[mid] /\ u[hi - 1] = v[hi - 1]
       ELSE hi - mid > n => u[lo + n] = v[lo] /\ u[mid + n - 1] = v[mid - 1] /\ u[mid + n] = v[mid + n] /\ u[hi - 1] = v[hi - 1]
  ELSE IF side = "a"
       THEN mid - lo > n => u[lo] = v[lo] /\ u[mid - n - 1] = v[mid - n - 1] /\ u[mid - n] = v[mid] /\ u[hi - n - 1] = v[hi - 1]
       ELSE hi - mid > n => u[lo] = v[lo] /\ u[mid - 1] = v[mid - 1] /\ u[mid] = v[mid] /\ u[hi - n - 1] = v[hi - n - 1]

LEMMA TakesLow ==
  ASSUME NEW size \in Nat, NEW E, IsTransitive(E), NEW v \in [0 .. size - 1 -> E], NEW u, NEW label,
         NEW lo \in Int, NEW mid \in Int, NEW hi \in Int, 0 <= lo, lo < mid, mid < hi, hi <= size,
         NEW n \in Int, 0 <= n, InOrder(v, label, size, TRUE, lo, mid, hi)
  PROVE  /\ n <= mid - lo /\ Agree(u, v, size) /\ Fits(v, TRUE, "a", n, lo, mid, hi) =>
              InOrder(u, label, size, TRUE, lo + n, mid, hi) /\ EndsStay(u, v, TRUE, "a", n, lo, mid, hi)
         /\ n <= hi - mid /\ Rotates(u, v, size, lo, mid, mid + n) /\ Fits(v, TRUE, "b", n, lo, mid, hi) =>
              InOrder(u, label, size, TRUE, lo + n, mid + n, hi) /\ EndsStay(u, v, TRUE, "b", n, lo, mid, hi)
<1>1. /\ IsSorted(v, label, size, lo, mid, hi) /\ OneLabel(label, lo, hi) /\ Before(v[hi - 1], v[mid - 1])
  BY DEF InOrder
<1>2. OneLabel(label, lo + n, hi)
  BY <1>1 DEF OneLabel
<1>3. ASSUME n <= mid - lo, Agree(u, v, size), Fits(v, TRUE, "a", n, lo, mid, hi)
      PROVE  InOrder(u, label, size, TRUE, lo + n, mid, hi) /\ EndsStay(u, v, TRUE, "a", n, lo, mid, hi)
  <2>1. Comes(v, lo, lo + n - 1, mid, hi - 1)
    <3>1. lo <= lo + n - 1 => Before(v[lo + n - 1], v[mid])
      BY <1>3 DEF Fits
    <3>2. lo + n - 1 \in Int /\ hi - 1 \in Int /\ lo + n - 1 < mid /\ hi - 1 < hi
      BY <1>3
    <3>3. QED
      BY <1>1, <3>1, <3>2, ChainSides
  <2>2. IsSorted(u, label, size, lo + n, mid, hi)
    <3>1. IsSorted(v, label, size, lo + n, mid, hi)
      BY <1>1, <2>1, Settled
    <3>2. QED
      BY <1>3, <3>1, AgreeSorted
  <2>3. u[mid] = v[mid] /\ u[mid - 1] = v[mid - 1] /\ u[hi - 1] = v[hi - 1]
    <3>1. mid \in 0 .. size - 1 /\ mid - 1 \in 0 .. size - 1 /\ hi - 1 \in 0 .. size - 1
      OBVIOUS
    <3>2. QED
      BY <1>3, <3>1 DEF Agree
  <2>4. mid - lo > n => u[lo + n] = v[lo + n]
    <3>1. mid - lo > n => lo + n \in 0 .. size - 1
      OBVIOUS
    <3>2. QED
      BY <1>3, <3>1 DEF Agree
  <2>5. QED
    BY <1>1, <1>2, <2>2, <2>3, <2>4 DEF InOrder, EndsStay
<1>4. ASSUME n <= hi - mid, Rotates(u, v, size, lo, mid, mid + n), Fits(v, TRUE, "b", n, lo, mid, hi)
      PROVE  InOrder(u, label, size, TRUE, lo + n, mid + n, hi) /\ EndsStay(u, v, TRUE, "b", n, lo, mid, hi)
  <2>1. Comes(v, mid, mid + n - 1, lo, mid - 1)
    <3>1. mid <= mid + n - 1 => Before(v[mid + n - 1], v[lo])
      BY <1>4 DEF Fits
    <3>2. mid + n - 1 \in Int /\ mid - 1 \in Int /\ mid + n - 1 < hi /\ mid - 1 < mid
      BY <1>4
    <3>3. QED
      BY <1>1, <3>1, <3>2, ChainSides
  <2>2. IsSorted(u, label, size, lo + n, mid + n, hi)
    <3>1. lo <= mid /\ mid + n <= hi
      BY <1>4
    <3>2. QED
      BY <1>1, <1>4, <2>1, <3>1, RotatesLow
  <2>3. u[lo + n] = v[lo] /\ u[mid + n - 1] = v[mid - 1]
    <3>1. /\ lo + n \in lo + (mid + n - mid) .. mid + n - 1 /\ mid + n - 1 \in lo + (mid + n - mid) .. mid + n - 1
          /\ lo + n - (mid + n - mid) = lo /\ mid + n - 1 - (mid + n - mid) = mid - 1
      OBVIOUS
    <3>2. /\ u[lo + n] = v[lo + n - (mid + n - mid)]
          /\ u[mid + n - 1] = v[mid + n - 1 - (mid + n - mid)]
      BY <1>4, <3>1 DEF Rotates
    <3>3. QED
      BY <3>1, <3>2
  <2>4. hi - mid > n => u[mid + n] = v[mid + n] /\ u[hi - 1] = v[hi - 1]
    <3>1. hi - mid > n => mid + n \in 0 .. size - 1 /\ hi - 1 \in 0 .. size - 1 /\ mid + n <= hi - 1
      OBVIOUS
    <3>2. QED
      BY <1>4, <3>1 DEF Rotates
  <2>5. mid + n < hi => Before(u[hi - 1], u[mid + n - 1])
    BY <1>1, <2>3, <2>4
  <2>6. QED
    BY <1>2, <2>2, <2>3, <2>4, <2>5 DEF InOrder, EndsStay
<1>5. QED
  BY <1>3, <1>4

LEMMA TakesHigh ==
  ASSUME NEW size \in Nat, NEW E, IsTransitive(E), NEW v \in [0 .. size - 1 -> E], NEW u, NEW label,
         NEW lo \in Int, NEW mid \in Int, NEW hi \in Int, 0 <= lo, lo < mid, mid < hi, hi <= size,
         NEW n \in Int, 0 <= n, InOrder(v, label, size, FALSE, lo, mid, hi)
  PROVE  /\ n <= hi - mid /\ Agree(u, v, size) /\ Fits(v, FALSE, "b", n, lo, mid, hi) =>
              InOrder(u, label, size, FALSE, lo, mid, hi - n) /\ EndsStay(u, v, FALSE, "b", n, lo, mid, hi)
         /\ n <= mid - lo /\ Rotates(u, v, size, mid - n, mid, hi) /\ Fits(v, FALSE, "a", n, lo, mid, hi) =>
              InOrder(u, label, size, FALSE, lo, mid - n, hi - n) /\ EndsStay(u, v, FALSE, "a", n, lo, mid, hi)
<1>1. /\ IsSorted(v, label, size, lo, mid, hi) /\ OneLabel(label, lo, hi) /\ Before(v[mid], v[lo])
  BY DEF InOrder
<1>2. OneLabel(label, lo, hi - n)
  BY <1>1 DEF OneLabel
<1>3. ASSUME n <= hi - mid, Agree(u, v, size), Fits(v, FALSE, "b", n, lo, mid, hi)
      PROVE  InOrder(u, label, size, FALSE, lo, mid, hi - n) /\ EndsStay(u, v, FALSE, "b", n, lo, mid, hi)
  <2>1. Comes(v, lo, mid - 1, hi - n, hi - 1)
    <3>1. hi - n <= hi - 1 => Before(v[mid - 1], v[hi - n])
      BY <1>3 DEF Fits
    <3>2. mid - 1 \in Int /\ hi - 1 \in Int /\ hi - n \in Int /\ mid - 1 < mid /\ hi - 1 < hi /\ mid <= hi - n
      BY <1>3
    <3>3. QED
      BY <1>1, <3>1, <3>2, ChainSides
  <2>2. IsSorted(u, label, size, lo, mid, hi - n)
    <3>1. IsSorted(v, label, size, lo, mid, hi - n)
      BY <1>1, <2>1, Settled
    <3>2. QED
      BY <1>3, <3>1, AgreeSorted
  <2>3. u[mid] = v[mid] /\ u[mid - 1] = v[mid - 1] /\ u[lo] = v[lo]
    <3>1. mid \in 0 .. size - 1 /\ mid - 1 \in 0 .. size - 1 /\ lo \in 0 .. size - 1
      OBVIOUS
    <3>2. QED
      BY <1>3, <3>1 DEF Agree
  <2>4. hi - mid > n => u[hi - n - 1] = v[hi - n - 1]
    <3>1. hi - mid > n => hi - n - 1 \in 0 .. size - 1
      OBVIOUS
    <3>2. QED
      BY <1>3, <3>1 DEF Agree
  <2>5. QED
    BY <1>1, <1>2, <2>2, <2>3, <2>4 DEF InOrder, EndsStay
<1>4. ASSUME n <= mid - lo, Rotates(u, v, size, mid - n, mid, hi), Fits(v, FALSE, "a", n, lo, mid, hi)
      PROVE  InOrder(u, label, size, FALSE, lo, mid - n, hi - n) /\ EndsStay(u, v, FALSE, "a", n, lo, mid, hi)
  <2>1. Comes(v, mid, hi - 1, mid - n, mid - 1)
    <3>1. mid - n <= mid - 1 => Before(v[hi - 1], v[mid - n])
      BY <1>4 DEF Fits
    <3>2. mid - n \in Int /\ mid - 1 \in Int /\ hi - 1 \in Int /\ lo <= mid - n /\ mid - 1 < mid /\ hi - 1 < hi
      BY <1>4
    <3>3. QED
      BY <1>1, <3>1, <3>2, ChainSides
  <2>2. IsSorted(u, label, size, lo, mid - n, hi - n)
    <3>1. lo <= mid - n /\ mid <= hi
      BY <1>4
    <3>2. QED
      BY <1>1, <1>4, <2>1, <3>1, RotatesHigh
  <2>3. u[mid - n] = v[mid] /\ u[hi - n - 1] = v[hi - 1]
    <3>1. /\ mid - n \in mid - n .. mid - n + (hi - mid) - 1 /\ hi - n - 1 \in mid - n .. mid - n + (hi - mid) - 1
          /\ mid - n + (mid - (mid - n)) = mid /\ hi - n - 1 + (mid - (mid - n)) = hi - 1
      OBVIOUS
    <3>2. /\ u[mid - n] = v[mid - n + (mid - (mid - n))]
          /\ u[hi - n - 1] = v[hi - n - 1 + (mid - (mid - n))]
      BY <1>4, <3>1 DEF Rotates
    <3>3. QED
      BY <3>1, <3>2
  <2>4. mid - lo > n => u[lo] = v[lo] /\ u[mid - n - 1] = v[mid - n - 1]
    <3>1. mid - lo > n => lo \in 0 .. size - 1 /\ mid - n - 1 \in 0 .. size - 1 /\ lo < mid - n
      OBVIOUS
    <3>2. QED
      BY <1>4, <3>1 DEF Rotates
  <2>5. lo < mid - n => Before(u[mid - n], u[lo])
    BY <1>1, <2>3, <2>4
  <2>6. QED
    BY <1>2, <2>2, <2>3, <2>4, <2>5 DEF InOrder, EndsStay
<1>5. QED
  BY <1>3, <1>4

\* The places of a merge, in numbers.
LEMMA GapNumbers ==
  ASSUME NEW w, NEW size \in Nat, NEW half \in Nat, Lies(w, size, half)
  PROVE  /\ w \in Merges /\ w.low \in BOOLEAN
         /\ Bottom(w) \in Int /\ Middle(w) \in Int /\ Top(w) \in Int
         /\ 0 <= Bottom(w) /\ Middle(w) = Bottom(w) + w.left.a /\ Top(w) = Middle(w) + w.left.b /\ Top(w) <= size
         /\ w.left.a \in Nat /\ w.left.b \in Nat
<1>1. w \in Merges /\ w.left.a >= 0 /\ w.left.b >= 0 /\ Bottom(w) >= 0 /\ Top(w) <= size
  BY DEF Lies
<1>2. /\ w.low \in BOOLEAN /\ w.to \in Int
      /\ w.left.a \in Int /\ w.left.b \in Int /\ w.start.a \in Int /\ w.start.b \in Int
  BY <1>1, MergeNumbers
<1>3. Bottom(w) \in Int /\ Top(w) \in Int
  BY <1>2 DEF Bottom, Top
<1>4. Middle(w) = Bottom(w) + w.left.a /\ Middle(w) \in Int
  BY <1>2, <1>3 DEF Middle
<1>5. Top(w) = Bottom(w) + w.left.a + w.left.b
  BY <1>2 DEF Lies, Bottom, Top
<1>6. QED
  BY <1>1, <1>2, <1>3, <1>4, <1>5

LEMMA UnmergedType ==
  ASSUME NEW w, NEW size \in Nat, NEW half \in Nat, NEW E, Lies(w, size, half),
         NEW r \in [0 .. size - 1 -> E], temporary \in [0 .. half - 1 -> E]
  PROVE  Unmerged(w, r) \in [0 .. size - 1 -> E]
BY UnmergedLow, UnmergedHigh

LEMMA EmptyOverlay ==
  ASSUME NEW v, NEW size \in Nat, NEW to \in Int, NEW t, NEW from, NEW r, Overlays(v, size, to, 0, t, from, r)
  PROVE  Agree(r, v, size)
BY DEF Overlays, Agree

\* An entry that is put in its place.
LEMMA PutOverlays ==
  ASSUME NEW size \in Nat, NEW m, DOMAIN m = 0 .. size - 1, NEW to \in 0 .. size - 1, NEW t, NEW from \in Int
  PROVE  Overlays([m EXCEPT ![to] = t[from]], size, to, 1, t, from, m)
<1>1. \A i \in 0 .. size - 1 : to <= i /\ i < to + 1 <=> i = to
  OBVIOUS
<1>2. from + to - to = from
  OBVIOUS
<1>3. QED
  BY <1>1, <1>2 DEF Overlays

\* merge_low and merge_high end with a sorted array.
LEMMA FinishedLow ==
  ASSUME NEW size \in Nat, NEW half \in Nat, NEW E, IsTransitive(E), NEW label,
         NEW r \in [0 .. size - 1 -> E], temporary \in [0 .. half - 1 -> E],
         NEW w, Lies(w, size, half), w.low, MergeEnds(w), MergeOrder(w, r, label, size)
  PROVE  IsSorted(Finished(w, r), label, size, 0, 0, 0)
<1> DEFINE to == w.to
           la == w.left.a
           lb == w.left.b
           sa == w.start.a
           sb == w.start.b
           v == Unmerged(w, r)
<1>1. /\ w \in Merges /\ la >= 0 /\ lb >= 0 /\ to >= 0 /\ sb = to + la /\ sb + lb <= size
      /\ Kept(w) = "a" /\ Other(w) = "b" /\ Bottom(w) = to /\ Top(w) = sb + lb
  BY LowMerge
<1>2. to \in Int /\ la \in Int /\ lb \in Int /\ sa \in Int /\ sb \in Int
  BY <1>1, MergeNumbers
<1>3. Middle(w) = to + la /\ Overlays(v, size, to, la, temporary, sa, r)
  BY UnmergedLow
<1>4. v \in [0 .. size - 1 -> E]
  BY UnmergedType
<1>5. InOrder(v, label, size, TRUE, to, to + la, to + la + lb)
  <2>1. w.low = TRUE
    BY <1>1, MergeNumbers
  <2>2. QED
    BY <1>1, <1>3, <2>1 DEF MergeOrder
<1>6. IsSorted(v, label, size, to, to + la, to + la + lb)
  BY <1>5 DEF InOrder
<1>7. lb = 0 \/ la <= 1
  BY <1>1 DEF MergeEnds
<1>8. to + la \in Int /\ to + la + lb \in Int
  BY <1>2
<1>9. CASE lb = 0
  <2>1. Finished(w, r) = v
    BY <1>1, <1>9 DEF Finished, Unmerged, Low
  <2>2. QED
    BY <1>2, <1>6, <1>8, <1>9, <2>1, NoSplit
<1>10. CASE lb # 0 /\ la = 0
  <2>1. Finished(w, r) = r
    BY <1>1, <1>10 DEF Finished
  <2>2. Agree(r, v, size)
    BY <1>2, <1>3, <1>10, EmptyOverlay
  <2>3. IsSorted(v, label, size, 0, 0, 0)
    BY <1>2, <1>6, <1>8, <1>10, NoSplit
  <2>4. QED
    BY <2>1, <2>2, <2>3, AgreeSorted
<1>11. CASE lb # 0 /\ la # 0
  <2>1. la = 1
    BY <1>1, <1>2, <1>7, <1>11
  <2> DEFINE m == Copied(r, to, r, sb, lb)
             u == [m EXCEPT ![to + lb] = temporary[sa]]
  <2>2. Finished(w, r) = u
    BY <1>1, <1>11 DEF Finished, Low
  <2>3. Overlays(m, size, to, lb, r, to + la, r)
    BY <1>1, <1>2, CopiedOverlays
  <2>4. DOMAIN m = 0 .. size - 1
    BY DEF Copied
  <2> HIDE DEF m
  <2>5. Overlays(u, size, to + lb, la, temporary, sa, m)
    <3>1. to + lb \in 0 .. size - 1
      BY <1>1, <1>2, <2>1
    <3>2. QED
      BY <1>2, <2>1, <2>4, <3>1, PutOverlays
  <2> HIDE DEF u, v, to, la, lb, sa, sb
  <2>6. Rotates(u, v, size, to, to + la, to + la + lb)
    <3>1. 0 <= to /\ 0 <= la /\ 0 <= lb /\ to + la + lb <= size
      BY <1>1, <1>2
    <3>2. QED
      BY <1>2, <1>3, <2>3, <2>5, <3>1, ShiftsLow
  <2>7. InOrder(u, label, size, TRUE, to + lb, to + la + lb, to + la + lb)
    <3> DEFINE mid == to + la
               hi == to + la + lb
    <3>1. mid \in Int /\ hi \in Int /\ 0 <= to /\ to < mid /\ mid < hi /\ hi <= size /\ 0 <= lb /\ lb <= hi - mid
          /\ hi = mid + lb /\ mid - to = 1
      BY <1>1, <1>2, <1>11, <2>1
    <3>2. Fits(v, TRUE, "b", lb, to, mid, hi)
      <4>1. Before(v[hi - 1], v[mid - 1])
        BY <1>5, <3>1 DEF InOrder
      <4>2. hi - 1 = mid + lb - 1 /\ mid - 1 = to
        BY <1>2, <3>1
      <4>3. QED
        BY <4>1, <4>2 DEF Fits
    <3>3. InOrder(v, label, size, TRUE, to, mid, hi) /\ Rotates(u, v, size, to, mid, mid + lb)
      BY <1>5, <2>6, <3>1
    <3> HIDE DEF mid, hi
    <3>4. InOrder(u, label, size, TRUE, to + lb, mid + lb, hi)
      BY <1>2, <1>4, <3>1, <3>2, <3>3, TakesLow
    <3>5. QED
      BY <3>1, <3>4 DEF mid, hi
  <2>8. IsSorted(u, label, size, to + lb, to + la + lb, to + la + lb)
    BY <2>7 DEF InOrder
  <2>9. QED
    BY <1>2, <1>8, <2>2, <2>8, NoSplit
<1>12. QED
  BY <1>9, <1>10, <1>11

LEMMA FinishedHigh ==
  ASSUME NEW size \in Nat, NEW half \in Nat, NEW E, IsTransitive(E), NEW label,
         NEW r \in [0 .. size - 1 -> E], temporary \in [0 .. half - 1 -> E],
         NEW w, Lies(w, size, half), ~w.low, MergeEnds(w), MergeOrder(w, r, label, size)
  PROVE  IsSorted(Finished(w, r), label, size, 0, 0, 0)
<1> DEFINE mid == Middle(w)
           la == w.left.a
           lb == w.left.b
           sa == w.start.a
           sb == w.start.b
           v == Unmerged(w, r)
<1>1. /\ w \in Merges /\ la >= 0 /\ lb >= 0 /\ sa >= 0 /\ w.to = sa + la + lb /\ w.to <= size
      /\ Kept(w) = "b" /\ Other(w) = "a" /\ Bottom(w) = sa /\ Top(w) = w.to
  BY HighMerge
<1>2. w.to \in Int /\ la \in Int /\ lb \in Int /\ sa \in Int /\ sb \in Int
  BY <1>1, MergeNumbers
<1>3. mid = sa + la /\ Overlays(v, size, mid, lb, temporary, sb, r)
  BY UnmergedHigh
<1>4. v \in [0 .. size - 1 -> E]
  BY UnmergedType
<1>5. mid \in Int /\ mid + lb \in Int /\ w.to = mid + lb /\ sa = mid - la
  BY <1>1, <1>2, <1>3
<1>6. InOrder(v, label, size, FALSE, mid - la, mid, mid + lb)
  <2>1. w.low = FALSE
    BY <1>1, MergeNumbers
  <2>2. QED
    BY <1>1, <1>5, <2>1 DEF MergeOrder
<1>7. IsSorted(v, label, size, mid - la, mid, mid + lb)
  BY <1>6 DEF InOrder
<1>8. la = 0 \/ lb <= 1
  BY <1>1 DEF MergeEnds
<1>9. CASE la = 0
  <2>1. Finished(w, r) = v
    <3>1. w.to - lb = mid
      BY <1>2, <1>5
    <3>2. Finished(w, r) = Copied(r, w.to - lb, temporary, sb, lb)
      BY <1>1, <1>9 DEF Finished, Low
    <3>3. v = Copied(r, mid, temporary, sb, lb)
      BY <1>1 DEF Unmerged
    <3>4. QED
      BY <3>1, <3>2, <3>3
  <2>2. mid - la \in Int /\ mid - la >= mid
    BY <1>2, <1>5, <1>9
  <2> HIDE DEF mid, v
  <2>3. QED
    BY <1>5, <1>7, <2>1, <2>2, NoSplit
<1>10. CASE la # 0 /\ lb = 0
  <2>1. Finished(w, r) = r
    BY <1>1, <1>10 DEF Finished
  <2>2. Agree(r, v, size)
    BY <1>5, <1>3, <1>10, EmptyOverlay
  <2>3. IsSorted(v, label, size, 0, 0, 0)
    <3>1. mid - la \in Int /\ mid >= mid + lb
      BY <1>2, <1>5, <1>10
    <3> HIDE DEF mid, v
    <3>2. QED
      BY <1>5, <1>7, <3>1, NoSplit
  <2>4. QED
    BY <2>1, <2>2, <2>3, AgreeSorted
<1>11. CASE la # 0 /\ lb # 0
  <2>1. lb = 1
    BY <1>1, <1>2, <1>8, <1>11
  <2> DEFINE m == Copied(r, w.to - la, r, sa, la)
             u == [m EXCEPT ![w.to - la - 1] = temporary[sb]]
  <2>2. Finished(w, r) = u
    BY <1>1, <1>11 DEF Finished, Low
  <2>3. Overlays(m, size, mid + lb - la, la, r, mid - la, r)
    <3>1. Overlays(m, size, w.to - la, la, r, sa, r)
      <4>1. w.to - la \in Int
        BY <1>2
      <4>2. QED
        BY <1>2, <4>1, CopiedOverlays
    <3>2. w.to - la = mid + lb - la /\ sa = mid - la
      BY <1>2, <1>5
    <3> HIDE DEF m, mid
    <3>3. QED
      BY <3>1, <3>2
  <2>4. DOMAIN m = 0 .. size - 1
    BY DEF Copied
  <2> HIDE DEF m
  <2>5. Overlays(u, size, mid - la, lb, temporary, sb, m)
    <3>1. w.to - la - 1 = mid - la /\ mid - la \in 0 .. size - 1
      BY <1>1, <1>2, <1>5, <2>1, <1>11
    <3> HIDE DEF mid
    <3>2. Overlays([m EXCEPT ![mid - la] = temporary[sb]], size, mid - la, 1, temporary, sb, m)
      BY <1>2, <2>4, <3>1, PutOverlays
    <3>3. QED
      BY <2>1, <3>1, <3>2
  <2> HIDE DEF u, v, mid, la, lb, sa, sb
  <2>6. Rotates(u, v, size, mid - la, mid, mid + lb)
    <3>1. 0 <= lb /\ 0 <= la /\ 0 <= mid - la /\ mid + lb <= size
      BY <1>1, <1>2, <1>5
    <3>2. QED
      BY <1>2, <1>3, <1>5, <2>3, <2>5, <3>1, ShiftsHigh
  <2>7. InOrder(u, label, size, FALSE, mid - la, mid - la, mid + lb - la)
    <3> DEFINE lo == mid - la
               hi == mid + lb
    <3>1. lo \in Int /\ hi \in Int /\ 0 <= lo /\ lo < mid /\ mid < hi /\ hi <= size /\ 0 <= la /\ la <= mid - lo
          /\ lo = mid - la /\ hi = mid + 1 /\ hi - 1 = mid
      BY <1>1, <1>2, <1>5, <1>11, <2>1
    <3>2. Fits(v, FALSE, "a", la, lo, mid, hi)
      <4>1. Before(v[mid], v[lo])
        BY <1>6, <3>1 DEF InOrder
      <4>2. QED
        BY <4>1, <3>1 DEF Fits
    <3>3. InOrder(v, label, size, FALSE, lo, mid, hi) /\ Rotates(u, v, size, mid - la, mid, hi)
      BY <1>6, <2>6
    <3>4. hi - la = mid + lb - la
      BY <1>2, <1>5
    <3> HIDE DEF lo, hi
    <3>5. InOrder(u, label, size, FALSE, lo, mid - la, hi - la)
      BY <1>2, <1>4, <1>5, <3>1, <3>2, <3>3, TakesHigh
    <3>6. QED
      BY <3>1, <3>4, <3>5
  <2>8. IsSorted(u, label, size, mid - la, mid - la, mid + lb - la)
    BY <2>7 DEF InOrder
  <2>9. mid - la \in Int /\ mid + lb - la \in Int
    BY <1>2, <1>5
  <2>10. QED
    BY <2>2, <2>8, <2>9, NoSplit
<1>12. QED
  BY <1>9, <1>10, <1>11

\* A step of a merge that takes entries which fit keeps it in order.
LEMMA TakeSorts ==
  ASSUME NEW size \in Nat, NEW half \in Nat, NEW E, IsTransitive(E), NEW label,
         ranking \in [0 .. size - 1 -> E], temporary \in [0 .. half - 1 -> E],
         NEW w, Lies(w, size, half), w.left.a >= 1, w.left.b >= 1,
         MergeOrder(w, ranking, label, size), NEW side \in Sides, NEW n \in Int, 0 <= n, n <= w.left[side],
         Fits(Unmerged(w, ranking), w.low, side, n, Bottom(w), Middle(w), Top(w)),
         Take(w, side, n)
  PROVE  \/ work' = Idle /\ IsSorted(ranking', label, size, 0, 0, 0)
         \/ /\ work' = Rest(w, side, n) /\ ~MergeEnds(work')
            /\ MergeOrder(Rest(w, side, n), ranking', label, size)
            /\ EndsStay(Unmerged(Rest(w, side, n), ranking'), Unmerged(w, ranking), w.low, side, n,
                    Bottom(w), Middle(w), Top(w))
<1> DEFINE rest == Rest(w, side, n)
           m == Moved(w, side, n)
           v == Unmerged(w, ranking)
           u == Unmerged(rest, m)
           lo == Bottom(w)
           mid == Middle(w)
           hi == Top(w)
<1>1. IF MergeEnds(rest) THEN ranking' = Finished(rest, m) /\ work' = Idle
      ELSE ranking' = m /\ work' = rest
  BY TakeIs
<1>2. Lies(rest, size, half) /\ m \in [0 .. size - 1 -> E]
  BY TakenHolds
<1>3. /\ w \in Merges /\ w.low \in BOOLEAN /\ lo \in Int /\ mid \in Int /\ hi \in Int
      /\ 0 <= lo /\ mid = lo + w.left.a /\ hi = mid + w.left.b /\ hi <= size
      /\ w.left.a \in Nat /\ w.left.b \in Nat
  BY GapNumbers
<1>4. lo < mid /\ mid < hi
  BY <1>3
<1>5. v \in [0 .. size - 1 -> E]
  BY UnmergedType
<1>6. InOrder(v, label, size, w.low, lo, mid, hi)
  BY DEF MergeOrder
<1>7. (side = "a" => n <= mid - lo) /\ (side = "b" => n <= hi - mid) /\ side \in {"a", "b"}
  <2>1. side \in {"a", "b"} /\ n <= w.left[side]
    BY DEF Sides
  <2>2. ASSUME side = "a" PROVE n <= w.left.a
    BY <2>1, <2>2
  <2>3. ASSUME side = "b" PROVE n <= w.left.b
    BY <2>1, <2>3
  <2> DEFINE na == w.left.a
             nb == w.left.b
  <2>4. na \in Nat /\ nb \in Nat /\ lo \in Int /\ mid = lo + na /\ hi = mid + nb
    BY <1>3
  <2> HIDE DEF lo, mid, hi, na, nb
  <2>5. mid - lo = na /\ hi - mid = nb
    BY <2>4
  <2>6. QED
    BY <2>1, <2>2, <2>3, <2>5 DEF na, nb
<1>8. rest.low = w.low
  BY <1>3, RestOf
<1>9. MergeOrder(rest, m, label, size) /\ EndsStay(u, v, w.low, side, n, lo, mid, hi)
  <2>1. CASE w.low
    <3>1. TakenOrder(w, side, n, size)
      BY <2>1, LowTakes
    <3>2. w.low = TRUE /\ Kept(w) = "a"
      BY <1>3, <2>1 DEF Kept, Low
    <3>3. Bottom(rest) = lo + n /\ Top(rest) = hi
      BY <3>1, <3>2 DEF TakenOrder
    <3>4. CASE side = "a"
      <4>1. Middle(rest) = mid /\ Agree(u, v, size)
        BY <3>1, <3>2, <3>4 DEF TakenOrder
      <4>2. Fits(v, TRUE, "a", n, lo, mid, hi)
        BY <3>2, <3>4
      <4> HIDE DEF rest, m, v, u, lo, mid, hi
      <4>3. InOrder(u, label, size, TRUE, lo + n, mid, hi) /\ EndsStay(u, v, TRUE, "a", n, lo, mid, hi)
        BY <1>3, <1>4, <1>5, <1>6, <1>7, <3>2, <3>4, <4>1, <4>2, TakesLow
      <4>4. QED
        BY <1>8, <3>2, <3>3, <3>4, <4>1, <4>3 DEF MergeOrder, u
    <3>5. CASE side = "b"
      <4>1. Middle(rest) = mid + n /\ Rotates(u, v, size, lo, mid, mid + n)
        BY <3>1, <3>2, <3>5 DEF TakenOrder
      <4>2. Fits(v, TRUE, "b", n, lo, mid, hi)
        BY <3>2, <3>5
      <4> HIDE DEF rest, m, v, u, lo, mid, hi
      <4>3. InOrder(u, label, size, TRUE, lo + n, mid + n, hi) /\ EndsStay(u, v, TRUE, "b", n, lo, mid, hi)
        BY <1>3, <1>4, <1>5, <1>6, <1>7, <3>2, <3>5, <4>1, <4>2, TakesLow
      <4>4. QED
        BY <1>8, <3>2, <3>3, <3>5, <4>1, <4>3 DEF MergeOrder, u
    <3>6. QED
      BY <1>7, <3>4, <3>5
  <2>2. CASE ~w.low
    <3>1. TakenOrder(w, side, n, size)
      BY <2>2, HighTakes
    <3>2. w.low = FALSE /\ Kept(w) = "b"
      BY <1>3, <2>2 DEF Kept, Low
    <3>3. Bottom(rest) = lo /\ Top(rest) = hi - n
      BY <3>1, <3>2 DEF TakenOrder
    <3>4. CASE side = "a"
      <4>1. Middle(rest) = mid - n /\ Rotates(u, v, size, mid - n, mid, hi)
        BY <3>1, <3>2, <3>4 DEF TakenOrder
      <4>2. Fits(v, FALSE, "a", n, lo, mid, hi)
        BY <3>2, <3>4
      <4> HIDE DEF rest, m, v, u, lo, mid, hi
      <4>3. InOrder(u, label, size, FALSE, lo, mid - n, hi - n) /\ EndsStay(u, v, FALSE, "a", n, lo, mid, hi)
        BY <1>3, <1>4, <1>5, <1>6, <1>7, <3>2, <3>4, <4>1, <4>2, TakesHigh
      <4>4. QED
        BY <1>8, <3>2, <3>3, <3>4, <4>1, <4>3 DEF MergeOrder, u
    <3>5. CASE side = "b"
      <4>1. Middle(rest) = mid /\ Agree(u, v, size)
        BY <3>1, <3>2, <3>5 DEF TakenOrder
      <4>2. Fits(v, FALSE, "b", n, lo, mid, hi)
        BY <3>2, <3>5
      <4> HIDE DEF rest, m, v, u, lo, mid, hi
      <4>3. InOrder(u, label, size, FALSE, lo, mid, hi - n) /\ EndsStay(u, v, FALSE, "b", n, lo, mid, hi)
        BY <1>3, <1>4, <1>5, <1>6, <1>7, <3>2, <3>5, <4>1, <4>2, TakesHigh
      <4>4. QED
        BY <1>8, <3>2, <3>3, <3>5, <4>1, <4>3 DEF MergeOrder, u
    <3>6. QED
      BY <1>7, <3>4, <3>5
  <2>3. QED
    BY <2>1, <2>2
<1> HIDE DEF rest, m
<1>10. CASE MergeEnds(rest)
  <2>1. IsSorted(Finished(rest, m), label, size, 0, 0, 0)
    BY <1>2, <1>9, <1>10, FinishedLow, FinishedHigh
  <2>2. QED
    BY <1>1, <1>10, <2>1
<1>11. CASE ~MergeEnds(rest)
  BY <1>1, <1>9, <1>11 DEF rest
<1>12. QED
  BY <1>10, <1>11

\* No score is NaN.
Comparable == \A i \in DOMAIN scores : scores[i] # NaN

\* Each run starts behind the one before it and ends below `end`.
RunsRise(p, end) ==
  /\ \A k, l \in 1 .. Len(p) : k < l => p[k].base < p[l].base
  /\ \A k \in 1 .. Len(p) : p[k].base + p[k].length <= end

\* Which work goes with which phase.
StageInv ==
  /\ \A i \in DOMAIN scores : scores[i] \in {NaN} \cup Int
  /\ RunsRise(pending, first)
  /\ work.step = "insert" => phase = "count"
  /\ work.step \in MergeSteps \cup {"begin"} => phase \in {"collapse", "force"}
  /\ phase \in {"force", "done"} => remaining = 0

LEMMA Comparison ==
  ASSUME ArrayInv, StageInv, Comparable
  PROVE  /\ \A x, y \in Entries : Less(x, y) => Before(x, y)
         /\ \A x, y \in Entries : ~Less(x, y) /\ Earlier(y, x) => Before(y, x)
         /\ IsTransitive(Entries)
<1>1. Size \in Nat /\ DOMAIN scores = 0 .. Size - 1
  BY DEF ArrayInv
<1>2. ASSUME NEW x \in Entries
      PROVE  x.value \in Int /\ x.value # NaN /\ x.id \in Int /\ Given(x) \in Int
  <2>1. PICK i \in 0 .. Size - 1 : x = [value |-> scores[i], id |-> i]
    BY DEF Entries
  <2>2. x.value = scores[i] /\ x.id = i
    BY <2>1
  <2>3. scores[i] # NaN /\ scores[i] \in {NaN} \cup Int
    BY <1>1 DEF Comparable, StageInv
  <2>4. QED
    BY <1>1, <2>2, <2>3 DEF Given
<1>3. \A x, y \in Entries : Less(x, y) => Before(x, y)
  BY DEF Less, Before
<1>4. \A x, y \in Entries : ~Less(x, y) /\ Earlier(y, x) => Before(y, x)
  <2> SUFFICES ASSUME NEW x \in Entries, NEW y \in Entries, ~Less(x, y), Earlier(y, x)
               PROVE  Before(y, x)
    OBVIOUS
  <2>1. x.value \in Int /\ y.value \in Int /\ x.value # NaN /\ y.value # NaN
    BY <1>2
  <2>2. ~(x.value < y.value)
    BY <2>1 DEF Less
  <2>3. QED
    BY <2>1, <2>2 DEF Before
<1>5. IsTransitive(Entries)
  <2> SUFFICES ASSUME NEW x \in Entries, NEW y \in Entries, NEW z \in Entries, Before(x, y), Before(y, z)
               PROVE  Before(x, z)
    BY DEF IsTransitive
  <2>1. /\ x.value \in Int /\ y.value \in Int /\ z.value \in Int
        /\ Given(x) \in Int /\ Given(y) \in Int /\ Given(z) \in Int
    BY <1>2
  <2>2. QED
    BY <2>1 DEF Before, Earlier
<1>6. QED
  BY <1>3, <1>4, <1>5

LEMMA InitStage == Init => StageInv
<1> SUFFICES ASSUME Init PROVE StageInv
  OBVIOUS
<1>1. PICK n \in Sizes : scores \in [0 .. n - 1 -> {NaN} \cup Int]
  BY TimSortAssumption DEF Init
<1>2. pending = <<>> /\ phase = "count" /\ work.step = "idle"
  BY DEF Init, StackInit, Idle
<1>3. QED
  BY <1>1, <1>2 DEF StageInv, MergeSteps, RunsRise

\* What push_run and merge_at leave of the order of the runs.
LEMMA AppendRises ==
  ASSUME NEW p \in Seq(Run), NEW end \in Nat, RunsRise(p, end), NEW n \in Nat \ {0}
  PROVE  RunsRise(Append(p, [base |-> end, length |-> n]), end + n)
<1> DEFINE r == [base |-> end, length |-> n]
           q == Append(p, r)
<1>1. r \in Run /\ r.base = end /\ r.length = n
  BY DEF Run
<1>2. Len(p) \in Nat /\ Len(q) = Len(p) + 1 /\ q[Len(p) + 1] = r /\ \A k \in 1 .. Len(p) : q[k] = p[k]
  BY <1>1, AppendRun
<1>3. ASSUME NEW k \in 1 .. Len(p)
      PROVE  p[k].base \in Nat /\ p[k].length \in Nat \ {0} /\ p[k].base + p[k].length <= end
  BY RunAt DEF RunsRise
<1> HIDE DEF q, r
<1>4. ASSUME NEW k \in 1 .. Len(q), NEW l \in 1 .. Len(q), k < l PROVE q[k].base < q[l].base
  <2>1. k \in 1 .. Len(p) /\ q[k] = p[k]
    BY <1>2, <1>4
  <2>2. CASE l = Len(p) + 1
    BY <1>1, <1>2, <1>3, <2>1, <2>2
  <2>3. CASE l # Len(p) + 1
    <3>1. l \in 1 .. Len(p) /\ q[l] = p[l]
      BY <1>2, <2>3
    <3>2. QED
      BY <1>4, <2>1, <3>1 DEF RunsRise
  <2>4. QED
    BY <2>2, <2>3
<1>5. ASSUME NEW k \in 1 .. Len(q) PROVE q[k].base + q[k].length <= end + n
  <2>1. CASE k = Len(p) + 1
    BY <1>1, <1>2, <2>1
  <2>2. CASE k # Len(p) + 1
    <3>1. k \in 1 .. Len(p) /\ q[k] = p[k]
      BY <1>2, <2>2
    <3>2. QED
      BY <1>3, <3>1
  <2>3. QED
    BY <2>1, <2>2
<1>6. RunsRise(q, end + n)
  BY <1>4, <1>5 DEF RunsRise
<1>7. QED
  BY <1>6 DEF q, r

LEMMA MergedRises ==
  ASSUME NEW p \in Seq(Run), NEW end \in Nat, RunsRise(p, end), NEW i \in 1 .. Len(p) - 1,
         p[i + 1].base = p[i].base + p[i].length
  PROVE  RunsRise(Merged(p, i), end)
<1> DEFINE q == Merged(p, i)
           Of(k) == IF k <= i THEN k ELSE k + 1
<1>1. Len(p) \in Nat /\ Len(q) = Len(p) - 1
  BY MergedRuns
<1>2. ASSUME NEW k \in 1 .. Len(q)
      PROVE  /\ q[k].base = p[Of(k)].base /\ Of(k) \in 1 .. Len(p)
             /\ q[k].length = IF k = i THEN p[i].length + p[i + 1].length ELSE p[Of(k)].length
  <2>1. k \in 1 .. Len(p) - 1 /\ Of(k) \in 1 .. Len(p)
    BY <1>1
  <2>2. q[k] = IF k < i THEN p[k]
               ELSE IF k = i THEN [base |-> p[i].base, length |-> p[i].length + p[i + 1].length]
               ELSE p[k + 1]
    BY <2>1 DEF Merged
  <2> HIDE DEF q
  <2>3. CASE k < i
    BY <2>1, <2>2, <2>3
  <2>4. CASE k = i
    BY <2>1, <2>2, <2>4
  <2>5. CASE k > i
    BY <2>1, <2>2, <2>5
  <2>6. QED
    BY <2>1, <2>3, <2>4, <2>5
<1> HIDE DEF q
<1>3. ASSUME NEW k \in 1 .. Len(q), NEW l \in 1 .. Len(q), k < l PROVE q[k].base < q[l].base
  <2>1. Of(k) < Of(l)
    BY <1>3, <1>1
  <2> HIDE DEF Of
  <2>2. QED
    BY <2>1, <1>2 DEF RunsRise
<1>4. ASSUME NEW k \in 1 .. Len(q) PROVE q[k].base + q[k].length <= end
  <2>1. CASE k = i
    <3>1. /\ q[k].base = p[i].base /\ q[k].length = p[i].length + p[i + 1].length
          /\ i \in 1 .. Len(p) /\ i + 1 \in 1 .. Len(p)
      BY <1>1, <1>2, <2>1
    <3>2. p[i].base \in Nat /\ p[i].length \in Nat /\ p[i + 1].length \in Nat
      BY <3>1, RunAt
    <3>3. p[i + 1].base + p[i + 1].length <= end
      BY <3>1 DEF RunsRise
    <3>4. QED
      BY <3>1, <3>2, <3>3
  <2>2. CASE k # i
    BY <1>2, <2>2 DEF RunsRise
  <2>3. QED
    BY <2>1, <2>2
<1>5. RunsRise(q, end)
  BY <1>3, <1>4 DEF RunsRise
<1>6. QED
  BY <1>5 DEF q

LEMMA MergeStage ==
  ASSUME StageInv, IInv, RunsAreContiguous, NEW i \in 1 .. Len(pending) - 1, MergeAt(i), MergeRuns(i),
         phase \in {"collapse", "force"}
  PROVE  StageInv'
<1>1. /\ scores' = scores /\ first' = first /\ remaining' = remaining /\ phase' = phase /\ pending' = Merged(pending, i)
  BY DEF MergeAt, MergeRuns
<1>2. work'.step \in {"idle", "begin"}
  <2>1. \E prefix : work' \in IF pending[i].length - prefix = 0 THEN {Idle}
                    ELSE {IF nb = 0 THEN Idle
                          ELSE [step |-> "begin",
                                start |-> [a |-> pending[i].base + prefix, b |-> pending[i + 1].base],
                                left |-> [a |-> pending[i].length - prefix, b |-> nb]]
                          : nb \in GallopLeft(ranking[pending[i].base + pending[i].length - 1],
                                              Slice(ranking, pending[i + 1].base, pending[i + 1].length))}
    BY DEF MergeRuns, Trimmed
  <2>2. work' = Idle \/ \E s, l : work' = [step |-> "begin", start |-> s, left |-> l]
    BY <2>1
  <2>3. QED
    BY <2>2 DEF Idle
<1>3. pending \in Seq(Run) /\ first \in Nat
  BY DEF IInv, StackTypeOK
<1>4. RunsRise(Merged(pending, i), first)
  BY <1>3, MergedRises DEF StageInv, RunsAreContiguous
<1>5. QED
  BY <1>1, <1>2, <1>4 DEF StageInv, MergeSteps, RunsRise

LEMMA TakesStage ==
  ASSUME StageInv, NEW w, NEW side, NEW n, Takes(w, side, n)
  PROVE  StageInv'
<1>1. w \in Merges /\ w.step \in MergeSteps \ {"first"} /\ side \in Sides /\ n \in Int
  BY DEF Takes, SameMerge
<1>2. work' = Idle \/ work' = Rest(w, side, n)
  BY TakeIs DEF Takes
<1>3. work'.step = "idle" \/ work'.step \in MergeSteps
  <2>1. Rest(w, side, n).step = w.step
    BY <1>1, RestOf
  <2>2. QED
    BY <1>1, <1>2, <2>1 DEF Idle
<1>4. phase \in {"collapse", "force"}
  BY DEF Takes, Merging, StageInv
<1>5. scores' = scores /\ first' = first /\ remaining' = remaining /\ phase' = phase /\ pending' = pending
  BY DEF Takes, stackVars
<1>6. QED
  BY <1>3, <1>4, <1>5 DEF StageInv, MergeSteps, RunsRise

LEMMA NextStage ==
  ASSUME IInv, RunsAreContiguous, EntriesInv, StageInv, [Next]_vars
  PROVE  StageInv'
<1>1. pending \in Seq(Run) /\ first \in Nat /\ remaining \in Nat
  BY DEF IInv, StackTypeOK
<1>2. CASE CountRun
  <2>1. \E i, n : work' = [step |-> "insert", at |-> i, length |-> n]
    BY <1>2 DEF CountRun
  <2>2. QED
    BY <1>2, <2>1 DEF CountRun, stackVars, StageInv, MergeSteps, RunsRise
<1>3. CASE Insert
  <2>1. work'.step = "insert" /\ work.step = "insert"
    <3>1. Inserting
      BY <1>3, WorkAtHand DEF Insert
    <3>2. QED
      BY <1>3, <3>1 DEF Insert, Inserting
  <2>2. QED
    BY <1>3, <2>1 DEF Insert, stackVars, StageInv, MergeSteps, RunsRise
<1>4. CASE Push
  <2>1. work' = Idle /\ scores' = scores /\ phase = "count"
    BY <1>4 DEF Push, PushRun
  <2>2. CASE phase' = "overflow" /\ UNCHANGED <<pending, first, remaining>>
    BY <2>1, <2>2 DEF StageInv, MergeSteps, RunsRise, Idle
  <2>3. CASE /\ phase' = "collapse"
             /\ pending' = Append(pending, [base |-> first, length |-> work.length])
             /\ first' = first + work.length
    <3>1. Inserting /\ work # Idle
      BY <1>4, WorkAtHand DEF Push, Idle
    <3>2. work.length \in Nat \ {0}
      BY <1>1, <2>1, <3>1 DEF IInv, CountedRunFits
    <3>3. RunsRise(pending', first')
      BY <1>1, <2>3, <3>2, AppendRises DEF StageInv
    <3>4. QED
      BY <2>1, <2>3, <3>3 DEF StageInv, MergeSteps, RunsRise, Idle
  <2>4. QED
    BY <1>4, <2>2, <2>3 DEF Push, PushRun
<1>5. CASE CollapseRuns
  <2>1. CollapseIndex(pending) \in 1 .. Len(pending) - 1
    BY <1>1, <1>5, CollapseIndexInRange DEF CollapseRuns, Collapse, MustCollapse
  <2>2. QED
    BY <1>5, <2>1, MergeStage DEF CollapseRuns, Collapse
<1>6. CASE ForceRuns
  <2>1. MergeIndex(pending) \in 1 .. Len(pending) - 1
    BY <1>1, <1>6, CollapseIndexInRange DEF ForceRuns, ForceCollapse
  <2>2. QED
    BY <1>6, <2>1, MergeStage DEF ForceRuns, ForceCollapse
<1>7. CASE EndCollapse
  BY <1>7 DEF EndCollapse, Collapsed, StageInv, MergeSteps, RunsRise, Idle
<1>8. CASE Return
  BY <1>8 DEF Return, StackDone, StageInv, MergeSteps, RunsRise, Idle
<1>9. CASE KeepShorter
  <2>1. work'.step = "first" /\ work.step = "begin"
    BY <1>9 DEF KeepShorter
  <2>2. QED
    BY <1>9, <2>1 DEF KeepShorter, stackVars, StageInv, MergeSteps, RunsRise
<1>10. CASE FirstEntry \/ Pair \/ GallopA \/ OneB \/ GallopB \/ OneA
  BY <1>10, MergeTakes, TakesStage
<1>11. CASE UNCHANGED vars
  BY <1>11 DEF vars, StageInv, RunsRise
<1>12. QED
  BY <1>2, <1>3, <1>4, <1>5, <1>6, <1>7, <1>8, <1>9, <1>10, <1>11 DEF Next

\* Labels of the places: a pending run has its base, the run being extended has
\* its start, and every place behind it is alone.
Labels(label, p, size, start, end) ==
  /\ label \in [0 .. size - 1 -> Int]
  /\ \A k \in 1 .. Len(p), i \in 0 .. size - 1 :
        label[i] = p[k].base <=> p[k].base <= i /\ i < p[k].base + p[k].length
  /\ \A i \in 0 .. size - 1 :
        /\ i < start => label[i] < start
        /\ start <= i /\ i < end => label[i] = start
        /\ i >= end => label[i] = i

LEMMA FirstLabels ==
  ASSUME NEW size \in Nat
  PROVE  Labels([i \in 0 .. size - 1 |-> i], <<>>, size, 0, 0)
<1> DEFINE label == [i \in 0 .. size - 1 |-> i]
<1>1. label \in [0 .. size - 1 -> Int] /\ \A i \in 0 .. size - 1 : label[i] = i
  OBVIOUS
<1>2. Len(<<>>) = 0
  OBVIOUS
<1> HIDE DEF label
<1>3. QED
  BY <1>1, <1>2 DEF Labels, label

\* The run being extended takes the places from mid to below hi.
LEMMA LabelsGrow ==
  ASSUME NEW size \in Nat, NEW p \in Seq(Run), NEW label, NEW start \in Nat, NEW end \in Nat,
         RunsRise(p, start), Labels(label, p, size, start, end),
         NEW mid \in Int, NEW hi \in Int, start < mid, mid <= hi, hi <= size,
         mid = end \/ (end = start /\ mid = start + 1)
  PROVE  /\ Labels(Relabelled(label, size, start, mid, hi), p, size, start, hi)
         /\ label \in [0 .. size - 1 -> Int]
<1> DEFINE new == Relabelled(label, size, start, mid, hi)
<1>1. label \in [0 .. size - 1 -> Int]
  BY DEF Labels
<1>2. start \in 0 .. size - 1 /\ label[start] = start
  <2>1. start \in 0 .. size - 1
    OBVIOUS
  <2>2. QED
    BY <2>1 DEF Labels
<1>3. /\ new \in [0 .. size - 1 -> Int]
      /\ \A i \in 0 .. size - 1 : new[i] = IF mid <= i /\ i < hi THEN start ELSE label[i]
  BY <1>1, <1>2 DEF Relabelled
<1> HIDE DEF new
<1>4. ASSUME NEW k \in 1 .. Len(p), NEW i \in 0 .. size - 1
      PROVE  new[i] = p[k].base <=> p[k].base <= i /\ i < p[k].base + p[k].length
  <2>1. p[k].base \in Nat /\ p[k].length \in Nat \ {0} /\ p[k].base + p[k].length <= start
    BY RunAt DEF RunsRise
  <2>2. label[i] = p[k].base <=> p[k].base <= i /\ i < p[k].base + p[k].length
    BY DEF Labels
  <2>3. CASE mid <= i /\ i < hi
    <3>1. new[i] = start /\ start < i
      BY <1>3, <2>3
    <3>2. QED
      BY <2>1, <3>1
  <2>4. CASE ~(mid <= i /\ i < hi)
    BY <1>3, <2>2, <2>4
  <2>5. QED
    BY <2>3, <2>4
<1>5. ASSUME NEW i \in 0 .. size - 1
      PROVE  /\ i < start => new[i] < start
             /\ start <= i /\ i < hi => new[i] = start
             /\ i >= hi => new[i] = i
  <2>1. /\ i < start => label[i] < start
        /\ start <= i /\ i < end => label[i] = start
        /\ i >= end => label[i] = i
    BY DEF Labels
  <2>2. QED
    BY <1>3, <2>1
<1>6. Labels(new, p, size, start, hi)
  BY <1>3, <1>4, <1>5 DEF Labels
<1>7. QED
  BY <1>1, <1>6 DEF new

LEMMA LabelsPush ==
  ASSUME NEW size \in Nat, NEW p \in Seq(Run), NEW label, NEW start \in Nat, NEW n \in Nat \ {0},
         RunsRise(p, start), Labels(label, p, size, start, start + n)
  PROVE  Labels(label, Append(p, [base |-> start, length |-> n]), size, start + n, start + n)
<1> DEFINE r == [base |-> start, length |-> n]
           q == Append(p, r)
<1>1. r \in Run /\ r.base = start /\ r.length = n
  BY DEF Run
<1>2. Len(p) \in Nat /\ Len(q) = Len(p) + 1 /\ q[Len(p) + 1] = r /\ \A k \in 1 .. Len(p) : q[k] = p[k]
  BY <1>1, AppendRun
<1>3. label \in [0 .. size - 1 -> Int]
  BY DEF Labels
<1>4. ASSUME NEW i \in 0 .. size - 1
      PROVE  /\ i < start => label[i] < start
             /\ start <= i /\ i < start + n => label[i] = start
             /\ i >= start + n => label[i] = i
  BY DEF Labels
<1> HIDE DEF q, r
<1>5. ASSUME NEW k \in 1 .. Len(q), NEW i \in 0 .. size - 1
      PROVE  label[i] = q[k].base <=> q[k].base <= i /\ i < q[k].base + q[k].length
  <2>1. CASE k = Len(p) + 1
    <3>1. q[k].base = start /\ q[k].length = n
      BY <1>1, <1>2, <2>1
    <3>2. label[i] \in Int
      BY <1>3
    <3>3. QED
      BY <1>4, <3>1, <3>2
  <2>2. CASE k # Len(p) + 1
    <3>1. k \in 1 .. Len(p) /\ q[k] = p[k]
      BY <1>2, <2>2
    <3>2. QED
      BY <3>1 DEF Labels
  <2>3. QED
    BY <2>1, <2>2
<1>6. ASSUME NEW i \in 0 .. size - 1
      PROVE  i < start + n => label[i] < start + n
  BY <1>3, <1>4
<1>7. Labels(label, q, size, start + n, start + n)
  BY <1>3, <1>4, <1>5, <1>6 DEF Labels
<1>8. QED
  BY <1>7 DEF q, r

\* Two neighbouring labels become one.
TwoLabels(label, size, start, lo, mid, hi) ==
  /\ \A x \in 0 .. size - 1 : label[x] = lo <=> lo <= x /\ x < mid
  /\ \A x \in 0 .. size - 1 : label[x] = mid <=> mid <= x /\ x < hi
  /\ \A x \in 0 .. size - 1 : x < start => label[x] < start
  /\ \A x \in 0 .. size - 1 : x >= start => label[x] = x
\* What the labels are then.
TheirLabel(new, label, size, start, lo, mid, hi) ==
  /\ new \in [0 .. size - 1 -> Int]
  /\ \A x \in 0 .. size - 1 : new[x] = lo <=> lo <= x /\ x < hi
  /\ \A x \in 0 .. size - 1, b \in Int : b # lo /\ b # mid => (new[x] = b <=> label[x] = b)
  /\ \A x \in 0 .. size - 1 : x < start => new[x] < start
  /\ \A x \in 0 .. size - 1 : x >= start => new[x] = x

LEMMA OneLabelOfTwo ==
  ASSUME NEW size \in Nat, NEW label \in [0 .. size - 1 -> Int], NEW start \in Nat, start <= size,
         NEW lo \in Nat, NEW mid \in Nat, NEW hi \in Nat, lo < mid, mid < hi, hi <= start,
         TwoLabels(label, size, start, lo, mid, hi)
  PROVE  /\ IsRun(label, size, lo, mid) /\ IsRun(label, size, mid, hi)
         /\ TheirLabel(Relabelled(label, size, lo, mid, hi), label, size, start, lo, mid, hi)
<1> DEFINE new == Relabelled(label, size, lo, mid, hi)
<1> USE DEF TwoLabels
<1>1. lo \in 0 .. size - 1 /\ mid \in 0 .. size - 1
  OBVIOUS
<1>2. label[lo] = lo /\ label[mid] = mid
  BY <1>1
<1>3. /\ new \in [0 .. size - 1 -> Int]
      /\ \A x \in 0 .. size - 1 : new[x] = IF mid <= x /\ x < hi THEN lo ELSE label[x]
  BY <1>1, <1>2 DEF Relabelled
<1> HIDE DEF new
<1>4. IsRun(label, size, lo, mid) /\ IsRun(label, size, mid, hi)
  BY <1>2 DEF IsRun
<1>5. \A x \in 0 .. size - 1 : new[x] = lo <=> lo <= x /\ x < hi
  BY <1>3
<1>6. \A x \in 0 .. size - 1, b \in Int : b # lo /\ b # mid => (new[x] = b <=> label[x] = b)
  BY <1>3
<1>7. \A x \in 0 .. size - 1 : x < start => new[x] < start
  BY <1>3
<1>8. \A x \in 0 .. size - 1 : x >= start => new[x] = x
  BY <1>3
<1>9. QED
  BY <1>3, <1>4, <1>5, <1>6, <1>7, <1>8 DEF new, TheirLabel

LEMMA MergedIs ==
  ASSUME NEW p \in Seq(Run), NEW i \in 1 .. Len(p) - 1
  PROVE  /\ Len(Merged(p, i)) = Len(p) - 1
         /\ Merged(p, i)[i] = [base |-> p[i].base, length |-> p[i].length + p[i + 1].length]
         /\ \A k \in 1 .. Len(p) - 1 : k # i =>
               \E l \in 1 .. Len(p) : l # i /\ l # i + 1 /\ Merged(p, i)[k] = p[l]
<1> DEFINE q == Merged(p, i)
<1>1. Len(p) \in Nat /\ Len(q) = Len(p) - 1
  BY MergedRuns
<1>2. \A k \in 1 .. Len(p) - 1 :
          q[k] = IF k < i THEN p[k]
                 ELSE IF k = i THEN [base |-> p[i].base, length |-> p[i].length + p[i + 1].length]
                 ELSE p[k + 1]
  BY DEF Merged
<1> HIDE DEF q
<1>3. ASSUME NEW k \in 1 .. Len(p) - 1, k # i
      PROVE  \E l \in 1 .. Len(p) : l # i /\ l # i + 1 /\ q[k] = p[l]
  <2>1. CASE k < i
    <3>1. q[k] = p[k] /\ k \in 1 .. Len(p) /\ k # i + 1
      BY <1>1, <1>2, <2>1
    <3>2. QED
      BY <1>3, <3>1
  <2>2. CASE k > i
    <3>1. q[k] = p[k + 1] /\ k + 1 \in 1 .. Len(p) /\ k + 1 # i /\ k + 1 # i + 1
      BY <1>1, <1>2, <2>2
    <3>2. QED
      BY <3>1
  <2>3. QED
    BY <1>3, <2>1, <2>2
<1>4. q[i] = [base |-> p[i].base, length |-> p[i].length + p[i + 1].length]
  BY <1>2
<1>5. QED
  BY <1>1, <1>3, <1>4 DEF q

LEMMA LabelsMerge ==
  ASSUME NEW size \in Nat, NEW p \in Seq(Run), NEW label, NEW start \in Nat, start <= size,
         RunsRise(p, start), Labels(label, p, size, start, start), NEW i \in 1 .. Len(p) - 1,
         p[i + 1].base = p[i].base + p[i].length
  PROVE  LET lo == p[i].base
             mid == p[i + 1].base
             hi == mid + p[i + 1].length
         IN  /\ label \in [0 .. size - 1 -> Int]
             /\ IsRun(label, size, lo, mid) /\ IsRun(label, size, mid, hi)
             /\ Labels(Relabelled(label, size, lo, mid, hi), Merged(p, i), size, start, start)
<1> DEFINE lo == p[i].base
           mid == p[i + 1].base
           hi == mid + p[i + 1].length
           new == Relabelled(label, size, lo, mid, hi)
           q == Merged(p, i)
<1>1. label \in [0 .. size - 1 -> Int] /\ Len(p) \in Nat /\ i \in 1 .. Len(p) /\ i + 1 \in 1 .. Len(p)
  BY DEF Labels
<1>2. lo \in Nat /\ p[i].length \in Nat \ {0} /\ mid \in Nat /\ p[i + 1].length \in Nat \ {0}
  BY <1>1, RunAt
<1>3. mid + p[i + 1].length <= start
  BY <1>1 DEF RunsRise
<1>4. hi \in Nat /\ lo < mid /\ mid < hi /\ hi <= start /\ mid = lo + p[i].length
  <2> DEFINE n == p[i].length
             m == p[i + 1].length
  <2>1. lo \in Nat /\ n \in Nat \ {0} /\ m \in Nat \ {0} /\ mid = lo + n /\ hi = mid + m /\ mid + m <= start
    BY <1>2, <1>3
  <2> HIDE DEF lo, mid, hi, n, m
  <2>2. hi \in Nat /\ lo < mid /\ mid < hi /\ hi <= start /\ mid = lo + n
    BY <2>1
  <2>3. QED
    BY <2>2 DEF n
<1>5. \A x \in 0 .. size - 1 : label[x] = lo <=> lo <= x /\ x < lo + p[i].length
  BY <1>1 DEF Labels
<1>6. \A x \in 0 .. size - 1 : label[x] = mid <=> mid <= x /\ x < mid + p[i + 1].length
  BY <1>1 DEF Labels
<1>7. /\ \A x \in 0 .. size - 1 : x < start => label[x] < start
      /\ \A x \in 0 .. size - 1 : x >= start => label[x] = x
  BY DEF Labels
<1>8. \A x \in 0 .. size - 1 : /\ label[x] = lo <=> lo <= x /\ x < mid
                               /\ label[x] = mid <=> mid <= x /\ x < hi
  BY <1>4, <1>5, <1>6
<1>10. Merged(p, i)[i] = [base |-> lo, length |-> p[i].length + p[i + 1].length]
  BY MergedIs
<1>11. q[i].base = lo /\ q[i].base + q[i].length = hi
  BY <1>2, <1>4, <1>10
<1>12. /\ Len(q) = Len(p) - 1
       /\ \A k \in 1 .. Len(p) - 1 : k # i => \E l \in 1 .. Len(p) : l # i /\ l # i + 1 /\ q[k] = p[l]
  BY MergedIs
<1>13. ASSUME NEW l \in 1 .. Len(p), l # i, l # i + 1
       PROVE  /\ p[l].base \in Int /\ p[l].base # lo /\ p[l].base # mid
              /\ \A x \in 0 .. size - 1 : label[x] = p[l].base <=> p[l].base <= x /\ x < p[l].base + p[l].length
  <2>1. l < i \/ i < l
    BY <1>1, <1>13
  <2>2. p[l].base < p[i].base \/ p[i].base < p[l].base
    BY <1>1, <2>1 DEF RunsRise
  <2>3. l < i + 1 \/ i + 1 < l
    BY <1>1, <1>13
  <2>4. p[l].base < p[i + 1].base \/ p[i + 1].base < p[l].base
    BY <1>1, <2>3 DEF RunsRise
  <2>5. p[l].base \in Nat
    BY RunAt
  <2>6. p[l].base # lo /\ p[l].base # mid
    BY <1>2, <2>2, <2>4, <2>5
  <2>7. \A x \in 0 .. size - 1 : label[x] = p[l].base <=> p[l].base <= x /\ x < p[l].base + p[l].length
    BY DEF Labels
  <2>8. QED
    BY <2>5, <2>6, <2>7
<1> HIDE DEF lo, mid, hi, new, q
<1>9. TwoLabels(label, size, start, lo, mid, hi)
  BY <1>7, <1>8 DEF TwoLabels
<1>14. /\ IsRun(label, size, lo, mid) /\ IsRun(label, size, mid, hi)
       /\ TheirLabel(new, label, size, start, lo, mid, hi)
  BY <1>1, <1>2, <1>4, <1>9, OneLabelOfTwo DEF new
<1>15. ASSUME NEW k \in 1 .. Len(q), NEW x \in 0 .. size - 1
      PROVE  new[x] = q[k].base <=> q[k].base <= x /\ x < q[k].base + q[k].length
  <2>1. CASE k = i
    BY <1>11, <1>14, <2>1 DEF TheirLabel
  <2>2. CASE k # i
    <3>1. PICK l \in 1 .. Len(p) : l # i /\ l # i + 1 /\ q[k] = p[l]
      BY <1>12, <2>2
    <3>2. p[l].base \in Int /\ p[l].base # lo /\ p[l].base # mid
      BY <1>13, <3>1
    <3>3. new[x] = p[l].base <=> label[x] = p[l].base
      BY <1>14, <3>2 DEF TheirLabel
    <3>4. label[x] = p[l].base <=> p[l].base <= x /\ x < p[l].base + p[l].length
      BY <1>13, <3>1
    <3>5. QED
      BY <3>1, <3>3, <3>4
  <2>3. QED
    BY <2>1, <2>2
<1>16. ASSUME NEW x \in 0 .. size - 1 PROVE ~(start <= x /\ x < start)
  OBVIOUS
<1>17. Labels(new, q, size, start, start)
  BY <1>14, <1>15, <1>16 DEF Labels, TheirLabel
<1>18. QED
  BY <1>1, <1>14, <1>17 DEF lo, mid, hi, new, q

\* Entries that stand in order among themselves and were alone before make a run.
LEMMA NewRun ==
  ASSUME NEW size \in Nat, NEW v, NEW u, NEW was, NEW label, NEW lo \in Int, NEW hi \in Int,
         0 <= lo, lo < hi, hi <= size,
         IsSorted(v, label, size, 0, 0, 0), \A i \in lo .. hi - 1 : label[i] = i,
         \A i \in 0 .. size - 1 : label[i] = lo => i = lo,
         \A i, j \in 0 .. size - 1 : ~(lo <= i /\ i < hi) /\ lo <= j /\ j < hi => label[i] # label[j],
         \A i \in lo .. hi - 1 : was[i] \in lo .. hi - 1 /\ u[i] = v[was[i]],
         \A i \in 0 .. size - 1 : ~(lo <= i /\ i < hi) => u[i] = v[i],
         \A i, j \in lo .. hi - 1 : i < j => Before(u[i], u[j])
  PROVE  IsSorted(u, Relabelled(label, size, lo, lo + 1, hi), size, 0, 0, 0)
<1> DEFINE new == Relabelled(label, size, lo, lo + 1, hi)
           In(i) == lo <= i /\ i < hi
<1>1. lo \in 0 .. size - 1 /\ label[lo] = lo
  OBVIOUS
<1>2. \A i \in 0 .. size - 1 : new[i] = IF In(i) THEN lo ELSE label[i]
  BY <1>1 DEF Relabelled
<1> HIDE DEF new
<1>3. SUFFICES ASSUME NEW i \in 0 .. size - 1, NEW j \in 0 .. size - 1, i < j
      PROVE  IF new[i] = new[j] THEN Before(u[i], u[j]) ELSE Earlier(u[i], u[j])
  BY DEF IsSorted, new
<1>4. \A x, y \in 0 .. size - 1 : x < y => IF label[x] = label[y] THEN Before(v[x], v[y]) ELSE Earlier(v[x], v[y])
  BY DEF IsSorted
<1>5. CASE In(i) /\ In(j)
  <2>1. new[i] = new[j] /\ i \in lo .. hi - 1 /\ j \in lo .. hi - 1
    BY <1>2, <1>5
  <2>2. QED
    BY <1>3, <2>1
<1>6. CASE ~In(i) /\ ~In(j)
  BY <1>2, <1>3, <1>4, <1>6
<1>7. CASE ~In(i) /\ In(j)
  <2>1. /\ was[j] \in lo .. hi - 1 /\ was[j] \in 0 .. size - 1 /\ i < was[j]
        /\ u[j] = v[was[j]] /\ u[i] = v[i]
    BY <1>3, <1>7
  <2>2. label[i] # label[was[j]] /\ label[i] # label[lo]
    BY <1>1, <1>7, <2>1
  <2>3. new[i] # new[j]
    BY <1>1, <1>2, <1>7, <2>2
  <2>4. QED
    BY <1>4, <2>1, <2>2, <2>3
<1>8. CASE In(i) /\ ~In(j)
  <2>1. /\ was[i] \in lo .. hi - 1 /\ was[i] \in 0 .. size - 1 /\ was[i] < j
        /\ u[i] = v[was[i]] /\ u[j] = v[j]
    BY <1>3, <1>8
  <2>2. label[j] # label[was[i]] /\ label[j] # label[lo]
    BY <1>1, <1>8, <2>1
  <2>3. new[i] # new[j]
    BY <1>1, <1>2, <1>8, <2>2
  <2>4. QED
    BY <1>4, <2>1, <2>2, <2>3
<1>9. QED
  BY <1>5, <1>6, <1>7, <1>8

\* Up to where the array has been looked at.
Counted == IF work.step = "insert" THEN work.at ELSE first

\* The steps that take one entry without comparing it: the comparison was made
\* before.
Due(w, side) ==
  \/ w.step = "first" /\ side = Other(w)
  \/ w.step = "one_a" /\ side = "a"
  \/ w.step = "one_b" /\ side = "b"
\* What that comparison said still holds.
DueFits(w, v, lo, mid, hi) ==
  \A side \in Sides : Due(w, side) => Fits(v, w.low, side, 1, lo, mid, hi)

\* What is in order, with these labels, while a piece of work is under way.
WorkOrder(label) ==
  /\ work.step \in {"idle", "insert"} => IsSorted(ranking, label, Size, 0, 0, 0)
  /\ work.step = "begin" =>
        \A low \in BOOLEAN : InOrder(ranking, label, Size, low, work.start.a, work.start.b, work.start.b + work.left.b)
  /\ work.step \in MergeSteps =>
        /\ MergeOrder(work, ranking, label, Size)
        /\ DueFits(work, Unmerged(work, ranking), Bottom(work), Middle(work), Top(work))

\* The array falls into sorted runs, and the runs follow each other in the order
\* of what they were given.
Ordered == \E label : Labels(label, pending, Size, first, Counted) /\ WorkOrder(label)

\* The invariant of the order: before the sort is over there are such labels, and
\* when it is over one run is left, which is what SortsStably says.
OrderInv ==
  /\ SortsStably
  /\ Comparable /\ phase \in {"count", "collapse", "force"} => Ordered

\* The order of a state after a step that leaves the scores alone.
LEMMA SortedNext ==
  ASSUME scores' = scores, reverse' = reverse, NEW label, work'.step \in {"idle", "insert"},
         IsSorted(ranking', label, Size, 0, 0, 0)
  PROVE  WorkOrder(label)'
<1>1. IsSorted(ranking, label, Size, 0, 0, 0)'
  BY DEF IsSorted, Before, Earlier, Given, Size
<1>2. work'.step # "begin" /\ work'.step \notin MergeSteps
  BY DEF MergeSteps
<1>3. QED
  BY <1>1, <1>2 DEF WorkOrder

LEMMA BeginNext ==
  ASSUME scores' = scores, reverse' = reverse, NEW label, work'.step = "begin",
         NEW lo, NEW mid, NEW hi, lo = work'.start.a, mid = work'.start.b, hi = work'.start.b + work'.left.b,
         InOrder(ranking', label, Size, TRUE, lo, mid, hi), InOrder(ranking', label, Size, FALSE, lo, mid, hi)
  PROVE  WorkOrder(label)'
<1>1. \A low \in BOOLEAN : InOrder(ranking, label, Size, low, lo, mid, hi)'
  BY DEF InOrder, OneLabel, IsSorted, Before, Earlier, Given, Size
<1>2. (\A low \in BOOLEAN : InOrder(ranking, label, Size, low, work.start.a, work.start.b, work.start.b + work.left.b))'
  BY <1>1 DEF InOrder, OneLabel, IsSorted, Before, Earlier, Given, Size
<1>3. work'.step \notin {"idle", "insert"} /\ work'.step \notin MergeSteps
  BY DEF MergeSteps
<1>4. QED
  BY <1>2, <1>3 DEF WorkOrder

LEMMA MergeNext ==
  ASSUME scores' = scores, reverse' = reverse, NEW label, work'.step \in MergeSteps,
         NEW v, NEW lo, NEW mid, NEW hi, v = Unmerged(work, ranking)',
         lo = Bottom(work)', mid = Middle(work)', hi = Top(work)',
         InOrder(v, label, Size, work'.low, lo, mid, hi), DueFits(work', v, lo, mid, hi)
  PROVE  WorkOrder(label)'
<1>1. MergeOrder(work, ranking, label, Size)'
  BY DEF MergeOrder, InOrder, OneLabel, IsSorted, Before, Earlier, Given, Size
<1>2. DueFits(work, Unmerged(work, ranking), Bottom(work), Middle(work), Top(work))'
  BY DEF DueFits, Due, Fits, Other, Low, Before, Earlier, Given, Size
<1>3. work'.step \notin {"idle", "insert", "begin"}
  BY DEF MergeSteps
<1>4. QED
  BY <1>1, <1>2, <1>3 DEF WorkOrder

\* What is left of the sides, in the array as if yet to be merged.
LEMMA RemainingAre ==
  ASSUME ArrayInv, Merging, NEW v, v = Unmerged(work, ranking),
         NEW lo, NEW mid, NEW hi, lo = Bottom(work), mid = Middle(work), hi = Top(work)
  PROVE  /\ Len(Remaining("a")) = work.left.a /\ Len(Remaining("b")) = work.left.b
         /\ \A k \in 1 .. work.left.a : Remaining("a")[k] = v[lo + k - 1]
         /\ \A k \in 1 .. work.left.b : Remaining("b")[k] = v[mid + k - 1]
         /\ work.left.a >= 1 => IF work.low THEN Front("a") = v[lo] ELSE Front("a") = v[mid - 1]
         /\ work.left.b >= 1 => IF work.low THEN Front("b") = v[mid] ELSE Front("b") = v[hi - 1]
<1>1. /\ Size \in Nat /\ Half \in Nat /\ ranking \in [0 .. Size - 1 -> Entries]
      /\ temporary \in [0 .. Half - 1 -> Entries] /\ Lies(work, Size, Half)
  BY HalfIs DEF ArrayInv, Half, Merging
<1>2. /\ work.low \in BOOLEAN /\ lo \in Int /\ mid \in Int /\ hi \in Int /\ 0 <= lo
      /\ mid = lo + work.left.a /\ hi = mid + work.left.b /\ hi <= Size
      /\ work.left.a \in Nat /\ work.left.b \in Nat /\ Size \in Nat
  BY <1>1, GapNumbers
<1>3. work.start.a \in Int /\ work.start.b \in Int
  BY <1>1, MergeNumbers DEF Lies
<1>4. ASSUME NEW s \in Sides
      PROVE  /\ Len(Remaining(s)) = work.left[s]
             /\ \A k \in 1 .. work.left[s] : Remaining(s)[k] = Store(work, ranking, s)[work.start[s] + k - 1]
  <2>1. work.left[s] \in Nat
    BY <1>2 DEF Sides
  <2>2. Remaining(s) = [i \in 1 .. work.left[s] |-> Store(work, ranking, s)[work.start[s] + i - 1]]
    BY DEF Remaining, Slice
  <2>3. QED
    BY <2>1, <2>2
<1>5. /\ \A k \in 1 .. work.left.a : Store(work, ranking, "a")[work.start.a + k - 1] = v[lo + k - 1]
      /\ \A k \in 1 .. work.left.b : Store(work, ranking, "b")[work.start.b + k - 1] = v[mid + k - 1]
  <2>1. CASE work.low
    <3>1. /\ lo = work.to /\ work.start.b = mid
          /\ Store(work, ranking, "a") = temporary /\ Store(work, ranking, "b") = ranking
      BY <1>1, <1>2, <2>1, LowMerge
    <3>2. Overlays(v, Size, lo, work.left.a, temporary, work.start.a, ranking)
      <4>1. Overlays(v, Size, work.to, work.left.a, temporary, work.start.a, ranking)
        BY <1>1, <2>1, UnmergedLow
      <4>2. QED
        BY <3>1, <4>1
    <3>3. ASSUME NEW k \in 1 .. work.left.a PROVE temporary[work.start.a + k - 1] = v[lo + k - 1]
      <4>1. /\ lo + k - 1 \in 0 .. Size - 1 /\ lo <= lo + k - 1 /\ lo + k - 1 < lo + work.left.a
            /\ work.start.a + (lo + k - 1) - lo = work.start.a + k - 1
        BY <1>2, <1>3
      <4>2. QED
        BY <3>2, <4>1 DEF Overlays
    <3>4. ASSUME NEW k \in 1 .. work.left.b PROVE ranking[mid + k - 1] = v[mid + k - 1]
      <4>1. mid + k - 1 \in 0 .. Size - 1 /\ ~(mid + k - 1 < lo + work.left.a)
        BY <1>2
      <4>2. QED
        BY <3>2, <4>1 DEF Overlays
    <3>5. QED
      BY <3>1, <3>3, <3>4
  <2>2. CASE ~work.low
    <3>1. /\ lo = work.start.a
          /\ Store(work, ranking, "a") = ranking /\ Store(work, ranking, "b") = temporary
      BY <1>1, <2>2, HighMerge
    <3>2. Overlays(v, Size, mid, work.left.b, temporary, work.start.b, ranking)
      BY <1>1, <2>2, UnmergedHigh
    <3>3. ASSUME NEW k \in 1 .. work.left.b PROVE temporary[work.start.b + k - 1] = v[mid + k - 1]
      <4>1. /\ mid + k - 1 \in 0 .. Size - 1 /\ mid <= mid + k - 1 /\ mid + k - 1 < mid + work.left.b
            /\ work.start.b + (mid + k - 1) - mid = work.start.b + k - 1
        BY <1>2, <1>3
      <4>2. QED
        BY <3>2, <4>1 DEF Overlays
    <3>4. ASSUME NEW k \in 1 .. work.left.a PROVE ranking[lo + k - 1] = v[lo + k - 1]
      <4>1. lo + k - 1 \in 0 .. Size - 1 /\ ~(mid <= lo + k - 1)
        BY <1>2
      <4>2. QED
        BY <3>2, <4>1 DEF Overlays
    <3>5. QED
      BY <3>1, <3>3, <3>4
  <2>3. QED
    BY <2>1, <2>2
<1>6. /\ Len(Remaining("a")) = work.left.a /\ Len(Remaining("b")) = work.left.b
      /\ \A k \in 1 .. work.left.a : Remaining("a")[k] = v[lo + k - 1]
      /\ \A k \in 1 .. work.left.b : Remaining("b")[k] = v[mid + k - 1]
  BY <1>4, <1>5 DEF Sides
<1>7. /\ Front("a") = Remaining("a")[IF work.low THEN 1 ELSE work.left.a]
      /\ Front("b") = Remaining("b")[IF work.low THEN 1 ELSE work.left.b]
  BY DEF Front, Low
<1>8. ASSUME work.left.a >= 1 PROVE IF work.low THEN Front("a") = v[lo] ELSE Front("a") = v[mid - 1]
  <2>1. /\ 1 \in 1 .. work.left.a /\ work.left.a \in 1 .. work.left.a
        /\ lo + 1 - 1 = lo /\ lo + work.left.a - 1 = mid - 1
    BY <1>2, <1>8
  <2>2. Remaining("a")[1] = v[lo] /\ Remaining("a")[work.left.a] = v[mid - 1]
    BY <1>6, <2>1
  <2>3. QED
    BY <1>7, <2>2
<1>9. ASSUME work.left.b >= 1 PROVE IF work.low THEN Front("b") = v[mid] ELSE Front("b") = v[hi - 1]
  <2>1. /\ 1 \in 1 .. work.left.b /\ work.left.b \in 1 .. work.left.b
        /\ mid + 1 - 1 = mid /\ mid + work.left.b - 1 = hi - 1
    BY <1>2, <1>9
  <2>2. Remaining("b")[1] = v[mid] /\ Remaining("b")[work.left.b] = v[hi - 1]
    BY <1>6, <2>1
  <2>3. QED
    BY <1>7, <2>2
<1>10. QED
  BY <1>6, <1>8, <1>9

\* The left side was given earlier than the right one.
LEMMA SidesEarlier ==
  ASSUME NEW size \in Nat, NEW v, NEW label, NEW low, NEW lo \in Int, NEW mid \in Int, NEW hi \in Int,
         0 <= lo, hi <= size, InOrder(v, label, size, low, lo, mid, hi),
         NEW i \in Int, NEW j \in Int, lo <= i, i < mid, mid <= j, j < hi
  PROVE  Earlier(v[i], v[j])
<1>1. i \in 0 .. size - 1 /\ j \in 0 .. size - 1 /\ i < j
  OBVIOUS
<1>2. QED
  BY <1>1 DEF InOrder, IsSorted

LEMMA SameOrder ==
  ASSUME NEW w, SameMerge(w), NEW r
  PROVE  /\ Unmerged(w, r) = Unmerged(work, r) /\ Bottom(w) = Bottom(work) /\ Middle(w) = Middle(work)
         /\ Top(w) = Top(work) /\ Kept(w) = Kept(work) /\ Other(w) = Other(work)
         /\ \A label, size : MergeOrder(w, r, label, size) <=> MergeOrder(work, r, label, size)
<1>1. w.low = work.low /\ w.start = work.start /\ w.left = work.left /\ w.to = work.to
  BY DEF SameMerge
<1>2. Kept(w) = Kept(work) /\ Other(w) = Other(work)
  BY <1>1 DEF Kept, Other, Low
<1>3. Bottom(w) = Bottom(work) /\ Top(w) = Top(work)
  BY <1>1 DEF Bottom, Top
<1>4. Middle(w) = Middle(work)
  BY <1>1, <1>3 DEF Middle
<1>5. Unmerged(w, r) = Unmerged(work, r)
  BY <1>1, <1>2, <1>4 DEF Unmerged
<1>6. QED
  BY <1>1, <1>2, <1>3, <1>4, <1>5 DEF MergeOrder

\* Where the next lo, mid and hi are after n entries of a side went.
NextLow(low, lo, n) == IF low THEN lo + n ELSE lo
NextHigh(low, hi, n) == IF low THEN hi ELSE hi - n
NextMiddle(low, side, mid, n) ==
  IF low THEN (IF side = "a" THEN mid ELSE mid + n) ELSE (IF side = "b" THEN mid ELSE mid - n)

LEMMA TakesPlaces ==
  ASSUME NEW w, NEW size \in Nat, NEW half \in Nat, Lies(w, size, half), NEW side \in Sides, NEW n \in Int,
         ~MergeEnds(Rest(w, side, n)), Lies(Rest(w, side, n), size, half)
  PROVE  LET rest == Rest(w, side, n)
         IN  /\ rest.step = w.step /\ rest.low = w.low
             /\ Bottom(rest) = NextLow(w.low, Bottom(w), n) /\ Top(rest) = NextHigh(w.low, Top(w), n)
             /\ Middle(rest) = NextMiddle(w.low, side, Middle(w), n)
             /\ IF side = "a" THEN Middle(w) - Bottom(w) > n ELSE Top(w) - Middle(w) > n
<1> DEFINE rest == Rest(w, side, n)
<1>1. w \in Merges /\ w.low \in BOOLEAN
  BY GapNumbers
<1>2. /\ w.left.a \in Int /\ w.left.b \in Int /\ w.start.a \in Int /\ w.start.b \in Int /\ w.to \in Int
  BY <1>1, MergeNumbers
<1>3. rest.step = w.step
  BY <1>1, RestOf
<1>4. rest.left.a >= 1 /\ rest.left.b >= 1
  <2>1. rest.left.a \in Nat /\ rest.left.b \in Nat
    BY GapNumbers
  <2> HIDE DEF rest
  <2>2. rest.left[Other(rest)] # 0 /\ ~(rest.left[Kept(rest)] <= 1)
    BY DEF MergeEnds, rest
  <2>3. QED
    BY <2>1, <2>2 DEF Other, Kept
<1>5. CASE side = "a"
  <2>1. /\ rest.low = w.low /\ rest.left.a = w.left.a - n /\ rest.left.b = w.left.b /\ rest.start.b = w.start.b
        /\ rest.start.a = (IF w.low THEN w.start.a + n ELSE w.start.a)
        /\ rest.to = (IF w.low THEN w.to + n ELSE w.to - n)
    BY <1>1, <1>5, RestOfLeft
  <2>2. w.low => w.start.b = w.to + w.left.a
    BY DEF Lies
  <2>3. ~w.low => w.to = w.start.a + w.left.a + w.left.b
    BY DEF Lies
  <2> HIDE DEF rest
  <2>4. /\ Bottom(rest) = NextLow(w.low, Bottom(w), n) /\ Top(rest) = NextHigh(w.low, Top(w), n)
    BY <1>1, <1>2, <2>1 DEF Bottom, Top, NextLow, NextHigh
  <2>5. Middle(rest) = NextMiddle(w.low, side, Middle(w), n)
    BY <1>1, <1>2, <1>5, <2>1 DEF Middle, Bottom, NextMiddle
  <2>6. Middle(w) - Bottom(w) > n
    BY <1>1, <1>2, <1>4, <2>1 DEF Middle, Bottom
  <2>7. QED
    BY <1>3, <1>5, <2>1, <2>4, <2>5, <2>6 DEF rest
<1>6. CASE side = "b"
  <2>1. /\ rest.low = w.low /\ rest.left.a = w.left.a /\ rest.left.b = w.left.b - n /\ rest.start.a = w.start.a
        /\ rest.start.b = (IF w.low THEN w.start.b + n ELSE w.start.b)
        /\ rest.to = (IF w.low THEN w.to + n ELSE w.to - n)
    BY <1>1, <1>6, RestOfRight
  <2>2. w.low => w.start.b = w.to + w.left.a
    BY DEF Lies
  <2>3. ~w.low => w.to = w.start.a + w.left.a + w.left.b
    BY DEF Lies
  <2> HIDE DEF rest
  <2>4. /\ Bottom(rest) = NextLow(w.low, Bottom(w), n) /\ Top(rest) = NextHigh(w.low, Top(w), n)
    BY <1>1, <1>2, <2>1 DEF Bottom, Top, NextLow, NextHigh
  <2>5. Middle(rest) = NextMiddle(w.low, side, Middle(w), n)
    BY <1>1, <1>2, <1>6, <2>1 DEF Middle, Bottom, NextMiddle
  <2>6. Top(w) - Middle(w) > n
    BY <1>1, <1>2, <1>4, <2>1, <2>2, <2>3 DEF Middle, Bottom, Top
  <2>7. QED
    BY <1>3, <1>6, <2>1, <2>4, <2>5, <2>6 DEF rest
<1>7. QED
  BY <1>5, <1>6 DEF Sides

\* After a step that took n entries the merge goes on with the array u.
GoesOn(u, v, w, label, side, n, lo, mid, hi) ==
  /\ work'.step = w.step /\ work'.low = work.low
  /\ EndsStay(u, v, work.low, side, n, lo, mid, hi)
  /\ IF side = "a" THEN mid - lo > n ELSE hi - mid > n
  /\ DueFits(work', u, NextLow(work.low, lo, n), NextMiddle(work.low, side, mid, n), NextHigh(work.low, hi, n))
        => WorkOrder(label)'

LEMMA TakesNext ==
  ASSUME ArrayInv, StageInv, Comparable, NEW label, MergeOrder(work, ranking, label, Size),
         NEW w, NEW side, NEW n, Takes(w, side, n),
         NEW v, v = Unmerged(work, ranking),
         NEW lo, NEW mid, NEW hi, lo = Bottom(work), mid = Middle(work), hi = Top(work),
         Fits(v, work.low, side, n, lo, mid, hi)
  PROVE  WorkOrder(label)' \/ \E u : GoesOn(u, v, w, label, side, n, lo, mid, hi)
<1>1. /\ Merging /\ SameMerge(w) /\ side \in Sides /\ n \in Int /\ 0 <= n /\ n <= work.left[side]
      /\ Take(w, side, n)
      /\ scores' = scores /\ reverse' = reverse /\ temporary' = temporary
  BY DEF Takes
<1>2. /\ Size \in Nat /\ Half \in Nat /\ ranking \in [0 .. Size - 1 -> Entries]
      /\ temporary \in [0 .. Half - 1 -> Entries]
  BY HalfIs DEF ArrayInv, Half
<1>3. w.low = work.low /\ w.start = work.start /\ w.left = work.left /\ w.to = work.to /\ w \in Merges
  BY <1>1 DEF SameMerge
<1>4. Lies(w, Size, Half)
  BY <1>1, <1>3 DEF Merging, Lies, Bottom, Top, Kept, Low
<1>5. w.left.a >= 1 /\ w.left.b >= 1 /\ n <= w.left[side]
  <2>1. \A s \in Sides : work.left[s] >= 1
    BY <1>1, MergeSides
  <2>2. QED
    BY <1>1, <1>3, <2>1 DEF Sides
<1>6. /\ Unmerged(w, ranking) = v /\ Bottom(w) = lo /\ Middle(w) = mid /\ Top(w) = hi
      /\ MergeOrder(w, ranking, label, Size)
  BY <1>1, SameOrder
<1>7. IsTransitive(Entries)
  BY Comparison
<1> DEFINE rest == Rest(w, side, n)
           u == Unmerged(rest, ranking')
<1>8. \/ work' = Idle /\ IsSorted(ranking', label, Size, 0, 0, 0)
      \/ /\ work' = rest /\ ~MergeEnds(work')
         /\ MergeOrder(rest, ranking', label, Size)
         /\ EndsStay(u, v, w.low, side, n, lo, mid, hi)
  BY <1>1, <1>2, <1>3, <1>4, <1>5, <1>6, <1>7, TakeSorts
<1>9. CASE work' = Idle /\ IsSorted(ranking', label, Size, 0, 0, 0)
  BY <1>1, <1>9, SortedNext DEF Idle
<1>10. CASE /\ work' = rest /\ ~MergeEnds(work')
            /\ MergeOrder(rest, ranking', label, Size)
            /\ EndsStay(u, v, w.low, side, n, lo, mid, hi)
  <2>1. Lies(rest, Size, Half)
    BY <1>1, <1>2, <1>4, <1>5, TakenHolds
  <2>2. /\ rest.step = w.step /\ rest.low = w.low
        /\ Bottom(rest) = NextLow(w.low, lo, n) /\ Top(rest) = NextHigh(w.low, hi, n)
        /\ Middle(rest) = NextMiddle(w.low, side, mid, n)
        /\ IF side = "a" THEN mid - lo > n ELSE hi - mid > n
    BY <1>1, <1>2, <1>4, <1>6, <1>10, <2>1, TakesPlaces
  <2>3. w.step \in MergeSteps
    BY <1>1 DEF SameMerge
  <2> HIDE DEF rest
  <2>4. Unmerged(work, ranking)' = u
    BY <1>1, <1>10 DEF Unmerged, Middle, Bottom, Kept, Low, Copied
  <2>5. Bottom(work)' = Bottom(rest) /\ Middle(work)' = Middle(rest) /\ Top(work)' = Top(rest)
    BY <1>10 DEF Bottom, Middle, Top
  <2>6. InOrder(u, label, Size, work'.low, Bottom(rest), Middle(rest), Top(rest))
    BY <1>10 DEF MergeOrder
  <2> HIDE DEF u
  <2>7. ASSUME DueFits(work', u, Bottom(rest), Middle(rest), Top(rest))
        PROVE  WorkOrder(label)'
    BY <1>1, <1>10, <2>2, <2>3, <2>4, <2>5, <2>6, <2>7, MergeNext
  <2>8. GoesOn(u, v, w, label, side, n, lo, mid, hi)
    BY <1>3, <1>10, <2>2, <2>7 DEF GoesOn
  <2>9. QED
    BY <2>8
<1>11. QED
  BY <1>8, <1>9, <1>10

\* A merge at work: the numbers of its places, and what its comparisons tell.
LEMMA MergeAtWork ==
  ASSUME EntriesInv, StageInv, Comparable, NEW label, WorkOrder(label), work.step \in MergeSteps,
         NEW v, v = Unmerged(work, ranking),
         NEW lo, NEW mid, NEW hi, lo = Bottom(work), mid = Middle(work), hi = Top(work)
  PROVE  /\ Merging /\ ArrayInv /\ Size \in Nat /\ MergeOrder(work, ranking, label, Size)
         /\ DueFits(work, v, lo, mid, hi) /\ InOrder(v, label, Size, work.low, lo, mid, hi)
         /\ work.low \in BOOLEAN /\ lo \in Int /\ mid \in Int /\ hi \in Int /\ 0 <= lo /\ hi <= Size
         /\ mid = lo + work.left.a /\ hi = mid + work.left.b
         /\ work.left.a \in Nat \ {0} /\ work.left.b \in Nat \ {0}
         /\ v \in [0 .. Size - 1 -> Entries]
<1>1. Merging /\ ArrayInv
  BY WorkAtHand DEF EntriesInv
<1>2. /\ Size \in Nat /\ Half \in Nat /\ ranking \in [0 .. Size - 1 -> Entries]
      /\ temporary \in [0 .. Half - 1 -> Entries] /\ Lies(work, Size, Half)
  BY <1>1, HalfIs DEF ArrayInv, Half, Merging
<1>3. /\ work.low \in BOOLEAN /\ lo \in Int /\ mid \in Int /\ hi \in Int /\ 0 <= lo
      /\ mid = lo + work.left.a /\ hi = mid + work.left.b /\ hi <= Size
      /\ work.left.a \in Nat /\ work.left.b \in Nat
  BY <1>2, GapNumbers
<1>4. v \in [0 .. Size - 1 -> Entries]
  BY <1>2, UnmergedType
<1>5. \A s \in Sides : work.left[s] >= 1
  BY <1>1, MergeSides
<1>6. MergeOrder(work, ranking, label, Size) /\ DueFits(work, v, lo, mid, hi)
  BY DEF WorkOrder
<1>7. InOrder(v, label, Size, work.low, lo, mid, hi)
  BY <1>6 DEF MergeOrder
<1>8. work.left.a \in Nat \ {0} /\ work.left.b \in Nat \ {0}
  BY <1>3, <1>5 DEF Sides
<1>9. QED
  BY <1>1, <1>2, <1>3, <1>4, <1>6, <1>7, <1>8

LEMMA SingleOrder ==
  ASSUME EntriesInv, StageInv, Comparable, NEW label, WorkOrder(label), NEW w, NEW side,
         Takes(w, side, 1), w.step \notin {"one_a", "one_b"},
         Fits(Unmerged(work, ranking), work.low, side, 1, Bottom(work), Middle(work), Top(work))
  PROVE  WorkOrder(label)'
<1> DEFINE v == Unmerged(work, ranking)
           lo == Bottom(work)
           mid == Middle(work)
           hi == Top(work)
<1>1. work.step \in MergeSteps /\ w.step # "first"
  BY DEF Takes, Merging, SameMerge
<1>2. ArrayInv /\ MergeOrder(work, ranking, label, Size)
  BY <1>1, MergeAtWork
<1>3. WorkOrder(label)' \/ \E u : GoesOn(u, v, w, label, side, 1, lo, mid, hi)
  BY <1>2, TakesNext
<1> HIDE DEF v, lo, mid, hi
<1>4. ASSUME NEW u, GoesOn(u, v, w, label, side, 1, lo, mid, hi) PROVE WorkOrder(label)'
  <2>1. \A s : ~Due(work', s)
    BY <1>1, <1>4 DEF GoesOn, Due
  <2>2. DueFits(work', u, NextLow(work.low, lo, 1), NextMiddle(work.low, side, mid, 1), NextHigh(work.low, hi, 1))
    BY <2>1 DEF DueFits
  <2>3. QED
    BY <1>4, <2>2 DEF GoesOn
<1>5. QED
  BY <1>3, <1>4

\* The comparison of the next entries of the sides tells which one goes first.
LEMMA FrontsFit ==
  ASSUME EntriesInv, StageInv, Comparable, NEW label, WorkOrder(label), work.step \in MergeSteps,
         NEW side, side = IF Less(Front("b"), Front("a")) = Low(work) THEN "b" ELSE "a"
  PROVE  Fits(Unmerged(work, ranking), work.low, side, 1, Bottom(work), Middle(work), Top(work))
<1> DEFINE v == Unmerged(work, ranking)
           lo == Bottom(work)
           mid == Middle(work)
           hi == Top(work)
<1>1. /\ Merging /\ ArrayInv /\ Size \in Nat /\ InOrder(v, label, Size, work.low, lo, mid, hi)
      /\ work.low \in BOOLEAN /\ lo \in Int /\ mid \in Int /\ hi \in Int /\ 0 <= lo /\ hi <= Size
      /\ mid = lo + work.left.a /\ hi = mid + work.left.b
      /\ work.left.a \in Nat \ {0} /\ work.left.b \in Nat \ {0}
      /\ v \in [0 .. Size - 1 -> Entries]
  BY MergeAtWork
<1>2. v = Unmerged(work, ranking) /\ lo = Bottom(work) /\ mid = Middle(work) /\ hi = Top(work)
  OBVIOUS
<1> HIDE DEF v, lo, mid, hi
<1> DEFINE i == IF work.low THEN lo ELSE mid - 1
           j == IF work.low THEN mid ELSE hi - 1
<1>3. /\ i \in 0 .. Size - 1 /\ j \in 0 .. Size - 1 /\ i \in Int /\ j \in Int
      /\ lo <= i /\ i < mid /\ mid <= j /\ j < hi
  <2>1. /\ Size \in Nat /\ lo \in Int /\ mid \in Int /\ hi \in Int /\ 0 <= lo /\ lo < mid /\ mid < hi /\ hi <= Size
    BY <1>1
  <2>2. QED
    BY <2>1
<1>4. Front("a") = v[i] /\ Front("b") = v[j] /\ v[i] \in Entries /\ v[j] \in Entries
  <2>1. /\ work.left.a >= 1 => IF work.low THEN Front("a") = v[lo] ELSE Front("a") = v[mid - 1]
        /\ work.left.b >= 1 => IF work.low THEN Front("b") = v[mid] ELSE Front("b") = v[hi - 1]
    <3>1. Merging /\ ArrayInv
      BY <1>1
    <3> HIDE DEF i, j
    <3>2. QED
      BY <3>1, <1>2, RemainingAre
  <2>2. work.left.a >= 1 /\ work.left.b >= 1
    BY <1>1
  <2>3. Front("a") = v[i] /\ Front("b") = v[j]
    BY <2>1, <2>2
  <2> HIDE DEF i, j
  <2>4. QED
    BY <1>1, <1>3, <2>3
<1>5. Earlier(v[i], v[j])
  <2> HIDE DEF i, j
  <2>1. QED
    BY <1>1, <1>3, SidesEarlier
<1>6. IF Less(v[j], v[i]) THEN Before(v[j], v[i]) ELSE Before(v[i], v[j])
  BY <1>1, <1>4, <1>5, Comparison
<1>7. Less(v[j], v[i]) \in BOOLEAN /\ (side = "b" <=> (Less(v[j], v[i]) <=> work.low)) /\ side \in {"a", "b"}
  BY <1>1, <1>4 DEF Low, Less
<1>8. Fits(v, work.low, side, 1, lo, mid, hi)
  <2>1. lo + 1 - 1 = lo /\ mid + 1 - 1 = mid
    BY <1>1
  <2>2. CASE work.low
    BY <1>6, <1>7, <2>1, <2>2 DEF Fits
  <2>3. CASE ~work.low
    BY <1>6, <1>7, <2>1, <2>3 DEF Fits
  <2>4. QED
    BY <2>2, <2>3
<1>9. QED
  BY <1>8 DEF v, lo, mid, hi

\* run is a part of the array: what the searches of a merge get.
IsPart(run, v, from, n) ==
  Len(run) = n /\ \A k \in 1 .. n : run[k] = v[from + k - 1]

LEMMA SliceIsPart ==
  ASSUME NEW v, NEW from \in Int, NEW n \in Nat
  PROVE  IsPart(Slice(v, from, n), v, from, n)
<1>1. Slice(v, from, n) = [i \in 1 .. n |-> v[from + i - 1]]
  BY DEF Slice
<1>2. QED
  BY <1>1 DEF IsPart

\* A sorted part of the array goes before the key up to k entries.
Splits(v, from, n, k, key) ==
  /\ k \in 0 .. n
  /\ k >= 1 => Before(v[from + k - 1], key)
  /\ k < n => Before(key, v[from + k])

LEMMA RightSplit ==
  ASSUME ArrayInv, StageInv, Comparable, NEW v \in [0 .. Size - 1 -> Entries], NEW from \in Int, NEW n \in Nat,
         0 <= from, from + n <= Size, NEW run, IsPart(run, v, from, n), NEW key \in Entries,
         \A i \in from .. from + n - 1 : Earlier(v[i], key), NEW k \in GallopRight(key, run)
  PROVE  Splits(v, from, n, k, key)
<1>1. Size \in Nat
  BY DEF ArrayInv
<1>2. Len(run) = n
  BY DEF IsPart
<1>3. k \in 0 .. n /\ (k = 0 \/ ~Less(key, run[k])) /\ (k = n \/ Less(key, run[k + 1]))
  BY <1>2 DEF GallopRight
<1>4. ASSUME k >= 1 PROVE Before(v[from + k - 1], key)
  <2>1. k \in 1 .. n /\ from + k - 1 \in from .. from + n - 1 /\ from + k - 1 \in 0 .. Size - 1 /\ k # 0
    BY <1>1, <1>3, <1>4
  <2>2. run[k] = v[from + k - 1] /\ v[from + k - 1] \in Entries /\ Earlier(v[from + k - 1], key)
    BY <2>1 DEF IsPart
  <2>3. ~Less(key, v[from + k - 1])
    BY <1>3, <2>1, <2>2
  <2>4. QED
    BY <2>2, <2>3, Comparison
<1>5. ASSUME k < n PROVE Before(key, v[from + k])
  <2>1. k + 1 \in 1 .. n /\ from + (k + 1) - 1 = from + k /\ from + k \in 0 .. Size - 1 /\ k # n
    BY <1>1, <1>3, <1>5
  <2>2. run[k + 1] = v[from + k] /\ v[from + k] \in Entries
    BY <2>1 DEF IsPart
  <2>3. Less(key, v[from + k])
    BY <1>3, <2>1, <2>2
  <2>4. QED
    BY <2>2, <2>3, Comparison
<1>6. QED
  BY <1>3, <1>4, <1>5 DEF Splits

LEMMA LeftSplit ==
  ASSUME ArrayInv, StageInv, Comparable, NEW v \in [0 .. Size - 1 -> Entries], NEW from \in Int, NEW n \in Nat,
         0 <= from, from + n <= Size, NEW run, IsPart(run, v, from, n), NEW key \in Entries,
         \A i \in from .. from + n - 1 : Earlier(key, v[i]), NEW k \in GallopLeft(key, run)
  PROVE  Splits(v, from, n, k, key)
<1>1. Size \in Nat
  BY DEF ArrayInv
<1>2. Len(run) = n
  BY DEF IsPart
<1>3. k \in 0 .. n /\ (k = 0 \/ Less(run[k], key)) /\ (k = n \/ ~Less(run[k + 1], key))
  BY <1>2 DEF GallopLeft
<1>4. ASSUME k >= 1 PROVE Before(v[from + k - 1], key)
  <2>1. k \in 1 .. n /\ from + k - 1 \in 0 .. Size - 1 /\ k # 0
    BY <1>1, <1>3, <1>4
  <2>2. run[k] = v[from + k - 1] /\ v[from + k - 1] \in Entries
    BY <2>1 DEF IsPart
  <2>3. Less(v[from + k - 1], key)
    BY <1>3, <2>1, <2>2
  <2>4. QED
    BY <2>2, <2>3, Comparison
<1>5. ASSUME k < n PROVE Before(key, v[from + k])
  <2>1. /\ k + 1 \in 1 .. n /\ from + (k + 1) - 1 = from + k /\ from + k \in 0 .. Size - 1
        /\ from + k \in from .. from + n - 1 /\ k # n
    BY <1>1, <1>3, <1>5
  <2>2. run[k + 1] = v[from + k] /\ v[from + k] \in Entries /\ Earlier(key, v[from + k])
    BY <2>1 DEF IsPart
  <2>3. ~Less(v[from + k], key)
    BY <1>3, <2>1, <2>2
  <2>4. QED
    BY <2>2, <2>3, Comparison
<1>6. QED
  BY <1>3, <1>4, <1>5 DEF Splits

\* After a gallop through the left side the next entry of the right one goes
\* first, and the other way round.
LEMMA GallopALow ==
  ASSUME NEW u, NEW v, NEW lo \in Int, NEW mid \in Int, NEW hi \in Int, NEW k, lo < mid, mid < hi,
         Splits(v, lo, mid - lo, k, v[mid])
  PROVE  /\ Fits(v, TRUE, "a", k, lo, mid, hi)
         /\ EndsStay(u, v, TRUE, "a", k, lo, mid, hi) /\ mid - lo > k => Fits(u, TRUE, "b", 1, lo + k, mid, hi)
<1>1. k \in 0 .. mid - lo /\ mid + 1 - 1 = mid
  BY DEF Splits
<1>2. QED
  BY <1>1 DEF Splits, Fits, EndsStay

LEMMA GallopAHigh ==
  ASSUME NEW u, NEW v, NEW lo \in Int, NEW mid \in Int, NEW hi \in Int, NEW k, lo < mid, mid < hi,
         Splits(v, lo, mid - lo, k, v[hi - 1]), NEW n, n = mid - lo - k
  PROVE  /\ Fits(v, FALSE, "a", n, lo, mid, hi)
         /\ EndsStay(u, v, FALSE, "a", n, lo, mid, hi) /\ mid - lo > n => Fits(u, FALSE, "b", 1, lo, mid - n, hi - n)
<1>1. k \in 0 .. mid - lo /\ n \in Int /\ mid - n = lo + k /\ mid - n - 1 = lo + k - 1
  BY DEF Splits
<1>2. Fits(v, FALSE, "a", n, lo, mid, hi)
  BY <1>1 DEF Splits, Fits
<1>3. ASSUME EndsStay(u, v, FALSE, "a", n, lo, mid, hi), mid - lo > n
      PROVE  Fits(u, FALSE, "b", 1, lo, mid - n, hi - n)
  <2>1. k >= 1
    BY <1>1, <1>3
  <2>2. u[mid - n - 1] = v[lo + k - 1] /\ u[hi - n - 1] = v[hi - 1]
    BY <1>1, <1>3 DEF EndsStay
  <2>3. Before(u[mid - n - 1], u[hi - n - 1])
    BY <2>1, <2>2 DEF Splits
  <2>4. QED
    BY <2>3 DEF Fits
<1>4. QED
  BY <1>2, <1>3

LEMMA GallopBLow ==
  ASSUME NEW u, NEW v, NEW lo \in Int, NEW mid \in Int, NEW hi \in Int, NEW k, lo < mid, mid < hi,
         Splits(v, mid, hi - mid, k, v[lo])
  PROVE  /\ Fits(v, TRUE, "b", k, lo, mid, hi)
         /\ EndsStay(u, v, TRUE, "b", k, lo, mid, hi) /\ hi - mid > k => Fits(u, TRUE, "a", 1, lo + k, mid + k, hi)
<1>1. k \in 0 .. hi - mid /\ lo + k + 1 - 1 = lo + k
  BY DEF Splits
<1>2. QED
  BY <1>1 DEF Splits, Fits, EndsStay

LEMMA GallopBHigh ==
  ASSUME NEW u, NEW v, NEW lo \in Int, NEW mid \in Int, NEW hi \in Int, NEW k, lo < mid, mid < hi,
         Splits(v, mid, hi - mid, k, v[mid - 1]), NEW n, n = hi - mid - k
  PROVE  /\ Fits(v, FALSE, "b", n, lo, mid, hi)
         /\ EndsStay(u, v, FALSE, "b", n, lo, mid, hi) /\ hi - mid > n => Fits(u, FALSE, "a", 1, lo, mid, hi - n)
<1>1. k \in 0 .. hi - mid /\ n \in Int /\ hi - n = mid + k /\ hi - n - 1 = mid + k - 1
  BY DEF Splits
<1>2. Fits(v, FALSE, "b", n, lo, mid, hi)
  BY <1>1 DEF Splits, Fits
<1>3. ASSUME EndsStay(u, v, FALSE, "b", n, lo, mid, hi), hi - mid > n
      PROVE  Fits(u, FALSE, "a", 1, lo, mid, hi - n)
  <2>1. k >= 1
    BY <1>1, <1>3
  <2>2. u[mid - 1] = v[mid - 1] /\ u[hi - n - 1] = v[mid + k - 1]
    BY <1>1, <1>3 DEF EndsStay
  <2>3. Before(u[hi - n - 1], u[mid - 1])
    BY <2>1, <2>2 DEF Splits
  <2>4. QED
    BY <2>3 DEF Fits
<1>4. QED
  BY <1>2, <1>3

\* What a gallop found, where its key is the next entry of the other side.
LEMMA GallopedA ==
  ASSUME EntriesInv, StageInv, Comparable, NEW label, WorkOrder(label), work.step \in MergeSteps,
         NEW v, v = Unmerged(work, ranking),
         NEW lo, NEW mid, NEW hi, lo = Bottom(work), mid = Middle(work), hi = Top(work),
         NEW n \in Galloped("a", GallopRight(Front("b"), Remaining("a")))
  PROVE  \E k : /\ Splits(v, lo, mid - lo, k, v[IF work.low THEN mid ELSE hi - 1])
                /\ n = IF work.low THEN k ELSE mid - lo - k
<1>1. /\ Merging /\ ArrayInv /\ Size \in Nat /\ InOrder(v, label, Size, work.low, lo, mid, hi)
      /\ work.low \in BOOLEAN /\ lo \in Int /\ mid \in Int /\ hi \in Int /\ 0 <= lo /\ hi <= Size
      /\ mid = lo + work.left.a /\ hi = mid + work.left.b
      /\ work.left.a \in Nat \ {0} /\ work.left.b \in Nat \ {0}
      /\ v \in [0 .. Size - 1 -> Entries]
  BY MergeAtWork
<1>2. Merging /\ ArrayInv
  BY <1>1
<1>3. /\ Len(Remaining("a")) = work.left.a
      /\ \A k \in 1 .. work.left.a : Remaining("a")[k] = v[lo + k - 1]
      /\ work.left.b >= 1 => IF work.low THEN Front("b") = v[mid] ELSE Front("b") = v[hi - 1]
  BY <1>2, RemainingAre
<1> DEFINE j == IF work.low THEN mid ELSE hi - 1
<1>4. j \in Int /\ mid <= j /\ j < hi /\ j \in 0 .. Size - 1 /\ mid - lo = work.left.a /\ mid <= Size
  <2>1. Size \in Nat /\ lo \in Int /\ mid \in Int /\ hi \in Int /\ 0 <= lo /\ lo < mid /\ mid < hi /\ hi <= Size
    BY <1>1
  <2>2. work.left.a \in Int /\ mid = lo + work.left.a
    BY <1>1
  <2>3. QED
    BY <2>1, <2>2
<1>5. Front("b") = v[j] /\ v[j] \in Entries
  <2>1. work.left.b >= 1
    BY <1>1
  <2>2. Front("b") = v[j]
    BY <1>3, <2>1
  <2> HIDE DEF j
  <2>3. QED
    BY <1>1, <1>4, <2>2
<1>6. IsPart(Remaining("a"), v, lo, mid - lo)
  BY <1>3, <1>4 DEF IsPart
<1> HIDE DEF j
<1>7. \A i \in lo .. lo + (mid - lo) - 1 : Earlier(v[i], v[j])
  <2>1. /\ Size \in Nat /\ lo \in Int /\ mid \in Int /\ hi \in Int /\ 0 <= lo /\ hi <= Size
        /\ InOrder(v, label, Size, work.low, lo, mid, hi)
    BY <1>1
  <2>2. ASSUME NEW i \in lo .. lo + (mid - lo) - 1 PROVE i \in Int /\ lo <= i /\ i < mid
    BY <2>1
  <2>3. QED
    BY <1>4, <2>1, <2>2, SidesEarlier
<1>8. PICK k \in GallopRight(Front("b"), Remaining("a")) : n = IF work.low THEN k ELSE work.left.a - k
  BY DEF Galloped, Low
<1>9. mid - lo \in Nat /\ lo + (mid - lo) <= Size
  BY <1>1, <1>4
<1>10. Splits(v, lo, mid - lo, k, v[j])
  BY <1>1, <1>5, <1>6, <1>7, <1>8, <1>9, RightSplit
<1>11. QED
  BY <1>4, <1>8, <1>10 DEF j

LEMMA GallopedB ==
  ASSUME EntriesInv, StageInv, Comparable, NEW label, WorkOrder(label), work.step \in MergeSteps,
         NEW v, v = Unmerged(work, ranking),
         NEW lo, NEW mid, NEW hi, lo = Bottom(work), mid = Middle(work), hi = Top(work),
         NEW n \in Galloped("b", GallopLeft(Front("a"), Remaining("b")))
  PROVE  \E k : /\ Splits(v, mid, hi - mid, k, v[IF work.low THEN lo ELSE mid - 1])
                /\ n = IF work.low THEN k ELSE hi - mid - k
<1>1. /\ Merging /\ ArrayInv /\ Size \in Nat /\ InOrder(v, label, Size, work.low, lo, mid, hi)
      /\ work.low \in BOOLEAN /\ lo \in Int /\ mid \in Int /\ hi \in Int /\ 0 <= lo /\ hi <= Size
      /\ mid = lo + work.left.a /\ hi = mid + work.left.b
      /\ work.left.a \in Nat \ {0} /\ work.left.b \in Nat \ {0}
      /\ v \in [0 .. Size - 1 -> Entries]
  BY MergeAtWork
<1>2. Merging /\ ArrayInv
  BY <1>1
<1>3. /\ Len(Remaining("b")) = work.left.b
      /\ \A k \in 1 .. work.left.b : Remaining("b")[k] = v[mid + k - 1]
      /\ work.left.a >= 1 => IF work.low THEN Front("a") = v[lo] ELSE Front("a") = v[mid - 1]
  BY <1>2, RemainingAre
<1> DEFINE j == IF work.low THEN lo ELSE mid - 1
<1>4. j \in Int /\ lo <= j /\ j < mid /\ j \in 0 .. Size - 1 /\ hi - mid = work.left.b /\ 0 <= mid
  <2>1. Size \in Nat /\ lo \in Int /\ mid \in Int /\ hi \in Int /\ 0 <= lo /\ lo < mid /\ mid < hi /\ hi <= Size
    BY <1>1
  <2>2. work.left.b \in Int /\ hi = mid + work.left.b
    BY <1>1
  <2>3. QED
    BY <2>1, <2>2
<1>5. Front("a") = v[j] /\ v[j] \in Entries
  <2>1. work.left.a >= 1
    BY <1>1
  <2>2. Front("a") = v[j]
    BY <1>3, <2>1
  <2> HIDE DEF j
  <2>3. QED
    BY <1>1, <1>4, <2>2
<1>6. IsPart(Remaining("b"), v, mid, hi - mid)
  BY <1>3, <1>4 DEF IsPart
<1> HIDE DEF j
<1>7. \A i \in mid .. mid + (hi - mid) - 1 : Earlier(v[j], v[i])
  <2>1. /\ Size \in Nat /\ lo \in Int /\ mid \in Int /\ hi \in Int /\ 0 <= lo /\ hi <= Size
        /\ InOrder(v, label, Size, work.low, lo, mid, hi)
    BY <1>1
  <2>2. ASSUME NEW i \in mid .. mid + (hi - mid) - 1 PROVE i \in Int /\ mid <= i /\ i < hi
    BY <2>1
  <2>3. QED
    BY <1>4, <2>1, <2>2, SidesEarlier
<1>8. PICK k \in GallopLeft(Front("a"), Remaining("b")) : n = IF work.low THEN k ELSE work.left.b - k
  BY DEF Galloped, Low
<1>9. hi - mid \in Nat /\ mid + (hi - mid) <= Size
  BY <1>1, <1>4
<1>10. Splits(v, mid, hi - mid, k, v[j])
  BY <1>1, <1>4, <1>5, <1>6, <1>7, <1>8, <1>9, LeftSplit
<1>11. QED
  BY <1>4, <1>8, <1>10 DEF j

LEMMA GallopOrder ==
  ASSUME EntriesInv, StageInv, Comparable, NEW label, WorkOrder(label), GallopA \/ GallopB
  PROVE  WorkOrder(label)'
<1> DEFINE v == Unmerged(work, ranking)
           lo == Bottom(work)
           mid == Middle(work)
           hi == Top(work)
<1>1. work.step \in MergeSteps
  BY DEF GallopA, GallopB, MergeSteps
<1>2. /\ ArrayInv /\ MergeOrder(work, ranking, label, Size) /\ work.low \in BOOLEAN
      /\ lo \in Int /\ mid \in Int /\ hi \in Int
      /\ mid = lo + work.left.a /\ hi = mid + work.left.b
      /\ work.left.a \in Nat \ {0} /\ work.left.b \in Nat \ {0}
  BY <1>1, MergeAtWork
<1>3. v = Unmerged(work, ranking) /\ lo = Bottom(work) /\ mid = Middle(work) /\ hi = Top(work)
  OBVIOUS
<1> HIDE DEF v, lo, mid, hi
<1>4. lo < mid /\ mid < hi
  BY <1>2
<1>5. CASE GallopA
  <2>1. PICK w, n : /\ n \in Galloped("a", GallopRight(Front("b"), Remaining("a")))
                   /\ Takes(w, "a", n) /\ w.step = "one_b"
    BY <1>5, GallopATakes
  <2>2. PICK k : /\ Splits(v, lo, mid - lo, k, v[IF work.low THEN mid ELSE hi - 1])
                 /\ n = IF work.low THEN k ELSE mid - lo - k
    BY <1>1, <1>3, <2>1, GallopedA
  <2>3. Fits(v, work.low, "a", n, lo, mid, hi)
    <3>1. CASE work.low
      BY <1>2, <1>4, <2>2, <3>1, GallopALow
    <3>2. CASE ~work.low
      BY <1>2, <1>4, <2>2, <3>2, GallopAHigh
    <3>3. QED
      BY <3>1, <3>2
  <2>4. WorkOrder(label)' \/ \E u : GoesOn(u, v, w, label, "a", n, lo, mid, hi)
    BY <1>2, <1>3, <2>1, <2>3, TakesNext
  <2>5. ASSUME NEW u, GoesOn(u, v, w, label, "a", n, lo, mid, hi) PROVE WorkOrder(label)'
    <3>1. /\ work'.step = "one_b" /\ work'.low = work.low /\ EndsStay(u, v, work.low, "a", n, lo, mid, hi)
          /\ mid - lo > n
      BY <2>1, <2>5 DEF GoesOn
    <3>2. Fits(u, work.low, "b", 1, NextLow(work.low, lo, n), NextMiddle(work.low, "a", mid, n), NextHigh(work.low, hi, n))
      <4>1. CASE work.low = TRUE
        <5>1. Splits(v, lo, mid - lo, k, v[mid]) /\ n = k
          BY <2>2, <4>1
        <5>2. Fits(u, TRUE, "b", 1, lo + n, mid, hi)
          BY <1>2, <1>4, <3>1, <4>1, <5>1, GallopALow
        <5>3. QED
          BY <4>1, <5>2 DEF NextLow, NextMiddle, NextHigh
      <4>2. CASE work.low = FALSE
        <5>1. Splits(v, lo, mid - lo, k, v[hi - 1]) /\ n = mid - lo - k
          BY <2>2, <4>2
        <5>2. Fits(u, FALSE, "b", 1, lo, mid - n, hi - n)
          BY <1>2, <1>4, <3>1, <4>2, <5>1, GallopAHigh
        <5>3. QED
          BY <4>2, <5>2 DEF NextLow, NextMiddle, NextHigh
      <4>3. QED
        BY <1>2, <4>1, <4>2
    <3>3. DueFits(work', u, NextLow(work.low, lo, n), NextMiddle(work.low, "a", mid, n), NextHigh(work.low, hi, n))
      BY <3>1, <3>2 DEF DueFits, Due
    <3>4. QED
      BY <2>5, <3>3 DEF GoesOn
  <2>6. QED
    BY <2>4, <2>5
<1>6. CASE GallopB
  <2>1. PICK w, n : /\ n \in Galloped("b", GallopLeft(Front("a"), Remaining("b")))
                   /\ Takes(w, "b", n) /\ w.step = "one_a"
    BY <1>6, GallopBTakes
  <2>2. PICK k : /\ Splits(v, mid, hi - mid, k, v[IF work.low THEN lo ELSE mid - 1])
                 /\ n = IF work.low THEN k ELSE hi - mid - k
    BY <1>1, <1>3, <2>1, GallopedB
  <2>3. Fits(v, work.low, "b", n, lo, mid, hi)
    <3>1. CASE work.low
      BY <1>2, <1>4, <2>2, <3>1, GallopBLow
    <3>2. CASE ~work.low
      BY <1>2, <1>4, <2>2, <3>2, GallopBHigh
    <3>3. QED
      BY <3>1, <3>2
  <2>4. WorkOrder(label)' \/ \E u : GoesOn(u, v, w, label, "b", n, lo, mid, hi)
    BY <1>2, <1>3, <2>1, <2>3, TakesNext
  <2>5. ASSUME NEW u, GoesOn(u, v, w, label, "b", n, lo, mid, hi) PROVE WorkOrder(label)'
    <3>1. /\ work'.step = "one_a" /\ work'.low = work.low /\ EndsStay(u, v, work.low, "b", n, lo, mid, hi)
          /\ hi - mid > n
      BY <2>1, <2>5 DEF GoesOn
    <3>2. Fits(u, work.low, "a", 1, NextLow(work.low, lo, n), NextMiddle(work.low, "b", mid, n), NextHigh(work.low, hi, n))
      <4>1. CASE work.low = TRUE
        <5>1. Splits(v, mid, hi - mid, k, v[lo]) /\ n = k
          BY <2>2, <4>1
        <5>2. Fits(u, TRUE, "a", 1, lo + n, mid + n, hi)
          BY <1>2, <1>4, <3>1, <4>1, <5>1, GallopBLow
        <5>3. QED
          BY <4>1, <5>2 DEF NextLow, NextMiddle, NextHigh
      <4>2. CASE work.low = FALSE
        <5>1. Splits(v, mid, hi - mid, k, v[mid - 1]) /\ n = hi - mid - k
          BY <2>2, <4>2
        <5>2. Fits(u, FALSE, "a", 1, lo, mid, hi - n)
          BY <1>2, <1>4, <3>1, <4>2, <5>1, GallopBHigh
        <5>3. QED
          BY <4>2, <5>2 DEF NextLow, NextMiddle, NextHigh
      <4>3. QED
        BY <1>2, <4>1, <4>2
    <3>3. DueFits(work', u, NextLow(work.low, lo, n), NextMiddle(work.low, "b", mid, n), NextHigh(work.low, hi, n))
      BY <3>1, <3>2 DEF DueFits, Due
    <3>4. QED
      BY <2>5, <3>3 DEF GoesOn
  <2>6. QED
    BY <2>4, <2>5
<1>7. QED
  BY <1>5, <1>6

LEMMA MergeStepsOrder ==
  ASSUME EntriesInv, StageInv, Comparable, NEW label, WorkOrder(label),
         FirstEntry \/ Pair \/ GallopA \/ OneB \/ GallopB \/ OneA
  PROVE  WorkOrder(label)'
<1>1. CASE FirstEntry \/ OneA \/ OneB
  <2>1. PICK w, side : Takes(w, side, 1) /\ w.step \notin {"one_a", "one_b"} /\ Due(work, side)
    BY <1>1, FirstEntryTakes, OneATakes, OneBTakes DEF Due
  <2>2. work.step \in MergeSteps /\ side \in Sides
    BY <2>1 DEF Takes, Merging
  <2>3. DueFits(work, Unmerged(work, ranking), Bottom(work), Middle(work), Top(work))
    BY <2>2 DEF WorkOrder
  <2>4. QED
    BY <2>1, <2>2, <2>3, SingleOrder DEF DueFits
<1>2. CASE Pair
  <2> DEFINE side == IF Less(Front("b"), Front("a")) = Low(work) THEN "b" ELSE "a"
  <2>1. PICK w : Takes(w, side, 1) /\ w.step \notin {"one_a", "one_b"}
    BY <1>2, PairTakes
  <2>2. work.step \in MergeSteps
    BY <2>1 DEF Takes, Merging
  <2>3. Fits(Unmerged(work, ranking), work.low, side, 1, Bottom(work), Middle(work), Top(work))
    BY <2>2, FrontsFit
  <2> HIDE DEF side
  <2>4. QED
    BY <2>1, <2>3, SingleOrder
<1>3. QED
  BY <1>1, <1>2, GallopOrder

\* The kept run, put back where it came from, changes nothing.
LEMMA PutBack ==
  ASSUME NEW size \in Nat, NEW half \in Nat, NEW E, NEW r \in [0 .. size - 1 -> E], NEW t \in [0 .. half - 1 -> E],
         NEW from \in Int, NEW n \in Int, n <= half,
         NEW s, s = Copied(t, 0, r, from, n)
  PROVE  Agree(Copied(r, from, s, 0, n), r, size)
<1>1. DOMAIN r = 0 .. size - 1 /\ DOMAIN t = 0 .. half - 1
  OBVIOUS
<1>2. Overlays(s, half, 0, n, r, from, t)
  BY <1>1, CopiedOverlays
<1>3. Overlays(Copied(r, from, s, 0, n), size, from, n, s, 0, r)
  BY <1>1, CopiedOverlays
<1> DEFINE v == Copied(r, from, s, 0, n)
<1> HIDE DEF v
<1>4. ASSUME NEW i \in 0 .. size - 1 PROVE v[i] = r[i]
  <2>1. CASE from <= i /\ i < from + n
    <3>1. 0 + i - from \in 0 .. half - 1 /\ 0 <= 0 + i - from /\ 0 + i - from < 0 + n /\ from + (0 + i - from) - 0 = i
      BY <2>1
    <3>2. v[i] = s[0 + i - from]
      BY <1>3, <2>1 DEF Overlays, v
    <3>3. s[0 + i - from] = r[from + (0 + i - from) - 0]
      BY <1>2, <3>1 DEF Overlays
    <3>4. QED
      BY <3>1, <3>2, <3>3
  <2>2. CASE ~(from <= i /\ i < from + n)
    BY <1>3, <2>2 DEF Overlays, v
  <2>3. QED
    BY <2>1, <2>2
<1>5. QED
  BY <1>4 DEF Agree, v

LEMMA AgreeInOrder ==
  ASSUME NEW u, NEW v, NEW label, NEW size \in Nat, NEW lo \in Int, NEW mid \in Int, NEW hi \in Int,
         0 <= lo, lo < mid, mid < hi, hi <= size, Agree(u, v, size),
         \A low \in BOOLEAN : InOrder(v, label, size, low, lo, mid, hi)
  PROVE  /\ \A low \in BOOLEAN : InOrder(u, label, size, low, lo, mid, hi)
         /\ Fits(u, TRUE, "b", 1, lo, mid, hi) /\ Fits(u, FALSE, "a", 1, lo, mid, hi)
<1>1. /\ u[lo] = v[lo] /\ u[mid] = v[mid] /\ u[mid - 1] = v[mid - 1] /\ u[hi - 1] = v[hi - 1]
      /\ mid + 1 - 1 = mid
  BY DEF Agree
<1>2. /\ IsSorted(v, label, size, lo, mid, hi) /\ OneLabel(label, lo, hi)
      /\ Before(v[hi - 1], v[mid - 1]) /\ Before(v[mid], v[lo])
  <2>1. InOrder(v, label, size, TRUE, lo, mid, hi) /\ InOrder(v, label, size, FALSE, lo, mid, hi)
    OBVIOUS
  <2>2. QED
    BY <2>1 DEF InOrder
<1>3. IsSorted(u, label, size, lo, mid, hi)
  BY <1>2, AgreeSorted
<1>4. Before(u[hi - 1], u[mid - 1]) /\ Before(u[mid], u[lo])
  BY <1>1, <1>2
<1>5. ASSUME NEW low \in BOOLEAN PROVE InOrder(u, label, size, low, lo, mid, hi)
  BY <1>2, <1>3, <1>4 DEF InOrder
<1>6. Fits(u, TRUE, "b", 1, lo, mid, hi) /\ Fits(u, FALSE, "a", 1, lo, mid, hi)
  BY <1>1, <1>4 DEF Fits
<1>7. QED
  BY <1>5, <1>6

LEMMA KeepShorterOrder ==
  ASSUME EntriesInv, StageInv, Comparable, NEW label, WorkOrder(label), KeepShorter
  PROVE  WorkOrder(label)'
<1>1. ArrayInv /\ Beginning
  BY WorkAtHand DEF EntriesInv, KeepShorter
<1>2. PICK a, b, la, lb \in Int : KeptAway(a, b, la, lb)
  BY KeepsAway
<1> DEFINE hi == b + lb
           v == Unmerged(work, ranking)'
           low == work'.low
<1>3. /\ 0 <= a /\ 1 <= la /\ b = a + la /\ 1 <= lb /\ b + lb <= Size
      /\ work'.step = "first" /\ work'.left.a = la /\ work'.left.b = lb
      /\ work.start.a = a /\ work.start.b = b /\ work.left.b = lb
  BY <1>2 DEF KeptAway
<1>4. Size \in Nat /\ Half \in Nat /\ ranking \in [0 .. Size - 1 -> Entries] /\ temporary \in [0 .. Half - 1 -> Entries]
  BY <1>1, HalfIs DEF ArrayInv, Half
<1>5. \A side \in BOOLEAN : InOrder(ranking, label, Size, side, a, b, hi)
  BY <1>3 DEF WorkOrder, KeepShorter
<1>6. ranking' = ranking /\ scores' = scores /\ reverse' = reverse /\ work'.step \in MergeSteps
  BY <1>3 DEF KeepShorter, MergeSteps
<1>7. /\ v = Copied(ranking, IF la <= lb THEN a ELSE b, temporary', 0, IF la <= lb THEN la ELSE lb)
      /\ Agree(v, ranking, Size)
      /\ Bottom(work)' = a /\ Middle(work)' = b /\ Top(work)' = hi
      /\ low \in BOOLEAN /\ Other(work') = IF low THEN "b" ELSE "a"
  <2>1. CASE la <= lb
    <3>1. /\ work'.low /\ work'.to = a /\ la <= Half /\ work'.start.a = 0 /\ work'.start.b = b
          /\ temporary' = Copied(temporary, 0, ranking, a, la)
      BY <1>2, <2>1 DEF KeptAway
    <3>2. v = Copied(ranking, a, temporary', 0, la)
      BY <1>3, <1>6, <3>1 DEF Unmerged, Kept, Low
    <3>3. Agree(v, ranking, Size)
      BY <1>4, <3>1, <3>2, PutBack
    <3>4. /\ Bottom(work)' = a /\ Middle(work)' = b /\ Top(work)' = hi /\ Other(work') = "b"
      BY <1>3, <3>1 DEF Bottom, Middle, Top, Other, Low
    <3>5. low = TRUE
      BY <1>2, <2>1 DEF KeptAway, Merges
    <3> HIDE DEF v, hi, low
    <3>6. QED
      BY <2>1, <3>2, <3>3, <3>4, <3>5
  <2>2. CASE ~(la <= lb)
    <3>1. /\ ~work'.low /\ work'.to = b + lb /\ lb <= Half /\ work'.start.a = a /\ work'.start.b = 0
          /\ temporary' = Copied(temporary, 0, ranking, b, lb)
      BY <1>2, <2>2 DEF KeptAway
    <3>2. Bottom(work)' = a /\ Middle(work)' = b /\ Top(work)' = hi /\ Other(work') = "a"
      BY <1>3, <3>1 DEF Bottom, Middle, Top, Other, Low
    <3>3. v = Copied(ranking, b, temporary', 0, lb)
      BY <1>3, <1>6, <3>1 DEF Unmerged, Kept, Low, Middle, Bottom
    <3>4. Agree(v, ranking, Size)
      BY <1>4, <3>1, <3>3, PutBack
    <3>5. low = FALSE
      BY <1>2, <2>2 DEF KeptAway, Merges
    <3> HIDE DEF v, hi, low
    <3>6. QED
      BY <2>2, <3>2, <3>3, <3>4, <3>5
  <2>3. QED
    BY <2>1, <2>2
<1>8. v = Unmerged(work, ranking)' /\ low = work'.low /\ hi \in Int /\ b < hi /\ hi <= Size /\ a < b
  BY <1>3
<1> HIDE DEF v, hi, low
<1>9. /\ InOrder(v, label, Size, low, a, b, hi)
      /\ Fits(v, TRUE, "b", 1, a, b, hi) /\ Fits(v, FALSE, "a", 1, a, b, hi)
  <2>1. /\ Size \in Nat /\ 0 <= a /\ a < b /\ b < hi /\ hi <= Size /\ hi \in Int /\ low \in BOOLEAN
        /\ Agree(v, ranking, Size)
    BY <1>3, <1>4, <1>7, <1>8
  <2>2. /\ \A x \in BOOLEAN : InOrder(v, label, Size, x, a, b, hi)
        /\ Fits(v, TRUE, "b", 1, a, b, hi) /\ Fits(v, FALSE, "a", 1, a, b, hi)
    BY <1>5, <2>1, AgreeInOrder
  <2>3. QED
    BY <2>1, <2>2
<1>10. DueFits(work', v, a, b, hi)
  <2>1. \A side : Due(work', side) => side = IF low THEN "b" ELSE "a"
    BY <1>3, <1>7 DEF Due
  <2>2. QED
    BY <1>7, <1>8, <1>9, <2>1 DEF DueFits
<1>11. QED
  BY <1>6, <1>7, <1>8, <1>9, <1>10, MergeNext

LEMMA AcrossEarlier ==
  ASSUME NEW size \in Nat, NEW v, NEW label, NEW lo \in Int, NEW mid \in Int, NEW hi \in Int,
         0 <= lo, hi <= size, IsSorted(v, label, size, lo, mid, hi),
         NEW i \in Int, NEW j \in Int, lo <= i, i < mid, mid <= j, j < hi
  PROVE  Earlier(v[i], v[j])
<1>1. i \in 0 .. size - 1 /\ j \in 0 .. size - 1 /\ i < j
  OBVIOUS
<1>2. QED
  BY <1>1 DEF IsSorted

\* What merge_at leaves out at the near end of the left side, and at the far
\* end of the right one, is in place.
LEMMA TrimLeft ==
  ASSUME NEW size \in Nat, NEW E, IsTransitive(E), NEW v \in [0 .. size - 1 -> E], NEW label,
         NEW lo \in Int, NEW mid \in Int, NEW hi \in Int, 0 <= lo, lo < mid, mid < hi, hi <= size,
         IsSorted(v, label, size, lo, mid, hi), OneLabel(label, lo, hi),
         NEW k, Splits(v, lo, mid - lo, k, v[mid])
  PROVE  /\ k \in Int /\ 0 <= k /\ k <= mid - lo
         /\ IsSorted(v, label, size, lo + k, mid, hi) /\ OneLabel(label, lo + k, hi)
         /\ lo + k < mid => Before(v[mid], v[lo + k])
<1>1. k \in Int /\ 0 <= k /\ k <= mid - lo
  BY DEF Splits
<1>2. k >= 1 => Before(v[lo + k - 1], v[mid])
  BY DEF Splits
<1>3. lo + k < mid => Before(v[mid], v[lo + k])
  BY <1>1 DEF Splits
<1>4. Comes(v, lo, lo + k - 1, mid, hi - 1)
  <2> DEFINE q == lo + k - 1
             t == hi - 1
  <2>1. q \in Int /\ t \in Int /\ lo <= lo /\ q < mid /\ mid <= mid /\ t < hi
    BY <1>1
  <2>2. lo <= q /\ mid <= t => Before(v[q], v[mid])
    BY <1>1, <1>2
  <2> HIDE DEF q, t
  <2>3. Comes(v, lo, q, mid, t)
    <3>1. lo <= mid /\ mid <= hi
      OBVIOUS
    <3>2. QED
      BY <2>1, <2>2, <3>1, ChainSides
  <2>4. QED
    BY <2>3 DEF q, t
<1>5. IsSorted(v, label, size, lo + k, mid, hi)
  BY <1>1, <1>4, Settled
<1>6. OneLabel(label, lo + k, hi)
  BY <1>1 DEF OneLabel
<1>7. QED
  BY <1>1, <1>3, <1>5, <1>6

LEMMA TrimRight ==
  ASSUME NEW size \in Nat, NEW E, IsTransitive(E), NEW v \in [0 .. size - 1 -> E], NEW label,
         NEW lo \in Int, NEW mid \in Int, NEW hi \in Int, 0 <= lo, lo < mid, mid < hi, hi <= size,
         IsSorted(v, label, size, lo, mid, hi), OneLabel(label, lo, hi),
         NEW k, Splits(v, mid, hi - mid, k, v[mid - 1])
  PROVE  /\ k \in Int /\ 0 <= k /\ k <= hi - mid
         /\ IsSorted(v, label, size, lo, mid, mid + k) /\ OneLabel(label, lo, mid + k)
         /\ k >= 1 => Before(v[mid + k - 1], v[mid - 1])
<1>1. k \in Int /\ 0 <= k /\ k <= hi - mid
  BY DEF Splits
<1>2. k < hi - mid => Before(v[mid - 1], v[mid + k])
  BY DEF Splits
<1>3. k >= 1 => Before(v[mid + k - 1], v[mid - 1])
  BY DEF Splits
<1> DEFINE n == hi - mid - k
<1>4. Comes(v, lo, mid - 1, hi - n, hi - 1)
  <2> DEFINE q == mid - 1
             s == hi - n
             t == hi - 1
  <2>1. q \in Int /\ s \in Int /\ t \in Int /\ lo <= lo /\ q < mid /\ mid <= s /\ t < hi /\ s = mid + k
    BY <1>1
  <2>2. lo <= q /\ s <= t => Before(v[q], v[s])
    BY <1>1, <1>2
  <2> HIDE DEF q, s, t
  <2>3. Comes(v, lo, q, s, t)
    <3>1. lo <= mid /\ mid <= hi
      OBVIOUS
    <3>2. QED
      BY <2>1, <2>2, <3>1, ChainSides
  <2>4. QED
    BY <2>3 DEF q, s, t
<1>5. n \in Int /\ 0 <= n /\ hi - n = mid + k
  BY <1>1
<1> HIDE DEF n
<1>6. IsSorted(v, label, size, lo, mid, hi - n)
  BY <1>4, <1>5, Settled
<1>7. OneLabel(label, lo, mid + k)
  BY <1>1 DEF OneLabel
<1>8. IsSorted(v, label, size, lo, mid, mid + k)
  BY <1>5, <1>6
<1>9. QED
  BY <1>1, <1>3, <1>7, <1>8

LEMMA BothOrders ==
  ASSUME NEW v, NEW label, NEW size, NEW lo, NEW mid, NEW hi,
         IsSorted(v, label, size, lo, mid, hi), OneLabel(label, lo, hi),
         Before(v[hi - 1], v[mid - 1]), Before(v[mid], v[lo])
  PROVE  \A low \in BOOLEAN : InOrder(v, label, size, low, lo, mid, hi)
BY DEF InOrder

\* What merge_at finds to merge, on the array alone.
TrimmedFits(label, lo, mid, hi, k, runB) ==
  /\ k \in 0 .. mid - lo
  /\ k = mid - lo => IsSorted(ranking, label, Size, 0, 0, 0)
  /\ \A nb \in GallopLeft(ranking[mid - 1], runB) :
       /\ nb \in 0 .. hi - mid
       /\ nb = 0 => IsSorted(ranking, label, Size, 0, 0, 0)
       /\ k < mid - lo /\ nb >= 1 => \A low \in BOOLEAN : InOrder(ranking, label, Size, low, lo + k, mid, mid + nb)

LEMMA TrimmedOrder ==
  ASSUME ArrayInv, StageInv, Comparable, NEW label, NEW lo \in Int, NEW mid \in Int, NEW hi \in Int,
         0 <= lo, lo < mid, mid < hi, hi <= Size,
         IsSorted(ranking, label, Size, lo, mid, hi), OneLabel(label, lo, hi),
         NEW runA, IsPart(runA, ranking, lo, mid - lo), NEW runB, IsPart(runB, ranking, mid, hi - mid),
         NEW k \in GallopRight(ranking[mid], runA)
  PROVE  TrimmedFits(label, lo, mid, hi, k, runB)
<1>1. Size \in Nat /\ ranking \in [0 .. Size - 1 -> Entries] /\ IsTransitive(Entries)
  BY Comparison DEF ArrayInv
<1>2. /\ mid - lo \in Nat /\ lo + (mid - lo) = mid /\ hi - mid \in Nat /\ mid + (hi - mid) = hi /\ mid <= Size /\ 0 <= mid
      /\ mid \in 0 .. Size - 1 /\ mid - 1 \in 0 .. Size - 1 /\ lo <= mid - 1 /\ mid - 1 < mid
      /\ mid - 1 \in Int
  BY <1>1
<1>3. ranking[mid] \in Entries /\ ranking[mid - 1] \in Entries
  BY <1>1, <1>2
<1>4. \A i \in lo .. lo + (mid - lo) - 1 : Earlier(ranking[i], ranking[mid])
  <2>1. ASSUME NEW i \in lo .. lo + (mid - lo) - 1 PROVE i \in Int /\ lo <= i /\ i < mid /\ mid <= mid
    OBVIOUS
  <2>2. QED
    BY <1>1, <2>1, AcrossEarlier
<1>5. \A i \in mid .. mid + (hi - mid) - 1 : Earlier(ranking[mid - 1], ranking[i])
  <2>1. ASSUME NEW i \in mid .. mid + (hi - mid) - 1 PROVE i \in Int /\ mid <= i /\ i < hi
    OBVIOUS
  <2>2. QED
    BY <1>1, <1>2, <2>1, AcrossEarlier
<1>6. Splits(ranking, lo, mid - lo, k, ranking[mid])
  BY <1>1, <1>2, <1>3, <1>4, RightSplit
<1>7. /\ k \in Int /\ 0 <= k /\ k <= mid - lo
      /\ IsSorted(ranking, label, Size, lo + k, mid, hi) /\ OneLabel(label, lo + k, hi)
      /\ lo + k < mid => Before(ranking[mid], ranking[lo + k])
  BY <1>1, <1>6, TrimLeft
<1>8. ASSUME k = mid - lo PROVE IsSorted(ranking, label, Size, 0, 0, 0)
  <2>1. lo + k >= mid /\ lo + k \in Int
    BY <1>7, <1>8
  <2>2. QED
    BY <1>1, <1>7, <2>1, NoSplit
<1>9. ASSUME NEW nb \in GallopLeft(ranking[mid - 1], runB)
      PROVE  /\ nb \in 0 .. hi - mid
             /\ nb = 0 => IsSorted(ranking, label, Size, 0, 0, 0)
             /\ k < mid - lo /\ nb >= 1 => \A low \in BOOLEAN : InOrder(ranking, label, Size, low, lo + k, mid, mid + nb)
  <2>1. Splits(ranking, mid, hi - mid, nb, ranking[mid - 1])
    BY <1>1, <1>2, <1>3, <1>5, LeftSplit
  <2>2. nb \in 0 .. hi - mid
    BY <2>1 DEF Splits
  <2>3. CASE k = mid - lo
    BY <1>8, <2>2, <2>3
  <2>4. CASE k # mid - lo
    <3> DEFINE l == lo + k
    <3>1. l \in Int /\ 0 <= l /\ l < mid
      BY <1>7, <2>4
    <3>2. IsSorted(ranking, label, Size, l, mid, hi) /\ OneLabel(label, l, hi) /\ Before(ranking[mid], ranking[l])
      BY <1>7, <3>1
    <3> HIDE DEF l
    <3>3. /\ IsSorted(ranking, label, Size, l, mid, mid + nb) /\ OneLabel(label, l, mid + nb)
          /\ nb >= 1 => Before(ranking[mid + nb - 1], ranking[mid - 1])
      BY <1>1, <2>1, <3>1, <3>2, TrimRight
    <3>4. nb = 0 => IsSorted(ranking, label, Size, 0, 0, 0)
      <4>1. nb = 0 => mid + nb \in Int /\ mid >= mid + nb
        BY <2>2
      <4>2. QED
        BY <1>1, <3>1, <3>3, <4>1, NoSplit
    <3>5. nb >= 1 => \A low \in BOOLEAN : InOrder(ranking, label, Size, low, l, mid, mid + nb)
      <4>1. ASSUME nb >= 1, NEW h, h = mid + nb
            PROVE  \A low \in BOOLEAN : InOrder(ranking, label, Size, low, l, mid, h)
        <5>1. /\ IsSorted(ranking, label, Size, l, mid, h) /\ OneLabel(label, l, h)
              /\ Before(ranking[h - 1], ranking[mid - 1]) /\ Before(ranking[mid], ranking[l])
          BY <2>2, <3>2, <3>3, <4>1
        <5>2. QED
          BY <5>1, BothOrders
      <4>2. QED
        BY <4>1
    <3>6. QED
      BY <2>2, <3>4, <3>5 DEF l
  <2>5. QED
    BY <2>3, <2>4
<1>10. k \in 0 .. mid - lo
  BY <1>7
<1>11. QED
  BY <1>8, <1>9, <1>10 DEF TrimmedFits

LEMMA MergeRunsOrder ==
  ASSUME IInv, RunsAreContiguous, EntriesInv, StageInv, Comparable, NEW label,
         Labels(label, pending, Size, first, first), WorkOrder(label),
         NEW i \in 1 .. Len(pending) - 1, i >= Len(pending) - 2, MergeAt(i), MergeRuns(i)
  PROVE  Ordered'
<1> DEFINE r1 == pending[i]
           r2 == pending[i + 1]
           lo == r1.base
           mid == r2.base
           hi == mid + r2.length
           runA == Slice(ranking, lo, r1.length)
           runB == Slice(ranking, mid, r2.length)
<1>0. PICK new : new = Relabelled(label, Size, lo, mid, hi)
  OBVIOUS
<1>1. /\ pending \in Seq(Run) /\ first \in Nat /\ remaining \in Nat /\ Size \in Nat /\ first + remaining = Size
      /\ ranking \in [0 .. Size - 1 -> Entries] /\ ArrayInv
  BY WorkAtHand DEF IInv, StackTypeOK, EntriesInv, ArrayInv
<1>2. /\ lo \in Nat /\ r1.length \in Nat \ {0} /\ mid = lo + r1.length
      /\ r2.length \in Nat \ {0} /\ hi <= first /\ hi = mid + r2.length
  BY RunsWithin
<1>3. lo \in Int /\ mid \in Int /\ hi \in Int /\ 0 <= lo /\ lo < mid /\ mid < hi /\ hi <= Size /\ first <= Size
      /\ r1.length = mid - lo /\ r2.length = hi - mid
  <2> DEFINE n1 == r1.length
             n2 == r2.length
  <2>1. /\ lo \in Nat /\ n1 \in Nat /\ n1 # 0 /\ mid = lo + n1 /\ n2 \in Nat /\ n2 # 0 /\ hi = mid + n2
        /\ hi <= first /\ first + remaining = Size /\ first \in Nat /\ remaining \in Nat /\ Size \in Nat
    BY <1>1, <1>2
  <2> HIDE DEF n1, n2, lo, mid, hi
  <2>2. /\ lo \in Int /\ mid \in Int /\ hi \in Int /\ 0 <= lo /\ lo < mid /\ mid < hi /\ hi <= Size /\ first <= Size
        /\ n1 = mid - lo /\ n2 = hi - mid
    BY <2>1
  <2>3. QED
    BY <2>2 DEF n1, n2
<1>4. /\ label \in [0 .. Size - 1 -> Int]
      /\ IsRun(label, Size, lo, mid) /\ IsRun(label, Size, mid, hi)
      /\ Labels(new, Merged(pending, i), Size, first, first)
  <2>1. RunsRise(pending, first)
    BY DEF StageInv
  <2>2. pending[i + 1].base = pending[i].base + pending[i].length
    BY <1>2
  <2>3. QED
    BY <1>0, <1>1, <1>3, <2>1, <2>2, LabelsMerge
<1>5. IsSorted(ranking, label, Size, 0, 0, 0)
  BY DEF WorkOrder, MergeRuns, Idle
<1>6. IsPart(runA, ranking, lo, mid - lo) /\ IsPart(runB, ranking, mid, hi - mid)
  BY <1>1, <1>2, <1>3, SliceIsPart
<1>7. PICK k \in GallopRight(runB[1], runA) :
        work' \in IF r1.length - k = 0 THEN {Idle}
                  ELSE {IF nb = 0 THEN Idle
                        ELSE [step |-> "begin", start |-> [a |-> lo + k, b |-> mid],
                              left |-> [a |-> r1.length - k, b |-> nb]]
                        : nb \in GallopLeft(ranking[lo + r1.length - 1], runB)}
  BY DEF MergeRuns, Trimmed
<1>8. /\ scores' = scores /\ reverse' = reverse /\ ranking' = ranking /\ Size' = Size
      /\ first' = first /\ pending' = Merged(pending, i)
  BY ScoresStay DEF MergeRuns, MergeAt
<1> HIDE DEF runA, runB, lo, mid, hi, r1, r2
<1>9. IsSorted(ranking, new, Size, lo, mid, hi) /\ OneLabel(new, lo, hi)
  BY <1>0, <1>1, <1>3, <1>4, <1>5, Joins
<1>10. runB[1] = ranking[mid] /\ ranking[lo + r1.length - 1] = ranking[mid - 1]
  <2>1. 1 \in 1 .. hi - mid /\ mid + 1 - 1 = mid /\ lo + r1.length - 1 = mid - 1
    BY <1>3
  <2>2. QED
    BY <1>6, <2>1 DEF IsPart
<1>11. /\ k \in 0 .. mid - lo
       /\ k = mid - lo => IsSorted(ranking, new, Size, 0, 0, 0)
       /\ \A nb \in GallopLeft(ranking[mid - 1], runB) :
            /\ nb \in 0 .. hi - mid
            /\ nb = 0 => IsSorted(ranking, new, Size, 0, 0, 0)
            /\ k < mid - lo /\ nb >= 1 => \A low \in BOOLEAN : InOrder(ranking, new, Size, low, lo + k, mid, mid + nb)
  <2>1. k \in GallopRight(ranking[mid], runA)
    BY <1>7, <1>10
  <2>2. /\ ArrayInv /\ lo \in Int /\ mid \in Int /\ hi \in Int /\ 0 <= lo /\ lo < mid /\ mid < hi /\ hi <= Size
        /\ IsPart(runA, ranking, lo, mid - lo) /\ IsPart(runB, ranking, mid, hi - mid)
    BY <1>1, <1>3, <1>6
  <2>3. TrimmedFits(new, lo, mid, hi, k, runB)
    BY <1>1, <1>9, <2>1, <2>2, TrimmedOrder
  <2>4. QED
    BY <2>3 DEF TrimmedFits
<1>13. CASE work' = Idle
  <2>1. IsSorted(ranking, new, Size, 0, 0, 0)
    <3>1. CASE r1.length - k = 0
      BY <1>3, <1>11, <3>1
    <3>2. CASE r1.length - k # 0
      <4>1. PICK nb \in GallopLeft(ranking[mid - 1], runB) :
              work' = IF nb = 0 THEN Idle
                      ELSE [step |-> "begin", start |-> [a |-> lo + k, b |-> mid],
                            left |-> [a |-> r1.length - k, b |-> nb]]
        BY <1>7, <1>10, <3>2
      <4>2. nb = 0
        BY <1>13, <4>1 DEF Idle
      <4>3. QED
        BY <1>11, <4>2
    <3>3. QED
      BY <3>1, <3>2
  <2>2. WorkOrder(new)'
    BY <1>8, <1>13, <2>1, SortedNext DEF Idle
  <2>3. Counted' = first'
    BY <1>13 DEF Counted, Idle
  <2>4. QED
    BY <1>4, <1>8, <2>2, <2>3 DEF Ordered
<1>14. CASE work' # Idle
  <2>1. r1.length - k # 0
    BY <1>7, <1>14
  <2>2. PICK nb \in GallopLeft(ranking[mid - 1], runB) :
          work' = IF nb = 0 THEN Idle
                  ELSE [step |-> "begin", start |-> [a |-> lo + k, b |-> mid],
                        left |-> [a |-> r1.length - k, b |-> nb]]
    BY <1>7, <1>10, <2>1
  <2>3. /\ nb # 0 /\ nb \in 0 .. hi - mid /\ nb >= 1 /\ k < mid - lo
    BY <1>3, <1>11, <1>14, <2>1, <2>2
  <2>4. \A low \in BOOLEAN : InOrder(ranking, new, Size, low, lo + k, mid, mid + nb)
    BY <1>11, <2>3
  <2>5. /\ work'.step = "begin" /\ work'.start.a = lo + k /\ work'.start.b = mid /\ work'.left.b = nb
    BY <2>2, <2>3
  <2> DEFINE l == lo + k
             h == mid + nb
  <2>6. /\ InOrder(ranking', new, Size, TRUE, l, mid, h) /\ InOrder(ranking', new, Size, FALSE, l, mid, h)
        /\ l = work'.start.a /\ mid = work'.start.b /\ h = work'.start.b + work'.left.b
    BY <1>8, <2>4, <2>5
  <2> HIDE DEF l, h
  <2>7. WorkOrder(new)'
    BY <1>8, <2>5, <2>6, BeginNext
  <2>8. Counted' = first'
    BY <2>5 DEF Counted
  <2>9. QED
    BY <1>4, <1>8, <2>7, <2>8 DEF Ordered
<1>15. QED
  BY <1>13, <1>14

\* The run being extended, and the entry behind it.
LEMMA LabelsRuns ==
  ASSUME NEW size \in Nat, NEW p, NEW label, NEW start \in Nat, NEW end \in Nat, start < end, end < size,
         Labels(label, p, size, start, end)
  PROVE  IsRun(label, size, start, end) /\ IsRun(label, size, end, end + 1)
<1>1. label \in [0 .. size - 1 -> Int]
  BY DEF Labels
<1>2. ASSUME NEW i \in 0 .. size - 1
      PROVE  /\ label[i] \in Int
             /\ i < start => label[i] < start
             /\ start <= i /\ i < end => label[i] = start
             /\ i >= end => label[i] = i
  BY <1>1 DEF Labels
<1>3. start \in 0 .. size - 1 /\ end \in 0 .. size - 1
  OBVIOUS
<1>4. label[start] = start /\ label[end] = end
  BY <1>2, <1>3
<1>5. ASSUME NEW i \in 0 .. size - 1
      PROVE  /\ label[i] = start <=> start <= i /\ i < end
             /\ label[i] = end <=> end <= i /\ i < end + 1
  <2>1. CASE i < start
    BY <1>2, <2>1
  <2>2. CASE start <= i /\ i < end
    BY <1>2, <2>2
  <2>3. CASE i >= end
    BY <1>2, <2>3
  <2>4. QED
    BY <2>1, <2>2, <2>3
<1>6. QED
  BY <1>4, <1>5 DEF IsRun

\* The entry behind a sorted run goes to its place in it.
LEMMA Inserted ==
  ASSUME NEW size \in Nat, NEW E, IsTransitive(E), NEW v \in [0 .. size - 1 -> E], NEW label,
         NEW lo \in Int, NEW mid \in Int, 0 <= lo, lo <= mid, mid < size,
         IsSorted(v, label, size, lo, mid, mid + 1), OneLabel(label, lo, mid + 1),
         lo < mid => Before(v[mid], v[lo]),
         NEW u, u = [Copied(v, lo + 1, v, lo, mid - lo) EXCEPT ![lo] = v[mid]]
  PROVE  IsSorted(u, label, size, 0, 0, 0)
<1> DEFINE hi == mid + 1
<1>1. hi \in Int /\ mid < hi /\ hi <= size /\ hi - 1 = mid /\ mid <= hi /\ mid + 1 <= hi /\ lo + 1 \in Int
  OBVIOUS
<1>2. \A i \in 0 .. size - 1 :
        u[i] = IF i = lo THEN v[mid] ELSE IF i \in lo + 1 .. lo + 1 + (mid - lo) - 1 THEN v[lo + i - (lo + 1)] ELSE v[i]
  <2>1. DOMAIN v = 0 .. size - 1
    OBVIOUS
  <2>2. QED
    BY <2>1 DEF Copied
<1>3. Rotates(u, v, size, lo, mid, mid + 1)
  <2>1. ASSUME NEW i \in 0 .. size - 1, i < lo \/ mid + 1 <= i PROVE u[i] = v[i]
    BY <1>2, <2>1
  <2>2. ASSUME NEW i \in lo .. lo + (mid + 1 - mid) - 1 PROVE u[i] = v[i + (mid - lo)]
    <3>1. i = lo /\ i \in 0 .. size - 1 /\ i + (mid - lo) = mid
      BY <2>2
    <3>2. QED
      BY <1>2, <3>1
  <2>3. ASSUME NEW i \in lo + (mid + 1 - mid) .. mid + 1 - 1 PROVE u[i] = v[i - (mid + 1 - mid)]
    <3>1. /\ i \in 0 .. size - 1 /\ i # lo /\ i \in lo + 1 .. lo + 1 + (mid - lo) - 1
          /\ lo + i - (lo + 1) = i - (mid + 1 - mid)
      BY <2>3
    <3>2. QED
      BY <1>2, <3>1
  <2>4. QED
    BY <2>1, <2>2, <2>3 DEF Rotates
<1>4. Comes(v, mid, mid + 1 - 1, lo, mid - 1)
  <2> DEFINE q == mid - 1
  <2>1. q \in Int /\ q < mid
    OBVIOUS
  <2>2. lo <= q /\ mid <= mid => Before(v[mid], v[lo])
    OBVIOUS
  <2>3. IsSorted(v, label, size, lo, mid, hi) /\ OneLabel(label, lo, hi)
    OBVIOUS
  <2> HIDE DEF hi, q
  <2>4. Comes(v, mid, mid, lo, q)
    <3>1. lo <= lo /\ mid <= mid
      OBVIOUS
    <3>2. QED
      BY <1>1, <2>1, <2>2, <2>3, <3>1, ChainSides
  <2>5. mid + 1 - 1 = mid
    OBVIOUS
  <2>6. QED
    BY <2>4, <2>5 DEF q
<1> HIDE DEF hi
<1>5. IsSorted(v, label, size, lo, mid, hi) /\ OneLabel(label, lo, hi)
  BY DEF hi
<1>6. IsSorted(u, label, size, lo + 1, mid + 1, hi)
  BY <1>1, <1>3, <1>4, <1>5, RotatesLow
<1>7. mid + 1 \in Int /\ mid + 1 >= hi
  BY DEF hi
<1>8. QED
  BY <1>1, <1>6, <1>7, NoSplit

LEMMA InsertOrder ==
  ASSUME IInv, EntriesInv, StageInv, Comparable, NEW label,
         Labels(label, pending, Size, first, Counted), WorkOrder(label), Insert
  PROVE  Ordered'
<1>1. ArrayInv /\ Inserting /\ pending \in Seq(Run) /\ first \in Nat /\ remaining \in Nat
  BY WorkAtHand DEF EntriesInv, Insert, IInv, StackTypeOK
<1>2. PICK here, n \in Int :
    /\ work = [step |-> "insert", at |-> here, length |-> n]
    /\ first < here /\ here <= first + n /\ n <= remaining
  BY <1>1 DEF Inserting
<1>3. work.step = "insert" /\ work.at = here /\ work.length = n
  BY <1>2
<1>4. PICK k \in GallopRight(ranking[here], Slice(ranking, first, here - first)) :
        ranking' = [Copied(ranking, first + k + 1, ranking, first + k, here - first - k)
                       EXCEPT ![first + k] = ranking[here]]
  BY <1>3 DEF Insert
<1>5. Size \in Nat /\ ranking \in [0 .. Size - 1 -> Entries] /\ first + remaining = Size /\ IsTransitive(Entries)
  BY <1>1, Comparison DEF ArrayInv
<1>6. here < first + n
  BY <1>3 DEF Insert
<1> DEFINE hi == here + 1
<1>7. /\ first \in Int /\ 0 <= first /\ here \in Nat /\ first < here /\ here < hi /\ hi <= Size /\ hi \in Int
      /\ here < Size /\ here <= hi /\ here <= Size
      /\ here - first \in Nat /\ first + (here - first) = here /\ here \in 0 .. Size - 1
  BY <1>1, <1>2, <1>5, <1>6
<1>8. Labels(label, pending, Size, first, here) /\ IsSorted(ranking, label, Size, 0, 0, 0)
  BY <1>3 DEF Counted, WorkOrder
<1>9. PICK new : new = Relabelled(label, Size, first, here, hi)
  OBVIOUS
<1>10. label \in [0 .. Size - 1 -> Int] /\ Labels(new, pending, Size, first, hi)
  <2>1. RunsRise(pending, first)
    BY DEF StageInv
  <2> HIDE DEF hi
  <2>2. QED
    BY <1>1, <1>5, <1>7, <1>8, <1>9, <2>1, LabelsGrow
<1>11. IsRun(label, Size, first, here) /\ IsRun(label, Size, here, hi)
  BY <1>1, <1>5, <1>7, <1>8, LabelsRuns
<1>12. IsSorted(ranking, new, Size, first, here, hi) /\ OneLabel(new, first, hi)
  <2> HIDE DEF hi
  <2>1. QED
    BY <1>5, <1>7, <1>8, <1>9, <1>10, <1>11, Joins
<1> DEFINE run == Slice(ranking, first, here - first)
           key == ranking[here]
<1>13. IsPart(run, ranking, first, here - first) /\ key \in Entries /\ k \in GallopRight(key, run)
  BY <1>4, <1>5, <1>7, SliceIsPart
<1>14. \A i \in first .. first + (here - first) - 1 : Earlier(ranking[i], key)
  <2>1. ASSUME NEW i \in first .. first + (here - first) - 1 PROVE i \in Int /\ first <= i /\ i < here /\ here <= here
    BY <1>7
  <2> HIDE DEF hi
  <2>2. QED
    BY <1>5, <1>7, <1>12, <2>1, AcrossEarlier
<1>15. Splits(ranking, first, here - first, k, key)
  <2> HIDE DEF hi, key, run
  <2>1. QED
    BY <1>1, <1>5, <1>7, <1>13, <1>14, RightSplit
<1>16. /\ k \in Int /\ 0 <= k /\ k <= here - first
       /\ IsSorted(ranking, new, Size, first + k, here, hi) /\ OneLabel(new, first + k, hi)
       /\ first + k < here => Before(ranking[here], ranking[first + k])
  <2> HIDE DEF hi
  <2>1. QED
    BY <1>5, <1>7, <1>12, <1>15, TrimLeft
<1> DEFINE lo == first + k
<1>17. lo \in Int /\ 0 <= lo /\ lo <= here /\ here - first - k = here - lo
  BY <1>7, <1>16
<1>18. /\ IsSorted(ranking, new, Size, lo, here, here + 1) /\ OneLabel(new, lo, here + 1)
       /\ lo < here => Before(ranking[here], ranking[lo])
       /\ ranking' = [Copied(ranking, lo + 1, ranking, lo, here - lo) EXCEPT ![lo] = ranking[here]]
  BY <1>4, <1>16, <1>17
<1>19. IsSorted(ranking', new, Size, 0, 0, 0)
  <2> HIDE DEF lo
  <2>1. QED
    BY <1>5, <1>7, <1>17, <1>18, Inserted
<1>20. /\ scores' = scores /\ reverse' = reverse /\ Size' = Size /\ first' = first /\ pending' = pending
       /\ work'.step = "insert" /\ work'.at = hi
  BY <1>2, <1>3, ScoresStay DEF Insert, stackVars
<1>21. WorkOrder(new)' /\ Counted' = hi
  BY <1>19, <1>20, SortedNext DEF Counted
<1>22. QED
  BY <1>10, <1>20, <1>21 DEF Ordered

\* Entries of which each comes before the next are in order.
LEMMA Neighbours ==
  ASSUME NEW size \in Nat, NEW E, IsTransitive(E), NEW v \in [0 .. size - 1 -> E],
         NEW lo \in Int, NEW hi \in Int, 0 <= lo, hi <= size,
         \A c \in lo + 1 .. hi - 1 : Before(v[c - 1], v[c])
  PROVE  \A i, j \in lo .. hi - 1 : i < j => Before(v[i], v[j])
<1> SUFFICES ASSUME NEW i \in lo .. hi - 1, NEW j \in lo .. hi - 1, i < j PROVE Before(v[i], v[j])
  OBVIOUS
<1> DEFINE At(d) == i + 1 + d
           T == {d \in Nat : At(d) <= j => Before(v[i], v[At(d)])}
<1>1. 0 \in T
  <2>1. i + 1 \in lo + 1 .. hi - 1 /\ (i + 1) - 1 = i /\ At(0) = i + 1
    OBVIOUS
  <2>2. Before(v[i], v[At(0)])
    BY <2>1
  <2>3. QED
    BY <2>2
<1>2. ASSUME NEW d \in 0 .. j - i - 1 - 1, d \in T PROVE d + 1 \in T
  <2>1. /\ At(d) <= j /\ At(d + 1) \in lo + 1 .. hi - 1 /\ At(d + 1) - 1 = At(d)
        /\ At(d) \in 0 .. size - 1 /\ At(d + 1) \in 0 .. size - 1 /\ i \in 0 .. size - 1 /\ d + 1 \in Nat /\ d \in Nat
    OBVIOUS
  <2>2. Before(v[i], v[At(d)])
    BY <1>2, <2>1
  <2> HIDE DEF At
  <2>3. Before(v[At(d)], v[At(d + 1)])
    BY <2>1
  <2>4. v[i] \in E /\ v[At(d)] \in E /\ v[At(d + 1)] \in E
    BY <2>1
  <2>5. Before(v[i], v[At(d + 1)])
    BY <2>2, <2>3, <2>4 DEF IsTransitive
  <2>6. QED
    BY <2>1, <2>5
<1>3. j - i - 1 \in Nat /\ At(j - i - 1) = j
  OBVIOUS
<1>4. 0 .. j - i - 1 \subseteq T
  <2> HIDE DEF T, At
  <2>1. QED
    BY <1>1, <1>2, <1>3, CountingUp
<1>5. j - i - 1 \in T
  <2> HIDE DEF T, At
  <2>1. j - i - 1 \in 0 .. j - i - 1
    BY <1>3
  <2>2. QED
    BY <1>4, <2>1
<1>6. QED
  BY <1>3, <1>5

\* The array with a newly counted run, reversed if it was descending.
NewlyCounted(u, lo, hi) ==
  /\ \A i, j \in lo .. hi - 1 : i < j => Before(u[i], u[j])
  /\ \E was : \A i \in lo .. hi - 1 : was[i] \in lo .. hi - 1 /\ u[i] = ranking[was[i]]
  /\ \A i \in 0 .. Size - 1 : ~(lo <= i /\ i < hi) => u[i] = ranking[i]

\* A run that count_run found is in order, once a descending one is reversed.
LEMMA Counts ==
  ASSUME ArrayInv, StageInv, Comparable, NEW n \in Nat \ {0}, first \in Nat, first + n <= Size, NEW down \in BOOLEAN,
         \A c \in first + 1 .. first + n - 1 : Less(ranking[c], ranking[c - 1]) = down,
         \A c \in first + 1 .. first + n - 1 : Earlier(ranking[c - 1], ranking[c]),
         NEW u, u = IF down THEN Reversed(ranking, first, first + n) ELSE ranking
  PROVE  NewlyCounted(u, first, first + n)
<1>1. Size \in Nat /\ ranking \in [0 .. Size - 1 -> Entries] /\ IsTransitive(Entries)
  BY Comparison DEF ArrayInv
<1> DEFINE hi == first + n
           Was(i) == IF down THEN first + hi - 1 - i ELSE i
<1>2. hi \in Int /\ first \in Int /\ 0 <= first /\ hi <= Size /\ first < hi
  BY <1>1
<1> HIDE DEF hi
<1>3. ASSUME NEW i \in first .. hi - 1
      PROVE  Was(i) \in first .. hi - 1 /\ i \in 0 .. Size - 1 /\ Was(i) \in 0 .. Size - 1
  BY <1>1, <1>2
<1>4. \A i \in 0 .. Size - 1 : u[i] = IF first <= i /\ i < hi THEN ranking[Was(i)] ELSE ranking[i]
  <2>1. DOMAIN ranking = 0 .. Size - 1
    BY <1>1
  <2>2. CASE down
    <3>1. u = Reversed(ranking, first, hi)
      BY <2>2 DEF hi
    <3>2. \A i \in 0 .. Size - 1 : u[i] = IF i \in first .. hi - 1 THEN ranking[first + hi - 1 - i] ELSE ranking[i]
      BY <2>1, <3>1 DEF Reversed
    <3>3. QED
      BY <1>2, <2>2, <3>2
  <2>3. CASE ~down
    BY <2>3
  <2>4. QED
    BY <2>2, <2>3
<1>5. u \in [0 .. Size - 1 -> Entries]
  <2>1. Rearranges(Reversed(ranking, first, hi), ranking, Size, Entries)
    BY <1>1, <1>2, ReversedHolds
  <2>2. QED
    BY <1>1, <2>1 DEF Rearranges, hi
<1>6. ASSUME NEW c \in first + 1 .. hi - 1 PROVE Before(u[c - 1], u[c])
  <2>1. c \in first .. hi - 1 /\ c - 1 \in first .. hi - 1 /\ c \in Int
    BY <1>2
  <2>2. u[c] = ranking[Was(c)] /\ u[c - 1] = ranking[Was(c - 1)]
    <3>1. /\ c \in 0 .. Size - 1 /\ c - 1 \in 0 .. Size - 1 /\ first <= c /\ c < hi /\ first <= c - 1 /\ c - 1 < hi
      BY <1>2, <1>3, <2>1
    <3> HIDE DEF Was
    <3>2. QED
      BY <1>4, <3>1
  <2>3. CASE down
    <3> DEFINE x == Was(c - 1)
    <3>1. x \in first + 1 .. hi - 1 /\ x - 1 = Was(c)
      BY <1>2, <2>1, <2>3
    <3>2. x \in 0 .. Size - 1 /\ x - 1 \in 0 .. Size - 1
      BY <1>3, <2>1, <3>1
    <3> HIDE DEF Was, x
    <3>3. Less(ranking[x], ranking[x - 1])
      <4>1. Less(ranking[x], ranking[x - 1]) = down
        BY <3>1 DEF hi
      <4>2. QED
        BY <2>3, <4>1
    <3>4. ranking[x] \in Entries /\ ranking[x - 1] \in Entries
      BY <1>1, <3>2
    <3>5. Before(ranking[x], ranking[x - 1])
      BY <3>3, <3>4, Comparison
    <3>6. QED
      BY <2>2, <3>1, <3>5 DEF x
  <2>4. CASE ~down
    <3>1. Was(c) = c /\ Was(c - 1) = c - 1 /\ c \in 0 .. Size - 1 /\ c - 1 \in 0 .. Size - 1
      BY <1>3, <2>1, <2>4
    <3> HIDE DEF Was
    <3>2. Less(ranking[c], ranking[c - 1]) = FALSE /\ Earlier(ranking[c - 1], ranking[c])
      BY <2>4 DEF hi
    <3>3. ranking[c] \in Entries /\ ranking[c - 1] \in Entries
      BY <1>1, <3>1
    <3>4. Before(ranking[c - 1], ranking[c])
      BY <3>2, <3>3, Comparison
    <3>5. QED
      BY <2>2, <3>1, <3>4
  <2>5. QED
    BY <2>3, <2>4
<1>7. \A i, j \in first .. hi - 1 : i < j => Before(u[i], u[j])
  BY <1>1, <1>2, <1>5, <1>6, Neighbours
<1> DEFINE was == [i \in first .. hi - 1 |-> Was(i)]
<1>8. ASSUME NEW i \in first .. hi - 1 PROVE was[i] \in first .. hi - 1 /\ u[i] = ranking[was[i]]
  <2>1. was[i] = Was(i)
    OBVIOUS
  <2>2. first <= i /\ i < hi
    BY <1>2
  <2>3. Was(i) \in first .. hi - 1 /\ i \in 0 .. Size - 1
    BY <1>3
  <2> HIDE DEF Was, was
  <2>4. QED
    BY <1>4, <2>1, <2>2, <2>3
<1> HIDE DEF was, Was
<1>9. NewlyCounted(u, first, hi)
  BY <1>4, <1>7, <1>8 DEF NewlyCounted
<1>10. QED
  BY <1>9 DEF hi

\* The places behind the runs are each alone.
LEMMA LabelsAlone ==
  ASSUME NEW size \in Nat, NEW p, NEW label, NEW start \in Nat, NEW hi \in Int, start < hi, hi <= size,
         Labels(label, p, size, start, start)
  PROVE  /\ \A i \in start .. hi - 1 : label[i] = i
         /\ \A i \in 0 .. size - 1 : label[i] = start => i = start
         /\ \A i, j \in 0 .. size - 1 : ~(start <= i /\ i < hi) /\ start <= j /\ j < hi => label[i] # label[j]
<1>1. label \in [0 .. size - 1 -> Int]
  BY DEF Labels
<1>2. ASSUME NEW i \in 0 .. size - 1
      PROVE  /\ label[i] \in Int
             /\ i < start => label[i] < start
             /\ i >= start => label[i] = i
  BY <1>1 DEF Labels
<1>3. \A i \in start .. hi - 1 : label[i] = i
  <2>1. \A i \in start .. hi - 1 : i \in 0 .. size - 1 /\ i >= start
    OBVIOUS
  <2>2. QED
    BY <1>2, <2>1
<1>4. ASSUME NEW i \in 0 .. size - 1, label[i] = start PROVE i = start
  BY <1>2, <1>4
<1>5. ASSUME NEW i \in 0 .. size - 1, NEW j \in 0 .. size - 1, ~(start <= i /\ i < hi), start <= j, j < hi
      PROVE  label[i] # label[j]
  <2>1. label[j] = j
    BY <1>2, <1>5
  <2>2. CASE i < start
    BY <1>2, <1>5, <2>1, <2>2
  <2>3. CASE i >= start
    BY <1>2, <1>5, <2>1, <2>3
  <2>4. QED
    BY <2>2, <2>3
<1>6. QED
  BY <1>3, <1>4, <1>5

LEMMA CountRunOrder ==
  ASSUME IInv, EntriesInv, StageInv, Comparable, NEW label,
         Labels(label, pending, Size, first, Counted), WorkOrder(label), CountRun
  PROVE  Ordered'
<1>1. ArrayInv /\ pending \in Seq(Run) /\ first \in Nat /\ remaining \in Nat
  BY WorkAtHand DEF EntriesInv, IInv, StackTypeOK
<1>2. PICK n \in RunLengths :
          /\ \E k \in Extensions(n) :
                work' = [step |-> "insert", at |-> first + n, length |-> k]
          /\ ranking' = IF Descends THEN Reversed(ranking, first, first + n) ELSE ranking
  BY DEF CountRun
<1>3. n \in 1 .. remaining /\ \A c \in first + 1 .. first + n - 1 : Less(ranking[c], ranking[c - 1]) = Descends
  BY DEF RunLengths
<1>4. Size \in Nat /\ ranking \in [0 .. Size - 1 -> Entries] /\ first + remaining = Size
  BY <1>1 DEF ArrayInv
<1> DEFINE hi == first + n
<1>5. /\ n \in Nat \ {0} /\ first \in Int /\ 0 <= first /\ hi \in Int /\ first < hi /\ hi <= Size /\ first < first + 1 /\ first + 1 <= hi
      /\ first + 1 \in Int /\ hi \in Nat
  BY <1>1, <1>3, <1>4
<1>6. Labels(label, pending, Size, first, first) /\ IsSorted(ranking, label, Size, 0, 0, 0)
  BY DEF Counted, WorkOrder, CountRun, Idle
<1>7. PICK new : new = Relabelled(label, Size, first, first + 1, hi)
  OBVIOUS
<1>8. Labels(new, pending, Size, first, hi)
  <2>1. RunsRise(pending, first)
    BY DEF StageInv
  <2> HIDE DEF hi
  <2>2. QED
    BY <1>1, <1>4, <1>5, <1>6, <1>7, <2>1, LabelsGrow
<1>9. /\ \A i \in first .. hi - 1 : label[i] = i
      /\ \A i \in 0 .. Size - 1 : label[i] = first => i = first
      /\ \A i, j \in 0 .. Size - 1 : ~(first <= i /\ i < hi) /\ first <= j /\ j < hi => label[i] # label[j]
  <2> HIDE DEF hi
  <2>1. QED
    BY <1>1, <1>4, <1>5, <1>6, LabelsAlone
<1>10. ASSUME NEW c \in first + 1 .. first + n - 1 PROVE Earlier(ranking[c - 1], ranking[c])
  <2>1. /\ c \in first .. hi - 1 /\ c - 1 \in first .. hi - 1 /\ c - 1 < c /\ c - 1 # c
        /\ c \in 0 .. Size - 1 /\ c - 1 \in 0 .. Size - 1
    BY <1>4, <1>5
  <2>2. label[c] = c /\ label[c - 1] = c - 1
    BY <1>9, <2>1
  <2>3. QED
    BY <1>6, <2>1, <2>2 DEF IsSorted
<1>11. Descends \in BOOLEAN
  BY DEF Descends
<1>12. PICK down : down = Descends
  OBVIOUS
<1>13. PICK u : u = ranking'
  OBVIOUS
<1>14. u = IF down THEN Reversed(ranking, first, first + n) ELSE ranking
  BY <1>2, <1>12, <1>13
<1>15. NewlyCounted(u, first, hi)
  <2>1. down \in BOOLEAN /\ \A c \in first + 1 .. first + n - 1 : Less(ranking[c], ranking[c - 1]) = down
    BY <1>3, <1>11, <1>12
  <2>2. first + n <= Size
    BY <1>5
  <2>3. QED
    BY <1>1, <1>5, <1>10, <1>14, <2>1, <2>2, Counts
<1> HIDE DEF hi
<1>16. PICK was : \A i \in first .. hi - 1 : was[i] \in first .. hi - 1 /\ u[i] = ranking[was[i]]
  BY <1>15 DEF NewlyCounted
<1>17. IsSorted(u, new, Size, 0, 0, 0)
  <2>1. /\ \A i, j \in first .. hi - 1 : i < j => Before(u[i], u[j])
        /\ \A i \in 0 .. Size - 1 : ~(first <= i /\ i < hi) => u[i] = ranking[i]
    BY <1>15 DEF NewlyCounted
  <2>2. QED
    BY <1>4, <1>5, <1>6, <1>7, <1>9, <1>16, <2>1, NewRun
<1>18. /\ scores' = scores /\ reverse' = reverse /\ Size' = Size /\ first' = first /\ pending' = pending
       /\ work'.step = "insert" /\ work'.at = hi
  BY <1>2, ScoresStay DEF CountRun, stackVars, hi
<1>19. WorkOrder(new)' /\ Counted' = hi
  BY <1>13, <1>17, <1>18, SortedNext DEF Counted
<1>20. QED
  BY <1>8, <1>18, <1>19 DEF Ordered

LEMMA PushOrder ==
  ASSUME IInv, EntriesInv, StageInv, Comparable, Ordered, Push
  PROVE  phase' = "overflow" \/ Ordered'
<1>1. PICK label : Labels(label, pending, Size, first, Counted) /\ WorkOrder(label)
  BY DEF Ordered
<1>2. ArrayInv /\ Inserting /\ work # Idle /\ pending \in Seq(Run) /\ first \in Nat /\ RunsRise(pending, first)
  BY WorkAtHand DEF EntriesInv, Push, IInv, StackTypeOK, StageInv, Idle
<1>3. work.step = "insert" /\ work.at = first + work.length /\ phase = "count"
  BY DEF Push, PushRun
<1>4. work.length \in Nat \ {0}
  BY <1>2, <1>3 DEF IInv, CountedRunFits
<1>5. SUFFICES ASSUME phase' # "overflow" PROVE Ordered'
  OBVIOUS
<1>6. /\ pending' = Append(pending, [base |-> first, length |-> work.length])
      /\ first' = first + work.length
  BY <1>5 DEF Push, PushRun
<1>7. Size \in Nat
  BY <1>2 DEF ArrayInv
<1>8. Labels(label, pending, Size, first, first + work.length)
  BY <1>1, <1>3 DEF Counted
<1>9. Labels(label, pending', Size, first', first')
  BY <1>2, <1>4, <1>6, <1>7, <1>8, LabelsPush
<1>10. /\ scores' = scores /\ reverse' = reverse /\ ranking' = ranking /\ Size' = Size
       /\ work' = Idle /\ work'.step = "idle" /\ Counted' = first'
  BY ScoresStay DEF Push, Idle, Counted
<1>11. IsSorted(ranking', label, Size, 0, 0, 0)
  BY <1>1, <1>3, <1>10 DEF WorkOrder
<1>12. WorkOrder(label)'
  BY <1>10, <1>11, SortedNext
<1>13. QED
  BY <1>9, <1>10, <1>12 DEF Ordered

LEMMA EndCollapseOrder ==
  ASSUME Comparable, Ordered, EndCollapse
  PROVE  Ordered'
<1>1. PICK label : Labels(label, pending, Size, first, Counted) /\ WorkOrder(label)
  BY DEF Ordered
<1>2. /\ scores' = scores /\ reverse' = reverse /\ ranking' = ranking /\ Size' = Size
      /\ pending' = pending /\ first' = first /\ work' = work /\ work.step = "idle" /\ work'.step = "idle"
  BY ScoresStay DEF EndCollapse, Collapsed, Idle
<1>3. Counted' = Counted
  BY <1>2 DEF Counted
<1>4. IsSorted(ranking', label, Size, 0, 0, 0)
  BY <1>1, <1>2 DEF WorkOrder
<1>5. WorkOrder(label)'
  BY <1>2, <1>4, SortedNext
<1>6. Labels(label, pending', Size', first', Counted')
  BY <1>1, <1>2, <1>3
<1>7. QED
  BY <1>5, <1>6 DEF Ordered

\* The steps of a merge leave the runs alone.
LEMMA MergingOrder ==
  ASSUME EntriesInv, StageInv, StageInv', Comparable, Ordered,
         KeepShorter \/ FirstEntry \/ Pair \/ GallopA \/ OneB \/ GallopB \/ OneA
  PROVE  Ordered' /\ phase' = phase /\ phase \in {"collapse", "force"}
<1>1. PICK label : Labels(label, pending, Size, first, Counted) /\ WorkOrder(label)
  BY DEF Ordered
<1>2. work.step \in MergeSteps \cup {"begin"} /\ UNCHANGED stackVars /\ scores' = scores
  BY DEF KeepShorter, FirstEntry, Pair, GallopA, OneB, GallopB, OneA, MergeSteps
<1>3. phase \in {"collapse", "force"} /\ pending' = pending /\ first' = first /\ phase' = phase /\ Size' = Size
  BY <1>2, ScoresStay DEF StageInv, stackVars
<1>4. work.step # "insert" /\ work'.step # "insert"
  BY <1>2, <1>3 DEF StageInv, MergeSteps
<1>5. Counted' = Counted
  BY <1>3, <1>4 DEF Counted
<1>6. WorkOrder(label)'
  <2>1. WorkOrder(label)
    BY <1>1
  <2>2. QED
    BY <2>1, KeepShorterOrder, MergeStepsOrder
<1>7. Labels(label, pending', Size', first', Counted')
  BY <1>1, <1>3, <1>5
<1>8. QED
  BY <1>3, <1>6, <1>7 DEF Ordered

\* One run is left, which is the whole array.
LEMMA OneRun ==
  ASSUME IInv, RunsAreContiguous, EntriesInv, StageInv, Ordered, phase = "force", Len(pending) <= 1, work = Idle
  PROVE  \A i, j \in 0 .. Size - 1 : i < j => Before(ranking[i], ranking[j])
<1>1. PICK label : Labels(label, pending, Size, first, Counted) /\ WorkOrder(label)
  BY DEF Ordered
<1>2. ArrayInv /\ pending \in Seq(Run) /\ first \in Nat /\ remaining = 0
  BY WorkAtHand DEF EntriesInv, IInv, StackTypeOK, StageInv
<1>3. Size \in Nat /\ Size >= 2 /\ first = Size
  BY <1>2 DEF ArrayInv
<1>4. pending # <<>>
  BY <1>3 DEF RunsAreContiguous
<1>5. Len(pending) = 1 /\ 1 \in 1 .. Len(pending)
  <2>1. Len(pending) \in Nat \ {0}
    BY <1>2, <1>4, EmptySeq
  <2> DEFINE m == Len(pending)
  <2>2. m \in Nat /\ m # 0 /\ m <= 1
    BY <2>1
  <2> HIDE DEF m
  <2>3. m = 1 /\ 1 \in 1 .. m
    BY <2>2
  <2>4. QED
    BY <2>3 DEF m
<1>6. pending[1].base = 0 /\ pending[1].base + pending[1].length = Size
  BY <1>3, <1>4, <1>5 DEF RunsAreContiguous
<1>7. \A i \in 0 .. Size - 1 : label[i] = 0
  <2>1. \A i \in 0 .. Size - 1 : label[i] = pending[1].base <=> pending[1].base <= i /\ i < pending[1].base + pending[1].length
    BY <1>1, <1>5 DEF Labels
  <2>2. \A i \in 0 .. Size - 1 : label[i] = pending[1].base <=> pending[1].base <= i /\ i < Size
    BY <1>6, <2>1
  <2>3. \A i \in 0 .. Size - 1 : label[i] = 0 <=> 0 <= i /\ i < Size
    BY <1>6, <2>2
  <2>4. QED
    BY <1>3, <2>3
<1>8. IsSorted(ranking, label, Size, 0, 0, 0)
  BY <1>1 DEF WorkOrder, Idle
<1>9. ASSUME NEW i \in 0 .. Size - 1, NEW j \in 0 .. Size - 1, i < j PROVE Before(ranking[i], ranking[j])
  <2>1. label[i] = label[j] /\ ~(0 <= i /\ i < 0 /\ 0 <= j /\ j < 0)
    BY <1>7
  <2>2. QED
    BY <1>8, <1>9, <2>1 DEF IsSorted
<1>10. QED
  BY <1>9

LEMMA ReturnOrder ==
  ASSUME IInv, RunsAreContiguous, EntriesInv, StageInv, OrderInv, Return
  PROVE  SortsStably'
<1>1. /\ ArrayInv /\ scores' = scores /\ reverse' = reverse /\ phase = "force" /\ Len(pending) <= 1 /\ work = Idle
      /\ ranking' = IF reverse THEN Reversed(ranking, 0, Size) ELSE ranking
  BY WorkAtHand DEF EntriesInv, Return, StackDone
<1>2. SUFFICES ASSUME Comparable
      PROVE  \A i, j \in DOMAIN ranking' : i < j =>
               \/ IF reverse THEN Less(ranking'[j], ranking'[i]) ELSE Less(ranking'[i], ranking'[j])
               \/ ranking'[i].value = ranking'[j].value /\ ranking'[i].id < ranking'[j].id
  BY <1>1 DEF SortsStably, Comparable
<1>3. \A i, j \in 0 .. Size - 1 : i < j => Before(ranking[i], ranking[j])
  <2>1. Ordered
    BY <1>1, <1>2 DEF OrderInv
  <2>2. QED
    BY <1>1, <2>1, OneRun
<1>4. Size \in Nat /\ ranking \in [0 .. Size - 1 -> Entries] /\ DOMAIN scores = 0 .. Size - 1
  BY <1>1 DEF ArrayInv
<1>5. \A x \in Entries : x.value \in Int /\ x.value # NaN /\ x.id \in Int
  BY <1>2, <1>4 DEF Entries, Comparable, StageInv
<1>6. CASE reverse
  <2>1. \A i \in 0 .. Size - 1 : ranking'[i] = ranking[Size - 1 - i]
    BY <1>1, <1>4, <1>6 DEF Reversed
  <2>2. DOMAIN ranking' = 0 .. Size - 1
    BY <1>1, <1>4, <1>6 DEF Reversed
  <2>3. ASSUME NEW i \in 0 .. Size - 1, NEW j \in 0 .. Size - 1, i < j
        PROVE  \/ Less(ranking'[j], ranking'[i])
               \/ ranking'[i].value = ranking'[j].value /\ ranking'[i].id < ranking'[j].id
    <3> DEFINE x == Size - 1 - j
               y == Size - 1 - i
    <3>1. x \in 0 .. Size - 1 /\ y \in 0 .. Size - 1 /\ x < y
      BY <1>4, <2>3
    <3>2. ranking'[j] = ranking[x] /\ ranking'[i] = ranking[y]
      BY <2>1
    <3> HIDE DEF x, y
    <3>3. Before(ranking[x], ranking[y]) /\ ranking[x] \in Entries /\ ranking[y] \in Entries
      BY <1>3, <1>4, <3>1
    <3>4. QED
      BY <1>4, <1>5, <1>6, <3>2, <3>3 DEF Before, Less, Earlier, Given
  <2>4. QED
    BY <1>6, <2>2, <2>3
<1>7. CASE ~reverse
  <2>1. ranking' = ranking /\ DOMAIN ranking = 0 .. Size - 1
    BY <1>1, <1>4, <1>7
  <2>2. ASSUME NEW i \in 0 .. Size - 1, NEW j \in 0 .. Size - 1, i < j
        PROVE  \/ Less(ranking[i], ranking[j])
               \/ ranking[i].value = ranking[j].value /\ ranking[i].id < ranking[j].id
    <3>1. Before(ranking[i], ranking[j]) /\ ranking[i] \in Entries /\ ranking[j] \in Entries
      BY <1>3, <1>4, <2>2
    <3>2. QED
      BY <1>5, <1>7, <3>1 DEF Before, Less, Earlier, Given
  <2>3. QED
    BY <1>7, <2>1, <2>2
<1>8. QED
  BY <1>6, <1>7

LEMMA InitOrder == Init => OrderInv
<1> SUFFICES ASSUME Init PROVE OrderInv
  OBVIOUS
<1>1. ArrayInv
  BY InitEntries DEF EntriesInv
<1>2. Size \in Nat /\ DOMAIN scores = 0 .. Size - 1
  BY <1>1 DEF ArrayInv
<1>3. /\ phase = "count" /\ pending = <<>> /\ first = 0 /\ work.step = "idle" /\ reverse \in BOOLEAN
      /\ Counted = 0
  BY DEF Init, StackInit, Idle, Counted
<1> DEFINE label == [i \in 0 .. Size - 1 |-> i]
           entries == [i \in DOMAIN scores |-> [value |-> scores[i], id |-> i]]
<1>4. Labels(label, pending, Size, first, Counted)
  BY <1>2, <1>3, FirstLabels
<1>5. ASSUME NEW i \in 0 .. Size - 1 PROVE Given(ranking[i]) = i
  <2>1. ranking = IF reverse THEN Reversed(entries, 0, Size) ELSE entries
    BY DEF Init
  <2>2. \A k \in 0 .. Size - 1 : entries[k].id = k
    BY <1>2
  <2>3. DOMAIN entries = 0 .. Size - 1
    BY <1>2
  <2> HIDE DEF entries
  <2>4. CASE reverse
    <3>1. 0 + Size - 1 - i \in 0 .. Size - 1 /\ Size - 1 - (0 + Size - 1 - i) = i
      BY <1>2
    <3>2. ranking[i] = entries[0 + Size - 1 - i]
      BY <1>2, <2>1, <2>3, <2>4 DEF Reversed
    <3>3. ranking[i].id = 0 + Size - 1 - i
      BY <2>2, <3>1, <3>2
    <3>4. QED
      BY <2>4, <3>1, <3>3 DEF Given
  <2>5. CASE ~reverse
    BY <2>1, <2>2, <2>5 DEF Given
  <2>6. QED
    BY <2>4, <2>5
<1>6. \A i \in 0 .. Size - 1 : label[i] = i
  OBVIOUS
<1> HIDE DEF label
<1>7. IsSorted(ranking, label, Size, 0, 0, 0)
  BY <1>2, <1>5, <1>6 DEF IsSorted, Earlier
<1>8. WorkOrder(label)
  BY <1>3, <1>7 DEF WorkOrder, MergeSteps
<1>9. Ordered
  BY <1>4, <1>8 DEF Ordered
<1>10. QED
  BY <1>3, <1>9 DEF OrderInv, SortsStably

\* Only the return ends a sort, and every other step keeps the order.
LEMMA StepOrder ==
  ASSUME scores' = scores, phase' # "done", Comparable /\ phase' \in {"count", "collapse", "force"} => Ordered'
  PROVE  OrderInv'
<1>1. Comparable' <=> Comparable
  BY DEF Comparable
<1>2. SortsStably'
  BY DEF SortsStably
<1>3. QED
  BY <1>1, <1>2 DEF OrderInv

LEMMA SameOrdered ==
  ASSUME OrderInv, UNCHANGED vars
  PROVE  OrderInv'
<1>1. /\ phase' = phase /\ pending' = pending /\ first' = first /\ scores' = scores /\ reverse' = reverse
      /\ ranking' = ranking /\ temporary' = temporary /\ work' = work /\ Size' = Size /\ Counted' = Counted
  BY ScoresStay DEF vars, Counted
<1>2. SortsStably'
  BY <1>1 DEF OrderInv, SortsStably, Less
<1>3. ASSUME NEW label, WorkOrder(label) PROVE WorkOrder(label)'
  <2>1. CASE work.step \in {"idle", "insert"}
    BY <1>1, <1>3, <2>1, SortedNext DEF WorkOrder
  <2>2. CASE work.step = "begin"
    <3>1. PICK lo, mid, hi : lo = work.start.a /\ mid = work.start.b /\ hi = work.start.b + work.left.b
      OBVIOUS
    <3>2. \A low \in BOOLEAN : InOrder(ranking, label, Size, low, lo, mid, hi)
      BY <1>3, <2>2, <3>1 DEF WorkOrder
    <3>3. QED
      BY <1>1, <2>2, <3>1, <3>2, BeginNext
  <2>3. CASE work.step \in MergeSteps
    <3>1. PICK v, lo, mid, hi : v = Unmerged(work, ranking) /\ lo = Bottom(work) /\ mid = Middle(work) /\ hi = Top(work)
      OBVIOUS
    <3>2. InOrder(v, label, Size, work.low, lo, mid, hi) /\ DueFits(work, v, lo, mid, hi)
      BY <1>3, <2>3, <3>1 DEF WorkOrder, MergeOrder
    <3>3. /\ v = Unmerged(work, ranking)' /\ lo = Bottom(work)' /\ mid = Middle(work)' /\ hi = Top(work)'
      BY <1>1, <3>1 DEF Unmerged, Bottom, Middle, Top
    <3>4. QED
      BY <1>1, <2>3, <3>2, <3>3, MergeNext
  <2>4. CASE work.step \notin {"idle", "insert", "begin"} \cup MergeSteps
    BY <1>1, <2>4 DEF WorkOrder
  <2>5. QED
    BY <2>1, <2>2, <2>3, <2>4
<1>4. Ordered => Ordered'
  BY <1>1, <1>3 DEF Ordered
<1>5. QED
  BY <1>1, <1>2, <1>4 DEF OrderInv, Comparable

LEMMA NextOrder ==
  ASSUME IInv, RunsAreContiguous, EntriesInv, StageInv, StageInv', OrderInv, [Next]_vars
  PROVE  OrderInv'
<1>1. pending \in Seq(Run)
  BY DEF IInv, StackTypeOK
<1>2. ASSUME Comparable, phase \in {"count", "collapse", "force"}
      PROVE  Ordered /\ \E label : Labels(label, pending, Size, first, Counted) /\ WorkOrder(label)
  BY <1>2 DEF OrderInv, Ordered
<1>3. CASE CountRun \/ Insert
  <2>1. phase = "count" /\ phase' = phase /\ scores' = scores
    <3>1. work.step = "insert" => phase = "count"
      BY DEF StageInv
    <3>2. QED
      BY <1>3, <3>1 DEF CountRun, Insert, stackVars
  <2>2. Comparable => Ordered'
    BY <1>2, <1>3, <2>1, CountRunOrder, InsertOrder
  <2>3. QED
    BY <2>1, <2>2, StepOrder
<1>4. CASE Push
  <2>1. phase = "count" /\ phase' \in {"overflow", "collapse"} /\ scores' = scores
    BY <1>4 DEF Push, PushRun
  <2>2. Comparable => phase' = "overflow" \/ Ordered'
    BY <1>2, <1>4, <2>1, PushOrder
  <2>3. QED
    BY <2>1, <2>2, StepOrder
<1>5. CASE CollapseRuns
  <2>1. CollapseIndex(pending) \in 1 .. Len(pending) - 1 /\ CollapseIndex(pending) >= Len(pending) - 2
    BY <1>5, CollapseIndexInRange DEF CollapseRuns, Collapse, MustCollapse, IInv, StackTypeOK
  <2>2. /\ MergeAt(CollapseIndex(pending)) /\ MergeRuns(CollapseIndex(pending))
        /\ phase = "collapse" /\ phase' = phase /\ scores' = scores /\ Counted = first
    BY <1>5 DEF CollapseRuns, Collapse, MergeAt, MergeRuns, Counted, Idle
  <2>3. ASSUME Comparable PROVE Ordered'
    <3>1. PICK label : Labels(label, pending, Size, first, first) /\ WorkOrder(label)
      BY <1>2, <2>2, <2>3
    <3> DEFINE i == CollapseIndex(pending)
    <3>2. i \in 1 .. Len(pending) - 1 /\ i >= Len(pending) - 2 /\ MergeAt(i) /\ MergeRuns(i)
      BY <2>1, <2>2
    <3> HIDE DEF i
    <3>3. QED
      BY <2>3, <3>1, <3>2, MergeRunsOrder
  <2>4. QED
    BY <2>2, <2>3, StepOrder
<1>6. CASE ForceRuns
  <2>1. Len(pending) > 1
    BY <1>6 DEF ForceRuns, ForceCollapse
  <2>2. MergeIndex(pending) \in 1 .. Len(pending) - 1 /\ MergeIndex(pending) >= Len(pending) - 2
    BY <1>1, <2>1 DEF MergeIndex
  <2>3. /\ MergeAt(MergeIndex(pending)) /\ MergeRuns(MergeIndex(pending))
        /\ phase = "force" /\ phase' = phase /\ scores' = scores /\ Counted = first
    BY <1>6 DEF ForceRuns, ForceCollapse, MergeAt, MergeRuns, Counted, Idle
  <2>4. ASSUME Comparable PROVE Ordered'
    <3>1. PICK label : Labels(label, pending, Size, first, first) /\ WorkOrder(label)
      BY <1>2, <2>3, <2>4
    <3> DEFINE i == MergeIndex(pending)
    <3>2. i \in 1 .. Len(pending) - 1 /\ i >= Len(pending) - 2 /\ MergeAt(i) /\ MergeRuns(i)
      BY <2>2, <2>3
    <3> HIDE DEF i
    <3>3. QED
      BY <2>4, <3>1, <3>2, MergeRunsOrder
  <2>5. QED
    BY <2>3, <2>4, StepOrder
<1>7. CASE EndCollapse
  <2>1. phase = "collapse" /\ phase' # "done" /\ scores' = scores
    BY <1>7 DEF EndCollapse, Collapsed
  <2>2. Comparable => Ordered'
    BY <1>2, <1>7, <2>1, EndCollapseOrder
  <2>3. QED
    BY <2>1, <2>2, StepOrder
<1>8. CASE KeepShorter \/ FirstEntry \/ Pair \/ GallopA \/ OneB \/ GallopB \/ OneA
  <2>1. work.step \in MergeSteps \cup {"begin"} /\ UNCHANGED stackVars /\ scores' = scores
    BY <1>8 DEF KeepShorter, FirstEntry, Pair, GallopA, OneB, GallopB, OneA, MergeSteps
  <2>2. phase \in {"collapse", "force"} /\ phase' = phase
    BY <2>1 DEF StageInv, stackVars
  <2>3. Comparable => Ordered'
    BY <1>2, <1>8, <2>2, MergingOrder
  <2>4. QED
    BY <2>1, <2>2, <2>3, StepOrder
<1>9. CASE Return
  <2>1. SortsStably'
    BY <1>9, ReturnOrder
  <2>2. phase' = "done"
    BY <1>9 DEF Return, StackDone
  <2>3. QED
    BY <2>1, <2>2 DEF OrderInv
<1>10. CASE UNCHANGED vars
  BY <1>10, SameOrdered
<1>11. QED
  BY <1>3, <1>4, <1>5, <1>6, <1>7, <1>8, <1>9, <1>10 DEF Next

\* SortsStably: the sort returns what a stable sort returns, whatever runs the
\* array has and wherever the searches and gallops of its merges end.
THEOREM SortIsStable == Spec => []SortsStably
<1>1. IInv /\ RunsAreContiguous /\ EntriesInv /\ [Next]_vars => EntriesInv'
  BY NextEntries
<1>2. Spec => []EntriesInv
  BY <1>1, InitEntries, SpecIInv, PendingRunsAdjoin, PTL DEF Spec
<1>3. IInv /\ RunsAreContiguous /\ EntriesInv /\ StageInv /\ [Next]_vars => StageInv'
  BY NextStage
<1>4. Spec => []StageInv
  BY <1>2, <1>3, InitStage, SpecIInv, PendingRunsAdjoin, PTL DEF Spec
<1>5. IInv /\ RunsAreContiguous /\ EntriesInv /\ StageInv /\ StageInv' /\ OrderInv /\ [Next]_vars => OrderInv'
  BY NextOrder
<1>6. Spec => []OrderInv
  BY <1>2, <1>4, <1>5, InitOrder, SpecIInv, PendingRunsAdjoin, PTL DEF Spec
<1>7. OrderInv => SortsStably
  BY DEF OrderInv
<1>8. QED
  BY <1>6, <1>7, PTL

-----------------------------------------------------------------------------
(* The windowed search.                                                     *)

USE SearchAssumption DEF SearchAssumption

-----------------------------------------------------------------------------
(* Arithmetic of the blocks.                                                *)

\* Integer division by a positive number rounds down.
LEMMA DivBounds ==
  ASSUME NEW a \in Nat, NEW k \in Nat \ {0}
  PROVE  /\ a \div k \in Nat
         /\ k * (a \div k) <= a
         /\ a < k * (a \div k + 1)
  BY Z3

LEMMA Difference ==
  ASSUME NEW a \in Nat, NEW b \in Nat, b < a
  PROVE  a - b \in Nat \ {0}
  OBVIOUS

\* What lies below the rounded quotient, and what does not.
LEMMA DivBelow ==
  ASSUME NEW a \in Nat, NEW k \in Nat \ {0}, NEW j \in Nat
  PROVE  /\ a < (j + 1) * k => a \div k <= j
         /\ j * k <= a => j <= a \div k
<1> DEFINE q == a \div k
<1>1. q \in Nat /\ k * q <= a /\ a < k * (q + 1)
  BY DivBounds
<1> HIDE DEF q
<1>2. ASSUME a < (j + 1) * k PROVE q <= j
  <2>1. SUFFICES ASSUME j + 1 <= q PROVE FALSE
    BY <1>1
  <2>2. (j + 1) * k <= k * q
    BY <1>1, <2>1, Z3
  <2> QED
    BY <1>1, <1>2, <2>2
<1>3. ASSUME j * k <= a PROVE j <= q
  <2>1. SUFFICES ASSUME q + 1 <= j PROVE FALSE
    BY <1>1
  <2>2. k * (q + 1) <= j * k
    BY <1>1, <2>1, Z3
  <2> QED
    BY <1>1, <1>3, <2>2
<1> QED
  BY <1>2, <1>3 DEF q

\* Where a block begins and ends: inside the range, and the next one begins
\* where it ends.
LEMMA BlockBounds ==
  ASSUME NEW count \in Nat \ {0}, NEW k \in Nat \ {0}, NEW w \in 0 .. k - 1
  PROVE  /\ Begin(count, k, w) \in Nat /\ End(count, k, w) \in Nat
         /\ Begin(count, k, w) <= End(count, k, w)
         /\ End(count, k, w) <= count
<1>1. count * w \in Nat /\ count * (w + 1) \in Nat
  BY Z3
<1>2. count * w <= count * (w + 1)
  BY Z3
<1>3. count * (w + 1) <= count * k /\ count * k < (count + 1) * k
  BY Z3
<1>4. (count * w) \div k \in Nat /\ (count * (w + 1)) \div k \in Nat
  BY <1>1, DivBounds
<1>5. k * ((count * w) \div k) <= count * w
  BY <1>1, DivBounds
<1>6. (count * w) \div k <= (count * (w + 1)) \div k
  <2> DEFINE q == (count * w) \div k
  <2>1. q \in Nat /\ q * k <= count * (w + 1)
    BY <1>1, <1>2, <1>4, <1>5, Z3
  <2> HIDE DEF q
  <2>2. q <= (count * (w + 1)) \div k
    BY <1>1, <2>1, DivBelow
  <2> QED
    BY <2>2 DEF q
<1>7. (count * (w + 1)) \div k <= count
  BY <1>1, <1>3, DivBelow
<1> QED
  BY <1>4, <1>6, <1>7 DEF Begin, End

\* Blocks of different workers do not meet.
LEMMA BlocksApart ==
  ASSUME NEW count \in Nat \ {0}, NEW k \in Nat \ {0},
         NEW v \in 0 .. k - 1, NEW w \in 0 .. k - 1, v < w
  PROVE  End(count, k, v) <= Begin(count, k, w)
<1> DEFINE q == (count * (v + 1)) \div k
<1>1. count * (v + 1) \in Nat /\ count * w \in Nat
  BY Z3
<1>2. count * (v + 1) <= count * w
  BY Z3
<1>3. q \in Nat /\ k * q <= count * (v + 1)
  BY <1>1, DivBounds
<1> HIDE DEF q
<1>4. q * k <= count * w
  BY <1>1, <1>2, <1>3, Z3
<1>5. q <= (count * w) \div k
  BY <1>1, <1>3, <1>4, DivBelow
<1> QED
  BY <1>5 DEF q, Begin, End

\* Every index lies in the block of the worker that the inverse scaling names.
LEMMA BlocksCover ==
  ASSUME NEW count \in Nat \ {0}, NEW k \in Nat \ {0}, NEW j \in 0 .. count - 1
  PROVE  \E w \in 0 .. k - 1 : j \in Block(count, k, w)
<1> DEFINE a == (j + 1) * k - 1
           w == a \div count
<1>1. a \in Nat /\ a + 1 = (j + 1) * k
  BY Z3
<1>2. (j + 1) * k <= count * k
  BY Z3
<1> HIDE DEF a
<1>3. w \in Nat /\ count * w <= a /\ a < count * (w + 1)
  BY <1>1, DivBounds
<1>4. w <= k - 1
  BY <1>1, <1>2, DivBelow
<1> HIDE DEF w
<1>5. count * w \in Nat /\ count * (w + 1) \in Nat
  BY <1>3, Z3
<1>6. (count * w) \div k <= j
  BY <1>1, <1>3, <1>5, DivBelow
<1>7. (j + 1) * k <= count * (w + 1)
  BY <1>1, <1>3, <1>5, Z3
<1>8. j + 1 <= (count * (w + 1)) \div k
  BY <1>5, <1>7, DivBelow
<1>9. (count * w) \div k \in Nat /\ (count * (w + 1)) \div k \in Nat
  BY <1>5, DivBounds
<1>10. j \in Block(count, k, w)
  BY <1>6, <1>8, <1>9 DEF Block, Begin, End
<1> QED
  BY <1>3, <1>4, <1>10

-----------------------------------------------------------------------------
(* Widths of the search.                                                    *)

LEMMA MinOfTwo ==
  ASSUME NEW a \in Int, NEW b \in Int
  PROVE  Min({a, b}) \in {a, b} /\ Min({a, b}) <= a /\ Min({a, b}) <= b
<1>1. \E x \in {a, b} : \A y \in {a, b} : x <= y
  <2>1. CASE a <= b
    BY <2>1
  <2>2. CASE b <= a
    BY <2>2
  <2> QED
    BY <2>1, <2>2
<1> QED
  BY <1>1 DEF Min

LEMMA MaxOfTwo ==
  ASSUME NEW a \in Int, NEW b \in Int
  PROVE  Max({a, b}) \in {a, b} /\ a <= Max({a, b}) /\ b <= Max({a, b})
<1>1. \E x \in {a, b} : \A y \in {a, b} : x >= y
  <2>1. CASE a <= b
    BY <2>1
  <2>2. CASE b <= a
    BY <2>2
  <2> QED
    BY <2>1, <2>2
<1> QED
  BY <1>1 DEF Max

LEMMA MinOfThree ==
  ASSUME NEW a \in Int, NEW b \in Int, NEW c \in Int
  PROVE  Min({a, b, c}) \in {a, b, c} /\ Min({a, b, c}) <= a
<1>1. \E x \in {a, b, c} : \A y \in {a, b, c} : x <= y
  <2>1. CASE a <= b /\ a <= c
    BY <2>1
  <2>2. CASE b <= a /\ b <= c
    BY <2>2
  <2>3. CASE c <= a /\ c <= b
    BY <2>3
  <2> QED
    BY <2>1, <2>2, <2>3
<1> QED
  BY <1>1 DEF Min

\* A range that is not empty has a worker.
LEMMA SomeWorkers ==
  ASSUME NEW count \in Nat \ {0}, requested \in Nat
  PROVE  Workers(count) \in Nat \ {0}
<1>1. Max({1, 1}) = 1
  BY MaxOfTwo
<1>2. UsefulWorkers(count, 1) \in Nat \ {0}
  <2>1. (count - 1) \div 1 \in Nat
    BY DivBounds
  <2> QED
    BY <1>1, <2>1 DEF UsefulWorkers
<1>3. CASE requested > 1
  <2>1. Min({requested, count, UsefulWorkers(count, 1)})
          \in {requested, count, UsefulWorkers(count, 1)}
    BY <1>2, MinOfThree
  <2> QED
    BY <1>2, <1>3, <2>1 DEF Workers, WorkerCount
<1> QED
  BY <1>3 DEF Workers, WorkerCount

\* A window holds at least one candidate and ends within the list.
LEMMA WindowsFit ==
  ASSUME length \in Nat, requested \in Nat, at \in 0 .. length, at < length
  PROVE  WindowEnd \in at + 1 .. length
<1>1. BoundedWorkers \in Nat
  <2>1. Min({requested, length}) \in {requested, length}
    BY MinOfTwo
  <2> QED
    BY <2>1 DEF BoundedWorkers
<1> DEFINE scaled == BoundedWorkers * WindowPerWorker
<1>2. scaled \in Nat
  BY <1>1, Z3
<1> HIDE DEF scaled
<1>3. WindowWidth \in Nat \ {0}
  <2>1. Max({MinimumWindow, scaled}) \in {MinimumWindow, scaled}
         /\ MinimumWindow <= Max({MinimumWindow, scaled})
    BY <1>2, MaxOfTwo
  <2>2. WindowWidth = Max({MinimumWindow, scaled})
    BY DEF WindowWidth, scaled
  <2> QED
    BY <1>2, <2>1, <2>2
<1>4. Min({WindowWidth, length - at}) \in 1 .. length - at
  BY <1>3, MinOfTwo
<1> QED
  BY <1>4 DEF WindowEnd

\* Probes stay within the list.
LEMMA ProbesFit ==
  ASSUME length \in Nat, requested \in Nat
  PROVE  ProbeCount \in Int /\ ProbeCount <= length
<1>1. BoundedWorkers \in Nat
  <2>1. Min({requested, length}) \in {requested, length}
    BY MinOfTwo
  <2> QED
    BY <2>1 DEF BoundedWorkers
<1>2. Min({length, BoundedWorkers, MaximumProbes}) \in Int
         /\ Min({length, BoundedWorkers, MaximumProbes}) <= length
  BY <1>1, MinOfThree
<1> QED
  BY <1>2 DEF ProbeCount

-----------------------------------------------------------------------------
(* The invariant.                                                           *)

LEMMA InitHolds == SearchInit => SearchInv
<1> SUFFICES ASSUME SearchInit PROVE SearchInv
  OBVIOUS
<1>1. TypeOK
  BY DEF SearchInit, TypeOK
<1> QED
  BY <1>1 DEF SearchInit, SearchInv, SearchesInOrder

LEMMA ProbeStep == SearchInv /\ Probe => SearchInv'
<1> SUFFICES ASSUME SearchInv, Probe PROVE SearchInv'
  OBVIOUS
<1>1. at \in 0 .. length - 1 /\ at < ProbeCount
  BY ProbesFit DEF SearchInv, TypeOK, Probe
<1>2. \A i \in 0 .. at - 1 : outcome[i] = "infeasible"
  BY DEF SearchInv, Probe
<1>3. CASE outcome[at] = "infeasible"
  <2>1. pc' = "search" /\ at' = at + 1 /\ UNCHANGED <<input, window, cursor, slots, read, result>>
    BY <1>3 DEF Probe
  <2>2. \A i \in 0 .. at' - 1 : outcome'[i] = "infeasible"
    BY <1>1, <1>2, <1>3, <2>1 DEF input
  <2>3. TypeOK'
    BY <1>1, <2>1 DEF SearchInv, TypeOK, input
  <2> QED
    BY <2>1, <2>2, <2>3 DEF SearchInv, SearchesInOrder
<1>4. CASE outcome[at] # "infeasible"
  <2>1. /\ pc' = "done" /\ result' = Ended(Verdict(outcome[at]), at)
        /\ UNCHANGED <<input, at, window, cursor, slots, read>>
    BY <1>4 DEF Probe, Ends
  <2>2. Answers(result)'
    BY <1>1, <1>2, <1>4, <2>1 DEF Answers, Ended, Verdict, input
  <2>3. TypeOK'
    BY <2>1 DEF SearchInv, TypeOK, input
  <2> QED
    BY <2>1, <2>2, <2>3 DEF SearchInv, SearchesInOrder
<1> QED
  BY <1>3, <1>4

LEMMA ExhaustedStep == SearchInv /\ Exhausted => SearchInv'
<1> SUFFICES ASSUME SearchInv, Exhausted PROVE SearchInv'
  OBVIOUS
<1>1. /\ pc' = "done" /\ result' = Ended("exhausted", length - 1)
      /\ UNCHANGED <<input, at, window, cursor, slots, read>>
  BY DEF Exhausted, Ends
<1>2. Answers(result)'
  BY <1>1 DEF SearchInv, Exhausted, Answers, Ended, input
<1>3. TypeOK'
  BY <1>1 DEF SearchInv, TypeOK, input
<1> QED
  BY <1>1, <1>2, <1>3 DEF SearchInv, SearchesInOrder

LEMMA OpenWindowStep == SearchInv /\ OpenWindow => SearchInv'
<1> SUFFICES ASSUME SearchInv, OpenWindow PROVE SearchInv'
  OBVIOUS
<1>1. window' \in at + 1 .. length /\ at' = at /\ at \in 0 .. length
  BY WindowsFit DEF SearchInv, TypeOK, OpenWindow
<1>a. window' - at \in Nat \ {0}
  <2>1. length \in Nat
    BY DEF SearchInv, TypeOK
  <2>2. window' \in Nat /\ at < window' /\ at \in Nat
    BY <1>1, <2>1
  <2> QED
    BY <2>2, Difference, Zenon
<1> DEFINE count == window' - at
           k == Workers(count)
<1>2. count \in Nat \ {0} /\ Count' = count
  BY <1>1, <1>a DEF Count
<1>3. k \in Nat \ {0}
  BY <1>2, SomeWorkers DEF SearchInv, TypeOK
<1>4. Workers(Count)' = k
  BY <1>2 DEF OpenWindow, Workers, input
<1>5. /\ cursor' = [w \in 0 .. k - 1 |-> Begin(count, k, w)]
      /\ slots' = [j \in 0 .. count - 1 |-> "none"]
      /\ pc' = "blocks" /\ read' = 0 /\ UNCHANGED <<input, result>>
  BY DEF OpenWindow
<1>6. \A w \in 0 .. k - 1 : /\ Begin(count, k, w) \in Nat /\ End(count, k, w) \in Nat
                            /\ Begin(count, k, w) <= End(count, k, w)
                            /\ End(count, k, w) <= count
  BY <1>2, <1>3, BlockBounds
<1>7. \A w \in DOMAIN cursor' : BlockEnd(w)' = End(count, k, w)
  BY <1>2, <1>4 DEF BlockEnd, End
<1> HIDE DEF count, k
<1>8. TypeOK'
  BY <1>1, <1>2, <1>3, <1>4, <1>5, <1>6 DEF SearchInv, TypeOK, input
<1>9. \A w \in DOMAIN cursor' :
        /\ cursor'[w] \in Begin(count, k, w) .. BlockEnd(w)'
        /\ \A j \in Begin(count, k, w) .. cursor'[w] - 1 : slots'[j] = outcome'[at' + j]
  BY <1>5, <1>6, <1>7
<1>10. \A i \in 0 .. at' - 1 : outcome'[i] = "infeasible"
  BY <1>1, <1>5 DEF SearchInv, OpenWindow, input
<1> QED
  BY <1>2, <1>4, <1>5, <1>8, <1>9, <1>10 DEF SearchInv, SearchesInOrder, Begin

LEMMA CheckStep == ASSUME SearchInv, NEW w \in DOMAIN cursor, Check(w) PROVE SearchInv'
<1> DEFINE k == Workers(Count)
<1>1. /\ Count \in Nat \ {0} /\ slots \in [0 .. Count - 1 -> Outcomes \cup {"none"}]
      /\ cursor \in [0 .. k - 1 -> 0 .. Count]
      /\ at \in 0 .. length /\ at + Count <= length /\ outcome \in [0 .. length - 1 -> Outcomes]
  BY DEF Check, SearchInv, TypeOK, Count
<1>2. k \in Nat \ {0}
  BY <1>1, SomeWorkers DEF SearchInv, TypeOK
<1>3. BlockEnd(w) \in Nat /\ BlockEnd(w) <= Count
  BY <1>1, <1>2, BlockBounds DEF BlockEnd
<1>4. /\ slots' = [slots EXCEPT ![cursor[w]] = outcome[at + cursor[w]]]
      /\ cursor' = [cursor EXCEPT ![w] = cursor[w] + 1]
      /\ pc = "blocks" /\ pc' = "blocks" /\ cursor[w] < BlockEnd(w)
      /\ UNCHANGED <<input, at, window, read, result>>
  BY DEF Check
<1>5. Count' = Count /\ Workers(Count)' = k
  BY <1>4 DEF Count, Workers, input
<1>6. \A u \in DOMAIN cursor : BlockEnd(u)' = BlockEnd(u)
  BY <1>5 DEF BlockEnd, End
<1> HIDE DEF k
<1>7. cursor[w] \in 0 .. Count - 1 /\ w \in 0 .. k - 1
  <2>1. cursor[w] \in 0 .. Count
    BY <1>1
  <2> QED
    BY <1>1, <1>3, <1>4, <2>1
<1>8. outcome[at + cursor[w]] \in Outcomes
  <2>1. length \in Nat
    BY DEF SearchInv, TypeOK
  <2>2. at + cursor[w] \in 0 .. length - 1
    BY <1>1, <1>7, <2>1
  <2> QED
    BY <1>1, <2>2
<1>9. TypeOK'
  <2>1. slots' \in [0 .. Count - 1 -> Outcomes \cup {"none"}]
    BY <1>1, <1>4, <1>8
  <2>2. cursor' \in [0 .. k - 1 -> 0 .. Count]
    BY <1>1, <1>4, <1>7
  <2> QED
    BY <1>4, <1>5, <2>1, <2>2 DEF SearchInv, TypeOK, input
<1>10. \A u \in DOMAIN cursor :
         /\ cursor[u] \in Begin(Count, k, u) .. BlockEnd(u)
         /\ \A j \in Begin(Count, k, u) .. cursor[u] - 1 : slots[j] = outcome[at + j]
  BY <1>4 DEF SearchInv, k
<1>11. \A u \in DOMAIN cursor :
         BlockEnd(u) \in Nat /\ BlockEnd(u) <= Count /\ Begin(Count, k, u) \in Nat
  BY <1>1, <1>2, BlockBounds DEF BlockEnd, k
<1>12. ASSUME NEW u \in DOMAIN cursor'
       PROVE  /\ cursor'[u] \in Begin(Count, k, u) .. BlockEnd(u)
              /\ \A j \in Begin(Count, k, u) .. cursor'[u] - 1 : slots'[j] = outcome[at + j]
  <2>1. u \in DOMAIN cursor
    BY <1>4, <1>12
  <2>2. CASE u = w
    <3>1. cursor'[w] = cursor[w] + 1 /\ slots'[cursor[w]] = outcome[at + cursor[w]]
      BY <1>1, <1>4, <1>7
    <3>2. \A j : j # cursor[w] => slots'[j] = slots[j]
      BY <1>1, <1>4
    <3>3. cursor[w] \in Begin(Count, k, w) .. BlockEnd(w) - 1
      BY <1>4, <1>7, <1>10, <1>11
    <3>4. ASSUME NEW j \in Begin(Count, k, w) .. cursor[w] PROVE slots'[j] = outcome[at + j]
      <4>1. j = cursor[w] \/ j \in Begin(Count, k, w) .. cursor[w] - 1
        BY <1>7, <1>11
      <4> QED
        BY <1>10, <3>1, <3>2, <4>1
    <3>5. cursor[w] + 1 \in Begin(Count, k, w) .. BlockEnd(w) /\ (cursor[w] + 1) - 1 = cursor[w]
      BY <1>7, <1>11, <3>3
    <3> QED
      BY <2>2, <3>1, <3>4, <3>5
  <2>3. CASE u # w
    BY <1>1, <1>4, <1>7, <1>10, <1>11, <2>1, <2>3
  <2> QED
    BY <2>2, <2>3
<1>13. \A u \in DOMAIN cursor' :
         /\ cursor'[u] \in Begin(Count, k, u) .. BlockEnd(u)'
         /\ \A j \in Begin(Count, k, u) .. cursor'[u] - 1 : slots'[j] = outcome'[at' + j]
  BY <1>4, <1>6, <1>12 DEF input
<1>14. \A i \in 0 .. at' - 1 : outcome'[i] = "infeasible"
  BY <1>4 DEF SearchInv, input
<1>15. Begin(Count, k, w)' = Begin(Count, k, w)
  BY <1>5 DEF Begin, k
<1> QED
  BY <1>4, <1>5, <1>9, <1>13, <1>14 DEF SearchInv, SearchesInOrder, Begin, k

LEMMA JoinedStep == SearchInv /\ Joined => SearchInv'
<1> SUFFICES ASSUME SearchInv, Joined PROVE SearchInv'
  OBVIOUS
<1> DEFINE k == Workers(Count)
<1>1. /\ Count \in Nat \ {0} /\ cursor \in [0 .. k - 1 -> 0 .. Count]
      /\ \A i \in 0 .. at - 1 : outcome[i] = "infeasible"
  BY DEF Joined, SearchInv, TypeOK, Count
<1>2. k \in Nat \ {0}
  BY <1>1, SomeWorkers DEF SearchInv, TypeOK
<1>3. /\ pc = "blocks" /\ pc' = "scan" /\ \A w \in DOMAIN cursor : cursor[w] >= BlockEnd(w)
      /\ UNCHANGED <<input, at, window, cursor, slots, read, result>>
  BY DEF Joined
<1>4. Count' = Count /\ Workers(Count)' = k
  BY <1>3 DEF Count, Workers, input
<1>5. ASSUME NEW j \in 0 .. Count - 1 PROVE slots[j] = outcome[at + j]
  <2>1. PICK w \in 0 .. k - 1 : j \in Block(Count, k, w)
    BY <1>1, <1>2, BlocksCover
  <2>2. /\ cursor[w] \in Begin(Count, k, w) .. BlockEnd(w)
        /\ \A i \in Begin(Count, k, w) .. cursor[w] - 1 : slots[i] = outcome[at + i]
    BY <1>1, <1>3 DEF SearchInv
  <2>3. Begin(Count, k, w) \in Nat /\ BlockEnd(w) \in Nat
    BY <1>1, <1>2, BlockBounds DEF BlockEnd
  <2>4. cursor[w] \in Nat /\ cursor[w] >= BlockEnd(w)
    BY <1>1, <1>3
  <2>5. cursor[w] = BlockEnd(w)
    BY <2>2, <2>3, <2>4
  <2> QED
    BY <2>1, <2>2, <2>5 DEF Block, BlockEnd
<1>6. TypeOK'
  BY <1>3, <1>4 DEF SearchInv, TypeOK, input
<1> HIDE DEF k
<1>7. read = 0
  BY <1>3 DEF SearchInv
<1> QED
  BY <1>1, <1>3, <1>4, <1>5, <1>6, <1>7 DEF SearchInv, SearchesInOrder, input

LEMMA ReadStep == SearchInv /\ ReadOne => SearchInv'
<1> SUFFICES ASSUME SearchInv, ReadOne PROVE SearchInv'
  OBVIOUS
<1>1. /\ pc = "scan" /\ read \in Nat /\ Count \in Nat /\ read < Count
      /\ at \in Nat /\ at + Count <= length /\ length \in Nat
  BY DEF ReadOne, AllRead, SearchInv, TypeOK, Count
<1>2. /\ slots[read] = outcome[at + read]
      /\ \A i \in 0 .. at - 1 : outcome[i] = "infeasible"
      /\ \A j \in 0 .. read - 1 : outcome[at + j] = "infeasible"
  BY <1>1 DEF SearchInv
<1>3. \A i \in 0 .. at + read - 1 : outcome[i] = "infeasible"
  <2>1. ASSUME NEW i \in 0 .. at + read - 1 PROVE outcome[i] = "infeasible"
    <3>1. CASE i < at
      BY <1>1, <1>2, <3>1
    <3>2. CASE i >= at
      <4>1. i - at \in 0 .. read - 1 /\ at + (i - at) = i
        BY <1>1, <3>2
      <4> QED
        BY <1>2, <4>1
    <3> QED
      BY <1>1, <3>1, <3>2
  <2> QED
    BY <2>1
<1>4. CASE Read(read) = "infeasible"
  <2>1. read' = read + 1 /\ pc' = "scan" /\ UNCHANGED <<input, at, window, cursor, slots, result>>
    BY <1>1, <1>4 DEF ReadOne
  <2>2. Count' = Count /\ Workers(Count)' = Workers(Count)
    BY <2>1 DEF Count, Workers, input
  <2>3. TypeOK'
    BY <1>1, <2>1, <2>2 DEF SearchInv, TypeOK, input
  <2>4. \A j \in 0 .. read' - 1 : outcome'[at' + j] = "infeasible"
    <3>1. ASSUME NEW j \in 0 .. read PROVE outcome[at + j] = "infeasible"
      <4>1. j = read \/ j \in 0 .. read - 1
        BY <1>1
      <4> QED
        BY <1>2, <1>4, <4>1 DEF Read
    <3>2. read' - 1 = read /\ at' = at /\ outcome' = outcome
      BY <1>1, <2>1 DEF input
    <3> QED
      BY <3>1, <3>2
  <2> QED
    BY <1>1, <1>2, <2>1, <2>2, <2>3, <2>4 DEF SearchInv, SearchesInOrder, input
<1>5. CASE Read(read) # "infeasible"
  <2>1. /\ pc' = "done" /\ result' = Ended(Verdict(outcome[at + read]), at + read)
        /\ UNCHANGED <<input, at, window, cursor, slots, read>>
    BY <1>1, <1>2, <1>5 DEF ReadOne, Ends, Read
  <2>2. at + read \in 0 .. length - 1 /\ outcome[at + read] # "infeasible"
    BY <1>1, <1>2, <1>5 DEF Read
  <2>3. Answers(result)'
    <3> DEFINE stop == at + read
    <3>1. result'.at = stop /\ result'.how = Verdict(outcome[stop])
      BY <2>1 DEF Ended
    <3>2. length' = length /\ outcome' = outcome
      BY <2>1 DEF input
    <3>3. /\ stop \in 0 .. length - 1 /\ outcome[stop] # "infeasible"
          /\ \A i \in 0 .. stop - 1 : outcome[i] = "infeasible"
      BY <1>1, <1>3, <2>2
    <3> HIDE DEF stop
    <3> QED
      BY <3>1, <3>2, <3>3 DEF Answers
  <2>4. TypeOK'
    BY <1>1, <2>1 DEF SearchInv, TypeOK, input
  <2> QED
    BY <2>1, <2>3, <2>4 DEF SearchInv, SearchesInOrder
<1> QED
  BY <1>4, <1>5

LEMMA NextWindowStep == SearchInv /\ NextWindow => SearchInv'
<1> SUFFICES ASSUME SearchInv, NextWindow PROVE SearchInv'
  OBVIOUS
<1>1. /\ pc = "scan" /\ read \in Nat /\ read <= Count /\ read >= Count
      /\ at \in 0 .. length /\ window \in 0 .. length /\ at < window /\ length \in Nat
  BY DEF NextWindow, AllRead, SearchInv, TypeOK
<1>2. /\ pc' = "search" /\ at' = window /\ UNCHANGED <<input, window, cursor, slots, read, result>>
  BY DEF NextWindow
<1>3. read = window - at /\ \A j \in 0 .. read - 1 : outcome[at + j] = "infeasible"
  BY <1>1 DEF SearchInv, Count
<1>4. ASSUME NEW i \in 0 .. window - 1 PROVE outcome[i] = "infeasible"
  <2>1. CASE i < at
    BY <1>1, <2>1 DEF SearchInv
  <2>2. CASE i >= at
    <3>1. i - at \in 0 .. read - 1 /\ at + (i - at) = i
      BY <1>1, <1>3, <2>2
    <3> QED
      BY <1>3, <3>1
  <2> QED
    BY <1>1, <2>1, <2>2
<1>5. TypeOK'
  BY <1>2 DEF SearchInv, TypeOK, input
<1> QED
  BY <1>2, <1>4, <1>5 DEF SearchInv, SearchesInOrder, input

LEMMA StutterStep == SearchInv /\ UNCHANGED searchVars => SearchInv'
<1> SUFFICES ASSUME SearchInv, UNCHANGED searchVars PROVE SearchInv'
  OBVIOUS
<1>1. Count' = Count /\ (\A w : BlockEnd(w)' = BlockEnd(w)) /\ Workers(Count)' = Workers(Count)
  BY DEF searchVars, input, Count, BlockEnd, Workers
<1>2. TypeOK'
  BY <1>1 DEF searchVars, input, SearchInv, TypeOK
<1>3. SearchesInOrder'
  BY DEF searchVars, input, SearchInv, SearchesInOrder, Answers, Ended
<1> QED
  BY <1>1, <1>2, <1>3 DEF searchVars, input, SearchInv, Begin

-----------------------------------------------------------------------------
(* The theorems.                                                            *)

\* The invariant of the search: every candidate before the window is
\* infeasible, every worker has written the outcomes of its block up to its
\* cursor, and what the scan reads is what the checks gave
\* (check_candidates_ordered, check_paths_ordered and their callers).
THEOREM SearchInvariant == SearchSpec => []SearchInv
<1>1. SearchInv /\ [SearchNext]_searchVars => SearchInv'
  BY ProbeStep, ExhaustedStep, OpenWindowStep, CheckStep, JoinedStep, ReadStep,
     NextWindowStep, StutterStep DEF SearchNext
<1> QED
  BY InitHolds, <1>1, PTL DEF SearchSpec

\* Types: no window reaches past the candidates and no worker past its window.
THEOREM SearchTypes == SearchSpec => []TypeOK
<1>1. SearchInv => TypeOK
  BY DEF SearchInv
<1> QED
  BY SearchInvariant, <1>1, PTL

\* For any candidates, workers and window sizes the search ends with the first
\* candidate that is feasible or throws, as if they were checked one by one.
THEOREM AnswersInOrder == SearchSpec => []SearchesInOrder
<1>1. SearchInv => SearchesInOrder
  BY DEF SearchInv
<1> QED
  BY SearchInvariant, <1>1, PTL

\* The blocks of any window share all of its candidates, each in one.
THEOREM BlocksShareAll == SearchSpec => []BlocksPartition
<1>1. SearchInv => BlocksPartition
  <2> SUFFICES ASSUME SearchInv, pc = "blocks"
               PROVE  /\ \A j \in 0 .. Count - 1 :
                           \E w \in DOMAIN cursor : j \in Block(Count, Workers(Count), w)
                      /\ \A v, w \in DOMAIN cursor : v # w =>
                           Block(Count, Workers(Count), v) \cap Block(Count, Workers(Count), w) = {}
    BY DEF BlocksPartition
  <2> DEFINE k == Workers(Count)
  <2>1. Count \in Nat \ {0} /\ DOMAIN cursor = 0 .. k - 1
    BY DEF SearchInv, TypeOK, Count
  <2>2. k \in Nat \ {0}
    BY <2>1, SomeWorkers DEF SearchInv, TypeOK
  <2> HIDE DEF k
  <2>3. ASSUME NEW v \in 0 .. k - 1, NEW w \in 0 .. k - 1, v < w
        PROVE  Block(Count, k, v) \cap Block(Count, k, w) = {}
    <3>1. End(Count, k, v) <= Begin(Count, k, w)
      BY <2>1, <2>2, <2>3, BlocksApart
    <3>2. /\ Begin(Count, k, v) \in Nat /\ End(Count, k, v) \in Nat
          /\ Begin(Count, k, w) \in Nat /\ End(Count, k, w) \in Nat
      BY <2>1, <2>2, BlockBounds
    <3> QED
      BY <3>1, <3>2 DEF Block
  <2>4. ASSUME NEW v \in 0 .. k - 1, NEW w \in 0 .. k - 1, v # w
        PROVE  Block(Count, k, v) \cap Block(Count, k, w) = {}
    <3>1. v < w \/ w < v
      BY <2>2, <2>4
    <3> QED
      BY <2>3, <3>1
  <2>5. \A j \in 0 .. Count - 1 : \E w \in 0 .. k - 1 : j \in Block(Count, k, w)
    BY <2>1, <2>2, BlocksCover
  <2> QED
    BY <2>1, <2>4, <2>5 DEF k
<1> QED
  BY SearchInvariant, <1>1, PTL

\* No window is opened, and so no worker started, once an earlier candidate
\* was feasible or threw.
THEOREM NoLateFanOut == SearchSpec => []NoFanOutAfterDecision
<1>1. SearchInv => NoFanOutAfterDecision
  BY DEF SearchInv, NoFanOutAfterDecision
<1> QED
  BY SearchInvariant, <1>1, PTL

=============================================================================
