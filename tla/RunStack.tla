------------------------------ MODULE RunStack ------------------------------
(***************************************************************************)
(* The stack of pending runs of the Timsort port that the rankers use      *)
(* (src/virne/solver/rank/python310_timsort.h): runs are found from left   *)
(* to right and pushed, merge_collapse merges neighbours until the lengths *)
(* decrease fast enough, merge_force_collapse merges what is left.  Only   *)
(* where the runs lie is kept here; TimSort adds the entries.              *)
(***************************************************************************)
EXTENDS Integers, Sequences

CONSTANTS Sizes,               \* sizes of the arrays to sort
          MaximumPendingRuns   \* maximum_pending_runs, 85 in the code

ASSUME RunStackAssumption ==
    /\ Sizes \subseteq {n \in Nat : n >= 2}
    /\ MaximumPendingRuns \in Nat \ {0}

VARIABLES phase,       \* where sort() is
          pending,     \* pending_[0 .. pending_count_ - 1]
          first,       \* where the next run starts
          remaining    \* entries that belong to no run yet

stackVars == <<phase, pending, first, remaining>>

Run == [base : Nat, length : Nat \ {0}]
Phases == {"count", "collapse", "force", "done", "overflow"}

StackInit ==
    /\ phase = "count"
    /\ pending = <<>>
    /\ first = 0
    /\ remaining \in Sizes

\* push_run: the run of the given length that starts at `first`.
PushRun(length) ==
    /\ phase = "count"
    /\ IF Len(pending) = MaximumPendingRuns
       THEN phase' = "overflow" /\ UNCHANGED <<pending, first, remaining>>
       ELSE /\ phase' = "collapse"
            /\ pending' = Append(pending, [base |-> first, length |-> length])
            /\ first' = first + length
            /\ remaining' = remaining - length

\* Faulty: the second look, one run further down, is left out (the Timsort
\* that was in CPython before that look was added).
FaultyTooShort(p) ==
    LET i == Len(p) - 1
    IN  i > 1 /\ p[i - 1].length <= p[i].length + p[i + 1].length

\* The run before the last two, or the one before that, is too short for
\* the two runs that follow it.
TooShort(p) ==
    LET i == Len(p) - 1
    IN  \/ i > 1 /\ p[i - 1].length <= p[i].length + p[i + 1].length
        \/ i > 2 /\ p[i - 2].length <= p[i - 1].length + p[i].length

MustCollapse(p) ==
    /\ Len(p) > 1
    /\ TooShort(p) \/ p[Len(p) - 1].length <= p[Len(p)].length

\* The shorter neighbour of the last run but one is merged with it.
MergeIndex(p) ==
    LET i == Len(p) - 1
    IN  IF i > 1 /\ p[i - 1].length < p[i + 1].length THEN i - 1 ELSE i

CollapseIndex(p) == IF TooShort(p) THEN MergeIndex(p) ELSE Len(p) - 1

\* What merge_at leaves on the stack: runs i and i + 1 are one.
Merged(p, i) ==
    [k \in 1 .. Len(p) - 1 |->
        IF k < i THEN p[k]
        ELSE IF k = i THEN [base |-> p[i].base,
                            length |-> p[i].length + p[i + 1].length]
        ELSE p[k + 1]]

MergeAt(i) ==
    /\ pending' = Merged(pending, i)
    /\ UNCHANGED <<phase, first, remaining>>

Collapse ==
    /\ phase = "collapse"
    /\ MustCollapse(pending)
    /\ MergeAt(CollapseIndex(pending))

\* merge_collapse returns; the loop of sort() goes on while entries remain.
Collapsed ==
    /\ phase = "collapse"
    /\ ~MustCollapse(pending)
    /\ phase' = IF remaining = 0 THEN "force" ELSE "count"
    /\ UNCHANGED <<pending, first, remaining>>

\* Faulty: the last two runs stay apart.
FaultyForceCollapse ==
    /\ phase = "force"
    /\ Len(pending) > 2
    /\ MergeAt(MergeIndex(pending))

ForceCollapse ==
    /\ phase = "force"
    /\ Len(pending) > 1
    /\ MergeAt(MergeIndex(pending))

StackDone ==
    /\ phase = "force"
    /\ Len(pending) <= 1
    /\ phase' = "done"
    /\ UNCHANGED <<pending, first, remaining>>

StackNext ==
    \/ \E length \in 1 .. remaining : PushRun(length)
    \/ Collapse
    \/ Collapsed
    \/ ForceCollapse
    \/ StackDone

StackSpec == StackInit /\ [][StackNext]_stackVars

-----------------------------------------------------------------------------
\* Each run is longer than the two that follow it together.
Outweighs(p, i) == p[i].length > p[i + 1].length + p[i + 2].length

\* Whenever merge_collapse has returned, every pending run is longer than
\* the next two together and longer than the next, so that the lengths grow
\* at least like the Fibonacci numbers towards the bottom of the stack: this
\* is what makes the fixed pending_ array (85 runs) large enough.
PendingInvariant ==
    phase = "count" =>
        /\ \A i \in 1 .. Len(pending) - 2 : Outweighs(pending, i)
        /\ \A i \in 1 .. Len(pending) - 1 : pending[i].length > pending[i + 1].length

\* The pending runs lie side by side, from the first entry of the array to
\* where the next run starts: merge_at always merges neighbours.
RunsAreContiguous ==
    /\ \A i \in 1 .. Len(pending) - 1 :
          pending[i + 1].base = pending[i].base + pending[i].length
    /\ IF pending = <<>> THEN first = 0
       ELSE /\ pending[1].base = 0
            /\ pending[Len(pending)].base + pending[Len(pending)].length = first
=============================================================================
