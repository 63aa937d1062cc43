----------------------------- MODULE CommonLemmas -----------------------------
(***************************************************************************)
(* Lemmas that several proof modules cite: totals, which need no induction   *)
(* because a total is a cardinality; and induction on the naturals, over a   *)
(* set instead of a formula, with what it gives for functions that are       *)
(* defined from one number to the next.                                      *)
(***************************************************************************)
EXTENDS Totals, FiniteSetTheorems, SequenceTheorems, TLAPS

-----------------------------------------------------------------------------
(* Totals.                                                                  *)

\* The units of one element.
LEMMA UnitsOfOne ==
  ASSUME NEW x, NEW n \in Nat
  PROVE  IsFiniteSet({x} \X (1 .. n)) /\ Cardinality({x} \X (1 .. n)) = n
<1>1. IsFiniteSet({x}) /\ Cardinality({x}) = 1
  BY FS_Singleton
<1>2. IsFiniteSet(1 .. n) /\ Cardinality(1 .. n) = n
  BY FS_Interval
<1>3. /\ IsFiniteSet({x} \X (1 .. n))
      /\ Cardinality({x} \X (1 .. n)) = Cardinality({x}) * Cardinality(1 .. n)
  BY <1>1, <1>2, FS_Product
<1>4. QED
  BY <1>1, <1>2, <1>3

\* A finite set has finitely many units.
LEMMA UnitsFinite ==
  ASSUME NEW S, IsFiniteSet(S), NEW a, \A x \in S : a[x] \in Nat
  PROVE  IsFiniteSet(Units(S, a))
<1> DEFINE T == {{x} \X (1 .. a[x]) : x \in S}
           f == [x \in S |-> {x} \X (1 .. a[x])]
<1>1. f \in Surjection(S, T)
  BY DEF Surjection
<1>2. IsFiniteSet(T)
  BY <1>1, FS_Surjection
<1>3. ASSUME NEW x \in S PROVE IsFiniteSet({x} \X (1 .. a[x]))
  BY UnitsOfOne
<1>4. \A U \in T : IsFiniteSet(U)
  BY <1>3
<1>5. QED
  BY <1>2, <1>4, FS_UNION DEF Units

\* The total of nothing, and that a total is a natural number.
LEMMA TotalOfEmpty == \A a : TotalOf({}, a) = 0
<1>1. \A a : Units({}, a) = {}
  BY DEF Units
<1>2. QED
  BY <1>1, FS_EmptySet DEF TotalOf

LEMMA TotalIsNat ==
  ASSUME NEW S, IsFiniteSet(S), NEW a, \A x \in S : a[x] \in Nat
  PROVE  TotalOf(S, a) \in Nat
BY UnitsFinite, FS_CardinalityType DEF TotalOf

\* Only the amounts of the members count.
LEMMA TotalOfEqual ==
  ASSUME NEW S, NEW a, NEW b, \A x \in S : a[x] = b[x]
  PROVE  TotalOf(S, a) = TotalOf(S, b)
<1>1. Units(S, a) = Units(S, b)
  BY DEF Units
<1>2. QED
  BY <1>1 DEF TotalOf

\* One more member adds its amount.
LEMMA TotalOfAdded ==
  ASSUME NEW S, IsFiniteSet(S), NEW x, x \notin S, NEW a, \A y \in S \cup {x} : a[y] \in Nat
  PROVE  TotalOf(S \cup {x}, a) = TotalOf(S, a) + a[x]
<1> DEFINE own == {x} \X (1 .. a[x])
<1>1. Units(S \cup {x}, a) = Units(S, a) \cup own
  BY DEF Units
<1>2. Units(S, a) \cap own = {}
  BY DEF Units
<1>3. IsFiniteSet(Units(S, a)) /\ IsFiniteSet(own) /\ Cardinality(own) = a[x]
  BY UnitsFinite, UnitsOfOne
<1>4. Cardinality(Units(S, a)) \in Nat /\ a[x] \in Nat
  BY <1>3, FS_CardinalityType
<1>5. Cardinality(Units(S, a) \cup own)
        = Cardinality(Units(S, a)) + Cardinality(own) - Cardinality(Units(S, a) \cap own)
  BY <1>3, FS_Union
<1>6. Cardinality(Units(S, a) \cap own) = 0
  BY <1>2, FS_EmptySet
<1>7. Cardinality(Units(S \cup {x}, a)) = Cardinality(Units(S, a)) + a[x]
  <2>1. Cardinality(Units(S \cup {x}, a)) = Cardinality(Units(S, a)) + a[x] - 0
    BY <1>1, <1>3, <1>5, <1>6, Zenon
  <2>2. QED
    BY <1>4, <2>1
<1>8. QED
  BY <1>7 DEF TotalOf

\* One member less takes its amount away.
LEMMA TotalOfRemoved ==
  ASSUME NEW S, IsFiniteSet(S), NEW x \in S, NEW a, \A y \in S : a[y] \in Nat
  PROVE  TotalOf(S, a) = TotalOf(S \ {x}, a) + a[x]
<1>1. IsFiniteSet(S \ {x}) /\ x \notin S \ {x} /\ (S \ {x}) \cup {x} = S
  BY FS_RemoveElement
<1>2. TotalOf((S \ {x}) \cup {x}, a) = TotalOf(S \ {x}, a) + a[x]
  BY <1>1, TotalOfAdded
<1>3. QED
  BY <1>1, <1>2

\* One member whose amount changes.
LEMMA TotalOfChanged ==
  ASSUME NEW S, IsFiniteSet(S), NEW x \in S, NEW a, NEW b,
         \A y \in S : a[y] \in Nat /\ b[y] \in Nat,
         \A y \in S : y # x => a[y] = b[y]
  PROVE  TotalOf(S, b) = TotalOf(S, a) - a[x] + b[x]
<1>1. TotalOf(S, a) = TotalOf(S \ {x}, a) + a[x] /\ TotalOf(S, b) = TotalOf(S \ {x}, b) + b[x]
  BY TotalOfRemoved
<1>2. TotalOf(S \ {x}, a) = TotalOf(S \ {x}, b)
  BY TotalOfEqual
<1>3. TotalOf(S \ {x}, a) \in Nat
  BY FS_RemoveElement, TotalIsNat
<1>4. a[x] \in Nat /\ b[x] \in Nat
  OBVIOUS
<1>5. QED
  BY <1>1, <1>2, <1>3, <1>4

-----------------------------------------------------------------------------
(* Induction.                                                               *)

PairsBelow == {ss \in Nat \X Nat : ss[1] < ss[2]}

\* A set of natural numbers has a least member.
LEMMA LeastNat ==
  ASSUME NEW T \in SUBSET Nat, T # {}
  PROVE  \E x \in T : \A y \in T : x <= y
<1>1. IsWellFoundedOn(PairsBelow, Nat)
  BY NatLessThanWellFounded DEF OpToRel, PairsBelow
<1>2. PICK x \in T : \A y \in T : ~ (<<y, x>> \in PairsBelow)
  BY <1>1, WFMin
<1>3. ASSUME NEW y \in T, y < x PROVE FALSE
  <2>1. <<y, x>> \in PairsBelow
    BY <1>3 DEF PairsBelow
  <2>2. QED
    BY <2>1, <1>2
<1>4. QED
  BY <1>3

\* A set that has the first number and, with a number, the next one, has all.
LEMMA CountingUp ==
  ASSUME NEW n \in Nat, NEW T, 0 \in T, \A k \in 0 .. n - 1 : k \in T => k + 1 \in T
  PROVE  0 .. n \subseteq T
<1> DEFINE M == {k \in 0 .. n : k \notin T}
<1>1. SUFFICES ASSUME M # {} PROVE FALSE
  OBVIOUS
<1>2. PICK m \in M : \A k \in M : m <= k
  <2>1. M \in SUBSET Nat
    OBVIOUS
  <2> HIDE DEF M
  <2>2. QED
    BY <1>1, <2>1, LeastNat
<1>3. m # 0 /\ m - 1 \in 0 .. n - 1 /\ m - 1 \notin M
  BY <1>2
<1>4. m - 1 \in T
  BY <1>3
<1>5. m - 1 + 1 = m
  BY <1>2
<1>6. QED
  BY <1>3, <1>4, <1>5, <1>2

\* What is defined from the number before it is defined.
Steps(n, X, start, step, f) ==
  /\ f \in [0 .. n -> X] /\ f[0] = start
  /\ \A k \in 1 .. n : f[k] = step[<<k, f[k - 1]>>]

LEMMA StepsExist ==
  ASSUME NEW n \in Nat, NEW X, NEW start \in X, NEW step \in [(1 .. n) \X X -> X]
  PROVE  \E f : Steps(n, X, start, step, f)
<1> DEFINE T == {m \in 0 .. n : \E f : Steps(m, X, start, step, f)}
<1>1. 0 \in T
  <2>1. Steps(0, X, start, step, [k \in 0 .. 0 |-> start])
    BY DEF Steps
  <2>2. QED
    BY <2>1
<1>2. ASSUME NEW m \in 0 .. n - 1, m \in T PROVE m + 1 \in T
  <2>1. PICK f : Steps(m, X, start, step, f)
    BY <1>2
  <2> DEFINE g == [k \in 0 .. m + 1 |-> IF k = m + 1 THEN step[<<m + 1, f[m]>>] ELSE f[k]]
  <2>2. f[m] \in X /\ <<m + 1, f[m]>> \in (1 .. n) \X X
    BY <2>1 DEF Steps
  <2>3. g \in [0 .. m + 1 -> X]
    BY <2>1, <2>2 DEF Steps
  <2>4. g[0] = start
    BY <2>1 DEF Steps
  <2>5. ASSUME NEW k \in 1 .. m + 1 PROVE g[k] = step[<<k, g[k - 1]>>]
    <3>1. k - 1 \in 0 .. m + 1 /\ k \in 0 .. m + 1 /\ k - 1 # m + 1
      OBVIOUS
    <3>2. CASE k = m + 1
      BY <3>1, <3>2
    <3>3. CASE k # m + 1
      <4>1. k \in 1 .. m
        BY <3>3
      <4>2. f[k] = step[<<k, f[k - 1]>>]
        BY <2>1, <4>1 DEF Steps
      <4>3. QED
        BY <4>2, <3>1, <3>3
    <3>4. QED
      BY <3>2, <3>3
  <2>6. Steps(m + 1, X, start, step, g)
    BY <2>3, <2>4, <2>5 DEF Steps
  <2>7. QED
    BY <2>6
<1>3. n \in T
  <2> HIDE DEF T
  <2>1. 0 .. n \subseteq T
    BY <1>1, <1>2, CountingUp
  <2>2. QED
    BY <2>1
<1>4. QED
  BY <1>3

\* As many as the last number counted.
LEMMA CountTo ==
  ASSUME NEW k \in Nat \ {0}
  PROVE  /\ IsFiniteSet(1 .. k) /\ Cardinality(1 .. k) = k
         /\ IsFiniteSet(0 .. k - 1) /\ Cardinality(0 .. k - 1) = k
<1>1. IsFiniteSet(1 .. k) /\ Cardinality(1 .. k) = IF 1 > k THEN 0 ELSE k - 1 + 1
  BY FS_Interval
<1>2. IsFiniteSet(0 .. k - 1) /\ Cardinality(0 .. k - 1) = IF 0 > k - 1 THEN 0 ELSE k - 1 - 0 + 1
  BY FS_Interval
<1>3. QED
  BY <1>1, <1>2
=============================================================================
