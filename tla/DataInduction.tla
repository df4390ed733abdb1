---------------------------- MODULE DataInduction ----------------------------
(***************************************************************************)
(* Induction over numbers and folds over sequences, in the form the other  *)
(* proofs use it: about sets and functions, which the provers can          *)
(* instantiate, and not about operators.                                   *)
(***************************************************************************)
EXTENDS Integers, Sequences, FiniteSetsExt, FiniteSetTheorems, SequenceTheorems, TLAPS

\* A set of numbers has a smallest one: the intervals from 0 to its members have a
\* minimal one in the order of finite sets.
LEMMA MinIsMember ==
  ASSUME NEW S \in SUBSET Nat, S # {}
  PROVE  Min(S) \in S /\ \A y \in S : Min(S) <= y
<1> DEFINE upTo == {0..x : x \in S}
<1>1. upTo # {} /\ upTo \subseteq FiniteSubsetsOf(Nat)
  <2>1. ASSUME NEW x \in S PROVE 0..x \in FiniteSubsetsOf(Nat)
    <3>1. IsFiniteSet(0..x) /\ 0..x \in SUBSET Nat
      BY FS_Interval
    <3> QED
      BY <3>1 DEF FiniteSubsetsOf
  <2> QED
    BY <2>1
<1>2. PICK T \in upTo : \A U \in upTo : <<U, T>> \notin StrictSubsetOrdering(Nat)
  BY <1>1, FS_StrictSubsetOrderingWellFounded, WFMin
<1>3. PICK x \in S : T = 0..x
  BY <1>2
<1>4. ASSUME NEW y \in S, y < x PROVE FALSE
  <2>1. 0..y \subseteq 0..x /\ 0..y # 0..x
    BY <1>4
  <2>2. 0..y \in SUBSET Nat /\ 0..x \in SUBSET Nat
    OBVIOUS
  <2>3. <<0..y, 0..x>> \in StrictSubsetOrdering(Nat)
    BY <2>1, <2>2 DEF StrictSubsetOrdering
  <2> QED
    BY <1>2, <1>3, <2>3
<1>5. \A y \in S : x <= y
  BY <1>4
<1> QED
  BY <1>5 DEF Min

\* A bounded set of numbers has a largest one.
LEMMA MaxIsMember ==
  ASSUME NEW n \in Nat, NEW S \in SUBSET (1..n), S # {}
  PROVE  Max(S) \in S /\ \A y \in S : y <= Max(S)
<1> DEFINE D == {n - x : x \in S}
<1>1. D \in SUBSET Nat /\ D # {}
  <2>1. \A x \in S : n - x \in Nat
    OBVIOUS
  <2> QED
    BY <2>1
<1>2. PICK x \in S : Min(D) = n - x
  BY <1>1, MinIsMember
<1>3. \A y \in S : n - x <= n - y
  BY <1>1, <1>2, MinIsMember
<1>4. \A y \in S : x >= y
  BY <1>3
<1>5. \E z \in S : \A y \in S : z >= y
  BY <1>4
<1>6. Max(S) \in S /\ \A y \in S : Max(S) >= y
  BY <1>5 DEF Max
<1> QED
  BY <1>6

\* Induction, for a set of numbers.
LEMMA NatIsInductive ==
  ASSUME NEW S, 0 \in S, \A k \in Nat : k \in S => k + 1 \in S
  PROVE  \A k \in Nat : k \in S
<1> DEFINE T == Nat \ S
<1> SUFFICES ASSUME T # {} PROVE FALSE
  OBVIOUS
<1>1. Min(T) \in T /\ \A y \in T : Min(T) <= y
  BY MinIsMember
<1>2. Min(T) - 1 \in Nat /\ Min(T) - 1 \notin T
  BY <1>1
<1> QED
  BY <1>1, <1>2

\* The tables that a fold over a sequence of length n is computed by: what the fold
\* comes to on each set of positions, G being its step on values in V.
FoldTables(n, V, base, G) ==
  {g \in [SUBSET (1..n) -> V] : \A s \in SUBSET (1..n) :
     g[s] = IF s = {} THEN base ELSE G[Max(s)][g[s \ {Max(s)}]]}

\* There is one.
LEMMA FoldTableExists ==
  ASSUME NEW n \in Nat, NEW V, NEW base \in V, NEW G \in [1..n -> [V -> V]]
  PROVE  FoldTables(n, V, base, G) # {}
<1> DEFINE IsTable(k, g) ==
             \A s \in SUBSET (1..k) :
               g[s] = IF s = {} THEN base ELSE G[Max(s)][g[s \ {Max(s)}]]
           HasTable(k) == \E g \in [SUBSET (1..k) -> V] : IsTable(k, g)
           P == {k \in Nat : k <= n => HasTable(k)}
<1>1. HasTable(0)
  <2> DEFINE g == [s \in SUBSET (1..0) |-> base]
  <2>1. g \in [SUBSET (1..0) -> V] /\ IsTable(0, g)
    <3>1. \A s \in SUBSET (1..0) : s = {}
      OBVIOUS
    <3> QED
      BY <3>1
  <2> QED
    BY <2>1
<1>2. ASSUME NEW k \in Nat, k + 1 <= n, HasTable(k) PROVE HasTable(k + 1)
  <2>1. PICK h \in [SUBSET (1..k) -> V] : IsTable(k, h)
    BY <1>2
  <2> DEFINE g == [s \in SUBSET (1..(k + 1)) |->
                     IF k + 1 \in s THEN G[k + 1][h[s \ {k + 1}]] ELSE h[s]]
  <2>2. ASSUME NEW s \in SUBSET (1..(k + 1)), k + 1 \notin s PROVE s \in SUBSET (1..k)
    BY <2>2
  <2>3. ASSUME NEW s \in SUBSET (1..(k + 1)) PROVE s \ {k + 1} \in SUBSET (1..k)
    OBVIOUS
  <2>4. g \in [SUBSET (1..(k + 1)) -> V]
    <3>1. G[k + 1] \in [V -> V]
      BY <1>2
    <3> QED
      BY <2>2, <2>3, <3>1
  <2>5. ASSUME NEW s \in SUBSET (1..(k + 1))
        PROVE  g[s] = IF s = {} THEN base ELSE G[Max(s)][g[s \ {Max(s)}]]
    <3>1. CASE k + 1 \in s
      <4>1. Max(s) = k + 1
        <5>1. Max(s) \in s /\ \A y \in s : y <= Max(s)
          <6>1. k + 1 \in Nat /\ s # {}
            BY <3>1
          <6> QED
            BY <6>1, MaxIsMember
        <5>2. Max(s) \in 1..(k + 1) /\ k + 1 <= Max(s)
          BY <3>1, <5>1
        <5> HIDE DEF g
        <5> QED
          BY <5>2
      <4>2. g[s \ {k + 1}] = h[s \ {k + 1}]
        BY <2>3
      <4> QED
        BY <3>1, <4>1, <4>2
    <3>2. CASE k + 1 \notin s
      <4>1. s \in SUBSET (1..k) /\ g[s] = h[s]
        BY <2>2, <3>2
      <4>2. CASE s # {}
        <5>1. Max(s) \in s
          BY <4>1, <4>2, MaxIsMember
        <5>2. s \ {Max(s)} \in SUBSET (1..(k + 1)) /\ k + 1 \notin s \ {Max(s)}
          BY <3>2
        <5>3. g[s \ {Max(s)}] = h[s \ {Max(s)}]
          BY <5>2
        <5> HIDE DEF g
        <5> QED
          BY <2>1, <4>1, <4>2, <5>3
      <4>3. CASE s = {}
        BY <2>1, <4>1, <4>3
      <4> QED
        BY <4>2, <4>3
    <3> QED
      BY <3>1, <3>2
  <2> HIDE DEF g
  <2> QED
    BY <2>4, <2>5
<1>3. n \in P
  <2> HIDE DEF HasTable
  <2>1. 0 \in P
    BY <1>1
  <2>2. \A k \in Nat : k \in P => k + 1 \in P
    BY <1>2
  <2> HIDE DEF P
  <2> QED
    BY <2>1, <2>2, NatIsInductive
<1>4. HasTable(n)
  <2> HIDE DEF HasTable
  <2> QED
    BY <1>3
<1> QED
  BY <1>4 DEF FoldTables

\* The sets of positions a fold passes: the ends of 1..k.
LEMMA IntervalStep ==
  ASSUME NEW k \in Nat
  PROVE  /\ 1..(k + 1) # {} /\ Max(1..(k + 1)) = k + 1
         /\ (1..(k + 1)) \ {k + 1} = 1..k
<1>1. Max(1..(k + 1)) \in 1..(k + 1) /\ \A y \in 1..(k + 1) : y <= Max(1..(k + 1))
  <2>1. 1..(k + 1) \in SUBSET (1..(k + 1)) /\ k + 1 \in Nat /\ 1..(k + 1) # {}
    OBVIOUS
  <2> QED
    BY <2>1, MaxIsMember
<1>2. Max(1..(k + 1)) = k + 1
  BY <1>1
<1> QED
  BY <1>2

\* What a loop of n rounds passes, G being its round on values in V.
LEMMA RoundsExist ==
  ASSUME NEW n \in Nat, NEW V, NEW base \in V, NEW G \in [V -> V]
  PROVE  \E g \in [0..n -> V] : \A k \in 0..n : g[k] = IF k = 0 THEN base ELSE G[g[k - 1]]
<1> DEFINE H == [i \in 1..n |-> G]
<1>1. PICK h \in FoldTables(n, V, base, H) : TRUE
  <2>1. H \in [1..n -> [V -> V]]
    OBVIOUS
  <2> HIDE DEF H
  <2> QED
    BY <2>1, FoldTableExists
<1>2. /\ h \in [SUBSET (1..n) -> V]
      /\ \A s \in SUBSET (1..n) : h[s] = IF s = {} THEN base ELSE H[Max(s)][h[s \ {Max(s)}]]
  BY <1>1 DEF FoldTables
<1> DEFINE g == [k \in 0..n |-> h[1..k]]
<1>3. ASSUME NEW k \in 0..n PROVE 1..k \in SUBSET (1..n)
  OBVIOUS
<1>4. g \in [0..n -> V]
  BY <1>2, <1>3
<1>5. g[0] = base
  <2>1. 1..0 = {} /\ 0 \in 0..n
    OBVIOUS
  <2> QED
    BY <1>2, <2>1
<1>6. ASSUME NEW k \in 0..n, k # 0 PROVE g[k] = G[g[k - 1]]
  <2>1. k - 1 \in Nat /\ k - 1 \in 0..n /\ (k - 1) + 1 = k /\ k \in 1..n
    BY <1>6
  <2>2. 1..k # {} /\ Max(1..k) = k /\ (1..k) \ {k} = 1..(k - 1)
    BY <2>1, IntervalStep
  <2>3. h[1..k] = H[k][h[1..(k - 1)]]
    BY <1>2, <1>3, <2>2
  <2> QED
    BY <2>1, <2>3
<1> HIDE DEF g
<1>7. \A k \in 0..n : g[k] = IF k = 0 THEN base ELSE G[g[k - 1]]
  BY <1>5, <1>6
<1> QED
  BY <1>4, <1>7
==============================================================================
