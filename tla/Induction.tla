------------------------------ MODULE Induction ------------------------------
(***************************************************************************)
(* Induction over the natural numbers without an operator parameter, and   *)
(* what it takes to reason about the folds of SequencesExt: the recursive  *)
(* function inside FoldLeft exists.                                        *)
(***************************************************************************)
EXTENDS SequencesExt, Integers, WellFoundedInduction, TLAPS

\* A set of natural numbers that is not empty has a least element.
THEOREM LeastNat ==
    ASSUME NEW T \in SUBSET Nat, T # {}
    PROVE  \E m \in T : \A k \in T : m <= k
<1> DEFINE R == {p \in Nat \X Nat : p[1] < p[2]}
<1>1. OpToRel(<, Nat) = R
  BY DEF OpToRel
<1>2. IsWellFoundedOn(R, Nat)
  BY <1>1, NatLessThanWellFounded
<1>3. \E m \in T : \A k \in T : <<k, m>> \notin R
  <2> HIDE DEF R
  <2> QED BY <1>2, WFMin
<1>4. PICK m \in T : \A k \in T : <<k, m>> \notin R
  BY <1>3
<1>5. ASSUME NEW k \in T PROVE m <= k
  <2>1. m \in Nat /\ k \in Nat
    OBVIOUS
  <2>2. <<k, m>> \in R <=> k < m
    BY <2>1
  <2> QED BY <2>1, <2>2, <1>4
<1> QED BY <1>5

\* A set that contains 0 and with each number the next contains them all.
THEOREM SetInduction ==
    ASSUME NEW T \in SUBSET Nat, 0 \in T, \A n \in T : n + 1 \in T
    PROVE  T = Nat
<1> SUFFICES ASSUME T # Nat PROVE FALSE
  OBVIOUS
<1>1. PICK m \in Nat \ T : \A k \in Nat \ T : m <= k
  BY LeastNat
<1>2. m # 0 /\ m - 1 \in Nat
  BY <1>1
<1>3. m - 1 \in T
  BY <1>1, <1>2
<1> QED BY <1>1, <1>3

\* The same for the numbers up to n.
THEOREM BoundedInduction ==
    ASSUME NEW n \in Nat, NEW T, 0 \in T, \A k \in 1 .. n : k - 1 \in T => k \in T
    PROVE  \A k \in 0 .. n : k \in T
<1> DEFINE U == {k \in Nat : k <= n => k \in T}
<1>1. 0 \in U
  OBVIOUS
<1>2. ASSUME NEW k \in U PROVE k + 1 \in U
  <2>1. CASE k + 1 <= n
    <3>1. k \in T /\ k + 1 \in 1 .. n /\ (k + 1) - 1 = k
      BY <2>1
    <3> QED BY <3>1
  <2>2. CASE k + 1 > n
    BY <2>2
  <2> QED BY <2>1, <2>2
<1>3. U = Nat
  <2> HIDE DEF U
  <2>1. U \in SUBSET Nat
    BY DEF U
  <2> QED BY <1>1, <1>2, <2>1, SetInduction
<1> QED BY <1>3

\* The largest element of a set of numbers up to n that contains n.
LEMMA MaxUpTo ==
    ASSUME NEW n \in Nat, NEW s \in SUBSET (1 .. n), n \in s
    PROVE  Max(s) = n
<1>1. n \in s /\ \A k \in s : k \in Int /\ n >= k
  OBVIOUS
<1>2. \A x \in s : (\A y \in s : x >= y) => x = n
  BY <1>1
<1> QED
  BY <1>1, <1>2 DEF Max

\* A set of numbers up to n that is not empty contains its largest element.
LEMMA MaxIsIn ==
    ASSUME NEW n \in Nat, NEW s \in SUBSET (1 .. n), s # {}
    PROVE  Max(s) \in s
<1> DEFINE T == {k \in Nat : \E j \in s : k = n - j}
<1>1. T \in SUBSET Nat /\ T # {}
  <2>1. PICK j \in s : TRUE
    OBVIOUS
  <2>2. n - j \in T
    BY j \in 1 .. n
  <2> QED BY <2>2
<1>2. PICK m \in T : \A k \in T : m <= k
  <2> HIDE DEF T
  <2> QED BY <1>1, LeastNat
<1>3. PICK j \in s : m = n - j
  OBVIOUS
<1>4. ASSUME NEW k \in s PROVE j >= k
  <2>1. j \in 1 .. n /\ k \in 1 .. n
    OBVIOUS
  <2>2. n - k \in T
    BY <2>1
  <2>3. m <= n - k
    BY <2>2, <1>2
  <2> QED BY <1>3, <2>1, <2>3
<1> QED BY <1>4 DEF Max

\* FoldLeft takes the elements in the order of their places.
LEMMA Segments ==
    ASSUME NEW n \in Nat, NEW k \in 1 .. n
    PROVE  /\ 1 .. k \in SUBSET (1 .. n) /\ 1 .. k # {}
           /\ 1 .. (k - 1) \in SUBSET (1 .. n)
           /\ Max(1 .. k) = k
           /\ (1 .. k) \ {Max(1 .. k)} = 1 .. (k - 1)
<1>1. k \in Nat /\ 1 .. k \in SUBSET (1 .. k) /\ k \in 1 .. k
  OBVIOUS
<1>2. Max(1 .. k) = k
  BY <1>1, MaxUpTo
<1>3. (1 .. k) \ {k} = 1 .. (k - 1)
  <2>1. \A j : j \in (1 .. k) \ {k} <=> j \in 1 .. (k - 1)
    OBVIOUS
  <2> QED BY <2>1
<1>4. 1 .. k \in SUBSET (1 .. n) /\ 1 .. (k - 1) \in SUBSET (1 .. n)
  OBVIOUS
<1> QED BY <1>1, <1>2, <1>3, <1>4

\* g is the recursive function that FoldLeft is defined by, for a sequence of
\* length n, when step[k] is what the k-th element does to the value so far.
Folding(g, n, base, step) ==
    \A s \in SUBSET (1 .. n) :
        g[s] = IF s = {} THEN base ELSE step[Max(s)][g[s \ {Max(s)}]]

\* It exists, whatever the steps are, as long as the values stay in a set.
THEOREM FoldExists ==
    ASSUME NEW n \in Nat, NEW S, NEW base \in S,
           NEW step \in [1 .. n -> [S -> S]]
    PROVE  \E g \in [SUBSET (1 .. n) -> S] : Folding(g, n, base, step)
<1> DEFINE D(m) == SUBSET (1 .. m)
           IsFold(g, m) == \A s \in D(m) : g[s] =
              IF s = {} THEN base ELSE step[Max(s)][g[s \ {Max(s)}]]
           T == {m \in Nat : m <= n => \E g \in [D(m) -> S] : IsFold(g, m)}
<1>1. 0 \in T
  <2>1. [s \in D(0) |-> base] \in [D(0) -> S]
    OBVIOUS
  <2>2. \A s \in D(0) : s = {}
    OBVIOUS
  <2>3. IsFold([s \in D(0) |-> base], 0)
    BY <2>2
  <2> QED BY <2>1, <2>3
<1>2. ASSUME NEW m \in T PROVE m + 1 \in T
  <2> SUFFICES ASSUME m + 1 <= n
               PROVE \E g \in [D(m + 1) -> S] : IsFold(g, m + 1)
    <3> HIDE DEF D, IsFold
    <3> QED OBVIOUS
  <2>1. PICK g \in [D(m) -> S] : IsFold(g, m)
    <3>1. m \in Nat /\ m <= n
      OBVIOUS
    <3> HIDE DEF D, IsFold
    <3> QED BY <3>1
  <2> DEFINE h == [s \in D(m + 1) |-> IF m + 1 \in s
                     THEN step[m + 1][g[s \ {m + 1}]] ELSE g[s]]
  <2>2. \A s \in D(m + 1) : m + 1 \notin s => s \in D(m)
    OBVIOUS
  <2>3. \A s \in D(m + 1) : s \ {m + 1} \in D(m)
    OBVIOUS
  <2>4. m + 1 \in 1 .. n
    OBVIOUS
  <2>5. h \in [D(m + 1) -> S]
    BY <2>2, <2>3, <2>4
  <2>6. ASSUME NEW s \in D(m + 1)
        PROVE  h[s] = IF s = {} THEN base
                      ELSE step[Max(s)][h[s \ {Max(s)}]]
    <3>1. CASE m + 1 \in s
      <4>1. Max(s) = m + 1
        BY <3>1, MaxUpTo, m + 1 \in Nat
      <4>2. h[s \ {m + 1}] = g[s \ {m + 1}]
        BY <2>3
      <4> QED BY <3>1, <4>1, <4>2
    <3>2. CASE m + 1 \notin s
      <4>1. s \in D(m) /\ h[s] = g[s]
        BY <2>2, <3>2
      <4>2. s \ {Max(s)} \in D(m) /\ s \ {Max(s)} \in D(m + 1)
        BY <4>1
      <4>3. h[s \ {Max(s)}] = g[s \ {Max(s)}]
        BY <3>2, <4>2
      <4> QED BY <2>1, <4>1, <4>3
    <3> QED BY <3>1, <3>2
  <2> QED
    <3> HIDE DEF h
    <3> QED BY <2>5, <2>6
<1>3. T = Nat
  <2> HIDE DEF T
  <2>1. T \in SUBSET Nat
    BY DEF T
  <2> QED BY <1>1, <1>2, <2>1, SetInduction
<1>4. PICK g \in [D(n) -> S] : IsFold(g, n)
  <2> HIDE DEF D, IsFold
  <2> QED BY <1>3
<1> QED BY <1>4 DEF Folding

\* f is the recursive function on the numbers up to n that begins with base and
\* takes one step after the other.
Iterating(f, n, base, step) ==
    \A k \in 0 .. n : f[k] = IF k = 0 THEN base ELSE step[k][f[k - 1]]

\* It exists, too.
THEOREM IterationExists ==
    ASSUME NEW n \in Nat, NEW S, NEW base \in S,
           NEW step \in [1 .. n -> [S -> S]]
    PROVE  \E f \in [0 .. n -> S] : Iterating(f, n, base, step)
<1>1. PICK g \in [SUBSET (1 .. n) -> S] : Folding(g, n, base, step)
  BY FoldExists
<1> DEFINE f == [k \in 0 .. n |-> g[1 .. k]]
<1>2. f \in [0 .. n -> S]
  OBVIOUS
<1>3. f[0] = base
  <2>1. 1 .. 0 = {} /\ {} \in SUBSET (1 .. n)
    OBVIOUS
  <2>2. g[{}] = base
    BY <1>1, <2>1 DEF Folding
  <2> QED BY <2>1, <2>2
<1>4. ASSUME NEW k \in 1 .. n PROVE f[k] = step[k][f[k - 1]]
  <2>1. /\ 1 .. k \in SUBSET (1 .. n) /\ 1 .. k # {} /\ Max(1 .. k) = k
        /\ (1 .. k) \ {Max(1 .. k)} = 1 .. (k - 1)
    BY Segments
  <2>2. g[1 .. k] = step[k][g[1 .. (k - 1)]]
    BY <1>1, <2>1 DEF Folding
  <2>3. k \in 0 .. n /\ k - 1 \in 0 .. n
    OBVIOUS
  <2> QED BY <2>2, <2>3
<1>5. \A k \in 0 .. n : f[k] = IF k = 0 THEN base ELSE step[k][f[k - 1]]
  <2> HIDE DEF f
  <2>1. \A k \in 0 .. n : k = 0 \/ k \in 1 .. n
    OBVIOUS
  <2> QED BY <1>3, <1>4, <2>1
<1> QED
  <2> HIDE DEF f
  <2> QED BY <1>2, <1>5 DEF Iterating
=============================================================================
