----------------------------- MODULE Induction -----------------------------
(***************************************************************************)
(* What the proofs about data need of the naturals: a least member of a    *)
(* set, induction stated over sets instead of operators, and the unfolding *)
(* of a function whose value at n is made of the one at n - 1 (the fold of *)
(* a list, the walk of a chain, a scan of arguments).                      *)
(***************************************************************************)
EXTENDS Integers, TLAPS, WellFoundedInduction


\* A non-empty set of naturals has a least member.
LEMMA LeastOf ==
    ASSUME NEW T \in SUBSET Nat, T # {}
    PROVE  \E m \in T : \A k \in T : m <= k
  <1> DEFINE R == OpToRel(<, Nat)
  <1>1. IsWellFoundedOn(R, Nat)
    BY NatLessThanWellFounded
  <1>2. \A x, y \in Nat : x < y => <<x, y>> \in R
    BY DEF OpToRel
  <1> HIDE DEF R
  <1>3. \E x \in T : \A y \in T : ~ (<<y, x>> \in R)
    BY <1>1, WFMin
  <1>4. PICK x \in T : \A y \in T : ~ (<<y, x>> \in R)
    BY <1>3
  <1>5. \A k \in T : ~ (k < x)
    BY <1>2, <1>4
  <1> QED
    BY <1>5

\* A set of naturals that has 0 and every successor of its members has them all.
LEMMA Reached ==
    ASSUME NEW T \in SUBSET Nat, 0 \in T, \A n \in T : n + 1 \in T
    PROVE  T = Nat
  <1> SUFFICES ASSUME Nat \ T # {}
               PROVE  FALSE
    OBVIOUS
  <1>1. PICK m \in Nat \ T : \A k \in Nat \ T : m <= k
    BY LeastOf
  <1>2. m # 0 /\ m - 1 \in Nat /\ m - 1 \in T /\ (m - 1) + 1 = m
    BY <1>1
  <1> QED
    BY <1>1, <1>2

\* The same up to a bound.
LEMMA ReachedUpTo ==
    ASSUME NEW N \in Nat, NEW T, 0 \in T, \A n \in 0 .. (N - 1) : n \in T => n + 1 \in T
    PROVE  0 .. N \subseteq T
  <1> DEFINE U == {n \in Nat : n <= N => n \in T}
  <1>1. U \in SUBSET Nat /\ 0 \in U
    OBVIOUS
  <1>2. \A n \in U : n + 1 \in U
    OBVIOUS
  <1> HIDE DEF U
  <1>3. U = Nat
    BY <1>1, <1>2, Reached
  <1> QED
    BY <1>3 DEF U

\* What is made of the values before n.
Grows(n, f, base, step) == f[0] = base /\ \A k \in 1 .. n : f[k] = step[k][f[k - 1]]

LEMMA GrowsByOne ==
    ASSUME NEW S, NEW base, NEW step, NEW n \in Nat, NEW f \in [0 .. n -> S], Grows(n, f, base, step),
           NEW last \in S, last = step[n + 1][f[n]]
    PROVE  \E g \in [0 .. (n + 1) -> S] : Grows(n + 1, g, base, step)
  <1> DEFINE g == [k \in 0 .. (n + 1) |-> IF k <= n THEN f[k] ELSE last]
  <1>1. g \in [0 .. (n + 1) -> S]
    OBVIOUS
  <1>2. \A k \in 0 .. n : g[k] = f[k]
    OBVIOUS
  <1>3. g[n + 1] = last
    OBVIOUS
  <1> HIDE DEF g
  <1>4. g[0] = base
    BY <1>2 DEF Grows
  <1>5. ASSUME NEW k \in 1 .. (n + 1)
        PROVE  g[k] = step[k][g[k - 1]]
    <2>1. CASE k = n + 1
      <3>1. k - 1 = n /\ n \in 0 .. n
        BY <2>1
      <3>2. g[k - 1] = f[n]
        BY <1>2, <3>1
      <3> QED
        BY <1>3, <2>1, <3>2
    <2>2. CASE k # n + 1
      <3>1. k \in 1 .. n /\ k \in 0 .. n /\ k - 1 \in 0 .. n
        BY <2>2
      <3>2. f[k] = step[k][f[k - 1]]
        BY <3>1 DEF Grows
      <3> QED
        BY <1>2, <3>1, <3>2
    <2> QED
      BY <2>1, <2>2
  <1> QED
    BY <1>1, <1>4, <1>5 DEF Grows

\* Values up to N, each made of the one before by the step of its place.
MadeUpTo(N, f, base, step) == f = [n \in 0 .. N |-> IF n = 0 THEN base ELSE step[n][f[n - 1]]]

StepFunctions(N, S) == [1 .. N -> [S -> S]]

\* Values can be given one after the other, each made of the one before.
LEMMA Recursion ==
    ASSUME NEW N \in Nat, NEW S, NEW base \in S, NEW step \in StepFunctions(N, S)
    PROVE  \E f \in [0 .. N -> S] : MadeUpTo(N, f, base, step)
  <1> DEFINE T == {n \in 0 .. N : \E f \in [0 .. n -> S] : Grows(n, f, base, step)}
  <1>1. 0 \in T
    <2> DEFINE f == [k \in 0 .. 0 |-> base]
    <2>1. f \in [0 .. 0 -> S] /\ Grows(0, f, base, step)
      BY DEF Grows
    <2> QED
      BY <2>1
  <1>2. ASSUME NEW n \in 0 .. (N - 1), n \in T
        PROVE  n + 1 \in T
    <2>1. PICK f \in [0 .. n -> S] : Grows(n, f, base, step)
      BY <1>2
    <2>2. n \in Nat /\ n + 1 \in 1 .. N /\ n + 1 \in 0 .. N /\ n \in 0 .. n
      OBVIOUS
    <2>3. step[n + 1] \in [S -> S] /\ f[n] \in S
      BY <2>1, <2>2 DEF StepFunctions
    <2>4. step[n + 1][f[n]] \in S
      BY <2>3
    <2>5. \E g \in [0 .. (n + 1) -> S] : Grows(n + 1, g, base, step)
      BY <2>1, <2>2, <2>4, GrowsByOne
    <2> QED
      BY <2>2, <2>5
  <1> HIDE DEF T
  <1>3. 0 .. N \subseteq T
    BY <1>1, <1>2, ReachedUpTo
  <1>4. N \in T
    BY <1>3
  <1>5. PICK f \in [0 .. N -> S] : Grows(N, f, base, step)
    BY <1>4 DEF T
  <1> DEFINE g == [n \in 0 .. N |-> IF n = 0 THEN base ELSE step[n][f[n - 1]]]
  <1>6. ASSUME NEW n \in 0 .. N
        PROVE  f[n] = g[n]
    BY <1>5 DEF Grows
  <1>7. f = g
    BY <1>6
  <1> QED
    BY <1>7 DEF MadeUpTo
=============================================================================
