---------------------------- MODULE FoldTheorems ----------------------------
(***************************************************************************)
(* What the proofs about the telnet parser and the frame decoder need: the *)
(* induction principle on natural numbers with a set in place of a         *)
(* predicate, least and greatest elements, and the recursive function that *)
(* a left fold of a sequence is defined with.                              *)
(***************************************************************************)
EXTENDS Integers, FiniteSetsExt, FiniteSetTheorems, WellFoundedInduction, TLAPS

\* A set of natural numbers that is not empty has a least element.
LEMMA Smallest ==
    ASSUME NEW T \in SUBSET Nat, T # {}
    PROVE  \E x \in T : \A y \in T : x <= y
<1>1. \A x, y \in Nat : y < x => <<y, x>> \in OpToRel(<,Nat)
  BY DEF OpToRel
<1>2. \E R : IsWellFoundedOn(R, Nat) /\ \A x, y \in Nat : y < x => <<y, x>> \in R
  BY <1>1, NatLessThanWellFounded, Zenon
<1>3. PICK R : IsWellFoundedOn(R, Nat) /\ \A x, y \in Nat : y < x => <<y, x>> \in R
  BY <1>2
<1>4. PICK x \in T : \A y \in T : ~ (<<y, x>> \in R)
  BY <1>3, WFMin
<1>5. x \in Nat /\ \A y \in T : y \in Nat /\ ~(y < x)
  BY <1>3, <1>4
<1>6. \A y \in T : x <= y
  BY <1>5
<1>7. QED
  BY <1>6

\* Induction up to a bound.
LEMMA SetInduction ==
    ASSUME NEW N \in Nat, NEW T, 0 \in T,
           \A n \in 0 .. N - 1 : n \in T => n + 1 \in T
    PROVE  \A n \in 0 .. N : n \in T
<1> DEFINE Bad == {n \in 0 .. N : n \notin T}
<1>1. SUFFICES ASSUME Bad # {} PROVE FALSE
  OBVIOUS
<1>2. PICK x \in Bad : \A y \in Bad : x <= y
  <2>1. Bad \in SUBSET Nat
    OBVIOUS
  <2> HIDE DEF Bad
  <2>2. QED
    BY <1>1, <2>1, Smallest
<1>3. x # 0 /\ x \in 1 .. N
  OBVIOUS
<1>4. x - 1 \notin Bad
  BY <1>2, <1>3
<1>5. QED
  BY <1>2, <1>3, <1>4

\* The least element of a set of numbers up to N.
LEMMA LeastElement ==
    ASSUME NEW N \in Nat, NEW S \in SUBSET (1 .. N), S # {}
    PROVE  Min(S) \in S /\ \A y \in S : Min(S) <= y
<1>1. S \in SUBSET Nat
  OBVIOUS
<1>2. \E x \in S : \A y \in S : x <= y
  BY <1>1, Smallest
<1>3. QED
  BY <1>2 DEF Min

\* The greatest element of a set of numbers up to N.
LEMMA GreatestElement ==
    ASSUME NEW N \in Nat, NEW S \in SUBSET (1 .. N), S # {}
    PROVE  Max(S) \in S /\ \A y \in S : y <= Max(S)
<1> DEFINE D == {d \in 0 .. N : N - d \in S}
<1>1. D \in SUBSET Nat /\ D # {}
  <2>1. PICK y \in S : TRUE
    OBVIOUS
  <2>2. N - y \in 0 .. N /\ N - (N - y) \in S
    BY <2>1
  <2>3. N - y \in D
    BY <2>2
  <2>4. D \in SUBSET Nat
    OBVIOUS
  <2> HIDE DEF D
  <2>5. QED
    BY <2>3, <2>4
<1>2. PICK d \in D : \A e \in D : d <= e
  <2> HIDE DEF D
  <2>1. QED
    BY <1>1, Smallest
<1>3. N - d \in S
  BY <1>2
<1>4. ASSUME NEW y \in S PROVE N - d >= y
  <2>1. N - y \in D
    BY <1>4
  <2>2. QED
    BY <1>2, <2>1
<1>5. \E x \in S : \A y \in S : x >= y
  BY <1>3, <1>4
<1>6. Max(S) \in S /\ \A y \in S : Max(S) >= y
  BY <1>5 DEF Max
<1>7. \A y \in S : y \in Int
  OBVIOUS
<1>8. QED
  BY <1>6, <1>7

\* A greatest element is the maximum.
LEMMA MaxIs ==
    ASSUME NEW N \in Nat, NEW S \in SUBSET (1 .. N), NEW n \in S, \A y \in S : y <= n
    PROVE  Max(S) = n
<1>1. Max(S) \in S /\ \A y \in S : y <= Max(S)
  BY GreatestElement
<1>2. PICK x \in S : x = Max(S) /\ \A y \in S : y <= x
  BY <1>1
<1>3. n <= x /\ x <= n /\ n \in Int /\ x \in Int
  BY <1>2
<1>4. QED
  BY <1>2, <1>3

\* The last step of a fold over 1 .. n is the one for n.
LEMMA IntervalMax ==
    ASSUME NEW n \in Nat \ {0}
    PROVE  Max(1 .. n) = n /\ (1 .. n) \ {Max(1 .. n)} = 1 .. n - 1
<1>1. Max(1 .. n) = n
  <2>1. n \in 1 .. n /\ (\A y \in 1 .. n : y <= n) /\ 1 .. n \in SUBSET (1 .. n) /\ n \in Nat
    OBVIOUS
  <2>2. QED
    BY <2>1, MaxIs
<1>2. (1 .. n) \ {n} = 1 .. n - 1
  OBVIOUS
<1>3. QED
  BY <1>1, <1>2

\* The recursion a left fold over 1 .. N is defined by: from a, with step g.
FoldOf(f, N, a, g) ==
    \A s \in SUBSET (1 .. N) :
        f[s] = IF s = {} THEN a ELSE g[<<f[s \ {Max(s)}], Max(s)>>]

\* It has a solution.
LEMMA FoldExists ==
    ASSUME NEW N \in Nat, NEW A, NEW a \in A, NEW g \in [A \X (1 .. N) -> A]
    PROVE  \E f \in [SUBSET (1 .. N) -> A] : FoldOf(f, N, a, g)
<1> DEFINE Solves(f, n) ==
             \A s \in SUBSET (1 .. n) :
                f[s] = IF s = {} THEN a ELSE g[<<f[s \ {Max(s)}], Max(s)>>]
           T == {n \in 0 .. N : \E f \in [SUBSET (1 .. n) -> A] : Solves(f, n)}
<1>1. 0 \in T
  <2> DEFINE f == [s \in SUBSET (1 .. 0) |-> a]
  <2>1. \A s \in SUBSET (1 .. 0) : s = {}
    OBVIOUS
  <2>2. f \in [SUBSET (1 .. 0) -> A] /\ Solves(f, 0)
    BY <2>1
  <2>3. 0 \in 0 .. N
    OBVIOUS
  <2> HIDE DEF f, Solves
  <2>4. \E h \in [SUBSET (1 .. 0) -> A] : Solves(h, 0)
    BY <2>2
  <2>5. QED
    BY <2>3, <2>4, Zenon
<1>2. ASSUME NEW n \in 0 .. N - 1, n \in T PROVE n + 1 \in T
  <2>1. PICK f \in [SUBSET (1 .. n) -> A] : Solves(f, n)
    BY <1>2
  <2> DEFINE m == n + 1
             F == [s \in SUBSET (1 .. m) |->
                     IF m \in s THEN g[<<f[s \ {m}], m>>] ELSE f[s]]
  <2>2. m \in 1 .. N /\ m \in Nat
    OBVIOUS
  <2>3. \A s \in SUBSET (1 .. m) : /\ s \ {m} \in SUBSET (1 .. n)
                                   /\ m \notin s => s \in SUBSET (1 .. n)
    OBVIOUS
  <2>4. F \in [SUBSET (1 .. m) -> A]
    <3>1. ASSUME NEW s \in SUBSET (1 .. m)
          PROVE  (IF m \in s THEN g[<<f[s \ {m}], m>>] ELSE f[s]) \in A
      <4> HIDE DEF m
      <4>1. QED
        BY <2>2, <2>3
    <3> HIDE DEF m
    <3>2. QED
      BY <3>1
  <2>5. ASSUME NEW s \in SUBSET (1 .. m)
        PROVE  F[s] = IF s = {} THEN a ELSE g[<<F[s \ {Max(s)}], Max(s)>>]
    <3>1. CASE m \in s
      <4>1. Max(s) = m
        <5>1. \A y \in s : y <= m
          OBVIOUS
        <5> HIDE DEF m
        <5>2. QED
          BY <2>2, <3>1, <5>1, MaxIs
      <4>2. s \ {m} \in SUBSET (1 .. m) /\ m \notin s \ {m}
        OBVIOUS
      <4> HIDE DEF m
      <4>3. F[s] = g[<<f[s \ {m}], m>>] /\ F[s \ {m}] = f[s \ {m}]
        BY <3>1, <4>2
      <4> HIDE DEF F
      <4>4. QED
        BY <3>1, <4>1, <4>3
    <3>2. CASE m \notin s
      <4>1. s \in SUBSET (1 .. n)
        BY <2>3, <3>2
      <4>2. F[s] = f[s] /\ F[s \ {Max(s)}] = f[s \ {Max(s)}]
        <5> HIDE DEF m
        <5>1. s \ {Max(s)} \in SUBSET (1 .. m) /\ m \notin s \ {Max(s)}
          BY <3>2
        <5>2. QED
          BY <3>2, <5>1
      <4> HIDE DEF F, m
      <4>3. QED
        BY <2>1, <4>1, <4>2
    <3>3. QED
      BY <3>1, <3>2
  <2>6. Solves(F, m)
    BY <2>5
  <2> HIDE DEF F, Solves
  <2>7. m \in 0 .. N
    OBVIOUS
  <2> HIDE DEF m
  <2>8. m \in T
    BY <2>4, <2>6, <2>7
  <2>9. QED
    BY <2>8 DEF m
<1>3. N \in T
  <2> HIDE DEF T
  <2>1. QED
    BY <1>1, <1>2, SetInduction
<1>4. QED
  BY <1>3 DEF FoldOf

\* The smaller of two numbers.
LEMMA MinPair ==
    ASSUME NEW a \in Nat, NEW b \in Nat
    PROVE  Min({a, b}) \in {a, b} /\ Min({a, b}) <= a /\ Min({a, b}) <= b
<1>1. {a, b} \in SUBSET Nat /\ {a, b} # {}
  OBVIOUS
<1>2. \E x \in {a, b} : \A y \in {a, b} : x <= y
  BY <1>1, Smallest
<1>3. Min({a, b}) \in {a, b} /\ \A y \in {a, b} : Min({a, b}) <= y
  BY <1>2 DEF Min
<1>4. QED
  BY <1>3

\* The recursion, for an h of which it is not known yet that it stays in A.
FoldIn(h, N, A, a, g) ==
    /\ h[{}] = a
    /\ \A s \in SUBSET (1 .. N) :
          s # {} /\ h[s \ {Max(s)}] \in A => h[s] = g[<<h[s \ {Max(s)}], Max(s)>>]

\* A sequence of values, one per element, each from the one before; the last
\* is the fold.
RunOf(F, N, a, g, h) ==
    /\ F[0] = a /\ F[N] = h[1 .. N]
    /\ \A i \in 1 .. N : F[i] = g[<<F[i - 1], i>>]

\* A solution of the recursion is, on the intervals, a run in A.
LEMMA FoldRun ==
    ASSUME NEW N \in Nat, NEW A, NEW a \in A, NEW g \in [A \X (1 .. N) -> A], NEW h,
           FoldIn(h, N, A, a, g)
    PROVE  \E F \in [0 .. N -> A] : RunOf(F, N, a, g, h)
<1>1. ASSUME NEW n \in 1 .. N, h[1 .. n - 1] \in A
      PROVE  h[1 .. n] = g[<<h[1 .. n - 1], n>>] /\ h[1 .. n] \in A
  <2>1. n \in Nat \ {0} /\ n \in 1 .. n
    OBVIOUS
  <2>2. 1 .. n \in SUBSET (1 .. N) /\ 1 .. n # {}
    BY <2>1
  <2>3. Max(1 .. n) = n /\ (1 .. n) \ {Max(1 .. n)} = 1 .. n - 1
    BY <2>1, IntervalMax
  <2>4. h[(1 .. n) \ {Max(1 .. n)}] \in A
    BY <1>1, <2>3
  <2>5. h[1 .. n] = g[<<h[(1 .. n) \ {Max(1 .. n)}], Max(1 .. n)>>]
    BY <2>2, <2>4 DEF FoldIn
  <2>6. h[1 .. n] = g[<<h[1 .. n - 1], n>>]
    BY <2>3, <2>5, Zenon
  <2>7. g[<<h[1 .. n - 1], n>>] \in A
    BY <1>1
  <2>8. QED
    BY <2>6, <2>7
<1> DEFINE T == {n \in 0 .. N : h[1 .. n] \in A}
<1>2. 1 .. 0 = {}
  OBVIOUS
<1>3. 0 \in T
  BY <1>2 DEF FoldIn
<1>4. ASSUME NEW n \in 0 .. N - 1, n \in T PROVE n + 1 \in T
  <2>1. n + 1 \in 1 .. N /\ (n + 1) - 1 = n /\ n + 1 \in 0 .. N
    OBVIOUS
  <2>2. h[1 .. (n + 1) - 1] \in A
    BY <1>4, <2>1
  <2>3. h[1 .. n + 1] \in A
    BY <1>1, <2>1, <2>2
  <2>4. QED
    BY <2>1, <2>3
<1>5. \A n \in 0 .. N : n \in T
  <2> HIDE DEF T
  <2>1. QED
    BY <1>3, <1>4, SetInduction
<1> DEFINE F == [n \in 0 .. N |-> h[1 .. n]]
<1>6. F \in [0 .. N -> A]
  BY <1>5
<1>7. F[0] = a /\ F[N] = h[1 .. N]
  BY <1>2 DEF FoldIn
<1>8. ASSUME NEW i \in 1 .. N PROVE F[i] = g[<<F[i - 1], i>>]
  <2>1. i \in 0 .. N /\ i - 1 \in 0 .. N
    OBVIOUS
  <2>2. F[i] = h[1 .. i] /\ F[i - 1] = h[1 .. i - 1]
    BY <2>1
  <2>3. h[1 .. i - 1] \in A
    BY <1>5, <2>1
  <2>4. QED
    BY <1>1, <2>2, <2>3
<1> HIDE DEF F
<1>9. QED
  BY <1>6, <1>7, <1>8 DEF RunOf
=============================================================================
