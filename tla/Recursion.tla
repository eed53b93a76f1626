----------------------------- MODULE Recursion -----------------------------
(***************************************************************************)
(* Functions defined by recursion, over numbers and over finite sets, and  *)
(* sums over a finite set.  The prover takes no lemma with an operator for *)
(* parameter, so what a step does is a function here, and what is proved   *)
(* by induction a set.                                                     *)
(***************************************************************************)
EXTENDS Integers, Functions, FiniteSetTheorems, WellFoundedInduction, TLAPS

LEMMA LeastExists ==
  ASSUME NEW S, S \subseteq Nat, S # {}
  PROVE  \E x \in S : \A y \in S : x <= y
<1> DEFINE R == OpToRel(<, Nat)
<1>1. PICK x \in S : \A y \in S : ~(<<y, x>> \in R)
  <2> HIDE DEF R
  <2>1. IsWellFoundedOn(R, Nat)
    BY NatLessThanWellFounded DEF R
  <2> QED
    BY <2>1, WFMin
<1>2. R = {ss \in Nat \X Nat : ss[1] < ss[2]}
  BY DEF OpToRel
<1>3. ASSUME NEW y \in S PROVE x <= y
  <2>1. <<y, x>> \in Nat \X Nat /\ <<y, x>>[1] = y /\ <<y, x>>[2] = x
    OBVIOUS
  <2>2. ~(y < x)
    BY <1>1, <1>2, <2>1
  <2> QED
    BY <2>2
<1> QED
  BY <1>3

(* A function defined by recursion up to N exists.                          *)
Recurs(N, D, first, step) ==
  \E g \in [0 .. N -> D] : /\ g[0] = first
                           /\ \A n \in 1 .. N : g[n] = step[n][g[n - 1]]

LEMMA ByRecursion ==
  ASSUME NEW N \in Nat, NEW D, NEW first \in D, NEW step \in [1 .. N -> [D -> D]]
  PROVE  Recurs(N, D, first, step)
<1> DEFINE Fits(m, g) == g[0] = first /\ \A n \in 1 .. m : g[n] = step[n][g[n - 1]]
           Reached == {m \in 0 .. N : \E g \in [0 .. N -> D] : Fits(m, g)}
<1>1. 0 \in Reached
  <2>1. Fits(0, [n \in 0 .. N |-> first])
    OBVIOUS
  <2>2. [n \in 0 .. N |-> first] \in [0 .. N -> D] /\ 0 \in 0 .. N
    OBVIOUS
  <2> HIDE DEF Fits
  <2> QED
    BY <2>1, <2>2
<1>2. ASSUME NEW m \in Reached, m < N PROVE m + 1 \in Reached
  <2>1. PICK g \in [0 .. N -> D] : Fits(m, g)
    OBVIOUS
  <2> DEFINE h == [g EXCEPT ![m + 1] = step[m + 1][g[m]]]
  <2>0. m \in Nat /\ m + 1 \in 0 .. N /\ m + 1 \in 1 .. N /\ g[m] \in D
    BY <1>2
  <2>2. step[m + 1][g[m]] \in D
    BY <2>0
  <2>3. h \in [0 .. N -> D]
    BY <2>2
  <2>4. h[0] = g[0] /\ \A n \in 0 .. m : h[n] = g[n]
    BY <2>0
  <2>6. h[m + 1] = step[m + 1][h[m]]
    BY <2>0
  <2>5. Fits(m + 1, h)
    <3> HIDE DEF h
    <3>1. \A n \in 1 .. m : n - 1 \in 0 .. m /\ n \in 0 .. m
      BY <2>0
    <3>2. \A n \in 1 .. m + 1 : n \in 1 .. m \/ (n = m + 1 /\ n - 1 = m)
      BY <2>0
    <3> QED
      BY <2>1, <2>4, <2>6, <3>1, <3>2
  <2> QED
    BY <2>0, <2>3, <2>5
<1>3. Reached = 0 .. N
  <2> HIDE DEF Reached
  <2> DEFINE Missed == (0 .. N) \ Reached
  <2>1. Reached \subseteq 0 .. N
    BY DEF Reached
  <2>2. ASSUME Missed # {} PROVE FALSE
    <3>1. Missed \subseteq Nat
      OBVIOUS
    <3>2. PICK n \in Missed : \A m \in Missed : n <= m
      <4> HIDE DEF Missed
      <4> QED
        BY <2>2, <3>1, LeastExists
    <3>3. n \in 1 .. N
      BY <1>1, <3>2
    <3>4. n - 1 \in 0 .. N /\ n - 1 < N /\ n - 1 < n
      BY <3>3
    <3>5. n - 1 \in Reached
      BY <3>2, <3>4
    <3> QED
      BY <1>2, <3>3, <3>4, <3>5
  <2> QED
    BY <2>1, <2>2
<1>4. \E g \in [0 .. N -> D] : Fits(N, g)
  <2>1. N \in 0 .. N
    OBVIOUS
  <2>2. N \in Reached
    <3> HIDE DEF Reached
    <3> QED
      BY <1>3, <2>1
  <2> HIDE DEF Fits
  <2> QED
    BY <2>2
<1> QED
  BY <1>4 DEF Recurs

(* What holds of zero, and of a number when of the one before it.           *)
LEMMA CountingUp ==
  ASSUME NEW N \in Nat, NEW S, 0 \in S, \A n \in 1 .. N : n - 1 \in S => n \in S
  PROVE  0 .. N \subseteq S
<1> DEFINE Missed == (0 .. N) \ S
<1>1. ASSUME Missed # {} PROVE FALSE
  <2>1. Missed \subseteq Nat
    OBVIOUS
  <2>2. PICK n \in Missed : \A m \in Missed : n <= m
    <3> HIDE DEF Missed
    <3> QED
      BY <1>1, <2>1, LeastExists
  <2>3. n \in 1 .. N
    BY <2>2
  <2>4. n - 1 \in 0 .. N /\ n - 1 < n
    BY <2>3
  <2> QED
    BY <2>2, <2>3, <2>4
<1> QED
  BY <1>1

-----------------------------------------------------------------------------
(* Finite sets, taken apart one element at a time.                          *)

LEMMA WithoutOne ==
  ASSUME NEW S, IsFiniteSet(S), NEW x \in S
  PROVE  /\ IsFiniteSet(S \ {x}) /\ Cardinality(S) \in Nat /\ Cardinality(S) > 0
         /\ Cardinality(S \ {x}) = Cardinality(S) - 1
<1>1. IsFiniteSet(S \ {x}) /\ Cardinality(S \ {x}) = Cardinality(S) - 1
  BY FS_RemoveElement
<1>2. Cardinality(S) \in Nat /\ Cardinality(S \ {x}) \in Nat
  BY <1>1, FS_CardinalityType
<1> QED
  BY <1>1, <1>2

(* What holds of the empty set, and of a set when of it without the element *)
(* picked, holds of every subset.                                           *)
PassedOn(S, pick, P) ==
  /\ {} \in P
  /\ \A s \in SUBSET S : s # {} => pick[s] \in s /\ (s \ {pick[s]} \in P => s \in P)

LEMMA OneByOne ==
  ASSUME NEW S, IsFiniteSet(S), NEW pick, NEW P, PassedOn(S, pick, P)
  PROVE  SUBSET S \subseteq P
<1> USE DEF PassedOn
<1> DEFINE N == Cardinality(S)
           Q == {n \in 0 .. N : \A s \in SUBSET S : Cardinality(s) = n => s \in P}
<1>1. N \in Nat /\ \A s \in SUBSET S : IsFiniteSet(s) /\ Cardinality(s) \in 0 .. N
  <2>1. N \in Nat
    BY FS_CardinalityType
  <2>2. ASSUME NEW s \in SUBSET S PROVE IsFiniteSet(s) /\ Cardinality(s) \in 0 .. N
    <3>1. IsFiniteSet(s) /\ Cardinality(s) <= N
      BY FS_Subset
    <3>2. Cardinality(s) \in Nat
      BY <3>1, FS_CardinalityType
    <3> QED
      BY <2>1, <3>1, <3>2
  <2> QED
    BY <2>1, <2>2
<1>2. 0 \in Q
  BY <1>1, FS_EmptySet
<1>3. ASSUME NEW n \in 1 .. N, n - 1 \in Q PROVE n \in Q
  <2>1. ASSUME NEW s \in SUBSET S, Cardinality(s) = n PROVE s \in P
    <3>1. s # {}
      <4>1. CASE s = {}
        <5>1. Cardinality(s) = 0
          BY <4>1, FS_EmptySet
        <5> QED
          BY <2>1, <5>1
      <4> QED
        BY <4>1
    <3>2. pick[s] \in s /\ s \ {pick[s]} \in SUBSET S
      BY <3>1
    <3>3. Cardinality(s \ {pick[s]}) = n - 1
      BY <1>1, <2>1, <3>2, WithoutOne
    <3>4. s \ {pick[s]} \in P
      BY <1>3, <3>2, <3>3
    <3> QED
      BY <3>1, <3>4
  <2>2. n \in 0 .. N
    BY <1>1
  <2> QED
    BY <2>1, <2>2
<1>4. 0 .. N \subseteq Q
  <2> HIDE DEF Q, N
  <2> QED
    BY <1>1, <1>2, <1>3, CountingUp
<1> QED
  BY <1>1, <1>4

(* A function defined by recursion over the subsets of S exists.            *)
RecursOverSets(S, D, first, pick, step) ==
  \E g \in [SUBSET S -> D] :
    /\ g[{}] = first
    /\ \A s \in SUBSET S : s # {} => g[s] = step[pick[s]][g[s \ {pick[s]}]]

LEMMA BySetRecursion ==
  ASSUME NEW S, IsFiniteSet(S), NEW D, NEW first \in D, NEW pick,
         \A s \in SUBSET S : s # {} => pick[s] \in s, NEW step \in [S -> [D -> D]]
  PROVE  RecursOverSets(S, D, first, pick, step)
<1> DEFINE N == Cardinality(S)
           Step(g, s) == step[pick[s]][g[s \ {pick[s]}]]
           Fits(m, g) == /\ g[{}] = first
                         /\ \A s \in SUBSET S : s # {} /\ Cardinality(s) <= m => g[s] = Step(g, s)
           Reached == {m \in 0 .. N : \E g \in [SUBSET S -> D] : Fits(m, g)}
<1>1. N \in Nat /\ \A s \in SUBSET S : IsFiniteSet(s) /\ Cardinality(s) \in 0 .. N
  <2>1. N \in Nat
    BY FS_CardinalityType
  <2>2. ASSUME NEW s \in SUBSET S PROVE IsFiniteSet(s) /\ Cardinality(s) \in 0 .. N
    <3>1. IsFiniteSet(s) /\ Cardinality(s) <= N
      BY FS_Subset
    <3>2. Cardinality(s) \in Nat
      BY <3>1, FS_CardinalityType
    <3> QED
      BY <2>1, <3>1, <3>2
  <2> QED
    BY <2>1, <2>2
<1>2. \A s \in SUBSET S : s # {} =>
        /\ pick[s] \in s /\ s \ {pick[s]} \in SUBSET S
        /\ Cardinality(s) > 0 /\ Cardinality(s \ {pick[s]}) = Cardinality(s) - 1
  BY <1>1, WithoutOne
<1>3. \A g \in [SUBSET S -> D] : \A s \in SUBSET S : s # {} => Step(g, s) \in D
  BY <1>2
<1>4. 0 \in Reached
  <2> DEFINE g == [s \in SUBSET S |-> first]
  <2>1. g \in [SUBSET S -> D] /\ g[{}] = first
    OBVIOUS
  <2>2. ASSUME NEW s \in SUBSET S, s # {} PROVE ~(Cardinality(s) <= 0)
    <3> DEFINE c == Cardinality(s)
    <3>1. c \in 0 .. N /\ N \in Nat
      BY <1>1
    <3>2. c > 0
      BY <1>2, <2>2
    <3> HIDE DEF N, c
    <3>3. ~(c <= 0)
      BY <3>1, <3>2
    <3> QED
      BY <3>3 DEF c
  <2>3. Fits(0, g)
    BY <2>1, <2>2
  <2> HIDE DEF Fits, g
  <2> QED
    BY <1>1, <2>1, <2>3
<1>5. ASSUME NEW m \in 1 .. N, m - 1 \in Reached PROVE m \in Reached
  <2>1. PICK g \in [SUBSET S -> D] : Fits(m - 1, g)
    BY <1>5
  <2> DEFINE h == [s \in SUBSET S |-> IF s # {} /\ Cardinality(s) = m THEN Step(g, s) ELSE g[s]]
  <2>2. h \in [SUBSET S -> D]
    BY <1>3
  <2>3. h[{}] = first
    BY <2>1
  <2>4. ASSUME NEW s \in SUBSET S, s # {}, Cardinality(s) <= m PROVE h[s] = Step(h, s)
    <3> DEFINE r == s \ {pick[s]}
    <3>1. r \in SUBSET S /\ Cardinality(r) = Cardinality(s) - 1 /\ Cardinality(s) \in Nat
      BY <1>1, <1>2, <2>4
    <3>2. Cardinality(r) # m
      BY <2>4, <3>1
    <3>3. h[r] = g[r]
      <4> HIDE DEF r, Step
      <4> QED
        BY <3>1, <3>2
    <3>4. Step(h, s) = Step(g, s)
      BY <3>3
    <3>5. h[s] = Step(g, s)
      <4>1. CASE Cardinality(s) = m
        BY <2>4, <4>1
      <4>2. CASE Cardinality(s) # m
        <5>1. Cardinality(s) <= m - 1
          BY <2>4, <3>1, <4>2
        <5>2. g[s] = Step(g, s)
          BY <2>1, <2>4, <5>1
        <5> HIDE DEF Step
        <5> QED
          BY <2>4, <4>2, <5>2
      <4> QED
        BY <4>1, <4>2
    <3> QED
      BY <3>4, <3>5
  <2> HIDE DEF h
  <2>5. Fits(m, h)
    BY <2>3, <2>4
  <2>6. m \in 0 .. N
    BY <1>1
  <2> HIDE DEF Fits
  <2> QED
    BY <2>2, <2>5, <2>6
<1>6. 0 .. N \subseteq Reached
  <2> HIDE DEF Reached, N
  <2> QED
    BY <1>1, <1>4, <1>5, CountingUp
<1>7. PICK g \in [SUBSET S -> D] : Fits(N, g)
  <2>1. N \in Reached
    BY <1>1, <1>6
  <2> HIDE DEF Fits
  <2> QED
    BY <2>1
<1>8. \A s \in SUBSET S : Cardinality(s) <= N
  BY <1>1
<1> QED
  BY <1>7, <1>8 DEF RecursOverSets

-----------------------------------------------------------------------------
(* Sums over a finite set, each term added where CHOOSE picks it.           *)

Sum(f) == FoldFunction(+, 0, f)

AnyOf(S) == [s \in SUBSET S |-> CHOOSE x \in s : TRUE]

(* The partial sums.                                                        *)
Sums(S, f, sum) ==
  /\ sum \in [SUBSET S -> Int] /\ sum[{}] = 0
  /\ \A s \in SUBSET S : s # {} => sum[s] = f[AnyOf(S)[s]] + sum[s \ {AnyOf(S)[s]}]

LEMMA AnyOfIsOne ==
  ASSUME NEW S, NEW s \in SUBSET S, s # {}
  PROVE  /\ AnyOf(S)[s] = CHOOSE x \in s : TRUE
         /\ AnyOf(S)[s] \in s /\ AnyOf(S)[s] \in S /\ s \ {AnyOf(S)[s]} \in SUBSET S
<1>1. AnyOf(S)[s] = CHOOSE x \in s : TRUE
  BY DEF AnyOf
<1>2. (CHOOSE x \in s : TRUE) \in s
  OBVIOUS
<1> QED
  BY <1>1, <1>2

LEMMA SumsExist ==
  ASSUME NEW S, IsFiniteSet(S), NEW f \in [S -> Int]
  PROVE  \E sum : Sums(S, f, sum) /\ Sum(f) = sum[S]
<1> DEFINE P(s) == s = [t \in SUBSET S |->
                          IF t = {} THEN 0
                          ELSE f[CHOOSE x \in t : TRUE] + s[t \ {CHOOSE x \in t : TRUE}]]
           sum == CHOOSE s : P(s)
           step == [x \in S |-> [n \in Int |-> f[x] + n]]
           pick == AnyOf(S)
<1>1. PICK g \in [SUBSET S -> Int] :
        g[{}] = 0 /\ \A s \in SUBSET S : s # {} => g[s] = step[pick[s]][g[s \ {pick[s]}]]
  <2> DEFINE D == Int
             zero == 0
  <2>1. step \in [S -> [D -> D]] /\ zero \in D
    OBVIOUS
  <2>2. \A s \in SUBSET S : s # {} => pick[s] \in s
    BY AnyOfIsOne
  <2>3. RecursOverSets(S, D, zero, pick, step)
    <3> HIDE DEF D, zero, pick, step
    <3> QED
      BY <2>1, <2>2, BySetRecursion
  <2> QED
    BY <2>3 DEF RecursOverSets
<1>2. ASSUME NEW s \in SUBSET S, s # {}
      PROVE  g[s] = f[CHOOSE x \in s : TRUE] + g[s \ {CHOOSE x \in s : TRUE}]
  <2> DEFINE x == CHOOSE x \in s : TRUE
  <2>1. pick[s] = x /\ x \in S /\ s \ {x} \in SUBSET S
    BY <1>2, AnyOfIsOne
  <2>2. g[s] = step[x][g[s \ {x}]]
    BY <1>1, <1>2, <2>1
  <2> HIDE DEF x
  <2>3. g[s \ {x}] \in Int
    BY <2>1
  <2>4. step[x][g[s \ {x}]] = f[x] + g[s \ {x}]
    BY <2>1, <2>3
  <2> QED
    BY <2>2, <2>4 DEF x
<1>3. P(g)
  BY <1>1, <1>2
<1>4. P(sum)
  <2> HIDE DEF P
  <2> QED
    BY <1>3
<1>5. Sum(f) = sum[S]
  <2>1. DOMAIN f = S
    OBVIOUS
  <2> QED
    BY <2>1 DEF Sum, FoldFunction, FoldFunctionOnSet, MapThenFoldSet
<1> HIDE DEF sum
<1>6. /\ sum[{}] = 0 /\ sum = [s \in SUBSET S |-> sum[s]]
      /\ \A s \in SUBSET S : s # {} => sum[s] = f[pick[s]] + sum[s \ {pick[s]}]
  <2>1. \A s \in SUBSET S : s # {} => pick[s] = CHOOSE x \in s : TRUE
    BY AnyOfIsOne
  <2> HIDE DEF pick
  <2>2. sum[{}] = 0 /\ sum = [s \in SUBSET S |-> sum[s]]
    BY <1>4
  <2>3. ASSUME NEW s \in SUBSET S, s # {} PROVE sum[s] = f[pick[s]] + sum[s \ {pick[s]}]
    <3>1. sum[s] = f[CHOOSE x \in s : TRUE] + sum[s \ {CHOOSE x \in s : TRUE}]
      BY <1>4, <2>3
    <3> QED
      BY <2>1, <2>3, <3>1
  <2> QED
    BY <2>2, <2>3
<1>7. \A s \in SUBSET S : sum[s] \in Int
  <2> DEFINE Q == {s \in SUBSET S : sum[s] \in Int}
  <2>1. {} \in Q
    BY <1>6
  <2>2. ASSUME NEW s \in SUBSET S, s # {}
        PROVE  pick[s] \in s /\ (s \ {pick[s]} \in Q => s \in Q)
    <3>1. pick[s] \in s /\ pick[s] \in S
      BY <2>2, AnyOfIsOne
    <3>2. sum[s] = f[pick[s]] + sum[s \ {pick[s]}]
      BY <1>6, <2>2
    <3> HIDE DEF pick
    <3> QED
      BY <3>1, <3>2
  <2>3. SUBSET S \subseteq Q
    <3>1. PassedOn(S, pick, Q)
      BY <2>1, <2>2 DEF PassedOn
    <3> HIDE DEF Q, pick
    <3> QED
      BY <3>1, OneByOne
  <2> QED
    BY <2>3
<1> QED
  BY <1>5, <1>6, <1>7 DEF Sums

LEMMA SumIs ==
  ASSUME NEW S, IsFiniteSet(S), NEW f \in [S -> Int]
  PROVE  Sum(f) \in Int
<1>1. PICK sum : Sums(S, f, sum) /\ Sum(f) = sum[S]
  BY SumsExist
<1> QED
  BY <1>1 DEF Sums

(* What grows everywhere grows in all.                                      *)
LEMMA SumGrows ==
  ASSUME NEW S, IsFiniteSet(S), NEW f \in [S -> Int], NEW g \in [S -> Int],
         \A x \in S : f[x] <= g[x]
  PROVE  Sum(f) <= Sum(g)
<1> DEFINE pick == AnyOf(S)
<1>1. PICK a : Sums(S, f, a) /\ Sum(f) = a[S]
  BY SumsExist
<1>2. PICK b : Sums(S, g, b) /\ Sum(g) = b[S]
  BY SumsExist
<1> DEFINE P == {s \in SUBSET S : a[s] <= b[s]}
<1>3. {} \in P
  BY <1>1, <1>2 DEF Sums
<1>4. ASSUME NEW s \in SUBSET S, s # {}
      PROVE  pick[s] \in s /\ (s \ {pick[s]} \in P => s \in P)
  <2>1. pick[s] \in s /\ pick[s] \in S /\ s \ {pick[s]} \in SUBSET S
    BY <1>4, AnyOfIsOne
  <2>2. a[s] = f[pick[s]] + a[s \ {pick[s]}] /\ a[s \ {pick[s]}] \in Int
    BY <1>1, <1>4, <2>1 DEF Sums
  <2>3. b[s] = g[pick[s]] + b[s \ {pick[s]}] /\ b[s \ {pick[s]}] \in Int
    BY <1>2, <1>4, <2>1 DEF Sums
  <2>4. f[pick[s]] \in Int /\ g[pick[s]] \in Int /\ f[pick[s]] <= g[pick[s]]
    BY <2>1
  <2> HIDE DEF pick
  <2> QED
    BY <2>1, <2>2, <2>3, <2>4
<1>5. SUBSET S \subseteq P
  <2>1. PassedOn(S, pick, P)
    BY <1>3, <1>4 DEF PassedOn
  <2> HIDE DEF P, pick
  <2> QED
    BY <2>1, OneByOne
<1> QED
  BY <1>1, <1>2, <1>5

(* The sum of two is their sums'.                                           *)
LEMMA SumOfBoth ==
  ASSUME NEW S, IsFiniteSet(S), NEW f \in [S -> Int], NEW g \in [S -> Int], NEW h \in [S -> Int],
         \A x \in S : h[x] = f[x] + g[x]
  PROVE  Sum(h) = Sum(f) + Sum(g)
<1> DEFINE pick == AnyOf(S)
<1>1. PICK a : Sums(S, f, a) /\ Sum(f) = a[S]
  BY SumsExist
<1>2. PICK b : Sums(S, g, b) /\ Sum(g) = b[S]
  BY SumsExist
<1>3. PICK c : Sums(S, h, c) /\ Sum(h) = c[S]
  BY SumsExist
<1> DEFINE P == {s \in SUBSET S : c[s] = a[s] + b[s]}
<1>4. {} \in P
  BY <1>1, <1>2, <1>3 DEF Sums
<1>5. ASSUME NEW s \in SUBSET S, s # {}
      PROVE  pick[s] \in s /\ (s \ {pick[s]} \in P => s \in P)
  <2>1. pick[s] \in s /\ pick[s] \in S /\ s \ {pick[s]} \in SUBSET S
    BY <1>5, AnyOfIsOne
  <2>2. a[s] = f[pick[s]] + a[s \ {pick[s]}] /\ a[s \ {pick[s]}] \in Int
    BY <1>1, <1>5, <2>1 DEF Sums
  <2>3. b[s] = g[pick[s]] + b[s \ {pick[s]}] /\ b[s \ {pick[s]}] \in Int
    BY <1>2, <1>5, <2>1 DEF Sums
  <2>4. c[s] = h[pick[s]] + c[s \ {pick[s]}]
    BY <1>3, <1>5, <2>1 DEF Sums
  <2>5. f[pick[s]] \in Int /\ g[pick[s]] \in Int /\ h[pick[s]] = f[pick[s]] + g[pick[s]]
    BY <2>1
  <2> HIDE DEF pick
  <2> QED
    BY <2>1, <2>2, <2>3, <2>4, <2>5
<1>6. SUBSET S \subseteq P
  <2>1. PassedOn(S, pick, P)
    BY <1>4, <1>5 DEF PassedOn
  <2> HIDE DEF P, pick
  <2> QED
    BY <2>1, OneByOne
<1> QED
  BY <1>1, <1>2, <1>3, <1>6

(* The same term for each of the elements of T.                             *)
LEMMA SumOfSame ==
  ASSUME NEW S, IsFiniteSet(S), NEW T \in SUBSET S, NEW c \in Int
  PROVE  Sum([x \in S |-> IF x \in T THEN c ELSE 0]) = c * Cardinality(T)
<1> DEFINE pick == AnyOf(S)
           f == [x \in S |-> IF x \in T THEN c ELSE 0]
<1>0. f \in [S -> Int]
  OBVIOUS
<1>1. PICK a : Sums(S, f, a) /\ Sum(f) = a[S]
  BY <1>0, SumsExist
<1> DEFINE P == {s \in SUBSET S : a[s] = c * Cardinality(s \cap T)}
<1>2. IsFiniteSet(T) /\ \A s \in SUBSET S : IsFiniteSet(s \cap T) /\ Cardinality(s \cap T) \in Nat
  BY FS_Subset, FS_CardinalityType
<1>3. {} \in P
  <2>1. {} \cap T = {} /\ Cardinality({}) = 0
    BY FS_EmptySet
  <2>2. a[{}] = 0 /\ c * 0 = 0
    BY <1>1 DEF Sums
  <2>3. Cardinality({} \cap T) = 0
    BY <2>1
  <2> QED
    BY <2>2, <2>3
<1>4. ASSUME NEW s \in SUBSET S, s # {}
      PROVE  pick[s] \in s /\ (s \ {pick[s]} \in P => s \in P)
  <2> DEFINE x == pick[s]
             r == s \ {x}
             k == Cardinality(r \cap T)
             n == Cardinality(s \cap T)
  <2>1. x \in s /\ x \in S /\ r \in SUBSET S
    BY <1>4, AnyOfIsOne
  <2>2. a[s] = f[x] + a[r] /\ a[r] \in Int
    BY <1>1, <1>4, <2>1 DEF Sums
  <2>3. k \in Nat /\ n \in Nat
    BY <1>2, <2>1
  <2>4. ASSUME a[r] = c * k PROVE a[s] = c * n
    <3>1. CASE x \in T
      <4>1. s \cap T = (r \cap T) \cup {x} /\ x \notin r \cap T
        BY <2>1, <3>1
      <4>2. n = k + 1
        <5> HIDE DEF x, r
        <5> QED
          BY <1>2, <2>1, <4>1, FS_AddElement
      <4>3. f[x] = c
        BY <2>1, <3>1
      <4> HIDE DEF f, x, r, k, n
      <4>4. c * (k + 1) = c * k + c
        BY <2>3
      <4> QED
        BY <2>2, <2>3, <2>4, <4>2, <4>3, <4>4
    <3>2. CASE x \notin T
      <4>1. s \cap T = r \cap T
        BY <2>1, <3>2
      <4>2. f[x] = 0
        BY <2>1, <3>2
      <4>3. n = k
        BY <4>1
      <4> HIDE DEF f, x, r, k, n
      <4> QED
        BY <2>2, <2>4, <4>2, <4>3
    <3> QED
      BY <3>1, <3>2
  <2>5. r \in P => a[r] = c * k
    OBVIOUS
  <2>6. a[s] = c * n => s \in P
    OBVIOUS
  <2> HIDE DEF P
  <2> QED
    BY <2>1, <2>4, <2>5, <2>6
<1>5. SUBSET S \subseteq P
  <2>1. PassedOn(S, pick, P)
    BY <1>3, <1>4 DEF PassedOn
  <2> HIDE DEF P, pick
  <2> QED
    BY <2>1, OneByOne
<1>6. S \cap T = T /\ S \in P
  BY <1>5
<1> QED
  BY <1>1, <1>6
=============================================================================
