-------------------------- MODULE CommonTheorems --------------------------
(***************************************************************************)
(* What several proofs need.  Sums over finite sets: the scheduler counts  *)
(* pages and tokens with MapThenSumSet, a fold that visits a set in the    *)
(* order CHOOSE dictates, and here is what such a sum is worth, whatever   *)
(* the order.  Lists without repetition: what the operations on the list   *)
(* of pending requests leave of one.                                       *)
(***************************************************************************)
EXTENDS Integers, SequencesExt, SequenceTheorems, FunctionTheorems, FiniteSetTheorems,
        WellFoundedInduction, TLAPS

(* The sum of f over S *)
Total(f, S) == MapThenSumSet(LAMBDA u : f[u], S)

-----------------------------------------------------------------------------
(* Induction, with sets of numbers and of sets in the place of predicates.  *)

LEMMA LeastNat ==
  ASSUME NEW T \in SUBSET Nat, T /= {}
  PROVE  \E n \in T : \A m \in T : ~(m < n)
<1> DEFINE R == {p \in Nat \X Nat : p[1] < p[2]}
<1>1. R = OpToRel(<, Nat)
  BY DEF OpToRel
<1>2. IsWellFoundedOn(R, Nat)
  BY <1>1, NatLessThanWellFounded
<1>3. PICK x \in T : \A y \in T : ~(<<y, x>> \in R)
  <2> HIDE DEF R
  <2>. QED  BY <1>2, WFMin
<1>4. \A y \in T : ~(y < x)
  BY <1>3
<1>. QED
  BY <1>4

LEMMA NatInduct ==
  ASSUME NEW N \in SUBSET Nat, 0 \in N, \A n \in N : n + 1 \in N PROVE N = Nat
<1> SUFFICES ASSUME Nat \ N /= {} PROVE FALSE
  OBVIOUS
<1>1. PICK n \in Nat \ N : \A m \in Nat \ N : ~(m < n)
  BY LeastNat
<1>2. n - 1 \in Nat /\ n - 1 < n
  BY <1>1
<1>3. n - 1 \in N
  BY <1>1, <1>2
<1>. QED
  BY <1>1, <1>2, <1>3

(* What holds of the empty set, and of every set one larger than one it holds
   of, holds of all subsets of a finite set. *)
LEMMA FiniteInduct ==
  ASSUME NEW S, IsFiniteSet(S), NEW F \in SUBSET (SUBSET S), {} \in F,
         \A T \in F : \A x \in S \ T : T \union {x} \in F
  PROVE  F = SUBSET S
<1> DEFINE N == {n \in Nat : \A T \in SUBSET S : Cardinality(T) = n => T \in F}
<1>0. \A T \in SUBSET S : IsFiniteSet(T) /\ Cardinality(T) \in Nat
  BY FS_Subset, FS_CardinalityType
<1>1. 0 \in N
  BY <1>0, FS_EmptySet
<1>2. ASSUME NEW n \in N PROVE n + 1 \in N
  <2>1. ASSUME NEW T \in SUBSET S, Cardinality(T) = n + 1 PROVE T \in F
    <3>1. T /= {}
      BY <1>0, <2>1, FS_EmptySet
    <3>2. PICK x \in T : TRUE
      BY <3>1
    <3>3. Cardinality(T \ {x}) = n
      BY <1>0, <2>1, FS_RemoveElement, SMTT(30)
    <3>4. T \ {x} \in F
      BY <3>3
    <3>5. T = (T \ {x}) \union {x} /\ x \in S \ (T \ {x})
      OBVIOUS
    <3>. QED  BY <3>4, <3>5
  <2>. QED  BY <2>1
<1>3. N = Nat
  <2> HIDE DEF N
  <2>1. N \in SUBSET Nat
    BY DEF N
  <2>. QED  BY <1>1, <1>2, <2>1, NatInduct
<1>. QED
  BY <1>0, <1>3

-----------------------------------------------------------------------------
(* The recursion MapThenSumSet unfolds to, and that it has a solution.      *)

Pick(s) == CHOOSE x \in s : TRUE

Unfolds(g, f, S) ==
  g = [s \in SUBSET S |-> IF s = {} THEN 0 ELSE f[Pick(s)] + g[s \ {Pick(s)}]]

LEMMA PickIn == ASSUME NEW s, s /= {} PROVE Pick(s) \in s
BY DEF Pick

LEMMA UnfoldExists ==
  ASSUME NEW S, IsFiniteSet(S), NEW f \in [S -> Int]
  PROVE  \E g \in [SUBSET S -> Int] : Unfolds(g, f, S)
<1> DEFINE L(n) == {s \in SUBSET S : Cardinality(s) <= n}
           Rec(g, s) == IF s = {} THEN 0 ELSE f[Pick(s)] + g[s \ {Pick(s)}]
           N == {n \in Nat : \E g \in [L(n) -> Int] : \A s \in L(n) : g[s] = Rec(g, s)}
<1>0. \A s \in SUBSET S : IsFiniteSet(s) /\ Cardinality(s) \in Nat /\ Cardinality(s) <= Cardinality(S)
  BY FS_Subset, FS_CardinalityType
<1>1. 0 \in N
  <2> DEFINE g == [s \in L(0) |-> 0]
  <2>1. \A s \in L(0) : s = {}
    BY <1>0, FS_EmptySet
  <2>2. g \in [L(0) -> Int] /\ \A s \in L(0) : g[s] = Rec(g, s)
    BY <2>1
  <2>. QED  BY <2>2
<1>2. ASSUME NEW n \in N PROVE n + 1 \in N
  <2>1. PICK g \in [L(n) -> Int] : \A s \in L(n) : g[s] = Rec(g, s)
    OBVIOUS
  <2> DEFINE h == [s \in L(n + 1) |-> Rec(g, s)]
  <2>2. ASSUME NEW s \in L(n + 1), s /= {}
        PROVE  Pick(s) \in S /\ s \ {Pick(s)} \in L(n)
    <3>1. Pick(s) \in s
      BY <2>2, PickIn
    <3>2. Cardinality(s \ {Pick(s)}) = Cardinality(s) - 1
      BY <1>0, <3>1, FS_RemoveElement
    <3>3. Cardinality(s) \in Nat /\ Cardinality(s) <= n + 1 /\ n \in Nat
      BY <1>0
    <3>. QED  BY <3>1, <3>2, <3>3
  <2>3. h \in [L(n + 1) -> Int]
    <3>1. \A s \in L(n + 1) : Rec(g, s) \in Int
      BY <2>2
    <3>. QED  BY <3>1
  <2>4. \A s \in L(n) : s \in L(n + 1) /\ h[s] = g[s]
    <3>1. \A s \in L(n) : s \in L(n + 1)
      BY <1>0
    <3>. QED  BY <2>1, <3>1
  <2>5. \A s \in L(n + 1) : h[s] = Rec(h, s)
    BY <2>2, <2>4
  <2>6. \E k \in [L(n + 1) -> Int] : \A s \in L(n + 1) : k[s] = Rec(k, s)
    <3> HIDE DEF h, L, Rec
    <3>. QED  BY <2>3, <2>5
  <2>7. n + 1 \in Nat
    OBVIOUS
  <2> HIDE DEF L, Rec
  <2>. QED  BY <2>6, <2>7
<1>3. N = Nat
  <2> HIDE DEF N
  <2>1. N \in SUBSET Nat
    BY DEF N
  <2>. QED  BY <1>1, <1>2, <2>1, NatInduct
<1>4. Cardinality(S) \in Nat /\ L(Cardinality(S)) = SUBSET S
  BY <1>0, FS_CardinalityType
<1>5. PICK g \in [SUBSET S -> Int] : \A s \in SUBSET S : g[s] = Rec(g, s)
  <2> HIDE DEF L, Rec
  <2>. QED  BY <1>3, <1>4
<1>6. Unfolds(g, f, S)
  BY <1>5 DEF Unfolds
<1>. QED
  BY <1>6

(* The order does not matter: any element may be taken out first. *)
AnyOrder(g, f, S) == \A T \in SUBSET S : \A y \in T : g[T] = f[y] + g[T \ {y}]

LEMMA UnfoldOrder ==
  ASSUME NEW S, IsFiniteSet(S), NEW f \in [S -> Int], NEW g \in [SUBSET S -> Int],
         Unfolds(g, f, S)
  PROVE  AnyOrder(g, f, S)
<1> DEFINE N == {n \in Nat : \A s \in SUBSET S : Cardinality(s) = n =>
                               \A x \in s : g[s] = f[x] + g[s \ {x}]}
<1>0. \A s \in SUBSET S : IsFiniteSet(s) /\ Cardinality(s) \in Nat
  BY FS_Subset, FS_CardinalityType
<1>1. 0 \in N
  BY <1>0, FS_EmptySet
<1>2. ASSUME NEW n \in N PROVE n + 1 \in N
  <2>1. ASSUME NEW s \in SUBSET S, Cardinality(s) = n + 1, NEW x \in s
        PROVE  g[s] = f[x] + g[s \ {x}]
    <3> DEFINE c == Pick(s)
    <3>1. c \in s /\ c \in S /\ s /= {}
      BY PickIn
    <3>2. g[s] = f[c] + g[s \ {c}]
      BY <3>1 DEF Unfolds
    <3> HIDE DEF c
    <3>3. CASE x = c
      BY <3>2, <3>3
    <3>4. CASE x /= c
      <4>1. Cardinality(s \ {c}) = n /\ Cardinality(s \ {x}) = n
        <5>1. /\ Cardinality(s \ {c}) = Cardinality(s) - 1
              /\ Cardinality(s \ {x}) = Cardinality(s) - 1
          BY <1>0, <3>1, FS_RemoveElement
        <5>2. n \in Nat
          OBVIOUS
        <5>. QED  BY <2>1, <5>1, <5>2
      <4>2. /\ s \ {c} \in SUBSET S /\ x \in s \ {c}
            /\ s \ {x} \in SUBSET S /\ c \in s \ {x}
        BY <3>1, <3>4
      <4>3. g[s \ {c}] = f[x] + g[(s \ {c}) \ {x}]
        BY <4>1, <4>2
      <4>4. g[s \ {x}] = f[c] + g[(s \ {x}) \ {c}]
        BY <4>1, <4>2
      <4>5. (s \ {c}) \ {x} = (s \ {x}) \ {c}
        OBVIOUS
      <4> DEFINE a == g[(s \ {x}) \ {c}]
      <4>6. f[x] \in Int /\ f[c] \in Int /\ a \in Int
        BY <3>1
      <4>7. g[s] = f[c] + (f[x] + a) /\ g[s \ {x}] = f[c] + a
        BY <3>2, <4>3, <4>4, <4>5
      <4> HIDE DEF a
      <4>. QED  BY <4>6, <4>7
    <3>. QED  BY <3>3, <3>4
  <2>. QED  BY <2>1
<1>3. N = Nat
  <2> HIDE DEF N
  <2>1. N \in SUBSET Nat
    BY DEF N
  <2>. QED  BY <1>1, <1>2, <2>1, NatInduct
<1>. QED
  BY <1>0, <1>3 DEF AnyOrder

(* All solutions agree, on all subsets of their domains. *)
LEMMA UnfoldUnique ==
  ASSUME NEW S, IsFiniteSet(S), NEW f \in [S -> Int], NEW g, Unfolds(g, f, S),
         NEW T \in SUBSET S, NEW e, NEW h, Unfolds(h, e, T), \A x \in T : e[x] = f[x]
  PROVE  h[T] = g[T]
<1> DEFINE N == {n \in Nat : \A s \in SUBSET T : Cardinality(s) = n => h[s] = g[s]}
<1>0. \A s \in SUBSET S : IsFiniteSet(s) /\ Cardinality(s) \in Nat
  BY FS_Subset, FS_CardinalityType
<1>1. 0 \in N
  <2>1. \A s \in SUBSET T : Cardinality(s) = 0 => s = {}
    BY <1>0, FS_EmptySet
  <2>2. h[{}] = 0 /\ g[{}] = 0
    BY DEF Unfolds
  <2>. QED  BY <2>1, <2>2
<1>2. ASSUME NEW n \in N PROVE n + 1 \in N
  <2>1. ASSUME NEW s \in SUBSET T, Cardinality(s) = n + 1 PROVE h[s] = g[s]
    <3>1. s /= {} /\ n \in Nat
      BY <1>0, <2>1, FS_EmptySet
    <3>2. Pick(s) \in s
      BY <3>1, PickIn
    <3>3. Cardinality(s \ {Pick(s)}) = n
      BY <1>0, <2>1, <3>1, <3>2, FS_RemoveElement
    <3>4. h[s \ {Pick(s)}] = g[s \ {Pick(s)}]
      BY <3>3
    <3>5. h[s] = e[Pick(s)] + h[s \ {Pick(s)}] /\ g[s] = f[Pick(s)] + g[s \ {Pick(s)}]
      BY <3>1, <3>2 DEF Unfolds
    <3>. QED  BY <3>2, <3>4, <3>5
  <2>. QED  BY <2>1
<1>3. N = Nat
  <2> HIDE DEF N
  <2>1. N \in SUBSET Nat
    BY DEF N
  <2>. QED  BY <1>1, <1>2, <2>1, NatInduct
<1>. QED
  BY <1>0, <1>3

(* A sum is what any solution says of its set. *)
LEMMA TotalIs ==
  ASSUME NEW S, IsFiniteSet(S), NEW f \in [S -> Int], NEW g, Unfolds(g, f, S),
         NEW T \in SUBSET S
  PROVE  Total(f, T) = g[T]
<1>1. IsFiniteSet(T) /\ [x \in T |-> f[x]] \in [T -> Int]
  BY FS_Subset
<1> DEFINE e == [x \in T |-> f[x]]
           h == CHOOSE iter : iter = [s \in SUBSET T |->
                  IF s = {} THEN 0
                  ELSE f[CHOOSE x \in s : TRUE] + iter[s \ {CHOOSE x \in s : TRUE}]]
<1>2. \E k : Unfolds(k, e, T)
  BY <1>1, UnfoldExists
<1>3. \E k : Unfolds(k, f, T)
  <2>1. PICK k : Unfolds(k, e, T)
    BY <1>2
  <2>2. \A s \in SUBSET T : s /= {} => e[Pick(s)] = f[Pick(s)]
    BY PickIn
  <2> DEFINE rec(d, s) == IF s = {} THEN 0 ELSE d[Pick(s)] + k[s \ {Pick(s)}]
  <2>3. \A s \in SUBSET T : rec(e, s) = rec(f, s)
    BY <2>2
  <2>4. k = [s \in SUBSET T |-> rec(e, s)]
    BY <2>1 DEF Unfolds
  <2>5. k = [s \in SUBSET T |-> rec(f, s)]
    <3> HIDE DEF rec
    <3>. QED  BY <2>3, <2>4
  <2>. QED  BY <2>5 DEF Unfolds
<1>4. Total(f, T) = h[T]
  BY DEF Total, MapThenSumSet, MapThenFoldSet
<1>5. Unfolds(h, f, T)
  BY <1>3 DEF Unfolds, Pick
<1>. QED
  <2> HIDE DEF h
  <2>. QED  BY <1>4, <1>5, UnfoldUnique

-----------------------------------------------------------------------------
(* The rules of sums.                                                       *)

LEMMA TotalRules ==
  ASSUME NEW S, IsFiniteSet(S), NEW f \in [S -> Int]
  PROVE  /\ Total(f, {}) = 0
         /\ \A T \in SUBSET S : Total(f, T) \in Int
         /\ \A T \in SUBSET S : \A x \in S \ T : Total(f, T \union {x}) = Total(f, T) + f[x]
<1>1. PICK g \in [SUBSET S -> Int] : Unfolds(g, f, S)
  BY UnfoldExists
<1>2. \A T \in SUBSET S : Total(f, T) = g[T]
  BY <1>1, TotalIs
<1>3. g[{}] = 0
  BY <1>1 DEF Unfolds
<1>4. AnyOrder(g, f, S)
  BY <1>1, UnfoldOrder
<1>5. ASSUME NEW T \in SUBSET S, NEW x \in S \ T PROVE g[T \union {x}] = g[T] + f[x]
  <2> DEFINE R == T \union {x}
  <2>1. R \in SUBSET S /\ x \in R /\ R \ {x} = T
    OBVIOUS
  <2>2. g[R] = f[x] + g[T]
    <3> HIDE DEF R
    <3>1. g[R] = f[x] + g[R \ {x}]
      BY <1>4, <2>1 DEF AnyOrder
    <3>. QED  BY <2>1, <3>1
  <2>3. f[x] \in Int /\ g[T] \in Int
    OBVIOUS
  <2> HIDE DEF R
  <2>4. g[R] = g[T] + f[x]
    BY <2>2, <2>3
  <2>. QED  BY <2>4 DEF R
<1>. QED
  BY <1>2, <1>3, <1>5

(* Sums compare term by term. *)
LEMMA TotalMono ==
  ASSUME NEW S, IsFiniteSet(S), NEW e \in [S -> Int], NEW f \in [S -> Int],
         \A x \in S : e[x] <= f[x]
  PROVE  Total(e, S) <= Total(f, S)
<1> DEFINE F == {T \in SUBSET S : Total(e, T) <= Total(f, T)}
<1>1. {} \in F
  BY TotalRules
<1>2. ASSUME NEW T \in F, NEW x \in S \ T PROVE T \union {x} \in F
  <2>1. /\ Total(e, T \union {x}) = Total(e, T) + e[x]
        /\ Total(f, T \union {x}) = Total(f, T) + f[x]
        /\ Total(e, T) \in Int /\ Total(f, T) \in Int
    BY TotalRules
  <2>2. e[x] \in Int /\ f[x] \in Int /\ e[x] <= f[x] /\ Total(e, T) <= Total(f, T)
    OBVIOUS
  <2>3. Total(e, T \union {x}) <= Total(f, T \union {x})
    BY <2>1, <2>2
  <2>. QED  BY <2>3
<1>3. F = SUBSET S
  <2> HIDE DEF F
  <2>1. F \in SUBSET (SUBSET S)
    BY DEF F
  <2>. QED  BY <1>1, <1>2, <2>1, FiniteInduct
<1>. QED
  BY <1>3

(* Sums add up term by term. *)
LEMMA TotalPlus ==
  ASSUME NEW S, IsFiniteSet(S), NEW d \in [S -> Int], NEW e \in [S -> Int], NEW f \in [S -> Int],
         \A x \in S : f[x] = d[x] + e[x]
  PROVE  Total(f, S) = Total(d, S) + Total(e, S)
<1> DEFINE F == {T \in SUBSET S : Total(f, T) = Total(d, T) + Total(e, T)}
<1>1. {} \in F
  BY TotalRules
<1>2. ASSUME NEW T \in F, NEW x \in S \ T PROVE T \union {x} \in F
  <2>1. /\ Total(d, T \union {x}) = Total(d, T) + d[x]
        /\ Total(e, T \union {x}) = Total(e, T) + e[x]
        /\ Total(f, T \union {x}) = Total(f, T) + f[x]
        /\ Total(d, T) \in Int /\ Total(e, T) \in Int /\ Total(f, T) \in Int
    BY TotalRules
  <2>2. /\ d[x] \in Int /\ e[x] \in Int /\ f[x] = d[x] + e[x]
        /\ Total(f, T) = Total(d, T) + Total(e, T)
    OBVIOUS
  <2>3. Total(f, T \union {x}) = Total(d, T \union {x}) + Total(e, T \union {x})
    BY <2>1, <2>2
  <2>. QED  BY <2>3
<1>3. F = SUBSET S
  <2> HIDE DEF F
  <2>1. F \in SUBSET (SUBSET S)
    BY DEF F
  <2>. QED  BY <1>1, <1>2, <2>1, FiniteInduct
<1>. QED
  BY <1>3

(* A sum over a part is a sum over the whole, with nothing outside the part. *)
LEMMA TotalPart ==
  ASSUME NEW S, IsFiniteSet(S), NEW P \in SUBSET S, NEW e \in [S -> Int], NEW f \in [S -> Int],
         \A x \in P : f[x] = e[x], \A x \in S \ P : f[x] = 0
  PROVE  Total(f, S) = Total(e, P)
<1> DEFINE F == {T \in SUBSET S : Total(f, T) = Total(e, T \intersect P)}
<1>1. {} \in F
  <2>1. {} \intersect P = {}
    OBVIOUS
  <2>. QED  BY <2>1, TotalRules
<1>2. ASSUME NEW T \in F, NEW x \in S \ T PROVE T \union {x} \in F
  <2>1. /\ Total(f, T \union {x}) = Total(f, T) + f[x]
        /\ Total(f, T) \in Int /\ T \intersect P \in SUBSET S
    BY TotalRules
  <2>2. CASE x \in P
    <3>1. (T \union {x}) \intersect P = (T \intersect P) \union {x} /\ x \in S \ (T \intersect P)
      BY <2>2
    <3> DEFINE Q == T \intersect P
    <3>2. Q \in SUBSET S /\ x \in S \ Q
      OBVIOUS
    <3>3. Q \in SUBSET S /\ x \in S \ Q => Total(e, Q \union {x}) = Total(e, Q) + e[x]
      <4> HIDE DEF Q
      <4>. QED  BY TotalRules
    <3>. QED  BY <2>1, <2>2, <3>1, <3>2, <3>3
  <2>3. CASE x \notin P
    <3>1. (T \union {x}) \intersect P = T \intersect P /\ f[x] = 0
      BY <2>3
    <3>2. Total(f, T \union {x}) = Total(f, T)
      BY <2>1, <3>1
    <3>. QED  BY <3>1, <3>2
  <2>. QED  BY <2>2, <2>3
<1>3. F = SUBSET S
  <2> HIDE DEF F
  <2>1. F \in SUBSET (SUBSET S)
    BY DEF F
  <2>. QED  BY <1>1, <1>2, <2>1, FiniteInduct
<1>4. S \intersect P = P /\ S \in F
  BY <1>3
<1>. QED
  BY <1>4

LEMMA TotalZero ==
  ASSUME NEW S, IsFiniteSet(S), NEW f \in [S -> Int], \A x \in S : f[x] = 0
  PROVE  Total(f, S) = 0
BY TotalPart, TotalRules

(* A sum of which one term grows by d grows by d. *)
LEMMA TotalBump ==
  ASSUME NEW S, IsFiniteSet(S), NEW e \in [S -> Int], NEW f \in [S -> Int], NEW x \in S,
         NEW d \in Int, f[x] = e[x] + d, \A y \in S : y /= x => f[y] = e[y]
  PROVE  Total(f, S) = Total(e, S) + d
<1> DEFINE one == [y \in S |-> IF y = x THEN d ELSE 0]
<1>1. one \in [S -> Int] /\ \A y \in S : f[y] = e[y] + one[y]
  OBVIOUS
<1>2. Total(one, S) = d
  <2>1. {x} \in SUBSET S /\ \A y \in S \ {x} : one[y] = 0
    OBVIOUS
  <2> DEFINE c == [y \in S |-> d]
  <2>2. c \in [S -> Int] /\ \A y \in {x} : one[y] = c[y]
    OBVIOUS
  <2> HIDE DEF one
  <2>3. Total(one, S) = Total(c, {x})
    <3> HIDE DEF c
    <3>. QED  BY <1>1, <2>1, <2>2, TotalPart
  <2>4. Total(c, {} \union {x}) = 0 + c[x]
    <3> DEFINE nil == {}
    <3>1. c \in [S -> Int] /\ nil \in SUBSET S /\ x \in S \ nil
      OBVIOUS
    <3> HIDE DEF c
    <3>2. Total(c, nil) = 0
      BY <3>1, TotalRules
    <3> HIDE DEF nil
    <3>3. Total(c, nil \union {x}) = Total(c, nil) + c[x]
      BY <3>1, TotalRules
    <3>4. Total(c, nil \union {x}) = 0 + c[x]
      BY <3>2, <3>3
    <3>. QED  BY <3>4 DEF nil
  <2>5. {} \union {x} = {x} /\ c[x] = d
    OBVIOUS
  <2> HIDE DEF c
  <2>. QED  BY <2>3, <2>4, <2>5
<1> HIDE DEF one
<1>. QED
  BY <1>1, <1>2, TotalPlus

(* A fold whose terms are those of f is the sum of f: its recursion has a
   solution, and any solution gives the sum. *)
LEMMA TotalHas ==
  ASSUME NEW S, IsFiniteSet(S), NEW f \in [S -> Int], NEW T \in SUBSET S
  PROVE  /\ \E g : Unfolds(g, f, T)
         /\ \A g : Unfolds(g, f, T) => Total(f, T) = g[T]
<1> DEFINE e == [x \in T |-> f[x]]
<1>1. PICK g : Unfolds(g, f, S)
  BY UnfoldExists
<1>2. Total(f, T) = g[T]
  BY <1>1, TotalIs
<1>3. \A h : Unfolds(h, f, T) => h[T] = g[T]
  BY <1>1, UnfoldUnique
<1>4. \E h : Unfolds(h, f, T)
  <2>1. IsFiniteSet(T) /\ e \in [T -> Int]
    BY FS_Subset
  <2>2. PICK k : Unfolds(k, e, T)
    <3> HIDE DEF e
    <3>. QED  BY <2>1, UnfoldExists
  <2> DEFINE rec(d, s) == IF s = {} THEN 0 ELSE d[Pick(s)] + k[s \ {Pick(s)}]
  <2>3. \A s \in SUBSET T : rec(e, s) = rec(f, s)
    <3>1. \A s \in SUBSET T : s /= {} => e[Pick(s)] = f[Pick(s)]
      BY PickIn
    <3>. QED  BY <3>1
  <2>4. k = [s \in SUBSET T |-> rec(e, s)]
    BY <2>2 DEF Unfolds
  <2>5. k = [s \in SUBSET T |-> rec(f, s)]
    <3> HIDE DEF rec
    <3>. QED  BY <2>3, <2>4
  <2>. QED  BY <2>5 DEF Unfolds
<1>. QED
  BY <1>2, <1>3, <1>4

(* Sums over the same terms are the same, and a sum over two parts is the
   sum of their sums. *)
LEMMA TotalAgree ==
  ASSUME NEW S, IsFiniteSet(S), NEW e \in [S -> Int], NEW R, IsFiniteSet(R), NEW f \in [R -> Int],
         NEW T \in SUBSET S, T \in SUBSET R, \A x \in T : e[x] = f[x]
  PROVE  Total(e, T) = Total(f, T)
<1> DEFINE F == {U \in SUBSET T : Total(e, U) = Total(f, U)}
<1>0. IsFiniteSet(T)
  BY FS_Subset
<1>1. {} \in F
  BY TotalRules
<1>2. ASSUME NEW U \in F, NEW x \in T \ U PROVE U \union {x} \in F
  <2>1. U \in SUBSET S /\ U \in SUBSET R /\ x \in S \ U /\ x \in R \ U
    OBVIOUS
  <2>2. Total(e, U \union {x}) = Total(e, U) + e[x] /\ Total(f, U \union {x}) = Total(f, U) + f[x]
    BY <2>1, TotalRules
  <2>. QED  BY <2>2
<1>3. F = SUBSET T
  <2> HIDE DEF F
  <2>1. F \in SUBSET (SUBSET T)
    BY DEF F
  <2>. QED  BY <1>0, <1>1, <1>2, <2>1, FiniteInduct
<1>. QED
  BY <1>3

LEMMA TotalUnion ==
  ASSUME NEW S, IsFiniteSet(S), NEW f \in [S -> Int], NEW A \in SUBSET S, NEW B \in SUBSET S,
         A \intersect B = {}
  PROVE  /\ Total(f, A \union B) = Total(f, A) + Total(f, B)
         /\ Total(f, A) \in Int /\ Total(f, B) \in Int
<1> DEFINE F == {U \in SUBSET B : Total(f, A \union U) = Total(f, A) + Total(f, U)}
<1>0. IsFiniteSet(B) /\ Total(f, A) \in Int /\ Total(f, B) \in Int
  BY FS_Subset, TotalRules
<1>1. {} \in F
  <2>1. A \union {} = A /\ Total(f, {}) = 0
    BY TotalRules
  <2>. QED  BY <1>0, <2>1
<1>2. ASSUME NEW U \in F, NEW x \in B \ U PROVE U \union {x} \in F
  <2> DEFINE W == A \union U
  <2>1. U \in SUBSET S /\ x \in S \ U /\ W \in SUBSET S /\ x \in S \ W /\ A \union (U \union {x}) = W \union {x}
    OBVIOUS
  <2>2. Total(f, U \union {x}) = Total(f, U) + f[x] /\ Total(f, U) \in Int /\ f[x] \in Int
    BY <2>1, TotalRules
  <2>3. Total(f, W) = Total(f, A) + Total(f, U)
    OBVIOUS
  <2> HIDE DEF W
  <2>4. Total(f, W \union {x}) = Total(f, W) + f[x]
    BY <2>1, TotalRules
  <2>5. Total(f, W \union {x}) = Total(f, A) + Total(f, U \union {x})
    BY <1>0, <2>2, <2>3, <2>4
  <2>. QED  BY <2>1, <2>5
<1>3. F = SUBSET B
  <2> HIDE DEF F
  <2>1. F \in SUBSET (SUBSET B)
    BY DEF F
  <2>. QED  BY <1>0, <1>1, <1>2, <2>1, FiniteInduct
<1>. QED
  BY <1>0, <1>3

(* A sum without one of its terms, the others as they were *)
LEMMA TotalDrop ==
  ASSUME NEW S, IsFiniteSet(S), NEW e \in [S -> Int], NEW x \in S, NEW f \in [S \ {x} -> Int],
         \A y \in S \ {x} : f[y] = e[y]
  PROVE  Total(e, S) = Total(f, S \ {x}) + e[x] /\ Total(f, S \ {x}) \in Int /\ e[x] \in Int
<1> DEFINE T == S \ {x}
<1>1. T \in SUBSET S /\ T \in SUBSET T /\ x \in S \ T /\ T \union {x} = S /\ \A y \in T : e[y] = f[y]
  OBVIOUS
<1>2. IsFiniteSet(T) /\ f \in [T -> Int]
  BY <1>1, FS_Subset
<1> HIDE DEF T
<1>3. Total(e, T) = Total(f, T)
  BY ONLY <1>1, <1>2, IsFiniteSet(S), e \in [S -> Int], TotalAgree
<1>4. Total(e, T \union {x}) = Total(e, T) + e[x]
  BY ONLY <1>1, IsFiniteSet(S), e \in [S -> Int], TotalRules
<1>5. Total(f, T) \in Int
  BY <1>1, <1>2, TotalRules
<1>. QED
  BY <1>1, <1>3, <1>4, <1>5 DEF T

-----------------------------------------------------------------------------
(* PrefillManager.abort_req leaves the other entries of the list in place:
   removing an element of a sequence gives a sequence of the others. *)
LEMMA RemoveAtProperties ==
  ASSUME NEW S, NEW s \in Seq(S), NEW i \in DOMAIN s
  PROVE  /\ RemoveAt(s, i) \in Seq(S)
         /\ Len(RemoveAt(s, i)) = Len(s) - 1
         /\ \A j \in 1 .. Len(s) - 1 :
              RemoveAt(s, i)[j] = IF j < i THEN s[j] ELSE s[j + 1]
<1> DEFINE a == SubSeq(s, 1, i - 1)
           b == SubSeq(s, i + 1, Len(s))
<1>1. i \in 1 .. Len(s) /\ Len(s) \in Nat /\ \A j \in 1 .. Len(s) : s[j] \in S
  OBVIOUS
<1>2. a \in Seq(S) /\ Len(a) = i - 1 /\ \A j \in 1 .. i - 1 : a[j] = s[j]
  BY <1>1, SubSeqProperties
<1>3. b \in Seq(S) /\ Len(b) = Len(s) - i /\ \A j \in 1 .. Len(s) - i : b[j] = s[i + j]
  <2>1. /\ b \in Seq(S)
        /\ Len(b) = IF i + 1 <= Len(s) THEN Len(s) - (i + 1) + 1 ELSE 0
        /\ \A j \in 1 .. Len(s) - (i + 1) + 1 : b[j] = s[(i + 1) + j - 1]
    <3>1. i + 1 \in Int /\ Len(s) \in Int /\ \A j \in i + 1 .. Len(s) : s[j] \in S
      BY <1>1
    <3>. QED  BY <3>1, SubSeqProperties
  <2>. QED  BY <1>1, <2>1
<1> HIDE DEF a, b
<1>4. /\ a \o b \in Seq(S) /\ Len(a \o b) = Len(a) + Len(b)
      /\ \A j \in 1 .. Len(a) + Len(b) :
           (a \o b)[j] = IF j <= Len(a) THEN a[j] ELSE b[j - Len(a)]
  BY <1>2, <1>3, ConcatProperties
<1> DEFINE c == a \o b
<1>5. RemoveAt(s, i) = c
  BY DEF RemoveAt, a, b
<1>6. c \in Seq(S) /\ Len(c) = Len(s) - 1
  BY <1>1, <1>2, <1>3, <1>4
<1>7. ASSUME NEW j \in 1 .. Len(s) - 1
      PROVE  c[j] = IF j < i THEN s[j] ELSE s[j + 1]
  <2>0. j \in 1 .. Len(a) + Len(b)
    BY <1>1, <1>2, <1>3
  <2>a. c[j] = IF j <= Len(a) THEN a[j] ELSE b[j - Len(a)]
    BY <1>4, <2>0
  <2> HIDE DEF c
  <2>1. CASE j < i
    BY <1>1, <1>2, <2>a, <2>1
  <2>2. CASE ~(j < i)
    <3>1. j - Len(a) \in 1 .. Len(s) - i /\ i + (j - Len(a)) = j + 1 /\ ~(j <= Len(a))
      BY <1>1, <1>2, <2>2
    <3>. QED  BY <1>3, <2>2, <2>a, <3>1
  <2>. QED  BY <2>1, <2>2
<1>. QED
  BY <1>5, <1>6, <1>7

LEMMA EmptyList == ASSUME NEW S PROVE <<>> \in Seq(S) /\ IsInjective(<<>>) /\ Range(<<>>) = {}
BY DEF IsInjective, Range

LEMMA AppendOnce ==
  ASSUME NEW S, NEW s \in Seq(S), NEW e \in S, IsInjective(s), e \notin Range(s)
  PROVE  Append(s, e) \in Seq(S) /\ IsInjective(Append(s, e)) /\ Range(Append(s, e)) = Range(s) \union {e}
<1> DEFINE t == Append(s, e)
<1>1. /\ Len(s) \in Nat /\ DOMAIN s = 1 .. Len(s) /\ DOMAIN t = 1 .. Len(s) + 1
      /\ \A j \in 1 .. Len(s) : t[j] = s[j]
      /\ t[Len(s) + 1] = e /\ t \in Seq(S)
  BY AppendProperties
<1> HIDE DEF t
<1>2. \A j \in 1 .. Len(s) : t[j] \in Range(s) /\ t[j] /= e
  BY <1>1 DEF Range
<1>3. \A j \in DOMAIN t : j = Len(s) + 1 \/ j \in 1 .. Len(s)
  BY <1>1
<1>4. IsInjective(t)
  BY <1>1, <1>2, <1>3 DEF IsInjective
<1>5. Range(t) = Range(s) \union {e}
  <2>1. Len(s) + 1 \in DOMAIN t /\ \A j \in DOMAIN s : j \in DOMAIN t /\ t[j] = s[j]
    BY <1>1
  <2>. QED  BY <1>1, <1>2, <1>3, <2>1 DEF Range
<1>. QED
  BY <1>1, <1>4, <1>5 DEF t

LEMMA TailOnce ==
  ASSUME NEW S, NEW s \in Seq(S), s /= <<>>, IsInjective(s)
  PROVE  /\ Head(s) \in S /\ Head(s) \in Range(s) /\ Head(s) = s[1] /\ 1 \in DOMAIN s
         /\ Tail(s) \in Seq(S) /\ IsInjective(Tail(s)) /\ Range(Tail(s)) = Range(s) \ {Head(s)}
<1> DEFINE t == Tail(s)
<1>1. /\ Len(s) \in Nat \ {0} /\ DOMAIN s = 1 .. Len(s) /\ DOMAIN t = 1 .. Len(s) - 1
      /\ \A j \in 1 .. Len(s) - 1 : t[j] = s[j + 1]
      /\ t \in Seq(S)
  BY HeadTailProperties, EmptySeq
<1>0. Head(s) = s[1] /\ 1 \in DOMAIN s
  BY <1>1
<1> HIDE DEF t
<1>2. \A j \in DOMAIN t : j + 1 \in DOMAIN s /\ t[j] = s[j + 1] /\ j + 1 /= 1
  BY <1>1
<1>3. IsInjective(t)
  <2> SUFFICES ASSUME NEW i \in DOMAIN t, NEW j \in DOMAIN t, t[i] = t[j] PROVE i = j
    BY DEF IsInjective
  <2>1. i + 1 = j + 1
    BY <1>2 DEF IsInjective
  <2>. QED  BY <1>1, <2>1
<1>4. Range(t) = Range(s) \ {Head(s)}
  <2>1. ASSUME NEW j \in DOMAIN t PROVE t[j] \in Range(s) /\ t[j] /= Head(s)
    BY <1>0, <1>2 DEF Range, IsInjective
  <2>2. ASSUME NEW j \in DOMAIN s, s[j] /= Head(s) PROVE s[j] \in Range(t)
    <3>1. j - 1 \in DOMAIN t /\ s[j] = t[j - 1]
      BY <1>0, <1>1, <2>2
    <3>. QED  BY <3>1 DEF Range
  <2>. QED  BY <2>1, <2>2 DEF Range
<1>5. Head(s) \in S /\ Head(s) \in Range(s)
  BY <1>0, HeadTailProperties DEF Range
<1>. QED
  BY <1>0, <1>1, <1>3, <1>4, <1>5 DEF t

LEMMA RemoveAtOnce ==
  ASSUME NEW S, NEW s \in Seq(S), NEW i \in DOMAIN s, IsInjective(s)
  PROVE  /\ RemoveAt(s, i) \in Seq(S) /\ IsInjective(RemoveAt(s, i))
         /\ Range(RemoveAt(s, i)) = Range(s) \ {s[i]}
<1> DEFINE t == RemoveAt(s, i)
           at(j) == IF j < i THEN j ELSE j + 1
<1>0. Len(s) \in Nat /\ i \in 1 .. Len(s) /\ DOMAIN s = 1 .. Len(s)
  OBVIOUS
<1>4. /\ t \in Seq(S) /\ Len(t) = Len(s) - 1
      /\ \A j \in 1 .. Len(s) - 1 : t[j] = IF j < i THEN s[j] ELSE s[j + 1]
  BY RemoveAtProperties
<1> HIDE DEF t
<1>3. DOMAIN t = 1 .. Len(s) - 1
  BY <1>4
<1>5. \A j \in DOMAIN t : at(j) \in DOMAIN s /\ at(j) /= i /\ t[j] = s[at(j)]
  BY <1>0, <1>3, <1>4
<1>6. \A j, k \in DOMAIN t : at(j) = at(k) => j = k
  BY <1>0, <1>3
<1>7. \A j \in DOMAIN s : j /= i => \E k \in DOMAIN t : at(k) = j
  <2> TAKE j \in DOMAIN s
  <2>1. CASE j < i
    BY <1>0, <1>3, <2>1
  <2>2. CASE j > i
    <3>1. j - 1 \in DOMAIN t /\ at(j - 1) = j
      BY <1>0, <1>3, <2>2
    <3>. QED  BY <3>1
  <2>. QED  BY <1>0, <2>1, <2>2
<1> HIDE DEF at
<1>8. IsInjective(t)
  <2> SUFFICES ASSUME NEW j \in DOMAIN t, NEW k \in DOMAIN t, t[j] = t[k] PROVE j = k
    BY DEF IsInjective
  <2>1. at(j) = at(k)
    BY <1>5 DEF IsInjective
  <2>. QED  BY <1>6, <2>1
<1>9. Range(t) = Range(s) \ {s[i]}
  <2>1. ASSUME NEW j \in DOMAIN t PROVE t[j] \in Range(s) /\ t[j] /= s[i]
    BY <1>5 DEF IsInjective, Range
  <2>2. ASSUME NEW j \in DOMAIN s, s[j] /= s[i] PROVE s[j] \in Range(t)
    BY <1>5, <1>7, <2>2 DEF Range
  <2>. QED  BY <2>1, <2>2 DEF Range
<1>. QED
  BY <1>4, <1>8, <1>9 DEF t

(* Any order of a finite set lists it. *)
LEMMA OrderOnce ==
  ASSUME NEW S, NEW T \in SUBSET S, IsFiniteSet(T), NEW s \in SetToSeqs(T)
  PROVE  s \in Seq(S) /\ IsInjective(s) /\ Range(s) = T /\ Len(s) = Cardinality(T)
<1> DEFINE n == Cardinality(T)
           D == 1 .. n
<1>1. n \in Nat
  BY FS_CardinalityType
<1>2. s \in [D -> T] /\ \A i, j \in D : i /= j => s[i] /= s[j]
  BY DEF SetToSeqs
<1> HIDE DEF n
<1>3. IsInjective(s) /\ s \in Injection(D, T)
  BY <1>2 DEF IsInjective, Injection
<1>4. IsFiniteSet(D) /\ Cardinality(D) = n
  BY <1>1, FS_Interval
<1>5. s \in Surjection(D, T)
  BY <1>3, <1>4, FS_Injection DEF n
<1>6. Range(s) = T
  BY <1>5, Fun_SurjectionProperties
<1>7. s \in Seq(S) /\ Len(s) = n
  BY <1>1, <1>2
<1>. QED
  BY <1>3, <1>6, <1>7 DEF n

-----------------------------------------------------------------------------
(* How often something occurs in a list: the pages a list hands over are     *)
(* counted where they were and where they are.                               *)

Count(x, s) == Cardinality({i \in DOMAIN s : s[i] = x})

LEMMA CountIs ==
  ASSUME NEW S, NEW s \in Seq(S), NEW x
  PROVE  IsFiniteSet({i \in DOMAIN s : s[i] = x}) /\ Count(x, s) \in Nat
<1>1. Len(s) \in Nat /\ DOMAIN s = 1 .. Len(s)
  OBVIOUS
<1>2. IsFiniteSet(1 .. Len(s))
  BY <1>1, FS_Interval
<1> DEFINE A == {i \in DOMAIN s : s[i] = x}
<1>3. A \in SUBSET (1 .. Len(s))
  BY <1>1
<1> HIDE DEF A
<1>4. IsFiniteSet(A) /\ Cardinality(A) \in Nat
  BY <1>2, <1>3, FS_Subset, FS_CardinalityType
<1>. QED
  BY <1>4 DEF A, Count

LEMMA CountConcat ==
  ASSUME NEW S, NEW s \in Seq(S), NEW t \in Seq(S), NEW x
  PROVE  Count(x, s \o t) = Count(x, s) + Count(x, t)
<1> DEFINE c == s \o t
           A == {i \in DOMAIN s : s[i] = x}
           B == {i \in DOMAIN t : t[i] = x}
           C == {i \in DOMAIN c : c[i] = x}
           D == {i \in Len(s) + 1 .. Len(s) + Len(t) : t[i - Len(s)] = x}
           f == [i \in B |-> i + Len(s)]
<1>1. Len(s) \in Nat /\ Len(t) \in Nat /\ DOMAIN s = 1 .. Len(s) /\ DOMAIN t = 1 .. Len(t)
  OBVIOUS
<1>2. /\ DOMAIN c = 1 .. Len(s) + Len(t)
      /\ \A i \in 1 .. Len(s) + Len(t) : c[i] = IF i <= Len(s) THEN s[i] ELSE t[i - Len(s)]
  BY ConcatProperties
<1> HIDE DEF c
<1>3. C = A \union D /\ A \intersect D = {}
  <2>1. \A i \in 1 .. Len(s) : i \in DOMAIN c /\ c[i] = s[i] /\ i \notin D
    BY <1>1, <1>2
  <2>2. \A i \in Len(s) + 1 .. Len(s) + Len(t) : i \in DOMAIN c /\ c[i] = t[i - Len(s)]
    BY <1>1, <1>2
  <2>3. \A i \in DOMAIN c : i \in 1 .. Len(s) \/ i \in Len(s) + 1 .. Len(s) + Len(t)
    BY <1>1, <1>2
  <2>. QED  BY <1>1, <2>1, <2>2, <2>3
<1>4. f \in Bijection(B, D)
  <2>1. \A i \in B : f[i] \in D /\ i \in Int
    BY <1>1
  <2>2. \A i, j \in B : f[i] = f[j] => i = j
    BY <1>1
  <2>3. \A j \in D : j - Len(s) \in B /\ f[j - Len(s)] = j
    BY <1>1
  <2>4. f \in [B -> D] /\ \A j \in D : \E i \in B : f[i] = j
    BY <2>1, <2>3
  <2> HIDE DEF f, B, D
  <2>. QED  BY <2>2, <2>4, Fun_IsBij
<1>5. IsFiniteSet(A) /\ IsFiniteSet(B) /\ Cardinality(A) \in Nat /\ Cardinality(B) \in Nat
  BY CountIs DEF Count
<1> HIDE DEF A, B, C, D, f
<1>6. IsFiniteSet(D) /\ Cardinality(D) = Cardinality(B)
  BY <1>4, <1>5, FS_Bijection DEF ExistsBijection
<1>7. Cardinality(A \union D) = Cardinality(A) + Cardinality(D)
  <2>1. Cardinality(A \union D) = Cardinality(A) + Cardinality(D) - Cardinality(A \intersect D)
    BY <1>5, <1>6, FS_Union
  <2>2. Cardinality(A \intersect D) = 0
    BY <1>3, FS_EmptySet
  <2>. QED  BY <1>5, <1>6, <2>1, <2>2
<1>. QED
  BY <1>3, <1>6, <1>7 DEF Count, A, B, C, c

(* A part of a list, cut in two *)
LEMMA CountCut ==
  ASSUME NEW S, NEW s \in Seq(S), NEW i \in Nat, NEW j \in Nat, NEW k \in Nat,
         i <= j, j <= k, k <= Len(s), NEW x
  PROVE  /\ SubSeq(s, i + 1, k) \in Seq(S) /\ Len(SubSeq(s, i + 1, k)) = k - i
         /\ Count(x, SubSeq(s, i + 1, k)) = Count(x, SubSeq(s, i + 1, j)) + Count(x, SubSeq(s, j + 1, k))
<1>1. Len(s) \in Nat /\ \A n \in 1 .. Len(s) : s[n] \in S
  OBVIOUS
<1>2. SubSeq(s, i + 1, j) \in Seq(S) /\ SubSeq(s, j + 1, k) \in Seq(S)
  <2>1. \A n \in i + 1 .. j : s[n] \in S
    BY <1>1
  <2>2. \A n \in j + 1 .. k : s[n] \in S
    BY <1>1
  <2>. QED  BY <2>1, <2>2, SubSeqProperties
<1>3. SubSeq(s, i + 1, k) \in Seq(S) /\ Len(SubSeq(s, i + 1, k)) = k - i
  <2>1. \A n \in i + 1 .. k : s[n] \in S
    BY <1>1
  <2>2. SubSeq(s, i + 1, k) \in Seq(S) /\ Len(SubSeq(s, i + 1, k)) = IF i + 1 <= k THEN k - (i + 1) + 1 ELSE 0
    BY <2>1, SubSeqProperties
  <2>. QED  BY <2>2
<1>4. SubSeq(s, i + 1, k) = SubSeq(s, i + 1, j) \o SubSeq(s, j + 1, k)
  <2>1. i + 1 \in 1 .. Len(s) + 1 /\ j \in (i + 1) - 1 .. Len(s) /\ k \in j .. Len(s)
    BY <1>1
  <2> DEFINE m == i + 1
  <2>2. m \in 1 .. Len(s) + 1 /\ j \in m - 1 .. Len(s)
    BY <2>1
  <2> HIDE DEF m
  <2>3. SubSeq(s, m, j) \o SubSeq(s, j + 1, k) = SubSeq(s, m, k)
    BY <2>1, <2>2, ConcatAdjacentSubSeq
  <2>. QED  BY <2>3 DEF m
<1> DEFINE u == SubSeq(s, i + 1, j)
           v == SubSeq(s, j + 1, k)
<1> HIDE DEF u, v
<1>5. Count(x, u \o v) = Count(x, u) + Count(x, v)
  BY <1>2, CountConcat DEF u, v
<1>. QED
  BY <1>3, <1>4, <1>5 DEF u, v

(* SetToSeq lists a finite set, each element once. *)
LEMMA ListOnce ==
  ASSUME NEW T, IsFiniteSet(T)
  PROVE  /\ SetToSeq(T) \in Seq(T) /\ Len(SetToSeq(T)) = Cardinality(T)
         /\ IsInjective(SetToSeq(T)) /\ Range(SetToSeq(T)) = T
<1> DEFINE n == Cardinality(T)
<1>1. n \in Nat /\ ExistsBijection(1 .. n, T)
  BY FS_CardinalityType
<1>2. PICK g \in Bijection(1 .. n, T) : TRUE
  BY <1>1 DEF ExistsBijection
<1>3. g \in [1 .. n -> T] /\ IsInjective(g)
  BY <1>2 DEF Bijection, Injection, IsInjective
<1> DEFINE s == SetToSeq(T)
<1>4. s \in [1 .. n -> T] /\ IsInjective(s)
  BY <1>3 DEF SetToSeq
<1> HIDE DEF s, n
<1>5. s \in Seq(T) /\ Len(s) = n
  BY <1>1, <1>4
<1>6. s \in Injection(1 .. n, T)
  BY <1>4 DEF IsInjective, Injection
<1>7. IsFiniteSet(1 .. n) /\ Cardinality(1 .. n) = n
  BY <1>1, FS_Interval
<1>8. s \in Surjection(1 .. n, T)
  BY <1>6, <1>7, FS_Injection DEF n
<1>9. Range(s) = T
  BY <1>8, Fun_SurjectionProperties
<1>. QED
  BY <1>4, <1>5, <1>9 DEF s, n

(* What a list without repetition has, it has once. *)
LEMMA CountOnce ==
  ASSUME NEW S, NEW s \in Seq(S), IsInjective(s), NEW x
  PROVE  Count(x, s) = IF x \in Range(s) THEN 1 ELSE 0
<1> DEFINE A == {i \in DOMAIN s : s[i] = x}
<1>1. CASE x \in Range(s)
  <2>1. PICK i \in DOMAIN s : s[i] = x
    BY <1>1 DEF Range
  <2>2. A = {i}
    BY <2>1 DEF IsInjective
  <2>3. Cardinality({i}) = 1
    BY FS_Singleton
  <2>. QED  BY <1>1, <2>2, <2>3 DEF Count
<1>2. CASE x \notin Range(s)
  <2>1. A = {}
    BY <1>2 DEF Range
  <2>. QED  BY <1>2, <2>1, FS_EmptySet DEF Count
<1>. QED
  BY <1>1, <1>2

(* Where slices begin that follow each other: none after the end of the last *)
LEMMA LastMost ==
  ASSUME NEW n \in Nat, NEW at \in [1 .. n + 1 -> Nat], \A i \in 1 .. n : at[i] <= at[i + 1]
  PROVE  \A i \in 1 .. n + 1 : at[i] <= at[n + 1]
<1> DEFINE M == {k \in Nat : k <= n => at[n + 1 - k] <= at[n + 1]}
<1>1. 0 \in M
  <2>1. n + 1 \in 1 .. n + 1 /\ n + 1 - 0 = n + 1
    OBVIOUS
  <2>2. at[n + 1] \in Nat
    BY <2>1
  <2>. QED  BY <2>1, <2>2
<1>2. ASSUME NEW k \in M PROVE k + 1 \in M
  <2> SUFFICES ASSUME k + 1 <= n PROVE at[n + 1 - (k + 1)] <= at[n + 1]
    OBVIOUS
  <2>1. at[n + 1 - k] <= at[n + 1] /\ k \in Nat
    OBVIOUS
  <2> DEFINE j == n + 1 - (k + 1)
             z == n + 1
  <2>2. j \in 1 .. n /\ j + 1 = n + 1 - k /\ j \in 1 .. n + 1 /\ j + 1 \in 1 .. n + 1 /\ z \in 1 .. n + 1
    BY <2>1
  <2> HIDE DEF j
  <2>3. at[j] <= at[j + 1] /\ at[j + 1] <= at[z]
    BY <2>1, <2>2
  <2> HIDE DEF z
  <2>4. at[j] \in Nat /\ at[j + 1] \in Nat /\ at[z] \in Nat
    BY <2>2
  <2>5. at[j] <= at[z]
    BY <2>3, <2>4
  <2>. QED  BY <2>5 DEF j, z
<1>3. M = Nat
  <2> HIDE DEF M
  <2>1. M \in SUBSET Nat
    BY DEF M
  <2>. QED  BY <1>1, <1>2, <2>1, NatInduct
<1>. QED
  <2> SUFFICES ASSUME NEW i \in 1 .. n + 1 PROVE at[i] <= at[n + 1]
    OBVIOUS
  <2>1. CASE i = n + 1
    <3>1. at[i] \in Nat
      OBVIOUS
    <3>. QED  BY <2>1, <3>1
  <2>2. CASE i /= n + 1
    <3>1. n + 1 - i \in Nat /\ n + 1 - i <= n /\ n + 1 - (n + 1 - i) = i
      BY <2>2
    <3>2. n + 1 - i \in M
      BY <1>3, <3>1
    <3>. QED  BY <3>1, <3>2
  <2>. QED  BY <2>1, <2>2

(* A list handed out in slices, one to each member of another list *)
LEMMA SliceTotal ==
  ASSUME NEW S, NEW s \in Seq(S), NEW Q, NEW q \in Seq(Q), IsInjective(q),
         NEW at \in [1 .. Len(q) + 1 -> Nat], at[1] = 0, at[Len(q) + 1] = Len(s),
         \A i \in 1 .. Len(q) : at[i] <= at[i + 1],
         NEW x, NEW d \in [Range(q) -> Int],
         \A i \in 1 .. Len(q) : d[q[i]] = Count(x, SubSeq(s, at[i] + 1, at[i + 1]))
  PROVE  Total(d, Range(q)) = Count(x, s)
<1> DEFINE n == Len(q)
           R(i) == {q[j] : j \in 1 .. i}
           N == {i \in Nat : i <= n => /\ at[i + 1] <= Len(s)
                                       /\ Total(d, R(i)) = Count(x, SubSeq(s, 1, at[i + 1]))}
<1>0. n \in Nat /\ DOMAIN q = 1 .. n /\ Range(q) = R(n) /\ Len(s) \in Nat
  BY DEF Range
<1>1. IsFiniteSet(Range(q)) /\ \A i \in Nat : i <= n => R(i) \in SUBSET Range(q)
  <2>1. IsFiniteSet(1 .. n)
    BY <1>0, FS_Interval
  <2>2. q \in Surjection(1 .. n, Range(q))
    <3>1. q \in [1 .. n -> Range(q)]
      BY <1>0 DEF Range
    <3>2. \A y \in Range(q) : \E j \in 1 .. n : q[j] = y
      BY <1>0 DEF Range
    <3>. QED  BY <3>1, <3>2 DEF Surjection
  <2>3. IsFiniteSet(Range(q))
    BY <2>1, <2>2, FS_Surjection
  <2>4. ASSUME NEW i \in Nat, i <= n PROVE R(i) \in SUBSET Range(q)
    <3>1. \A j \in 1 .. i : j \in 1 .. n
      BY <1>0, <2>4
    <3>. QED  BY <1>0, <3>1 DEF Range
  <2>. QED  BY <2>3, <2>4
<1> HIDE DEF n
<1>2. \A i \in 1 .. n + 1 : at[i] \in Nat
  BY DEF n
<1>3. \A i \in 1 .. n : at[i] <= at[i + 1]
  BY DEF n
<1>4. \A i \in 1 .. n + 1 : at[i] <= Len(s)
  <2>1. n \in Nat /\ at \in [1 .. n + 1 -> Nat] /\ \A i \in 1 .. n : at[i] <= at[i + 1]
    BY <1>0, <1>3 DEF n
  <2>2. \A i \in 1 .. n + 1 : at[i] <= at[n + 1]
    BY ONLY <2>1, LastMost
  <2>. QED  BY <2>2 DEF n
<1>5. 0 \in N
  <2>1. R(0) = {} /\ at[0 + 1] = 0
    OBVIOUS
  <2>2. SubSeq(s, 1, at[0 + 1]) = <<>>
    BY <2>1, SubSeqEmpty
  <2>3. {i \in DOMAIN <<>> : <<>>[i] = x} = {}
    OBVIOUS
  <2>4. Count(x, <<>>) = 0
    BY <2>3, FS_EmptySet DEF Count
  <2>5. Total(d, R(0)) = 0
    BY <1>1, <2>1, TotalRules
  <2>6. Count(x, SubSeq(s, 1, at[0 + 1])) = 0
    BY ONLY <2>2, <2>4
  <2>7. at[0 + 1] <= Len(s)
    BY <1>0, <2>1
  <2>. QED  BY <2>5, <2>6, <2>7
<1>6. ASSUME NEW i \in N PROVE i + 1 \in N
  <2> SUFFICES ASSUME i + 1 <= n
               PROVE  /\ at[i + 1 + 1] <= Len(s)
                      /\ Total(d, R(i + 1)) = Count(x, SubSeq(s, 1, at[i + 1 + 1]))
    OBVIOUS
  <2> DEFINE m == i + 1
  <2>1. i \in Nat /\ i <= n /\ m \in 1 .. n /\ m + 1 \in 1 .. n + 1 /\ m \in 1 .. n + 1
    BY <1>0
  <2>2. R(m) = R(i) \union {q[m]} /\ q[m] \in Range(q) \ R(i)
    <3>1. \A j \in 1 .. m : j \in 1 .. i \/ j = m
      BY <2>1
    <3>2. \A j \in 1 .. i : j \in 1 .. m /\ j \in 1 .. n /\ j /= m
      <4>1. m = i + 1 /\ m <= n
        BY <2>1
      <4> HIDE DEF m
      <4>. QED  BY <1>0, <2>1, <4>1
    <3>3. \A j \in 1 .. i : q[j] /= q[m]
      BY <1>0, <2>1, <3>2 DEF IsInjective
    <3>4. m \in 1 .. m /\ m \in DOMAIN q
      <4>1. m \in Nat /\ 1 <= m /\ m \in 1 .. n
        BY <2>1
      <4> HIDE DEF m
      <4>. QED  BY <1>0, <4>1
    <3> HIDE DEF m, n, N
    <3>5. \A e : e \in R(m) <=> e \in R(i) \union {q[m]}
      BY <3>1, <3>2, <3>4
    <3>6. q[m] \notin R(i)
      BY <3>3
    <3>7. q[m] \in Range(q)
      BY <3>4 DEF Range
    <3>. QED  BY <3>5, <3>6, <3>7
  <2>3. Total(d, R(i)) = Count(x, SubSeq(s, 1, at[m]))
    BY <2>1
  <2>4. R(i) \in SUBSET Range(q)
    BY <1>1, <2>1
  <2> HIDE DEF m, R
  <2> DEFINE A == R(i)
             D == Range(q)
             y == q[m]
  <2>a. IsFiniteSet(D) /\ d \in [D -> Int] /\ A \in SUBSET D /\ y \in D \ A /\ R(m) = A \union {y}
    BY <1>1, <2>2, <2>4
  <2> HIDE DEF A, D, y
  <2>b. Total(d, A \union {y}) = Total(d, A) + d[y]
    BY ONLY <2>a, TotalRules
  <2>5. Total(d, R(m)) = Total(d, R(i)) + d[q[m]]
    BY <2>a, <2>b DEF A, y
  <2>6. d[q[m]] = Count(x, SubSeq(s, at[m] + 1, at[m + 1]))
    BY <2>1 DEF n
  <2> DEFINE b == at[m]
             c == at[m + 1]
             z == 0
  <2>7. z \in Nat /\ b \in Nat /\ c \in Nat /\ z <= b /\ b <= c /\ c <= Len(s)
    BY <1>2, <1>3, <1>4, <2>1
  <2> HIDE DEF b, c, z
  <2>8. Count(x, SubSeq(s, z + 1, c)) = Count(x, SubSeq(s, z + 1, b)) + Count(x, SubSeq(s, b + 1, c))
    BY <2>7, CountCut
  <2>9. Count(x, SubSeq(s, 1, c)) = Count(x, SubSeq(s, 1, b)) + Count(x, SubSeq(s, b + 1, c))
    BY <2>8 DEF z
  <2>10. Total(d, R(m)) = Count(x, SubSeq(s, 1, c))
    BY <2>3, <2>5, <2>6, <2>9 DEF b, c
  <2>. QED  BY <2>7, <2>10 DEF m, c
<1>7. N = Nat
  <2> HIDE DEF N
  <2>1. N \in SUBSET Nat
    BY DEF N
  <2>. QED  BY <1>5, <1>6, <2>1, NatInduct
<1>8. Total(d, R(n)) = Count(x, SubSeq(s, 1, at[n + 1]))
  <2>1. n \in N /\ n <= n
    <3> HIDE DEF N, n
    <3>. QED  BY <1>0, <1>7
  <2> HIDE DEF n, R
  <2>. QED  BY <2>1
<1>9. SubSeq(s, 1, at[n + 1]) = s
  BY SubSeqFull DEF n
<1>. QED
  BY <1>0, <1>8, <1>9 DEF n

=============================================================================
