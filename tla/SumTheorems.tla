----------------------------- MODULE SumTheorems -----------------------------
(***************************************************************************)
(* Facts about SumFunctionOnSet, the sum of a function over a finite set,  *)
(* for the proofs about money: amounts, fees and refunds of the lines of   *)
(* an order.  The induction is over families of sets, which are values, so *)
(* that no lemma has a predicate for a parameter.                          *)
(***************************************************************************)
EXTENDS Integers, Functions, FiniteSetTheorems, TLAPS

\* A family that has a subset of S whenever it has all smaller subsets of that has them all.
LEMMA StrongSetInduction ==
  ASSUME NEW S, IsFiniteSet(S), NEW F,
         \A T \in SUBSET S : (\A U \in SUBSET T : U # T => U \in F) => T \in F
  PROVE  SUBSET S \subseteq F
<1> DEFINE Bad == {T \in SUBSET S : T \notin F}
           R == StrictSubsetOrdering(S)
<1>1. SUFFICES ASSUME Bad # {} PROVE FALSE
  OBVIOUS
<1>2. IsWellFoundedOn(R, SUBSET S)
  BY FS_StrictSubsetOrderingWellFounded, FS_FiniteSubsetsOfFinite
<1>3. Bad \subseteq SUBSET S
  OBVIOUS
<1>4. \E T \in Bad : \A U \in Bad : ~(<<U, T>> \in R)
  <2> HIDE DEF Bad, R
  <2> QED BY <1>1, <1>2, <1>3, WFMin
<1>5. PICK T \in Bad : \A U \in Bad : ~(<<U, T>> \in R)
  BY <1>4
<1>6. \A U \in SUBSET T : U # T => U \in F
  <2> SUFFICES ASSUME NEW U \in SUBSET T, U # T, U \notin F PROVE FALSE
    OBVIOUS
  <2>1. U \in Bad /\ U \in SUBSET S /\ T \in SUBSET S
    OBVIOUS
  <2>2. <<U, T>> \in R
    BY <2>1 DEF StrictSubsetOrdering
  <2> QED BY <1>5, <2>1, <2>2
<1> QED BY <1>5, <1>6

\* A family that has the empty set and grows by one element at a time has S.
LEMMA SetInduction ==
  ASSUME NEW S, IsFiniteSet(S), NEW F, {} \in F,
         \A T \in SUBSET S : \A x \in S \ T : T \in F => T \cup {x} \in F
  PROVE  S \in F
<1>1. ASSUME NEW T \in SUBSET S, \A U \in SUBSET T : U # T => U \in F
      PROVE  T \in F
  <2>1. CASE T = {}
    BY <2>1
  <2>2. CASE T # {}
    <3>1. PICK x \in T : TRUE
      BY <2>2
    <3>2. T \ {x} \in F /\ x \in S \ (T \ {x}) /\ T \ {x} \in SUBSET S /\ (T \ {x}) \cup {x} = T
      BY <1>1, <3>1
    <3> QED BY <3>2
  <2> QED BY <2>1, <2>2
<1>2. SUBSET S \subseteq F
  BY <1>1, StrongSetInduction
<1> QED BY <1>2
----------------------------------------------------------------------------
(* The sum is the value of a recursive function. *)

Pick(s) == CHOOSE x \in s : TRUE
Folds(f, s, g) == IF s = {} THEN 0 ELSE f[Pick(s)] + g[s \ {Pick(s)}]
Iterated(f, S) == CHOOSE g : g = [s \in SUBSET S |-> Folds(f, s, g)]

LEMMA PickIn ==
  ASSUME NEW s, s # {}
  PROVE  Pick(s) \in s
BY DEF Pick

LEMMA SumIsIterated ==
  ASSUME NEW f, NEW S
  PROVE  SumFunctionOnSet(f, S) = Iterated(f, S)[S]
BY DEF SumFunctionOnSet, FoldFunctionOnSet, MapThenFoldSet, Iterated, Folds, Pick

\* The recursion has a solution, built up by the size of the subsets.
LEMMA Solution ==
  ASSUME NEW S, IsFiniteSet(S), NEW f
  PROVE  \E g : g = [s \in SUBSET S |-> Folds(f, s, g)]
<1> DEFINE Small(n) == {s \in SUBSET S : Cardinality(s) <= n}
           Solves(g, D) == g = [s \in D |-> Folds(f, s, g)]
           F == {T \in SUBSET S : \E g : Solves(g, Small(Cardinality(T)))}
<1>1. \A s \in SUBSET S : IsFiniteSet(s) /\ Cardinality(s) \in Nat
  BY FS_Subset, FS_CardinalityType
<1>2. {} \in F
  <2>1. \A s \in Small(Cardinality({})) : s = {}
    BY <1>1, FS_EmptySet
  <2>2. [s \in Small(Cardinality({})) |-> 0]
        = [s \in Small(Cardinality({})) |-> Folds(f, s, [t \in Small(Cardinality({})) |-> 0])]
    BY <2>1 DEF Folds
  <2> QED BY <2>2
<1>3. ASSUME NEW T \in SUBSET S, NEW x \in S \ T, T \in F
      PROVE  T \cup {x} \in F
  <2>1. PICK n \in Nat : n = Cardinality(T)
    BY <1>1
  <2>2. Cardinality(T \cup {x}) = n + 1
    BY <1>1, <2>1, FS_AddElement
  <2>3. PICK g : Solves(g, Small(n))
    BY <1>3, <2>1
  <2> DEFINE h == [s \in Small(n + 1) |-> IF Cardinality(s) <= n THEN g[s] ELSE Folds(f, s, g)]
  <2>4. ASSUME NEW s \in Small(n + 1), s # {}
        PROVE  s \ {Pick(s)} \in Small(n) /\ h[s \ {Pick(s)}] = g[s \ {Pick(s)}]
    <3>1. Cardinality(s \ {Pick(s)}) = Cardinality(s) - 1
      BY <1>1, <2>4, PickIn, FS_RemoveElement
    <3>2. Cardinality(s) \in Nat /\ Cardinality(s) <= n + 1
      BY <1>1
    <3>3. Cardinality(s \ {Pick(s)}) <= n
      BY <3>1, <3>2
    <3>4. s \ {Pick(s)} \in Small(n) /\ s \ {Pick(s)} \in Small(n + 1)
      BY <3>1, <3>2, <3>3
    <3>5. Cardinality(s \ {Pick(s)}) <= n
      BY <3>3
    <3> QED BY <3>4, <3>5
  <2>5. ASSUME NEW s \in Small(n + 1)
        PROVE  h[s] = Folds(f, s, h)
    <3>1. CASE Cardinality(s) <= n
      <4>1. h[s] = g[s] /\ g[s] = Folds(f, s, g)
        BY <2>3, <3>1
      <4> QED BY <2>4, <4>1 DEF Folds
    <3>2. CASE ~(Cardinality(s) <= n)
      <4>1. h[s] = Folds(f, s, g)
        BY <3>2
      <4> QED BY <2>4, <4>1 DEF Folds
    <3> QED BY <3>1, <3>2
  <2>6. h = [s \in Small(n + 1) |-> Folds(f, s, h)]
    <3>1. h = [s \in Small(n + 1) |-> h[s]]
      OBVIOUS
    <3> HIDE DEF h
    <3> QED BY <2>5, <3>1
  <2> HIDE DEF h
  <2> QED BY <2>2, <2>6
<1>4. S \in F
  <2> HIDE DEF F
  <2> QED BY <1>2, <1>3, SetInduction
<1>5. PICK g : Solves(g, Small(Cardinality(S)))
  BY <1>4
<1>6. Small(Cardinality(S)) = SUBSET S
  BY FS_Subset
<1> QED BY <1>5, <1>6

LEMMA IteratedSolves ==
  ASSUME NEW S, IsFiniteSet(S), NEW f
  PROVE  \A s \in SUBSET S : Iterated(f, S)[s] = Folds(f, s, Iterated(f, S))
<1>1. Iterated(f, S) = [s \in SUBSET S |-> Folds(f, s, Iterated(f, S))]
  BY Solution DEF Iterated
<1> QED BY <1>1

\* What a subset sums up to does not depend on the set it is a subset of.
LEMMA IteratedIsSum ==
  ASSUME NEW S, IsFiniteSet(S), NEW f, NEW T \in SUBSET S
  PROVE  Iterated(f, S)[T] = SumFunctionOnSet(f, T)
<1> DEFINE g == Iterated(f, S)
           h == Iterated(f, T)
           F == {U \in SUBSET T : g[U] = h[U]}
<1>1. IsFiniteSet(T)
  BY FS_Subset
<1>2. ASSUME NEW U \in SUBSET T, \A V \in SUBSET U : V # U => V \in F
      PROVE  U \in F
  <2>1. g[U] = Folds(f, U, g) /\ h[U] = Folds(f, U, h)
    BY <1>1, IteratedSolves
  <2>2. U # {} => U \ {Pick(U)} \in F
    BY <1>2, PickIn
  <2> QED BY <2>1, <2>2 DEF Folds
<1>3. SUBSET T \subseteq F
  <2> HIDE DEF F
  <2> QED BY <1>1, <1>2, StrongSetInduction
<1> QED BY <1>3, SumIsIterated
----------------------------------------------------------------------------
(* The sum by its elements. *)

\* Nothing sums up to nothing.
LEMMA SumEmpty ==
  ASSUME NEW f
  PROVE  SumFunctionOnSet(f, {}) = 0
BY FS_EmptySet, IteratedSolves, SumIsIterated DEF Folds

LEMMA SumByPick ==
  ASSUME NEW S, IsFiniteSet(S), S # {}, NEW f
  PROVE  SumFunctionOnSet(f, S) = f[Pick(S)] + SumFunctionOnSet(f, S \ {Pick(S)})
<1>1. Iterated(f, S)[S] = f[Pick(S)] + Iterated(f, S)[S \ {Pick(S)}]
  BY IteratedSolves DEF Folds
<1> QED BY <1>1, SumIsIterated, IteratedIsSum

\* A sum of integers is an integer.
LEMMA SumType ==
  ASSUME NEW S, IsFiniteSet(S), NEW f, \A x \in S : f[x] \in Int
  PROVE  SumFunctionOnSet(f, S) \in Int
<1> DEFINE F == {T \in SUBSET S : SumFunctionOnSet(f, T) \in Int}
<1>1. ASSUME NEW T \in SUBSET S, \A U \in SUBSET T : U # T => U \in F
      PROVE  T \in F
  <2>1. IsFiniteSet(T)
    BY FS_Subset
  <2>2. CASE T = {}
    BY <2>2, SumEmpty
  <2>3. CASE T # {}
    <3>1. Pick(T) \in T
      BY <2>3, PickIn
    <3>2. T \ {Pick(T)} \in F
      BY <1>1, <3>1
    <3>3. f[Pick(T)] \in Int /\ SumFunctionOnSet(f, T \ {Pick(T)}) \in Int
      BY <3>1, <3>2
    <3>4. SumFunctionOnSet(f, T) = f[Pick(T)] + SumFunctionOnSet(f, T \ {Pick(T)})
      BY <2>1, <2>3, SumByPick
    <3>5. SumFunctionOnSet(f, T) \in Int
      BY <3>3, <3>4
    <3> QED BY <3>5
  <2> QED BY <2>2, <2>3
<1>2. SUBSET S \subseteq F
  <2> HIDE DEF F
  <2> QED BY <1>1, StrongSetInduction
<1> QED BY <1>2

\* Any element may be counted first.
LEMMA SumRemove ==
  ASSUME NEW S, IsFiniteSet(S), NEW f, \A x \in S : f[x] \in Int, NEW y \in S
  PROVE  SumFunctionOnSet(f, S) = f[y] + SumFunctionOnSet(f, S \ {y})
<1> DEFINE Total(T) == SumFunctionOnSet(f, T)
           F == {T \in SUBSET S : \A x \in T : Total(T) = f[x] + Total(T \ {x})}
<1>1. \A T \in SUBSET S : IsFiniteSet(T) /\ Total(T) \in Int
  BY FS_Subset, SumType
<1>2. ASSUME NEW T \in SUBSET S, \A U \in SUBSET T : U # T => U \in F, NEW x \in T
      PROVE  Total(T) = f[x] + Total(T \ {x})
  <2>1. PICK p \in T : p = Pick(T)
    BY PickIn
  <2>2. Total(T) = f[p] + Total(T \ {p})
    BY <1>1, <2>1, SumByPick
  <2>3. CASE x = p
    BY <2>2, <2>3
  <2>4. CASE x # p
    <3>1. T \ {p} \in F /\ x \in T \ {p} /\ T \ {x} \in F /\ p \in T \ {x}
      BY <1>2, <2>4
    <3>2. Total(T \ {p}) = f[x] + Total((T \ {p}) \ {x})
      BY <3>1
    <3>3. Total(T \ {x}) = f[p] + Total((T \ {x}) \ {p})
      BY <3>1
    <3>4. (T \ {p}) \ {x} = (T \ {x}) \ {p}
      OBVIOUS
    <3>5. f[x] \in Int /\ f[p] \in Int /\ Total((T \ {x}) \ {p}) \in Int
      BY <1>1
    <3>6. PICK a, b, c \in Int : a = f[x] /\ b = f[p] /\ c = Total((T \ {x}) \ {p})
      BY <3>5
    <3>7. Total(T) = b + (a + c) /\ Total(T \ {x}) = b + c
      BY <2>2, <3>2, <3>3, <3>4, <3>6
    <3>8. b + (a + c) = a + (b + c)
      BY <3>6
    <3> QED BY <3>6, <3>7, <3>8
  <2> QED BY <2>3, <2>4
<1>3. SUBSET S \subseteq F
  <2>1. \A T \in SUBSET S : (\A U \in SUBSET T : U # T => U \in F) => T \in F
    BY <1>2
  <2> HIDE DEF F
  <2> QED BY <2>1, StrongSetInduction
<1> QED BY <1>3

\* An element that is added is added to the sum.
LEMMA SumAdd ==
  ASSUME NEW S, IsFiniteSet(S), NEW y, y \notin S, NEW f, \A x \in S \cup {y} : f[x] \in Int
  PROVE  SumFunctionOnSet(f, S \cup {y}) = f[y] + SumFunctionOnSet(f, S)
<1>1. IsFiniteSet(S \cup {y}) /\ (S \cup {y}) \ {y} = S
  BY FS_AddElement
<1> QED BY <1>1, SumRemove
\* The step of an induction over the subsets of S.
LEMMA SumStep ==
  ASSUME NEW S, IsFiniteSet(S), NEW f, \A x \in S : f[x] \in Int,
         NEW T \in SUBSET S, NEW x \in S \ T
  PROVE  /\ SumFunctionOnSet(f, T) \in Int
         /\ SumFunctionOnSet(f, T \cup {x}) = f[x] + SumFunctionOnSet(f, T)
<1>1. IsFiniteSet(T) /\ x \notin T /\ \A y \in T \cup {x} : f[y] \in Int
  BY FS_Subset
<1> QED BY <1>1, SumAdd, SumType
----------------------------------------------------------------------------
(* Sums and arithmetic. *)

\* Functions that agree on the set have the same sum over it.
LEMMA SumSame ==
  ASSUME NEW S, IsFiniteSet(S), NEW f, NEW g, \A x \in S : f[x] \in Int /\ g[x] = f[x]
  PROVE  SumFunctionOnSet(g, S) = SumFunctionOnSet(f, S)
<1> DEFINE F == {T \in SUBSET S : SumFunctionOnSet(g, T) = SumFunctionOnSet(f, T)}
<1>0. (\A y \in S : f[y] \in Int) /\ (\A y \in S : g[y] \in Int)
  OBVIOUS
<1>1. {} \in F
  BY SumEmpty
<1>2. ASSUME NEW T \in SUBSET S, NEW x \in S \ T, T \in F
      PROVE  T \cup {x} \in F
  <2>1. SumFunctionOnSet(f, T \cup {x}) = f[x] + SumFunctionOnSet(f, T)
    BY <1>0, SumStep
  <2>2. SumFunctionOnSet(g, T \cup {x}) = g[x] + SumFunctionOnSet(g, T)
    BY <1>0, SumStep
  <2>3. SumFunctionOnSet(g, T) = SumFunctionOnSet(f, T)
    BY <1>2
  <2>4. SumFunctionOnSet(g, T \cup {x}) = SumFunctionOnSet(f, T \cup {x})
    BY <2>1, <2>2, <2>3
  <2> QED BY <2>4
<1>3. S \in F
  <2> HIDE DEF F
  <2> QED BY <1>1, <1>2, SetInduction
<1> QED BY <1>3

\* The sum of sums.
LEMMA SumPlus ==
  ASSUME NEW S, IsFiniteSet(S), NEW f, NEW g, NEW h,
         \A x \in S : f[x] \in Int /\ g[x] \in Int /\ h[x] = f[x] + g[x]
  PROVE  SumFunctionOnSet(h, S) = SumFunctionOnSet(f, S) + SumFunctionOnSet(g, S)
<1> DEFINE F == {T \in SUBSET S : SumFunctionOnSet(h, T) = SumFunctionOnSet(f, T) + SumFunctionOnSet(g, T)}
<1>0. (\A y \in S : f[y] \in Int) /\ (\A y \in S : g[y] \in Int) /\ (\A y \in S : h[y] \in Int)
  OBVIOUS
<1>1. {} \in F
  BY SumEmpty
<1>2. ASSUME NEW T \in SUBSET S, NEW x \in S \ T, T \in F
      PROVE  T \cup {x} \in F
  <2>1. /\ SumFunctionOnSet(f, T) \in Int
        /\ SumFunctionOnSet(f, T \cup {x}) = f[x] + SumFunctionOnSet(f, T)
    BY <1>0, SumStep
  <2>2. /\ SumFunctionOnSet(g, T) \in Int
        /\ SumFunctionOnSet(g, T \cup {x}) = g[x] + SumFunctionOnSet(g, T)
    BY <1>0, SumStep
  <2>3. SumFunctionOnSet(h, T \cup {x}) = h[x] + SumFunctionOnSet(h, T)
    BY <1>0, SumStep
  <2>4. PICK a, b, c, d \in Int : /\ a = f[x] /\ b = g[x] /\ h[x] = a + b
                                  /\ c = SumFunctionOnSet(f, T) /\ d = SumFunctionOnSet(g, T)
    BY <2>1, <2>2
  <2>5. SumFunctionOnSet(h, T) = c + d
    BY <1>2, <2>4
  <2>6. SumFunctionOnSet(h, T \cup {x}) = (a + b) + (c + d)
    BY <2>3, <2>4, <2>5
  <2>7. SumFunctionOnSet(f, T \cup {x}) = a + c /\ SumFunctionOnSet(g, T \cup {x}) = b + d
    BY <2>1, <2>2, <2>4
  <2>8. (a + b) + (c + d) = (a + c) + (b + d)
    OBVIOUS
  <2>9. SumFunctionOnSet(h, T \cup {x}) = SumFunctionOnSet(f, T \cup {x}) + SumFunctionOnSet(g, T \cup {x})
    BY <2>6, <2>7, <2>8
  <2> QED BY <2>9
<1>3. S \in F
  <2> HIDE DEF F
  <2> QED BY <1>1, <1>2, SetInduction
<1> QED BY <1>3

\* The sum of multiples.
Multiplies(c, f, h, S) == \A x \in S : f[x] \in Int /\ h[x] = c * f[x]

LEMMA SumScale ==
  ASSUME NEW S, IsFiniteSet(S), NEW c \in Int, NEW f, NEW h, Multiplies(c, f, h, S)
  PROVE  SumFunctionOnSet(h, S) = c * SumFunctionOnSet(f, S)
<1> DEFINE F == {T \in SUBSET S : SumFunctionOnSet(h, T) = c * SumFunctionOnSet(f, T)}
<1>0. (\A y \in S : f[y] \in Int) /\ (\A y \in S : h[y] \in Int)
  BY DEF Multiplies
<1>1. {} \in F
  BY SumEmpty
<1>2. ASSUME NEW T \in SUBSET S, NEW x \in S \ T, T \in F
      PROVE  T \cup {x} \in F
  <2>1. /\ SumFunctionOnSet(f, T) \in Int
        /\ SumFunctionOnSet(f, T \cup {x}) = f[x] + SumFunctionOnSet(f, T)
    <3>1. \A R \in SUBSET S : \A y \in S \ R :
            /\ SumFunctionOnSet(f, R) \in Int
            /\ SumFunctionOnSet(f, R \cup {y}) = f[y] + SumFunctionOnSet(f, R)
      BY <1>0, SumStep
    <3> QED BY <3>1
  <2>2. SumFunctionOnSet(h, T \cup {x}) = h[x] + SumFunctionOnSet(h, T)
    BY <1>0, SumStep
  <2>3. PICK a, b \in Int : a = f[x] /\ b = SumFunctionOnSet(f, T) /\ h[x] = c * a
    BY <2>1 DEF Multiplies
  <2>4. SumFunctionOnSet(h, T) = c * b
    BY <1>2, <2>3
  <2>5. SumFunctionOnSet(h, T \cup {x}) = c * a + c * b
    BY <2>2, <2>3, <2>4
  <2>6. SumFunctionOnSet(f, T \cup {x}) = a + b
    BY <2>1, <2>3
  <2>7. c * a + c * b = c * (a + b)
    OBVIOUS
  <2>8. SumFunctionOnSet(h, T \cup {x}) = c * SumFunctionOnSet(f, T \cup {x})
    BY <2>5, <2>6, <2>7
  <2> QED BY <2>8
<1>3. S \in F
  <2> HIDE DEF F
  <2> QED BY <1>1, <1>2, SetInduction
<1> QED BY <1>3

\* Larger summands have a larger sum.
LEMMA SumOrder ==
  ASSUME NEW S, IsFiniteSet(S), NEW f, NEW g,
         \A x \in S : f[x] \in Int /\ g[x] \in Int /\ f[x] <= g[x]
  PROVE  SumFunctionOnSet(f, S) <= SumFunctionOnSet(g, S)
<1> DEFINE F == {T \in SUBSET S : SumFunctionOnSet(f, T) <= SumFunctionOnSet(g, T)}
<1>0. (\A y \in S : f[y] \in Int) /\ (\A y \in S : g[y] \in Int)
  OBVIOUS
<1>1. {} \in F
  BY SumEmpty
<1>2. ASSUME NEW T \in SUBSET S, NEW x \in S \ T, T \in F
      PROVE  T \cup {x} \in F
  <2>1. /\ SumFunctionOnSet(f, T) \in Int
        /\ SumFunctionOnSet(f, T \cup {x}) = f[x] + SumFunctionOnSet(f, T)
    BY <1>0, SumStep
  <2>2. /\ SumFunctionOnSet(g, T) \in Int
        /\ SumFunctionOnSet(g, T \cup {x}) = g[x] + SumFunctionOnSet(g, T)
    BY <1>0, SumStep
  <2>3. PICK a, b, c, d \in Int : /\ a = f[x] /\ b = g[x] /\ a <= b
                                  /\ c = SumFunctionOnSet(f, T) /\ d = SumFunctionOnSet(g, T)
    BY <2>1, <2>2
  <2>4. c <= d
    BY <1>2, <2>3
  <2>5. a + c <= b + d
    BY <2>3, <2>4
  <2>6. SumFunctionOnSet(f, T \cup {x}) <= SumFunctionOnSet(g, T \cup {x})
    BY <2>1, <2>2, <2>3, <2>5
  <2> QED BY <2>6
<1>3. S \in F
  <2> HIDE DEF F
  <2> QED BY <1>1, <1>2, SetInduction
<1> QED BY <1>3

\* Zeros, and summands that are not negative.
LEMMA SumZero ==
  ASSUME NEW S, IsFiniteSet(S), NEW f, \A x \in S : f[x] = 0
  PROVE  SumFunctionOnSet(f, S) = 0
<1> DEFINE F == {T \in SUBSET S : SumFunctionOnSet(f, T) = 0}
<1>0. (\A y \in S : f[y] \in Int)
  OBVIOUS
<1>1. {} \in F
  BY SumEmpty
<1>2. ASSUME NEW T \in SUBSET S, NEW x \in S \ T, T \in F
      PROVE  T \cup {x} \in F
  <2>1. SumFunctionOnSet(f, T \cup {x}) = f[x] + SumFunctionOnSet(f, T)
    BY <1>0, SumStep
  <2>2. f[x] = 0 /\ SumFunctionOnSet(f, T) = 0
    BY <1>2
  <2>3. SumFunctionOnSet(f, T \cup {x}) = 0
    BY <2>1, <2>2
  <2> QED BY <2>3
<1>3. S \in F
  <2> HIDE DEF F
  <2> QED BY <1>1, <1>2, SetInduction
<1> QED BY <1>3

LEMMA SumNat ==
  ASSUME NEW S, IsFiniteSet(S), NEW f, \A x \in S : f[x] \in Nat
  PROVE  SumFunctionOnSet(f, S) \in Nat
<1> DEFINE z == [x \in S |-> 0]
<1>1. SumFunctionOnSet(z, S) = 0
  BY SumZero
<1>2. SumFunctionOnSet(z, S) <= SumFunctionOnSet(f, S)
  <2>1. \A x \in S : z[x] \in Int /\ f[x] \in Int /\ z[x] <= f[x]
    OBVIOUS
  <2> HIDE DEF z
  <2> QED BY <2>1, SumOrder
<1>3. SumFunctionOnSet(f, S) \in Int
  BY SumType
<1> QED BY <1>1, <1>2, <1>3

\* A part is no more than the whole.
LEMMA SumPart ==
  ASSUME NEW S, IsFiniteSet(S), NEW f, \A x \in S : f[x] \in Nat, NEW T \in SUBSET S
  PROVE  SumFunctionOnSet(f, T) <= SumFunctionOnSet(f, S)
<1> DEFINE F == {U \in SUBSET S : SumFunctionOnSet(f, T \cap U) <= SumFunctionOnSet(f, U)}
<1>0. (\A y \in S : f[y] \in Int)
  OBVIOUS
<1>1. {} \in F
  BY SumEmpty
<1>2. ASSUME NEW U \in SUBSET S, NEW x \in S \ U, U \in F
      PROVE  U \cup {x} \in F
  <2>1. PICK V \in SUBSET S : V = T \cap U
    OBVIOUS
  <2>2. IsFiniteSet(U) /\ IsFiniteSet(V) /\ x \notin V
    BY <2>1, FS_Subset
  <2>3. PICK a, b, c \in Nat : /\ a = f[x] /\ b = SumFunctionOnSet(f, V)
                               /\ c = SumFunctionOnSet(f, U)
    BY <2>2, SumNat
  <2>4. b <= c
    BY <1>2, <2>1, <2>3
  <2>5. SumFunctionOnSet(f, U \cup {x}) = a + c
    BY <2>3, SumStep
  <2>6. CASE x \in T
    <3>1. T \cap (U \cup {x}) = V \cup {x}
      BY <2>1, <2>6
    <3>2. SumFunctionOnSet(f, V \cup {x}) = a + b
      BY <2>2, <2>3, SumStep
    <3>3. SumFunctionOnSet(f, T \cap (U \cup {x})) = a + b
      BY <3>1, <3>2
    <3>4. a + b <= a + c
      BY <2>4
    <3>5. SumFunctionOnSet(f, T \cap (U \cup {x})) <= SumFunctionOnSet(f, U \cup {x})
      BY <2>5, <3>3, <3>4
    <3> QED BY <3>5
  <2>7. CASE x \notin T
    <3>1. T \cap (U \cup {x}) = V
      BY <2>1, <2>7
    <3>2. SumFunctionOnSet(f, T \cap (U \cup {x})) = b
      BY <2>3, <3>1
    <3>3. b <= a + c
      BY <2>4
    <3>4. SumFunctionOnSet(f, T \cap (U \cup {x})) <= SumFunctionOnSet(f, U \cup {x})
      BY <2>5, <3>2, <3>3
    <3> QED BY <3>4
  <2> QED BY <2>6, <2>7
<1>3. S \in F
  <2> HIDE DEF F
  <2> QED BY <1>1, <1>2, SetInduction
<1> QED BY <1>3

\* The sum of one function exceeds that of another by the difference in a single element.
LEMMA SumDiffer ==
  ASSUME NEW S, IsFiniteSet(S), NEW f, NEW g, NEW y \in S,
         \A x \in S : f[x] \in Int /\ g[x] \in Int /\ (x # y => g[x] = f[x])
  PROVE  SumFunctionOnSet(g, S) = SumFunctionOnSet(f, S) - f[y] + g[y]
<1>1. IsFiniteSet(S \ {y})
  BY FS_RemoveElement
<1>2. SumFunctionOnSet(g, S \ {y}) = SumFunctionOnSet(f, S \ {y})
  BY <1>1, SumSame
<1>3. PICK a, b, c \in Int : a = f[y] /\ b = g[y] /\ c = SumFunctionOnSet(f, S \ {y})
  BY <1>1, SumType
<1>4. SumFunctionOnSet(f, S) = a + c /\ SumFunctionOnSet(g, S) = b + c
  BY <1>2, <1>3, SumRemove
<1> QED BY <1>3, <1>4

\* A single element.
LEMMA SumSingle ==
  ASSUME NEW y, NEW f, f[y] \in Int
  PROVE  SumFunctionOnSet(f, {y}) = f[y]
<1>1. SumFunctionOnSet(f, {y}) = f[y] + SumFunctionOnSet(f, {y} \ {y})
  BY FS_Singleton, SumRemove
<1>2. SumFunctionOnSet(f, {y} \ {y}) = 0
  <2>1. {y} \ {y} = {}
    OBVIOUS
  <2> QED BY <2>1, SumEmpty
<1> QED BY <1>1, <1>2

\* The elements of a part, counted by a sum.
LEMMA SumCounts ==
  ASSUME NEW S, IsFiniteSet(S), NEW T \in SUBSET S, NEW f,
         \A x \in S : f[x] = IF x \in T THEN 1 ELSE 0
  PROVE  SumFunctionOnSet(f, S) = Cardinality(T)
<1> DEFINE F == {U \in SUBSET S : SumFunctionOnSet(f, U) = Cardinality(T \cap U)}
<1>0. (\A y \in S : f[y] \in Int)
  OBVIOUS
<1>1. {} \in F
  BY SumEmpty, FS_EmptySet
<1>2. ASSUME NEW U \in SUBSET S, NEW x \in S \ U, U \in F
      PROVE  U \cup {x} \in F
  <2>1. PICK V \in SUBSET S : V = T \cap U
    OBVIOUS
  <2>2. IsFiniteSet(V) /\ Cardinality(V) \in Nat /\ x \notin V
    BY <2>1, FS_Subset, FS_CardinalityType
  <2>3. SumFunctionOnSet(f, U) = Cardinality(V)
    BY <1>2, <2>1
  <2>4. SumFunctionOnSet(f, U \cup {x}) = f[x] + Cardinality(V)
    BY <1>0, <2>3, SumStep
  <2>5. CASE x \in T
    <3>1. T \cap (U \cup {x}) = V \cup {x} /\ f[x] = 1
      BY <2>1, <2>5
    <3>2. Cardinality(V \cup {x}) = Cardinality(V) + 1
      BY <2>2, FS_AddElement
    <3>3. Cardinality(T \cap (U \cup {x})) = Cardinality(V) + 1
      BY <3>1, <3>2
    <3>4. SumFunctionOnSet(f, U \cup {x}) = Cardinality(V) + 1
      BY <2>2, <2>4, <3>1
    <3>5. SumFunctionOnSet(f, U \cup {x}) = Cardinality(T \cap (U \cup {x}))
      BY <3>3, <3>4
    <3> QED BY <3>5
  <2>6. CASE x \notin T
    <3>1. T \cap (U \cup {x}) = V /\ f[x] = 0
      BY <2>1, <2>6
    <3>2. Cardinality(T \cap (U \cup {x})) = Cardinality(V)
      BY <3>1
    <3>3. SumFunctionOnSet(f, U \cup {x}) = Cardinality(V)
      BY <2>2, <2>4, <3>1
    <3>4. SumFunctionOnSet(f, U \cup {x}) = Cardinality(T \cap (U \cup {x}))
      BY <3>2, <3>3
    <3> QED BY <3>4
  <2> QED BY <2>5, <2>6
<1>3. S \in F
  <2> HIDE DEF F
  <2> QED BY <1>1, <1>2, SetInduction
<1>4. T \cap S = T
  OBVIOUS
<1> QED BY <1>3, <1>4
=============================================================================
