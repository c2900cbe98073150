----------------------------- MODULE FiniteSums -----------------------------
(***************************************************************************)
(* Sums of the values of a function over a finite set, which the ledgers   *)
(* of Credits and Marketplace are made of: SumFunctionOnSet of the         *)
(* community modules, for sets of any size.                                *)
(*                                                                         *)
(* Induction over data is by the least counterexample: a set S of numbers, *)
(* or of subsets of a set, holds all of them, because otherwise the        *)
(* complement of S would have a minimal member in a well-founded order.    *)
(***************************************************************************)
EXTENDS Integers, FiniteSetsExt, FiniteSetTheorems, WellFoundedInduction, TLAPS

(* Induction on numbers. *)
LEMMA NumberInduction ==
  ASSUME NEW S, 0 \in S, \A n \in Nat : n \in S => n + 1 \in S
  PROVE  Nat \subseteq S
<1> DEFINE R == OpToRel(<, Nat)
<1> DEFINE T == Nat \ S
<1>1. IsWellFoundedOn(R, Nat)
  BY NatLessThanWellFounded
<1>2. SUFFICES ASSUME T # {} PROVE FALSE
  OBVIOUS
<1>3. \E x \in T : \A y \in T : ~ (<<y, x>> \in R)
  <2> HIDE DEF R
  <2>1. T \subseteq Nat /\ T # {}
    BY <1>2
  <2> HIDE DEF T
  <2> QED
    BY <1>1, <2>1, WFMin
<1>4. PICK x \in T : \A y \in T : ~ (<<y, x>> \in R)
  BY <1>3
<1>5. x # 0 /\ x \in Nat
  OBVIOUS
<1>6. x - 1 \in T /\ <<x - 1, x>> \in R
  BY <1>5 DEF OpToRel
<1> QED
  BY <1>4, <1>6

(* Induction on the subsets of a finite set. *)
LEMMA SubsetInduction ==
  ASSUME NEW S, IsFiniteSet(S), NEW C,
         \A T \in SUBSET S : (\A x \in T : T \ {x} \in C) => T \in C
  PROVE  SUBSET S \subseteq C
<1> DEFINE Sizes == {n \in Nat : \A T \in SUBSET S : Cardinality(T) = n => T \in C}
<1>1. \A T \in SUBSET S : IsFiniteSet(T) /\ Cardinality(T) \in Nat
  BY FS_Subset, FS_CardinalityType
<1>2. 0 \in Sizes
  BY <1>1, FS_EmptySet
<1>3. ASSUME NEW n \in Nat, n \in Sizes PROVE n + 1 \in Sizes
  <2> SUFFICES ASSUME NEW T \in SUBSET S, Cardinality(T) = n + 1 PROVE T \in C
    OBVIOUS
  <2>1. ASSUME NEW x \in T PROVE T \ {x} \in C
    <3>1. Cardinality(T \ {x}) = n
      BY <1>1, FS_RemoveElement
    <3> QED
      BY <1>3, <3>1
  <2> QED
    BY <2>1
<1> HIDE DEF Sizes
<1>4. Nat \subseteq Sizes
  BY <1>2, <1>3, NumberInduction
<1> QED
  BY <1>1, <1>4 DEF Sizes
-----------------------------------------------------------------------------
(* SumFunctionOnSet folds a set by taking out its members in the order of  *)
(* CHOOSE.                                                                 *)
First(T) == CHOOSE x \in T : TRUE

SumStep(f, g, T) == IF T = {} THEN 0 ELSE f[First(T)] + g[T \ {First(T)}]

IsSum(f, g, S) == g = [T \in SUBSET S |-> SumStep(f, g, T)]

LEMMA FirstIn ==
  ASSUME NEW T, T # {}
  PROVE  First(T) \in T
BY DEF First

(* There is a function that satisfies the recursion: it is built up by the *)
(* size of the subsets.                                                    *)
LEMMA SumExists ==
  ASSUME NEW S, IsFiniteSet(S), NEW f
  PROVE  \E g : IsSum(f, g, S)
<1> DEFINE Small(n) == {T \in SUBSET S : Cardinality(T) <= n}
<1> DEFINE N == {n \in Nat : \E g : \A T \in Small(n) : g[T] = SumStep(f, g, T)}
<1>1. \A T \in SUBSET S : IsFiniteSet(T) /\ Cardinality(T) \in Nat
  BY FS_Subset, FS_CardinalityType
<1>2. 0 \in N
  <2>1. \A T \in Small(0) : T = {}
    BY <1>1, FS_EmptySet
  <2>2. \A T \in Small(0) :
          [U \in SUBSET S |-> 0][T] = SumStep(f, [U \in SUBSET S |-> 0], T)
    BY <2>1 DEF SumStep
  <2> QED
    BY <2>2
<1>3. ASSUME NEW n \in Nat, n \in N PROVE n + 1 \in N
  <2>1. PICK g : \A T \in Small(n) : g[T] = SumStep(f, g, T)
    BY <1>3
  <2> DEFINE h == [T \in SUBSET S |-> IF T \in Small(n) THEN g[T] ELSE SumStep(f, g, T)]
  <2>2. ASSUME NEW T \in Small(n + 1) PROVE h[T] = SumStep(f, h, T)
    <3>1. h[T] = SumStep(f, g, T)
      BY <2>1
    <3>2. ASSUME T # {} PROVE g[T \ {First(T)}] = h[T \ {First(T)}]
      <4>1. First(T) \in T
        BY <3>2, FirstIn
      <4>2. Cardinality(T \ {First(T)}) = Cardinality(T) - 1
        BY <1>1, <4>1, FS_RemoveElement
      <4>3. T \ {First(T)} \in Small(n)
        BY <1>1, <4>2
      <4> QED
        BY <4>3
    <3> HIDE DEF h
    <3> QED
      BY <3>1, <3>2 DEF SumStep
  <2> HIDE DEF h
  <2> QED
    BY <2>2
<1>4. Cardinality(S) \in N
  <2> HIDE DEF N
  <2>1. Nat \subseteq N
    BY <1>2, <1>3, NumberInduction
  <2> QED
    BY <2>1, FS_CardinalityType
<1>5. PICK g : \A T \in SUBSET S : g[T] = SumStep(f, g, T)
  <2>1. PICK g : \A T \in Small(Cardinality(S)) : g[T] = SumStep(f, g, T)
    BY <1>4
  <2>2. \A T \in SUBSET S : Cardinality(T) <= Cardinality(S)
    BY FS_Subset
  <2> QED
    BY <2>1, <2>2
<1> DEFINE h == [T \in SUBSET S |-> g[T]]
<1>6. \A T \in SUBSET S : SumStep(f, h, T) = SumStep(f, g, T)
  BY FirstIn DEF SumStep
<1>7. h = [T \in SUBSET S |-> SumStep(f, h, T)]
  BY <1>5, <1>6
<1> QED
  BY <1>7 DEF IsSum

LEMMA SumIsSum ==
  ASSUME NEW S, IsFiniteSet(S), NEW f
  PROVE  \E g : IsSum(f, g, S) /\ SumFunctionOnSet(f, S) = g[S]
<1> DEFINE g == CHOOSE g : IsSum(f, g, S)
<1>1. IsSum(f, g, S)
  BY SumExists
<1>2. SumFunctionOnSet(f, S) = g[S]
  BY DEF SumFunctionOnSet, FoldFunctionOnSet, MapThenFoldSet, IsSum, SumStep, First
<1> QED
  BY <1>1, <1>2

(* The recursion, whatever set it is started from. *)
LEMMA SumUnique ==
  ASSUME NEW S, IsFiniteSet(S), NEW f, NEW g, NEW A, IsSum(f, g, A),
         NEW h, NEW B, IsSum(f, h, B), S \subseteq A, S \subseteq B
  PROVE  g[S] = h[S]
<1> DEFINE C == {T \in SUBSET S : g[T] = h[T]}
<1>1. \A T \in SUBSET S : g[T] = SumStep(f, g, T) /\ h[T] = SumStep(f, h, T)
  BY DEF IsSum
<1>2. ASSUME NEW T \in SUBSET S, \A x \in T : T \ {x} \in C PROVE T \in C
  BY <1>1, <1>2, FirstIn DEF SumStep
<1>3. SUBSET S \subseteq C
  <2> HIDE DEF C
  <2> QED
    BY <1>2, SubsetInduction
<1> QED
  BY <1>3

LEMMA SumOfNone ==
  ASSUME NEW f
  PROVE  SumFunctionOnSet(f, {}) = 0
<1>1. PICK g : IsSum(f, g, {}) /\ SumFunctionOnSet(f, {}) = g[{}]
  BY SumIsSum, FS_EmptySet
<1> QED
  BY <1>1 DEF IsSum, SumStep

LEMMA SumFirst ==
  ASSUME NEW S, IsFiniteSet(S), S # {}, NEW f
  PROVE  SumFunctionOnSet(f, S) = f[First(S)] + SumFunctionOnSet(f, S \ {First(S)})
<1> DEFINE T == S \ {First(S)}
<1>1. PICK g : IsSum(f, g, S) /\ SumFunctionOnSet(f, S) = g[S]
  BY SumIsSum
<1>2. IsFiniteSet(T)
  BY FS_Subset
<1>3. PICK h : IsSum(f, h, T) /\ SumFunctionOnSet(f, T) = h[T]
  BY <1>2, SumIsSum
<1>4. g[T] = h[T]
  BY <1>1, <1>2, <1>3, SumUnique
<1>5. g[S] = f[First(S)] + g[T]
  BY <1>1 DEF IsSum, SumStep
<1> QED
  BY <1>1, <1>3, <1>4, <1>5
-----------------------------------------------------------------------------
(* What follows is all that the theorems about ledgers use. *)

Numbers(f, S) == \A x \in S : f[x] \in Int

LEMMA SumType ==
  ASSUME NEW S, IsFiniteSet(S), NEW f, Numbers(f, S)
  PROVE  SumFunctionOnSet(f, S) \in Int
<1> DEFINE C == {T \in SUBSET S : SumFunctionOnSet(f, T) \in Int}
<1>1. ASSUME NEW T \in SUBSET S, \A x \in T : T \ {x} \in C PROVE T \in C
  <2>1. CASE T = {}
    BY <2>1, SumOfNone
  <2>2. CASE T # {}
    <3>1. First(T) \in T /\ IsFiniteSet(T)
      BY <2>2, FirstIn, FS_Subset
    <3>2. SumFunctionOnSet(f, T) = f[First(T)] + SumFunctionOnSet(f, T \ {First(T)})
      BY <2>2, <3>1, SumFirst
    <3>3. f[First(T)] \in Int /\ SumFunctionOnSet(f, T \ {First(T)}) \in Int
      BY <1>1, <3>1 DEF Numbers
    <3> QED
      BY <3>2, <3>3
  <2> QED
    BY <2>1, <2>2
<1>2. SUBSET S \subseteq C
  <2> HIDE DEF C
  <2> QED
    BY <1>1, SubsetInduction
<1> QED
  BY <1>2

(* Any member may be taken out first. *)
LEMMA SumSplit ==
  ASSUME NEW S, IsFiniteSet(S), NEW f, Numbers(f, S), NEW x \in S
  PROVE  SumFunctionOnSet(f, S) = f[x] + SumFunctionOnSet(f, S \ {x})
<1> DEFINE Sum(T) == SumFunctionOnSet(f, T)
<1> DEFINE C == {T \in SUBSET S : \A y \in T : Sum(T) = f[y] + Sum(T \ {y})}
<1>1. \A T \in SUBSET S : IsFiniteSet(T) /\ Sum(T) \in Int
  BY FS_Subset, SumType DEF Numbers
<1>2. \A T \in SUBSET S : T # {} =>
        First(T) \in T /\ Sum(T) = f[First(T)] + Sum(T \ {First(T)})
  BY <1>1, FirstIn, SumFirst
<1>3. ASSUME NEW T \in SUBSET S, \A y \in T : T \ {y} \in C PROVE T \in C
  <2> SUFFICES ASSUME NEW y \in T, y # First(T)
               PROVE  Sum(T) = f[y] + Sum(T \ {y})
    BY <1>2
  <2> DEFINE z == First(T)
  <2>1. z \in T /\ Sum(T) = f[z] + Sum(T \ {z})
    BY <1>2
  <2>2. Sum(T \ {z}) = f[y] + Sum((T \ {z}) \ {y})
    BY <1>3, <2>1
  <2>3. Sum(T \ {y}) = f[z] + Sum((T \ {y}) \ {z})
    BY <1>3, <2>1
  <2>4. Sum((T \ {z}) \ {y}) = Sum((T \ {y}) \ {z})
    <3>1. (T \ {z}) \ {y} = (T \ {y}) \ {z}
      OBVIOUS
    <3> QED
      BY <3>1
  <2>5. f[y] \in Int /\ f[z] \in Int /\ Sum((T \ {z}) \ {y}) \in Int
    BY <1>1, <2>1 DEF Numbers
  <2>6. \A a, b, c \in Int : a + (b + c) = b + (a + c)
    OBVIOUS
  <2> QED
    BY <2>1, <2>2, <2>3, <2>4, <2>5, <2>6
<1>4. SUBSET S \subseteq C
  <2> HIDE DEF C
  <2> QED
    BY <1>3, SubsetInduction
<1> QED
  BY <1>4

LEMMA SumAdd ==
  ASSUME NEW S, IsFiniteSet(S), NEW x, x \notin S,
         NEW f, Numbers(f, S), f[x] \in Int
  PROVE  SumFunctionOnSet(f, S \cup {x}) = SumFunctionOnSet(f, S) + f[x]
<1>1. IsFiniteSet(S \cup {x}) /\ Numbers(f, S \cup {x}) /\ (S \cup {x}) \ {x} = S
  BY FS_AddElement DEF Numbers
<1>2. SumFunctionOnSet(f, S \cup {x}) = f[x] + SumFunctionOnSet(f, S)
  BY <1>1, SumSplit
<1> QED
  BY <1>2, SumType

LEMMA SumSame ==
  ASSUME NEW S, IsFiniteSet(S), NEW f, NEW g, \A x \in S : f[x] = g[x]
  PROVE  SumFunctionOnSet(f, S) = SumFunctionOnSet(g, S)
<1> DEFINE C == {T \in SUBSET S : SumFunctionOnSet(f, T) = SumFunctionOnSet(g, T)}
<1>1. ASSUME NEW T \in SUBSET S, \A x \in T : T \ {x} \in C PROVE T \in C
  <2>1. CASE T = {}
    BY <2>1, SumOfNone
  <2>2. CASE T # {}
    <3>1. First(T) \in T /\ IsFiniteSet(T)
      BY <2>2, FirstIn, FS_Subset
    <3>2. SumFunctionOnSet(f, T) = f[First(T)] + SumFunctionOnSet(f, T \ {First(T)})
      BY <2>2, <3>1, SumFirst
    <3>3. SumFunctionOnSet(g, T) = g[First(T)] + SumFunctionOnSet(g, T \ {First(T)})
      BY <2>2, <3>1, SumFirst
    <3> QED
      BY <1>1, <3>1, <3>2, <3>3
  <2> QED
    BY <2>1, <2>2
<1>2. SUBSET S \subseteq C
  <2> HIDE DEF C
  <2> QED
    BY <1>1, SubsetInduction
<1> QED
  BY <1>2

(* One value changes, and the sum changes with it. *)
LEMMA SumUpdate ==
  ASSUME NEW S, IsFiniteSet(S), NEW f, Numbers(f, S), NEW x \in S,
         NEW g, g[x] \in Int, \A y \in S \ {x} : g[y] = f[y]
  PROVE  SumFunctionOnSet(g, S) = SumFunctionOnSet(f, S) + g[x] - f[x]
<1> DEFINE T == S \ {x}
<1>1. IsFiniteSet(T) /\ Numbers(f, T) /\ Numbers(g, S) /\ f[x] \in Int
  BY FS_Subset DEF Numbers
<1>2. SumFunctionOnSet(g, T) = SumFunctionOnSet(f, T)
  BY <1>1, SumSame
<1>3. SumFunctionOnSet(f, T) \in Int
  BY <1>1, SumType
<1>4. SumFunctionOnSet(f, S) = f[x] + SumFunctionOnSet(f, T)
  BY <1>1, SumSplit
<1>5. SumFunctionOnSet(g, S) = g[x] + SumFunctionOnSet(g, T)
  BY <1>1, SumSplit
<1> HIDE DEF T
<1> QED
  BY <1>1, <1>2, <1>3, <1>4, <1>5

LEMMA SumUpdateTwo ==
  ASSUME NEW S, IsFiniteSet(S), NEW f, Numbers(f, S),
         NEW x \in S, NEW y \in S, x # y,
         NEW g, g[x] \in Int, g[y] \in Int, \A z \in S \ {x, y} : g[z] = f[z]
  PROVE  SumFunctionOnSet(g, S) =
           SumFunctionOnSet(f, S) + g[x] - f[x] + g[y] - f[y]
<1> DEFINE h == [z \in S |-> IF z = x THEN g[x] ELSE f[z]]
<1>1. Numbers(h, S) /\ h[x] = g[x] /\ h[y] = f[y] /\ f[x] \in Int /\ f[y] \in Int
  BY DEF Numbers
<1>2. SumFunctionOnSet(h, S) = SumFunctionOnSet(f, S) + h[x] - f[x]
  <2>1. \A z \in S \ {x} : h[z] = f[z]
    OBVIOUS
  <2> HIDE DEF h
  <2> QED
    BY <1>1, <2>1, SumUpdate
<1>3. SumFunctionOnSet(g, S) = SumFunctionOnSet(h, S) + g[y] - h[y]
  <2>1. \A z \in S \ {y} : g[z] = h[z]
    OBVIOUS
  <2> HIDE DEF h
  <2> QED
    BY <1>1, <2>1, SumUpdate
<1>4. SumFunctionOnSet(f, S) \in Int
  BY SumType
<1> HIDE DEF h
<1> QED
  BY <1>1, <1>2, <1>3, <1>4

LEMMA SumConstant ==
  ASSUME NEW S, IsFiniteSet(S), NEW c \in Int, NEW f, \A x \in S : f[x] = c
  PROVE  SumFunctionOnSet(f, S) = c * Cardinality(S)
<1> DEFINE C == {T \in SUBSET S : SumFunctionOnSet(f, T) = c * Cardinality(T)}
<1>1. ASSUME NEW T \in SUBSET S, \A x \in T : T \ {x} \in C PROVE T \in C
  <2>1. CASE T = {}
    BY <2>1, SumOfNone, FS_EmptySet
  <2>2. CASE T # {}
    <3> DEFINE n == Cardinality(T)
    <3>1. First(T) \in T /\ IsFiniteSet(T) /\ n \in Nat
      BY <2>2, FirstIn, FS_Subset, FS_CardinalityType
    <3>2. SumFunctionOnSet(f, T) = f[First(T)] + SumFunctionOnSet(f, T \ {First(T)})
      BY <2>2, <3>1, SumFirst
    <3>3. SumFunctionOnSet(f, T \ {First(T)}) = c * (n - 1)
      BY <1>1, <3>1, FS_RemoveElement
    <3>4. f[First(T)] = c
      BY <3>1
    <3>5. c + c * (n - 1) = c * n
      <4> HIDE DEF n
      <4> QED
        BY <3>1
    <3> QED
      BY <3>2, <3>3, <3>4, <3>5
  <2> QED
    BY <2>1, <2>2
<1>2. SUBSET S \subseteq C
  <2> HIDE DEF C
  <2> QED
    BY <1>1, SubsetInduction
<1> QED
  BY <1>2
=============================================================================
