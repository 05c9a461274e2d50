------------------------------ MODULE SumFacts ------------------------------
(***************************************************************************)
(* Facts about the folds of the community modules that the proofs of other *)
(* modules rest on: what a recursion over a finite set defines, and the    *)
(* sum of a function.  The induction theorems of the library take an       *)
(* operator as a parameter; here the set of the numbers, or of the sets,   *)
(* of which the claim is true stands for it.                               *)
(***************************************************************************)
EXTENDS Integers, Functions, FiniteSetTheorems, TLAPS

\* A relation given by an operator holds of a pair when the operator does.
LEMMA LessOnNat ==
  \A x, y \in Nat : <<x, y>> \in OpToRel(<, Nat) <=> x < y
<1> SUFFICES ASSUME NEW x \in Nat, NEW y \in Nat
             PROVE  <<x, y>> \in OpToRel(<, Nat) <=> x < y
  OBVIOUS
<1>1. <<x, y>> \in OpToRel(<, Nat) <=> \E u, v \in Nat : u < v /\ <<x, y>> = <<u, v>>
  BY Zenon DEF OpToRel
<1> QED  BY <1>1

\* A set of numbers has a first one.
LEMMA FirstNumber ==
  ASSUME NEW G \in SUBSET Nat, G # {}
  PROVE  \E n \in G : \A m \in G : n <= m
<1>1. PICK n \in G : \A m \in G : ~(<<m, n>> \in OpToRel(<, Nat))
  BY NatLessThanWellFounded, WFMin
<1>2. \A m \in G : ~(m < n)
  BY <1>1, LessOnNat
<1>3. \A m \in G : n <= m
  BY <1>2
<1> QED  BY <1>3

\* A set with 0 and the successor of each of its members has every number.
LEMMA CountingUp ==
  ASSUME NEW G \in SUBSET Nat, 0 \in G, \A n \in G : n + 1 \in G
  PROVE  G = Nat
<1> SUFFICES ASSUME Nat \ G # {} PROVE FALSE
  OBVIOUS
<1>1. PICK n \in Nat \ G : \A m \in Nat \ G : n <= m
  <2> DEFINE Out == Nat \ G
  <2>1. Out \in SUBSET Nat /\ Out # {}
    OBVIOUS
  <2> HIDE DEF Out
  <2>2. \E n \in Out : \A m \in Out : n <= m
    BY <2>1, FirstNumber
  <2> QED  BY <2>2 DEF Out
<1>2. n # 0 /\ n - 1 \in Nat
  OBVIOUS
<1>3. n - 1 \in G
  BY <1>1, <1>2
<1> QED  BY <1>2, <1>3

\* A set of numbers that has a bound has a last one.
LEMMA LastNumber ==
  ASSUME NEW n \in Nat, NEW T \in SUBSET 1..n, T # {}
  PROVE  \E m \in T : \A t \in T : m >= t
<1> DEFINE Bounds == {m \in Nat : \A t \in T : t <= m}
<1>1. Bounds \in SUBSET Nat /\ n \in Bounds
  OBVIOUS
<1>2. PICK m \in Bounds : \A b \in Bounds : m <= b
  <2> HIDE DEF Bounds
  <2> QED  BY <1>1, FirstNumber
<1>3. m \in T
  <2> SUFFICES ASSUME m \notin T PROVE FALSE
    OBVIOUS
  <2>1. \A t \in T : t <= m - 1 /\ 1 <= t
    OBVIOUS
  <2>2. m - 1 \in Nat
    <3>1. PICK t \in T : TRUE
      OBVIOUS
    <3>2. t <= m - 1 /\ 1 <= t /\ m \in Nat /\ t \in Int
      BY <2>1
    <3> QED  BY <3>2
  <2>3. m - 1 \in Bounds
    BY <2>1, <2>2
  <2> QED  BY <1>2, <2>3
<1> QED  BY <1>3

\* A family of sets that has a set whenever it has its proper subsets has every
\* subset of a finite set.
LEMMA SmallerSetsFirst ==
  ASSUME NEW S, IsFiniteSet(S), NEW G,
         \A T \in SUBSET S : (\A U \in SUBSET T : U # T => U \in G) => T \in G
  PROVE  SUBSET S \subseteq G
<1> DEFINE Out == (SUBSET S) \ G
<1> SUFFICES ASSUME Out # {} PROVE FALSE
  OBVIOUS
<1>1. Out \subseteq FiniteSubsetsOf(S)
  BY FS_FiniteSubsetsOfFinite
<1>2. PICK T \in Out : \A U \in Out : ~(<<U, T>> \in StrictSubsetOrdering(S))
  <2>1. IsWellFoundedOn(StrictSubsetOrdering(S), FiniteSubsetsOf(S))
    BY FS_StrictSubsetOrderingWellFounded
  <2> HIDE DEF Out
  <2> QED  BY <1>1, <2>1, WFMin
<1>3. \A U \in SUBSET T : U # T => U \in G
  BY <1>2 DEF StrictSubsetOrdering
<1> QED  BY <1>2, <1>3

-----------------------------------------------------------------------------
(* Recursion over the subsets of a finite set, one chosen member at a time. *)

Recurses(it, S, base, choice, F) ==
  \A T \in SUBSET S :
    it[T] = IF T = {} THEN base ELSE F[T][it[T \ {choice[T]}]]

LEMMA SetRecursion ==
  ASSUME NEW S, IsFiniteSet(S), NEW V, NEW base \in V, NEW choice,
         \A T \in SUBSET S : T # {} => choice[T] \in T,
         NEW F, \A T \in SUBSET S, v \in V : T # {} => F[T][v] \in V
  PROVE  \E it \in [SUBSET S -> V] : Recurses(it, S, base, choice, F)
<1> DEFINE Small(n) == {T \in SUBSET S : Cardinality(T) <= n}
           Solves(g, n) ==
             /\ g \in [Small(n) -> V]
             /\ \A T \in Small(n) :
                  g[T] = IF T = {} THEN base ELSE F[T][g[T \ {choice[T]}]]
           Solvable == {n \in Nat : \E g : Solves(g, n)}
<1>1. \A T \in SUBSET S : /\ Cardinality(T) \in Nat
                          /\ T = {} <=> Cardinality(T) = 0
                          /\ \A x \in T : Cardinality(T \ {x}) = Cardinality(T) - 1
  BY FS_Subset, FS_CardinalityType, FS_EmptySet, FS_RemoveElement
<1>2. 0 \in Solvable
  <2>1. Small(0) = {{}}
    BY <1>1
  <2>2. Solves([T \in Small(0) |-> base], 0)
    BY <2>1
  <2> QED  BY <2>2
<1>3. ASSUME NEW n \in Solvable PROVE n + 1 \in Solvable
  <2>1. PICK g : Solves(g, n)
    BY <1>3
  <2> DEFINE h == [T \in Small(n + 1) |->
                     IF T = {} THEN base ELSE F[T][g[T \ {choice[T]}]]]
  <2>2. ASSUME NEW T \in Small(n + 1), T # {}
        PROVE  T \ {choice[T]} \in Small(n)
    BY <1>1, <2>2
  <2>3. h \in [Small(n + 1) -> V]
    <3> SUFFICES ASSUME NEW T \in Small(n + 1), T # {}
                 PROVE  F[T][g[T \ {choice[T]}]] \in V
      OBVIOUS
    <3>1. g[T \ {choice[T]}] \in V
      BY <2>1, <2>2
    <3> QED  BY <3>1
  <2>4. \A T \in Small(n) : h[T] = g[T]
    <3> SUFFICES ASSUME NEW T \in Small(n) PROVE h[T] = g[T]
      OBVIOUS
    <3>1. T \in Small(n + 1)
      BY <1>1
    <3>2. g[T] = IF T = {} THEN base ELSE F[T][g[T \ {choice[T]}]]
      BY <2>1
    <3> QED  BY <3>1, <3>2
  <2>5. Solves(h, n + 1)
    <3> SUFFICES ASSUME NEW T \in Small(n + 1)
                 PROVE  h[T] = IF T = {} THEN base ELSE F[T][h[T \ {choice[T]}]]
      BY <2>3
    <3>1. T # {} => h[T \ {choice[T]}] = g[T \ {choice[T]}]
      BY <2>2, <2>4
    <3> QED  BY <3>1
  <2>6. n + 1 \in Nat
    OBVIOUS
  <2> HIDE DEF h, Solves
  <2> QED  BY <2>5, <2>6
<1> HIDE DEF Solvable
<1>4. Solvable = Nat
  <2>1. Solvable \in SUBSET Nat
    BY DEF Solvable
  <2> QED  BY <1>2, <1>3, <2>1, CountingUp
<1>5. Cardinality(S) \in Solvable
  BY <1>1, <1>4
<1>6. PICK g : Solves(g, Cardinality(S))
  BY <1>5 DEF Solvable
<1>7. Small(Cardinality(S)) = SUBSET S
  BY FS_Subset, FS_CardinalityType
<1> QED  BY <1>6, <1>7 DEF Recurses

\* Two recursions alike agree on the sets both are defined on.
LEMMA SameRecursion ==
  ASSUME NEW S, IsFiniteSet(S), NEW T \in SUBSET S, NEW base, NEW choice, NEW F,
         \A U \in SUBSET S : U # {} => choice[U] \in U,
         NEW g, Recurses(g, S, base, choice, F),
         NEW h, Recurses(h, T, base, choice, F)
  PROVE  \A U \in SUBSET T : g[U] = h[U]
<1> DEFINE Same == {U \in SUBSET T : g[U] = h[U]}
<1>1. IsFiniteSet(T)
  BY FS_Subset
<1>2. ASSUME NEW U \in SUBSET T, \A W \in SUBSET U : W # U => W \in Same
      PROVE  U \in Same
  <2>1. CASE U = {}
    BY <2>1 DEF Recurses
  <2>2. CASE U # {}
    <3>1. U \ {choice[U]} \in SUBSET U /\ U \ {choice[U]} # U
      BY <2>2
    <3>2. g[U \ {choice[U]}] = h[U \ {choice[U]}]
      BY <1>2, <3>1
    <3>3. g[U] = F[U][g[U \ {choice[U]}]] /\ h[U] = F[U][h[U \ {choice[U]}]]
      BY <2>2 DEF Recurses
    <3> QED  BY <3>2, <3>3
  <2> QED  BY <2>1, <2>2
<1> HIDE DEF Same
<1>3. SUBSET T \subseteq Same
  BY <1>1, <1>2, SmallerSetsFirst
<1> QED  BY <1>3 DEF Same

-----------------------------------------------------------------------------
(* The sum of a function: SumFunctionOnSet of Functions. *)

AnyOf(T) == CHOOSE x \in T : TRUE

\* The function the fold is defined by.
SumIter(f, S) ==
  CHOOSE it : it = [T \in SUBSET S |->
                      IF T = {} THEN 0 ELSE f[AnyOf(T)] + it[T \ {AnyOf(T)}]]

LEMMA SumIsIter ==
  ASSUME NEW f, NEW S
  PROVE  SumFunctionOnSet(f, S) = SumIter(f, S)[S]
  BY Zenon DEF SumFunctionOnSet, FoldFunctionOnSet, MapThenFoldSet, SumIter, AnyOf

Choice(S) == [T \in SUBSET S |-> AnyOf(T)]
Adding(f, S) == [T \in SUBSET S |-> [v \in Int |-> f[AnyOf(T)] + v]]

LEMMA SumRecurses ==
  ASSUME NEW f, NEW S, IsFiniteSet(S), \A x \in S : f[x] \in Int
  PROVE  /\ SumIter(f, S) \in [SUBSET S -> Int]
         /\ \A T \in SUBSET S :
              SumIter(f, S)[T] =
                IF T = {} THEN 0 ELSE f[AnyOf(T)] + SumIter(f, S)[T \ {AnyOf(T)}]
<1>1. \A T \in SUBSET S : T # {} => AnyOf(T) \in T
  BY DEF AnyOf
<1>2. PICK it \in [SUBSET S -> Int] : Recurses(it, S, 0, Choice(S), Adding(f, S))
  <2>1. \A T \in SUBSET S : T # {} => Choice(S)[T] \in T
    BY <1>1 DEF Choice
  <2>2. \A T \in SUBSET S, v \in Int : T # {} => Adding(f, S)[T][v] \in Int
    BY <1>1 DEF Adding
  <2>3. 0 \in Int
    OBVIOUS
  <2> QED  BY <2>1, <2>2, <2>3, SetRecursion
<1>3. \A T \in SUBSET S :
        it[T] = IF T = {} THEN 0 ELSE f[AnyOf(T)] + it[T \ {AnyOf(T)}]
  BY <1>1, <1>2 DEF Recurses, Choice, Adding
<1>4. it = [T \in SUBSET S |->
              IF T = {} THEN 0 ELSE f[AnyOf(T)] + it[T \ {AnyOf(T)}]]
  BY <1>2, <1>3
<1>5. SumIter(f, S) =
        [T \in SUBSET S |->
           IF T = {} THEN 0 ELSE f[AnyOf(T)] + SumIter(f, S)[T \ {AnyOf(T)}]]
  BY <1>4, Zenon DEF SumIter
<1> DEFINE sum == SumIter(f, S)
<1> HIDE DEF sum
<1>6. \A T \in SUBSET S :
        sum[T] = IF T = {} THEN 0 ELSE f[AnyOf(T)] + sum[T \ {AnyOf(T)}]
  BY <1>5 DEF sum
<1>7. \A T \in SUBSET S : sum[T] = it[T]
  <2> DEFINE Seen == Int \cup {sum[T] : T \in SUBSET S}
             Add == [T \in SUBSET S |-> [v \in Seen |-> f[AnyOf(T)] + v]]
  <2>1. Recurses(sum, S, 0, Choice(S), Add)
    BY <1>1, <1>6 DEF Recurses, Choice
  <2>2. Recurses(it, S, 0, Choice(S), Add)
    BY <1>1, <1>2, <1>3 DEF Recurses, Choice
  <2>3. \A T \in SUBSET S : T # {} => Choice(S)[T] \in T
    BY <1>1 DEF Choice
  <2> QED  BY <2>1, <2>2, <2>3, SameRecursion
<1>8. sum = it
  <2>1. sum = [T \in SUBSET S |-> sum[T]]
    BY <1>5 DEF sum
  <2> QED  BY <1>2, <1>7, <2>1
<1> QED  BY <1>2, <1>6, <1>8 DEF sum
Numeric(f, S) == IsFiniteSet(S) /\ \A x \in S : f[x] \in Int

LEMMA SumOfPart ==
  ASSUME NEW f, NEW S, Numeric(f, S), NEW T \in SUBSET S
  PROVE  /\ SumIter(f, S)[T] = SumFunctionOnSet(f, T)
         /\ SumFunctionOnSet(f, T) \in Int
<1>1. IsFiniteSet(T)
  BY FS_Subset DEF Numeric
<1>2. /\ SumIter(f, S) \in [SUBSET S -> Int]
      /\ \A U \in SUBSET S :
           SumIter(f, S)[U] =
             IF U = {} THEN 0 ELSE f[AnyOf(U)] + SumIter(f, S)[U \ {AnyOf(U)}]
  BY SumRecurses DEF Numeric
<1>3. /\ SumIter(f, T) \in [SUBSET T -> Int]
      /\ \A U \in SUBSET T :
           SumIter(f, T)[U] =
             IF U = {} THEN 0 ELSE f[AnyOf(U)] + SumIter(f, T)[U \ {AnyOf(U)}]
  <2>1. \A x \in T : f[x] \in Int
    BY DEF Numeric
  <2> QED  BY <1>1, <2>1, SumRecurses
<1>4. \A U \in SUBSET S : U # {} => AnyOf(U) \in U
  BY DEF AnyOf
<1>5. Recurses(SumIter(f, S), S, 0, Choice(S), Adding(f, S))
  BY <1>2, <1>4 DEF Recurses, Choice, Adding
<1>6. Recurses(SumIter(f, T), T, 0, Choice(S), Adding(f, S))
  BY <1>3, <1>4 DEF Recurses, Choice, Adding
<1>7. \A U \in SUBSET S : U # {} => Choice(S)[U] \in U
  BY <1>4 DEF Choice
<1>8. SumIter(f, S)[T] = SumIter(f, T)[T]
  BY <1>5, <1>6, <1>7, SameRecursion DEF Numeric
<1> QED  BY <1>2, <1>8, SumIsIter

\* The sum of nothing is 0.
LEMMA SumEmpty ==
  ASSUME NEW f
  PROVE  SumFunctionOnSet(f, {}) = 0
<1>1. Numeric(f, {})
  BY FS_EmptySet DEF Numeric
<1> QED  BY <1>1, SumRecurses, SumIsIter DEF Numeric

\* Any member can be taken out of a sum.
LEMMA SumRemove ==
  ASSUME NEW f, NEW S, Numeric(f, S), NEW y \in S
  PROVE  SumFunctionOnSet(f, S) = f[y] + SumFunctionOnSet(f, S \ {y})
<1> DEFINE sum(T) == SumFunctionOnSet(f, T)
           Any == {T \in SUBSET S : \A x \in T : sum(T) = f[x] + sum(T \ {x})}
<1>1. \A T \in SUBSET S : sum(T) \in Int
  BY SumOfPart
<1>2. \A T \in SUBSET S :
        T # {} => AnyOf(T) \in T /\ sum(T) = f[AnyOf(T)] + sum(T \ {AnyOf(T)})
  <2>0. /\ SumIter(f, S) \in [SUBSET S -> Int]
        /\ \A T \in SUBSET S :
             SumIter(f, S)[T] =
               IF T = {} THEN 0 ELSE f[AnyOf(T)] + SumIter(f, S)[T \ {AnyOf(T)}]
    BY SumRecurses DEF Numeric
  <2>1. ASSUME NEW T \in SUBSET S, T # {}
        PROVE  /\ AnyOf(T) \in T
               /\ SumIter(f, S)[T] = f[AnyOf(T)] + SumIter(f, S)[T \ {AnyOf(T)}]
    BY <2>0, <2>1 DEF AnyOf
  <2>2. ASSUME NEW T \in SUBSET S, T # {}
        PROVE  /\ SumIter(f, S)[T] = sum(T)
               /\ SumIter(f, S)[T \ {AnyOf(T)}] = sum(T \ {AnyOf(T)})
    BY SumOfPart
  <2> HIDE DEF sum
  <2> QED  BY <2>1, <2>2
<1> HIDE DEF sum
<1>3. ASSUME NEW T \in SUBSET S, \A U \in SUBSET T : U # T => U \in Any
      PROVE  T \in Any
  <2> SUFFICES ASSUME NEW x \in T PROVE sum(T) = f[x] + sum(T \ {x})
    OBVIOUS
  <2> DEFINE c == AnyOf(T)
  <2>1. c \in T /\ sum(T) = f[c] + sum(T \ {c})
    BY <1>2
  <2>2. CASE x # c
    <3>1. /\ T \ {c} \in SUBSET T /\ T \ {c} # T /\ x \in T \ {c}
          /\ T \ {x} \in SUBSET T /\ T \ {x} # T /\ c \in T \ {x}
      BY <2>1, <2>2
    <3>2. sum(T \ {c}) = f[x] + sum((T \ {c}) \ {x})
      BY <1>3, <3>1
    <3>3. sum(T \ {x}) = f[c] + sum((T \ {x}) \ {c})
      BY <1>3, <3>1
    <3>4. (T \ {c}) \ {x} = (T \ {x}) \ {c}
      OBVIOUS
    <3>5. /\ f[x] \in Int /\ f[c] \in Int
          /\ sum((T \ {x}) \ {c}) \in Int
      BY <1>1, <2>1 DEF Numeric
    <3>6. \A p, q, rest \in Int : p + (q + rest) = q + (p + rest)
      OBVIOUS
    <3> HIDE DEF c
    <3>7. sum(T) = f[c] + (f[x] + sum((T \ {x}) \ {c}))
      BY <2>1, <3>2, <3>4
    <3> QED  BY <3>3, <3>5, <3>6, <3>7
  <2> QED  BY <2>1, <2>2
<1> HIDE DEF Any
<1>4. SUBSET S \subseteq Any
  BY <1>3, SmallerSetsFirst DEF Numeric
<1>5. S \in Any
  BY <1>4
<1> QED  BY <1>5 DEF Any, sum

\* Functions that agree on a set have the same sum there.
LEMMA SumSame ==
  ASSUME NEW f, NEW g, NEW S, Numeric(f, S), \A x \in S : g[x] = f[x]
  PROVE  SumFunctionOnSet(g, S) = SumFunctionOnSet(f, S)
<1> DEFINE Same == {T \in SUBSET S :
                      SumFunctionOnSet(g, T) = SumFunctionOnSet(f, T)}
<1>1. Numeric(g, S)
  BY DEF Numeric
<1>2. ASSUME NEW T \in SUBSET S, \A U \in SUBSET T : U # T => U \in Same
      PROVE  T \in Same
  <2>1. CASE T = {}
    BY <2>1, SumEmpty
  <2>2. CASE T # {}
    <3>1. PICK x \in T : TRUE
      BY <2>2
    <3>2. Numeric(f, T) /\ Numeric(g, T)
      BY <1>1, FS_Subset DEF Numeric
    <3>3. T \ {x} \in Same
      BY <1>2, <3>1
    <3> QED  BY <3>1, <3>2, <3>3, SumRemove
  <2> QED  BY <2>1, <2>2
<1> HIDE DEF Same
<1>3. SUBSET S \subseteq Same
  BY <1>2, SmallerSetsFirst DEF Numeric
<1>4. S \in Same
  BY <1>3
<1> QED  BY <1>4 DEF Same

\* Changing a function at one point changes its sum by as much.
LEMMA SumUpdate ==
  ASSUME NEW S, IsFiniteSet(S), NEW f \in [S -> Int], NEW y \in S, NEW v \in Int
  PROVE  SumFunction([f EXCEPT ![y] = v]) = SumFunction(f) + (v - f[y])
<1> DEFINE g == [f EXCEPT ![y] = v]
<1>1. Numeric(f, S) /\ Numeric(g, S) /\ Numeric(f, S \ {y})
  BY FS_RemoveElement DEF Numeric
<1>2. SumFunctionOnSet(g, S \ {y}) = SumFunctionOnSet(f, S \ {y})
  <2>1. \A x \in S \ {y} : g[x] = f[x]
    OBVIOUS
  <2> HIDE DEF g
  <2> QED  BY <1>1, <2>1, SumSame
<1>3. SumFunctionOnSet(f, S) = f[y] + SumFunctionOnSet(f, S \ {y})
  BY <1>1, SumRemove
<1>4. SumFunctionOnSet(g, S) = g[y] + SumFunctionOnSet(g, S \ {y})
  <2> HIDE DEF g
  <2> QED  BY <1>1, SumRemove
<1>5. SumFunctionOnSet(f, S \ {y}) \in Int
  BY <1>1, SumOfPart
<1>6. DOMAIN f = S /\ DOMAIN g = S /\ g[y] = v /\ f[y] \in Int
  OBVIOUS
<1> HIDE DEF g
<1> QED  BY <1>2, <1>3, <1>4, <1>5, <1>6 DEF SumFunction, g

\* A sum of natural numbers is one, and no member is greater.
LEMMA SumBounds ==
  ASSUME NEW S, IsFiniteSet(S), NEW f \in [S -> Nat]
  PROVE  /\ SumFunction(f) \in Nat
         /\ \A x \in S : f[x] <= SumFunction(f)
<1> DEFINE Pos == {T \in SUBSET S : SumFunctionOnSet(f, T) \in Nat}
<1>1. \A T \in SUBSET S : Numeric(f, T)
  BY FS_Subset DEF Numeric
<1>2. ASSUME NEW T \in SUBSET S, \A U \in SUBSET T : U # T => U \in Pos
      PROVE  T \in Pos
  <2>1. CASE T = {}
    BY <2>1, SumEmpty
  <2>2. CASE T # {}
    <3>1. PICK x \in T : TRUE
      BY <2>2
    <3>2. T \ {x} \in Pos /\ f[x] \in Nat
      BY <1>2, <3>1
    <3>3. SumFunctionOnSet(f, T) = f[x] + SumFunctionOnSet(f, T \ {x})
      BY <1>1, <3>1, SumRemove
    <3> QED  BY <3>2, <3>3
  <2> QED  BY <2>1, <2>2
<1> HIDE DEF Pos
<1>3. SUBSET S \subseteq Pos
  BY <1>2, SmallerSetsFirst
<1>4. \A T \in SUBSET S : SumFunctionOnSet(f, T) \in Nat
  BY <1>3 DEF Pos
<1>5. ASSUME NEW x \in S PROVE f[x] <= SumFunctionOnSet(f, S)
  <2>1. SumFunctionOnSet(f, S) = f[x] + SumFunctionOnSet(f, S \ {x})
    BY <1>1, SumRemove
  <2>2. f[x] \in Nat /\ SumFunctionOnSet(f, S \ {x}) \in Nat
    BY <1>4
  <2> QED  BY <2>1, <2>2
<1> QED  BY <1>4, <1>5 DEF SumFunction

\* A sum of zeros.
LEMMA SumZero ==
  ASSUME NEW f, NEW S, IsFiniteSet(S), \A x \in S : f[x] = 0
  PROVE  SumFunctionOnSet(f, S) = 0
<1> DEFINE Zero == {T \in SUBSET S : SumFunctionOnSet(f, T) = 0}
<1>1. ASSUME NEW T \in SUBSET S, \A U \in SUBSET T : U # T => U \in Zero
      PROVE  T \in Zero
  <2>1. CASE T = {}
    BY <2>1, SumEmpty
  <2>2. CASE T # {}
    <3>1. PICK y \in T : TRUE  BY <2>2
    <3>2. Numeric(f, T)  BY FS_Subset DEF Numeric
    <3>3. SumFunctionOnSet(f, T) = f[y] + SumFunctionOnSet(f, T \ {y})
      BY <3>2, SumRemove
    <3>4. T \ {y} \in Zero  BY <1>1
    <3> QED  BY <3>3, <3>4
  <2> QED  BY <2>1, <2>2
<1> HIDE DEF Zero
<1>2. SUBSET S \subseteq Zero
  BY <1>1, SmallerSetsFirst
<1> QED  BY <1>2 DEF Zero
=============================================================================
