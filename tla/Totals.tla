---------------------------------- MODULE Totals ----------------------------------
(***************************************************************************)
(* Sums over finite sets, for the modules that prove something about one.  *)
(*                                                                         *)
(* A balance, what an order takes from a lot, what is in some carts: the   *)
(* model makes each of them with MapThenSumSet, a fold that picks the      *)
(* elements of a set one by one.  Here such a fold is shown to be          *)
(* characterised by what it is of the empty set and of a set with one      *)
(* element more, whichever that is (IsTotal), and sums over disjoint sets, *)
(* over the image of a set and over the union of a family follow from      *)
(* that.                                                                   *)
(***************************************************************************)
EXTENDS Integers, FiniteSets, FiniteSetTheorems, WellFoundedInduction, NaturalsInduction, TLAPS

(* What holds of a subset of a finite set if it holds of the smaller ones  *)
(* holds of all.                                                           *)
LEMMA SubsetInduction ==
  ASSUME NEW U, IsFiniteSet(U), NEW Good,
         \A T \in SUBSET U : (\A V \in SUBSET T : V # T => V \in Good) => T \in Good
  PROVE  \A T \in SUBSET U : T \in Good
<1> DEFINE Bad == (SUBSET U) \ Good
<1>1. IsWellFoundedOn(StrictSubsetOrdering(U), SUBSET U)
  BY FS_StrictSubsetOrderingWellFounded, FS_FiniteSubsetsOfFinite
<1>2. SUFFICES ASSUME Bad # {} PROVE FALSE
  OBVIOUS
<1>3. PICK T \in Bad : \A V \in Bad : ~ (<<V, T>> \in StrictSubsetOrdering(U))
  <2>1. Bad \subseteq SUBSET U
    OBVIOUS
  <2> HIDE DEF Bad
  <2> QED BY <1>1, <1>2, <2>1, WFMin
<1>4. \A V \in SUBSET T : V # T => V \in Good
  <2> SUFFICES ASSUME NEW V \in SUBSET T, V # T, V \notin Good PROVE FALSE
    OBVIOUS
  <2>1. <<V, T>> \in StrictSubsetOrdering(U)
    BY DEF StrictSubsetOrdering
  <2> QED BY <1>3, <2>1
<1> QED BY <1>3, <1>4

(* Any set of numbers has a least one.                                     *)
LEMMA LeastNatural ==
  ASSUME NEW T \in SUBSET Nat, T # {}
  PROVE  \E n \in T : \A m \in T : ~(m < n)
<1>1. IsWellFoundedOn(OpToRel(<, Nat), Nat)
  BY NatLessThanWellFounded
<1>2. PICK n \in T : \A m \in T : ~(<<m, n>> \in OpToRel(<, Nat))
  BY <1>1, WFMin
<1>3. \A m \in T : m < n => <<m, n>> \in OpToRel(<, Nat)
  BY DEF OpToRel
<1> QED BY <1>2, <1>3

----------------------------------------------------------------------------
(* The fold of the weights w over the sets of D, as MapThenSumSet makes it. *)
Pick(s) == CHOOSE x \in s : TRUE

Folds(g, w, D) == \A s \in D : g[s] = IF s = {} THEN 0 ELSE w[Pick(s)] + g[s \ {Pick(s)}]

(* Over all the subsets of U, and with numbers for weights.                *)
IsFold(g, w, U) ==
    /\ \A x \in U : w[x] \in Int
    /\ \A T \in SUBSET U : g[T] \in Int
    /\ Folds(g, w, SUBSET U)

LEMMA PickIsIn == ASSUME NEW s, s # {} PROVE Pick(s) \in s
BY DEF Pick

(* There is one.                                                           *)
LEMMA FoldExists ==
  ASSUME NEW U, IsFiniteSet(U), NEW w \in [U -> Int]
  PROVE  \E g \in [SUBSET U -> Int] : IsFold(g, w, U)
<1> DEFINE Level(n) == {s \in SUBSET U : Cardinality(s) <= n}
           Bad == {n \in Nat : ~\E g \in [Level(n) -> Int] : Folds(g, w, Level(n))}
<1>1. \A s \in SUBSET U : IsFiniteSet(s) /\ Cardinality(s) \in Nat /\ (Cardinality(s) = 0 <=> s = {})
  BY FS_Subset, FS_CardinalityType, FS_EmptySet
<1>2. \A s \in SUBSET U : s # {} => /\ Pick(s) \in s /\ Pick(s) \in U /\ s \ {Pick(s)} \in SUBSET U
                                    /\ Cardinality(s \ {Pick(s)}) = Cardinality(s) - 1
  BY <1>1, PickIsIn, FS_RemoveElement
<1>3. Bad = {}
  <2> SUFFICES ASSUME Bad # {} PROVE FALSE
    OBVIOUS
  <2>1. PICK n \in Bad : \A m \in Bad : ~(m < n)
    BY LeastNatural
  <2>2. CASE n = 0
    <3>1. Level(0) = {{}}
      BY <1>1
    <3>2. [s \in Level(0) |-> 0] \in [Level(0) -> Int] /\ Folds([s \in Level(0) |-> 0], w, Level(0))
      BY <3>1 DEF Folds, IsFold
    <3> QED BY <2>1, <2>2, <3>2
  <2>3. CASE n # 0
    <3>1. n - 1 \in Nat /\ n - 1 < n
      BY <2>1, <2>3
    <3>2. PICK h \in [Level(n - 1) -> Int] : Folds(h, w, Level(n - 1))
      BY <2>1, <3>1
    <3> DEFINE g == [s \in Level(n) |-> IF s = {} THEN 0 ELSE w[Pick(s)] + h[s \ {Pick(s)}]]
    <3>3. \A s \in Level(n) : s # {} => s \ {Pick(s)} \in Level(n - 1) /\ Pick(s) \in U
      BY <1>1, <1>2, <2>1
    <3>4. Level(n - 1) \subseteq Level(n)
      BY <1>1, <2>1
    <3>5. g \in [Level(n) -> Int]
      BY <3>3
    <3>6. \A s \in Level(n - 1) : g[s] = h[s]
      BY <3>2, <3>4 DEF Folds, IsFold
    <3>7. Folds(g, w, Level(n))
      BY <3>3, <3>4, <3>6 DEF Folds, IsFold
    <3> QED BY <2>1, <3>5, <3>7
  <2> QED BY <2>2, <2>3
<1>4. Cardinality(U) \in Nat /\ Level(Cardinality(U)) = SUBSET U
  BY <1>1, FS_Subset
<1>5. PICK g \in [SUBSET U -> Int] : Folds(g, w, SUBSET U)
  <2>1. Cardinality(U) \notin Bad
    BY <1>3
  <2>2. \E g \in [Level(Cardinality(U)) -> Int] : Folds(g, w, Level(Cardinality(U)))
    BY <1>4, <2>1
  <2> HIDE DEF Level, Bad
  <2> QED BY <1>4, <2>2
<1>6. IsFold(g, w, U)
  BY <1>5 DEF IsFold
<1> QED BY <1>5, <1>6

(* Two folds of the same weights agree.                                    *)
LEMMA FoldUnique ==
  ASSUME NEW U, IsFiniteSet(U), NEW T \in SUBSET U, NEW w, NEW g, NEW h,
         IsFold(g, w, U), Folds(h, w, SUBSET T)
  PROVE  g[T] = h[T]
<1> DEFINE Good == {s \in SUBSET T : g[s] = h[s]}
<1>1. IsFiniteSet(T)
  BY FS_Subset
<1>2. ASSUME NEW s \in SUBSET T, \A v \in SUBSET s : v # s => v \in Good PROVE s \in Good
  <2>1. CASE s = {}
    BY <2>1 DEF Folds, IsFold
  <2>2. CASE s # {}
    <3>1. s \ {Pick(s)} \in Good
      BY <1>2, <2>2, PickIsIn
    <3> QED BY <2>2, <3>1 DEF Folds, IsFold
  <2> QED BY <2>1, <2>2
<1> HIDE DEF Good
<1>3. \A s \in SUBSET T : s \in Good
  BY <1>1, <1>2, SubsetInduction
<1> QED BY <1>3 DEF Good

(* The order of the elements does not matter.                              *)
LEMMA FoldRemoves ==
  ASSUME NEW U, IsFiniteSet(U), NEW w, NEW g, IsFold(g, w, U), NEW A \in SUBSET U, NEW a \in A
  PROVE  g[A] = w[a] + g[A \ {a}]
<1> DEFINE Good == {T \in SUBSET U : \A x \in T : g[T] = w[x] + g[T \ {x}]}
<1>1. ASSUME NEW T \in SUBSET U, \A V \in SUBSET T : V # T => V \in Good PROVE T \in Good
  <2> SUFFICES ASSUME NEW x \in T PROVE g[T] = w[x] + g[T \ {x}]
    OBVIOUS
  <2> DEFINE p == Pick(T)
  <2>1. p \in T /\ g[T] = w[p] + g[T \ {p}]
    BY PickIsIn DEF Folds, IsFold
  <2> HIDE DEF p
  <2>2. CASE x = p
    BY <2>1, <2>2
  <2>3. CASE x # p
    <3>1. T \ {p} \in Good /\ T \ {x} \in Good
      BY <1>1, <2>1
    <3> DEFINE r == g[(T \ {p}) \ {x}]
    <3>2. (T \ {p}) \ {x} = (T \ {x}) \ {p} /\ (T \ {p}) \ {x} \in SUBSET U
      OBVIOUS
    <3>3. g[T \ {p}] = w[x] + r /\ g[T \ {x}] = w[p] + r
      BY <2>1, <2>3, <3>1, <3>2
    <3>4. w[x] \in Int /\ w[p] \in Int /\ r \in Int
      BY <2>1, <3>2 DEF IsFold
    <3> HIDE DEF r
    <3>5. g[T] = w[p] + (w[x] + r)
      BY <2>1, <3>3
    <3> QED BY <3>3, <3>4, <3>5
  <2> QED BY <2>2, <2>3
<1> HIDE DEF Good
<1>2. \A T \in SUBSET U : T \in Good
  BY <1>1, SubsetInduction
<1> QED BY <1>2 DEF Good

----------------------------------------------------------------------------
(* g gives the sum of the weights w of every subset of U.                  *)
IsTotal(g, w, U) ==
    /\ w \in [U -> Int]
    /\ g \in [SUBSET U -> Int]
    /\ g[{}] = 0
    /\ \A T \in SUBSET U : \A x \in T : g[T] = w[x] + g[T \ {x}]

LEMMA TotalExists ==
  ASSUME NEW U, IsFiniteSet(U), NEW w \in [U -> Int]
  PROVE  \E g : IsFold(g, w, U) /\ IsTotal(g, w, U)
<1>1. PICK g \in [SUBSET U -> Int] : IsFold(g, w, U)
  BY FoldExists
<1>2. g[{}] = 0
  BY <1>1 DEF Folds, IsFold
<1>3. \A T \in SUBSET U : \A x \in T : g[T] = w[x] + g[T \ {x}]
  <2> SUFFICES ASSUME NEW T \in SUBSET U, NEW x \in T PROVE g[T] = w[x] + g[T \ {x}]
    OBVIOUS
  <2> QED BY <1>1, FoldRemoves
<1>4. IsTotal(g, w, U)
  BY <1>1, <1>2, <1>3 DEF IsTotal
<1> QED BY <1>1, <1>4

(* A set and one element more.                                             *)
LEMMA TotalAdds ==
  ASSUME NEW U, NEW w, NEW g, IsTotal(g, w, U), NEW T \in SUBSET U, NEW x \in U, x \notin T
  PROVE  g[T \cup {x}] = w[x] + g[T]
<1>1. (T \cup {x}) \ {x} = T /\ T \cup {x} \in SUBSET U /\ x \in T \cup {x}
  OBVIOUS
<1> QED BY <1>1 DEF IsTotal

(* A sum of naturals is one.                                               *)
LEMMA TotalOfNaturals ==
  ASSUME NEW U, IsFiniteSet(U), NEW w, NEW g, IsTotal(g, w, U), \A x \in U : w[x] \in Nat
  PROVE  \A T \in SUBSET U : g[T] \in Nat
<1> DEFINE Good == {T \in SUBSET U : g[T] \in Nat}
<1>1. ASSUME NEW T \in SUBSET U, \A V \in SUBSET T : V # T => V \in Good PROVE T \in Good
  <2>1. CASE T = {}
    BY <2>1 DEF IsTotal
  <2>2. CASE T # {}
    <3>1. PICK x \in T : TRUE
      BY <2>2
    <3>2. T \ {x} \in Good
      BY <1>1
    <3>3. g[T] = w[x] + g[T \ {x}] /\ w[x] \in Nat /\ g[T \ {x}] \in Nat
      BY <3>2 DEF IsTotal
    <3>4. g[T] \in Nat
      BY <3>3
    <3> QED BY <3>4
  <2> QED BY <2>1, <2>2
<1> HIDE DEF Good
<1>2. \A T \in SUBSET U : T \in Good
  BY <1>1, SubsetInduction
<1> QED BY <1>2 DEF Good

(* Nothing but zeros.                                                      *)
LEMMA TotalOfZeros ==
  ASSUME NEW U, IsFiniteSet(U), NEW w, NEW g, IsTotal(g, w, U),
         NEW A \in SUBSET U, \A x \in A : w[x] = 0
  PROVE  g[A] = 0
<1> DEFINE Good == {T \in SUBSET A : g[T] = 0}
<1>1. ASSUME NEW T \in SUBSET A, \A V \in SUBSET T : V # T => V \in Good PROVE T \in Good
  <2>1. CASE T = {}
    BY <2>1 DEF IsTotal
  <2>2. CASE T # {}
    <3>1. PICK x \in T : TRUE
      BY <2>2
    <3>2. g[T] = w[x] + g[T \ {x}] /\ w[x] = 0 /\ g[T \ {x}] = 0
      BY <1>1, <3>1 DEF IsTotal
    <3> QED BY <3>2
  <2> QED BY <2>1, <2>2
<1> HIDE DEF Good
<1>2. IsFiniteSet(A)
  BY FS_Subset
<1>3. A \in Good
  BY <1>1, <1>2, SubsetInduction
<1> QED BY <1>3 DEF Good

(* Two sets that have nothing in common.                                   *)
LEMMA TotalOfBoth ==
  ASSUME NEW U, IsFiniteSet(U), NEW w, NEW g, IsTotal(g, w, U),
         NEW A \in SUBSET U, NEW B \in SUBSET U, A \cap B = {}
  PROVE  g[A \cup B] = g[A] + g[B]
<1> DEFINE Good == {T \in SUBSET A : g[T \cup B] = g[T] + g[B]}
<1>1. IsFiniteSet(A)
  BY FS_Subset
<1>2. ASSUME NEW T \in SUBSET A, \A V \in SUBSET T : V # T => V \in Good PROVE T \in Good
  <2>1. CASE T = {}
    <3>1. T \cup B = B /\ g[T] = 0 /\ g[B] \in Int
      BY <2>1 DEF IsTotal
    <3>2. g[T \cup B] = g[T] + g[B]
      BY <3>1
    <3> QED BY <3>2
  <2>2. CASE T # {}
    <3>1. PICK x \in T : TRUE
      BY <2>2
    <3> DEFINE R == T \ {x}
    <3>2. R \in Good
      BY <1>2
    <3>3. /\ (T \cup B) \ {x} = R \cup B /\ x \in T \cup B /\ x \in U
          /\ T \cup B \in SUBSET U /\ R \cup B \in SUBSET U /\ T \in SUBSET U /\ R \in SUBSET U
      OBVIOUS
    <3>4. g[T \cup B] = w[x] + g[R \cup B] /\ g[T] = w[x] + g[R]
      BY <3>3 DEF IsTotal
    <3>5. w[x] \in Int /\ g[R] \in Int /\ g[B] \in Int
      BY <3>3 DEF IsTotal
    <3>6. g[R \cup B] = g[R] + g[B]
      BY <3>2
    <3> HIDE DEF R
    <3>7. g[T \cup B] = w[x] + (g[R] + g[B])
      BY <3>4, <3>6
    <3>8. g[T \cup B] = g[T] + g[B]
      BY <3>4, <3>5, <3>7
    <3> QED BY <3>8
  <2> QED BY <2>1, <2>2
<1> HIDE DEF Good
<1>3. A \in Good
  BY <1>1, <1>2, SubsetInduction
<1> QED BY <1>3 DEF Good

(* The part of a set that is in B, and the part that is not.               *)
LEMMA TotalOfParts ==
  ASSUME NEW U, IsFiniteSet(U), NEW w, NEW g, IsTotal(g, w, U), NEW A \in SUBSET U, NEW B
  PROVE  /\ g[A] = g[A \cap B] + g[A \ B]
         /\ g[A] \in Int /\ g[A \cap B] \in Int /\ g[A \ B] \in Int
<1>1. A = (A \cap B) \cup (A \ B) /\ (A \cap B) \cap (A \ B) = {}
      /\ A \cap B \in SUBSET U /\ A \ B \in SUBSET U
  OBVIOUS
<1>2. g[(A \cap B) \cup (A \ B)] = g[A \cap B] + g[A \ B]
  BY <1>1, TotalOfBoth
<1> QED BY <1>1, <1>2 DEF IsTotal

(* The image of a set under a map that keeps elements apart and weights.   *)
LEMMA TotalOfImage ==
  ASSUME NEW U, NEW w, NEW g, IsTotal(g, w, U),
         NEW W, NEW v, NEW h, IsTotal(h, v, W), NEW V \in SUBSET W, IsFiniteSet(V),
         NEW E \in [V -> U], \A x, y \in V : E[x] = E[y] => x = y,
         \A x \in V : w[E[x]] = v[x]
  PROVE  g[{E[x] : x \in V}] = h[V]
<1> DEFINE Image(T) == {E[x] : x \in T}
           Good == {T \in SUBSET V : g[Image(T)] = h[T]}
<1>1. ASSUME NEW T \in SUBSET V, \A S \in SUBSET T : S # T => S \in Good PROVE T \in Good
  <2>1. CASE T = {}
    <3>1. Image(T) = {} /\ g[{}] = 0 /\ h[T] = 0
      BY <2>1 DEF IsTotal
    <3> QED BY <3>1
  <2>2. CASE T # {}
    <3>1. PICK x \in T : TRUE
      BY <2>2
    <3> DEFINE R == T \ {x}
    <3>2. R \in Good
      BY <1>1
    <3>3. Image(T) \ {E[x]} = Image(R) /\ Image(T) \in SUBSET U /\ E[x] \in Image(T)
      OBVIOUS
    <3>4. \A S \in SUBSET U : \A y \in S : g[S] = w[y] + g[S \ {y}]
      BY DEF IsTotal
    <3>5. h[T] = v[x] + h[R] /\ w[E[x]] = v[x]
      BY DEF IsTotal
    <3>6. g[Image(R)] = h[R]
      BY <3>2
    <3> HIDE DEF Image, R
    <3>7. g[Image(T)] = w[E[x]] + g[Image(R)]
      BY <3>3, <3>4
    <3>8. g[Image(T)] = h[T]
      BY <3>5, <3>6, <3>7
    <3> QED BY <3>8
  <2> QED BY <2>1, <2>2
<1> HIDE DEF Good
<1>2. V \in Good
  BY <1>1, SubsetInduction
<1> QED BY <1>2 DEF Good

(* The opposite weights.                                                   *)
LEMMA TotalOfOpposites ==
  ASSUME NEW U, NEW w, NEW g, IsTotal(g, w, U)
  PROVE  IsTotal([T \in SUBSET U |-> -g[T]], [x \in U |-> -w[x]], U)
<1> DEFINE h == [T \in SUBSET U |-> -g[T]]
           v == [x \in U |-> -w[x]]
<1>1. v \in [U -> Int] /\ h \in [SUBSET U -> Int] /\ h[{}] = 0
  BY DEF IsTotal
<1>2. ASSUME NEW T \in SUBSET U, NEW x \in T PROVE h[T] = v[x] + h[T \ {x}]
  <2>1. g[T] = w[x] + g[T \ {x}] /\ w[x] \in Int /\ g[T \ {x}] \in Int /\ T \ {x} \in SUBSET U
    BY DEF IsTotal
  <2>2. h[T] = -g[T] /\ v[x] = -w[x] /\ h[T \ {x}] = -g[T \ {x}]
    BY <2>1
  <2> HIDE DEF h, v
  <2> QED BY <2>1, <2>2
<1> HIDE DEF h, v
<1>3. IsTotal(h, v, U)
  BY <1>1, <1>2 DEF IsTotal
<1> QED BY <1>3 DEF h, v

(* The union of sets that have nothing in common, each of which weighs     *)
(* what its index does.                                                    *)
LEMMA TotalOfUnion ==
  ASSUME NEW U, IsFiniteSet(U), NEW w, NEW g, IsTotal(g, w, U),
         NEW W, NEW v, NEW h, IsTotal(h, v, W), NEW V \in SUBSET W, IsFiniteSet(V),
         NEW E \in [V -> SUBSET U], \A x, y \in V : x # y => E[x] \cap E[y] = {},
         \A x \in V : g[E[x]] = v[x]
  PROVE  g[UNION {E[x] : x \in V}] = h[V]
<1> DEFINE All(T) == UNION {E[x] : x \in T}
           Good == {T \in SUBSET V : g[All(T)] = h[T]}
<1>1. ASSUME NEW T \in SUBSET V, \A S \in SUBSET T : S # T => S \in Good PROVE T \in Good
  <2>1. CASE T = {}
    <3>1. All(T) = {} /\ g[{}] = 0 /\ h[T] = 0
      BY <2>1 DEF IsTotal
    <3> QED BY <3>1
  <2>2. CASE T # {}
    <3>1. PICK x \in T : TRUE
      BY <2>2
    <3> DEFINE R == T \ {x}
    <3>2. R \in Good
      BY <1>1
    <3>3. All(T) = E[x] \cup All(R) /\ E[x] \cap All(R) = {} /\ All(R) \in SUBSET U /\ E[x] \in SUBSET U
      OBVIOUS
    <3>4. g[All(T)] = g[E[x]] + g[All(R)]
      BY <3>3, TotalOfBoth
    <3>5. h[T] = v[x] + h[R]
      BY DEF IsTotal
    <3> QED BY <3>2, <3>4, <3>5
  <2> QED BY <2>1, <2>2
<1> HIDE DEF Good
<1>2. V \in Good
  BY <1>1, SubsetInduction
<1> QED BY <1>2 DEF Good

----------------------------------------------------------------------------
(* The sums of the model are such totals.                                  *)
DefinesFold(h, w, T) ==
    h = [s \in SUBSET T |-> IF s = {} THEN 0 ELSE w[Pick(s)] + h[s \ {Pick(s)}]]

LEMMA FoldsAgree ==
  ASSUME NEW U, IsFiniteSet(U), NEW w, NEW g, IsFold(g, w, U), NEW T \in SUBSET U,
         NEW h, DefinesFold(h, w, T)
  PROVE  h[T] = g[T]
<1>1. Folds(h, w, SUBSET T)
  BY DEF Folds, DefinesFold
<1> QED BY <1>1, FoldUnique

(* The totals of the model's folds, each over a set of its own.            *)
SumsUp(g, w, U) ==
    /\ IsTotal(g, w, U)
    /\ \A S \in SUBSET U : /\ \E h : DefinesFold(h, w, S)
                           /\ \A h : DefinesFold(h, w, S) => h[S] = g[S]

LEMMA FoldsAreTotal ==
  ASSUME NEW U, IsFiniteSet(U), NEW w \in [U -> Int]
  PROVE  \E g : SumsUp(g, w, U)
<1>1. PICK g : IsFold(g, w, U) /\ IsTotal(g, w, U)
  BY TotalExists
<1>2. ASSUME NEW S \in SUBSET U PROVE \E h : DefinesFold(h, w, S)
  <2> DEFINE v == [x \in S |-> w[x]]
  <2>1. v \in [S -> Int] /\ IsFiniteSet(S)
    BY FS_Subset
  <2> HIDE DEF v
  <2>2. PICK h \in [SUBSET S -> Int] : IsFold(h, v, S)
    BY <2>1, FoldExists
  <2>3. \A s \in SUBSET S : h[s] = IF s = {} THEN 0 ELSE w[Pick(s)] + h[s \ {Pick(s)}]
    BY <2>2, PickIsIn DEF IsFold, Folds, v
  <2>4. DefinesFold(h, w, S)
    BY <2>2, <2>3 DEF DefinesFold
  <2> QED BY <2>4
<1>3. ASSUME NEW S \in SUBSET U, NEW h, DefinesFold(h, w, S) PROVE h[S] = g[S]
  BY <1>1, <1>3, FoldsAgree
<1> QED BY <1>1, <1>2, <1>3 DEF SumsUp
=============================================================================
