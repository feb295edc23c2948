----------------------------- MODULE SumProofs -----------------------------
(***************************************************************************)
(* Sums over finite sets of any size: what adding an element does, and     *)
(* when one sum is at most another.  The community modules define the sum  *)
(* of f[x] over x in S by a recursive function on the subsets of S, which  *)
(* takes one element after the other in an order nobody knows.  Here it is *)
(* shown that this function exists and that the order does not matter.     *)
(*                                                                         *)
(* The inductions are over sets, by way of a counterexample with a least   *)
(* number of elements: < is well-founded on Nat.                           *)
(***************************************************************************)
EXTENDS Integers, FiniteSets, Functions, WellFoundedInduction, FiniteSetTheorems, TLAPS

-----------------------------------------------------------------------------
(* Induction over numbers and over finite sets.                              *)

LEMMA LeastNumber ==
  ASSUME NEW N \in SUBSET Nat, N # {}
  PROVE  \E n \in N : \A m \in N : n =< m
<1> DEFINE Less == {ss \in Nat \X Nat : ss[1] < ss[2]}
<1>1. IsWellFoundedOn(Less, Nat)
  BY NatLessThanWellFounded DEF OpToRel
<1> HIDE DEF Less
<1>2. PICK n \in N : \A m \in N : ~ (<<m, n>> \in Less)
  BY <1>1, WFMin
<1>3. ASSUME NEW m \in N PROVE n =< m
  <2>1. <<m, n>> \notin Less
    BY <1>2
  <2> QED BY <2>1 DEF Less
<1> QED BY <1>3

LEMMA NumbersInduction ==
  ASSUME NEW P, 0 \in P, \A n \in Nat : n \in P => n + 1 \in P
  PROVE  Nat \subseteq P
<1> SUFFICES ASSUME Nat \ P # {} PROVE FALSE
  OBVIOUS
<1>1. PICK n \in Nat \ P : \A m \in Nat \ P : n =< m
  BY LeastNumber
<1>2. n - 1 \in Nat /\ n - 1 \notin Nat \ P
  BY <1>1
<1>3. (n - 1) + 1 \in P
  BY <1>2
<1> QED BY <1>1, <1>3

LEMMA SubsetCardinality ==
  ASSUME NEW S, IsFiniteSet(S), NEW T \in SUBSET S
  PROVE  /\ IsFiniteSet(T) /\ Cardinality(T) \in Nat
         /\ Cardinality(T) =< Cardinality(S)
         /\ Cardinality(T) = 0 <=> T = {}
         /\ \A x \in T : Cardinality(T \ {x}) = Cardinality(T) - 1
  BY FS_Subset, FS_CardinalityType, FS_EmptySet, FS_RemoveElement

\* What holds of a finite set if it holds of what is left without any one of
\* its elements.
LEMMA SetInduction ==
  ASSUME NEW S, IsFiniteSet(S), NEW Q,
         \A T \in SUBSET S : (\A x \in T : T \ {x} \in Q) => T \in Q
  PROVE  S \in Q
<1> DEFINE P == {n \in Nat : \A T \in SUBSET S : Cardinality(T) = n => T \in Q}
<1>1. 0 \in P
  <2>1. ASSUME NEW T \in SUBSET S, Cardinality(T) = 0 PROVE T \in Q
    <3>1. T = {}
      BY <2>1, SubsetCardinality
    <3> QED BY <3>1
  <2> QED BY <2>1
<1>2. ASSUME NEW n \in Nat, n \in P PROVE n + 1 \in P
  <2>1. ASSUME NEW T \in SUBSET S, Cardinality(T) = n + 1 PROVE T \in Q
    <3>1. ASSUME NEW x \in T PROVE T \ {x} \in Q
      <4>1. Cardinality(T \ {x}) = n
        BY <2>1, SubsetCardinality
      <4> QED BY <4>1, <1>2
    <3> QED BY <3>1
  <2> QED BY <2>1
<1> HIDE DEF P
<1>3. Nat \subseteq P
  BY <1>1, <1>2, NumbersInduction
<1>4. Cardinality(S) \in P
  BY <1>3, SubsetCardinality
<1> QED BY <1>4 DEF P

-----------------------------------------------------------------------------
(* The recursive function of the definition.                                 *)

Pick(S) == CHOOSE x \in S : TRUE

\* The sum over T, given the sums over smaller sets.
SumStep(f, g, T) == IF T = {} THEN 0 ELSE f[Pick(T)] + g[T \ {Pick(T)}]

IsTable(g, f, S) == g = [T \in SUBSET S |-> SumStep(f, g, T)]

SumTable(f, S) == CHOOSE g : IsTable(g, f, S)

LEMMA SumIsEntry ==
  ASSUME NEW f, NEW S
  PROVE  SumFunctionOnSet(f, S) = SumTable(f, S)[S]
  BY DEF SumFunctionOnSet, FoldFunctionOnSet, MapThenFoldSet, Pick, SumTable, SumStep, IsTable

LEMMA PickIsElement == \A S : S # {} => Pick(S) \in S
  BY DEF Pick

\* The function can be built for the sets of at most n elements, for every n.
LEMMA SumsExist ==
  ASSUME NEW S, IsFiniteSet(S), NEW f, \A x \in S : f[x] \in Int
  PROVE  \E g \in [SUBSET S -> Int] : IsTable(g, f, S)
<1> DEFINE Small(n) == {T \in SUBSET S : Cardinality(T) =< n}
           Built(n, g) == \A T \in Small(n) : g[T] = SumStep(f, g, T)
           P == {n \in Nat : \E g \in [Small(n) -> Int] : Built(n, g)}
<1>1. \A T \in SUBSET S : T # {} => /\ Pick(T) \in T
                                    /\ T \ {Pick(T)} \in SUBSET S
                                    /\ Cardinality(T \ {Pick(T)}) = Cardinality(T) - 1
  BY SubsetCardinality, PickIsElement
<1>2. \A T \in SUBSET S : Cardinality(T) \in Nat /\ (Cardinality(T) = 0 <=> T = {})
  BY SubsetCardinality
<1>3. 0 \in P
  <2> DEFINE g == [T \in Small(0) |-> 0]
  <2>1. \A T \in Small(0) : T = {}
    BY <1>2
  <2>2. Built(0, g)
    BY <2>1 DEF SumStep
  <2>3. g \in [Small(0) -> Int]
    OBVIOUS
  <2> QED BY <2>2, <2>3
<1>4. ASSUME NEW n \in Nat, n \in P PROVE n + 1 \in P
  <2>1. PICK g \in [Small(n) -> Int] : Built(n, g)
    BY <1>4
  <2> DEFINE h == [T \in Small(n + 1) |-> SumStep(f, g, T)]
  <2>2. \A T \in Small(n + 1) : T # {} => /\ T \ {Pick(T)} \in Small(n)
                                          /\ T \ {Pick(T)} \in Small(n + 1)
    BY <1>1, <1>2
  <2>3. \A T \in Small(n + 1) : SumStep(f, g, T) \in Int
    BY <2>1, <2>2, <1>1 DEF SumStep
  <2>4. Small(n) \subseteq Small(n + 1)
    BY <1>2
  <2>5. \A T \in Small(n) : h[T] = g[T]
    BY <2>1, <2>4
  <2>6. \A T \in Small(n + 1) : SumStep(f, h, T) = SumStep(f, g, T)
    BY <2>2, <2>5 DEF SumStep
  <2>7. Built(n + 1, h)
    BY <2>6
  <2>8. h \in [Small(n + 1) -> Int]
    BY <2>3
  <2> HIDE DEF Built, h, Small
  <2> QED BY <2>7, <2>8
<1> HIDE DEF P
<1>5. Cardinality(S) \in P
  BY <1>3, <1>4, NumbersInduction, SubsetCardinality
<1> USE DEF P
<1>6. PICK g \in [Small(Cardinality(S)) -> Int] : Built(Cardinality(S), g)
  BY <1>5
<1>7. Small(Cardinality(S)) = SUBSET S
  BY SubsetCardinality
<1>8. g \in [SUBSET S -> Int] /\ \A T \in SUBSET S : g[T] = SumStep(f, g, T)
  BY <1>6, <1>7
<1> HIDE DEF Small, Built, P
<1> QED BY <1>8 DEF IsTable

\* Two such functions agree where their domains and what they sum agree.
LEMMA SumsAgree ==
  ASSUME NEW S, NEW f, NEW g, IsTable(g, f, S),
         NEW R, NEW e, NEW h, IsTable(h, e, R),
         NEW T \in SUBSET (S \intersect R), IsFiniteSet(T), \A x \in T : f[x] = e[x]
  PROVE  g[T] = h[T]
<1> DEFINE Q == {U \in SUBSET T : g[U] = h[U]}
<1>1. ASSUME NEW U \in SUBSET T, \A x \in U : U \ {x} \in Q
      PROVE  U \in Q
  <2>1. U \in SUBSET S /\ U \in SUBSET R
    OBVIOUS
  <2>2. g[U] = SumStep(f, g, U) /\ h[U] = SumStep(e, h, U)
    BY <2>1 DEF IsTable
  <2>3. CASE U = {}
    BY <2>2, <2>3 DEF SumStep
  <2>4. CASE U # {}
    <3>1. Pick(U) \in U
      BY <2>4, PickIsElement
    <3>2. f[Pick(U)] = e[Pick(U)] /\ g[U \ {Pick(U)}] = h[U \ {Pick(U)}]
      BY <1>1, <3>1
    <3>3. g[U] = h[U]
      BY <2>2, <2>4, <3>2 DEF SumStep
    <3> QED BY <3>3
  <2> QED BY <2>3, <2>4
<1> HIDE DEF Q
<1>2. T \in Q
  BY <1>1, SetInduction
<1> QED BY <1>2 DEF Q

LEMMA SumsDefined ==
  ASSUME NEW S, IsFiniteSet(S), NEW f, \A x \in S : f[x] \in Int
  PROVE  IsTable(SumTable(f, S), f, S) /\ SumTable(f, S)[S] \in Int
<1>1. PICK g \in [SUBSET S -> Int] : IsTable(g, f, S)
  BY SumsExist
<1>2. IsTable(SumTable(f, S), f, S)
  BY <1>1 DEF SumTable
<1>3. SumTable(f, S)[S] = g[S]
  BY <1>1, <1>2, SumsAgree
<1> QED BY <1>1, <1>2, <1>3

-----------------------------------------------------------------------------
(* Facts about sums.                                                         *)

LEMMA SumType ==
  ASSUME NEW S, IsFiniteSet(S), NEW f, \A x \in S : f[x] \in Int
  PROVE  SumFunctionOnSet(f, S) \in Int
  BY SumsDefined, SumIsEntry

LEMMA SumOfNothing ==
  ASSUME NEW f
  PROVE  SumFunctionOnSet(f, {}) = 0
<1>1. IsTable(SumTable(f, {}), f, {})
  BY SumsDefined, FS_EmptySet
<1> QED BY <1>1, SumIsEntry DEF SumStep, IsTable

\* The values outside the set do not matter.
LEMMA SumOfEquals ==
  ASSUME NEW S, IsFiniteSet(S), NEW f, NEW e,
         \A x \in S : f[x] \in Int /\ f[x] = e[x]
  PROVE  SumFunctionOnSet(f, S) = SumFunctionOnSet(e, S)
<1>1. IsTable(SumTable(f, S), f, S) /\ IsTable(SumTable(e, S), e, S)
  BY SumsDefined
<1>2. SumTable(f, S)[S] = SumTable(e, S)[S]
  BY <1>1, SumsAgree
<1> QED BY <1>2, SumIsEntry

\* The element the definition takes first.
LEMMA SumFirst ==
  ASSUME NEW S, IsFiniteSet(S), S # {}, NEW f, \A x \in S : f[x] \in Int
  PROVE  SumFunctionOnSet(f, S) = f[Pick(S)] + SumFunctionOnSet(f, S \ {Pick(S)})
<1> DEFINE R == S \ {Pick(S)}
<1>1. IsFiniteSet(R)
  BY FS_Subset
<1>2. IsTable(SumTable(f, S), f, S) /\ IsTable(SumTable(f, R), f, R)
  BY <1>1, SumsDefined
<1>3. SumTable(f, S)[R] = SumTable(f, R)[R]
  BY <1>1, <1>2, SumsAgree
<1>4. SumTable(f, S)[S] = f[Pick(S)] + SumTable(f, S)[R]
  BY <1>2 DEF SumStep, IsTable
<1> QED BY <1>3, <1>4, SumIsEntry

\* Any element may be taken first.
LEMMA SumRemove ==
  ASSUME NEW S, IsFiniteSet(S), NEW f, \A x \in S : f[x] \in Int, NEW a \in S
  PROVE  SumFunctionOnSet(f, S) = f[a] + SumFunctionOnSet(f, S \ {a})
<1> DEFINE Total(T) == SumFunctionOnSet(f, T)
           Q == {T \in SUBSET S : \A x \in T : Total(T) = f[x] + Total(T \ {x})}
<1>1. ASSUME NEW T \in SUBSET S, \A x \in T : T \ {x} \in Q
      PROVE  T \in Q
  <2> SUFFICES ASSUME NEW x \in T PROVE Total(T) = f[x] + Total(T \ {x})
    OBVIOUS
  <2> DEFINE p == Pick(T)
             R == T \ {x, p}
  <2>1. p \in T /\ IsFiniteSet(T)
    BY PickIsElement, FS_Subset
  <2>2. Total(T) = f[p] + Total(T \ {p})
    BY <2>1, SumFirst
  <2>3. CASE x = p
    BY <2>2, <2>3
  <2>4. CASE x # p
    <3>1. /\ T \ {p} \in Q /\ x \in T \ {p} /\ (T \ {p}) \ {x} = R
          /\ T \ {x} \in Q /\ p \in T \ {x} /\ (T \ {x}) \ {p} = R
      BY <1>1, <2>1, <2>4
    <3>2. Total(T \ {p}) = f[x] + Total(R) /\ Total(T \ {x}) = f[p] + Total(R)
      BY <3>1
    <3>3. IsFiniteSet(R)
      BY <2>1, FS_Subset
    <3>4. Total(R) \in Int
      BY <3>3, SumType
    <3>5. f[x] \in Int /\ f[p] \in Int
      BY <2>1
    <3> HIDE DEF Total, p, R
    <3> QED BY <2>2, <3>2, <3>4, <3>5
  <2> QED BY <2>3, <2>4
<1> HIDE DEF Q
<1>2. S \in Q
  BY <1>1, SetInduction
<1> QED BY <1>2 DEF Q

LEMMA SumAdd ==
  ASSUME NEW S, IsFiniteSet(S), NEW f, NEW a, a \notin S,
         \A x \in S \union {a} : f[x] \in Int
  PROVE  /\ IsFiniteSet(S \union {a})
         /\ SumFunctionOnSet(f, S \union {a}) = SumFunctionOnSet(f, S) + f[a]
<1>1. IsFiniteSet(S \union {a}) /\ (S \union {a}) \ {a} = S
  BY FS_AddElement
<1>2. SumFunctionOnSet(f, S \union {a}) = f[a] + SumFunctionOnSet(f, S)
  BY <1>1, SumRemove
<1>3. SumFunctionOnSet(f, S) \in Int
  BY SumType
<1> QED BY <1>1, <1>2, <1>3

\* More elements, of no negative value, and larger values: a larger sum.
LEMMA SumMonotone ==
  ASSUME NEW T, IsFiniteSet(T), NEW S \in SUBSET T, NEW f, NEW e,
         \A x \in T : e[x] \in Nat,
         \A x \in S : f[x] \in Int /\ f[x] =< e[x]
  PROVE  SumFunctionOnSet(f, S) =< SumFunctionOnSet(e, T)
<1> DEFINE Low(U)  == SumFunctionOnSet(f, U \intersect S)
           High(U) == SumFunctionOnSet(e, U)
           Q == {U \in SUBSET T : Low(U) =< High(U)}
<1>1. ASSUME NEW U \in SUBSET T, \A x \in U : U \ {x} \in Q
      PROVE  U \in Q
  <2>1. IsFiniteSet(U) /\ IsFiniteSet(U \intersect S)
    BY FS_Subset
  <2>2. CASE U = {}
    <3>1. U \intersect S = {}
      BY <2>2
    <3>2. Low(U) = 0 /\ High(U) = 0
      BY <2>2, <3>1, SumOfNothing
    <3> QED BY <3>2
  <2>3. CASE U # {}
    <3>1. PICK x \in U : TRUE
      BY <2>3
    <3> DEFINE V == U \ {x}
    <3>2. Low(V) =< High(V)
      BY <1>1
    <3>3. High(U) = e[x] + High(V) /\ e[x] \in Nat
      BY <2>1, SumRemove
    <3>4. IsFiniteSet(V) /\ IsFiniteSet(V \intersect S)
      BY <2>1, FS_Subset
    <3>5. High(V) \in Int /\ Low(V) \in Int
      BY <3>4, SumType
    <3>6. CASE x \in S
      <4>1. (U \intersect S) \ {x} = V \intersect S /\ x \in U \intersect S
        BY <3>6
      <4>2. Low(U) = f[x] + Low(V) /\ f[x] \in Int /\ f[x] =< e[x]
        BY <2>1, <4>1, SumRemove
      <4> HIDE DEF Low, High, V
      <4>3. Low(U) =< High(U)
        BY <3>2, <3>3, <3>5, <4>2
      <4> QED BY <4>3
    <3>7. CASE x \notin S
      <4>1. U \intersect S = V \intersect S
        BY <3>7
      <4>2. Low(U) = Low(V)
        BY <4>1
      <4> HIDE DEF Low, High, V
      <4>3. Low(U) =< High(U)
        BY <3>2, <3>3, <3>5, <4>2
      <4> QED BY <4>3
    <3> QED BY <3>6, <3>7
  <2> QED BY <2>2, <2>3
<1> HIDE DEF Q
<1>2. T \in Q
  BY <1>1, SetInduction
<1>3. T \intersect S = S
  OBVIOUS
<1> QED BY <1>2, <1>3 DEF Q
=============================================================================
