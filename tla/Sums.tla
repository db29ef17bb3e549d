-------------------------------- MODULE Sums ---------------------------------
(***************************************************************************)
(* Facts about SumFunctionOnSet(f, S), the sum of f[x] for x in the finite *)
(* set S.  The operator folds over S in an order it chooses; that the      *)
(* order does not matter, and everything that follows, is proved here by   *)
(* taking a smallest set for which it fails.                               *)
(***************************************************************************)
EXTENDS Integers, FiniteSetsExt, FiniteSetTheorems, WellFoundedInduction, TLAPS

-----------------------------------------------------------------------------
(* Smallest numbers and smallest sets. *)

(* A set of natural numbers has a smallest one. *)
LEMMA SmallestNumber ==
    ASSUME NEW T \in SUBSET Nat, T # {}
    PROVE  \E n \in T : \A m \in T : n <= m
<1>1. PICK R : IsWellFoundedOn(R, Nat) /\ \A m, n \in Nat : <<m, n>> \in R <=> m < n
  <2> DEFINE R == OpToRel(<, Nat)
  <2>1. \A m, n \in Nat : <<m, n>> \in R <=> m < n
    BY DEF OpToRel
  <2>2. IsWellFoundedOn(R, Nat)
    BY NatLessThanWellFounded
  <2> HIDE DEF R
  <2> QED
    BY <2>1, <2>2
<1>2. \A U, Q : IsWellFoundedOn(Q, Nat) /\ U \subseteq Nat /\ U # {}
                    => \E x \in U : \A y \in U : ~(<<y, x>> \in Q)
  BY WFMin, Zenon
<1>3. T \subseteq Nat
  OBVIOUS
<1>4. PICK n \in T : \A m \in T : ~(<<m, n>> \in R)
  BY <1>1, <1>2, <1>3
<1>5. ASSUME NEW m \in T
      PROVE  n <= m
  <2>1. m \in Nat /\ n \in Nat
    OBVIOUS
  <2>2. ~(m < n)
    BY <1>1, <1>4, <2>1
  <2> QED
    BY <2>1, <2>2
<1> QED
  BY <1>5

(* A family of finite sets has one with the fewest elements. *)
LEMMA SmallestSet ==
    ASSUME NEW F, F # {}, \A S \in F : IsFiniteSet(S)
    PROVE  \E S \in F : \A T \in F : Cardinality(S) <= Cardinality(T)
<1> DEFINE sizes == {Cardinality(S) : S \in F}
<1>1. sizes \in SUBSET Nat /\ sizes # {}
  BY FS_CardinalityType
<1>2. PICK n \in sizes : \A m \in sizes : n <= m
  <2> HIDE DEF sizes
  <2> QED
    BY <1>1, SmallestNumber
<1>3. PICK S \in F : n = Cardinality(S)
  OBVIOUS
<1> QED
  BY <1>2, <1>3

(* Induction on finite sets: F has every set all of whose sets with one      *)
(* element less it has.                                                      *)
LEMMA SetInduction ==
    ASSUME NEW S, IsFiniteSet(S), NEW F,
           \A s \in SUBSET S : (\A x \in s : s \ {x} \in F) => s \in F
    PROVE  S \in F
<1> DEFINE bad == {s \in SUBSET S : s \notin F}
<1> SUFFICES ASSUME bad # {}
             PROVE  FALSE
  OBVIOUS
<1>1. \A s \in SUBSET S : IsFiniteSet(s) /\ Cardinality(s) \in Nat
  BY FS_Subset, FS_CardinalityType
<1>2. PICK s \in bad : \A t \in bad : Cardinality(s) <= Cardinality(t)
  <2>1. \A t \in bad : IsFiniteSet(t)
    BY <1>1
  <2>2. bad # {}
    OBVIOUS
  <2> HIDE DEF bad
  <2> QED
    BY <2>1, <2>2, SmallestSet
<1>3. ASSUME NEW x \in s
      PROVE  s \ {x} \in F
  <2>1. Cardinality(s \ {x}) = Cardinality(s) - 1
    BY <1>1, FS_RemoveElement
  <2>2. Cardinality(s \ {x}) \in Nat /\ Cardinality(s) \in Nat
    BY <1>1
  <2> QED
    BY <1>2, <2>1, <2>2
<1> QED
  BY <1>3

-----------------------------------------------------------------------------
(* The fold is well defined. *)

Chosen(s) == CHOOSE x \in s : TRUE
FoldStep(g, f, s) == IF s = {} THEN 0 ELSE f[Chosen(s)] + g[s \ {Chosen(s)}]
IsFold(g, f, S) == g = [s \in SUBSET S |-> FoldStep(g, f, s)]

(* SumFunctionOnSet is the value at S of a function that folds every part of S. *)
LEMMA SumIsFold ==
    ASSUME NEW f, NEW S
    PROVE  SumFunctionOnSet(f, S) = (CHOOSE g : IsFold(g, f, S))[S]
BY DEF SumFunctionOnSet, FoldFunctionOnSet, MapThenFoldSet, IsFold, FoldStep, Chosen

(* A choice from a nonempty set is in it. *)
LEMMA AnyIsIn == ASSUME NEW s, s # {} PROVE Chosen(s) \in s
BY DEF Chosen

(* A function that folds correctly the sets of at most n elements. *)
FoldsTo(g, f, S, n) ==
    /\ DOMAIN g = SUBSET S
    /\ \A s \in SUBSET S : Cardinality(s) <= n => g[s] = FoldStep(g, f, s)

(* Every finite set has a function that folds all its parts. *)
LEMMA FoldExists ==
    ASSUME NEW f, NEW S, IsFiniteSet(S)
    PROVE  \E g : IsFold(g, f, S)
<1> DEFINE bad == {n \in Nat : ~ \E g : FoldsTo(g, f, S, n)}
<1>0. \A s \in SUBSET S : IsFiniteSet(s) /\ Cardinality(s) \in Nat
  BY FS_Subset, FS_CardinalityType
<1>1. bad = {}
  <2> SUFFICES ASSUME bad # {}
               PROVE  FALSE
    OBVIOUS
  <2>1. PICK n \in bad : \A m \in bad : n <= m
    <3>1. bad \in SUBSET Nat
      OBVIOUS
    <3> HIDE DEF bad
    <3> QED
      BY <3>1, SmallestNumber
  <2>2. n # 0
    <3> SUFFICES ASSUME n = 0
                 PROVE  FALSE
      OBVIOUS
    <3> DEFINE g == [s \in SUBSET S |-> 0]
    <3>1. FoldsTo(g, f, S, 0)
      BY <1>0, FS_EmptySet DEF FoldsTo, FoldStep
    <3> HIDE DEF g
    <3> QED
      BY <3>1
  <2>3. n - 1 \in Nat /\ n - 1 \notin bad
    BY <2>1, <2>2
  <2>4. PICK g : FoldsTo(g, f, S, n - 1)
    BY <2>3
  <2> DEFINE h == [s \in SUBSET S |-> IF Cardinality(s) <= n - 1 THEN g[s] ELSE FoldStep(g, f, s)]
  <2>5. ASSUME NEW s \in SUBSET S, Cardinality(s) <= n
        PROVE  h[s] = FoldStep(h, f, s)
    <3>1. h[s] = FoldStep(g, f, s)
      BY <2>4 DEF FoldsTo
    <3>2. CASE s = {}
      BY <3>1, <3>2 DEF FoldStep
    <3>3. CASE s # {}
      <4>1. Chosen(s) \in s
        BY <3>3, AnyIsIn
      <4>2. Cardinality(s \ {Chosen(s)}) <= n - 1 /\ s \ {Chosen(s)} \in SUBSET S
        BY <1>0, <2>5, <4>1, FS_RemoveElement
      <4>3. h[s \ {Chosen(s)}] = g[s \ {Chosen(s)}]
        BY <4>2
      <4> HIDE DEF h
      <4> QED
        BY <3>1, <4>3 DEF FoldStep
    <3> QED
      BY <3>2, <3>3
  <2>6. FoldsTo(h, f, S, n)
    <3>1. DOMAIN h = SUBSET S
      OBVIOUS
    <3> HIDE DEF h
    <3> QED
      BY <2>5, <3>1 DEF FoldsTo
  <2> HIDE DEF h
  <2> QED
    BY <2>6
<1>2. PICK g : FoldsTo(g, f, S, Cardinality(S))
  BY <1>0, <1>1
<1> DEFINE total == [s \in SUBSET S |-> g[s]]
<1>3. ASSUME NEW s \in SUBSET S
      PROVE  total[s] = FoldStep(total, f, s)
  <2>1. g[s] = FoldStep(g, f, s)
    BY <1>0, <1>2, FS_Subset DEF FoldsTo
  <2>2. s # {} => s \ {Chosen(s)} \in SUBSET S
    OBVIOUS
  <2> QED
    BY <2>1, <2>2 DEF FoldStep
<1>4. total = [s \in SUBSET S |-> FoldStep(total, f, s)]
  <2> HIDE DEF total
  <2>1. DOMAIN total = SUBSET S /\ total = [s \in DOMAIN total |-> total[s]]
    BY DEF total
  <2> QED
    BY <1>3, <2>1
<1> HIDE DEF total
<1> QED
  BY <1>4 DEF IsFold

(* Folds of functions that agree on a set agree on the set. *)
LEMMA FoldsAgree ==
    ASSUME NEW f, NEW g, NEW S, NEW e, NEW h, NEW R,
           IsFold(g, f, S), IsFold(h, e, R),
           NEW U, IsFiniteSet(U), U \subseteq S, U \subseteq R,
           \A x \in U : f[x] = e[x]
    PROVE  g[U] = h[U]
<1> DEFINE F == {s \in SUBSET U : g[s] = h[s]}
<1>1. ASSUME NEW s \in SUBSET U, \A x \in s : s \ {x} \in F
      PROVE  s \in F
  <2>1. g[s] = FoldStep(g, f, s) /\ h[s] = FoldStep(h, e, s)
    BY DEF IsFold
  <2>2. CASE s = {}
    BY <2>1, <2>2 DEF FoldStep
  <2>3. CASE s # {}
    <3>1. Chosen(s) \in s
      BY <2>3, AnyIsIn
    <3>2. g[s \ {Chosen(s)}] = h[s \ {Chosen(s)}] /\ f[Chosen(s)] = e[Chosen(s)]
      BY <1>1, <3>1
    <3> QED
      BY <2>1, <2>3, <3>2 DEF FoldStep
  <2> QED
    BY <2>2, <2>3
<1> HIDE DEF F
<1>2. U \in F
  BY <1>1, SetInduction
<1> QED
  BY <1>2 DEF F

(* A sum over a finite set is what a fold of its parts gives it. *)
LEMMA SumFolds ==
    ASSUME NEW f, NEW S, IsFiniteSet(S)
    PROVE  \E g : IsFold(g, f, S) /\ SumFunctionOnSet(f, S) = g[S]
<1>1. IsFold(CHOOSE g : IsFold(g, f, S), f, S)
  BY FoldExists
<1> QED
  BY <1>1, SumIsFold

-----------------------------------------------------------------------------
(* Sums. *)

(* The sum looks at no value outside the set. *)
THEOREM SumSame ==
    ASSUME NEW f, NEW e, NEW S, IsFiniteSet(S), \A x \in S : f[x] = e[x]
    PROVE  SumFunctionOnSet(f, S) = SumFunctionOnSet(e, S)
<1>1. PICK g : IsFold(g, f, S) /\ SumFunctionOnSet(f, S) = g[S]
  BY SumFolds
<1>2. PICK h : IsFold(h, e, S) /\ SumFunctionOnSet(e, S) = h[S]
  BY SumFolds
<1> QED
  BY <1>1, <1>2, FoldsAgree

(* The sum of nothing is 0. *)
THEOREM SumEmpty == ASSUME NEW f PROVE SumFunctionOnSet(f, {}) = 0
<1>1. PICK g : IsFold(g, f, {}) /\ SumFunctionOnSet(f, {}) = g[{}]
  BY SumFolds, FS_EmptySet
<1> QED
  BY <1>1 DEF IsFold, FoldStep

(* The element the fold takes first. *)
LEMMA SumFirst ==
    ASSUME NEW f, NEW S, IsFiniteSet(S), S # {}
    PROVE  SumFunctionOnSet(f, S) = f[Chosen(S)] + SumFunctionOnSet(f, S \ {Chosen(S)})
<1> DEFINE R == S \ {Chosen(S)}
<1>1. PICK g : IsFold(g, f, S) /\ SumFunctionOnSet(f, S) = g[S]
  BY SumFolds
<1>2. IsFiniteSet(R) /\ R \subseteq S
  BY FS_Subset
<1> HIDE DEF R
<1>3. PICK h : IsFold(h, f, R) /\ SumFunctionOnSet(f, R) = h[R]
  BY <1>2, SumFolds
<1>4. g[R] = h[R]
  BY <1>1, <1>2, <1>3, FoldsAgree
<1>5. g[S] = FoldStep(g, f, S)
  BY <1>1 DEF IsFold
<1> USE DEF R
<1> QED
  BY <1>1, <1>3, <1>4, <1>5 DEF FoldStep

(* A sum of integers is an integer. *)
THEOREM SumInteger ==
    ASSUME NEW f, NEW S, IsFiniteSet(S), \A x \in S : f[x] \in Int
    PROVE  SumFunctionOnSet(f, S) \in Int
<1> DEFINE F == {s \in SUBSET S : SumFunctionOnSet(f, s) \in Int}
<1>1. ASSUME NEW s \in SUBSET S, \A x \in s : s \ {x} \in F
      PROVE  s \in F
  <2>1. CASE s = {}
    BY <2>1, SumEmpty
  <2>2. CASE s # {}
    <3>1. IsFiniteSet(s)
      BY FS_Subset
    <3>2. Chosen(s) \in s
      BY <2>2, AnyIsIn
    <3>3. SumFunctionOnSet(f, s) = f[Chosen(s)] + SumFunctionOnSet(f, s \ {Chosen(s)})
      BY <2>2, <3>1, SumFirst
    <3>4. f[Chosen(s)] \in Int /\ SumFunctionOnSet(f, s \ {Chosen(s)}) \in Int
      BY <1>1, <3>2
    <3>5. SumFunctionOnSet(f, s) \in Int
      BY <3>3, <3>4
    <3> QED
      BY <3>5
  <2> QED
    BY <2>1, <2>2
<1> HIDE DEF F
<1>2. S \in F
  BY <1>1, SetInduction
<1> QED
  BY <1>2 DEF F

(* Any element can be taken first: the order does not matter. *)
THEOREM SumTake ==
    ASSUME NEW f, NEW S, IsFiniteSet(S), \A x \in S : f[x] \in Int, NEW y \in S
    PROVE  SumFunctionOnSet(f, S) = f[y] + SumFunctionOnSet(f, S \ {y})
<1> DEFINE F == {s \in SUBSET S : \A z \in s :
                    SumFunctionOnSet(f, s) = f[z] + SumFunctionOnSet(f, s \ {z})}
<1>1. \A s \in SUBSET S : IsFiniteSet(s) /\ SumFunctionOnSet(f, s) \in Int
  BY FS_Subset, SumInteger
<1>2. ASSUME NEW s \in SUBSET S, \A x \in s : s \ {x} \in F
      PROVE  s \in F
  <2> SUFFICES ASSUME NEW z \in s
               PROVE  SumFunctionOnSet(f, s) = f[z] + SumFunctionOnSet(f, s \ {z})
    OBVIOUS
  <2>1. PICK a \in s : SumFunctionOnSet(f, s) = f[a] + SumFunctionOnSet(f, s \ {a})
    BY <1>1, SumFirst, AnyIsIn
  <2>2. CASE a = z
    BY <2>1, <2>2
  <2>3. CASE a # z
    <3> DEFINE rest == (s \ {z}) \ {a}
    <3>1. rest = (s \ {a}) \ {z} /\ rest \in SUBSET S
      OBVIOUS
    <3>2. SumFunctionOnSet(f, s \ {a}) = f[z] + SumFunctionOnSet(f, rest)
      BY <1>2, <2>3, <3>1
    <3>3. SumFunctionOnSet(f, s \ {z}) = f[a] + SumFunctionOnSet(f, rest)
      BY <1>2, <2>3
    <3>4. f[a] \in Int /\ f[z] \in Int /\ SumFunctionOnSet(f, rest) \in Int
      BY <1>1, <3>1
    <3> HIDE DEF rest
    <3> QED
      BY <2>1, <3>2, <3>3, <3>4
  <2> QED
    BY <2>2, <2>3
<1> HIDE DEF F
<1>3. S \in F
  BY <1>2, SetInduction
<1> QED
  BY <1>3 DEF F

(* An element put into a set adds its value. *)
THEOREM SumPut ==
    ASSUME NEW f, NEW S, IsFiniteSet(S), \A x \in S : f[x] \in Int,
           NEW y, y \notin S, f[y] \in Int
    PROVE  SumFunctionOnSet(f, S \cup {y}) = f[y] + SumFunctionOnSet(f, S)
<1> DEFINE R == S \cup {y}
<1>1. IsFiniteSet(R) /\ (\A x \in R : f[x] \in Int) /\ y \in R /\ R \ {y} = S
  BY FS_AddElement
<1> HIDE DEF R
<1>2. SumFunctionOnSet(f, R) = f[y] + SumFunctionOnSet(f, R \ {y})
  BY <1>1, SumTake
<1> QED
  BY <1>1, <1>2 DEF R

(* One value of the summed function changes. *)
THEOREM SumChange ==
    ASSUME NEW f, NEW e, NEW S, IsFiniteSet(S),
           \A x \in S : f[x] \in Int /\ e[x] \in Int,
           NEW y \in S, \A x \in S \ {y} : e[x] = f[x]
    PROVE  SumFunctionOnSet(e, S) = SumFunctionOnSet(f, S) - f[y] + e[y]
<1>1. IsFiniteSet(S \ {y})
  BY FS_RemoveElement
<1>2. /\ SumFunctionOnSet(f, S) = f[y] + SumFunctionOnSet(f, S \ {y})
      /\ SumFunctionOnSet(e, S) = e[y] + SumFunctionOnSet(e, S \ {y})
  BY SumTake
<1>3. SumFunctionOnSet(e, S \ {y}) = SumFunctionOnSet(f, S \ {y})
  BY <1>1, SumSame
<1>4. SumFunctionOnSet(f, S \ {y}) \in Int
  BY <1>1, SumInteger
<1> QED
  BY <1>2, <1>3, <1>4

(* Sums add up value by value. *)
THEOREM SumPlus ==
    ASSUME NEW f, NEW e, NEW g, NEW S, IsFiniteSet(S),
           \A x \in S : f[x] \in Int /\ e[x] \in Int /\ g[x] = f[x] + e[x]
    PROVE  SumFunctionOnSet(g, S) = SumFunctionOnSet(f, S) + SumFunctionOnSet(e, S)
<1> DEFINE F == {s \in SUBSET S : SumFunctionOnSet(g, s)
                                     = SumFunctionOnSet(f, s) + SumFunctionOnSet(e, s)}
<1>1. ASSUME NEW s \in SUBSET S, \A x \in s : s \ {x} \in F
      PROVE  s \in F
  <2>1. CASE s = {}
    BY <2>1, SumEmpty
  <2>2. CASE s # {}
    <3>1. PICK y \in s : TRUE
      BY <2>2
    <3>2. IsFiniteSet(s) /\ IsFiniteSet(s \ {y})
      BY FS_Subset
    <3>3. /\ SumFunctionOnSet(f, s) = f[y] + SumFunctionOnSet(f, s \ {y})
          /\ SumFunctionOnSet(e, s) = e[y] + SumFunctionOnSet(e, s \ {y})
          /\ SumFunctionOnSet(g, s) = g[y] + SumFunctionOnSet(g, s \ {y})
      BY <3>2, SumTake
    <3>4. SumFunctionOnSet(f, s \ {y}) \in Int /\ SumFunctionOnSet(e, s \ {y}) \in Int
      BY <3>2, SumInteger
    <3>5. SumFunctionOnSet(g, s \ {y})
              = SumFunctionOnSet(f, s \ {y}) + SumFunctionOnSet(e, s \ {y})
      BY <1>1
    <3> QED
      BY <3>3, <3>4, <3>5
  <2> QED
    BY <2>1, <2>2
<1> HIDE DEF F
<1>2. S \in F
  BY <1>1, SetInduction
<1> QED
  BY <1>2 DEF F

(* Values that are not larger have a sum that is not larger. *)
THEOREM SumAtMost ==
    ASSUME NEW f, NEW e, NEW S, IsFiniteSet(S),
           \A x \in S : f[x] \in Int /\ e[x] \in Int /\ f[x] <= e[x]
    PROVE  SumFunctionOnSet(f, S) <= SumFunctionOnSet(e, S)
<1> DEFINE F == {s \in SUBSET S : SumFunctionOnSet(f, s) <= SumFunctionOnSet(e, s)}
<1>1. ASSUME NEW s \in SUBSET S, \A x \in s : s \ {x} \in F
      PROVE  s \in F
  <2>1. CASE s = {}
    BY <2>1, SumEmpty
  <2>2. CASE s # {}
    <3>1. PICK y \in s : TRUE
      BY <2>2
    <3>2. IsFiniteSet(s) /\ IsFiniteSet(s \ {y})
      BY FS_Subset
    <3>3. /\ SumFunctionOnSet(f, s) = f[y] + SumFunctionOnSet(f, s \ {y})
          /\ SumFunctionOnSet(e, s) = e[y] + SumFunctionOnSet(e, s \ {y})
      BY <3>2, SumTake
    <3>4. SumFunctionOnSet(f, s \ {y}) \in Int /\ SumFunctionOnSet(e, s \ {y}) \in Int
      BY <3>2, SumInteger
    <3>5. SumFunctionOnSet(f, s \ {y}) <= SumFunctionOnSet(e, s \ {y})
      BY <1>1
    <3> QED
      BY <3>3, <3>4, <3>5
  <2> QED
    BY <2>1, <2>2
<1> HIDE DEF F
<1>2. S \in F
  BY <1>1, SetInduction
<1> QED
  BY <1>2 DEF F

(* A sum of zeros is 0. *)
THEOREM SumZero ==
    ASSUME NEW f, NEW S, IsFiniteSet(S), \A x \in S : f[x] = 0
    PROVE  SumFunctionOnSet(f, S) = 0
<1> DEFINE F == {s \in SUBSET S : SumFunctionOnSet(f, s) = 0}
<1>1. ASSUME NEW s \in SUBSET S, \A x \in s : s \ {x} \in F
      PROVE  s \in F
  <2>1. CASE s = {}
    BY <2>1, SumEmpty
  <2>2. CASE s # {}
    <3>1. PICK y \in s : TRUE
      BY <2>2
    <3>2. IsFiniteSet(s)
      BY FS_Subset
    <3>3. \A x \in s : f[x] \in Int
      OBVIOUS
    <3>4. SumFunctionOnSet(f, s) = f[y] + SumFunctionOnSet(f, s \ {y})
      BY <3>2, <3>3, SumTake
    <3>5. f[y] = 0 /\ SumFunctionOnSet(f, s \ {y}) = 0
      BY <1>1
    <3> QED
      BY <3>4, <3>5
  <2> QED
    BY <2>1, <2>2
<1> HIDE DEF F
<1>2. S \in F
  BY <1>1, SetInduction
<1> QED
  BY <1>2 DEF F

(* A sum of natural numbers is a natural number. *)
THEOREM SumNatural ==
    ASSUME NEW f, NEW S, IsFiniteSet(S), \A x \in S : f[x] \in Nat
    PROVE  SumFunctionOnSet(f, S) \in Nat
<1> DEFINE none == [x \in S |-> 0]
<1>1. SumFunctionOnSet(none, S) = 0
  BY SumZero
<1>2. SumFunctionOnSet(none, S) <= SumFunctionOnSet(f, S)
  BY SumAtMost
<1>3. SumFunctionOnSet(f, S) \in Int
  BY SumInteger
<1> QED
  BY <1>1, <1>2, <1>3

(* A sum over a part of S is one over S in which the others count for nothing. *)
THEOREM SumPart ==
    ASSUME NEW f, NEW S, IsFiniteSet(S), \A x \in S : f[x] \in Int, NEW P \in SUBSET S
    PROVE  SumFunctionOnSet(f, P) = SumFunctionOnSet([x \in S |-> IF x \in P THEN f[x] ELSE 0], S)
<1> DEFINE e == [x \in S |-> IF x \in P THEN f[x] ELSE 0]
           F == {s \in SUBSET S : SumFunctionOnSet(f, P \cap s) = SumFunctionOnSet(e, s)}
<1>0. \A x \in S : e[x] \in Int /\ e[x] = IF x \in P THEN f[x] ELSE 0
  OBVIOUS
<1>1. ASSUME NEW s \in SUBSET S, \A x \in s : s \ {x} \in F
      PROVE  s \in F
  <2> HIDE DEF e
  <2>1. CASE s = {}
    BY <2>1, SumEmpty
  <2>2. CASE s # {}
    <3>1. PICK y \in s : TRUE
      BY <2>2
    <3>2. IsFiniteSet(s) /\ IsFiniteSet(P \cap s) /\ P \cap s \in SUBSET S
      BY FS_Subset
    <3>3. SumFunctionOnSet(e, s) = e[y] + SumFunctionOnSet(e, s \ {y})
      BY <1>0, <3>2, SumTake
    <3>4. SumFunctionOnSet(f, P \cap (s \ {y})) = SumFunctionOnSet(e, s \ {y})
      BY <1>1
    <3>5. CASE y \in P
      <4>1. SumFunctionOnSet(f, P \cap s) = f[y] + SumFunctionOnSet(f, (P \cap s) \ {y})
        BY <3>2, <3>5, SumTake
      <4>2. (P \cap s) \ {y} = P \cap (s \ {y})
        OBVIOUS
      <4> QED
        BY <1>0, <3>3, <3>4, <3>5, <4>1, <4>2
    <3>6. CASE y \notin P
      <4>1. P \cap s = P \cap (s \ {y})
        BY <3>6
      <4>2. IsFiniteSet(s \ {y}) /\ (\A x \in s \ {y} : e[x] \in Int)
        BY <1>0, <3>2, FS_Subset
      <4>3. SumFunctionOnSet(e, s \ {y}) \in Int
        BY <4>2, SumInteger
      <4>4. e[y] = 0
        BY <1>0, <3>6
      <4>5. SumFunctionOnSet(e, s) = SumFunctionOnSet(e, s \ {y})
        BY <3>3, <4>3, <4>4
      <4>6. SumFunctionOnSet(f, P \cap s) = SumFunctionOnSet(e, s)
        BY <3>4, <4>1, <4>5
      <4> QED
        BY <4>6
    <3> QED
      BY <3>5, <3>6
  <2> QED
    BY <2>1, <2>2
<1> HIDE DEF F
<1>2. S \in F
  BY <1>1, SetInduction
<1>3. P \cap S = P
  OBVIOUS
<1> QED
  BY <1>2, <1>3 DEF F

(***************************************************************************)
(* Sums over two parts of S when only y may have changed its value or its  *)
(* part.                                                                   *)
(***************************************************************************)
THEOREM SumMember ==
    ASSUME NEW f, NEW e, NEW S, IsFiniteSet(S),
           \A x \in S : f[x] \in Int /\ e[x] \in Int,
           NEW P \in SUBSET S, NEW Q \in SUBSET S, NEW y \in S,
           \A x \in S \ {y} : e[x] = f[x] /\ (x \in Q <=> x \in P)
    PROVE  SumFunctionOnSet(e, Q) = SumFunctionOnSet(f, P)
               - (IF y \in P THEN f[y] ELSE 0) + (IF y \in Q THEN e[y] ELSE 0)
<1> DEFINE g == [x \in S |-> IF x \in P THEN f[x] ELSE 0]
           h == [x \in S |-> IF x \in Q THEN e[x] ELSE 0]
<1>1. SumFunctionOnSet(f, P) = SumFunctionOnSet(g, S)
  BY SumPart
<1>2. SumFunctionOnSet(e, Q) = SumFunctionOnSet(h, S)
  BY SumPart
<1>3. /\ \A x \in S : g[x] \in Int /\ h[x] \in Int
      /\ \A x \in S \ {y} : h[x] = g[x]
      /\ g[y] = (IF y \in P THEN f[y] ELSE 0)
      /\ h[y] = (IF y \in Q THEN e[y] ELSE 0)
  OBVIOUS
<1> HIDE DEF g, h
<1>4. SumFunctionOnSet(h, S) = SumFunctionOnSet(g, S) - g[y] + h[y]
  BY <1>3, SumChange
<1> QED
  BY <1>1, <1>2, <1>3, <1>4

(* A set gains an element. *)
THEOREM SumGrows ==
    ASSUME NEW f, NEW e, NEW S, IsFiniteSet(S), \A x \in S : f[x] \in Int /\ e[x] = f[x],
           NEW y, y \notin S, e[y] \in Int
    PROVE  SumFunctionOnSet(e, S \cup {y}) = SumFunctionOnSet(f, S) + e[y]
<1>1. SumFunctionOnSet(e, S \cup {y}) = e[y] + SumFunctionOnSet(e, S)
  BY SumPut
<1>2. SumFunctionOnSet(e, S) = SumFunctionOnSet(f, S)
  BY SumSame
<1>3. SumFunctionOnSet(f, S) \in Int
  BY SumInteger
<1> QED
  BY <1>1, <1>2, <1>3

(* A set loses an element. *)
THEOREM SumDrops ==
    ASSUME NEW f, NEW e, NEW S, IsFiniteSet(S), \A x \in S : f[x] \in Int,
           NEW y \in S, \A x \in S \ {y} : e[x] = f[x]
    PROVE  SumFunctionOnSet(e, S \ {y}) = SumFunctionOnSet(f, S) - f[y]
<1>1. IsFiniteSet(S \ {y})
  BY FS_RemoveElement
<1>2. SumFunctionOnSet(f, S) = f[y] + SumFunctionOnSet(f, S \ {y})
  BY SumTake
<1>3. SumFunctionOnSet(e, S \ {y}) = SumFunctionOnSet(f, S \ {y})
  BY <1>1, SumSame
<1>4. SumFunctionOnSet(f, S \ {y}) \in Int
  BY <1>1, SumInteger
<1> QED
  BY <1>2, <1>3, <1>4

-----------------------------------------------------------------------------
(* Scaling and counting. *)

(* A factor comes out of a product. *)
LEMMA Distributes ==
    ASSUME NEW c \in Int, NEW x \in Int, NEW y \in Int
    PROVE  c * (x + y) = c * x + c * y /\ c * x \in Int
OBVIOUS

(* A common factor comes out of a sum. *)
THEOREM SumScaled ==
    ASSUME NEW f, NEW e, NEW S, IsFiniteSet(S), NEW c \in Int,
           \A x \in S : f[x] \in Int /\ e[x] = c * f[x]
    PROVE  SumFunctionOnSet(e, S) = c * SumFunctionOnSet(f, S)
<1> DEFINE F == {s \in SUBSET S : SumFunctionOnSet(e, s) = c * SumFunctionOnSet(f, s)}
<1>0. \A x \in S : e[x] \in Int
  BY Distributes
<1>1. ASSUME NEW s \in SUBSET S, \A x \in s : s \ {x} \in F
      PROVE  s \in F
  <2>1. CASE s = {}
    BY <2>1, SumEmpty
  <2>2. CASE s # {}
    <3>1. PICK x : x \in s
      BY <2>2
    <3>2. IsFiniteSet(s) /\ IsFiniteSet(s \ {x})
      BY FS_Subset, FS_RemoveElement
    <3>3. SumFunctionOnSet(f, s) = f[x] + SumFunctionOnSet(f, s \ {x})
      BY <3>1, <3>2, SumTake
    <3>4. SumFunctionOnSet(e, s) = e[x] + SumFunctionOnSet(e, s \ {x})
      BY <1>0, <3>1, <3>2, SumTake
    <3>5. SumFunctionOnSet(e, s \ {x}) = c * SumFunctionOnSet(f, s \ {x})
      BY <1>1, <3>1
    <3>6. SumFunctionOnSet(f, s \ {x}) \in Int /\ f[x] \in Int /\ e[x] = c * f[x]
      BY <3>1, <3>2, SumInteger
    <3> QED
      BY <3>3, <3>4, <3>5, <3>6, Distributes
  <2> QED
    BY <2>1, <2>2
<1> HIDE DEF F
<1>2. S \in F
  BY <1>1, SetInduction
<1> QED
  BY <1>2 DEF F

(* The sum of ones counts. *)
LEMMA SumOnes ==
    ASSUME NEW f, NEW S, IsFiniteSet(S), \A x \in S : f[x] = 1
    PROVE  SumFunctionOnSet(f, S) = Cardinality(S)
<1> DEFINE F == {s \in SUBSET S : SumFunctionOnSet(f, s) = Cardinality(s)}
<1>1. ASSUME NEW s \in SUBSET S, \A x \in s : s \ {x} \in F
      PROVE  s \in F
  <2>1. CASE s = {}
    BY <2>1, SumEmpty, FS_EmptySet
  <2>2. CASE s # {}
    <3>1. PICK x : x \in s
      BY <2>2
    <3>2. IsFiniteSet(s) /\ IsFiniteSet(s \ {x}) /\ Cardinality(s \ {x}) = Cardinality(s) - 1
          /\ Cardinality(s) \in Nat
      BY <3>1, FS_Subset, FS_RemoveElement, FS_CardinalityType
    <3>3. SumFunctionOnSet(f, s) = f[x] + SumFunctionOnSet(f, s \ {x})
      BY <3>1, <3>2, SumTake
    <3>4. SumFunctionOnSet(f, s \ {x}) = Cardinality(s \ {x})
      BY <1>1, <3>1
    <3> QED
      BY <3>1, <3>2, <3>3, <3>4
  <2> QED
    BY <2>1, <2>2
<1> HIDE DEF F
<1>2. S \in F
  BY <1>1, SetInduction
<1> QED
  BY <1>2 DEF F

(* A sum of ones and zeros counts the ones. *)
THEOREM SumCounts ==
    ASSUME NEW S, IsFiniteSet(S), NEW P \in SUBSET S, NEW f,
           \A x \in S : f[x] = IF x \in P THEN 1 ELSE 0
    PROVE  SumFunctionOnSet(f, S) = Cardinality(P)
<1> DEFINE one == [x \in S |-> 1]
           e == [x \in S |-> IF x \in P THEN one[x] ELSE 0]
<1>1. \A x \in S : one[x] = 1 /\ one[x] \in Int /\ e[x] = f[x]
  OBVIOUS
<1>2. SumFunctionOnSet(one, P) = SumFunctionOnSet(e, S)
  <2>1. \A x \in S : one[x] \in Int
    BY <1>1
  <2> HIDE DEF one
  <2> QED
    BY <2>1, SumPart
<1>3. IsFiniteSet(P) /\ \A x \in P : one[x] = 1
  BY <1>1, FS_Subset
<1> HIDE DEF one, e
<1>4. SumFunctionOnSet(one, P) = Cardinality(P)
  BY <1>3, SumOnes
<1>5. SumFunctionOnSet(e, S) = SumFunctionOnSet(f, S)
  BY <1>1, SumSame
<1> QED
  BY <1>2, <1>4, <1>5

-----------------------------------------------------------------------------
(* Ranks in a strict order. *)

(* B orders S strictly and totally. *)
IsStrictOrder(B, S) ==
    /\ \A x \in S : <<x, x>> \notin B
    /\ \A x, y, z \in S : <<x, y>> \in B /\ <<y, z>> \in B => <<x, z>> \in B
    /\ \A x, y \in S : x # y => <<x, y>> \in B \/ <<y, x>> \in B

(* How many of s come before x. *)
Rank(B, s, x) == Cardinality({y \in s : <<y, x>> \in B})

(* Somebody comes last. *)
LEMMA LastOne ==
    ASSUME NEW S, IsFiniteSet(S), NEW B, IsStrictOrder(B, S), S # {}
    PROVE  \E x \in S : \A y \in S \ {x} : <<y, x>> \in B
<1> DEFINE F == {s \in SUBSET S : s # {} => \E x \in s : \A y \in s \ {x} : <<y, x>> \in B}
<1>1. ASSUME NEW s \in SUBSET S, \A x \in s : s \ {x} \in F
      PROVE  s \in F
  <2> SUFFICES ASSUME s # {} PROVE \E x \in s : \A y \in s \ {x} : <<y, x>> \in B
    OBVIOUS
  <2>1. PICK z : z \in s
    OBVIOUS
  <2>2. CASE s \ {z} = {}
    BY <2>1, <2>2
  <2>3. CASE s \ {z} # {}
    <3>1. PICK x \in s \ {z} : \A y \in (s \ {z}) \ {x} : <<y, x>> \in B
      BY <1>1, <2>1, <2>3
    <3>2. CASE <<z, x>> \in B
      BY <3>1, <3>2
    <3>3. CASE <<x, z>> \in B
      <4>1. \A y \in s \ {z} : <<y, z>> \in B
        BY <2>1, <3>1, <3>3 DEF IsStrictOrder
      <4> QED
        BY <2>1, <4>1
    <3> QED
      BY <2>1, <3>1, <3>2, <3>3 DEF IsStrictOrder
  <2> QED
    BY <2>2, <2>3
<1> HIDE DEF F
<1>2. S \in F
  BY <1>1, SetInduction
<1> QED
  BY <1>2 DEF F

(* Exactly k of the elements have a rank below k. *)
THEOREM RanksCount ==
    ASSUME NEW S, IsFiniteSet(S), NEW B, IsStrictOrder(B, S), NEW n \in 0..Cardinality(S)
    PROVE  Cardinality({x \in S : Rank(B, S, x) < n}) = n
<1> DEFINE F == {s \in SUBSET S : \A k \in 0..Cardinality(s) :
                    Cardinality({x \in s : Rank(B, s, x) < k}) = k}
<1>1. ASSUME NEW s \in SUBSET S, \A x \in s : s \ {x} \in F
      PROVE  s \in F
  <2>0. IsFiniteSet(s) /\ Cardinality(s) \in Nat
    BY FS_Subset, FS_CardinalityType
  <2>1. ASSUME NEW k \in 0..Cardinality(s), k = Cardinality(s)
        PROVE  Cardinality({x \in s : Rank(B, s, x) < k}) = k
    <3>1. ASSUME NEW x \in s PROVE Rank(B, s, x) < k
      <4>1. {y \in s : <<y, x>> \in B} \subseteq s \ {x}
        BY DEF IsStrictOrder
      <4>2. IsFiniteSet(s \ {x}) /\ Cardinality(s \ {x}) = Cardinality(s) - 1
        BY <2>0, FS_RemoveElement
      <4>3. Cardinality({y \in s : <<y, x>> \in B}) <= Cardinality(s \ {x})
            /\ Cardinality({y \in s : <<y, x>> \in B}) \in Nat
        BY <4>1, <4>2, FS_Subset, FS_CardinalityType
      <4> QED
        BY <2>0, <2>1, <4>2, <4>3 DEF Rank
    <3>2. {x \in s : Rank(B, s, x) < k} = s
      BY <3>1
    <3> QED
      BY <2>1, <3>2
  <2>2. ASSUME NEW k \in 0..Cardinality(s), k # Cardinality(s)
        PROVE  Cardinality({x \in s : Rank(B, s, x) < k}) = k
    <3>0. s # {}
      BY <2>2, FS_EmptySet
    <3>1. IsStrictOrder(B, s)
      BY DEF IsStrictOrder
    <3>2. PICK m \in s : \A y \in s \ {m} : <<y, m>> \in B
      BY <2>0, <3>0, <3>1, LastOne
    <3>3. IsFiniteSet(s \ {m}) /\ Cardinality(s \ {m}) = Cardinality(s) - 1
      BY <2>0, FS_RemoveElement
    <3>4. k \in 0..Cardinality(s \ {m})
      BY <2>0, <2>2, <3>3
    <3>5. \A x \in s \ {m} : Rank(B, s, x) = Rank(B, s \ {m}, x)
      <4> SUFFICES ASSUME NEW x \in s \ {m} PROVE Rank(B, s, x) = Rank(B, s \ {m}, x)
        OBVIOUS
      <4>1. <<m, x>> \notin B
        BY <3>2 DEF IsStrictOrder
      <4>2. {y \in s : <<y, x>> \in B} = {y \in s \ {m} : <<y, x>> \in B}
        BY <4>1
      <4> QED
        BY <4>2 DEF Rank
    <3>6. Rank(B, s, m) = Cardinality(s) - 1
      <4>1. {y \in s : <<y, m>> \in B} = s \ {m}
        BY <3>2 DEF IsStrictOrder
      <4> QED
        BY <3>3, <4>1 DEF Rank
    <3>7. {x \in s : Rank(B, s, x) < k} = {x \in s \ {m} : Rank(B, s \ {m}, x) < k}
      <4>1. ~(Rank(B, s, m) < k)
        BY <2>0, <2>2, <3>6
      <4> QED
        BY <3>5, <4>1
    <3>8. s \ {m} \in F
      BY <1>1
    <3> QED
      BY <3>4, <3>7, <3>8
  <2> QED
    BY <2>1, <2>2
<1> HIDE DEF F
<1>2. S \in F
  BY <1>1, SetInduction
<1> QED
  BY <1>2 DEF F
=============================================================================
