----------------------------- MODULE FiniteSums -----------------------------
(****************************************************************************)
(* What the accounting proofs need of sums over finite sets: the sum of the   *)
(* community modules (SumFunctionOnSet) is a natural number, depends only on   *)
(* the values it adds, and loses exactly f[y] when y is taken out, whatever    *)
(* order the fold picks the elements in.  The charges and reservations of the  *)
(* ledgers (admit_decision in ledger.rs, SUM(...) in pg_ledger.rs) are such    *)
(* sums.                                                                       *)
(*                                                                           *)
(* The fold is a CHOOSE of a function defined by its own equation.  That one   *)
(* exists is shown by induction on the size of the subsets; the inductions     *)
(* are over a set T of the numbers, or of the subsets, the claim holds for.    *)
(****************************************************************************)
EXTENDS Integers, FiniteSets, Functions, FiniteSetTheorems, WellFoundedInduction, TLAPS

(* Induction over the naturals, for a set: its least element outside T would  *)
(* be neither 0 nor a successor.                                              *)
LEMMA NatSetInduction ==
  ASSUME NEW T, 0 \in T, \A n \in Nat : n \in T => n + 1 \in T
  PROVE  \A n \in Nat : n \in T
<1> SUFFICES ASSUME Nat \ T # {} PROVE FALSE
  OBVIOUS
<1>1. PICK x \in Nat \ T : \A y \in Nat \ T : ~(<<y, x>> \in OpToRel(<, Nat))
  <2>1. Nat \ T \subseteq Nat
    OBVIOUS
  <2> QED
    BY <2>1, NatLessThanWellFounded, WFMin
<1>2. x # 0 /\ x - 1 \in Nat
  OBVIOUS
<1>3. <<x - 1, x>> \in OpToRel(<, Nat)
  BY <1>2 DEF OpToRel
<1>4. x - 1 \in T
  BY <1>1, <1>2, <1>3
<1> QED
  BY <1>2, <1>4

--------------------------------------------------------------------------------
(* The fold *)

(* The element the fold takes out of s next. *)
AnyOf(s) == CHOOSE x \in s : TRUE

(* The fold takes out an element that is there. *)
LEMMA AnyOfIn == ASSUME NEW s, s # {} PROVE AnyOf(s) \in s
  BY DEF AnyOf

(* g gives the fold of f over every set of D. *)
IsSumTable(f, g, D) == g = [s \in D |-> IF s = {} THEN 0 ELSE f[AnyOf(s)] + g[s \ {AnyOf(s)}]]

(* The fold of f over every subset of S, as the community modules choose it. *)
SumTable(f, S) == CHOOSE iter : IsSumTable(f, iter, SUBSET S)

(* The sum is the table's entry for the whole set. *)
LEMMA SumUnfold ==
  ASSUME NEW f, NEW S
  PROVE SumFunctionOnSet(f, S) = SumTable(f, S)[S]
  BY DEF SumFunctionOnSet, FoldFunctionOnSet, MapThenFoldSet, SumTable, IsSumTable, AnyOf

(* The subsets of S of at most n elements. *)
UpToSize(S, n) == {s \in SUBSET S : Cardinality(s) <= n}

(* A table exists for every finite set, so the chosen one is one: tables for   *)
(* the subsets of up to n elements extend to those of n + 1.                  *)
LEMMA SumTableExists ==
  ASSUME NEW f, NEW S, IsFiniteSet(S)
  PROVE  IsSumTable(f, SumTable(f, S), SUBSET S)
<1> DEFINE T == {n \in Nat : \E g : IsSumTable(f, g, UpToSize(S, n))}
<1>1. 0 \in T
  <2> DEFINE g == [s \in UpToSize(S, 0) |-> 0]
  <2>1. \A s \in UpToSize(S, 0) : s = {}
    BY FS_Subset, FS_EmptySet, FS_CardinalityType DEF UpToSize
  <2>2. g = [s \in UpToSize(S, 0) |-> IF s = {} THEN 0 ELSE f[AnyOf(s)] + g[s \ {AnyOf(s)}]]
    BY <2>1
  <2>3. IsSumTable(f, g, UpToSize(S, 0))
    BY <2>2 DEF IsSumTable
  <2> QED
    BY <2>3
<1>2. ASSUME NEW n \in Nat, n \in T PROVE n + 1 \in T
  <2>1. PICK g : IsSumTable(f, g, UpToSize(S, n))
    BY <1>2
  <2> DEFINE h == [s \in UpToSize(S, n + 1) |-> IF s = {} THEN 0 ELSE f[AnyOf(s)] + g[s \ {AnyOf(s)}]]
  <2>2. ASSUME NEW s \in UpToSize(S, n + 1), s # {}
        PROVE  s \ {AnyOf(s)} \in UpToSize(S, n)
    BY <2>2, AnyOfIn, FS_Subset, FS_RemoveElement, FS_CardinalityType DEF UpToSize
  <2>3. ASSUME NEW s \in UpToSize(S, n) PROVE s \in UpToSize(S, n + 1) /\ h[s] = g[s]
    <3>1. s \in UpToSize(S, n + 1)
      BY <2>3, FS_Subset, FS_CardinalityType DEF UpToSize
    <3>2. g[s] = IF s = {} THEN 0 ELSE f[AnyOf(s)] + g[s \ {AnyOf(s)}]
      BY <2>1, <2>3 DEF IsSumTable
    <3> QED
      BY <3>1, <3>2
  <2>4. h = [s \in UpToSize(S, n + 1) |-> IF s = {} THEN 0 ELSE f[AnyOf(s)] + h[s \ {AnyOf(s)}]]
    <3> SUFFICES ASSUME NEW s \in UpToSize(S, n + 1), s # {}
                 PROVE  g[s \ {AnyOf(s)}] = h[s \ {AnyOf(s)}]
      OBVIOUS
    <3> HIDE DEF h
    <3> QED
      BY <2>2, <2>3
  <2> HIDE DEF h
  <2>5. IsSumTable(f, h, UpToSize(S, n + 1))
    BY <2>4 DEF IsSumTable
  <2> QED
    BY <2>5
<1> HIDE DEF T
<1>3. Cardinality(S) \in Nat /\ Cardinality(S) \in T
  <2>1. \A n \in Nat : n \in T
    BY <1>1, <1>2, NatSetInduction
  <2> QED
    BY <2>1, FS_CardinalityType
<1>4. UpToSize(S, Cardinality(S)) = SUBSET S
  BY FS_Subset DEF UpToSize
<1>5. \E g : IsSumTable(f, g, SUBSET S)
  BY <1>3, <1>4 DEF T
<1> QED
  BY <1>5 DEF SumTable

(* What the table holds for the empty set, and for any other. *)
LEMMA SumTableStep ==
  ASSUME NEW f, NEW S, IsFiniteSet(S), NEW s \in SUBSET S
  PROVE  /\ s = {} => SumTable(f, S)[s] = 0
         /\ s # {} => /\ AnyOf(s) \in s
                      /\ SumTable(f, S)[s] = f[AnyOf(s)] + SumTable(f, S)[s \ {AnyOf(s)}]
<1>0. PICK g : g = SumTable(f, S)
  OBVIOUS
<1>a. IsSumTable(f, g, SUBSET S)
  BY <1>0, SumTableExists
<1>1. g = [t \in SUBSET S |-> IF t = {} THEN 0 ELSE f[AnyOf(t)] + g[t \ {AnyOf(t)}]]
  BY <1>a DEF IsSumTable
<1>2. g[s] = IF s = {} THEN 0 ELSE f[AnyOf(s)] + g[s \ {AnyOf(s)}]
  BY <1>1
<1> QED
  BY <1>0, <1>2, AnyOfIn

(* Induction over the subsets of a finite set: T has a set once it has every   *)
(* set with one element less.                                                 *)
LEMMA SubsetInduction ==
  ASSUME NEW S, IsFiniteSet(S), NEW T, {} \in T,
         \A s \in SUBSET S : s # {} /\ (\A x \in s : s \ {x} \in T) => s \in T
  PROVE  SUBSET S \subseteq T
<1> DEFINE N == {n \in Nat : \A s \in SUBSET S : Cardinality(s) = n => s \in T}
<1>1. 0 \in N
  BY FS_Subset, FS_EmptySet
<1>2. ASSUME NEW n \in Nat, n \in N PROVE n + 1 \in N
  <2> SUFFICES ASSUME NEW s \in SUBSET S, Cardinality(s) = n + 1 PROVE s \in T
    OBVIOUS
  <2>1. IsFiniteSet(s) /\ s # {}
    BY FS_Subset, FS_EmptySet
  <2>2. ASSUME NEW x \in s PROVE s \ {x} \in T
    <3>0. Cardinality(s \ {x}) = Cardinality(s) - 1
      BY <2>1, FS_RemoveElement
    <3>1. Cardinality(s \ {x}) = n /\ s \ {x} \in SUBSET S
      BY <3>0
    <3> QED
      BY <1>2, <3>1
  <2> QED
    BY <2>1, <2>2
<1> HIDE DEF N
<1>3. \A n \in Nat : n \in N
  BY <1>1, <1>2, NatSetInduction
<1> SUFFICES ASSUME NEW s \in SUBSET S PROVE s \in T
  OBVIOUS
<1>4. Cardinality(s) \in Nat
  BY FS_Subset, FS_CardinalityType
<1> QED
  BY <1>3, <1>4 DEF N

(* A sum of naturals is a natural. *)
LEMMA SumTableType ==
  ASSUME NEW f, NEW S, IsFiniteSet(S), \A x \in S : f[x] \in Nat
  PROVE  \A s \in SUBSET S : SumTable(f, S)[s] \in Nat
<1> DEFINE T == {s \in SUBSET S : SumTable(f, S)[s] \in Nat}
<1>1. {} \in T
  <2>1. {} \in SUBSET S
    OBVIOUS
  <2>2. SumTable(f, S)[{}] = 0
    BY <2>1, SumTableStep
  <2> QED
    BY <2>1, <2>2
<1>2. ASSUME NEW s \in SUBSET S, s # {}, \A x \in s : s \ {x} \in T PROVE s \in T
  <2>1. AnyOf(s) \in s /\ SumTable(f, S)[s] = f[AnyOf(s)] + SumTable(f, S)[s \ {AnyOf(s)}]
    BY <1>2, SumTableStep
  <2>2. SumTable(f, S)[s \ {AnyOf(s)}] \in Nat /\ f[AnyOf(s)] \in Nat
    BY <1>2, <2>1
  <2> QED
    BY <2>1, <2>2
<1> HIDE DEF T
<1>3. SUBSET S \subseteq T
  BY <1>1, <1>2, SubsetInduction
<1> QED
  BY <1>3 DEF T

(* Any element may be taken out first, not only the one the fold takes: the    *)
(* sum does not depend on an order.                                           *)
LEMMA SumTableRemove ==
  ASSUME NEW f, NEW S, IsFiniteSet(S), \A x \in S : f[x] \in Nat
  PROVE  \A s \in SUBSET S : \A y \in s : SumTable(f, S)[s] = f[y] + SumTable(f, S)[s \ {y}]
<1>g. PICK g : g = SumTable(f, S)
  OBVIOUS
<1> DEFINE T == {s \in SUBSET S : \A y \in s : g[s] = f[y] + g[s \ {y}]}
<1>0. \A s \in SUBSET S : g[s] \in Nat
  BY <1>g, SumTableType
<1>1. {} \in T
  OBVIOUS
<1>2. ASSUME NEW s \in SUBSET S, s # {}, \A x \in s : s \ {x} \in T PROVE s \in T
  <2> SUFFICES ASSUME NEW y \in s PROVE g[s] = f[y] + g[s \ {y}]
    OBVIOUS
  <2>0. PICK x : x = AnyOf(s)
    OBVIOUS
  <2>1. x \in s /\ g[s] = f[x] + g[s \ {x}]
    BY <1>2, <1>g, <2>0, SumTableStep
  <2>2. CASE x = y
    BY <2>1, <2>2
  <2>3. CASE x # y
    <3>1. g[s \ {x}] = f[y] + g[(s \ {x}) \ {y}]
      BY <1>2, <2>1, <2>3
    <3>2. g[s \ {y}] = f[x] + g[(s \ {y}) \ {x}]
      BY <1>2, <2>1, <2>3
    <3>3. (s \ {x}) \ {y} = (s \ {y}) \ {x}
      OBVIOUS
    <3>4. f[x] \in Nat /\ f[y] \in Nat /\ g[(s \ {x}) \ {y}] \in Nat
      BY <1>0, <2>1
    <3>5. \A a, b, c \in Nat : a + (b + c) = b + (a + c)
      OBVIOUS
    <3>6. f[x] + (f[y] + g[(s \ {x}) \ {y}]) = f[y] + (f[x] + g[(s \ {x}) \ {y}])
      BY <3>4, <3>5
    <3> QED
      BY <2>1, <3>1, <3>2, <3>3, <3>6
  <2> QED
    BY <2>2, <2>3
<1> HIDE DEF T
<1>3. SUBSET S \subseteq T
  BY <1>1, <1>2, SubsetInduction
<1> QED
  BY <1>g, <1>3 DEF T

(* The sum over a set does not depend on the larger set its table is for. *)
LEMMA SumTableSame ==
  ASSUME NEW f, NEW g, NEW S, NEW R, IsFiniteSet(S), IsFiniteSet(R), R \subseteq S,
         \A x \in R : f[x] = g[x]
  PROVE  \A s \in SUBSET R : SumTable(f, S)[s] = SumTable(g, R)[s]
<1> DEFINE T == {s \in SUBSET R : SumTable(f, S)[s] = SumTable(g, R)[s]}
<1>1. {} \in T
  BY SumTableStep
<1>2. ASSUME NEW s \in SUBSET R, s # {}, \A x \in s : s \ {x} \in T PROVE s \in T
  <2>1. /\ AnyOf(s) \in s
        /\ SumTable(f, S)[s] = f[AnyOf(s)] + SumTable(f, S)[s \ {AnyOf(s)}]
    BY <1>2, SumTableStep
  <2>2. SumTable(g, R)[s] = g[AnyOf(s)] + SumTable(g, R)[s \ {AnyOf(s)}]
    BY <1>2, SumTableStep
  <2>3. f[AnyOf(s)] = g[AnyOf(s)] /\ SumTable(f, S)[s \ {AnyOf(s)}] = SumTable(g, R)[s \ {AnyOf(s)}]
    BY <1>2, <2>1
  <2> QED
    BY <2>1, <2>2, <2>3
<1> HIDE DEF T
<1>3. SUBSET R \subseteq T
  BY <1>1, <1>2, SubsetInduction
<1> QED
  BY <1>3 DEF T

--------------------------------------------------------------------------------
(* Sums *)

(* No charge, no sum. *)
THEOREM SumEmpty == ASSUME NEW f PROVE SumFunctionOnSet(f, {}) = 0
  BY SumUnfold, SumTableStep, FS_EmptySet

(* A sum of naturals is a natural. *)
THEOREM SumNat ==
  ASSUME NEW f, NEW S, IsFiniteSet(S), \A x \in S : f[x] \in Nat
  PROVE  SumFunctionOnSet(f, S) \in Nat
  BY SumUnfold, SumTableType

(* The sum depends on the values of the function on the set only. *)
THEOREM SumSame ==
  ASSUME NEW f, NEW g, NEW S, IsFiniteSet(S), \A x \in S : f[x] = g[x]
  PROVE  SumFunctionOnSet(f, S) = SumFunctionOnSet(g, S)
  BY SumUnfold, SumTableSame

(* An element taken out lowers the sum by its value: an active lease that ends *)
(* gives back what it had reserved.                                           *)
THEOREM SumRemove ==
  ASSUME NEW f, NEW S, IsFiniteSet(S), \A x \in S : f[x] \in Nat, NEW y \in S
  PROVE  SumFunctionOnSet(f, S) = f[y] + SumFunctionOnSet(f, S \ {y})
<1>1. SumTable(f, S)[S] = f[y] + SumTable(f, S)[S \ {y}]
  BY SumTableRemove
<1>2. IsFiniteSet(S \ {y}) /\ S \ {y} \subseteq S
  BY FS_RemoveElement
<1>3. SumTable(f, S)[S \ {y}] = SumTable(f, S \ {y})[S \ {y}]
  BY <1>2, SumTableSame
<1> QED
  BY <1>1, <1>3, SumUnfold

(* A change of one value changes the sum by the difference: a charge written   *)
(* to one row raises the total by that charge.                                *)
THEOREM SumUpdate ==
  ASSUME NEW f, NEW g, NEW S, IsFiniteSet(S), \A x \in S : f[x] \in Nat /\ g[x] \in Nat,
         NEW y \in S, \A x \in S \ {y} : g[x] = f[x]
  PROVE  SumFunctionOnSet(g, S) + f[y] = SumFunctionOnSet(f, S) + g[y]
<1> DEFINE r == SumFunctionOnSet(f, S \ {y})
<1>1. SumFunctionOnSet(f, S) = f[y] + r
  BY SumRemove
<1>2. SumFunctionOnSet(g, S) = g[y] + SumFunctionOnSet(g, S \ {y})
  BY SumRemove
<1>3. IsFiniteSet(S \ {y})
  BY FS_RemoveElement
<1>4. SumFunctionOnSet(g, S \ {y}) = r
  BY <1>3, SumSame
<1>5. r \in Nat
  BY <1>3, SumNat
<1> HIDE DEF r
<1>6. f[y] \in Nat /\ g[y] \in Nat
  OBVIOUS
<1> QED
  BY <1>1, <1>2, <1>4, <1>5, <1>6

(* A sum over fewer elements is no larger: rows that leave reserve no more.    *)
THEOREM SumSubset ==
  ASSUME NEW f, NEW S, NEW R, IsFiniteSet(S), R \subseteq S, \A x \in S : f[x] \in Nat
  PROVE  SumFunctionOnSet(f, R) <= SumFunctionOnSet(f, S)
<1> DEFINE T == {s \in SUBSET (S \ R) : SumFunctionOnSet(f, R) <= SumFunctionOnSet(f, R \cup s)}
<1>1. IsFiniteSet(R) /\ IsFiniteSet(S \ R)
  BY FS_Subset
<1>2. SumFunctionOnSet(f, R) \in Nat
  BY <1>1, SumNat
<1>3. {} \in T
  <2>1. R \cup {} = R
    OBVIOUS
  <2> QED
    BY <1>2, <2>1
<1>4. ASSUME NEW s \in SUBSET (S \ R), s # {}, \A x \in s : s \ {x} \in T PROVE s \in T
  <2>1. PICK x : x \in s
    BY <1>4
  <2>2. (R \cup s) \ {x} = R \cup (s \ {x})
    BY <2>1
  <2>3. IsFiniteSet(R \cup s) /\ IsFiniteSet(R \cup (s \ {x}))
    BY FS_Subset
  <2>4. SumFunctionOnSet(f, R \cup s) = f[x] + SumFunctionOnSet(f, (R \cup s) \ {x})
    BY <2>1, <2>3, SumRemove
  <2>5. f[x] \in Nat /\ SumFunctionOnSet(f, R \cup (s \ {x})) \in Nat
    BY <2>1, <2>3, SumNat
  <2>6. SumFunctionOnSet(f, R) <= SumFunctionOnSet(f, R \cup (s \ {x}))
    BY <1>4, <2>1
  <2>7. SumFunctionOnSet(f, R) <= SumFunctionOnSet(f, R \cup s)
    BY <1>2, <2>2, <2>4, <2>5, <2>6
  <2> QED
    BY <2>7
<1> HIDE DEF T
<1>5. SUBSET (S \ R) \subseteq T
  BY <1>1, <1>3, <1>4, SubsetInduction
<1>6. R \cup (S \ R) = S /\ S \ R \in T
  BY <1>5
<1> QED
  BY <1>6 DEF T

(* Nothing but zeros adds up to zero. *)
THEOREM SumZero ==
  ASSUME NEW f, NEW S, IsFiniteSet(S), \A x \in S : f[x] = 0
  PROVE  SumFunctionOnSet(f, S) = 0
<1> DEFINE T == {s \in SUBSET S : SumTable(f, S)[s] = 0}
<1>1. {} \in T
  <2>1. {} \in SUBSET S
    OBVIOUS
  <2>2. SumTable(f, S)[{}] = 0
    BY <2>1, SumTableStep
  <2> QED
    BY <2>1, <2>2
<1>2. ASSUME NEW s \in SUBSET S, s # {}, \A x \in s : s \ {x} \in T PROVE s \in T
  <2>1. AnyOf(s) \in s /\ SumTable(f, S)[s] = f[AnyOf(s)] + SumTable(f, S)[s \ {AnyOf(s)}]
    BY <1>2, SumTableStep
  <2>2. SumTable(f, S)[s \ {AnyOf(s)}] = 0 /\ f[AnyOf(s)] = 0
    BY <1>2, <2>1
  <2> QED
    BY <2>1, <2>2
<1> HIDE DEF T
<1>3. SUBSET S \subseteq T
  BY <1>1, <1>2, SubsetInduction
<1>4. SumTable(f, S)[S] = 0
  BY <1>3 DEF T
<1> QED
  BY <1>4, SumUnfold
=============================================================================
