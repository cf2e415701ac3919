-------------------------- MODULE Induction_proofs --------------------------
(***************************************************************************)
(* Induction over data: lemmas about sets instead of predicates, so that   *)
(* they can be instantiated, and what they say of the two recursive        *)
(* definitions the models use.                                             *)
(***************************************************************************)
EXTENDS Integers, Sequences, FiniteSets, FiniteSetsExt, WellFoundedInduction, FiniteSetTheorems, TLAPS

\* Induction over the naturals.
LEMMA NatSetInduction ==
  ASSUME NEW S, 0 \in S, \A n \in Nat : n \in S => n + 1 \in S
  PROVE  Nat \subseteq S
<1> DEFINE T == Nat \ S
<1> SUFFICES ASSUME T # {} PROVE FALSE
  OBVIOUS
<1>1. IsWellFoundedOn(OpToRel(<, Nat), Nat)
  BY NatLessThanWellFounded
<1>2. PICK n \in T : \A m \in T : ~ (<<m, n>> \in OpToRel(<, Nat))
  BY <1>1, WFMin
<1>3. n \in Nat /\ n # 0 /\ n - 1 \in Nat
  OBVIOUS
<1>4. n - 1 \in T
  BY <1>3
<1>5. <<n - 1, n>> \in OpToRel(<, Nat)
  BY <1>3 DEF OpToRel
<1> QED
  BY <1>2, <1>4, <1>5

\* Induction over the subsets of a finite set: what holds of a set whenever
\* it holds of all its proper subsets holds of every subset.
LEMMA SubsetInduction ==
  ASSUME NEW S, IsFiniteSet(S), NEW T,
         \A s \in SUBSET S : (\A t \in SUBSET s : t # s => t \in T) => s \in T
  PROVE  SUBSET S \subseteq T
<1> DEFINE U == (SUBSET S) \ T
<1> SUFFICES ASSUME U # {} PROVE FALSE
  OBVIOUS
<1>1. IsWellFoundedOn(StrictSubsetOrdering(S), SUBSET S)
  <2>1. FiniteSubsetsOf(S) = SUBSET S
    BY FS_FiniteSubsetsOfFinite
  <2>2. IsWellFoundedOn(StrictSubsetOrdering(S), FiniteSubsetsOf(S))
    BY FS_StrictSubsetOrderingWellFounded
  <2> QED
    BY <2>1, <2>2
<1>2. U \subseteq SUBSET S
  OBVIOUS
<1> HIDE DEF U
<1>3. PICK s \in U : \A t \in U : ~ (<<t, s>> \in StrictSubsetOrdering(S))
  BY <1>1, <1>2, WFMin
<1>4. \A t \in SUBSET s : t # s => <<t, s>> \in StrictSubsetOrdering(S)
  BY <1>2 DEF StrictSubsetOrdering
<1>5. ASSUME NEW t \in SUBSET s, t # s PROVE t \in T
  <2>1. t \notin U
    BY <1>3, <1>4, <1>5
  <2>2. t \in SUBSET S
    BY <1>2
  <2> QED
    BY <2>1, <2>2 DEF U
<1> QED
  BY <1>5 DEF U

-----------------------------------------------------------------------------
(* The sum of the costs of a finite set, as the community modules' fold    *)
(* computes it.                                                            *)

\* The total the runtime promises for the calls of a run.
TotalCost(S) == MapThenSumSet(LAMBDA c : c.cost, S)

\* The element the fold takes first.
Chosen(s) == CHOOSE x \in s : TRUE

\* One step of the fold, where f is the fold of every smaller set.
FoldStep(f, s) == IF s = {} THEN 0 ELSE Chosen(s).cost + f[s \ {Chosen(s)}]

\* The recursive function the fold evaluates, on the subsets of S.
Folded(S) == CHOOSE f : f = [s \in SUBSET S |-> FoldStep(f, s)]

\* The library's fold is the function Folded, applied to the whole set.
LEMMA TotalIsFolded == ASSUME NEW S PROVE TotalCost(S) = Folded(S)[S]
BY DEF TotalCost, Folded, FoldStep, Chosen, MapThenSumSet, MapThenFoldSet

\* f is that function on the sets in D.
FoldsOn(f, D) == f = [s \in D |-> FoldStep(f, s)]

\* The subsets of S with at most n elements.
Small(S, n) == {s \in SUBSET S : Cardinality(s) <= n}

\* The recursive equation has a solution on the subsets of a finite set.
LEMMA FoldedExists ==
  ASSUME NEW S, IsFiniteSet(S)
  PROVE  Folded(S) = [s \in SUBSET S |-> FoldStep(Folded(S), s)]
<1> DEFINE T == {n \in Nat : \E f : FoldsOn(f, Small(S, n))}
<1>0. \A s \in SUBSET S : IsFiniteSet(s) /\ Cardinality(s) \in Nat
  BY FS_Subset, FS_CardinalityType
<1>1. \A s \in SUBSET S : s # {} =>
        Chosen(s) \in s /\ s \ {Chosen(s)} \in SUBSET S
        /\ Cardinality(s \ {Chosen(s)}) = Cardinality(s) - 1
  BY <1>0, FS_RemoveElement DEF Chosen
<1>2. 0 \in T
  <2>1. Small(S, 0) = {{}}
    BY <1>0, FS_EmptySet DEF Small
  <2> DEFINE f == [s \in {{}} |-> 0]
  <2>2. FoldsOn(f, Small(S, 0))
    BY <2>1 DEF FoldStep, FoldsOn
  <2> QED
    BY <2>2
<1>3. ASSUME NEW n \in Nat, n \in T PROVE n + 1 \in T
  <2>1. PICK f : FoldsOn(f, Small(S, n))
    BY <1>3
  <2> DEFINE g == [s \in Small(S, n + 1) |-> FoldStep(f, s)]
  <2>2. \A s \in Small(S, n) : s \in Small(S, n + 1) /\ g[s] = f[s]
    BY <1>0, <2>1 DEF FoldsOn, Small
  <2>3. \A s \in Small(S, n + 1) : s # {} => s \ {Chosen(s)} \in Small(S, n)
    BY <1>0, <1>1 DEF Small
  <2>4. \A s \in Small(S, n + 1) : FoldStep(f, s) = FoldStep(g, s)
    BY <2>2, <2>3 DEF FoldStep
  <2>5. FoldsOn(g, Small(S, n + 1))
    BY <2>4 DEF FoldsOn
  <2> HIDE DEF g
  <2>6. \E h : FoldsOn(h, Small(S, n + 1))
    BY <2>5
  <2> QED
    BY <2>6
<1> HIDE DEF T
<1>4. Cardinality(S) \in T
  BY <1>0, <1>2, <1>3, NatSetInduction
<1>5. Small(S, Cardinality(S)) = SUBSET S
  BY <1>0, FS_Subset DEF Small
<1>6. \E f : FoldsOn(f, SUBSET S)
  BY <1>4, <1>5 DEF T
<1> QED
  BY <1>6 DEF Folded, FoldsOn

\* The fold of a set of non-negative costs is a natural number.
LEMMA FoldedType ==
  ASSUME NEW S, IsFiniteSet(S), \A c \in S : c.cost \in Nat
  PROVE  \A s \in SUBSET S : Folded(S)[s] \in Nat
<1> DEFINE T == {s \in SUBSET S : Folded(S)[s] \in Nat}
<1>1. ASSUME NEW s \in SUBSET S, \A t \in SUBSET s : t # s => t \in T
      PROVE  s \in T
  <2>1. Folded(S)[s] = FoldStep(Folded(S), s)
    BY FoldedExists
  <2>2. CASE s = {}
    BY <2>1, <2>2 DEF FoldStep
  <2>3. CASE s # {}
    <3>1. Chosen(s) \in s
      BY <2>3 DEF Chosen
    <3>2. s \ {Chosen(s)} \in T /\ Chosen(s).cost \in Nat
      BY <1>1, <3>1
    <3> QED
      BY <2>1, <2>3, <3>2 DEF FoldStep
  <2> QED
    BY <2>2, <2>3
<1> HIDE DEF T
<1>2. SUBSET S \subseteq T
  BY <1>1, SubsetInduction
<1> QED
  BY <1>2 DEF T

\* The order in which the fold takes the elements does not matter.
LEMMA FoldedAnyOrder ==
  ASSUME NEW S, IsFiniteSet(S), \A c \in S : c.cost \in Nat
  PROVE  \A s \in SUBSET S : \A x \in s : Folded(S)[s] = x.cost + Folded(S)[s \ {x}]
<1> DEFINE F == Folded(S)
           T == {s \in SUBSET S : \A x \in s : F[s] = x.cost + F[s \ {x}]}
<1>1. ASSUME NEW s \in SUBSET S, \A t \in SUBSET s : t # s => t \in T
      PROVE  s \in T
  <2> SUFFICES ASSUME NEW x \in s PROVE F[s] = x.cost + F[s \ {x}]
    OBVIOUS
  <2> DEFINE y == Chosen(s)
  <2>1. y \in s
    BY DEF Chosen
  <2>2. F[s] = y.cost + F[s \ {y}]
    <3>1. F[s] = FoldStep(F, s)
      BY FoldedExists
    <3> QED
      BY <2>1, <3>1 DEF FoldStep
  <2>3. CASE x = y
    BY <2>2, <2>3
  <2>4. CASE x # y
    <3>1. s \ {x} \in T /\ s \ {y} \in T /\ x \in s \ {y} /\ y \in s \ {x}
      BY <1>1, <2>1, <2>4
    <3>2. /\ F[s \ {y}] = x.cost + F[(s \ {y}) \ {x}]
          /\ F[s \ {x}] = y.cost + F[(s \ {x}) \ {y}]
      BY <3>1
    <3>3. (s \ {y}) \ {x} = (s \ {x}) \ {y} /\ (s \ {y}) \ {x} \in SUBSET S
      OBVIOUS
    <3>4. F[(s \ {y}) \ {x}] \in Nat /\ x.cost \in Nat /\ y.cost \in Nat
      BY <2>1, <3>3, FoldedType
    <3>5. F[(s \ {x}) \ {y}] = F[(s \ {y}) \ {x}]
      BY <3>3
    <3>6. PICK n \in Nat, i \in Nat, j \in Nat :
            n = F[(s \ {y}) \ {x}] /\ i = x.cost /\ j = y.cost
      BY <3>4
    <3>7. F[s] = j + (i + n) /\ F[s \ {x}] = j + n /\ x.cost = i
      BY <2>2, <3>2, <3>5, <3>6
    <3> QED
      BY <3>7
  <2> QED
    BY <2>3, <2>4
<1> HIDE DEF T
<1>2. SUBSET S \subseteq T
  BY <1>1, SubsetInduction
<1> QED
  BY <1>2 DEF T

\* Nor does the set it is a part of.
LEMMA FoldedAgree ==
  ASSUME NEW S, NEW R \in SUBSET S, IsFiniteSet(S)
  PROVE  Folded(R)[R] = Folded(S)[R]
<1>0. IsFiniteSet(R)
  BY FS_Subset
<1> DEFINE T == {s \in SUBSET R : Folded(R)[s] = Folded(S)[s]}
<1>1. ASSUME NEW s \in SUBSET R, \A t \in SUBSET s : t # s => t \in T
      PROVE  s \in T
  <2>1. Folded(R)[s] = FoldStep(Folded(R), s)
    BY <1>0, FoldedExists
  <2>2. Folded(S)[s] = FoldStep(Folded(S), s)
    <3>1. s \in SUBSET S
      OBVIOUS
    <3> QED
      BY <3>1, FoldedExists
  <2>3. s # {} => s \ {Chosen(s)} \in T
    BY <1>1 DEF Chosen
  <2> QED
    BY <2>1, <2>2, <2>3 DEF FoldStep
<1> HIDE DEF T
<1>2. SUBSET R \subseteq T
  BY <1>0, <1>1, SubsetInduction
<1>3. R \in SUBSET R
  OBVIOUS
<1> QED
  BY <1>2, <1>3 DEF T

\* The total of nothing is 0.
LEMMA TotalEmpty == TotalCost({}) = 0
<1>1. Folded({}) = [s \in SUBSET {} |-> FoldStep(Folded({}), s)]
  BY FoldedExists, FS_EmptySet
<1>2. {} \in SUBSET {}
  OBVIOUS
<1>3. Folded({})[{}] = FoldStep(Folded({}), {})
  BY <1>1, <1>2
<1> QED
  BY <1>3, TotalIsFolded DEF FoldStep

\* A new element adds its own cost.
LEMMA TotalAdd ==
  ASSUME NEW S, NEW x, IsFiniteSet(S), x \notin S,
         \A c \in S \cup {x} : c.cost \in Nat
  PROVE  /\ IsFiniteSet(S \cup {x})
         /\ TotalCost(S) \in Nat
         /\ TotalCost(S \cup {x}) = TotalCost(S) + x.cost
<1> DEFINE U == S \cup {x}
<1>1. IsFiniteSet(U)
  BY FS_AddElement
<1>2. TotalCost(S) \in Nat
  BY TotalIsFolded, FoldedType
<1>3. Folded(U)[U] = x.cost + Folded(U)[U \ {x}]
  BY <1>1, FoldedAnyOrder
<1>4. U \ {x} = S /\ S \in SUBSET U
  OBVIOUS
<1>5. Folded(S)[S] = Folded(U)[S]
  BY <1>1, <1>4, FoldedAgree
<1>6. TotalCost(U) = x.cost + TotalCost(S)
  BY <1>3, <1>4, <1>5, TotalIsFolded
<1> QED
  BY <1>1, <1>2, <1>6

-----------------------------------------------------------------------------
(* Texts put together piece by piece, each behind a separator.             *)

\* b, and behind it the first n pieces, for every n up to N.
Joins(f, b, glue, piece, N) ==
  f = [n \in 0..N |-> IF n = 0 THEN b ELSE f[n - 1] \o glue \o piece[n]]

\* The recursive equation has a solution.
LEMMA JoinExists ==
  ASSUME NEW b, NEW glue, NEW piece, NEW N \in Nat
  PROVE  \E f : Joins(f, b, glue, piece, N)
<1> DEFINE T == {m \in Nat : \E f : Joins(f, b, glue, piece, m)}
<1>1. 0 \in T
  <2> DEFINE f == [n \in 0..0 |-> b]
  <2>1. Joins(f, b, glue, piece, 0)
    BY DEF Joins
  <2> QED
    BY <2>1
<1>2. ASSUME NEW m \in Nat, m \in T PROVE m + 1 \in T
  <2>1. PICK f : Joins(f, b, glue, piece, m)
    BY <1>2
  <2> DEFINE g == [n \in 0..(m + 1) |-> IF n = 0 THEN b ELSE f[n - 1] \o glue \o piece[n]]
  <2>2. ASSUME NEW n \in 0..m PROVE g[n] = f[n]
    <3>1. n \in 0..(m + 1)
      OBVIOUS
    <3>2. f[n] = IF n = 0 THEN b ELSE f[n - 1] \o glue \o piece[n]
      BY <2>1 DEF Joins
    <3> QED
      BY <3>1, <3>2
  <2>3. Joins(g, b, glue, piece, m + 1)
    <3>1. \A n \in 0..(m + 1) : n # 0 => n - 1 \in 0..m
      OBVIOUS
    <3>2. \A n \in 0..(m + 1) : n # 0 => g[n - 1] = f[n - 1]
      BY <2>2, <3>1
    <3> QED
      BY <3>2 DEF Joins
  <2> HIDE DEF g
  <2>4. \E h : Joins(h, b, glue, piece, m + 1)
    BY <2>3
  <2> QED
    BY <2>4
<1> HIDE DEF T
<1>3. N \in T
  BY <1>1, <1>2, NatSetInduction
<1> QED
  BY <1>3 DEF T

\* X is A, a separator, and P.
Split(X, A, sep, P) ==
  /\ Len(X) = Len(A) + 1 + Len(P)
  /\ \A i \in 1..Len(A) : X[i] = A[i]
  /\ X[Len(A) + 1] = sep
  /\ \A i \in 1..Len(P) : X[Len(A) + 1 + i] = P[i]

\* A text that is appended behind a separator splits there.
LEMMA JoinSplits ==
  ASSUME NEW T, NEW sep \in T, NEW A \in Seq(T), NEW P \in Seq(T)
  PROVE  Split((A \o <<sep>>) \o P, A, sep, P)
  BY DEF Split

\* If no separator follows it, a separator is not in front of another one.
LEMMA NotBefore ==
  ASSUME NEW T, NEW sep, NEW A \in Seq(T), NEW B \in Seq(T),
         NEW P \in Seq(T), NEW Q \in Seq(T), NEW X,
         Split(X, A, sep, P), Split(X, B, sep, Q),
         \A i \in 1..Len(P) : P[i] # sep
  PROVE  Len(B) <= Len(A)
<1> SUFFICES ASSUME Len(A) < Len(B) PROVE FALSE
  OBVIOUS
<1>1. PICK a \in Nat, b \in Nat, n \in Nat, m \in Nat :
        a = Len(A) /\ b = Len(B) /\ n = Len(P) /\ m = Len(Q)
  OBVIOUS
<1>2. a + 1 + n = b + 1 + m /\ a < b
  BY <1>1 DEF Split
<1>3. b - a \in 1..n /\ a + 1 + (b - a) = b + 1
  BY <1>2
<1>4. X[b + 1] = P[b - a]
  BY <1>1, <1>3 DEF Split
<1>5. X[b + 1] = sep
  BY <1>1 DEF Split
<1> QED
  BY <1>1, <1>3, <1>4, <1>5

\* Texts of one length with the same elements are one text.
LEMMA SameText ==
  ASSUME NEW T, NEW A \in Seq(T), NEW B \in Seq(T),
         Len(A) = Len(B), \A i \in 1..Len(A) : A[i] = B[i]
  PROVE  A = B
<1>1. A \in [1..Len(A) -> T] /\ B \in [1..Len(A) -> T]
  OBVIOUS
<1> QED
  BY <1>1

\* A text is split in one way only behind its last separator.
LEMMA LastSplit ==
  ASSUME NEW T, NEW sep, NEW A \in Seq(T), NEW B \in Seq(T),
         NEW P \in Seq(T), NEW Q \in Seq(T), NEW X,
         Split(X, A, sep, P), Split(X, B, sep, Q),
         \A i \in 1..Len(P) : P[i] # sep, \A i \in 1..Len(Q) : Q[i] # sep
  PROVE  A = B /\ P = Q
<1>1. Len(A) = Len(B)
  <2>1. Len(B) <= Len(A) /\ Len(A) <= Len(B)
    BY NotBefore
  <2> QED
    BY <2>1
<1>2. Len(P) = Len(Q)
  BY <1>1 DEF Split
<1>3. \A i \in 1..Len(A) : A[i] = B[i]
  BY <1>1 DEF Split
<1>4. \A i \in 1..Len(P) : P[i] = Q[i]
  BY <1>1, <1>2 DEF Split
<1>5. A = B
  BY <1>1, <1>3, SameText
<1>6. P = Q
  BY <1>2, <1>4, SameText
<1> QED
  BY <1>5, <1>6
=============================================================================
