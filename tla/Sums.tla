--------------------------------- MODULE Sums ---------------------------------
(***************************************************************************)
(* What the proofs need to know of sums over finite sets: SumFunction and  *)
(* SumFunctionOnSet of the community module Functions, also over the        *)
(* elements of a sequence.                                                 *)
(*                                                                         *)
(* Both are folds, that is, recursive functions on the subsets of the set  *)
(* that is summed.  Induction on numbers is used in the form of            *)
(* NatSetInduction: a set of numbers that has 0 and every successor is Nat.*)
(***************************************************************************)
EXTENDS Integers, Sequences, Functions, FiniteSetTheorems, WellFoundedInduction, TLAPS

LEMMA NatSetInduction ==
    ASSUME NEW T, T \subseteq Nat, 0 \in T, \A n \in T : n + 1 \in T
    PROVE  T = Nat
<1> DEFINE R == OpToRel(<, Nat)
           U == Nat \ T
<1>1. SUFFICES ASSUME U # {} PROVE FALSE
  OBVIOUS
<1>2. PICK m \in U : \A n \in U : <<n, m>> \notin R
  <2>1. IsWellFoundedOn(R, Nat)
    BY NatLessThanWellFounded
  <2> HIDE DEF R
  <2>2. QED
    BY <1>1, <2>1, WFMin
<1>3. m \in Nat /\ m # 0 /\ m \notin T
  OBVIOUS
<1>4. m - 1 \in Nat /\ m - 1 < m
  BY <1>3
<1>5. <<m - 1, m>> \in R
  BY <1>3, <1>4 DEF OpToRel
<1>6. m - 1 \in T
  BY <1>2, <1>4, <1>5
<1>7. QED
  BY <1>3, <1>4, <1>6

-----------------------------------------------------------------------------
(***************************************************************************)
(* The recursive function behind a sum.                                    *)
(***************************************************************************)
Chosen(s) == CHOOSE x \in s : TRUE

Folded(f, g, s) == IF s = {} THEN 0 ELSE f[Chosen(s)] + g[s \ {Chosen(s)}]

FoldsUp(f, g, S) == g = [s \in SUBSET S |-> Folded(f, g, s)]

Small(S, n) == {s \in SUBSET S : Cardinality(s) <= n}

LEMMA ChosenIn ==
    ASSUME NEW s, s # {}
    PROVE  Chosen(s) \in s
BY DEF Chosen

LEMMA SmallerLeft ==
    ASSUME NEW S, IsFiniteSet(S), NEW n \in Nat, NEW s \in Small(S, n + 1), s # {}
    PROVE  s \ {Chosen(s)} \in Small(S, n)
<1>1. s \in SUBSET S /\ Cardinality(s) <= n + 1
  BY DEF Small
<1>2. IsFiniteSet(s) /\ Cardinality(s) \in Nat
  BY <1>1, FS_Subset, FS_CardinalityType
<1>3. Cardinality(s \ {Chosen(s)}) = Cardinality(s) - 1
  BY <1>2, ChosenIn, FS_RemoveElement
<1>4. QED
  BY <1>1, <1>2, <1>3 DEF Small

LEMMA SmallAll ==
    ASSUME NEW S, IsFiniteSet(S)
    PROVE  /\ Cardinality(S) \in Nat
           /\ Small(S, Cardinality(S)) = SUBSET S
           /\ Small(S, 0) = {{}}
<1>1. Cardinality(S) \in Nat
  BY FS_CardinalityType
<1>2. Small(S, Cardinality(S)) = SUBSET S
  BY FS_Subset DEF Small
<1>3. \A s \in SUBSET S : IsFiniteSet(s) /\ Cardinality(s) \in Nat
  BY FS_Subset, FS_CardinalityType
<1>4. \A s \in SUBSET S : Cardinality(s) <= 0 <=> s = {}
  BY <1>3, FS_EmptySet
<1>5. Small(S, 0) = {{}}
  BY <1>4 DEF Small
<1>6. QED
  BY <1>1, <1>2, <1>5

LEMMA FoldExists ==
    ASSUME NEW f, NEW S, IsFiniteSet(S)
    PROVE  \E g : FoldsUp(f, g, S)
<1> DEFINE Upto(n, g) == g = [s \in Small(S, n) |-> Folded(f, g, s)]
           T == {n \in Nat : \E g : Upto(n, g)}
<1>1. 0 \in T
  <2> DEFINE g == [s \in Small(S, 0) |-> 0]
  <2>1. g = [s \in Small(S, 0) |-> Folded(f, g, s)]
    BY SmallAll DEF Folded
  <2>2. QED
    BY <2>1
<1>2. ASSUME NEW n \in T
      PROVE  n + 1 \in T
  <2>1. PICK g : Upto(n, g)
    BY <1>2
  <2> DEFINE h == [s \in Small(S, n + 1) |-> Folded(f, g, s)]
  <2>2. n \in Nat
    BY <1>2
  <2>3. \A s \in Small(S, n + 1) : Folded(f, h, s) = Folded(f, g, s)
    <3> TAKE s \in Small(S, n + 1)
    <3>1. CASE s = {}
      BY <3>1 DEF Folded
    <3>2. CASE s # {}
      <4> DEFINE r == s \ {Chosen(s)}
      <4>1. r \in Small(S, n)
        BY <2>2, <3>2, SmallerLeft
      <4>2. Small(S, n) \subseteq Small(S, n + 1)
        <5>1. \A t \in SUBSET S : Cardinality(t) \in Nat
          BY FS_Subset, FS_CardinalityType
        <5>2. QED
          BY <2>2, <5>1 DEF Small
      <4>3. h[r] = Folded(f, g, r)
        BY <4>1, <4>2
      <4>4. g[r] = Folded(f, g, r)
        BY <2>1, <4>1
      <4>5. h[r] = g[r]
        BY <4>3, <4>4
      <4> HIDE DEF h
      <4>6. QED
        BY <3>2, <4>5 DEF Folded
    <3>3. QED
      BY <3>1, <3>2
  <2>4. Upto(n + 1, h)
    BY <2>3
  <2> HIDE DEF h, Upto
  <2>5. \E k : Upto(n + 1, k)
    BY <2>4
  <2>6. QED
    BY <2>2, <2>5
<1> HIDE DEF Upto
<1>3. T = Nat
  BY <1>1, <1>2, NatSetInduction
<1>4. PICK g : Upto(Cardinality(S), g)
  BY <1>3, SmallAll
<1>5. QED
  BY <1>4, SmallAll DEF FoldsUp, Upto

\* What a sum folds up, it folds up in the same way from another set.
LEMMA FoldSame ==
    ASSUME NEW S, IsFiniteSet(S), NEW R, NEW f, NEW e, NEW g, NEW h,
           FoldsUp(f, g, S), FoldsUp(e, h, R),
           S \subseteq R, \A x \in S : f[x] = e[x]
    PROVE  \A s \in SUBSET S : g[s] = h[s]
<1> DEFINE Same(n) == \A s \in Small(S, n) : g[s] = h[s]
           T == {n \in Nat : Same(n)}
<1>1. \A s \in SUBSET S : g[s] = Folded(f, g, s) /\ h[s] = Folded(e, h, s)
  BY DEF FoldsUp
<1>2. 0 \in T
  BY <1>1, SmallAll DEF Folded
<1>3. ASSUME NEW n \in T
      PROVE  n + 1 \in T
  <2>1. n \in Nat /\ Same(n)
    BY <1>3
  <2>2. \A s \in Small(S, n + 1) : g[s] = h[s]
    <3> TAKE s \in Small(S, n + 1)
    <3>1. s \in SUBSET S
      BY DEF Small
    <3>2. CASE s = {}
      BY <1>1, <3>2 DEF Folded
    <3>3. CASE s # {}
      <4>1. s \ {Chosen(s)} \in Small(S, n) /\ Chosen(s) \in s
        BY <2>1, <3>3, SmallerLeft, ChosenIn
      <4>2. g[s \ {Chosen(s)}] = h[s \ {Chosen(s)}] /\ f[Chosen(s)] = e[Chosen(s)]
        BY <2>1, <3>1, <4>1
      <4>3. QED
        BY <1>1, <3>1, <3>3, <4>2 DEF Folded
    <3>4. QED
      BY <3>2, <3>3
  <2>3. QED
    BY <2>1, <2>2
<1> HIDE DEF Same
<1>4. T = Nat
  BY <1>2, <1>3, NatSetInduction
<1>5. Same(Cardinality(S))
  BY <1>4, SmallAll
<1>6. QED
  BY <1>5, SmallAll DEF Same

LEMMA SumFolds ==
    ASSUME NEW f, NEW S, IsFiniteSet(S)
    PROVE  \E g : FoldsUp(f, g, S) /\ SumFunctionOnSet(f, S) = g[S]
<1> DEFINE g == CHOOSE g : FoldsUp(f, g, S)
<1>1. FoldsUp(f, g, S)
  BY FoldExists
<1>2. SumFunctionOnSet(f, S) = g[S]
  BY DEF SumFunctionOnSet, FoldFunctionOnSet, MapThenFoldSet, FoldsUp, Folded, Chosen
<1> HIDE DEF g
<1>3. QED
  BY <1>1, <1>2

-----------------------------------------------------------------------------
(***************************************************************************)
(* Sums over sets.                                                         *)
(***************************************************************************)
LEMMA SumEmpty ==
    ASSUME NEW f
    PROVE  SumFunctionOnSet(f, {}) = 0
<1>1. PICK g : FoldsUp(f, g, {}) /\ SumFunctionOnSet(f, {}) = g[{}]
  BY SumFolds, FS_EmptySet
<1>2. QED
  BY <1>1 DEF FoldsUp, Folded

LEMMA SumSame ==
    ASSUME NEW S, IsFiniteSet(S), NEW f, NEW e, \A x \in S : f[x] = e[x]
    PROVE  SumFunctionOnSet(f, S) = SumFunctionOnSet(e, S)
<1>1. PICK g : FoldsUp(f, g, S) /\ SumFunctionOnSet(f, S) = g[S]
  BY SumFolds
<1>2. PICK h : FoldsUp(e, h, S) /\ SumFunctionOnSet(e, S) = h[S]
  BY SumFolds
<1>3. \A s \in SUBSET S : g[s] = h[s]
  BY <1>1, <1>2, FoldSame
<1>4. QED
  BY <1>1, <1>2, <1>3

LEMMA SumChosen ==
    ASSUME NEW S, IsFiniteSet(S), NEW f, S # {}
    PROVE  SumFunctionOnSet(f, S) = f[Chosen(S)] + SumFunctionOnSet(f, S \ {Chosen(S)})
<1> DEFINE R == S \ {Chosen(S)}
<1>1. IsFiniteSet(R) /\ R \subseteq S
  BY FS_RemoveElement
<1> HIDE DEF R
<1>2. PICK g : FoldsUp(f, g, S) /\ SumFunctionOnSet(f, S) = g[S]
  BY SumFolds
<1>3. PICK h : FoldsUp(f, h, R) /\ SumFunctionOnSet(f, R) = h[R]
  BY <1>1, SumFolds
<1>4. \A s \in SUBSET R : h[s] = g[s]
  BY <1>1, <1>2, <1>3, FoldSame
<1>5. g[S] = f[Chosen(S)] + g[R]
  BY <1>2 DEF FoldsUp, Folded, R
<1>6. QED
  BY <1>2, <1>3, <1>4, <1>5 DEF R

\* Of whole numbers, a sum is one.
LEMMA SumInt ==
    ASSUME NEW S, IsFiniteSet(S), NEW f, \A x \in S : f[x] \in Int
    PROVE  SumFunctionOnSet(f, S) \in Int
<1> DEFINE Ok(n) == \A s \in Small(S, n) : SumFunctionOnSet(f, s) \in Int
           T == {n \in Nat : Ok(n)}
<1>1. 0 \in T
  <2>1. SumFunctionOnSet(f, {}) \in Int
    BY SumEmpty
  <2>2. Ok(0)
    BY <2>1, SmallAll
  <2>3. QED
    BY <2>2
<1>2. ASSUME NEW n \in T
      PROVE  n + 1 \in T
  <2>1. n \in Nat /\ Ok(n)
    BY <1>2
  <2>2. \A s \in Small(S, n + 1) : SumFunctionOnSet(f, s) \in Int
    <3> TAKE s \in Small(S, n + 1)
    <3>1. s \in SUBSET S /\ IsFiniteSet(s)
      BY FS_Subset DEF Small
    <3>2. CASE s = {}
      BY <3>2, SumEmpty
    <3>3. CASE s # {}
      <4>1. s \ {Chosen(s)} \in Small(S, n) /\ Chosen(s) \in s
        BY <2>1, <3>3, SmallerLeft, ChosenIn
      <4>2. SumFunctionOnSet(f, s \ {Chosen(s)}) \in Int /\ f[Chosen(s)] \in Int
        BY <2>1, <3>1, <4>1
      <4>3. SumFunctionOnSet(f, s) = f[Chosen(s)] + SumFunctionOnSet(f, s \ {Chosen(s)})
        BY <3>1, <3>3, SumChosen
      <4>4. QED
        BY <4>2, <4>3
    <3>4. QED
      BY <3>2, <3>3
  <2>3. QED
    BY <2>1, <2>2
<1> HIDE DEF Ok
<1>3. T = Nat
  BY <1>1, <1>2, NatSetInduction
<1>4. Ok(Cardinality(S))
  BY <1>3, SmallAll
<1>5. QED
  BY <1>4, SmallAll DEF Ok

\* Any member can be summed first.
LEMMA SumRemove ==
    ASSUME NEW S, IsFiniteSet(S), NEW f, \A x \in S : f[x] \in Int, NEW y \in S
    PROVE  SumFunctionOnSet(f, S) = f[y] + SumFunctionOnSet(f, S \ {y})
<1> DEFINE Sum(s) == SumFunctionOnSet(f, s)
           Ok(n) == \A s \in Small(S, n) : \A x \in s : Sum(s) = f[x] + Sum(s \ {x})
           T == {n \in Nat : Ok(n)}
<1>1. \A s \in SUBSET S : IsFiniteSet(s) /\ Sum(s) \in Int
  <2> TAKE s \in SUBSET S
  <2>1. IsFiniteSet(s) /\ \A x \in s : f[x] \in Int
    BY FS_Subset
  <2>2. QED
    BY <2>1, SumInt
<1>2. \A s \in SUBSET S : s # {} => /\ Chosen(s) \in s
                                    /\ Sum(s) = f[Chosen(s)] + Sum(s \ {Chosen(s)})
  BY <1>1, SumChosen, ChosenIn
<1> HIDE DEF Sum
<1>3. 0 \in T
  BY SmallAll
<1>4. ASSUME NEW n \in T
      PROVE  n + 1 \in T
  <2>1. n \in Nat /\ Ok(n)
    BY <1>4
  <2>2. ASSUME NEW s \in Small(S, n + 1), NEW x \in s
        PROVE  Sum(s) = f[x] + Sum(s \ {x})
    <3> DEFINE c == Chosen(s)
    <3>1. s \in SUBSET S
      BY DEF Small
    <3>2. c \in s /\ Sum(s) = f[c] + Sum(s \ {c}) /\ s \ {c} \in Small(S, n)
      BY <1>2, <2>1, <3>1, SmallerLeft
    <3> HIDE DEF c
    <3>3. CASE x = c
      BY <3>2, <3>3
    <3>4. CASE x # c
      <4>1. Sum(s \ {c}) = f[x] + Sum((s \ {c}) \ {x})
        BY <2>1, <3>2, <3>4
      <4>2. IsFiniteSet(s) /\ IsFiniteSet(s \ {x}) /\ Cardinality(s) \in Nat
        BY <1>1, <3>1, FS_CardinalityType
      <4>3. s \ {x} \in Small(S, n)
        <5>1. Cardinality(s \ {x}) = Cardinality(s) - 1
          BY <4>2, FS_RemoveElement
        <5>2. QED
          BY <2>1, <3>1, <4>2, <5>1 DEF Small
      <4>4. Sum(s \ {x}) = f[c] + Sum((s \ {x}) \ {c})
        BY <2>1, <3>2, <3>4, <4>3
      <4>5. (s \ {x}) \ {c} = (s \ {c}) \ {x}
        OBVIOUS
      <4>6. f[x] \in Int /\ f[c] \in Int /\ Sum((s \ {c}) \ {x}) \in Int
        BY <1>1, <3>1, <3>2
      <4> DEFINE rest == Sum((s \ {c}) \ {x})
      <4>7. Sum(s \ {c}) = f[x] + rest /\ Sum(s \ {x}) = f[c] + rest
        BY <4>1, <4>4, <4>5
      <4>8. rest \in Int
        BY <4>6
      <4> HIDE DEF rest
      <4>9. Sum(s) = f[c] + (f[x] + rest)
        BY <3>2, <4>7
      <4>10. f[c] + (f[x] + rest) = f[x] + (f[c] + rest)
        BY <4>6, <4>8
      <4>11. QED
        BY <4>7, <4>9, <4>10
    <3>5. QED
      BY <3>3, <3>4
  <2>3. QED
    BY <2>1, <2>2
<1> HIDE DEF Ok
<1>5. T = Nat
  BY <1>3, <1>4, NatSetInduction
<1>6. Ok(Cardinality(S))
  BY <1>5, SmallAll
<1>7. S \in Small(S, Cardinality(S))
  BY SmallAll
<1>8. QED
  BY <1>6, <1>7 DEF Ok, Sum

LEMMA SumAdd ==
    ASSUME NEW S, IsFiniteSet(S), NEW y, y \notin S,
           NEW f, \A x \in S \cup {y} : f[x] \in Int
    PROVE  SumFunctionOnSet(f, S \cup {y}) = SumFunctionOnSet(f, S) + f[y]
<1>1. IsFiniteSet(S \cup {y}) /\ (S \cup {y}) \ {y} = S
  BY FS_AddElement
<1>2. SumFunctionOnSet(f, S \cup {y}) = f[y] + SumFunctionOnSet(f, S)
  <2> DEFINE R == S \cup {y}
  <2>1. IsFiniteSet(R) /\ y \in R /\ R \ {y} = S /\ \A x \in R : f[x] \in Int
    BY <1>1
  <2> HIDE DEF R
  <2>2. SumFunctionOnSet(f, R) = f[y] + SumFunctionOnSet(f, R \ {y})
    BY <2>1, SumRemove
  <2>3. QED
    BY <2>1, <2>2 DEF R
<1>3. SumFunctionOnSet(f, S) \in Int /\ f[y] \in Int
  BY SumInt
<1>4. QED
  BY <1>2, <1>3

\* One summand changes.
LEMMA SumUpdate ==
    ASSUME NEW S, IsFiniteSet(S), NEW y \in S,
           NEW f, \A x \in S : f[x] \in Int,
           NEW e, e[y] \in Int, \A x \in S : x # y => e[x] = f[x]
    PROVE  SumFunctionOnSet(e, S) = SumFunctionOnSet(f, S) + (e[y] - f[y])
<1> DEFINE R == S \ {y}
<1>1. IsFiniteSet(R) /\ \A x \in R : f[x] \in Int /\ e[x] = f[x]
  BY FS_RemoveElement
<1>2. SumFunctionOnSet(f, R) = SumFunctionOnSet(e, R)
  BY <1>1, SumSame
<1>3. SumFunctionOnSet(f, S) = f[y] + SumFunctionOnSet(f, R)
  BY SumRemove
<1>4. SumFunctionOnSet(e, S) = e[y] + SumFunctionOnSet(e, R)
  BY SumRemove
<1>5. SumFunctionOnSet(f, R) \in Int /\ f[y] \in Int /\ e[y] \in Int
  BY <1>1, SumInt
<1> HIDE DEF R
<1>6. QED
  BY <1>2, <1>3, <1>4, <1>5

\* Of natural numbers, a sum is one, and no summand is larger.
LEMMA SumNat ==
    ASSUME NEW S, IsFiniteSet(S), NEW f, \A x \in S : f[x] \in Nat
    PROVE  /\ SumFunctionOnSet(f, S) \in Nat
           /\ \A x \in S : f[x] <= SumFunctionOnSet(f, S)
<1> DEFINE Ok(n) == \A s \in Small(S, n) : SumFunctionOnSet(f, s) \in Nat
           T == {n \in Nat : Ok(n)}
<1>1. 0 \in T
  <2>1. SumFunctionOnSet(f, {}) \in Nat
    BY SumEmpty
  <2>2. Ok(0)
    BY <2>1, SmallAll
  <2>3. QED
    BY <2>2
<1>2. ASSUME NEW n \in T
      PROVE  n + 1 \in T
  <2>1. n \in Nat /\ Ok(n)
    BY <1>2
  <2>2. \A s \in Small(S, n + 1) : SumFunctionOnSet(f, s) \in Nat
    <3> TAKE s \in Small(S, n + 1)
    <3>1. s \in SUBSET S /\ IsFiniteSet(s)
      BY FS_Subset DEF Small
    <3>2. CASE s = {}
      BY <3>2, SumEmpty
    <3>3. CASE s # {}
      <4>1. s \ {Chosen(s)} \in Small(S, n) /\ Chosen(s) \in s
        BY <2>1, <3>3, SmallerLeft, ChosenIn
      <4>2. SumFunctionOnSet(f, s \ {Chosen(s)}) \in Nat /\ f[Chosen(s)] \in Nat
        BY <2>1, <3>1, <4>1
      <4>3. SumFunctionOnSet(f, s) = f[Chosen(s)] + SumFunctionOnSet(f, s \ {Chosen(s)})
        BY <3>1, <3>3, SumChosen
      <4>4. QED
        BY <4>2, <4>3
    <3>4. QED
      BY <3>2, <3>3
  <2>3. QED
    BY <2>1, <2>2
<1> HIDE DEF Ok
<1>3. T = Nat
  BY <1>1, <1>2, NatSetInduction
<1>4. Ok(Cardinality(S))
  BY <1>3, SmallAll
<1>5. \A s \in SUBSET S : SumFunctionOnSet(f, s) \in Nat
  BY <1>4, SmallAll DEF Ok
<1>6. ASSUME NEW x \in S
      PROVE  f[x] <= SumFunctionOnSet(f, S)
  <2>1. SumFunctionOnSet(f, S) = f[x] + SumFunctionOnSet(f, S \ {x})
    BY SumRemove
  <2>2. SumFunctionOnSet(f, S \ {x}) \in Nat /\ f[x] \in Nat
    BY <1>5
  <2>3. QED
    BY <2>1, <2>2
<1>7. QED
  BY <1>5, <1>6

\* Two sums are summed member by member.
LEMMA SumPlus ==
    ASSUME NEW S, IsFiniteSet(S),
           NEW f, NEW e, NEW h,
           \A x \in S : f[x] \in Int /\ e[x] \in Int /\ h[x] = f[x] + e[x]
    PROVE  SumFunctionOnSet(h, S) = SumFunctionOnSet(f, S) + SumFunctionOnSet(e, S)
<1> DEFINE Ok(n) == \A s \in Small(S, n) :
                      SumFunctionOnSet(h, s) = SumFunctionOnSet(f, s) + SumFunctionOnSet(e, s)
           T == {n \in Nat : Ok(n)}
<1>1. 0 \in T
  <2>1. SumFunctionOnSet(h, {}) = SumFunctionOnSet(f, {}) + SumFunctionOnSet(e, {})
    BY SumEmpty
  <2>2. Ok(0)
    BY <2>1, SmallAll
  <2>3. QED
    BY <2>2
<1>2. ASSUME NEW n \in T
      PROVE  n + 1 \in T
  <2>1. n \in Nat /\ Ok(n)
    BY <1>2
  <2>2. ASSUME NEW s \in Small(S, n + 1)
        PROVE  SumFunctionOnSet(h, s) = SumFunctionOnSet(f, s) + SumFunctionOnSet(e, s)
    <3>1. s \in SUBSET S /\ IsFiniteSet(s)
      BY FS_Subset DEF Small
    <3>2. CASE s = {}
      BY <3>2, SumEmpty
    <3>3. CASE s # {}
      <4> DEFINE c == Chosen(s)
                 r == s \ {c}
      <4>1. r \in Small(S, n) /\ c \in s /\ c \in S
        BY <2>1, <3>1, <3>3, SmallerLeft, ChosenIn
      <4>2. r \in SUBSET S /\ IsFiniteSet(r)
        BY <4>1, FS_Subset DEF Small
      <4>3. /\ SumFunctionOnSet(f, s) = f[c] + SumFunctionOnSet(f, r)
            /\ SumFunctionOnSet(e, s) = e[c] + SumFunctionOnSet(e, r)
            /\ SumFunctionOnSet(h, s) = h[c] + SumFunctionOnSet(h, r)
        BY <3>1, <3>3, SumChosen
      <4>4. SumFunctionOnSet(f, r) \in Int
        BY <4>2, SumInt
      <4>5. SumFunctionOnSet(e, r) \in Int
        BY <4>2, SumInt
      <4>6. SumFunctionOnSet(h, r) = SumFunctionOnSet(f, r) + SumFunctionOnSet(e, r)
        BY <2>1, <4>1
      <4>7. f[c] \in Int /\ e[c] \in Int /\ h[c] = f[c] + e[c]
        BY <4>1
      <4> HIDE DEF c, r
      <4>8. QED
        BY <4>3, <4>4, <4>5, <4>6, <4>7
    <3>4. QED
      BY <3>2, <3>3
  <2>3. QED
    BY <2>1, <2>2
<1> HIDE DEF Ok
<1>3. T = Nat
  BY <1>1, <1>2, NatSetInduction
<1>4. Ok(Cardinality(S))
  BY <1>3, SmallAll
<1>5. S \in Small(S, Cardinality(S))
  BY SmallAll
<1>6. QED
  BY <1>4, <1>5 DEF Ok

LEMMA SumZero ==
    ASSUME NEW S, IsFiniteSet(S), NEW f, \A x \in S : f[x] = 0
    PROVE  SumFunctionOnSet(f, S) = 0
<1>1. SumFunctionOnSet(f, S) = SumFunctionOnSet(f, S) + SumFunctionOnSet(f, S)
  <2>1. \A x \in S : f[x] \in Int /\ f[x] \in Int /\ f[x] = f[x] + f[x]
    OBVIOUS
  <2>2. QED
    BY <2>1, SumPlus
<1>2. SumFunctionOnSet(f, S) \in Int
  <2>1. \A x \in S : f[x] \in Int
    OBVIOUS
  <2>2. QED
    BY <2>1, SumInt
<1> DEFINE sum == SumFunctionOnSet(f, S)
<1>3. sum = sum + sum /\ sum \in Int
  BY <1>1, <1>2
<1> HIDE DEF sum
<1>4. sum = 0
  BY <1>3
<1>5. QED
  BY <1>4 DEF sum

-----------------------------------------------------------------------------
(***************************************************************************)
(* Sums of all values of a function.                                       *)
(***************************************************************************)
LEMMA TotalInt ==
    ASSUME NEW S, IsFiniteSet(S), NEW f \in [S -> Int]
    PROVE  SumFunction(f) \in Int
BY SumInt DEF SumFunction

LEMMA TotalNat ==
    ASSUME NEW S, IsFiniteSet(S), NEW f \in [S -> Nat]
    PROVE  SumFunction(f) \in Nat /\ \A x \in S : f[x] <= SumFunction(f)
BY SumNat DEF SumFunction

LEMMA TotalEmpty ==
    ASSUME NEW f, DOMAIN f = {}
    PROVE  SumFunction(f) = 0
BY SumEmpty DEF SumFunction

LEMMA TotalZero ==
    ASSUME NEW S, IsFiniteSet(S), NEW f \in [S -> {0}]
    PROVE  SumFunction(f) = 0
BY SumZero DEF SumFunction

LEMMA TotalUpdate ==
    ASSUME NEW S, IsFiniteSet(S), NEW y \in S,
           NEW f \in [S -> Int], NEW e \in [S -> Int], \A x \in S \ {y} : e[x] = f[x]
    PROVE  SumFunction(e) = SumFunction(f) + (e[y] - f[y])
<1>1. \A x \in S : f[x] \in Int /\ (x # y => e[x] = f[x])
  OBVIOUS
<1>2. e[y] \in Int /\ DOMAIN e = S /\ DOMAIN f = S
  OBVIOUS
<1>3. SumFunctionOnSet(e, S) = SumFunctionOnSet(f, S) + (e[y] - f[y])
  BY <1>1, <1>2, SumUpdate
<1>4. QED
  BY <1>2, <1>3 DEF SumFunction

LEMMA TotalAdd ==
    ASSUME NEW S, IsFiniteSet(S), NEW y, y \notin S,
           NEW f \in [S -> Int], NEW e \in [S \cup {y} -> Int], \A x \in S : e[x] = f[x]
    PROVE  SumFunction(e) = SumFunction(f) + e[y]
<1>1. SumFunctionOnSet(e, S \cup {y}) = SumFunctionOnSet(e, S) + e[y]
  BY SumAdd
<1>2. SumFunctionOnSet(e, S) = SumFunctionOnSet(f, S)
  BY SumSame
<1>3. DOMAIN e = S \cup {y} /\ DOMAIN f = S
  OBVIOUS
<1>4. QED
  BY <1>1, <1>2, <1>3 DEF SumFunction

LEMMA TotalPlus ==
    ASSUME NEW S, IsFiniteSet(S),
           NEW f \in [S -> Int], NEW e \in [S -> Int], NEW h \in [S -> Int],
           \A x \in S : h[x] = f[x] + e[x]
    PROVE  SumFunction(h) = SumFunction(f) + SumFunction(e)
<1>1. \A x \in S : f[x] \in Int /\ e[x] \in Int /\ h[x] = f[x] + e[x]
  OBVIOUS
<1>2. SumFunctionOnSet(h, S) = SumFunctionOnSet(f, S) + SumFunctionOnSet(e, S)
  BY <1>1, SumPlus
<1>3. DOMAIN f = S /\ DOMAIN e = S /\ DOMAIN h = S
  OBVIOUS
<1>4. QED
  BY <1>2, <1>3 DEF SumFunction
-----------------------------------------------------------------------------
(***************************************************************************)
(* Induction over the subsets of a finite set: a set of subsets that has   *)
(* the empty one, and each of its members with one element more, has all.  *)
(***************************************************************************)
LEMMA SubsetInduction ==
    ASSUME NEW S, IsFiniteSet(S), NEW C, {} \in C,
           \A s \in SUBSET S : \A x \in S \ s : s \in C => s \cup {x} \in C
    PROVE  S \in C
<1> DEFINE Ok(n) == \A s \in SUBSET S : Cardinality(s) = n => s \in C
           T == {n \in Nat : Ok(n)}
<1>1. 0 \in T
  <2>1. \A s \in SUBSET S : Cardinality(s) = 0 => s = {}
    BY FS_Subset, FS_EmptySet
  <2>2. QED
    BY <2>1
<1>2. ASSUME NEW n \in T PROVE n + 1 \in T
  <2>0. n \in Nat
    BY <1>2
  <2>1. Ok(n)
    BY <1>2
  <2>2. ASSUME NEW s \in SUBSET S, Cardinality(s) = n + 1 PROVE s \in C
    <3>1. IsFiniteSet(s)
      BY FS_Subset
    <3>2. s # {}
      <4>1. Cardinality({}) = 0 /\ n + 1 # 0
        BY <2>0, FS_EmptySet
      <4>2. QED
        BY <2>2, <4>1
    <3>3. PICK x : x \in s
      BY <3>2
    <3>4. Cardinality(s \ {x}) = n
      <4>1. Cardinality(s \ {x}) = Cardinality(s) - 1
        BY <3>1, <3>3, FS_RemoveElement
      <4>2. QED
        BY <2>0, <2>2, <4>1
    <3>5. s \ {x} \in C
      BY <2>1, <3>4
    <3>6. x \in S \ (s \ {x}) /\ (s \ {x}) \cup {x} = s
      BY <3>3
    <3>7. QED
      BY <3>5, <3>6
  <2>3. Ok(n + 1)
    BY <2>2
  <2> HIDE DEF Ok
  <2>4. QED
    BY <2>0, <2>3
<1> HIDE DEF Ok
<1>3. T = Nat
  BY <1>1, <1>2, NatSetInduction
<1>4. Cardinality(S) \in Nat
  BY FS_CardinalityType
<1>5. QED
  BY <1>3, <1>4 DEF Ok

\* A finite set of integers has a largest member.
LEMMA MaxSet ==
    ASSUME NEW S, IsFiniteSet(S), S \subseteq Int, S # {}
    PROVE  \E m \in S : \A x \in S : x <= m
<1> DEFINE Has(s) == s # {} => \E m \in s : \A x \in s : x <= m
           C == {s \in SUBSET S : Has(s)}
<1>1. {} \in C
  OBVIOUS
<1>2. ASSUME NEW s \in SUBSET S, NEW y \in S \ s, s \in C
      PROVE  s \cup {y} \in C
  <2>1. CASE s = {}
    BY <2>1
  <2>2. CASE s # {}
    <3>1. PICK m \in s : \A x \in s : x <= m
      BY <1>2, <2>2
    <3>2. m \in Int /\ y \in Int /\ s \subseteq Int
      OBVIOUS
    <3>3. CASE y <= m
      BY <3>1, <3>2, <3>3
    <3>4. CASE ~(y <= m)
      <4>1. \A x \in s \cup {y} : x <= y
        BY <3>1, <3>2, <3>4
      <4>2. QED
        BY <4>1
    <3>5. QED
      BY <3>3, <3>4
  <2>3. QED
    BY <2>1, <2>2
<1> HIDE DEF C
<1>3. S \in C
  BY <1>1, <1>2, SubsetInduction
<1>4. QED
  BY <1>3 DEF C

\* A sum of terms that are at most c is at most c times their number.
LEMMA SumAtMost ==
    ASSUME NEW S, IsFiniteSet(S), NEW f, NEW c \in Int,
           \A x \in S : f[x] \in Int /\ f[x] <= c
    PROVE  SumFunctionOnSet(f, S) <= Cardinality(S) * c
<1> DEFINE Sum(s) == SumFunctionOnSet(f, s)
           C == {s \in SUBSET S : Sum(s) <= Cardinality(s) * c}
<1>1. {} \in C
  BY SumEmpty, FS_EmptySet
<1>2. ASSUME NEW s \in SUBSET S, NEW y \in S \ s, s \in C
      PROVE  s \cup {y} \in C
  <2> DEFINE n == Cardinality(s)
  <2>1. IsFiniteSet(s) /\ n \in Nat
    BY FS_Subset, FS_CardinalityType
  <2>2. Cardinality(s \cup {y}) = n + 1
    BY <2>1, FS_AddElement
  <2>3. \A x \in s \cup {y} : f[x] \in Int
    OBVIOUS
  <2>4. Sum(s \cup {y}) = Sum(s) + f[y]
    BY <2>1, <2>3, SumAdd
  <2>5. Sum(s) \in Int /\ f[y] \in Int /\ f[y] <= c
    BY <2>1, SumInt
  <2>6. Sum(s) <= n * c
    BY <1>2
  <2> HIDE DEF Sum, n
  <2>7. (n + 1) * c = n * c + c /\ n * c \in Int
    BY <2>1
  <2>8. Sum(s \cup {y}) <= (n + 1) * c
    BY <2>4, <2>5, <2>6, <2>7
  <2>9. QED
    BY <2>2, <2>8
<1> HIDE DEF C
<1>3. S \in C
  BY <1>1, <1>2, SubsetInduction
<1>4. QED
  BY <1>3 DEF C
\* Terms that are 0 need not be summed.
LEMMA SumSupport ==
    ASSUME NEW S, IsFiniteSet(S), NEW R, R \subseteq S,
           NEW f, \A x \in S : f[x] \in Int, \A x \in S \ R : f[x] = 0
    PROVE  SumFunctionOnSet(f, S) = SumFunctionOnSet(f, R)
<1> DEFINE Sum(s) == SumFunctionOnSet(f, s)
           C == {s \in SUBSET (S \ R) : Sum(R \cup s) = Sum(R)}
<1>1. IsFiniteSet(S \ R) /\ R \cup {} = R /\ R \cup (S \ R) = S
  BY FS_Subset
<1>2. {} \in C
  BY <1>1
<1>3. ASSUME NEW s \in SUBSET (S \ R), NEW y \in (S \ R) \ s, s \in C
      PROVE  s \cup {y} \in C
  <2> DEFINE Q == R \cup s
  <2>1. IsFiniteSet(Q) /\ Q \subseteq S /\ y \notin Q /\ R \cup (s \cup {y}) = Q \cup {y}
    BY FS_Subset
  <2>2. f[y] = 0 /\ \A x \in Q \cup {y} : f[x] \in Int
    BY <2>1
  <2> HIDE DEF Q
  <2>3. Sum(Q \cup {y}) = Sum(Q) + f[y] /\ Sum(Q) \in Int
    BY <2>1, <2>2, SumAdd, SumInt
  <2>4. Sum(Q) = Sum(R)
    BY <1>3 DEF Q
  <2> HIDE DEF Sum
  <2>5. Sum(Q \cup {y}) = Sum(R)
    BY <2>2, <2>3, <2>4
  <2>6. QED
    BY <2>1, <2>5
<1> HIDE DEF C
<1>4. S \ R \in C
  BY <1>1, <1>2, <1>3, SubsetInduction
<1>5. QED
  BY <1>1, <1>4 DEF C

\* A sum of larger terms is larger.
LEMMA SumMonotone ==
    ASSUME NEW S, IsFiniteSet(S), NEW f, NEW e,
           \A x \in S : f[x] \in Int /\ e[x] \in Int /\ f[x] <= e[x]
    PROVE  SumFunctionOnSet(f, S) <= SumFunctionOnSet(e, S)
<1> DEFINE Sum(h, s) == SumFunctionOnSet(h, s)
           C == {s \in SUBSET S : Sum(f, s) <= Sum(e, s)}
<1>1. {} \in C
  <2>1. Sum(f, {}) = 0 /\ Sum(e, {}) = 0
    BY SumEmpty
  <2>2. QED
    BY <2>1
<1>2. ASSUME NEW s \in SUBSET S, NEW y \in S \ s, s \in C
      PROVE  s \cup {y} \in C
  <2>1. IsFiniteSet(s) /\ \A x \in s \cup {y} : f[x] \in Int /\ e[x] \in Int
    BY FS_Subset
  <2>2. /\ Sum(f, s \cup {y}) = Sum(f, s) + f[y] /\ Sum(f, s) \in Int
        /\ Sum(e, s \cup {y}) = Sum(e, s) + e[y] /\ Sum(e, s) \in Int
    BY <2>1, SumAdd, SumInt
  <2>3. f[y] \in Int /\ e[y] \in Int /\ f[y] <= e[y] /\ Sum(f, s) <= Sum(e, s)
    BY <1>2
  <2> HIDE DEF Sum
  <2>4. Sum(f, s \cup {y}) <= Sum(e, s \cup {y})
    BY <2>2, <2>3
  <2>5. QED
    BY <2>4
<1> HIDE DEF C
<1>3. S \in C
  BY <1>1, <1>2, SubsetInduction
<1>4. QED
  BY <1>3 DEF C

LEMMA TotalMonotone ==
    ASSUME NEW S, IsFiniteSet(S), NEW f \in [S -> Int], NEW e \in [S -> Int],
           \A x \in S : f[x] <= e[x]
    PROVE  SumFunction(f) <= SumFunction(e)
<1>1. DOMAIN f = S /\ DOMAIN e = S
  OBVIOUS
<1>2. SumFunctionOnSet(f, S) <= SumFunctionOnSet(e, S)
  BY SumMonotone
<1>3. QED
  BY <1>1, <1>2 DEF SumFunction
-----------------------------------------------------------------------------
(***************************************************************************)
(* Sequences, and the sum of a number that each element has.               *)
(***************************************************************************)
OverSeq(f, q) == [i \in DOMAIN q |-> f[q[i]]]
SeqSum(f, q) == SumFunction(OverSeq(f, q))

\* r is q but for element k, or with n for one more element.
Replaced(T, q, r, k) ==
    /\ q \in Seq(T) /\ r \in Seq(T) /\ DOMAIN r = DOMAIN q /\ k \in DOMAIN q
    /\ \A i \in DOMAIN q \ {k} : r[i] = q[i]
Extended(T, q, r, n) ==
    /\ q \in Seq(T) /\ r \in Seq(T) /\ n \notin DOMAIN q /\ DOMAIN r = DOMAIN q \cup {n}
    /\ \A i \in DOMAIN q : r[i] = q[i]

LEMMA SequenceDomain ==
    ASSUME NEW T, NEW q \in Seq(T)
    PROVE  /\ DOMAIN q = 1..Len(q) /\ Len(q) \in Nat /\ IsFiniteSet(DOMAIN q)
           /\ \A i \in DOMAIN q : q[i] \in T
<1>1. DOMAIN q = 1..Len(q) /\ Len(q) \in Nat
  OBVIOUS
<1>2. IsFiniteSet(1..Len(q))
  BY <1>1, FS_Interval
<1>3. QED
  BY <1>1, <1>2

LEMMA SequenceAppend ==
    ASSUME NEW T, NEW q \in Seq(T), NEW a \in T, NEW r, r = Append(q, a)
    PROVE  /\ r \in Seq(T) /\ DOMAIN r = DOMAIN q \cup {Len(q) + 1}
           /\ Len(r) = Len(q) + 1 /\ Len(q) + 1 \notin DOMAIN q
           /\ \A i \in DOMAIN q : r[i] = q[i]
           /\ r[Len(q) + 1] = a
<1>1. DOMAIN q = 1..Len(q) /\ Len(q) \in Nat
  OBVIOUS
<1>2. r \in Seq(T) /\ Len(r) = Len(q) + 1
  OBVIOUS
<1>3. DOMAIN r = 1..(Len(q) + 1)
  BY <1>2
<1>4. QED
  BY <1>1, <1>2, <1>3

LEMMA SequenceSet ==
    ASSUME NEW T, NEW q \in Seq(T), NEW i \in DOMAIN q, NEW a \in T, NEW r,
           r = [q EXCEPT ![i] = a]
    PROVE  /\ r \in Seq(T) /\ DOMAIN r = DOMAIN q /\ Len(r) = Len(q) /\ r[i] = a
           /\ \A j \in DOMAIN q \ {i} : r[j] = q[j]
OBVIOUS

LEMMA SeqSumInt ==
    ASSUME NEW T, NEW q \in Seq(T), NEW f \in [T -> Int]
    PROVE  OverSeq(f, q) \in [DOMAIN q -> Int] /\ SeqSum(f, q) \in Int
<1>1. IsFiniteSet(DOMAIN q) /\ \A i \in DOMAIN q : q[i] \in T
  BY SequenceDomain
<1>2. OverSeq(f, q) \in [DOMAIN q -> Int]
  BY <1>1 DEF OverSeq
<1>3. QED
  BY <1>1, <1>2, TotalInt DEF SeqSum

LEMMA SeqSumNat ==
    ASSUME NEW T, NEW q \in Seq(T), NEW f \in [T -> Nat]
    PROVE  SeqSum(f, q) \in Nat /\ \A i \in DOMAIN q : f[q[i]] <= SeqSum(f, q)
<1>1. IsFiniteSet(DOMAIN q) /\ \A i \in DOMAIN q : q[i] \in T
  BY SequenceDomain
<1>2. OverSeq(f, q) \in [DOMAIN q -> Nat] /\ \A i \in DOMAIN q : OverSeq(f, q)[i] = f[q[i]]
  BY <1>1 DEF OverSeq
<1>3. QED
  BY <1>1, <1>2, TotalNat DEF SeqSum

LEMMA SeqSumEmpty ==
    ASSUME NEW f
    PROVE  SeqSum(f, << >>) = 0
<1>1. DOMAIN OverSeq(f, << >>) = {}
  BY DEF OverSeq
<1>2. QED
  BY <1>1, TotalEmpty DEF SeqSum

LEMMA SeqSumAppend ==
    ASSUME NEW T, NEW f \in [T -> Int], NEW q, NEW r, NEW n, Extended(T, q, r, n)
    PROVE  SeqSum(f, r) = SeqSum(f, q) + f[r[n]]
<1> USE DEF Extended
<1> DEFINE S == DOMAIN q
           d == OverSeq(f, q)
           e == OverSeq(f, r)
<1>1. IsFiniteSet(S)
  BY SequenceDomain
<1>2. d \in [S -> Int]
  BY SeqSumInt
<1>3. e \in [S \cup {n} -> Int]
  BY SeqSumInt
<1>4. n \notin S /\ \A i \in S : e[i] = d[i]
  BY DEF OverSeq
<1>5. e[n] = f[r[n]]
  BY DEF OverSeq
<1>6. SeqSum(f, q) = SumFunction(d) /\ SeqSum(f, r) = SumFunction(e)
  BY DEF SeqSum
<1> HIDE DEF S, d, e
<1>7. SumFunction(e) = SumFunction(d) + e[n]
  <2>1. DOMAIN e = S \cup {n} /\ DOMAIN d = S /\ \A i \in S \cup {n} : e[i] \in Int
    BY ONLY <1>2, <1>3
  <2>2. SumFunctionOnSet(e, S \cup {n}) = SumFunctionOnSet(e, S) + e[n]
    BY ONLY <1>1, <1>4, <2>1, SumAdd
  <2>3. SumFunctionOnSet(e, S) = SumFunctionOnSet(d, S)
    BY ONLY <1>1, <1>4, SumSame
  <2>4. QED
    BY ONLY <2>1, <2>2, <2>3 DEF SumFunction
<1>8. QED
  BY <1>5, <1>6, <1>7

LEMMA SeqSumSet ==
    ASSUME NEW T, NEW f \in [T -> Int], NEW q, NEW r, NEW k, Replaced(T, q, r, k)
    PROVE  SeqSum(f, r) = SeqSum(f, q) + (f[r[k]] - f[q[k]])
<1> USE DEF Replaced
<1> DEFINE S == DOMAIN q
           d == OverSeq(f, q)
           e == OverSeq(f, r)
<1>1. IsFiniteSet(S)
  BY SequenceDomain
<1>2. d \in [S -> Int]
  BY SeqSumInt
<1>3. e \in [S -> Int]
  BY SeqSumInt
<1>4. k \in S /\ \A i \in S \ {k} : e[i] = d[i]
  BY DEF OverSeq
<1>5. e[k] = f[r[k]] /\ d[k] = f[q[k]]
  BY DEF OverSeq
<1>6. SeqSum(f, q) = SumFunction(d) /\ SeqSum(f, r) = SumFunction(e)
  BY DEF SeqSum
<1> HIDE DEF S, d, e
<1>7. SumFunction(e) = SumFunction(d) + (e[k] - d[k])
  BY ONLY <1>1, <1>2, <1>3, <1>4, TotalUpdate
<1>8. QED
  BY <1>5, <1>6, <1>7

\* Two sequences whose elements count the same, but for one.
LEMMA SeqSumSame ==
    ASSUME NEW T, NEW f \in [T -> Int], NEW q \in Seq(T), NEW r \in Seq(T),
           DOMAIN r = DOMAIN q, \A i \in DOMAIN q : f[r[i]] = f[q[i]]
    PROVE  SeqSum(f, r) = SeqSum(f, q)
<1>1. OverSeq(f, r) = OverSeq(f, q)
  BY DEF OverSeq
<1>2. QED
  BY <1>1 DEF SeqSum

Changed(T, f, q, r, k) ==
    /\ q \in Seq(T) /\ r \in Seq(T) /\ k \in DOMAIN q /\ DOMAIN r = DOMAIN q
    /\ \A i \in DOMAIN q \ {k} : f[r[i]] = f[q[i]]

LEMMA SeqSumChange ==
    ASSUME NEW T, NEW f \in [T -> Int], NEW q, NEW r, NEW k, Changed(T, f, q, r, k)
    PROVE  SeqSum(f, r) = SeqSum(f, q) + (f[r[k]] - f[q[k]])
<1> USE DEF Changed
<1> DEFINE S == DOMAIN q
           d == OverSeq(f, q)
           e == OverSeq(f, r)
<1>1. IsFiniteSet(S)
  BY SequenceDomain
<1>2. d \in [S -> Int] /\ e \in [S -> Int]
  BY SeqSumInt
<1>3. k \in S /\ \A i \in S \ {k} : e[i] = d[i]
  BY DEF OverSeq
<1>4. e[k] = f[r[k]] /\ d[k] = f[q[k]]
  BY DEF OverSeq
<1>5. SeqSum(f, q) = SumFunction(d) /\ SeqSum(f, r) = SumFunction(e)
  BY DEF SeqSum
<1> HIDE DEF S, d, e
<1>6. SumFunction(e) = SumFunction(d) + (e[k] - d[k])
  BY ONLY <1>1, <1>2, <1>3, TotalUpdate
<1>7. QED
  BY <1>4, <1>5, <1>6

\* A sum over part of a set is a sum over the set.
LEMMA SumWithin ==
    ASSUME NEW S, IsFiniteSet(S), NEW R, R \subseteq S, NEW g,
           NEW h \in [S -> Int], \A x \in R : h[x] = g[x], \A x \in S \ R : h[x] = 0
    PROVE  SumFunctionOnSet(g, R) = SumFunction(h)
<1>1. IsFiniteSet(R)
  BY FS_Subset
<1>2. SumFunctionOnSet(g, R) = SumFunctionOnSet(h, R)
  BY <1>1, SumSame
<1>3. SumFunctionOnSet(h, S) = SumFunctionOnSet(h, R)
  BY SumSupport
<1>4. DOMAIN h = S
  OBVIOUS
<1>5. QED
  BY <1>2, <1>3, <1>4 DEF SumFunction

LEMMA SequenceConcat ==
    ASSUME NEW T, NEW q \in Seq(T), NEW r \in Seq(T), NEW s, s = q \o r
    PROVE  /\ s \in Seq(T) /\ Len(s) = Len(q) + Len(r)
           /\ \A i \in 1..Len(q) : s[i] = q[i]
           /\ \A j \in 1..Len(r) : s[Len(q) + j] = r[j]
OBVIOUS

LEMMA SumConcat ==
    ASSUME NEW q \in Seq(Int), NEW r \in Seq(Int)
    PROVE  SumFunction(q \o r) = SumFunction(q) + SumFunction(r)
<1>1. PICK s, m, n : s = q \o r /\ m = Len(q) /\ n = Len(r)
  OBVIOUS
<1>2. /\ s \in Seq(Int) /\ Len(s) = m + n /\ m \in Nat /\ n \in Nat
      /\ (\A i \in 1..m : s[i] = q[i]) /\ \A j \in 1..n : s[m + j] = r[j]
  BY <1>1, SequenceConcat
<1>3. DOMAIN s = 1..(m + n) /\ DOMAIN q = 1..m /\ DOMAIN r = 1..n
  BY <1>1, <1>2
<1>4. (\A i \in 1..(m + n) : s[i] \in Int) /\ (\A i \in 1..n : r[i] \in Int)
  BY <1>1, <1>2, <1>3
<1> DEFINE Ok(k) == k <= n =>
             SumFunctionOnSet(s, 1..(m + k)) =
               SumFunctionOnSet(q, 1..m) + SumFunctionOnSet(r, 1..k)
           T == {k \in Nat : Ok(k)}
<1>5. SumFunctionOnSet(q, 1..m) \in Int
      /\ SumFunctionOnSet(s, 1..m) = SumFunctionOnSet(q, 1..m)
  <2>1. PICK a : a = 1..m
    OBVIOUS
  <2>2. IsFiniteSet(a)
    <3>1. m \in Int /\ 1 \in Int
      BY <1>2
    <3>2. QED
      BY ONLY <2>1, <3>1, FS_Interval
  <2>3. (\A i \in a : q[i] \in Int) /\ \A i \in a : s[i] = q[i]
    BY <1>1, <1>2, <1>3, <2>1
  <2>4. SumFunctionOnSet(q, a) \in Int /\ SumFunctionOnSet(s, a) = SumFunctionOnSet(q, a)
    BY ONLY <2>2, <2>3, SumInt, SumSame
  <2>5. QED
    BY <2>1, <2>4
<1>6. 0 \in T
  <2>1. 1..0 = {} /\ 1..(m + 0) = 1..m
    BY <1>2
  <2>2. SumFunctionOnSet(s, 1..m) = SumFunctionOnSet(q, 1..m)
    BY <1>5
  <2>3. SumFunctionOnSet(r, 1..0) = 0
    BY <2>1, SumEmpty
  <2>4. Ok(0)
    BY <1>5, <2>1, <2>2, <2>3
  <2>5. QED
    BY <2>4
<1>7. ASSUME NEW k \in T PROVE k + 1 \in T
  <2>1. k \in Nat /\ Ok(k)
    BY <1>7
  <2>2. ASSUME k + 1 <= n
        PROVE  SumFunctionOnSet(s, 1..(m + (k + 1))) =
                 SumFunctionOnSet(q, 1..m) + SumFunctionOnSet(r, 1..(k + 1))
    <3>1. PICK a, b, x, y : /\ a = 1..(m + k) /\ b = 1..k /\ x = m + (k + 1) /\ y = k + 1
      OBVIOUS
    <3>0. \A i \in Nat : 1..(i + 1) = 1..i \cup {i + 1}
      OBVIOUS
    <3>2. /\ 1..x = a \cup {x} /\ 1..y = b \cup {y}
          /\ x \notin a /\ y \notin b /\ x \in 1..(m + n) /\ y \in 1..n
          /\ a \subseteq 1..(m + n) /\ b \subseteq 1..n
      <4>1. m + k \in Nat /\ x = (m + k) + 1
        BY <1>2, <2>1, <3>1
      <4>2. 1..x = a \cup {x} /\ 1..y = b \cup {y}
        BY <2>1, <3>0, <3>1, <4>1
      <4>3. x \notin a /\ y \notin b /\ x \in 1..(m + n) /\ y \in 1..n
        BY <1>2, <2>1, <2>2, <3>1
      <4>4. a \subseteq 1..(m + n) /\ b \subseteq 1..n
        BY <1>2, <2>1, <2>2, <3>1
      <4>5. QED
        BY <4>2, <4>3, <4>4
    <3>3. IsFiniteSet(a) /\ IsFiniteSet(b)
      BY <1>2, <2>1, <3>1, FS_Interval
    <3>4. (\A i \in a \cup {x} : s[i] \in Int) /\ \A i \in b \cup {y} : r[i] \in Int
      BY <1>4, <3>2
    <3>5. SumFunctionOnSet(s, a \cup {x}) = SumFunctionOnSet(s, a) + s[x]
      BY ONLY <3>2, <3>3, <3>4, SumAdd
    <3>6. SumFunctionOnSet(r, b \cup {y}) = SumFunctionOnSet(r, b) + r[y]
      BY ONLY <3>2, <3>3, <3>4, SumAdd
    <3>7. SumFunctionOnSet(r, b) \in Int
      BY <3>3, <3>4, SumInt
    <3>8. s[x] = r[y] /\ r[y] \in Int
      BY <1>2, <1>4, <3>1, <3>2
    <3>9. SumFunctionOnSet(s, a) = SumFunctionOnSet(q, 1..m) + SumFunctionOnSet(r, b)
      BY <2>1, <2>2, <1>2, <3>1
    <3>10. PICK A, B, U, V, W : /\ A = SumFunctionOnSet(s, a) /\ B = SumFunctionOnSet(r, b)
                                /\ U = SumFunctionOnSet(s, 1..x) /\ V = SumFunctionOnSet(r, 1..y)
                                /\ W = SumFunctionOnSet(q, 1..m)
      OBVIOUS
    <3>11. U = A + s[x] /\ V = B + r[y] /\ A = W + B /\ B \in Int /\ W \in Int
      <4>1. U = A + s[x]
        BY ONLY <3>2, <3>5, <3>10
      <4>2. V = B + r[y]
        BY ONLY <3>2, <3>6, <3>10
      <4>3. A = W + B
        BY ONLY <3>9, <3>10
      <4>4. QED
        BY ONLY <4>1, <4>2, <4>3, <3>7, <3>10, <1>5
    <3>12. U = W + V
      BY ONLY <3>8, <3>11
    <3>13. SumFunctionOnSet(s, 1..x) = SumFunctionOnSet(q, 1..m) + SumFunctionOnSet(r, 1..y)
      BY ONLY <3>10, <3>12
    <3>14. QED
      BY ONLY <3>1, <3>13
  <2>3. Ok(k + 1)
    BY <2>2
  <2>4. QED
    BY <2>1, <2>3
<1>8. n \in T
  <2>1. T \subseteq Nat
    OBVIOUS
  <2> HIDE DEF T
  <2>2. T = Nat
    BY <1>6, <1>7, <2>1, NatSetInduction
  <2>3. QED
    BY <1>2, <2>2
<1>9. SumFunctionOnSet(s, 1..(m + n)) = SumFunctionOnSet(q, 1..m) + SumFunctionOnSet(r, 1..n)
  BY <1>2, <1>8
<1>10. QED
  BY <1>1, <1>3, <1>9 DEF SumFunction

\* The sum of a sequence of numbers.
LEMMA NumbersSum ==
    ASSUME NEW q \in Seq(Nat)
    PROVE  /\ SumFunction(q) \in Nat
           /\ \A i \in DOMAIN q : q[i] <= SumFunction(q)
<1>1. PICK S : S = DOMAIN q
  OBVIOUS
<1>2. IsFiniteSet(S) /\ q \in [S -> Nat]
  BY <1>1, SequenceDomain
<1>3. QED
  BY <1>1, <1>2, TotalNat

LEMMA TimesInt ==
    ASSUME NEW a \in Int, NEW b \in Int
    PROVE  a * b \in Int
OBVIOUS

LEMMA SumScale ==
    ASSUME NEW S, IsFiniteSet(S), NEW c \in Int, NEW f, NEW e,
           \A x \in S : f[x] \in Int /\ e[x] = c * f[x]
    PROVE  SumFunctionOnSet(e, S) = c * SumFunctionOnSet(f, S)
<1> DEFINE Sum(h, s) == SumFunctionOnSet(h, s)
           C == {s \in SUBSET S : Sum(e, s) = c * Sum(f, s)}
<1>1. {} \in C
  <2>1. Sum(e, {}) = 0 /\ Sum(f, {}) = 0
    BY SumEmpty
  <2> HIDE DEF Sum
  <2>2. QED
    BY <2>1
<1>2. ASSUME NEW s \in SUBSET S, NEW y \in S \ s, s \in C
      PROVE  s \cup {y} \in C
  <2>1. IsFiniteSet(s) /\ Sum(e, s) = c * Sum(f, s)
    BY <1>2, FS_Subset
  <2>2. \A x \in S : f[x] \in Int /\ e[x] \in Int /\ e[x] = c * f[x]
    BY TimesInt
  <2>3. (\A x \in s \cup {y} : f[x] \in Int) /\ \A x \in s \cup {y} : e[x] \in Int
    BY <2>2
  <2>4. Sum(f, s \cup {y}) = Sum(f, s) + f[y]
    BY ONLY <2>1, <2>3, y \notin s, SumAdd
  <2>5. Sum(e, s \cup {y}) = Sum(e, s) + e[y]
    BY ONLY <2>1, <2>3, y \notin s, SumAdd
  <2>6. Sum(f, s) \in Int
    BY <2>1, <2>3, SumInt
  <2> HIDE DEF Sum
  <2>7. PICK A, B, D, E, v : /\ A = Sum(f, s) /\ B = Sum(e, s) /\ D = Sum(f, s \cup {y})
                          /\ E = Sum(e, s \cup {y}) /\ v = f[y]
    OBVIOUS
  <2>8. /\ A \in Int /\ v \in Int /\ B = c * A /\ D = A + v /\ E = B + c * v
    BY ONLY <2>1, <2>2, <2>4, <2>5, <2>6, <2>7, y \in S
  <2>9. c * (A + v) = c * A + c * v
    BY ONLY <2>8, c \in Int
  <2>10. E = c * D
    BY ONLY <2>8, <2>9
  <2>11. Sum(e, s \cup {y}) = c * Sum(f, s \cup {y})
    BY ONLY <2>7, <2>10
  <2>12. QED
    BY <2>11
<1>3. S \in C
  <2> HIDE DEF C
  <2>1. QED
    BY <1>1, <1>2, SubsetInduction
<1>4. QED
  BY <1>3

\* A set is counted by ones.
LEMMA CountSum ==
    ASSUME NEW S, IsFiniteSet(S), NEW R, R \subseteq S, NEW h \in [S -> Int],
           \A x \in R : h[x] = 1, \A x \in S \ R : h[x] = 0
    PROVE  SumFunction(h) = Cardinality(R) /\ Cardinality(R) \in Nat
<1> DEFINE Sum(s) == SumFunctionOnSet(h, s)
           C == {s \in SUBSET R : Sum(s) = Cardinality(s)}
<1>0. IsFiniteSet(R)
  BY FS_Subset
<1>1. {} \in C
  BY SumEmpty, FS_EmptySet
<1>2. ASSUME NEW s \in SUBSET R, NEW y \in R \ s, s \in C
      PROVE  s \cup {y} \in C
  <2>1. IsFiniteSet(s) /\ y \notin s /\ \A x \in s \cup {y} : h[x] \in Int
    BY <1>0, FS_Subset
  <2>2. Sum(s \cup {y}) = Sum(s) + h[y]
    BY <2>1, SumAdd
  <2>3. Cardinality(s \cup {y}) = Cardinality(s) + 1
    BY <2>1, FS_AddElement
  <2>4. h[y] = 1 /\ Sum(s) = Cardinality(s)
    BY <1>2
  <2> HIDE DEF Sum
  <2>5. Sum(s \cup {y}) = Cardinality(s \cup {y})
    BY ONLY <2>2, <2>3, <2>4
  <2>6. QED
    BY <2>5
<1> HIDE DEF C
<1>3. R \in C
  BY <1>0, <1>1, <1>2, SubsetInduction
<1>4. SumFunctionOnSet(h, S) = SumFunctionOnSet(h, R)
  <2>1. \A x \in S : h[x] \in Int
    OBVIOUS
  <2>2. QED
    BY <2>1, SumSupport
<1>5. DOMAIN h = S
  OBVIOUS
<1>6. QED
  BY <1>0, <1>3, <1>4, <1>5, FS_CardinalityType DEF C, SumFunction

\* A sum over fewer natural numbers is smaller.
LEMMA SumSubset ==
    ASSUME NEW S, IsFiniteSet(S), NEW R, R \subseteq S, NEW f, \A x \in S : f[x] \in Nat
    PROVE  SumFunctionOnSet(f, R) <= SumFunctionOnSet(f, S)
<1> DEFINE g == [x \in S |-> IF x \in R THEN f[x] ELSE 0]
<1>1. \A x \in S : g[x] \in Int /\ f[x] \in Int /\ g[x] <= f[x]
  OBVIOUS
<1>2. (\A x \in S \ R : g[x] = 0) /\ \A x \in R : g[x] = f[x]
  OBVIOUS
<1>3. IsFiniteSet(R)
  BY FS_Subset
<1> HIDE DEF g
<1>4. SumFunctionOnSet(g, S) <= SumFunctionOnSet(f, S)
  BY <1>1, SumMonotone
<1>5. SumFunctionOnSet(g, S) = SumFunctionOnSet(g, R)
  BY <1>1, <1>2, SumSupport
<1>6. SumFunctionOnSet(g, R) = SumFunctionOnSet(f, R)
  BY <1>2, <1>3, SumSame
<1>7. QED
  BY <1>4, <1>5, <1>6

\* Each term is covered by a term of its own of another sum.
LEMMA SumCovered ==
    ASSUME NEW S, IsFiniteSet(S), NEW T, IsFiniteSet(T), NEW f, NEW w, NEW h,
           \A x \in S : f[x] \in Int /\ h[x] \in T /\ f[x] <= w[h[x]],
           \A x, y \in S : h[x] = h[y] => x = y,
           \A t \in T : w[t] \in Nat
    PROVE  SumFunctionOnSet(f, S) <= SumFunctionOnSet(w, T)
<1> DEFINE Sum(g, s) == SumFunctionOnSet(g, s)
           Img(s) == {h[x] : x \in s}
           C == {s \in SUBSET S : Sum(f, s) <= Sum(w, Img(s))}
<1>1. {} \in C
  <2>1. Img({}) = {} /\ Sum(f, {}) = 0 /\ Sum(w, {}) = 0
    BY SumEmpty
  <2>2. QED
    BY <2>1
<1>2. ASSUME NEW s \in SUBSET S, NEW y \in S \ s, s \in C
      PROVE  s \cup {y} \in C
  <2>1. IsFiniteSet(s) /\ \A x \in s \cup {y} : f[x] \in Int
    BY FS_Subset
  <2>2. Sum(f, s \cup {y}) = Sum(f, s) + f[y] /\ Sum(f, s) \in Int
    BY <2>1, SumAdd, SumInt
  <2>3. Img(s) \subseteq T /\ h[y] \in T /\ h[y] \notin Img(s) /\ Img(s \cup {y}) = Img(s) \cup {h[y]}
    OBVIOUS
  <2>4. IsFiniteSet(Img(s))
    BY <2>3, FS_Subset
  <2>5. \A t \in Img(s) \cup {h[y]} : w[t] \in Int
    BY <2>3
  <2>6. f[y] <= w[h[y]] /\ f[y] \in Int /\ w[h[y]] \in Int /\ Sum(f, s) <= Sum(w, Img(s))
    BY <1>2, <2>3
  <2> HIDE DEF Img
  <2>7. Sum(w, Img(s) \cup {h[y]}) = Sum(w, Img(s)) + w[h[y]] /\ Sum(w, Img(s)) \in Int
    BY ONLY <2>3, <2>4, <2>5, SumAdd, SumInt
  <2>10. Sum(w, Img(s \cup {y})) = Sum(w, Img(s)) + w[h[y]]
    BY ONLY <2>3, <2>7
  <2> HIDE DEF Sum
  <2>8. Sum(f, s \cup {y}) <= Sum(w, Img(s \cup {y}))
    BY ONLY <2>2, <2>6, <2>7, <2>10
  <2>9. QED
    BY <2>8
<1>3. Img(S) \subseteq T
  OBVIOUS
<1> HIDE DEF C
<1>4. S \in C
  BY <1>1, <1>2, SubsetInduction
<1>5. Sum(f, S) <= Sum(w, Img(S))
  BY <1>4 DEF C
<1> HIDE DEF Img
<1>6. Sum(w, Img(S)) <= Sum(w, T)
  BY <1>3, SumSubset
<1>7. Sum(f, S) \in Int /\ Sum(w, Img(S)) \in Int /\ Sum(w, T) \in Int
  <2>1. IsFiniteSet(Img(S)) /\ (\A t \in T : w[t] \in Int) /\ \A t \in Img(S) : w[t] \in Int
    BY <1>3, FS_Subset
  <2>2. QED
    BY <2>1, SumInt
<1> HIDE DEF Sum
<1>8. Sum(f, S) <= Sum(w, T)
  BY ONLY <1>5, <1>6, <1>7
<1>9. QED
  BY <1>8 DEF Sum

\* The sums of the rows and of the columns of a table: g by row, h by column.
Tabled(V, C, g, h, row, col) ==
    /\ \A v \in V : \A c \in C : g[v][c] \in Int /\ h[c][v] = g[v][c]
    /\ \A v \in V : row[v] = SumFunctionOnSet(g[v], C)
    /\ \A c \in C : col[c] = SumFunctionOnSet(h[c], V)

\* A double sum may be taken in either order.
LEMMA SumSwap ==
    ASSUME NEW V, IsFiniteSet(V), NEW C, IsFiniteSet(C), NEW g, NEW h, NEW row, NEW col,
           Tabled(V, C, g, h, row, col)
    PROVE  SumFunctionOnSet(row, V) = SumFunctionOnSet(col, C)
<1> USE DEF Tabled
<1> DEFINE part(s) == [v \in V |-> SumFunctionOnSet(g[v], s)]
           T == {s \in SUBSET C : SumFunctionOnSet(part(s), V) = SumFunctionOnSet(col, s)}
<1>0. ASSUME NEW s \in SUBSET C
      PROVE  IsFiniteSet(s) /\ \A v \in V : part(s)[v] = SumFunctionOnSet(g[v], s)
                                          /\ part(s)[v] \in Int
  <2>1. IsFiniteSet(s)
    BY FS_Subset
  <2>2. ASSUME NEW v \in V PROVE SumFunctionOnSet(g[v], s) \in Int
    <3>1. \A c \in s : g[v][c] \in Int
      OBVIOUS
    <3>2. QED
      BY <2>1, <3>1, SumInt
  <2>3. QED
    BY <2>1, <2>2
<1>1. {} \in T
  <2>1. \A v \in V : part({})[v] = 0
    BY SumEmpty
  <2>2. SumFunctionOnSet(part({}), V) = 0
    BY <2>1, SumZero
  <2>3. QED
    BY <2>2, SumEmpty
<1>2. ASSUME NEW s \in SUBSET C, NEW y \in C \ s, s \in T
      PROVE  s \cup {y} \in T
  <2>1. IsFiniteSet(s) /\ s \cup {y} \in SUBSET C
    BY <1>0
  <2>2. \A v \in V : /\ part(s)[v] \in Int /\ h[y][v] \in Int
                     /\ part(s \cup {y})[v] = part(s)[v] + h[y][v]
    <3>1. TAKE v \in V
    <3>2. \A c \in s \cup {y} : g[v][c] \in Int
      OBVIOUS
    <3>3. SumFunctionOnSet(g[v], s \cup {y}) = SumFunctionOnSet(g[v], s) + g[v][y]
      BY ONLY <2>1, <3>2, y \in C \ s, SumAdd
    <3>4. QED
      BY <1>0, <2>1, <3>3
  <2>3. SumFunctionOnSet(part(s \cup {y}), V)
          = SumFunctionOnSet(part(s), V) + SumFunctionOnSet(h[y], V)
    <3> HIDE DEF part
    <3>1. QED
      BY ONLY <2>2, IsFiniteSet(V), SumPlus
  <2>4. \A c \in C : col[c] \in Int
    <3>1. TAKE c \in C
    <3>2. \A v \in V : h[c][v] \in Int
      OBVIOUS
    <3>3. SumFunctionOnSet(h[c], V) \in Int
      BY <3>2, SumInt
    <3>4. QED
      BY <3>3
  <2>5. SumFunctionOnSet(col, s \cup {y}) = SumFunctionOnSet(col, s) + col[y]
    <3>1. \A x \in s \cup {y} : col[x] \in Int
      BY <2>4
    <3>2. QED
      BY ONLY <2>1, <3>1, y \in C \ s, SumAdd
  <2>6. col[y] = SumFunctionOnSet(h[y], V)
    OBVIOUS
  <2>7. SumFunctionOnSet(part(s), V) = SumFunctionOnSet(col, s)
    BY <1>2
  <2>8. SumFunctionOnSet(part(s \cup {y}), V) = SumFunctionOnSet(col, s \cup {y})
    BY ONLY <2>3, <2>5, <2>6, <2>7
  <2>9. QED
    BY <2>1, <2>8
<1>3. C \in T
  <2> HIDE DEF T
  <2>1. QED
    BY <1>1, <1>2, SubsetInduction
<1>4. SumFunctionOnSet(part(C), V) = SumFunctionOnSet(col, C)
  BY <1>3
<1>5. \A v \in V : row[v] = part(C)[v]
  OBVIOUS
<1>6. SumFunctionOnSet(row, V) = SumFunctionOnSet(part(C), V)
  <2> HIDE DEF part
  <2>1. QED
    BY <1>5, SumSame
<1>7. QED
  BY <1>4, <1>6

\* A term is added, and two sums are added, in the form of a predicate.
Joined(S, y, f, e) ==
    /\ IsFiniteSet(S) /\ y \notin S
    /\ f \in [S -> Int] /\ e \in [S \cup {y} -> Int]
    /\ \A x \in S : e[x] = f[x]

LEMMA TotalJoined ==
    ASSUME NEW S, NEW y, NEW f, NEW e, Joined(S, y, f, e)
    PROVE  SumFunction(e) = SumFunction(f) + e[y]
BY TotalAdd DEF Joined

Termwise(S, f, e, h) ==
    /\ IsFiniteSet(S) /\ f \in [S -> Int] /\ e \in [S -> Int] /\ h \in [S -> Int]
    /\ \A x \in S : h[x] = f[x] + e[x]

LEMMA TotalTermwise ==
    ASSUME NEW S, NEW f, NEW e, NEW h, Termwise(S, f, e, h)
    PROVE  SumFunction(h) = SumFunction(f) + SumFunction(e)
BY TotalPlus DEF Termwise
================================================================================
