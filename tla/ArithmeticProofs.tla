-------------------------- MODULE ArithmeticProofs --------------------------
(***************************************************************************)
(* The arithmetic of the ledger: what the rounding of convert-minor.ts     *)
(* guarantees for every amount and every rate, and that the sum of numbers *)
(* over a finite set is a sum, whatever order the library adds them in.    *)
(***************************************************************************)
EXTENDS ConvertMinor, Functions, FiniteSetTheorems, WellFoundedInduction, TLAPS

-----------------------------------------------------------------------------
(* Rounding.                                                                *)

\* Rounding a natural fraction half to even gives a natural number.
LEMMA HalfEvenNat ==
    ASSUME NEW x \in Nat, NEW d \in Nat \ {0}
    PROVE  HalfEven(x, d) \in Nat
<1>1. x \div d \in Nat /\ x % d \in Nat
  OBVIOUS
<1> QED
  BY <1>1 DEF HalfEven

\* convertMinor of a natural amount is a natural amount.
LEMMA ConvertMinorNat ==
    ASSUME NEW a \in Nat, NEW rate \in (Nat \ {0}) \X (Nat \ {0})
    PROVE  ConvertMinorAmount(a, rate) \in Nat
<1>1. rate[1] \in Nat /\ rate[2] \in Nat \ {0}
  OBVIOUS
<1>2. a * rate[1] \in Nat
  BY <1>1
<1> QED
  BY <1>1, <1>2, HalfEvenNat DEF ConvertMinorAmount

\* The rounded value is within half a minor unit of the exact one: the error
\* x - d * HalfEven(x, d), in units of 1/d, is at most d/2 either way.
THEOREM RoundingError ==
    ASSUME NEW x \in Nat, NEW d \in Nat \ {0}
    PROVE  /\ 2 * (x - d * HalfEven(x, d)) <= d
           /\ 2 * (d * HalfEven(x, d) - x) <= d
<1> DEFINE q == x \div d
           r == x % d
<1>1. q \in Nat /\ r \in 0 .. d - 1 /\ x = d * q + r
  OBVIOUS
<1>2. d * (q + 1) = d * q + d
  BY <1>1
<1> HIDE DEF q, r
<1>3. CASE 2 * r < d \/ (2 * r = d /\ q % 2 = 0)
  <2>1. HalfEven(x, d) = q
    BY <1>3 DEF HalfEven, q, r
  <2> QED
    BY <2>1, <1>1, <1>3
<1>4. CASE ~(2 * r < d \/ (2 * r = d /\ q % 2 = 0))
  <2>1. HalfEven(x, d) = q + 1
    BY <1>4 DEF HalfEven, q, r
  <2>2. 2 * r >= d
    BY <1>1, <1>4
  <2> QED
    BY <2>1, <2>2, <1>1, <1>2
<1> QED
  BY <1>3, <1>4

-----------------------------------------------------------------------------
(***************************************************************************)
(* Sums.  SumFunctionOnSet(f, S) is the value at S of a recursive function *)
(* on the subsets of S.  That such a function exists is proved on the      *)
(* subsets of at most n elements, for n = 0, 1, ...: the induction theorems*)
(* of the library are out of reach, for they take an operator, but that    *)
(* every set of natural numbers has a least element is not.                *)
(***************************************************************************)
PartialSums(f, S) ==
    CHOOSE iter : iter = [s \in SUBSET S |->
        IF s = {} THEN 0 ELSE f[CHOOSE x \in s : TRUE] + iter[s \ {CHOOSE x \in s : TRUE}]]

LEMMA SumIsPartial ==
    ASSUME NEW f, NEW S
    PROVE  SumFunctionOnSet(f, S) = PartialSums(f, S)[S]
BY Zenon DEF SumFunctionOnSet, FoldFunctionOnSet, MapThenFoldSet, PartialSums

\* Induction over the natural numbers.
LEMMA NaturalNumbers ==
    ASSUME NEW H \in SUBSET Nat, 0 \in H, \A n \in H : n + 1 \in H
    PROVE  H = Nat
<1> SUFFICES ASSUME Nat \ H # {} PROVE FALSE
  OBVIOUS
<1> DEFINE before == {ss \in Nat \X Nat : ss[1] < ss[2]}
<1>1. IsWellFoundedOn(before, Nat)
  BY NatLessThanWellFounded, Zenon DEF OpToRel
<1>2. \A g, h \in Nat : g < h => <<g, h>> \in before
  OBVIOUS
<1> HIDE DEF before
<1>3. PICK n \in Nat \ H : \A m \in Nat \ H : <<m, n>> \notin before
  <2>1. Nat \ H \in SUBSET Nat
    OBVIOUS
  <2> QED
    BY <1>1, <2>1, WFMin
<1>4. n # 0 /\ n - 1 \in Nat /\ n - 1 < n /\ (n - 1) + 1 = n
  BY <1>3
<1>5. n - 1 \in H
  BY <1>2, <1>3, <1>4
<1> QED
  BY <1>3, <1>4, <1>5

\* Induction over the finite subsets: what holds of a set when it holds of the
\* set without any one of its elements holds of all.
LEMMA FiniteSubsets ==
    ASSUME NEW S, IsFiniteSet(S), NEW C \in SUBSET SUBSET S,
           \A T \in SUBSET S : (\A x \in T : T \ {x} \in C) => T \in C
    PROVE  C = SUBSET S
<1> DEFINE H == {n \in Nat : \A T \in SUBSET S : Cardinality(T) <= n => T \in C}
<1>1. \A T \in SUBSET S : IsFiniteSet(T) /\ Cardinality(T) \in Nat
  BY FS_Subset, FS_CardinalityType
<1>2. \A T \in SUBSET S : \A x \in T : Cardinality(T \ {x}) = Cardinality(T) - 1
  BY <1>1, FS_RemoveElement
<1>3. 0 \in H
  <2>1. \A T \in SUBSET S : Cardinality(T) <= 0 => T = {}
    BY <1>1, FS_EmptySet
  <2>2. {} \in C
    OBVIOUS
  <2> QED
    BY <2>1, <2>2
<1>4. ASSUME NEW n \in H PROVE n + 1 \in H
  <2> SUFFICES ASSUME NEW T \in SUBSET S, Cardinality(T) <= n + 1 PROVE T \in C
    OBVIOUS
  <2>1. \A x \in T : Cardinality(T \ {x}) <= n /\ T \ {x} \in SUBSET S
    BY <1>1, <1>2
  <2> QED
    BY <2>1
<1>5. H = Nat
  <2> HIDE DEF H
  <2>1. H \in SUBSET Nat
    BY DEF H
  <2> QED
    BY <1>3, <1>4, <2>1, NaturalNumbers
<1> QED
  BY <1>1, <1>5

Small(S, n) == {T \in SUBSET S : Cardinality(T) <= n}
Chosen(T) == CHOOSE x \in T : TRUE

AddsUp(F, f, S) ==
    /\ F[{}] = 0
    /\ \A T \in SUBSET S : T # {} => F[T] = f[Chosen(T)] + F[T \ {Chosen(T)}]

\* The recursive function the library sums with exists on finite sets.
LEMMA PartialSumsExist ==
    ASSUME NEW f, NEW S, IsFiniteSet(S)
    PROVE  AddsUp(PartialSums(f, S), f, S)
<1>1. \A T \in SUBSET S : IsFiniteSet(T) /\ Cardinality(T) \in Nat
  BY FS_Subset, FS_CardinalityType
<1>2. \A T \in SUBSET S : T # {} => Chosen(T) \in T
  BY DEF Chosen
<1>3. \A T \in SUBSET S : T # {} => Cardinality(T \ {Chosen(T)}) = Cardinality(T) - 1
  BY <1>1, <1>2, FS_RemoveElement
<1> DEFINE H == {n \in Nat : \E g : g = [T \in Small(S, n) |->
                    IF T = {} THEN 0 ELSE f[Chosen(T)] + g[T \ {Chosen(T)}]]}
<1>4. 0 \in H
  <2> DEFINE g == [T \in Small(S, 0) |-> 0]
  <2>1. \A T \in Small(S, 0) : T = {}
    BY <1>1, FS_EmptySet DEF Small
  <2>2. g = [T \in Small(S, 0) |-> IF T = {} THEN 0 ELSE f[Chosen(T)] + g[T \ {Chosen(T)}]]
    BY <2>1
  <2> QED
    BY <2>2
<1>5. ASSUME NEW n \in H PROVE n + 1 \in H
  <2>1. PICK g : g = [T \in Small(S, n) |-> IF T = {} THEN 0 ELSE f[Chosen(T)] + g[T \ {Chosen(T)}]]
    OBVIOUS
  <2> DEFINE h == [T \in Small(S, n + 1) |-> IF T = {} THEN 0 ELSE f[Chosen(T)] + g[T \ {Chosen(T)}]]
  <2>2. Small(S, n) \subseteq Small(S, n + 1)
    BY <1>1 DEF Small
  <2>3. \A T \in Small(S, n) : h[T] = g[T]
    BY <2>1, <2>2
  <2>4. \A T \in Small(S, n + 1) : T # {} => T \ {Chosen(T)} \in Small(S, n)
    BY <1>1, <1>3 DEF Small
  <2>5. h = [T \in Small(S, n + 1) |-> IF T = {} THEN 0 ELSE f[Chosen(T)] + h[T \ {Chosen(T)}]]
    BY <2>3, <2>4
  <2> HIDE DEF h
  <2>6. n + 1 \in Nat
    OBVIOUS
  <2> QED
    BY <2>5, <2>6
<1>6. H = Nat
  <2> HIDE DEF H
  <2>1. H \in SUBSET Nat
    BY DEF H
  <2> QED
    BY <1>4, <1>5, <2>1, NaturalNumbers
<1>7. Small(S, Cardinality(S)) = SUBSET S
  BY <1>1, FS_Subset DEF Small
<1>8. \E g : g = [T \in SUBSET S |-> IF T = {} THEN 0 ELSE f[Chosen(T)] + g[T \ {Chosen(T)}]]
  <2>1. Cardinality(S) \in H
    BY <1>6, FS_CardinalityType
  <2>2. \E g : g = [T \in Small(S, Cardinality(S)) |->
                    IF T = {} THEN 0 ELSE f[Chosen(T)] + g[T \ {Chosen(T)}]]
    BY <2>1
  <2> QED
    BY <1>7, <2>2
<1>9. PartialSums(f, S) = [T \in SUBSET S |->
          IF T = {} THEN 0 ELSE f[Chosen(T)] + PartialSums(f, S)[T \ {Chosen(T)}]]
  BY <1>8, Zenon DEF PartialSums, Chosen
<1>10. PICK F : F = PartialSums(f, S)
  OBVIOUS
<1>11. F = [T \in SUBSET S |-> IF T = {} THEN 0 ELSE f[Chosen(T)] + F[T \ {Chosen(T)}]]
  BY <1>9, <1>10, Zenon
<1>12. AddsUp(F, f, S)
  BY <1>11 DEF AddsUp
<1> QED
  BY <1>10, <1>12

\* Two sums of the same numbers over the same set are the same, wherever the
\* set is taken from.
LEMMA SameSums ==
    ASSUME NEW S, NEW R, IsFiniteSet(S), IsFiniteSet(R), NEW f, NEW g,
           NEW T \in SUBSET S, T \in SUBSET R, \A x \in T : f[x] = g[x]
    PROVE  PartialSums(f, S)[T] = PartialSums(g, R)[T]
<1>a. AddsUp(PartialSums(f, S), f, S)
  BY PartialSumsExist
<1>b. AddsUp(PartialSums(g, R), g, R)
  BY PartialSumsExist
<1> DEFINE F == PartialSums(f, S)
           G == PartialSums(g, R)
           C == {U \in SUBSET T : F[U] = G[U]}
<1>1. /\ F[{}] = 0 /\ \A U \in SUBSET S : U # {} => F[U] = f[Chosen(U)] + F[U \ {Chosen(U)}]
      /\ G[{}] = 0 /\ \A U \in SUBSET R : U # {} => G[U] = g[Chosen(U)] + G[U \ {Chosen(U)}]
  BY <1>a, <1>b, Zenon DEF AddsUp
<1> HIDE DEF F, G
<1>2. ASSUME NEW U \in SUBSET T, \A x \in U : U \ {x} \in C PROVE U \in C
  <2>1. CASE U = {}
    BY <1>1, <2>1
  <2>2. CASE U # {}
    <3>1. Chosen(U) \in U
      BY <2>2 DEF Chosen
    <3> QED
      BY <1>1, <1>2, <2>2, <3>1
  <2> QED
    BY <2>1, <2>2
<1>3. IsFiniteSet(T)
  BY FS_Subset
<1>4. C = SUBSET T
  <2> HIDE DEF C
  <2>1. C \in SUBSET SUBSET T
    BY DEF C
  <2> QED
    BY <1>2, <1>3, <2>1, FiniteSubsets
<1> QED
  BY <1>4 DEF F, G

\* A sum does not depend on the order of its terms.
LEMMA SumRemove ==
    ASSUME NEW S, IsFiniteSet(S), NEW f, \A x \in S : f[x] \in Int
    PROVE  /\ SumFunctionOnSet(f, S) \in Int
           /\ \A x \in S : SumFunctionOnSet(f, S) = f[x] + SumFunctionOnSet(f, S \ {x})
<1>a. AddsUp(PartialSums(f, S), f, S)
  BY PartialSumsExist
<1> DEFINE F == PartialSums(f, S)
           C == {T \in SUBSET S : \A x \in T : F[T] = f[x] + F[T \ {x}]}
<1>1. F[{}] = 0 /\ \A T \in SUBSET S : T # {} => F[T] = f[Chosen(T)] + F[T \ {Chosen(T)}]
  BY <1>a, Zenon DEF AddsUp
<1> HIDE DEF F
<1>5. \A T \in SUBSET S : F[T] \in Int
  <2> DEFINE I == {T \in SUBSET S : F[T] \in Int}
  <2>1. ASSUME NEW T \in SUBSET S, \A x \in T : T \ {x} \in I PROVE T \in I
    <3>1. CASE T = {}
      BY <1>1, <3>1
    <3>2. CASE T # {}
      <4>1. Chosen(T) \in T
        BY <3>2 DEF Chosen
      <4>2. f[Chosen(T)] \in Int /\ F[T \ {Chosen(T)}] \in Int
        BY <2>1, <4>1
      <4>3. PICK a \in Int, b \in Int : a = f[Chosen(T)] /\ b = F[T \ {Chosen(T)}]
        BY <4>2
      <4>4. F[T] = a + b
        BY <1>1, <3>2, <4>3
      <4> QED
        BY <4>4
    <3> QED
      BY <3>1, <3>2
  <2>2. I = SUBSET S
    <3> HIDE DEF I
    <3>1. I \in SUBSET SUBSET S
      BY DEF I
    <3> QED
      BY <2>1, <3>1, FiniteSubsets
  <2> QED
    BY <2>2
<1>2. ASSUME NEW T \in SUBSET S, \A x \in T : T \ {x} \in C PROVE T \in C
  <2>1. CASE T = {}
    BY <1>1, <2>1
  <2>2. CASE T # {}
    <3> DEFINE c == Chosen(T)
    <3>1. c \in T /\ F[T] = f[c] + F[T \ {c}] /\ F[T \ {c}] \in Int /\ f[c] \in Int
      BY <1>1, <1>5, <2>2 DEF Chosen
    <3> HIDE DEF c
    <3>2. ASSUME NEW x \in T PROVE F[T] = f[x] + F[T \ {x}]
      <4>1. CASE x = c
        BY <3>1, <4>1
      <4>2. CASE x # c
        <5>1. F[T \ {c}] = f[x] + F[(T \ {c}) \ {x}]
          BY <1>2, <3>1, <4>2
        <5>2. F[T \ {x}] = f[c] + F[(T \ {x}) \ {c}] /\ F[T \ {x}] \in Int
          BY <1>2, <1>5, <3>1, <4>2
        <5>3. (T \ {c}) \ {x} = (T \ {x}) \ {c}
          OBVIOUS
        <5>4. F[(T \ {x}) \ {c}] \in Int
          BY <1>5
        <5>5. PICK a \in Int, b \in Int, d \in Int :
                 a = f[x] /\ b = f[c] /\ d = F[(T \ {x}) \ {c}]
          BY <3>1, <5>4
        <5>6. F[T \ {c}] = a + d /\ F[T \ {x}] = b + d
          BY <5>1, <5>2, <5>3, <5>5
        <5>7. F[T] = b + (a + d)
          BY <3>1, <5>5, <5>6
        <5> QED
          BY <5>5, <5>6, <5>7
      <4> QED
        BY <4>1, <4>2
    <3> QED
      BY <3>1, <3>2
  <2> QED
    BY <2>1, <2>2
<1>3. C = SUBSET S
  <2> HIDE DEF C
  <2>1. C \in SUBSET SUBSET S
    BY DEF C
  <2> QED
    BY <1>2, <2>1, FiniteSubsets
<1>4. F[S] \in Int /\ \A x \in S : F[S] = f[x] + F[S \ {x}]
  BY <1>3, <1>5
<1>6. ASSUME NEW x \in S PROVE F[S \ {x}] = PartialSums(f, S \ {x})[S \ {x}]
  <2>1. IsFiniteSet(S \ {x})
    BY FS_Subset
  <2> QED
    BY <2>1, SameSums DEF F
<1> QED
  BY <1>4, <1>6, SumIsPartial DEF F

\* Sums of numbers that agree.
LEMMA SumSame ==
    ASSUME NEW S, IsFiniteSet(S), NEW f, NEW g, \A x \in S : f[x] = g[x]
    PROVE  SumFunctionOnSet(f, S) = SumFunctionOnSet(g, S)
<1>1. PartialSums(f, S)[S] = PartialSums(g, S)[S]
  BY SameSums
<1> QED
  BY <1>1, SumIsPartial

\* T has one element more than S, and g gives numbers to T as f does to S.
OneMore(S, T, y, f, g) ==
    /\ IsFiniteSet(S)
    /\ y \notin S
    /\ T = S \cup {y}
    /\ \A x \in S : f[x] \in Int /\ g[x] = f[x]
    /\ g[y] \in Int

\* One more number is added.
LEMMA SumInsert ==
    ASSUME NEW S, NEW T, NEW y, NEW f, NEW g, OneMore(S, T, y, f, g)
    PROVE  /\ IsFiniteSet(T)
           /\ SumFunctionOnSet(f, S) \in Int
           /\ SumFunctionOnSet(g, T) = SumFunctionOnSet(f, S) + g[y]
<1> USE DEF OneMore
<1>1. IsFiniteSet(T)
  BY FS_AddElement
<1>2. \A x \in T : g[x] \in Int
  OBVIOUS
<1>3. SumFunctionOnSet(g, T) = g[y] + SumFunctionOnSet(g, T \ {y})
  BY <1>1, <1>2, SumRemove
<1>4. T \ {y} = S
  OBVIOUS
<1>5. SumFunctionOnSet(f, S) = SumFunctionOnSet(g, S)
  <2>1. \A x \in S : f[x] = g[x]
    OBVIOUS
  <2> QED
    BY <2>1, SumSame
<1>6. SumFunctionOnSet(f, S) \in Int
  <2>1. \A x \in S : f[x] \in Int
    OBVIOUS
  <2> QED
    BY <2>1, SumRemove
<1>7. SumFunctionOnSet(g, T) = g[y] + SumFunctionOnSet(f, S)
  BY <1>3, <1>4, <1>5, Zenon
<1>8. g[y] + SumFunctionOnSet(f, S) = SumFunctionOnSet(f, S) + g[y]
  BY <1>6
<1>9. SumFunctionOnSet(g, T) = SumFunctionOnSet(f, S) + g[y]
  BY <1>7, <1>8, Zenon
<1> QED
  BY <1>1, <1>6, <1>9, Zenon

\* One number is changed.
LEMMA SumChange ==
    ASSUME NEW S, IsFiniteSet(S), NEW y \in S, NEW f, NEW g,
           \A x \in S : f[x] \in Int, g[y] \in Int, \A x \in S \ {y} : g[x] = f[x]
    PROVE  /\ SumFunctionOnSet(f, S) \in Int
           /\ SumFunctionOnSet(g, S) = SumFunctionOnSet(f, S) + (g[y] - f[y])
<1>1. IsFiniteSet(S \ {y})
  BY FS_Subset
<1>2. \A x \in S : g[x] \in Int
  OBVIOUS
<1>3. /\ SumFunctionOnSet(f, S) \in Int
      /\ SumFunctionOnSet(f, S) = f[y] + SumFunctionOnSet(f, S \ {y})
  BY SumRemove
<1>4. SumFunctionOnSet(g, S) = g[y] + SumFunctionOnSet(g, S \ {y})
  BY <1>2, SumRemove
<1>5. SumFunctionOnSet(f, S \ {y}) = SumFunctionOnSet(g, S \ {y})
  <2>1. \A x \in S \ {y} : f[x] = g[x]
    OBVIOUS
  <2> QED
    BY <1>1, <2>1, SumSame
<1>6. SumFunctionOnSet(f, S \ {y}) \in Int
  <2>1. \A x \in S \ {y} : f[x] \in Int
    OBVIOUS
  <2> QED
    BY <1>1, <2>1, SumRemove
<1>7. PICK a \in Int : a = SumFunctionOnSet(f, S \ {y})
  BY <1>6
<1>8. /\ SumFunctionOnSet(f, S) = f[y] + a
      /\ SumFunctionOnSet(g, S) = g[y] + a
      /\ f[y] \in Int /\ g[y] \in Int
  BY <1>2, <1>3, <1>4, <1>5, <1>7, Zenon
<1> QED
  BY <1>3, <1>7, <1>8

\* A sum of zeros is zero.
LEMMA SumZeros ==
    ASSUME NEW S, IsFiniteSet(S), NEW f, \A x \in S : f[x] = 0
    PROVE  SumFunctionOnSet(f, S) = 0
<1>a. AddsUp(PartialSums(f, S), f, S)
  BY PartialSumsExist
<1> DEFINE F == PartialSums(f, S)
           C == {T \in SUBSET S : F[T] = 0}
<1>1. F[{}] = 0 /\ \A T \in SUBSET S : T # {} => F[T] = f[Chosen(T)] + F[T \ {Chosen(T)}]
  BY <1>a, Zenon DEF AddsUp
<1> HIDE DEF F
<1>2. ASSUME NEW T \in SUBSET S, \A x \in T : T \ {x} \in C PROVE T \in C
  <2>1. CASE T = {}
    BY <1>1, <2>1
  <2>2. CASE T # {}
    <3>1. Chosen(T) \in T
      BY <2>2 DEF Chosen
    <3>2. f[Chosen(T)] = 0 /\ F[T \ {Chosen(T)}] = 0
      BY <1>2, <3>1
    <3>3. F[T] = 0 + 0
      BY <1>1, <2>2, <3>2
    <3> QED
      BY <3>3
  <2> QED
    BY <2>1, <2>2
<1>3. C = SUBSET S
  <2> HIDE DEF C
  <2>1. C \in SUBSET SUBSET S
    BY DEF C
  <2> QED
    BY <1>2, <2>1, FiniteSubsets
<1>4. F[S] = 0
  BY <1>3
<1> QED
  BY <1>4, SumIsPartial DEF F

-----------------------------------------------------------------------------
(***************************************************************************)
(* Folds.  What the library's folds compute is a recursive function on the *)
(* subsets of a finite set; that one exists is proved as for the sums.     *)
(***************************************************************************)
\* What a fold over a finite set computes exists: base for no element, and
\* G[F[the set without the element taken], the element] for the others,
\* whichever element pick takes first.
Folds(F, S, base, G, pick) ==
    F = [T \in SUBSET S |-> IF T = {} THEN base ELSE G[<<F[T \ {pick[T]}], pick[T]>>]]

LEMMA FoldExists ==
    ASSUME NEW S, IsFiniteSet(S), NEW X, NEW base \in X, NEW G \in [X \X S -> X],
           NEW pick, \A T \in SUBSET S : T # {} => pick[T] \in T
    PROVE  \E F \in [SUBSET S -> X] : Folds(F, S, base, G, pick)
<1>1. \A T \in SUBSET S : IsFiniteSet(T) /\ Cardinality(T) \in Nat
  BY FS_Subset, FS_CardinalityType
<1>3. \A T \in SUBSET S : T # {} => Cardinality(T \ {pick[T]}) = Cardinality(T) - 1
  BY <1>1, FS_RemoveElement
<1> DEFINE H == {n \in Nat : \E g \in [Small(S, n) -> X] : g = [T \in Small(S, n) |->
                    IF T = {} THEN base ELSE G[<<g[T \ {pick[T]}], pick[T]>>]]}
<1>4. 0 \in H
  <2> DEFINE g == [T \in Small(S, 0) |-> base]
  <2>1. \A T \in Small(S, 0) : T = {}
    BY <1>1, FS_EmptySet DEF Small
  <2>2. g = [T \in Small(S, 0) |-> IF T = {} THEN base ELSE G[<<g[T \ {pick[T]}], pick[T]>>]]
    BY <2>1
  <2>3. g \in [Small(S, 0) -> X]
    OBVIOUS
  <2> HIDE DEF g
  <2> QED
    BY <2>2, <2>3
<1>5. ASSUME NEW n \in H PROVE n + 1 \in H
  <2>1. PICK g \in [Small(S, n) -> X] : g = [T \in Small(S, n) |->
                IF T = {} THEN base ELSE G[<<g[T \ {pick[T]}], pick[T]>>]]
    OBVIOUS
  <2> DEFINE h == [T \in Small(S, n + 1) |-> IF T = {} THEN base ELSE G[<<g[T \ {pick[T]}], pick[T]>>]]
  <2>2. Small(S, n) \subseteq Small(S, n + 1)
    BY <1>1 DEF Small
  <2>3. \A T \in Small(S, n) : h[T] = g[T]
    BY <2>1, <2>2
  <2>4. \A T \in Small(S, n + 1) : T # {} => pick[T] \in S /\ T \ {pick[T]} \in Small(S, n)
    BY <1>1, <1>3 DEF Small
  <2>5. h = [T \in Small(S, n + 1) |-> IF T = {} THEN base ELSE G[<<h[T \ {pick[T]}], pick[T]>>]]
    BY <2>3, <2>4
  <2>6. h \in [Small(S, n + 1) -> X]
    BY <2>4
  <2> HIDE DEF h
  <2>7. n + 1 \in Nat
    OBVIOUS
  <2> QED
    BY <2>5, <2>6, <2>7
<1>6. H = Nat
  <2> HIDE DEF H
  <2>1. H \in SUBSET Nat
    BY DEF H
  <2> QED
    BY <1>4, <1>5, <2>1, NaturalNumbers
<1>7. Small(S, Cardinality(S)) = SUBSET S
  BY <1>1, FS_Subset DEF Small
<1>8. Cardinality(S) \in H
  BY <1>6, FS_CardinalityType
<1>9. PICK F \in [Small(S, Cardinality(S)) -> X] : F = [T \in Small(S, Cardinality(S)) |->
          IF T = {} THEN base ELSE G[<<F[T \ {pick[T]}], pick[T]>>]]
  BY <1>8
<1>10. F \in [SUBSET S -> X]
  BY <1>7, <1>9
<1>11. \A T \in SUBSET S : F[T] = IF T = {} THEN base ELSE G[<<F[T \ {pick[T]}], pick[T]>>]
  BY <1>7, <1>9
<1>12. F = [T \in SUBSET S |-> IF T = {} THEN base ELSE G[<<F[T \ {pick[T]}], pick[T]>>]]
  BY <1>10, <1>11
<1> QED
  BY <1>10, <1>12 DEF Folds

\* A set of places that is not empty has a last one.
Greatest(T) == CHOOSE x \in T : \A y \in T : x >= y

LEMMA GreatestPlace ==
    ASSUME NEW n \in Nat, NEW T \in SUBSET (1..n), T # {}
    PROVE  Greatest(T) \in T /\ \A y \in T : Greatest(T) >= y
<1> DEFINE H == {m \in Nat : \A U \in SUBSET (1..m) : U # {} => \E x \in U : \A y \in U : x >= y}
<1>1. 0 \in H
  <2>1. 1..0 = {}
    OBVIOUS
  <2> QED
    BY <2>1
<1>2. ASSUME NEW m \in H PROVE m + 1 \in H
  <2> SUFFICES ASSUME NEW U \in SUBSET (1..m + 1), U # {} PROVE \E x \in U : \A y \in U : x >= y
    OBVIOUS
  <2>1. CASE m + 1 \in U
    BY <2>1
  <2>2. CASE m + 1 \notin U
    <3>1. U \in SUBSET (1..m)
      BY <2>2
    <3> QED
      BY <3>1
  <2> QED
    BY <2>1, <2>2
<1>3. H = Nat
  <2> HIDE DEF H
  <2>1. H \in SUBSET Nat
    BY DEF H
  <2> QED
    BY <1>1, <1>2, <2>1, NaturalNumbers
<1>4. n \in H
  BY <1>3
<1>5. \E x \in T : \A y \in T : x >= y
  BY <1>4
<1> QED
  BY <1>5 DEF Greatest
=============================================================================
