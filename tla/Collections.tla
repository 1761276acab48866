---------------------------- MODULE Collections ----------------------------
(***************************************************************************)
(* Lemmas about the data the models are built from: documents kept in      *)
(* sequences, workers counted by where they stand, and quantities summed   *)
(* over finite sets.                                                       *)
(*                                                                         *)
(* SumFunction folds with a recursive function.  What it returns is proved *)
(* by induction on the number of elements, in the form the provers can use *)
(* without an operator as a parameter: the set of sizes at which a claim   *)
(* fails is a set of naturals, and if it is not empty it has a least one.  *)
(***************************************************************************)
EXTENDS Integers, Sequences, FiniteSetsExt, Functions,
        SequenceTheorems, FiniteSetTheorems, WellFoundedInduction, TLAPS

-----------------------------------------------------------------------------
(* Documents: the ways a collection in order of insertion is written.      *)

LEMMA AppendDocument ==
    ASSUME NEW S, NEW L \in Seq(S), NEW e \in S
    PROVE  /\ Append(L, e) \in Seq(S)
           /\ DOMAIN Append(L, e) = 1..(Len(L) + 1)
           /\ DOMAIN L = 1..Len(L)
           /\ Len(L) \in Nat
           /\ \A d \in DOMAIN L : Append(L, e)[d] = L[d]
           /\ Append(L, e)[Len(L) + 1] = e
  BY AppendProperties, LenProperties

LEMMA ReplaceDocument ==
    ASSUME NEW S, NEW L \in Seq(S), NEW i \in DOMAIN L, NEW e \in S
    PROVE  /\ [L EXCEPT ![i] = e] \in Seq(S)
           /\ DOMAIN [L EXCEPT ![i] = e] = DOMAIN L
           /\ \A d \in DOMAIN L : [L EXCEPT ![i] = e][d] = IF d = i THEN e ELSE L[d]
  BY ExceptSeq, LenProperties

LEMMA DocumentAt ==
    ASSUME NEW S, NEW L \in Seq(S), NEW i \in DOMAIN L
    PROVE  L[i] \in S
  BY ElementOfSeq, LenProperties

(* The positions of a collection are finitely many naturals from 1.        *)
LEMMA Positions ==
    ASSUME NEW S, NEW L \in Seq(S)
    PROVE  /\ DOMAIN L = 1..Len(L)
           /\ Len(L) \in Nat
           /\ IsFiniteSet(DOMAIN L)
           /\ \A d \in DOMAIN L : d \in Nat \ {0}
  <1>1. DOMAIN L = 1..Len(L) /\ Len(L) \in Nat
    BY LenProperties
  <1>2. IsFiniteSet(1..Len(L))
    BY <1>1, FS_Interval
  <1>. QED  BY <1>1, <1>2

-----------------------------------------------------------------------------
(* Counting.                                                               *)

(* Two sets of workers that differ in at most one.                         *)
LEMMA OneMoves ==
    ASSUME NEW W, IsFiniteSet(W), NEW A, NEW B, A \subseteq W, B \subseteq W, NEW w,
           \A v \in W : v # w => (v \in A <=> v \in B)
    PROVE  /\ Cardinality(A) \in Nat /\ Cardinality(B) \in Nat
           /\ Cardinality(A) <= Cardinality(W) /\ Cardinality(W) \in Nat
           /\ w \in A /\ w \notin B => Cardinality(B) = Cardinality(A) - 1
           /\ w \notin A /\ w \in B => Cardinality(B) = Cardinality(A) + 1
           /\ (w \in A <=> w \in B) => Cardinality(B) = Cardinality(A)
  <1>1. /\ IsFiniteSet(A) /\ Cardinality(A) <= Cardinality(W)
        /\ IsFiniteSet(B) /\ Cardinality(B) <= Cardinality(W)
    BY FS_Subset
  <1>2. Cardinality(A) \in Nat /\ Cardinality(B) \in Nat /\ Cardinality(W) \in Nat
    BY <1>1, FS_CardinalityType
  <1>3. CASE w \in A /\ w \notin B
    <2>1. B = A \ {w}
      BY <1>3
    <2>. QED  BY <1>1, <1>2, <1>3, <2>1, FS_RemoveElement
  <1>4. CASE w \notin A /\ w \in B
    <2>1. B = A \cup {w}
      BY <1>4
    <2>. QED  BY <1>1, <1>2, <1>4, <2>1, FS_AddElement
  <1>5. CASE w \in A <=> w \in B
    <2>1. A = B
      BY <1>5
    <2>. QED  BY <1>1, <1>2, <2>1
  <1>. QED  BY <1>3, <1>4, <1>5

(* Workers counted twice are counted once each when the counts are of      *)
(* disjoint sets.                                                          *)
LEMMA CountApart ==
    ASSUME NEW W, IsFiniteSet(W), NEW A, NEW B, A \subseteq W, B \subseteq W, A \cap B = {}
    PROVE  /\ Cardinality(A) \in Nat /\ Cardinality(B) \in Nat /\ Cardinality(W) \in Nat
           /\ Cardinality(A) + Cardinality(B) <= Cardinality(W)
  <1>1. IsFiniteSet(A) /\ IsFiniteSet(B)
    BY FS_Subset
  <1>2. Cardinality(A \cup B) = Cardinality(A) + Cardinality(B) - Cardinality(A \cap B)
    BY <1>1, FS_Union
  <1>3. Cardinality(A \cap B) = 0
    BY FS_EmptySet
  <1>4. Cardinality(A \cup B) <= Cardinality(W)
    BY FS_Subset
  <1>5. Cardinality(A) \in Nat /\ Cardinality(B) \in Nat /\ Cardinality(W) \in Nat
    BY <1>1, FS_CardinalityType
  <1>. QED  BY <1>2, <1>3, <1>4, <1>5

-----------------------------------------------------------------------------
(* The least natural of a set.                                             *)

LEMMA LeastOfNat ==
    ASSUME NEW T, T \subseteq Nat, T # {}
    PROVE  \E x \in T : \A y \in T : x <= y
<1>. DEFINE R == OpToRel(<, Nat)
<1>1. \A x, y \in Nat : <<y, x>> \in R <=> y < x
  BY DEF OpToRel
<1>2. IsWellFoundedOn(R, Nat)
  BY NatLessThanWellFounded
<1>. HIDE DEF R
<1>3. \E x \in T : \A y \in T : ~ (<<y, x>> \in R)
  BY <1>2, WFMin
<1>4. PICK x \in T : \A y \in T : ~ (<<y, x>> \in R)
  BY <1>3
<1>5. \A y \in T : ~ (y < x)
  BY <1>1, <1>4
<1>6. \A y \in T : x <= y
  BY <1>5
<1>. QED BY <1>6

-----------------------------------------------------------------------------
(* Sums.  IsFold says that g is the recursive function of the fold over    *)
(* the sets of D; Picked is the element it takes first.                    *)

Picked(s) == CHOOSE x \in s : TRUE

IsFold(g, f, D) == g = [s \in D |-> IF s = {} THEN 0 ELSE f[Picked(s)] + g[s \ {Picked(s)}]]

(* What the definitions of the community modules come to.                  *)
LEMMA SumIsFold ==
  ASSUME NEW f, NEW S
  PROVE SumFunctionOnSet(f, S) = (CHOOSE g : IsFold(g, f, SUBSET S))[S]
BY DEF SumFunctionOnSet, FoldFunctionOnSet, MapThenFoldSet, IsFold, Picked

LEMMA PickedIn == ASSUME NEW s, s # {} PROVE Picked(s) \in s
BY DEF Picked

(* Induction over the subsets of a finite set: P is the set of those for   *)
(* which the claim holds.                                                  *)
LEMMA SubsetInduction ==
    ASSUME NEW S, IsFiniteSet(S), NEW P, {} \in P,
           \A s \in SUBSET S : s # {} /\ s \ {Picked(s)} \in P => s \in P
    PROVE  SUBSET S \subseteq P
<1>. DEFINE Bad == {n \in Nat : \E s \in SUBSET S : Cardinality(s) = n /\ s \notin P}
<1>1. \A s \in SUBSET S : IsFiniteSet(s) /\ Cardinality(s) \in Nat
  BY FS_Subset, FS_CardinalityType
<1>2. ASSUME Bad # {} PROVE FALSE
  <2>1. PICK n \in Bad : \A m \in Bad : n <= m
    BY <1>2, LeastOfNat
  <2>2. PICK s \in SUBSET S : Cardinality(s) = n /\ s \notin P
    BY <2>1
  <2>3. s # {}
    BY <2>2
  <2>4. Cardinality(s \ {Picked(s)}) = n - 1 /\ s \ {Picked(s)} \in SUBSET S
    BY <2>2, <2>3, <1>1, PickedIn, FS_RemoveElement
  <2>5. s \ {Picked(s)} \in P
    BY <2>1, <2>4, <1>1
  <2>. QED  BY <2>2, <2>3, <2>5
<1>. QED  BY <1>1, <1>2

Small(S, n) == {s \in SUBSET S : Cardinality(s) <= n}

(* The recursion has a solution on the subsets of a finite set: one on the *)
(* sets of up to n elements extends to one on those of n + 1.              *)
LEMMA FoldExists ==
  ASSUME NEW f, NEW S, IsFiniteSet(S)
  PROVE  \E g : IsFold(g, f, SUBSET S)
<1>. DEFINE Bad == {n \in Nat : ~ \E g : IsFold(g, f, Small(S, n))}
<1>1. \A s \in SUBSET S : IsFiniteSet(s) /\ Cardinality(s) \in Nat /\ Cardinality(s) <= Cardinality(S)
  BY FS_Subset, FS_CardinalityType
<1>2. \A s \in SUBSET S : s # {} => /\ s \ {Picked(s)} \in SUBSET S
                                    /\ Cardinality(s \ {Picked(s)}) = Cardinality(s) - 1
  BY <1>1, PickedIn, FS_RemoveElement
<1>3. \A s \in SUBSET S : Cardinality(s) = 0 <=> s = {}
  BY <1>1, FS_EmptySet
<1>4. Bad = {}
  <2>. SUFFICES ASSUME Bad # {} PROVE FALSE
    OBVIOUS
  <2>1. PICK n \in Bad : \A m \in Bad : n <= m
    BY LeastOfNat
  <2>2. CASE n = 0
    <3>. DEFINE g == [s \in Small(S, 0) |-> 0]
    <3>1. \A s \in Small(S, 0) : s = {}
      BY <1>1, <1>3 DEF Small
    <3>2. IsFold(g, f, Small(S, 0))
      BY <3>1 DEF IsFold
    <3>. QED  BY <2>2, <3>2
  <2>3. CASE n # 0
    <3>1. n - 1 \in Nat /\ n - 1 \notin Bad
      BY <2>1, <2>3
    <3>2. PICK h : IsFold(h, f, Small(S, n-1))
      BY <3>1
    <3>. DEFINE g == [s \in Small(S, n) |-> IF s = {} THEN 0 ELSE f[Picked(s)] + h[s \ {Picked(s)}]]
    <3>3. \A s \in Small(S, n-1) : s \in Small(S, n) /\ g[s] = h[s]
      <4>1. \A s \in Small(S, n-1) : s \in SUBSET S /\ Cardinality(s) <= n - 1
        BY DEF Small
      <4>2. \A s \in Small(S, n-1) : s \in Small(S, n)
        BY <4>1, <1>1, <2>1 DEF Small
      <4>3. \A s \in Small(S, n-1) : g[s] = h[s]
        BY <4>2, <3>2 DEF IsFold
      <4>. QED  BY <4>2, <4>3
    <3>4. \A s \in Small(S, n) : s # {} => s \ {Picked(s)} \in Small(S, n-1)
      BY <1>1, <1>2, <2>1 DEF Small
    <3>5. IsFold(g, f, Small(S, n))
      BY <3>3, <3>4 DEF IsFold
    <3>. QED BY <3>5
  <2>. QED  BY <2>2, <2>3
<1>5. Small(S, Cardinality(S)) = SUBSET S
  BY <1>1 DEF Small
<1>6. Cardinality(S) \in Nat
  BY <1>1
<1>7. \E g : IsFold(g, f, Small(S, Cardinality(S)))
  BY <1>4, <1>6
<1>. QED  BY <1>5, <1>7

LEMMA FoldChosen ==
  ASSUME NEW f, NEW S, IsFiniteSet(S)
  PROVE  IsFold(CHOOSE g : IsFold(g, f, SUBSET S), f, SUBSET S)
BY FoldExists

(* Solutions on two domains agree where both are defined.                  *)
Solutions(g, h, f, S, T) ==
    /\ IsFiniteSet(S) /\ IsFiniteSet(T) /\ T \subseteq S
    /\ IsFold(g, f, SUBSET S) /\ IsFold(h, f, SUBSET T)

LEMMA FoldsAgree ==
  ASSUME NEW f, NEW S, NEW T, NEW g, NEW h, Solutions(g, h, f, S, T)
  PROVE  g[T] = h[T]
<1>0. /\ IsFiniteSet(S) /\ IsFiniteSet(T) /\ T \subseteq S
      /\ IsFold(g, f, SUBSET S) /\ IsFold(h, f, SUBSET T)
  BY DEF Solutions
<1>. DEFINE P == {s \in SUBSET T : g[s] = h[s]}
<1>1. {} \in P
  BY <1>0 DEF IsFold
<1>2. ASSUME NEW s \in SUBSET T, s # {}, s \ {Picked(s)} \in P PROVE s \in P
  BY <1>0, <1>2 DEF IsFold
<1>3. SUBSET T \subseteq P
  <2>. HIDE DEF P
  <2>. QED  BY <1>0, <1>1, <1>2, SubsetInduction
<1>. QED BY <1>3

(* The sum over a finite set satisfies the recursion.                      *)
LEMMA SumOfNothing ==
  ASSUME NEW f PROVE SumFunctionOnSet(f, {}) = 0
<1>1. IsFiniteSet({})
  BY FS_EmptySet
<1>. QED BY <1>1, SumIsFold, FoldChosen DEF IsFold

LEMMA SumStep ==
  ASSUME NEW f, NEW S, IsFiniteSet(S), S # {}
  PROVE SumFunctionOnSet(f, S) = f[Picked(S)] + SumFunctionOnSet(f, S \ {Picked(S)})
<1>. DEFINE T == S \ {Picked(S)}
<1>1. IsFiniteSet(T) /\ T \subseteq S
  BY FS_Subset
<1>2. PICK g : IsFold(g, f, SUBSET S) /\ SumFunctionOnSet(f, S) = g[S]
  BY FoldChosen, SumIsFold
<1>3. g[S] = f[Picked(S)] + g[T]
  BY <1>2 DEF IsFold
<1>. HIDE DEF T
<1>4. PICK h : IsFold(h, f, SUBSET T) /\ SumFunctionOnSet(f, T) = h[T]
  BY <1>1, FoldChosen, SumIsFold
<1>5. Solutions(g, h, f, S, T)
  BY <1>1, <1>2, <1>4 DEF Solutions
<1>6. g[T] = h[T]
  BY <1>5, FoldsAgree
<1>. QED BY <1>2, <1>3, <1>4, <1>6 DEF T

LEMMA SumType ==
  ASSUME NEW f, NEW S, IsFiniteSet(S), \A x \in S : f[x] \in Int
  PROVE  SumFunctionOnSet(f, S) \in Int
<1>. DEFINE P == {s \in SUBSET S : SumFunctionOnSet(f, s) \in Int}
<1>1. {} \in P
  BY SumOfNothing
<1>2. ASSUME NEW s \in SUBSET S, s # {}, s \ {Picked(s)} \in P PROVE s \in P
  <2>1. IsFiniteSet(s) /\ f[Picked(s)] \in Int
    BY <1>2, FS_Subset, PickedIn
  <2>. QED  BY <1>2, <2>1, SumStep
<1>3. SUBSET S \subseteq P
  <2>. HIDE DEF P
  <2>. QED  BY <1>1, <1>2, SubsetInduction
<1>. QED BY <1>3

(* Whichever element is taken first, the sum is the same.                  *)
LEMMA SumRemove ==
  ASSUME NEW f, NEW S, IsFiniteSet(S), \A x \in S : f[x] \in Int
  PROVE  \A x \in S : SumFunctionOnSet(f, S) = f[x] + SumFunctionOnSet(f, S \ {x})
<1>. DEFINE Wrong(s) == \E x \in s : SumFunctionOnSet(f, s) # f[x] + SumFunctionOnSet(f, s \ {x})
<1>. DEFINE Bad == {n \in Nat : \E s \in SUBSET S : Cardinality(s) = n /\ Wrong(s)}
<1>1. \A s \in SUBSET S : /\ IsFiniteSet(s) /\ Cardinality(s) \in Nat
                          /\ SumFunctionOnSet(f, s) \in Int
  BY FS_Subset, FS_CardinalityType, SumType
<1>2. ASSUME Bad # {} PROVE FALSE
  <2>1. PICK n \in Bad : \A m \in Bad : n <= m
    BY <1>2, LeastOfNat
  <2>2. PICK s \in SUBSET S : Cardinality(s) = n /\ Wrong(s)
    BY <2>1
  <2>3. PICK x \in s : SumFunctionOnSet(f, s) # f[x] + SumFunctionOnSet(f, s \ {x})
    BY <2>2
  <2>. DEFINE y == Picked(s)
  <2>4. y \in s /\ SumFunctionOnSet(f, s) = f[y] + SumFunctionOnSet(f, s \ {y})
    BY <2>3, <1>1, SumStep, PickedIn
  <2>5. x # y
    BY <2>3, <2>4
  <2>. HIDE DEF y
  <2>6. Cardinality(s \ {y}) = n - 1 /\ Cardinality(s \ {x}) = n - 1
    BY <2>2, <2>4, <1>1, FS_RemoveElement
  <2>7. ~Wrong(s \ {y}) /\ ~Wrong(s \ {x})
    <3>. HIDE DEF Wrong
    <3>1. \A r \in SUBSET S : Cardinality(r) = n - 1 => ~Wrong(r)
      BY <2>1, <1>1
    <3>. QED  BY <3>1, <2>6
  <2>8. SumFunctionOnSet(f, s \ {y}) = f[x] + SumFunctionOnSet(f, (s \ {y}) \ {x})
    BY <2>7, <2>5
  <2>9. SumFunctionOnSet(f, s \ {x}) = f[y] + SumFunctionOnSet(f, (s \ {x}) \ {y})
    BY <2>7, <2>5, <2>4
  <2>10. (s \ {x}) \ {y} = (s \ {y}) \ {x}
    OBVIOUS
  <2>11. f[x] \in Int /\ f[y] \in Int
    BY <2>4
  <2>12. PICK c \in Int : c = SumFunctionOnSet(f, (s \ {y}) \ {x})
    BY <1>1
  <2>13. SumFunctionOnSet(f, s) = f[y] + (f[x] + c)
    BY <2>4, <2>8, <2>12
  <2>14. f[x] + SumFunctionOnSet(f, s \ {x}) = f[x] + (f[y] + c)
    BY <2>9, <2>10, <2>12
  <2>. QED BY <2>3, <2>11, <2>13, <2>14
<1>. QED BY <1>1, <1>2
(* A sum depends on the values at the elements summed over only.           *)
LEMMA SumAgrees ==
  ASSUME NEW f, NEW g, NEW S, IsFiniteSet(S), \A x \in S : f[x] = g[x]
  PROVE  SumFunctionOnSet(f, S) = SumFunctionOnSet(g, S)
<1>. DEFINE P == {s \in SUBSET S : SumFunctionOnSet(f, s) = SumFunctionOnSet(g, s)}
<1>1. {} \in P
  BY SumOfNothing
<1>2. ASSUME NEW s \in SUBSET S, s # {}, s \ {Picked(s)} \in P PROVE s \in P
  <2>1. IsFiniteSet(s) /\ f[Picked(s)] = g[Picked(s)]
    BY <1>2, FS_Subset, PickedIn
  <2>2. /\ SumFunctionOnSet(f, s) = f[Picked(s)] + SumFunctionOnSet(f, s \ {Picked(s)})
        /\ SumFunctionOnSet(g, s) = g[Picked(s)] + SumFunctionOnSet(g, s \ {Picked(s)})
    BY <1>2, <2>1, SumStep
  <2>. QED  BY <1>2, <2>1, <2>2
<1>3. SUBSET S \subseteq P
  <2>. HIDE DEF P
  <2>. QED  BY <1>1, <1>2, SubsetInduction
<1>. QED BY <1>3

Summable(f, S) == IsFiniteSet(S) /\ \A x \in S : f[x] \in Int

LEMMA SummableRemove ==
  ASSUME NEW f, NEW S, Summable(f, S), NEW x \in S
  PROVE  SumFunctionOnSet(f, S) = f[x] + SumFunctionOnSet(f, S \ {x})
BY SumRemove DEF Summable

-----------------------------------------------------------------------------
(* Sums of functions.                                                      *)

LEMMA SumFunctionType ==
    ASSUME NEW S, IsFiniteSet(S), NEW f \in [S -> Int]
    PROVE  SumFunction(f) \in Int
  BY SumType DEF SumFunction

LEMMA SumFunctionEmpty ==
    ASSUME NEW f, DOMAIN f = {}
    PROVE  SumFunction(f) = 0
  BY SumOfNothing DEF SumFunction

(* One value changes.                                                      *)
LEMMA SumFunctionChange ==
    ASSUME NEW S, IsFiniteSet(S), NEW f \in [S -> Int], NEW g \in [S -> Int],
           NEW x \in S, \A y \in S : y # x => g[y] = f[y]
    PROVE  SumFunction(g) = SumFunction(f) - f[x] + g[x]
  <1>. DEFINE T == S \ {x}
  <1>1. IsFiniteSet(T)
    BY FS_Subset
  <1>2. SumFunctionOnSet(f, T) = SumFunctionOnSet(g, T)
    BY <1>1, SumAgrees
  <1>3. SumFunctionOnSet(f, S) = f[x] + SumFunctionOnSet(f, T)
    BY SumRemove
  <1>4. SumFunctionOnSet(g, S) = g[x] + SumFunctionOnSet(g, T)
    BY SumRemove
  <1>5. SumFunctionOnSet(f, T) \in Int
    BY <1>1, SumType
  <1>6. SumFunction(f) = SumFunctionOnSet(f, S) /\ SumFunction(g) = SumFunctionOnSet(g, S)
    BY DEF SumFunction
  <1>. HIDE DEF T
  <1>. QED  BY <1>2, <1>3, <1>4, <1>5, <1>6

(* The domain grows by one element.                                        *)
LEMMA SumFunctionExtend ==
    ASSUME NEW S, IsFiniteSet(S), NEW x, x \notin S, NEW U, U = S \cup {x},
           NEW f \in [S -> Int], NEW g \in [U -> Int],
           \A y \in S : g[y] = f[y]
    PROVE  SumFunction(g) = SumFunction(f) + g[x]
  <1>1. IsFiniteSet(U) /\ U \ {x} = S /\ x \in U
    BY FS_AddElement
  <1>2. SumFunctionOnSet(g, U) = g[x] + SumFunctionOnSet(g, S)
    BY <1>1, SumRemove
  <1>3. SumFunctionOnSet(f, S) = SumFunctionOnSet(g, S)
    BY SumAgrees
  <1>4. SumFunctionOnSet(f, S) \in Int
    BY SumType
  <1>5. SumFunction(f) = SumFunctionOnSet(f, S) /\ SumFunction(g) = SumFunctionOnSet(g, U)
    BY DEF SumFunction
  <1>. QED  BY <1>2, <1>3, <1>4, <1>5

Extends(S, x, U, f, g) ==
    /\ IsFiniteSet(S) /\ x \notin S /\ U = S \cup {x}
    /\ f \in [S -> Int] /\ g \in [U -> Int]
    /\ \A y \in S : g[y] = f[y]

LEMMA SumExtends ==
    ASSUME NEW S, NEW x, NEW U, NEW f, NEW g, Extends(S, x, U, f, g)
    PROVE  SumFunction(g) = SumFunction(f) + g[x]
  <1>1. IsFiniteSet(S) /\ x \notin S /\ U = S \cup {x}
    BY DEF Extends
  <1>2. f \in [S -> Int] /\ g \in [U -> Int] /\ \A y \in S : g[y] = f[y]
    BY DEF Extends
  <1>. QED  BY ONLY <1>1, <1>2, SumFunctionExtend

(* No smaller at any element, no smaller in sum.                           *)
LEMMA SumFunctionMonotone ==
    ASSUME NEW S, IsFiniteSet(S), NEW f \in [S -> Int], NEW g \in [S -> Int],
           \A x \in S : f[x] <= g[x]
    PROVE  SumFunction(f) <= SumFunction(g)
  <1>. DEFINE P == {s \in SUBSET S : SumFunctionOnSet(f, s) <= SumFunctionOnSet(g, s)}
  <1>1. {} \in P
    BY SumOfNothing
  <1>2. ASSUME NEW s \in SUBSET S, s # {}, s \ {Picked(s)} \in P PROVE s \in P
    <2>. DEFINE r == s \ {Picked(s)}
    <2>1. IsFiniteSet(s) /\ IsFiniteSet(r)
      BY FS_Subset
    <2>2. /\ f[Picked(s)] \in Int /\ g[Picked(s)] \in Int
          /\ f[Picked(s)] <= g[Picked(s)]
      BY <1>2, PickedIn
    <2>3. /\ SumFunctionOnSet(f, s) = f[Picked(s)] + SumFunctionOnSet(f, r)
          /\ SumFunctionOnSet(g, s) = g[Picked(s)] + SumFunctionOnSet(g, r)
      BY <1>2, <2>1, SumStep
    <2>4. SumFunctionOnSet(f, r) \in Int /\ SumFunctionOnSet(g, r) \in Int
      BY <2>1, SumType
    <2>5. SumFunctionOnSet(f, r) <= SumFunctionOnSet(g, r)
      BY <1>2
    <2>. HIDE DEF r
    <2>6. SumFunctionOnSet(f, s) <= SumFunctionOnSet(g, s)
      BY <2>2, <2>3, <2>4, <2>5
    <2>. QED  BY <2>6
  <1>3. SUBSET S \subseteq P
    <2>. HIDE DEF P
    <2>. QED  BY <1>1, <1>2, SubsetInduction
  <1>. QED  BY <1>3 DEF SumFunction

(* A sum of zeros is zero.                                                 *)
LEMMA SumFunctionZero ==
    ASSUME NEW S, IsFiniteSet(S), NEW f \in [S -> Int], \A x \in S : f[x] = 0
    PROVE  SumFunction(f) = 0
  <1>. DEFINE P == {s \in SUBSET S : SumFunctionOnSet(f, s) = 0}
  <1>1. {} \in P
    BY SumOfNothing
  <1>2. ASSUME NEW s \in SUBSET S, s # {}, s \ {Picked(s)} \in P PROVE s \in P
    <2>1. IsFiniteSet(s) /\ f[Picked(s)] = 0
      BY <1>2, FS_Subset, PickedIn
    <2>. QED  BY <1>2, <2>1, SumStep
  <1>3. SUBSET S \subseteq P
    <2>. HIDE DEF P
    <2>. QED  BY <1>1, <1>2, SubsetInduction
  <1>. QED  BY <1>3 DEF SumFunction

(* A sum of naturals is a natural.                                         *)
LEMMA SumFunctionNat ==
    ASSUME NEW S, IsFiniteSet(S), NEW f \in [S -> Nat]
    PROVE  SumFunction(f) \in Nat
  <1>. DEFINE z == [x \in S |-> 0]
  <1>1. f \in [S -> Int] /\ z \in [S -> Int] /\ \A x \in S : z[x] = 0 /\ z[x] <= f[x]
    OBVIOUS
  <1>. HIDE DEF z
  <1>2. SumFunction(z) = 0
    BY <1>1, SumFunctionZero
  <1>3. SumFunction(z) <= SumFunction(f)
    BY <1>1, SumFunctionMonotone
  <1>4. SumFunction(f) \in Int
    BY <1>1, SumFunctionType
  <1>. QED  BY <1>2, <1>3, <1>4

(* One value changes and the others do not grow.                           *)
LEMMA SumFunctionLower ==
    ASSUME NEW S, IsFiniteSet(S), NEW f \in [S -> Int], NEW g \in [S -> Int],
           NEW x \in S, \A y \in S : y # x => g[y] <= f[y]
    PROVE  SumFunction(g) <= SumFunction(f) - f[x] + g[x]
  <1>. DEFINE h == [y \in S |-> IF y = x THEN g[x] ELSE f[y]]
  <1>1. /\ h \in [S -> Int] /\ h[x] = g[x]
        /\ \A y \in S : g[y] <= h[y]
        /\ \A y \in S : y # x => h[y] = f[y]
    OBVIOUS
  <1>. HIDE DEF h
  <1>2. SumFunction(h) = SumFunction(f) - f[x] + h[x]
    BY <1>1, SumFunctionChange
  <1>3. SumFunction(g) <= SumFunction(h)
    BY <1>1, SumFunctionMonotone
  <1>4. SumFunction(f) \in Int /\ SumFunction(g) \in Int /\ SumFunction(h) \in Int
    BY <1>1, SumFunctionType
  <1>. QED  BY <1>1, <1>2, <1>3, <1>4

(* A sum over a part of a collection.                                      *)
LEMMA SumFunctionPart ==
    ASSUME NEW S, IsFiniteSet(S), NEW T, T \subseteq S, NEW f \in [S -> Nat],
           NEW g \in [T -> Nat], \A x \in T : g[x] = f[x]
    PROVE  SumFunction(g) <= SumFunction(f)
  <1>. DEFINE P == {s \in SUBSET S : SumFunctionOnSet(f, T) <= SumFunctionOnSet(f, T \cup s)}
  <1>0. \A s \in SUBSET S : IsFiniteSet(s) /\ SumFunctionOnSet(f, s) \in Int
    BY FS_Subset, SumType
  <1>1. {} \in P
    <2>1. T \cup {} = T
      OBVIOUS
    <2>. QED  BY <1>0, <2>1
  <1>2. ASSUME NEW s \in SUBSET S, s # {}, s \ {Picked(s)} \in P PROVE s \in P
    <2>. DEFINE y == Picked(s)
                u == T \cup s
    <2>1. y \in s /\ y \in S
      BY <1>2, PickedIn
    <2>. HIDE DEF y
    <2>2. CASE y \in T
      <3>1. T \cup (s \ {y}) = T \cup s
        BY <2>1, <2>2
      <3>. QED  BY <1>2, <3>1 DEF y
    <2>3. CASE y \notin T
      <3>1. u \ {y} = T \cup (s \ {y}) /\ y \in u /\ u \in SUBSET S
        BY <2>1, <2>3
      <3>2. SumFunctionOnSet(f, T) <= SumFunctionOnSet(f, u \ {y})
        BY <1>2, <3>1 DEF y
      <3>. HIDE DEF u
      <3>3. IsFiniteSet(u) /\ \A x \in u : f[x] \in Int
        BY <1>0, <3>1
      <3>4. SumFunctionOnSet(f, u) = f[y] + SumFunctionOnSet(f, u \ {y})
        BY <3>1, <3>3, SumRemove
      <3>5. f[y] \in Nat /\ SumFunctionOnSet(f, u \ {y}) \in Int /\ SumFunctionOnSet(f, T) \in Int
        BY <1>0, <2>1, <3>1
      <3>6. SumFunctionOnSet(f, T) <= SumFunctionOnSet(f, u)
        BY <3>2, <3>4, <3>5
      <3>. QED  BY <3>6 DEF u
    <2>. QED  BY <2>2, <2>3
  <1>3. SUBSET S \subseteq P
    <2>. HIDE DEF P
    <2>. QED  BY <1>1, <1>2, SubsetInduction
  <1>4. SumFunctionOnSet(f, T) <= SumFunctionOnSet(f, T \cup S) /\ T \cup S = S
    BY <1>3
  <1>5. SumFunctionOnSet(g, T) = SumFunctionOnSet(f, T)
    BY <1>0, SumAgrees
  <1>. QED  BY <1>4, <1>5 DEF SumFunction

(* A sum of values of no more than k each.                                 *)
LEMMA SumFunctionBound ==
    ASSUME NEW S, IsFiniteSet(S), NEW f \in [S -> Int], NEW k \in Int,
           \A x \in S : f[x] <= k
    PROVE  SumFunction(f) <= Cardinality(S) * k
  <1>. DEFINE P == {s \in SUBSET S : SumFunctionOnSet(f, s) <= Cardinality(s) * k}
  <1>0. \A s \in SUBSET S : /\ IsFiniteSet(s) /\ Cardinality(s) \in Nat
                            /\ SumFunctionOnSet(f, s) \in Int
    BY FS_Subset, SumType, FS_CardinalityType
  <1>1. {} \in P
    BY SumOfNothing, FS_EmptySet
  <1>2. ASSUME NEW s \in SUBSET S, s # {}, s \ {Picked(s)} \in P PROVE s \in P
    <2>. DEFINE r == s \ {Picked(s)}
    <2>1. SumFunctionOnSet(f, s) = f[Picked(s)] + SumFunctionOnSet(f, r)
      BY <1>0, <1>2, SumStep
    <2>2. f[Picked(s)] \in Int /\ f[Picked(s)] <= k
      BY <1>2, PickedIn
    <2>3. Cardinality(r) = Cardinality(s) - 1
      BY <1>0, <1>2, PickedIn, FS_RemoveElement
    <2>4. SumFunctionOnSet(f, r) <= Cardinality(r) * k
      BY <1>2
    <2>5. SumFunctionOnSet(f, r) \in Int /\ Cardinality(s) \in Nat
      BY <1>0
    <2>. HIDE DEF r
    <2>6. PICK n \in Nat : n = Cardinality(s)
      BY <2>5
    <2>7. SumFunctionOnSet(f, s) <= k + (n - 1) * k
      BY <2>1, <2>2, <2>3, <2>4, <2>5, <2>6
    <2>8. k + (n - 1) * k = n * k
      BY <2>6
    <2>. QED  BY <2>6, <2>7, <2>8
  <1>3. SUBSET S \subseteq P
    <2>. HIDE DEF P
    <2>. QED  BY <1>1, <1>2, SubsetInduction
  <1>4. SumFunctionOnSet(f, S) <= Cardinality(S) * k
    BY <1>3
  <1>. QED  BY <1>4 DEF SumFunction

(* The same with one value of its own size.                                *)
LEMMA SumFunctionOthers ==
    ASSUME NEW S, IsFiniteSet(S), NEW f \in [S -> Int], NEW k \in Int,
           \A y \in S : f[y] <= k, NEW x \in S
    PROVE  SumFunction(f) <= f[x] + (Cardinality(S) - 1) * k
  <1>. DEFINE T == S \ {x}
              g == [y \in T |-> f[y]]
  <1>1. IsFiniteSet(T) /\ Cardinality(T) = Cardinality(S) - 1 /\ x \notin T /\ S = T \cup {x}
    BY FS_Subset, FS_RemoveElement
  <1>2. g \in [T -> Int] /\ \A y \in T : g[y] <= k /\ f[y] = g[y]
    OBVIOUS
  <1>. HIDE DEF T, g
  <1>3. SumFunction(g) <= Cardinality(T) * k /\ SumFunction(g) \in Int
    BY <1>1, <1>2, SumFunctionBound, SumFunctionType
  <1>4. SumFunction(f) = SumFunction(g) + f[x]
    BY <1>1, <1>2, SumFunctionExtend
  <1>5. Cardinality(S) \in Nat
    BY FS_CardinalityType
  <1>6. PICK m \in Int : m = (Cardinality(S) - 1) * k
    BY <1>5
  <1>7. SumFunction(g) <= m
    BY <1>1, <1>3, <1>6
  <1>. QED  BY <1>3, <1>4, <1>6, <1>7

-----------------------------------------------------------------------------
(* Bounds of sets of numbers.                                              *)

LEMMA MinIsLeast ==
    ASSUME NEW T, T \subseteq Nat, T # {}
    PROVE  Min(T) \in T /\ \A y \in T : Min(T) <= y
  BY LeastOfNat DEF Min

LEMMA MaxIsLargest ==
    ASSUME NEW T, T \subseteq Nat, \E m \in T : \A y \in T : y <= m
    PROVE  Max(T) \in T /\ \A y \in T : y <= Max(T)
  <1>1. \E m \in T : \A y \in T : m >= y
    OBVIOUS
  <1>2. Max(T) \in T /\ \A y \in T : Max(T) >= y
    BY <1>1 DEF Max
  <1>. QED  BY <1>2

-----------------------------------------------------------------------------
(* Copies of a message in a queue.                                         *)

Copies(q, x) == Cardinality({i \in DOMAIN q : q[i] = x})

LEMMA CopiesNat ==
    ASSUME NEW S, NEW q \in Seq(S), NEW x
    PROVE  Copies(q, x) \in Nat /\ (q = <<>> => Copies(q, x) = 0)
  <1>1. IsFiniteSet({i \in DOMAIN q : q[i] = x})
    BY Positions, FS_Subset
  <1>2. q = <<>> => {i \in DOMAIN q : q[i] = x} = {}
    OBVIOUS
  <1>. QED  BY <1>1, <1>2, FS_CardinalityType, FS_EmptySet DEF Copies

LEMMA CopiesAppend ==
    ASSUME NEW S, NEW q \in Seq(S), NEW e \in S, NEW x
    PROVE  Copies(Append(q, e), x) = Copies(q, x) + (IF e = x THEN 1 ELSE 0)
  <1>. DEFINE A == {i \in DOMAIN q : q[i] = x}
              r == Append(q, e)
              B == {i \in DOMAIN r : r[i] = x}
  <1>1. PICK n \in Nat : n = Len(q)
    BY LenProperties
  <1>2. /\ DOMAIN q = 1..n /\ DOMAIN r = 1..(n + 1)
        /\ \A i \in DOMAIN q : r[i] = q[i]
        /\ r[n + 1] = e
    BY <1>1, AppendDocument
  <1>3. IsFiniteSet(A) /\ n + 1 \notin A /\ Cardinality(A) \in Nat
    <2>1. IsFiniteSet(A)
      BY Positions, FS_Subset
    <2>. QED  BY <1>2, <2>1, FS_CardinalityType
  <1>. HIDE DEF r
  <1>4. CASE e = x
    <2>1. B = A \cup {n + 1}
      BY <1>2, <1>4
    <2>2. Cardinality(B) = Cardinality(A) + 1
      BY <1>3, <2>1, FS_AddElement
    <2>. QED  BY <1>3, <1>4, <2>2 DEF Copies, r
  <1>5. CASE e # x
    <2>1. B = A
      BY <1>2, <1>5
    <2>2. Cardinality(B) = Cardinality(A) + 0
      <3>. HIDE DEF A, B
      <3>. QED  BY <1>3, <2>1
    <2>. QED  BY <1>3, <1>5, <2>2 DEF Copies, r
  <1>. QED  BY <1>4, <1>5

LEMMA CopiesTail ==
    ASSUME NEW S, NEW q \in Seq(S), q # <<>>, NEW x
    PROVE  Copies(Tail(q), x) + (IF Head(q) = x THEN 1 ELSE 0) <= Copies(q, x)
  <1>. DEFINE r == Tail(q)
              A == {i \in DOMAIN r : r[i] = x}
              B == {i \in DOMAIN q : q[i] = x}
              C == B \ {1}
              f == [i \in A |-> i + 1]
  <1>1. PICK n \in Nat : n = Len(q) /\ n >= 1
    BY LenProperties, EmptySeq
  <1>2. /\ r \in Seq(S) /\ Len(r) = n - 1
        /\ DOMAIN q = 1..n /\ DOMAIN r = 1..(n - 1)
        /\ Head(q) = q[1]
    BY <1>1, HeadTailProperties, Positions, LenProperties
  <1>3. \A i \in DOMAIN r : r[i] = q[i + 1]
    BY <1>1, <1>2
  <1>4. IsFiniteSet(A) /\ IsFiniteSet(B) /\ IsFiniteSet(C)
    BY <1>2, Positions, FS_Subset, FS_RemoveElement
  <1>5. Cardinality(A) \in Nat /\ Cardinality(B) \in Nat /\ Cardinality(C) \in Nat
    BY <1>4, FS_CardinalityType
  <1>6. f \in Injection(A, C)
    <2>1. \A i \in A : i \in Nat /\ i + 1 \in C
      BY <1>1, <1>2, <1>3
    <2>2. f \in [A -> C]
      BY <2>1
    <2>3. IsInjective(f)
      BY <2>1 DEF IsInjective
    <2>. QED  BY <2>2, <2>3 DEF Injection
  <1>. HIDE DEF f
  <1>7. Cardinality(A) <= Cardinality(C)
    BY <1>4, <1>6, FS_Injection
  <1>8. Cardinality(C) = IF 1 \in B THEN Cardinality(B) - 1 ELSE Cardinality(B)
    BY <1>4, FS_RemoveElement
  <1>9. Head(q) = x => 1 \in B
    BY <1>1, <1>2
  <1>10. Cardinality(A) + (IF Head(q) = x THEN 1 ELSE 0) <= Cardinality(B)
    <2>. HIDE DEF A, B, C
    <2>. QED  BY <1>5, <1>7, <1>8, <1>9
  <1>. QED  BY <1>10 DEF Copies

(* The naturals up to k.                                                   *)
LEMMA UpTo ==
    ASSUME NEW k \in Nat
    PROVE  /\ IsFiniteSet(1..k)
           /\ k # 0 => (1..k) \ {k} = 1..(k - 1) /\ k \in 1..k
<1>1. 1 \in Int /\ k \in Int
  OBVIOUS
<1>2. IsFiniteSet(1..k)
  BY ONLY <1>1, FS_Interval
<1>. QED  BY <1>2

(* A falling sequence falls by the sum of its falls.                       *)
LEMMA SumOfFalls ==
    ASSUME NEW n \in Nat, NEW r \in [0..n -> Int], NEW d, \A i \in 1..n : d[i] = r[i-1] - r[i]
    PROVE  \A k \in 0..n : SumFunctionOnSet(d, 1..k) = r[0] - r[k]
<1>. DEFINE Bad == {k \in 0..n : SumFunctionOnSet(d, 1..k) # r[0] - r[k]}
<1>. SUFFICES ASSUME Bad # {} PROVE FALSE
  OBVIOUS
<1>1. PICK k \in Bad : \A j \in Bad : k <= j
  <2>1. Bad \subseteq Nat
    OBVIOUS
  <2>. QED  BY <2>1, LeastOfNat
<1>2. k \in 0..n /\ k \in Nat /\ r[0] \in Int /\ r[k] \in Int
  BY <1>1
<1>3. k # 0
  <2>1. CASE k = 0
    <3>1. 1..0 = {}
      OBVIOUS
    <3>2. SumFunctionOnSet(d, 1..0) = 0
      BY <3>1, SumOfNothing
    <3>. QED  BY <1>1, <1>2, <2>1, <3>2
  <2>. QED  BY <2>1
<1>4. k - 1 \in 0..n /\ k - 1 \notin Bad /\ k \in 1..n /\ 1..k \subseteq 1..n
  BY <1>1, <1>2, <1>3
<1>5. SumFunctionOnSet(d, 1..(k - 1)) = r[0] - r[k-1] /\ r[k-1] \in Int
  BY <1>4
<1>6. IsFiniteSet(1..k) /\ (1..k) \ {k} = 1..(k - 1) /\ k \in 1..k
  BY <1>2, <1>3, UpTo
<1>7. \A i \in 1..k : d[i] \in Int
  <2>. TAKE i \in 1..k
  <2>1. i \in 1..n /\ i - 1 \in 0..n /\ i \in 0..n
    BY <1>2, <1>4
  <2>2. r[i-1] \in Int /\ r[i] \in Int
    BY <2>1
  <2>. QED  BY <2>1, <2>2
<1>8. SumFunctionOnSet(d, 1..k) = d[k] + SumFunctionOnSet(d, 1..(k - 1))
  <2>1. PICK T : T = 1..k
    OBVIOUS
  <2>2. Summable(d, T) /\ k \in T
    BY <1>6, <1>7, <2>1 DEF Summable
  <2>3. SumFunctionOnSet(d, T) = d[k] + SumFunctionOnSet(d, T \ {k})
    BY ONLY <2>2, SummableRemove
  <2>4. T \ {k} = 1..(k - 1)
    BY <1>6, <2>1
  <2>. QED  BY ONLY <2>1, <2>3, <2>4
<1>9. d[k] = r[k-1] - r[k]
  BY <1>4
<1>. HIDE DEF Bad
<1>10. SumFunctionOnSet(d, 1..k) = r[0] - r[k]
  BY <1>2, <1>5, <1>8, <1>9
<1>. QED  BY <1>1, <1>10 DEF Bad

(* The sum over a set is the sum over the positions of an enumeration.     *)
Visited(p, k) == {p[i] : i \in 1..k}

Enumerates(p, n, f, g) ==
    /\ \A i, j \in 1..n : i # j => p[i] # p[j]
    /\ \A i \in 1..n : f[p[i]] \in Int /\ g[i] = f[p[i]]

LEMMA SumEnumerated ==
    ASSUME NEW n \in Nat, NEW p, NEW f, NEW g, Enumerates(p, n, f, g)
    PROVE  \A k \in 0..n : SumFunctionOnSet(f, Visited(p, k)) = SumFunctionOnSet(g, 1..k)
<1>. DEFINE T(k) == Visited(p, k)
            Bad == {k \in 0..n : SumFunctionOnSet(f, T(k)) # SumFunctionOnSet(g, 1..k)}
<1>. SUFFICES ASSUME Bad # {} PROVE FALSE
  OBVIOUS
<1>v. /\ \A j : T(j) = {p[i] : i \in 1..j}
      /\ \A i, j \in 1..n : i # j => p[i] # p[j]
      /\ \A i \in 1..n : f[p[i]] \in Int /\ g[i] = f[p[i]]
  BY DEF Visited, Enumerates
<1>1. PICK k \in Bad : \A j \in Bad : k <= j
  <2>1. Bad \subseteq Nat
    OBVIOUS
  <2>. HIDE DEF Bad
  <2>. QED  BY <2>1, LeastOfNat
<1>2. k \in 0..n /\ k \in Nat
  BY <1>1
<1>3. k # 0
  <2>1. CASE k = 0
    <3>1. 1..k = {} /\ T(k) = {}
      BY <1>v, <2>1
    <3>2. SumFunctionOnSet(f, T(k)) = SumFunctionOnSet(g, 1..k)
      <4>. HIDE DEF T
      <4>. QED  BY <3>1, SumOfNothing
    <3>. QED  BY <1>1, <3>2
  <2>. QED  BY <2>1
<1>4. k - 1 \in 0..n /\ k - 1 \notin Bad /\ k \in 1..n
  BY <1>1, <1>2, <1>3
<1>5. SumFunctionOnSet(f, T(k - 1)) = SumFunctionOnSet(g, 1..(k - 1))
  BY <1>4
<1>6. IsFiniteSet(1..k) /\ (1..k) \ {k} = 1..(k - 1) /\ k \in 1..k /\ 1..k \subseteq 1..n
  BY <1>2, <1>3, UpTo
<1>7. T(k) \ {p[k]} = T(k - 1) /\ p[k] \in T(k)
  <2>1. \A i \in 1..(k - 1) : i \in 1..n /\ i \in 1..k /\ p[i] # p[k]
    <3>1. \A i \in 1..(k - 1) : i \in 1..n /\ i \in 1..k /\ i # k
      BY <1>2, <1>4
    <3>. QED  BY <1>v, <1>4, <3>1
  <2>2. \A i \in 1..k : i = k \/ i \in 1..(k - 1)
    BY <1>2
  <2>. QED  BY <1>v, <1>6, <2>1, <2>2
<1>8. IsFiniteSet(T(k))
  <2>. DEFINE h == [i \in 1..k |-> p[i]]
  <2>1. T(k) = {p[i] : i \in 1..k} /\ DOMAIN h = 1..k /\ h \in [1..k -> T(k)]
        /\ \A i \in 1..k : h[i] = p[i]
    BY <1>v
  <2>. HIDE DEF T, h
  <2>2. h \in Surjection(1..k, T(k))
    BY ONLY <2>1 DEF Surjection
  <2>. QED  BY <1>6, <2>2, FS_Surjection
<1>9. (\A i \in 1..k : g[i] \in Int) /\ (\A x \in T(k) : f[x] \in Int)
  BY <1>v, <1>6
<1>. HIDE DEF T, Bad
<1>10. SumFunctionOnSet(g, 1..k) = g[k] + SumFunctionOnSet(g, 1..(k - 1))
  BY <1>6, <1>9, SumRemove
<1>11. SumFunctionOnSet(f, T(k)) = f[p[k]] + SumFunctionOnSet(f, T(k - 1))
  BY <1>7, <1>8, <1>9, SumRemove
<1>12. g[k] = f[p[k]]
  BY <1>v, <1>4
<1>. QED  BY <1>1, <1>5, <1>10, <1>11, <1>12 DEF Bad

(* No smaller at any element, no smaller in sum.                           *)
LEMMA SumMonotone ==
    ASSUME NEW S, IsFiniteSet(S), NEW f, NEW g,
           \A x \in S : f[x] \in Int /\ g[x] \in Int /\ f[x] <= g[x]
    PROVE  SumFunctionOnSet(f, S) <= SumFunctionOnSet(g, S)
<1>. DEFINE a == [x \in S |-> f[x]]
            b == [x \in S |-> g[x]]
<1>1. /\ a \in [S -> Int] /\ b \in [S -> Int]
      /\ \A x \in S : a[x] = f[x] /\ b[x] = g[x] /\ a[x] <= b[x]
      /\ DOMAIN a = S /\ DOMAIN b = S
  OBVIOUS
<1>. HIDE DEF a, b
<1>2. SumFunction(a) <= SumFunction(b)
  BY <1>1, SumFunctionMonotone
<1>3. SumFunction(a) = SumFunctionOnSet(a, S) /\ SumFunction(b) = SumFunctionOnSet(b, S)
  BY <1>1 DEF SumFunction
<1>4. SumFunctionOnSet(a, S) = SumFunctionOnSet(f, S) /\ SumFunctionOnSet(b, S) = SumFunctionOnSet(g, S)
  BY <1>1, SumAgrees
<1>. QED  BY <1>2, <1>3, <1>4

=============================================================================
