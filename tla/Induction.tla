------------------------------ MODULE Induction ------------------------------
(***************************************************************************)
(* Induction over the natural numbers in a form that needs no operator as  *)
(* a parameter: the statement to prove is the set of the numbers it holds  *)
(* for; and what follows about sums over finite sets.                      *)
(***************************************************************************)
EXTENDS Naturals, Functions, WellFoundedInduction, FiniteSetTheorems, TLAPS

(* A set of numbers that has 0, and with a number the next one, has all. *)
LEMMA InductionOnNat ==
  ASSUME NEW T \in SUBSET Nat, 0 \in T, \A n \in T : n + 1 \in T
  PROVE  T = Nat
<1> SUFFICES ASSUME T # Nat PROVE FALSE
  OBVIOUS
<1> DEFINE Less == {p \in Nat \X Nat : p[1] < p[2]}
           Rest == Nat \ T
<1>1. IsWellFoundedOn(Less, Nat)
  BY NatLessThanWellFounded DEF OpToRel
<1>2. PICK n \in Rest : \A k \in Rest : <<k, n>> \notin Less
  <2>1. Rest \subseteq Nat /\ Rest # {}
    OBVIOUS
  <2> HIDE DEF Less, Rest
  <2> QED BY <1>1, <2>1, WFMin
<1>3. n \in Nat /\ n # 0
  OBVIOUS
<1>4. n - 1 \in Nat /\ n - 1 < n /\ (n - 1) + 1 = n
  BY <1>3
<1>5. n - 1 \in T
  BY <1>2, <1>3, <1>4
<1> QED
  BY <1>4, <1>5

(* The same up to a bound. *)
LEMMA InductionUpTo ==
  ASSUME NEW m \in Nat, NEW T, 0 \in T,
         \A n \in 0 .. m - 1 : n \in T => n + 1 \in T
  PROVE  0 .. m \subseteq T
<1> DEFINE U == {n \in Nat : n <= m => n \in T}
<1>1. U \in SUBSET Nat /\ 0 \in U
  OBVIOUS
<1>2. ASSUME NEW n \in U PROVE n + 1 \in U
  BY <1>2
<1>3. U = Nat
  <2> HIDE DEF U
  <2> QED BY <1>1, <1>2, InductionOnNat
<1> QED
  BY <1>3

-----------------------------------------------------------------------------
(* What SumFunctionOnSet computes: the sum over a subset is that of the
   subset without the element it picks, and the value there. *)
Pick(T) == CHOOSE x \in T : TRUE
AddUp(f, g, T) == IF T = {} THEN 0 ELSE f[Pick(T)] + g[T \ {Pick(T)}]
Sums(f, S) == CHOOSE g : g = [T \in SUBSET S |-> AddUp(f, g, T)]

LEMMA SumUnfold ==
  ASSUME NEW S, NEW f
  PROVE  SumFunctionOnSet(f, S) = Sums(f, S)[S]
BY DEF SumFunctionOnSet, FoldFunctionOnSet, MapThenFoldSet, Sums, AddUp, Pick

LEMMA Picked ==
  ASSUME NEW T, T # {}, IsFiniteSet(T)
  PROVE  /\ Pick(T) \in T /\ IsFiniteSet(T \ {Pick(T)})
         /\ Cardinality(T) \in Nat /\ Cardinality(T \ {Pick(T)}) \in Nat
         /\ Cardinality(T) = Cardinality(T \ {Pick(T)}) + 1
<1>1. Pick(T) \in T
  BY DEF Pick
<1>2. /\ IsFiniteSet(T \ {Pick(T)})
      /\ Cardinality(T \ {Pick(T)}) = Cardinality(T) - 1
  BY <1>1, FS_RemoveElement
<1>3. Cardinality(T) \in Nat /\ Cardinality(T \ {Pick(T)}) \in Nat
  BY <1>2, FS_CardinalityType
<1> QED
  BY <1>1, <1>2, <1>3

LEMMA SumsDefined ==
  ASSUME NEW S, IsFiniteSet(S), NEW f
  PROVE  \A T \in SUBSET S : Sums(f, S)[T] = AddUp(f, Sums(f, S), T)
<1> DEFINE UpTo(m) == {T \in SUBSET S : Cardinality(T) <= m}
           Solves(g, m) == g = [T \in UpTo(m) |-> AddUp(f, g, T)]
           Solved == {m \in Nat : \E g : Solves(g, m)}
<1>0. \A T \in SUBSET S : IsFiniteSet(T) /\ Cardinality(T) \in Nat
  BY FS_Subset, FS_CardinalityType
<1>1. 0 \in Solved
  <2> DEFINE g == [T \in UpTo(0) |-> 0]
  <2>1. \A T \in UpTo(0) : T = {}
    BY <1>0, FS_EmptySet
  <2>2. \A T \in UpTo(0) : AddUp(f, g, T) = 0
    BY <2>1 DEF AddUp
  <2>3. Solves(g, 0)
    BY <2>2
  <2> QED BY <2>3
<1>2. ASSUME NEW m \in Solved PROVE m + 1 \in Solved
  <2>1. m \in Nat /\ m + 1 \in Nat
    OBVIOUS
  <2>2. PICK g : Solves(g, m)
    OBVIOUS
  <2>3. \A T \in UpTo(m) : g[T] = AddUp(f, g, T)
    BY <2>2
  <2> DEFINE h == [T \in UpTo(m + 1) |-> IF T \in UpTo(m) THEN g[T] ELSE AddUp(f, g, T)]
  <2>4. ASSUME NEW T \in UpTo(m + 1) PROVE h[T] = AddUp(f, h, T)
    <3>1. h[T] = AddUp(f, g, T)
      BY <2>3
    <3>2. CASE T = {}
      BY <3>1, <3>2 DEF AddUp
    <3>3. CASE T # {}
      <4> DEFINE U == T \ {Pick(T)}
      <4>1. U \in SUBSET S /\ Cardinality(U) \in Nat /\ Cardinality(T) = Cardinality(U) + 1
        BY <1>0, <3>3, Picked
      <4>2. Cardinality(T) <= m + 1
        OBVIOUS
      <4>3. Cardinality(U) <= m /\ Cardinality(U) <= m + 1
        BY <2>1, <4>1, <4>2
      <4>4. U \in UpTo(m) /\ U \in UpTo(m + 1)
        BY <4>1, <4>3
      <4> HIDE DEF U, UpTo
      <4>5. h[U] = g[U]
        BY <4>4
      <4> QED BY <3>1, <3>3, <4>5 DEF AddUp, U
    <3> QED BY <3>2, <3>3
  <2>5. Solves(h, m + 1)
    <3> DEFINE body == [T \in UpTo(m + 1) |-> AddUp(f, h, T)]
    <3>1. \A T \in UpTo(m + 1) : h[T] = body[T]
      BY <2>4
    <3>2. h = body
      BY <3>1
    <3> QED BY <3>2
  <2>6. \E k : Solves(k, m + 1)
    <3> HIDE DEF h
    <3> QED BY <2>5
  <2> QED BY <2>1, <2>6
<1>3. Cardinality(S) \in Solved
  <2> HIDE DEF Solved
  <2>1. Solved \in SUBSET Nat
    BY DEF Solved
  <2>2. Solved = Nat
    BY <1>1, <1>2, <2>1, InductionOnNat
  <2> QED BY <1>0, <2>2
<1>4. UpTo(Cardinality(S)) = SUBSET S
  <2>1. \A T \in SUBSET S : Cardinality(T) <= Cardinality(S)
    BY FS_Subset
  <2> QED BY <2>1
<1>5. \E g : g = [T \in SUBSET S |-> AddUp(f, g, T)]
  BY <1>3, <1>4
<1>6. Sums(f, S) = [T \in SUBSET S |-> AddUp(f, Sums(f, S), T)]
  BY <1>5 DEF Sums
<1> DEFINE F == Sums(f, S)
<1>7. F = [T \in SUBSET S |-> AddUp(f, F, T)]
  BY <1>6
<1> HIDE DEF F
<1>8. \A T \in SUBSET S : F[T] = AddUp(f, F, T)
  BY <1>7
<1> QED
  BY <1>8 DEF F

(* What holds of the empty set, and of a set as soon as it holds of the set
   without the picked element, holds of every subset. *)
LEMMA InductionOnSubsets ==
  ASSUME NEW S, IsFiniteSet(S), NEW Q, {} \in Q,
         \A T \in SUBSET S : T # {} /\ T \ {Pick(T)} \in Q => T \in Q
  PROVE  SUBSET S \subseteq Q
<1> DEFINE M == {m \in Nat : \A T \in SUBSET S : Cardinality(T) = m => T \in Q}
<1>0. \A T \in SUBSET S : IsFiniteSet(T) /\ Cardinality(T) \in Nat
  BY FS_Subset, FS_CardinalityType
<1>1. 0 \in M
  <2>1. \A T \in SUBSET S : Cardinality(T) = 0 => T = {}
    BY <1>0, FS_EmptySet
  <2> QED BY <2>1
<1>2. ASSUME NEW m \in M PROVE m + 1 \in M
  <2>1. m \in Nat /\ m + 1 \in Nat
    OBVIOUS
  <2>2. ASSUME NEW T \in SUBSET S, Cardinality(T) = m + 1 PROVE T \in Q
    <3>1. T # {}
      BY <2>1, <2>2, FS_EmptySet
    <3> DEFINE U == T \ {Pick(T)}
    <3>2. U \in SUBSET S /\ Cardinality(U) \in Nat /\ Cardinality(T) = Cardinality(U) + 1
      BY <1>0, <3>1, Picked
    <3>3. Cardinality(U) = m
      BY <2>1, <2>2, <3>2
    <3>4. U \in Q
      BY <3>2, <3>3
    <3> QED BY <3>1, <3>4
  <2> QED BY <2>1, <2>2
<1>3. M = Nat
  <2> HIDE DEF M
  <2>1. M \in SUBSET Nat
    BY DEF M
  <2> QED BY <1>1, <1>2, <2>1, InductionOnNat
<1> QED
  BY <1>0, <1>3

(* A sum of zeros is zero. *)
LEMMA SumOfZeros ==
  ASSUME NEW S, IsFiniteSet(S), NEW f, \A x \in S : f[x] = 0
  PROVE  SumFunctionOnSet(f, S) = 0
<1> DEFINE F == Sums(f, S)
           Q == {T \in SUBSET S : F[T] = 0}
<1>1. \A T \in SUBSET S : F[T] = AddUp(f, F, T)
  BY SumsDefined
<1> HIDE DEF F
<1>2. {} \in Q
  BY <1>1 DEF AddUp
<1>3. ASSUME NEW T \in SUBSET S, T # {}, T \ {Pick(T)} \in Q PROVE T \in Q
  <2>1. Pick(T) \in S
    BY <1>3 DEF Pick
  <2>2. F[T] = f[Pick(T)] + F[T \ {Pick(T)}]
    BY <1>1, <1>3 DEF AddUp
  <2>3. f[Pick(T)] = 0 /\ F[T \ {Pick(T)}] = 0
    BY <1>3, <2>1
  <2> QED BY <2>2, <2>3
<1>4. SUBSET S \subseteq Q
  <2> HIDE DEF Q
  <2> QED BY <1>2, <1>3, InductionOnSubsets
<1>5. S \in Q
  BY <1>4
<1> QED
  BY <1>5, SumUnfold DEF F

(* A sum grows by what one of its terms grows by. *)
OneGrows(f, g, S, x, d) == g[x] = f[x] + d /\ \A y \in S : y # x => g[y] = f[y]

LEMMA SumGrows ==
  ASSUME NEW S, IsFiniteSet(S), NEW f \in [S -> Nat], NEW g \in [S -> Nat],
         NEW x \in S, NEW d \in Nat, OneGrows(f, g, S, x, d)
  PROVE  /\ SumFunctionOnSet(f, S) \in Nat
         /\ SumFunctionOnSet(g, S) = SumFunctionOnSet(f, S) + d
<1>0. g[x] = f[x] + d /\ \A y \in S : y # x => g[y] = f[y]
  BY DEF OneGrows
<1> DEFINE F == Sums(f, S)
           G == Sums(g, S)
           Q == {T \in SUBSET S : /\ F[T] \in Nat
                                  /\ x \notin T => G[T] = F[T]
                                  /\ x \in T => G[T] = F[T] + d}
<1>1. \A T \in SUBSET S : F[T] = AddUp(f, F, T) /\ G[T] = AddUp(g, G, T)
  BY SumsDefined
<1> HIDE DEF F, G
<1>2. {} \in Q
  <2>1. F[{}] = 0 /\ G[{}] = 0
    BY <1>1 DEF AddUp
  <2>2. {} \in SUBSET S /\ x \notin {}
    OBVIOUS
  <2> QED BY <2>1, <2>2
<1>3. ASSUME NEW T \in SUBSET S, T # {}, T \ {Pick(T)} \in Q PROVE T \in Q
  <2> DEFINE p == Pick(T)
             U == T \ {p}
  <2>1. p \in T /\ p \in S /\ f[p] \in Nat /\ f[x] \in Nat
    BY <1>3 DEF Pick
  <2>2. F[T] = f[p] + F[U] /\ G[T] = g[p] + G[U]
    BY <1>1, <1>3 DEF AddUp
  <2>3. /\ F[U] \in Nat
        /\ x \notin U => G[U] = F[U]
        /\ x \in U => G[U] = F[U] + d
    BY <1>3
  <2>4. F[T] \in Nat
    <3> HIDE DEF p, U
    <3> QED BY <2>1, <2>2, <2>3
  <2>5. CASE p = x
    <3>1. x \notin U /\ x \in T
      BY <2>1, <2>5
    <3>2. g[p] = f[p] + d
      BY <1>0, <2>5
    <3> HIDE DEF p, U
    <3>3. G[T] = F[T] + d
      BY <2>1, <2>2, <2>3, <3>1, <3>2
    <3> QED BY <2>4, <3>1, <3>3
  <2>6. CASE p # x
    <3>1. x \in U <=> x \in T
      BY <2>1, <2>6
    <3>2. g[p] = f[p]
      BY <1>0, <2>1, <2>6
    <3> HIDE DEF p, U
    <3>3. /\ x \notin T => G[T] = F[T]
          /\ x \in T => G[T] = F[T] + d
      BY <2>1, <2>2, <2>3, <3>1, <3>2
    <3> QED BY <2>4, <3>3
  <2> QED BY <2>5, <2>6
<1>4. SUBSET S \subseteq Q
  <2> HIDE DEF Q
  <2> QED BY <1>2, <1>3, InductionOnSubsets
<1>5. S \in Q
  BY <1>4
<1> QED
  BY <1>5, SumUnfold DEF F, G
=============================================================================
