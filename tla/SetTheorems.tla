---------------------------- MODULE SetTheorems ------------------------------
(***************************************************************************)
(* Finite sets, the least of them and their sums.  The rules of esdoctor   *)
(* take the first of a group, the fullest of the paths or the latest of    *)
(* the backing indices, total what they find on nodes, disks and indices,  *)
(* and compare the totals with thresholds and with each other.  The lemmas *)
(* say what such a choice finds and what SumFunctionOnSet of the community *)
(* modules, a recursive function over the subsets of a set, comes to.      *)
(* Induction is over sets of finite sets, as a least counterexample.       *)
(***************************************************************************)
EXTENDS Integers, Functions, FiniteSetTheorems, WellFoundedInduction, TLAPS

(* Of the subsets of a finite set that are not in Q one is least: if a set *)
(* is in Q whenever its proper subsets are, all are.                       *)
LEMMA SetsBySubsets ==
  ASSUME NEW S, IsFiniteSet(S), NEW Q,
         \A T \in SUBSET S : (\A U \in SUBSET T : U # T => U \in Q) => T \in Q
  PROVE  \A T \in SUBSET S : T \in Q
<1> DEFINE Bad == {T \in SUBSET S : T \notin Q}
<1>1. SUFFICES ASSUME Bad # {} PROVE FALSE
  OBVIOUS
<1>2. Bad \subseteq FiniteSubsetsOf(S) /\ FiniteSubsetsOf(S) = SUBSET S
  BY FS_FiniteSubsetsOfFinite
<1>3. PICK T \in Bad : \A U \in Bad : ~(<<U, T>> \in StrictSubsetOrdering(S))
  <2>1. IsWellFoundedOn(StrictSubsetOrdering(S), FiniteSubsetsOf(S))
    BY FS_StrictSubsetOrderingWellFounded
  <2> HIDE DEF Bad
  <2> QED
    BY <1>1, <1>2, <2>1, WFMin
<1>4. ASSUME NEW U \in SUBSET T, U # T PROVE U \in Q
  <2>1. U \in SUBSET S /\ T \in SUBSET S
    OBVIOUS
  <2>2. <<U, T>> \in StrictSubsetOrdering(S)
    BY <1>4, <2>1 DEF StrictSubsetOrdering
  <2> QED
    BY <1>3, <2>1, <2>2
<1> QED
  BY <1>4

(* The same with one element less. *)
LEMMA SetsByElements ==
  ASSUME NEW S, IsFiniteSet(S), NEW Q, {} \in Q,
         \A T \in SUBSET S : \A x \in T : T \ {x} \in Q => T \in Q
  PROVE  \A T \in SUBSET S : T \in Q
<1>1. ASSUME NEW T \in SUBSET S, \A U \in SUBSET T : U # T => U \in Q PROVE T \in Q
  <2>1. CASE T = {}
    BY <2>1
  <2>2. CASE T # {}
    <3>1. PICK x \in T : TRUE
      BY <2>2
    <3>2. T \ {x} \in SUBSET T /\ T \ {x} # T
      OBVIOUS
    <3> QED
      BY <1>1, <3>2
  <2> QED
    BY <2>1, <2>2
<1> QED
  BY <1>1, SetsBySubsets

(* Where any two elements of a finite set are in order, one comes first.   *)
LEMMA OneComesFirst ==
  ASSUME NEW S, IsFiniteSet(S), S # {}, NEW R,
         \A x, y \in S : <<x, y>> \in R \/ <<y, x>> \in R,
         \A x, y, z \in S : <<x, y>> \in R /\ <<y, z>> \in R => <<x, z>> \in R
  PROVE  \E c \in S : \A j \in S : <<c, j>> \in R
<1> DEFINE Q == {T \in SUBSET S : T = {} \/ \E c \in T : \A j \in T : <<c, j>> \in R}
<1>1. {} \in Q
  OBVIOUS
<1>2. ASSUME NEW T \in SUBSET S, NEW x \in T, T \ {x} \in Q PROVE T \in Q
  <2>0. <<x, x>> \in R
    OBVIOUS
  <2>1. CASE T \ {x} = {}
    <3>1. \A j \in T : j = x
      BY <2>1
    <3> QED
      BY <2>0, <3>1
  <2>2. CASE T \ {x} # {}
    <3>1. PICK c \in T \ {x} : \A j \in T \ {x} : <<c, j>> \in R
      BY <1>2, <2>2
    <3>2. CASE <<c, x>> \in R
      <4>1. \A j \in T : <<c, j>> \in R
        BY <3>1, <3>2
      <4> QED
        BY <4>1
    <3>3. CASE <<x, c>> \in R
      <4>1. \A j \in T : <<x, j>> \in R
        <5> TAKE j \in T
        <5>1. CASE j = x
          BY <2>0, <5>1
        <5>2. CASE j # x
          <6>1. <<c, j>> \in R
            BY <3>1, <5>2
          <6>2. x \in S /\ c \in S /\ j \in S
            OBVIOUS
          <6> QED
            BY <3>3, <6>1, <6>2
        <5> QED
          BY <5>1, <5>2
      <4> QED
        BY <4>1
    <3> QED
      BY <3>2, <3>3
  <2> QED
    BY <2>1, <2>2
<1>3. \A T \in SUBSET S : T \in Q
  <2> HIDE DEF Q
  <2> QED
    BY <1>1, <1>2, SetsByElements
<1> QED
  BY <1>3

(* Of finitely many numbers one is least and one is greatest.              *)
LEMMA ThereIsALeast ==
  ASSUME NEW S, S \subseteq Int, IsFiniteSet(S), S # {}
  PROVE  \E c \in S : \A j \in S : c <= j
<1> DEFINE R == {p \in S \X S : p[1] <= p[2]}
<1>1. \A x, y \in S : x \in Int /\ y \in Int /\ (<<x, y>> \in R <=> x <= y)
  OBVIOUS
<1> HIDE DEF R
<1>2. /\ \A x, y \in S : <<x, y>> \in R \/ <<y, x>> \in R
      /\ \A x, y, z \in S : <<x, y>> \in R /\ <<y, z>> \in R => <<x, z>> \in R
  BY <1>1
<1>3. \E c \in S : \A j \in S : <<c, j>> \in R
  BY <1>2, OneComesFirst
<1> QED
  BY <1>1, <1>3

LEMMA ThereIsAGreatest ==
  ASSUME NEW S, S \subseteq Int, IsFiniteSet(S), S # {}
  PROVE  \E c \in S : \A j \in S : c >= j
<1> DEFINE R == {p \in S \X S : p[1] >= p[2]}
<1>1. \A x, y \in S : x \in Int /\ y \in Int /\ (<<x, y>> \in R <=> x >= y)
  OBVIOUS
<1> HIDE DEF R
<1>2. /\ \A x, y \in S : <<x, y>> \in R \/ <<y, x>> \in R
      /\ \A x, y, z \in S : <<x, y>> \in R /\ <<y, z>> \in R => <<x, z>> \in R
  BY <1>1
<1>3. \E c \in S : \A j \in S : <<c, j>> \in R
  BY <1>2, OneComesFirst
<1> QED
  BY <1>1, <1>3

-----------------------------------------------------------------------------
(* The recursion: the sum of a set from those of its subsets. *)
One(s) == CHOOSE x \in s : TRUE

Step(f, g, s) == IF s = {} THEN 0 ELSE f[One(s)] + g[s \ {One(s)}]

Solves(g, f, S) == g = [s \in SUBSET S |-> Step(f, g, s)]

Sums(f, S) == CHOOSE g : Solves(g, f, S)

LEMMA OneIsIn == ASSUME NEW s, s # {} PROVE One(s) \in s
BY DEF One

LEMMA SumIsSolved ==
  ASSUME NEW f, NEW S
  PROVE  SumFunctionOnSet(f, S) = Sums(f, S)[S]
BY DEF SumFunctionOnSet, FoldFunctionOnSet, MapThenFoldSet, Sums, Solves, Step, One

(* A solution is one for every subset, and there is no other. *)
LEMMA SolutionsRestrict ==
  ASSUME NEW f, NEW S, NEW g, Solves(g, f, S), NEW U \in SUBSET S
  PROVE  Solves([s \in SUBSET U |-> g[s]], f, U)
<1> DEFINE h == [s \in SUBSET U |-> g[s]]
<1>1. ASSUME NEW s \in SUBSET U PROVE h[s] = Step(f, h, s)
  <2>1. s \in SUBSET S /\ s \ {One(s)} \in SUBSET U
    OBVIOUS
  <2>2. h[s] = g[s] /\ h[s \ {One(s)}] = g[s \ {One(s)}]
    BY <2>1
  <2>3. g[s] = Step(f, g, s)
    BY <2>1 DEF Solves
  <2> QED
    BY <2>2, <2>3 DEF Step
<1> QED
  BY <1>1 DEF Solves

LEMMA SolutionsAgree ==
  ASSUME NEW f, NEW S, IsFiniteSet(S), NEW g, NEW h, Solves(g, f, S), Solves(h, f, S)
  PROVE  \A T \in SUBSET S : g[T] = h[T]
<1> DEFINE Q == {T \in SUBSET S : g[T] = h[T]}
<1>1. ASSUME NEW T \in SUBSET S, \A U \in SUBSET T : U # T => U \in Q PROVE T \in Q
  <2>1. g[T] = Step(f, g, T) /\ h[T] = Step(f, h, T)
    BY DEF Solves
  <2>2. T # {} => T \ {One(T)} \in Q
    BY <1>1, OneIsIn
  <2> QED
    BY <2>1, <2>2 DEF Step
<1>2. \A T \in SUBSET S : T \in Q
  <2> HIDE DEF Q
  <2> QED
    BY <1>1, SetsBySubsets
<1> QED
  BY <1>2

LEMMA SolutionsExist ==
  ASSUME NEW f, NEW S, IsFiniteSet(S)
  PROVE  \A T \in SUBSET S : Solves(Sums(f, T), f, T)
<1> DEFINE Q == {T \in SUBSET S : \E g : Solves(g, f, T)}
<1>1. ASSUME NEW T \in SUBSET S, \A U \in SUBSET T : U # T => U \in Q PROVE T \in Q
  <2> DEFINE below == [s \in SUBSET T |-> Sums(f, s)[s]]
             g == [s \in SUBSET T |-> Step(f, below, s)]
  <2>1. ASSUME NEW U \in SUBSET T, U # T PROVE Solves(Sums(f, U), f, U)
    BY <1>1, <2>1 DEF Sums
  <2>2. ASSUME NEW U \in SUBSET T, U # T PROVE below[U] = g[U]
    <3>1. below[U] = Step(f, Sums(f, U), U)
      BY <2>1, <2>2 DEF Solves
    <3>2. CASE U = {}
      BY <3>1, <3>2 DEF Step
    <3>3. CASE U # {}
      <4> DEFINE V == U \ {One(U)}
      <4>1. V \in SUBSET U /\ V \in SUBSET T /\ V # T /\ IsFiniteSet(V)
        <5>1. IsFiniteSet(V)
          BY FS_Subset
        <5> QED
          BY <2>2, <5>1
      <4>2. Solves(Sums(f, V), f, V) /\ Solves([s \in SUBSET V |-> Sums(f, U)[s]], f, V)
        BY <2>1, <2>2, <4>1, SolutionsRestrict
      <4>3. Sums(f, V)[V] = [s \in SUBSET V |-> Sums(f, U)[s]][V]
        <5>1. V \in SUBSET V
          OBVIOUS
        <5> HIDE DEF V
        <5> QED
          BY <4>1, <4>2, <5>1, SolutionsAgree
      <4>4. below[V] = Sums(f, U)[V]
        BY <4>1, <4>3
      <4> QED
        BY <3>1, <3>3, <4>4 DEF Step
    <3> QED
      BY <3>2, <3>3
  <2>3. ASSUME NEW s \in SUBSET T PROVE g[s] = Step(f, g, s)
    <3>1. s # {} => below[s \ {One(s)}] = g[s \ {One(s)}]
      BY <2>2, OneIsIn
    <3> QED
      BY <3>1 DEF Step
  <2>4. Solves(g, f, T)
    BY <2>3 DEF Solves
  <2> QED
    BY <2>4
<1>2. \A T \in SUBSET S : T \in Q
  <2> HIDE DEF Q
  <2> QED
    BY <1>1, SetsBySubsets
<1> QED
  BY <1>2 DEF Sums

(* What the code of a loop does: the empty sum, and one element more.      *)
LEMMA SumOfNothing ==
  ASSUME NEW f
  PROVE  SumFunctionOnSet(f, {}) = 0
<1>1. Solves(Sums(f, {}), f, {})
  BY FS_EmptySet, SolutionsExist
<1>2. Sums(f, {})[{}] = Step(f, Sums(f, {}), {})
  BY <1>1 DEF Solves
<1> QED
  BY <1>2, SumIsSolved DEF Step

LEMMA SumOfOneMore ==
  ASSUME NEW f, NEW S, IsFiniteSet(S), S # {}
  PROVE  SumFunctionOnSet(f, S) = f[One(S)] + SumFunctionOnSet(f, S \ {One(S)})
<1> DEFINE V == S \ {One(S)}
<1>1. V \in SUBSET S /\ IsFiniteSet(V)
  BY FS_Subset
<1>2. Solves(Sums(f, S), f, S) /\ Solves(Sums(f, V), f, V)
  BY <1>1, SolutionsExist
<1>3. Sums(f, V)[V] = Sums(f, S)[V]
  <2>1. Solves([s \in SUBSET V |-> Sums(f, S)[s]], f, V)
    BY <1>1, <1>2, SolutionsRestrict
  <2>2. Sums(f, V)[V] = [s \in SUBSET V |-> Sums(f, S)[s]][V]
    <3>1. V \in SUBSET V
      OBVIOUS
    <3> HIDE DEF V
    <3> QED
      BY <1>1, <1>2, <2>1, <3>1, SolutionsAgree
  <2> QED
    BY <2>2
<1>4. Sums(f, S)[S] = Step(f, Sums(f, S), S)
  BY <1>2 DEF Solves
<1> QED
  BY <1>3, <1>4, SumIsSolved DEF Step

(* A sum of integers is one, and takes any element out. *)
LEMMA SumIsInt ==
  ASSUME NEW f, NEW S, IsFiniteSet(S), \A x \in S : f[x] \in Int
  PROVE  SumFunctionOnSet(f, S) \in Int
<1> DEFINE Q == {T \in SUBSET S : SumFunctionOnSet(f, T) \in Int}
<1>1. ASSUME NEW T \in SUBSET S, \A U \in SUBSET T : U # T => U \in Q PROVE T \in Q
  <2>1. CASE T = {}
    BY <2>1, SumOfNothing
  <2>2. CASE T # {}
    <3>1. One(T) \in T /\ IsFiniteSet(T)
      BY <2>2, OneIsIn, FS_Subset
    <3>2. SumFunctionOnSet(f, T \ {One(T)}) \in Int
      BY <1>1, <3>1
    <3>3. f[One(T)] \in Int
      BY <3>1
    <3> QED
      BY <2>2, <3>1, <3>2, <3>3, SumOfOneMore
  <2> QED
    BY <2>1, <2>2
<1>2. \A T \in SUBSET S : T \in Q
  <2> HIDE DEF Q
  <2> QED
    BY <1>1, SetsBySubsets
<1> QED
  BY <1>2

LEMMA SumTakesOut ==
  ASSUME NEW f, NEW S, IsFiniteSet(S), \A x \in S : f[x] \in Int, NEW x \in S
  PROVE  SumFunctionOnSet(f, S) = f[x] + SumFunctionOnSet(f, S \ {x})
<1> DEFINE Sum(T) == SumFunctionOnSet(f, T)
           Q == {T \in SUBSET S : \A y \in T : Sum(T) = f[y] + Sum(T \ {y})}
<1>1. \A T \in SUBSET S : Sum(T) \in Int /\ IsFiniteSet(T)
  BY SumIsInt, FS_Subset
<1>2. ASSUME NEW T \in SUBSET S, \A U \in SUBSET T : U # T => U \in Q, NEW y \in T
      PROVE  Sum(T) = f[y] + Sum(T \ {y})
  <2> DEFINE c == One(T)
  <2>1. c \in T
    BY OneIsIn
  <2>2. Sum(T) = f[c] + Sum(T \ {c})
    BY <1>1, SumOfOneMore
  <2>3. CASE y = c
    BY <2>2, <2>3
  <2>4. CASE y # c
    <3>1. T \ {c} \in Q /\ T \ {y} \in Q
      BY <1>2, <2>1
    <3>2. y \in T \ {c} /\ c \in T \ {y} /\ (T \ {c}) \ {y} = (T \ {y}) \ {c}
      BY <2>1, <2>4
    <3>3. Sum(T \ {c}) = f[y] + Sum((T \ {y}) \ {c}) /\ Sum(T \ {y}) = f[c] + Sum((T \ {y}) \ {c})
      BY <3>1, <3>2
    <3>4. f[c] \in Int /\ f[y] \in Int /\ Sum((T \ {y}) \ {c}) \in Int
      BY <1>1, <2>1
    <3> HIDE DEF Sum, c
    <3> QED
      BY <2>2, <3>3, <3>4
  <2> QED
    BY <2>3, <2>4
<1>3. ASSUME NEW T \in SUBSET S, \A U \in SUBSET T : U # T => U \in Q PROVE T \in Q
  BY <1>2, <1>3
<1>4. \A T \in SUBSET S : T \in Q
  <2> HIDE DEF Q
  <2> QED
    BY <1>3, SetsBySubsets
<1> QED
  BY <1>4

-----------------------------------------------------------------------------
(* A sum is as large as what is summed: of equal numbers it is the same,   *)
(* of larger ones larger.                                                  *)
LEMMA SumsAgree ==
  ASSUME NEW f, NEW g, NEW S, IsFiniteSet(S), \A x \in S : f[x] \in Int /\ f[x] = g[x]
  PROVE  SumFunctionOnSet(f, S) = SumFunctionOnSet(g, S)
<1> DEFINE Q == {T \in SUBSET S : SumFunctionOnSet(f, T) = SumFunctionOnSet(g, T)}
<1>1. {} \in Q
  BY SumOfNothing
<1>2. ASSUME NEW T \in SUBSET S, NEW x \in T, T \ {x} \in Q PROVE T \in Q
  <2>1. IsFiniteSet(T) /\ \A y \in T : f[y] \in Int /\ g[y] \in Int
    BY FS_Subset
  <2>2. /\ SumFunctionOnSet(f, T) = f[x] + SumFunctionOnSet(f, T \ {x})
        /\ SumFunctionOnSet(g, T) = g[x] + SumFunctionOnSet(g, T \ {x})
    BY <2>1, SumTakesOut
  <2> QED
    BY <1>2, <2>2
<1>3. \A T \in SUBSET S : T \in Q
  <2> HIDE DEF Q
  <2> QED
    BY <1>1, <1>2, SetsByElements
<1> QED
  BY <1>3

LEMMA SumsGrow ==
  ASSUME NEW f, NEW g, NEW S, IsFiniteSet(S),
         \A x \in S : f[x] \in Int /\ g[x] \in Int /\ f[x] <= g[x]
  PROVE  SumFunctionOnSet(f, S) <= SumFunctionOnSet(g, S)
<1> DEFINE Q == {T \in SUBSET S : SumFunctionOnSet(f, T) <= SumFunctionOnSet(g, T)}
<1>1. {} \in Q
  BY SumOfNothing
<1>2. ASSUME NEW T \in SUBSET S, NEW x \in T, T \ {x} \in Q PROVE T \in Q
  <2>1. IsFiniteSet(T) /\ IsFiniteSet(T \ {x}) /\ \A y \in T : f[y] \in Int /\ g[y] \in Int
    BY FS_Subset
  <2>2. /\ SumFunctionOnSet(f, T) = f[x] + SumFunctionOnSet(f, T \ {x})
        /\ SumFunctionOnSet(g, T) = g[x] + SumFunctionOnSet(g, T \ {x})
    BY <2>1, SumTakesOut
  <2>3. SumFunctionOnSet(f, T \ {x}) \in Int /\ SumFunctionOnSet(g, T \ {x}) \in Int
    BY <2>1, SumIsInt
  <2>4. f[x] \in Int /\ g[x] \in Int /\ f[x] <= g[x]
    OBVIOUS
  <2> QED
    BY <1>2, <2>2, <2>3, <2>4
<1>3. \A T \in SUBSET S : T \in Q
  <2> HIDE DEF Q
  <2> QED
    BY <1>1, <1>2, SetsByElements
<1> QED
  BY <1>3

(* Of numbers that are not negative: so is the sum, it is no less than any *)
(* of them and than the sum of some of them, and zero only if all are.     *)
LEMMA SumIsNat ==
  ASSUME NEW f, NEW S, IsFiniteSet(S), \A x \in S : f[x] \in Nat
  PROVE  SumFunctionOnSet(f, S) \in Nat
<1> DEFINE Q == {T \in SUBSET S : SumFunctionOnSet(f, T) \in Nat}
<1>1. {} \in Q
  BY SumOfNothing
<1>2. ASSUME NEW T \in SUBSET S, NEW x \in T, T \ {x} \in Q PROVE T \in Q
  <2>1. IsFiniteSet(T) /\ \A y \in T : f[y] \in Int
    BY FS_Subset
  <2>2. SumFunctionOnSet(f, T) = f[x] + SumFunctionOnSet(f, T \ {x})
    BY <2>1, SumTakesOut
  <2>3. f[x] \in Nat
    OBVIOUS
  <2> QED
    BY <1>2, <2>2, <2>3
<1>3. \A T \in SUBSET S : T \in Q
  <2> HIDE DEF Q
  <2> QED
    BY <1>1, <1>2, SetsByElements
<1> QED
  BY <1>3

LEMMA SumBoundsEach ==
  ASSUME NEW f, NEW S, IsFiniteSet(S), \A x \in S : f[x] \in Nat
  PROVE  \A x \in S : f[x] <= SumFunctionOnSet(f, S)
<1> TAKE x \in S
<1>1. SumFunctionOnSet(f, S) = f[x] + SumFunctionOnSet(f, S \ {x})
  <2>1. \A y \in S : f[y] \in Int
    OBVIOUS
  <2> QED
    BY <2>1, SumTakesOut
<1>2. SumFunctionOnSet(f, S \ {x}) \in Nat
  BY SumIsNat, FS_Subset
<1>3. f[x] \in Nat
  OBVIOUS
<1> QED
  BY <1>1, <1>2, <1>3

LEMMA SumOfZeros ==
  ASSUME NEW f, NEW S, IsFiniteSet(S), \A x \in S : f[x] = 0
  PROVE  SumFunctionOnSet(f, S) = 0
<1> DEFINE Q == {T \in SUBSET S : SumFunctionOnSet(f, T) = 0}
<1>1. {} \in Q
  BY SumOfNothing
<1>2. ASSUME NEW T \in SUBSET S, NEW x \in T, T \ {x} \in Q PROVE T \in Q
  <2>1. IsFiniteSet(T) /\ \A y \in T : f[y] \in Int
    BY FS_Subset
  <2>2. SumFunctionOnSet(f, T) = f[x] + SumFunctionOnSet(f, T \ {x})
    BY <2>1, SumTakesOut
  <2> QED
    BY <1>2, <2>2
<1>3. \A T \in SUBSET S : T \in Q
  <2> HIDE DEF Q
  <2> QED
    BY <1>1, <1>2, SetsByElements
<1> QED
  BY <1>3

LEMMA SumOfSome ==
  ASSUME NEW f, NEW S, IsFiniteSet(S), \A x \in S : f[x] \in Nat, NEW R \in SUBSET S
  PROVE  SumFunctionOnSet(f, R) <= SumFunctionOnSet(f, S)
<1> DEFINE Q == {T \in SUBSET S : SumFunctionOnSet(f, R \cap T) <= SumFunctionOnSet(f, T)}
<1>1. {} \in Q
  <2>1. R \cap {} = {}
    OBVIOUS
  <2> QED
    BY <2>1, SumOfNothing
<1>2. ASSUME NEW T \in SUBSET S, NEW x \in T, T \ {x} \in Q PROVE T \in Q
  <2>1. /\ IsFiniteSet(T) /\ IsFiniteSet(R \cap T) /\ IsFiniteSet(T \ {x})
        /\ \A y \in T : f[y] \in Int
    BY FS_Subset
  <2>2. SumFunctionOnSet(f, T) = f[x] + SumFunctionOnSet(f, T \ {x})
    BY <2>1, SumTakesOut
  <2>3. x \in R => SumFunctionOnSet(f, R \cap T) = f[x] + SumFunctionOnSet(f, R \cap (T \ {x}))
    <3>1. (R \cap T) \ {x} = R \cap (T \ {x})
      OBVIOUS
    <3> QED
      BY <2>1, <3>1, SumTakesOut
  <2>4. x \notin R => R \cap T = R \cap (T \ {x})
    OBVIOUS
  <2>5. IsFiniteSet(R \cap (T \ {x}))
    BY FS_Subset
  <2>6. /\ SumFunctionOnSet(f, T \ {x}) \in Nat
        /\ SumFunctionOnSet(f, R \cap (T \ {x})) \in Nat
    BY <2>1, <2>5, SumIsNat
  <2>7. f[x] \in Nat
    OBVIOUS
  <2>8. SumFunctionOnSet(f, R \cap (T \ {x})) <= SumFunctionOnSet(f, T \ {x})
    BY <1>2
  <2>9. SumFunctionOnSet(f, R \cap T) <= SumFunctionOnSet(f, T)
    <3> DEFINE whole == SumFunctionOnSet(f, T)
               some  == SumFunctionOnSet(f, R \cap T)
               less  == SumFunctionOnSet(f, T \ {x})
               rest  == SumFunctionOnSet(f, R \cap (T \ {x}))
    <3>1. whole = f[x] + less /\ (some = f[x] + rest \/ some = rest)
      BY <2>2, <2>3, <2>4
    <3>2. less \in Nat /\ rest \in Nat /\ rest <= less
      BY <2>6, <2>8
    <3> HIDE DEF whole, some, less, rest
    <3>3. some <= whole
      BY <3>1, <3>2, <2>7
    <3> QED
      BY <3>3 DEF some, whole
  <2> QED
    BY <2>9
<1>3. \A T \in SUBSET S : T \in Q
  <2> HIDE DEF Q
  <2> QED
    BY <1>1, <1>2, SetsByElements
<1>4. SumFunctionOnSet(f, R \cap S) <= SumFunctionOnSet(f, S)
  BY <1>3
<1>5. R \cap S = R
  OBVIOUS
<1> QED
  BY <1>4, <1>5

(* Zeros add nothing. *)
LEMMA SumWithoutZeros ==
  ASSUME NEW f, NEW S, IsFiniteSet(S), \A x \in S : f[x] \in Int, NEW R \in SUBSET S,
         \A x \in S \ R : f[x] = 0
  PROVE  SumFunctionOnSet(f, S) = SumFunctionOnSet(f, R)
<1> DEFINE Q == {T \in SUBSET S : SumFunctionOnSet(f, T) = SumFunctionOnSet(f, R \cap T)}
<1>1. {} \in Q
  <2>1. R \cap {} = {}
    OBVIOUS
  <2> QED
    BY <2>1, SumOfNothing
<1>2. ASSUME NEW T \in SUBSET S, NEW x \in T, T \ {x} \in Q PROVE T \in Q
  <2>1. /\ IsFiniteSet(T) /\ IsFiniteSet(R \cap T) /\ IsFiniteSet(T \ {x})
        /\ \A y \in T : f[y] \in Int
    BY FS_Subset
  <2>2. SumFunctionOnSet(f, T) = f[x] + SumFunctionOnSet(f, T \ {x})
    BY <2>1, SumTakesOut
  <2>3. SumFunctionOnSet(f, T \ {x}) \in Int /\ f[x] \in Int
    BY <2>1, SumIsInt
  <2>4. SumFunctionOnSet(f, T \ {x}) = SumFunctionOnSet(f, R \cap (T \ {x}))
    BY <1>2
  <2>5. CASE x \in R
    <3>1. (R \cap T) \ {x} = R \cap (T \ {x})
      OBVIOUS
    <3>2. SumFunctionOnSet(f, R \cap T) = f[x] + SumFunctionOnSet(f, (R \cap T) \ {x})
      BY <2>1, <2>5, SumTakesOut
    <3> QED
      BY <2>2, <2>4, <3>1, <3>2
  <2>6. CASE x \notin R
    <3>1. R \cap T = R \cap (T \ {x})
      BY <2>6
    <3>2. f[x] = 0
      BY <2>6
    <3>3. SumFunctionOnSet(f, T) = 0 + SumFunctionOnSet(f, T \ {x})
      BY <2>2, <3>2
    <3>4. SumFunctionOnSet(f, T) = SumFunctionOnSet(f, T \ {x})
      BY <2>3, <3>3
    <3> QED
      BY <2>4, <3>1, <3>4
  <2> QED
    BY <2>5, <2>6
<1>3. \A T \in SUBSET S : T \in Q
  <2> HIDE DEF Q
  <2> QED
    BY <1>1, <1>2, SetsByElements
<1>4. R \cap S = R
  OBVIOUS
<1> QED
  BY <1>3, <1>4

(* A sum changes by what one of its numbers does.                          *)
LEMMA SumChangesByOne ==
  ASSUME NEW f, NEW g, NEW S, IsFiniteSet(S), NEW x \in S,
         \A y \in S : f[y] \in Int /\ g[y] \in Int,
         \A y \in S : y # x => g[y] = f[y]
  PROVE  SumFunctionOnSet(g, S) = SumFunctionOnSet(f, S) + g[x] - f[x]
<1> DEFINE R == S \ {x}
<1>1. IsFiniteSet(R) /\ \A y \in R : f[y] \in Int /\ f[y] = g[y]
  BY FS_Subset
<1>2. SumFunctionOnSet(f, R) = SumFunctionOnSet(g, R) /\ SumFunctionOnSet(f, R) \in Int
  <2> HIDE DEF R
  <2> QED
    BY <1>1, SumsAgree, SumIsInt
<1>3. /\ SumFunctionOnSet(f, S) = f[x] + SumFunctionOnSet(f, R)
      /\ SumFunctionOnSet(g, S) = g[x] + SumFunctionOnSet(g, R)
  BY SumTakesOut
<1>4. f[x] \in Int /\ g[x] \in Int
  OBVIOUS
<1> HIDE DEF R
<1> QED
  BY <1>2, <1>3, <1>4

(* A sum of sums is the sum of both.                                       *)
LEMMA SumsAdd ==
  ASSUME NEW f, NEW g, NEW h, NEW S, IsFiniteSet(S),
         \A x \in S : f[x] \in Int /\ g[x] \in Int /\ h[x] = f[x] + g[x]
  PROVE  SumFunctionOnSet(h, S) = SumFunctionOnSet(f, S) + SumFunctionOnSet(g, S)
<1> DEFINE Q == {T \in SUBSET S : SumFunctionOnSet(h, T)
                                   = SumFunctionOnSet(f, T) + SumFunctionOnSet(g, T)}
<1>1. {} \in Q
  BY SumOfNothing
<1>2. ASSUME NEW T \in SUBSET S, NEW x \in T, T \ {x} \in Q PROVE T \in Q
  <2>1. /\ IsFiniteSet(T) /\ IsFiniteSet(T \ {x})
        /\ \A y \in T : f[y] \in Int /\ g[y] \in Int /\ h[y] \in Int
    BY FS_Subset
  <2>2. /\ SumFunctionOnSet(f, T) = f[x] + SumFunctionOnSet(f, T \ {x})
        /\ SumFunctionOnSet(g, T) = g[x] + SumFunctionOnSet(g, T \ {x})
        /\ SumFunctionOnSet(h, T) = h[x] + SumFunctionOnSet(h, T \ {x})
    BY <2>1, SumTakesOut
  <2>3. SumFunctionOnSet(f, T \ {x}) \in Int /\ SumFunctionOnSet(g, T \ {x}) \in Int
    BY <2>1, SumIsInt
  <2>4. /\ f[x] \in Int /\ g[x] \in Int /\ h[x] = f[x] + g[x]
        /\ SumFunctionOnSet(h, T \ {x})
             = SumFunctionOnSet(f, T \ {x}) + SumFunctionOnSet(g, T \ {x})
    BY <1>2
  <2>5. SumFunctionOnSet(h, T) = SumFunctionOnSet(f, T) + SumFunctionOnSet(g, T)
    BY <2>2, <2>3, <2>4
  <2> QED
    BY <2>5
<1>3. \A T \in SUBSET S : T \in Q
  <2> HIDE DEF Q
  <2> QED
    BY <1>1, <1>2, SetsByElements
<1> QED
  BY <1>3

(* A sum over a part is a sum over the whole where the rest counts nothing. *)
LEMMA SumOfPart ==
  ASSUME NEW f, NEW g, NEW S, IsFiniteSet(S), NEW R \in SUBSET S,
         \A x \in S : g[x] \in Int /\ g[x] = IF x \in R THEN f[x] ELSE 0
  PROVE  SumFunctionOnSet(g, S) = SumFunctionOnSet(f, R)
<1> DEFINE Q == {T \in SUBSET S : SumFunctionOnSet(g, T) = SumFunctionOnSet(f, R \cap T)}
<1>1. {} \in Q
  <2>1. R \cap {} = {}
    OBVIOUS
  <2> QED
    BY <2>1, SumOfNothing
<1>2. ASSUME NEW T \in SUBSET S, NEW x \in T, T \ {x} \in Q PROVE T \in Q
  <2>1. IsFiniteSet(T) /\ IsFiniteSet(R \cap T) /\ IsFiniteSet(R \cap (T \ {x}))
    BY FS_Subset
  <2>2. SumFunctionOnSet(g, T) = g[x] + SumFunctionOnSet(g, T \ {x})
    BY <2>1, SumTakesOut
  <2>3. SumFunctionOnSet(g, T \ {x}) = SumFunctionOnSet(f, R \cap (T \ {x}))
    BY <1>2
  <2>4. CASE x \in R
    <3>1. (R \cap T) \ {x} = R \cap (T \ {x}) /\ x \in R \cap T
      BY <2>4
    <3>2. \A y \in R \cap T : f[y] \in Int
      OBVIOUS
    <3>3. SumFunctionOnSet(f, R \cap T) = f[x] + SumFunctionOnSet(f, R \cap (T \ {x}))
      BY <2>1, <3>1, <3>2, SumTakesOut
    <3> QED
      BY <2>2, <2>3, <2>4, <3>3
  <2>5. CASE x \notin R
    <3>1. R \cap T = R \cap (T \ {x}) /\ g[x] = 0
      BY <2>5
    <3>2. SumFunctionOnSet(g, T \ {x}) \in Int
      <4>1. IsFiniteSet(T \ {x})
        BY <2>1, FS_Subset
      <4> QED
        BY <4>1, SumIsInt
    <3>3. SumFunctionOnSet(g, T) = SumFunctionOnSet(g, T \ {x})
      BY <2>2, <3>1, <3>2
    <3> QED
      BY <2>3, <3>1, <3>3
  <2> QED
    BY <2>4, <2>5
<1>3. \A T \in SUBSET S : T \in Q
  <2> HIDE DEF Q
  <2> QED
    BY <1>1, <1>2, SetsByElements
<1>4. SumFunctionOnSet(g, S) = SumFunctionOnSet(f, R \cap S) /\ R \cap S = R
  BY <1>3
<1> QED
  BY <1>4

-----------------------------------------------------------------------------
(* Images and unions of finite sets: one to one the image is as large, and *)
(* sets that have nothing in common add up.                                *)
LEMMA ImagesAreFinite ==
  ASSUME NEW f, NEW S, IsFiniteSet(S)
  PROVE  /\ IsFiniteSet({f[x] : x \in S})
         /\ Cardinality({f[x] : x \in S}) <= Cardinality(S)
<1> DEFINE T == {f[x] : x \in S}
           g == [x \in S |-> f[x]]
<1>1. g \in Surjection(S, T)
  BY DEF Surjection
<1> QED
  BY <1>1, FS_Surjection

LEMMA ImagesAreAsLarge ==
  ASSUME NEW f, NEW S, IsFiniteSet(S), \A x, y \in S : f[x] = f[y] => x = y
  PROVE  /\ IsFiniteSet({f[x] : x \in S})
         /\ Cardinality({f[x] : x \in S}) = Cardinality(S)
<1> DEFINE T == {f[x] : x \in S}
           g == [x \in S |-> f[x]]
<1>1. g \in Surjection(S, T)
  BY DEF Surjection
<1>2. g \in Injection(S, T)
  <2>1. g \in [S -> T] /\ \A x, y \in S : g[x] = g[y] => x = y
    OBVIOUS
  <2> HIDE DEF g, T
  <2> QED
    BY <2>1 DEF Injection, IsInjective
<1> QED
  BY <1>1, <1>2, FS_Surjection

LEMMA UnionsAddUp ==
  ASSUME NEW F, NEW g, NEW S, IsFiniteSet(S),
         \A x \in S : IsFiniteSet(F[x]) /\ g[x] = Cardinality(F[x]),
         \A x, y \in S : x # y => F[x] \cap F[y] = {}
  PROVE  /\ IsFiniteSet(UNION {F[x] : x \in S})
         /\ Cardinality(UNION {F[x] : x \in S}) = SumFunctionOnSet(g, S)
<1> DEFINE U(T) == UNION {F[x] : x \in T}
           Q == {T \in SUBSET S : IsFiniteSet(U(T)) /\ Cardinality(U(T)) = SumFunctionOnSet(g, T)}
<1>0. \A x \in S : g[x] \in Int
  BY FS_CardinalityType
<1>1. {} \in Q
  <2>1. U({}) = {}
    OBVIOUS
  <2> QED
    BY <2>1, SumOfNothing, FS_EmptySet
<1>2. ASSUME NEW T \in SUBSET S, NEW x \in T, T \ {x} \in Q PROVE T \in Q
  <2>1. U(T) = U(T \ {x}) \cup F[x] /\ U(T \ {x}) \cap F[x] = {}
    OBVIOUS
  <2>2. SumFunctionOnSet(g, T) = g[x] + SumFunctionOnSet(g, T \ {x})
    BY <1>0, FS_Subset, SumTakesOut
  <2>3. IsFiniteSet(U(T \ {x})) /\ Cardinality(U(T \ {x})) = SumFunctionOnSet(g, T \ {x})
    BY <1>2
  <2>4. IsFiniteSet(F[x]) /\ g[x] = Cardinality(F[x])
    OBVIOUS
  <2> HIDE DEF U
  <2>5. /\ IsFiniteSet(U(T))
        /\ Cardinality(U(T)) = Cardinality(U(T \ {x})) + Cardinality(F[x])
             - Cardinality(U(T \ {x}) \cap F[x])
    <3> DEFINE A == U(T \ {x})
               B == F[x]
    <3>1. IsFiniteSet(A) /\ IsFiniteSet(B) /\ U(T) = A \cup B
      BY <2>1, <2>3, <2>4
    <3> HIDE DEF A, B
    <3>2. /\ IsFiniteSet(A \cup B)
          /\ Cardinality(A \cup B) = Cardinality(A) + Cardinality(B) - Cardinality(A \cap B)
      BY <3>1, FS_Union
    <3> QED
      BY <3>1, <3>2 DEF A, B
  <2>6. Cardinality(U(T \ {x}) \cap F[x]) = 0
    BY <2>1, FS_EmptySet
  <2>7. Cardinality(U(T \ {x})) \in Nat /\ Cardinality(F[x]) \in Nat
    BY <2>3, <2>4, FS_CardinalityType
  <2>8. Cardinality(U(T)) = SumFunctionOnSet(g, T)
    BY <2>2, <2>3, <2>4, <2>5, <2>6, <2>7
  <2> QED
    BY <2>5, <2>8
<1>3. \A T \in SUBSET S : T \in Q
  <2> HIDE DEF Q
  <2> QED
    BY <1>1, <1>2, SetsByElements
<1>4. S \in Q
  BY <1>3
<1> QED
  BY <1>4
=============================================================================
