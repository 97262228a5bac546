----------------------------- MODULE SumTheorems -----------------------------
(***************************************************************************)
(* Induction over finite data, and what the sums of the models compute     *)
(* (Functions!SumFunctionOnSet).  The induction goes over the subsets of a *)
(* finite set: it rests on FS_StrictSubsetOrderingWellFounded and WFMin,   *)
(* which speak of sets only, where the usual induction theorems take an    *)
(* operator that the provers cannot instantiate.                           *)
(***************************************************************************)
EXTENDS Integers, Functions, FiniteSetTheorems, TLAPS

(* F is a family of subsets of a finite set, and one of its members holds no other. *)
Family(F, S) == F # {} /\ F \subseteq SUBSET S /\ IsFiniteSet(S)
HasMinimal(F) == \E x \in F : \A y \in F : y \subseteq x => y = x

(* A family of subsets of a finite set has a minimal member. *)
LEMMA MinimalMember ==
    ASSUME NEW S, NEW F, Family(F, S)
    PROVE  HasMinimal(F)
  <1>1. IsWellFoundedOn(StrictSubsetOrdering(S), SUBSET S)
    BY FS_StrictSubsetOrderingWellFounded, FS_FiniteSubsetsOfFinite DEF Family
  <1>2. \E x \in F : \A y \in F : ~(<<y, x>> \in StrictSubsetOrdering(S))
    BY <1>1, WFMin DEF Family
  <1> QED BY <1>2 DEF StrictSubsetOrdering, HasMinimal, Family

(* Induction over an interval that begins with zero. *)
LEMMA IntervalInduction ==
    ASSUME NEW n \in Nat, NEW P, 0 \in P, \A k \in 0 .. n - 1 : k \in P => k + 1 \in P
    PROVE  0 .. n \subseteq P
  <1> DEFINE F == {0 .. k : k \in {j \in 0 .. n : j \notin P}}
  <1> SUFFICES ASSUME F # {} PROVE FALSE
    OBVIOUS
  <1>0. IsFiniteSet(0 .. n)
    BY FS_Interval
  <1>1. F \subseteq SUBSET (0 .. n) /\ F # {}
    OBVIOUS
  <1>2. PICK x \in F : \A y \in F : y \subseteq x => y = x
    <2>1. Family(F, 0 .. n)
      BY <1>0, <1>1 DEF Family
    <2> HIDE DEF F
    <2>2. HasMinimal(F)
      BY <2>1, MinimalMember
    <2> QED BY <2>2 DEF HasMinimal
  <1>3. PICK k \in 0 .. n : k \notin P /\ x = 0 .. k
    OBVIOUS
  <1>4. k # 0 /\ k - 1 \in 0 .. n - 1 /\ k - 1 \in 0 .. n
    BY <1>3
  <1>5. k - 1 \notin P
    BY <1>3, <1>4
  <1>6. 0 .. (k - 1) \in F
    BY <1>4, <1>5
  <1>7. 0 .. (k - 1) \subseteq x /\ 0 .. (k - 1) # x
    BY <1>3, <1>4
  <1> QED BY <1>2, <1>6, <1>7

(* Every set of naturals that has a member has a least one ... *)
LEMMA LeastNatural ==
    ASSUME NEW S, S \subseteq Nat, NEW e \in S
    PROVE  \E x \in S : \A y \in S : x <= y
  <1> SUFFICES ASSUME \A x \in S : \E y \in S : ~(x <= y) PROVE FALSE
    OBVIOUS
  <1> DEFINE P == {k \in Nat : \A y \in S : ~(y <= k)}
  <1>1. 0 \in P
    OBVIOUS
  <1>2. ASSUME NEW k \in 0 .. e - 1, k \in P PROVE k + 1 \in P
    <2> SUFFICES ASSUME NEW y \in S, y <= k + 1 PROVE FALSE
      OBVIOUS
    <2>1. y = k + 1
      BY <1>2
    <2>2. PICK z \in S : ~(y <= z)
      OBVIOUS
    <2> QED BY <1>2, <2>1, <2>2
  <1>3. e \in Nat
    OBVIOUS
  <1> HIDE DEF P
  <1>4. 0 .. e \subseteq P
    BY <1>1, <1>2, <1>3, IntervalInduction
  <1>5. e \in P
    BY <1>3, <1>4
  <1> QED BY <1>3, <1>5 DEF P

(* ... and every set of naturals with a bound has a greatest one. *)
LEMMA GreatestNatural ==
    ASSUME NEW n \in Nat, NEW S, S \subseteq 0 .. n, NEW e \in S
    PROVE  \E x \in S : \A y \in S : x >= y
  <1> DEFINE R == {n - x : x \in S}
  <1>1. R \subseteq Nat /\ n - e \in R
    OBVIOUS
  <1>2. PICK d \in R : \A c \in R : d <= c
    <2> HIDE DEF R
    <2> QED BY <1>1, LeastNatural
  <1>3. PICK x \in S : d = n - x
    OBVIOUS
  <1>4. \A y \in S : n - y \in R /\ y \in 0 .. n
    OBVIOUS
  <1>5. ASSUME NEW y \in S PROVE x >= y
    <2>1. n - y \in R /\ x \in Int /\ y \in Int
      BY <1>4
    <2>2. d <= n - y
      <3> HIDE DEF R
      <3> QED BY <1>2, <2>1
    <2>3. n - x <= n - y
      BY <1>3, <2>2
    <2> QED BY <2>1, <2>3
  <1> QED BY <1>5

(* P has a subset of S as soon as it has the subset without any one of its elements. *)
Inductive(P, S) == \A T \in SUBSET S : (\A x \in T : T \ {x} \in P) => T \in P

(* Induction over the subsets of a finite set. *)
LEMMA SubsetInduction ==
    ASSUME NEW S, IsFiniteSet(S), NEW P, Inductive(P, S)
    PROVE  \A T \in SUBSET S : T \in P
  <1> DEFINE F == {T \in SUBSET S : T \notin P}
  <1> SUFFICES ASSUME F # {} PROVE FALSE
    OBVIOUS
  <1>1. IsWellFoundedOn(StrictSubsetOrdering(S), SUBSET S)
    BY FS_StrictSubsetOrderingWellFounded, FS_FiniteSubsetsOfFinite
  <1>2. PICK T \in F : \A U \in F : ~(<<U, T>> \in StrictSubsetOrdering(S))
    <2>1. F \subseteq SUBSET S /\ F # {}
      OBVIOUS
    <2> HIDE DEF F
    <2> QED BY <1>1, <2>1, WFMin
  <1>3. ASSUME NEW x \in T PROVE T \ {x} \in P
    <2>1. T \in SUBSET S /\ T \ {x} \in SUBSET S /\ T \ {x} # T
      OBVIOUS
    <2>2. <<T \ {x}, T>> \in StrictSubsetOrdering(S)
      BY <2>1 DEF StrictSubsetOrdering
    <2> QED BY <1>2, <2>1, <2>2
  <1> QED BY <1>2, <1>3 DEF Inductive

(* g sums f over the subsets of S. *)
Adds(g, f, S) ==
    g = [s \in SUBSET S |-> IF s = {} THEN 0 ELSE f[CHOOSE x \in s : TRUE] + g[s \ {CHOOSE x \in s : TRUE}]]
Adder(f, S) == CHOOSE g : Adds(g, f, S)

(* The sum is the value of the adder at the whole set. *)
LEMMA SumByAdder ==
    ASSUME NEW f, NEW S PROVE SumFunctionOnSet(f, S) = Adder(f, S)[S]
  BY DEF SumFunctionOnSet, FoldFunctionOnSet, MapThenFoldSet, Adds, Adder

(* What an adder of f is at a set that has a member. *)
LEMMA AddsAt ==
    ASSUME NEW f, NEW g, NEW S, Adds(g, f, S), NEW s, s \subseteq S, s # {}
    PROVE  g[{}] = 0 /\ g[s] = f[CHOOSE x \in s : TRUE] + g[s \ {CHOOSE x \in s : TRUE}] /\ (CHOOSE x \in s : TRUE) \in s
  <1>1. (CHOOSE x \in s : TRUE) \in s
    OBVIOUS
  <1> DEFINE G(t) == IF t = {} THEN 0 ELSE f[CHOOSE x \in t : TRUE] + g[t \ {CHOOSE x \in t : TRUE}]
  <1>2. g = [t \in SUBSET S |-> G(t)]
    BY DEF Adds
  <1>3. g[s] = G(s) /\ g[{}] = G({})
    <2> HIDE DEF G
    <2> QED BY <1>2
  <1> QED BY <1>1, <1>3

(* Adders over different sets agree where both are defined. *)
LEMMA AddersAgree ==
    ASSUME NEW f, NEW S, IsFiniteSet(S), NEW g, Adds(g, f, S), NEW W, W \subseteq S, NEW h, Adds(h, f, W)
    PROVE  g[W] = h[W]
  <1> DEFINE P == {s \in SUBSET S : s \subseteq W => g[s] = h[s]}
  <1>1. Inductive(P, S)
    <2> SUFFICES ASSUME NEW T \in SUBSET S, \A x \in T : T \ {x} \in P, T \subseteq W PROVE g[T] = h[T]
      BY DEF Inductive
    <2>1. CASE T = {}
      <3>1. g[{}] = 0 /\ h[{}] = 0
        BY DEF Adds
      <3> QED BY <2>1, <3>1
    <2>2. CASE T # {}
      <3> DEFINE x == CHOOSE y \in T : TRUE
      <3>1. g[T] = f[x] + g[T \ {x}] /\ h[T] = f[x] + h[T \ {x}] /\ x \in T
        BY <2>2, AddsAt
      <3> HIDE DEF x
      <3> QED BY <3>1
    <2> QED BY <2>1, <2>2
  <1> HIDE DEF P
  <1>2. \A T \in SUBSET S : T \in P
    BY <1>1, SubsetInduction
  <1> QED BY <1>2 DEF P

(* The member the recursion takes out first. *)
Chosen(s) == CHOOSE x \in s : TRUE

(* Adding up one member after the other. *)
LEMMA AdderStep ==
    ASSUME NEW f, NEW u, IsFiniteSet(u), u # {}, Adds(Adder(f, u), f, u),
           Adds(Adder(f, u \ {Chosen(u)}), f, u \ {Chosen(u)})
    PROVE  Adder(f, u)[u] = f[Chosen(u)] + Adder(f, u \ {Chosen(u)})[u \ {Chosen(u)}]
  <1>1. PICK w : w = u \ {Chosen(u)}
    OBVIOUS
  <1>2. PICK g, h : g = Adder(f, u) /\ h = Adder(f, w)
    OBVIOUS
  <1>3. Adds(g, f, u) /\ Adds(h, f, w)
    BY <1>1, <1>2
  <1>4. g[u] = f[Chosen(u)] + g[w]
    <2>1. u \subseteq u
      OBVIOUS
    <2> QED BY <1>1, <1>3, <2>1, AddsAt DEF Chosen
  <1>5. g[w] = h[w]
    <2>1. w \subseteq u
      BY <1>1
    <2> QED BY <1>3, <2>1, AddersAgree
  <1> QED BY <1>1, <1>2, <1>4, <1>5

(* The recursive definition of the sum has a solution. *)
LEMMA AdderExists ==
    ASSUME NEW f, NEW S, IsFiniteSet(S)
    PROVE  Adds(Adder(f, S), f, S)
  <1> DEFINE P == {T \in SUBSET S : \A U \in SUBSET T : Adds(Adder(f, U), f, U)}
  <1>1. Inductive(P, S)
    <2> SUFFICES ASSUME NEW T \in SUBSET S, \A x \in T : T \ {x} \in P PROVE T \in P
      BY DEF Inductive
    <2>1. ASSUME NEW s \in SUBSET T, s # T PROVE Adds(Adder(f, s), f, s) /\ IsFiniteSet(s)
      <3>1. PICK x \in T : x \notin s
        BY <2>1
      <3>2. s \in SUBSET (T \ {x}) /\ T \ {x} \in P
        BY <3>1
      <3>3. IsFiniteSet(s)
        BY FS_Subset
      <3> QED BY <3>2, <3>3
    <2>2. \E g : Adds(g, f, T)
      <3> DEFINE c(s) == CHOOSE x \in s : TRUE
                 g == [s \in SUBSET T |-> IF s = {} THEN 0 ELSE f[c(s)] + Adder(f, s \ {c(s)})[s \ {c(s)}]]
      <3>1. ASSUME NEW s \in SUBSET T, s # {} PROVE Adder(f, s \ {c(s)})[s \ {c(s)}] = g[s \ {c(s)}]
        <4> DEFINE u == s \ {c(s)}
                   w == u \ {c(u)}
        <4>1. c(s) \in s /\ u \in SUBSET T /\ u # T /\ w \in SUBSET T
          BY <3>1
        <4>2. Adds(Adder(f, u), f, u) /\ IsFiniteSet(u)
          BY <2>1, <4>1
        <4>3. CASE u = {}
          <5>1. Adder(f, u)[{}] = 0
            BY <4>2 DEF Adds
          <5>2. g[{}] = 0
            OBVIOUS
          <5> HIDE DEF u, g
          <5> QED BY <4>3, <5>1, <5>2 DEF u
        <4>4. CASE u # {}
          <5>1. g[u] = f[c(u)] + Adder(f, w)[w]
            BY <4>1, <4>4
          <5>2. w # T /\ w \in SUBSET T
            BY <4>1
          <5>3. Adds(Adder(f, w), f, w)
            BY <2>1, <5>2
          <5>4. c(u) = Chosen(u) /\ w = u \ {Chosen(u)}
            BY DEF Chosen
          <5> HIDE DEF g, u, w, c
          <5>5. Adder(f, u)[u] = f[Chosen(u)] + Adder(f, w)[w]
            BY <4>2, <4>4, <5>3, <5>4, AdderStep
          <5> QED BY <5>1, <5>4, <5>5 DEF u
        <4> QED BY <4>3, <4>4
      <3>2. g = [s \in SUBSET T |-> IF s = {} THEN 0 ELSE f[c(s)] + g[s \ {c(s)}]]
        <4>1. \A s \in SUBSET T : (IF s = {} THEN 0 ELSE f[c(s)] + Adder(f, s \ {c(s)})[s \ {c(s)}])
                                  = (IF s = {} THEN 0 ELSE f[c(s)] + g[s \ {c(s)}])
          <5> HIDE DEF g, c
          <5> QED BY <3>1
        <4> QED BY <4>1
      <3>3. Adds(g, f, T)
        BY <3>2 DEF Adds
      <3> HIDE DEF g
      <3> QED BY <3>3
    <2>3. Adds(Adder(f, T), f, T)
      BY <2>2 DEF Adder
    <2> QED BY <2>1, <2>3
  <1> HIDE DEF P
  <1>2. S \in P
    BY <1>1, SubsetInduction
  <1> QED BY <1>2 DEF P
(* f has an integer for every member of the finite set S. *)
Summable(f, S) == IsFiniteSet(S) /\ \A x \in S : f[x] \in Int

(* A sum stays a sum over a part of its set. *)
LEMMA SummableLess ==
    ASSUME NEW f, NEW S, Summable(f, S), NEW T \in SUBSET S PROVE Summable(f, T)
  <1>1. IsFiniteSet(S)
    BY DEF Summable
  <1>2. IsFiniteSet(T)
    BY <1>1, FS_Subset
  <1> QED BY <1>2 DEF Summable

(* The sum over no members ... *)
LEMMA SumNone == ASSUME NEW f PROVE SumFunctionOnSet(f, {}) = 0
  <1>1. IsFiniteSet({})
    BY FS_EmptySet
  <1>2. Adds(Adder(f, {}), f, {})
    BY <1>1, AdderExists
  <1>3. PICK g : g = Adder(f, {})
    OBVIOUS
  <1>4. g[{}] = 0
    BY <1>2, <1>3 DEF Adds
  <1> QED BY <1>3, <1>4, SumByAdder

(* ... and over one member more. *)
LEMMA SumChosen ==
    ASSUME NEW f, NEW S, IsFiniteSet(S), S # {}
    PROVE  /\ Chosen(S) \in S
           /\ SumFunctionOnSet(f, S) = f[Chosen(S)] + SumFunctionOnSet(f, S \ {Chosen(S)})
  <1>1. IsFiniteSet(S \ {Chosen(S)})
    BY FS_Subset
  <1>2. Adds(Adder(f, S), f, S) /\ Adds(Adder(f, S \ {Chosen(S)}), f, S \ {Chosen(S)})
    BY <1>1, AdderExists
  <1>3. Adder(f, S)[S] = f[Chosen(S)] + Adder(f, S \ {Chosen(S)})[S \ {Chosen(S)}]
    BY <1>2, AdderStep
  <1>4. Chosen(S) \in S
    BY DEF Chosen
  <1> QED BY <1>3, <1>4, SumByAdder

(* A sum of integers is an integer ... *)
LEMMA SumInt ==
    ASSUME NEW f, NEW S, Summable(f, S) PROVE SumFunctionOnSet(f, S) \in Int
  <1> DEFINE P == {T \in SUBSET S : SumFunctionOnSet(f, T) \in Int}
  <1>0. IsFiniteSet(S)
    BY DEF Summable
  <1>1. Inductive(P, S)
    <2> SUFFICES ASSUME NEW T \in SUBSET S, \A x \in T : T \ {x} \in P PROVE SumFunctionOnSet(f, T) \in Int
      BY DEF Inductive
    <2>1. CASE T = {}
      BY <2>1, SumNone
    <2>2. CASE T # {}
      <3>1. IsFiniteSet(T)
        BY <1>0, FS_Subset
      <3>2. Chosen(T) \in T /\ SumFunctionOnSet(f, T) = f[Chosen(T)] + SumFunctionOnSet(f, T \ {Chosen(T)})
        BY <2>2, <3>1, SumChosen
      <3> QED BY <3>2 DEF Summable
    <2> QED BY <2>1, <2>2
  <1> HIDE DEF P
  <1>2. S \in P
    BY <1>0, <1>1, SubsetInduction
  <1> QED BY <1>2 DEF P

(* Any member may be taken out first. *)
LEMMA SumWithout ==
    ASSUME NEW f, NEW S, Summable(f, S), NEW e \in S
    PROVE  SumFunctionOnSet(f, S) = f[e] + SumFunctionOnSet(f, S \ {e})
  <1> DEFINE P == {T \in SUBSET S : \A x \in T : SumFunctionOnSet(f, T) = f[x] + SumFunctionOnSet(f, T \ {x})}
  <1>0. IsFiniteSet(S)
    BY DEF Summable
  <1>1. Inductive(P, S)
    <2> SUFFICES ASSUME NEW T \in SUBSET S, \A x \in T : T \ {x} \in P, NEW x \in T
                 PROVE  SumFunctionOnSet(f, T) = f[x] + SumFunctionOnSet(f, T \ {x})
      BY DEF Inductive
    <2>1. IsFiniteSet(T) /\ T # {}
      BY <1>0, FS_Subset
    <2>2. PICK c \in T : SumFunctionOnSet(f, T) = f[c] + SumFunctionOnSet(f, T \ {c})
      <3>1. Chosen(T) \in T /\ SumFunctionOnSet(f, T) = f[Chosen(T)] + SumFunctionOnSet(f, T \ {Chosen(T)})
        BY <2>1, SumChosen
      <3>2. PICK c \in T : c = Chosen(T)
        BY <3>1
      <3>3. SumFunctionOnSet(f, T) = f[c] + SumFunctionOnSet(f, T \ {c})
        BY <3>1, <3>2
      <3> QED BY <3>3
    <2>3. CASE c = x
      BY <2>2, <2>3
    <2>4. CASE c # x
      <3>1. SumFunctionOnSet(f, T \ {c}) = f[x] + SumFunctionOnSet(f, (T \ {c}) \ {x})
        BY <2>4
      <3>2. SumFunctionOnSet(f, T \ {x}) = f[c] + SumFunctionOnSet(f, (T \ {x}) \ {c})
        BY <2>4
      <3>3. (T \ {c}) \ {x} = (T \ {x}) \ {c}
        OBVIOUS
      <3>4. f[c] \in Int /\ f[x] \in Int
        BY DEF Summable
      <3>5. SumFunctionOnSet(f, (T \ {x}) \ {c}) \in Int
        <4>1. (T \ {x}) \ {c} \in SUBSET S
          OBVIOUS
        <4>2. Summable(f, (T \ {x}) \ {c})
          BY <4>1, SummableLess
        <4> QED BY <4>2, SumInt
      <3>6. PICK A, B : A = SumFunctionOnSet(f, T \ {c}) /\ B = SumFunctionOnSet(f, T \ {x})
        OBVIOUS
      <3>7. PICK v \in Int : v = SumFunctionOnSet(f, (T \ {x}) \ {c})
        BY <3>5
      <3>8. A = f[x] + v /\ B = f[c] + v /\ SumFunctionOnSet(f, T) = f[c] + A
        BY <2>2, <3>1, <3>2, <3>3, <3>6, <3>7
      <3>9. SumFunctionOnSet(f, T) = f[x] + B
        BY <3>4, <3>8
      <3> QED BY <3>6, <3>9
    <2> QED BY <2>3, <2>4
  <1> HIDE DEF P
  <1>2. S \in P
    BY <1>0, <1>1, SubsetInduction
  <1> QED BY <1>2 DEF P

(* Functions that agree on a set have the same sum over it. *)
LEMMA SumSame ==
    ASSUME NEW f, NEW g, NEW S, IsFiniteSet(S), \A x \in S : f[x] = g[x]
    PROVE  SumFunctionOnSet(f, S) = SumFunctionOnSet(g, S)
  <1> DEFINE P == {T \in SUBSET S : SumFunctionOnSet(f, T) = SumFunctionOnSet(g, T)}
  <1>1. Inductive(P, S)
    <2> SUFFICES ASSUME NEW T \in SUBSET S, \A x \in T : T \ {x} \in P
                 PROVE  SumFunctionOnSet(f, T) = SumFunctionOnSet(g, T)
      BY DEF Inductive
    <2>1. CASE T = {}
      BY <2>1, SumNone
    <2>2. CASE T # {}
      <3>1. IsFiniteSet(T)
        BY FS_Subset
      <3>2. /\ Chosen(T) \in T /\ SumFunctionOnSet(f, T) = f[Chosen(T)] + SumFunctionOnSet(f, T \ {Chosen(T)})
            /\ SumFunctionOnSet(g, T) = g[Chosen(T)] + SumFunctionOnSet(g, T \ {Chosen(T)})
        BY <2>2, <3>1, SumChosen
      <3>3. SumFunctionOnSet(f, T \ {Chosen(T)}) = SumFunctionOnSet(g, T \ {Chosen(T)}) /\ f[Chosen(T)] = g[Chosen(T)]
        BY <3>2
      <3> QED BY <3>2, <3>3
    <2> QED BY <2>1, <2>2
  <1> HIDE DEF P
  <1>2. S \in P
    BY <1>1, SubsetInduction
  <1> QED BY <1>2 DEF P

(* ... and a sum of naturals is a natural. *)
LEMMA SumNat ==
    ASSUME NEW f, NEW S, IsFiniteSet(S), \A x \in S : f[x] \in Nat PROVE SumFunctionOnSet(f, S) \in Nat
  <1> DEFINE P == {T \in SUBSET S : SumFunctionOnSet(f, T) \in Nat}
  <1>1. Inductive(P, S)
    <2> SUFFICES ASSUME NEW T \in SUBSET S, \A x \in T : T \ {x} \in P PROVE SumFunctionOnSet(f, T) \in Nat
      BY DEF Inductive
    <2>1. CASE T = {}
      BY <2>1, SumNone
    <2>2. CASE T # {}
      <3>1. IsFiniteSet(T)
        BY FS_Subset
      <3>2. Chosen(T) \in T /\ SumFunctionOnSet(f, T) = f[Chosen(T)] + SumFunctionOnSet(f, T \ {Chosen(T)})
        BY <2>2, <3>1, SumChosen
      <3> QED BY <3>2
    <2> QED BY <2>1, <2>2
  <1> HIDE DEF P
  <1>2. S \in P
    BY <1>1, SubsetInduction
  <1> QED BY <1>2 DEF P

(* One member changes. *)
LEMMA SumChanged ==
    ASSUME NEW f, NEW g, NEW S, Summable(f, S), NEW e \in S, g[e] \in Int, \A x \in S \ {e} : f[x] = g[x]
    PROVE  SumFunctionOnSet(g, S) = SumFunctionOnSet(f, S) - f[e] + g[e]
  <1>1. Summable(g, S)
    BY DEF Summable
  <1>2. IsFiniteSet(S \ {e}) /\ Summable(f, S \ {e})
    <2>1. S \ {e} \in SUBSET S
      OBVIOUS
    <2>2. Summable(f, S \ {e})
      BY <2>1, SummableLess
    <2> QED BY <2>2 DEF Summable
  <1>3. PICK T : T = S \ {e}
    OBVIOUS
  <1>4. SumFunctionOnSet(f, T) = SumFunctionOnSet(g, T) /\ SumFunctionOnSet(f, T) \in Int
    <2>1. SumFunctionOnSet(f, T) \in Int
      BY <1>2, <1>3, SumInt
    <2>2. IsFiniteSet(T) /\ \A x \in T : f[x] = g[x]
      BY <1>2, <1>3
    <2> QED BY <2>1, <2>2, SumSame
  <1>5. SumFunctionOnSet(f, S) = f[e] + SumFunctionOnSet(f, T) /\ SumFunctionOnSet(g, S) = g[e] + SumFunctionOnSet(g, T)
    BY <1>1, <1>3, SumWithout
  <1>6. f[e] \in Int
    BY DEF Summable
  <1> QED BY <1>4, <1>5, <1>6

(* One member more. *)
LEMMA SumMore ==
    ASSUME NEW f, NEW S, Summable(f, S), NEW e, e \notin S, f[e] \in Int
    PROVE  Summable(f, S \cup {e}) /\ SumFunctionOnSet(f, S \cup {e}) = SumFunctionOnSet(f, S) + f[e]
  <1>1. PICK T : T = S \cup {e}
    OBVIOUS
  <1>2. IsFiniteSet(T)
    BY <1>1, FS_AddElement DEF Summable
  <1>3. Summable(f, T) /\ e \in T /\ T \ {e} = S
    BY <1>1, <1>2 DEF Summable
  <1>4. SumFunctionOnSet(f, T) = f[e] + SumFunctionOnSet(f, T \ {e})
    BY <1>3, SumWithout
  <1>5. SumFunctionOnSet(f, S) \in Int
    BY SumInt
  <1>6. Summable(f, T) /\ SumFunctionOnSet(f, T) = SumFunctionOnSet(f, S) + f[e]
    <2>1. SumFunctionOnSet(f, T) = f[e] + SumFunctionOnSet(f, S)
      BY <1>3, <1>4, Zenon
    <2> QED BY <1>3, <1>5, <2>1
  <1> QED BY <1>1, <1>6, Zenon

(* A sum of sums. *)
LEMMA SumPlus ==
    ASSUME NEW f, NEW g, NEW h, NEW S, Summable(f, S), Summable(g, S), \A x \in S : h[x] = f[x] + g[x]
    PROVE  SumFunctionOnSet(h, S) = SumFunctionOnSet(f, S) + SumFunctionOnSet(g, S)
  <1> DEFINE P == {T \in SUBSET S : SumFunctionOnSet(h, T) = SumFunctionOnSet(f, T) + SumFunctionOnSet(g, T)}
  <1>0. IsFiniteSet(S)
    BY DEF Summable
  <1>1. Inductive(P, S)
    <2> SUFFICES ASSUME NEW T \in SUBSET S, \A x \in T : T \ {x} \in P
                 PROVE  SumFunctionOnSet(h, T) = SumFunctionOnSet(f, T) + SumFunctionOnSet(g, T)
      BY DEF Inductive
    <2>1. CASE T = {}
      BY <2>1, SumNone
    <2>2. CASE T # {}
      <3>1. IsFiniteSet(T)
        BY <1>0, FS_Subset
      <3>2. PICK c \in T : c = Chosen(T)
        BY <2>2, <3>1, SumChosen
      <3>3. PICK U : U = T \ {c}
        OBVIOUS
      <3>4. /\ SumFunctionOnSet(f, T) = f[c] + SumFunctionOnSet(f, U) /\ SumFunctionOnSet(g, T) = g[c] + SumFunctionOnSet(g, U)
            /\ SumFunctionOnSet(h, T) = h[c] + SumFunctionOnSet(h, U)
        BY <2>2, <3>1, <3>2, <3>3, SumChosen
      <3>5. U \in SUBSET S
        BY <3>3
      <3>6. Summable(f, U) /\ Summable(g, U)
        BY <3>5, SummableLess
      <3>7. SumFunctionOnSet(f, U) \in Int /\ SumFunctionOnSet(g, U) \in Int
        BY <3>6, SumInt
      <3>8. SumFunctionOnSet(h, U) = SumFunctionOnSet(f, U) + SumFunctionOnSet(g, U)
        BY <3>3
      <3>9. f[c] \in Int /\ g[c] \in Int /\ h[c] = f[c] + g[c]
        BY DEF Summable
      <3> QED BY <3>4, <3>7, <3>8, <3>9
    <2> QED BY <2>1, <2>2
  <1> HIDE DEF P
  <1>2. S \in P
    BY <1>0, <1>1, SubsetInduction
  <1> QED BY <1>2 DEF P
(* A sum over a part of S is a sum over S that counts the rest as nothing. *)
LEMMA SumMasked ==
    ASSUME NEW f, NEW g, NEW S, Summable(f, S), NEW T, T \subseteq S,
           \A x \in S : g[x] = IF x \in T THEN f[x] ELSE 0
    PROVE  SumFunctionOnSet(g, S) = SumFunctionOnSet(f, T)
  <1> DEFINE P == {W \in SUBSET S : SumFunctionOnSet(g, W) = SumFunctionOnSet(f, W \cap T)}
  <1>0. IsFiniteSet(S)
    BY DEF Summable
  <1>1. Inductive(P, S)
    <2> SUFFICES ASSUME NEW W \in SUBSET S, \A x \in W : W \ {x} \in P
                 PROVE  SumFunctionOnSet(g, W) = SumFunctionOnSet(f, W \cap T)
      BY DEF Inductive
    <2>1. CASE W = {}
      <3>1. W \cap T = {}
        BY <2>1
      <3> QED BY <2>1, <3>1, SumNone, Zenon
    <2>2. CASE W # {}
      <3>1. IsFiniteSet(W)
        BY <1>0, FS_Subset
      <3>2. PICK c \in W : c = Chosen(W)
        BY <2>2, <3>1, SumChosen
      <3>3. PICK U, V, A : U = W \ {c} /\ V = U \cap T /\ A = W \cap T
        OBVIOUS
      <3>4. SumFunctionOnSet(g, W) = g[c] + SumFunctionOnSet(g, U) /\ SumFunctionOnSet(g, U) = SumFunctionOnSet(f, V)
        <4>1. SumFunctionOnSet(g, W) = g[c] + SumFunctionOnSet(g, U)
          BY <2>2, <3>1, <3>2, <3>3, SumChosen
        <4> QED BY <3>3, <4>1
      <3>5. V \in SUBSET S /\ A \in SUBSET S
        BY <3>3
      <3>6. Summable(f, A) /\ Summable(f, V)
        BY <3>5, SummableLess
      <3>7. SumFunctionOnSet(f, V) \in Int
        BY <3>6, SumInt
      <3>8. CASE c \in T
        <4>1. c \in A /\ A \ {c} = V /\ g[c] = f[c]
          BY <3>3, <3>8
        <4>2. SumFunctionOnSet(f, A) = f[c] + SumFunctionOnSet(f, A \ {c})
          BY <3>6, <4>1, SumWithout
        <4>3. SumFunctionOnSet(f, A) = f[c] + SumFunctionOnSet(f, V)
          BY <4>1, <4>2, Zenon
        <4> QED BY <3>3, <3>4, <4>1, <4>3
      <3>9. CASE c \notin T
        <4>1. A = V /\ g[c] = 0
          BY <3>3, <3>9
        <4> QED BY <3>3, <3>4, <3>7, <4>1
      <3> QED BY <3>8, <3>9
    <2> QED BY <2>1, <2>2
  <1> HIDE DEF P
  <1>2. S \in P
    BY <1>0, <1>1, SubsetInduction
  <1>3. S \cap T = T
    OBVIOUS
  <1> QED BY <1>2, <1>3 DEF P

(* No term of a sum of naturals exceeds it. *)
LEMMA SumAtLeast ==
    ASSUME NEW f, NEW S, IsFiniteSet(S), \A x \in S : f[x] \in Nat, NEW e \in S
    PROVE  f[e] <= SumFunctionOnSet(f, S)
  <1>1. Summable(f, S)
    BY DEF Summable
  <1>2. PICK T : T = S \ {e}
    OBVIOUS
  <1>3. SumFunctionOnSet(f, S) = f[e] + SumFunctionOnSet(f, T)
    BY <1>1, <1>2, SumWithout
  <1>4. IsFiniteSet(T) /\ \A x \in T : f[x] \in Nat
    <2>1. T \subseteq S
      BY <1>2
    <2> QED BY <2>1, FS_Subset
  <1>5. SumFunctionOnSet(f, T) \in Nat
    BY <1>4, SumNat
  <1> QED BY <1>3, <1>5


(* A sum of nothing but zeros. *)
LEMMA SumZero ==
    ASSUME NEW f, NEW S, IsFiniteSet(S), \A x \in S : f[x] = 0
    PROVE  SumFunctionOnSet(f, S) = 0
  <1>1. Summable(f, S) /\ {} \subseteq S /\ \A x \in S : f[x] = IF x \in {} THEN f[x] ELSE 0
    BY DEF Summable
  <1>2. SumFunctionOnSet(f, S) = SumFunctionOnSet(f, {})
    BY <1>1, SumMasked
  <1> QED BY <1>2, SumNone
(* A sum of terms that are all at most others is at most their sum. *)
LEMMA SumAtMost ==
    ASSUME NEW f, NEW g, NEW S, Summable(f, S), Summable(g, S), \A x \in S : f[x] <= g[x]
    PROVE  SumFunctionOnSet(f, S) <= SumFunctionOnSet(g, S)
  <1> DEFINE d == [x \in S |-> g[x] - f[x]]
  <1>1. IsFiniteSet(S) /\ \A x \in S : f[x] \in Int /\ g[x] \in Int
    BY DEF Summable
  <1>2. \A x \in S : d[x] \in Nat /\ g[x] = f[x] + d[x]
    BY <1>1
  <1> HIDE DEF d
  <1>3. SumFunctionOnSet(d, S) \in Nat /\ Summable(d, S)
    BY <1>1, <1>2, SumNat DEF Summable
  <1>4. SumFunctionOnSet(g, S) = SumFunctionOnSet(f, S) + SumFunctionOnSet(d, S)
    BY <1>2, <1>3, SumPlus
  <1>5. SumFunctionOnSet(f, S) \in Int
    BY SumInt
  <1> QED BY <1>3, <1>4, <1>5

(* A sum with one term. *)
LEMMA SumOne ==
    ASSUME NEW f, NEW S, IsFiniteSet(S), NEW a, NEW v \in Int, \A x \in S : f[x] = IF x = a THEN v ELSE 0
    PROVE  SumFunctionOnSet(f, S) = IF a \in S THEN v ELSE 0
  <1>1. CASE a \notin S
    <2>1. \A x \in S : f[x] = 0
      BY <1>1
    <2>2. SumFunctionOnSet(f, S) = 0
      BY <2>1, SumZero
    <2> QED BY <1>1, <2>2
  <1>2. CASE a \in S
    <2> DEFINE z == [x \in S |-> 0]
    <2>1. \A x \in S : z[x] = 0
      OBVIOUS
    <2> HIDE DEF z
    <2>2. SumFunctionOnSet(z, S) = 0 /\ Summable(z, S)
      BY <2>1, SumZero DEF Summable
    <2>3. f[a] \in Int /\ f[a] = v /\ z[a] = 0 /\ \A x \in S \ {a} : z[x] = f[x]
      BY <1>2, <2>1
    <2>4. SumFunctionOnSet(f, S) = SumFunctionOnSet(z, S) - z[a] + f[a]
      BY <1>2, <2>2, <2>3, SumChanged
    <2> QED BY <1>2, <2>2, <2>3, <2>4
  <1> QED BY <1>1, <1>2


=============================================================================
