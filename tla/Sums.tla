-------------------------------- MODULE Sums --------------------------------
(***************************************************************************)
(* Facts about the sums of the community modules, SumFunctionOnSet and     *)
(* MapThenSumSet, which add up in the order CHOOSE happens to give.  They  *)
(* are folds, recursive functions on the subsets of a finite set; the      *)
(* induction behind each fact is that a set of subsets, unless it is       *)
(* empty, has one from which nothing can be taken (SmallestSet).           *)
(***************************************************************************)
EXTENDS Functions, FiniteSets, FiniteSetsExt, FiniteSetTheorems,
        WellFoundedInduction, TLAPS

-----------------------------------------------------------------------------
(* Induction without an operator to instantiate.                           *)

Less == {p \in Nat \X Nat : p[1] < p[2]}

LEMMA LessIsWellFounded == IsWellFoundedOn(Less, Nat)
BY NatLessThanWellFounded DEF OpToRel, Less

(* A set of numbers has a least one.                                       *)
LEMMA LeastNumber ==
  ASSUME NEW N, N \subseteq Nat, N # {}
  PROVE  \E m \in N : \A k \in N : m <= k
<1>1. PICK m \in N : \A k \in N : ~ (<< k, m >> \in Less)
  BY LessIsWellFounded, WFMin
<1>2. \A k \in N : m <= k
  <2> SUFFICES ASSUME NEW k \in N PROVE m <= k
    OBVIOUS
  <2>1. ~ (<< k, m >> \in Less)
    BY <1>1
  <2>2. << k, m >> \in Nat \X Nat
    OBVIOUS
  <2>3. ~ (k < m)
    BY <2>1, <2>2 DEF Less
  <2> QED BY <2>3
<1> QED BY <1>2

(* A set of finite sets has one that is not left by taking an element.     *)
LEMMA SmallestSet ==
  ASSUME NEW S, IsFiniteSet(S), NEW B, B \subseteq SUBSET S, B # {}
  PROVE  \E s \in B : \A x \in s : s \ {x} \notin B
<1> DEFINE N == {Cardinality(s) : s \in B}
<1>1. \A s \in B : IsFiniteSet(s) /\ Cardinality(s) \in Nat
  BY FS_Subset, FS_CardinalityType
<1>2. PICK m \in N : \A k \in N : m <= k
  <2> N \subseteq Nat /\ N # {}
    BY <1>1
  <2> HIDE DEF N
  <2> QED BY LeastNumber
<1>3. PICK s \in B : Cardinality(s) = m
  BY <1>2
<1>4. ASSUME NEW x \in s PROVE s \ {x} \notin B
  <2>1. Cardinality(s \ {x}) = Cardinality(s) - 1
    BY <1>1, FS_RemoveElement
  <2>2. Cardinality(s \ {x}) \notin N
    BY <1>1, <1>2, <1>3, <2>1
  <2> QED BY <2>2
<1> QED BY <1>4

(* What holds of the empty set and is kept by one element more holds of    *)
(* every subset of a finite set.                                           *)
Inductive(T, S) ==
  /\ {} \in T
  /\ \A s \in SUBSET S : \A x \in S \ s : s \in T => s \cup {x} \in T

LEMMA SetInduction ==
  ASSUME NEW S, IsFiniteSet(S), NEW T, Inductive(T, S)
  PROVE  S \in T
<1> DEFINE B == (SUBSET S) \ T
<1> SUFFICES ASSUME B # {} PROVE FALSE
  OBVIOUS
<1>1. PICK s \in B : \A x \in s : s \ {x} \notin B
  <2> B \subseteq SUBSET S
    OBVIOUS
  <2> HIDE DEF B
  <2> QED BY SmallestSet
<1>2. PICK x \in s : TRUE
  BY DEF Inductive
<1>3. s \ {x} \in SUBSET S /\ s \ {x} \in T /\ x \in S \ (s \ {x})
  BY <1>1
<1>4. (s \ {x}) \cup {x} = s
  OBVIOUS
<1>5. (s \ {x}) \cup {x} \in T
  BY <1>3 DEF Inductive
<1> QED BY <1>4, <1>5

-----------------------------------------------------------------------------
(* The sum is well defined.                                                *)

Pick(s) == CHOOSE x \in s : TRUE

LEMMA PickIsElement ==
  ASSUME NEW s, s # {}
  PROVE  Pick(s) \in s
BY DEF Pick

(* What the sum over a set is, in terms of smaller ones.                   *)
Step(g, f, s) == IF s = {} THEN 0 ELSE f[Pick(s)] + g[s \ {Pick(s)}]

Adds(g, f, S) == g = [s \in SUBSET S |-> Step(g, f, s)]

LEMMA SumIsChosen ==
  ASSUME NEW f, NEW S
  PROVE  SumFunctionOnSet(f, S) = (CHOOSE g : Adds(g, f, S))[S]
BY DEF SumFunctionOnSet, FoldFunctionOnSet, MapThenFoldSet, Adds, Step, Pick

(* There is a function that adds up, first on the sets of at most n        *)
(* elements, and then on all subsets of a finite set.                      *)
AddsTo(g, f, S, n) ==
  /\ g = [s \in SUBSET S |-> g[s]]
  /\ \A s \in SUBSET S : Cardinality(s) <= n => g[s] = Step(g, f, s)

LEMMA SmallerCardinality ==
  ASSUME NEW S, IsFiniteSet(S), NEW s \in SUBSET S, s # {}
  PROVE  /\ IsFiniteSet(s) /\ Cardinality(s) \in Nat
         /\ s \ {Pick(s)} \in SUBSET S
         /\ Cardinality(s \ {Pick(s)}) = Cardinality(s) - 1
         /\ Cardinality(s) > 0
<1>1. IsFiniteSet(s) /\ Cardinality(s) \in Nat
  BY FS_Subset, FS_CardinalityType
<1>2. Cardinality(s \ {Pick(s)}) = Cardinality(s) - 1
  BY <1>1, PickIsElement, FS_RemoveElement
<1>3. Cardinality(s) # 0
  BY <1>1, FS_EmptySet
<1> QED BY <1>1, <1>2, <1>3

LEMMA AdderExists ==
  ASSUME NEW f, NEW S, IsFiniteSet(S)
  PROVE  \E g : Adds(g, f, S)
<1> DEFINE N == {n \in Nat : ~ \E g : AddsTo(g, f, S, n)}
<1>1. 0 \notin N
  <2> DEFINE g == [s \in SUBSET S |-> 0]
  <2>1. ASSUME NEW s \in SUBSET S, Cardinality(s) <= 0
        PROVE  g[s] = Step(g, f, s)
    <3>1. s # {} => Cardinality(s) \in Nat /\ Cardinality(s) > 0
      BY SmallerCardinality
    <3>2. s = {}
      BY <2>1, <3>1
    <3> QED BY <3>2 DEF Step
  <2>2. AddsTo(g, f, S, 0)
    BY <2>1 DEF AddsTo
  <2> QED BY <2>2
<1>2. ASSUME NEW n \in Nat, n \notin N
      PROVE  n + 1 \notin N
  <2>1. PICK g : AddsTo(g, f, S, n)
    BY <1>2
  <2> DEFINE h == [s \in SUBSET S |-> Step(g, f, s)]
  <2>2. ASSUME NEW s \in SUBSET S, Cardinality(s) <= n + 1
        PROVE  h[s] = Step(h, f, s)
    <3>1. CASE s = {}
      BY <3>1 DEF Step
    <3>2. CASE s # {}
      <4> DEFINE t == s \ {Pick(s)}
      <4>0. /\ Cardinality(s) \in Nat /\ t \in SUBSET S
            /\ Cardinality(t) = Cardinality(s) - 1
        BY <3>2, SmallerCardinality
      <4>1. t \in SUBSET S /\ Cardinality(t) <= n
        BY <2>2, <4>0
      <4>2. h[t] = g[t]
        BY <2>1, <4>1 DEF AddsTo
      <4> HIDE DEF h
      <4>3. h[s] = Step(g, f, s)
        BY DEF h
      <4> QED BY <3>2, <4>2, <4>3 DEF Step
    <3> QED BY <3>1, <3>2
  <2>3. AddsTo(h, f, S, n + 1)
    BY <2>2 DEF AddsTo
  <2> QED BY <2>3
<1>3. N = {}
  <2> SUFFICES ASSUME N # {} PROVE FALSE
    OBVIOUS
  <2>1. PICK m \in N : \A k \in N : m <= k
    <3> N \subseteq Nat
      OBVIOUS
    <3> HIDE DEF N
    <3> QED BY LeastNumber
  <2>2. m \in Nat /\ m # 0
    BY <1>1
  <2>3. m - 1 \in Nat /\ m - 1 \notin N
    BY <2>1, <2>2
  <2>4. (m - 1) + 1 \notin N
    BY <1>2, <2>3
  <2>5. (m - 1) + 1 = m
    BY <2>2
  <2> QED BY <2>4, <2>5
<1>4. Cardinality(S) \in Nat
  BY FS_CardinalityType
<1>5. PICK g : AddsTo(g, f, S, Cardinality(S))
  BY <1>3, <1>4
<1>6. \A s \in SUBSET S : Cardinality(s) <= Cardinality(S)
  BY FS_Subset
<1>7. \A s \in SUBSET S : g[s] = Step(g, f, s)
  BY <1>5, <1>6 DEF AddsTo
<1>8. Adds(g, f, S)
  BY <1>5, <1>7 DEF AddsTo, Adds
<1> QED BY <1>8

(* Two functions that add up do not differ.                                *)
LEMMA AddersAgree ==
  ASSUME NEW f, NEW S, IsFiniteSet(S), NEW T \in SUBSET S,
         NEW g, Adds(g, f, S), NEW h, Adds(h, f, T)
  PROVE  \A s \in SUBSET T : g[s] = h[s]
<1> DEFINE B == {s \in SUBSET T : g[s] # h[s]}
<1> SUFFICES ASSUME B # {} PROVE FALSE
  OBVIOUS
<1>1. PICK s \in B : \A x \in s : s \ {x} \notin B
  <2> B \subseteq SUBSET S
    OBVIOUS
  <2> HIDE DEF B
  <2> QED BY SmallestSet
<1>2. \A t \in SUBSET T : g[t] = Step(g, f, t) /\ h[t] = Step(h, f, t)
  <2>1. ASSUME NEW t \in SUBSET T PROVE g[t] = Step(g, f, t)
    <3>1. t \in SUBSET S
      OBVIOUS
    <3> QED BY <3>1 DEF Adds
  <2>2. ASSUME NEW t \in SUBSET T PROVE h[t] = Step(h, f, t)
    BY DEF Adds
  <2> QED BY <2>1, <2>2
<1>3. s # {}
  BY <1>2 DEF Step
<1>4. g[s \ {Pick(s)}] = h[s \ {Pick(s)}]
  BY <1>1, <1>3, PickIsElement
<1> QED BY <1>2, <1>3, <1>4 DEF Step

LEMMA SumOfNothing ==
  ASSUME NEW f
  PROVE  SumFunctionOnSet(f, {}) = 0
<1>1. PICK g : Adds(g, f, {})
  BY AdderExists, FS_EmptySet
<1>2. Adds(CHOOSE g0 : Adds(g0, f, {}), f, {})
  BY <1>1
<1> QED BY <1>2, SumIsChosen DEF Adds, Step

LEMMA SumIsStep ==
  ASSUME NEW f, NEW S, IsFiniteSet(S), S # {}
  PROVE  SumFunctionOnSet(f, S)
           = f[Pick(S)] + SumFunctionOnSet(f, S \ {Pick(S)})
<1> DEFINE T == S \ {Pick(S)}
           g == CHOOSE g0 : Adds(g0, f, S)
           h == CHOOSE h0 : Adds(h0, f, T)
<1>1. Adds(g, f, S)
  BY AdderExists
<1>2. Adds(h, f, T)
  <2>1. IsFiniteSet(T)
    BY FS_Subset
  <2> HIDE DEF T
  <2> QED BY <2>1, AdderExists
<1>3. g[T] = h[T]
  <2> T \in SUBSET S
    OBVIOUS
  <2> HIDE DEF T, g, h
  <2> QED BY <1>1, <1>2, AddersAgree
<1>4. g[S] = Step(g, f, S)
  <2> HIDE DEF g
  <2> QED BY <1>1 DEF Adds
<1>5. SumFunctionOnSet(f, S) = g[S] /\ SumFunctionOnSet(f, T) = h[T]
  BY SumIsChosen
<1> QED BY <1>3, <1>4, <1>5 DEF Step

-----------------------------------------------------------------------------
(* What sums are used for.                                                 *)

(* f is a function, or at least has numbers for values.                    *)
Counts(f, S) == \A x \in S : f[x] \in Int

(* The sum of whole numbers is one.                                        *)
LEMMA SumIsNumber ==
  ASSUME NEW S, IsFiniteSet(S), NEW f, Counts(f, S)
  PROVE  SumFunctionOnSet(f, S) \in Int
<1> DEFINE B == {s \in SUBSET S : SumFunctionOnSet(f, s) \notin Int}
<1> SUFFICES ASSUME B # {} PROVE FALSE
  OBVIOUS
<1>1. PICK s \in B : \A x \in s : s \ {x} \notin B
  <2> B \subseteq SUBSET S
    OBVIOUS
  <2> HIDE DEF B
  <2> QED BY SmallestSet
<1>2. s # {}
  BY SumOfNothing
<1>3. IsFiniteSet(s)
  BY FS_Subset
<1>4. SumFunctionOnSet(f, s \ {Pick(s)}) \in Int /\ f[Pick(s)] \in Int
  BY <1>1, <1>2, PickIsElement DEF Counts
<1> QED BY <1>2, <1>3, <1>4, SumIsStep

(* Any element can be taken first.                                         *)
LEMMA SumTakeOut ==
  ASSUME NEW S, IsFiniteSet(S), NEW f, Counts(f, S), NEW a \in S
  PROVE  SumFunctionOnSet(f, S) = f[a] + SumFunctionOnSet(f, S \ {a})
<1> DEFINE Bad(s) == \E x \in s : SumFunctionOnSet(f, s)
                                    # f[x] + SumFunctionOnSet(f, s \ {x})
           B == {s \in SUBSET S : Bad(s)}
<1> SUFFICES ASSUME B # {} PROVE FALSE
  OBVIOUS
<1>1. PICK s \in B : \A x \in s : s \ {x} \notin B
  <2> B \subseteq SUBSET S
    OBVIOUS
  <2> HIDE DEF B
  <2> QED BY SmallestSet
<1>2. PICK x \in s : SumFunctionOnSet(f, s)
                       # f[x] + SumFunctionOnSet(f, s \ {x})
  OBVIOUS
<1> DEFINE c == Pick(s)
           r == (s \ {c}) \ {x}
<1>3. c \in s
  BY <1>2, PickIsElement
<1> HIDE DEF c
<1>4. /\ IsFiniteSet(s) /\ IsFiniteSet(s \ {x}) /\ IsFiniteSet(s \ {c})
      /\ IsFiniteSet(r)
  BY FS_Subset
<1>5. SumFunctionOnSet(f, s) = f[c] + SumFunctionOnSet(f, s \ {c})
  BY <1>2, <1>4, SumIsStep DEF c
<1>6. x # c
  BY <1>2, <1>5
<1>7. SumFunctionOnSet(f, s \ {c}) = f[x] + SumFunctionOnSet(f, r)
  <2>1. s \ {c} \in SUBSET S /\ x \in s \ {c}
    BY <1>6
  <2>2. ~ Bad(s \ {c})
    BY <1>1, <1>3, <2>1
  <2> QED BY <2>1, <2>2
<1>8. SumFunctionOnSet(f, s \ {x}) = f[c] + SumFunctionOnSet(f, r)
  <2>1. s \ {x} \in SUBSET S /\ c \in s \ {x}
    BY <1>3, <1>6
  <2>2. ~ Bad(s \ {x})
    BY <1>1, <1>2, <2>1
  <2>3. (s \ {x}) \ {c} = r
    OBVIOUS
  <2>4. SumFunctionOnSet(f, s \ {x})
          = f[c] + SumFunctionOnSet(f, (s \ {x}) \ {c})
    BY <2>1, <2>2
  <2> QED BY <2>3, <2>4
<1>9. f[x] \in Int /\ f[c] \in Int /\ SumFunctionOnSet(f, r) \in Int
  <2>1. Counts(f, r)
    BY DEF Counts
  <2>2. SumFunctionOnSet(f, r) \in Int
    BY <1>4, <2>1, SumIsNumber
  <2> QED BY <1>3, <2>2 DEF Counts
<1> QED BY <1>2, <1>5, <1>7, <1>8, <1>9


(* The sum over one element more.                                          *)
LEMMA SumPutIn ==
  ASSUME NEW S, IsFiniteSet(S), NEW f, Counts(f, S), NEW a, a \notin S,
         f[a] \in Int
  PROVE  SumFunctionOnSet(f, S \cup {a}) = f[a] + SumFunctionOnSet(f, S)
<1>1. IsFiniteSet(S \cup {a})
  BY FS_AddElement
<1>2. Counts(f, S \cup {a})
  BY DEF Counts
<1>3. (S \cup {a}) \ {a} = S
  OBVIOUS
<1>4. SumFunctionOnSet(f, S \cup {a})
        = f[a] + SumFunctionOnSet(f, (S \cup {a}) \ {a})
  BY <1>1, <1>2, SumTakeOut
<1> QED BY <1>3, <1>4

(* The sums of two functions that agree on a set.                          *)
LEMMA SumsAgree ==
  ASSUME NEW S, IsFiniteSet(S), NEW f, NEW g, Counts(f, S),
         \A x \in S : f[x] = g[x]
  PROVE  SumFunctionOnSet(f, S) = SumFunctionOnSet(g, S)
<1> DEFINE T == {s \in SUBSET S :
                   SumFunctionOnSet(f, s) = SumFunctionOnSet(g, s)}
<1>1. {} \in T
  BY SumOfNothing
<1>2. ASSUME NEW s \in SUBSET S, NEW x \in S \ s, s \in T
      PROVE  s \cup {x} \in T
  <2>1. IsFiniteSet(s)
    BY FS_Subset
  <2>2. Counts(f, s) /\ Counts(g, s) /\ f[x] \in Int /\ g[x] = f[x]
    BY DEF Counts
  <2>3. /\ SumFunctionOnSet(f, s \cup {x}) = f[x] + SumFunctionOnSet(f, s)
        /\ SumFunctionOnSet(g, s \cup {x}) = g[x] + SumFunctionOnSet(g, s)
    BY <2>1, <2>2, SumPutIn
  <2> QED BY <1>2, <2>2, <2>3
<1>3. Inductive(T, S)
  BY <1>1, <1>2 DEF Inductive
<1> HIDE DEF T
<1>4. S \in T
  BY <1>3, SetInduction
<1> QED BY <1>4 DEF T

(* The sum of sums.                                                        *)
LEMMA SumOfSums ==
  ASSUME NEW S, IsFiniteSet(S), NEW f, NEW g, NEW h, Counts(f, S), Counts(g, S),
         \A x \in S : h[x] = f[x] + g[x]
  PROVE  SumFunctionOnSet(h, S)
           = SumFunctionOnSet(f, S) + SumFunctionOnSet(g, S)
<1> DEFINE Adding(s) == SumFunctionOnSet(h, s)
                          = SumFunctionOnSet(f, s) + SumFunctionOnSet(g, s)
           T == {s \in SUBSET S : Adding(s)}
<1>1. {} \in T
  BY SumOfNothing
<1>2. ASSUME NEW s \in SUBSET S, NEW x \in S \ s, s \in T
      PROVE  s \cup {x} \in T
  <2>1. IsFiniteSet(s)
    BY FS_Subset
  <2>2. /\ Counts(f, s) /\ Counts(g, s) /\ Counts(h, s)
        /\ f[x] \in Int /\ g[x] \in Int /\ h[x] = f[x] + g[x] /\ h[x] \in Int
    BY DEF Counts
  <2>3. /\ SumFunctionOnSet(f, s \cup {x}) = f[x] + SumFunctionOnSet(f, s)
        /\ SumFunctionOnSet(g, s \cup {x}) = g[x] + SumFunctionOnSet(g, s)
        /\ SumFunctionOnSet(h, s \cup {x}) = h[x] + SumFunctionOnSet(h, s)
    BY <2>1, <2>2, SumPutIn
  <2>4. SumFunctionOnSet(f, s) \in Int /\ SumFunctionOnSet(g, s) \in Int
    BY <2>1, <2>2, SumIsNumber
  <2> QED BY <1>2, <2>2, <2>3, <2>4
<1>3. Inductive(T, S)
  BY <1>1, <1>2 DEF Inductive
<1> HIDE DEF T
<1>4. S \in T
  BY <1>3, SetInduction
<1> QED BY <1>4 DEF T

(* A function that differs at one argument.                                *)
LEMMA SumChangedAt ==
  ASSUME NEW S, IsFiniteSet(S), NEW f, NEW g, Counts(f, S), NEW a \in S,
         g[a] \in Int, \A x \in S \ {a} : g[x] = f[x]
  PROVE  SumFunctionOnSet(g, S) = SumFunctionOnSet(f, S) - f[a] + g[a]
<1>1. Counts(g, S) /\ Counts(f, S \ {a}) /\ f[a] \in Int
  BY DEF Counts
<1>2. IsFiniteSet(S \ {a})
  BY FS_Subset
<1>3. SumFunctionOnSet(f, S \ {a}) = SumFunctionOnSet(g, S \ {a})
  BY <1>1, <1>2, SumsAgree
<1>4. SumFunctionOnSet(f, S \ {a}) \in Int
  BY <1>1, <1>2, SumIsNumber
<1>5. /\ SumFunctionOnSet(f, S) = f[a] + SumFunctionOnSet(f, S \ {a})
      /\ SumFunctionOnSet(g, S) = g[a] + SumFunctionOnSet(g, S \ {a})
  BY <1>1, SumTakeOut
<1> QED BY <1>1, <1>3, <1>4, <1>5

(* The sum over two sets that have nothing in common.                      *)
LEMMA SumOverUnion ==
  ASSUME NEW S, IsFiniteSet(S), NEW R, IsFiniteSet(R), R \cap S = {},
         NEW f, Counts(f, S), Counts(f, R)
  PROVE  SumFunctionOnSet(f, R \cup S)
           = SumFunctionOnSet(f, R) + SumFunctionOnSet(f, S)
<1> DEFINE T == {s \in SUBSET S :
                   SumFunctionOnSet(f, R \cup s)
                     = SumFunctionOnSet(f, R) + SumFunctionOnSet(f, s)}
<1>0. SumFunctionOnSet(f, R) \in Int
  BY SumIsNumber
<1>1. {} \in T
  <2> R \cup {} = R
    OBVIOUS
  <2> QED BY <1>0, SumOfNothing
<1>2. ASSUME NEW s \in SUBSET S, NEW x \in S \ s, s \in T
      PROVE  s \cup {x} \in T
  <2>1. IsFiniteSet(s) /\ IsFiniteSet(R \cup s)
    BY FS_Subset, FS_Union
  <2>2. /\ Counts(f, s) /\ Counts(f, R \cup s) /\ f[x] \in Int
        /\ x \notin R \cup s
    BY DEF Counts
  <2>3. SumFunctionOnSet(f, s \cup {x}) = f[x] + SumFunctionOnSet(f, s)
    BY <2>1, <2>2, SumPutIn
  <2>4. SumFunctionOnSet(f, (R \cup s) \cup {x})
          = f[x] + SumFunctionOnSet(f, R \cup s)
    BY <2>1, <2>2, SumPutIn
  <2>5. SumFunctionOnSet(f, s) \in Int
    BY <2>1, <2>2, SumIsNumber
  <2>6. (R \cup s) \cup {x} = R \cup (s \cup {x})
    OBVIOUS
  <2>7. SumFunctionOnSet(f, R \cup (s \cup {x}))
          = f[x] + SumFunctionOnSet(f, R \cup s)
    BY <2>4, <2>6, Zenon
  <2> QED BY <1>0, <1>2, <2>2, <2>3, <2>5, <2>7
<1>3. Inductive(T, S)
  BY <1>1, <1>2 DEF Inductive
<1> HIDE DEF T
<1>4. S \in T
  BY <1>3, SetInduction
<1> QED BY <1>4 DEF T

(* A sum of what is not negative is not, and grows with the set.           *)
LEMMA SumNotNegative ==
  ASSUME NEW S, IsFiniteSet(S), NEW f, \A x \in S : f[x] \in Nat
  PROVE  SumFunctionOnSet(f, S) \in Nat
<1> DEFINE T == {s \in SUBSET S : SumFunctionOnSet(f, s) \in Nat}
<1>1. {} \in T
  BY SumOfNothing
<1>2. ASSUME NEW s \in SUBSET S, NEW x \in S \ s, s \in T
      PROVE  s \cup {x} \in T
  <2>1. IsFiniteSet(s)
    BY FS_Subset
  <2>2. Counts(f, s) /\ f[x] \in Nat
    BY DEF Counts
  <2>3. SumFunctionOnSet(f, s \cup {x}) = f[x] + SumFunctionOnSet(f, s)
    BY <2>1, <2>2, SumPutIn
  <2> QED BY <1>2, <2>2, <2>3
<1>3. Inductive(T, S)
  BY <1>1, <1>2 DEF Inductive
<1> HIDE DEF T
<1>4. S \in T
  BY <1>3, SetInduction
<1> QED BY <1>4 DEF T

LEMMA SumOverSubset ==
  ASSUME NEW S, IsFiniteSet(S), NEW R \in SUBSET S, NEW f,
         \A x \in S : f[x] \in Nat
  PROVE  SumFunctionOnSet(f, R) <= SumFunctionOnSet(f, S)
<1>1. IsFiniteSet(R) /\ IsFiniteSet(S \ R)
  BY FS_Subset
<1>2. Counts(f, R) /\ Counts(f, S \ R)
  BY DEF Counts
<1>3. SumFunctionOnSet(f, R) \in Nat /\ SumFunctionOnSet(f, S \ R) \in Nat
  BY <1>1, SumNotNegative
<1>4. R \cup (S \ R) = S
  OBVIOUS
<1>5. SumFunctionOnSet(f, R \cup (S \ R))
        = SumFunctionOnSet(f, R) + SumFunctionOnSet(f, S \ R)
  BY <1>1, <1>2, SumOverUnion
<1>6. SumFunctionOnSet(f, S)
        = SumFunctionOnSet(f, R) + SumFunctionOnSet(f, S \ R)
  BY <1>4, <1>5, Zenon
<1> QED BY <1>3, <1>6
=============================================================================
