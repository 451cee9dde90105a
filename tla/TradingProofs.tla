--------------------------- MODULE TradingProofs ----------------------------
(***************************************************************************)
(* Proofs about RiskPolicy, PortfolioBuilder, Execution and                *)
(* PriceAdjustment, for any trades and weights, any finite number of       *)
(* instruments and any scores and limits of them, any bars, orders,        *)
(* signals and modest costs, any corporate actions and exchange rates; and *)
(* about the jobs MCPaperTrading gives them.                               *)
(*                                                                         *)
(* The induction theorems of the library take an operator, so induction    *)
(* here is over sets: a set of good subsets that has the empty one, and    *)
(* every one all of whose parts it has, has them all (SetInduction); or    *)
(* over days: of the days for which it fails there is no least one.        *)
(***************************************************************************)
EXTENDS MCPaperTrading, FiniteSetTheorems, NaturalsInduction, SequenceTheorems, WellFoundedInduction, TLAPS

(* Some natural number of a set of them is the least.                      *)
LEMMA LeastExists ==
  ASSUME NEW S, S \subseteq Nat, S # {}
  PROVE  \E least \in S : \A e \in S : least <= e
<1> DEFINE Less == OpToRel(<, Nat)
<1>1. \A m, n \in Nat : m < n => <<m, n>> \in Less
  BY DEF OpToRel
<1>2. IsWellFoundedOn(Less, Nat)
  BY NatLessThanWellFounded
<1> HIDE DEF Less
<1>3. PICK least \in S : \A e \in S : ~ (<<e, least>> \in Less)
  BY <1>2, WFMin
<1>4. \A e \in S : e \in Nat /\ least \in Nat /\ ~ (e < least)
  BY <1>1, <1>3
<1>5. QED
  BY <1>4

\* Induction over the subsets of a finite set, with the property a set.
LEMMA SetInduction ==
  ASSUME NEW S, IsFiniteSet(S), NEW Good, {} \in Good,
         \A T \in SUBSET S : T # {} /\ (\A x \in T : T \ {x} \in Good) => T \in Good
  PROVE  S \in Good
<1>1. SUFFICES ASSUME S \notin Good PROVE FALSE
  OBVIOUS
<1> DEFINE Sizes == {n \in Nat : \E T \in SUBSET S : T \notin Good /\ Cardinality(T) = n}
<1>2. Sizes # {} /\ Sizes \subseteq Nat
  <2>1. Cardinality(S) \in Nat
    BY FS_CardinalityType
  <2>2. Cardinality(S) \in Sizes
    BY <1>1, <2>1
  <2>3. QED
    BY <2>2
<1>3. PICK n \in Sizes : \A m \in Sizes : n <= m
  BY <1>2, LeastExists
<1>4. PICK T \in SUBSET S : T \notin Good /\ Cardinality(T) = n
  OBVIOUS
<1>5. T # {}
  BY <1>4
<1>6. PICK y \in T : T \ {y} \notin Good
  <2>1. ~ \A x \in T : T \ {x} \in Good
    BY <1>4, <1>5
  <2>2. QED
    BY <2>1
<1>7. IsFiniteSet(T)
  BY FS_Subset
<1>8. Cardinality(T \ {y}) = n - 1 /\ n \in Nat /\ Cardinality(T \ {y}) \in Nat
  <2>1. Cardinality(T \ {y}) = Cardinality(T) - 1 /\ IsFiniteSet(T \ {y})
    BY <1>7, FS_RemoveElement
  <2>2. Cardinality(T \ {y}) \in Nat
    BY <2>1, FS_CardinalityType
  <2>3. QED
    BY <1>4, <2>1, <2>2
<1>9. n - 1 \in Sizes
  BY <1>6, <1>8
<1>10. QED
  BY <1>3, <1>8, <1>9

(* What FoldFunctionOnSet computes of a smaller set first.                 *)
Steps(f, S, g) ==
  [s \in SUBSET S |-> IF s = {} THEN 0 ELSE f[CHOOSE x \in s : TRUE] + g[s \ {CHOOSE x \in s : TRUE}]]

(* The function of the subsets that agrees with it.                        *)
Iterated(f, S) == CHOOSE g : g = Steps(f, S, g)

(* The sum of the library is the value of that function.                   *)
LEMMA SumUnfolds ==
  ASSUME NEW f, NEW S, S = DOMAIN f
  PROVE  SumFunction(f) = Iterated(f, S)[S]
BY DEF SumFunction, SumFunctionOnSet, FoldFunctionOnSet, MapThenFoldSet, Iterated, Steps

(* There is one, by the number of the elements.                            *)
LEMMA StepsExist ==
  ASSUME NEW f, NEW S, IsFiniteSet(S)
  PROVE  Iterated(f, S) = Steps(f, S, Iterated(f, S))
<1> DEFINE c(s) == CHOOSE x \in s : TRUE
           Right(g, s) == g[s] = IF s = {} THEN 0 ELSE f[c(s)] + g[s \ {c(s)}]
           Defined(g, n) == \A s \in SUBSET S : Cardinality(s) <= n => Right(g, s)
           Bad == {n \in Nat : ~ \E g : g = [s \in SUBSET S |-> g[s]] /\ Defined(g, n)}
<1>1. \A s \in SUBSET S : IsFiniteSet(s) /\ Cardinality(s) \in Nat /\ (s # {} => c(s) \in s /\ s \ {c(s)} \in SUBSET S)
  BY FS_Subset, FS_CardinalityType
<1>2. \A s \in SUBSET S : s # {} => Cardinality(s \ {c(s)}) = Cardinality(s) - 1
  BY <1>1, FS_RemoveElement
<1>3. \A s \in SUBSET S : Cardinality(s) = 0 => s = {}
  BY <1>1, FS_EmptySet
<1> HIDE DEF c
<1>4. 0 \notin Bad
  <2> DEFINE g == [s \in SUBSET S |-> 0]
  <2>1. Defined(g, 0)
    BY <1>1, <1>3
  <2>2. QED
    BY <2>1
<1>5. ASSUME NEW n \in Nat, n \notin Bad PROVE n + 1 \notin Bad
  <2>1. PICK g : g = [s \in SUBSET S |-> g[s]] /\ Defined(g, n)
    BY <1>5
  <2> DEFINE h == [s \in SUBSET S |-> IF s = {} THEN 0 ELSE f[c(s)] + g[s \ {c(s)}]]
  <2>2. ASSUME NEW s \in SUBSET S, Cardinality(s) <= n PROVE h[s] = g[s]
    BY <2>1, <2>2
  <2>3. ASSUME NEW s \in SUBSET S, Cardinality(s) <= n + 1 PROVE Right(h, s)
    <3>1. CASE s = {}
      BY <3>1
    <3>2. CASE s # {}
      <4>1. h[s] = f[c(s)] + g[s \ {c(s)}]
        BY <3>2
      <4>2. Cardinality(s \ {c(s)}) <= n
        BY <1>1, <1>2, <2>3, <3>2
      <4>3. h[s \ {c(s)}] = g[s \ {c(s)}]
        BY <1>1, <2>2, <3>2, <4>2
      <4>4. QED
        BY <3>2, <4>1, <4>3
    <3>3. QED
      BY <3>1, <3>2
  <2>4. h = [s \in SUBSET S |-> h[s]] /\ Defined(h, n + 1)
    BY <2>3
  <2>5. QED
    BY <2>4
<1> HIDE DEF Bad
<1>6. Bad = {}
  <2>1. SUFFICES ASSUME Bad # {} PROVE FALSE
    OBVIOUS
  <2>2. Bad \subseteq Nat
    BY DEF Bad
  <2>3. PICK n \in Bad : \A m \in Bad : n <= m
    BY <2>1, <2>2, LeastExists
  <2>4. n \in Nat /\ n # 0
    BY <1>4, <2>2
  <2>5. n - 1 \in Nat /\ n - 1 \notin Bad /\ (n - 1) + 1 = n
    BY <2>3, <2>4
  <2>6. QED
    BY <1>5, <2>5
<1>7. PICK g : g = [s \in SUBSET S |-> g[s]] /\ Defined(g, Cardinality(S))
  <2>1. Cardinality(S) \in Nat
    BY FS_CardinalityType
  <2>2. QED
    BY <1>6, <2>1 DEF Bad
<1>8. \A s \in SUBSET S : Right(g, s)
  <2>1. \A s \in SUBSET S : Cardinality(s) <= Cardinality(S)
    BY FS_Subset
  <2>2. QED
    BY <1>7, <2>1
<1>9. g = Steps(f, S, g)
  <2>1. Steps(f, S, g) = [s \in SUBSET S |-> g[s]]
    BY <1>8 DEF Steps, c
  <2>2. QED
    BY <1>7, <2>1
<1>10. QED
  BY <1>9 DEF Iterated

(* The sum of f over a set.                                                *)
SumOver(f, T) == SumFunction([i \in T |-> f[i]])

(* It depends on the values in the set alone.                              *)
LEMMA IteratedAgrees ==
  ASSUME NEW f, NEW S, IsFiniteSet(S), NEW T \in SUBSET S, NEW g, \A i \in T : g[i] = f[i]
  PROVE  Iterated(f, S)[T] = Iterated(g, T)[T]
<1> DEFINE Good == {U \in SUBSET T : Iterated(f, S)[U] = Iterated(g, T)[U]}
<1>1. IsFiniteSet(T)
  BY FS_Subset
<1>2. PICK big, small : /\ big = Iterated(f, S) /\ small = Iterated(g, T)
                        /\ big = Steps(f, S, big) /\ small = Steps(g, T, small)
  BY <1>1, StepsExist
<1>3. {} \in Good
  <2>1. big[{}] = 0 /\ small[{}] = 0
    BY <1>2 DEF Steps
  <2>2. QED
    BY <1>2, <2>1
<1>4. ASSUME NEW U \in SUBSET T, U # {}, U \ {CHOOSE x \in U : TRUE} \in Good PROVE U \in Good
  <2>1. PICK c \in U : c = CHOOSE x \in U : TRUE
    BY <1>4
  <2>2. big[U] = f[c] + big[U \ {c}]
    <3>1. U \in SUBSET S /\ U # {}
      OBVIOUS
    <3>2. QED
      BY <1>2, <2>1, <3>1 DEF Steps
  <2>3. small[U] = g[c] + small[U \ {c}]
    BY <1>2, <2>1, ZenonT(60) DEF Steps
  <2>4. f[c] = g[c] /\ big[U \ {c}] = small[U \ {c}]
    BY <1>2, <1>4, <2>1
  <2>5. QED
    BY <1>2, <2>2, <2>3, <2>4
<1> HIDE DEF Good
<1>5. ASSUME NEW U \in SUBSET T, U # {}, \A x \in U : U \ {x} \in Good PROVE U \in Good
  BY <1>4, <1>5
<1>6. T \in Good
  <2>1. QED
    BY <1>1, <1>3, <1>5, SetInduction
<1>7. QED
  BY <1>6 DEF Good

(* The sum as the fold takes it: by the element CHOOSE takes.              *)
LEMMA SumOfChosen ==
  ASSUME NEW f, NEW T, IsFiniteSet(T)
  PROVE  /\ T = {} => SumOver(f, T) = 0
         /\ T # {} => LET c == CHOOSE x \in T : TRUE IN SumOver(f, T) = f[c] + SumOver(f, T \ {c})
<1>1. ASSUME NEW U, U \in SUBSET T PROVE SumOver(f, U) = Iterated([i \in U |-> f[i]], U)[U]
  BY SumUnfolds DEF SumOver
<1>2. PICK h : h = [i \in T |-> f[i]]
  OBVIOUS
<1>3. PICK it : it = Iterated(h, T) /\ it = Steps(h, T, it)
  BY StepsExist
<1>4. SumOver(f, T) = it[T]
  BY <1>1, <1>2, <1>3
<1>5. ASSUME T = {} PROVE SumOver(f, T) = 0
  <2>1. it[{}] = 0
    BY <1>3 DEF Steps
  <2>2. QED
    BY <1>4, <1>5, <2>1
<1>6. ASSUME T # {}, NEW c \in T, c = CHOOSE x \in T : TRUE PROVE SumOver(f, T) = f[c] + SumOver(f, T \ {c})
  <2>1. it[T] = h[c] + it[T \ {c}]
    <3>1. T \in SUBSET T
      OBVIOUS
    <3>2. QED
      BY <1>3, <1>6, <3>1 DEF Steps
  <2>2. PICK U, k : U = T \ {c} /\ k = [i \in U |-> f[i]]
    OBVIOUS
  <2>3. U \in SUBSET T /\ \A i \in U : k[i] = h[i]
    BY <1>2, <2>2
  <2>4. Iterated(h, T)[U] = Iterated(k, U)[U]
    BY <2>3, IteratedAgrees
  <2>5. SumOver(f, U) = Iterated(k, U)[U]
    BY <1>1, <2>2, <2>3
  <2>6. h[c] = f[c]
    BY <1>2
  <2>7. QED
    BY <1>3, <1>4, <2>1, <2>2, <2>4, <2>5, <2>6
<1>7. QED
  BY <1>5, <1>6

(* A sum of integers is one.                                               *)
LEMMA SumIsInt ==
  ASSUME NEW f, NEW S, IsFiniteSet(S), \A i \in S : f[i] \in Int
  PROVE  SumOver(f, S) \in Int
<1> DEFINE Good == {T \in SUBSET S : SumOver(f, T) \in Int}
<1>1. {} \in Good
  <2>1. SumOver(f, {}) = 0
    BY SumOfChosen, FS_EmptySet
  <2>2. QED
    BY <2>1
<1>2. ASSUME NEW T \in SUBSET S, T # {}, \A x \in T : T \ {x} \in Good PROVE T \in Good
  <2>1. IsFiniteSet(T)
    BY FS_Subset
  <2>2. PICK c \in T : SumOver(f, T) = f[c] + SumOver(f, T \ {c})
    BY <1>2, <2>1, SumOfChosen
  <2>3. SumOver(f, T \ {c}) \in Int /\ f[c] \in Int
    BY <1>2
  <2>4. QED
    BY <2>2, <2>3
<1> HIDE DEF Good
<1>3. S \in Good
  BY <1>1, <1>2, SetInduction
<1>4. QED
  BY <1>3 DEF Good

(* Any element may be taken first.                                         *)
LEMMA SumStep ==
  ASSUME NEW f, NEW S, IsFiniteSet(S), \A i \in S : f[i] \in Int, NEW x \in S
  PROVE  SumOver(f, S) = f[x] + SumOver(f, S \ {x})
<1> DEFINE Good == {T \in SUBSET S : \A y \in T : SumOver(f, T) = f[y] + SumOver(f, T \ {y})}
<1>1. {} \in Good
  OBVIOUS
<1>2. ASSUME NEW T \in SUBSET S, T # {}, \A y \in T : T \ {y} \in Good PROVE T \in Good
  <2>1. IsFiniteSet(T)
    BY FS_Subset
  <2>2. PICK c \in T : SumOver(f, T) = f[c] + SumOver(f, T \ {c})
    BY <1>2, <2>1, SumOfChosen
  <2>3. ASSUME NEW y \in T, y # c PROVE SumOver(f, T) = f[y] + SumOver(f, T \ {y})
    <3>1. PICK rest : rest = (T \ {c}) \ {y} /\ rest = (T \ {y}) \ {c}
      OBVIOUS
    <3>2. T \ {c} \in Good /\ T \ {y} \in Good /\ y \in T \ {c} /\ c \in T \ {y}
      BY <1>2, <2>3
    <3>3. SumOver(f, T \ {c}) = f[y] + SumOver(f, rest)
      BY <3>1, <3>2
    <3>4. SumOver(f, T \ {y}) = f[c] + SumOver(f, rest)
      BY <3>1, <3>2
    <3>5. SumOver(f, rest) \in Int
      <4>1. IsFiniteSet(rest) /\ rest \subseteq S
        BY <2>1, <3>1, FS_Subset
      <4>2. QED
        BY <4>1, SumIsInt
    <3>6. f[y] \in Int /\ f[c] \in Int
      OBVIOUS
    <3>7. QED
      BY <2>2, <3>3, <3>4, <3>5, <3>6
  <2>4. QED
    BY <2>2, <2>3
<1> HIDE DEF Good
<1>3. S \in Good
  BY <1>1, <1>2, SetInduction
<1>4. QED
  BY <1>3 DEF Good

(* No summands.                                                            *)
LEMMA SumOfNone == ASSUME NEW f PROVE SumOver(f, {}) = 0
BY SumOfChosen, FS_EmptySet

(* Summands of the same value, element by element, have the same sum.      *)
LEMMA SumCompares ==
  ASSUME NEW f, NEW g, NEW S, IsFiniteSet(S), \A i \in S : f[i] \in Int /\ g[i] \in Int /\ f[i] <= g[i]
  PROVE  SumOver(f, S) <= SumOver(g, S)
<1> DEFINE Good == {T \in SUBSET S : SumOver(f, T) <= SumOver(g, T)}
<1>1. {} \in Good
  BY SumOfNone
<1>2. ASSUME NEW T \in SUBSET S, T # {}, \A y \in T : T \ {y} \in Good PROVE T \in Good
  <2>1. PICK y \in T : TRUE
    BY <1>2
  <2>2. IsFiniteSet(T) /\ IsFiniteSet(T \ {y}) /\ T \ {y} \in SUBSET S
    BY FS_Subset
  <2>3. SumOver(f, T) = f[y] + SumOver(f, T \ {y}) /\ SumOver(g, T) = g[y] + SumOver(g, T \ {y})
    BY <2>2, SumStep
  <2>4. SumOver(f, T \ {y}) \in Int /\ SumOver(g, T \ {y}) \in Int
    BY <2>2, SumIsInt
  <2>5. SumOver(f, T \ {y}) <= SumOver(g, T \ {y})
    BY <1>2
  <2>6. QED
    BY <2>3, <2>4, <2>5
<1> HIDE DEF Good
<1>3. S \in Good
  BY <1>1, <1>2, SetInduction
<1>4. QED
  BY <1>3 DEF Good

(* A common factor.                                                        *)
LEMMA SumScales ==
  ASSUME NEW f, NEW g, NEW S, IsFiniteSet(S), NEW factor \in Int,
         \A i \in S : f[i] \in Int /\ g[i] = f[i] * factor
  PROVE  SumOver(g, S) = SumOver(f, S) * factor
<1> DEFINE Good == {T \in SUBSET S : SumOver(g, T) = SumOver(f, T) * factor}
<1>1. {} \in Good
  BY SumOfNone
<1>2. ASSUME NEW T \in SUBSET S, T # {}, \A y \in T : T \ {y} \in Good PROVE T \in Good
  <2>1. PICK y \in T : TRUE
    BY <1>2
  <2>2. IsFiniteSet(T) /\ IsFiniteSet(T \ {y}) /\ T \ {y} \in SUBSET S
    BY FS_Subset
  <2>3. \A i \in S : g[i] \in Int
    OBVIOUS
  <2>4. SumOver(f, T) = f[y] + SumOver(f, T \ {y}) /\ SumOver(g, T) = g[y] + SumOver(g, T \ {y})
    BY <2>2, <2>3, SumStep
  <2>5. SumOver(f, T \ {y}) \in Int
    BY <2>2, SumIsInt
  <2>6. PICK a \in Int, b \in Int : a = f[y] /\ b = SumOver(f, T \ {y})
    BY <2>5
  <2>7. SumOver(g, T \ {y}) = b * factor /\ g[y] = a * factor
    BY <1>2, <2>6
  <2>8. a * factor + b * factor = (a + b) * factor
    OBVIOUS
  <2>9. QED
    BY <2>4, <2>6, <2>7, <2>8
<1> HIDE DEF Good
<1>3. S \in Good
  BY <1>1, <1>2, SetInduction
<1>4. QED
  BY <1>3 DEF Good

(* The sum of a part and of the rest.                                      *)
LEMMA SumSplits ==
  ASSUME NEW f, NEW S, IsFiniteSet(S), NEW A \in SUBSET S, \A i \in S : f[i] \in Int
  PROVE  SumOver(f, S) = SumOver(f, A) + SumOver(f, S \ A)
<1> DEFINE Good == {T \in SUBSET S : SumOver(f, T) = SumOver(f, T \cap A) + SumOver(f, T \ A)}
<1>1. {} \in Good
  <2>1. {} \cap A = {} /\ {} \ A = {}
    OBVIOUS
  <2>2. QED
    BY <2>1, SumOfNone
<1>2. ASSUME NEW T \in SUBSET S, T # {}, \A y \in T : T \ {y} \in Good PROVE T \in Good
  <2>1. PICK y \in T : TRUE
    BY <1>2
  <2>2. IsFiniteSet(T) /\ IsFiniteSet(T \ {y}) /\ IsFiniteSet(T \cap A) /\ IsFiniteSet(T \ A)
        /\ IsFiniteSet((T \ {y}) \cap A) /\ IsFiniteSet((T \ {y}) \ A)
    BY FS_Subset
  <2>3. SumOver(f, T) = f[y] + SumOver(f, T \ {y})
    BY <2>2, SumStep
  <2>4. SumOver(f, T \ {y}) = SumOver(f, (T \ {y}) \cap A) + SumOver(f, (T \ {y}) \ A)
    BY <1>2
  <2>5. /\ f[y] \in Int /\ SumOver(f, (T \ {y}) \cap A) \in Int /\ SumOver(f, (T \ {y}) \ A) \in Int
    BY <2>2, SumIsInt
  <2>9. PICK a \in Int, b \in Int, c \in Int :
          a = f[y] /\ b = SumOver(f, (T \ {y}) \cap A) /\ c = SumOver(f, (T \ {y}) \ A)
    BY <2>5
  <2>10. SumOver(f, T) = a + (b + c)
    BY <2>3, <2>4, <2>9
  <2>6. CASE y \in A
    <3>1. (T \ {y}) \cap A = (T \cap A) \ {y} /\ (T \ {y}) \ A = T \ A
      BY <2>6
    <3>2. SumOver(f, T \cap A) = f[y] + SumOver(f, (T \cap A) \ {y})
      BY <2>2, <2>6, SumStep
    <3>3. SumOver(f, T \cap A) = a + b /\ SumOver(f, T \ A) = c
      BY <2>9, <3>1, <3>2
    <3>4. a + (b + c) = (a + b) + c
      OBVIOUS
    <3>5. QED
      BY <2>10, <3>3, <3>4
  <2>7. CASE y \notin A
    <3>1. (T \ {y}) \cap A = T \cap A /\ (T \ {y}) \ A = (T \ A) \ {y}
      BY <2>7
    <3>2. SumOver(f, T \ A) = f[y] + SumOver(f, (T \ A) \ {y})
      BY <2>2, <2>7, SumStep
    <3>3. SumOver(f, T \ A) = a + c /\ SumOver(f, T \cap A) = b
      BY <2>9, <3>1, <3>2
    <3>4. a + (b + c) = b + (a + c)
      OBVIOUS
    <3>5. QED
      BY <2>10, <3>3, <3>4
  <2>8. QED
    BY <2>6, <2>7
<1> HIDE DEF Good
<1>3. S \in Good
  BY <1>1, <1>2, SetInduction
<1>4. S \cap A = A
  OBVIOUS
<1>5. QED
  BY <1>3, <1>4 DEF Good

(* A sum of summands that are not negative.                                *)
LEMMA SumOfSizes ==
  ASSUME NEW f, NEW S, IsFiniteSet(S), \A i \in S : f[i] \in Int /\ f[i] >= 0
  PROVE  /\ SumOver(f, S) \in Nat
         /\ SumOver(f, S) = 0 => \A i \in S : f[i] = 0
<1> DEFINE Good == {T \in SUBSET S : \A U \in SUBSET T : SumOver(f, U) \in Nat}
<1>1. \A T \in SUBSET S : SumOver(f, T) \in Nat
  <2>1. {} \in Good
    BY SumOfNone
  <2>2. ASSUME NEW T \in SUBSET S, T # {}, \A y \in T : T \ {y} \in Good PROVE T \in Good
    <3>1. SUFFICES ASSUME NEW U \in SUBSET T PROVE SumOver(f, U) \in Nat
      OBVIOUS
    <3>2. CASE U = {}
      BY <3>2, SumOfNone
    <3>3. CASE U # {}
      <4>1. PICK y \in U : TRUE
        BY <3>3
      <4>2. SumOver(f, U) = f[y] + SumOver(f, U \ {y})
        BY <4>1, FS_Subset, SumStep
      <4>3. SumOver(f, U \ {y}) \in Nat
        BY <2>2, <4>1
      <4>4. QED
        BY <4>2, <4>3
    <3>4. QED
      BY <3>2, <3>3
  <2> HIDE DEF Good
  <2>3. S \in Good
    BY <2>1, <2>2, SetInduction
  <2>4. QED
    BY <2>3 DEF Good
<1>2. ASSUME SumOver(f, S) = 0, NEW i \in S PROVE f[i] = 0
  <2>1. SumOver(f, S) = f[i] + SumOver(f, S \ {i})
    BY SumStep
  <2>2. SumOver(f, S \ {i}) \in Nat
    BY <1>1
  <2>3. QED
    BY <1>2, <2>1, <2>2
<1>3. QED
  BY <1>1, <1>2

(* Some natural number of a finite set of them is the largest.             *)
LEMMA LastExists ==
  ASSUME NEW S, S \subseteq Nat, IsFiniteSet(S), S # {}
  PROVE  \E last \in S : \A e \in S : last >= e
<1> DEFINE Good == {T \in SUBSET S : T = {} \/ \E last \in T : \A e \in T : last >= e}
<1>1. {} \in Good
  OBVIOUS
<1>2. ASSUME NEW T \in SUBSET S, T # {}, \A x \in T : T \ {x} \in Good PROVE T \in Good
  <2>1. PICK x \in T : TRUE
    BY <1>2
  <2>2. CASE T \ {x} = {}
    BY <2>1, <2>2
  <2>3. CASE T \ {x} # {}
    <3>1. PICK y \in T \ {x} : \A e \in T \ {x} : y >= e
      BY <1>2, <2>1, <2>3
    <3>2. x \in Nat /\ y \in Nat /\ \A e \in T : e \in Nat
      BY <2>1, <3>1
    <3>3. CASE x >= y
      BY <2>1, <3>1, <3>2, <3>3
    <3>4. CASE ~ (x >= y)
      BY <2>1, <3>1, <3>2, <3>4
    <3>5. QED
      BY <3>3, <3>4
  <2>4. QED
    BY <2>2, <2>3
<1> HIDE DEF Good
<1>3. S \in Good
  BY <1>1, <1>2, SetInduction
<1>4. QED
  BY <1>3 DEF Good

-----------------------------------------------------------------------------
(* What the eight layers look at.                                          *)
RiskContexts ==
  [market : {"CN", "US"}, venue : {"SSE", "SZSE", "BSE", "NASDAQ", "NYSE"}, asset : {"EQUITY", "ETF", "FUND"},
   st : BOOLEAN, growth : BOOLEAN, permitted : BOOLEAN, side : {-1, 1}, allowShort : BOOLEAN,
   open : BOOLEAN, halted : BOOLEAN, delisted : BOOLEAN, prevClose : Int, price : Int, volume : Int,
   quantity : Int, name : Int, nameLimit : Int, gross : Int, grossLimit : Int, ccy : Int, ccyLimit : Int,
   shock : Int, shockLimit : Int, killSwitch : BOOLEAN, duplicate : BOOLEAN, lot : Int, tick : Int]

(* The layers in the order they are asked (risk/engine.py).                *)
LayerNames ==
  <<"permission", "regulatory", "market_state", "price_limit_and_liquidity",
    "exposure_limits", "stress_delta", "operational", "execution_feasibility">>

(* A layer rejects if one of its reasons to does, and reviews if it does   *)
(* not reject.                                                             *)
LEMMA SaysVerdict ==
  ASSUME NEW layer, NEW rejections, NEW reviews
  PROVE  /\ Says(layer, rejections, reviews).layer = layer
         /\ Says(layer, rejections, reviews).verdict
              = IF \E k \in DOMAIN rejections : rejections[k][1] THEN "reject"
                ELSE IF \E k \in DOMAIN reviews : reviews[k][1] THEN "review" ELSE "accept"
BY DEF Says

(* Every layer answers under its own name.                                 *)
LEMMA LayersInOrder ==
  ASSUME NEW ctx
  PROVE  /\ Len(Layers(ctx)) = 8 /\ DOMAIN Layers(ctx) = 1..8
         /\ \A k \in 1..8 : /\ Layers(ctx)[k].layer = LayerNames[k]
                            /\ Layers(ctx)[k].verdict \in {"accept", "review", "reject"}
<1>1. Len(Layers(ctx)) = 8 /\ DOMAIN Layers(ctx) = 1..8
  BY DEF Layers
<1>2. ASSUME NEW layer, NEW rejections, NEW reviews
      PROVE  /\ Says(layer, rejections, reviews).layer = layer
             /\ Says(layer, rejections, reviews).verdict \in {"accept", "review", "reject"}
  BY SaysVerdict
<1>3. /\ Permission(ctx).layer = LayerNames[1] /\ Permission(ctx).verdict \in {"accept", "review", "reject"}
      /\ Regulatory(ctx).layer = LayerNames[2] /\ Regulatory(ctx).verdict \in {"accept", "review", "reject"}
      /\ MarketState(ctx).layer = LayerNames[3] /\ MarketState(ctx).verdict \in {"accept", "review", "reject"}
      /\ PriceLimitAndLiquidity(ctx).layer = LayerNames[4]
      /\ PriceLimitAndLiquidity(ctx).verdict \in {"accept", "review", "reject"}
  BY <1>2 DEF Permission, Regulatory, MarketState, PriceLimitAndLiquidity, LayerNames
<1>4. /\ ExposureLimits(ctx).layer = LayerNames[5] /\ ExposureLimits(ctx).verdict \in {"accept", "review", "reject"}
      /\ StressDelta(ctx).layer = LayerNames[6] /\ StressDelta(ctx).verdict \in {"accept", "review", "reject"}
      /\ Operational(ctx).layer = LayerNames[7] /\ Operational(ctx).verdict \in {"accept", "review", "reject"}
      /\ ExecutionFeasibility(ctx).layer = LayerNames[8]
      /\ ExecutionFeasibility(ctx).verdict \in {"accept", "review", "reject"}
  BY <1>2 DEF ExposureLimits, StressDelta, Operational, ExecutionFeasibility, LayerNames
<1>5. QED
  BY <1>1, <1>3, <1>4 DEF Layers

(* The layers that reject.                                                 *)
Rejecting(ctx) == {k \in 1..8 : Layers(ctx)[k].verdict = "reject"}

(* The trace ends at the first of them.                                    *)
LEMMA TraceStops ==
  ASSUME NEW ctx
  PROVE  \/ Rejecting(ctx) = {} /\ Trace(ctx) = Layers(ctx)
         \/ \E n \in Rejecting(ctx) : /\ \A k \in Rejecting(ctx) : n <= k
                                      /\ Trace(ctx) = SubSeq(Layers(ctx), 1, n)
<1>1. Rejecting(ctx) = {k \in DOMAIN Layers(ctx) : Layers(ctx)[k].verdict = "reject"}
  BY LayersInOrder DEF Rejecting
<1>2. CASE Rejecting(ctx) = {}
  BY <1>1, <1>2 DEF Trace
<1>3. CASE Rejecting(ctx) # {}
  <2>1. Rejecting(ctx) \subseteq Nat
    BY DEF Rejecting
  <2>2. \E n \in Rejecting(ctx) : \A k \in Rejecting(ctx) : n <= k
    BY <1>3, <2>1, LeastExists
  <2>3. /\ Min(Rejecting(ctx)) \in Rejecting(ctx)
        /\ \A k \in Rejecting(ctx) : Min(Rejecting(ctx)) <= k
    BY <2>2 DEF Min
  <2>4. Trace(ctx) = SubSeq(Layers(ctx), 1, Min(Rejecting(ctx)))
    BY <1>1, <1>3 DEF Trace
  <2>5. QED
    BY <2>3, <2>4
<1>4. QED
  BY <1>2, <1>3

(* A proposal is rejected by a layer, and passes by all of them.           *)
LEMMA VerdictOfTrace ==
  ASSUME NEW ctx
  PROVE  /\ FinalVerdict(Trace(ctx)) = "reject" <=> Rejecting(ctx) # {}
         /\ Passes(ctx) <=> \A k \in 1..8 : Layers(ctx)[k].verdict = "accept"
<1>1. CASE Rejecting(ctx) = {}
  <2>1. Trace(ctx) = Layers(ctx)
    BY <1>1, TraceStops
  <2>2. DOMAIN Layers(ctx) = 1..8
    BY LayersInOrder
  <2>3. Verdicts(Trace(ctx)) = {Layers(ctx)[k].verdict : k \in 1..8}
    BY <2>1, <2>2 DEF Verdicts
  <2>4. "reject" \notin Verdicts(Trace(ctx))
    BY <1>1, <2>3 DEF Rejecting
  <2>5. FinalVerdict(Trace(ctx)) = IF "review" \in Verdicts(Trace(ctx)) THEN "review" ELSE "accept"
    BY <2>4 DEF FinalVerdict
  <2>6. "review" \in Verdicts(Trace(ctx)) <=> \E k \in 1..8 : Layers(ctx)[k].verdict = "review"
    BY <2>3
  <2>7. \A k \in 1..8 : Layers(ctx)[k].verdict \in {"accept", "review"}
    BY <1>1, LayersInOrder DEF Rejecting
  <2>8. QED
    BY <1>1, <2>5, <2>6, <2>7 DEF Passes
<1>2. ASSUME NEW n \in Rejecting(ctx), Trace(ctx) = SubSeq(Layers(ctx), 1, n)
      PROVE  FinalVerdict(Trace(ctx)) = "reject"
  <2>1. n \in 1..8 /\ Len(Layers(ctx)) = 8 /\ Layers(ctx)[n].verdict = "reject"
    BY LayersInOrder DEF Rejecting
  <2>2. DOMAIN Trace(ctx) = 1..n /\ Trace(ctx)[n] = Layers(ctx)[n]
    BY <1>2, <2>1
  <2>3. "reject" \in Verdicts(Trace(ctx))
    BY <2>1, <2>2 DEF Verdicts
  <2>4. QED
    BY <2>3 DEF FinalVerdict
<1>3. CASE Rejecting(ctx) # {}
  <2>1. FinalVerdict(Trace(ctx)) = "reject"
    BY <1>2, <1>3, TraceStops
  <2>2. \E k \in 1..8 : Layers(ctx)[k].verdict = "reject"
    BY <1>3 DEF Rejecting
  <2>3. QED
    BY <1>3, <2>1, <2>2 DEF Passes
<1>4. QED
  BY <1>1, <1>3

(* A rejected proposal: the trace ends with the first rejection.           *)
LEMMA RejectionIsLast ==
  ASSUME NEW ctx, FinalVerdict(Trace(ctx)) = "reject"
  PROVE  \E n \in Rejecting(ctx) :
           /\ Trace(ctx)[Len(Trace(ctx))].layer = LayerNames[n]
           /\ \A k \in DOMAIN Trace(ctx) : Trace(ctx)[k].verdict = "reject" => Trace(ctx)[k].layer = LayerNames[n]
<1>1. PICK n \in Rejecting(ctx) : /\ \A k \in Rejecting(ctx) : n <= k
                                  /\ Trace(ctx) = SubSeq(Layers(ctx), 1, n)
  BY VerdictOfTrace, TraceStops
<1>2. n \in 1..8 /\ Len(Layers(ctx)) = 8
  BY LayersInOrder DEF Rejecting
<1>3. /\ DOMAIN Trace(ctx) = 1..n /\ Len(Trace(ctx)) = n
      /\ \A k \in 1..n : Trace(ctx)[k] = Layers(ctx)[k]
  BY <1>1, <1>2
<1>4. ASSUME NEW k \in 1..n, Trace(ctx)[k].verdict = "reject" PROVE k = n
  <2>1. k \in Rejecting(ctx)
    BY <1>2, <1>3, <1>4 DEF Rejecting
  <2>2. QED
    BY <1>1, <1>2, <1>4, <2>1
<1>5. Trace(ctx)[n].layer = LayerNames[n]
  BY <1>2, <1>3, LayersInOrder
<1>6. QED
  BY <1>2, <1>3, <1>4, <1>5

(* The same trade in another size.                                         *)
Sized(ctx, name, gross, quantity) == [ctx EXCEPT !.name = name, !.gross = gross, !.quantity = quantity]

(* All but the size is the same.                                           *)
SameTrade(ctx, sized) ==
  /\ sized.market = ctx.market /\ sized.venue = ctx.venue /\ sized.asset = ctx.asset /\ sized.st = ctx.st
  /\ sized.growth = ctx.growth /\ sized.permitted = ctx.permitted /\ sized.side = ctx.side
  /\ sized.allowShort = ctx.allowShort /\ sized.open = ctx.open /\ sized.halted = ctx.halted
  /\ sized.delisted = ctx.delisted /\ sized.prevClose = ctx.prevClose /\ sized.price = ctx.price
  /\ sized.volume = ctx.volume /\ sized.nameLimit = ctx.nameLimit /\ sized.grossLimit = ctx.grossLimit
  /\ sized.ccy = ctx.ccy /\ sized.ccyLimit = ctx.ccyLimit /\ sized.shock = ctx.shock
  /\ sized.shockLimit = ctx.shockLimit /\ sized.killSwitch = ctx.killSwitch
  /\ sized.duplicate = ctx.duplicate /\ sized.lot = ctx.lot /\ sized.tick = ctx.tick

(* Nothing else changes.                                                   *)
LEMMA SizedFields ==
  ASSUME NEW ctx \in RiskContexts, NEW name, NEW gross, NEW quantity, NEW sized,
         sized = Sized(ctx, name, gross, quantity)
  PROVE  /\ sized.name = name /\ sized.gross = gross /\ sized.quantity = quantity
         /\ SameTrade(ctx, sized)
BY DEF Sized, RiskContexts, SameTrade

(* In whole lots of one, layer by layer: the size of a trade matters to    *)
(* the exposure limits alone, and to the review for thin liquidity.        *)
LEMMA SizeMatters ==
  ASSUME NEW ctx \in RiskContexts, ctx.lot = 1,
         NEW name \in Int, NEW gross \in Int, NEW quantity \in Int, NEW sized,
         sized = Sized(ctx, name, gross, quantity)
  PROVE  /\ Permission(sized) = Permission(ctx) /\ Regulatory(sized) = Regulatory(ctx)
         /\ MarketState(sized) = MarketState(ctx) /\ StressDelta(sized) = StressDelta(ctx)
         /\ Operational(sized) = Operational(ctx)
         /\ ExecutionFeasibility(sized) = ExecutionFeasibility(ctx)
         /\ PriceLimit(sized) = PriceLimit(ctx)
<1>1. /\ Permission(sized) = Permission(ctx) /\ Regulatory(sized) = Regulatory(ctx)
      /\ MarketState(sized) = MarketState(ctx) /\ StressDelta(sized) = StressDelta(ctx)
      /\ Operational(sized) = Operational(ctx) /\ PriceLimit(sized) = PriceLimit(ctx)
  <2>1. Permission(sized) = Permission(ctx)
    <3>1. sized.permitted = ctx.permitted
      BY SizedFields DEF SameTrade
    <3>2. QED
      BY <3>1, Zenon DEF Permission
  <2>2. Regulatory(sized) = Regulatory(ctx)
    <3>1. sized.side = ctx.side /\ sized.market = ctx.market /\ sized.allowShort = ctx.allowShort
      BY SizedFields DEF SameTrade
    <3>2. QED
      BY <3>1, Zenon DEF Regulatory
  <2>3. MarketState(sized) = MarketState(ctx)
    <3>1. sized.delisted = ctx.delisted /\ sized.halted = ctx.halted /\ sized.open = ctx.open
      BY SizedFields DEF SameTrade
    <3>2. QED
      BY <3>1, Zenon DEF MarketState
  <2>4. StressDelta(sized) = StressDelta(ctx)
    <3>1. sized.shock = ctx.shock /\ sized.shockLimit = ctx.shockLimit
      BY SizedFields DEF SameTrade
    <3>2. QED
      BY <3>1, Zenon DEF StressDelta
  <2>5. Operational(sized) = Operational(ctx)
    <3>1. sized.killSwitch = ctx.killSwitch /\ sized.duplicate = ctx.duplicate
      BY SizedFields DEF SameTrade
    <3>2. QED
      BY <3>1, Zenon DEF Operational
  <2>6. PriceLimit(sized) = PriceLimit(ctx)
    <3>1. /\ sized.market = ctx.market /\ sized.venue = ctx.venue /\ sized.asset = ctx.asset
          /\ sized.st = ctx.st /\ sized.growth = ctx.growth
      BY SizedFields DEF SameTrade
    <3>2. QED
      BY <3>1 DEF PriceLimit
  <2>7. QED
    BY <2>1, <2>2, <2>3, <2>4, <2>5, <2>6
<1>2. ExecutionFeasibility(sized) = ExecutionFeasibility(ctx)
  <2>1. sized.quantity = quantity /\ sized.lot = 1 /\ sized.tick = ctx.tick /\ sized.price = ctx.price
    BY SizedFields DEF SameTrade
  <2>2. quantity % 1 = 0 /\ ctx.quantity % 1 = 0
    BY DEF RiskContexts
  <2>3. QED
    BY <2>1, <2>2 DEF ExecutionFeasibility
<1>3. QED
  BY <1>1, <1>2

(* The price is at the limit the trade would push it past.                 *)
Locked(ctx) ==
  /\ ctx.market = "CN" /\ ctx.prevClose # Unknown /\ PriceLimit(ctx) # Unknown
  /\ \/ ctx.side > 0 /\ 100 * ctx.price >= ctx.prevClose * (100 + PriceLimit(ctx))
     \/ ctx.side < 0 /\ 100 * ctx.price <= ctx.prevClose * (100 - PriceLimit(ctx))

(* The trade is more than a tenth of the volume.                           *)
Thin(ctx) == ctx.volume # Unknown /\ 10 * ctx.quantity > ctx.volume

(* The trade goes past a limit of its name, of the book or of its          *)
(* currency.                                                               *)
Overexposed(ctx) ==
  ctx.name > ctx.nameLimit \/ ctx.gross > ctx.grossLimit \/ ctx.ccy > ctx.ccyLimit

(* The fourth layer.                                                       *)
LEMMA LiquidityVerdict ==
  ASSUME NEW ctx
  PROVE  PriceLimitAndLiquidity(ctx).verdict
           = IF Locked(ctx) THEN "reject" ELSE IF Thin(ctx) THEN "review" ELSE "accept"
<1> DEFINE upper == ctx.market = "CN" /\ ctx.prevClose # Unknown /\ PriceLimit(ctx) # Unknown
                    /\ ctx.side > 0 /\ 100 * ctx.price >= ctx.prevClose * (100 + PriceLimit(ctx))
           lower == ctx.market = "CN" /\ ctx.prevClose # Unknown /\ PriceLimit(ctx) # Unknown
                    /\ ctx.side < 0 /\ 100 * ctx.price <= ctx.prevClose * (100 - PriceLimit(ctx))
           rejections == <<<<upper, "AT_UPPER_LIMIT">>, <<lower, "AT_LOWER_LIMIT">>>>
           reviews == <<<<Thin(ctx), "LIQUIDITY_THIN">>>>
<1>1. PriceLimitAndLiquidity(ctx) = Says("price_limit_and_liquidity", rejections, reviews)
  BY DEF PriceLimitAndLiquidity, Thin
<1>2. Locked(ctx) <=> upper \/ lower
  BY DEF Locked
<1> HIDE DEF upper, lower
<1>3. (\E k \in DOMAIN rejections : rejections[k][1]) <=> upper \/ lower
  <2>1. DOMAIN rejections = {1, 2} /\ rejections[1][1] = upper /\ rejections[2][1] = lower
    OBVIOUS
  <2> HIDE DEF rejections
  <2>2. QED
    BY <2>1
<1>4. (\E k \in DOMAIN reviews : reviews[k][1]) <=> Thin(ctx)
  <2>1. DOMAIN reviews = {1} /\ reviews[1][1] = Thin(ctx)
    OBVIOUS
  <2> HIDE DEF reviews
  <2>2. QED
    BY <2>1
<1> HIDE DEF rejections, reviews
<1>5. QED
  BY <1>1, <1>2, <1>3, <1>4, SaysVerdict

(* The fifth layer.                                                        *)
LEMMA ExposureVerdict ==
  ASSUME NEW ctx
  PROVE  ExposureLimits(ctx).verdict = IF Overexposed(ctx) THEN "reject" ELSE "accept"
<1> DEFINE rejections == <<<<ctx.name > ctx.nameLimit, "NAME_LIMIT">>, <<ctx.gross > ctx.grossLimit, "GROSS_LIMIT">>,
                           <<ctx.ccy > ctx.ccyLimit, "CCY_LIMIT">>>>
<1>1. ExposureLimits(ctx) = Says("exposure_limits", rejections, <<>>)
  BY DEF ExposureLimits
<1>2. (\E k \in DOMAIN rejections : rejections[k][1]) <=> Overexposed(ctx)
  <2>1. DOMAIN rejections = {1, 2, 3} /\ rejections[1][1] = (ctx.name > ctx.nameLimit)
        /\ rejections[2][1] = (ctx.gross > ctx.grossLimit) /\ rejections[3][1] = (ctx.ccy > ctx.ccyLimit)
    OBVIOUS
  <2> HIDE DEF rejections
  <2>2. QED
    BY <2>1 DEF Overexposed
<1>3. ~ \E k \in DOMAIN <<>> : <<>>[k][1]
  OBVIOUS
<1> HIDE DEF rejections
<1>4. QED
  BY <1>1, <1>2, <1>3, SaysVerdict

(* The layers by number.                                                   *)
LEMMA LayersOf ==
  ASSUME NEW ctx
  PROVE  /\ Layers(ctx)[1] = Permission(ctx) /\ Layers(ctx)[2] = Regulatory(ctx)
         /\ Layers(ctx)[3] = MarketState(ctx) /\ Layers(ctx)[4] = PriceLimitAndLiquidity(ctx)
         /\ Layers(ctx)[5] = ExposureLimits(ctx) /\ Layers(ctx)[6] = StressDelta(ctx)
         /\ Layers(ctx)[7] = Operational(ctx) /\ Layers(ctx)[8] = ExecutionFeasibility(ctx)
BY DEF Layers

(* What another layer than the exposure limits rejects, it rejects in      *)
(* every size.                                                             *)
LEMMA HardRejectionStays ==
  ASSUME NEW ctx \in RiskContexts, ctx.lot = 1,
         NEW name \in Int, NEW gross \in Int, NEW quantity \in Int, NEW sized,
         sized = Sized(ctx, name, gross, quantity),
         NEW n \in Rejecting(ctx), n # 5
  PROVE  ~Passes(sized)
<1>1. n \in 1..8 /\ Layers(ctx)[n].verdict = "reject"
  BY DEF Rejecting
<1>2. CASE n = 4
  <2>1. Locked(ctx)
    BY <1>1, <1>2, LayersOf, LiquidityVerdict
  <2>2. /\ sized.market = ctx.market /\ sized.prevClose = ctx.prevClose /\ sized.side = ctx.side
        /\ sized.price = ctx.price
    BY SizedFields DEF SameTrade
  <2>3. PriceLimit(sized) = PriceLimit(ctx)
    BY SizeMatters
  <2>4. Locked(sized)
    BY <2>1, <2>2, <2>3 DEF Locked
  <2>5. Layers(sized)[4].verdict = "reject"
    BY <2>4, LayersOf, LiquidityVerdict
  <2>6. QED
    BY <2>5, VerdictOfTrace
<1>3. CASE n \in {1, 2, 3, 6, 7, 8}
  <2>1. /\ Layers(sized)[1] = Layers(ctx)[1] /\ Layers(sized)[2] = Layers(ctx)[2]
        /\ Layers(sized)[3] = Layers(ctx)[3] /\ Layers(sized)[6] = Layers(ctx)[6]
        /\ Layers(sized)[7] = Layers(ctx)[7] /\ Layers(sized)[8] = Layers(ctx)[8]
    BY SizeMatters, LayersOf
  <2>2. Layers(sized)[n] = Layers(ctx)[n]
    BY <1>3, <2>1
  <2>3. Layers(sized)[n].verdict = "reject"
    BY <1>1, <2>2
  <2>4. QED
    BY <1>1, <2>3, VerdictOfTrace
<1>4. QED
  BY <1>1, <1>2, <1>3

(* A trade that passes does so in any smaller size.                        *)
LEMMA SmallerPasses ==
  ASSUME NEW ctx \in RiskContexts, ctx.lot = 1,
         NEW name1 \in Int, NEW gross1 \in Int, NEW quantity1 \in Int,
         NEW name2 \in Int, NEW gross2 \in Int, NEW quantity2 \in Int,
         name1 <= name2, gross1 <= gross2, quantity1 <= quantity2,
         NEW small, small = Sized(ctx, name1, gross1, quantity1),
         NEW large, large = Sized(ctx, name2, gross2, quantity2),
         Passes(large)
  PROVE  Passes(small)
<1>1. \A k \in 1..8 : Layers(large)[k].verdict = "accept"
  BY VerdictOfTrace
<1>2. \A k \in {1, 2, 3, 6, 7, 8} : Layers(small)[k] = Layers(large)[k]
  <2>1. /\ Permission(small) = Permission(ctx) /\ Regulatory(small) = Regulatory(ctx)
        /\ MarketState(small) = MarketState(ctx) /\ StressDelta(small) = StressDelta(ctx)
        /\ Operational(small) = Operational(ctx)
        /\ ExecutionFeasibility(small) = ExecutionFeasibility(ctx)
    BY SizeMatters
  <2>2. /\ Permission(large) = Permission(ctx) /\ Regulatory(large) = Regulatory(ctx)
        /\ MarketState(large) = MarketState(ctx) /\ StressDelta(large) = StressDelta(ctx)
        /\ Operational(large) = Operational(ctx)
        /\ ExecutionFeasibility(large) = ExecutionFeasibility(ctx)
    BY SizeMatters
  <2>3. QED
    BY <2>1, <2>2, LayersOf
<1>3. Layers(small)[4].verdict = "accept"
  <2>1. ~Locked(large) /\ ~Thin(large)
    BY <1>1, LayersOf, LiquidityVerdict
  <2>2. /\ small.market = ctx.market /\ small.prevClose = ctx.prevClose /\ small.side = ctx.side
        /\ small.price = ctx.price /\ small.volume = ctx.volume /\ small.quantity = quantity1
    BY SizedFields DEF SameTrade
  <2>3. /\ large.market = ctx.market /\ large.prevClose = ctx.prevClose /\ large.side = ctx.side
        /\ large.price = ctx.price /\ large.volume = ctx.volume /\ large.quantity = quantity2
    BY SizedFields DEF SameTrade
  <2>4. PriceLimit(small) = PriceLimit(ctx) /\ PriceLimit(large) = PriceLimit(ctx)
    BY SizeMatters
  <2>5. ~Locked(small)
    BY <2>1, <2>2, <2>3, <2>4 DEF Locked
  <2>6. ~Thin(small)
    <3>1. ctx.volume \in Int
      BY DEF RiskContexts
    <3>2. ctx.volume = Unknown \/ ~ (10 * quantity2 > ctx.volume)
      BY <2>1, <2>3 DEF Thin
    <3>3. ctx.volume = Unknown \/ ~ (10 * quantity1 > ctx.volume)
      BY <3>1, <3>2
    <3>4. QED
      BY <2>2, <3>3 DEF Thin
  <2>7. QED
    BY <2>5, <2>6, LayersOf, LiquidityVerdict
<1>4. Layers(small)[5].verdict = "accept"
  <2>1. ~Overexposed(large)
    BY <1>1, LayersOf, ExposureVerdict
  <2>2. /\ small.name = name1 /\ small.gross = gross1 /\ small.ccy = ctx.ccy
        /\ small.nameLimit = ctx.nameLimit /\ small.grossLimit = ctx.grossLimit /\ small.ccyLimit = ctx.ccyLimit
    BY SizedFields DEF SameTrade
  <2>3. /\ large.name = name2 /\ large.gross = gross2 /\ large.ccy = ctx.ccy
        /\ large.nameLimit = ctx.nameLimit /\ large.grossLimit = ctx.grossLimit /\ large.ccyLimit = ctx.ccyLimit
    BY SizedFields DEF SameTrade
  <2>4. ctx.nameLimit \in Int /\ ctx.grossLimit \in Int /\ ctx.ccyLimit \in Int /\ ctx.ccy \in Int
    BY DEF RiskContexts
  <2>5. ~Overexposed(small)
    <3>1. ~ (name2 > ctx.nameLimit) /\ ~ (gross2 > ctx.grossLimit) /\ ~ (ctx.ccy > ctx.ccyLimit)
      BY <2>1, <2>3 DEF Overexposed
    <3>2. ~ (name1 > ctx.nameLimit) /\ ~ (gross1 > ctx.grossLimit)
      BY <2>4, <3>1
    <3>3. QED
      BY <2>2, <3>1, <3>2 DEF Overexposed
  <2>6. QED
    BY <2>5, LayersOf, ExposureVerdict
<1>5. \A k \in 1..8 : Layers(small)[k].verdict = "accept"
  BY <1>1, <1>2, <1>3, <1>4
<1>6. QED
  BY <1>5, VerdictOfTrace

(* The invariant of the search: below is a weight that passes, or nothing; *)
(* above one that does not, or the weight asked for.                       *)
Brackets(weight, build) ==
  {st \in [low : 0..weight, high : 0..weight, best : 0..weight] :
     /\ st.low = st.best /\ st.low <= st.high
     /\ st.low = 0 \/ Passes(build[st.low])
     /\ st.high = weight \/ ~Passes(build[st.high])}

(* One round of it.                                                        *)
Halved(st, build) ==
  Narrowed(st, (st.low + st.high) \div 2, Passes(build[(st.low + st.high) \div 2]))

(* A round keeps the invariant and halves the gap.                         *)
LEMMA HalvingKeeps ==
  ASSUME NEW weight \in Nat, NEW build, NEW st \in Brackets(weight, build), NEW next,
         next = Halved(st, build)
  PROVE  /\ next \in Brackets(weight, build)
         /\ 2 * (next.high - next.low) <= st.high - st.low + 1
<1>1. /\ st.low \in 0..weight /\ st.high \in 0..weight /\ st.low <= st.high /\ st.best = st.low
      /\ st = [low |-> st.low, high |-> st.high, best |-> st.best]
      /\ st.low = 0 \/ Passes(build[st.low])
      /\ st.high = weight \/ ~Passes(build[st.high])
  BY DEF Brackets
<1>2. PICK mid : mid = (st.low + st.high) \div 2
  OBVIOUS
<1>3. /\ mid \in 0..weight /\ st.low <= mid /\ mid <= st.high
      /\ 2 * (st.high - mid) <= st.high - st.low + 1 /\ 2 * (mid - st.low) <= st.high - st.low + 1
  BY <1>1, <1>2
<1>4. CASE Passes(build[mid])
  <2>1. next = [low |-> mid, high |-> st.high, best |-> mid]
    BY <1>1, <1>2, <1>4 DEF Halved, Narrowed
  <2>2. next.low = mid /\ next.high = st.high /\ next.best = mid
    BY <2>1
  <2>3. next \in [low : 0..weight, high : 0..weight, best : 0..weight]
    BY <1>1, <1>3, <2>1
  <2>4. QED
    BY <1>1, <1>3, <1>4, <2>2, <2>3 DEF Brackets
<1>5. CASE ~Passes(build[mid])
  <2>1. next = [low |-> st.low, high |-> mid, best |-> st.best]
    BY <1>1, <1>2, <1>5 DEF Halved, Narrowed
  <2>2. next.low = st.low /\ next.high = mid /\ next.best = st.low
    BY <1>1, <2>1
  <2>3. next \in [low : 0..weight, high : 0..weight, best : 0..weight]
    BY <1>1, <1>3, <2>1
  <2>4. QED
    BY <1>1, <1>3, <1>5, <2>2, <2>3 DEF Brackets
<1>6. QED
  BY <1>4, <1>5

(* After six rounds the gap is a 64th of the weight.                       *)
LEMMA TrimmedIsBracketed ==
  ASSUME NEW weight \in Nat, NEW build
  PROVE  \E st \in Brackets(weight, build) :
           /\ Trimmed(weight, build) = st.best
           /\ 64 * (st.high - st.low) <= weight + 63
<1> DEFINE start == [low |-> 0, high |-> weight, best |-> 0]
           Rounds(f) == [k \in 0..MaxAdjustIters |->
                           IF k = 0 THEN start
                           ELSE LET st == f[k - 1]
                                    mid == (st.low + st.high) \div 2
                                IN  Narrowed(st, mid, Passes(build[mid]))]
           after == CHOOSE f : f = Rounds(f)
<1>1. \A f : Rounds(f) = [k \in 0..6 |-> IF k = 0 THEN start ELSE Halved(f[k - 1], build)]
  BY DEF Halved, MaxAdjustIters
<1> HIDE DEF Rounds
<1>2. PICK s1, s2, s3, s4, s5, s6 :
        /\ s1 = Halved(start, build) /\ s2 = Halved(s1, build) /\ s3 = Halved(s2, build)
        /\ s4 = Halved(s3, build) /\ s5 = Halved(s4, build) /\ s6 = Halved(s5, build)
  OBVIOUS
<1>3. \E f : f = Rounds(f)
  <2> DEFINE g == [k \in 0..6 |-> CASE k = 0 -> start [] k = 1 -> s1 [] k = 2 -> s2 [] k = 3 -> s3
                                    [] k = 4 -> s4 [] k = 5 -> s5 [] k = 6 -> s6]
  <2>1. g[0] = start /\ g[1] = s1 /\ g[2] = s2 /\ g[3] = s3 /\ g[4] = s4 /\ g[5] = s5 /\ g[6] = s6
    OBVIOUS
  <2>2. g = [k \in 0..6 |-> g[k]]
    OBVIOUS
  <2> HIDE DEF g
  <2>3. \A k \in 0..6 : g[k] = IF k = 0 THEN start ELSE Halved(g[k - 1], build)
    <3>1. \A k \in 0..6 : k \in {0, 1, 2, 3, 4, 5, 6}
      OBVIOUS
    <3>2. QED
      BY <1>2, <2>1, <3>1
  <2>4. g = [k \in 0..6 |-> IF k = 0 THEN start ELSE Halved(g[k - 1], build)]
    BY <2>2, <2>3
  <2>5. QED
    BY <1>1, <2>4
<1>4. after = [k \in 0..6 |-> IF k = 0 THEN start ELSE Halved(after[k - 1], build)]
  BY <1>1, <1>3
<1>5. Trimmed(weight, build) = after[6].best
  BY DEF Trimmed, Rounds, MaxAdjustIters
<1> HIDE DEF after
<1>6. /\ after[1] = s1 /\ after[2] = s2 /\ after[3] = s3 /\ after[4] = s4 /\ after[5] = s5 /\ after[6] = s6
  BY <1>2, <1>4
<1>7. start \in Brackets(weight, build)
  BY DEF Brackets
<1>8. start.high = weight /\ start.low = 0
  OBVIOUS
<1> HIDE DEF start
<1>9. s1 \in Brackets(weight, build) /\ 2 * (s1.high - s1.low) <= weight + 1
  BY <1>2, <1>7, <1>8, HalvingKeeps
<1>10. s2 \in Brackets(weight, build) /\ 2 * (s2.high - s2.low) <= s1.high - s1.low + 1
  BY <1>2, <1>9, HalvingKeeps
<1>11. s3 \in Brackets(weight, build) /\ 2 * (s3.high - s3.low) <= s2.high - s2.low + 1
  BY <1>2, <1>10, HalvingKeeps
<1>12. s4 \in Brackets(weight, build) /\ 2 * (s4.high - s4.low) <= s3.high - s3.low + 1
  BY <1>2, <1>11, HalvingKeeps
<1>13. s5 \in Brackets(weight, build) /\ 2 * (s5.high - s5.low) <= s4.high - s4.low + 1
  BY <1>2, <1>12, HalvingKeeps
<1>14. s6 \in Brackets(weight, build) /\ 2 * (s6.high - s6.low) <= s5.high - s5.low + 1
  BY <1>2, <1>13, HalvingKeeps
<1>15. 64 * (s6.high - s6.low) <= weight + 63
  <2>1. \A st \in Brackets(weight, build) : st.high \in Int /\ st.low \in Int
    BY DEF Brackets
  <2>2. QED
    BY <1>9, <1>10, <1>11, <1>12, <1>13, <1>14, <2>1
<1>16. QED
  BY <1>5, <1>6, <1>14, <1>15

(* The layers whose rejection no smaller weight lifts.                     *)
HardLayers ==
  {"permission", "regulatory", "market_state", "price_limit_and_liquidity",
   "operational", "execution_feasibility"}

(* None of them rejects.                                                   *)
NoHardRejection(trace) ==
  \A k \in DOMAIN trace : trace[k].verdict = "reject" => trace[k].layer \notin HardLayers

(* A verdict is one of three, and only a rejection has a rejecting layer.  *)
LEMMA VerdictIsOne ==
  ASSUME NEW ctx
  PROVE  /\ FinalVerdict(Trace(ctx)) \in {"accept", "review", "reject"}
         /\ FinalVerdict(Trace(ctx)) # "reject" => NoHardRejection(Trace(ctx))
<1>1. FinalVerdict(Trace(ctx)) \in {"accept", "review", "reject"}
  BY DEF FinalVerdict
<1>2. ASSUME FinalVerdict(Trace(ctx)) # "reject" PROVE NoHardRejection(Trace(ctx))
  <2>1. "reject" \notin Verdicts(Trace(ctx))
    BY <1>2 DEF FinalVerdict
  <2>2. QED
    BY <2>1 DEF Verdicts, NoHardRejection
<1>3. QED
  BY <1>1, <1>2

(* The last layer asked is about size or stress.                           *)
Soft(trace) == trace[Len(trace)].layer \in {"exposure_limits", "stress_delta"}

(* It is the one that rejects.                                             *)
LEMMA SoftIsNotHard ==
  ASSUME NEW ctx, FinalVerdict(Trace(ctx)) = "reject"
  PROVE  \/ Soft(Trace(ctx)) /\ NoHardRejection(Trace(ctx))
         \/ ~Soft(Trace(ctx)) /\ \E n \in Rejecting(ctx) : n # 5
<1>1. PICK n \in Rejecting(ctx) :
           /\ Trace(ctx)[Len(Trace(ctx))].layer = LayerNames[n]
           /\ \A k \in DOMAIN Trace(ctx) : Trace(ctx)[k].verdict = "reject" => Trace(ctx)[k].layer = LayerNames[n]
  BY RejectionIsLast
<1>2. n \in 1..8
  BY DEF Rejecting
<1>3. CASE n \in {5, 6}
  <2>1. LayerNames[n] \in {"exposure_limits", "stress_delta"}
    BY <1>3 DEF LayerNames
  <2>2. QED
    BY <1>1, <2>1 DEF Soft, NoHardRejection, HardLayers
<1>4. CASE n \notin {5, 6}
  <2>1. n \in {1, 2, 3, 4, 7, 8}
    BY <1>2, <1>4
  <2>2. LayerNames[n] \notin {"exposure_limits", "stress_delta"}
    BY <2>1 DEF LayerNames
  <2>3. QED
    BY <1>1, <1>4, <2>2 DEF Soft
<1>5. QED
  BY <1>3, <1>4

(* The answers of propose, and why it gives them.                          *)
Outcome(ctx, weight, safe, build, answer) ==
  \/ safe /\ answer.status = "REJECTED" /\ answer.weight = 0
  \/ ~safe /\ FinalVerdict(Trace(ctx)) = "accept" /\ answer.weight = weight
  \/ ~safe /\ FinalVerdict(Trace(ctx)) = "review" /\ answer.weight = weight \div 2
  \/ /\ ~safe /\ FinalVerdict(Trace(ctx)) = "reject" /\ Soft(Trace(ctx)) /\ DOMAIN build # {}
     /\ weight > 0 /\ Trimmed(weight, build) > 0 /\ answer.weight = Trimmed(weight, build)
  \/ /\ ~safe /\ FinalVerdict(Trace(ctx)) = "reject"
     /\ answer.status = "REJECTED" /\ answer.weight = 0
     /\ Soft(Trace(ctx)) /\ DOMAIN build # {} /\ weight > 0 => ~ (Trimmed(weight, build) > 0)

(* There are no others.                                                    *)
LEMMA ProposeCases ==
  ASSUME NEW ctx, NEW weight \in Nat, NEW safe \in BOOLEAN, NEW build, NEW answer,
         answer = Propose(ctx, weight, safe, build)
  PROVE  Outcome(ctx, weight, safe, build, answer)
<1>1. ~ (weight < 0)
  OBVIOUS
<1>2. FinalVerdict(Trace(ctx)) \in {"accept", "review", "reject"}
  BY VerdictIsOne
<1>3. ASSUME NEW status, NEW w, NEW trace
      PROVE  Answer(status, w, trace).status = status /\ Answer(status, w, trace).weight = w
  BY DEF Answer
<1>4. CASE safe
  <2>1. answer = Answer("REJECTED", 0, Trace(ctx))
    BY <1>1, <1>4 DEF Propose
  <2>2. answer.status = "REJECTED" /\ answer.weight = 0
    BY <1>3, <2>1
  <2>3. QED
    BY <1>4, <2>2, Zenon DEF Outcome
<1>5. CASE ~safe /\ FinalVerdict(Trace(ctx)) = "accept"
  <2>1. answer = Answer("APPROVED", weight, Trace(ctx))
    BY <1>1, <1>5 DEF Propose
  <2>2. QED
    BY <1>3, <1>5, <2>1 DEF Outcome
<1>6. CASE ~safe /\ FinalVerdict(Trace(ctx)) = "review"
  <2>1. answer = Answer("ADJUSTED", weight \div 2, Trace(ctx))
    BY <1>1, <1>6 DEF Propose
  <2>2. QED
    BY <1>3, <1>6, <2>1 DEF Outcome
<1>7. CASE ~safe /\ FinalVerdict(Trace(ctx)) = "reject"
  <2> DEFINE trimmed == IF DOMAIN build # {} /\ Soft(Trace(ctx)) /\ weight > 0 THEN Trimmed(weight, build) ELSE 0
  <2>1. answer = IF trimmed > 0 THEN Answer("ADJUSTED", trimmed, Trace(build[trimmed]))
                 ELSE Answer("REJECTED", 0, Trace(ctx))
    BY <1>1, <1>7 DEF Propose, Soft
  <2>2. CASE trimmed > 0
    <3>1. answer.weight = trimmed
      BY <1>3, <2>1, <2>2
    <3>2. DOMAIN build # {} /\ Soft(Trace(ctx)) /\ weight > 0 /\ trimmed = Trimmed(weight, build)
      BY <2>2
    <3>3. QED
      BY <1>7, <2>2, <3>1, <3>2 DEF Outcome
  <2>3. CASE ~ (trimmed > 0)
    <3>1. answer.status = "REJECTED" /\ answer.weight = 0
      BY <1>3, <2>1, <2>3
    <3>2. QED
      BY <1>7, <2>3, <3>1 DEF Outcome
  <2>4. QED
    BY <2>2, <2>3
<1>8. QED
  BY <1>2, <1>4, <1>5, <1>6, <1>7

(* A resized trade is resized again.                                       *)
LEMMA Resized ==
  ASSUME NEW ctx \in RiskContexts, NEW name1 \in Int, NEW gross1 \in Int, NEW quantity1 \in Int,
         NEW name2 \in Int, NEW gross2 \in Int, NEW quantity2 \in Int
  PROVE  /\ Sized(ctx, name1, gross1, quantity1) \in RiskContexts
         /\ Sized(Sized(ctx, name1, gross1, quantity1), name2, gross2, quantity2)
              = Sized(ctx, name2, gross2, quantity2)
<1>1. Sized(ctx, name1, gross1, quantity1) \in RiskContexts
  BY DEF Sized, RiskContexts
<1>2. /\ {"name", "gross", "quantity"} \subseteq DOMAIN ctx
      /\ ctx = [field \in DOMAIN ctx |-> ctx[field]]
  BY DEF RiskContexts
<1>3. QED
  BY <1>1, <1>2 DEF Sized

(* The weight is no more than asked for, and a proposal that may trade     *)
(* went past no layer.                                                     *)
SafeAnswer(ctx, weight, safe, build, answer) ==
  /\ answer.weight \in 0..weight
  /\ IsTradeable(answer) =>
       /\ ~safe /\ NoHardRejection(Trace(ctx))
       /\ FinalVerdict(Trace(ctx)) = "reject" => DOMAIN build # {} /\ Passes(build[answer.weight])

(* For any trade, weight and builder, propose never raises a weight, and   *)
(* what it lets trade no hard layer rejects; a rejected trade trades only  *)
(* at a weight that was itself evaluated and passes (agent/proposal.py).   *)
THEOREM ProposalIsSafe ==
  ASSUME NEW ctx, NEW weight \in Nat, NEW safe \in BOOLEAN, NEW build, NEW answer,
         answer = Propose(ctx, weight, safe, build)
  PROVE  SafeAnswer(ctx, weight, safe, build, answer)
<1>1. Outcome(ctx, weight, safe, build, answer)
  BY ProposeCases
<1>2. PICK st \in Brackets(weight, build) : Trimmed(weight, build) = st.best
  BY TrimmedIsBracketed
<1>3. st.best \in 0..weight /\ (st.best = 0 \/ Passes(build[st.best]))
  BY DEF Brackets
<1>4. weight \div 2 \in 0..weight
  OBVIOUS
<1>5. answer.weight \in 0..weight
  BY <1>1, <1>2, <1>3, <1>4 DEF Outcome
<1>6. ASSUME IsTradeable(answer) PROVE ~safe /\ NoHardRejection(Trace(ctx))
  <2>1. answer.status # "REJECTED"
    BY <1>6 DEF IsTradeable
  <2>2. ~safe /\ (FinalVerdict(Trace(ctx)) # "reject" \/ Soft(Trace(ctx)))
    BY <1>1, <2>1 DEF Outcome
  <2>3. QED
    BY <2>2, SoftIsNotHard, VerdictIsOne
<1>7. ASSUME IsTradeable(answer), FinalVerdict(Trace(ctx)) = "reject"
      PROVE  DOMAIN build # {} /\ Passes(build[answer.weight])
  <2>1. answer.status # "REJECTED"
    BY <1>7 DEF IsTradeable
  <2>2. DOMAIN build # {} /\ Trimmed(weight, build) > 0 /\ answer.weight = Trimmed(weight, build)
    BY <1>1, <1>7, <2>1 DEF Outcome
  <2>3. QED
    BY <1>2, <1>3, <2>2
<1>8. QED
  BY <1>5, <1>6, <1>7 DEF SafeAnswer

(* The builder the agent gives: the trade at a smaller weight.             *)
Smaller(ctx, held, weight) == [w \in 0..weight |-> AtWeight(ctx, held, w)]

(* In whole lots of one.                                                   *)
Resizable(ctx, held, weight, build) ==
  /\ ctx \in RiskContexts /\ ctx.lot = 1 /\ held \in Int /\ weight \in Nat
  /\ build = Smaller(ctx, held, weight)

(* A rejected trade is answered.                                           *)
Offered(weight, build, answer) ==
  /\ FinalVerdict(Trace(build[weight])) = "reject"
  /\ answer = Propose(build[weight], weight, FALSE, build)

(* A weight is less than a 64th of the asked one above the answer.         *)
Close(w, answer, weight) == 64 * (w - answer.weight) < weight

(* For any trade that is rejected and any smaller weight at which it would *)
(* pass, the answer is not more than a 64th of the weight asked for below  *)
(* it: the trimming gives away no more than its six halvings leave open    *)
(* (agent/proposal.py).                                                    *)
THEOREM ProposalIsTight ==
  ASSUME NEW ctx, NEW held, NEW weight, NEW build, Resizable(ctx, held, weight, build),
         NEW answer, Offered(weight, build, answer),
         NEW w \in 1..weight, Passes(build[w])
  PROVE  Close(w, answer, weight)
<1>0. /\ ctx \in RiskContexts /\ ctx.lot = 1 /\ held \in Int /\ weight \in Nat
      /\ build = Smaller(ctx, held, weight) /\ FinalVerdict(Trace(build[weight])) = "reject"
      /\ answer = Propose(build[weight], weight, FALSE, build)
  BY DEF Resizable, Offered
<1> USE <1>0
<1>1. \A v \in 0..weight : build[v] = Sized(ctx, held + v, 30 + held + v, v)
  BY DEF AtWeight, Sized, Smaller
<1>2. ASSUME NEW u \in 0..weight, NEW v \in 0..weight, u <= v, Passes(build[v]) PROVE Passes(build[u])
  <2>1. PICK name1 \in Int, gross1 \in Int, name2 \in Int, gross2 \in Int :
          name1 = held + u /\ gross1 = 30 + held + u /\ name2 = held + v /\ gross2 = 30 + held + v
    OBVIOUS
  <2>2. name1 <= name2 /\ gross1 <= gross2 /\ u \in Int /\ v \in Int
    BY <1>2, <2>1
  <2>3. build[u] = Sized(ctx, name1, gross1, u) /\ build[v] = Sized(ctx, name2, gross2, v)
    BY <1>1, <2>1
  <2>4. QED
    BY <1>2, <2>2, <2>3, SmallerPasses
<1>3. Soft(Trace(build[weight]))
  <2>1. SUFFICES ASSUME ~Soft(Trace(build[weight])) PROVE FALSE
    OBVIOUS
  <2>2. PICK n \in Rejecting(build[weight]) : n # 5
    BY <2>1, SoftIsNotHard
  <2>3. PICK large \in RiskContexts : large = build[weight] /\ large.lot = 1
    <3>1. weight \in 0..weight /\ held + weight \in Int /\ 30 + held + weight \in Int
      OBVIOUS
    <3>2. Sized(ctx, held + weight, 30 + held + weight, weight) \in RiskContexts
      BY <3>1, Resized
    <3>3. Sized(ctx, held + weight, 30 + held + weight, weight).lot = 1
      <4>1. PICK name \in Int, gross \in Int : name = held + weight /\ gross = 30 + held + weight
        BY <3>1
      <4>2. PICK sized : sized = Sized(ctx, name, gross, weight)
        OBVIOUS
      <4>3. sized.lot = ctx.lot
        BY <4>2, SizedFields DEF SameTrade
      <4>4. QED
        BY <4>1, <4>2, <4>3
    <3>4. QED
      BY <1>1, <3>1, <3>2, <3>3
  <2>4. PICK name \in Int, gross \in Int : name = held + w /\ gross = 30 + held + w
    OBVIOUS
  <2>5. build[w] = Sized(large, name, gross, w)
    <3>1. build[w] = Sized(ctx, name, gross, w)
      BY <1>1, <2>4
    <3>2. PICK name2 \in Int, gross2 \in Int : name2 = held + weight /\ gross2 = 30 + held + weight
      OBVIOUS
    <3>3. large = Sized(ctx, name2, gross2, weight)
      BY <1>1, <2>3, <3>2
    <3>4. Sized(Sized(ctx, name2, gross2, weight), name, gross, w) = Sized(ctx, name, gross, w)
      BY Resized
    <3>5. QED
      BY <3>1, <3>3, <3>4
  <2>6. ~Passes(build[w])
    BY <2>2, <2>3, <2>4, <2>5, HardRejectionStays
  <2>7. QED
    BY <2>6
<1>4. PICK st \in Brackets(weight, build) :
        Trimmed(weight, build) = st.best /\ 64 * (st.high - st.low) <= weight + 63
  BY TrimmedIsBracketed
<1>5. /\ st.low \in 0..weight /\ st.high \in 0..weight /\ st.best = st.low
      /\ st.high = weight \/ ~Passes(build[st.high])
  BY <1>4 DEF Brackets
<1>6. answer.weight = st.best
  <2>1. DOMAIN build # {} /\ weight > 0
    <3>1. weight \in Nat /\ w \in 1..weight /\ DOMAIN build = 0..weight
      BY DEF Smaller
    <3>2. QED
      BY <3>1
  <2>2. st.best \in Nat
    BY <1>5
  <2>3. Outcome(build[weight], weight, FALSE, build, answer)
    BY ProposeCases
  <2>4. \/ Trimmed(weight, build) > 0 /\ answer.weight = Trimmed(weight, build)
        \/ answer.weight = 0 /\ ~ (Trimmed(weight, build) > 0)
    <3>1. /\ FinalVerdict(Trace(build[weight])) = "reject" /\ Soft(Trace(build[weight]))
          /\ DOMAIN build # {} /\ weight > 0 /\ "reject" # "accept" /\ "reject" # "review"
      BY <1>3, <2>1
    <3>2. QED
      BY <2>3, <3>1, Zenon DEF Outcome
  <2>5. PICK best \in Nat : best = st.best /\ best = Trimmed(weight, build)
    BY <1>4, <2>2, Zenon
  <2>6. (best > 0 /\ answer.weight = best) \/ (answer.weight = 0 /\ ~ (best > 0))
    BY <2>4, <2>5, Zenon
  <2>7. best > 0 \/ best = 0
    OBVIOUS
  <2>8. QED
    BY <2>5, <2>6, <2>7, Zenon
<1>7. w < st.high
  <2>1. SUFFICES ASSUME st.high <= w PROVE FALSE
    BY <1>5
  <2>2. ~Passes(build[weight])
    BY DEF Passes
  <2>3. ~Passes(build[st.high])
    BY <1>5, <2>2
  <2>4. QED
    BY <1>2, <1>5, <2>1, <2>3
<1>8. QED
  <2>1. PICK low \in Int, high \in Int : low = st.low /\ high = st.high
    BY <1>5
  <2>2. w <= high - 1 /\ 64 * (high - low) <= weight + 63
    BY <1>4, <1>7, <2>1
  <2>3. answer.weight = low
    BY <1>5, <1>6, <2>1
  <2>4. 64 * (w - low) < weight
    BY <2>2
  <2>5. QED
    BY <2>3, <2>4 DEF Close

(* The trades the runs propose.                                            *)
RiskJob ==
  IsJob("risk") =>
    job[2] \in RiskContexts /\ job[3] \in Int /\ job[4] \in {-1, 64, 128} /\ job[5] \in BOOLEAN /\ job[6] \in BOOLEAN

(* They are trades, weights and flags.                                     *)
LEMMA RiskJobs == MCSpec => []RiskJob
<1>1. MCInit => RiskJob
  BY DEF MCInit, RiskJob, IsJob
<1>2. RiskJob /\ [MCNext]_<<vars, trading, job>> => RiskJob'
  <2>1. ASSUME Choose PROVE RiskJob'
    <3>1. SUFFICES ASSUME job'[1] = "risk" PROVE RiskJob'
      BY DEF RiskJob, IsJob
    <3>2. PICK flaws \in SUBSET Flaws, side \in {-1, 1}, market \in {"CN", "US"}, limit \in {0, 40},
               held \in {0, 20}, weight \in {-1, 64, 128}, safe \in BOOLEAN, built \in BOOLEAN :
            job' = <<"risk", Context(flaws, side, market, limit), held, weight, safe, built>>
      BY <2>1, <3>1 DEF Choose
    <3>3. Context(flaws, side, market, limit) \in RiskContexts
      BY DEF Context, RiskContexts, Unknown
    <3>4. QED
      BY <3>2, <3>3 DEF RiskJob
  <2>2. ASSUME RiskJob, UNCHANGED job PROVE RiskJob'
    BY <2>2 DEF RiskJob, IsJob
  <2>3. QED
    BY <2>1, <2>2 DEF MCNext, vars
<1>3. QED
  BY <1>1, <1>2, PTL DEF MCSpec

(* Every proposal of the run is safe and tight: RiskIsRespected from the   *)
(* two theorems.                                                           *)
THEOREM RiskAlwaysRespected == MCSpec => []RiskIsRespected
<1>1. RiskJob => RiskIsRespected
  <2> SUFFICES ASSUME RiskJob, IsJob("risk"), job[4] >= 0 PROVE RiskIsRespected
    BY DEF RiskIsRespected
  <2>1. PICK base \in RiskContexts, held \in Int, weight \in Nat, safe \in BOOLEAN, built \in BOOLEAN :
          /\ base = job[2] /\ held = job[3] /\ weight = job[4] /\ safe = job[5] /\ built = job[6]
          /\ weight = 64 \/ weight = 128
    BY DEF RiskJob
  <2>2. PICK ctx : ctx = AtWeight(base, held, weight)
    OBVIOUS
  <2>3. PICK build : build = IF built THEN [w \in 0..weight |-> AtWeight(base, held, w)] ELSE NoBuilder
    OBVIOUS
  <2>4. PICK answer : answer = Propose(ctx, weight, safe, build)
    OBVIOUS
  <2>0. weight \in Nat /\ weight \in 0..weight
    OBVIOUS
  <2>5. 64 * (weight \div 64) = weight /\ weight \div 64 \in Int
    <3>1. CASE weight = 64
      BY <3>1
    <3>2. CASE weight = 128
      BY <3>2
    <3>3. QED
      BY <2>1, <3>1, <3>2
  <2>6. SafeAnswer(ctx, weight, safe, build, answer)
    BY <2>0, <2>4, ProposalIsSafe, Zenon
  <2>10. answer.weight \in 0..weight
    BY <2>6 DEF SafeAnswer
  <2>7. ASSUME IsTradeable(answer)
        PROVE  /\ ~safe /\ NoHardRejection(Trace(ctx))
               /\ FinalVerdict(Trace(ctx)) = "reject" => Passes(AtWeight(base, held, answer.weight))
    <3>1. /\ ~safe /\ NoHardRejection(Trace(ctx))
          /\ FinalVerdict(Trace(ctx)) = "reject" => DOMAIN build # {} /\ Passes(build[answer.weight])
      BY <2>6, <2>7 DEF SafeAnswer
    <3>2. DOMAIN NoBuilder = {}
      BY DEF NoBuilder
    <3>3. DOMAIN build # {} => build[answer.weight] = AtWeight(base, held, answer.weight)
      BY <2>3, <2>10, <3>2
    <3>4. QED
      BY <3>1, <3>3
  <2>8. ASSUME built, ~safe, base.lot = 1, FinalVerdict(Trace(ctx)) = "reject",
               NEW w \in 1..weight, Passes(AtWeight(base, held, w))
        PROVE  w < answer.weight + weight \div 64
    <3>1. /\ build = Smaller(base, held, weight) /\ build = [v \in 0..weight |-> AtWeight(base, held, v)]
      BY <2>3, <2>8 DEF Smaller
    <3>2. build[weight] = ctx /\ build[w] = AtWeight(base, held, w) /\ safe = FALSE
      BY <2>0, <2>2, <2>8, <3>1
    <3>3. answer = Propose(build[weight], weight, FALSE, build)
      BY <2>4, <3>2
    <3>4. FinalVerdict(Trace(build[weight])) = "reject" /\ Passes(build[w])
      BY <2>8, <3>2
    <3>5. Close(w, answer, weight)
      <4>1. base \in RiskContexts /\ base.lot = 1 /\ held \in Int /\ weight \in Nat /\ w \in 1..weight
        BY <2>0, <2>8
      <4>2. Resizable(base, held, weight, build)
        BY <3>1, <4>1 DEF Resizable
      <4>3. Offered(weight, build, answer)
        BY <3>3, <3>4 DEF Offered
      <4>4. QED
        BY <3>4, <4>1, <4>2, <4>3, ProposalIsTight, Zenon
    <3>6. PICK slice \in Int : slice = weight \div 64 /\ 64 * slice = weight
      BY <2>5
    <3>7. 64 * (w - answer.weight) < 64 * slice /\ answer.weight \in Int /\ w \in Int
      BY <2>10, <3>5, <3>6 DEF Close
    <3>8. QED
      BY <3>6, <3>7
  <2>9. QED
    BY <2>1, <2>2, <2>3, <2>4, <2>7, <2>8, <2>10 DEF RiskIsRespected, NoHardRejection, HardLayers
<1>2. QED
  BY <1>1, RiskJobs, PTL

-----------------------------------------------------------------------------
(* The limits of a portfolio.                                              *)
Configs ==
  [maxName : Nat, grossCap : Int, cashSleeve : Int, longOnly : BOOLEAN, topK : Int, minScore : Int]

(* The larger and the smaller of two.                                      *)
LEMMA PairBounds ==
  ASSUME NEW a \in Int, NEW b \in Int
  PROVE  /\ Max({a, b}) = IF a >= b THEN a ELSE b
         /\ Min({a, b}) = IF a <= b THEN a ELSE b
<1>1. \A x \in {a, b} : (\A y \in {a, b} : x >= y) => x = IF a >= b THEN a ELSE b
  OBVIOUS
<1>2. \E x \in {a, b} : \A y \in {a, b} : x >= y
  OBVIOUS
<1>3. \A x \in {a, b} : (\A y \in {a, b} : x <= y) => x = IF a <= b THEN a ELSE b
  OBVIOUS
<1>4. \E x \in {a, b} : \A y \in {a, b} : x <= y
  OBVIOUS
<1>5. Max({a, b}) = IF a >= b THEN a ELSE b
  BY <1>1, <1>2 DEF Max
<1>6. Min({a, b}) = IF a <= b THEN a ELSE b
  BY <1>3, <1>4 DEF Min
<1>7. QED
  BY <1>5, <1>6

(* A weight cut to a name's cap.                                           *)
Cut(x, cap, longOnly) ==
  LET low == IF longOnly THEN 0 ELSE -cap
  IN  IF x > cap THEN cap ELSE IF x < low THEN low ELSE x

(* Cutting keeps the order and the cap.                                    *)
LEMMA CutKeeps ==
  ASSUME NEW cap \in Nat, NEW longOnly \in BOOLEAN
  PROVE  /\ Cut(0, cap, longOnly) = 0
         /\ \A x \in Int : /\ Cut(x, cap, longOnly) \in Int
                           /\ Cut(x, cap, longOnly) <= cap /\ -cap <= Cut(x, cap, longOnly)
                           /\ longOnly => Cut(x, cap, longOnly) >= 0
         /\ \A x, y \in Int : x <= y => Cut(x, cap, longOnly) <= Cut(y, cap, longOnly)
BY DEF Cut

(* The clipped weights are cut.                                            *)
LEMMA ClippedIsCut ==
  ASSUME NEW raw, NEW total \in Nat, NEW cfg \in Configs, NEW i \in DOMAIN raw, raw[i] \in Int
  PROVE  /\ cfg.maxName * total \in Nat
         /\ Clipped(raw, total, cfg)[i] = Cut(raw[i], cfg.maxName * total, cfg.longOnly)
<1>1. PICK cap \in Nat : cap = cfg.maxName * total
  BY DEF Configs
<1>2. PICK x \in Int, low \in Int : x = raw[i] /\ low = IF cfg.longOnly THEN 0 ELSE -cap
  OBVIOUS
<1>3. Clipped(raw, total, cfg)[i] = Max({Min({x, cap}), low})
  BY <1>1, <1>2 DEF Clipped
<1>4. PICK y \in Int : y = Min({x, cap}) /\ y = IF x <= cap THEN x ELSE cap
  <2>1. x \in Int /\ cap \in Int
    OBVIOUS
  <2>2. Min({x, cap}) = IF x <= cap THEN x ELSE cap
    BY <2>1, PairBounds
  <2>3. (IF x <= cap THEN x ELSE cap) \in Int
    BY <2>1
  <2>4. QED
    BY <2>2, <2>3
<1>5. Max({y, low}) = IF y >= low THEN y ELSE low
  BY PairBounds
<1>6. cfg.longOnly \in BOOLEAN
  BY DEF Configs
<1>7. (IF y >= low THEN y ELSE low) = Cut(x, cap, cfg.longOnly)
  <2>1. CASE cfg.longOnly
    <3>1. low = 0
      BY <1>2, <2>1
    <3>2. Cut(x, cap, cfg.longOnly) = IF x > cap THEN cap ELSE IF x < 0 THEN 0 ELSE x
      BY <2>1 DEF Cut
    <3>3. QED
      BY <1>4, <3>1, <3>2
  <2>2. CASE ~cfg.longOnly
    <3>1. low = -cap
      BY <1>2, <2>2
    <3>2. Cut(x, cap, cfg.longOnly) = IF x > cap THEN cap ELSE IF x < -cap THEN -cap ELSE x
      BY <2>2 DEF Cut
    <3>3. QED
      BY <1>4, <3>1, <3>2
  <2>3. QED
    BY <2>1, <2>2
<1>8. QED
  BY <1>1, <1>2, <1>3, <1>4, <1>5, <1>7

(* What may be invested is not negative.                                   *)
LEMMA AvailableIsNat == ASSUME NEW cfg \in Configs PROVE Available(cfg) \in Nat
<1>1. cfg.grossCap - cfg.cashSleeve \in Int
  BY DEF Configs
<1>2. QED
  BY <1>1, PairBounds DEF Available

(* The gross of a book is 0 for an empty one alone.                        *)
LEMMA TotalIsSum ==
  ASSUME NEW f, IsFiniteSet(DOMAIN f), \A i \in DOMAIN f : f[i] \in Int
  PROVE  /\ Total(f) \in Nat
         /\ Total(f) = 0 => \A i \in DOMAIN f : f[i] = 0
<1> DEFINE size == [i \in DOMAIN f |-> Magnitude(f[i])]
<1>1. /\ \A i \in DOMAIN f : size[i] \in Int /\ size[i] >= 0 /\ (size[i] = 0 => f[i] = 0)
      /\ size = [i \in DOMAIN f |-> size[i]]
  BY DEF Magnitude
<1>2. Total(f) = SumFunction(size)
  BY DEF Total
<1> HIDE DEF size
<1>3. Total(f) = SumOver(size, DOMAIN f)
  BY <1>1, <1>2 DEF SumOver
<1>4. QED
  BY <1>1, <1>3, SumOfSizes

(* The scores used are those selected, in their order.                     *)
LEMMA UsedScores ==
  ASSUME NEW S, IsFiniteSet(S), NEW scores \in [S -> Int], NEW cfg \in Configs
  PROVE  /\ Selected(scores, cfg) \in SUBSET S /\ IsFiniteSet(Selected(scores, cfg))
         /\ DOMAIN Used(scores, cfg) = Selected(scores, cfg)
         /\ \A i \in Selected(scores, cfg) : Used(scores, cfg)[i] \in Int
         /\ \A i, j \in Selected(scores, cfg) :
              scores[i] > scores[j] => Used(scores, cfg)[i] >= Used(scores, cfg)[j]
<1>1. Selected(scores, cfg) \in SUBSET S /\ IsFiniteSet(Selected(scores, cfg))
  <2>1. Selected(scores, cfg) \subseteq S
    BY DEF Selected
  <2>2. QED
    BY <2>1, FS_Subset
<1> DEFINE Above(x) == IF cfg.longOnly THEN Max({x, 0}) ELSE x
<1>2. \A x \in Int : Above(x) \in Int /\ \A y \in Int : x > y => Above(x) >= Above(y)
  <2>1. \A x \in Int : Max({x, 0}) = IF x >= 0 THEN x ELSE 0
    BY PairBounds
  <2>2. \A x \in Int : Above(x) = IF cfg.longOnly /\ x < 0 THEN 0 ELSE x
    BY <2>1
  <2> HIDE DEF Above
  <2>3. QED
    BY <2>2
<1>3. Used(scores, cfg) = [i \in Selected(scores, cfg) |-> Above(scores[i])]
  BY DEF Used
<1> HIDE DEF Above
<1>4. QED
  BY <1>1, <1>2, <1>3

(* No better score is left out.                                            *)
LEMMA BetterIsSelected ==
  ASSUME NEW S \in SUBSET Nat, IsFiniteSet(S), NEW scores \in [S -> Int], NEW cfg \in Configs,
         NEW i \in Selected(scores, cfg), NEW j \in S \ Selected(scores, cfg)
  PROVE  scores[j] <= scores[i]
<1> DEFINE pool == {k \in S : ~cfg.longOnly \/ scores[k] > cfg.minScore}
           Ahead(k) == {h \in pool : scores[h] > scores[k] \/ (scores[h] = scores[k] /\ h < k)}
<1>1. Selected(scores, cfg) = {k \in pool : Cardinality(Ahead(k)) < cfg.topK}
  <2>1. DOMAIN scores = S
    OBVIOUS
  <2>2. QED
    BY <2>1, Zenon DEF Selected
<1>2. SUFFICES ASSUME scores[j] > scores[i] PROVE FALSE
  <2>1. i \in S /\ j \in S
    BY UsedScores
  <2>2. scores[i] \in Int /\ scores[j] \in Int
    BY <2>1
  <2>3. QED
    BY <2>2
<1>3. i \in pool /\ cfg.minScore \in Int
  BY <1>1 DEF Configs
<1>4. j \in pool
  BY <1>2, <1>3
<1>5. Ahead(j) \subseteq Ahead(i)
  <2>1. ASSUME NEW h \in Ahead(j) PROVE h \in Ahead(i)
    <3>1. h \in pool /\ scores[h] >= scores[j]
      OBVIOUS
    <3>2. QED
      BY <1>2, <1>3, <1>4, <3>1
  <2>2. QED
    BY <2>1
<1>6. Cardinality(Ahead(j)) <= Cardinality(Ahead(i)) /\ Cardinality(Ahead(i)) \in Nat /\ Cardinality(Ahead(j)) \in Nat
  <2>1. Ahead(i) \subseteq S
    OBVIOUS
  <2>2. IsFiniteSet(Ahead(i))
    BY <2>1, FS_Subset
  <2>3. IsFiniteSet(Ahead(j)) /\ Cardinality(Ahead(j)) <= Cardinality(Ahead(i))
    BY <1>5, <2>2, FS_Subset
  <2>4. QED
    BY <2>2, <2>3, FS_CardinalityType
<1>7. Cardinality(Ahead(i)) < cfg.topK /\ cfg.topK \in Int
  BY <1>1 DEF Configs
<1>8. ~ (Cardinality(Ahead(j)) < cfg.topK)
  BY <1>1, <1>4
<1> HIDE DEF Ahead, pool
<1>9. QED
  BY <1>6, <1>7, <1>8

(* A capped weight, scaled down.                                           *)
LEMMA Products ==
  ASSUME NEW c \in Int, NEW cap \in Nat, NEW gross \in Nat, NEW room \in Nat, room <= gross,
         c <= cap, -cap <= c
  PROVE  c * room <= cap * gross /\ -(c * room) <= cap * gross
<1>1. ASSUME NEW x \in Nat, x <= cap PROVE x * room <= cap * gross /\ x * room \in Nat
  <2>1. PICK d \in Nat, e \in Nat : cap = x + d /\ gross = room + e
    <3>1. cap - x \in Nat /\ cap = x + (cap - x) /\ gross - room \in Nat /\ gross = room + (gross - room)
      BY <1>1
    <3>2. QED
      BY <3>1
  <2>2. (x + d) * (room + e) = x * room + (x * e + (d * room + d * e))
    OBVIOUS
  <2>3. x * room \in Nat /\ x * e \in Nat /\ d * room \in Nat /\ d * e \in Nat
    OBVIOUS
  <2>4. PICK p \in Nat, q \in Nat : p = x * room /\ q = x * e + (d * room + d * e)
    BY <2>3
  <2>5. cap * gross = p + q
    BY <2>1, <2>2, <2>4
  <2>6. QED
    BY <2>4, <2>5
<1>2. CASE c >= 0
  <2>1. c * room <= cap * gross /\ c * room \in Nat
    BY <1>1, <1>2
  <2>2. cap * gross \in Int
    OBVIOUS
  <2>3. QED
    BY <2>1, <2>2
<1>3. CASE c < 0
  <2>1. PICK b \in Nat : b = -c /\ b <= cap
    BY <1>3
  <2>2. b * room <= cap * gross /\ b * room \in Nat
    BY <1>1, <2>1
  <2>3. c * room = -(b * room)
    BY <2>1
  <2>4. cap * gross \in Int
    OBVIOUS
  <2>5. QED
    BY <2>2, <2>3, <2>4
<1>4. QED
  BY <1>2, <1>3

(* Sizes of weights.                                                       *)
LEMMA Magnitudes ==
  /\ \A x \in Int : Magnitude(x) \in Nat /\ \A y \in Int : Magnitude(x) <= y <=> (x <= y /\ -x <= y)
  /\ \A x \in Int, k \in Nat : Magnitude(x * k) = Magnitude(x) * k
<1>1. \A x \in Int : Magnitude(x) \in Nat /\ \A y \in Int : Magnitude(x) <= y <=> (x <= y /\ -x <= y)
  BY DEF Magnitude
<1>2. ASSUME NEW x \in Int, NEW k \in Nat PROVE Magnitude(x * k) = Magnitude(x) * k
  <2>1. CASE x >= 0
    <3>1. x * k >= 0
      BY <2>1
    <3>2. QED
      BY <2>1, <3>1 DEF Magnitude
  <2>2. CASE x < 0
    <3>1. PICK b \in Nat : b = -x /\ x = -b
      BY <2>2
    <3>2. b * k \in Nat /\ x * k = -(b * k)
      BY <3>1
    <3>3. Magnitude(x * k) = b * k
      BY <3>2 DEF Magnitude
    <3>4. Magnitude(x) = b
      BY <2>2, <3>1 DEF Magnitude
    <3>5. QED
      BY <3>3, <3>4
  <2>3. QED
    BY <2>1, <2>2
<1>3. QED
  BY <1>1, <1>2

(* The total of scaled weights.                                            *)
LEMMA TotalScales ==
  ASSUME NEW f, IsFiniteSet(DOMAIN f), \A i \in DOMAIN f : f[i] \in Int, NEW k \in Nat,
         NEW g, g = [i \in DOMAIN f |-> f[i] * k]
  PROVE  Total(g) = Total(f) * k
<1> DEFINE size == [i \in DOMAIN f |-> Magnitude(f[i])]
           sizes == [i \in DOMAIN f |-> Magnitude(g[i])]
<1>1. /\ \A i \in DOMAIN f : size[i] \in Int /\ sizes[i] = size[i] * k
      /\ size = [i \in DOMAIN f |-> size[i]] /\ sizes = [i \in DOMAIN f |-> sizes[i]]
  <2>1. ASSUME NEW i \in DOMAIN f PROVE size[i] \in Int /\ sizes[i] = size[i] * k
    <3>1. f[i] \in Int /\ g[i] = f[i] * k
      OBVIOUS
    <3>2. QED
      BY <3>1, Magnitudes
  <2>2. QED
    BY <2>1
<1>2. Total(f) = SumFunction(size) /\ Total(g) = SumFunction(sizes)
  BY DEF Total
<1> HIDE DEF size, sizes
<1>3. Total(f) = SumOver(size, DOMAIN f) /\ Total(g) = SumOver(sizes, DOMAIN f)
  BY <1>1, <1>2 DEF SumOver
<1>4. QED
  BY <1>1, <1>3, SumScales

(* A target within the limits that keeps the order of the scores.          *)
Limited(target, used, cfg) ==
  /\ target.unit \in Nat /\ DOMAIN target.weight \in {{}, DOMAIN used}
  /\ \A i \in DOMAIN target.weight :
       /\ target.weight[i] \in Int /\ Magnitude(target.weight[i]) <= cfg.maxName * target.unit
       /\ cfg.longOnly => target.weight[i] >= 0
  /\ Gross(target) <= Available(cfg) * target.unit
  /\ \A i, j \in DOMAIN target.weight : used[i] >= used[j] => target.weight[i] >= target.weight[j]

(* No position breaks no limit.                                            *)
LEMMA AllCashIsLimited ==
  ASSUME NEW used, NEW cfg \in Configs
  PROVE  Limited(AllCash, used, cfg)
<1>1. AllCash.unit = 1 /\ AllCash.weight = <<>> /\ DOMAIN AllCash.weight = {}
  BY DEF AllCash
<1>2. Gross(AllCash) = 0
  <2>1. PICK size : size = [i \in DOMAIN AllCash.weight |-> Magnitude(AllCash.weight[i])]
    OBVIOUS
  <2>2. size = [i \in {} |-> size[i]]
    BY <1>1, <2>1
  <2>3. Gross(AllCash) = SumOver(size, {})
    BY <2>1, <2>2 DEF Gross, Total, SumOver
  <2>4. QED
    BY <2>3, SumOfNone
<1>3. Available(cfg) * 1 >= 0
  BY AvailableIsNat
<1>4. QED
  BY <1>1, <1>2, <1>3 DEF Limited

(* The weights before they are scaled to the gross limit.                  *)
LEMMA RawWeights ==
  ASSUME NEW used, \A i \in DOMAIN used : used[i] \in Int,
         NEW total \in Nat, NEW cfg \in Configs,
         NEW raw, raw = [i \in DOMAIN used |-> used[i] * Available(cfg)],
         NEW clipped, clipped = Clipped(raw, total, cfg)
  PROVE  /\ cfg.maxName * total \in Nat /\ DOMAIN clipped = DOMAIN used
         /\ \A i \in DOMAIN used :
              /\ raw[i] \in Int /\ clipped[i] \in Int /\ raw[i] = used[i] * Available(cfg)
              /\ clipped[i] = Cut(raw[i], cfg.maxName * total, cfg.longOnly)
              /\ clipped[i] <= cfg.maxName * total /\ -(cfg.maxName * total) <= clipped[i]
              /\ cfg.longOnly => clipped[i] >= 0
         /\ \A i, j \in DOMAIN used : used[i] >= used[j] => clipped[i] >= clipped[j]
<1>1. PICK cap \in Nat, room \in Nat : cap = cfg.maxName * total /\ room = Available(cfg)
  <2>1. cfg.maxName * total \in Nat
    BY DEF Configs
  <2>2. QED
    BY <2>1, AvailableIsNat
<1>2. cfg.longOnly \in BOOLEAN
  BY DEF Configs
<1>3. DOMAIN raw = DOMAIN used /\ DOMAIN clipped = DOMAIN used
  BY DEF Clipped
<1>4. ASSUME NEW i \in DOMAIN used
      PROVE  raw[i] = used[i] * room /\ raw[i] \in Int /\ clipped[i] = Cut(raw[i], cap, cfg.longOnly)
  <2>1. used[i] \in Int /\ raw[i] = used[i] * room
    BY <1>1
  <2>2. raw[i] \in Int
    BY <2>1
  <2>3. QED
    BY <1>1, <1>3, <2>1, <2>2, ClippedIsCut
<1>5. ASSUME NEW i \in DOMAIN used, NEW j \in DOMAIN used, used[i] >= used[j] PROVE raw[j] <= raw[i]
  <2>1. PICK a \in Int, b \in Int : a = used[i] /\ b = used[j] /\ a >= b
    BY <1>5
  <2>2. b * room <= a * room
    <3>1. PICK d \in Nat : a = b + d
      <4>1. a - b \in Nat /\ a = b + (a - b)
        BY <2>1
      <4>2. QED
        BY <4>1
    <3>2. (b + d) * room = b * room + d * room
      OBVIOUS
    <3>3. d * room \in Nat /\ b * room \in Int
      OBVIOUS
    <3>4. PICK p \in Int, q \in Nat : p = b * room /\ q = d * room
      BY <3>3
    <3>5. a * room = p + q
      BY <3>1, <3>2, <3>4
    <3>6. QED
      BY <3>4, <3>5
  <2>3. QED
    BY <1>4, <2>1, <2>2
<1> DEFINE long == cfg.longOnly
<1> HIDE DEF long
<1>10. /\ \A x \in Int : /\ Cut(x, cap, long) \in Int
                         /\ Cut(x, cap, long) <= cap /\ -cap <= Cut(x, cap, long)
                         /\ long => Cut(x, cap, long) >= 0
       /\ \A x, y \in Int : x <= y => Cut(x, cap, long) <= Cut(y, cap, long)
  <2>1. long \in BOOLEAN
    BY <1>2 DEF long
  <2>2. QED
    BY <2>1, CutKeeps
<1>11. \A i \in DOMAIN used : raw[i] \in Int /\ clipped[i] = Cut(raw[i], cap, long)
  BY <1>4 DEF long
<1>6. ASSUME NEW i \in DOMAIN used, NEW j \in DOMAIN used, used[i] >= used[j] PROVE clipped[j] <= clipped[i]
  BY <1>5, <1>6, <1>10, <1>11
<1>7. ASSUME NEW i \in DOMAIN used
      PROVE  /\ clipped[i] \in Int /\ clipped[i] <= cap /\ -cap <= clipped[i]
             /\ cfg.longOnly => clipped[i] >= 0
  BY <1>10, <1>11 DEF long
<1>8. ASSUME NEW i \in DOMAIN used, NEW j \in DOMAIN used, used[i] >= used[j] PROVE clipped[i] >= clipped[j]
  BY <1>6, <1>7, <1>8
<1>9. QED
  BY <1>1, <1>3, <1>4, <1>7, <1>8

(* The weights after it, whichever of the three ways was taken.            *)
LEMMA TargetIsLimited ==
  ASSUME NEW used, IsFiniteSet(DOMAIN used), \A i \in DOMAIN used : used[i] \in Int,
         NEW total \in Nat, NEW cfg \in Configs
  PROVE  Limited(Target(used, total, cfg), used, cfg)
<1>1. PICK raw, clipped : /\ raw = [i \in DOMAIN used |-> used[i] * Available(cfg)]
                          /\ clipped = Clipped(raw, total, cfg)
  OBVIOUS
<1>2. PICK cap \in Nat, available \in Nat, room \in Nat :
        cap = cfg.maxName * total /\ available = Available(cfg) /\ room = available * total
  <2>1. cfg.maxName * total \in Nat
    BY DEF Configs
  <2>2. Available(cfg) * total \in Nat
    BY AvailableIsNat
  <2>3. QED
    BY <2>1, <2>2, AvailableIsNat
<1>3. /\ DOMAIN clipped = DOMAIN used
      /\ \A i \in DOMAIN used : /\ clipped[i] \in Int /\ clipped[i] <= cap /\ -cap <= clipped[i]
                                /\ cfg.longOnly => clipped[i] >= 0
      /\ \A i, j \in DOMAIN used : used[i] >= used[j] => clipped[i] >= clipped[j]
  BY <1>1, <1>2, RawWeights, SMTT(40)
<1>4. PICK gross \in Nat : gross = Total(clipped)
  BY <1>3, TotalIsSum
<1>5. Target(used, total, cfg)
        = IF gross = 0 THEN AllCash
          ELSE IF gross > room
            THEN [weight |-> [i \in DOMAIN used |-> clipped[i] * room], unit |-> total * gross]
            ELSE [weight |-> clipped, unit |-> total]
  BY <1>1, <1>2, <1>4 DEF Target
<1>6. PICK target : target = Target(used, total, cfg)
  OBVIOUS
<1>7. CASE gross = 0
  BY <1>5, <1>7, AllCashIsLimited
<1>8. CASE gross # 0 /\ ~ (gross > room)
  <2>1. target.weight = clipped /\ target.unit = total
    BY <1>5, <1>6, <1>8
  <2>2. Gross(target) <= Available(cfg) * target.unit
    BY <1>2, <1>4, <1>8, <2>1 DEF Gross
  <2>3. \A i \in DOMAIN used : Magnitude(clipped[i]) <= cap
    BY <1>3, Magnitudes
  <2>4. QED
    BY <1>2, <1>3, <1>6, <2>1, <2>2, <2>3 DEF Limited
<1>9. CASE gross # 0 /\ gross > room
  <2> DEFINE scaled == [i \in DOMAIN used |-> clipped[i] * room]
  <2>1. target.weight = scaled /\ target.unit = total * gross /\ total * gross \in Nat
    BY <1>5, <1>6, <1>9
  <2>2. cfg.maxName * (total * gross) = cap * gross /\ Available(cfg) * (total * gross) = room * gross
    <3>1. PICK name \in Int : name = cfg.maxName
      BY DEF Configs
    <3>2. name * (total * gross) = (name * total) * gross
      OBVIOUS
    <3>3. available * (total * gross) = (available * total) * gross
      OBVIOUS
    <3>4. QED
      BY <1>2, <3>1, <3>2, <3>3
  <2>3. Gross(target) <= Available(cfg) * target.unit
    <3>1. scaled = [i \in DOMAIN clipped |-> clipped[i] * room]
      BY <1>3
    <3> HIDE DEF scaled
    <3>2. Total(scaled) = Total(clipped) * room
      BY <1>3, <3>1, TotalScales
    <3>3. gross * room = room * gross /\ gross * room \in Int
      OBVIOUS
    <3>4. QED
      BY <1>4, <2>1, <2>2, <3>2, <3>3 DEF Gross
  <2>4. ASSUME NEW i \in DOMAIN used
        PROVE  /\ scaled[i] \in Int /\ Magnitude(scaled[i]) <= cap * gross
               /\ cfg.longOnly => scaled[i] >= 0
    <3>1. PICK c \in Int : c = clipped[i] /\ c <= cap /\ -cap <= c /\ (cfg.longOnly => c >= 0)
      BY <1>3
    <3>2. c * room <= cap * gross /\ -(c * room) <= cap * gross
      BY <1>9, <3>1, Products
    <3>3. c * room \in Int /\ cap * gross \in Int /\ (c >= 0 => c * room >= 0)
      OBVIOUS
    <3>4. Magnitude(c * room) <= cap * gross
      BY <3>2, <3>3, Magnitudes
    <3>5. scaled[i] = c * room
      BY <3>1
    <3>6. QED
      BY <3>1, <3>3, <3>4, <3>5
  <2>5. ASSUME NEW i \in DOMAIN used, NEW j \in DOMAIN used, used[i] >= used[j] PROVE scaled[i] >= scaled[j]
    <3>1. PICK a \in Int, b \in Int : a = clipped[i] /\ b = clipped[j] /\ a >= b
      BY <1>3, <2>5
    <3>2. PICK d \in Nat : a = b + d
      <4>1. a - b \in Nat /\ a = b + (a - b)
        BY <3>1
      <4>2. QED
        BY <4>1
    <3>3. (b + d) * room = b * room + d * room /\ b * room \in Int /\ d * room \in Nat
      OBVIOUS
    <3>4. (b + d) * room >= b * room
      BY <3>3
    <3>5. scaled[i] = a * room /\ scaled[j] = b * room
      BY <3>1
    <3>6. QED
      BY <3>2, <3>4, <3>5
  <2>6. DOMAIN scaled = DOMAIN used
    OBVIOUS
  <2> HIDE DEF scaled
  <2>7. QED
    BY <1>6, <2>1, <2>2, <2>3, <2>4, <2>5, <2>6 DEF Limited
<1>10. QED
  BY <1>7, <1>8, <1>9

(* Scores of 0 leave all in cash.                                          *)
LEMMA NoScoresNoTarget ==
  ASSUME NEW used, IsFiniteSet(DOMAIN used), \A i \in DOMAIN used : used[i] = 0, NEW cfg \in Configs
  PROVE  Target(used, 1, cfg) = AllCash
<1>1. PICK raw, clipped : /\ raw = [i \in DOMAIN used |-> used[i] * Available(cfg)]
                          /\ clipped = Clipped(raw, 1, cfg)
  OBVIOUS
<1>2. /\ DOMAIN clipped = DOMAIN used
      /\ \A i \in DOMAIN used : /\ raw[i] = used[i] * Available(cfg) /\ clipped[i] \in Int
                                /\ clipped[i] = Cut(raw[i], cfg.maxName * 1, cfg.longOnly)
  BY <1>1, RawWeights
<1>3. ASSUME NEW i \in DOMAIN used PROVE clipped[i] = 0
  <2>1. used[i] = 0 /\ Available(cfg) \in Nat
    BY AvailableIsNat
  <2>2. raw[i] = 0
    BY <1>2, <2>1
  <2>3. PICK cap \in Nat, long \in BOOLEAN : cap = cfg.maxName * 1 /\ long = cfg.longOnly
    BY DEF Configs
  <2>4. Cut(0, cap, long) = 0
    BY CutKeeps
  <2>5. QED
    BY <1>2, <2>2, <2>3, <2>4
<1>4. Total(clipped) = 0
  <2>1. PICK size : size = [i \in DOMAIN clipped |-> Magnitude(clipped[i])]
    OBVIOUS
  <2>2. Magnitude(0) = 0
    BY DEF Magnitude
  <2>3. /\ \A i \in DOMAIN used : size[i] \in Int /\ size[i] = size[i] * 0
        /\ size = [i \in DOMAIN used |-> size[i]]
    BY <1>2, <1>3, <2>1, <2>2
  <2>4. Total(clipped) = SumOver(size, DOMAIN used)
    BY <1>2, <2>1, <2>3 DEF Total, SumOver
  <2>5. SumOver(size, DOMAIN used) = SumOver(size, DOMAIN used) * 0
    BY <2>3, SumScales
  <2>6. SumOver(size, DOMAIN used) \in Int
    BY <2>3, SumIsInt
  <2>7. QED
    BY <2>4, <2>5, <2>6
<1>5. QED
  BY <1>1, <1>4 DEF Target

(* Every position is in one of the two currencies.                         *)
LEMMA CurrenciesAddUp ==
  ASSUME NEW weight, IsFiniteSet(DOMAIN weight), weight = [i \in DOMAIN weight |-> weight[i]],
         \A i \in DOMAIN weight : weight[i] \in Int,
         NEW exposures, DOMAIN exposures = DOMAIN weight,
         NEW one, NEW other, one # other,
         \A i \in DOMAIN weight : exposures[i].ccy \in {one, other} /\ exposures[i].base[1] = weight[i]
  PROVE  CurrencyExposure(exposures, one) + CurrencyExposure(exposures, other) = SumFunction(weight)
<1>1. PICK S, A : S = DOMAIN weight /\ A = {i \in S : exposures[i].ccy = one}
  OBVIOUS
<1>2. A \in SUBSET S /\ S \ A = {i \in S : exposures[i].ccy = other}
  BY <1>1
<1>3. CurrencyExposure(exposures, one) = SumOver(weight, A)
  <2>1. [i \in A |-> exposures[i].base[1]] = [i \in A |-> weight[i]]
    BY <1>1
  <2>2. {j \in DOMAIN exposures : exposures[j].ccy = one} = A
    BY <1>1
  <2>3. QED
    BY <2>1, <2>2 DEF CurrencyExposure, SumOver
<1>4. CurrencyExposure(exposures, other) = SumOver(weight, S \ A)
  <2>1. [i \in S \ A |-> exposures[i].base[1]] = [i \in S \ A |-> weight[i]]
    BY <1>1
  <2>2. {j \in DOMAIN exposures : exposures[j].ccy = other} = S \ A
    BY <1>1, <1>2
  <2>3. QED
    BY <2>1, <2>2 DEF CurrencyExposure, SumOver
<1>5. SumFunction(weight) = SumOver(weight, S)
  BY <1>1 DEF SumOver
<1>6. SumOver(weight, S) = SumOver(weight, A) + SumOver(weight, S \ A)
  BY <1>1, <1>2, SumSplits
<1>7. QED
  BY <1>3, <1>4, <1>5, <1>6

(* The weights are a function of the instruments.                          *)
LEMMA TargetIsFunction ==
  ASSUME NEW used, NEW total, NEW cfg, NEW target, target \in {AllCash, Target(used, total, cfg)}
  PROVE  target.weight = [i \in DOMAIN target.weight |-> target.weight[i]]
<1>1. AllCash.weight = [i \in DOMAIN AllCash.weight |-> AllCash.weight[i]]
  BY DEF AllCash
<1>2. PICK clipped : clipped = Clipped([i \in DOMAIN used |-> used[i] * Available(cfg)], total, cfg)
  OBVIOUS
<1>3. clipped = [i \in DOMAIN clipped |-> clipped[i]]
  BY <1>2 DEF Clipped
<1>4. PICK gross, room :
        Target(used, total, cfg)
          = IF gross = 0 THEN AllCash
            ELSE IF gross > room
              THEN [weight |-> [i \in DOMAIN used |-> clipped[i] * room], unit |-> total * gross]
              ELSE [weight |-> clipped, unit |-> total]
  BY <1>2 DEF Target
<1>5. CASE gross = 0
  BY <1>1, <1>4, <1>5
<1>6. CASE gross # 0 /\ gross > room
  <2>1. PICK scaled : scaled = [i \in DOMAIN used |-> clipped[i] * room]
    OBVIOUS
  <2>2. scaled = [i \in DOMAIN scaled |-> scaled[i]]
    BY <2>1
  <2>3. Target(used, total, cfg).weight = scaled
    BY <1>4, <1>6, <2>1
  <2>4. QED
    BY <1>1, <2>2, <2>3
<1>7. CASE gross # 0 /\ ~ (gross > room)
  <2>1. Target(used, total, cfg).weight = clipped
    BY <1>4, <1>7
  <2>2. QED
    BY <1>1, <1>3, <2>1
<1>8. QED
  BY <1>5, <1>6, <1>7

(* A portfolio within its limits that leaves no better score out.          *)
Sound(scores, cfg, target, S) ==
  /\ target = BuildPortfolioFromScores(scores, cfg)
  /\ DOMAIN target.weight \in SUBSET S /\ target.unit \in Nat
  /\ target.weight = [i \in DOMAIN target.weight |-> target.weight[i]]
  /\ \A i \in DOMAIN target.weight :
       /\ target.weight[i] \in Int /\ Magnitude(target.weight[i]) <= cfg.maxName * target.unit
       /\ cfg.longOnly => target.weight[i] >= 0
  /\ Gross(target) <= Available(cfg) * target.unit
  /\ \A i, j \in DOMAIN target.weight : scores[i] > scores[j] => target.weight[i] >= target.weight[j]
  /\ \A i \in DOMAIN target.weight, j \in S \ DOMAIN target.weight : scores[j] <= scores[i]

(* For any scores of any finite number of instruments and any limits,      *)
(* every weight is within its name's cap, the gross is within what the     *)
(* cash sleeve leaves, no weight is negative in a long-only book, weights  *)
(* follow the scores, and no better score is left out                      *)
(* (portfolio/builder.py).                                                 *)
THEOREM PortfolioIsSound ==
  ASSUME NEW S \in SUBSET Nat, IsFiniteSet(S), NEW scores \in [S -> Int], NEW cfg \in Configs
  PROVE  Sound(scores, cfg, BuildPortfolio(scores, cfg), S)
<1>1. PICK used, kept : used = Used(scores, cfg) /\ kept = Selected(scores, cfg)
  OBVIOUS
<1>2. /\ kept \in SUBSET S /\ IsFiniteSet(kept) /\ DOMAIN used = kept
      /\ \A i \in kept : used[i] \in Int
      /\ \A i, j \in kept : scores[i] > scores[j] => used[i] >= used[j]
  BY <1>1, UsedScores
<1>3. PICK total \in Nat : total = Total(used) /\ (total = 0 => \A i \in kept : used[i] = 0)
  BY <1>2, TotalIsSum
<1>4. PICK target, same : target = BuildPortfolio(scores, cfg) /\ same = BuildPortfolioFromScores(scores, cfg)
  OBVIOUS
<1>5. /\ target = IF used = <<>> \/ total = 0 THEN AllCash ELSE Target(used, total, cfg)
      /\ same = IF used = <<>> THEN AllCash ELSE Target(used, IF total = 0 THEN 1 ELSE total, cfg)
  BY <1>1, <1>3, <1>4 DEF BuildPortfolio, BuildPortfolioFromScores
<1>6. target = same
  <2>1. CASE total = 0
    <3>1. Target(used, 1, cfg) = AllCash
      BY <1>2, <1>3, <2>1, NoScoresNoTarget
    <3>2. QED
      BY <1>5, <2>1, <3>1
  <2>2. CASE total # 0
    BY <1>5, <2>2
  <2>3. QED
    BY <2>1, <2>2
<1>7. Limited(target, used, cfg)
  <2>1. Limited(Target(used, total, cfg), used, cfg)
    BY <1>2, TargetIsLimited
  <2>2. QED
    BY <1>5, <2>1, AllCashIsLimited
<1>8. /\ target.unit \in Nat /\ DOMAIN target.weight \in {{}, kept}
      /\ \A i \in DOMAIN target.weight :
           /\ target.weight[i] \in Int /\ Magnitude(target.weight[i]) <= cfg.maxName * target.unit
           /\ cfg.longOnly => target.weight[i] >= 0
      /\ Gross(target) <= Available(cfg) * target.unit
      /\ \A i, j \in DOMAIN target.weight : used[i] >= used[j] => target.weight[i] >= target.weight[j]
  BY <1>2, <1>7 DEF Limited
<1>9. target.weight = [i \in DOMAIN target.weight |-> target.weight[i]]
  <2>1. target \in {AllCash, Target(used, total, cfg)}
    BY <1>5
  <2>2. QED
    BY <2>1, TargetIsFunction
<1>10. \A i, j \in DOMAIN target.weight : scores[i] > scores[j] => target.weight[i] >= target.weight[j]
  BY <1>2, <1>8
<1>11. ASSUME NEW i \in DOMAIN target.weight, NEW j \in S \ DOMAIN target.weight PROVE scores[j] <= scores[i]
  <2>1. DOMAIN target.weight = kept
    BY <1>8
  <2>2. i \in Selected(scores, cfg) /\ j \in S \ Selected(scores, cfg)
    BY <1>1, <2>1
  <2>3. QED
    BY <2>2, BetterIsSelected
<1>12. DOMAIN target.weight \in SUBSET S
  BY <1>2, <1>8
<1>13. QED
  BY <1>4, <1>6, <1>8, <1>9, <1>10, <1>11, <1>12 DEF Sound

(* The portfolios of the runs.                                             *)
PortfolioJob == IsJob("portfolio") => job[2] \in [1..3 -> Int] /\ job[3] \in Configs

(* They are built from scores and limits.                                  *)
LEMMA PortfolioJobs == MCSpec => []PortfolioJob
<1>1. MCInit => PortfolioJob
  BY DEF MCInit, PortfolioJob, IsJob
<1>2. PortfolioJob /\ [MCNext]_<<vars, trading, job>> => PortfolioJob'
  <2>1. ASSUME Choose PROVE PortfolioJob'
    <3>1. SUFFICES ASSUME job'[1] = "portfolio" PROVE PortfolioJob'
      BY DEF PortfolioJob, IsJob
    <3>2. PICK scores \in [1..3 -> -2..3], cfg \in Limits : job' = <<"portfolio", scores, cfg>>
      BY <2>1, <3>1 DEF Choose
    <3>3. scores \in [1..3 -> Int] /\ cfg \in Configs
      BY DEF Limits, Configs
    <3>4. QED
      BY <3>2, <3>3 DEF PortfolioJob
  <2>2. ASSUME PortfolioJob, UNCHANGED job PROVE PortfolioJob'
    BY <2>2 DEF PortfolioJob, IsJob
  <2>3. QED
    BY <2>1, <2>2 DEF MCNext, vars
<1>3. QED
  BY <1>1, <1>2, PTL DEF MCSpec

(* Every portfolio of the run is sound, and its exposures add up to it:    *)
(* PortfolioIsFunded.                                                      *)
THEOREM PortfolioAlwaysFunded == MCSpec => []PortfolioIsFunded
<1>1. PortfolioJob => PortfolioIsFunded
  <2> SUFFICES ASSUME PortfolioJob, IsJob("portfolio") PROVE PortfolioIsFunded
    BY DEF PortfolioIsFunded
  <2>1. PICK S \in SUBSET Nat, scores \in [1..3 -> Int], cfg \in Configs :
          S = 1..3 /\ scores = job[2] /\ cfg = job[3] /\ scores \in [S -> Int]
    BY DEF PortfolioJob
  <2>2. IsFiniteSet(S)
    <3>1. PICK first \in Int, last \in Int : first = 1 /\ last = 3
      OBVIOUS
    <3>3. IsFiniteSet(first..last)
      BY FS_Interval
    <3>2. QED
      BY <2>1, <3>1, <3>3
  <2>3. PICK target : target = BuildPortfolio(scores, cfg)
    OBVIOUS
  <2>4. Sound(scores, cfg, target, S)
    BY <2>1, <2>2, <2>3, PortfolioIsSound
  <2>5. PICK ccyOf, exposures :
          /\ ccyOf = [i \in {1, 2} |-> IF i = 1 THEN "USD" ELSE "CNY"]
          /\ exposures = Exposures(target, ccyOf, "CNY", {}, 1)
    OBVIOUS
  <2>6. /\ DOMAIN exposures = DOMAIN target.weight
        /\ \A i \in DOMAIN target.weight :
             exposures[i].ccy \in {"USD", "CNY"} /\ exposures[i].base[1] = target.weight[i]
    BY <2>5 DEF Exposures
  <2>7. CurrencyExposure(exposures, "USD") + CurrencyExposure(exposures, "CNY") = SumFunction(target.weight)
    <3>1. PICK weight : weight = target.weight
      OBVIOUS
    <3>2. /\ IsFiniteSet(DOMAIN weight) /\ weight = [i \in DOMAIN weight |-> weight[i]]
          /\ \A i \in DOMAIN weight : weight[i] \in Int
      BY <2>2, <2>4, <3>1, FS_Subset DEF Sound
    <3>3. PICK one, other : one = "USD" /\ other = "CNY" /\ one # other
      OBVIOUS
    <3>4. /\ DOMAIN exposures = DOMAIN weight
          /\ \A i \in DOMAIN weight : exposures[i].ccy \in {one, other} /\ exposures[i].base[1] = weight[i]
      BY <2>6, <3>1, <3>3
    <3>5. CurrencyExposure(exposures, one) + CurrencyExposure(exposures, other) = SumFunction(weight)
      BY <3>2, <3>3, <3>4, CurrenciesAddUp
    <3>6. QED
      BY <3>1, <3>3, <3>5
  <2>8. QED
    BY <2>1, <2>3, <2>4, <2>5, <2>7 DEF PortfolioIsFunded, Sound
<1>2. QED
  BY <1>1, PortfolioJobs, PTL

(* Neither a proposal nor a portfolio of the run goes past a limit:        *)
(* ProposalsRespectLimits.                                                 *)
THEOREM LimitsAlwaysRespected == MCSpec => []ProposalsRespectLimits
BY RiskAlwaysRespected, PortfolioAlwaysFunded, PTL DEF ProposalsRespectLimits

-----------------------------------------------------------------------------
\* Bar k is the earliest one after the day.
Earliest(bars, day, k) ==
  /\ k \in DOMAIN bars /\ bars[k].day > day
  /\ \A j \in DOMAIN bars : bars[j].day > day => bars[k].day <= bars[j].day

(* The next bar is the earliest one, if there is any.                      *)
LEMMA NextIsEarliest ==
  ASSUME NEW bars, \A k \in DOMAIN bars : bars[k].day \in Nat, NEW day
  PROVE  \/ Execution!NextBar(bars, day) = {} /\ \A k \in DOMAIN bars : ~ (bars[k].day > day)
         \/ \E k \in DOMAIN bars : Earliest(bars, day, k) /\ Execution!NextBar(bars, day) = {bars[k]}
<1> DEFINE S == {k \in DOMAIN bars : bars[k].day > day}
<1>1. Execution!NextBar(bars, day) = IF S = {} THEN {} ELSE {Execution!First(bars, S)}
  BY DEF Execution!NextBar, Execution!After
<1>2. CASE S = {}
  BY <1>1, <1>2
<1>3. CASE S # {}
  <2>1. \E k \in S : \A j \in S : bars[k].day <= bars[j].day
    <3> DEFINE Days == {bars[k].day : k \in S}
    <3>1. Days # {} /\ Days \subseteq Nat
      BY <1>3
    <3>2. PICK least \in Days : \A e \in Days : least <= e
      BY <3>1, LeastExists
    <3>3. QED
      BY <3>2
  <2>2. PICK k \in S : k = (CHOOSE i \in S : \A j \in S : bars[i].day <= bars[j].day)
                       /\ \A j \in S : bars[k].day <= bars[j].day
    BY <2>1
  <2>3. Execution!NextBar(bars, day) = {bars[k]}
    BY <1>1, <1>3, <2>2 DEF Execution!First
  <2>4. Earliest(bars, day, k)
    BY <2>2 DEF Earliest
  <2>5. QED
    BY <2>3, <2>4 DEF Earliest
<1>4. QED
  BY <1>2, <1>3

(* The fields of an outcome.                                               *)
LEMMA FillFields ==
  ASSUME NEW bar, NEW quantity, NEW delta, NEW reason
  PROVE  /\ Execution!Filled(bar, quantity, delta).filled = TRUE
         /\ Execution!Filled(bar, quantity, delta).day = bar.day
         /\ Execution!Filled(bar, quantity, delta).quantity = quantity
         /\ Execution!Filled(bar, quantity, delta).cash = delta
         /\ Execution!NoFill(reason).filled = FALSE
BY DEF Execution!Filled, Execution!NoFill

(* The bar of a set of one.                                                *)
Only(S) == CHOOSE bar \in S : TRUE

(* The outcome of a Chinese order at its bar.                              *)
CnOutcome(order, bars, halted, gone, band, bar) ==
  LET prev == bars[Execution!Max(Execution!PriorBars(bars, order.day))].close
      fees == Execution!CnCommission + (IF order.side = "SELL" THEN Execution!CnStamp ELSE 0)
  IN  CASE Execution!Gone(bar, gone) -> Execution!NoFill("DELISTED")
        [] ~Execution!Gone(bar, gone) /\ bar.day \in halted -> Execution!NoFill("HALTED")
        [] ~Execution!Gone(bar, gone) /\ bar.day \notin halted ->
             IF order.side = "BUY" /\ 100 * bar.open - (100 + band) * prev >= 0
               THEN Execution!NoFill("UP_LIMIT_LOCK")
             ELSE IF order.side = "SELL" /\ 100 * bar.open - (100 - band) * prev <= 0
               THEN Execution!NoFill("DOWN_LIMIT_LOCK")
             ELSE Execution!Filled(bar, order.quantity,
                    Execution!CashDelta(order.side, bar.open, order.quantity, Execution!CnSlip, fees))

(* What a filled order of the Chinese market went through.                 *)
CnFilled(order, bars, halted, gone, band, fill) ==
  \E k \in DOMAIN bars :
    /\ Earliest(bars, order.day, k) /\ ~ (bars[k].day >= gone) /\ bars[k].day \notin halted
    /\ Execution!PriorBars(bars, order.day) # {}
    /\ LET prev == bars[Execution!Max(Execution!PriorBars(bars, order.day))].close
       IN  /\ order.side = "BUY" => ~ (100 * bars[k].open - (100 + band) * prev >= 0)
           /\ order.side = "SELL" => ~ (100 * bars[k].open - (100 - band) * prev <= 0)
    /\ fill = Execution!Filled(bars[k], order.quantity,
                Execution!CashDelta(order.side, bars[k].open, order.quantity, Execution!CnSlip,
                          Execution!CnCommission + (IF order.side = "SELL" THEN Execution!CnStamp ELSE 0)))

(* The guards of CnExecutionModel.                                         *)
LEMMA CnFills ==
  ASSUME NEW bars, \A k \in DOMAIN bars : bars[k].day \in Nat, NEW order, NEW halted, NEW gone, NEW band,
         NEW fill, fill = Execution!ExecuteCn(order, bars, halted, gone, band), fill.filled
  PROVE  CnFilled(order, bars, halted, gone, band, fill)
<1>1. Execution!NextBar(bars, order.day) # {}
  BY FillFields DEF Execution!ExecuteCn
<1>2. PICK k \in DOMAIN bars : Earliest(bars, order.day, k) /\ Execution!NextBar(bars, order.day) = {bars[k]}
  BY <1>1, NextIsEarliest
<1>3. Execution!PriorBars(bars, order.day) # {}
  BY <1>1, FillFields DEF Execution!ExecuteCn
<1>4. Only({bars[k]}) = bars[k]
  BY DEF Only
<1> DEFINE prev == bars[Execution!Max(Execution!PriorBars(bars, order.day))].close
           fees == Execution!CnCommission + (IF order.side = "SELL" THEN Execution!CnStamp ELSE 0)
<1>11. fill = CnOutcome(order, bars, halted, gone, band, Only(Execution!NextBar(bars, order.day)))
  BY <1>1, <1>3 DEF Execution!ExecuteCn, CnOutcome, Only
<1>5. fill = CASE Execution!Gone(bars[k], gone) -> Execution!NoFill("DELISTED")
               [] ~Execution!Gone(bars[k], gone) /\ bars[k].day \in halted -> Execution!NoFill("HALTED")
               [] ~Execution!Gone(bars[k], gone) /\ bars[k].day \notin halted ->
                  IF order.side = "BUY" /\ 100 * bars[k].open - (100 + band) * prev >= 0
                    THEN Execution!NoFill("UP_LIMIT_LOCK")
                  ELSE IF order.side = "SELL" /\ 100 * bars[k].open - (100 - band) * prev <= 0
                    THEN Execution!NoFill("DOWN_LIMIT_LOCK")
                  ELSE Execution!Filled(bars[k], order.quantity,
                         Execution!CashDelta(order.side, bars[k].open, order.quantity, Execution!CnSlip, fees))
  BY <1>2, <1>4, <1>11 DEF CnOutcome
<1> HIDE DEF prev, fees
<1>6. ~Execution!Gone(bars[k], gone) /\ bars[k].day \notin halted
  BY <1>5, FillFields
<1>7. fill = IF order.side = "BUY" /\ 100 * bars[k].open - (100 + band) * prev >= 0
               THEN Execution!NoFill("UP_LIMIT_LOCK")
             ELSE IF order.side = "SELL" /\ 100 * bars[k].open - (100 - band) * prev <= 0
               THEN Execution!NoFill("DOWN_LIMIT_LOCK")
             ELSE Execution!Filled(bars[k], order.quantity,
                    Execution!CashDelta(order.side, bars[k].open, order.quantity, Execution!CnSlip, fees))
  BY <1>5, <1>6
<1>8. /\ ~ (order.side = "BUY" /\ 100 * bars[k].open - (100 + band) * prev >= 0)
      /\ ~ (order.side = "SELL" /\ 100 * bars[k].open - (100 - band) * prev <= 0)
  BY <1>7, FillFields
<1>9. fill = Execution!Filled(bars[k], order.quantity,
               Execution!CashDelta(order.side, bars[k].open, order.quantity, Execution!CnSlip, fees))
  BY <1>7, <1>8
<1>10. QED
  BY <1>2, <1>3, <1>6, <1>8, <1>9 DEF CnFilled, prev, fees, Execution!Gone

(* Whole shares, unless fractions are allowed.                             *)
UsQuantity(order, fractional) == IF fractional THEN order.quantity ELSE 2 * (order.quantity \div 2)

(* The outcome of an American order at its bar.                            *)
UsOutcome(order, halted, gone, fractional, bar) ==
  CASE Execution!Gone(bar, gone) -> Execution!NoFill("DELISTED")
    [] ~Execution!Gone(bar, gone) /\ bar.day \in halted -> Execution!NoFill("TRADING_HALT")
    [] ~Execution!Gone(bar, gone) /\ bar.day \notin halted ->
         IF UsQuantity(order, fractional) <= 0 THEN Execution!NoFill("ZERO_QTY")
         ELSE Execution!Filled(bar, UsQuantity(order, fractional),
                Execution!CashDelta(order.side, bar.open, UsQuantity(order, fractional), Execution!UsEdge, 0))

(* What a filled order of the American market went through.                *)
UsFilled(order, bars, halted, gone, fractional, fill) ==
  \E k \in DOMAIN bars :
    /\ Earliest(bars, order.day, k) /\ ~ (bars[k].day >= gone) /\ bars[k].day \notin halted
    /\ ~ (UsQuantity(order, fractional) <= 0)
    /\ fill = Execution!Filled(bars[k], UsQuantity(order, fractional),
                Execution!CashDelta(order.side, bars[k].open, UsQuantity(order, fractional), Execution!UsEdge, 0))

(* The guards of UsExecutionModel.                                         *)
LEMMA UsFills ==
  ASSUME NEW bars, \A k \in DOMAIN bars : bars[k].day \in Nat, NEW order, NEW halted, NEW gone,
         NEW fractional \in BOOLEAN,
         NEW fill, fill = Execution!ExecuteUs(order, bars, halted, gone, fractional), fill.filled
  PROVE  UsFilled(order, bars, halted, gone, fractional, fill)
<1>1. Execution!NextBar(bars, order.day) # {}
  BY FillFields DEF Execution!ExecuteUs
<1>2. PICK k \in DOMAIN bars : Earliest(bars, order.day, k) /\ Execution!NextBar(bars, order.day) = {bars[k]}
  BY <1>1, NextIsEarliest
<1>3. Only({bars[k]}) = bars[k]
  BY DEF Only
<1>4. fill = UsOutcome(order, halted, gone, fractional, Only(Execution!NextBar(bars, order.day)))
  BY <1>1 DEF Execution!ExecuteUs, UsOutcome, Only, UsQuantity
<1> DEFINE quantity == UsQuantity(order, fractional)
           paid == Execution!Filled(bars[k], quantity,
                     Execution!CashDelta(order.side, bars[k].open, quantity, Execution!UsEdge, 0))
<1>5. fill = CASE Execution!Gone(bars[k], gone) -> Execution!NoFill("DELISTED")
               [] ~Execution!Gone(bars[k], gone) /\ bars[k].day \in halted -> Execution!NoFill("TRADING_HALT")
               [] ~Execution!Gone(bars[k], gone) /\ bars[k].day \notin halted ->
                  IF quantity <= 0 THEN Execution!NoFill("ZERO_QTY") ELSE paid
  BY <1>2, <1>3, <1>4 DEF UsOutcome
<1> HIDE DEF paid, quantity
<1>6. ~Execution!Gone(bars[k], gone) /\ bars[k].day \notin halted
  BY <1>5, FillFields
<1>7. fill = IF quantity <= 0 THEN Execution!NoFill("ZERO_QTY") ELSE paid
  BY <1>5, <1>6
<1>8. ~ (quantity <= 0) /\ fill = paid
  BY <1>7, FillFields
<1>9. QED
  BY <1>2, <1>6, <1>8 DEF UsFilled, paid, quantity, Execution!Gone

(* The day a fund order counts for.                                        *)
FundDay(order, hour) == IF hour >= Execution!CutoffHour THEN order.day + 1 ELSE order.day

(* The outcome of a fund order at its NAV.                                 *)
FundOutcome(order, gone, lastBuy, bar) ==
  LET held == bar.day - (IF lastBuy = Execution!NeverBought THEN bar.day ELSE lastBuy)
      gross == bar.close * order.quantity * Execution!Basis IN
  IF Execution!Gone(bar, gone) THEN Execution!NoFill("LIQUIDATED")
  ELSE IF order.side = "BUY"
    THEN Execution!Filled(bar, order.quantity, -(gross * (Execution!Basis + Execution!FundSubscription)))
  ELSE IF lastBuy # Execution!NeverBought /\ held < Execution!MinHoldingDays
    THEN Execution!NoFill("MIN_HOLDING_VIOLATION")
  ELSE Execution!Filled(bar, order.quantity, gross * (Execution!Basis - Execution!RedemptionFee(held)))

(* The NAV a filled fund order got.                                        *)
FundFilled(order, bars, gone, hour, fill) ==
  \E k \in DOMAIN bars :
    Earliest(bars, FundDay(order, hour), k) /\ ~ (bars[k].day >= gone) /\ fill.day = bars[k].day

(* The guards of FundExecutionModel.                                       *)
LEMMA FundFills ==
  ASSUME NEW bars, \A k \in DOMAIN bars : bars[k].day \in Nat, NEW order, NEW gone, NEW hour, NEW lastBuy,
         NEW fill, fill = Execution!ExecuteFund(order, bars, gone, hour, lastBuy), fill.filled
  PROVE  FundFilled(order, bars, gone, hour, fill)
<1> DEFINE day == FundDay(order, hour)
<1>1. Execution!NextBar(bars, day) # {}
  BY FillFields DEF Execution!ExecuteFund, FundDay
<1>2. PICK k \in DOMAIN bars : Earliest(bars, day, k) /\ Execution!NextBar(bars, day) = {bars[k]}
  BY <1>1, NextIsEarliest
<1>3. Only({bars[k]}) = bars[k]
  BY DEF Only
<1>4. fill = FundOutcome(order, gone, lastBuy, Only(Execution!NextBar(bars, day)))
  BY <1>1 DEF Execution!ExecuteFund, FundOutcome, Only, FundDay
<1>5. fill = FundOutcome(order, gone, lastBuy, bars[k])
  BY <1>2, <1>3, <1>4
<1>6. \/ Execution!Gone(bars[k], gone) /\ fill = Execution!NoFill("LIQUIDATED")
      \/ fill = Execution!NoFill("MIN_HOLDING_VIOLATION")
      \/ ~Execution!Gone(bars[k], gone) /\ \E quantity, delta : fill = Execution!Filled(bars[k], quantity, delta)
  BY <1>5, Zenon DEF FundOutcome
<1>7. ~Execution!Gone(bars[k], gone) /\ fill.day = bars[k].day
  <2>1. ~Execution!Gone(bars[k], gone) /\ \E quantity, delta : fill = Execution!Filled(bars[k], quantity, delta)
    <3>1. \A reason : fill # Execution!NoFill(reason)
      BY DEF Execution!NoFill
    <3>2. QED
      BY <1>6, <3>1, Zenon
  <2>2. QED
    BY <2>1 DEF Execution!Filled
<1>8. QED
  BY <1>2, <1>7 DEF FundFilled, Execution!Gone

(* A longer holding period never costs more.                               *)
LEMMA FeesFall ==
  ASSUME NEW held \in Int
  PROVE  Execution!RedemptionFee(held + 1) <= Execution!RedemptionFee(held)
<1>1. ASSUME NEW h \in Int
      PROVE  Execution!RedemptionFee(h) = IF h < 2 THEN 6 ELSE IF h < 4 THEN 3 ELSE IF h < 6 THEN 1 ELSE 0
  <2> DEFINE buckets == {k \in {1, 2, 3} : h < 2 * k}
  <2>1. Execution!RedemptionFee(h)
          = IF buckets = {} THEN 0 ELSE Execution!RedemptionSchedule[Execution!Min(buckets)][2]
    <3>1. {k \in DOMAIN Execution!RedemptionSchedule : h < Execution!RedemptionSchedule[k][1]} = buckets
      BY DEF Execution!RedemptionSchedule
    <3>2. QED
      BY <3>1 DEF Execution!RedemptionFee
  <2>2. ASSUME NEW k \in buckets, \A j \in buckets : k <= j PROVE Execution!Min(buckets) = k
    <3>1. \A j \in buckets : (\A i \in buckets : j <= i) => j = k
      BY <2>2
    <3>2. QED
      BY <2>2, <3>1 DEF Execution!Min
  <2>3. /\ h < 2 => 1 \in buckets
        /\ ~ (h < 2) /\ h < 4 => 2 \in buckets /\ 1 \notin buckets
        /\ ~ (h < 4) /\ h < 6 => 3 \in buckets /\ 1 \notin buckets /\ 2 \notin buckets
        /\ ~ (h < 6) => buckets = {}
    OBVIOUS
  <2>4. buckets \subseteq {1, 2, 3}
    OBVIOUS
  <2> HIDE DEF buckets
  <2>5. /\ Execution!RedemptionSchedule[1][2] = 6 /\ Execution!RedemptionSchedule[2][2] = 3
        /\ Execution!RedemptionSchedule[3][2] = 1
    BY DEF Execution!RedemptionSchedule
  <2>6. CASE h < 2
    BY <2>1, <2>2, <2>3, <2>4, <2>5, <2>6
  <2>7. CASE ~ (h < 2) /\ h < 4
    BY <2>1, <2>2, <2>3, <2>4, <2>5, <2>7
  <2>8. CASE ~ (h < 4) /\ h < 6
    BY <2>1, <2>2, <2>3, <2>4, <2>5, <2>8
  <2>9. CASE ~ (h < 6)
    BY <2>1, <2>3, <2>9
  <2>10. QED
    BY <2>6, <2>7, <2>8, <2>9
<1>2. QED
  BY <1>1

\* The fill uses the earliest bar after the day, before the delisting.
InTime(bars, day, gone, fill) ==
  /\ \E k \in DOMAIN bars : fill.day = bars[k].day
  /\ fill.day > day /\ ~ (fill.day >= gone)
  /\ ~ \E j \in DOMAIN bars : day < bars[j].day /\ bars[j].day < fill.day

(* The earliest bar is in time.                                            *)
LEMMA EarliestIsInTime ==
  ASSUME NEW bars, \A k \in DOMAIN bars : bars[k].day \in Nat, NEW day \in Int, NEW gone,
         NEW k \in DOMAIN bars, Earliest(bars, day, k), ~ (bars[k].day >= gone),
         NEW fill, fill.day = bars[k].day
  PROVE  InTime(bars, day, gone, fill)
<1>1. \A j \in DOMAIN bars : day < bars[j].day => ~ (bars[j].day < bars[k].day)
  BY DEF Earliest
<1>2. QED
  BY <1>1 DEF InTime, Earliest

\* What the three markets do with an order is in time.
Timely(order, bars, halted, gone, band, fractional, hour, lastBuy) ==
  /\ \A fill \in {Execution!ExecuteCn(order, bars, halted, gone, band),
                  Execution!ExecuteUs(order, bars, halted, gone, fractional)} :
       fill.filled => InTime(bars, order.day, gone, fill) /\ fill.day \notin halted
  /\ LET fill == Execution!ExecuteFund(order, bars, gone, hour, lastBuy)
     IN  fill.filled => InTime(bars, order.day, gone, fill)

(* For any bars, orders, halts and delistings: a fill has the day of a     *)
(* bar, later than the decision with no bar between them, before the       *)
(* delisting, and, of a share, not one of a halt (backtest/execution.py;   *)
(* the fund model does not look at halts).                                 *)
THEOREM FillsUseTheNextBar ==
  ASSUME NEW bars, \A k \in DOMAIN bars : bars[k].day \in Nat,
         NEW order, order.day \in Int, NEW halted, NEW gone, NEW band, NEW fractional \in BOOLEAN, NEW lastBuy,
         NEW hour \in Int, ~ (hour >= Execution!CutoffHour)
  PROVE  Timely(order, bars, halted, gone, band, fractional, hour, lastBuy)
<1>1. ASSUME NEW fill, fill = Execution!ExecuteCn(order, bars, halted, gone, band), fill.filled
      PROVE  InTime(bars, order.day, gone, fill) /\ fill.day \notin halted
  <2>1. CnFilled(order, bars, halted, gone, band, fill)
    BY <1>1, CnFills
  <2>2. PICK k \in DOMAIN bars : /\ Earliest(bars, order.day, k) /\ ~ (bars[k].day >= gone)
                                 /\ bars[k].day \notin halted /\ fill.day = bars[k].day
    BY <2>1 DEF CnFilled, Execution!Filled
  <2>3. QED
    BY <2>2, EarliestIsInTime
<1>2. ASSUME NEW fill, fill = Execution!ExecuteUs(order, bars, halted, gone, fractional), fill.filled
      PROVE  InTime(bars, order.day, gone, fill) /\ fill.day \notin halted
  <2>1. UsFilled(order, bars, halted, gone, fractional, fill)
    BY <1>2, UsFills
  <2>2. PICK k \in DOMAIN bars : /\ Earliest(bars, order.day, k) /\ ~ (bars[k].day >= gone)
                                 /\ bars[k].day \notin halted /\ fill.day = bars[k].day
    BY <2>1 DEF UsFilled, Execution!Filled
  <2>3. QED
    BY <2>2, EarliestIsInTime
<1>3. ASSUME NEW fill, fill = Execution!ExecuteFund(order, bars, gone, hour, lastBuy), fill.filled
      PROVE  InTime(bars, order.day, gone, fill)
  <2>1. FundFilled(order, bars, gone, hour, fill)
    BY <1>3, FundFills
  <2>2. FundDay(order, hour) = order.day
    BY DEF FundDay
  <2>3. PICK k \in DOMAIN bars : /\ Earliest(bars, order.day, k) /\ ~ (bars[k].day >= gone)
                                 /\ fill.day = bars[k].day
    BY <2>1, <2>2 DEF FundFilled
  <2>4. QED
    BY <2>3, EarliestIsInTime
<1>4. QED
  BY <1>1, <1>2, <1>3 DEF Timely

(* An order to a fund after the cutoff is never priced earlier.            *)
THEOREM CutoffNeverHelps ==
  ASSUME NEW bars, \A k \in DOMAIN bars : bars[k].day \in Nat,
         NEW order, order.day \in Int, NEW gone, NEW lastBuy,
         NEW early \in Int, ~ (early >= Execution!CutoffHour), NEW late \in Int, late >= Execution!CutoffHour,
         NEW first, first = Execution!ExecuteFund(order, bars, gone, early, lastBuy), first.filled,
         NEW second, second = Execution!ExecuteFund(order, bars, gone, late, lastBuy), second.filled
  PROVE  first.day <= second.day
<1>1. FundFilled(order, bars, gone, early, first) /\ FundFilled(order, bars, gone, late, second)
  BY FundFills
<1>2. FundDay(order, early) = order.day /\ FundDay(order, late) = order.day + 1
  BY DEF FundDay
<1>3. PICK j \in DOMAIN bars : Earliest(bars, order.day, j) /\ first.day = bars[j].day
  BY <1>1, <1>2 DEF FundFilled
<1>4. PICK k \in DOMAIN bars : Earliest(bars, order.day + 1, k) /\ second.day = bars[k].day
  BY <1>1, <1>2 DEF FundFilled
<1>5. bars[k].day > order.day
  BY <1>4 DEF Earliest
<1>6. QED
  BY <1>3, <1>4, <1>5 DEF Earliest

(* Buying and selling at one bar loses money.                              *)
LEMMA RoundTrip ==
  ASSUME NEW open \in Nat \ {0}, NEW quantity \in Nat \ {0}
  PROVE  /\ Execution!CashDelta("BUY", open, quantity, Execution!CnSlip, Execution!CnCommission)
              + Execution!CashDelta("SELL", open, quantity, Execution!CnSlip,
                                    Execution!CnCommission + Execution!CnStamp) < 0
         /\ Execution!CashDelta("BUY", open, quantity, Execution!UsEdge, 0)
              + Execution!CashDelta("SELL", open, quantity, Execution!UsEdge, 0) < 0
<1> DEFINE paid == open * quantity
<1>1. paid \in Nat /\ paid > 0
  OBVIOUS
<1>2. /\ open * 102 * quantity * 101 = 10302 * paid /\ open * 98 * quantity * 96 = 9408 * paid
      /\ open * 102 * quantity * 100 = 10200 * paid /\ open * 98 * quantity * 100 = 9800 * paid
  OBVIOUS
<1>3. /\ Execution!CashDelta("BUY", open, quantity, Execution!CnSlip, Execution!CnCommission)
           = -(open * 102 * quantity * 101)
      /\ Execution!CashDelta("SELL", open, quantity, Execution!CnSlip,
                             Execution!CnCommission + Execution!CnStamp) = open * 98 * quantity * 96
      /\ Execution!CashDelta("BUY", open, quantity, Execution!UsEdge, 0) = -(open * 102 * quantity * 100)
      /\ Execution!CashDelta("SELL", open, quantity, Execution!UsEdge, 0) = open * 98 * quantity * 100
  BY DEF Execution!CashDelta, Execution!CnSlip, Execution!CnCommission, Execution!CnStamp, Execution!UsEdge,
         Execution!Basis
<1> HIDE DEF paid
<1>4. QED
  BY <1>1, <1>2, <1>3

(* No two bars have a day.                                                 *)
LEMMA OnlyOneEarliest ==
  ASSUME NEW bars, NEW day, DOMAIN bars = 1..3, \A k \in 1..3 : bars[k].day = BarDays[k],
         NEW j \in DOMAIN bars, NEW k \in DOMAIN bars, Earliest(bars, day, j), Earliest(bars, day, k)
  PROVE  j = k
<1>1. bars[j].day <= bars[k].day /\ bars[k].day <= bars[j].day
  BY DEF Earliest
<1>2. BarDays[1] = 1 /\ BarDays[2] = 2 /\ BarDays[3] = 4
  BY DEF BarDays
<1>3. j \in {1, 2, 3} /\ k \in {1, 2, 3}
  OBVIOUS
<1>4. QED
  BY <1>1, <1>2, <1>3

(* At a previous close of 10 and a band of 10 percent nobody buys at 11 or *)
(* sells at 9.                                                             *)
LEMMA CnBandIsKept ==
  ASSUME NEW bars, \A k \in DOMAIN bars : bars[k].day \in Nat /\ bars[k].open \in Nat /\ bars[k].close = 10,
         DOMAIN bars \subseteq Nat, IsFiniteSet(DOMAIN bars),
         NEW order, NEW halted, NEW gone,
         NEW fill, fill = Execution!ExecuteCn(order, bars, halted, gone, 10), fill.filled
  PROVE  \E k \in DOMAIN bars : /\ Earliest(bars, order.day, k) /\ fill.day = bars[k].day
                                /\ (order.side = "BUY" => bars[k].open < 11)
                                /\ (order.side = "SELL" => bars[k].open > 9)
<1>1. CnFilled(order, bars, halted, gone, 10, fill)
  BY CnFills
<1> DEFINE prior == Execution!PriorBars(bars, order.day)
<1>2. PICK k \in DOMAIN bars :
        /\ Earliest(bars, order.day, k) /\ prior # {} /\ fill.day = bars[k].day
        /\ order.side = "BUY" => ~ (100 * bars[k].open - (100 + 10) * bars[Execution!Max(prior)].close >= 0)
        /\ order.side = "SELL" => ~ (100 * bars[k].open - (100 - 10) * bars[Execution!Max(prior)].close <= 0)
  BY <1>1 DEF CnFilled, Execution!Filled
<1>3. Execution!Max(prior) \in DOMAIN bars
  <2>1. prior \subseteq DOMAIN bars
    BY DEF Execution!PriorBars
  <2> HIDE DEF prior
  <2>2. \E m \in prior : \A x \in prior : m >= x
    <3>1. IsFiniteSet(prior) /\ prior \subseteq Nat
      BY <2>1, FS_Subset
    <3>2. QED
      BY <1>2, <3>1, LastExists
  <2>3. Execution!Max(prior) \in prior
    BY <2>2 DEF Execution!Max
  <2>4. QED
    BY <2>1, <2>3
<1>4. bars[Execution!Max(prior)].close = 10 /\ bars[k].open \in Nat
  BY <1>3
<1> DEFINE previous == bars[Execution!Max(prior)].close
<1>5. /\ order.side = "BUY" => ~ (100 * bars[k].open - (100 + 10) * previous >= 0)
      /\ order.side = "SELL" => ~ (100 * bars[k].open - (100 - 10) * previous <= 0)
      /\ previous = 10
  BY <1>2, <1>4
<1> HIDE DEF prior, previous
<1>6. PICK open \in Nat : open = bars[k].open
  BY <1>4
<1>7. (order.side = "BUY" => bars[k].open < 11) /\ (order.side = "SELL" => bars[k].open > 9)
  <2>1. CASE order.side = "BUY"
    <3>1. ~ (100 * open - 1100 >= 0)
      BY <1>5, <1>6, <2>1
    <3>2. open < 11
      BY <3>1
    <3>3. QED
      BY <1>6, <2>1, <3>2
  <2>2. CASE order.side = "SELL"
    <3>1. ~ (100 * open - 900 <= 0)
      BY <1>5, <1>6, <2>2
    <3>2. open > 9
      BY <3>1
    <3>3. QED
      BY <1>6, <2>2, <3>2
  <2>3. QED
    BY <2>1, <2>2
<1>8. QED
  BY <1>2, <1>7

(* A Chinese buy and sale at one bar.                                      *)
LEMMA CnRoundTrip ==
  ASSUME NEW bars, \A k \in DOMAIN bars : bars[k].day \in Nat /\ bars[k].open \in Nat \ {0},
         NEW day, \A j, k \in DOMAIN bars : Earliest(bars, day, j) /\ Earliest(bars, day, k) => j = k,
         NEW halted, NEW gone, NEW band, NEW quantity \in Nat \ {0},
         NEW buy, buy.day = day, buy.side = "BUY", buy.quantity = quantity,
         NEW sell, sell.day = day, sell.side = "SELL", sell.quantity = quantity,
         NEW paid, paid = Execution!ExecuteCn(buy, bars, halted, gone, band), paid.filled,
         NEW got, got = Execution!ExecuteCn(sell, bars, halted, gone, band), got.filled
  PROVE  paid.cash + got.cash < 0
<1>1. CnFilled(buy, bars, halted, gone, band, paid) /\ CnFilled(sell, bars, halted, gone, band, got)
  BY CnFills
<1>2. PICK j \in DOMAIN bars :
        /\ Earliest(bars, day, j)
        /\ paid = Execution!Filled(bars[j], quantity,
                     Execution!CashDelta("BUY", bars[j].open, quantity, Execution!CnSlip, Execution!CnCommission + 0))
  BY <1>1 DEF CnFilled
<1>3. PICK k \in DOMAIN bars :
        /\ Earliest(bars, day, k)
        /\ got = Execution!Filled(bars[k], quantity,
                    Execution!CashDelta("SELL", bars[k].open, quantity, Execution!CnSlip,
                                        Execution!CnCommission + Execution!CnStamp))
  BY <1>1 DEF CnFilled
<1>4. j = k /\ Execution!CnCommission + 0 = Execution!CnCommission
  BY <1>2, <1>3 DEF Execution!CnCommission
<1>5. PICK open \in Nat \ {0} : open = bars[k].open
  OBVIOUS
<1>6. /\ paid.cash = Execution!CashDelta("BUY", open, quantity, Execution!CnSlip, Execution!CnCommission)
      /\ got.cash = Execution!CashDelta("SELL", open, quantity, Execution!CnSlip,
                                         Execution!CnCommission + Execution!CnStamp)
  BY <1>2, <1>3, <1>4, <1>5 DEF Execution!Filled
<1>7. QED
  BY <1>6, RoundTrip

(* An American buy and sale at one bar: what may be bought may be sold.    *)
LEMMA UsRoundTrip ==
  ASSUME NEW bars, \A k \in DOMAIN bars : bars[k].day \in Nat /\ bars[k].open \in Nat \ {0},
         NEW day, \A j, k \in DOMAIN bars : Earliest(bars, day, j) /\ Earliest(bars, day, k) => j = k,
         NEW halted, NEW gone, NEW quantity \in Nat \ {0},
         NEW buy, buy.day = day, buy.side = "BUY", buy.quantity = quantity,
         NEW sell, sell.day = day, sell.side = "SELL", sell.quantity = quantity,
         NEW paid, paid = Execution!ExecuteUs(buy, bars, halted, gone, FALSE), paid.filled,
         NEW got, got = Execution!ExecuteUs(sell, bars, halted, gone, FALSE)
  PROVE  paid.cash + got.cash < 0
<1>1. UsFilled(buy, bars, halted, gone, FALSE, paid)
  BY UsFills
<1> DEFINE whole == 2 * (quantity \div 2)
<1>2. UsQuantity(buy, FALSE) = whole /\ UsQuantity(sell, FALSE) = whole /\ whole \in Int
  BY DEF UsQuantity
<1> HIDE DEF whole
<1>3. PICK j \in DOMAIN bars :
        /\ Earliest(bars, day, j) /\ ~ (bars[j].day >= gone) /\ bars[j].day \notin halted
        /\ ~ (whole <= 0)
        /\ paid = Execution!Filled(bars[j], whole,
                     Execution!CashDelta("BUY", bars[j].open, whole, Execution!UsEdge, 0))
  BY <1>1, <1>2 DEF UsFilled
<1>4. Execution!NextBar(bars, day) = {bars[j]}
  <2>1. ~ \A k \in DOMAIN bars : ~ (bars[k].day > day)
    BY <1>3 DEF Earliest
  <2>2. PICK k \in DOMAIN bars : Earliest(bars, day, k) /\ Execution!NextBar(bars, day) = {bars[k]}
    BY <2>1, NextIsEarliest
  <2>3. QED
    BY <1>3, <2>2
<1>5. Only({bars[j]}) = bars[j]
  BY DEF Only
<1>6. got = UsOutcome(sell, halted, gone, FALSE, Only(Execution!NextBar(bars, day)))
  BY <1>4 DEF Execution!ExecuteUs, UsOutcome, Only, UsQuantity
<1>7. got = Execution!Filled(bars[j], whole,
              Execution!CashDelta("SELL", bars[j].open, whole, Execution!UsEdge, 0))
  <2>1. ~Execution!Gone(bars[j], gone)
    BY <1>3 DEF Execution!Gone
  <2>2. QED
    BY <1>2, <1>3, <1>4, <1>5, <1>6, <2>1 DEF UsOutcome
<1>8. PICK open \in Nat \ {0} : open = bars[j].open
  OBVIOUS
<1>9. /\ paid.cash = Execution!CashDelta("BUY", open, whole, Execution!UsEdge, 0)
      /\ got.cash = Execution!CashDelta("SELL", open, whole, Execution!UsEdge, 0)
  <2>1. PICK out, back :
          /\ out = Execution!CashDelta("BUY", bars[j].open, whole, Execution!UsEdge, 0)
          /\ back = Execution!CashDelta("SELL", bars[j].open, whole, Execution!UsEdge, 0)
    OBVIOUS
  <2>2. paid = Execution!Filled(bars[j], whole, out) /\ got = Execution!Filled(bars[j], whole, back)
    BY <1>3, <1>7, <2>1
  <2>3. \A bar, q, delta : Execution!Filled(bar, q, delta).cash = delta
    BY DEF Execution!Filled
  <2>5. paid.cash = out /\ got.cash = back
    <3>1. PICK bar : bar = bars[j]
      OBVIOUS
    <3>2. paid = Execution!Filled(bar, whole, out) /\ got = Execution!Filled(bar, whole, back)
      BY <2>2, <3>1
    <3>3. Execution!Filled(bar, whole, out).cash = out /\ Execution!Filled(bar, whole, back).cash = back
      BY <2>3
    <3>4. PICK bought, sold : /\ bought = Execution!Filled(bar, whole, out) /\ bought.cash = out
                              /\ sold = Execution!Filled(bar, whole, back) /\ sold.cash = back
      BY <3>3
    <3>5. paid = bought /\ got = sold
      BY <3>2, <3>4
    <3>6. QED
      BY <3>4, <3>5
  <2>4. QED
    BY <1>8, <2>1, <2>5
<1>10. whole \in Nat \ {0}
  BY <1>2, <1>3
<1>11. QED
  BY <1>9, <1>10, RoundTrip

(* The orders of the runs.                                                 *)
OrderJob ==
  IsJob("order") =>
    /\ job[2] \in [1..3 -> Nat \ {0}] /\ job[3] \in Int /\ job[5] \in Int /\ job[7] \in Nat \ {0}

(* They have days, opens and a quantity.                                   *)
LEMMA OrderJobs == MCSpec => []OrderJob
<1>1. MCInit => OrderJob
  BY DEF MCInit, OrderJob, IsJob
<1>2. OrderJob /\ [MCNext]_<<vars, trading, job>> => OrderJob'
  <2>1. ASSUME Choose PROVE OrderJob'
    <3>1. SUFFICES ASSUME job'[1] = "order" PROVE OrderJob'
      BY DEF OrderJob, IsJob
    <3>2. \E opens \in [1..3 -> {9, 10, 11}], day \in 0..4, halted \in SUBSET {2, 4},
              gone \in {2, 4, 9}, last \in {-1, 1}, quantity \in 1..2 :
            job' = <<"order", opens, day, halted, gone, last, quantity>>
      <4>1. CASE \E n \in 1..3 : \E operations \in [1..n -> BookOps] : job' = <<"books", operations>>
        BY <3>1, <4>1
      <4>2. CASE \E flaws \in SUBSET Flaws, side \in {-1, 1}, market \in {"CN", "US"}, limit \in {0, 40},
                    held \in {0, 20}, weight \in {-1, 64, 128}, safe, built \in BOOLEAN :
                   job' = <<"risk", Context(flaws, side, market, limit), held, weight, safe, built>>
        BY <3>1, <4>2
      <4>3. CASE \E scores \in [1..3 -> -2..3], cfg \in Limits : job' = <<"portfolio", scores, cfg>>
        BY <3>1, <4>3
      <4>4. CASE \E closes \in [1..4 -> {2, 3}], n \in 0..2 :
                   \E actions \in [1..n -> Actions \X (2..5)] : job' = <<"adjust", closes, actions>>
        BY <3>1, <4>4
      <4>5. CASE \E rates \in SUBSET Rates, day \in 1..3 :
                   /\ \A p, q \in rates : p.base = q.base /\ p.day = q.day => p = q
                   /\ job' = <<"fx", rates, day>>
        BY <3>1, <4>5
      <4>6. CASE \E n \in 2..4, costs \in Costs, shorts \in BOOLEAN, table \in [1..2 -> {-1, 0, 1}] :
                   \E prices \in [1..n -> (1..2) \X (1..2)] : job' = <<"backtest", prices, costs, shorts, table>>
        BY <3>1, <4>6
      <4>7. QED
        BY <2>1, <4>1, <4>2, <4>3, <4>4, <4>5, <4>6, Zenon DEF Choose
    <3>3. PICK opens \in [1..3 -> {9, 10, 11}], day \in 0..4, halted \in SUBSET {2, 4},
              gone \in {2, 4, 9}, last \in {-1, 1}, quantity \in 1..2 :
            job' = <<"order", opens, day, halted, gone, last, quantity>>
      BY <3>2
    <3>5. opens \in [1..3 -> Nat \ {0}] /\ day \in Int /\ gone \in Int /\ quantity \in Nat \ {0}
      OBVIOUS
    <3>6. job'[2] = opens /\ job'[3] = day /\ job'[5] = gone /\ job'[7] = quantity
      BY <3>3
    <3>4. QED
      BY <3>5, <3>6 DEF OrderJob
  <2>2. ASSUME OrderJob, UNCHANGED job PROVE OrderJob'
    BY <2>2 DEF OrderJob, IsJob
  <2>3. QED
    BY <2>1, <2>2 DEF MCNext, vars
<1>3. QED
  BY <1>1, <1>2, PTL DEF MCSpec

(* What OrdersFillAfterDecision says of one job.                           *)
Follows(bars, day, halted, gone, last, quantity) ==
  LET order(side) == [day |-> day, side |-> side, quantity |-> quantity]
      cn(side) == Execution!ExecuteCn(order(side), bars, halted, gone, 10)
      us(side) == Execution!ExecuteUs(order(side), bars, halted, gone, FALSE)
      fund(side, hour) == Execution!ExecuteFund(order(side), bars, gone, hour, last)
      Skipped(from, to) == \E k \in 1..3 : from < BarDays[k] /\ BarDays[k] < to
      OpenOn(d) == bars[CHOOSE k \in 1..3 : BarDays[k] = d].open
  IN  /\ \A side \in {"BUY", "SELL"} : \A fill \in {cn(side), us(side), fund(side, 10)} :
           fill.filled => fill.day > day /\ ~Skipped(day, fill.day) /\ fill.day < gone
      /\ \A side \in {"BUY", "SELL"} : \A fill \in {cn(side), us(side)} :
           fill.filled => fill.day \notin halted
      /\ cn("BUY").filled => OpenOn(cn("BUY").day) < 11
      /\ cn("SELL").filled => OpenOn(cn("SELL").day) > 9
      /\ cn("BUY").filled /\ cn("SELL").filled => cn("BUY").cash + cn("SELL").cash < 0
      /\ us("BUY").filled => us("BUY").cash + us("SELL").cash < 0
      /\ \A side \in {"BUY", "SELL"} :
           fund(side, 10).filled /\ fund(side, 16).filled => fund(side, 10).day <= fund(side, 16).day
      /\ \A held \in 0..7 : Execution!RedemptionFee(held + 1) <= Execution!RedemptionFee(held)

(* Every order of the run fills after its decision, at the next bar,       *)
(* within the band, and at a loss for a round trip:                        *)
(* OrdersFillAfterDecision.                                                *)
THEOREM OrdersAlwaysFillAfterDecision == MCSpec => []OrdersFillAfterDecision
<1>1. OrderJob => OrdersFillAfterDecision
  <2> SUFFICES ASSUME OrderJob, IsJob("order") PROVE OrdersFillAfterDecision
    BY DEF OrdersFillAfterDecision
  <2>0. /\ job[2] \in [1..3 -> Nat \ {0}] /\ job[3] \in Int /\ job[5] \in Int /\ job[7] \in Nat \ {0}
    BY DEF OrderJob
  <2>1a. PICK opens \in [1..3 -> Nat \ {0}], day \in Int, gone \in Int, quantity \in Nat \ {0} :
          opens = job[2] /\ day = job[3] /\ gone = job[5] /\ quantity = job[7]
    BY <2>0
  <2>1b. PICK halted, last : halted = job[4] /\ last = job[6]
    OBVIOUS
  <2>2. PICK bars : bars = [k \in 1..3 |-> [day |-> BarDays[k], open |-> opens[k], close |-> 10]]
    OBVIOUS
  <2> DEFINE order(side) == [day |-> day, side |-> side, quantity |-> quantity]
             cn(side) == Execution!ExecuteCn(order(side), bars, halted, gone, 10)
             us(side) == Execution!ExecuteUs(order(side), bars, halted, gone, FALSE)
             fund(side, hour) == Execution!ExecuteFund(order(side), bars, gone, hour, last)
             OpenOn(d) == bars[CHOOSE k \in 1..3 : BarDays[k] = d].open
  <2>3. /\ DOMAIN bars = 1..3
        /\ \A k \in 1..3 : bars[k].day = BarDays[k] /\ bars[k].open = opens[k] /\ bars[k].close = 10
        /\ BarDays[1] = 1 /\ BarDays[2] = 2 /\ BarDays[3] = 4
    BY <2>2 DEF BarDays
  <2>4. /\ \A k \in DOMAIN bars : bars[k].day \in Nat
        /\ \A k \in DOMAIN bars : bars[k].day \in Nat /\ bars[k].open \in Nat /\ bars[k].close = 10
    <3>1. \A k \in 1..3 : k \in {1, 2, 3}
      OBVIOUS
    <3>2. QED
      BY <2>3, <3>1
  <2>5. ASSUME NEW k \in 1..3 PROVE OpenOn(bars[k].day) = opens[k]
    <3>1. \A j \in 1..3 : BarDays[j] = BarDays[k] <=> j = k
      BY <2>3
    <3>2. (CHOOSE j \in 1..3 : BarDays[j] = BarDays[k]) = k
      BY <3>1
    <3>3. QED
      BY <2>3, <3>2
  <2>6. \A side : order(side).day = day /\ order(side).side = side /\ order(side).quantity = quantity
    OBVIOUS
  <2> HIDE DEF order
  <2>7. ~ (10 >= Execution!CutoffHour) /\ 16 >= Execution!CutoffHour
    BY DEF Execution!CutoffHour
  <2>8. ASSUME NEW side
        PROVE  /\ \A fill \in {cn(side), us(side)} :
                    fill.filled => InTime(bars, day, gone, fill) /\ fill.day \notin halted
               /\ fund(side, 10).filled => InTime(bars, day, gone, fund(side, 10))
    <3>1. PICK placed : placed = order(side) /\ placed.day = day /\ placed.day \in Int
      BY <2>6
    <3>2a. PICK hour \in Int : hour = 10 /\ ~ (hour >= Execution!CutoffHour)
      BY <2>7
    <3>2b. PICK band \in Int : band = 10
      OBVIOUS
    <3>2c. PICK fractional \in BOOLEAN : fractional = FALSE
      OBVIOUS
    <3>3. Timely(placed, bars, halted, gone, band, fractional, hour, last)
      BY <2>4, <3>1, <3>2a, FillsUseTheNextBar
    <3>4. QED
      BY <3>1, <3>2a, <3>2b, <3>2c, <3>3 DEF Timely
  <2>9. ASSUME NEW fill, InTime(bars, day, gone, fill)
        PROVE  /\ fill.day > day /\ fill.day < gone
               /\ ~ \E k \in 1..3 : day < BarDays[k] /\ BarDays[k] < fill.day
    BY <2>3, <2>9 DEF InTime
  <2>10. ASSUME NEW side \in {"BUY", "SELL"}, cn(side).filled
         PROVE  \E k \in 1..3 : /\ cn(side).day = bars[k].day
                                 /\ (side = "BUY" => opens[k] < 11)
                                 /\ (side = "SELL" => opens[k] > 9)
    <3>1. PICK placed : placed = order(side) /\ placed.side = side
      BY <2>6
    <3>2. PICK fill : fill = cn(side) /\ fill = Execution!ExecuteCn(placed, bars, halted, gone, 10) /\ fill.filled
      BY <2>10, <3>1
    <3>3. PICK k \in DOMAIN bars : /\ fill.day = bars[k].day
                                  /\ (placed.side = "BUY" => bars[k].open < 11)
                                  /\ (placed.side = "SELL" => bars[k].open > 9)
      <4>1. DOMAIN bars \subseteq Nat /\ IsFiniteSet(DOMAIN bars)
        <5>1. PICK first \in Int, final \in Int : first = 1 /\ final = 3
          OBVIOUS
        <5>2. IsFiniteSet(first..final)
          BY FS_Interval
        <5>3. QED
          BY <2>3, <5>1, <5>2
      <4>2. QED
        BY <2>4, <3>2, <4>1, CnBandIsKept
    <3>4. QED
      BY <2>3, <3>1, <3>2, <3>3
  <2>11. ASSUME cn("BUY").filled PROVE OpenOn(cn("BUY").day) < 11
    <3>1. PICK k \in 1..3 : cn("BUY").day = bars[k].day /\ opens[k] < 11
      BY <2>10, <2>11
    <3>2. OpenOn(bars[k].day) = opens[k]
      BY <2>5
    <3>3. QED
      BY <3>1, <3>2
  <2>12. ASSUME cn("SELL").filled PROVE OpenOn(cn("SELL").day) > 9
    <3>1. PICK k \in 1..3 : cn("SELL").day = bars[k].day /\ opens[k] > 9
      BY <2>10, <2>12
    <3>2. OpenOn(bars[k].day) = opens[k]
      BY <2>5
    <3>3. QED
      BY <3>1, <3>2
  <2>21. PICK buy, sell : buy = order("BUY") /\ sell = order("SELL")
    OBVIOUS
  <2>22. /\ buy.day = day /\ buy.side = "BUY" /\ buy.quantity = quantity
         /\ sell.day = day /\ sell.side = "SELL" /\ sell.quantity = quantity
    BY <2>6, <2>21
  <2>23. \A j, k \in DOMAIN bars : Earliest(bars, day, j) /\ Earliest(bars, day, k) => j = k
    BY <2>3, OnlyOneEarliest
  <2>24. \A k \in DOMAIN bars : bars[k].day \in Nat /\ bars[k].open \in Nat \ {0}
    BY <2>3, <2>4
  <2>13. ASSUME cn("BUY").filled, cn("SELL").filled PROVE cn("BUY").cash + cn("SELL").cash < 0
    <3>1. PICK paid, got, band : paid = cn("BUY") /\ got = cn("SELL") /\ band = 10
      OBVIOUS
    <3>2. /\ paid = Execution!ExecuteCn(buy, bars, halted, gone, band) /\ paid.filled
          /\ got = Execution!ExecuteCn(sell, bars, halted, gone, band) /\ got.filled
      BY <2>13, <2>21, <3>1
    <3>3. paid.cash + got.cash < 0
      BY <2>22, <2>23, <2>24, <3>2, CnRoundTrip
    <3>4. QED
      BY <3>1, <3>3
  <2>14. ASSUME us("BUY").filled PROVE us("BUY").cash + us("SELL").cash < 0
    <3>1. PICK paid, got : paid = us("BUY") /\ got = us("SELL")
      OBVIOUS
    <3>2. /\ paid = Execution!ExecuteUs(buy, bars, halted, gone, FALSE) /\ paid.filled
          /\ got = Execution!ExecuteUs(sell, bars, halted, gone, FALSE)
      BY <2>14, <2>21, <3>1
    <3>3. paid.cash + got.cash < 0
      BY <2>22, <2>23, <2>24, <3>2, UsRoundTrip
    <3>4. QED
      BY <3>1, <3>3
  <2>15. ASSUME NEW side, fund(side, 10).filled, fund(side, 16).filled
         PROVE  fund(side, 10).day <= fund(side, 16).day
    <3>1. PICK placed : placed = order(side) /\ placed.day \in Int
      BY <2>6
    <3>2. PICK early \in Int, late \in Int :
            early = 10 /\ late = 16 /\ ~ (early >= Execution!CutoffHour) /\ late >= Execution!CutoffHour
      BY <2>7
    <3>3. PICK first, second : first = fund(side, 10) /\ second = fund(side, 16)
      OBVIOUS
    <3>4. /\ first = Execution!ExecuteFund(placed, bars, gone, early, last) /\ first.filled
          /\ second = Execution!ExecuteFund(placed, bars, gone, late, last) /\ second.filled
      BY <2>15, <3>1, <3>2, <3>3
    <3>5. first.day <= second.day
      BY <2>4, <3>1, <3>2, <3>4, CutoffNeverHelps
    <3>6. QED
      BY <3>3, <3>5
  <2>16. \A held \in 0..7 : Execution!RedemptionFee(held + 1) <= Execution!RedemptionFee(held)
    BY FeesFall
  <2>17. /\ \A side \in {"BUY", "SELL"} : \A fill \in {cn(side), us(side), fund(side, 10)} :
              fill.filled => fill.day > day /\ fill.day < gone
                             /\ ~ \E k \in 1..3 : day < BarDays[k] /\ BarDays[k] < fill.day
         /\ \A side \in {"BUY", "SELL"} : \A fill \in {cn(side), us(side)} :
              fill.filled => fill.day \notin halted
    BY <2>8, <2>9
  <2>19. \A side \in {"BUY", "SELL"} :
           fund(side, 10).filled /\ fund(side, 16).filled => fund(side, 10).day <= fund(side, 16).day
    BY <2>15
  <2> DEFINE Skipped(from, to) == \E k \in 1..3 : from < BarDays[k] /\ BarDays[k] < to
  <2>20. /\ \A side \in {"BUY", "SELL"} : \A fill \in {cn(side), us(side), fund(side, 10)} :
              fill.filled => fill.day > day /\ ~Skipped(day, fill.day) /\ fill.day < gone
         /\ \A side \in {"BUY", "SELL"} : \A fill \in {cn(side), us(side)} :
              fill.filled => fill.day \notin halted
         /\ (cn("BUY").filled => OpenOn(cn("BUY").day) < 11)
         /\ (cn("SELL").filled => OpenOn(cn("SELL").day) > 9)
         /\ (cn("BUY").filled /\ cn("SELL").filled => cn("BUY").cash + cn("SELL").cash < 0)
         /\ (us("BUY").filled => us("BUY").cash + us("SELL").cash < 0)
    BY <2>11, <2>12, <2>13, <2>14, <2>17
  <2>18. Follows(bars, day, halted, gone, last, quantity)
    BY <2>16, <2>19, <2>20, Zenon DEF Follows, order
  <2>25. OrdersFillAfterDecision
          <=> Follows([k \in 1..3 |-> [day |-> BarDays[k], open |-> job[2][k], close |-> 10]],
                      job[3], job[4], job[5], job[6], job[7])
    BY Zenon DEF OrdersFillAfterDecision, Follows
  <2>26. bars = [k \in 1..3 |-> [day |-> BarDays[k], open |-> job[2][k], close |-> 10]]
    BY <2>1a, <2>2
  <2>27. QED
    BY <2>1a, <2>1b, <2>18, <2>25, <2>26, Zenon
<1>2. QED
  BY <1>1, OrderJobs, PTL

-----------------------------------------------------------------------------
(* Bars as a backtest reads them.                                          *)
Bars == [day : Nat, open : Nat \ {0}, close : Nat \ {0}]

(* The states of the backtest, by the number of bars traded on.            *)
Days(cfg, bars, signalOf, f) ==
  [i \in 0..Len(bars) - 1 |->
     IF i = 0 THEN Execution!Unopened ELSE Execution!BacktestDay(cfg, bars, signalOf, f[i - 1], i)]

(* The function of them the backtest is computed with.                     *)
After(cfg, bars, signalOf) == CHOOSE f : f = Days(cfg, bars, signalOf, f)

(* The answer is the state after the last bar.                             *)
LEMMA BacktestIsLast ==
  ASSUME NEW cfg, NEW bars, NEW signalOf, Len(bars) \in Nat, Len(bars) >= 2
  PROVE  Execution!Backtest(cfg, bars, signalOf) = After(cfg, bars, signalOf)[Len(bars) - 1]
<1>1. ~ (Len(bars) < 2)
  OBVIOUS
<1>2. QED
  BY <1>1 DEF Execution!Backtest, After, Days

(* Each day's state is made of the day's before.                           *)
DayByDay(cfg, bars, signalOf, after) ==
  /\ after[0] = Execution!Unopened
  /\ \A i \in 1..Len(bars) - 1 : after[i] = Execution!BacktestDay(cfg, bars, signalOf, after[i - 1], i)

(* There is such a function, so the CHOOSE of the recursive definition is  *)
(* one: of the numbers of days up to which none exists, there is no least  *)
(* one.                                                                    *)
LEMMA DaysExist ==
  ASSUME NEW cfg, NEW bars, NEW signalOf, Len(bars) \in Nat, Len(bars) >= 2,
         NEW after, after = After(cfg, bars, signalOf)
  PROVE  DayByDay(cfg, bars, signalOf, after)
<1>1. PICK n \in Nat : n = Len(bars) - 1
  OBVIOUS
<1> DEFINE Do(st, i) == Execution!BacktestDay(cfg, bars, signalOf, st, i)
           Right(f, i) == f[i] = IF i = 0 THEN Execution!Unopened ELSE Do(f[i - 1], i)
           Good(m) == \E f : \A i \in 0..m : Right(f, i)
           Bad == {m \in 0..n : ~Good(m)}
<1> HIDE DEF Do
<1>2. Good(0)
  <2>1. PICK f : f = [i \in {0} |-> Execution!Unopened]
    OBVIOUS
  <2>2. \A i \in 0..0 : Right(f, i)
    BY <2>1
  <2>3. QED
    BY <2>2
<1>3. ASSUME NEW m \in Nat, Good(m) PROVE Good(m + 1)
  <2>1. PICK f : \A i \in 0..m : Right(f, i)
    BY <1>3
  <2>2. PICK g : g = [i \in 0..m + 1 |-> IF i = m + 1 THEN Do(f[m], m + 1) ELSE f[i]]
    OBVIOUS
  <2>3. (\A i \in 0..m : g[i] = f[i]) /\ g[m + 1] = Do(f[m], m + 1)
    BY <2>2
  <2>4. ASSUME NEW i \in 0..m + 1 PROVE Right(g, i)
    <3>1. CASE i = m + 1
      <4>1. g[i] = Do(g[i - 1], i) /\ i # 0
        BY <2>3, <3>1
      <4>2. QED
        BY <4>1
    <3>2. CASE i = 0
      BY <2>1, <2>3, <3>2
    <3>3. CASE i \in 1..m
      <4>1. i \in 0..m /\ i - 1 \in 0..m /\ i # 0
        BY <3>3
      <4>2. g[i] = f[i] /\ g[i - 1] = f[i - 1] /\ f[i] = Do(f[i - 1], i)
        BY <2>1, <2>3, <4>1
      <4>3. QED
        BY <4>1, <4>2
    <3>4. QED
      BY <3>1, <3>2, <3>3
  <2>5. QED
    BY <2>4
<1> HIDE DEF Good
<1>4. Good(n)
  <2>1. SUFFICES ASSUME ~Good(n) PROVE FALSE
    OBVIOUS
  <2>2. n \in Bad /\ Bad \subseteq Nat
    BY <2>1
  <2>3. PICK m \in Bad : \A e \in Bad : m <= e
    BY <2>2, LeastExists
  <2>4. m # 0 /\ m \in Nat /\ m \in 0..n /\ ~Good(m)
    BY <1>2, <2>3
  <2>5. m - 1 \in Nat /\ m - 1 \in 0..n /\ m - 1 \notin Bad
    BY <2>3, <2>4
  <2>6. Good(m - 1) /\ (m - 1) + 1 = m
    BY <2>4, <2>5
  <2>7. QED
    BY <1>3, <2>4, <2>5, <2>6
<1>5. PICK f : \A i \in 0..n : Right(f, i)
  BY <1>4 DEF Good
<1>6. PICK g : g = [i \in 0..n |-> f[i]]
  OBVIOUS
<1>7. \A i \in 0..n : Right(g, i)
  <2>1. ASSUME NEW i \in 0..n PROVE Right(g, i)
    <3>1. g[i] = f[i] /\ (i # 0 => g[i - 1] = f[i - 1])
      BY <1>6
    <3>2. QED
      BY <1>5, <3>1
  <2>2. QED
    BY <2>1
<1>8. g = Days(cfg, bars, signalOf, g)
  <2>1. [i \in 0..n |-> IF i = 0 THEN Execution!Unopened ELSE Do(g[i - 1], i)] = [i \in 0..n |-> g[i]]
    BY <1>7
  <2>2. g = [i \in 0..n |-> g[i]]
    BY <1>6
  <2>3. QED
    BY <1>1, <2>1, <2>2 DEF Days, Do
<1>9. after = Days(cfg, bars, signalOf, after)
  BY <1>8 DEF After
<1>10. ASSUME NEW i \in 0..Len(bars) - 1
       PROVE  after[i] = IF i = 0 THEN Execution!Unopened
                         ELSE Execution!BacktestDay(cfg, bars, signalOf, after[i - 1], i)
  BY <1>9 DEF Days
<1>11. 0 \in 0..Len(bars) - 1 /\ \A i \in 1..Len(bars) - 1 : i \in 0..Len(bars) - 1 /\ i # 0
  OBVIOUS
<1>12. QED
  BY <1>10, <1>11 DEF DayByDay

(* Costs, in the unit of the prices.                                       *)
Costing == [unit : Nat \ {0}, slip : Nat, commission : Nat, shorts : BOOLEAN]

(* Short, flat or long.                                                    *)
Signals == {-1, 0, 1}

(* The fields of a state.                                                  *)
IsState(st) ==
  st = [position |-> st.position, entry |-> st.entry, equity |-> st.equity, trades |-> st.trades,
        curve |-> st.curve]

(* What a backtest holds, without its trades and its curve.                *)
Booked(st) ==
  IsState(st) /\ st.position \in Signals /\ st.entry \in Int /\ st.equity \in Int \X Int

(* What Trade makes of it, and the numbers it makes it with.               *)
Moved(cfg, st, signal, bar, traded, price, up, down) ==
  /\ price = Execution!FillPrice(cfg, bar.open, signal, st.position)
  /\ up = st.entry * cfg.unit + (price - st.entry) * st.position * cfg.unit
            - 2 * (cfg.commission + cfg.slip) * st.entry
  /\ down = st.entry * cfg.unit
  /\ traded.position = (IF cfg.shorts \/ signal >= 0 THEN signal ELSE 0)
  /\ traded.entry = (IF traded.position = 0 THEN 0 ELSE price)
  /\ traded.equity = (IF st.position = 0 THEN st.equity ELSE <<st.equity[1] * up, st.equity[2] * down>>)
  /\ traded.curve = st.curve
  /\ IsState(traded)

(* A kept signal trades nothing.                                           *)
LEMMA TradeStays ==
  ASSUME NEW cfg, NEW st, NEW signal, NEW bar, signal = st.position
  PROVE  Execution!Trade(cfg, st, signal, bar) = st
BY DEF Execution!Trade

(* A changed signal closes the position at the fill price and opens the    *)
(* next one.                                                               *)
LEMMA TradeMoves ==
  ASSUME NEW cfg, NEW st, NEW signal, NEW bar, signal # st.position,
         NEW traded, traded = Execution!Trade(cfg, st, signal, bar)
  PROVE  \E price, up, down : Moved(cfg, st, signal, bar, traded, price, up, down)
<1>1. PICK price : price = Execution!FillPrice(cfg, bar.open, signal, st.position)
  OBVIOUS
<1>2. PICK up, down :
        /\ up = st.entry * cfg.unit + (price - st.entry) * st.position * cfg.unit
                  - 2 * (cfg.commission + cfg.slip) * st.entry
        /\ down = st.entry * cfg.unit
  OBVIOUS
<1>3. PICK closed : closed = Execution!Closed(cfg, st.position, st.entry, price)
  OBVIOUS
<1>4. closed = <<up, down>>
  BY <1>2, <1>3 DEF Execution!Closed
<1>5. closed[1] = up /\ closed[2] = down
  BY <1>4
<1>6. PICK position : position = (IF cfg.shorts \/ signal >= 0 THEN signal ELSE 0)
  OBVIOUS
<1>7. PICK entry, equity, trades, curve :
        /\ entry = (IF position = 0 THEN 0 ELSE price)
        /\ equity = (IF st.position = 0 THEN st.equity ELSE <<st.equity[1] * closed[1], st.equity[2] * closed[2]>>)
        /\ trades = st.trades + (IF st.position = 0 THEN 0 ELSE 1)
        /\ curve = st.curve
  OBVIOUS
<1>8. traded = [position |-> position, entry |-> entry, equity |-> equity, trades |-> trades, curve |-> curve]
  BY <1>1, <1>3, <1>6, <1>7, Zenon DEF Execution!Trade
<1>9. /\ traded.position = position /\ traded.entry = entry /\ traded.equity = equity /\ traded.curve = curve
      /\ IsState(traded)
  BY <1>8 DEF IsState
<1>10. equity = (IF st.position = 0 THEN st.equity ELSE <<st.equity[1] * up, st.equity[2] * down>>)
  BY <1>5, <1>7, Zenon
<1>11. Moved(cfg, st, signal, bar, traded, price, up, down)
  BY <1>1, <1>2, <1>6, <1>7, <1>9, <1>10, Zenon DEF Moved
<1>12. QED
  BY <1>11

(* A mark is a quotient of integers.                                       *)
LEMMA MarkTyped ==
  ASSUME NEW cfg \in Costing, NEW st, Booked(st), NEW bar \in Bars
  PROVE  Execution!Marked(cfg, st, bar) \in Int \X Int
<1>1. PICK a, b \in Int : st.equity = <<a, b>>
  BY DEF Booked
<1>2. PICK position, entry, closing, unit \in Int :
        position = st.position /\ entry = st.entry /\ closing = bar.close /\ unit = cfg.unit
  BY DEF Booked, Signals, Bars, Costing
<1>3. PICK worth \in Int : worth = entry + (closing * unit - entry) * position
  BY <1>2
<1>4. PICK x, y \in Int : x = a * worth /\ y = b * entry
  BY <1>1, <1>2, <1>3
<1>5. Execution!Marked(cfg, st, bar) = IF position = 0 THEN <<a, b>> ELSE <<x, y>>
  BY <1>1, <1>2, <1>3, <1>4 DEF Execution!Marked
<1>6. <<a, b>> \in Int \X Int /\ <<x, y>> \in Int \X Int
  BY <1>1, <1>4
<1>7. QED
  BY <1>5, <1>6, Zenon

(* A trade leaves the books as they are, and the curve alone.              *)
LEMMA TradeTyped ==
  ASSUME NEW cfg \in Costing, NEW st, Booked(st), NEW signal \in Signals, NEW bar \in Bars,
         NEW traded, traded = Execution!Trade(cfg, st, signal, bar)
  PROVE  Booked(traded) /\ traded.curve = st.curve
<1>1. CASE signal = st.position
  BY <1>1, TradeStays
<1>2. CASE signal # st.position
  <2>1. PICK price, up, down : Moved(cfg, st, signal, bar, traded, price, up, down)
    BY <1>2, TradeMoves
  <2>2. PICK position, entry, unit, slip, commission, open \in Int :
          /\ position = st.position /\ entry = st.entry /\ unit = cfg.unit /\ slip = cfg.slip
          /\ commission = cfg.commission /\ open = bar.open
    <3>1. /\ st.position \in Int /\ st.entry \in Int /\ cfg.unit \in Int /\ cfg.slip \in Int
          /\ cfg.commission \in Int /\ bar.open \in Int
      BY DEF Booked, Signals, Bars, Costing
    <3>2. QED
      BY <3>1, Zenon
  <2>3. PICK sign \in Int : sign = Execution!Sign(signal - position)
    <3>1. \A x : Execution!Sign(x) \in Int
      BY DEF Execution!Sign
    <3>2. QED
      BY <3>1
  <2>4. price = open * (unit + slip * sign)
    BY <2>1, <2>2, <2>3 DEF Moved, Execution!FillPrice
  <2>5. price \in Int
    <3>1. unit + slip * sign \in Int
      BY <2>2, <2>3
    <3>2. QED
      BY <2>2, <2>4, <3>1
  <2>6. up = entry * unit + (price - entry) * position * unit - 2 * (commission + slip) * entry
        /\ down = entry * unit
    BY <2>1, <2>2 DEF Moved
  <2>7. up \in Int /\ down \in Int
    <3>1. entry * unit \in Int /\ (price - entry) * position \in Int /\ (commission + slip) * entry \in Int
      BY <2>2, <2>5
    <3>2. (price - entry) * position * unit \in Int /\ 2 * (commission + slip) * entry \in Int
      <4>1. PICK x \in Int : x = (price - entry) * position
        BY <3>1
      <4>2. x * unit \in Int /\ 2 * (commission + slip) \in Int
        BY <2>2, <4>1
      <4>3. QED
        BY <2>2, <4>1, <4>2
    <3>3. QED
      BY <2>6, <3>1, <3>2
  <2>8. PICK a, b \in Int : st.equity = <<a, b>>
    BY DEF Booked
  <2>9. PICK x, y \in Int : x = a * up /\ y = b * down
    BY <2>7, <2>8
  <2>10. traded.equity = IF st.position = 0 THEN <<a, b>> ELSE <<x, y>>
    BY <2>1, <2>8, <2>9 DEF Moved
  <2>11. traded.equity \in Int \X Int
    <3>1. <<a, b>> \in Int \X Int /\ <<x, y>> \in Int \X Int
      BY <2>8, <2>9
    <3>2. QED
      BY <2>10, <3>1, Zenon
  <2>12. /\ traded.position \in Signals /\ traded.entry \in Int /\ traded.curve = st.curve
         /\ IsState(traded)
    BY <2>1, <2>5 DEF Moved, Signals
  <2>13. QED
    BY <2>11, <2>12 DEF Booked
<1>3. QED
  BY <1>1, <1>2

(* A history and a signal for every part of it.                            *)
Signalled(bars, signalOf) ==
  /\ bars \in Seq(Bars) /\ Len(bars) >= 2
  /\ \A i \in 1..Len(bars) : signalOf[SubSeq(bars, 1, i)] \in Signals

(* What the equity of the i-th day is, if the position is kept at the      *)
(* close.                                                                  *)
MarkAt(cfg, bars, after, i) == Execution!Marked(cfg, after[i], bars[i + 1])

(* What a day does: the trade, and a point of the curve.                   *)
DayDone(cfg, bars, signalOf, st, i, next) ==
  LET mark == Execution!Marked(cfg, next, bars[i + 1])
      traded == Execution!Trade(cfg, st, signalOf[SubSeq(bars, 1, i)], bars[i + 1])
  IN  /\ Booked(next) /\ next.curve \in Seq(Int \X Int)
      /\ mark \in Int \X Int /\ next.curve = Append(st.curve, mark)
      /\ Booked(traded) /\ next.position = traded.position /\ next.entry = traded.entry
      /\ next.equity = traded.equity

(* Every day does.                                                         *)
LEMMA DayTyped ==
  ASSUME NEW cfg \in Costing, NEW bars, NEW signalOf, Signalled(bars, signalOf),
         NEW st, Booked(st), st.curve \in Seq(Int \X Int), NEW i \in 1..Len(bars) - 1,
         NEW next, next = Execution!BacktestDay(cfg, bars, signalOf, st, i)
  PROVE  DayDone(cfg, bars, signalOf, st, i, next)
<1>1. PICK signal \in Signals : signal = signalOf[SubSeq(bars, 1, i)]
  <2>1. i \in 1..Len(bars)
    BY DEF Signalled
  <2>2. QED
    BY <2>1 DEF Signalled
<1>2. PICK bar \in Bars : bar = bars[i + 1]
  <2>1. i + 1 \in 1..Len(bars) /\ bars \in Seq(Bars)
    BY DEF Signalled
  <2>2. bars[i + 1] \in Bars
    BY <2>1
  <2>3. QED
    BY <2>2
<1>3. PICK traded : traded = Execution!Trade(cfg, st, signal, bar)
  OBVIOUS
<1>4. Booked(traded) /\ traded.curve = st.curve
  BY <1>3, TradeTyped
<1>5. PICK mark \in Int \X Int : mark = Execution!Marked(cfg, traded, bar)
  BY <1>4, MarkTyped
<1>6. PICK curve : curve = Append(st.curve, mark)
  OBVIOUS
<1>7. curve \in Seq(Int \X Int)
  <2>1. PICK C : C = Int \X Int
    OBVIOUS
  <2>2. st.curve \in Seq(C) /\ mark \in C
    BY <2>1
  <2>3. curve \in Seq(C)
    BY <1>6, <2>2
  <2>4. QED
    BY <2>1, <2>3
<1>8. next = [traded EXCEPT !.curve = curve]
  BY <1>1, <1>2, <1>3, <1>4, <1>5, <1>6 DEF Execution!BacktestDay
<1>9. /\ next = [position |-> traded.position, entry |-> traded.entry, equity |-> traded.equity,
                 trades |-> traded.trades, curve |-> curve]
  BY <1>4, <1>8 DEF Booked, IsState
<1>10. /\ next.position = traded.position /\ next.entry = traded.entry /\ next.equity = traded.equity
       /\ next.trades = traded.trades /\ next.curve = curve
  BY <1>9
<1>11. IsState(next)
  BY <1>9, <1>10 DEF IsState
<1>12. Booked(next)
  BY <1>4, <1>10, <1>11 DEF Booked
<1>13. Execution!Marked(cfg, next, bar) = mark
  BY <1>5, <1>10 DEF Execution!Marked
<1>14. QED
  BY <1>1, <1>2, <1>3, <1>4, <1>5, <1>6, <1>7, <1>10, <1>12, <1>13 DEF DayDone

(* The states after the first days have a curve of as many points, each    *)
(* the mark of its day.                                                    *)
WellBooked(cfg, bars, after, i) ==
  /\ Booked(after[i]) /\ after[i].curve \in Seq(Int \X Int) /\ Len(after[i].curve) = i
  /\ \A j \in 1..i : after[i].curve[j] = MarkAt(cfg, bars, after, j)

(* An element more.                                                        *)
LEMMA AppendGrows ==
  ASSUME NEW S, NEW s \in Seq(S), NEW x \in S
  PROVE  /\ Append(s, x) \in Seq(S) /\ Len(Append(s, x)) = Len(s) + 1
         /\ \A j \in 1..Len(s) : Append(s, x)[j] = s[j]
         /\ Append(s, x)[Len(s) + 1] = x
OBVIOUS

(* All states are, by the first that is not.                               *)
LEMMA AllWellBooked ==
  ASSUME NEW cfg \in Costing, NEW bars, NEW signalOf, Signalled(bars, signalOf),
         NEW after, after = After(cfg, bars, signalOf)
  PROVE  \A i \in 0..Len(bars) - 1 : WellBooked(cfg, bars, after, i)
<1>1. Len(bars) \in Nat /\ Len(bars) >= 2
  BY DEF Signalled
<1>2. /\ after[0] = Execution!Unopened
      /\ \A i \in 1..Len(bars) - 1 : after[i] = Execution!BacktestDay(cfg, bars, signalOf, after[i - 1], i)
  BY <1>1, DaysExist DEF DayByDay
<1>3. WellBooked(cfg, bars, after, 0)
  <2>1. /\ after[0].position = 0 /\ after[0].entry = 0 /\ after[0].equity = <<1, 1>>
        /\ after[0].trades = 0 /\ after[0].curve = << >>
    BY <1>2 DEF Execution!Unopened
  <2>2. Booked(after[0])
    <3>1. IsState(after[0])
      BY <1>2, <2>1 DEF IsState, Execution!Unopened
    <3>2. QED
      BY <2>1, <3>1 DEF Booked, Signals
  <2>3. after[0].curve \in Seq(Int \X Int) /\ Len(after[0].curve) = 0
    BY <2>1
  <2>4. QED
    BY <2>2, <2>3 DEF WellBooked
<1>4. ASSUME NEW i \in 1..Len(bars) - 1, WellBooked(cfg, bars, after, i - 1)
      PROVE  WellBooked(cfg, bars, after, i)
  <2>1. PICK st : st = after[i - 1]
    OBVIOUS
  <2>2. PICK next : next = after[i]
    OBVIOUS
  <2>3. Booked(st) /\ st.curve \in Seq(Int \X Int) /\ Len(st.curve) = i - 1
        /\ \A j \in 1..i - 1 : st.curve[j] = MarkAt(cfg, bars, after, j)
    BY <1>4, <2>1 DEF WellBooked
  <2>4. next = Execution!BacktestDay(cfg, bars, signalOf, st, i)
    BY <1>2, <2>1, <2>2
  <2>5. PICK mark : mark = MarkAt(cfg, bars, after, i)
    OBVIOUS
  <2>6. /\ Booked(next) /\ next.curve \in Seq(Int \X Int) /\ mark \in Int \X Int
        /\ next.curve = Append(st.curve, mark)
    <3>1. mark = Execution!Marked(cfg, next, bars[i + 1])
      BY <2>2, <2>5 DEF MarkAt
    <3>2. Booked(st) /\ st.curve \in Seq(Int \X Int)
      BY <2>3
    <3>3. DayDone(cfg, bars, signalOf, st, i, next)
      BY <2>4, <3>2, DayTyped, Zenon
    <3>4. QED
      BY <3>1, <3>3 DEF DayDone
  <2>7. PICK C, s, t : C = Int \X Int /\ s = st.curve /\ t = next.curve
    OBVIOUS
  <2>8. s \in Seq(C) /\ mark \in C /\ t = Append(s, mark) /\ Len(s) = i - 1
    BY <2>3, <2>6, <2>7
  <2>9. Len(t) = i /\ (\A j \in 1..i - 1 : t[j] = s[j]) /\ t[i] = mark
    <3>1. /\ Len(t) = Len(s) + 1 /\ \A j \in 1..Len(s) : t[j] = s[j]
          /\ t[Len(s) + 1] = mark
      BY <2>8, AppendGrows
    <3>2. Len(s) + 1 = i
      BY <2>8
    <3>3. QED
      BY <2>8, <3>1, <3>2
  <2>10. \A j \in 1..i : t[j] = MarkAt(cfg, bars, after, j)
    <3>1. \A j \in 1..i - 1 : t[j] = MarkAt(cfg, bars, after, j)
      BY <2>3, <2>7, <2>9
    <3>2. \A j \in 1..i : j = i \/ j \in 1..i - 1
      OBVIOUS
    <3>3. QED
      BY <2>5, <2>9, <3>1, <3>2
  <2>11. QED
    BY <2>2, <2>6, <2>7, <2>9, <2>10 DEF WellBooked
<1>5. QED
  <2> DEFINE Bad == {i \in 0..Len(bars) - 1 : ~WellBooked(cfg, bars, after, i)}
  <2>1. SUFFICES ASSUME Bad # {} PROVE FALSE
    OBVIOUS
  <2>2. Bad \subseteq Nat
    OBVIOUS
  <2>3. PICK least \in Bad : \A e \in Bad : least <= e
    BY <2>1, <2>2, LeastExists
  <2>4. least \in 0..Len(bars) - 1 /\ least # 0 /\ ~WellBooked(cfg, bars, after, least)
    BY <1>3, <2>3
  <2>5. least \in 1..Len(bars) - 1 /\ least - 1 \in 0..Len(bars) - 1 /\ ~(least <= least - 1)
    BY <1>1, <2>4
  <2>6. least - 1 \notin Bad
    BY <2>3, <2>5
  <2>7. QED
    BY <1>4, <2>4, <2>5, <2>6

(* The first elements of a sequence.                                       *)
LEMMA PartOf ==
  ASSUME NEW S, NEW s \in Seq(S), NEW k \in 1..Len(s)
  PROVE  /\ SubSeq(s, 1, k) \in Seq(S) /\ Len(SubSeq(s, 1, k)) = k
         /\ \A i \in 1..k : SubSeq(s, 1, k)[i] = s[i]
         /\ \A i \in 1..k : SubSeq(SubSeq(s, 1, k), 1, i) = SubSeq(s, 1, i)
<1>1. \A i \in 1..k : s[i] \in S
  OBVIOUS
<1>2. /\ SubSeq(s, 1, k) \in Seq(S) /\ Len(SubSeq(s, 1, k)) = k
      /\ \A i \in 1..k : SubSeq(s, 1, k)[i] = s[i]
  BY <1>1, SubSeqProperties
<1>3. ASSUME NEW i \in 1..k PROVE SubSeq(SubSeq(s, 1, k), 1, i) = SubSeq(s, 1, i)
  <2>1. 1 \in 1..Len(s) /\ 1 \in 1..k - 1 + 1 /\ i \in 1..k - 1 + 1 /\ 1 + 1 - 1 = 1 /\ 1 + i - 1 = i
    OBVIOUS
  <2>2. SubSeq(SubSeq(s, 1, k), 1, i) = SubSeq(s, 1 + 1 - 1, 1 + i - 1)
    BY <2>1, SubSeqOfSubSeq
  <2>3. QED
    BY <2>1, <2>2
<1>4. QED
  BY <1>2, <1>3

(* The backtest of the first k bars passes through the states the longer   *)
(* one passes through.                                                     *)
SameSoFar(part, signalOf, short, after, k) ==
  Signalled(part, signalOf) /\ Len(part) = k /\ \A i \in 0..k - 1 : short[i] = after[i]

(* The state of a day depends on the bars up to it alone.                  *)
LEMMA PrefixAgrees ==
  ASSUME NEW cfg, NEW bars, NEW signalOf, Signalled(bars, signalOf), NEW k \in 2..Len(bars),
         NEW part, part = SubSeq(bars, 1, k),
         NEW after, after = After(cfg, bars, signalOf), NEW short, short = After(cfg, part, signalOf)
  PROVE  SameSoFar(part, signalOf, short, after, k)
<1>1. bars \in Seq(Bars) /\ Len(bars) \in Nat /\ Len(bars) >= 2 /\ k \in 1..Len(bars) /\ k \in Nat /\ k >= 2
  BY DEF Signalled
<1>2. /\ part \in Seq(Bars) /\ Len(part) = k
      /\ \A i \in 1..k : part[i] = bars[i] /\ SubSeq(part, 1, i) = SubSeq(bars, 1, i)
  BY <1>1, PartOf
<1>3. Signalled(part, signalOf)
  <2>1. ASSUME NEW i \in 1..k PROVE signalOf[SubSeq(part, 1, i)] \in Signals
    <3>1. i \in 1..Len(bars)
      BY <1>1
    <3>2. QED
      BY <1>2, <3>1 DEF Signalled
  <2>2. QED
    BY <1>1, <1>2, <2>1 DEF Signalled
<1>4. /\ after[0] = Execution!Unopened
      /\ \A i \in 1..Len(bars) - 1 : after[i] = Execution!BacktestDay(cfg, bars, signalOf, after[i - 1], i)
  BY <1>1, DaysExist DEF DayByDay
<1>5. /\ short[0] = Execution!Unopened
      /\ \A i \in 1..k - 1 : short[i] = Execution!BacktestDay(cfg, part, signalOf, short[i - 1], i)
  <2>1. Len(part) \in Nat /\ Len(part) >= 2
    BY <1>1, <1>2
  <2>2. DayByDay(cfg, part, signalOf, short)
    BY <2>1, DaysExist, Zenon
  <2>3. QED
    BY <1>2, <2>2 DEF DayByDay
<1>6. ASSUME NEW i \in 1..k - 1, short[i - 1] = after[i - 1] PROVE short[i] = after[i]
  <2>1. PICK st : st = after[i - 1] /\ st = short[i - 1]
    BY <1>6
  <2>2. i \in 1..k /\ i + 1 \in 1..k /\ i \in 1..Len(bars) - 1
    BY <1>1
  <2>3. SubSeq(part, 1, i) = SubSeq(bars, 1, i) /\ part[i + 1] = bars[i + 1]
    BY <1>2, <2>2
  <2>4. Execution!BacktestDay(cfg, part, signalOf, st, i) = Execution!BacktestDay(cfg, bars, signalOf, st, i)
    <3>1. PICK signal, bar : /\ signal = signalOf[SubSeq(bars, 1, i)] /\ bar = bars[i + 1]
                             /\ signal = signalOf[SubSeq(part, 1, i)] /\ bar = part[i + 1]
      BY <2>3
    <3>2. PICK traded : traded = Execution!Trade(cfg, st, signal, bar)
      OBVIOUS
    <3>3. Execution!BacktestDay(cfg, part, signalOf, st, i)
            = [traded EXCEPT !.curve = Append(traded.curve, Execution!Marked(cfg, traded, bar))]
      BY <3>1, <3>2, Zenon DEF Execution!BacktestDay
    <3>4. Execution!BacktestDay(cfg, bars, signalOf, st, i)
            = [traded EXCEPT !.curve = Append(traded.curve, Execution!Marked(cfg, traded, bar))]
      BY <3>1, <3>2, Zenon DEF Execution!BacktestDay
    <3>5. QED
      BY <3>3, <3>4
  <2>5. QED
    BY <1>4, <1>5, <2>1, <2>2, <2>4
<1>7. \A i \in 0..k - 1 : short[i] = after[i]
  <2> DEFINE Bad == {i \in 0..k - 1 : short[i] # after[i]}
  <2>1. SUFFICES ASSUME Bad # {} PROVE FALSE
    OBVIOUS
  <2>2. Bad \subseteq Nat
    BY <1>1
  <2>3. PICK least \in Bad : \A e \in Bad : least <= e
    BY <2>1, <2>2, LeastExists
  <2>4. least \in 0..k - 1 /\ least # 0 /\ short[least] # after[least]
    BY <1>4, <1>5, <2>3
  <2>5. least \in 1..k - 1 /\ least - 1 \in 0..k - 1 /\ ~(least <= least - 1)
    BY <1>1, <2>4
  <2>6. least - 1 \notin Bad
    BY <2>3, <2>5
  <2>7. QED
    BY <1>6, <2>4, <2>5, <2>6
<1>8. QED
  BY <1>2, <1>3, <1>7 DEF SameSoFar

(* What a backtest says of a day it says whatever comes later.             *)
LEMMA CurveOfPart ==
  ASSUME NEW cfg \in Costing, NEW bars, NEW signalOf, Signalled(bars, signalOf), NEW k \in 2..Len(bars)
  PROVE  Execution!Backtest(cfg, SubSeq(bars, 1, k), signalOf).curve
           = SubSeq(Execution!Backtest(cfg, bars, signalOf).curve, 1, k - 1)
<1>1. PICK part, after, short : /\ part = SubSeq(bars, 1, k) /\ after = After(cfg, bars, signalOf)
                                /\ short = After(cfg, part, signalOf)
  OBVIOUS
<1>2. Signalled(part, signalOf) /\ Len(part) = k /\ \A i \in 0..k - 1 : short[i] = after[i]
  <2>1. SameSoFar(part, signalOf, short, after, k)
    BY <1>1, PrefixAgrees, Zenon
  <2>2. QED
    BY <2>1 DEF SameSoFar
<1>3. PICK n \in Nat : n = Len(bars) - 1 /\ n >= 1 /\ k - 1 \in 1..n /\ k - 1 \in 0..n /\ k - 1 \in 0..k - 1 /\ n \in 0..n
  BY DEF Signalled
<1>4. PICK C, s, t : C = Int \X Int /\ s = after[n].curve /\ t = after[k - 1].curve
  OBVIOUS
<1>5. s \in Seq(C) /\ Len(s) = n /\ t \in Seq(C) /\ Len(t) = k - 1 /\ \A j \in 1..k - 1 : t[j] = s[j]
  <2>1. \A i \in 0..n : WellBooked(cfg, bars, after, i)
    BY <1>1, <1>3, AllWellBooked
  <2>2. WellBooked(cfg, bars, after, n) /\ WellBooked(cfg, bars, after, k - 1)
    BY <1>3, <2>1
  <2>3. /\ s \in Seq(C) /\ Len(s) = n /\ t \in Seq(C) /\ Len(t) = k - 1
        /\ \A j \in 1..n : s[j] = MarkAt(cfg, bars, after, j)
        /\ \A j \in 1..k - 1 : t[j] = MarkAt(cfg, bars, after, j)
    BY <1>4, <2>2 DEF WellBooked
  <2>4. \A j \in 1..k - 1 : j \in 1..n
    BY <1>3
  <2>5. QED
    BY <2>3, <2>4
<1>6. SubSeq(s, 1, k - 1) = t
  <2>1. k - 1 \in 1..Len(s)
    BY <1>3, <1>5
  <2>2. /\ SubSeq(s, 1, k - 1) \in Seq(C) /\ Len(SubSeq(s, 1, k - 1)) = k - 1
        /\ \A i \in 1..k - 1 : SubSeq(s, 1, k - 1)[i] = s[i]
    BY <1>5, <2>1, PartOf
  <2>3. QED
    BY <1>5, <2>2, SeqEqual
<1>7. Execution!Backtest(cfg, bars, signalOf) = after[n]
  BY <1>1, <1>3, BacktestIsLast DEF Signalled
<1>8. Execution!Backtest(cfg, part, signalOf) = after[k - 1]
  <2>1. Execution!Backtest(cfg, part, signalOf) = short[k - 1]
    <3>1. Len(part) \in Nat /\ Len(part) >= 2 /\ Len(part) - 1 = k - 1
      BY <1>2
    <3>2. Execution!Backtest(cfg, part, signalOf) = After(cfg, part, signalOf)[Len(part) - 1]
      BY <3>1, BacktestIsLast
    <3>3. QED
      BY <1>1, <3>1, <3>2
  <2>2. QED
    BY <1>2, <1>3, <2>1
<1>9. QED
  BY <1>1, <1>4, <1>6, <1>7, <1>8

(* What prices do to the equity of one who was long before the open, and   *)
(* is after it.                                                            *)
Gain(was, is, before, bar) ==
  <<(IF was THEN bar.open ELSE 1) * (IF is THEN bar.close ELSE 1),
    (IF was THEN before.close ELSE 1) * (IF is THEN bar.open ELSE 1)>>

(* A mark times a gain.                                                    *)
Scaled(mark, gain) == <<mark[1] * gain[1], mark[2] * gain[2]>>

(* The numbers a long position is marked with: equity, entry, close and    *)
(* unit.                                                                   *)
LongAt(cfg, st, bar, a, b, e, c, u) ==
  st.equity = <<a, b>> /\ st.entry = e /\ bar.close = c /\ cfg.unit = u /\ st.position = 1

(* Its mark.                                                               *)
MarkedLong(mark, a, b, e, c, u) == mark = <<a * (c * u), b * e>>

(* Of a long position the mark is the equity at the close over the entry.  *)
LEMMA MarkLong ==
  ASSUME NEW cfg, NEW st, NEW bar, NEW a \in Int, NEW b \in Int, NEW e \in Int, NEW c \in Int, NEW u \in Int,
         LongAt(cfg, st, bar, a, b, e, c, u)
  PROVE  MarkedLong(Execution!Marked(cfg, st, bar), a, b, e, c, u)
<1>1. e + (c * u - e) * 1 = c * u
  <2>1. PICK x \in Int : x = c * u
    OBVIOUS
  <2>2. e + (x - e) * 1 = x
    OBVIOUS
  <2>3. QED
    BY <2>1, <2>2
<1>2. /\ st.equity[1] = a /\ st.equity[2] = b /\ st.entry = e /\ bar.close = c /\ cfg.unit = u
      /\ st.position = 1
  BY DEF LongAt
<1>3. Execution!Marked(cfg, st, bar) = <<a * (e + (c * u - e) * 1), b * e>>
  BY <1>2 DEF Execution!Marked
<1>4. QED
  BY <1>1, <1>3 DEF MarkedLong

(* The position is the signal's, and the mark moves as prices do while it  *)
(* is held.                                                                *)
FollowsPrices(cfg, st, signal, before, bar, traded) ==
  /\ traded.position = (IF signal = 1 THEN 1 ELSE 0)
  /\ Equal(Execution!Marked(cfg, traded, bar),
           Scaled(Execution!Marked(cfg, st, before), Gain(st.position = 1, traded.position = 1, before, bar)))

(* So does every trade without costs and short sales.                      *)
LEMMA ProductStep ==
  ASSUME NEW cfg \in Costing, cfg.slip = 0, cfg.commission = 0, ~cfg.shorts,
         NEW st, Booked(st), st.position \in {0, 1}, NEW signal \in Signals,
         NEW before \in Bars, NEW bar \in Bars,
         NEW traded, traded = Execution!Trade(cfg, st, signal, bar)
  PROVE  FollowsPrices(cfg, st, signal, before, bar, traded)
<1>1. PICK a \in Int, b \in Int, e \in Int, u \in Int, o \in Int, c \in Int, p \in Int :
        /\ st.equity = <<a, b>> /\ st.entry = e /\ cfg.unit = u /\ bar.open = o /\ bar.close = c
        /\ before.close = p
  <2>1. /\ st.entry \in Int /\ cfg.unit \in Int /\ bar.open \in Int /\ bar.close \in Int
        /\ before.close \in Int
    BY DEF Booked, Costing, Bars
  <2>2. \E a, b \in Int : st.equity = <<a, b>>
    BY DEF Booked
  <2>3. QED
    BY <2>1, <2>2, Zenon
<1>2. st.equity[1] = a /\ st.equity[2] = b
  BY <1>1
<1> DEFINE m0 == Execution!Marked(cfg, st, before)
           m1 == Execution!Marked(cfg, traded, bar)
           g == Gain(st.position = 1, traded.position = 1, before, bar)
<1>3. CASE signal = st.position
  <2>1. traded = st
    BY <1>3, TradeStays
  <2>2. traded.position = (IF signal = 1 THEN 1 ELSE 0)
    BY <1>3, <2>1
  <2>3. CASE st.position = 0
    <3>1. m0 = <<a, b>> /\ m1 = <<a, b>> /\ g = <<1 * 1, 1 * 1>>
      BY <1>1, <2>1, <2>3 DEF Execution!Marked, Gain
    <3>2. QED
      BY <1>1, <2>2, <3>1 DEF Equal, Scaled, FollowsPrices
  <2>4. CASE st.position = 1
    <3>1. m0 = <<a * (p * u), b * e>> /\ m1 = <<a * (c * u), b * e>> /\ g = <<o * c, p * o>>
      <4>1. m0 = <<a * (p * u), b * e>>
        <5>1. LongAt(cfg, st, before, a, b, e, p, u)
          BY <1>1, <2>4 DEF LongAt
        <5>2. MarkedLong(m0, a, b, e, p, u)
          BY <1>1, <5>1, MarkLong, Zenon
        <5>3. QED
          BY <5>2 DEF MarkedLong
      <4>2. m1 = <<a * (c * u), b * e>>
        <5>1. LongAt(cfg, traded, bar, a, b, e, c, u)
          BY <1>1, <2>1, <2>4 DEF LongAt
        <5>2. MarkedLong(m1, a, b, e, c, u)
          BY <1>1, <5>1, MarkLong, Zenon
        <5>3. QED
          BY <5>2 DEF MarkedLong
      <4>3. g = <<o * c, p * o>>
        BY <1>1, <2>1, <2>4 DEF Gain
      <4>4. QED
        BY <4>1, <4>2, <4>3
    <3>2. a * (c * u) * (b * e * (p * o)) = a * (p * u) * (o * c) * (b * e)
      BY <1>1
    <3>3. QED
      BY <2>2, <3>1, <3>2 DEF Equal, Scaled, FollowsPrices
  <2>5. QED
    BY <2>3, <2>4
<1>4. CASE signal # st.position
  <2>1. PICK price, up, down : Moved(cfg, st, signal, bar, traded, price, up, down)
    BY <1>4, TradeMoves
  <2>2. price = o * u
    <3>1. PICK sign \in Int : sign = Execution!Sign(signal - st.position)
      BY DEF Execution!Sign
    <3>2. price = o * (u + 0 * sign)
      BY <1>1, <2>1, <3>1 DEF Moved, Execution!FillPrice
    <3>3. QED
      BY <1>1, <3>1, <3>2
  <2>3. traded.position = (IF signal = 1 THEN 1 ELSE 0)
    BY <2>1 DEF Moved, Signals
  <2>4. CASE st.position = 0
    <3>1. signal \in {-1, 1} /\ m0 = <<a, b>> /\ traded.equity = <<a, b>>
      BY <1>1, <1>4, <2>1, <2>4 DEF Moved, Signals, Execution!Marked
    <3>2. CASE signal = 1
      <4>1. traded.position = 1 /\ traded.entry = o * u
        BY <2>1, <2>2, <2>3, <3>2 DEF Moved
      <4>2. m1 = <<a * (c * u), b * (o * u)>>
        <5>1. PICK entry \in Int : entry = o * u
          BY <1>1
        <5>2. LongAt(cfg, traded, bar, a, b, entry, c, u)
          BY <1>1, <3>1, <4>1, <5>1 DEF LongAt
        <5>3. MarkedLong(m1, a, b, entry, c, u)
          BY <1>1, <5>1, <5>2, MarkLong, Zenon
        <5>4. QED
          BY <5>1, <5>3 DEF MarkedLong
      <4>3. g = <<1 * c, 1 * o>>
        BY <1>1, <2>4, <4>1 DEF Gain
      <4>4. a * (c * u) * (b * (1 * o)) = a * (1 * c) * (b * (o * u))
        BY <1>1
      <4>5. QED
        BY <2>3, <3>1, <4>2, <4>3, <4>4 DEF Equal, Scaled, FollowsPrices
    <3>3. CASE signal = -1
      <4>1. traded.position = 0
        BY <2>3, <3>3
      <4>2. m1 = <<a, b>> /\ g = <<1 * 1, 1 * 1>>
        BY <2>4, <3>1, <4>1 DEF Gain, Execution!Marked
      <4>3. QED
        BY <1>1, <2>3, <3>1, <4>2 DEF Equal, Scaled, FollowsPrices
    <3>4. QED
      BY <3>1, <3>2, <3>3
  <2>5. CASE st.position = 1
    <3>1. traded.position = 0 /\ traded.equity = <<a * up, b * down>>
      BY <1>2, <1>4, <2>1, <2>3, <2>5 DEF Moved
    <3>2. up = o * u * u /\ down = e * u
      <4>1. up = e * u + (o * u - e) * 1 * u - 2 * (0 + 0) * e /\ down = e * u
        BY <1>1, <2>1, <2>2, <2>5 DEF Moved
      <4>2. e * u + (o * u - e) * 1 * u - 2 * (0 + 0) * e = o * u * u
        BY <1>1
      <4>3. QED
        BY <4>1, <4>2
    <3>3. m1 = <<a * (o * u * u), b * (e * u)>>
      BY <3>1, <3>2 DEF Execution!Marked
    <3>4. m0 = <<a * (p * u), b * e>>
      <4>1. LongAt(cfg, st, before, a, b, e, p, u)
        BY <1>1, <2>5 DEF LongAt
      <4>2. MarkedLong(m0, a, b, e, p, u)
        BY <1>1, <4>1, MarkLong, Zenon
      <4>3. QED
        BY <4>2 DEF MarkedLong
    <3>5. g = <<o * 1, p * 1>>
      BY <1>1, <2>5, <3>1 DEF Gain
    <3>6. a * (o * u * u) * (b * e * (p * 1)) = a * (p * u) * (o * 1) * (b * (e * u))
      BY <1>1
    <3>7. QED
      BY <2>3, <3>3, <3>4, <3>5, <3>6 DEF Equal, Scaled, FollowsPrices
  <2>6. QED
    BY <2>4, <2>5
<1>5. QED
  BY <1>3, <1>4

(* Every day of the backtest is one.                                       *)
LEMMA AllDaysDone ==
  ASSUME NEW cfg \in Costing, NEW bars, NEW signalOf, Signalled(bars, signalOf),
         NEW after, after = After(cfg, bars, signalOf), NEW i \in 1..Len(bars) - 1
  PROVE  DayDone(cfg, bars, signalOf, after[i - 1], i, after[i])
<1>1. Len(bars) \in Nat /\ Len(bars) >= 2 /\ i - 1 \in 0..Len(bars) - 1
  BY DEF Signalled
<1>2. DayByDay(cfg, bars, signalOf, after)
  BY <1>1, DaysExist, Zenon
<1>3. PICK st, next : st = after[i - 1] /\ next = after[i]
  OBVIOUS
<1>4. next = Execution!BacktestDay(cfg, bars, signalOf, st, i)
  BY <1>2, <1>3 DEF DayByDay
<1>5. Booked(st) /\ st.curve \in Seq(Int \X Int)
  <2>1. \A j \in 0..Len(bars) - 1 : WellBooked(cfg, bars, after, j)
    BY AllWellBooked, Zenon
  <2>2. WellBooked(cfg, bars, after, i - 1)
    BY <1>1, <2>1
  <2>3. QED
    BY <1>3, <2>2 DEF WellBooked
<1>6. DayDone(cfg, bars, signalOf, st, i, next)
  BY <1>4, <1>5, DayTyped, Zenon
<1>7. QED
  BY <1>3, <1>6

(* A day for those who read the bars, the signal and the trade behind it.  *)
SeenOn(cfg, bars, signalOf, after, i, before, bar, signal, traded) ==
  /\ before \in Bars /\ bar \in Bars /\ signal \in Signals
  /\ before = bars[i] /\ bar = bars[i + 1] /\ signal = signalOf[SubSeq(bars, 1, i)]
  /\ Booked(after[i - 1]) /\ Booked(traded)
  /\ traded = Execution!Trade(cfg, after[i - 1], signal, bar)
  /\ after[i].position = traded.position /\ after[i].entry = traded.entry
  /\ after[i].equity = traded.equity
  /\ MarkAt(cfg, bars, after, i) = Execution!Marked(cfg, traded, bar)

(* Every day has them.                                                     *)
LEMMA DayOf ==
  ASSUME NEW cfg \in Costing, NEW bars, NEW signalOf, Signalled(bars, signalOf),
         NEW after, after = After(cfg, bars, signalOf), NEW i \in 1..Len(bars) - 1
  PROVE  \E before, bar, signal, traded :
           SeenOn(cfg, bars, signalOf, after, i, before, bar, signal, traded)
<1>1. /\ bars \in Seq(Bars) /\ i \in 1..Len(bars) /\ i + 1 \in 1..Len(bars)
      /\ i - 1 \in 0..Len(bars) - 1
  BY DEF Signalled
<1>2. bars[i] \in Bars /\ bars[i + 1] \in Bars /\ signalOf[SubSeq(bars, 1, i)] \in Signals
  BY <1>1 DEF Signalled
<1>3. PICK before, bar, signal, traded :
        /\ before = bars[i] /\ bar = bars[i + 1] /\ signal = signalOf[SubSeq(bars, 1, i)]
        /\ traded = Execution!Trade(cfg, after[i - 1], signal, bar)
  OBVIOUS
<1>4. before \in Bars /\ bar \in Bars /\ signal \in Signals
  BY <1>2, <1>3
<1>5. DayDone(cfg, bars, signalOf, after[i - 1], i, after[i])
  BY AllDaysDone, Zenon
<1>6. /\ Booked(traded) /\ after[i].position = traded.position /\ after[i].entry = traded.entry
      /\ after[i].equity = traded.equity
  BY <1>3, <1>5 DEF DayDone
<1>7. Booked(after[i - 1])
  <2>1. \A j \in 0..Len(bars) - 1 : WellBooked(cfg, bars, after, j)
    BY AllWellBooked, Zenon
  <2>2. WellBooked(cfg, bars, after, i - 1)
    BY <1>1, <2>1
  <2>3. QED
    BY <2>2 DEF WellBooked
<1>8. MarkAt(cfg, bars, after, i) = Execution!Marked(cfg, traded, bar)
  BY <1>3, <1>6 DEF MarkAt, Execution!Marked
<1>9. QED
  <2>1. SeenOn(cfg, bars, signalOf, after, i, before, bar, signal, traded)
    BY <1>3, <1>4, <1>6, <1>7, <1>8, Zenon DEF SeenOn
  <2>2. QED
    BY <2>1

(* The signal of the bars before the k-th was long.                        *)
LongSince(bars, signalOf, k) == k > 1 /\ signalOf[SubSeq(bars, 1, k - 1)] = 1

(* Without short sales the position after a day is that signal's.          *)
LEMMA LongFollowsSignal ==
  ASSUME NEW cfg \in Costing, cfg.slip = 0, cfg.commission = 0, ~cfg.shorts,
         NEW bars, NEW signalOf, Signalled(bars, signalOf), NEW after, after = After(cfg, bars, signalOf)
  PROVE  \A i \in 0..Len(bars) - 1 :
           after[i].position = IF LongSince(bars, signalOf, i + 1) THEN 1 ELSE 0
<1> DEFINE Right(i) == after[i].position = IF LongSince(bars, signalOf, i + 1) THEN 1 ELSE 0
<1>1. Len(bars) \in Nat /\ Len(bars) >= 2
  BY DEF Signalled
<1>2. Right(0)
  <2>1. DayByDay(cfg, bars, signalOf, after)
    BY <1>1, DaysExist, Zenon
  <2>2. QED
    BY <2>1 DEF DayByDay, Execution!Unopened, LongSince
<1>3. ASSUME NEW i \in 1..Len(bars) - 1, Right(i - 1) PROVE Right(i)
  <2>1. PICK before, bar, signal, traded :
          SeenOn(cfg, bars, signalOf, after, i, before, bar, signal, traded)
    BY DayOf, Zenon
  <2>2. /\ before \in Bars /\ bar \in Bars /\ signal \in Signals
        /\ signal = signalOf[SubSeq(bars, 1, i)] /\ Booked(after[i - 1])
        /\ traded = Execution!Trade(cfg, after[i - 1], signal, bar)
        /\ after[i].position = traded.position
    BY <2>1 DEF SeenOn
  <2>3. after[i - 1].position \in {0, 1}
    BY <1>3
  <2>4. traded.position = (IF signal = 1 THEN 1 ELSE 0)
    <3>1. PICK st : st = after[i - 1]
      OBVIOUS
    <3>2. Booked(st) /\ st.position \in {0, 1} /\ traded = Execution!Trade(cfg, st, signal, bar)
      BY <2>2, <2>3, <3>1
    <3>3. FollowsPrices(cfg, st, signal, before, bar, traded)
      BY <2>2, <3>2, ProductStep, Zenon
    <3>4. QED
      BY <3>3 DEF FollowsPrices
  <2>5. LongSince(bars, signalOf, i + 1) <=> signal = 1
    <3>1. i + 1 > 1 /\ (i + 1) - 1 = i
      OBVIOUS
    <3>2. QED
      BY <2>2, <3>1 DEF LongSince
  <2>6. QED
    BY <2>2, <2>4, <2>5
<1>4. QED
  <2> DEFINE Bad == {i \in 0..Len(bars) - 1 : ~Right(i)}
  <2>1. SUFFICES ASSUME Bad # {} PROVE FALSE
    OBVIOUS
  <2> HIDE DEF Right
  <2>2. Bad \subseteq Nat
    OBVIOUS
  <2>3. PICK least \in Bad : \A e \in Bad : least <= e
    BY <2>1, <2>2, LeastExists
  <2>4. least \in 0..Len(bars) - 1 /\ least # 0 /\ ~Right(least)
    BY <1>2, <2>3
  <2>5. least \in 1..Len(bars) - 1 /\ least - 1 \in 0..Len(bars) - 1 /\ ~(least <= least - 1)
    BY <1>1, <2>4
  <2>6. least - 1 \notin Bad
    BY <2>3, <2>5
  <2>7. QED
    BY <1>3, <2>4, <2>5, <2>6

(* The curve has a point for each day traded: its mark.                    *)
LEMMA CurveIsMarks ==
  ASSUME NEW cfg \in Costing, NEW bars, NEW signalOf, Signalled(bars, signalOf),
         NEW after, after = After(cfg, bars, signalOf),
         NEW curve, curve = Execution!Backtest(cfg, bars, signalOf).curve
  PROVE  /\ curve \in Seq(Int \X Int) /\ Len(curve) = Len(bars) - 1
         /\ \A i \in 1..Len(bars) - 1 : curve[i] = MarkAt(cfg, bars, after, i)
<1>1. PICK n \in Nat : n = Len(bars) - 1 /\ n \in 0..Len(bars) - 1 /\ Len(bars) \in Nat /\ Len(bars) >= 2
  BY DEF Signalled
<1>2. \A j \in 0..Len(bars) - 1 : WellBooked(cfg, bars, after, j)
  BY AllWellBooked, Zenon
<1>3. WellBooked(cfg, bars, after, n)
  BY <1>1, <1>2
<1>4. curve = after[n].curve
  BY <1>1, BacktestIsLast
<1>5. QED
  BY <1>1, <1>3, <1>4 DEF WellBooked

(* Without costs and short sales a point of the curve is the one before it *)
(* times what prices did while the position was held.                      *)
LEMMA EquityFollowsPrices ==
  ASSUME NEW cfg \in Costing, cfg.slip = 0, cfg.commission = 0, ~cfg.shorts,
         NEW bars, NEW signalOf, Signalled(bars, signalOf), NEW k \in 2..Len(bars),
         NEW curve, curve = Execution!Backtest(cfg, bars, signalOf).curve,
         NEW start, start = (IF k = 2 THEN <<1, 1>> ELSE curve[k - 2])
  PROVE  Equal(curve[k - 1],
               Scaled(start, Gain(LongSince(bars, signalOf, k - 1), LongSince(bars, signalOf, k),
                                  bars[k - 1], bars[k])))
<1>1. PICK after : after = After(cfg, bars, signalOf)
  OBVIOUS
<1>2. PICK i \in Nat : /\ i = k - 1 /\ i \in 1..Len(bars) - 1 /\ i \in 0..Len(bars) - 1 /\ k = i + 1
                       /\ i - 1 \in 0..Len(bars) - 1 /\ (i - 1) + 1 = i /\ k - 2 = i - 1
                       /\ Len(bars) \in Nat /\ Len(bars) >= 2
  BY DEF Signalled
<1>3. PICK before, bar, signal, traded : SeenOn(cfg, bars, signalOf, after, i, before, bar, signal, traded)
  BY <1>1, <1>2, DayOf, Zenon
<1>4. PICK st : st = after[i - 1]
  OBVIOUS
<1>5. /\ before \in Bars /\ bar \in Bars /\ signal \in Signals
      /\ before = bars[i] /\ bar = bars[i + 1]
      /\ Booked(st) /\ traded = Execution!Trade(cfg, st, signal, bar)
      /\ after[i].position = traded.position
      /\ MarkAt(cfg, bars, after, i) = Execution!Marked(cfg, traded, bar)
  BY <1>3, <1>4 DEF SeenOn
<1>6. /\ st.position = (IF LongSince(bars, signalOf, i) THEN 1 ELSE 0)
      /\ traded.position = (IF LongSince(bars, signalOf, i + 1) THEN 1 ELSE 0)
  <2>1. \A j \in 0..Len(bars) - 1 : after[j].position = IF LongSince(bars, signalOf, j + 1) THEN 1 ELSE 0
    BY <1>1, LongFollowsSignal, Zenon
  <2>2. after[i - 1].position = (IF LongSince(bars, signalOf, (i - 1) + 1) THEN 1 ELSE 0)
    BY <1>2, <2>1
  <2>3. after[i].position = (IF LongSince(bars, signalOf, i + 1) THEN 1 ELSE 0)
    BY <1>2, <2>1
  <2>4. QED
    BY <1>2, <1>4, <1>5, <2>2, <2>3
<1>7. FollowsPrices(cfg, st, signal, before, bar, traded)
  <2>1. st.position \in {0, 1}
    BY <1>6
  <2>2. QED
    BY <1>5, <2>1, ProductStep, Zenon
<1>8. \A j \in 1..Len(bars) - 1 : curve[j] = MarkAt(cfg, bars, after, j)
  BY <1>1, CurveIsMarks, SMTT(40)
<1>9. curve[i] = Execution!Marked(cfg, traded, bar)
  BY <1>2, <1>5, <1>8
<1>10. start = Execution!Marked(cfg, st, before)
  <2>1. CASE k = 2
    <3>1. DayByDay(cfg, bars, signalOf, after)
      BY <1>1, <1>2, DaysExist, Zenon
    <3>2. i - 1 = 0
      BY <1>2, <2>1
    <3>3. st = Execution!Unopened
      BY <1>4, <3>1, <3>2 DEF DayByDay
    <3>4. QED
      BY <2>1, <3>3 DEF Execution!Unopened, Execution!Marked
  <2>2. CASE k # 2
    <3>1. i - 1 \in 1..Len(bars) - 1
      BY <1>2, <2>2
    <3>2. start = MarkAt(cfg, bars, after, i - 1)
      BY <1>2, <1>8, <2>2, <3>1
    <3>3. QED
      BY <1>2, <1>4, <1>5, <3>2 DEF MarkAt
  <2>3. QED
    BY <2>1, <2>2
<1>11. Gain(st.position = 1, traded.position = 1, before, bar)
         = Gain(LongSince(bars, signalOf, i), LongSince(bars, signalOf, i + 1), before, bar)
  BY <1>6 DEF Gain
<1>12. QED
  BY <1>2, <1>5, <1>7, <1>9, <1>10, <1>11 DEF FollowsPrices

(* Products of ordered numbers that are not negative.                      *)
LEMMA ProductsOrdered ==
  ASSUME NEW a \in Int, NEW b \in Int, NEW x \in Int, NEW y \in Int, 0 <= a, a <= b, 0 <= x, x <= y
  PROVE  0 <= a * x /\ a * x <= b * y
<1>1. a * x <= b * x
  <2>1. 0 <= (b - a) * x
    OBVIOUS
  <2>2. (b - a) * x = b * x - a * x
    OBVIOUS
  <2>3. QED
    BY <2>1, <2>2
<1>2. b * x <= b * y
  <2>1. 0 <= b * (y - x)
    OBVIOUS
  <2>2. b * (y - x) = b * y - b * x
    OBVIOUS
  <2>3. QED
    BY <2>1, <2>2
<1>3. 0 <= a * x
  OBVIOUS
<1>4. QED
  BY <1>1, <1>2, <1>3

(* At a constant price closing a position costs something, and less than   *)
(* the position.                                                           *)
LEMMA ClosingCosts ==
  ASSUME NEW u \in Nat, NEW s \in Nat, NEW c \in Nat, 8 * (c + s) <= u
  PROVE  /\ 0 <= (u + s) * u + (u - s - (u + s)) * 1 * u - 2 * (c + s) * (u + s)
         /\ (u + s) * u + (u - s - (u + s)) * 1 * u - 2 * (c + s) * (u + s) <= (u + s) * u
         /\ 0 <= (u - s) * u + (u + s - (u - s)) * (-1) * u - 2 * (c + s) * (u - s)
         /\ (u - s) * u + (u + s - (u - s)) * (-1) * u - 2 * (c + s) * (u - s) <= (u - s) * u
<1>1. PICK t \in Nat : t = c + s /\ 8 * t <= u /\ 8 * s <= u /\ s <= u
  OBVIOUS
<1>2. PICK uu \in Int, su \in Int, tu \in Int, ts \in Int : uu = u * u /\ su = s * u /\ tu = t * u /\ ts = t * s
  BY <1>1
<1>3. 0 <= su /\ 8 * su <= uu
  <2>1. 0 <= s * u /\ 0 <= (u - 8 * s) * u
    BY <1>1
  <2>2. (u - 8 * s) * u = u * u - 8 * (s * u)
    OBVIOUS
  <2>3. QED
    BY <1>2, <2>1, <2>2
<1>4. 0 <= tu /\ 8 * tu <= uu
  <2>1. 0 <= t * u /\ 0 <= (u - 8 * t) * u
    BY <1>1
  <2>2. (u - 8 * t) * u = u * u - 8 * (t * u)
    BY <1>1
  <2>3. QED
    BY <1>2, <2>1, <2>2
<1>5. 0 <= ts /\ ts <= tu
  <2>1. 0 <= t * s /\ 0 <= t * (u - s)
    BY <1>1
  <2>2. t * (u - s) = t * u - t * s
    BY <1>1
  <2>3. QED
    BY <1>2, <2>1, <2>2
<1>6. /\ (u + s) * u = uu + su /\ (u - s) * u = uu - su
      /\ (u - s - (u + s)) * 1 * u = -2 * su
      /\ (u + s - (u - s)) * (-1) * u = -2 * su
      /\ 2 * (c + s) * (u + s) = 2 * tu + 2 * ts
      /\ 2 * (c + s) * (u - s) = 2 * tu - 2 * ts
  BY <1>1, <1>2
<1>7. /\ 0 <= (uu + su) + (-2 * su) - (2 * tu + 2 * ts)
      /\ (uu + su) + (-2 * su) - (2 * tu + 2 * ts) <= uu + su
      /\ 0 <= (uu - su) + (-2 * su) - (2 * tu - 2 * ts)
      /\ (uu - su) + (-2 * su) - (2 * tu - 2 * ts) <= uu - su
  BY <1>2, <1>3, <1>4, <1>5
<1>8. QED
  BY <1>6, <1>7

(* Commission and slippage are an eighth of a price at most.               *)
Modest(cfg) == 8 * (cfg.commission + cfg.slip) <= cfg.unit

(* The equity is not above the start.                                      *)
NoGain(mark) == mark[1] <= mark[2]

(* At a constant price nothing was gained, and a position was entered at   *)
(* that price and the slippage.                                            *)
FlatAt(cfg, st) ==
  /\ 0 <= st.equity[1] /\ st.equity[1] <= st.equity[2]
  /\ st.position = 1 => st.entry = cfg.unit + cfg.slip
  /\ st.position = -1 => st.entry = cfg.unit - cfg.slip

(* Marked there, it gained nothing.                                        *)
LEMMA FlatMark ==
  ASSUME NEW cfg \in Costing, Modest(cfg), NEW st, Booked(st), FlatAt(cfg, st), NEW bar \in Bars, bar.close = 1
  PROVE  NoGain(Execution!Marked(cfg, st, bar))
<1>1. PICK a \in Int, b \in Int, e \in Int, u \in Nat, s \in Nat :
        /\ st.equity = <<a, b>> /\ st.entry = e /\ cfg.unit = u /\ cfg.slip = s
  <2>1. st.entry \in Int /\ cfg.unit \in Nat /\ cfg.slip \in Nat
    BY DEF Booked, Costing
  <2>2. \E a, b \in Int : st.equity = <<a, b>>
    BY DEF Booked
  <2>3. QED
    BY <2>1, <2>2, Zenon
<1>2. st.equity[1] = a /\ st.equity[2] = b /\ 0 <= a /\ a <= b
  BY <1>1 DEF FlatAt
<1>3. 2 * s <= u
  BY <1>1 DEF Modest, Costing
<1>4. CASE st.position = 0
  BY <1>2, <1>4 DEF Execution!Marked, NoGain
<1>5. CASE st.position # 0
  <2>1. PICK position \in {-1, 1} : position = st.position
    BY <1>5 DEF Booked, Signals
  <2>2. PICK worth \in Int : worth = e + (u - e) * position
    BY <1>1, <2>1
  <2>3. 0 <= worth /\ worth <= e
    <3>1. CASE position = 1
      BY <1>1, <2>1, <2>2, <3>1 DEF FlatAt
    <3>2. CASE position = -1
      BY <1>1, <1>3, <2>1, <2>2, <3>2 DEF FlatAt
    <3>3. QED
      BY <2>1, <3>1, <3>2
  <2>4. a * worth <= b * e
    BY <1>1, <1>2, <2>2, <2>3, ProductsOrdered
  <2>5. Execution!Marked(cfg, st, bar) = <<a * (e + (1 * u - e) * position), b * e>>
    BY <1>1, <1>2, <1>5, <2>1 DEF Execution!Marked
  <2>6. e + (1 * u - e) * position = worth
    BY <1>1, <2>1, <2>2
  <2>7. Execution!Marked(cfg, st, bar) = <<a * worth, b * e>>
    BY <2>5, <2>6
  <2>8. QED
    BY <2>4, <2>7 DEF NoGain
<1>6. QED
  BY <1>4, <1>5

(* A trade at a constant price gains nothing.                              *)
LEMMA FlatStep ==
  ASSUME NEW cfg \in Costing, Modest(cfg), NEW st, Booked(st), FlatAt(cfg, st), NEW signal \in Signals,
         NEW bar \in Bars, bar.open = 1, NEW traded, traded = Execution!Trade(cfg, st, signal, bar)
  PROVE  FlatAt(cfg, traded)
<1>1. CASE signal = st.position
  BY <1>1, TradeStays
<1>2. CASE signal # st.position
  <2>1. PICK price, up, down : Moved(cfg, st, signal, bar, traded, price, up, down)
    BY <1>2, TradeMoves
  <2>2. PICK a \in Int, b \in Int, e \in Int, u \in Nat, s \in Nat, c \in Nat :
          /\ st.equity = <<a, b>> /\ st.entry = e /\ cfg.unit = u /\ cfg.slip = s /\ cfg.commission = c
    <3>1. st.entry \in Int /\ cfg.unit \in Nat /\ cfg.slip \in Nat /\ cfg.commission \in Nat
      BY DEF Booked, Costing
    <3>2. \E a, b \in Int : st.equity = <<a, b>>
      BY DEF Booked
    <3>3. QED
      BY <3>1, <3>2, Zenon
  <2>3. st.equity[1] = a /\ st.equity[2] = b /\ 0 <= a /\ a <= b
    BY <2>2 DEF FlatAt
  <2>4. 8 * (c + s) <= u
    BY <2>2 DEF Modest
  <2>5. price = (IF signal > st.position THEN u + s ELSE u - s)
    <3>1. PICK position \in {-1, 0, 1} : position = st.position
      BY DEF Booked, Signals
    <3>2. Execution!Sign(signal - position) = IF signal > position THEN 1 ELSE -1
      BY <1>2, <3>1 DEF Execution!Sign, Signals
    <3>3. PICK sign \in {-1, 1} : sign = (IF signal > position THEN 1 ELSE -1)
      OBVIOUS
    <3>4. price = 1 * (u + s * sign)
      BY <2>1, <2>2, <3>1, <3>2, <3>3 DEF Moved, Execution!FillPrice
    <3>5. QED
      BY <2>2, <3>1, <3>3, <3>4
  <2>6. /\ traded.position = 1 => traded.entry = u + s
        /\ traded.position = -1 => traded.entry = u - s
    <3>1. PICK position \in {-1, 0, 1} : position = st.position
      BY DEF Booked, Signals
    <3>2. /\ traded.position = (IF cfg.shorts \/ signal >= 0 THEN signal ELSE 0)
          /\ traded.entry = (IF traded.position = 0 THEN 0 ELSE price)
      BY <2>1 DEF Moved
    <3>3. QED
      BY <1>2, <2>5, <3>1, <3>2 DEF Signals
  <2>7. 0 <= traded.equity[1] /\ traded.equity[1] <= traded.equity[2]
    <3>1. CASE st.position = 0
      BY <2>1, <2>3, <3>1 DEF Moved
    <3>2. CASE st.position # 0
      <4>1. traded.equity = <<a * up, b * down>>
        BY <2>1, <2>3, <3>2 DEF Moved
      <4>2. up \in Int /\ down \in Int /\ 0 <= up /\ up <= down
        <5>1. CASE st.position = 1
          <6>1. e = u + s /\ price = u - s
            BY <1>2, <2>2, <2>5, <5>1 DEF FlatAt, Signals
          <6>2. up = (u + s) * u + (u - s - (u + s)) * 1 * u - 2 * (c + s) * (u + s) /\ down = (u + s) * u
            BY <2>1, <2>2, <5>1, <6>1 DEF Moved
          <6>3. /\ 0 <= (u + s) * u + (u - s - (u + s)) * 1 * u - 2 * (c + s) * (u + s)
                /\ (u + s) * u + (u - s - (u + s)) * 1 * u - 2 * (c + s) * (u + s) <= (u + s) * u
            BY <2>2, <2>4, ClosingCosts, Zenon
          <6>4. (u + s) * u \in Int /\ (u + s) * u + (u - s - (u + s)) * 1 * u - 2 * (c + s) * (u + s) \in Int
            BY <2>2
          <6>5. QED
            BY <6>2, <6>3, <6>4, Zenon
        <5>2. CASE st.position = -1
          <6>1. e = u - s /\ price = u + s
            BY <1>2, <2>2, <2>5, <5>2 DEF FlatAt, Signals
          <6>2. up = (u - s) * u + (u + s - (u - s)) * (-1) * u - 2 * (c + s) * (u - s) /\ down = (u - s) * u
            <7>1. PICK position \in Int : position = st.position /\ position = -1
              BY <5>2
            <7>2. up = e * u + (price - e) * position * u - 2 * (c + s) * e /\ down = e * u
              BY <2>1, <2>2, <7>1 DEF Moved
            <7>3. (price - e) * position * u = (price - e) * (-1) * u
              BY <7>1
            <7>4. QED
              BY <6>1, <7>2, <7>3
          <6>3. /\ 0 <= (u - s) * u + (u + s - (u - s)) * (-1) * u - 2 * (c + s) * (u - s)
                /\ (u - s) * u + (u + s - (u - s)) * (-1) * u - 2 * (c + s) * (u - s) <= (u - s) * u
            BY <2>2, <2>4, ClosingCosts, ZenonT(60)
          <6>4. (u - s) * u \in Int /\ (u - s) * u + (u + s - (u - s)) * (-1) * u - 2 * (c + s) * (u - s) \in Int
            BY <2>2
          <6>5. QED
            BY <6>2, <6>3, <6>4, Zenon
        <5>3. QED
          BY <3>2, <5>1, <5>2 DEF Booked, Signals
      <4>3. 0 <= a * up /\ a * up <= b * down
        BY <2>2, <2>3, <4>2, ProductsOrdered
      <4>4. QED
        BY <4>1, <4>3
    <3>3. QED
      BY <3>1, <3>2
  <2>8. QED
    BY <2>2, <2>6, <2>7 DEF FlatAt
<1>3. QED
  BY <1>1, <1>2

(* No day of constant prices does.                                         *)
LEMMA FlatNeverGains ==
  ASSUME NEW cfg \in Costing, Modest(cfg), NEW bars, NEW signalOf, Signalled(bars, signalOf),
         \A k \in 1..Len(bars) : bars[k].open = 1 /\ bars[k].close = 1,
         NEW curve, curve = Execution!Backtest(cfg, bars, signalOf).curve
  PROVE  \A k \in DOMAIN curve : NoGain(curve[k])
<1>1. PICK after : after = After(cfg, bars, signalOf)
  OBVIOUS
<1>2. Len(bars) \in Nat /\ Len(bars) >= 2
  BY DEF Signalled
<1>3. FlatAt(cfg, after[0])
  <2>1. DayByDay(cfg, bars, signalOf, after)
    BY <1>1, <1>2, DaysExist, Zenon
  <2>2. QED
    BY <2>1 DEF DayByDay, Execution!Unopened, FlatAt
<1>4. ASSUME NEW i \in 1..Len(bars) - 1, FlatAt(cfg, after[i - 1])
      PROVE  FlatAt(cfg, after[i]) /\ NoGain(MarkAt(cfg, bars, after, i))
  <2>1. PICK before, bar, signal, traded : SeenOn(cfg, bars, signalOf, after, i, before, bar, signal, traded)
    BY <1>1, DayOf, Zenon
  <2>2. PICK st : st = after[i - 1]
    OBVIOUS
  <2>3. /\ bar \in Bars /\ signal \in Signals /\ bar = bars[i + 1] /\ Booked(st) /\ Booked(traded)
        /\ traded = Execution!Trade(cfg, st, signal, bar)
        /\ after[i].position = traded.position /\ after[i].entry = traded.entry
        /\ after[i].equity = traded.equity
        /\ MarkAt(cfg, bars, after, i) = Execution!Marked(cfg, traded, bar)
    BY <2>1, <2>2 DEF SeenOn
  <2>4. bar.open = 1 /\ bar.close = 1
    <3>1. i + 1 \in 1..Len(bars)
      BY <1>2
    <3>2. QED
      BY <2>3, <3>1
  <2>5. FlatAt(cfg, traded)
    <3>1. FlatAt(cfg, st)
      BY <1>4, <2>2
    <3>2. QED
      BY <2>3, <2>4, <3>1, FlatStep, Zenon
  <2>6. NoGain(Execution!Marked(cfg, traded, bar))
    BY <2>3, <2>4, <2>5, FlatMark, Zenon
  <2>7. QED
    BY <2>3, <2>5, <2>6 DEF FlatAt
<1>5. \A i \in 0..Len(bars) - 1 : FlatAt(cfg, after[i])
  <2> DEFINE Bad == {i \in 0..Len(bars) - 1 : ~FlatAt(cfg, after[i])}
  <2>1. SUFFICES ASSUME Bad # {} PROVE FALSE
    OBVIOUS
  <2>2. Bad \subseteq Nat
    OBVIOUS
  <2>3. PICK least \in Bad : \A e \in Bad : least <= e
    BY <2>1, <2>2, LeastExists
  <2>4. least \in 0..Len(bars) - 1 /\ least # 0 /\ ~FlatAt(cfg, after[least])
    BY <1>3, <2>3
  <2>5. least \in 1..Len(bars) - 1 /\ least - 1 \in 0..Len(bars) - 1 /\ ~(least <= least - 1)
    BY <1>2, <2>4
  <2>6. least - 1 \notin Bad
    BY <2>3, <2>5
  <2>7. QED
    BY <1>4, <2>4, <2>5, <2>6
<1>6. /\ DOMAIN curve = 1..Len(bars) - 1
      /\ \A i \in 1..Len(bars) - 1 : curve[i] = MarkAt(cfg, bars, after, i)
  <2>1. /\ curve \in Seq(Int \X Int) /\ Len(curve) = Len(bars) - 1
        /\ \A i \in 1..Len(bars) - 1 : curve[i] = MarkAt(cfg, bars, after, i)
    BY <1>1, CurveIsMarks
  <2>2. QED
    BY <2>1
<1>7. ASSUME NEW k \in DOMAIN curve PROVE NoGain(curve[k])
  <2>1. k \in 1..Len(bars) - 1 /\ k - 1 \in 0..Len(bars) - 1
    BY <1>2, <1>6
  <2>2. QED
    BY <1>4, <1>5, <1>6, <2>1
<1>8. QED
  BY <1>7

(* For any bars, signals and modest costs: the curve of a day does not     *)
(* depend on later bars; without costs and short sales it is the product   *)
(* of what prices did while the position was held; at constant prices it   *)
(* never rises above the start (backtest/engine.py).                       *)
THEOREM BacktestHonest ==
  ASSUME NEW cfg \in Costing, Modest(cfg), NEW bars, NEW signalOf, Signalled(bars, signalOf)
  PROVE  HonestBacktest(cfg, bars, signalOf)
<1>1. PICK curve, n : curve = Execution!Backtest(cfg, bars, signalOf).curve /\ n = Len(bars)
  OBVIOUS
<1>2. ASSUME NEW k \in 2..n
      PROVE  Execution!Backtest(cfg, SubSeq(bars, 1, k), signalOf).curve = SubSeq(curve, 1, k - 1)
  BY <1>1, CurveOfPart
<1> DEFINE long(k) == k > 1 /\ signalOf[SubSeq(bars, 1, k - 1)] = 1
           Day(k) == <<(IF long(k - 1) THEN bars[k].open ELSE 1) * (IF long(k) THEN bars[k].close ELSE 1),
                       (IF long(k - 1) THEN bars[k - 1].close ELSE 1) * (IF long(k) THEN bars[k].open ELSE 1)>>
           Before(k) == IF k = 2 THEN <<1, 1>> ELSE curve[k - 2]
<1>3. ASSUME cfg.slip = 0, cfg.commission = 0, ~cfg.shorts, NEW k \in 2..n
      PROVE  Equal(curve[k - 1], <<Before(k)[1] * Day(k)[1], Before(k)[2] * Day(k)[2]>>)
  <2>1. PICK before, gain, was, is :
          /\ before = Before(k) /\ was = LongSince(bars, signalOf, k - 1) /\ is = LongSince(bars, signalOf, k)
          /\ gain = Gain(was, is, bars[k - 1], bars[k])
    OBVIOUS
  <2>2. before = (IF k = 2 THEN <<1, 1>> ELSE curve[k - 2]) /\ k \in 2..Len(bars)
    BY <1>1, <2>1
  <2> HIDE DEF Before, Day
  <2>3. Equal(curve[k - 1], Scaled(before, gain))
    BY <1>1, <1>3, <2>1, <2>2, EquityFollowsPrices, Zenon
  <2>4. Day(k) = gain
    <3>1. was = long(k - 1) /\ is = long(k)
      BY <2>1 DEF LongSince
    <3>2. QED
      BY <2>1, <3>1, Zenon DEF Gain, Day
  <2>5. QED
    BY <2>1, <2>3, <2>4 DEF Scaled
<1>4. ASSUME \A k \in 1..n : bars[k].open = 1 /\ bars[k].close = 1, NEW k \in DOMAIN curve
      PROVE  curve[k][1] <= curve[k][2]
  <2>1. \A d \in DOMAIN curve : NoGain(curve[d])
    BY <1>1, <1>4, FlatNeverGains, Zenon
  <2>2. QED
    BY <2>1 DEF NoGain
<1>5. QED
  BY <1>1, <1>2, <1>3, <1>4, ZenonT(60) DEF HonestBacktest

(* The opens and closes of a day of the runs.                              *)
OpensAndCloses == (1..2) \X (1..2)

(* Their histories.                                                        *)
PricedDays == UNION {[1..n -> OpensAndCloses] : n \in 2..4}

(* The backtests of the runs.                                              *)
BacktestJob ==
  IsJob("backtest") =>
    /\ job[2] \in PricedDays /\ job[3] \in Costs /\ job[4] \in BOOLEAN /\ job[5] \in [1..2 -> Signals]

(* They have prices, costs, leave to sell short, and a table of signals.   *)
LEMMA BacktestJobs == MCSpec => []BacktestJob
<1>1. MCInit => BacktestJob
  BY DEF MCInit, BacktestJob, IsJob
<1>2. BacktestJob /\ [MCNext]_<<vars, trading, job>> => BacktestJob'
  <2>1. ASSUME Choose PROVE BacktestJob'
    <3>1. SUFFICES ASSUME job'[1] = "backtest" PROVE BacktestJob'
      BY DEF BacktestJob, IsJob
    <3>2. \E n \in 2..4, costs \in Costs, shorts \in BOOLEAN, table \in [1..2 -> {-1, 0, 1}] :
            \E prices \in [1..n -> (1..2) \X (1..2)] : job' = <<"backtest", prices, costs, shorts, table>>
      <4>1. CASE \E n \in 1..3 : \E operations \in [1..n -> BookOps] : job' = <<"books", operations>>
        BY <3>1, <4>1
      <4>2. CASE \E flaws \in SUBSET Flaws, side \in {-1, 1}, market \in {"CN", "US"}, limit \in {0, 40},
                    held \in {0, 20}, weight \in {-1, 64, 128}, safe, built \in BOOLEAN :
                   job' = <<"risk", Context(flaws, side, market, limit), held, weight, safe, built>>
        BY <3>1, <4>2
      <4>3. CASE \E scores \in [1..3 -> -2..3], cfg \in Limits : job' = <<"portfolio", scores, cfg>>
        BY <3>1, <4>3
      <4>4. CASE \E closes \in [1..4 -> {2, 3}], n \in 0..2 :
                   \E actions \in [1..n -> Actions \X (2..5)] : job' = <<"adjust", closes, actions>>
        BY <3>1, <4>4
      <4>5. CASE \E rates \in SUBSET Rates, day \in 1..3 :
                   /\ \A p, q \in rates : p.base = q.base /\ p.day = q.day => p = q
                   /\ job' = <<"fx", rates, day>>
        BY <3>1, <4>5
      <4>6. CASE \E opens \in [1..3 -> {9, 10, 11}], day \in 0..4, halted \in SUBSET {2, 4},
                    gone \in {2, 4, 9}, last \in {-1, 1}, quantity \in 1..2 :
                   job' = <<"order", opens, day, halted, gone, last, quantity>>
        BY <3>1, <4>6
      <4>7. QED
        BY <2>1, <4>1, <4>2, <4>3, <4>4, <4>5, <4>6, Zenon DEF Choose
    <3>3. PICK n \in 2..4, costs \in Costs, shorts \in BOOLEAN, table \in [1..2 -> {-1, 0, 1}] :
            \E prices \in [1..n -> (1..2) \X (1..2)] : job' = <<"backtest", prices, costs, shorts, table>>
      BY <3>2, Zenon
    <3>4. PICK prices \in [1..n -> (1..2) \X (1..2)] : job' = <<"backtest", prices, costs, shorts, table>>
      BY <3>3
    <3>5. prices \in PricedDays /\ table \in [1..2 -> Signals]
      BY <3>4 DEF PricedDays, OpensAndCloses, Signals
    <3>6. job'[2] = prices /\ job'[3] = costs /\ job'[4] = shorts /\ job'[5] = table
      BY <3>4
    <3>7. QED
      BY <3>5, <3>6 DEF BacktestJob
  <2>2. ASSUME BacktestJob, UNCHANGED job PROVE BacktestJob'
    BY <2>2 DEF BacktestJob, IsJob
  <2>3. QED
    BY <2>1, <2>2 DEF MCNext, vars
<1>3. QED
  BY <1>1, <1>2, PTL DEF MCSpec

(* The costs of the runs are modest.                                       *)
LEMMA CostsAreModest ==
  ASSUME NEW costs \in Costs, NEW shorts \in BOOLEAN,
         NEW cfg, cfg = [unit |-> costs.unit, slip |-> costs.slip, commission |-> costs.commission,
                         shorts |-> shorts]
  PROVE  cfg \in Costing /\ Modest(cfg)
BY DEF Costs, Costing, Modest

(* The bars of a job.                                                      *)
BarsOf(prices) == [k \in 1..Len(prices) |-> [day |-> k, open |-> prices[k][1], close |-> prices[k][2]]]

(* The signals of a job, by the last close seen.                           *)
SignalsOf(bars, table) == [window \in {SubSeq(bars, 1, k) : k \in 1..Len(bars)} |-> table[Last(window).close]]

(* Every part of a history has its signal.                                 *)
LEMMA JobsAreSignalled ==
  ASSUME NEW prices \in PricedDays, NEW table \in [1..2 -> Signals],
         NEW bars, bars = BarsOf(prices), NEW signalOf, signalOf = SignalsOf(bars, table)
  PROVE  Signalled(bars, signalOf) /\ Len(bars) = Len(prices)
<1>1. PICK n \in 2..4 : prices \in [1..n -> OpensAndCloses]
  BY DEF PricedDays
<1>2. Len(prices) = n /\ n \in Nat
  BY <1>1
<1>3. ASSUME NEW k \in 1..n PROVE bars[k] \in Bars /\ bars[k].close \in 1..2
  <2>1. prices[k] \in OpensAndCloses
    BY <1>1
  <2>2. PICK open \in 1..2, closing \in 1..2 : prices[k] = <<open, closing>>
    BY <2>1 DEF OpensAndCloses
  <2>3. bars[k] = [day |-> k, open |-> open, close |-> closing]
    BY <1>2, <2>2 DEF BarsOf
  <2>4. QED
    BY <2>3 DEF Bars
<1>4. bars \in Seq(Bars) /\ Len(bars) = n
  <2>1. bars = [k \in 1..n |-> bars[k]]
    BY <1>2 DEF BarsOf
  <2>2. bars \in [1..n -> Bars]
    BY <1>3, <2>1
  <2>3. QED
    BY <1>2, <2>2
<1>5. ASSUME NEW i \in 1..n PROVE signalOf[SubSeq(bars, 1, i)] \in Signals
  <2>1. PICK window : window = SubSeq(bars, 1, i)
    OBVIOUS
  <2>2. Len(window) = i /\ \A k \in 1..i : window[k] = bars[k]
    BY <1>4, <2>1, PartOf
  <2>3. Last(window) = bars[i]
    BY <2>2 DEF Last
  <2>4. signalOf[window] = table[Last(window).close]
    BY <1>4, <2>1 DEF SignalsOf
  <2>5. QED
    BY <1>3, <2>1, <2>3, <2>4
<1>6. QED
  BY <1>2, <1>4, <1>5 DEF Signalled

(* In every state of the run, orders fill after their decision and a       *)
(* backtest is honest: FillsFollowDecisions.                               *)
THEOREM FillsAlwaysFollowDecisions == MCSpec => []FillsFollowDecisions
<1>1. BacktestJob => BacktestIsHonest
  <2>1. SUFFICES ASSUME BacktestJob, IsJob("backtest") PROVE BacktestIsHonest
    BY DEF BacktestIsHonest
  <2>2. PICK prices, costs, shorts, table : prices = job[2] /\ costs = job[3] /\ shorts = job[4] /\ table = job[5]
    OBVIOUS
  <2>3. prices \in PricedDays /\ costs \in Costs /\ shorts \in BOOLEAN /\ table \in [1..2 -> Signals]
    BY <2>1, <2>2 DEF BacktestJob
  <2>4. PICK cfg : cfg = [unit |-> costs.unit, slip |-> costs.slip, commission |-> costs.commission, shorts |-> shorts]
    OBVIOUS
  <2>5. PICK bars, signalOf : bars = BarsOf(prices) /\ signalOf = SignalsOf(bars, table)
    OBVIOUS
  <2>6. cfg \in Costing /\ Modest(cfg)
    BY <2>3, <2>4, CostsAreModest, Zenon
  <2>7. Signalled(bars, signalOf) /\ Len(bars) = Len(prices)
    BY <2>3, <2>5, JobsAreSignalled, Zenon
  <2>8. HonestBacktest(cfg, bars, signalOf)
    BY <2>6, <2>7, BacktestHonest, Zenon
  <2>9. HonestBacktest([unit |-> job[3].unit, slip |-> job[3].slip, commission |-> job[3].commission,
                        shorts |-> job[4]],
                       BarsOf(job[2]),
                       [window \in {SubSeq(BarsOf(job[2]), 1, k) : k \in 1..Len(job[2])}
                          |-> job[5][Last(window).close]])
    BY <2>2, <2>4, <2>5, <2>7, <2>8, Zenon DEF SignalsOf
  <2>10. QED
    BY <2>9, Zenon DEF BacktestIsHonest, BarsOf
<1>2. QED
  BY <1>1, BacktestJobs, OrdersAlwaysFillAfterDecision, PTL DEF FillsFollowDecisions

-----------------------------------------------------------------------------
(* A corporate action as apply_adjustment reads it.                        *)
CorporateActions == [kind : {"SPLIT", "MERGER", "RIGHTS", "DIVIDEND", "SPINOFF"}, day : Int, ratio : Int \X Int]

(* A bar as it reads it.                                                   *)
Closes == [day : Int, close : Int]

(* A factor of prices: a fraction.                                         *)
Factors == Int \X Int

(* What multiplying and inverting makes of the two parts of a factor.      *)
LEMMA TimesTyped ==
  ASSUME NEW a \in Factors, NEW b \in Factors
  PROVE  /\ Adjustment!Times(a, b) \in Factors /\ Adjustment!Inverted(a) \in Factors
         /\ Adjustment!Times(a, b)[1] = a[1] * b[1] /\ Adjustment!Times(a, b)[2] = a[2] * b[2]
         /\ Adjustment!Inverted(a)[1] = a[2] /\ Adjustment!Inverted(a)[2] = a[1]
         /\ a[1] \in Int /\ a[2] \in Int /\ Adjustment!One \in Factors
         /\ Adjustment!One[1] = 1 /\ Adjustment!One[2] = 1 /\ Adjustment!Times(a, Adjustment!One) = a
<1>1. PICK p, q, r, s \in Int : a = <<p, q>> /\ b = <<r, s>>
  BY DEF Factors
<1>2. p * r \in Int /\ q * s \in Int /\ p * 1 = p /\ q * 1 = q
  BY <1>1
<1>3. QED
  BY <1>1, <1>2 DEF Adjustment!Times, Adjustment!Inverted, Adjustment!One, Factors

(* P[k] is the product of the first k of the factors D.                    *)
Multiplied(P, D, n) ==
  P = [k \in 0..n |-> IF k = 0 THEN Adjustment!One ELSE Adjustment!Times(P[k - 1], D[k])]

(* Products of factors are factors, each made of the one before.           *)
LEMMA ProductsTyped ==
  ASSUME NEW n \in Nat, NEW D, \A k \in 1..n : D[k] \in Factors, NEW P, Multiplied(P, D, n)
  PROVE  /\ \A k \in 0..n : P[k] \in Factors
         /\ P[0] = Adjustment!One
         /\ \A k \in 1..n : P[k] = Adjustment!Times(P[k - 1], D[k])
<1>1. P[0] = Adjustment!One /\ \A k \in 1..n : P[k] = Adjustment!Times(P[k - 1], D[k])
  <2>1. 0 \in 0..n /\ \A k \in 1..n : k \in 0..n /\ k # 0
    OBVIOUS
  <2>2. QED
    BY <2>1 DEF Multiplied
<1> DEFINE Bad == {k \in 0..n : P[k] \notin Factors}
<1>2. Bad = {}
  <2>1. SUFFICES ASSUME Bad # {} PROVE FALSE
    OBVIOUS
  <2>2. PICK m \in Bad : \A e \in Bad : m <= e
    <3>1. Bad \subseteq Nat
      OBVIOUS
    <3>2. QED
      BY <2>1, <3>1, LeastExists
  <2>3. m \in 0..n /\ P[m] \notin Factors
    BY <2>2
  <2>4. m # 0
    BY <1>1, <2>3, TimesTyped DEF Adjustment!One, Factors
  <2>5. m \in 1..n /\ m - 1 \in 0..n /\ m - 1 < m
    BY <2>3, <2>4
  <2>6. m - 1 \notin Bad
    BY <2>2, <2>5
  <2>7. P[m - 1] \in Factors /\ D[m] \in Factors
    BY <2>5, <2>6
  <2>8. Adjustment!Times(P[m - 1], D[m]) \in Factors
    BY <2>7, TimesTyped
  <2>9. QED
    BY <1>1, <2>3, <2>5, <2>8
<1>3. QED
  BY <1>1, <1>2

(* There is such a function, so the CHOOSE of a recursive definition is    *)
(* one: of the lengths up to which none exists, there is no least one.     *)
LEMMA ProductsExist ==
  ASSUME NEW n \in Nat, NEW D
  PROVE  \E P : Multiplied(P, D, n)
<1> DEFINE Good(m) == \E P : Multiplied(P, D, m)
           Bad == {m \in 0..n : ~Good(m)}
<1>1. Good(0)
  <2>1. PICK P : P = [k \in 0..0 |-> Adjustment!One]
    OBVIOUS
  <2>2. P = [k \in 0..0 |-> IF k = 0 THEN Adjustment!One ELSE Adjustment!Times(P[k - 1], D[k])]
    BY <2>1
  <2>3. QED
    BY <2>2 DEF Multiplied
<1>2. ASSUME NEW m \in Nat, Good(m) PROVE Good(m + 1)
  <2>1. PICK P : Multiplied(P, D, m)
    BY <1>2
  <2>2. PICK Q : Q = [k \in 0..m + 1 |-> IF k = m + 1 THEN Adjustment!Times(P[m], D[m + 1]) ELSE P[k]]
    OBVIOUS
  <2>3. ASSUME NEW k \in 0..m + 1
        PROVE  Q[k] = IF k = 0 THEN Adjustment!One ELSE Adjustment!Times(Q[k - 1], D[k])
    <3>1. CASE k = m + 1
      <4>1. k - 1 = m /\ m \in 0..m + 1 /\ m # m + 1 /\ k # 0
        BY <3>1
      <4>2. Q[k] = Adjustment!Times(P[m], D[m + 1]) /\ Q[m] = P[m]
        BY <2>2, <3>1, <4>1
      <4>3. QED
        BY <3>1, <4>1, <4>2
    <3>2. CASE k # m + 1
      <4>1. k \in 0..m /\ (k # 0 => k - 1 \in 0..m + 1 /\ k - 1 # m + 1)
        BY <3>2
      <4>2. P[k] = IF k = 0 THEN Adjustment!One ELSE Adjustment!Times(P[k - 1], D[k])
        BY <2>1, <4>1 DEF Multiplied
      <4>3. Q[k] = P[k] /\ (k # 0 => Q[k - 1] = P[k - 1])
        BY <2>2, <3>2, <4>1
      <4>4. QED
        BY <4>2, <4>3
    <3>3. QED
      BY <3>1, <3>2
  <2>4. Q = [k \in 0..m + 1 |-> Q[k]]
    BY <2>2
  <2>5. Multiplied(Q, D, m + 1)
    BY <2>3, <2>4 DEF Multiplied
  <2>6. QED
    BY <2>5
<1> HIDE DEF Good
<1>3. Bad = {}
  <2>1. SUFFICES ASSUME Bad # {} PROVE FALSE
    OBVIOUS
  <2>2. PICK m \in Bad : \A e \in Bad : m <= e
    <3>1. Bad \subseteq Nat
      OBVIOUS
    <3>2. QED
      BY <2>1, <3>1, LeastExists
  <2>3. m \in Nat /\ m # 0 /\ m \in 0..n /\ ~Good(m)
    BY <1>1, <2>2
  <2>4. m - 1 \in Nat /\ m - 1 \in 0..n /\ m - 1 \notin Bad /\ (m - 1) + 1 = m
    BY <2>2, <2>3
  <2>5. Good(m - 1)
    BY <2>4
  <2>6. QED
    BY <1>2, <2>3, <2>4, <2>5
<1>4. QED
  BY <1>3 DEF Good

(* Every kind of action has a factor.                                      *)
LEMMA FactorTyped ==
  ASSUME NEW action \in CorporateActions, NEW closeBefore \in Int
  PROVE  Adjustment!FactorOf(action, closeBefore) \in Factors
<1>1. PICK kind, n, d : kind = action.kind /\ n \in Int /\ d \in Int /\ action.ratio = <<n, d>>
  <2>1. action.ratio \in Int \X Int
    BY DEF CorporateActions
  <2>2. QED
    BY <2>1
<1>2. PICK x, y \in Int : x = closeBefore * d - n /\ y = closeBefore * d
  <2>1. closeBefore * d \in Int
    BY <1>1
  <2>2. QED
    BY <1>1, <2>1
<1>3. Adjustment!FactorOf(action, closeBefore) \in {<<1, 1>>, <<d, n>>, <<n, d>>, <<x, y>>}
  BY <1>1, <1>2 DEF Adjustment!FactorOf, Adjustment!One, Adjustment!Inverted, CorporateActions
<1>4. QED
  BY <1>1, <1>2, <1>3 DEF Factors

(* A history of closes by day.                                             *)
History(bars) == bars \in Seq(Closes) /\ Len(bars) >= 1

(* The close before a day is an integer, 0 if there is none.               *)
LEMMA CloseBeforeTyped ==
  ASSUME NEW bars, History(bars), NEW day \in Int
  PROVE  Adjustment!CloseBefore(bars, day) \in Int
<1>1. PICK before : before = Adjustment!CloseBefore(bars, day)
  OBVIOUS
<1>2. PICK earlier : earlier = {k \in DOMAIN bars : bars[k].day < day}
  OBVIOUS
<1>3. CASE earlier = {}
  BY <1>1, <1>2, <1>3 DEF Adjustment!CloseBefore
<1>4. CASE earlier # {}
  <2>1. \E k \in earlier : \A e \in earlier : k >= e
    <3>1. Len(bars) \in Nat /\ DOMAIN bars = 1..Len(bars)
      BY DEF History
    <3>2. earlier \subseteq 1..Len(bars) /\ IsFiniteSet(1..Len(bars))
      <4>1. PICK n \in Nat : n = Len(bars)
        BY <3>1
      <4>2. IsFiniteSet(1..n)
        BY <4>1, FS_Interval
      <4>3. QED
        BY <1>2, <3>1, <4>1, <4>2
    <3>3. IsFiniteSet(earlier)
      BY <3>2, FS_Subset, Zenon
    <3>4. earlier \subseteq Nat
      <4>1. PICK n \in Nat : n = Len(bars)
        BY <3>1
      <4>2. QED
        BY <3>2, <4>1
    <3>5. QED
      BY <1>4, <3>3, <3>4, LastExists, Zenon
  <2>2. Adjustment!Max(earlier) \in earlier
    BY <2>1 DEF Adjustment!Max
  <2>3. PICK last : last = Adjustment!Max(earlier) /\ last \in earlier
    BY <2>2
  <2>4. bars[last] \in Closes
    <3>1. last \in DOMAIN bars
      BY <1>2, <2>3
    <3>2. QED
      BY <3>1 DEF History
  <2>5. before = bars[last].close
    BY <1>1, <1>2, <1>4, <2>3 DEF Adjustment!CloseBefore
  <2>6. QED
    BY <1>1, <2>4, <2>5 DEF Closes
<1>5. QED
  BY <1>3, <1>4

(* What each of the actions does on a day.                                 *)
Effects(bars, actions, day) ==
  [k \in 1..Len(actions) |->
     IF actions[k].day = day THEN Adjustment!FactorOf(actions[k], Adjustment!CloseBefore(bars, day))
     ELSE Adjustment!One]

(* The recursive function FactorAt is computed with.                       *)
WalkOf(bars, actions, day, P) ==
  P = [k \in 0..Len(actions) |->
         IF k = 0 THEN Adjustment!One
         ELSE Adjustment!Times(P[k - 1],
                IF actions[k].day = day THEN Adjustment!FactorOf(actions[k], Adjustment!CloseBefore(bars, day))
                ELSE Adjustment!One)]

(* Its value after the last action is the factor of the day.               *)
LEMMA DayFactorIsLast ==
  ASSUME NEW bars, NEW actions, NEW day
  PROVE  Adjustment!FactorAt(bars, actions, day)
           = (CHOOSE P : WalkOf(bars, actions, day, P))[Len(actions)]
BY DEF Adjustment!FactorAt, WalkOf

(* A day's factor is one, and without an action of the day it is 1.        *)
LEMMA DayFactorTyped ==
  ASSUME NEW bars, History(bars), NEW actions \in Seq(CorporateActions), NEW day \in Int
  PROVE  /\ Adjustment!FactorAt(bars, actions, day) \in Factors
         /\ (\A k \in DOMAIN actions : actions[k].day # day) =>
              Adjustment!FactorAt(bars, actions, day) = Adjustment!One
<1>1. PICK n \in Nat : n = Len(actions) /\ DOMAIN actions = 1..n
  OBVIOUS
<1>2. PICK D : D = Effects(bars, actions, day)
  OBVIOUS
<1>3. PICK before \in Int : before = Adjustment!CloseBefore(bars, day)
  BY CloseBeforeTyped
<1>4. ASSUME NEW k \in 1..n
      PROVE  D[k] \in Factors /\ (actions[k].day # day => D[k] = Adjustment!One)
  <2>1. actions[k] \in CorporateActions
    BY <1>1
  <2>2. Adjustment!FactorOf(actions[k], before) \in Factors
    BY <2>1, FactorTyped
  <2>3. Adjustment!One \in Factors
    BY DEF Adjustment!One, Factors
  <2>4. D[k] = IF actions[k].day = day THEN Adjustment!FactorOf(actions[k], before) ELSE Adjustment!One
    BY <1>1, <1>2, <1>3 DEF Effects
  <2>5. QED
    BY <2>2, <2>3, <2>4
<1>5. \A P : Multiplied(P, D, n) <=> WalkOf(bars, actions, day, P)
  <2>1. \A k \in 1..n : D[k] = IF actions[k].day = day
                               THEN Adjustment!FactorOf(actions[k], Adjustment!CloseBefore(bars, day))
                               ELSE Adjustment!One
    BY <1>1, <1>2 DEF Effects
  <2>2. \A k \in 0..n : k # 0 => k \in 1..n
    BY <1>1
  <2>3. QED
    BY <1>1, <2>1, <2>2 DEF Multiplied, WalkOf
<1>6. PICK P : P = CHOOSE Q : WalkOf(bars, actions, day, Q)
  OBVIOUS
<1>7. Multiplied(P, D, n)
  <2>1. PICK Q : Multiplied(Q, D, n)
    BY <1>1, ProductsExist
  <2>2. WalkOf(bars, actions, day, P)
    BY <1>5, <1>6, <2>1, Zenon
  <2>3. QED
    BY <1>5, <2>2
<1>8. /\ \A k \in 0..n : P[k] \in Factors
      /\ P[0] = Adjustment!One
      /\ \A k \in 1..n : P[k] = Adjustment!Times(P[k - 1], D[k])
  <2>1. \A k \in 1..n : D[k] \in Factors
    BY <1>4
  <2>2. QED
    BY <1>1, <1>7, <2>1, ProductsTyped, ZenonT(60)
<1>9. Adjustment!FactorAt(bars, actions, day) = P[n]
  BY <1>1, <1>6, DayFactorIsLast, Zenon
<1>10. ASSUME \A k \in DOMAIN actions : actions[k].day # day PROVE P[n] = Adjustment!One
  <2> DEFINE Bad == {k \in 0..n : P[k] # Adjustment!One}
  <2>1. Bad = {}
    <3>1. SUFFICES ASSUME Bad # {} PROVE FALSE
      OBVIOUS
    <3>2. PICK m \in Bad : \A e \in Bad : m <= e
      <4>1. Bad \subseteq Nat
        OBVIOUS
      <4>2. QED
        BY <3>1, <4>1, LeastExists
    <3>3. m \in 1..n /\ m - 1 \in 0..n /\ m - 1 < m /\ P[m] # Adjustment!One
      BY <1>8, <3>2
    <3>4. P[m - 1] = Adjustment!One
      BY <3>2, <3>3
    <3>5. D[m] = Adjustment!One
      BY <1>1, <1>4, <1>10, <3>3
    <3>6. P[m] = Adjustment!Times(Adjustment!One, Adjustment!One)
      BY <1>8, <3>3, <3>4, <3>5
    <3>7. QED
      BY <3>3, <3>6 DEF Adjustment!Times, Adjustment!One
  <2>2. n \in 0..n
    BY <1>1
  <2>3. QED
    BY <2>1, <2>2
<1>11. QED
  BY <1>1, <1>8, <1>9, <1>10

(* The factor of each bar's own day.                                       *)
OwnFactors(bars, actions) == [k \in 1..Len(bars) |-> Adjustment!FactorAt(bars, actions, bars[k].day)]

(* The recursive function of the factors of the past ...                   *)
PastWalk(bars, actions, P) ==
  P = [k \in DOMAIN bars |->
         Adjustment!Times(IF k = 1 THEN Adjustment!One ELSE P[k - 1],
                          Adjustment!Inverted(Adjustment!FactorAt(bars, actions, bars[k].day)))]

(* ... and of the future.                                                  *)
FutureWalk(bars, actions, P) ==
  P = [k \in DOMAIN bars |->
         IF k = Len(bars) THEN Adjustment!One
         ELSE Adjustment!Times(P[k + 1], Adjustment!FactorAt(bars, actions, bars[k + 1].day))]

(* Past and Future are chosen so.                                          *)
LEMMA WalksChosen ==
  ASSUME NEW bars, NEW actions
  PROVE  /\ Adjustment!Past(bars, actions) = CHOOSE P : PastWalk(bars, actions, P)
         /\ Adjustment!Future(bars, actions) = CHOOSE P : FutureWalk(bars, actions, P)
BY DEF Adjustment!Past, Adjustment!Future, PastWalk, FutureWalk

(* Every bar has its factor.                                               *)
LEMMA OwnFactorsTyped ==
  ASSUME NEW bars, History(bars), NEW actions \in Seq(CorporateActions),
         NEW F, F = OwnFactors(bars, actions)
  PROVE  \A k \in 1..Len(bars) : /\ F[k] = Adjustment!FactorAt(bars, actions, bars[k].day)
                                 /\ F[k] \in Factors
<1>1. SUFFICES ASSUME NEW k \in 1..Len(bars)
               PROVE  /\ F[k] = Adjustment!FactorAt(bars, actions, bars[k].day)
                      /\ F[k] \in Factors
  OBVIOUS
<1>2. bars[k] \in Closes
  BY DEF History
<1>3. bars[k].day \in Int
  BY <1>2 DEF Closes
<1>4. Adjustment!FactorAt(bars, actions, bars[k].day) \in Factors
  BY <1>3, DayFactorTyped, Zenon
<1>5. QED
  BY <1>4 DEF OwnFactors

(* From one bar to the next, the product of the past gains the inverse of  *)
(* the later bar's factor.                                                 *)
LEMMA PastProducts ==
  ASSUME NEW bars, History(bars), NEW actions \in Seq(CorporateActions),
         NEW F, F = OwnFactors(bars, actions), NEW P, P = Adjustment!Past(bars, actions)
  PROVE  /\ \A k \in 1..Len(bars) : P[k] \in Factors
         /\ P[1] = Adjustment!Times(Adjustment!One, Adjustment!Inverted(F[1]))
         /\ \A k \in 2..Len(bars) : P[k] = Adjustment!Times(P[k - 1], Adjustment!Inverted(F[k]))
<1>1. PICK n \in Nat : n = Len(bars) /\ DOMAIN bars = 1..n /\ n >= 1
  BY DEF History
<1>2. PICK D : D = [k \in 1..n |-> Adjustment!Inverted(F[k])]
  OBVIOUS
<1>3. \A k \in 1..n : F[k] = Adjustment!FactorAt(bars, actions, bars[k].day) /\ F[k] \in Factors
  BY <1>1, OwnFactorsTyped, Zenon
<1>4. \A k \in 1..n : D[k] = Adjustment!Inverted(F[k]) /\ D[k] \in Factors
  BY <1>2, <1>3, TimesTyped
<1>5. PastWalk(bars, actions, P)
  <2>1. PICK Q : Multiplied(Q, D, n)
    BY <1>1, ProductsExist
  <2>2. Q[0] = Adjustment!One /\ \A k \in 1..n : Q[k] = Adjustment!Times(Q[k - 1], D[k])
    BY <1>1, <1>4, <2>1, ProductsTyped, ZenonT(60)
  <2>3. PICK W : W = [k \in 1..n |-> Q[k]]
    OBVIOUS
  <2>4. ASSUME NEW k \in 1..n
        PROVE  W[k] = Adjustment!Times(IF k = 1 THEN Adjustment!One ELSE W[k - 1],
                          Adjustment!Inverted(Adjustment!FactorAt(bars, actions, bars[k].day)))
    <3>1. W[k] = Adjustment!Times(Q[k - 1], D[k])
      BY <2>2, <2>3
    <3>2. Q[k - 1] = IF k = 1 THEN Adjustment!One ELSE W[k - 1]
      <4>1. CASE k = 1
        BY <2>2, <4>1
      <4>2. CASE k # 1
        <5>1. k - 1 \in 1..n
          BY <1>1, <4>2
        <5>2. QED
          BY <2>3, <4>2, <5>1
      <4>3. QED
        BY <4>1, <4>2
    <3>3. D[k] = Adjustment!Inverted(Adjustment!FactorAt(bars, actions, bars[k].day))
      BY <1>3, <1>4
    <3>4. QED
      BY <3>1, <3>2, <3>3
  <2>5. PastWalk(bars, actions, W)
    <3>1. W = [k \in DOMAIN bars |-> W[k]]
      BY <1>1, <2>3
    <3>2. QED
      BY <1>1, <2>4, <3>1 DEF PastWalk
  <2>6. QED
    BY <2>5, WalksChosen, Zenon
<1>6. \A k \in 1..n : P[k] = Adjustment!Times(IF k = 1 THEN Adjustment!One ELSE P[k - 1], D[k])
  <2>1. \A k \in 1..n : D[k] = Adjustment!Inverted(Adjustment!FactorAt(bars, actions, bars[k].day))
    BY <1>3, <1>4
  <2>2. QED
    BY <1>1, <1>5, <2>1 DEF PastWalk
<1>7. PICK Q : Q = [k \in 0..n |-> IF k = 0 THEN Adjustment!One ELSE P[k]]
  OBVIOUS
<1>8. Multiplied(Q, D, n)
  <2>1. ASSUME NEW k \in 0..n
        PROVE  Q[k] = IF k = 0 THEN Adjustment!One ELSE Adjustment!Times(Q[k - 1], D[k])
    <3>1. CASE k = 0
      BY <1>7, <3>1
    <3>2. CASE k # 0
      <4>1. k \in 1..n /\ k - 1 \in 0..n
        BY <3>2
      <4>2. Q[k - 1] = IF k = 1 THEN Adjustment!One ELSE P[k - 1]
        BY <1>7, <4>1
      <4>3. Q[k] = P[k]
        BY <1>7, <4>1
      <4>4. QED
        BY <1>6, <3>2, <4>1, <4>2, <4>3
    <3>3. QED
      BY <3>1, <3>2
  <2>2. Q = [k \in 0..n |-> Q[k]]
    BY <1>7
  <2>3. QED
    BY <2>1, <2>2 DEF Multiplied
<1>9. \A k \in 0..n : Q[k] \in Factors
  BY <1>1, <1>4, <1>8, ProductsTyped, Zenon
<1>10. \A k \in 1..n : P[k] \in Factors
  BY <1>7, <1>9
<1>11. P[1] = Adjustment!Times(Adjustment!One, Adjustment!Inverted(F[1]))
  BY <1>1, <1>4, <1>6
<1>12. \A k \in 2..n : P[k] = Adjustment!Times(P[k - 1], Adjustment!Inverted(F[k]))
  <2>1. \A k \in 2..n : k \in 1..n /\ k # 1
    BY <1>1
  <2>2. QED
    BY <1>4, <1>6, <2>1
<1>13. QED
  BY <1>1, <1>10, <1>11, <1>12

(* From one bar to the one before, the product of the future gains the     *)
(* later bar's factor.                                                     *)
LEMMA FutureProducts ==
  ASSUME NEW bars, History(bars), NEW actions \in Seq(CorporateActions),
         NEW F, F = OwnFactors(bars, actions), NEW P, P = Adjustment!Future(bars, actions)
  PROVE  /\ \A k \in 1..Len(bars) : P[k] \in Factors
         /\ P[Len(bars)] = Adjustment!One
         /\ \A k \in 1..Len(bars) - 1 : P[k] = Adjustment!Times(P[k + 1], F[k + 1])
<1>1. PICK n \in Nat : n = Len(bars) /\ DOMAIN bars = 1..n /\ n >= 1
  BY DEF History
<1>2. PICK m \in Nat : m = n - 1
  BY <1>1
<1>3. PICK D : D = [j \in 1..m |-> F[n - j + 1]]
  OBVIOUS
<1>4. \A k \in 1..n : F[k] = Adjustment!FactorAt(bars, actions, bars[k].day) /\ F[k] \in Factors
  BY <1>1, OwnFactorsTyped, Zenon
<1>5. \A j \in 1..m : n - j + 1 \in 1..n /\ D[j] = F[n - j + 1] /\ D[j] \in Factors
  <2>1. \A j \in 1..m : n - j + 1 \in 1..n
    BY <1>1, <1>2
  <2>2. QED
    BY <1>3, <1>4, <2>1
<1>6. FutureWalk(bars, actions, P)
  <2>1. PICK Q : Multiplied(Q, D, m)
    BY <1>2, ProductsExist
  <2>2. Q[0] = Adjustment!One /\ \A j \in 1..m : Q[j] = Adjustment!Times(Q[j - 1], D[j])
    <3>1. \A j \in 1..m : D[j] \in Factors
      BY <1>5
    <3>2. QED
      BY <1>2, <2>1, <3>1, ProductsTyped, ZenonT(60)
  <2>3. PICK W : W = [k \in 1..n |-> Q[n - k]]
    OBVIOUS
  <2>4. ASSUME NEW k \in 1..n
        PROVE  W[k] = IF k = n THEN Adjustment!One
                      ELSE Adjustment!Times(W[k + 1], Adjustment!FactorAt(bars, actions, bars[k + 1].day))
    <3>1. CASE k = n
      <4>1. n - k = 0
        BY <1>1, <3>1
      <4>2. QED
        BY <2>2, <2>3, <3>1, <4>1
    <3>2. CASE k # n
      <4>1. PICK j : j = n - k
        OBVIOUS
      <4>2. j \in 1..m /\ n - (k + 1) = j - 1 /\ k + 1 \in 1..n /\ n - j + 1 = k + 1
        BY <1>1, <1>2, <3>2, <4>1
      <4>3. W[k] = Q[j] /\ W[k + 1] = Q[j - 1]
        BY <2>3, <4>1, <4>2
      <4>4. D[j] = F[k + 1]
        BY <1>5, <4>2
      <4>5. F[k + 1] = Adjustment!FactorAt(bars, actions, bars[k + 1].day)
        BY <1>4, <4>2
      <4>6. QED
        BY <2>2, <3>2, <4>2, <4>3, <4>4, <4>5
    <3>3. QED
      BY <3>1, <3>2
  <2>5. FutureWalk(bars, actions, W)
    <3>1. W = [k \in DOMAIN bars |-> W[k]]
      BY <1>1, <2>3
    <3>2. QED
      BY <1>1, <2>4, <3>1 DEF FutureWalk
  <2>6. QED
    BY <2>5, WalksChosen, Zenon
<1>7. \A k \in 1..n : P[k] = IF k = n THEN Adjustment!One
                            ELSE Adjustment!Times(P[k + 1], Adjustment!FactorAt(bars, actions, bars[k + 1].day))
  BY <1>1, <1>6 DEF FutureWalk
<1>8. P[n] = Adjustment!One
  BY <1>1, <1>7
<1>9. ASSUME NEW k \in 1..m PROVE P[k] = Adjustment!Times(P[k + 1], F[k + 1])
  <2>1. k \in 1..n /\ k # n /\ k + 1 \in 1..n
    BY <1>1, <1>2
  <2>2. QED
    BY <1>4, <1>7, <2>1
<1>10. PICK Q : Q = [j \in 0..m |-> P[n - j]]
  OBVIOUS
<1>11. Multiplied(Q, D, m)
  <2>1. ASSUME NEW j \in 0..m
        PROVE  Q[j] = IF j = 0 THEN Adjustment!One ELSE Adjustment!Times(Q[j - 1], D[j])
    <3>1. CASE j = 0
      <4>1. n - j = n
        BY <1>1, <3>1
      <4>2. QED
        BY <1>8, <1>10, <3>1, <4>1
    <3>2. CASE j # 0
      <4>1. PICK k : k = n - j
        OBVIOUS
      <4>2. j \in 1..m /\ j - 1 \in 0..m /\ k \in 1..m /\ n - (j - 1) = k + 1 /\ n - j + 1 = k + 1
        BY <1>1, <1>2, <3>2, <4>1
      <4>3. Q[j] = P[k] /\ Q[j - 1] = P[k + 1] /\ D[j] = F[k + 1]
        BY <1>5, <1>10, <4>1, <4>2
      <4>4. QED
        BY <1>9, <3>2, <4>2, <4>3
    <3>3. QED
      BY <3>1, <3>2
  <2>2. Q = [j \in 0..m |-> Q[j]]
    BY <1>10
  <2>3. QED
    BY <2>1, <2>2 DEF Multiplied
<1>12. \A j \in 0..m : Q[j] \in Factors
  BY <1>2, <1>5, <1>11, ProductsTyped, Zenon
<1>13. ASSUME NEW k \in 1..n PROVE P[k] \in Factors
  <2>1. PICK j : j = n - k
    OBVIOUS
  <2>2. j \in 0..m /\ n - j = k
    BY <1>1, <1>2, <2>1
  <2>3. Q[j] = P[k]
    BY <1>10, <2>2
  <2>4. QED
    BY <1>12, <2>2, <2>3
<1>14. Len(bars) - 1 = m
  BY <1>1, <1>2
<1>15. \A k \in 1..m : P[k] = Adjustment!Times(P[k + 1], F[k + 1])
  BY <1>9
<1>16. \A k \in 1..n : P[k] \in Factors
  BY <1>13
<1>17. QED
  BY <1>1, <1>8, <1>14, <1>15, <1>16

(* The ratio of two adjusted prices is the raw one times the factor.       *)
KeepsRatio(p, q, before, after, f) ==
  Equal(<<p[1] * q[2], p[2] * q[1]>>, <<before * f[1], after * f[2]>>)

(* So it is if the earlier price is multiplied by the factor ...           *)
LEMMA BackwardKeeps ==
  ASSUME NEW before \in Int, NEW after \in Int, NEW f \in Factors, NEW g \in Factors,
         NEW p, p = Adjustment!Times(<<before, 1>>, Adjustment!Times(g, f)),
         NEW q, q = Adjustment!Times(<<after, 1>>, g)
  PROVE  KeepsRatio(p, q, before, after, f)
<1>1. PICK f1, f2, g1, g2 \in Int : f = <<f1, f2>> /\ g = <<g1, g2>>
  BY DEF Factors
<1>2. p = <<before * (g1 * f1), 1 * (g2 * f2)>> /\ q = <<after * g1, 1 * g2>>
  BY <1>1 DEF Adjustment!Times
<1>3. ((before * (g1 * f1)) * (1 * g2)) * (after * f2)
        = (before * f1) * ((1 * (g2 * f2)) * (after * g1))
  BY <1>1
<1>4. QED
  BY <1>1, <1>2, <1>3 DEF KeepsRatio, Equal

(* ... and if the later one is divided by it.                              *)
LEMMA ForwardKeeps ==
  ASSUME NEW before \in Int, NEW after \in Int, NEW f \in Factors, NEW g \in Factors,
         NEW p, p = Adjustment!Times(<<before, 1>>, g),
         NEW q, q = Adjustment!Times(<<after, 1>>, Adjustment!Times(g, Adjustment!Inverted(f)))
  PROVE  KeepsRatio(p, q, before, after, f)
<1>1. PICK f1, f2, g1, g2 \in Int : f = <<f1, f2>> /\ g = <<g1, g2>>
  BY DEF Factors
<1>2. p = <<before * g1, 1 * g2>> /\ q = <<after * (g1 * f2), 1 * (g2 * f1)>>
  BY <1>1 DEF Adjustment!Times, Adjustment!Inverted
<1>3. ((before * g1) * (1 * (g2 * f1))) * (after * f2)
        = (before * f1) * ((1 * g2) * (after * (g1 * f2)))
  BY <1>1
<1>4. QED
  BY <1>1, <1>2, <1>3 DEF KeepsRatio, Equal

(* The two adjustments multiply a close by those products.                 *)
LEMMA AdjustedIs ==
  ASSUME NEW bars, NEW actions
  PROVE  /\ Adjustment!Adjusted(bars, actions, "BACKWARD")
              = [k \in DOMAIN bars |-> Adjustment!Times(<<bars[k].close, 1>>, Adjustment!Future(bars, actions)[k])]
         /\ Adjustment!Adjusted(bars, actions, "FORWARD")
              = [k \in DOMAIN bars |-> Adjustment!Times(<<bars[k].close, 1>>, Adjustment!Past(bars, actions)[k])]
BY DEF Adjustment!Adjusted

(* For any history of at least a bar and any corporate actions: adjusted   *)
(* either way, the ratio of neighbouring prices is the raw one times the   *)
(* factor of the later bar's day, and the anchor bar keeps its price       *)
(* (corporate_actions/adjust.py).                                          *)
THEOREM AdjustmentKeepsRatios ==
  ASSUME NEW bars, History(bars), NEW actions \in Seq(CorporateActions)
  PROVE  RatiosAreKept(bars, actions)
<1>1. PICK n \in Nat : n = Len(bars) /\ DOMAIN bars = 1..n /\ n >= 1
  BY DEF History
<1>2. PICK F, B, P : /\ F = OwnFactors(bars, actions)
                     /\ B = Adjustment!Future(bars, actions)
                     /\ P = Adjustment!Past(bars, actions)
  OBVIOUS
<1>3. PICK back, forth : /\ back = Adjustment!Adjusted(bars, actions, "BACKWARD")
                         /\ forth = Adjustment!Adjusted(bars, actions, "FORWARD")
  OBVIOUS
<1>4. /\ back = [k \in 1..n |-> Adjustment!Times(<<bars[k].close, 1>>, B[k])]
      /\ forth = [k \in 1..n |-> Adjustment!Times(<<bars[k].close, 1>>, P[k])]
  BY <1>1, <1>2, <1>3, AdjustedIs
<1>5. \A k \in 1..n : F[k] = Adjustment!FactorAt(bars, actions, bars[k].day) /\ F[k] \in Factors
  BY <1>1, <1>2, OwnFactorsTyped, Zenon
<1>6. \A k \in 1..n : bars[k] \in Closes /\ bars[k].close \in Int /\ bars[k].day \in Int
  <2>1. \A k \in 1..n : bars[k] \in Closes
    BY <1>1 DEF History
  <2>2. QED
    BY <2>1 DEF Closes
<1>7. /\ \A k \in 1..n : B[k] \in Factors
      /\ B[n] = Adjustment!One
      /\ \A k \in 1..n - 1 : B[k] = Adjustment!Times(B[k + 1], F[k + 1])
  <2>1. /\ \A k \in 1..Len(bars) : B[k] \in Factors
        /\ B[Len(bars)] = Adjustment!One
        /\ \A k \in 1..Len(bars) - 1 : B[k] = Adjustment!Times(B[k + 1], F[k + 1])
    BY <1>2, FutureProducts
  <2>2. QED
    BY <1>1, <2>1, Zenon
<1>8. /\ \A k \in 1..n : P[k] \in Factors
      /\ P[1] = Adjustment!Times(Adjustment!One, Adjustment!Inverted(F[1]))
      /\ \A k \in 2..n : P[k] = Adjustment!Times(P[k - 1], Adjustment!Inverted(F[k]))
  <2>1. /\ \A k \in 1..Len(bars) : P[k] \in Factors
        /\ P[1] = Adjustment!Times(Adjustment!One, Adjustment!Inverted(F[1]))
        /\ \A k \in 2..Len(bars) : P[k] = Adjustment!Times(P[k - 1], Adjustment!Inverted(F[k]))
    BY <1>2, PastProducts
  <2>2. QED
    BY <1>1, <2>1, Zenon
<1>9. ASSUME NEW k \in 1..n - 1
      PROVE  /\ KeepsRatio(back[k], back[k + 1], bars[k].close, bars[k + 1].close, F[k + 1])
             /\ KeepsRatio(forth[k], forth[k + 1], bars[k].close, bars[k + 1].close, F[k + 1])
  <2>1. k \in 1..n /\ k + 1 \in 1..n /\ k + 1 \in 2..n /\ (k + 1) - 1 = k
    BY <1>1
  <2>2. PICK before \in Int, after \in Int : before = bars[k].close /\ after = bars[k + 1].close
    BY <1>6, <2>1
  <2>3. PICK f \in Factors, g \in Factors, h \in Factors : f = F[k + 1] /\ g = B[k + 1] /\ h = P[k]
    BY <1>5, <1>7, <1>8, <2>1
  <2>4. /\ back[k] = Adjustment!Times(<<before, 1>>, Adjustment!Times(g, f))
        /\ back[k + 1] = Adjustment!Times(<<after, 1>>, g)
    BY <1>4, <1>7, <2>1, <2>2, <2>3
  <2>5. /\ forth[k] = Adjustment!Times(<<before, 1>>, h)
        /\ forth[k + 1] = Adjustment!Times(<<after, 1>>, Adjustment!Times(h, Adjustment!Inverted(f)))
    BY <1>4, <1>8, <2>1, <2>2, <2>3
  <2>6. KeepsRatio(back[k], back[k + 1], before, after, f)
    BY <2>4, BackwardKeeps, Zenon
  <2>7. KeepsRatio(forth[k], forth[k + 1], before, after, f)
    BY <2>5, ForwardKeeps, Zenon
  <2>8. QED
    BY <2>2, <2>3, <2>6, <2>7
<1>10. Equal(back[n], <<bars[n].close, 1>>)
  <2>1. n \in 1..n
    BY <1>1
  <2>2. PICK c \in Int : c = bars[n].close
    BY <1>6, <2>1
  <2>3. back[n] = Adjustment!Times(<<c, 1>>, <<1, 1>>)
    BY <1>4, <1>7, <2>1, <2>2 DEF Adjustment!One
  <2>4. QED
    BY <2>2, <2>3 DEF Adjustment!Times, Equal
<1>11. ASSUME \A k \in DOMAIN actions : actions[k].day # bars[1].day
       PROVE  Equal(forth[1], <<bars[1].close, 1>>)
  <2>1. 1 \in 1..n
    BY <1>1
  <2>2. PICK c \in Int, day \in Int : c = bars[1].close /\ day = bars[1].day
    BY <1>6, <2>1
  <2>3. Adjustment!FactorAt(bars, actions, day) = Adjustment!One
    BY <1>11, <2>2, DayFactorTyped
  <2>4. F[1] = <<1, 1>>
    BY <1>5, <2>1, <2>2, <2>3 DEF Adjustment!One
  <2>5. P[1] = <<1 * 1, 1 * 1>>
    BY <1>8, <2>4 DEF Adjustment!One, Adjustment!Inverted, Adjustment!Times
  <2>6. forth[1] = <<c * (1 * 1), 1 * (1 * 1)>>
    BY <1>4, <2>1, <2>2, <2>5 DEF Adjustment!Times
  <2>7. QED
    BY <2>2, <2>6 DEF Equal
<1>12. ASSUME NEW k \in 1..n - 1
       PROVE  F[k + 1] = Adjustment!FactorAt(bars, actions, bars[k + 1].day)
  <2>1. k + 1 \in 1..n
    BY <1>1
  <2>2. QED
    BY <1>5, <2>1
<1>13. \A k \in 1..n - 1 :
         /\ KeepsRatio(back[k], back[k + 1], bars[k].close, bars[k + 1].close,
                       Adjustment!FactorAt(bars, actions, bars[k + 1].day))
         /\ KeepsRatio(forth[k], forth[k + 1], bars[k].close, bars[k + 1].close,
                       Adjustment!FactorAt(bars, actions, bars[k + 1].day))
  BY <1>9, <1>12
<1>14. QED
  BY <1>1, <1>3, <1>10, <1>11, <1>13 DEF RatiosAreKept, KeepsRatio

-----------------------------------------------------------------------------
(* The parts of a rate.                                                    *)
Positive == Nat \ {0}

(* Rates between the two currencies.                                       *)
Quotations ==
  {r \in [base : {"USD", "CNY"}, quote : {"USD", "CNY"}, day : Nat, rate : Positive \X Positive] : r.base # r.quote}

(* The rates from one currency to the other until a day.                   *)
RatesFor(rates, base, quote, day) == {r \in rates : r.base = base /\ r.quote = quote /\ r.day <= day}

(* The store answers with one of those, and with none if there is none.    *)
LEMMA RateIsKnown ==
  ASSUME NEW rates \in SUBSET Quotations, IsFiniteSet(rates), NEW base, NEW quote, NEW day \in Int,
         NEW rate, rate = GetAsOf(rates, base, quote, day)
  PROVE  /\ RatesFor(rates, base, quote, day) = {} => rate = NoRate
         /\ RatesFor(rates, base, quote, day) # {} =>
              \E r \in RatesFor(rates, base, quote, day) : rate = r.rate
<1>1. PICK rows : rows = RatesFor(rates, base, quote, day)
  OBVIOUS
<1>2. rate = IF rows = {} THEN NoRate ELSE (CHOOSE r \in rows : \A q \in rows : q.day <= r.day).rate
  BY <1>1 DEF GetAsOf, RatesFor
<1>3. ASSUME rows # {} PROVE \E r \in rows : \A q \in rows : q.day <= r.day
  <2>1. PICK days : days = {r.day : r \in rows}
    OBVIOUS
  <2>2. IsFiniteSet(rows)
    <3>1. rows \subseteq rates
      BY <1>1 DEF RatesFor
    <3>2. QED
      BY <3>1, FS_Subset
  <2>3. IsFiniteSet(days)
    <3>1. PICK f : f = [r \in rows |-> r.day]
      OBVIOUS
    <3>2. f \in Surjection(rows, days)
      BY <2>1, <3>1 DEF Surjection
    <3>3. QED
      BY <2>2, <3>2, FS_Surjection
  <2>4. \A r \in rows : r.day \in Nat
    BY <1>1 DEF RatesFor, Quotations
  <2>5. days \subseteq Nat /\ days # {}
    BY <1>3, <2>1, <2>4
  <2>6. PICK last \in days : \A e \in days : last >= e
    BY <2>3, <2>5, LastExists, Zenon
  <2>7. PICK r \in rows : last = r.day
    BY <2>1
  <2>8. ASSUME NEW q \in rows PROVE q.day <= r.day
    <3>1. q.day \in days /\ q.day \in Nat /\ r.day \in Nat
      BY <2>1, <2>4
    <3>2. QED
      BY <2>6, <2>7, <3>1
  <2>9. QED
    BY <2>8
<1>4. ASSUME rows # {} PROVE \E r \in rows : rate = r.rate
  <2>1. PICK r : r = CHOOSE s \in rows : \A q \in rows : q.day <= s.day
    OBVIOUS
  <2>2. r \in rows
    BY <1>3, <1>4, <2>1, Zenon
  <2>3. QED
    BY <1>2, <1>4, <2>1, <2>2
<1>5. QED
  BY <1>1, <1>2, <1>4

(* A fraction of positive numbers.                                         *)
Rate(rate) == rate \in Positive \X Positive

(* Every quotation has one, which is not the answer none.                  *)
LEMMA RatesAreRates ==
  ASSUME NEW r \in Quotations
  PROVE  /\ Rate(r.rate) /\ r.rate # NoRate
         /\ r.base \in {"USD", "CNY"} /\ r.quote \in {"USD", "CNY"} /\ r.base # r.quote
<1>1. Rate(r.rate)
  BY DEF Quotations, Rate
<1>2. NoRate \notin Positive \X Positive
  BY DEF NoRate, Positive
<1>3. QED
  BY <1>1, <1>2 DEF Quotations, Rate

(* Between the two currencies a rate is found if either direction has one, *)
(* and only then.                                                          *)
LEMMA EitherRate ==
  ASSUME NEW rates \in SUBSET Quotations, IsFiniteSet(rates), NEW day \in Int,
         NEW from, NEW to, {from, to} = {"USD", "CNY"},
         NEW rate, rate = RateOf(rates, from, to, day)
  PROVE  /\ (\E r \in rates : r.day <= day) => Rate(rate)
         /\ (\A r \in rates : ~ (r.day <= day)) => rate = NoRate
<1>1. PICK direct, inverse : direct = GetAsOf(rates, from, to, day) /\ inverse = GetAsOf(rates, to, from, day)
  OBVIOUS
<1>2. rate = IF direct # NoRate THEN direct
             ELSE IF inverse # NoRate /\ inverse[1] # 0 THEN <<inverse[2], inverse[1]>> ELSE NoRate
  BY <1>1 DEF RateOf
<1>3. /\ RatesFor(rates, from, to, day) = {} => direct = NoRate
      /\ RatesFor(rates, from, to, day) # {} => \E r \in RatesFor(rates, from, to, day) : direct = r.rate
  BY <1>1, RateIsKnown
<1>4. /\ RatesFor(rates, to, from, day) = {} => inverse = NoRate
      /\ RatesFor(rates, to, from, day) # {} => \E r \in RatesFor(rates, to, from, day) : inverse = r.rate
  BY <1>1, RateIsKnown
<1>5. RatesFor(rates, from, to, day) \subseteq Quotations /\ RatesFor(rates, to, from, day) \subseteq Quotations
  BY DEF RatesFor
<1>6. direct = NoRate \/ (Rate(direct) /\ direct # NoRate)
  BY <1>3, <1>5, RatesAreRates
<1>7. inverse = NoRate \/ (Rate(inverse) /\ inverse # NoRate)
  BY <1>4, <1>5, RatesAreRates
<1>8. ASSUME Rate(inverse) PROVE inverse[1] # 0 /\ Rate(<<inverse[2], inverse[1]>>)
  BY <1>8 DEF Rate, Positive
<1>9. CASE \E r \in rates : r.day <= day
  <2>1. PICK r \in rates : r.day <= day
    BY <1>9
  <2>2. (r.base = from /\ r.quote = to) \/ (r.base = to /\ r.quote = from)
    BY RatesAreRates
  <2>3. r \in RatesFor(rates, from, to, day) \/ r \in RatesFor(rates, to, from, day)
    BY <2>1, <2>2 DEF RatesFor
  <2>4. direct # NoRate \/ inverse # NoRate
    <3>1. CASE r \in RatesFor(rates, from, to, day)
      <4>1. PICK s \in RatesFor(rates, from, to, day) : direct = s.rate
        BY <1>3, <3>1
      <4>2. QED
        BY <1>5, <4>1, RatesAreRates
    <3>2. CASE r \in RatesFor(rates, to, from, day)
      <4>1. PICK s \in RatesFor(rates, to, from, day) : inverse = s.rate
        BY <1>4, <3>2
      <4>2. QED
        BY <1>5, <4>1, RatesAreRates
    <3>3. QED
      BY <2>3, <3>1, <3>2
  <2>5. Rate(rate)
    BY <1>2, <1>6, <1>7, <1>8, <2>4
  <2>6. QED
    BY <2>1, <2>5
<1>10. CASE \A r \in rates : ~ (r.day <= day)
  <2>1. RatesFor(rates, from, to, day) = {} /\ RatesFor(rates, to, from, day) = {}
    BY <1>10 DEF RatesFor
  <2>2. QED
    BY <1>2, <1>3, <1>4, <1>10, <2>1
<1>11. QED
  BY <1>9, <1>10

(* If one direction alone is quoted, the rate back is the inverse.         *)
LEMMA OneWayInverts ==
  ASSUME NEW rates \in SUBSET Quotations, IsFiniteSet(rates), NEW day \in Int,
         \A p, q \in rates : p.base = q.base,
         NEW rate, rate = RateOf(rates, "USD", "CNY", day), Rate(rate),
         NEW back, back = RateOf(rates, "CNY", "USD", day)
  PROVE  back = <<rate[2], rate[1]>>
<1>1. PICK usd, cny : usd = GetAsOf(rates, "USD", "CNY", day) /\ cny = GetAsOf(rates, "CNY", "USD", day)
  OBVIOUS
<1>2. /\ rate = IF usd # NoRate THEN usd
                ELSE IF cny # NoRate /\ cny[1] # 0 THEN <<cny[2], cny[1]>> ELSE NoRate
      /\ back = IF cny # NoRate THEN cny
                ELSE IF usd # NoRate /\ usd[1] # 0 THEN <<usd[2], usd[1]>> ELSE NoRate
  BY <1>1 DEF RateOf
<1>3. /\ RatesFor(rates, "USD", "CNY", day) = {} => usd = NoRate
      /\ RatesFor(rates, "USD", "CNY", day) # {} => \E r \in RatesFor(rates, "USD", "CNY", day) : usd = r.rate
  BY <1>1, RateIsKnown
<1>4. /\ RatesFor(rates, "CNY", "USD", day) = {} => cny = NoRate
      /\ RatesFor(rates, "CNY", "USD", day) # {} => \E r \in RatesFor(rates, "CNY", "USD", day) : cny = r.rate
  BY <1>1, RateIsKnown
<1>5. RatesFor(rates, "USD", "CNY", day) = {} \/ RatesFor(rates, "CNY", "USD", day) = {}
  BY DEF RatesFor
<1>6. usd = NoRate \/ cny = NoRate
  BY <1>3, <1>4, <1>5
<1>7. usd # NoRate => Rate(usd)
  BY <1>3, RatesAreRates DEF RatesFor
<1>8. cny # NoRate => Rate(cny)
  BY <1>4, RatesAreRates DEF RatesFor
<1>9. ~Rate(NoRate)
  BY DEF Rate, NoRate, Positive
<1>10. CASE usd # NoRate
  <2>1. usd[1] # 0
    BY <1>7, <1>10 DEF Rate, Positive
  <2>2. QED
    BY <1>2, <1>6, <1>10, <2>1
<1>11. CASE usd = NoRate
  <2>1. cny # NoRate
    BY <1>2, <1>9, <1>11
  <2>2. PICK x, y : x \in Positive /\ y \in Positive /\ cny = <<x, y>>
    BY <1>8, <2>1 DEF Rate
  <2>3. rate = <<y, x>>
    BY <1>2, <1>11, <2>1, <2>2 DEF Positive
  <2>4. QED
    BY <1>2, <2>1, <2>2, <2>3
<1>12. QED
  BY <1>10, <1>11

(* The rates of later days change nothing.                                 *)
LEMMA LaterRatesAreUnused ==
  ASSUME NEW rates, NEW day, NEW known, known = {r \in rates : r.day <= day}, NEW from, NEW to
  PROVE  RateOf(known, from, to, day) = RateOf(rates, from, to, day)
<1>1. ASSUME NEW base, NEW quote PROVE GetAsOf(known, base, quote, day) = GetAsOf(rates, base, quote, day)
  <2>1. PICK rows : rows = RatesFor(rates, base, quote, day)
    OBVIOUS
  <2>2. rows = RatesFor(known, base, quote, day)
    BY <2>1 DEF RatesFor
  <2>3. GetAsOf(rates, base, quote, day)
          = IF rows = {} THEN NoRate ELSE (CHOOSE r \in rows : \A q \in rows : q.day <= r.day).rate
    BY <2>1 DEF GetAsOf, RatesFor
  <2>4. GetAsOf(known, base, quote, day)
          = IF rows = {} THEN NoRate ELSE (CHOOSE r \in rows : \A q \in rows : q.day <= r.day).rate
    BY <2>2 DEF GetAsOf, RatesFor
  <2>5. QED
    BY <2>3, <2>4
<1>2. GetAsOf(known, from, to, day) = GetAsOf(rates, from, to, day) /\ GetAsOf(known, to, from, day) = GetAsOf(rates, to, from, day)
  BY <1>1
<1>3. QED
  BY <1>2 DEF RateOf

(* For any finite set of rates between the two currencies and any day: a   *)
(* conversion there and back returns the amount if one direction alone is  *)
(* quoted, and so does the currency's return; no later rate is used, and a *)
(* missing one adds nothing (fx/converter.py).                             *)
THEOREM ConversionsAlwaysAgree ==
  ASSUME NEW rates \in SUBSET Quotations, IsFiniteSet(rates), NEW day \in Int
  PROVE  ConversionsAgree(rates, day)
<1>1. PICK known : known = {r \in rates : r.day <= day}
  OBVIOUS
<1>2. PICK rate, there : rate = RateOf(rates, "USD", "CNY", day) /\ there = Convert(rates, <<5, 1>>, "USD", "CNY", day)
  OBVIOUS
<1>3. there = IF rate = NoRate THEN NoRate ELSE <<5 * rate[1], 1 * rate[2]>>
  BY <1>2 DEF Convert
<1>4. (known # {} => Rate(rate)) /\ (known = {} => rate = NoRate)
  <2>1. /\ (\E r \in rates : r.day <= day) => Rate(rate)
        /\ (\A r \in rates : ~ (r.day <= day)) => rate = NoRate
    BY <1>2, EitherRate
  <2>2. QED
    BY <1>1, <2>1
<1>5. ~Rate(NoRate)
  BY DEF Rate, NoRate, Positive
<1>6. there = NoRate <=> known = {}
  <2>1. ASSUME known # {} PROVE there # NoRate
    <3>1. PICK x, y : x \in Positive /\ y \in Positive /\ rate = <<x, y>>
      BY <1>4, <2>1 DEF Rate
    <3>2. there = <<5 * x, 1 * y>>
      BY <1>3, <1>4, <1>5, <2>1, <3>1
    <3>3. QED
      BY <3>1, <3>2 DEF NoRate, Positive
  <2>2. QED
    BY <1>3, <1>4, <2>1
<1>7. there = Convert(known, <<5, 1>>, "USD", "CNY", day)
  BY <1>1, <1>2, <1>3, LaterRatesAreUnused DEF Convert
<1>8. ASSUME known # {}, \A p, q \in rates : p.base = q.base
      PROVE  Equal(Convert(rates, there, "CNY", "USD", day), <<5, 1>>)
  <2>1. PICK back : back = RateOf(rates, "CNY", "USD", day)
    OBVIOUS
  <2>2. Rate(rate) /\ rate # NoRate
    BY <1>4, <1>5, <1>8
  <2>3. back = <<rate[2], rate[1]>>
    BY <1>2, <1>8, <2>1, <2>2, OneWayInverts
  <2>4. PICK x, y : x \in Positive /\ y \in Positive /\ rate = <<x, y>>
    BY <2>2 DEF Rate
  <2>5. there = <<5 * x, 1 * y>> /\ back = <<y, x>> /\ back # NoRate
    BY <1>3, <2>2, <2>3, <2>4 DEF NoRate, Positive
  <2>6. Convert(rates, there, "CNY", "USD", day) = <<(5 * x) * y, (1 * y) * x>>
    BY <2>1, <2>5 DEF Convert
  <2>7. ((5 * x) * y) * 1 = 5 * ((1 * y) * x)
    BY <2>4 DEF Positive
  <2>8. QED
    BY <2>6, <2>7 DEF Equal
<1>9. PICK out, back : out = FxReturn(rates, "USD", "CNY", 1, day) /\ back = FxReturn(rates, "CNY", "USD", 1, day)
  OBVIOUS
<1>10. ASSUME \A p, q \in rates : p.base = q.base, out # NoRate
       PROVE  Equal(<<(out[1] + out[2]) * (back[1] + back[2]), 1>>, <<out[2] * back[2], 1>>)
  <2>1. PICK first, inverse0, inverse1 :
           /\ first = RateOf(rates, "USD", "CNY", 1)
           /\ inverse0 = RateOf(rates, "CNY", "USD", 1) /\ inverse1 = RateOf(rates, "CNY", "USD", day)
    OBVIOUS
  <2>2. first # NoRate /\ rate # NoRate
    BY <1>2, <1>9, <1>10, <2>1 DEF FxReturn
  <2>3. Rate(first)
    <3>1. /\ (\E r \in rates : r.day <= 1) => Rate(first)
          /\ (\A r \in rates : ~ (r.day <= 1)) => first = NoRate
      BY <2>1, EitherRate
    <3>2. QED
      BY <2>2, <3>1
  <2>4. Rate(rate)
    BY <1>4, <2>2
  <2>5. inverse0 = <<first[2], first[1]>>
    BY <1>10, <2>1, <2>3, OneWayInverts
  <2>6. inverse1 = <<rate[2], rate[1]>>
    BY <1>2, <1>10, <2>1, <2>4, OneWayInverts
  <2>7. PICK a, b : a \in Positive /\ b \in Positive /\ first = <<a, b>>
    BY <2>3 DEF Rate
  <2>8. PICK c, d : c \in Positive /\ d \in Positive /\ rate = <<c, d>>
    BY <2>4 DEF Rate
  <2>9. a # 0 /\ b # 0 /\ inverse0 = <<b, a>> /\ inverse1 = <<d, c>> /\ inverse0 # NoRate /\ inverse1 # NoRate
    BY <2>5, <2>6, <2>7, <2>8 DEF NoRate, Positive
  <2>10. out = <<c * b - a * d, d * a>>
    BY <1>2, <1>9, <2>1, <2>2, <2>7, <2>8, <2>9 DEF FxReturn
  <2>11. back = <<d * a - b * c, c * b>>
    BY <1>9, <2>1, <2>9 DEF FxReturn
  <2>12. PICK u, v \in Int : u = c * b /\ v = a * d
    BY <2>7, <2>8 DEF Positive
  <2>13. b * c = u /\ d * a = v
    BY <2>7, <2>8, <2>12 DEF Positive
  <2>14. out = <<u - v, v>> /\ back = <<v - u, u>>
    BY <2>10, <2>11, <2>12, <2>13
  <2>15. (out[1] + out[2]) * (back[1] + back[2]) = out[2] * back[2]
    <3>1. out[1] + out[2] = u /\ back[1] + back[2] = v
      BY <2>12, <2>14
    <3>2. u * v = v * u
      BY <2>12
    <3>3. QED
      BY <2>14, <3>1, <3>2
  <2>16. PICK w : w = out[2] * back[2]
    OBVIOUS
  <2>17. QED
    BY <2>15, <2>16 DEF Equal
<1>11. ASSUME out = NoRate PROVE BaseReturn(rates, <<1, 10>>, "USD", "CNY", day, day - 1) = <<1, 10>>
  <2>1. day - (day - 1) = 1
    OBVIOUS
  <2>2. QED
    BY <1>9, <1>11, <2>1 DEF BaseReturn
<1>12. QED
  BY <1>1, <1>2, <1>6, <1>7, <1>8, <1>9, <1>10, <1>11, Zenon DEF ConversionsAgree
=============================================================================
