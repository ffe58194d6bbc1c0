------------------------------ MODULE FoldFacts ------------------------------
(***************************************************************************)
(* Facts about the folds and sums the models are built from.  Induction is *)
(* stated over sets of numbers or of sets instead of predicates: what holds*)
(* of zero and of the next number is a set that contains every number.     *)
(***************************************************************************)
EXTENDS Integers, FiniteSets, Functions, WellFoundedInduction, FiniteSetTheorems, TLAPS

\* Induction: a set with zero and with each number's successor has all numbers.
LEMMA NatSet ==
  ASSUME NEW P, 0 \in P, \A n \in Nat : n \in P => n + 1 \in P
  PROVE  Nat \subseteq P
<1> DEFINE T == Nat \ P
           R == OpToRel(<, Nat)
<1>1. ASSUME T # {} PROVE FALSE
  <2>1. PICK x \in T : \A y \in T : <<y, x>> \notin R
    <3>1. IsWellFoundedOn(R, Nat)
      BY NatLessThanWellFounded
    <3> HIDE DEF R
    <3>2. T \subseteq Nat
      OBVIOUS
    <3> HIDE DEF T
    <3> QED BY <3>1, <3>2, <1>1, WFMin
  <2>2. x \in Nat /\ x # 0
    OBVIOUS
  <2>3. x - 1 \in T
    BY <2>2
  <2>4. <<x - 1, x>> \in R
    BY <2>2, <2>3 DEF OpToRel
  <2> QED BY <2>1, <2>3, <2>4
<1> QED BY <1>1

\* A set of numbers with anything in it has a least one.
LEMMA NatLeast ==
  ASSUME NEW S, S \subseteq Nat, S # {}
  PROVE  \E n \in S : \A m \in S : n <= m
<1> DEFINE R == OpToRel(<, Nat)
<1>1. \E x \in S : \A y \in S : ~(<<y, x>> \in R)
  <2>1. IsWellFoundedOn(R, Nat)
    BY NatLessThanWellFounded
  <2> HIDE DEF R
  <2> QED BY <2>1, WFMin
<1>2. PICK x \in S : \A y \in S : ~(<<y, x>> \in R)
  BY <1>1
<1>3. ASSUME NEW y \in S PROVE x <= y
  <2>1. ~(<<y, x>> \in R) /\ x \in Nat /\ y \in Nat
    BY <1>2
  <2> QED BY <2>1 DEF OpToRel
<1> QED BY <1>3

\* Induction over the subsets of a finite set, one element more at a time.
LEMMA FiniteSetsBuild ==
  ASSUME NEW S, IsFiniteSet(S), NEW P, {} \in P,
         \A T \in SUBSET S : \A x \in S \ T : T \in P => T \cup {x} \in P
  PROVE  S \in P
<1> DEFINE Q == {n \in Nat : \A T \in SUBSET S : Cardinality(T) = n => T \in P}
<1>1. \A T \in SUBSET S : IsFiniteSet(T) /\ Cardinality(T) \in Nat
  BY FS_Subset, FS_CardinalityType
<1>2. 0 \in Q
  BY <1>1, FS_EmptySet
<1>3. ASSUME NEW n \in Nat, n \in Q PROVE n + 1 \in Q
  <2>1. ASSUME NEW T \in SUBSET S, Cardinality(T) = n + 1 PROVE T \in P
    <3> HIDE DEF Q
    <3>1. T # {}
      BY <1>3, <2>1, FS_EmptySet
    <3>2. PICK x \in T : TRUE
      BY <3>1
    <3>3. Cardinality(T \ {x}) = n
      <4>1. IsFiniteSet(T)
        BY <1>1
      <4>2. Cardinality(T \ {x}) = Cardinality(T) - 1
        BY <4>1, <3>2, FS_RemoveElement
      <4> QED BY <4>2, <2>1, <1>3
    <3>4. T \ {x} \in P
      BY <1>3, <3>3 DEF Q
    <3>5. T = (T \ {x}) \cup {x}
      BY <3>2
    <3> QED BY <3>4, <3>5
  <2> QED BY <2>1
<1>4. Nat \subseteq Q
  <2> HIDE DEF Q
  <2> QED BY <1>2, <1>3, NatSet
<1> QED BY <1>1, <1>4

----------------------------------------------------------------------------
(***************************************************************************)
(* A function on the subsets of S that is defined by taking one element off*)
(* at a time: there is one, and on common subsets only one.                *)
(***************************************************************************)

\* g is defined that way: choice names the element, step makes the next value.
TakesOff(g, S, choice, base, step) ==
  \A s \in SUBSET S : g[s] = IF s = {} THEN base ELSE step[choice[s], g[s \ {choice[s]}]]

LEMMA TakingOffExists ==
  ASSUME NEW S, IsFiniteSet(S), NEW V, NEW base \in V, NEW step \in [S \X V -> V],
         NEW choice, \A s \in SUBSET S : s # {} => choice[s] \in s
  PROVE  \E g \in [SUBSET S -> V] : TakesOff(g, S, choice, base, step)
<1> DEFINE Small(n) == {s \in SUBSET S : Cardinality(s) <= n}
           Good(g, n) == \A s \in Small(n) :
                           g[s] = IF s = {} THEN base ELSE step[choice[s], g[s \ {choice[s]}]]
           Q == {n \in Nat : \E g \in [Small(n) -> V] : Good(g, n)}
<1>1. \A T \in SUBSET S : IsFiniteSet(T) /\ Cardinality(T) \in Nat
  BY FS_Subset, FS_CardinalityType
<1>2. \A s \in SUBSET S : s # {} =>
        Cardinality(s \ {choice[s]}) = Cardinality(s) - 1 /\ s \ {choice[s]} \in SUBSET S
  BY <1>1, FS_RemoveElement
<1>3. 0 \in Q
  <2> DEFINE g == [s \in Small(0) |-> base]
  <2>1. \A s \in Small(0) : s = {}
    BY <1>1, FS_EmptySet
  <2>2. g \in [Small(0) -> V] /\ Good(g, 0)
    BY <2>1
  <2> QED BY <2>2
<1>4. ASSUME NEW n \in Nat, n \in Q PROVE n + 1 \in Q
  <2>1. PICK h \in [Small(n) -> V] : Good(h, n)
    BY <1>4
  <2> DEFINE Next(s) == IF s = {} THEN base ELSE step[choice[s], h[s \ {choice[s]}]]
             g == [s \in Small(n + 1) |-> Next(s)]
  <2>2. \A s \in Small(n + 1) : s # {} => s \ {choice[s]} \in Small(n)
    BY <1>1, <1>2
  <2>3. ASSUME NEW s \in Small(n + 1) PROVE Next(s) \in V
    <3>1. CASE s # {}
      <4>1. h[s \ {choice[s]}] \in V
        BY <2>2, <3>1
      <4> QED BY <4>1, <3>1
    <3> QED BY <3>1
  <2>4. \A s \in Small(n) : s \in Small(n + 1) /\ g[s] = h[s]
    <3>1. \A s \in Small(n) : s \in Small(n + 1)
      BY <1>1
    <3> QED BY <3>1, <2>1
  <2>5. Good(g, n + 1)
    BY <2>2, <2>4
  <2>6. g \in [Small(n + 1) -> V]
    BY <2>3
  <2>7. \E f \in [Small(n + 1) -> V] : Good(f, n + 1)
    <3> HIDE DEF g, Small, Good
    <3> QED BY <2>5, <2>6, Zenon
  <2> HIDE DEF Small, Good
  <2> QED BY <2>7
<1>5. Nat \subseteq Q
  <2> HIDE DEF Q
  <2> QED BY <1>3, <1>4, NatSet
<1>6. PICK g \in [Small(Cardinality(S)) -> V] : Good(g, Cardinality(S))
  BY <1>1, <1>5
<1>7. Small(Cardinality(S)) = SUBSET S
  BY FS_Subset, <1>1
<1> QED BY <1>6, <1>7 DEF TakesOff

\* Two such functions that start alike and go on alike are the same.
GoAlike(g, h, S, choice) ==
  \A s \in SUBSET S : s # {} =>
    /\ choice[s] \in s
    /\ g[s \ {choice[s]}] = h[s \ {choice[s]}] => g[s] = h[s]

LEMMA TakingOffAgrees ==
  ASSUME NEW S, IsFiniteSet(S), NEW choice, NEW g, NEW h, g[{}] = h[{}], GoAlike(g, h, S, choice)
  PROVE  g[S] = h[S]
<1> DEFINE Q == {n \in Nat : \A s \in SUBSET S : Cardinality(s) = n => g[s] = h[s]}
<1>0. \A s \in SUBSET S : s # {} =>
        choice[s] \in s /\ (g[s \ {choice[s]}] = h[s \ {choice[s]}] => g[s] = h[s])
  BY DEF GoAlike
<1>1. \A T \in SUBSET S : IsFiniteSet(T) /\ Cardinality(T) \in Nat
  BY FS_Subset, FS_CardinalityType
<1>2. 0 \in Q
  BY <1>1, FS_EmptySet
<1>3. ASSUME NEW n \in Nat, n \in Q PROVE n + 1 \in Q
  <2>1. ASSUME NEW s \in SUBSET S, Cardinality(s) = n + 1 PROVE g[s] = h[s]
    <3>1. s # {} /\ s \in SUBSET S
      BY <2>1, FS_EmptySet
    <3>2. Cardinality(s \ {choice[s]}) = n
      <4>1. IsFiniteSet(s)
        BY <1>1, <3>1
      <4>2. choice[s] \in s
        BY <3>1, <1>0
      <4>3. Cardinality(s \ {choice[s]}) = Cardinality(s) - 1
        BY <4>1, <4>2, FS_RemoveElement
      <4> QED BY <4>3, <2>1, <1>3
    <3>3. g[s \ {choice[s]}] = h[s \ {choice[s]}]
      BY <3>2, <1>3
    <3> QED BY <3>1, <3>3, <1>0
  <2> QED BY <2>1
<1>4. Nat \subseteq Q
  <2> HIDE DEF Q
  <2> QED BY <1>2, <1>3, NatSet
<1> QED BY <1>1, <1>4

----------------------------------------------------------------------------
(***************************************************************************)
(* Sums of natural numbers over finite sets.                               *)
(***************************************************************************)

\* What the library's sum unfolds to.
LEMMA SumUnfolds ==
  ASSUME NEW f, NEW S
  PROVE  SumFunctionOnSet(f, S) =
           (CHOOSE iter : iter = [s \in SUBSET S |-> IF s = {} THEN 0
              ELSE f[CHOOSE x \in s : TRUE] + iter[s \ {CHOOSE x \in s : TRUE}]])[S]
BY DEF SumFunctionOnSet, FoldFunctionOnSet, MapThenFoldSet

\* The empty sum, and the sum of a set by the element the library chooses.
LEMMA SumByChoice ==
  ASSUME NEW S, IsFiniteSet(S), NEW f, \A x \in S : f[x] \in Nat
  PROVE  /\ SumFunctionOnSet(f, S) \in Nat
         /\ SumFunctionOnSet(f, S) = IF S = {} THEN 0
              ELSE f[CHOOSE x \in S : TRUE] + SumFunctionOnSet(f, S \ {CHOOSE x \in S : TRUE})
<1> DEFINE choice == [s \in SUBSET S |-> CHOOSE x \in s : TRUE]
           step == [p \in S \X Nat |-> f[p[1]] + p[2]]
           Eq(iter, R) == iter = [s \in SUBSET R |-> IF s = {} THEN 0
              ELSE f[CHOOSE x \in s : TRUE] + iter[s \ {CHOOSE x \in s : TRUE}]]
           Iter(R) == CHOOSE iter : Eq(iter, R)
<1>1. \A s \in SUBSET S : s # {} =>
        /\ choice[s] = (CHOOSE x \in s : TRUE)
        /\ choice[s] \in s /\ choice[s] \in S /\ s \ {choice[s]} \in SUBSET S
  OBVIOUS
<1>2. step \in [S \X Nat -> Nat] /\ \A x \in S, v \in Nat : step[x, v] = f[x] + v
  <2>1. \A p \in S \X Nat : f[p[1]] + p[2] \in Nat
    OBVIOUS
  <2>2. step \in [S \X Nat -> Nat]
    BY <2>1
  <2>3. ASSUME NEW x \in S, NEW v \in Nat PROVE step[x, v] = f[x] + v
    OBVIOUS
  <2> HIDE DEF step
  <2> QED BY <2>2, <2>3
<1>3. PICK g \in [SUBSET S -> Nat] : TakesOff(g, S, choice, 0, step)
  <2> HIDE DEF step, choice
  <2> QED BY <1>1, <1>2, TakingOffExists
<1>4. \A s \in SUBSET S : g[s] = IF s = {} THEN 0
        ELSE f[CHOOSE x \in s : TRUE] + g[s \ {CHOOSE x \in s : TRUE}]
  <2>1. ASSUME NEW s \in SUBSET S, s # {}
        PROVE  g[s] = f[CHOOSE x \in s : TRUE] + g[s \ {CHOOSE x \in s : TRUE}]
    <3>1. g[s] = step[choice[s], g[s \ {choice[s]}]]
      <4> HIDE DEF step, choice
      <4> QED BY <1>3, <2>1 DEF TakesOff
    <3>2. step[choice[s], g[s \ {choice[s]}]] = f[choice[s]] + g[s \ {choice[s]}]
      <4>1. choice[s] \in S /\ g[s \ {choice[s]}] \in Nat
        <5> HIDE DEF choice
        <5> QED BY <1>1, <2>1
      <4> HIDE DEF step, choice
      <4> QED BY <1>2, <4>1
    <3> HIDE DEF step, choice
    <3> QED BY <3>1, <3>2, <1>1, <2>1
  <2>2. g[{}] = 0
    <3> HIDE DEF step, choice
    <3> QED BY <1>3 DEF TakesOff
  <2> HIDE DEF step, choice
  <2> QED BY <2>1, <2>2
<1>5. ASSUME NEW R \in SUBSET S PROVE SumFunctionOnSet(f, R) = g[R]
  <2> DEFINE r == [s \in SUBSET R |-> g[s]]
             h == Iter(R)
  <2>1. IsFiniteSet(R)
    BY FS_Subset
  <2>2. Eq(r, R)
    <3>1. \A s \in SUBSET R : s \in SUBSET S /\ s \ {CHOOSE x \in s : TRUE} \in SUBSET R
      OBVIOUS
    <3> QED BY <1>4, <3>1
  <2>3. Eq(h, R)
    <3> HIDE DEF Eq, r
    <3> QED BY <2>2
  <2>4. \A s \in SUBSET R : h[s] = IF s = {} THEN 0
          ELSE f[CHOOSE x \in s : TRUE] + h[s \ {CHOOSE x \in s : TRUE}]
    <3> HIDE DEF h
    <3> QED BY <2>3
  <2>5. h[{}] = g[{}]
    <3> HIDE DEF h
    <3> QED BY <2>4, <1>4
  <2>6. GoAlike(h, g, R, choice)
    <3> SUFFICES ASSUME NEW s \in SUBSET R, s # {}
                 PROVE  /\ choice[s] \in s
                        /\ h[s \ {choice[s]}] = g[s \ {choice[s]}] => h[s] = g[s]
      BY DEF GoAlike
    <3>1. s \in SUBSET S
      OBVIOUS
    <3>2. choice[s] = (CHOOSE x \in s : TRUE)
      BY <3>1, <1>1
    <3>3. g[s] = f[choice[s]] + g[s \ {choice[s]}]
      <4> HIDE DEF h, choice
      <4> QED BY <3>1, <3>2, <1>4
    <3>4. h[s] = f[choice[s]] + h[s \ {choice[s]}]
      <4> HIDE DEF h, choice
      <4> QED BY <3>2, <2>4
    <3>5. choice[s] \in s
      BY <3>1, <1>1
    <3> HIDE DEF h, choice
    <3> QED BY <3>3, <3>4, <3>5
  <2>7. g[R] = h[R]
    <3> HIDE DEF h, choice
    <3> QED BY <2>1, <2>5, <2>6, TakingOffAgrees
  <2>8. SumFunctionOnSet(f, R) = h[R]
    BY SumUnfolds
  <2> QED BY <2>7, <2>8
<1>6. S \in SUBSET S /\ (S # {} => S \ {CHOOSE x \in S : TRUE} \in SUBSET S)
  OBVIOUS
<1> HIDE DEF choice, step
<1> QED BY <1>3, <1>4, <1>5, <1>6

\* The empty sum.
LEMMA SumEmpty ==
  ASSUME NEW f
  PROVE  SumFunctionOnSet(f, {}) = 0
BY SumByChoice, FS_EmptySet

\* One element taken off, whichever the library would choose.
LEMMA SumOne ==
  ASSUME NEW S, IsFiniteSet(S), NEW f, \A x \in S : f[x] \in Nat, NEW x \in S
  PROVE  /\ SumFunctionOnSet(f, S) = f[x] + SumFunctionOnSet(f, S \ {x})
         /\ SumFunctionOnSet(f, S) \in Nat /\ SumFunctionOnSet(f, S \ {x}) \in Nat
<1> DEFINE Sum(T) == SumFunctionOnSet(f, T)
           Q == {n \in Nat : \A T \in SUBSET S : Cardinality(T) = n =>
                               \A y \in T : Sum(T) = f[y] + Sum(T \ {y})}
<1>1. \A T \in SUBSET S : IsFiniteSet(T) /\ Cardinality(T) \in Nat /\ Sum(T) \in Nat
  BY FS_Subset, FS_CardinalityType, SumByChoice
<1>2. 0 \in Q
  BY <1>1, FS_EmptySet
<1>3. ASSUME NEW n \in Nat, n \in Q PROVE n + 1 \in Q
  <2>1. ASSUME NEW T \in SUBSET S, Cardinality(T) = n + 1, NEW y \in T
        PROVE  Sum(T) = f[y] + Sum(T \ {y})
    <3>1. PICK c \in T : Sum(T) = f[c] + Sum(T \ {c})
      <4>1. IsFiniteSet(T) /\ \A z \in T : f[z] \in Nat
        BY <1>1
      <4>2. Sum(T) = f[CHOOSE z \in T : TRUE] + Sum(T \ {CHOOSE z \in T : TRUE})
        BY <4>1, SumByChoice
      <4> QED BY <4>2
    <3>2. CASE c = y
      BY <3>1, <3>2
    <3>3. CASE c # y
      <4>1. Cardinality(T \ {c}) = n /\ Cardinality(T \ {y}) = n
        <5>1. IsFiniteSet(T) /\ Cardinality(T) \in Nat
          BY <1>1
        <5>2. Cardinality(T \ {c}) = Cardinality(T) - 1 /\ Cardinality(T \ {y}) = Cardinality(T) - 1
          BY <5>1, FS_RemoveElement
        <5> QED BY <5>2, <2>1
      <4>2. Sum(T \ {c}) = f[y] + Sum((T \ {c}) \ {y})
        BY <4>1, <3>3, <1>3
      <4>3. Sum(T \ {y}) = f[c] + Sum((T \ {y}) \ {c})
        BY <4>1, <3>3, <1>3
      <4>4. (T \ {c}) \ {y} = (T \ {y}) \ {c}
        OBVIOUS
      <4>5. Sum((T \ {c}) \ {y}) \in Nat /\ f[y] \in Nat /\ f[c] \in Nat
        BY <1>1
      <4> HIDE DEF Sum
      <4> QED BY <3>1, <4>2, <4>3, <4>4, <4>5
    <3> QED BY <3>2, <3>3
  <2> QED BY <2>1
<1>4. Nat \subseteq Q
  <2> HIDE DEF Q
  <2> QED BY <1>2, <1>3, NatSet
<1> QED BY <1>1, <1>4

\* One element more.
LEMMA SumMore ==
  ASSUME NEW S, IsFiniteSet(S), NEW f, NEW x, x \notin S, \A y \in S \cup {x} : f[y] \in Nat
  PROVE  SumFunctionOnSet(f, S \cup {x}) = f[x] + SumFunctionOnSet(f, S)
<1>1. IsFiniteSet(S \cup {x})
  BY FS_AddElement
<1>2. (S \cup {x}) \ {x} = S
  OBVIOUS
<1>3. SumFunctionOnSet(f, S \cup {x}) = f[x] + SumFunctionOnSet(f, (S \cup {x}) \ {x})
  BY <1>1, SumOne
<1> QED BY <1>2, <1>3

\* Elements of S are told apart by what m makes of them, and m raises none: then the
\* sum over S is at most that over anything that holds their images.
Injects(m, f, S, g, T) ==
  /\ \A x \in S : f[x] \in Nat /\ m[x] \in T /\ f[x] <= g[m[x]]
  /\ \A x, y \in S : m[x] = m[y] => x = y
  /\ \A z \in T : g[z] \in Nat

LEMMA SumInjects ==
  ASSUME NEW S, IsFiniteSet(S), NEW T, IsFiniteSet(T), NEW f, NEW g, NEW m,
         Injects(m, f, S, g, T)
  PROVE  SumFunctionOnSet(f, S) <= SumFunctionOnSet(g, T)
<1>0. /\ \A x \in S : f[x] \in Nat /\ m[x] \in T /\ f[x] <= g[m[x]]
      /\ \A x, y \in S : m[x] = m[y] => x = y
      /\ \A z \in T : g[z] \in Nat
  BY DEF Injects
<1> DEFINE Sum(h, U) == SumFunctionOnSet(h, U)
           P == {U \in SUBSET S : \A V \in SUBSET T : (\A x \in U : m[x] \in V)
                                    => Sum(f, U) <= Sum(g, V)}
<1>1. /\ \A U \in SUBSET S : IsFiniteSet(U) /\ Sum(f, U) \in Nat
      /\ \A V \in SUBSET T : IsFiniteSet(V) /\ Sum(g, V) \in Nat
  BY <1>0, FS_Subset, SumByChoice
<1>2. {} \in P
  <2>1. Sum(f, {}) = 0
    BY SumEmpty
  <2> QED BY <2>1, <1>1
<1>3. ASSUME NEW U \in SUBSET S, NEW x \in S \ U, U \in P PROVE U \cup {x} \in P
  <2>1. ASSUME NEW V \in SUBSET T, \A y \in U \cup {x} : m[y] \in V
        PROVE  Sum(f, U \cup {x}) <= Sum(g, V)
    <3>1. Sum(f, U \cup {x}) = f[x] + Sum(f, U)
      BY <1>0, <1>1, SumMore
    <3>2. Sum(g, V) = g[m[x]] + Sum(g, V \ {m[x]})
      <4>1. IsFiniteSet(V) /\ (\A z \in V : g[z] \in Nat) /\ m[x] \in V
        BY <1>0, <1>1, <2>1
      <4> QED BY <4>1, SumOne
    <3>3. Sum(f, U) <= Sum(g, V \ {m[x]})
      <4>1. \A y \in U : m[y] \in V \ {m[x]}
        BY <1>0, <2>1
      <4> QED BY <4>1, <1>3
    <3>4. /\ f[x] \in Nat /\ g[m[x]] \in Nat /\ f[x] <= g[m[x]]
          /\ Sum(f, U) \in Nat /\ Sum(g, V \ {m[x]}) \in Nat
      BY <1>0, <1>1, <2>1
    <3> HIDE DEF Sum
    <3> QED BY <3>1, <3>2, <3>3, <3>4
  <2> QED BY <2>1
<1>4. S \in P
  <2> HIDE DEF P
  <2> QED BY <1>2, <1>3, FiniteSetsBuild
<1> QED BY <1>0, <1>4

\* What m makes of S is all of T and nothing changes: the sums are the same.
Renames(m, f, S, g, T) ==
  /\ \A x \in S : f[x] \in Nat /\ m[x] \in T /\ f[x] = g[m[x]]
  /\ \A x, y \in S : m[x] = m[y] => x = y
  /\ \A z \in T : \E x \in S : m[x] = z

LEMMA SumRenames ==
  ASSUME NEW S, IsFiniteSet(S), NEW T, IsFiniteSet(T), NEW f, NEW g, NEW m,
         Renames(m, f, S, g, T)
  PROVE  SumFunctionOnSet(f, S) = SumFunctionOnSet(g, T)
<1>0. /\ \A x \in S : f[x] \in Nat /\ m[x] \in T /\ f[x] = g[m[x]]
      /\ \A x, y \in S : m[x] = m[y] => x = y
      /\ \A z \in T : \E x \in S : m[x] = z
  BY DEF Renames
<1> DEFINE back == [z \in T |-> CHOOSE x \in S : m[x] = z]
<1>1. \A z \in T : g[z] \in Nat
  BY <1>0
<1>2. \A z \in T : back[z] \in S /\ m[back[z]] = z
  BY <1>0
<1>3. SumFunctionOnSet(f, S) <= SumFunctionOnSet(g, T)
  <2>1. Injects(m, f, S, g, T)
    BY <1>0, <1>1 DEF Injects
  <2> QED BY <2>1, SumInjects
<1>4. SumFunctionOnSet(g, T) <= SumFunctionOnSet(f, S)
  <2>1. \A z \in T : g[z] \in Nat /\ back[z] \in S /\ g[z] <= f[back[z]]
    BY <1>0, <1>1, <1>2
  <2>2. \A y, z \in T : back[y] = back[z] => y = z
    BY <1>2
  <2>3. \A x \in S : f[x] \in Nat
    BY <1>0
  <2> HIDE DEF back
  <2>4. Injects(back, g, T, f, S)
    BY <2>1, <2>2, <2>3 DEF Injects
  <2> QED BY <2>4, SumInjects
<1>5. SumFunctionOnSet(f, S) \in Nat /\ SumFunctionOnSet(g, T) \in Nat
  BY <1>0, <1>1, SumByChoice
<1> QED BY <1>3, <1>4, <1>5

\* Functions that agree on S have one sum over it.
LEMMA SumAgrees ==
  ASSUME NEW S, IsFiniteSet(S), NEW f, NEW g, \A x \in S : f[x] \in Nat /\ f[x] = g[x]
  PROVE  SumFunctionOnSet(f, S) = SumFunctionOnSet(g, S)
<1> DEFINE m == [x \in S |-> x]
<1>1. Renames(m, f, S, g, S)
  BY DEF Renames
<1> HIDE DEF m
<1> QED BY <1>1, SumRenames

\* Two parts that share nothing.
LEMMA SumParts ==
  ASSUME NEW S, IsFiniteSet(S), NEW T, IsFiniteSet(T), S \cap T = {}, NEW f,
         \A x \in S \cup T : f[x] \in Nat
  PROVE  SumFunctionOnSet(f, S \cup T) = SumFunctionOnSet(f, S) + SumFunctionOnSet(f, T)
<1> DEFINE Sum(U) == SumFunctionOnSet(f, U)
           P == {U \in SUBSET S : Sum(U \cup T) = Sum(U) + Sum(T)}
<1>1. \A U \in SUBSET S : /\ IsFiniteSet(U) /\ IsFiniteSet(U \cup T)
                          /\ Sum(U) \in Nat /\ Sum(U \cup T) \in Nat /\ Sum(T) \in Nat
  BY FS_Subset, FS_Union, SumByChoice
<1>2. {} \in P
  <2>1. Sum({}) = 0 /\ {} \cup T = T
    BY SumEmpty
  <2> QED BY <2>1, <1>1
<1>3. ASSUME NEW U \in SUBSET S, NEW x \in S \ U, U \in P PROVE U \cup {x} \in P
  <2>1. Sum(U \cup {x}) = f[x] + Sum(U)
    BY <1>1, SumMore
  <2>2. Sum((U \cup T) \cup {x}) = f[x] + Sum(U \cup T)
    BY <1>1, SumMore
  <2>3. (U \cup {x}) \cup T = (U \cup T) \cup {x}
    OBVIOUS
  <2>4. f[x] \in Nat /\ Sum(U) \in Nat /\ Sum(T) \in Nat /\ Sum(U \cup T) = Sum(U) + Sum(T)
    BY <1>1, <1>3
  <2>5. Sum((U \cup {x}) \cup T) = Sum(U \cup {x}) + Sum(T)
    <3>1. Sum((U \cup {x}) \cup T) = Sum((U \cup T) \cup {x})
      BY <2>3
    <3> HIDE DEF Sum
    <3> QED BY <2>1, <2>2, <3>1, <2>4
  <2>6. U \cup {x} \in SUBSET S
    OBVIOUS
  <2> HIDE DEF Sum
  <2> QED BY <2>5, <2>6
<1>4. S \in P
  <2> HIDE DEF P
  <2> QED BY <1>2, <1>3, FiniteSetsBuild
<1> QED BY <1>4

\* Nothing adds up to nothing.
LEMMA SumZero ==
  ASSUME NEW S, IsFiniteSet(S), NEW f, \A x \in S : f[x] = 0
  PROVE  SumFunctionOnSet(f, S) = 0
<1> DEFINE P == {T \in SUBSET S : SumFunctionOnSet(f, T) = 0}
<1>1. {} \in P
  BY SumEmpty
<1>2. ASSUME NEW T \in SUBSET S, NEW x \in S \ T, T \in P PROVE T \cup {x} \in P
  <2>1. IsFiniteSet(T) /\ \A y \in T \cup {x} : f[y] \in Nat
    BY FS_Subset
  <2>2. SumFunctionOnSet(f, T \cup {x}) = f[x] + SumFunctionOnSet(f, T)
    BY <2>1, SumMore
  <2> QED BY <1>2, <2>2
<1>3. S \in P
  <2> HIDE DEF P
  <2> QED BY <1>1, <1>2, FiniteSetsBuild
<1> QED BY <1>3

=============================================================================
