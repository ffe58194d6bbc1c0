--------------------------- MODULE LogSinksProofs ---------------------------
(***************************************************************************)
(* Proofs about the two log sinks, for every size of the queue and of a    *)
(* batch and every threshold: no record is lost, only those of a request   *)
(* that flush aborted may be told twice, what is acknowledged is in order, *)
(* nobody waits for an idle sink, and each sink implements LogDelivery.    *)
(*                                                                         *)
(* Every step is a few moves of records from one place to another.  A move *)
(* is a lemma about six places and has no variable in it; the steps of the *)
(* sinks are put together from them.                                       *)
(***************************************************************************)
EXTENDS MCLogSinks, TLAPS, SequenceTheorems, FiniteSetTheorems

----------------------------------------------------------------------------
(***************************************************************************)
(* Sequences of numbers.                                                   *)
(***************************************************************************)
\* In the order they were emitted.
Ascending(s) == \A i, j \in DOMAIN s : i < j => s[i] < s[j]

\* All of A before all of B.
Before(A, B) == \A a \in A, b \in B : a < b

\* What a sequence reaches.
LEMMA Reached ==
  ASSUME NEW s \in Seq(Nat)
  PROVE  /\ Len(s) \in Nat /\ DOMAIN s = 1..Len(s)
         /\ \A x : x \in Range(s) <=> \E i \in 1..Len(s) : s[i] = x
         /\ Range(s) \subseteq Nat
BY DEF Range

\* Nothing, in any order.
LEMMA EmptySequence ==
  Range(<<>>) = {} /\ Ascending(<<>>) /\ IsInjective(<<>>) /\ <<>> \in Seq(Nat) /\ Len(<<>>) = 0
BY DEF Range, Ascending, IsInjective

\* The first of some.
LEMMA Nonempty ==
  ASSUME NEW s \in Seq(Nat), s # <<>>
  PROVE  Range(s) # {} /\ Len(s) >= 1 /\ Head(s) \in Range(s) /\ Head(s) = s[1]
<1>1. Len(s) >= 1 /\ Head(s) = s[1]
  OBVIOUS
<1>2. s[1] \in Range(s)
  BY <1>1, Reached
<1> QED BY <1>1, <1>2

\* One more at the end.
LEMMA Appended ==
  ASSUME NEW s \in Seq(Nat), NEW e \in Nat
  PROVE  /\ Append(s, e) \in Seq(Nat)
         /\ Len(Append(s, e)) = Len(s) + 1
         /\ Range(Append(s, e)) = Range(s) \cup {e}
         /\ Ascending(s) /\ (\A x \in Range(s) : x < e) => Ascending(Append(s, e))
         /\ IsInjective(s) /\ e \notin Range(s) => IsInjective(Append(s, e))
<1> DEFINE t == Append(s, e)
<1>1. t \in Seq(Nat) /\ Len(t) = Len(s) + 1 /\ DOMAIN t = 1..(Len(s) + 1)
      /\ DOMAIN s = 1..Len(s) /\ Len(s) \in Nat
  OBVIOUS
<1>2. \A i \in 1..(Len(s) + 1) : t[i] = IF i <= Len(s) THEN s[i] ELSE e
  OBVIOUS
<1> HIDE DEF t
<1>3. ASSUME NEW x PROVE x \in Range(t) <=> x \in Range(s) \cup {e}
  <2>1. x \in Range(t) <=> \E i \in 1..(Len(s) + 1) : t[i] = x
    BY <1>1, Reached
  <2>2. x \in Range(s) <=> \E i \in 1..Len(s) : s[i] = x
    BY Reached
  <2>3. t[Len(s) + 1] = e /\ \A i \in 1..Len(s) : t[i] = s[i]
    BY <1>1, <1>2
  <2>4. \A i \in 1..(Len(s) + 1) : i \in 1..Len(s) \/ i = Len(s) + 1
    BY <1>1
  <2>5. Len(s) + 1 \in 1..(Len(s) + 1) /\ \A i \in 1..Len(s) : i \in 1..(Len(s) + 1)
    BY <1>1
  <2> QED BY <2>1, <2>2, <2>3, <2>4, <2>5
<1>4. Ascending(s) /\ (\A x \in Range(s) : x < e) => Ascending(t)
  BY <1>1, <1>2 DEF Range, Ascending
<1>5. IsInjective(s) /\ e \notin Range(s) => IsInjective(t)
  BY <1>1, <1>2 DEF Range, IsInjective
<1> QED BY <1>1, <1>3, <1>4, <1>5 DEF t

\* One sequence after another.
LEMMA Joined ==
  ASSUME NEW s \in Seq(Nat), NEW t \in Seq(Nat)
  PROVE  /\ s \o t \in Seq(Nat)
         /\ Range(s \o t) = Range(s) \cup Range(t)
         /\ Ascending(s) /\ Ascending(t) /\ Before(Range(s), Range(t)) => Ascending(s \o t)
         /\ IsInjective(s) /\ IsInjective(t) /\ Range(s) \cap Range(t) = {} => IsInjective(s \o t)
<1> DEFINE u == s \o t
<1>1. u \in Seq(Nat) /\ Len(u) = Len(s) + Len(t) /\ Len(s) \in Nat /\ Len(t) \in Nat
      /\ DOMAIN s = 1..Len(s) /\ DOMAIN t = 1..Len(t) /\ DOMAIN u = 1..(Len(s) + Len(t))
  BY ConcatProperties, LenProperties
<1>2. \A i \in 1..(Len(s) + Len(t)) : u[i] = IF i <= Len(s) THEN s[i] ELSE t[i - Len(s)]
  BY ConcatProperties
<1> HIDE DEF u
<1>3. /\ \A i \in 1..Len(s) : i \in 1..(Len(s) + Len(t)) /\ u[i] = s[i]
      /\ \A i \in 1..Len(t) : i + Len(s) \in 1..(Len(s) + Len(t)) /\ u[i + Len(s)] = t[i]
  <2>1. \A i \in 1..Len(s) : i \in 1..(Len(s) + Len(t)) /\ i <= Len(s)
    BY <1>1
  <2>2. \A i \in 1..Len(t) : /\ i + Len(s) \in 1..(Len(s) + Len(t)) /\ ~(i + Len(s) <= Len(s))
                             /\ (i + Len(s)) - Len(s) = i
    BY <1>1
  <2> QED BY <1>2, <2>1, <2>2
<1>4. \A i \in 1..(Len(s) + Len(t)) :
        \/ i \in 1..Len(s) /\ u[i] = s[i]
        \/ i > Len(s) /\ i - Len(s) \in 1..Len(t) /\ u[i] = t[i - Len(s)]
  BY <1>1, <1>2
<1>5. ASSUME NEW x PROVE x \in Range(u) <=> x \in Range(s) \cup Range(t)
  <2>1. x \in Range(u) <=> \E i \in 1..(Len(s) + Len(t)) : u[i] = x
    BY <1>1, Reached
  <2>2. /\ x \in Range(s) <=> \E i \in 1..Len(s) : s[i] = x
        /\ x \in Range(t) <=> \E i \in 1..Len(t) : t[i] = x
    BY Reached
  <2>3. ASSUME x \in Range(t) PROVE x \in Range(u)
    BY <2>1, <2>2, <2>3, <1>3
  <2>4. ASSUME x \in Range(s) PROVE x \in Range(u)
    BY <2>1, <2>2, <2>4, <1>3
  <2> QED BY <2>1, <2>2, <2>3, <2>4, <1>4
<1>6. /\ \A i \in 1..Len(s) : s[i] \in Range(s) /\ s[i] \in Nat
      /\ \A i \in 1..Len(t) : t[i] \in Range(t) /\ t[i] \in Nat
  BY Reached
<1>7. ASSUME Ascending(s), Ascending(t), Before(Range(s), Range(t)),
             NEW i \in 1..(Len(s) + Len(t)), NEW j \in 1..(Len(s) + Len(t)), i < j
      PROVE  u[i] < u[j]
  <2>1. CASE j \in 1..Len(s)
    <3>1. i \in 1..Len(s) /\ u[i] = s[i] /\ u[j] = s[j]
      BY <2>1, <1>1, <1>3, <1>7
    <3> QED BY <3>1, <2>1, <1>1, <1>7 DEF Ascending
  <2>2. CASE i \in 1..Len(s) /\ j > Len(s)
    <3>1. u[i] = s[i] /\ j - Len(s) \in 1..Len(t) /\ u[j] = t[j - Len(s)]
      <4>1. j \notin 1..Len(s)
        BY <2>2, <1>1
      <4> QED BY <4>1, <2>2, <1>3, <1>4
    <3>2. u[i] \in Range(s) /\ u[j] \in Range(t)
      BY <3>1, <2>2, <1>6
    <3> QED BY <3>2, <1>7 DEF Before
  <2>3. CASE i > Len(s)
    <3>1. i - Len(s) \in 1..Len(t) /\ j - Len(s) \in 1..Len(t) /\ i - Len(s) < j - Len(s)
          /\ u[i] = t[i - Len(s)] /\ u[j] = t[j - Len(s)]
      BY <2>3, <1>1, <1>4, <1>7
    <3> QED BY <3>1, <1>1, <1>7 DEF Ascending
  <2> QED BY <2>1, <2>2, <2>3, <1>1, <1>7
<1>8. ASSUME IsInjective(s), IsInjective(t), Range(s) \cap Range(t) = {},
             NEW i \in 1..(Len(s) + Len(t)), NEW j \in 1..(Len(s) + Len(t)), u[i] = u[j]
      PROVE  i = j
  <2>1. CASE i \in 1..Len(s) /\ j \in 1..Len(s)
    BY <2>1, <1>1, <1>3, <1>8 DEF IsInjective
  <2>2. CASE i > Len(s) /\ j > Len(s)
    <3>1. i - Len(s) \in 1..Len(t) /\ j - Len(s) \in 1..Len(t)
          /\ u[i] = t[i - Len(s)] /\ u[j] = t[j - Len(s)]
      BY <2>2, <1>1, <1>4
    <3>2. i - Len(s) = j - Len(s)
      BY <3>1, <1>1, <1>8 DEF IsInjective
    <3> QED BY <3>2, <1>1
  <2>3. CASE (i \in 1..Len(s) /\ j > Len(s)) \/ (j \in 1..Len(s) /\ i > Len(s))
    <3>1. \A k \in 1..(Len(s) + Len(t)) : k \in 1..Len(s) => u[k] \in Range(s)
      BY <1>3, <1>6
    <3>2. \A k \in 1..(Len(s) + Len(t)) : k > Len(s) => u[k] \in Range(t)
      <4>1. ASSUME NEW k \in 1..(Len(s) + Len(t)), k > Len(s) PROVE u[k] \in Range(t)
        <5>1. k \notin 1..Len(s)
          BY <4>1, <1>1
        <5>2. k - Len(s) \in 1..Len(t) /\ u[k] = t[k - Len(s)]
          BY <5>1, <1>4
        <5> QED BY <5>2, <1>6
      <4> QED BY <4>1
    <3> QED BY <2>3, <3>1, <3>2, <1>8
  <2> QED BY <2>1, <2>2, <2>3, <1>1
<1>9. (Ascending(s) /\ Ascending(t) /\ Before(Range(s), Range(t))) => Ascending(u)
  BY <1>1, <1>7 DEF Ascending
<1>10. (IsInjective(s) /\ IsInjective(t) /\ Range(s) \cap Range(t) = {}) => IsInjective(u)
  BY <1>1, <1>8 DEF IsInjective
<1> QED BY <1>1, <1>5, <1>9, <1>10 DEF u

\* How many are left of m when k are taken.
LEMMA WhatIsLeft ==
  ASSUME NEW m \in Nat, NEW k \in Nat, k <= m
  PROVE  (IF k + 1 <= m THEN m - (k + 1) + 1 ELSE 0) = m - k
<1>1. CASE k = m
  <2>1. ~(k + 1 <= m) /\ m - k = 0
    BY <1>1
  <2> QED BY <2>1
<1>2. CASE k < m
  <2>1. k + 1 <= m /\ m - (k + 1) + 1 = m - k
    BY <1>2
  <2> QED BY <2>1
<1> QED BY <1>1, <1>2

\* Cut in two.
LEMMA CutInTwo ==
  ASSUME NEW s \in Seq(Nat), NEW n \in 0..Len(s), Ascending(s)
  PROVE  LET a == SubSeq(s, 1, n)  b == SubSeq(s, n + 1, Len(s)) IN
         /\ a \in Seq(Nat) /\ b \in Seq(Nat) /\ Len(a) = n /\ Len(b) = Len(s) - n
         /\ Range(s) = Range(a) \cup Range(b)
         /\ Ascending(a) /\ Ascending(b) /\ Before(Range(a), Range(b))
<1> DEFINE a == SubSeq(s, 1, n)
           b == SubSeq(s, n + 1, Len(s))
<1>1. Len(s) \in Nat /\ n \in Nat /\ n <= Len(s) /\ DOMAIN s = 1..Len(s)
      /\ \A i \in 1..Len(s) : s[i] \in Nat
  BY Reached
<1>2. a \in Seq(Nat) /\ Len(a) = n /\ \A i \in 1..n : a[i] = s[i]
  <2>1. \A i \in 1..n : s[i] \in Nat
    BY <1>1
  <2>2. 1 \in Int /\ n \in Int
    BY <1>1
  <2>3. a \in Seq(Nat) /\ Len(a) = (IF 1 <= n THEN n - 1 + 1 ELSE 0)
        /\ \A i \in 1..(n - 1 + 1) : a[i] = s[1 + i - 1]
    BY <2>1, <2>2, SubSeqProperties
  <2> HIDE DEF a
  <2> QED BY <2>3, <1>1
<1>3. b \in Seq(Nat) /\ Len(b) = Len(s) - n /\ \A i \in 1..(Len(s) - n) : b[i] = s[n + i]
  <2>1. \A i \in (n + 1)..Len(s) : s[i] \in Nat
    BY <1>1
  <2>2. n + 1 \in Int /\ Len(s) \in Int
    BY <1>1
  <2>3. b \in Seq(Nat) /\ Len(b) = (IF n + 1 <= Len(s) THEN Len(s) - (n + 1) + 1 ELSE 0)
        /\ \A i \in 1..(Len(s) - (n + 1) + 1) : b[i] = s[(n + 1) + i - 1]
    BY <2>1, <2>2, SubSeqProperties
  <2> HIDE DEF b
  <2>4. \A i \in 1..(Len(s) - n) : i \in 1..(Len(s) - (n + 1) + 1) /\ (n + 1) + i - 1 = n + i
    BY <1>1
  <2>5. (IF n + 1 <= Len(s) THEN Len(s) - (n + 1) + 1 ELSE 0) = Len(s) - n
    BY <1>1, WhatIsLeft
  <2> QED BY <2>3, <2>4, <2>5
<1> HIDE DEF a, b
<1>4. /\ \A x : x \in Range(a) <=> \E i \in 1..n : s[i] = x
      /\ \A x : x \in Range(b) <=> \E i \in 1..(Len(s) - n) : s[n + i] = x
      /\ \A x : x \in Range(s) <=> \E i \in 1..Len(s) : s[i] = x
  <2>1. \A x : x \in Range(a) <=> \E i \in 1..n : a[i] = x
    BY <1>2, Reached
  <2>2. \A x : x \in Range(b) <=> \E i \in 1..(Len(s) - n) : b[i] = x
    BY <1>3, Reached
  <2>3. \A x : (\E i \in 1..n : a[i] = x) <=> \E i \in 1..n : s[i] = x
    BY <1>2
  <2>4. \A x : (\E i \in 1..(Len(s) - n) : b[i] = x) <=> \E i \in 1..(Len(s) - n) : s[n + i] = x
    BY <1>3
  <2> QED BY <2>1, <2>2, <2>3, <2>4, Reached
<1>5. \A i \in 1..(Len(s) - n) : n + i \in 1..Len(s) /\ n + i > n
  BY <1>1
<1>6. \A i \in 1..Len(s) : i \in 1..n \/ (i - n \in 1..(Len(s) - n) /\ n + (i - n) = i)
  BY <1>1
<1>7. \A i \in 1..n : i \in 1..Len(s)
  BY <1>1
<1>8. Range(s) = Range(a) \cup Range(b)
  <2>1. ASSUME NEW x \in Range(s) PROVE x \in Range(a) \cup Range(b)
    <3>1. PICK i \in 1..Len(s) : s[i] = x
      BY <1>4
    <3>2. CASE i \in 1..n
      BY <3>1, <3>2, <1>4
    <3>3. CASE i - n \in 1..(Len(s) - n) /\ n + (i - n) = i
      <4>1. s[n + (i - n)] = x
        BY <3>1, <3>3
      <4> QED BY <4>1, <3>3, <1>4
    <3> QED BY <3>2, <3>3, <1>6
  <2>2. ASSUME NEW x \in Range(a) PROVE x \in Range(s)
    BY <1>4, <1>7
  <2>3. ASSUME NEW x \in Range(b) PROVE x \in Range(s)
    BY <1>4, <1>5
  <2> QED BY <2>1, <2>2, <2>3
<1>9. Before(Range(a), Range(b))
  <2>1. ASSUME NEW i \in 1..n, NEW j \in 1..(Len(s) - n) PROVE s[i] < s[n + j]
    <3>1. i \in 1..Len(s) /\ n + j \in 1..Len(s) /\ n + j > n
      BY <1>5, <1>7
    <3>2. i < n + j
      BY <3>1, <1>1
    <3> QED BY <3>1, <3>2, <1>1 DEF Ascending
  <2>2. ASSUME NEW x \in Range(a), NEW y \in Range(b) PROVE x < y
    <3>1. PICK i \in 1..n : s[i] = x
      BY <1>4
    <3>2. PICK j \in 1..(Len(s) - n) : s[n + j] = y
      BY <1>4
    <3> QED BY <3>1, <3>2, <2>1
  <2> QED BY <2>2 DEF Before
<1>10. Ascending(a)
  BY <1>1, <1>2, <1>7 DEF Ascending
<1>11. Ascending(b)
  <2>1. ASSUME NEW i \in 1..(Len(s) - n), NEW j \in 1..(Len(s) - n), i < j
        PROVE  s[n + i] < s[n + j]
    <3>1. n + i \in 1..Len(s) /\ n + j \in 1..Len(s)
      BY <1>5
    <3>2. i \in Int /\ j \in Int /\ n \in Int
      BY <1>1
    <3>3. n + i < n + j
      BY <3>2, <2>1
    <3> QED BY <3>1, <3>3, <1>1 DEF Ascending
  <2>2. DOMAIN b = 1..(Len(s) - n)
    BY <1>3, Reached
  <2> QED BY <2>1, <2>2, <1>3 DEF Ascending
<1> QED BY <1>2, <1>3, <1>8, <1>9, <1>10, <1>11 DEF a, b

\* All but the first.
LEMMA WithoutTheFirst ==
  ASSUME NEW s \in Seq(Nat), s # <<>>, Ascending(s)
  PROVE  /\ Tail(s) \in Seq(Nat) /\ Len(Tail(s)) = Len(s) - 1
         /\ Range(s) = {Head(s)} \cup Range(Tail(s))
         /\ Ascending(Tail(s))
         /\ \A x \in Range(Tail(s)) : Head(s) < x
<1>1. Len(s) \in Nat /\ Len(s) >= 1 /\ DOMAIN s = 1..Len(s) /\ Head(s) = s[1]
  BY Reached, Nonempty
<1>2. Tail(s) = SubSeq(s, 2, Len(s))
  BY TailIsSubSeq
<1> DEFINE a == SubSeq(s, 1, 1)
<1>3. /\ a \in Seq(Nat) /\ Tail(s) \in Seq(Nat) /\ Len(a) = 1 /\ Len(Tail(s)) = Len(s) - 1
      /\ Range(s) = Range(a) \cup Range(Tail(s))
      /\ Ascending(Tail(s)) /\ Before(Range(a), Range(Tail(s)))
  <2>1. 1 \in 0..Len(s) /\ 1 + 1 = 2
    BY <1>1
  <2>2. Len(a) = 1 /\ a \in Seq(Nat)
    BY <2>1, CutInTwo
  <2>3. LET b == SubSeq(s, 1 + 1, Len(s)) IN
         /\ b \in Seq(Nat) /\ Len(b) = Len(s) - 1
         /\ Range(s) = Range(a) \cup Range(b)
         /\ Ascending(b) /\ Before(Range(a), Range(b))
    BY <2>1, CutInTwo
  <2> QED BY <2>1, <2>2, <2>3, <1>2
<1>4. a[1] = s[1]
  OBVIOUS
<1> HIDE DEF a
<1>5. Range(a) = {Head(s)}
  <2>1. \A x : x \in Range(a) <=> \E i \in 1..1 : a[i] = x
    BY <1>3, Reached
  <2>2. \A x : x \in Range(a) <=> x = Head(s)
    BY <2>1, <1>1, <1>4
  <2> QED BY <2>2
<1> QED BY <1>3, <1>5 DEF Before

\* In order, each is there once: as many numbers as places.
LEMMA AscendingOnce ==
  ASSUME NEW s \in Seq(Nat), Ascending(s)
  PROVE  /\ IsInjective(s) /\ IsFiniteSet(Range(s)) /\ Cardinality(Range(s)) = Len(s)
         /\ s # <<>> => \A x \in Range(s) : x >= Head(s)
<1>1. Len(s) \in Nat /\ DOMAIN s = 1..Len(s) /\ \A i \in 1..Len(s) : s[i] \in Nat
  BY Reached
<1>2. IsInjective(s)
  <2>1. \A i, j \in 1..Len(s) : i < j \/ j < i \/ i = j
    BY <1>1
  <2> QED BY <2>1, <1>1 DEF Ascending, IsInjective
<1>3. s \in Bijection(1..Len(s), Range(s))
  <2>1. s \in [1..Len(s) -> Range(s)]
    BY LenProperties, <1>1, Reached
  <2> QED BY <2>1, <1>1, <1>2, Reached DEF Bijection, Injection, Surjection, IsInjective
<1>4. IsFiniteSet(1..Len(s)) /\ Cardinality(1..Len(s)) = Len(s)
  BY <1>1, FS_Interval
<1>5. IsFiniteSet(Range(s)) /\ Cardinality(Range(s)) = Len(s)
  BY <1>3, <1>4, FS_Bijection DEF ExistsBijection
<1>6. ASSUME s # <<>>, NEW x \in Range(s) PROVE x >= Head(s)
  <2>1. PICK i \in 1..Len(s) : s[i] = x
    BY Reached
  <2>2. Head(s) = s[1] /\ 1 \in 1..Len(s) /\ (i = 1 \/ 1 < i)
    BY <1>1, <1>6, Nonempty
  <2> QED BY <2>1, <2>2, <1>1 DEF Ascending
<1> QED BY <1>2, <1>5, <1>6
----------------------------------------------------------------------------
\* Six places share the records emitted among them.
Split(A, B, C, D, E, F, n) ==
  /\ A \cup B \cup C \cup D \cup E \cup F = 1..n
  /\ A \cap (B \cup C \cup D \cup E \cup F) = {}
  /\ B \cap (C \cup D \cup E \cup F) = {}
  /\ C \cap (D \cup E \cup F) = {}
  /\ D \cap (E \cup F) = {}
  /\ E \cap F = {}

\* Queue, hand, salvage, collector, fallback and evictions; tw is what the collector has
\* besides the fallback or what is on its way there.
Placed(q, h, v, rem, tw, loc, ev, n) ==
  /\ q \in Seq(Nat) /\ h \in Seq(Nat) /\ v \in Seq(Nat) /\ rem \in Seq(Nat) /\ loc \in Seq(Nat)
  /\ n \in Nat
  /\ tw = Range(rem) \cap (Range(v) \cup Range(loc))
  /\ Split(Range(q), Range(h), Range(v), Range(rem) \ tw, Range(loc), ev, n)
  /\ Ascending(q) /\ Ascending(h) /\ Ascending(v) /\ Ascending(rem) /\ IsInjective(loc)
  /\ Before(Range(rem), Range(h)) /\ Before(Range(rem), Range(q)) /\ Before(Range(h), Range(q))

\* Only records that have been emitted are anywhere.
LEMMA InRange ==
  ASSUME NEW q, NEW h, NEW v, NEW rem, NEW tw, NEW loc, NEW ev, NEW n, Placed(q, h, v, rem, tw, loc, ev, n)
  PROVE  /\ \A s \in {q, h, v, rem, loc} : s \in Seq(Nat) /\ Range(s) \subseteq 1..n
         /\ ev \subseteq 1..n /\ n \in Nat
<1>1. Range(v) \subseteq 1..n /\ Range(loc) \subseteq 1..n /\ Range(rem) \ tw \subseteq 1..n
  BY DEF Placed, Split
<1>2. Range(rem) \subseteq 1..n
  BY <1>1 DEF Placed
<1> QED BY <1>1, <1>2 DEF Placed, Split

\* Six places that share the records are what AccountedFor asks for.
LEMMA OnePlaceEach ==
  ASSUME NEW A, NEW B, NEW C, NEW D, NEW E, NEW F, NEW n, Split(A, B, C, D, E, F, n)
  PROVE  LET places == <<A, B, C, D, E, F>> IN
         /\ UNION Range(places) = 1..n
         /\ \A i, j \in DOMAIN places : i # j => places[i] \cap places[j] = {}
<1> DEFINE places == <<A, B, C, D, E, F>>
<1>1. DOMAIN places = 1..6
  OBVIOUS
<1>2. /\ places[1] = A /\ places[2] = B /\ places[3] = C
      /\ places[4] = D /\ places[5] = E /\ places[6] = F
  OBVIOUS
<1> HIDE DEF places
<1>3. \A i \in 1..6 : i = 1 \/ i = 2 \/ i = 3 \/ i = 4 \/ i = 5 \/ i = 6
  OBVIOUS
<1>4. Range(places) = {A, B, C, D, E, F}
  BY <1>1, <1>2, <1>3 DEF Range
<1>5. UNION {A, B, C, D, E, F} = A \cup B \cup C \cup D \cup E \cup F
  OBVIOUS
<1>6. UNION Range(places) = 1..n
  BY <1>4, <1>5 DEF Split
<1>7. ASSUME NEW i \in 1..6, NEW j \in 1..6, i < j PROVE places[i] \cap places[j] = {}
  <2>1. CASE i = 1
    BY <2>1, <1>2, <1>3, <1>7 DEF Split
  <2>2. CASE i = 2
    BY <2>2, <1>2, <1>3, <1>7 DEF Split
  <2>3. CASE i = 3
    BY <2>3, <1>2, <1>3, <1>7 DEF Split
  <2>4. CASE i = 4
    BY <2>4, <1>2, <1>3, <1>7 DEF Split
  <2>5. CASE i = 5
    BY <2>5, <1>2, <1>3, <1>7 DEF Split
  <2>6. CASE i = 6
    BY <2>6, <1>7
  <2> QED BY <2>1, <2>2, <2>3, <2>4, <2>5, <2>6, <1>3
<1>8. \A i, j \in DOMAIN places : i # j => places[i] \cap places[j] = {}
  <2>1. ASSUME NEW i \in 1..6, NEW j \in 1..6, i # j PROVE places[i] \cap places[j] = {}
    <3>1. CASE i < j
      BY <3>1, <1>7
    <3>2. CASE j < i
      BY <3>2, <1>7
    <3> QED BY <3>1, <3>2, <2>1
  <2> QED BY <2>1, <1>1
<1> QED BY <1>6, <1>8 DEF places

\* What the places say of the state.
LEMMA PlacedAccounts ==
  ASSUME NEW h, Placed(queue, h, salvage, remote, Twice, local, evicted, emitted),
         Cardinality(Twice) <= IF flush \in {"no", "waiting"} THEN 0 ELSE BatchSize
  PROVE  AccountedFor(Range(h)) /\ RemoteInOrder
<1>1. /\ Split(Range(queue), Range(h), Range(salvage), Range(remote) \ Twice, Range(local), evicted, emitted)
      /\ IsInjective(local) /\ Ascending(remote) /\ remote \in Seq(Nat)
  BY DEF Placed
<1>2. IsInjective(remote)
  BY <1>1, AscendingOnce
<1> QED BY <1>1, <1>2, OnePlaceEach DEF AccountedFor, RemoteInOrder, Ascending

\* What is in two places follows from the places.
LEMMA PlacedTwice ==
  ASSUME NEW h, NEW tw, Placed(queue', h, salvage', remote', tw, local', evicted', emitted')
  PROVE  Twice' = tw
BY DEF Placed, Twice

\* The next record is nowhere yet, and after all others.
LEMMA NextIsNew ==
  ASSUME NEW q, NEW h, NEW v, NEW rem, NEW tw, NEW loc, NEW ev, NEW n, Placed(q, h, v, rem, tw, loc, ev, n)
  PROVE  /\ n + 1 \in Nat /\ 1..(n + 1) = (1..n) \cup {n + 1} /\ n + 1 \notin 1..n
         /\ (\A x \in Range(q) : x < n + 1) /\ (\A x \in Range(h) : x < n + 1)
         /\ (\A x \in Range(rem) : x < n + 1)
         /\ n + 1 \notin Range(q) /\ n + 1 \notin Range(h) /\ n + 1 \notin Range(v)
         /\ n + 1 \notin Range(rem) /\ n + 1 \notin Range(loc) /\ n + 1 \notin ev
<1>1. n \in Nat
  BY InRange
<1>2. n + 1 \in Nat /\ (\A x \in 1..n : x < n + 1) /\ n + 1 \notin 1..n
      /\ 1..(n + 1) = (1..n) \cup {n + 1}
  BY <1>1
<1> QED BY <1>2, InRange

\* The collector has nothing that is in hand or waits, and nothing that was dropped.
LEMMA CollectedIsGone ==
  ASSUME NEW q, NEW h, NEW v, NEW rem, NEW tw, NEW loc, NEW ev, NEW n, Placed(q, h, v, rem, tw, loc, ev, n)
  PROVE  Range(rem) \cap (Range(q) \cup Range(h) \cup ev) = {}
BY DEF Placed, Split

\* A record joins the queue.
LEMMA Keeps ==
  ASSUME NEW q, NEW h, NEW v, NEW rem, NEW tw, NEW loc, NEW ev, NEW n, Placed(q, h, v, rem, tw, loc, ev, n)
  PROVE  Placed(Append(q, n + 1), h, v, rem, tw, loc, ev, n + 1)
<1>0. /\ n + 1 \in Nat /\ 1..(n + 1) = (1..n) \cup {n + 1} /\ n + 1 \notin 1..n
      /\ (\A x \in Range(q) : x < n + 1) /\ (\A x \in Range(h) : x < n + 1)
      /\ (\A x \in Range(rem) : x < n + 1)
      /\ n + 1 \notin Range(q) /\ n + 1 \notin Range(h) /\ n + 1 \notin Range(v)
      /\ n + 1 \notin Range(rem) /\ n + 1 \notin Range(loc) /\ n + 1 \notin ev
  BY NextIsNew
<1>1. q \in Seq(Nat) /\ Ascending(q)
  BY DEF Placed
<1>2. /\ Append(q, n + 1) \in Seq(Nat) /\ Ascending(Append(q, n + 1))
      /\ Range(Append(q, n + 1)) = Range(q) \cup {n + 1}
  BY <1>1, <1>0, Appended
<1>3. Split(Range(q) \cup {n + 1}, Range(h), Range(v), Range(rem) \ tw, Range(loc), ev, n + 1)
  BY <1>0 DEF Split, Placed
<1>4. Before(Range(rem), Range(q) \cup {n + 1}) /\ Before(Range(h), Range(q) \cup {n + 1})
  BY <1>0 DEF Before, Placed
<1> QED BY <1>2, <1>3, <1>4, <1>0 DEF Placed

\* The oldest record leaves a full queue.
LEMMA Evicts ==
  ASSUME NEW q, NEW h, NEW v, NEW rem, NEW tw, NEW loc, NEW ev, NEW n, Placed(q, h, v, rem, tw, loc, ev, n),
         q # <<>>
  PROVE  Placed(Tail(q), h, v, rem, tw, loc, ev \cup {Head(q)}, n)
<1>1. q \in Seq(Nat) /\ Ascending(q)
  BY DEF Placed
<1>2. /\ Tail(q) \in Seq(Nat) /\ Range(q) = {Head(q)} \cup Range(Tail(q)) /\ Ascending(Tail(q))
      /\ Head(q) \notin Range(Tail(q))
  <2>1. Head(q) \in Nat
    BY <1>1, Nonempty, Reached
  <2> QED BY <2>1, <1>1, WithoutTheFirst
<1>3. Split(Range(Tail(q)), Range(h), Range(v), Range(rem) \ tw, Range(loc), ev \cup {Head(q)}, n)
  BY <1>2 DEF Split, Placed
<1>4. Before(Range(rem), Range(Tail(q))) /\ Before(Range(h), Range(Tail(q)))
  BY <1>2 DEF Before, Placed
<1> QED BY <1>2, <1>3, <1>4 DEF Placed

\* A record is written locally as it comes.
LEMMA WritesNext ==
  ASSUME NEW q, NEW h, NEW v, NEW rem, NEW tw, NEW loc, NEW ev, NEW n, Placed(q, h, v, rem, tw, loc, ev, n)
  PROVE  Placed(q, h, v, rem, tw, Append(loc, n + 1), ev, n + 1)
<1>0. /\ n + 1 \in Nat /\ 1..(n + 1) = (1..n) \cup {n + 1} /\ n + 1 \notin 1..n
      /\ (\A x \in Range(q) : x < n + 1) /\ (\A x \in Range(h) : x < n + 1)
      /\ (\A x \in Range(rem) : x < n + 1)
      /\ n + 1 \notin Range(q) /\ n + 1 \notin Range(h) /\ n + 1 \notin Range(v)
      /\ n + 1 \notin Range(rem) /\ n + 1 \notin Range(loc) /\ n + 1 \notin ev
  BY NextIsNew
<1>1. loc \in Seq(Nat) /\ IsInjective(loc)
  BY DEF Placed
<1>2. /\ Append(loc, n + 1) \in Seq(Nat) /\ IsInjective(Append(loc, n + 1))
      /\ Range(Append(loc, n + 1)) = Range(loc) \cup {n + 1}
  BY <1>1, <1>0, Appended
<1>3. Split(Range(q), Range(h), Range(v), Range(rem) \ tw, Range(loc) \cup {n + 1}, ev, n + 1)
  BY <1>0 DEF Split, Placed
<1> QED BY <1>2, <1>3, <1>0 DEF Placed

\* The loop takes a batch from the front of the queue.
LEMMA Takes ==
  ASSUME NEW q, NEW v, NEW rem, NEW tw, NEW loc, NEW ev, NEW n, Placed(q, <<>>, v, rem, tw, loc, ev, n)
  PROVE  /\ Placed(Left(q), Taken(q), v, rem, tw, loc, ev, n)
         /\ Len(Left(q)) <= Len(q) /\ Len(Taken(q)) <= BatchSize
         /\ q # <<>> => Len(Taken(q)) >= 1
<1>1. q \in Seq(Nat) /\ Ascending(q) /\ Len(q) \in Nat
  BY Reached DEF Placed
<1> DEFINE m == Shorter(BatchSize, Len(q))
<1>2. m \in 0..Len(q) /\ m <= BatchSize /\ (Len(q) >= 1 => m >= 1)
  BY <1>1, SizesFit DEF Shorter, SizesFit
<1> HIDE DEF m
<1> DEFINE a == SubSeq(q, 1, m)  b == SubSeq(q, m + 1, Len(q))
<1>3. a = Taken(q) /\ b = Left(q)
  BY DEF Taken, Left, m
<1>4. /\ a \in Seq(Nat) /\ b \in Seq(Nat) /\ Len(a) = m /\ Len(b) = Len(q) - m
      /\ Range(q) = Range(a) \cup Range(b)
      /\ Ascending(a) /\ Ascending(b) /\ Before(Range(a), Range(b))
  BY <1>1, <1>2, CutInTwo
<1> HIDE DEF a, b
<1>5. Range(a) \cap Range(b) = {}
  BY <1>4, Reached DEF Before
<1>6. Split(Range(b), Range(a), Range(v), Range(rem) \ tw, Range(loc), ev, n)
  BY <1>4, <1>5, EmptySequence DEF Split, Placed
<1>7. Before(Range(rem), Range(a)) /\ Before(Range(rem), Range(b))
  BY <1>4 DEF Before, Placed
<1>8. Placed(b, a, v, rem, tw, loc, ev, n)
  BY <1>4, <1>6, <1>7 DEF Placed
<1>9. Len(b) <= Len(q) /\ Len(a) <= BatchSize /\ (q # <<>> => Len(a) >= 1)
  BY <1>1, <1>2, <1>4, SizesFit, Nonempty DEF SizesFit
<1> QED BY <1>3, <1>8, <1>9

\* The loop takes all there is, for the fallback.
LEMMA Sheds ==
  ASSUME NEW q, NEW v, NEW rem, NEW tw, NEW loc, NEW ev, NEW n, Placed(q, <<>>, v, rem, tw, loc, ev, n)
  PROVE  Placed(<<>>, q, v, rem, tw, loc, ev, n)
BY EmptySequence DEF Placed, Split, Before

\* The collector has the batch in hand.
LEMMA Acknowledges ==
  ASSUME NEW q, NEW h, NEW v, NEW rem, NEW tw, NEW loc, NEW ev, NEW n, Placed(q, h, v, rem, tw, loc, ev, n)
  PROVE  Placed(q, <<>>, v, rem \o h, tw, loc, ev, n)
<1>1. /\ rem \o h \in Seq(Nat) /\ Ascending(rem \o h)
      /\ Range(rem \o h) = Range(rem) \cup Range(h)
  BY Joined DEF Placed
<1>2. Split(Range(q), {}, Range(v), (Range(rem) \cup Range(h)) \ tw, Range(loc), ev, n)
  BY DEF Split, Placed
<1>3. Before(Range(rem) \cup Range(h), Range(q)) /\ Before(Range(rem) \cup Range(h), {})
      /\ Before({}, Range(q))
  BY DEF Before, Placed
<1>4. tw = Range(rem \o h) \cap (Range(v) \cup Range(loc))
  <2>1. Range(h) \cap (Range(v) \cup Range(loc)) = {} /\ tw = Range(rem) \cap (Range(v) \cup Range(loc))
    BY DEF Placed, Split
  <2> QED BY <2>1, <1>1
<1> QED BY <1>1, <1>2, <1>3, <1>4, EmptySequence DEF Placed

\* The collector has a batch that flush has taken over.
LEMMA AcknowledgesLate ==
  ASSUME NEW q, NEW h, NEW v, NEW rem, NEW tw, NEW loc, NEW ev, NEW n,
         Placed(q, <<>>, v, rem, tw, loc, ev, n), tw = {},
         h \in Seq(Nat), Ascending(h), Range(h) \subseteq Range(v) \cup Range(loc),
         Before(Range(rem), Range(h)), Before(Range(h), Range(q))
  PROVE  Placed(q, <<>>, v, rem \o h, Range(h), loc, ev, n)
<1>1. /\ rem \o h \in Seq(Nat) /\ Ascending(rem \o h)
      /\ Range(rem \o h) = Range(rem) \cup Range(h)
  BY Joined DEF Placed
<1>2. Range(rem) \cap (Range(v) \cup Range(loc)) = {}
  BY DEF Placed
<1>3. (Range(rem) \cup Range(h)) \ Range(h) = Range(rem)
  BY <1>2
<1>4. Before(Range(rem) \cup Range(h), Range(q)) /\ Before(Range(rem) \cup Range(h), {})
  BY DEF Before, Placed
<1>5. Range(h) = Range(rem \o h) \cap (Range(v) \cup Range(loc))
  BY <1>1, <1>2
<1>6. Split(Range(q), Range(<<>>), Range(v), Range(rem \o h) \ Range(h), Range(loc), ev, n)
  BY <1>1, <1>3 DEF Placed
<1> QED BY <1>1, <1>4, <1>5, <1>6, EmptySequence DEF Placed

\* The batch in hand is in the fallback.
LEMMA WritesHand ==
  ASSUME NEW q, NEW h, NEW v, NEW rem, NEW tw, NEW loc, NEW ev, NEW n, Placed(q, h, v, rem, tw, loc, ev, n)
  PROVE  Placed(q, <<>>, v, rem, tw, loc \o h, ev, n)
<1>1. Range(loc) \cap Range(h) = {} /\ loc \in Seq(Nat) /\ h \in Seq(Nat)
      /\ IsInjective(loc) /\ IsInjective(h)
  BY AscendingOnce DEF Placed, Split
<1>2. /\ loc \o h \in Seq(Nat) /\ IsInjective(loc \o h)
      /\ Range(loc \o h) = Range(loc) \cup Range(h)
  BY <1>1, Joined
<1>3. Split(Range(q), {}, Range(v), Range(rem) \ tw, Range(loc) \cup Range(h), ev, n)
  BY DEF Split, Placed
<1>4. Before(Range(rem), {}) /\ Before({}, Range(q))
  BY DEF Before
<1>5. tw = Range(rem) \cap (Range(v) \cup Range(loc \o h))
  <2>1. Range(rem) \cap Range(h) = {}
    BY CollectedIsGone
  <2>2. tw = Range(rem) \cap (Range(v) \cup Range(loc))
    BY DEF Placed
  <2> QED BY <2>1, <2>2, <1>2
<1> QED BY <1>2, <1>3, <1>4, <1>5, EmptySequence DEF Placed

\* What was salvaged is in the fallback.
LEMMA WritesSalvage ==
  ASSUME NEW q, NEW h, NEW v, NEW rem, NEW tw, NEW loc, NEW ev, NEW n, Placed(q, h, v, rem, tw, loc, ev, n)
  PROVE  Placed(q, h, <<>>, rem, tw, loc \o v, ev, n)
<1>1. Range(loc) \cap Range(v) = {} /\ loc \in Seq(Nat) /\ v \in Seq(Nat)
      /\ IsInjective(loc) /\ IsInjective(v)
  BY AscendingOnce DEF Placed, Split
<1>2. /\ loc \o v \in Seq(Nat) /\ IsInjective(loc \o v)
      /\ Range(loc \o v) = Range(loc) \cup Range(v)
  BY <1>1, Joined
<1>3. Split(Range(q), Range(h), {}, Range(rem) \ tw, Range(loc) \cup Range(v), ev, n)
  BY DEF Split, Placed
<1> QED BY <1>2, <1>3, EmptySequence DEF Placed

\* flush takes over the batch under way.
LEMMA SalvagesHand ==
  ASSUME NEW q, NEW h, NEW rem, NEW tw, NEW loc, NEW ev, NEW n, Placed(q, h, <<>>, rem, tw, loc, ev, n)
  PROVE  Placed(q, <<>>, h, rem, tw, loc, ev, n)
BY EmptySequence DEF Placed, Split, Before

\* flush takes over what waits.
LEMMA SalvagesQueue ==
  ASSUME NEW q, NEW h, NEW rem, NEW tw, NEW loc, NEW ev, NEW n, Placed(q, h, <<>>, rem, tw, loc, ev, n)
  PROVE  Placed(<<>>, h, q, rem, tw, loc, ev, n)
BY EmptySequence DEF Placed, Split, Before
----------------------------------------------------------------------------
\* Where the loop has a batch, and what each flag of flush goes with.
Control ==
  /\ emitted \in 0..MaxRecords /\ Len(queue) <= QueueSize
  /\ hand \in Seq(Nat) /\ Range(hand) \subseteq 1..emitted
  /\ loop \in {"sending", "backoff", "fallback"} => Len(hand) \in 1..BatchSize
  /\ attempt \in 0..MaxRetries /\ (loop = "backoff" => attempt < MaxRetries)
  /\ flush \in {"no", "waiting", "salvaging", "draining", "drained"}
  /\ salvage = <<>> \/ flush \in {"salvaging", "draining"}
  /\ shut \in BOOLEAN /\ (shut => flush = "drained")
  /\ NobodyWaitsForIdle
  /\ Cardinality(Twice) <= IF flush \in {"no", "waiting"} THEN 0 ELSE BatchSize

\* The batch Seq's loop has in hand, unless flush has taken it over.
SeqHand == IF routed THEN <<>> ELSE hand

\* A batch that flush has taken over and whose request is still out: nothing newer is
\* at the collector, nothing is in two places yet.
TakenOver ==
  /\ Ascending(hand) /\ Range(hand) \subseteq Range(salvage) \cup Range(local)
  /\ Before(Range(remote), Range(hand)) /\ Before(Range(hand), Range(queue))
  /\ Twice = {}

SeqInv ==
  /\ Placed(queue, SeqHand, salvage, remote, Twice, local, evicted, emitted)
  /\ Control
  /\ Twice # {} => flush \notin {"no", "waiting"}
  /\ routed /\ hand # <<>> => TakenOver
  /\ loop = "none" /\ ~shut => queue = <<>>
  /\ loop \in {"none", "sending", "backoff", "fallback", "pausing", "ending"}
  /\ hand = <<>> \/ loop \in {"sending", "backoff", "fallback"}
  /\ routed \in BOOLEAN
  /\ routed => flush \notin {"no", "waiting"} /\ (hand = <<>> \/ loop = "sending")

\* What the breaker and the counts of failures stand at, and with what.
Breaker ==
  /\ initialized \in BOOLEAN /\ circuit \in {"closed", "open", "lapsed"}
  /\ failedBatches \in 0..FailureThreshold /\ initFailures \in 0..InitThreshold
  /\ circuit # "closed" => queue = <<>> /\ loop \in {"shedding", "ending", "none"}
  /\ circuit = "closed" => failedBatches < FailureThreshold
  /\ circuit = "closed" /\ ~shut => initFailures < InitThreshold
  /\ loop = "initializing" => initFailures < InitThreshold

OtlpInv ==
  /\ Placed(queue, hand, salvage, remote, Twice, local, evicted, emitted) /\ Twice = {}
  /\ Control /\ Breaker
  /\ loop \in {"none", "initializing", "initBackoff", "sending", "backoff", "fallback",
               "shedding", "pausing", "ending"}
  /\ hand = <<>> \/ loop \in {"sending", "backoff", "fallback", "shedding"}

SinkInv == (sink = "seq" /\ SeqInv) \/ (sink = "otlp" /\ ~routed /\ OtlpInv)

\* The instances bring the same helpers under names of their own.
LEMMA SameHelpers ==
  \A f : /\ SeqS!Range(f) = Range(f) /\ (SeqS!IsInjective(f) <=> IsInjective(f))
        /\ Otlp!Range(f) = Range(f) /\ (Otlp!IsInjective(f) <=> IsInjective(f))
BY DEF Range, SeqS!Range, Otlp!Range, IsInjective, SeqS!IsInjective, Otlp!IsInjective

LEMMA SameTwice == SeqS!Twice = Twice /\ Otlp!Twice = Twice
BY SameHelpers DEF Twice, SeqS!Twice, Otlp!Twice

\* What the invariant of the Seq sink says to its user.
LEMMA SeqTypes == SeqInv => SeqS!TypeOK /\ SeqS!Accounted /\ RemoteInOrder /\ NobodyWaitsForIdle
<1> SUFFICES ASSUME SeqInv PROVE SeqS!TypeOK /\ SeqS!Accounted /\ RemoteInOrder /\ NobodyWaitsForIdle
  OBVIOUS
<1>1. \A s \in {queue, salvage, remote, local} : Range(s) \subseteq 1..emitted
  BY InRange DEF SeqInv
<1>2. SeqS!TypeOK
  BY <1>1, SameHelpers DEF SeqInv, Control, SeqS!TypeOK, SeqS!DeliveryTypeOK
<1>3. AccountedFor(Range(SeqHand)) /\ RemoteInOrder
  BY PlacedAccounts DEF SeqInv, Control
<1>4. Range(SeqHand) = IF routed THEN {} ELSE Range(hand)
  BY EmptySequence DEF SeqHand
<1>5. SeqS!Accounted
  BY <1>3, <1>4, SameHelpers, SameTwice DEF SeqS!Accounted, SeqS!AccountedFor, AccountedFor, SeqS!Cardinality, Cardinality
<1> QED BY <1>2, <1>3, <1>5 DEF SeqInv, Control

\* What the invariant of the OTLP sink says to its user.
LEMMA OtlpTypes == OtlpInv => Otlp!TypeOK /\ Otlp!Accounted /\ RemoteInOrder /\ NobodyWaitsForIdle
<1> SUFFICES ASSUME OtlpInv PROVE Otlp!TypeOK /\ Otlp!Accounted /\ RemoteInOrder /\ NobodyWaitsForIdle
  OBVIOUS
<1>1. \A s \in {queue, hand, salvage, remote, local} : Range(s) \subseteq 1..emitted
  BY InRange DEF OtlpInv, Breaker
<1>2. Otlp!TypeOK
  BY <1>1, SameHelpers DEF OtlpInv, Breaker, Control, Otlp!TypeOK, Otlp!DeliveryTypeOK
<1>3. AccountedFor(Range(hand)) /\ RemoteInOrder
  BY PlacedAccounts DEF OtlpInv, Control
<1>4. Otlp!Accounted
  BY <1>3, SameHelpers, SameTwice DEF OtlpInv, Otlp!Accounted, Otlp!AccountedFor, AccountedFor, Otlp!Cardinality, Cardinality
<1> QED BY <1>2, <1>3, <1>4 DEF OtlpInv, Breaker, Control
----------------------------------------------------------------------------
\* The state as LogDelivery sees it.
Fates == [r \in 1..MaxRecords |-> Fate(r)]
InHand == IF loop \in {"sending", "backoff"} THEN "sending" ELSE "leaving"

\* A step of the promise, or nothing told.
Told == Delivery!Next \/ UNCHANGED <<Fates, Late, Twice>>

\* Everything in its place, with h in hand.
Where(h) == Placed(queue, h, salvage, remote, Twice, local, evicted, emitted)

\* Each record's fate is told by the place it is in: f is what is told of the records in
\* the six places of Split, m of those in hand.
Tells(f, A, B, m, C, D, E, F, n) ==
  /\ f = [r \in 1..MaxRecords |-> f[r]]
  /\ Split(A, B, C, D, E, F, n) /\ n \in 0..MaxRecords
  /\ \A r \in 1..MaxRecords :
       /\ r \in A => f[r] = "waiting"
       /\ r \in B => f[r] = m
       /\ r \in C => f[r] = "leaving"
       /\ r \in D => f[r] = "remote"
       /\ r \in E => f[r] = "local"
       /\ r \in F => f[r] = "dropped"
       /\ r > n => f[r] = "unborn"
  /\ m \in {"sending", "leaving"}

\* The fates at six places, hand apart.
FatesAt(A, C, D, E, F, n, m) ==
  [r \in 1..MaxRecords |->
     CASE r > n -> "unborn"
       [] r \in F -> "dropped"
       [] r \in A -> "waiting"
       [] r \in E -> "local"
       [] r \in C -> "leaving"
       [] r \in D -> "remote"
       [] OTHER -> m]

LEMMA FateByPlace ==
  ASSUME NEW A, NEW B, NEW C, NEW D, NEW E, NEW F, NEW n, Split(A, B, C, D, E, F, n),
         n \in 0..MaxRecords, NEW m \in {"sending", "leaving"}
  PROVE  Tells(FatesAt(A, C, D, E, F, n, m), A, B, m, C, D, E, F, n)
<1> DEFINE f == FatesAt(A, C, D, E, F, n, m)
<1>1. \A r \in 1..MaxRecords : f[r] = CASE r > n -> "unborn"
                                       [] r \in F -> "dropped"
                                       [] r \in A -> "waiting"
                                       [] r \in E -> "local"
                                       [] r \in C -> "leaving"
                                       [] r \in D -> "remote"
                                       [] OTHER -> m
  BY DEF FatesAt
<1>2. f = [r \in 1..MaxRecords |-> f[r]]
  BY DEF FatesAt
<1> HIDE DEF f
<1>3. ASSUME NEW r \in 1..MaxRecords
      PROVE  /\ r \in A => f[r] = "waiting"
             /\ r \in B => f[r] = m
             /\ r \in C => f[r] = "leaving"
             /\ r \in D => f[r] = "remote"
             /\ r \in E => f[r] = "local"
             /\ r \in F => f[r] = "dropped"
             /\ r > n => f[r] = "unborn"
  <2>1. r \in A \cup B \cup C \cup D \cup E \cup F <=> ~(r > n)
    <3>1. MaxRecords \in Nat /\ n \in Nat
      BY SizesFit DEF SizesFit
    <3>2. r \in 1..n <=> ~(r > n)
      BY <3>1
    <3> QED BY <3>2 DEF Split
  <2>2. /\ r \in A => r \notin B /\ r \notin C /\ r \notin D /\ r \notin E /\ r \notin F
        /\ r \in B => r \notin C /\ r \notin D /\ r \notin E /\ r \notin F
        /\ r \in C => r \notin D /\ r \notin E /\ r \notin F
        /\ r \in D => r \notin E /\ r \notin F
        /\ r \in E => r \notin F
    BY DEF Split
  <2> QED BY <2>1, <2>2, <1>1
<1> QED BY <1>2, <1>3 DEF Tells, f

\* The fates are those of the places, before a step and after it.
LEMMA FatesTell ==
  ASSUME NEW h
  PROVE  /\ Where(h) /\ emitted \in 0..MaxRecords
            => Tells(Fates, Range(queue), Range(h), InHand, Range(salvage), Range(remote) \ Twice,
                     Range(local), evicted, emitted)
         /\ Placed(queue', h, salvage', remote', Twice', local', evicted', emitted')
            /\ emitted' \in 0..MaxRecords
            => Tells(Fates', Range(queue'), Range(h), InHand', Range(salvage'), Range(remote') \ Twice',
                     Range(local'), evicted', emitted')
<1>1. Fates = FatesAt(Range(queue), Range(salvage), Range(remote) \ Twice, Range(local), evicted, emitted, InHand)
  BY DEF Fates, Fate, FatesAt, InHand
<1>2. Fates' = FatesAt(Range(queue'), Range(salvage'), Range(remote') \ Twice', Range(local'), evicted', emitted', InHand')
  BY DEF Fates, Fate, FatesAt, InHand
<1>3. InHand \in {"sending", "leaving"} /\ InHand' \in {"sending", "leaving"}
  BY DEF InHand
<1>4. Where(h) => Split(Range(queue), Range(h), Range(salvage), Range(remote) \ Twice, Range(local), evicted, emitted)
  BY DEF Where, Placed
<1>5. Placed(queue', h, salvage', remote', Twice', local', evicted', emitted')
      => Split(Range(queue'), Range(h), Range(salvage'), Range(remote') \ Twice', Range(local'), evicted', emitted')
  BY DEF Placed
<1> QED BY <1>1, <1>2, <1>3, <1>4, <1>5, FateByPlace
----------------------------------------------------------------------------
(***************************************************************************)
(* The steps of the promise.  In each, Tells says where the records are    *)
(* before and after.                                                       *)
(***************************************************************************)
LEMMA PromiseIs ==
  /\ Delivery!Record = 1..MaxRecords
  /\ \A x : Delivery!Having(x) = {r \in 1..MaxRecords : Fates[r] = x}
  /\ \A X, to : Delivery!Moved(X, to) = [r \in 1..MaxRecords |-> IF r \in X THEN to ELSE Fates[r]]
  /\ Delivery!Out = Delivery!Having("sending") \cup Late
  /\ Delivery!Collected = Delivery!Having("remote") \cup Twice
BY DEF Delivery!Record, Delivery!Having, Delivery!Moved, Delivery!Out, Delivery!Collected, Fates

\* Who has which fate.
LEMMA Havings ==
  ASSUME NEW A, NEW B, NEW m, NEW C, NEW D, NEW E, NEW F, NEW n,
         Tells(Fates, A, B, m, C, D, E, F, n)
  PROVE  /\ Delivery!Having("waiting") = A
         /\ Delivery!Having("sending") = IF m = "sending" THEN B ELSE {}
         /\ Delivery!Having("leaving") = C \cup (IF m = "leaving" THEN B ELSE {})
         /\ Delivery!Having("remote") = D
<1>1. /\ A \subseteq 1..MaxRecords /\ B \subseteq 1..MaxRecords /\ C \subseteq 1..MaxRecords
      /\ D \subseteq 1..MaxRecords
  <2>1. n \in Nat /\ MaxRecords \in Nat /\ n <= MaxRecords
    BY SizesFit DEF Tells, SizesFit
  <2>2. 1..n \subseteq 1..MaxRecords
    BY <2>1
  <2> QED BY <2>2 DEF Tells, Split
<1>2. \A r \in 1..MaxRecords : r > n \/ r \in A \cup B \cup C \cup D \cup E \cup F
  <2>1. \A r \in 1..MaxRecords : r > n \/ r \in 1..n
    BY SizesFit DEF Tells, SizesFit
  <2> QED BY <2>1 DEF Tells, Split
<1>3. m \in {"sending", "leaving"}
  BY DEF Tells
<1>4. ASSUME NEW r \in 1..MaxRecords
      PROVE  /\ Fates[r] = "waiting" <=> r \in A
             /\ Fates[r] = "sending" <=> r \in B /\ m = "sending"
             /\ Fates[r] = "leaving" <=> r \in C \/ (r \in B /\ m = "leaving")
             /\ Fates[r] = "remote" <=> r \in D
  BY <1>2, <1>3 DEF Tells
<1> QED BY <1>1, <1>3, <1>4, PromiseIs

\* Nothing moves.
LEMMA SameTold ==
  ASSUME NEW f, NEW g, NEW A, NEW B, NEW m, NEW k, NEW C, NEW D, NEW E, NEW F, NEW n,
         Tells(f, A, B, m, C, D, E, F, n), Tells(g, A, B, k, C, D, E, F, n), B = {} \/ m = k
  PROVE  g = f
<1>1. \A r \in 1..MaxRecords : r > n \/ r \in A \cup B \cup C \cup D \cup E \cup F
  <2>1. \A r \in 1..MaxRecords : r > n \/ r \in 1..n
    BY SizesFit DEF Tells, SizesFit
  <2> QED BY <2>1 DEF Tells, Split
<1>2. \A r \in 1..MaxRecords : f[r] = g[r]
  BY <1>1 DEF Tells
<1> QED BY <1>2 DEF Tells

\* One record more, in one of four ways.
LEMMA EmitTold ==
  ASSUME NEW A, NEW B, NEW m, NEW C, NEW D, NEW E, NEW F, NEW n, Tells(Fates, A, B, m, C, D, E, F, n),
         NEW A2, NEW B2, NEW k, NEW E2, NEW F2, Tells(Fates', A2, B2, k, C, D, E2, F2, n + 1),
         n < MaxRecords, Late' = Late, Twice' = Twice,
         B2 = B => (B = {} \/ k = m),
         \/ A2 = A /\ B2 = B /\ F2 = F /\ E2 = E \cup {n + 1}
         \/ /\ A2 = A \cup {n + 1} /\ B2 = B /\ F2 = F /\ E2 = E
            /\ Cardinality(A) < QueueSize
         \/ /\ A = {} /\ B = {} /\ Late = {}
            /\ A2 = {} /\ B2 = {n + 1} /\ k = "sending" /\ F2 = F /\ E2 = E
         \/ \E o \in A : /\ A2 = (A \ {o}) \cup {n + 1} /\ B2 = B /\ F2 = F \cup {o} /\ E2 = E
                         /\ Cardinality(A) = QueueSize /\ \A x \in A : o <= x
  PROVE  Told
<1> DEFINE e == n + 1
<1>1. n \in Nat /\ MaxRecords \in Nat /\ e \in Nat /\ e \in 1..MaxRecords /\ e > n
      /\ \A r \in 1..MaxRecords : /\ r < e => ~(r > n)
                                  /\ r > e => r > n
                                  /\ r > n => r = e \/ r > e
                                  /\ r > n \/ r \in 1..n
  BY SizesFit DEF Tells, SizesFit
<1> HIDE DEF e
<1>2. \A r \in 1..MaxRecords : r > n \/ r \in A \cup B \cup C \cup D \cup E \cup F
  BY <1>1 DEF Tells, Split
<1>3. Fates[e] = "unborn" /\ \A r \in 1..MaxRecords : r < e => Fates[r] # "unborn"
  BY <1>1, <1>2 DEF Tells
<1>4. Fates' = [r \in 1..MaxRecords |-> Fates'[r]]
  BY DEF Tells
<1>5. A \cup B \cup C \cup D \cup E \cup F \subseteq 1..n /\ e \notin 1..n /\ e = n + 1
  BY <1>1 DEF Tells, Split, e
<1>6. \A r \in 1..MaxRecords : r > n => r = e \/ Fates'[r] = "unborn"
  BY <1>1, <1>5 DEF Tells
<1>7. CASE A2 = A /\ B2 = B /\ F2 = F /\ E2 = E \cup {n + 1}
  <2>1. \A r \in 1..MaxRecords : Fates'[r] = IF r \in {e} THEN "local" ELSE Fates[r]
    BY <1>2, <1>5, <1>6, <1>7 DEF Tells
  <2>2. Fates' = Delivery!Moved({e}, "local")
    BY <2>1, <1>4, PromiseIs
  <2> QED BY <1>1, <1>3, <2>2, PromiseIs DEF Told, Delivery!Next, Delivery!Emit, Fates
<1>8. CASE A2 = A \cup {n + 1} /\ B2 = B /\ F2 = F /\ E2 = E /\ Cardinality(A) < QueueSize
  <2>1. \A r \in 1..MaxRecords : Fates'[r] = IF r \in {e} THEN "waiting" ELSE Fates[r]
    BY <1>2, <1>5, <1>6, <1>8 DEF Tells
  <2>2. Fates' = Delivery!Moved({e}, "waiting")
    BY <2>1, <1>4, PromiseIs
  <2>3. Cardinality(Delivery!Having("waiting")) < QueueSize
    BY <1>8, Havings
  <2> QED BY <1>1, <1>3, <2>2, <2>3, PromiseIs
          DEF Told, Delivery!Next, Delivery!Emit, Fates, Delivery!Cardinality, Cardinality
<1>9. CASE /\ A = {} /\ B = {} /\ Late = {}
           /\ A2 = {} /\ B2 = {n + 1} /\ k = "sending" /\ F2 = F /\ E2 = E
  <2>1. \A r \in 1..MaxRecords : Fates'[r] = IF r \in {e} THEN "sending" ELSE Fates[r]
    BY <1>2, <1>5, <1>6, <1>9 DEF Tells
  <2>2. Fates' = Delivery!Moved({e}, "sending")
    BY <2>1, <1>4, PromiseIs
  <2>3. Delivery!Having("waiting") \cup Delivery!Out = {}
    BY <1>9, Havings, PromiseIs
  <2> QED BY <1>1, <1>3, <2>2, <2>3, PromiseIs DEF Told, Delivery!Next, Delivery!Emit, Fates
<1>10. ASSUME NEW o \in A, A2 = (A \ {o}) \cup {n + 1}, B2 = B, F2 = F \cup {o}, E2 = E,
              Cardinality(A) = QueueSize, \A x \in A : o <= x
       PROVE  Told
  <2>1. o \in 1..MaxRecords /\ o # e
    <3>1. o \in 1..n
      BY <1>5
    <3> QED BY <3>1, <1>1, <1>5
  <2>2. \A r \in 1..MaxRecords :
          Fates'[r] = IF r = o THEN "dropped" ELSE IF r \in {e} THEN "waiting" ELSE Fates[r]
    BY <1>2, <1>5, <1>6, <1>10, <2>1 DEF Tells
  <2>3. Fates' = [Delivery!Moved({e}, "waiting") EXCEPT ![o] = "dropped"]
    BY <2>1, <2>2, <1>4, PromiseIs
  <2>4. Delivery!Having("waiting") = A
    BY Havings
  <2>5. \E old \in Delivery!Having("waiting") :
          /\ Delivery!Cardinality(Delivery!Having("waiting")) = QueueSize
          /\ \A x \in Delivery!Having("waiting") : old <= x
          /\ Fates' = [Delivery!Moved({e}, "waiting") EXCEPT ![old] = "dropped"]
    BY <1>10, <2>3, <2>4 DEF Delivery!Cardinality, Cardinality
  <2>6. Delivery!Emit(e)
    BY <1>1, <1>3, <2>5, PromiseIs DEF Delivery!Emit, Fates
  <2> QED BY <1>1, <2>6, PromiseIs DEF Told, Delivery!Next
<1> QED BY <1>7, <1>8, <1>9, <1>10

\* The loop takes a batch.
LEMMA TakeTold ==
  ASSUME NEW A, NEW m, NEW C, NEW D, NEW E, NEW F, NEW n, Tells(Fates, A, {}, m, C, D, E, F, n),
         NEW A2, NEW B2, Tells(Fates', A2, B2, "sending", C, D, E, F, n),
         A = A2 \cup B2, B2 # {}, Before(B2, A2), Cardinality(B2) <= BatchSize,
         Late = {}, Late' = {}, Twice' = Twice
  PROVE  Told
<1>1. \A r \in 1..MaxRecords : r > n \/ r \in A \cup C \cup D \cup E \cup F
  <2>1. \A r \in 1..MaxRecords : r > n \/ r \in 1..n
    BY SizesFit DEF Tells, SizesFit
  <2> QED BY <2>1 DEF Tells, Split
<1>2. B2 \cap (A2 \cup C \cup D \cup E \cup F) = {} /\ A2 \cap B2 = {} /\ B2 \subseteq 1..n
  BY DEF Tells, Split
<1>3. \A r \in 1..MaxRecords : Fates'[r] = IF r \in B2 THEN "sending" ELSE Fates[r]
  <2>1. \A r \in B2 : ~(r > n)
    BY <1>2 DEF Tells
  <2> QED BY <1>1, <1>2, <2>1 DEF Tells
<1>4. Fates' = Delivery!Moved(B2, "sending")
  BY <1>3, PromiseIs DEF Tells
<1>5. Delivery!Having("waiting") = A /\ Delivery!Out = {}
  BY Havings, PromiseIs
<1>6. Delivery!Take(B2)
  <2>1. \A r \in B2, x \in A \ B2 : r < x
    BY DEF Before
  <2> QED BY <1>4, <1>5, <2>1 DEF Delivery!Take, Fates, Delivery!Cardinality, Cardinality
<1> QED BY <1>5, <1>6 DEF Told, Delivery!Next

\* The collector acknowledges the batch.
LEMMA AcknowledgeTold ==
  ASSUME NEW A, NEW B, NEW C, NEW D, NEW E, NEW F, NEW n,
         Tells(Fates, A, B, "sending", C, D, E, F, n),
         NEW k, NEW D2, Tells(Fates', A, {}, k, C, D2, E, F, n), D2 = D \cup B,
         B # {}, Before(D \cup Twice, B), Late' = Late, Twice' = Twice
  PROVE  Told
<1>1. \A r \in 1..MaxRecords : r > n \/ r \in A \cup B \cup C \cup D \cup E \cup F
  <2>1. \A r \in 1..MaxRecords : r > n \/ r \in 1..n
    BY SizesFit DEF Tells, SizesFit
  <2> QED BY <2>1 DEF Tells, Split
<1>2. B \cap (A \cup C \cup D \cup E \cup F) = {} /\ B \subseteq 1..n
  BY DEF Tells, Split
<1>3. \A r \in 1..MaxRecords : Fates'[r] = IF r \in B THEN "remote" ELSE Fates[r]
  <2>1. \A r \in B : ~(r > n)
    BY <1>2 DEF Tells
  <2> QED BY <1>1, <1>2, <2>1 DEF Tells
<1>4. Fates' = Delivery!Moved(B, "remote")
  BY <1>3, PromiseIs DEF Tells
<1>5. Delivery!Having("sending") = B /\ Delivery!Collected = D \cup Twice
  BY Havings, PromiseIs
<1> QED BY <1>4, <1>5 DEF Told, Delivery!Next, Delivery!Acknowledge, Fates, Before

\* The batch is given up, in hand or taken over by flush.
LEMMA GiveUpTold ==
  ASSUME NEW A, NEW B, NEW C, NEW D, NEW E, NEW F, NEW n,
         Tells(Fates, A, B, "sending", C, D, E, F, n),
         NEW B2, NEW C2, NEW k, Tells(Fates', A, B2, k, C2, D, E, F, n),
         (B2 = B /\ C2 = C /\ k = "leaving") \/ (B2 = {} /\ C2 = C \cup B),
         B # {}, Late' = Late \/ (Late = {} /\ Twice = {} /\ Late' = B), Twice' = Twice
  PROVE  Told
<1>1. \A r \in 1..MaxRecords : r > n \/ r \in A \cup B \cup C \cup D \cup E \cup F
  <2>1. \A r \in 1..MaxRecords : r > n \/ r \in 1..n
    BY SizesFit DEF Tells, SizesFit
  <2> QED BY <2>1 DEF Tells, Split
<1>2. B \cap (A \cup C \cup D \cup E \cup F) = {} /\ B \subseteq 1..n
  BY DEF Tells, Split
<1>3. \A r \in 1..MaxRecords : Fates'[r] = IF r \in B THEN "leaving" ELSE Fates[r]
  <2>1. \A r \in B : ~(r > n)
    BY <1>2 DEF Tells
  <2> QED BY <1>1, <1>2, <2>1 DEF Tells
<1>4. Fates' = Delivery!Moved(B, "leaving")
  BY <1>3, PromiseIs DEF Tells
<1>5. Delivery!Having("sending") = B
  BY Havings
<1> QED BY <1>4, <1>5 DEF Told, Delivery!Next, Delivery!GiveUp, Fates

\* The request given up ends.
LEMMA LateTold ==
  ASSUME NEW A, NEW B, NEW m, NEW C, NEW D, NEW E, NEW F, NEW n,
         Tells(Fates, A, B, m, C, D, E, F, n), Fates' = Fates, Late # {}, Late' = {},
         Twice' = Twice \/ (Twice' = Late /\ Before(D \cup Twice, Late))
  PROVE  Told
<1>1. Delivery!Collected = D \cup Twice
  BY Havings, PromiseIs
<1> QED BY <1>1 DEF Told, Delivery!Next, Delivery!LateAnswer, Fates, Before

\* Some of what was to be written is, and what waits may be next.
LEMMA WriteTold ==
  ASSUME NEW A, NEW B, NEW m, NEW C, NEW D, NEW E, NEW F, NEW n,
         Tells(Fates, A, B, m, C, D, E, F, n),
         NEW X, X \subseteq C \/ (m = "leaving" /\ X \subseteq B \cup C),
         NEW A2, NEW B2, NEW k, NEW C2, NEW E2, Tells(Fates', A2, B2, k, C2, D, E2, F, n),
         E2 = E \cup X, A2 = A \/ A2 = {}, B \subseteq B2 \cup X, C \subseteq C2 \cup X,
         B2 \cap B # {} => k = m, B2 \ B # {} => k = "leaving",
         Late' = Late, Twice' = Twice
  PROVE  Told
<1>1. \A r \in 1..MaxRecords : r > n \/ r \in A \cup B \cup C \cup D \cup E \cup F
  <2>1. \A r \in 1..MaxRecords : r > n \/ r \in 1..n
    BY SizesFit DEF Tells, SizesFit
  <2> QED BY <2>1 DEF Tells, Split
<1>2. \A r \in 1..MaxRecords : r > n \/ r \in A2 \cup B2 \cup C2 \cup D \cup E2 \cup F
  <2>1. \A r \in 1..MaxRecords : r > n \/ r \in 1..n
    BY SizesFit DEF Tells, SizesFit
  <2> QED BY <2>1 DEF Tells, Split
<1>3. /\ A \cap (B \cup C \cup D \cup E \cup F) = {} /\ X \subseteq B \cup C
      /\ B \cap (C \cup D \cup E \cup F) = {} /\ C \cap (D \cup E \cup F) = {}
      /\ A2 \cap (B2 \cup C2 \cup D \cup E2 \cup F) = {}
      /\ B2 \cap (C2 \cup D \cup E2 \cup F) = {} /\ C2 \cap (D \cup E2 \cup F) = {}
  BY DEF Tells, Split
<1> DEFINE next == A \ A2
<1>4. next = {} \/ next = A
  OBVIOUS
<1>5. ASSUME NEW r \in 1..MaxRecords
      PROVE  Fates'[r] = IF r \in X THEN "local" ELSE IF r \in next THEN "leaving" ELSE Fates[r]
  <2>1. CASE r \in X
    BY <2>1 DEF Tells
  <2>2. CASE r \in next
    <3>1. r \in A /\ r \notin A2 /\ r \notin B /\ r \notin X /\ r \notin D /\ r \notin E /\ r \notin F
      BY <2>2, <1>3
    <3>2. ~(r > n)
      <4>1. r \in 1..n
        BY <3>1 DEF Tells, Split
      <4> QED BY <4>1 DEF Tells
    <3>3. r \in B2 \/ r \in C2
      BY <3>1, <3>2, <1>2
    <3>4. r \in B2 => k = "leaving"
      BY <3>1
    <3> QED BY <2>2, <3>1, <3>3, <3>4 DEF Tells
  <2>3. CASE r \notin X /\ r \notin next
    <3>1. CASE r \in A
      <4>1. r \in A2
        BY <2>3, <3>1
      <4> QED BY <4>1, <2>3, <3>1 DEF Tells
    <3>2. CASE r \in B
      <4>1. r \in B2 /\ k = m
        BY <2>3, <3>2
      <4> QED BY <4>1, <2>3, <3>2 DEF Tells
    <3>3. CASE r \in C
      <4>1. r \in C2
        BY <2>3, <3>3
      <4> QED BY <4>1, <2>3, <3>3 DEF Tells
    <3>4. CASE r \in D \cup E \cup F \/ r > n
      BY <2>3, <3>4 DEF Tells
    <3> QED BY <3>1, <3>2, <3>3, <3>4, <1>1
  <2> QED BY <2>1, <2>2, <2>3
<1>6. Delivery!Having("leaving") = C \cup (IF m = "leaving" THEN B ELSE {}) /\ Delivery!Having("waiting") = A
  BY Havings
<1>7. Delivery!Write(X)
  <2>1. Fates' = [r \in 1..MaxRecords |-> IF r \in X THEN "local" ELSE Delivery!Moved(next, "leaving")[r]]
    <3>1. \A r \in 1..MaxRecords : Fates'[r] = IF r \in X THEN "local" ELSE Delivery!Moved(next, "leaving")[r]
      BY <1>5, PromiseIs
    <3> QED BY <3>1 DEF Tells
  <2>2. next \in {{}, Delivery!Having("waiting")}
    BY <1>4, <1>6
  <2> HIDE DEF next
  <2> QED BY <2>1, <2>2, PromiseIs DEF Delivery!Write, Fates
<1> QED BY <1>6, <1>7 DEF Told, Delivery!Next
\* The batch in hand is written, and what waits stays or is in hand next.
LEMMA HandWrittenTold ==
  ASSUME NEW A, NEW B, NEW C, NEW D, NEW E, NEW F, NEW n,
         Tells(Fates, A, B, "leaving", C, D, E, F, n),
         NEW A2, NEW B2, NEW k, NEW E2, Tells(Fates', A2, B2, k, C, D, E2, F, n), E2 = E \cup B,
         (A2 = A /\ B2 = {}) \/ (A2 = {} /\ B2 = A /\ k = "leaving"),
         Late' = Late, Twice' = Twice
  PROVE  Told
<1>1. A \cap B = {}
  BY DEF Tells, Split
<1>3. B \subseteq B \cup C /\ B \subseteq B2 \cup B /\ C \subseteq C \cup B /\ B2 \cap B = {}
  BY <1>1
<1>4. (B2 \cap B # {} => k = "leaving") /\ (B2 \ B # {} => k = "leaving")
  BY <1>3
<1>5. A2 = A \/ A2 = {}
  OBVIOUS
<1> QED BY <1>3, <1>4, <1>5, WriteTold

\* What was salvaged is written, and what waits stays or is salvaged next.
LEMMA SalvageWrittenTold ==
  ASSUME NEW A, NEW B, NEW m, NEW C, NEW D, NEW E, NEW F, NEW n, Tells(Fates, A, B, m, C, D, E, F, n),
         NEW A2, NEW C2, NEW E2, Tells(Fates', A2, B, m, C2, D, E2, F, n), E2 = E \cup C,
         A2 = A \/ A2 = {}, Late' = Late, Twice' = Twice
  PROVE  Told
<1>1. C \subseteq C /\ B \subseteq B \cup C /\ C \subseteq C2 \cup C /\ B \ B = {}
  OBVIOUS
<1> QED BY <1>1, WriteTold

\* What waits is in hand, or salvaged, for the fallback.
LEMMA DivertedTold ==
  ASSUME NEW A, NEW B, NEW m, NEW C, NEW D, NEW E, NEW F, NEW n, Tells(Fates, A, B, m, C, D, E, F, n),
         NEW B2, NEW k, NEW C2, Tells(Fates', {}, B2, k, C2, D, E, F, n),
         (B = {} /\ k = "leaving" /\ C2 = C) \/ (B2 = B /\ k = m /\ C = {}),
         Late' = Late, Twice' = Twice
  PROVE  Told
<1> DEFINE X == {}
<1>1. /\ E = E \cup X /\ X \subseteq C /\ B \subseteq B2 \cup X /\ C \subseteq C2 \cup X
      /\ (B2 \cap B # {} => k = m) /\ (B2 \ B # {} => k = "leaving")
  OBVIOUS
<1> HIDE DEF X
<1> QED BY <1>1, WriteTold
----------------------------------------------------------------------------
(***************************************************************************)
(* Moves both sinks make.                                                  *)
(***************************************************************************)
\* What is not moved keeps its fate, though the loop's place be another.
LEMMA TellsNothing ==
  ASSUME NEW h, Where(h), emitted \in 0..MaxRecords, UNCHANGED <<emitted, queue, salvage, history>>,
         InHand' = InHand \/ h = <<>>
  PROVE  /\ Placed(queue', h, salvage', remote', Twice', local', evicted', emitted')
         /\ Twice' = Twice /\ Fates' = Fates
<1>1. Twice' = Twice
  BY DEF Twice, history
<1>2. Placed(queue', h, salvage', remote', Twice', local', evicted', emitted')
  BY <1>1 DEF Where, history
<1>3. /\ Tells(Fates, Range(queue), Range(h), InHand, Range(salvage), Range(remote) \ Twice,
               Range(local), evicted, emitted)
      /\ Tells(Fates', Range(queue), Range(h), InHand', Range(salvage), Range(remote) \ Twice,
               Range(local), evicted, emitted)
  BY <1>1, <1>2, FatesTell DEF history
<1>4. Range(h) = {} \/ InHand = InHand'
  BY EmptySequence
<1>5. Fates' = Fates
  BY <1>3, <1>4, SameTold
<1> QED BY <1>1, <1>2, <1>5

\* A record goes to the fallback as it comes, the sink being shut or its circuit open.
LEMMA WrittenAtOnce ==
  ASSUME NEW h, Where(h), emitted \in 0..MaxRecords, emitted < MaxRecords,
         emitted' = emitted + 1, local' = Append(local, emitted + 1),
         UNCHANGED <<queue, salvage, remote, evicted>>, InHand' = InHand, Late' = Late
  PROVE  /\ Placed(queue', h, salvage', remote', Twice', local', evicted', emitted')
         /\ Twice' = Twice /\ Told
<1>1. Placed(queue', h, salvage', remote', Twice, local', evicted', emitted')
  BY WritesNext DEF Where
<1>2. Twice' = Twice
  BY <1>1, PlacedTwice
<1>3. emitted' \in 0..MaxRecords
  BY SizesFit DEF SizesFit
<1>4. Range(local') = Range(local) \cup {emitted + 1}
  BY Appended DEF Where, Placed
<1>5. /\ Tells(Fates, Range(queue), Range(h), InHand, Range(salvage), Range(remote) \ Twice,
               Range(local), evicted, emitted)
      /\ Tells(Fates', Range(queue), Range(h), InHand', Range(salvage), Range(remote) \ Twice,
               Range(local) \cup {emitted + 1}, evicted, emitted + 1)
  BY <1>1, <1>2, <1>3, <1>4, FatesTell
<1>6. Told
  BY <1>2, <1>5, EmitTold
<1> QED BY <1>1, <1>2, <1>6

\* Where a record handed over goes, the oldest one giving way.
LEMMA KeptPlaced ==
  ASSUME NEW h, Where(h), Len(queue) <= QueueSize, CountEviction
  PROVE  /\ Placed(Kept, h, salvage, remote, Twice, local, evicted', emitted + 1)
         /\ Len(Kept) <= QueueSize /\ Kept # <<>>
         /\ \/ /\ Cardinality(Range(queue)) < QueueSize /\ evicted' = evicted
               /\ Range(Kept) = Range(queue) \cup {emitted + 1}
            \/ \E o \in Range(queue) :
                 /\ Range(Kept) = (Range(queue) \ {o}) \cup {emitted + 1} /\ evicted' = evicted \cup {o}
                 /\ Cardinality(Range(queue)) = QueueSize /\ \A x \in Range(queue) : o <= x
<1>1. /\ emitted \in Nat /\ QueueSize \in Nat /\ QueueSize >= 1
      /\ queue \in Seq(Nat) /\ Len(queue) \in Nat /\ Ascending(queue)
  BY SizesFit, Reached DEF SizesFit, Where, Placed
<1>2. Cardinality(Range(queue)) = Len(queue)
  BY <1>1, AscendingOnce
<1>3. CASE Full
  <2>1. /\ queue # <<>> /\ Len(queue) = QueueSize /\ evicted' = evicted \cup {Head(queue)}
        /\ Kept = Append(Tail(queue), emitted + 1)
    BY <1>1, <1>3, EmptySequence DEF Full, Kept, CountEviction
  <2>2. Placed(Tail(queue), h, salvage, remote, Twice, local, evicted', emitted)
    BY <2>1, Evicts DEF Where
  <2>3. Placed(Kept, h, salvage, remote, Twice, local, evicted', emitted + 1)
    BY <2>1, <2>2, Keeps
  <2>4. /\ Tail(queue) \in Seq(Nat) /\ Len(Tail(queue)) = Len(queue) - 1
        /\ Range(queue) = {Head(queue)} \cup Range(Tail(queue))
        /\ \A x \in Range(Tail(queue)) : Head(queue) < x
    BY <1>1, <2>1, WithoutTheFirst
  <2>5. /\ Len(Kept) = Len(queue) - 1 + 1
        /\ Range(Kept) = Range(Tail(queue)) \cup {emitted + 1}
    <3> DEFINE t == Tail(queue)
               e == emitted + 1
    <3>1. t \in Seq(Nat) /\ e \in Nat /\ Kept = Append(t, e)
      BY <2>1, <2>4, <1>1
    <3> HIDE DEF t, e
    <3>2. Len(Kept) = Len(t) + 1 /\ Range(Kept) = Range(t) \cup {e}
      BY <3>1, Appended
    <3>3. Len(Kept) = Len(Tail(queue)) + 1 /\ Range(Kept) = Range(Tail(queue)) \cup {emitted + 1}
      BY <3>2 DEF t, e
    <3>4. Len(Kept) = Len(queue) - 1 + 1
      BY <3>3, <2>4
    <3> QED BY <3>3, <3>4
  <2>6. Len(Kept) = QueueSize /\ Kept # <<>>
    BY <2>5, <1>1, <2>1, EmptySequence
  <2>7. Head(queue) \in Range(queue) /\ \A x \in Range(queue) : Head(queue) <= x
    <3>1. Head(queue) \in Range(queue) /\ Range(queue) \subseteq Nat
      BY <1>1, <2>1, Nonempty, Reached
    <3>2. \A x \in Range(queue) : x >= Head(queue)
      BY <1>1, <2>1, AscendingOnce
    <3> QED BY <3>1, <3>2
  <2>8. Range(Tail(queue)) = Range(queue) \ {Head(queue)}
    <3>1. Head(queue) \in Nat
      BY <1>1, <2>1, Nonempty, Reached
    <3> QED BY <3>1, <2>4
  <2> QED BY <1>1, <1>2, <2>1, <2>3, <2>5, <2>6, <2>7, <2>8
<1>4. CASE ~Full
  <2>1. Len(queue) < QueueSize /\ evicted' = evicted /\ Kept = Append(queue, emitted + 1)
    BY <1>1, <1>4 DEF Full, Kept, CountEviction
  <2>2. Placed(Kept, h, salvage, remote, Twice, local, evicted', emitted + 1)
    BY <2>1, Keeps DEF Where
  <2>3. Len(Kept) = Len(queue) + 1 /\ Range(Kept) = Range(queue) \cup {emitted + 1}
    BY <1>1, <2>1, Appended
  <2>4. Len(Kept) <= QueueSize /\ Kept # <<>>
    BY <2>3, <1>1, <2>1, EmptySequence
  <2> QED BY <1>2, <2>1, <2>2, <2>3, <2>4
<1> QED BY <1>3, <1>4

\* A record is queued.
LEMMA TakenIn ==
  ASSUME NEW h, Where(h), emitted \in 0..MaxRecords, emitted < MaxRecords, Len(queue) <= QueueSize,
         emitted' = emitted + 1, CountEviction, UNCHANGED salvage, queue' = Kept,
         InHand' = InHand \/ h = <<>>, Late' = Late
  PROVE  /\ Placed(queue', h, salvage', remote', Twice', local', evicted', emitted')
         /\ Len(queue') <= QueueSize /\ queue' # <<>> /\ Twice' = Twice /\ Told
<1>1. remote' = remote /\ local' = local
  BY DEF CountEviction
<1>2. /\ Placed(queue', h, salvage', remote', Twice, local', evicted', emitted')
      /\ Len(queue') <= QueueSize /\ queue' # <<>>
  BY <1>1, KeptPlaced
<1>3. Twice' = Twice
  BY <1>2, PlacedTwice
<1>4. emitted' \in 0..MaxRecords
  BY SizesFit DEF SizesFit
<1>5. /\ Tells(Fates, Range(queue), Range(h), InHand, Range(salvage), Range(remote) \ Twice,
               Range(local), evicted, emitted)
      /\ Tells(Fates', Range(queue'), Range(h), InHand', Range(salvage), Range(remote) \ Twice,
               Range(local), evicted', emitted + 1)
  BY <1>1, <1>2, <1>3, <1>4, FatesTell
<1>6. Range(h) = {} \/ InHand' = InHand
  BY EmptySequence
<1>7. \/ /\ Cardinality(Range(queue)) < QueueSize /\ evicted' = evicted
         /\ Range(queue') = Range(queue) \cup {emitted + 1}
      \/ \E o \in Range(queue) :
           /\ Range(queue') = (Range(queue) \ {o}) \cup {emitted + 1} /\ evicted' = evicted \cup {o}
           /\ Cardinality(Range(queue)) = QueueSize /\ \A x \in Range(queue) : o <= x
  BY KeptPlaced
<1>8. Told
  BY <1>3, <1>5, <1>6, <1>7, EmitTold
<1> QED BY <1>2, <1>3, <1>8

\* An acknowledgment.
LEMMA TakesIt ==
  ASSUME Where(hand), emitted \in 0..MaxRecords, Acknowledge, UNCHANGED <<emitted, queue, salvage>>,
         loop = "sending", hand # <<>>, Late' = Late
  PROVE  /\ Placed(queue', <<>>, salvage', remote', Twice', local', evicted', emitted')
         /\ Twice' = Twice /\ Told
<1>1. remote' = remote \o hand /\ local' = local /\ evicted' = evicted
  BY DEF Acknowledge
<1>2. Placed(queue', <<>>, salvage', remote', Twice, local', evicted', emitted')
  BY <1>1, Acknowledges DEF Where
<1>3. Twice' = Twice
  BY <1>2, PlacedTwice
<1>4. /\ Range(remote') = Range(remote) \cup Range(hand) /\ Range(hand) # {}
      /\ Before(Range(remote), Range(hand)) /\ Range(hand) \cap Twice = {}
  <2>1. hand \in Seq(Nat) /\ remote \in Seq(Nat) /\ Before(Range(remote), Range(hand))
    BY DEF Where, Placed
  <2>2. Range(hand) \cap Twice = {}
    BY DEF Where, Placed, Split
  <2> QED BY <1>1, <2>1, <2>2, Joined, Nonempty
<1>5. Range(remote') \ Twice = (Range(remote) \ Twice) \cup Range(hand)
  BY <1>4
<1>6. InHand = "sending"
  BY DEF InHand
<1>7. /\ Tells(Fates, Range(queue), Range(hand), "sending", Range(salvage), Range(remote) \ Twice,
               Range(local), evicted, emitted)
      /\ Tells(Fates', Range(queue), {}, InHand', Range(salvage), Range(remote') \ Twice,
               Range(local), evicted, emitted)
  BY <1>1, <1>2, <1>3, <1>6, FatesTell, EmptySequence
<1>8. Before((Range(remote) \ Twice) \cup Twice, Range(hand))
  <2>1. Twice \subseteq Range(remote)
    BY DEF Twice
  <2> QED BY <2>1, <1>4 DEF Before
<1>9. Told
  BY <1>3, <1>4, <1>5, <1>7, <1>8, AcknowledgeTold
<1> QED BY <1>2, <1>3, <1>9

\* The batch in hand is for the fallback from now on.
LEMMA GivesUp ==
  ASSUME Where(hand), emitted \in 0..MaxRecords, UNCHANGED <<emitted, queue, hand, salvage, history>>,
         loop = "sending", hand # <<>>, InHand' = "leaving", Late' = Late
  PROVE  /\ Placed(queue', hand', salvage', remote', Twice', local', evicted', emitted')
         /\ Twice' = Twice /\ Told
<1>1. Twice' = Twice
  BY DEF Twice, history
<1>2. Placed(queue', hand, salvage', remote', Twice', local', evicted', emitted')
  BY <1>1 DEF Where, history
<1>3. InHand = "sending" /\ Range(hand) # {}
  BY Nonempty DEF InHand, Where, Placed
<1>4. /\ Tells(Fates, Range(queue), Range(hand), "sending", Range(salvage), Range(remote) \ Twice,
               Range(local), evicted, emitted)
      /\ Tells(Fates', Range(queue), Range(hand), "leaving", Range(salvage), Range(remote) \ Twice,
               Range(local), evicted, emitted)
  BY <1>1, <1>2, <1>3, FatesTell DEF history
<1>5. Told
  BY <1>1, <1>3, <1>4, GiveUpTold
<1> QED BY <1>1, <1>2, <1>5

\* The batch in hand goes to the fallback, and what waits may be taken next.
LEMMA WritesIt ==
  ASSUME Where(hand), emitted \in 0..MaxRecords, WriteBatch(hand), UNCHANGED <<emitted, salvage>>,
         InHand = "leaving", Late' = Late, NEW next,
         \/ queue' = queue /\ next = <<>>
         \/ queue' = <<>> /\ next = queue /\ InHand' = "leaving"
  PROVE  /\ Placed(queue', next, salvage', remote', Twice', local', evicted', emitted')
         /\ Twice' = Twice /\ Told
<1>1. remote' = remote /\ local' = local \o hand /\ evicted' = evicted
  BY DEF WriteBatch
<1>2. Placed(queue, <<>>, salvage', remote', Twice, local', evicted', emitted')
  BY <1>1, WritesHand DEF Where
<1>3. Placed(queue', next, salvage', remote', Twice, local', evicted', emitted')
  BY <1>2, Sheds
<1>4. Twice' = Twice
  BY <1>3, PlacedTwice
<1>5. Range(local') = Range(local) \cup Range(hand)
  BY <1>1, Joined DEF Where, Placed
<1>6. /\ Tells(Fates, Range(queue), Range(hand), "leaving", Range(salvage), Range(remote) \ Twice,
               Range(local), evicted, emitted)
      /\ Tells(Fates', Range(queue'), Range(next), InHand', Range(salvage), Range(remote) \ Twice,
               Range(local) \cup Range(hand), evicted, emitted)
  BY <1>1, <1>3, <1>4, <1>5, FatesTell
<1>7. (Range(queue') = Range(queue) /\ Range(next) = {})
      \/ (Range(queue') = {} /\ Range(next) = Range(queue) /\ InHand' = "leaving")
  BY EmptySequence
<1>8. Told
  BY <1>4, <1>6, <1>7, HandWrittenTold
<1> QED BY <1>3, <1>4, <1>8

\* All that waits is taken for the fallback.
LEMMA Diverts ==
  ASSUME NEW h, Where(h), emitted \in 0..MaxRecords, UNCHANGED <<emitted, history>>, queue' = <<>>,
         Late' = Late,
         NEW next, \/ h = <<>> /\ next = queue /\ salvage' = salvage /\ InHand' = "leaving"
                   \/ next = h /\ salvage = <<>> /\ salvage' = queue /\ InHand' = InHand
  PROVE  /\ Placed(queue', next, salvage', remote', Twice', local', evicted', emitted')
         /\ Twice' = Twice /\ Told
<1>1. Placed(queue', next, salvage', remote', Twice, local', evicted', emitted')
  <2>1. CASE h = <<>> /\ next = queue /\ salvage' = salvage
    BY <2>1, Sheds DEF Where, history
  <2>2. CASE next = h /\ salvage = <<>> /\ salvage' = queue
    BY <2>2, SalvagesQueue DEF Where, history
  <2> QED BY <2>1, <2>2
<1>2. Twice' = Twice
  BY <1>1, PlacedTwice
<1>3. /\ Tells(Fates, Range(queue), Range(h), InHand, Range(salvage), Range(remote) \ Twice,
               Range(local), evicted, emitted)
      /\ Tells(Fates', {}, Range(next), InHand', Range(salvage'), Range(remote) \ Twice,
               Range(local), evicted, emitted)
  BY <1>1, <1>2, FatesTell, EmptySequence DEF history
<1>4. \/ Range(h) = {} /\ InHand' = "leaving" /\ Range(salvage') = Range(salvage)
      \/ Range(next) = Range(h) /\ InHand' = InHand /\ Range(salvage) = {}
  BY EmptySequence
<1>5. Told
  BY <1>2, <1>3, <1>4, DivertedTold
<1> QED BY <1>1, <1>2, <1>5

\* What was salvaged goes to the fallback, and what waits may be salvaged next.
LEMMA WritesSalvaged ==
  ASSUME NEW h, Where(h), emitted \in 0..MaxRecords, WriteBatch(salvage), emitted' = emitted,
         InHand' = InHand, Late' = Late,
         \/ queue' = queue /\ salvage' = <<>>
         \/ queue' = <<>> /\ salvage' = queue
  PROVE  /\ Placed(queue', h, salvage', remote', Twice', local', evicted', emitted')
         /\ Twice' = Twice /\ Told
<1>1. remote' = remote /\ local' = local \o salvage /\ evicted' = evicted
  BY DEF WriteBatch
<1>2. Placed(queue, h, <<>>, remote', Twice, local', evicted', emitted')
  BY <1>1, WritesSalvage DEF Where
<1>3. Placed(queue', h, salvage', remote', Twice, local', evicted', emitted')
  BY <1>2, SalvagesQueue
<1>4. Twice' = Twice
  BY <1>3, PlacedTwice
<1>5. Range(local') = Range(local) \cup Range(salvage)
  BY <1>1, Joined DEF Where, Placed
<1>6. /\ Tells(Fates, Range(queue), Range(h), InHand, Range(salvage), Range(remote) \ Twice,
               Range(local), evicted, emitted)
      /\ Tells(Fates', Range(queue'), Range(h), InHand, Range(salvage'), Range(remote) \ Twice,
               Range(local) \cup Range(salvage), evicted, emitted)
  BY <1>1, <1>3, <1>4, <1>5, FatesTell
<1>7. Range(queue') = Range(queue) \/ Range(queue') = {}
  BY EmptySequence
<1>8. Told
  BY <1>4, <1>6, <1>7, SalvageWrittenTold
<1> QED BY <1>3, <1>4, <1>8

\* A batch is taken from the front of the queue.
LEMMA TakesBatch ==
  ASSUME Where(<<>>), emitted \in 0..MaxRecords, UNCHANGED <<emitted, salvage, history>>,
         queue # <<>>, hand' = Taken(queue), queue' = Left(queue), loop' = "sending",
         Late = {}, Late' = {}
  PROVE  /\ Placed(queue', hand', salvage', remote', Twice', local', evicted', emitted')
         /\ Len(queue') <= Len(queue) /\ Len(hand') <= BatchSize /\ Len(hand') >= 1
         /\ Twice' = Twice /\ Told
<1>1. /\ Placed(queue', hand', salvage', remote', Twice, local', evicted', emitted')
      /\ Len(queue') <= Len(queue) /\ Len(hand') <= BatchSize /\ Len(hand') >= 1
  BY Takes DEF Where, history
<1>2. Twice' = Twice
  BY <1>1, PlacedTwice
<1>3. InHand' = "sending"
  BY DEF InHand
<1>4. /\ Tells(Fates, Range(queue), {}, InHand, Range(salvage), Range(remote) \ Twice,
               Range(local), evicted, emitted)
      /\ Tells(Fates', Range(queue'), Range(hand'), "sending", Range(salvage), Range(remote) \ Twice,
               Range(local), evicted, emitted)
  BY <1>1, <1>2, <1>3, FatesTell, EmptySequence DEF history
<1>5. Range(queue) = Range(queue') \cup Range(hand')
  BY <1>4 DEF Tells, Split
<1>6. /\ Before(Range(hand'), Range(queue')) /\ Range(hand') # {}
      /\ Cardinality(Range(hand')) <= BatchSize
  <2>1. hand' \in Seq(Nat) /\ Ascending(hand') /\ Before(Range(hand'), Range(queue'))
    BY <1>1 DEF Placed
  <2>2. hand' # <<>>
    BY <1>1, EmptySequence
  <2> QED BY <1>1, <2>1, <2>2, Nonempty, AscendingOnce
<1>7. Told
  BY <1>2, <1>4, <1>5, <1>6, TakeTold
<1> QED BY <1>1, <1>2, <1>7

----------------------------------------------------------------------------
(***************************************************************************)
(* The Seq sink.                                                           *)
(***************************************************************************)
\* The instance brings the same moves under names of their own.
LEMMA SameInSeq ==
  /\ SeqS!Kept = Kept /\ (SeqS!Full <=> Full) /\ \A q : SeqS!Taken(q) = Taken(q) /\ SeqS!Left(q) = Left(q)
  /\ (SeqS!CountEviction <=> CountEviction) /\ (SeqS!Acknowledge <=> Acknowledge)
  /\ \A records : SeqS!WriteBatch(records) <=> WriteBatch(records)
BY DEF SeqS!Kept, Kept, SeqS!Full, Full, SeqS!Taken, Taken, SeqS!Left, Left, SeqS!Shorter, Shorter,
       SeqS!CountEviction, CountEviction, SeqS!Acknowledge, Acknowledge, SeqS!WriteBatch, WriteBatch

\* What the head of the loop does.
LEMMA SeqHeads ==
  ASSUME NEW q, SeqS!LoopHead(q)
  PROVE  \/ /\ q = <<>> \/ shut
            /\ loop' = "ending" /\ hand' = <<>> /\ queue' = q /\ attempt' = attempt /\ routed' = routed
         \/ /\ q # <<>> /\ ~shut
            /\ loop' = "sending" /\ hand' = Taken(q) /\ queue' = Left(q)
            /\ attempt' = 0 /\ routed' = FALSE
BY SameInSeq DEF SeqS!LoopHead

\* What is in two places still fits what flush allows.
LEMMA TwiceFits ==
  ASSUME Control, Twice # {} => flush \notin {"no", "waiting"}, Twice' = Twice,
         flush' \in {"no", "waiting"} => flush \in {"no", "waiting"}
  PROVE  /\ Cardinality(Twice') <= IF flush' \in {"no", "waiting"} THEN 0 ELSE BatchSize
         /\ Twice' # {} => flush' \notin {"no", "waiting"}
<1>1. CASE Twice = {}
  <2>1. Cardinality(Twice') = 0 /\ 0 <= 0 /\ 0 <= BatchSize
    BY <1>1, FS_EmptySet, SizesFit DEF SizesFit
  <2> QED BY <1>1, <2>1
<1>2. CASE Twice # {}
  <2>1. flush \notin {"no", "waiting"} /\ flush' \notin {"no", "waiting"}
    BY <1>2
  <2>2. Cardinality(Twice) <= BatchSize
    BY <2>1 DEF Control
  <2> QED BY <2>1, <2>2
<1> QED BY <1>1, <1>2

\* A batch taken over stays so while it is written and new records come.
LEMMA StillTakenOver ==
  ASSUME SeqInv, routed, hand # <<>>, UNCHANGED <<hand, remote>>, Twice' = Twice,
         Range(salvage) \cup Range(local) \subseteq Range(salvage') \cup Range(local'),
         Range(queue') \subseteq Range(queue) \cup {emitted + 1}
  PROVE  TakenOver'
<1>1. TakenOver /\ emitted \in Nat /\ Range(hand) \subseteq 1..emitted
  BY DEF SeqInv, Control
<1>2. \A x \in Range(hand) : x < emitted + 1
  BY <1>1
<1>3. Before(Range(hand), Range(queue'))
  BY <1>1, <1>2 DEF TakenOver, Before
<1>4. Range(hand) \subseteq Range(salvage') \cup Range(local')
  BY <1>1 DEF TakenOver
<1> QED BY <1>1, <1>3, <1>4 DEF TakenOver

\* With nothing in hand, the head of the loop leaves everything in its place.
LEMMA SeqHeadStep ==
  ASSUME NEW q, Placed(q, <<>>, salvage', remote', Twice', local', evicted', emitted'),
         Len(q) <= QueueSize, emitted' \in 0..MaxRecords, SeqS!LoopHead(q), SeqInv, shut' = shut,
         flush' \in {"no", "waiting", "salvaging", "draining", "drained"},
         salvage' = <<>> \/ flush' \in {"salvaging", "draining"},
         shut => flush' = "drained", routed => flush' \notin {"no", "waiting"},
         Twice' = Twice, flush' \in {"no", "waiting"} => flush \in {"no", "waiting"}
  PROVE  SeqInv'
<1>1. q \in Seq(Nat) /\ Len(q) \in Nat /\ QueueSize \in Nat /\ BatchSize \in Nat /\ MaxRetries \in Nat
  BY Reached, SizesFit DEF Placed, SizesFit
<1>2. /\ Cardinality(Twice') <= IF flush' \in {"no", "waiting"} THEN 0 ELSE BatchSize
      /\ Twice' # {} => flush' \notin {"no", "waiting"}
  BY TwiceFits DEF SeqInv
<1>3. CASE /\ loop' = "ending" /\ hand' = <<>> /\ queue' = q
           /\ attempt' = attempt /\ routed' = routed
  <2>1. Placed(queue', SeqHand', salvage', remote', Twice', local', evicted', emitted')
    BY <1>3 DEF SeqHand
  <2>2. Control'
    BY <1>2, <1>3, EmptySequence DEF SeqInv, Control, NobodyWaitsForIdle
  <2> QED BY <1>2, <1>3, <2>1, <2>2 DEF SeqInv
<1>4. CASE /\ q # <<>> /\ loop' = "sending" /\ hand' = Taken(q) /\ queue' = Left(q)
           /\ attempt' = 0 /\ routed' = FALSE
  <2>1. /\ Placed(queue', hand', salvage', remote', Twice', local', evicted', emitted')
        /\ Len(queue') <= Len(q) /\ Len(hand') <= BatchSize /\ Len(hand') >= 1
    BY <1>4, Takes
  <2>2. hand' \in Seq(Nat) /\ Range(hand') \subseteq 1..emitted' /\ queue' \in Seq(Nat)
    BY <2>1, InRange
  <2>3. Len(hand') \in 1..BatchSize /\ Len(queue') <= QueueSize
    BY <1>1, <2>1, <2>2, Reached
  <2>4. Placed(queue', SeqHand', salvage', remote', Twice', local', evicted', emitted')
    BY <1>4, <2>1 DEF SeqHand
  <2>5. attempt' \in 0..MaxRetries
    BY <1>1, <1>4
  <2>6. Control'
    BY <1>2, <1>4, <2>2, <2>3, <2>5 DEF SeqInv, Control, NobodyWaitsForIdle
  <2> QED BY <1>2, <1>4, <2>4, <2>6 DEF SeqInv
<1> QED BY <1>3, <1>4, SeqHeads

\* Between two batches nothing is in hand.
LEMMA SeqEmptyHand ==
  ASSUME SeqInv, loop \notin {"sending", "backoff", "fallback"}
  PROVE  hand = <<>> /\ SeqHand = <<>> /\ Where(<<>>) /\ Late = {}
BY EmptySequence DEF SeqInv, SeqHand, Where, Late

\* The head of the loop tells nothing, or takes a batch.
LEMMA SeqHeadTold ==
  ASSUME SeqInv, loop \notin {"sending", "backoff", "fallback"}, SeqS!LoopHead(queue),
         UNCHANGED <<emitted, salvage, history>>
  PROVE  /\ Placed(queue, <<>>, salvage', remote', Twice', local', evicted', emitted')
         /\ Twice' = Twice /\ Told
<1>1. /\ hand = <<>> /\ Where(<<>>) /\ Late = {} /\ emitted \in 0..MaxRecords
  BY SeqEmptyHand DEF SeqInv, Control
<1>2. Twice' = Twice
  BY DEF Twice, history
<1>3. Placed(queue, <<>>, salvage', remote', Twice', local', evicted', emitted')
  BY <1>1, <1>2 DEF Where, history
<1>4. CASE loop' = "ending" /\ hand' = <<>> /\ queue' = queue
  <2>1. Fates' = Fates
    BY <1>1, <1>4, TellsNothing
  <2>2. Late' = {}
    BY <1>4, EmptySequence DEF Late
  <2> QED BY <1>1, <1>2, <1>3, <2>1, <2>2 DEF Told
<1>5. CASE /\ queue # <<>> /\ loop' = "sending" /\ hand' = Taken(queue) /\ queue' = Left(queue)
           /\ routed' = FALSE
  <2>1. Late' = {}
    BY <1>5 DEF Late
  <2>2. Told
    BY <1>1, <1>5, <2>1, TakesBatch
  <2> QED BY <1>2, <1>3, <2>2
<1> QED BY <1>4, <1>5, SeqHeads

\* A record that comes while there is no loop is sent at once.
LEMMA SentAtOnce ==
  ASSUME Where(<<>>), emitted \in 0..MaxRecords, emitted < MaxRecords, queue = <<>>,
         emitted' = emitted + 1, CountEviction, UNCHANGED salvage,
         hand' = Taken(Kept), queue' = Left(Kept), loop' = "sending", Late = {}, Late' = {}
  PROVE  Told
<1>1. /\ remote' = remote /\ local' = local /\ Len(queue) <= QueueSize /\ Range(queue) = {}
      /\ emitted' \in 0..MaxRecords
  BY EmptySequence, SizesFit DEF SizesFit, CountEviction
<1>2. /\ Placed(Kept, <<>>, salvage, remote, Twice, local, evicted', emitted + 1)
      /\ Kept # <<>> /\ Range(Kept) = {emitted + 1} /\ evicted' = evicted
  BY <1>1, KeptPlaced
<1>3. /\ Placed(queue', hand', salvage', remote', Twice, local', evicted', emitted') /\ Len(hand') >= 1
  BY <1>1, <1>2, Takes
<1>4. Twice' = Twice
  BY <1>3, PlacedTwice
<1>5. /\ Tells(Fates, {}, {}, InHand, Range(salvage), Range(remote) \ Twice,
               Range(local), evicted, emitted)
      /\ Tells(Fates', Range(queue'), Range(hand'), InHand', Range(salvage), Range(remote) \ Twice,
               Range(local), evicted, emitted + 1)
  BY <1>1, <1>2, <1>3, <1>4, FatesTell, EmptySequence
<1>6. /\ Split(Range(Kept), {}, Range(salvage), Range(remote) \ Twice, Range(local), evicted, emitted + 1)
      /\ Split(Range(queue'), Range(hand'), Range(salvage), Range(remote) \ Twice, Range(local),
               evicted, emitted + 1)
  BY <1>1, <1>2, <1>3, EmptySequence DEF Placed
<1>7. Range(queue') \cup Range(hand') = {emitted + 1} /\ Range(queue') \cap Range(hand') = {}
  BY <1>2, <1>6 DEF Split
<1>8. Range(hand') # {}
  BY <1>3, Nonempty, EmptySequence DEF Placed
<1>9. Range(queue') = {} /\ Range(hand') = {emitted + 1} /\ InHand' = "sending"
  BY <1>7, <1>8 DEF InHand
<1>10. Tells(Fates', {}, {emitted + 1}, "sending", Range(salvage), Range(remote) \ Twice,
             Range(local), evicted, emitted + 1)
  BY <1>5, <1>9
<1> QED BY <1>4, <1>5, <1>10, EmitTold

\* emit.
LEMMA SeqEmit == ASSUME SeqInv, SeqS!Emit PROVE SeqInv' /\ Told
<1>1. /\ emitted < MaxRecords /\ emitted' = emitted + 1 /\ emitted \in 0..MaxRecords
      /\ UNCHANGED <<flush, salvage, shut>> /\ Where(SeqHand) /\ Len(queue) <= QueueSize
      /\ MaxRecords \in Nat
  BY SizesFit DEF SizesFit, SeqS!Emit, SeqS!flushVars, SeqInv, Control, Where
<1>2. emitted' \in 0..MaxRecords /\ 1..emitted \subseteq 1..emitted'
  BY <1>1
<1>3. ASSUME Twice' = Twice
      PROVE  /\ Cardinality(Twice') <= IF flush' \in {"no", "waiting"} THEN 0 ELSE BatchSize
             /\ Twice' # {} => flush' \notin {"no", "waiting"}
  BY <1>1, <1>3, TwiceFits DEF SeqInv
<1>4. CASE shut /\ SeqS!WriteRecord /\ UNCHANGED routed
  <2>1. UNCHANGED <<queue, loop, hand, attempt, remote, evicted, routed>>
        /\ local' = Append(local, emitted + 1)
    BY <1>4 DEF SeqS!WriteRecord, SeqS!loopVars
  <2>2. InHand' = InHand /\ Late' = Late /\ SeqHand' = SeqHand
    BY <2>1 DEF InHand, Late, SeqHand
  <2>3. /\ Placed(queue', SeqHand, salvage', remote', Twice', local', evicted', emitted')
        /\ Twice' = Twice /\ Told
    BY <1>1, <2>1, <2>2, WrittenAtOnce
  <2>4. Range(local') = Range(local) \cup {emitted + 1}
    BY <1>1, <2>1, Appended DEF Where, Placed
  <2>5. routed' /\ hand' # <<>> => TakenOver'
    <3>1. /\ Range(salvage) \cup Range(local) \subseteq Range(salvage') \cup Range(local')
          /\ Range(queue') \subseteq Range(queue) \cup {emitted + 1}
      BY <1>1, <2>1, <2>4
    <3> QED BY <2>1, <2>3, <3>1, StillTakenOver
  <2>6. Control'
    BY <1>1, <1>2, <1>3, <2>1, <2>3 DEF SeqInv, Control, NobodyWaitsForIdle
  <2> QED BY <1>1, <1>3, <2>1, <2>2, <2>3, <2>5, <2>6 DEF SeqInv
<1>5. CASE ~shut /\ SeqS!EnsureLoop(Kept) /\ CountEviction
  <2>1. UNCHANGED <<remote, local>>
    BY <1>5 DEF CountEviction
  <2>2. CASE loop = "none"
    <3>1. SeqS!LoopHead(Kept) /\ Where(<<>>) /\ Late = {} /\ queue = <<>>
      BY <1>5, <2>2, SeqEmptyHand DEF SeqS!EnsureLoop, SeqInv
    <3>2. /\ Placed(Kept, <<>>, salvage', remote', Twice, local', evicted', emitted')
          /\ Len(Kept) <= QueueSize /\ Kept # <<>>
      BY <1>1, <1>5, <2>1, <3>1, KeptPlaced
    <3>3. Twice' = Twice
      BY <1>1, <2>1 DEF Twice
    <3>4. hand' = Taken(Kept) /\ queue' = Left(Kept) /\ loop' = "sending" /\ Late' = {}
      BY <1>5, <3>1, <3>2, SeqHeads DEF Late
    <3>5. Told
      BY <1>1, <1>5, <3>1, <3>4, SentAtOnce
    <3>6. SeqInv'
      BY <1>1, <1>2, <3>1, <3>2, <3>3, SeqHeadStep DEF SeqInv, Control
    <3> QED BY <3>5, <3>6
  <2>3. CASE loop # "none"
    <3>1. queue' = Kept /\ UNCHANGED <<loop, hand, attempt, routed>>
      BY <1>5, <2>3 DEF SeqS!EnsureLoop, SeqS!loopVars
    <3>2. SeqHand' = SeqHand /\ InHand' = InHand /\ Late' = Late
      BY <3>1 DEF SeqHand, InHand, Late
    <3>3. /\ Placed(queue', SeqHand, salvage', remote', Twice', local', evicted', emitted')
          /\ Len(queue') <= QueueSize /\ queue' # <<>> /\ Twice' = Twice /\ Told
      BY <1>1, <1>5, <3>1, <3>2, TakenIn
    <3>4. Range(queue') \subseteq Range(queue) \cup {emitted + 1}
      BY <1>1, <1>5, <3>1, KeptPlaced
    <3>5. routed' /\ hand' # <<>> => TakenOver'
      <4>1. Range(salvage) \cup Range(local) \subseteq Range(salvage') \cup Range(local')
        BY <1>1, <2>1
      <4> QED BY <2>1, <3>1, <3>3, <3>4, <4>1, StillTakenOver
    <3>6. Control'
      BY <1>1, <1>2, <1>3, <3>1, <3>3 DEF SeqInv, Control, NobodyWaitsForIdle
    <3> QED BY <1>1, <1>3, <2>3, <3>1, <3>2, <3>3, <3>5, <3>6 DEF SeqInv
  <2> QED BY <2>2, <2>3
<1> QED BY <1>4, <1>5, SameInSeq DEF SeqS!Emit

\* The batch done with, whichever way.
LEMMA SeqAfterBatch ==
  ASSUME SeqInv, loop \in {"sending", "fallback"}, SeqS!AfterBatch,
         Placed(queue', <<>>, salvage', remote', Twice', local', evicted', emitted'),
         Cardinality(Twice') <= IF flush' \in {"no", "waiting"} THEN 0 ELSE BatchSize,
         Twice' # {} => flush' \notin {"no", "waiting"}
  PROVE  SeqInv'
<1>1. /\ loop' \in {"pausing", "ending"} /\ hand' = <<>>
      /\ UNCHANGED <<emitted, queue, attempt, routed, flush, salvage, shut>>
  BY DEF SeqS!AfterBatch, SeqS!flushVars
<1>2. SeqHand' = <<>>
  BY <1>1 DEF SeqHand
<1> QED BY <1>1, <1>2, EmptySequence DEF SeqInv, Control, NobodyWaitsForIdle

\* A request given up ends, the collector having its records or not.
LEMMA SeqAborts ==
  ASSUME SeqInv, SeqS!Aborted
  PROVE  SeqInv' /\ Told
<1>1. /\ loop = "sending" /\ routed /\ SeqS!AfterBatch /\ (Acknowledge \/ UNCHANGED history)
      /\ hand' = <<>> /\ UNCHANGED <<emitted, queue, routed, flush, salvage, shut>>
  BY SameInSeq DEF SeqS!Aborted, SeqS!Consumed, SeqS!AfterBatch, SeqS!flushVars, SeqS!history, history
<1>2. /\ hand \in Seq(Nat) /\ hand # <<>> /\ Len(hand) <= BatchSize /\ flush \notin {"no", "waiting"}
      /\ TakenOver /\ emitted \in 0..MaxRecords
  BY <1>1, EmptySequence, SizesFit DEF SeqInv, Control, SizesFit
<1>3. Where(<<>>)
  BY <1>1 DEF SeqInv, SeqHand, Where
<1>4. Late = Range(hand) /\ Late # {} /\ Late' = {}
  BY <1>1, <1>2, Nonempty, EmptySequence DEF Late
<1>5. CASE UNCHANGED history
  <2>1. /\ Placed(queue', <<>>, salvage', remote', Twice', local', evicted', emitted')
        /\ Twice' = Twice /\ Fates' = Fates
    BY <1>1, <1>2, <1>3, <1>5, TellsNothing
  <2>2. SeqInv'
    BY <1>1, <2>1, TwiceFits, SeqAfterBatch DEF SeqInv
  <2>3. Tells(Fates, Range(queue), {}, InHand, Range(salvage), Range(remote) \ Twice,
              Range(local), evicted, emitted)
    BY <1>2, <1>3, FatesTell, EmptySequence
  <2> QED BY <1>4, <2>1, <2>2, <2>3, LateTold
<1>6. CASE Acknowledge
  <2>1. remote' = remote \o hand /\ local' = local /\ evicted' = evicted /\ Twice = {}
    BY <1>2, <1>6 DEF Acknowledge, TakenOver
  <2>2. Placed(queue', <<>>, salvage', remote', Range(hand), local', evicted', emitted')
    BY <1>1, <1>2, <1>3, <2>1, AcknowledgesLate DEF TakenOver, Where
  <2>3. Twice' = Range(hand)
    BY <2>2, PlacedTwice
  <2>4. Cardinality(Twice') <= BatchSize
    BY <1>2, <2>3, AscendingOnce DEF TakenOver
  <2>5. SeqInv'
    BY <1>1, <1>2, <2>2, <2>3, <2>4, SeqAfterBatch
  <2>6. Range(remote') \ Twice' = Range(remote) \ Twice
    <3>1. Range(remote') = Range(remote) \cup Range(hand)
      BY <1>2, <1>3, <2>1, Joined DEF Where, Placed
    <3>2. Range(remote) \cap Range(hand) = {}
      BY <1>2, <2>1 DEF TakenOver, Twice
    <3> QED BY <2>1, <2>3, <3>1, <3>2
  <2>7. /\ Tells(Fates, Range(queue), {}, InHand, Range(salvage), Range(remote) \ Twice,
                 Range(local), evicted, emitted)
        /\ Tells(Fates', Range(queue), {}, InHand', Range(salvage), Range(remote) \ Twice,
                 Range(local), evicted, emitted)
    BY <1>1, <1>2, <1>3, <2>1, <2>2, <2>3, <2>6, FatesTell, EmptySequence
  <2>8. Fates' = Fates
    BY <2>7, SameTold
  <2>9. Before((Range(remote) \ Twice) \cup Twice, Late)
    BY <1>2, <1>4, <2>1 DEF TakenOver
  <2>10. Told
    BY <1>4, <2>3, <2>7, <2>8, <2>9, LateTold
  <2> QED BY <2>5, <2>10
<1> QED BY <1>1, <1>5, <1>6

\* A batch is acknowledged or written.
LEMMA SeqAnswer ==
  ASSUME SeqInv, SeqS!Acknowledged \/ SeqS!WriteFallback
  PROVE  SeqInv' /\ Told
<1>1. /\ emitted \in 0..MaxRecords /\ Where(SeqHand) /\ loop \in {"sending", "fallback"}
      /\ hand # <<>> /\ ~routed /\ SeqS!AfterBatch /\ hand' = <<>>
      /\ UNCHANGED <<emitted, queue, routed, flush, salvage, shut>>
  BY EmptySequence, SizesFit
     DEF SeqInv, Control, Where, SizesFit, SeqS!Acknowledged, SeqS!Consumed, SeqS!WriteFallback,
         SeqS!AfterBatch, SeqS!flushVars
<1>2. Where(hand) /\ Late = {} /\ Late' = {}
  BY <1>1 DEF SeqHand, Late
<1>3. /\ Placed(queue', <<>>, salvage', remote', Twice', local', evicted', emitted')
      /\ Twice' = Twice /\ Told
  <2>1. CASE SeqS!Acknowledged
    <3>1. loop = "sending" /\ Acknowledge
      BY <2>1, SameInSeq DEF SeqS!Acknowledged
    <3> QED BY <1>1, <1>2, <3>1, TakesIt
  <2>2. CASE SeqS!WriteFallback
    <3>1. loop = "fallback" /\ WriteBatch(hand) /\ InHand = "leaving"
      BY <2>2, SameInSeq DEF SeqS!WriteFallback, InHand
    <3> QED BY <1>1, <1>2, <3>1, WritesIt
  <2> QED BY <2>1, <2>2
<1>4. SeqInv'
  BY <1>1, <1>3, TwiceFits, SeqAfterBatch DEF SeqInv
<1> QED BY <1>3, <1>4

\* Nothing settled: what is left to say is where the loop is.
LEMMA SeqWaits ==
  ASSUME SeqInv, SeqS!Refused \/ SeqS!Failed \/ SeqS!Again \/ SeqS!Resume
  PROVE  SeqInv' /\ Told
<1>1. emitted \in 0..MaxRecords /\ Where(SeqHand) /\ Len(queue) <= QueueSize
      /\ attempt \in 0..MaxRetries /\ MaxRetries \in Nat
  BY SizesFit DEF SeqInv, Control, Where, SizesFit
<1>2. UNCHANGED <<emitted, remote, local, evicted, flush, salvage, shut>>
  BY DEF SeqS!Refused, SeqS!Failed, SeqS!Again, SeqS!Retry, SeqS!Resume, SeqS!history, SeqS!flushVars
<1>3. Twice' = Twice
  BY <1>2 DEF Twice
<1>4. /\ Cardinality(Twice') <= IF flush' \in {"no", "waiting"} THEN 0 ELSE BatchSize
      /\ Twice' # {} => flush' \notin {"no", "waiting"}
  BY <1>2, <1>3, TwiceFits DEF SeqInv
<1>5. CASE SeqS!Refused \/ SeqS!Failed
  <2>1. /\ loop = "sending" /\ ~routed /\ loop' \in {"fallback", "backoff"}
        /\ loop' = "backoff" => attempt < MaxRetries
        /\ UNCHANGED <<queue, hand, attempt, routed>>
    BY <1>1, <1>5 DEF SeqS!Refused, SeqS!Failed, SeqS!Consumed
  <2>2. SeqHand' = SeqHand /\ SeqHand = hand /\ Late' = {} /\ Late = {} /\ hand # <<>>
    BY <2>1, EmptySequence, SizesFit DEF SeqHand, Late, SeqInv, Control, SizesFit
  <2>3. Placed(queue', SeqHand', salvage', remote', Twice', local', evicted', emitted') /\ Told
    <3>1. CASE loop' = "fallback"
      <4>1. InHand' = "leaving"
        BY <3>1 DEF InHand
      <4> QED BY <1>1, <1>2, <2>1, <2>2, <4>1, GivesUp DEF history
    <3>2. CASE loop' = "backoff"
      <4>1. InHand' = InHand
        BY <2>1, <3>2 DEF InHand
      <4> QED BY <1>1, <1>2, <2>1, <2>2, <4>1, TellsNothing DEF history, Told
    <3> QED BY <2>1, <3>1, <3>2
  <2>4. Control'
    BY <1>2, <1>4, <2>1 DEF SeqInv, Control, NobodyWaitsForIdle
  <2> QED BY <1>2, <1>4, <2>1, <2>3, <2>4 DEF SeqInv
<1>6. CASE SeqS!Again
  <2>1. /\ loop = "backoff" /\ loop' = "sending" /\ attempt' = attempt + 1
        /\ UNCHANGED <<queue, hand, routed>>
    BY <1>6 DEF SeqS!Again, SeqS!Retry
  <2>2. hand # <<>> /\ ~routed
    BY <2>1, EmptySequence, SizesFit DEF SeqInv, Control, SizesFit
  <2>3. SeqHand' = SeqHand /\ InHand' = InHand /\ Late' = {} /\ Late = {}
    BY <2>1, <2>2 DEF SeqHand, InHand, Late
  <2>4. Placed(queue', SeqHand', salvage', remote', Twice', local', evicted', emitted') /\ Told
    BY <1>1, <1>2, <2>1, <2>3, TellsNothing DEF history, Told
  <2>5. attempt' \in 0..MaxRetries
    BY <1>1, <2>1 DEF SeqInv, Control
  <2>6. Control'
    BY <1>2, <1>4, <2>1, <2>5 DEF SeqInv, Control, NobodyWaitsForIdle
  <2> QED BY <1>2, <1>4, <2>1, <2>2, <2>4, <2>6 DEF SeqInv
<1>7. CASE SeqS!Resume
  <2>1. loop = "pausing" /\ SeqS!LoopHead(queue)
    BY <1>7 DEF SeqS!Resume
  <2>2. Placed(queue, <<>>, salvage', remote', Twice', local', evicted', emitted') /\ Told
    BY <1>2, <2>1, SeqHeadTold DEF history
  <2> QED BY <1>1, <1>2, <1>3, <2>1, <2>2, SeqHeadStep DEF SeqInv, Control
<1> QED BY <1>5, <1>6, <1>7

\* The loop's finally.
LEMMA SeqLoopEnds == ASSUME SeqInv, SeqS!LoopEnds PROVE SeqInv' /\ Told
<1>1. /\ loop = "ending" /\ Where(<<>>) /\ Len(queue) <= QueueSize /\ emitted \in 0..MaxRecords
      /\ hand = <<>> /\ Late = {}
      /\ UNCHANGED <<emitted, remote, local, evicted, salvage, shut>>
  BY SeqEmptyHand DEF SeqS!LoopEnds, SeqS!history, SeqInv, Control
<1>2. /\ flush' = IF flush = "waiting" /\ queue = <<>> THEN "drained" ELSE flush
      /\ Twice' = Twice
  BY <1>1 DEF SeqS!LoopEnds, SeqS!SettleIfIdle, SeqS!Idle, Twice
<1>3. CASE SeqS!Restart
  <2>1. SeqS!LoopHead(queue)
    BY <1>3 DEF SeqS!LoopEnds
  <2>2. Placed(queue, <<>>, salvage', remote', Twice', local', evicted', emitted') /\ Told
    BY <1>1, <2>1, SeqHeadTold DEF history
  <2>3. flush' = flush
    BY <1>2, <1>3 DEF SeqS!Restart
  <2> QED BY <1>1, <1>2, <2>1, <2>2, <2>3, SeqHeadStep DEF SeqInv, Control
<1>4. CASE ~SeqS!Restart
  <2>1. loop' = "none" /\ UNCHANGED <<queue, hand, attempt, routed>>
    BY <1>4 DEF SeqS!LoopEnds
  <2>2. queue = <<>> \/ shut
    BY <1>4 DEF SeqS!Restart
  <2>3. SeqHand' = <<>> /\ Late' = {}
    BY <1>1, <2>1, EmptySequence DEF SeqHand, Late
  <2>4. Placed(queue', SeqHand', salvage', remote', Twice', local', evicted', emitted') /\ Told
    BY <1>1, <2>1, <2>3, TellsNothing DEF history, Told
  <2>5. /\ Cardinality(Twice') <= IF flush' \in {"no", "waiting"} THEN 0 ELSE BatchSize
        /\ Twice' # {} => flush' \notin {"no", "waiting"}
    BY <1>2, TwiceFits DEF SeqInv
  <2>6. Control'
    BY <1>1, <1>2, <2>1, <2>2, <2>5 DEF SeqInv, Control, NobodyWaitsForIdle
  <2> QED BY <1>1, <1>2, <2>1, <2>2, <2>4, <2>5, <2>6 DEF SeqInv
<1> QED BY <1>3, <1>4

\* flush starts a loop.
LEMMA SeqFlush == ASSUME SeqInv, SeqS!Flush PROVE SeqInv' /\ Told
<1>1. /\ flush = "no" /\ flush' = "waiting" /\ Where(SeqHand) /\ Len(queue) <= QueueSize
      /\ emitted \in 0..MaxRecords /\ ~shut /\ ~routed /\ SeqHand = hand /\ Late = {}
      /\ UNCHANGED <<emitted, remote, local, evicted, salvage, shut>> /\ SeqS!EnsureLoop(queue)
  BY DEF SeqS!Flush, SeqS!history, SeqInv, Control, Where, SeqHand, Late
<1>2. Twice' = Twice
  BY <1>1 DEF Twice
<1>3. CASE loop = "none"
  <2>1. SeqS!LoopHead(queue)
    BY <1>1, <1>3 DEF SeqS!EnsureLoop
  <2>2. Placed(queue, <<>>, salvage', remote', Twice', local', evicted', emitted') /\ Told
    BY <1>1, <1>3, <2>1, SeqHeadTold DEF history
  <2> QED BY <1>1, <1>2, <2>1, <2>2, SeqHeadStep DEF SeqInv, Control
<1>4. CASE loop # "none"
  <2>1. UNCHANGED <<queue, loop, hand, attempt, routed>>
    BY <1>1, <1>4 DEF SeqS!EnsureLoop, SeqS!loopVars
  <2>2. SeqHand' = SeqHand /\ InHand' = InHand /\ Late' = {}
    BY <1>1, <2>1 DEF SeqHand, InHand, Late
  <2>3. Placed(queue', SeqHand', salvage', remote', Twice', local', evicted', emitted') /\ Told
    BY <1>1, <2>1, <2>2, TellsNothing DEF history, Told
  <2>4. /\ Cardinality(Twice') <= IF flush' \in {"no", "waiting"} THEN 0 ELSE BatchSize
        /\ Twice' # {} => flush' \notin {"no", "waiting"}
    BY <1>1, <1>2, TwiceFits DEF SeqInv
  <2>5. Control'
    BY <1>1, <1>4, <2>1, <2>4 DEF SeqInv, Control, NobodyWaitsForIdle
  <2> QED BY <1>1, <1>4, <2>1, <2>3, <2>4, <2>5 DEF SeqInv
<1> QED BY <1>3, <1>4

\* The drain timeout: flush takes over the request under way.
LEMMA SeqTimeout == ASSUME SeqInv, SeqS!DrainTimeout PROVE SeqInv' /\ Told
<1>1. /\ flush = "waiting" /\ flush' = "salvaging" /\ routed' = (loop = "sending")
      /\ salvage' = (IF loop = "sending" THEN hand ELSE <<>>)
      /\ UNCHANGED <<emitted, queue, loop, hand, attempt, shut, remote, local, evicted>>
  BY DEF SeqS!DrainTimeout, SeqS!loopVars, SeqS!history
<1>2. /\ ~routed /\ salvage = <<>> /\ ~shut /\ Twice = {} /\ Late = {} /\ SeqHand = hand
      /\ emitted \in 0..MaxRecords /\ Where(hand) /\ InHand' = InHand
  BY <1>1 DEF SeqInv, Control, Late, SeqHand, Where, InHand
<1>3. ASSUME Twice' = Twice
      PROVE  /\ Cardinality(Twice') <= IF flush' \in {"no", "waiting"} THEN 0 ELSE BatchSize
             /\ Twice' # {} => flush' \notin {"no", "waiting"}
  BY <1>1, <1>3, TwiceFits DEF SeqInv
<1>4. CASE loop = "sending"
  <2>1. hand # <<>> /\ salvage' = hand /\ SeqHand' = <<>> /\ Late' = Range(hand) /\ InHand = "sending"
    <3>1. Len(hand) >= 1 /\ Len(<<>>) = 0
      BY <1>4, EmptySequence, SizesFit DEF SeqInv, Control, SizesFit
    <3>2. hand # <<>>
      BY <3>1
    <3>3. routed' /\ hand' = hand /\ salvage' = hand
      BY <1>1, <1>4
    <3>4. SeqHand' = <<>> /\ Late' = Range(hand)
      BY <3>3 DEF SeqHand, Late
    <3> QED BY <1>4, <3>2, <3>3, <3>4 DEF InHand
  <2>2. Placed(queue', <<>>, salvage', remote', Twice, local', evicted', emitted')
    BY <1>1, <1>2, <2>1, SalvagesHand DEF Where
  <2>3. Twice' = Twice
    BY <2>2, PlacedTwice
  <2>4. /\ Tells(Fates, Range(queue), Range(hand), "sending", {}, Range(remote) \ Twice,
                 Range(local), evicted, emitted)
        /\ Tells(Fates', Range(queue), {}, InHand', Range(hand), Range(remote) \ Twice,
                 Range(local), evicted, emitted)
    BY <1>1, <1>2, <2>1, <2>2, <2>3, FatesTell, EmptySequence
  <2>5. Range(hand) # {}
    BY <2>1, Nonempty DEF SeqInv, Control
  <2>6. Range(hand) = {} \cup Range(hand)
    OBVIOUS
  <2>7. Told
    BY <1>2, <2>1, <2>3, <2>4, <2>5, <2>6, GiveUpTold
  <2>8. TakenOver'
    BY <1>1, <1>2, <2>1, <2>3 DEF TakenOver, Where, Placed
  <2>9. Control'
    BY <1>1, <1>2, <1>3, <2>3 DEF SeqInv, Control, NobodyWaitsForIdle
  <2> QED BY <1>1, <1>2, <1>3, <1>4, <2>1, <2>2, <2>3, <2>7, <2>8, <2>9 DEF SeqInv
<1>5. CASE loop # "sending"
  <2>1. ~routed' /\ SeqHand' = hand /\ Late' = {} /\ UNCHANGED salvage
    BY <1>1, <1>2, <1>5 DEF SeqHand, Late
  <2>2. /\ Placed(queue', hand, salvage', remote', Twice', local', evicted', emitted')
        /\ Twice' = Twice /\ Told
    BY <1>1, <1>2, <2>1, TellsNothing DEF history, Told
  <2>3. Control'
    BY <1>1, <1>2, <1>3, <2>1, <2>2 DEF SeqInv, Control, NobodyWaitsForIdle
  <2> QED BY <1>1, <1>2, <1>3, <1>5, <2>1, <2>2, <2>3 DEF SeqInv
<1> QED BY <1>4, <1>5

\* What flush salvaged is written, and shutdown.
LEMMA SeqClose == ASSUME SeqInv, SeqS!Close PROVE SeqInv' /\ Told
<1>1. emitted \in 0..MaxRecords /\ Where(SeqHand) /\ Len(<<>>) = 0 /\ QueueSize \in Nat
  BY SizesFit, EmptySequence DEF SeqInv, Control, Where, SizesFit
<1>2. CASE SeqS!Salvaged \/ (SeqS!Drained /\ UNCHANGED routed)
  <2>1. /\ flush \in {"salvaging", "draining"} /\ WriteBatch(salvage)
        /\ \/ flush' = "draining" /\ salvage' = queue /\ queue' = <<>>
           \/ flush' = "drained" /\ salvage' = <<>> /\ queue' = queue
        /\ UNCHANGED <<emitted, loop, hand, attempt, routed, shut>>
    BY <1>2, SameInSeq DEF SeqS!Salvaged, SeqS!Drained, SeqS!loopVars
  <2>2. SeqHand' = SeqHand /\ InHand' = InHand /\ Late' = Late
    BY <2>1 DEF SeqHand, InHand, Late
  <2>3. /\ Placed(queue', SeqHand, salvage', remote', Twice', local', evicted', emitted')
        /\ Twice' = Twice /\ Told
    BY <1>1, <2>1, <2>2, WritesSalvaged
  <2>4. Len(queue') <= QueueSize /\ ~shut /\ (loop = "none" => queue' = <<>>)
    BY <1>1, <2>1 DEF SeqInv, Control
  <2>5. /\ Cardinality(Twice') <= IF flush' \in {"no", "waiting"} THEN 0 ELSE BatchSize
        /\ Twice' # {} => flush' \notin {"no", "waiting"}
    BY <2>1, <2>3, TwiceFits DEF SeqInv
  <2>6. routed' /\ hand' # <<>> => TakenOver'
    <3>1. remote' = remote /\ local' = local \o salvage
      BY <2>1 DEF WriteBatch
    <3>2. Range(local') = Range(local) \cup Range(salvage)
      BY <1>1, <3>1, Joined DEF Where, Placed
    <3>3. Range(queue') \subseteq Range(queue) \cup {emitted + 1}
      BY <2>1, EmptySequence
    <3>4. Range(salvage) \cup Range(local) \subseteq Range(salvage') \cup Range(local')
      BY <3>2
    <3> QED BY <2>1, <2>3, <3>1, <3>3, <3>4, StillTakenOver
  <2>7. Control'
    BY <2>1, <2>4, <2>5 DEF SeqInv, Control, NobodyWaitsForIdle
  <2> QED BY <2>1, <2>2, <2>3, <2>4, <2>5, <2>6, <2>7 DEF SeqInv
<1>3. CASE SeqS!Shutdown /\ UNCHANGED routed
  <2>1. /\ flush = "drained" /\ shut' = TRUE
        /\ UNCHANGED <<emitted, queue, loop, hand, attempt, routed, flush, salvage,
                       remote, local, evicted>>
    BY <1>3 DEF SeqS!Shutdown, SeqS!loopVars, SeqS!history
  <2>2. SeqHand' = SeqHand /\ InHand' = InHand /\ Late' = Late
    BY <2>1 DEF SeqHand, InHand, Late
  <2>3. /\ Placed(queue', SeqHand, salvage', remote', Twice', local', evicted', emitted')
        /\ Twice' = Twice /\ Told
    BY <1>1, <2>1, <2>2, TellsNothing DEF history, Told
  <2>4. /\ Cardinality(Twice') <= IF flush' \in {"no", "waiting"} THEN 0 ELSE BatchSize
        /\ Twice' # {} => flush' \notin {"no", "waiting"}
    BY <2>1, <2>3, TwiceFits DEF SeqInv
  <2>5. routed' /\ hand' # <<>> => TakenOver'
    BY <2>1, <2>3 DEF SeqInv, TakenOver
  <2>6. Control'
    BY <2>1, <2>4 DEF SeqInv, Control, NobodyWaitsForIdle
  <2> QED BY <2>1, <2>2, <2>3, <2>4, <2>5, <2>6 DEF SeqInv
<1> QED BY <1>2, <1>3, SeqTimeout DEF SeqS!Close, SeqS!End

\* Every step of the Seq sink.
LEMMA SeqStepKeeps == ASSUME SeqInv, SeqS!Next PROVE SeqInv' /\ Told
BY SeqEmit, SeqAborts, SeqAnswer, SeqWaits, SeqLoopEnds, SeqFlush, SeqClose
   DEF SeqS!Next, SeqS!Dispatch, SeqS!Answer

----------------------------------------------------------------------------
(***************************************************************************)
(* The OTLP sink.                                                          *)
(***************************************************************************)
\* The instance brings the same moves under names of their own.
LEMMA SameInOtlp ==
  /\ Otlp!Kept = Kept /\ \A q : Otlp!Taken(q) = Taken(q) /\ Otlp!Left(q) = Left(q)
  /\ (Otlp!CountEviction <=> CountEviction) /\ (Otlp!Acknowledge <=> Acknowledge)
  /\ \A records : Otlp!WriteBatch(records) <=> WriteBatch(records)
BY DEF Otlp!Kept, Kept, Otlp!Full, Full, Otlp!Taken, Taken, Otlp!Left, Left, Otlp!Shorter, Shorter,
       Otlp!CountEviction, CountEviction, Otlp!Acknowledge, Acknowledge, Otlp!WriteBatch, WriteBatch

\* Between two batches nothing is in hand.
LEMMA OtlpEmptyHand ==
  ASSUME OtlpInv, loop \notin {"sending", "backoff", "fallback", "shedding"}
  PROVE  hand = <<>> /\ Where(<<>>)
BY DEF OtlpInv, Breaker, Where

\* Nothing is ever in two places, and no request is given up.
LEMMA NothingTwice ==
  ASSUME OtlpInv, ~routed, ~routed'
  PROVE  /\ Late = {} /\ Late' = {} /\ Twice = {}
         /\ Twice' = Twice => /\ Twice' = {}
                              /\ Cardinality(Twice') <= IF flush' \in {"no", "waiting"} THEN 0 ELSE BatchSize
<1>1. Late = {} /\ Late' = {} /\ Twice = {}
  BY DEF Late, OtlpInv
<1>2. Cardinality({}) = 0 /\ 0 <= 0 /\ 0 <= BatchSize
  BY FS_EmptySet, SizesFit DEF SizesFit
<1> QED BY <1>1, <1>2

\* A circuit that has lapsed is closed by the first look at it.
LEMMA Refreshed ==
  ASSUME OtlpInv, Otlp!RefreshCircuit
  PROVE  /\ circuit' = IF circuit = "lapsed" THEN "closed" ELSE circuit
         /\ failedBatches' \in 0..FailureThreshold /\ initFailures' \in 0..InitThreshold
         /\ circuit' = "closed" => failedBatches' < FailureThreshold
         /\ circuit' = "closed" /\ ~shut => initFailures' < InitThreshold
         /\ loop = "initializing" => initFailures' < InitThreshold
BY ThresholdsFit DEF ThresholdsFit, OtlpInv, Breaker, Otlp!RefreshCircuit, Otlp!breaker

\* emit.
LEMMA OtlpEmit == ASSUME OtlpInv, Otlp!Emit, ~routed, ~routed' PROVE OtlpInv' /\ Told
<1>1. /\ emitted < MaxRecords /\ emitted' = emitted + 1 /\ emitted \in 0..MaxRecords
      /\ UNCHANGED <<flush, salvage, shut, initialized>> /\ Where(hand) /\ Len(queue) <= QueueSize
      /\ MaxRecords \in Nat /\ Otlp!RefreshCircuit
  BY SizesFit DEF SizesFit, Otlp!Emit, Otlp!flushVars, OtlpInv, Breaker, Control, Where
<1>2. emitted' \in 0..MaxRecords /\ 1..emitted \subseteq 1..emitted' /\ Late' = Late
  BY <1>1, NothingTwice
<1>3. /\ circuit' = IF circuit = "lapsed" THEN "closed" ELSE circuit
      /\ failedBatches' \in 0..FailureThreshold /\ initFailures' \in 0..InitThreshold
      /\ circuit' = "closed" => failedBatches' < FailureThreshold
      /\ circuit' = "closed" /\ ~shut => initFailures' < InitThreshold
      /\ loop = "initializing" => initFailures' < InitThreshold
  BY <1>1, Refreshed
<1>4. CASE (shut \/ circuit = "open") /\ Otlp!WriteRecord
  <2>1. UNCHANGED <<queue, loop, hand, attempt, remote, evicted>>
        /\ local' = Append(local, emitted + 1)
    BY <1>4 DEF Otlp!WriteRecord, Otlp!loopVars
  <2>2. InHand' = InHand
    BY <2>1 DEF InHand
  <2>3. /\ Placed(queue', hand', salvage', remote', Twice', local', evicted', emitted')
        /\ Twice' = Twice /\ Told
    BY <1>1, <1>2, <2>1, <2>2, WrittenAtOnce
  <2>4. Control'
    BY <1>1, <1>2, <2>1, <2>3, NothingTwice DEF OtlpInv, Breaker, Control, NobodyWaitsForIdle
  <2>5. Breaker'
    BY <1>1, <1>3, <2>1 DEF OtlpInv, Breaker
  <2> QED BY <2>1, <2>3, <2>4, <2>5, NothingTwice DEF OtlpInv, Breaker
<1>5. CASE ~shut /\ circuit # "open" /\ Otlp!EnsureLoop(Kept) /\ CountEviction
  <2>1. queue' = Kept /\ UNCHANGED <<hand, attempt>>
    BY <1>5 DEF Otlp!EnsureLoop
  <2>2. InHand' = InHand \/ hand = <<>>
    BY <1>5 DEF Otlp!EnsureLoop, InHand, OtlpInv
  <2>3. /\ Placed(queue', hand', salvage', remote', Twice', local', evicted', emitted')
        /\ Len(queue') <= QueueSize /\ queue' # <<>> /\ Twice' = Twice /\ Told
    BY <1>1, <1>2, <1>5, <2>1, <2>2, TakenIn
  <2>4. loop' = IF loop # "none" THEN loop ELSE "initializing"
    BY <1>5, <2>1, <2>3 DEF Otlp!EnsureLoop
  <2>5. Control'
    BY <1>1, <1>2, <2>1, <2>3, <2>4, NothingTwice DEF OtlpInv, Breaker, Control, NobodyWaitsForIdle
  <2>6. Breaker'
    BY <1>1, <1>3, <1>5, <2>4 DEF OtlpInv, Breaker
  <2> QED BY <2>1, <2>3, <2>4, <2>5, <2>6, NothingTwice DEF OtlpInv, Breaker
<1> QED BY <1>4, <1>5, SameInOtlp DEF Otlp!Emit

\* The head of the loop leaves everything in its place.
LEMMA OtlpHead ==
  ASSUME OtlpInv, loop \in {"initializing", "pausing"}, Otlp!LoopHead, ~routed, ~routed',
         UNCHANGED <<emitted, flush, salvage, shut, remote, local, evicted>>
  PROVE  /\ Where(hand)' /\ Control' /\ Told /\ Twice' = {} /\ circuit = "closed"
         /\ loop' \in {"ending", "sending"} /\ (hand' = <<>> \/ loop' = "sending")
<1>1. /\ Where(<<>>) /\ circuit = "closed" /\ queue \in Seq(Nat) /\ Len(queue) <= QueueSize
      /\ BatchSize \in Nat /\ QueueSize \in Nat /\ MaxRetries \in Nat /\ emitted \in 0..MaxRecords
      /\ Late = {} /\ Late' = {} /\ Twice = {}
  BY OtlpEmptyHand, SizesFit, NothingTwice DEF OtlpInv, Breaker, Control, Placed, SizesFit
<1>2. CASE queue = <<>> \/ shut
  <2>1. loop' = "ending" /\ hand' = <<>> /\ UNCHANGED <<queue, attempt>>
    BY <1>1, <1>2 DEF Otlp!LoopHead
  <2>2. /\ Placed(queue', hand', salvage', remote', Twice', local', evicted', emitted')
        /\ Twice' = Twice /\ Told
    BY <1>1, <2>1, TellsNothing DEF history, Told
  <2>3. Control'
    BY <1>1, <2>1, <2>2, EmptySequence, NothingTwice DEF OtlpInv, Breaker, Control, NobodyWaitsForIdle
  <2> QED BY <1>1, <2>1, <2>2, <2>3 DEF Where
<1>3. CASE queue # <<>> /\ ~shut
  <2>1. loop' = "sending" /\ hand' = Taken(queue) /\ queue' = Left(queue) /\ attempt' = 0
    BY <1>1, <1>3, SameInOtlp DEF Otlp!LoopHead
  <2>2. /\ Where(hand)' /\ Len(queue') <= Len(queue) /\ Len(hand') <= BatchSize /\ Len(hand') >= 1
        /\ Twice' = Twice /\ Told
    BY <1>1, <1>3, <2>1, TakesBatch DEF Where, history
  <2>3. hand' \in Seq(Nat) /\ Range(hand') \subseteq 1..emitted' /\ queue' \in Seq(Nat)
    BY <2>2, InRange DEF Where
  <2>4. Len(hand') \in 1..BatchSize /\ Len(queue') <= QueueSize /\ attempt' \in 0..MaxRetries
    BY <1>1, <2>1, <2>2, <2>3, Reached
  <2>5. Control'
    BY <2>1, <2>2, <2>3, <2>4, NothingTwice DEF OtlpInv, Breaker, Control, NobodyWaitsForIdle
  <2> QED BY <1>1, <2>1, <2>2, <2>5
<1> QED BY <1>2, <1>3

\* The head of the loop, after initialization or a pause.
LEMMA OtlpHeads ==
  ASSUME OtlpInv, Otlp!InitializationDone \/ Otlp!Resume, ~routed, ~routed'
  PROVE  OtlpInv' /\ Told
<1>1. /\ loop \in {"initializing", "pausing"} /\ Otlp!LoopHead
      /\ UNCHANGED <<emitted, flush, salvage, shut, remote, local, evicted>>
  BY DEF Otlp!InitializationDone, Otlp!Resume, Otlp!flushVars, Otlp!history
<1>2. /\ Where(hand)' /\ Control' /\ Told /\ Twice' = {} /\ circuit = "closed"
      /\ loop' \in {"ending", "sending"} /\ (hand' = <<>> \/ loop' = "sending")
  BY <1>1, OtlpHead
<1>3. Breaker'
  <2>1. CASE Otlp!InitializationDone
    <3>1. initialized' = TRUE /\ initFailures' = 0 /\ UNCHANGED <<circuit, failedBatches>>
      BY <1>2, <2>1 DEF Otlp!InitializationDone
    <3> QED BY <1>1, <1>2, <3>1, ThresholdsFit DEF ThresholdsFit, OtlpInv, Breaker
  <2>2. CASE Otlp!Resume
    <3>1. UNCHANGED <<initialized, circuit, failedBatches, initFailures>>
      BY <1>2, <2>2 DEF Otlp!Resume, Otlp!RefreshCircuit, Otlp!breaker
    <3> QED BY <1>1, <1>2, <3>1 DEF OtlpInv, Breaker
  <2> QED BY <2>1, <2>2 DEF Otlp!InitializationDone, Otlp!Resume
<1> QED BY <1>2, <1>3 DEF OtlpInv, Where, Breaker

\* A failed initialization: try again later, or shed what waits.
LEMMA OtlpInitializes ==
  ASSUME OtlpInv, Otlp!InitializationFailed \/ Otlp!InitRetry, ~routed, ~routed'
  PROVE  OtlpInv' /\ Told
<1>1. /\ UNCHANGED <<emitted, flush, salvage, shut, remote, local, evicted, initialized, failedBatches>>
      /\ loop \in {"initializing", "initBackoff"} /\ emitted \in 0..MaxRecords /\ Late' = Late
  BY NothingTwice
     DEF Otlp!InitializationFailed, Otlp!InitRetry, Otlp!flushVars, Otlp!history, Otlp!breaker, OtlpInv, Control
<1>2. Where(<<>>) /\ circuit = "closed" /\ hand = <<>>
  BY <1>1, OtlpEmptyHand DEF OtlpInv, Breaker
<1>3. CASE Otlp!InitRetry \/ (Otlp!InitializationFailed /\ ~(initFailures + 1 >= InitThreshold /\ ~shut))
  <2>1. UNCHANGED <<queue, hand, attempt, circuit>> /\ loop' \in {"ending", "initBackoff"}
    BY <1>3 DEF Otlp!InitRetry, Otlp!InitializationFailed, Otlp!breaker
  <2>2. initFailures' \in 0..InitThreshold /\ (~shut => initFailures' < InitThreshold)
    <3>1. CASE Otlp!InitRetry
      BY <1>2, <3>1 DEF Otlp!InitRetry, Otlp!breaker, OtlpInv, Breaker
    <3>2. CASE Otlp!InitializationFailed /\ ~(initFailures + 1 >= InitThreshold /\ ~shut)
      <4>1. loop = "initializing" /\ initFailures' = initFailures + 1
        BY <3>2 DEF Otlp!InitializationFailed
      <4> QED BY <3>2, <4>1, ThresholdsFit DEF OtlpInv, Breaker, ThresholdsFit
    <3> QED BY <1>3, <3>1, <3>2
  <2>3. /\ Placed(queue', hand', salvage', remote', Twice', local', evicted', emitted')
        /\ Twice' = Twice /\ Told
    BY <1>1, <1>2, <2>1, TellsNothing DEF history, Told
  <2>4. Control'
    BY <1>1, <2>1, <2>3, NothingTwice DEF OtlpInv, Control, NobodyWaitsForIdle
  <2>5. Breaker'
    BY <1>1, <1>2, <2>1, <2>2 DEF OtlpInv, Breaker
  <2> QED BY <1>2, <2>1, <2>3, <2>4, <2>5, NothingTwice DEF OtlpInv
<1>4. CASE Otlp!InitializationFailed /\ initFailures + 1 >= InitThreshold /\ ~shut
  <2>1. /\ loop = "initializing" /\ loop' = "shedding" /\ hand' = queue /\ queue' = <<>>
        /\ attempt' = attempt /\ circuit' = "open" /\ initFailures' = initFailures + 1
    BY <1>4 DEF Otlp!InitializationFailed, Otlp!Shed
  <2>2. Where(hand)' /\ Twice' = Twice /\ Told
    <3>1. InHand' = "leaving"
      BY <2>1 DEF InHand
    <3> QED BY <1>1, <1>2, <2>1, <3>1, Diverts DEF Where, history
  <2>3. hand' \in Seq(Nat) /\ Range(hand') \subseteq 1..emitted' /\ Len(queue') <= QueueSize
    BY <2>1, <2>2, InRange, EmptySequence, SizesFit DEF Where, SizesFit
  <2>4. initFailures' \in 0..InitThreshold
    BY <2>1, ThresholdsFit DEF OtlpInv, Breaker, ThresholdsFit
  <2>5. Control'
    BY <1>1, <2>1, <2>2, <2>3, NothingTwice DEF OtlpInv, Breaker, Control, NobodyWaitsForIdle
  <2>6. Breaker'
    BY <1>1, <2>1, <2>4 DEF OtlpInv, Breaker
  <2> QED BY <1>2, <2>1, <2>2, <2>5, <2>6, NothingTwice DEF OtlpInv, Where, Breaker
<1> QED BY <1>3, <1>4

\* An answer, and a retry.
LEMMA OtlpAnswers ==
  ASSUME OtlpInv, Otlp!Acknowledged \/ Otlp!Failed \/ Otlp!Again, ~routed, ~routed'
  PROVE  OtlpInv' /\ Told
<1>1. /\ emitted \in 0..MaxRecords /\ Where(hand) /\ attempt \in 0..MaxRetries /\ MaxRetries \in Nat
      /\ UNCHANGED <<emitted, queue, flush, salvage, shut>> /\ loop \in {"sending", "backoff"}
      /\ Late' = Late
  BY SizesFit, NothingTwice
     DEF SizesFit, OtlpInv, Breaker, Control, Where, Otlp!Acknowledged, Otlp!AfterBatch, Otlp!Failed,
         Otlp!Again, Otlp!Retry, Otlp!flushVars
<1>2. hand # <<>>
  BY <1>1, EmptySequence, SizesFit DEF OtlpInv, Control, SizesFit
<1>3. CASE Otlp!Acknowledged
  <2>1. /\ Acknowledge /\ loop' = (IF queue # <<>> THEN "pausing" ELSE "ending") /\ hand' = <<>>
        /\ failedBatches' = 0 /\ UNCHANGED <<attempt, initialized, circuit, initFailures>>
        /\ loop = "sending"
    BY <1>3, SameInOtlp DEF Otlp!Acknowledged, Otlp!AfterBatch
  <2>2. /\ Placed(queue', <<>>, salvage', remote', Twice', local', evicted', emitted')
        /\ Twice' = Twice /\ Told
    BY <1>1, <1>2, <2>1, TakesIt
  <2>3. Control'
    BY <1>1, <2>1, <2>2, EmptySequence, NothingTwice DEF OtlpInv, Breaker, Control, NobodyWaitsForIdle
  <2>4. Breaker'
    BY <1>1, <2>1, ThresholdsFit DEF OtlpInv, Breaker, ThresholdsFit
  <2> QED BY <2>1, <2>2, <2>3, <2>4, NothingTwice DEF OtlpInv, Breaker
<1>4. CASE Otlp!Failed \/ Otlp!Again
  <2>1. /\ UNCHANGED <<hand, initialized, circuit, failedBatches, initFailures, remote, local, evicted>>
        /\ loop' \in {"fallback", "backoff", "sending"} /\ attempt' \in 0..MaxRetries
        /\ loop' = "backoff" => attempt' < MaxRetries
        /\ loop' = "fallback" => loop = "sending"
    <3>1. CASE Otlp!Failed
      BY <1>1, <3>1 DEF Otlp!Failed, Otlp!breaker, Otlp!history
    <3>2. CASE Otlp!Again
      <4>1. loop = "backoff" /\ loop' = "sending" /\ attempt' = attempt + 1
        BY <3>2 DEF Otlp!Again, Otlp!Retry
      <4>2. attempt' \in 0..MaxRetries
        BY <1>1, <4>1 DEF OtlpInv, Breaker, Control
      <4> QED BY <3>2, <4>1, <4>2 DEF Otlp!Again, Otlp!Retry, Otlp!breaker, Otlp!history
    <3> QED BY <1>4, <3>1, <3>2
  <2>2. /\ Placed(queue', hand', salvage', remote', Twice', local', evicted', emitted')
        /\ Twice' = Twice /\ Told
    <3>1. CASE loop' = "fallback"
      <4>1. InHand' = "leaving"
        BY <3>1 DEF InHand
      <4> QED BY <1>1, <1>2, <2>1, <3>1, <4>1, GivesUp DEF history
    <3>2. CASE loop' # "fallback"
      <4>1. InHand' = InHand
        BY <1>1, <2>1, <3>2 DEF InHand
      <4> QED BY <1>1, <2>1, <4>1, TellsNothing DEF history, Told
    <3> QED BY <3>1, <3>2
  <2>3. Control'
    BY <1>1, <2>1, <2>2, NothingTwice DEF OtlpInv, Control, NobodyWaitsForIdle
  <2>4. Breaker'
    BY <1>1, <2>1 DEF OtlpInv, Breaker
  <2> QED BY <2>1, <2>2, <2>3, <2>4, NothingTwice DEF OtlpInv
<1> QED BY <1>3, <1>4

\* The fallback, which may trip the circuit.
LEMMA OtlpWrites ==
  ASSUME OtlpInv, Otlp!WriteFallback \/ Otlp!Shedding, ~routed, ~routed'
  PROVE  OtlpInv' /\ Told
<1>1. /\ emitted \in 0..MaxRecords /\ Where(hand) /\ WriteBatch(hand)
      /\ UNCHANGED <<emitted, flush, salvage, shut, attempt, initialized, initFailures>>
      /\ loop \in {"fallback", "shedding"} /\ Len(<<>>) = 0 /\ QueueSize \in Nat
  BY SameInOtlp, SizesFit, EmptySequence
     DEF SizesFit, OtlpInv, Breaker, Control, Where, Otlp!WriteFallback, Otlp!AfterBatch, Otlp!Shedding,
         Otlp!Trip, Otlp!Shed, Otlp!breaker, Otlp!flushVars
<1>2. Late' = Late /\ InHand = "leaving"
  BY <1>1, NothingTwice DEF InHand
<1>3. ASSUME queue' = queue, hand' = <<>>
      PROVE  Where(hand)' /\ Twice' = Twice /\ Told
  BY <1>1, <1>2, <1>3, WritesIt DEF Where
<1>4. CASE Otlp!Shedding
  <2>1. loop' = "ending" /\ hand' = <<>> /\ UNCHANGED <<queue, circuit, failedBatches>>
    BY <1>4 DEF Otlp!Shedding, Otlp!breaker
  <2>2. Where(hand)' /\ Twice' = Twice /\ Told
    BY <1>3, <2>1
  <2>3. Control'
    BY <1>1, <2>1, <2>2, EmptySequence, NothingTwice DEF OtlpInv, Control, NobodyWaitsForIdle
  <2>4. Breaker'
    BY <1>1, <2>1 DEF OtlpInv, Breaker
  <2> QED BY <2>1, <2>2, <2>3, <2>4, NothingTwice DEF OtlpInv, Where
<1>5. CASE Otlp!WriteFallback
  <2>1. loop = "fallback" /\ failedBatches' = failedBatches + 1 /\ circuit = "closed"
    BY <1>5 DEF Otlp!WriteFallback, OtlpInv, Breaker
  <2>2. failedBatches' \in 0..FailureThreshold
    BY <2>1, ThresholdsFit DEF OtlpInv, Breaker, ThresholdsFit
  <2>3. CASE failedBatches' >= FailureThreshold
    <3>1. loop' = "shedding" /\ hand' = queue /\ queue' = <<>> /\ circuit' = "open"
      BY <1>5, <2>3 DEF Otlp!WriteFallback, Otlp!Trip, Otlp!Shed
    <3>2. Where(hand)' /\ Twice' = Twice /\ Told
      <4>1. InHand' = "leaving"
        BY <3>1 DEF InHand
      <4> QED BY <1>1, <1>2, <3>1, <4>1, WritesIt DEF Where
    <3>3. hand' \in Seq(Nat) /\ Range(hand') \subseteq 1..emitted' /\ Len(queue') <= QueueSize
      BY <1>1, <3>1, <3>2, InRange DEF Where
    <3>4. Control'
      BY <1>1, <3>1, <3>2, <3>3, NothingTwice DEF OtlpInv, Breaker, Control, NobodyWaitsForIdle
    <3>5. Breaker'
      BY <1>1, <2>2, <3>1 DEF OtlpInv, Breaker
    <3> QED BY <3>1, <3>2, <3>4, <3>5, NothingTwice DEF OtlpInv, Where, Breaker
  <2>4. CASE ~(failedBatches' >= FailureThreshold)
    <3>1. /\ loop' = (IF queue # <<>> THEN "pausing" ELSE "ending") /\ hand' = <<>>
          /\ UNCHANGED <<queue, circuit>>
      BY <1>5, <2>4 DEF Otlp!WriteFallback, Otlp!AfterBatch
    <3>2. failedBatches' < FailureThreshold
      BY <2>2, <2>4, ThresholdsFit DEF ThresholdsFit
    <3>3. Where(hand)' /\ Twice' = Twice /\ Told
      BY <1>3, <3>1
    <3>4. Control'
      BY <1>1, <3>1, <3>3, EmptySequence, NothingTwice DEF OtlpInv, Breaker, Control, NobodyWaitsForIdle
    <3>5. Breaker'
      BY <1>1, <2>1, <2>2, <3>1, <3>2 DEF OtlpInv, Breaker
    <3> QED BY <1>1, <3>1, <3>3, <3>4, <3>5, NothingTwice DEF OtlpInv, Breaker, Where
  <2> QED BY <2>3, <2>4
<1> QED BY <1>4, <1>5 DEF Otlp!WriteFallback, Otlp!Shedding

\* The loop ends, the circuit lapses, flush begins.
LEMMA OtlpRests ==
  ASSUME OtlpInv, Otlp!LoopEnds \/ Otlp!Lapse \/ Otlp!Flush, ~routed, ~routed'
  PROVE  OtlpInv' /\ Told
<1>1. UNCHANGED <<emitted, salvage, shut, remote, local, evicted, queue, hand, attempt, initialized,
                  failedBatches, initFailures>>
  BY DEF Otlp!LoopEnds, Otlp!Lapse, Otlp!Flush, Otlp!EnsureLoop, Otlp!history, Otlp!breaker,
         Otlp!loopVars, Otlp!flushVars
<1>2. InHand' = InHand \/ hand = <<>>
  BY DEF InHand, OtlpInv, Otlp!LoopEnds, Otlp!Lapse, Otlp!Flush, Otlp!EnsureLoop, Otlp!loopVars
<1>3. /\ Placed(queue', hand', salvage', remote', Twice', local', evicted', emitted')
      /\ Twice' = Twice /\ Told
  <2>1. emitted \in 0..MaxRecords /\ Where(hand) /\ Late' = Late
    BY NothingTwice DEF OtlpInv, Control, Where
  <2> QED BY <1>1, <1>2, <2>1, TellsNothing DEF history, Told
<1>4. /\ Twice' = {}
      /\ Cardinality(Twice') <= IF flush' \in {"no", "waiting"} THEN 0 ELSE BatchSize
  BY <1>3, NothingTwice
<1>5. CASE Otlp!LoopEnds
  <2>1. /\ loop = "ending" /\ loop' = (IF queue # <<>> /\ ~shut THEN "initializing" ELSE "none")
        /\ flush' = (IF flush = "waiting" /\ queue = <<>> THEN "drained" ELSE flush)
        /\ circuit' = circuit
    BY <1>5 DEF Otlp!LoopEnds, Otlp!Restart, Otlp!SettleIfIdle, Otlp!Idle, Otlp!breaker
  <2> QED BY <1>1, <1>3, <1>4, <2>1 DEF OtlpInv, Breaker, Control, NobodyWaitsForIdle
<1>6. CASE Otlp!Lapse
  <2>1. circuit = "open" /\ circuit' = "lapsed" /\ UNCHANGED <<loop, flush>>
    BY <1>6 DEF Otlp!Lapse, Otlp!loopVars, Otlp!flushVars
  <2> QED BY <1>1, <1>3, <1>4, <2>1 DEF OtlpInv, Breaker, Control, NobodyWaitsForIdle
<1>7. CASE Otlp!Flush
  <2>1. /\ flush = "no" /\ flush' = "waiting" /\ circuit' = circuit
        /\ loop' = IF loop # "none" THEN loop ELSE IF queue = <<>> THEN "ending" ELSE "initializing"
    BY <1>7 DEF Otlp!Flush, Otlp!EnsureLoop, Otlp!breaker
  <2> QED BY <1>1, <1>3, <1>4, <2>1 DEF OtlpInv, Breaker, Control, NobodyWaitsForIdle
<1> QED BY <1>5, <1>6, <1>7

\* The drain timeout and shutdown.
LEMMA OtlpClose == ASSUME OtlpInv, Otlp!Close, ~routed, ~routed' PROVE OtlpInv' /\ Told
<1>1. emitted \in 0..MaxRecords /\ Where(hand) /\ Len(<<>>) = 0 /\ QueueSize \in Nat
      /\ UNCHANGED <<emitted, loop, hand, attempt, initialized, circuit, failedBatches, initFailures>>
  BY SizesFit, EmptySequence
     DEF OtlpInv, Breaker, Control, Where, SizesFit, Otlp!Close, Otlp!DrainTimeout, Otlp!End, Otlp!Drained,
         Otlp!Shutdown, Otlp!loopVars, Otlp!breaker
<1>2. Late' = Late /\ InHand' = InHand
  BY <1>1, NothingTwice DEF InHand
<1>3. CASE Otlp!DrainTimeout
  <2>1. /\ flush = "waiting" /\ flush' = "draining" /\ salvage' = queue /\ queue' = <<>>
        /\ UNCHANGED <<shut, remote, local, evicted>>
    BY <1>3 DEF Otlp!DrainTimeout, Otlp!history
  <2>2. salvage = <<>> /\ ~shut
    BY <2>1 DEF OtlpInv, Breaker, Control
  <2>3. Where(hand)' /\ Twice' = Twice /\ Told
    BY <1>1, <1>2, <2>1, <2>2, Diverts DEF Where, history
  <2>4. Control'
    BY <1>1, <2>1, <2>2, <2>3, NothingTwice DEF OtlpInv, Control, NobodyWaitsForIdle
  <2>5. Breaker'
    BY <1>1, <2>1, <2>2 DEF OtlpInv, Breaker
  <2> QED BY <1>1, <2>3, <2>4, <2>5, NothingTwice DEF OtlpInv, Where
<1>4. CASE Otlp!Drained
  <2>1. /\ flush = "draining" /\ flush' = "drained" /\ WriteBatch(salvage) /\ salvage' = <<>>
        /\ UNCHANGED <<queue, shut>>
    BY <1>4, SameInOtlp DEF Otlp!Drained
  <2>2. /\ Placed(queue', hand', salvage', remote', Twice', local', evicted', emitted')
        /\ Twice' = Twice /\ Told
    BY <1>1, <1>2, <2>1, WritesSalvaged
  <2>3. Control'
    BY <1>1, <2>1, <2>2, NothingTwice DEF OtlpInv, Control, NobodyWaitsForIdle
  <2>4. Breaker'
    BY <1>1, <2>1 DEF OtlpInv, Breaker
  <2> QED BY <1>1, <2>1, <2>2, <2>3, <2>4, NothingTwice DEF OtlpInv
<1>5. CASE Otlp!Shutdown
  <2>1. /\ flush = "drained" /\ shut' = TRUE
        /\ UNCHANGED <<queue, flush, salvage, remote, local, evicted>>
    BY <1>5 DEF Otlp!Shutdown, Otlp!history
  <2>2. /\ Placed(queue', hand', salvage', remote', Twice', local', evicted', emitted')
        /\ Twice' = Twice /\ Told
    BY <1>1, <1>2, <2>1, TellsNothing DEF history, Told
  <2>3. Control'
    BY <1>1, <2>1, <2>2, NothingTwice DEF OtlpInv, Control, NobodyWaitsForIdle
  <2>4. Breaker'
    BY <1>1, <2>1 DEF OtlpInv, Breaker
  <2> QED BY <1>1, <2>1, <2>2, <2>3, <2>4, NothingTwice DEF OtlpInv
<1> QED BY <1>3, <1>4, <1>5 DEF Otlp!Close, Otlp!End

\* Every step of the OTLP sink.
LEMMA OtlpStepKeeps == ASSUME OtlpInv, Otlp!Next, ~routed, ~routed' PROVE OtlpInv' /\ Told
BY OtlpEmit, OtlpHeads, OtlpInitializes, OtlpAnswers, OtlpWrites, OtlpRests, OtlpClose
   DEF Otlp!Next, Otlp!Dispatch, Otlp!Initialize, Otlp!Deliver

----------------------------------------------------------------------------
(***************************************************************************)
(* Either sink.                                                            *)
(***************************************************************************)
\* The start.
LEMMA SinkInit == Init => SinkInv /\ Delivery!Init
<1> SUFFICES ASSUME Init PROVE SinkInv /\ Delivery!Init
  OBVIOUS
<1>1. /\ emitted = 0 /\ queue = <<>> /\ loop = "none" /\ hand = <<>> /\ attempt = 0
      /\ flush = "no" /\ salvage = <<>> /\ shut = FALSE
      /\ remote = <<>> /\ local = <<>> /\ evicted = {} /\ routed = FALSE
      /\ initialized = FALSE /\ initFailures = 0 /\ circuit = "closed" /\ failedBatches = 0
      /\ sink \in {"seq", "otlp"}
  BY DEF Init, SeqS!Init, Otlp!Init, SeqS!DeliveryInit
<1>2. Placed(<<>>, <<>>, <<>>, <<>>, {}, <<>>, {}, 0) /\ Twice = {} /\ Late = {}
  BY <1>1, EmptySequence DEF Placed, Split, Before, Twice, Late
<1>3. Control
  <2>1. 0 \in 0..MaxRecords /\ 0 \in 0..MaxRetries /\ Len(<<>>) <= QueueSize
    BY EmptySequence, SizesFit DEF SizesFit
  <2>2. <<>> \in Seq(Nat) /\ Range(<<>>) = {}
    BY EmptySequence
  <2>3. Cardinality(Twice) = 0 /\ 0 <= 0
    BY <1>2, FS_EmptySet
  <2> QED BY <1>1, <2>1, <2>2, <2>3 DEF Control, NobodyWaitsForIdle
<1>4. Placed(queue, hand, salvage, remote, Twice, local, evicted, emitted) /\ SeqHand = hand
  BY <1>1, <1>2 DEF SeqHand
<1>5. SeqInv
  BY <1>1, <1>2, <1>3, <1>4 DEF SeqInv
<1>6. OtlpInv
  <2>1. 0 \in 0..FailureThreshold /\ 0 \in 0..InitThreshold /\ 0 < FailureThreshold /\ 0 < InitThreshold
    BY ThresholdsFit DEF ThresholdsFit
  <2> QED BY <1>1, <1>2, <1>3, <1>4, <2>1 DEF OtlpInv, Breaker
<1>7. SinkInv
  BY <1>1, <1>5, <1>6 DEF SinkInv
<1>8. Delivery!Init
  <2>1. \A r \in 1..MaxRecords : r > 0
    BY SizesFit DEF SizesFit
  <2>2. \A r \in 1..MaxRecords : Fate(r) = "unborn"
    BY <1>1, <2>1, EmptySequence DEF Fate
  <2> QED BY <1>2, <2>2 DEF Delivery!Init, Delivery!Record
<1> QED BY <1>7, <1>8

\* Every step.
LEMMA SinkStep == ASSUME SinkInv, [Next]_vars PROVE SinkInv' /\ [Delivery!Next]_<<Fates, Late, Twice>>
<1>1. CASE SeqStep(SeqS!Next)
  BY <1>1, SeqStepKeeps DEF SinkInv, SeqStep, Told
<1>2. CASE OtlpStep(Otlp!Next)
  <2>1. OtlpInv /\ sink' = "otlp" /\ ~routed /\ ~routed' /\ Otlp!Next
    BY <1>2 DEF SinkInv, OtlpStep
  <2> QED BY <2>1, OtlpStepKeeps DEF SinkInv, Told
<1>3. CASE UNCHANGED vars
  <2>1. UNCHANGED <<sink, emitted, queue, loop, hand, attempt, flush, salvage, shut, remote, local,
                    evicted, routed, initialized, initFailures, circuit, failedBatches>>
    BY <1>3 DEF vars, deliveryVars, loopVars, flushVars, history, otlpVars
  <2>2. UNCHANGED <<SeqHand, Late, Twice, Fates>>
    BY <2>1 DEF SeqHand, Late, Twice, Fates, Fate
  <2>3. SinkInv'
    BY <2>1, <2>2 DEF SinkInv, SeqInv, OtlpInv, Breaker, Control, NobodyWaitsForIdle, TakenOver
  <2> QED BY <2>2, <2>3
<1> QED BY <1>1, <1>2, <1>3 DEF Next

\* The invariant of both.
LEMMA SinkInvariance == Spec => []SinkInv
<1>1. Init => SinkInv
  BY SinkInit
<1>2. SinkInv /\ [Next]_vars => SinkInv'
  BY SinkStep
<1> QED BY <1>1, <1>2, PTL DEF Spec

\* Whatever the queue's size, the batch's and the thresholds: no record is lost, none is
\* evicted while it is in hand, and each is in one place (sink-delivery.ts, seq-sink.ts,
\* http-otlp-sink.ts), but the records of the one request that a drain timeout of the Seq
\* sink aborted and that was answered all the same, at most a batch.  The queue, a batch
\* and the counts of failures stay within their bounds.
THEOREM EachRecordInOnePlace == Spec => []Accounted
<1>1. SinkInv => Accounted
  BY SeqTypes, OtlpTypes DEF SinkInv, Accounted
<1> QED BY <1>1, SinkInvariance, PTL

\* The collector acknowledges records in the order they were emitted, the late answer of
\* an aborted request included.
THEOREM CollectedInOrder == Spec => []RemoteInOrder
<1>1. SinkInv => RemoteInOrder
  BY SeqTypes, OtlpTypes DEF SinkInv
<1> QED BY <1>1, SinkInvariance, PTL

\* flush never waits for a sink that is idle already (waitForIdle, settleIdleWaiters).
THEOREM FlushIsSettled == Spec => []NobodyWaitsForIdle
<1>1. SinkInv => NobodyWaitsForIdle
  BY SeqTypes, OtlpTypes DEF SinkInv
<1> QED BY <1>1, SinkInvariance, PTL

\* Either sink implements the promise of LogDelivery: one final fate for each record; of
\* those that wait the oldest is dropped, and only from a full queue; the oldest leave for
\* the collector, one batch at a time, and it never gets one older than it has; and one
\* request at most is given up while it is out.
THEOREM SinksKeepDelivery == Spec => KeepsDelivery
<1>1. Init => Delivery!Init
  BY SinkInit
<1>2. SinkInv /\ [Next]_vars => [Delivery!Next]_<<Fates, Late, Twice>>
  BY SinkStep
<1> QED BY <1>1, <1>2, SinkInvariance, PTL DEF Spec, KeepsDelivery, Delivery!Spec, Delivery!vars, Fates
=============================================================================
