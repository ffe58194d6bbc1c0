------------------------ MODULE ClientLogIngestProofs ------------------------
(***************************************************************************)
(* The client-log limiter keeps its ceilings, finds every ticket's entry,  *)
(* answers an honest Retry-After and implements IngestLedger, whatever the *)
(* limits, the window, the networks and the chains.                        *)
(*                                                                         *)
(* Everything is said of an entry by its sequence, the number commitHit    *)
(* gave it: retirement and compaction move entries in the arrays and never *)
(* change what a sequence stands for.                                      *)
(***************************************************************************)
EXTENDS ClientLogIngest, FoldFacts

\* What a bucket is made of.
Bucket == [hits : Seq(Nat), records : Seq(Nat), start : Nat, recordSum : Nat,
           charged : Nat, retired : Nat, born : Nat]

\* A bucket by sequence: what commitHit numbered, wherever the arrays hold it now.
End(b) == b.retired + LiveHits(b)
Seqs(b) == b.retired..(End(b) - 1)
At(b, q) == b.start + (q - b.retired) + 1
HitAt(b, q) == b.hits[At(b, q)]
CostAt(b, q) == b.records[At(b, q)]
Costs(b) == [q \in Seqs(b) |-> CostAt(b, q)]

\* The arrays keep step and ascend, and nothing is of the future.
Shaped(b, clock) ==
  /\ b \in Bucket
  /\ Len(b.hits) = Len(b.records) /\ b.start <= Len(b.hits)
  /\ \A i, j \in DOMAIN b.hits : i < j => b.hits[i] <= b.hits[j]
  /\ \A i \in DOMAIN b.hits : b.hits[i] <= clock
  /\ b.born <= clock

\* The running sum is exact, and no charge lies before the bound of the scan.
Balanced(b) == b.recordSum = SumFunctionOnSet(Costs(b), Seqs(b))
Bounded(b) == \A i \in LiveAt(b) : b.records[i] # 0 => b.charged < i

\* The dead entries are fewer than the live ones.
Lean(b) == b.start * 2 < Len(b.hits) \/ b.start = 0

Kept(b, clock) == Shaped(b, clock) /\ Balanced(b) /\ Bounded(b)
Sound(b, clock) == Kept(b, clock) /\ Lean(b)

\* s is b without entries that have left the window since the horizon.
Slid(b, s, horizon) ==
  /\ s # NoBucket => b # NoBucket /\ s.born = b.born /\ End(s) = End(b)
  /\ LiveHits(s) <= LiveHits(b)
  /\ \A q \in Seqs(s) : q \in Seqs(b) /\ HitAt(s, q) = HitAt(b, q) /\ CostAt(s, q) = CostAt(b, q)
  /\ \A q \in Seqs(b) : HitAt(b, q) > horizon => q \in Seqs(s)

----------------------------------------------------------------------------
(***************************************************************************)
(* One bucket: retirement, compaction, sweeping.                           *)
(***************************************************************************)

\* The numbers of a bucket.
Numbered(b) ==
  /\ b.start \in Nat /\ b.retired \in Nat /\ Len(b.hits) \in Nat /\ b.start <= Len(b.hits)
  /\ b.charged \in Nat /\ b.born \in Nat /\ b.recordSum \in Nat /\ Len(b.records) = Len(b.hits)

LEMMA ShapedNumbers ==
  ASSUME NEW clock, NEW b, Shaped(b, clock)
  PROVE  /\ Numbered(b) /\ b \in Bucket
         /\ b.hits \in Seq(Nat) /\ b.records \in Seq(Nat)
         /\ DOMAIN b.hits = 1..Len(b.hits) /\ DOMAIN b.records = 1..Len(b.hits)
BY DEF Shaped, Bucket, Numbered

LEMMA NumbersAdd ==
  ASSUME NEW b, Numbered(b)
  PROVE  LiveHits(b) \in Nat /\ End(b) \in Nat /\ b.retired <= End(b)
         /\ LiveHits(b) = Len(b.hits) - b.start
BY DEF Numbered, LiveHits, End

\* Sequences and live places are the same thing said twice.
LEMMA Placed ==
  ASSUME NEW b, Numbered(b)
  PROVE  /\ \A q \in Seqs(b) : At(b, q) \in LiveAt(b) /\ q \in Nat /\ At(b, q) \in 1..Len(b.hits)
                               /\ At(b, q) - 1 - b.start + b.retired = q
         /\ \A i \in LiveAt(b) : /\ i - 1 - b.start + b.retired \in Seqs(b)
                                 /\ At(b, i - 1 - b.start + b.retired) = i
<1>1. ASSUME NEW q \in Seqs(b)
      PROVE  At(b, q) \in LiveAt(b) /\ q \in Nat /\ At(b, q) \in 1..Len(b.hits)
             /\ At(b, q) - 1 - b.start + b.retired = q
  BY DEF Numbered, Seqs, End, LiveHits, At, LiveAt
<1>2. ASSUME NEW i \in LiveAt(b)
      PROVE  i - 1 - b.start + b.retired \in Seqs(b) /\ At(b, i - 1 - b.start + b.retired) = i
  BY DEF Numbered, Seqs, End, LiveHits, At, LiveAt
<1> QED BY <1>1, <1>2

LEMMA SeqsFinite ==
  ASSUME NEW b, Numbered(b)
  PROVE  IsFiniteSet(Seqs(b)) /\ Cardinality(Seqs(b)) = LiveHits(b)
<1> DEFINE last == End(b) - 1
<1>1. b.retired \in Int /\ last \in Int /\ last + 1 = b.retired + LiveHits(b) /\ LiveHits(b) \in Nat
  BY NumbersAdd DEF Numbered, End
<1>2. Seqs(b) = b.retired..last
  BY DEF Seqs
<1> HIDE DEF last
<1>3. IsFiniteSet(b.retired..last)
      /\ Cardinality(b.retired..last) = IF b.retired > last THEN 0 ELSE last - b.retired + 1
  BY <1>1, FS_Interval
<1> QED BY <1>1, <1>2, <1>3

LEMMA SeqsTyped ==
  ASSUME NEW clock, NEW b, Shaped(b, clock), NEW q \in Seqs(b)
  PROVE  /\ CostAt(b, q) \in Nat /\ Costs(b)[q] = CostAt(b, q)
         /\ HitAt(b, q) \in Nat /\ HitAt(b, q) <= clock
<1>1. At(b, q) \in 1..Len(b.hits)
  BY ShapedNumbers, Placed
<1>2. b.hits[At(b, q)] \in Nat /\ b.records[At(b, q)] \in Nat
  BY <1>1, ShapedNumbers
<1>3. b.hits[At(b, q)] <= clock
  BY <1>1, ShapedNumbers DEF Shaped
<1> QED BY <1>2, <1>3 DEF CostAt, HitAt, Costs

\* What retireExpiredHits finds to retire is what comes first.
LEMMA ExpiredPrefix ==
  ASSUME NEW b, Shaped(b, now), now \in Nat
  PROVE  \E m \in b.start..Len(b.hits) :
           LET expired == {i \in LiveAt(b) : \A j \in (b.start + 1)..i : b.hits[j] <= Horizon} IN
           /\ expired = (b.start + 1)..m /\ b.start + Cardinality(expired) = m
           /\ \A i \in (b.start + 1)..m : b.hits[i] <= Horizon
           /\ \A i \in (m + 1)..Len(b.hits) : b.hits[i] > Horizon
<1> DEFINE expired == {i \in LiveAt(b) : \A j \in (b.start + 1)..i : b.hits[j] <= Horizon}
           live == {i \in LiveAt(b) : b.hits[i] > Horizon}
           Cut(m) == /\ \A i \in (b.start + 1)..m : b.hits[i] <= Horizon
                     /\ \A i \in (m + 1)..Len(b.hits) : b.hits[i] > Horizon
<1>1. b.start \in Nat /\ b.start <= Len(b.hits) /\ Len(b.hits) \in Nat
  BY ShapedNumbers DEF Numbered
<1>2. Horizon \in Int
  BY LimitsAssumption DEF Horizon
<1>3. ASSUME NEW i \in LiveAt(b) PROVE i \in Nat /\ b.hits[i] \in Nat /\ i \in DOMAIN b.hits
  <2>1. i \in 1..Len(b.hits)
    BY <1>1 DEF LiveAt
  <2> QED BY <2>1, ShapedNumbers
<1>4. ASSUME NEW i \in LiveAt(b), NEW j \in LiveAt(b), i < j PROVE b.hits[i] <= b.hits[j]
  BY <1>3, <1>4 DEF Shaped
<1>5. \E m \in b.start..Len(b.hits) : Cut(m)
  <2>1. CASE live = {}
    <3>1. \A i \in LiveAt(b) : ~(b.hits[i] > Horizon)
      BY <2>1
    <3>2. \A i \in LiveAt(b) : b.hits[i] <= Horizon
      BY <1>2, <1>3, <3>1
    <3>3. Len(b.hits) \in b.start..Len(b.hits) /\ (Len(b.hits) + 1)..Len(b.hits) = {}
      BY <1>1
    <3>4. Cut(Len(b.hits))
      BY <3>2, <3>3 DEF LiveAt
    <3> HIDE DEF Cut
    <3> QED BY <3>3, <3>4
  <2>2. CASE live # {}
    <3>1. live \subseteq Nat
      BY <1>3
    <3>2. PICK f \in live : \A i \in live : f <= i
      BY <2>2, <3>1, NatLeast
    <3>3. f \in LiveAt(b) /\ b.hits[f] > Horizon /\ f \in Nat /\ b.start + 1 <= f /\ f <= Len(b.hits)
          /\ b.hits[f] \in Nat
      BY <1>1, <1>3 DEF LiveAt
    <3>4. ASSUME NEW i \in (b.start + 1)..(f - 1) PROVE b.hits[i] <= Horizon
      <4>1. i \in LiveAt(b) /\ ~(f <= i)
        BY <1>1, <3>3 DEF LiveAt
      <4> QED BY <1>2, <1>3, <3>2, <4>1
    <3>5. ASSUME NEW i \in f..Len(b.hits) PROVE b.hits[i] > Horizon
      <4>1. i \in LiveAt(b) /\ (i = f \/ f < i)
        BY <1>1, <3>3 DEF LiveAt
      <4>2. b.hits[f] <= b.hits[i] /\ b.hits[i] \in Nat
        BY <1>3, <1>4, <3>3, <4>1
      <4> QED BY <1>2, <3>3, <4>2
    <3>6. f - 1 \in b.start..Len(b.hits) /\ (f - 1) + 1 = f
      BY <1>1, <3>3
    <3>7. Cut(f - 1)
      BY <3>4, <3>5, <3>6
    <3> HIDE DEF Cut
    <3> QED BY <3>6, <3>7
  <2> QED BY <2>1, <2>2
<1>6. PICK m \in b.start..Len(b.hits) : Cut(m)
  BY <1>5
<1>7. m \in Nat /\ b.start <= m /\ m <= Len(b.hits)
  BY <1>1, <1>6
<1>8. expired = (b.start + 1)..m
  <2>1. ASSUME NEW i \in expired PROVE i \in (b.start + 1)..m
    <3>1. i \in LiveAt(b) /\ i \in (b.start + 1)..i
      BY <1>1, <1>3 DEF LiveAt
    <3>2. b.hits[i] <= Horizon
      BY <3>1
    <3>3. ~(i \in (m + 1)..Len(b.hits))
      BY <1>2, <1>3, <1>6, <3>1, <3>2
    <3> QED BY <1>1, <1>7, <3>1, <3>3 DEF LiveAt
  <2>2. ASSUME NEW i \in (b.start + 1)..m PROVE i \in expired
    <3>1. i \in LiveAt(b) /\ \A j \in (b.start + 1)..i : j \in (b.start + 1)..m
      BY <1>1, <1>7 DEF LiveAt
    <3> QED BY <1>6, <3>1
  <2> QED BY <2>1, <2>2
<1>9. b.start + Cardinality(expired) = m
  <2> DEFINE a == b.start + 1
  <2>1. a \in Int /\ m \in Int
    BY <1>1, <1>7
  <2> HIDE DEF a
  <2>2. Cardinality(a..m) = IF a > m THEN 0 ELSE m - a + 1
    BY <2>1, FS_Interval
  <2>3. expired = a..m
    BY <1>8 DEF a
  <2> HIDE DEF expired
  <2> QED BY <1>1, <1>7, <2>2, <2>3 DEF a
<1> QED BY <1>6, <1>8, <1>9

\* Retiring the first entries keeps the sum exact and everything else as it was.
LEMMA DropKeeps ==
  ASSUME NEW clock, NEW b, Kept(b, clock), NEW m \in b.start..Len(b.hits)
  PROVE  /\ Kept(Drop(b, m), clock) /\ Drop(b, m).born = b.born /\ Drop(b, m).start = m
         /\ Drop(b, m).hits = b.hits
         /\ End(Drop(b, m)) = End(b) /\ LiveHits(Drop(b, m)) <= LiveHits(b)
         /\ Seqs(Drop(b, m)) = (b.retired + m - b.start)..(End(b) - 1)
         /\ Seqs(Drop(b, m)) \subseteq Seqs(b)
         /\ \A q \in Int : HitAt(Drop(b, m), q) = HitAt(b, q) /\ CostAt(Drop(b, m), q) = CostAt(b, q)
<1> DEFINE d == Drop(b, m)
           dead == (b.start + 1)..m
           gone == b.retired..((b.retired + m - b.start) - 1)
           Sum(f, S) == SumFunctionOnSet(f, S)
           spent == b.recordSum - Sum(b.records, dead)
<1>1. Shaped(b, clock) /\ Numbered(b) /\ b \in Bucket
  BY ShapedNumbers DEF Kept
<1>2. /\ b.start \in Nat /\ b.retired \in Nat /\ Len(b.hits) \in Nat /\ b.start <= Len(b.hits)
      /\ m \in Nat /\ m <= Len(b.hits) /\ b.start <= m
  BY <1>1 DEF Numbered
<1>3. d = [b EXCEPT !.recordSum = spent, !.retired = b.retired + m - b.start, !.start = m]
  BY DEF Drop
<1> HIDE DEF d, Sum, spent, dead, gone
<1>4. /\ d.hits = b.hits /\ d.records = b.records /\ d.start = m /\ d.born = b.born
      /\ d.retired = b.retired + m - b.start /\ d.charged = b.charged /\ d.recordSum = spent
  BY <1>1, <1>3 DEF Bucket
<1>5. End(d) = End(b) /\ LiveHits(d) <= LiveHits(b) /\ End(b) \in Nat
  BY <1>2, <1>4 DEF End, LiveHits
<1>6. Seqs(d) = (b.retired + m - b.start)..(End(b) - 1) /\ Seqs(d) \subseteq Seqs(b)
  BY <1>2, <1>4, <1>5 DEF Seqs
<1>7. ASSUME NEW q \in Int PROVE HitAt(d, q) = HitAt(b, q) /\ CostAt(d, q) = CostAt(b, q)
  <2>1. At(d, q) = At(b, q)
    BY <1>2, <1>4 DEF At
  <2> QED BY <1>4, <2>1 DEF HitAt, CostAt
<1>8. Seqs(b) = gone \cup Seqs(d) /\ gone \cap Seqs(d) = {}
  <2>1. End(b) \in Nat /\ b.retired + m - b.start <= End(b) /\ b.retired <= b.retired + m - b.start
        /\ b.retired + m - b.start \in Nat
    BY <1>2, <1>5 DEF End, LiveHits
  <2> DEFINE k == b.retired + m - b.start
  <2>2. k \in Nat /\ k <= End(b) /\ b.retired <= k /\ End(b) \in Nat /\ b.retired \in Nat
    BY <1>2, <2>1
  <2>3. Seqs(d) = k..(End(b) - 1) /\ gone = b.retired..(k - 1) /\ Seqs(b) = b.retired..(End(b) - 1)
    BY <1>6 DEF gone, Seqs
  <2> HIDE DEF k
  <2> QED BY <2>2, <2>3
<1>9. spent = Sum(Costs(d), Seqs(d)) /\ spent \in Nat
  <2>1. \A q \in Seqs(b) : Costs(b)[q] \in Nat
    BY <1>1, SeqsTyped
  <2>2. IsFiniteSet(Seqs(b)) /\ IsFiniteSet(gone) /\ IsFiniteSet(Seqs(d))
    BY <1>1, <1>8, SeqsFinite, FS_Subset
  <2>3. Sum(Costs(b), Seqs(b)) = Sum(Costs(b), gone) + Sum(Costs(b), Seqs(d))
        /\ Sum(Costs(b), gone) \in Nat /\ Sum(Costs(b), Seqs(d)) \in Nat
    <3>1. \A q \in gone \cup Seqs(d) : Costs(b)[q] \in Nat
      BY <1>8, <2>1
    <3>2. /\ \A q \in gone : Costs(b)[q] \in Nat
          /\ \A q \in Seqs(d) : Costs(b)[q] \in Nat
      BY <3>1
    <3>3. Sum(Costs(b), gone) \in Nat /\ Sum(Costs(b), Seqs(d)) \in Nat
      BY <2>2, <3>2, SumByChoice DEF Sum
    <3>4. Sum(Costs(b), gone \cup Seqs(d)) = Sum(Costs(b), gone) + Sum(Costs(b), Seqs(d))
      BY <1>8, <2>2, <3>1, SumParts DEF Sum
    <3> QED BY <1>8, <3>3, <3>4
  <2>4. Sum(Costs(b), gone) = Sum(b.records, dead)
    <3> DEFINE place == [q \in gone |-> At(b, q)]
    <3>1. IsFiniteSet(dead)
      <4> DEFINE a == b.start + 1
      <4>1. a \in Int /\ m \in Int
        BY <1>2
      <4> HIDE DEF a
      <4>2. IsFiniteSet(a..m)
        BY <4>1, FS_Interval
      <4> QED BY <4>2 DEF a, dead
    <3>2. ASSUME NEW q \in gone
          PROVE  Costs(b)[q] \in Nat /\ place[q] \in dead /\ Costs(b)[q] = b.records[place[q]]
      <4>1. q \in Seqs(b)
        BY <1>8
      <4>2. At(b, q) \in dead
        BY <1>2 DEF gone, dead, At
      <4> QED BY <2>1, <4>1, <4>2 DEF Costs, CostAt
    <3>3. ASSUME NEW p \in gone, NEW q \in gone, place[p] = place[q] PROVE p = q
      BY <1>2, <3>3 DEF gone, At
    <3>4. ASSUME NEW i \in dead PROVE \E q \in gone : place[q] = i
      <4>1. i - 1 - b.start + b.retired \in gone /\ At(b, i - 1 - b.start + b.retired) = i
        BY <1>2 DEF gone, dead, At
      <4> QED BY <4>1
    <3> HIDE DEF place
    <3>5. Renames(place, Costs(b), gone, b.records, dead)
      BY <3>2, <3>3, <3>4 DEF Renames
    <3> QED BY <2>2, <3>1, <3>5, SumRenames DEF Sum
  <2>5. Sum(Costs(b), Seqs(d)) = Sum(Costs(d), Seqs(d))
    <3>1. ASSUME NEW q \in Seqs(d) PROVE Costs(b)[q] \in Nat /\ Costs(b)[q] = Costs(d)[q]
      BY <1>1, <1>6, <1>7, <2>1, Placed DEF Costs
    <3> QED BY <2>2, <3>1, SumAgrees DEF Sum
  <2>6. b.recordSum = Sum(Costs(b), Seqs(b))
    BY DEF Kept, Balanced, Sum
  <2>7. spent = b.recordSum - Sum(b.records, dead)
    BY DEF spent, Sum
  <2> QED BY <2>3, <2>4, <2>5, <2>6, <2>7
<1>10. d \in Bucket
  <2>1. b.retired + m - b.start \in Nat
    BY <1>2
  <2> QED BY <1>1, <1>2, <1>3, <1>9, <2>1 DEF Bucket
<1>11. Shaped(d, clock)
  <2>3. Len(d.hits) = Len(d.records) /\ d.start <= Len(d.hits) /\ d.born <= clock
    BY <1>1, <1>2, <1>4 DEF Shaped
  <2>4. /\ \A i, j \in DOMAIN d.hits : i < j => d.hits[i] <= d.hits[j]
        /\ \A i \in DOMAIN d.hits : d.hits[i] <= clock
    BY <1>1, <1>4 DEF Shaped
  <2> QED BY <1>10, <2>3, <2>4 DEF Shaped
<1>12. Balanced(d) /\ Bounded(d)
  <2>1. LiveAt(d) \subseteq LiveAt(b)
    BY <1>2, <1>4 DEF LiveAt
  <2>2. Bounded(b)
    BY DEF Kept
  <2> QED BY <1>4, <1>9, <2>1, <2>2 DEF Balanced, Bounded, Sum
<1> QED BY <1>4, <1>5, <1>6, <1>7, <1>11, <1>12 DEF d, Kept

\* Compaction moves every live entry and changes none.
LEMMA CompactKeeps ==
  ASSUME NEW clock, NEW b, Kept(b, clock)
  PROVE  /\ Sound(Compact(b), clock) /\ Compact(b).born = b.born
         /\ End(Compact(b)) = End(b) /\ LiveHits(Compact(b)) = LiveHits(b) /\ Seqs(Compact(b)) = Seqs(b)
         /\ \A q \in Seqs(b) : HitAt(Compact(b), q) = HitAt(b, q) /\ CostAt(Compact(b), q) = CostAt(b, q)
<1> DEFINE c == Compact(b)
           left == LiveHits(b)
           bound == Larger(0, b.charged - b.start)
<1>1. Shaped(b, clock) /\ Numbered(b) /\ b \in Bucket /\ b.hits \in Seq(Nat) /\ b.records \in Seq(Nat)
  BY ShapedNumbers DEF Kept
<1>2. /\ b.start \in Nat /\ b.retired \in Nat /\ Len(b.hits) \in Nat /\ b.start <= Len(b.hits)
      /\ Len(b.records) = Len(b.hits) /\ b.charged \in Nat
  BY <1>1 DEF Numbered
<1>3. c = [b EXCEPT !.hits = SubSeq(b.hits, b.start + 1, Len(b.hits)),
                    !.records = SubSeq(b.records, b.start + 1, Len(b.hits)),
                    !.start = 0, !.charged = bound]
  BY <1>2 DEF Compact
<1> HIDE DEF c
<1>4. bound \in Nat /\ (bound = 0 \/ bound = b.charged - b.start)
  BY <1>2 DEF Larger
<1> HIDE DEF bound
<1>5. left \in Nat /\ left = Len(b.hits) - b.start
  BY <1>2 DEF LiveHits
<1> HIDE DEF left
<1>6. /\ c.hits = SubSeq(b.hits, b.start + 1, Len(b.hits))
      /\ c.records = SubSeq(b.records, b.start + 1, Len(b.hits))
      /\ c.start = 0 /\ c.born = b.born /\ c.retired = b.retired /\ c.charged = bound
      /\ c.recordSum = b.recordSum
  BY <1>1, <1>3 DEF Bucket
<1>7. /\ c.hits \in Seq(Nat) /\ Len(c.hits) = left /\ \A i \in 1..left : c.hits[i] = b.hits[b.start + i]
      /\ c.records \in Seq(Nat) /\ Len(c.records) = left
      /\ \A i \in 1..left : c.records[i] = b.records[b.start + i]
  <2> DEFINE Fine(r) == LET t == SubSeq(r, b.start + 1, Len(b.hits)) IN
               t \in Seq(Nat) /\ Len(t) = left /\ \A i \in 1..left : t[i] = r[b.start + i]
  <2>1. ASSUME NEW r \in Seq(Nat), Len(r) = Len(b.hits) PROVE Fine(r)
    <3> DEFINE t == SubSeq(r, b.start + 1, Len(b.hits))
    <3>1. t \in Seq(Nat)
      BY <1>2, <2>1
    <3>2. Len(t) = left
      BY <1>2, <1>5, <2>1
    <3>3. ASSUME NEW i \in 1..left PROVE t[i] = r[b.start + i]
      <4> DEFINE from == b.start + 1
      <4>0. from \in Nat /\ from >= 1 /\ from - 1 = b.start /\ Len(b.hits) - from + 1 = left
        <5>1. \A s, n \in Nat : s + 1 \in Nat /\ s + 1 >= 1 /\ (s + 1) - 1 = s /\ n - (s + 1) + 1 = n - s
          OBVIOUS
        <5>2. b.start \in Nat /\ Len(b.hits) \in Nat /\ left = Len(b.hits) - b.start
          BY <1>2, <1>5
        <5> QED BY <5>1, <5>2
      <4> HIDE DEF from
      <4>1. i + from - 1 = b.start + i /\ i \in 1..(Len(b.hits) - from + 1)
        BY <1>2, <4>0
      <4>2. SubSeq(r, from, Len(b.hits))[i] = r[i + from - 1]
        BY <1>2, <2>1, <4>0, <4>1
      <4> QED BY <4>1, <4>2 DEF from
    <3> QED BY <3>1, <3>2, <3>3
  <2> HIDE DEF Fine
  <2>2. Fine(b.hits) /\ Fine(b.records)
    BY <1>1, <1>2, <2>1
  <2> QED BY <1>6, <2>2 DEF Fine
<1>8. DOMAIN c.hits = 1..left /\ DOMAIN c.records = 1..left
  BY <1>7
<1>9. End(c) = End(b) /\ LiveHits(c) = LiveHits(b) /\ Seqs(c) = Seqs(b) /\ LiveAt(c) = 1..left
  BY <1>2, <1>5, <1>6, <1>7 DEF End, LiveHits, Seqs, LiveAt
<1>10. ASSUME NEW q \in Seqs(b) PROVE HitAt(c, q) = HitAt(b, q) /\ CostAt(c, q) = CostAt(b, q)
  <2>1. At(c, q) \in 1..left /\ b.start + At(c, q) = At(b, q)
    <3>1. At(b, q) \in (b.start + 1)..Len(b.hits) /\ q \in Nat
      BY <1>1, Placed DEF LiveAt
    <3> DEFINE d == q - b.retired
    <3>2. d \in Int /\ b.start \in Int /\ Len(b.hits) \in Int
      BY <1>2, <3>1
    <3>3. At(c, q) = 0 + d + 1 /\ At(b, q) = b.start + d + 1
      BY <1>6 DEF At
    <3> HIDE DEF d
    <3>4. \A s, n, e \in Int : s + e + 1 \in (s + 1)..n =>
            0 + e + 1 \in 1..(n - s) /\ s + (0 + e + 1) = s + e + 1
      OBVIOUS
    <3>5. 0 + d + 1 \in 1..(Len(b.hits) - b.start) /\ b.start + (0 + d + 1) = b.start + d + 1
      BY <3>1, <3>2, <3>3, <3>4
    <3> QED BY <1>5, <3>3, <3>5
  <2> QED BY <1>7, <2>1 DEF HitAt, CostAt
<1>11. c \in Bucket
  <2>1. b.retired \in Nat /\ b.born \in Nat /\ b.recordSum \in Nat
    BY <1>1 DEF Numbered
  <2> QED BY <1>1, <1>3, <1>4, <1>6, <1>7, <2>1 DEF Bucket
<1>12. Shaped(c, clock)
  <2>2. ASSUME NEW i \in 1..left PROVE b.start + i \in DOMAIN b.hits /\ c.hits[i] = b.hits[b.start + i]
    <3>1. b.start + i \in 1..Len(b.hits)
      BY <1>2, <1>5
    <3> QED BY <1>1, <1>7, <3>1
  <2>3. ASSUME NEW i \in 1..left, NEW j \in 1..left, i < j PROVE b.start + i < b.start + j
    BY <1>2, <1>5, <2>3
  <2>4. \A i, j \in 1..left : i < j => c.hits[i] <= c.hits[j]
    BY <1>1, <2>2, <2>3 DEF Shaped
  <2>5. \A i \in 1..left : c.hits[i] <= clock
    BY <1>1, <2>2 DEF Shaped
  <2>6. Len(c.hits) = Len(c.records) /\ c.start <= Len(c.hits) /\ c.born <= clock
    BY <1>1, <1>5, <1>6, <1>7 DEF Shaped
  <2> QED BY <1>8, <1>11, <2>4, <2>5, <2>6 DEF Shaped
<1>13. Balanced(c)
  <2>1. IsFiniteSet(Seqs(b)) /\ \A q \in Seqs(b) : Costs(b)[q] \in Nat /\ Costs(b)[q] = Costs(c)[q]
    BY <1>1, <1>9, <1>10, SeqsFinite, SeqsTyped DEF Costs
  <2>2. SumFunctionOnSet(Costs(b), Seqs(b)) = SumFunctionOnSet(Costs(c), Seqs(b))
    BY <2>1, SumAgrees
  <2> QED BY <1>6, <1>9, <2>2 DEF Kept, Balanced
<1>14. Bounded(c)
  <2>1. ASSUME NEW i \in LiveAt(c), c.records[i] # 0 PROVE c.charged < i
    <3>1. i \in 1..left /\ b.start + i \in LiveAt(b) /\ i \in Nat /\ 0 < i
      <4>1. i \in 1..left
        BY <1>9
      <4> QED BY <1>2, <1>5, <4>1 DEF LiveAt
    <3>2. b.charged < b.start + i
      BY <1>7, <2>1, <3>1 DEF Kept, Bounded
    <3> QED BY <1>2, <1>4, <1>6, <3>1, <3>2
  <2> QED BY <2>1 DEF Bounded
<1> QED BY <1>6, <1>9, <1>10, <1>12, <1>13, <1>14 DEF c, Sound, Kept, Lean

\* Retirement takes out what has left the window, and only that.
LEMMA RetireKeeps ==
  ASSUME NEW b, Sound(b, now), now \in Nat
  PROVE  LET r == RetireExpiredHits(b) IN
         /\ Sound(r, now) /\ r.born = b.born /\ End(r) = End(b) /\ LiveHits(r) <= LiveHits(b)
         /\ \A q \in Seqs(r) : /\ q \in Seqs(b) /\ HitAt(b, q) > Horizon
                               /\ HitAt(r, q) = HitAt(b, q) /\ CostAt(r, q) = CostAt(b, q)
         /\ \A q \in Seqs(b) : HitAt(b, q) > Horizon => q \in Seqs(r)
<1> DEFINE r == RetireExpiredHits(b)
           expired == {i \in LiveAt(b) : \A j \in (b.start + 1)..i : b.hits[j] <= Horizon}
<1>1. Shaped(b, now) /\ Numbered(b) /\ Kept(b, now)
  BY ShapedNumbers DEF Sound, Kept
<1>2. PICK m \in b.start..Len(b.hits) :
           /\ expired = (b.start + 1)..m /\ b.start + Cardinality(expired) = m
           /\ \A i \in (b.start + 1)..m : b.hits[i] <= Horizon
           /\ \A i \in (m + 1)..Len(b.hits) : b.hits[i] > Horizon
  BY <1>1, ExpiredPrefix
<1>3. /\ b.start \in Nat /\ b.retired \in Nat /\ Len(b.hits) \in Nat /\ b.start <= Len(b.hits)
      /\ m \in Nat /\ b.start <= m /\ m <= Len(b.hits) /\ Horizon \in Int
  BY <1>1, LimitsAssumption DEF Numbered, Horizon
<1> DEFINE d == Drop(b, m)
<1>4. r = IF expired = {} THEN b ELSE IF d.start * 2 >= Len(b.hits) THEN Compact(d) ELSE d
  BY <1>2 DEF RetireExpiredHits
<1>5. /\ Kept(d, now) /\ d.born = b.born /\ d.start = m /\ d.hits = b.hits
      /\ End(d) = End(b) /\ LiveHits(d) <= LiveHits(b)
      /\ Seqs(d) = (b.retired + m - b.start)..(End(b) - 1) /\ Seqs(d) \subseteq Seqs(b)
      /\ \A q \in Int : HitAt(d, q) = HitAt(b, q) /\ CostAt(d, q) = CostAt(b, q)
  BY <1>1, DropKeeps
<1> HIDE DEF d, r, expired
<1>6. ASSUME NEW q \in Seqs(b)
      PROVE  /\ q \in Seqs(d) => HitAt(b, q) > Horizon
             /\ HitAt(b, q) > Horizon => q \in Seqs(d)
  <2>1. At(b, q) \in LiveAt(b) /\ q \in Nat /\ At(b, q) \in 1..Len(b.hits)
        /\ HitAt(b, q) \in Nat
    BY <1>1, Placed, SeqsTyped
  <2>2. q <= End(b) - 1 /\ End(b) \in Nat
    BY <1>1, NumbersAdd DEF Seqs, Numbered
  <2>3. q \in Seqs(d) <=> b.retired + m - b.start <= q
    BY <1>3, <1>5, <2>1, <2>2
  <2>4. b.retired + m - b.start <= q <=> m + 1 <= At(b, q)
    BY <1>3, <2>1 DEF At
  <2>5. m + 1 <= At(b, q) => HitAt(b, q) > Horizon
    BY <1>2, <1>3, <2>1 DEF HitAt
  <2>6. ~(m + 1 <= At(b, q)) => HitAt(b, q) <= Horizon
    BY <1>2, <1>3, <2>1 DEF HitAt, LiveAt
  <2> QED BY <1>3, <2>1, <2>3, <2>4, <2>5, <2>6
<1>7. CASE expired = {}
  <2>1. r = b /\ m = b.start
    <3>1. r = b
      BY <1>4, <1>7
    <3>2. ~(b.start + 1 \in (b.start + 1)..m)
      BY <1>2, <1>7
    <3> QED BY <1>3, <3>1, <3>2
  <2>2. Seqs(d) = Seqs(b)
    BY <1>3, <1>5, <2>1 DEF Seqs
  <2>3. LiveHits(b) <= LiveHits(b)
    BY <1>1, NumbersAdd
  <2> QED BY <1>6, <2>1, <2>2, <2>3 DEF r
<1>8. CASE expired # {} /\ d.start * 2 >= Len(b.hits)
  <2>1. r = Compact(d)
    BY <1>4, <1>8
  <2>2. /\ Sound(r, now) /\ r.born = d.born /\ End(r) = End(d)
        /\ LiveHits(r) = LiveHits(d) /\ Seqs(r) = Seqs(d)
        /\ \A q \in Seqs(d) : HitAt(r, q) = HitAt(d, q) /\ CostAt(r, q) = CostAt(d, q)
    BY <1>5, <2>1, CompactKeeps
  <2>3. \A q \in Seqs(d) : q \in Int
    BY <1>1, <1>5, Placed
  <2> QED BY <1>5, <1>6, <2>2, <2>3 DEF r
<1>9. CASE expired # {} /\ ~(d.start * 2 >= Len(b.hits))
  <2>1. r = d
    BY <1>4, <1>9
  <2>2. Lean(d)
    BY <1>3, <1>5, <1>9 DEF Lean
  <2>3. \A q \in Seqs(d) : q \in Int
    BY <1>1, <1>5, Placed
  <2> QED BY <1>5, <1>6, <2>1, <2>2, <2>3 DEF r, Sound
<1> QED BY <1>7, <1>8, <1>9

LEMMA NothingSound ==
  ASSUME NEW clock \in Nat
  PROVE  /\ Sound(NoBucket, clock) /\ Seqs(NoBucket) = {} /\ LiveHits(NoBucket) = 0
         /\ RetireExpiredHits(NoBucket) = NoBucket
<1> DEFINE b == NoBucket
<1>1. /\ b.hits = <<>> /\ b.records = <<>> /\ b.start = 0 /\ b.recordSum = 0 /\ b.charged = 0
      /\ b.retired = 0 /\ b.born = 0 /\ b \in Bucket
  BY DEF NoBucket, Bucket
<1> HIDE DEF b
<1>2. Seqs(b) = {} /\ LiveHits(b) = 0 /\ LiveAt(b) = {} /\ Lean(b)
  BY <1>1 DEF Seqs, End, LiveHits, LiveAt, Lean
<1>3. Shaped(b, clock)
  BY <1>1 DEF Shaped
<1>4. Balanced(b) /\ Bounded(b)
  BY <1>1, <1>2, SumEmpty DEF Balanced, Bounded
<1>5. RetireExpiredHits(b) = b
  <2> DEFINE expired == {i \in LiveAt(b) : \A j \in (b.start + 1)..i : b.hits[j] <= Horizon}
             dropped == Drop(b, b.start + Cardinality(expired))
  <2>1. expired = {}
    BY <1>2
  <2>2. RetireExpiredHits(b) = IF expired = {} THEN b
          ELSE IF dropped.start * 2 >= Len(b.hits) THEN Compact(dropped) ELSE dropped
    BY DEF RetireExpiredHits
  <2> HIDE DEF expired, dropped
  <2> QED BY <2>1, <2>2
<1> QED BY <1>2, <1>3, <1>4, <1>5 DEF b, Sound, Kept

\* So does a sweep, which forgets a bucket with nothing left.
LEMMA SweptSlides ==
  ASSUME NEW b, Sound(b, now), now \in Nat
  PROVE  /\ Sound(Swept(b), now) /\ Slid(b, Swept(b), Horizon)
         /\ \A q \in Seqs(Swept(b)) : HitAt(Swept(b), q) > Horizon
<1> DEFINE r == RetireExpiredHits(b)
           s == Swept(b)
<1>1. /\ Sound(r, now) /\ r.born = b.born /\ End(r) = End(b) /\ LiveHits(r) <= LiveHits(b)
      /\ \A q \in Seqs(r) : /\ q \in Seqs(b) /\ HitAt(b, q) > Horizon
                            /\ HitAt(r, q) = HitAt(b, q) /\ CostAt(r, q) = CostAt(b, q)
      /\ \A q \in Seqs(b) : HitAt(b, q) > Horizon => q \in Seqs(r)
  BY RetireKeeps
<1>2. s = IF LiveHits(r) = 0 THEN NoBucket ELSE r
  BY DEF Swept
<1>3. LiveHits(b) \in Nat /\ LiveHits(r) \in Nat /\ Numbered(r)
  BY <1>1, ShapedNumbers, NumbersAdd DEF Sound, Kept
<1> HIDE DEF r, s
<1>4. CASE LiveHits(r) = 0
  <2>1. s = NoBucket
    BY <1>2, <1>4
  <2>2. Seqs(r) = {}
    BY <1>3, <1>4 DEF Seqs, End, Numbered
  <2> QED BY <1>1, <1>3, <2>1, <2>2, NothingSound DEF s, Slid
<1>5. CASE LiveHits(r) # 0
  <2>1. s = r
    BY <1>2, <1>5
  <2>2. b # NoBucket
    BY <1>1, <1>3, <1>5, NothingSound
  <2> QED BY <1>1, <2>1, <2>2 DEF s, Slid
<1> QED BY <1>4, <1>5

LEMMA SlidStays ==
  ASSUME NEW b, NEW clock, Sound(b, clock), NEW horizon
  PROVE  Slid(b, b, horizon)
BY ShapedNumbers, NumbersAdd DEF Sound, Kept, Slid

LEMMA SlidSlides ==
  ASSUME NEW a, NEW b, NEW c, NEW clock, NEW horizon,
         Sound(a, clock), Sound(b, clock), Sound(c, clock),
         Slid(a, b, horizon), Slid(b, c, horizon)
  PROVE  Slid(a, c, horizon)
<1>1. LiveHits(a) \in Nat /\ LiveHits(b) \in Nat /\ LiveHits(c) \in Nat
  BY ShapedNumbers, NumbersAdd DEF Sound, Kept
<1>2. LiveHits(c) <= LiveHits(a)
  BY <1>1 DEF Slid
<1> QED BY <1>2 DEF Slid

----------------------------------------------------------------------------
(***************************************************************************)
(* One bucket: a request enters, a batch is charged, a scan moves the bound*)
(***************************************************************************)

\* A request gets the next sequence; nothing else changes.
LEMMA CommitEnters ==
  ASSUME NEW b, Sound(b, now), now \in Nat
  PROVE  LET c == CommitHit(b) IN
         /\ Sound(c, now) /\ c # NoBucket
         /\ c.born = IF b = NoBucket THEN now ELSE b.born
         /\ End(c) = End(b) + 1 /\ LiveHits(c) = LiveHits(b) + 1
         /\ Seqs(c) = Seqs(b) \cup {End(b)} /\ End(b) \notin Seqs(b)
         /\ HitAt(c, End(b)) = now /\ CostAt(c, End(b)) = 0
         /\ \A q \in Seqs(b) : HitAt(c, q) = HitAt(b, q) /\ CostAt(c, q) = CostAt(b, q)
         /\ Half(c) = [born |-> c.born, sequence |-> End(b)]
<1> DEFINE c == CommitHit(b)
           born == IF b = NoBucket THEN now ELSE b.born
<1>1. /\ Shaped(b, now) /\ Numbered(b) /\ b \in Bucket /\ b.hits \in Seq(Nat) /\ b.records \in Seq(Nat)
      /\ Balanced(b) /\ Bounded(b) /\ Lean(b)
  BY ShapedNumbers DEF Sound, Kept
<1>2. \/ b # NoBucket /\ c = [b EXCEPT !.hits = Append(b.hits, now), !.records = Append(b.records, 0)]
      \/ b = NoBucket /\ c = [OpenBucket EXCEPT !.hits = Append(b.hits, now), !.records = Append(b.records, 0)]
  <2>1. CASE b # NoBucket
    BY <1>1, <2>1 DEF CommitHit, Bucket
  <2>2. CASE b = NoBucket
    <3>1. OpenBucket.hits = b.hits /\ OpenBucket.records = b.records
      BY <2>2 DEF OpenBucket, NoBucket
    <3>2. OpenBucket \in Bucket
      BY <2>2, <1>1 DEF OpenBucket, Bucket
    <3> QED BY <2>2, <3>1, <3>2 DEF CommitHit, Bucket
  <2> QED BY <2>1, <2>2
<1>3. born \in Nat
  BY <1>1 DEF Numbered
<1> HIDE DEF c
<1>4. /\ c.hits = Append(b.hits, now) /\ c.records = Append(b.records, 0) /\ c.born = born
      /\ c.start = b.start /\ c.retired = b.retired /\ c.charged = b.charged /\ c.recordSum = b.recordSum
  <2>1. CASE b # NoBucket
    BY <1>1, <1>2, <2>1 DEF Bucket
  <2>2. CASE b = NoBucket
    <3>1. OpenBucket = [b EXCEPT !.born = now]
      BY <2>2 DEF OpenBucket
    <3> QED BY <1>1, <1>2, <2>2, <3>1 DEF Bucket
  <2> QED BY <2>1, <2>2
<1> HIDE DEF born
<1>5. /\ b.start \in Nat /\ b.retired \in Nat /\ Len(b.hits) \in Nat /\ b.start <= Len(b.hits)
      /\ Len(b.records) = Len(b.hits) /\ b.charged \in Nat /\ b.recordSum \in Nat
  BY <1>1 DEF Numbered
<1>6. /\ Len(c.hits) = Len(b.hits) + 1 /\ Len(c.records) = Len(b.hits) + 1
      /\ c.hits \in Seq(Nat) /\ c.records \in Seq(Nat)
      /\ \A i \in 1..Len(b.hits) : c.hits[i] = b.hits[i] /\ c.records[i] = b.records[i]
      /\ c.hits[Len(b.hits) + 1] = now /\ c.records[Len(b.hits) + 1] = 0
      /\ DOMAIN c.hits = 1..(Len(b.hits) + 1) /\ DOMAIN b.hits = 1..Len(b.hits)
  BY <1>1, <1>4, <1>5
<1>7. /\ LiveHits(c) = LiveHits(b) + 1 /\ End(c) = End(b) + 1 /\ End(b) \in Nat /\ LiveHits(b) \in Nat
      /\ b.retired <= End(b) /\ LiveHits(b) = Len(b.hits) - b.start
  <2>1. Len(c.hits) = Len(b.hits) + 1
    BY <1>6
  <2>3. /\ LiveHits(c) = (Len(b.hits) + 1) - b.start /\ LiveHits(b) = Len(b.hits) - b.start
        /\ End(c) = b.retired + LiveHits(c) /\ End(b) = b.retired + LiveHits(b)
    BY <1>4, <2>1 DEF LiveHits, End
  <2>4. b.start <= Len(b.hits) /\ Len(b.hits) \in Nat /\ b.start \in Nat /\ b.retired \in Nat
    BY <1>5
  <2>5. Len(b.hits) - b.start \in Nat
    BY <2>4
  <2>6. (Len(b.hits) + 1) - b.start = (Len(b.hits) - b.start) + 1
    BY <2>4
  <2>7. LiveHits(b) \in Nat /\ LiveHits(c) = LiveHits(b) + 1
    BY <2>3, <2>5, <2>6, Zenon
  <2>8. /\ b.retired + LiveHits(b) \in Nat /\ b.retired <= b.retired + LiveHits(b)
        /\ b.retired + (LiveHits(b) + 1) = (b.retired + LiveHits(b)) + 1
    BY <2>4, <2>7
  <2>9. End(b) \in Nat /\ b.retired <= End(b) /\ b.retired + (LiveHits(b) + 1) = End(b) + 1
    BY <2>3, <2>8, Zenon
  <2>10. End(c) = End(b) + 1
    BY <2>3, <2>7, <2>9, Zenon
  <2> QED BY <2>3, <2>7, <2>9, <2>10
<1>8. Seqs(c) = Seqs(b) \cup {End(b)} /\ End(b) \notin Seqs(b)
  <2>1. Seqs(c) = b.retired..(End(b) + 1 - 1) /\ Seqs(b) = b.retired..(End(b) - 1)
    BY <1>4, <1>7 DEF Seqs
  <2>2. b.retired \in Nat /\ End(b) \in Nat /\ b.retired <= End(b)
    BY <1>5, <1>7
  <2> QED BY <2>1, <2>2
<1>9. ASSUME NEW q \in Seqs(b) PROVE HitAt(c, q) = HitAt(b, q) /\ CostAt(c, q) = CostAt(b, q)
  <2>1. At(c, q) = At(b, q) /\ At(b, q) \in 1..Len(b.hits)
    BY <1>1, <1>4, Placed DEF At
  <2> QED BY <1>6, <2>1 DEF HitAt, CostAt
<1>10. HitAt(c, End(b)) = now /\ CostAt(c, End(b)) = 0
  <2>1. At(c, End(b)) = Len(b.hits) + 1
    <3>2. At(c, End(b)) = b.start + ((b.retired + LiveHits(b)) - b.retired) + 1
      BY <1>4 DEF At, End
    <3>3. b.start + ((b.retired + LiveHits(b)) - b.retired) + 1 = Len(b.hits) + 1
      <4>1. b.start \in Nat /\ Len(b.hits) \in Nat /\ b.retired \in Nat /\ LiveHits(b) \in Nat
            /\ LiveHits(b) = Len(b.hits) - b.start
        BY <1>5, <1>7
      <4> QED BY <4>1
    <3> QED BY <3>2, <3>3
  <2> QED BY <1>6, <2>1 DEF HitAt, CostAt
<1>11. c \in Bucket
  <2>0. NoBucket \in Bucket
    BY DEF NoBucket, Bucket
  <2>1. OpenBucket \in Bucket
    BY <2>0 DEF OpenBucket, Bucket
  <2> QED BY <1>1, <1>2, <1>4, <1>6, <2>1 DEF Bucket
<1>12. Shaped(c, now)
  <2>1. ASSUME NEW i \in 1..(Len(b.hits) + 1), NEW j \in 1..(Len(b.hits) + 1), i < j
        PROVE  c.hits[i] <= c.hits[j]
    <3>1. i \in 1..Len(b.hits) /\ (j = Len(b.hits) + 1 \/ j \in 1..Len(b.hits))
      BY <1>5, <2>1
    <3>2. CASE j = Len(b.hits) + 1
      BY <1>1, <1>6, <3>1, <3>2 DEF Shaped
    <3>3. CASE j \in 1..Len(b.hits)
      BY <1>1, <1>6, <2>1, <3>1, <3>3 DEF Shaped
    <3> QED BY <3>1, <3>2, <3>3
  <2>2. ASSUME NEW i \in 1..(Len(b.hits) + 1) PROVE c.hits[i] <= now
    <3>1. i = Len(b.hits) + 1 \/ i \in 1..Len(b.hits)
      BY <1>5
    <3>2. CASE i = Len(b.hits) + 1
      BY <1>6, <3>2
    <3>3. CASE i \in 1..Len(b.hits)
      BY <1>1, <1>6, <3>3 DEF Shaped
    <3> QED BY <3>1, <3>2, <3>3
  <2>3. c.start <= Len(c.hits) /\ c.born <= now
    BY <1>1, <1>4, <1>5, <1>6 DEF Shaped, born
  <2> QED BY <1>6, <1>11, <2>1, <2>2, <2>3 DEF Shaped
<1>13. Balanced(c)
  <2>1. IsFiniteSet(Seqs(b)) /\ \A q \in Seqs(b) : Costs(b)[q] \in Nat /\ Costs(b)[q] = Costs(c)[q]
    BY <1>1, <1>8, <1>9, SeqsFinite, SeqsTyped DEF Costs
  <2>2. Costs(c)[End(b)] = 0
    BY <1>8, <1>10 DEF Costs
  <2>3. SumFunctionOnSet(Costs(c), Seqs(b) \cup {End(b)})
          = Costs(c)[End(b)] + SumFunctionOnSet(Costs(c), Seqs(b))
    <3>1. \A q \in Seqs(b) \cup {End(b)} : Costs(c)[q] \in Nat
      BY <2>1, <2>2
    <3> QED BY <1>8, <2>1, <3>1, SumMore
  <2>4. SumFunctionOnSet(Costs(b), Seqs(b)) = SumFunctionOnSet(Costs(c), Seqs(b))
    BY <2>1, SumAgrees
  <2>5. b.recordSum = SumFunctionOnSet(Costs(b), Seqs(b))
    BY <1>1 DEF Balanced
  <2> QED BY <1>4, <1>5, <1>8, <2>2, <2>3, <2>4, <2>5 DEF Balanced
<1>14. Bounded(c)
  <2>1. ASSUME NEW i \in LiveAt(c), c.records[i] # 0 PROVE c.charged < i
    <3>1. i \in LiveAt(b) \/ i = Len(b.hits) + 1
      BY <1>4, <1>5, <1>6 DEF LiveAt
    <3>2. i \in LiveAt(b) /\ i \in 1..Len(b.hits)
      BY <1>5, <1>6, <2>1, <3>1 DEF LiveAt
    <3> QED BY <1>1, <1>4, <1>6, <2>1, <3>2 DEF Bounded
  <2> QED BY <2>1 DEF Bounded
<1>15. Lean(c)
  BY <1>1, <1>4, <1>5, <1>6 DEF Lean
<1>16. c # NoBucket
  BY <1>5, <1>6 DEF NoBucket
<1>17. Half(c) = [born |-> c.born, sequence |-> End(b)]
  BY <1>4, <1>5, <1>7 DEF Half, End
<1> QED BY <1>4, <1>7, <1>8, <1>9, <1>10, <1>12, <1>13, <1>14, <1>15, <1>16, <1>17
        DEF c, born, Sound, Kept

\* c is b with n more charged to the entry of sequence q.
Costlier(b, c, q, n) ==
  /\ c.born = b.born /\ End(c) = End(b) /\ LiveHits(c) = LiveHits(b) /\ Seqs(c) = Seqs(b)
  /\ c.recordSum = b.recordSum + n
  /\ \A p \in Seqs(b) : /\ HitAt(c, p) = HitAt(b, p)
                        /\ CostAt(c, p) = IF p = q THEN CostAt(b, p) + n ELSE CostAt(b, p)

LEMMA AddCharges ==
  ASSUME NEW clock, NEW b, Sound(b, clock), NEW q \in Seqs(b), NEW n \in Nat
  PROVE  Sound(Add(b, At(b, q), n), clock) /\ Costlier(b, Add(b, At(b, q), n), q, n)
<1> DEFINE i == At(b, q)
           bound == IF n > 0 /\ i - 1 < b.charged THEN i - 1 ELSE b.charged
           c == Add(b, i, n)
<1>1. /\ Shaped(b, clock) /\ Numbered(b) /\ b \in Bucket /\ b.hits \in Seq(Nat) /\ b.records \in Seq(Nat)
      /\ Balanced(b) /\ Bounded(b) /\ Lean(b)
      /\ DOMAIN b.hits = 1..Len(b.hits) /\ DOMAIN b.records = 1..Len(b.hits)
  BY ShapedNumbers DEF Sound, Kept
<1>2. i \in LiveAt(b) /\ i \in 1..Len(b.hits)
  BY <1>1, Placed
<1>3. /\ b.start \in Nat /\ b.retired \in Nat /\ Len(b.hits) \in Nat /\ b.start <= Len(b.hits)
      /\ Len(b.records) = Len(b.hits) /\ b.charged \in Nat /\ b.recordSum \in Nat
  BY <1>1 DEF Numbered
<1>4. c = [b EXCEPT !.records = [b.records EXCEPT ![i] = b.records[i] + n],
                    !.recordSum = b.recordSum + n, !.charged = bound]
  BY <1>1 DEF Add, Bucket
<1> HIDE DEF i
<1>5. bound \in Nat /\ bound <= b.charged /\ (n > 0 => bound < i) /\ (n = 0 => bound = b.charged)
  <2>1. i \in Nat /\ 1 <= i /\ b.charged \in Nat
    BY <1>2, <1>3
  <2> QED BY <2>1
<1> HIDE DEF c, bound
<1>6. /\ c.records = [b.records EXCEPT ![i] = b.records[i] + n]
      /\ c.recordSum = b.recordSum + n /\ c.charged = bound
      /\ c.hits = b.hits /\ c.start = b.start /\ c.retired = b.retired /\ c.born = b.born
  BY <1>1, <1>4 DEF Bucket
<1>7. /\ c.records \in Seq(Nat) /\ Len(c.records) = Len(b.hits)
      /\ \A j \in 1..Len(b.hits) : c.records[j] = IF j = i THEN b.records[j] + n ELSE b.records[j]
  <2>1. b.records[i] + n \in Nat
    BY <1>1, <1>2
  <2>2. c.records \in Seq(Nat)
    BY <1>1, <1>2, <1>6, <2>1
  <2>3. DOMAIN c.records = 1..Len(b.hits) /\ Len(c.records) \in Nat /\ DOMAIN c.records = 1..Len(c.records)
    BY <1>1, <1>6, <2>2
  <2>4. Len(c.records) = Len(b.hits)
    BY <1>1, <1>3, <1>6
  <2>5. ASSUME NEW j \in 1..Len(b.hits)
        PROVE  c.records[j] = IF j = i THEN b.records[j] + n ELSE b.records[j]
    BY <1>1, <1>6
  <2> QED BY <2>2, <2>4, <2>5
<1>8. End(c) = End(b) /\ LiveHits(c) = LiveHits(b) /\ Seqs(c) = Seqs(b) /\ LiveAt(c) = LiveAt(b)
  BY <1>6 DEF End, LiveHits, Seqs, LiveAt
<1>9. ASSUME NEW p \in Seqs(b)
      PROVE  /\ HitAt(c, p) = HitAt(b, p)
             /\ CostAt(c, p) = IF p = q THEN CostAt(b, p) + n ELSE CostAt(b, p)
  <2>1. At(c, p) = At(b, p) /\ At(b, p) \in 1..Len(b.hits) /\ (At(b, p) = i <=> p = q)
    <3>1. At(b, p) \in 1..Len(b.hits) /\ p \in Nat /\ q \in Nat
      BY <1>1, Placed
    <3> QED BY <1>3, <1>6, <3>1 DEF At, i
  <2> QED BY <1>6, <1>7, <2>1 DEF HitAt, CostAt
<1>10. Costlier(b, c, q, n)
  BY <1>6, <1>8, <1>9 DEF Costlier
<1>11. Shaped(c, clock)
  <2>1. c \in Bucket
    <3>1. b.recordSum + n \in Nat
      BY <1>3
    <3>2. c = [b EXCEPT !.records = c.records, !.recordSum = b.recordSum + n, !.charged = bound]
      BY <1>4, <1>6
    <3> QED BY <1>1, <1>5, <1>7, <3>1, <3>2 DEF Bucket
  <2> QED BY <1>1, <1>3, <1>6, <1>7, <2>1 DEF Shaped
<1>12. Balanced(c)
  <2> DEFINE rest == Seqs(b) \ {q}
  <2>1. IsFiniteSet(Seqs(b)) /\ IsFiniteSet(rest) /\ \A p \in Seqs(b) : Costs(b)[p] \in Nat
    BY <1>1, SeqsFinite, SeqsTyped, FS_Subset
  <2>2. \A p \in Seqs(b) : Costs(c)[p] = IF p = q THEN Costs(b)[p] + n ELSE Costs(b)[p]
    BY <1>8, <1>9 DEF Costs
  <2>3. SumFunctionOnSet(Costs(b), Seqs(b)) = Costs(b)[q] + SumFunctionOnSet(Costs(b), rest)
        /\ SumFunctionOnSet(Costs(b), rest) \in Nat
    BY <2>1, SumOne
  <2>4. SumFunctionOnSet(Costs(c), Seqs(b)) = Costs(c)[q] + SumFunctionOnSet(Costs(c), rest)
    <3>1. \A p \in Seqs(b) : Costs(c)[p] \in Nat
      BY <2>1, <2>2
    <3> QED BY <2>1, <3>1, SumOne
  <2>5. SumFunctionOnSet(Costs(b), rest) = SumFunctionOnSet(Costs(c), rest)
    <3>1. \A p \in rest : Costs(b)[p] \in Nat /\ Costs(b)[p] = Costs(c)[p]
      BY <2>1, <2>2
    <3> QED BY <2>1, <3>1, SumAgrees
  <2>6. b.recordSum = SumFunctionOnSet(Costs(b), Seqs(b)) /\ Costs(b)[q] \in Nat /\ Costs(c)[q] = Costs(b)[q] + n
    BY <1>1, <2>1, <2>2 DEF Balanced
  <2> HIDE DEF rest
  <2>7. c.recordSum = SumFunctionOnSet(Costs(c), Seqs(b))
    BY <1>6, <2>3, <2>4, <2>5, <2>6
  <2> QED BY <1>8, <2>7 DEF Balanced
<1>13. Bounded(c)
  <2>1. ASSUME NEW j \in LiveAt(b), c.records[j] # 0 PROVE bound < j
    <3>1. j \in 1..Len(b.hits)
      BY <1>3 DEF LiveAt
    <3>2. CASE b.records[j] # 0
      <4>1. b.charged < j /\ b.charged \in Nat /\ j \in Nat
        BY <1>1, <1>3, <3>1, <3>2 DEF Bounded
      <4> QED BY <1>5, <4>1
    <3>3. CASE b.records[j] = 0
      BY <1>2, <1>5, <1>7, <2>1, <3>1, <3>3
    <3> QED BY <3>2, <3>3
  <2> QED BY <1>6, <1>8, <2>1 DEF Bounded
<1>14. Lean(c)
  BY <1>1, <1>6 DEF Lean
<1> QED BY <1>10, <1>11, <1>12, <1>13, <1>14 DEF c, i, Sound, Kept

\* The bound the scan leaves lies before every charge, and right before one if there is one.
LEMMA ScanBounds ==
  ASSUME NEW clock, NEW b, Sound(b, clock)
  PROVE  /\ Uncharged(b) \in Nat /\ Uncharged(b) <= Len(b.hits)
         /\ \A i \in LiveAt(b) : b.records[i] # 0 => Uncharged(b) < i
         /\ \A i \in LiveAt(b) : b.records[i] # 0 =>
              Uncharged(b) + 1 \in LiveAt(b) /\ b.records[Uncharged(b) + 1] # 0
<1> DEFINE from == Larger(b.start, b.charged)
           found == {i \in (from + 1)..Len(b.records) : b.records[i] # 0}
           first == CHOOSE i \in found : \A j \in found : i <= j
<1>1. Shaped(b, clock) /\ Numbered(b) /\ Bounded(b)
  BY ShapedNumbers DEF Sound, Kept
<1>2. /\ b.start \in Nat /\ Len(b.hits) \in Nat /\ b.start <= Len(b.hits)
      /\ Len(b.records) = Len(b.hits) /\ b.charged \in Nat
  BY <1>1 DEF Numbered
<1>3. from \in Nat /\ b.start <= from /\ b.charged <= from /\ (from = b.start \/ from = b.charged)
  BY <1>2 DEF Larger
<1>4. Uncharged(b) = IF found = {} THEN Len(b.records) ELSE first - 1
  BY DEF Uncharged
<1> HIDE DEF from, first
<1>5. ASSUME NEW i \in LiveAt(b), b.records[i] # 0 PROVE i \in found
  <2>1. i \in Nat /\ b.start < i /\ i <= Len(b.hits) /\ b.charged < i
    BY <1>1, <1>2, <1>5 DEF LiveAt, Bounded
  <2>2. from < i
    BY <1>3, <2>1
  <2>3. i \in (from + 1)..Len(b.records)
    BY <1>2, <1>3, <2>1, <2>2
  <2> QED BY <1>5, <2>3
<1>6. CASE found = {}
  <2>1. Uncharged(b) = Len(b.hits)
    BY <1>2, <1>4, <1>6
  <2> HIDE DEF found
  <2> QED BY <1>2, <1>5, <1>6, <2>1
<1>7. CASE found # {}
  <2>1. found \subseteq Nat
    BY <1>2, <1>3
  <2>2. \E i \in found : \A j \in found : i <= j
    BY <1>7, <2>1, NatLeast
  <2>3. first \in found /\ \A j \in found : first <= j
    BY <2>2 DEF first
  <2>4. first \in Nat /\ from + 1 <= first /\ first <= Len(b.hits) /\ b.records[first] # 0
    BY <1>2, <1>3, <2>3
  <2> HIDE DEF found
  <2>5. Uncharged(b) = first - 1
    BY <1>4, <1>7
  <2>6. Uncharged(b) \in Nat /\ Uncharged(b) <= Len(b.hits) /\ Uncharged(b) + 1 = first
    BY <1>2, <1>3, <2>4, <2>5
  <2>7. first \in LiveAt(b)
    BY <1>2, <1>3, <2>4 DEF LiveAt
  <2>8. ASSUME NEW i \in LiveAt(b), b.records[i] # 0 PROVE Uncharged(b) < i
    <3>1. i \in Nat
      BY <1>2 DEF LiveAt
    <3>2. first <= i
      BY <1>5, <2>3, <2>8
    <3> QED BY <2>4, <2>6, <3>1, <3>2
  <2> QED BY <2>4, <2>6, <2>7, <2>8
<1> QED BY <1>6, <1>7

\* The scan moves the bound and nothing else.
LEMMA ScanKeeps ==
  ASSUME NEW clock, NEW b, Sound(b, clock)
  PROVE  LET c == [b EXCEPT !.charged = Uncharged(b)] IN
         /\ Sound(c, clock) /\ c.born = b.born /\ c.recordSum = b.recordSum
         /\ End(c) = End(b) /\ LiveHits(c) = LiveHits(b) /\ Seqs(c) = Seqs(b)
         /\ \A q : HitAt(c, q) = HitAt(b, q) /\ CostAt(c, q) = CostAt(b, q)
<1> DEFINE c == [b EXCEPT !.charged = Uncharged(b)]
<1>1. Shaped(b, clock) /\ b \in Bucket /\ Lean(b) /\ Balanced(b)
  BY ShapedNumbers DEF Sound, Kept
<1>2. Uncharged(b) \in Nat /\ \A i \in LiveAt(b) : b.records[i] # 0 => Uncharged(b) < i
  BY ScanBounds
<1>3. /\ c.hits = b.hits /\ c.records = b.records /\ c.start = b.start /\ c.recordSum = b.recordSum
      /\ c.retired = b.retired /\ c.born = b.born /\ c.charged = Uncharged(b) /\ c \in Bucket
  BY <1>1, <1>2 DEF Bucket
<1> HIDE DEF c
<1>4. /\ End(c) = End(b) /\ LiveHits(c) = LiveHits(b) /\ Seqs(c) = Seqs(b) /\ LiveAt(c) = LiveAt(b)
  BY <1>3 DEF End, LiveHits, Seqs, LiveAt
<1>5. ASSUME NEW q PROVE HitAt(c, q) = HitAt(b, q) /\ CostAt(c, q) = CostAt(b, q)
  BY <1>3 DEF HitAt, CostAt, At
<1>6. Costs(c) = Costs(b)
  BY <1>4, <1>5 DEF Costs
<1>7. Shaped(c, clock)
  BY <1>1, <1>3 DEF Shaped
<1>8. Balanced(c) /\ Bounded(c) /\ Lean(c)
  BY <1>1, <1>2, <1>3, <1>4, <1>6 DEF Balanced, Bounded, Lean
<1> QED BY <1>3, <1>4, <1>5, <1>7, <1>8 DEF c, Sound, Kept

\* A sum that is not zero comes from an entry that carries a charge, and the one the
\* answer dates is among those.
LEMMA OldestCarries ==
  ASSUME NEW clock, NEW b, Sound(b, clock), b.recordSum # 0
  PROVE  \E q \in Seqs(b) : CostAt(b, q) # 0 /\ OldestCharged(b) = HitAt(b, q)
<1>1. Shaped(b, clock) /\ Numbered(b) /\ Balanced(b)
  BY ShapedNumbers DEF Sound, Kept
<1>2. PICK p \in Seqs(b) : CostAt(b, p) # 0
  <2>1. SUFFICES ASSUME \A p \in Seqs(b) : CostAt(b, p) = 0 PROVE FALSE
    OBVIOUS
  <2>2. \A p \in Seqs(b) : Costs(b)[p] = 0
    BY <2>1 DEF Costs
  <2>3. SumFunctionOnSet(Costs(b), Seqs(b)) = 0
    BY <1>1, <2>2, SeqsFinite, SumZero
  <2> QED BY <1>1, <2>3 DEF Balanced
<1>3. At(b, p) \in LiveAt(b) /\ b.records[At(b, p)] # 0
  BY <1>1, <1>2, Placed DEF CostAt
<1> DEFINE i == Uncharged(b) + 1
           q == i - 1 - b.start + b.retired
<1>4. /\ i \in LiveAt(b) /\ b.records[i] # 0 /\ Uncharged(b) \in Nat
  BY <1>3, ScanBounds
<1>5. Uncharged(b) < Len(b.records)
  BY <1>1, <1>4 DEF LiveAt, Numbered
<1>6. OldestCharged(b) = b.hits[i]
  BY <1>5 DEF OldestCharged
<1> HIDE DEF i
<1>7. q \in Seqs(b) /\ At(b, q) = i
  BY <1>1, <1>4, Placed
<1> HIDE DEF q
<1> QED BY <1>4, <1>6, <1>7 DEF HitAt, CostAt

\* A charge goes to the ticket's own entry while that is live.
LEMMA TargetIs ==
  ASSUME NEW b, Numbered(b), NEW half, half.sequence \in Nat
  PROVE  /\ LiveHits(b) = 0 => Target(b, half) = 0
         /\ LiveHits(b) > 0 => \E q \in Seqs(b) :
              /\ Target(b, half) = At(b, q) /\ Target(b, half) # 0
              /\ half.sequence \in Seqs(b) => q = half.sequence
<1> DEFINE index == half.sequence - b.retired
<1>1. /\ b.start \in Nat /\ b.retired \in Nat /\ Len(b.hits) \in Nat /\ b.start <= Len(b.hits)
  BY DEF Numbered
<1>2. LiveHits(b) \in Nat /\ End(b) = b.retired + LiveHits(b) /\ LiveHits(b) = Len(b.hits) - b.start
  BY NumbersAdd DEF End
<1>3. Target(b, half) = IF index >= 0 /\ index < LiveHits(b) THEN b.start + index + 1
                        ELSE IF LiveHits(b) > 0 THEN Len(b.hits) ELSE 0
  BY DEF Target
<1>4. index \in Int /\ (index >= 0 /\ index < LiveHits(b) <=> half.sequence \in Seqs(b))
  <2>1. index \in Int
    BY <1>1
  <2>2. half.sequence \in Seqs(b) <=> b.retired <= half.sequence /\ half.sequence < b.retired + LiveHits(b)
    BY <1>1, <1>2 DEF Seqs
  <2>3. index >= 0 /\ index < LiveHits(b)
          <=> b.retired <= half.sequence /\ half.sequence < b.retired + LiveHits(b)
    BY <1>1, <1>2
  <2> QED BY <2>1, <2>2, <2>3
<1>5. LiveHits(b) = 0 => Target(b, half) = 0
  <2> HIDE DEF index
  <2> QED BY <1>3, <1>4
<1>6. CASE half.sequence \in Seqs(b)
  <2>1. At(b, half.sequence) = b.start + index + 1
    BY DEF At
  <2>2. At(b, half.sequence) \in LiveAt(b)
    BY <1>6, Placed
  <2>3. At(b, half.sequence) # 0
    BY <1>1, <2>2 DEF LiveAt
  <2> HIDE DEF index
  <2>4. Target(b, half) = At(b, half.sequence)
    BY <1>3, <1>4, <1>6, <2>1
  <2> QED BY <1>5, <1>6, <2>3, <2>4
<1>7. CASE half.sequence \notin Seqs(b) /\ LiveHits(b) > 0
  <2> DEFINE q == Len(b.hits) - 1 - b.start + b.retired
  <2>1. Len(b.hits) \in LiveAt(b)
    BY <1>1, <1>2, <1>7 DEF LiveAt
  <2>2. q \in Seqs(b) /\ At(b, q) = Len(b.hits)
    BY <2>1, Placed
  <2>3. Len(b.hits) # 0
    BY <1>1, <2>1 DEF LiveAt
  <2> HIDE DEF q, index
  <2>4. Target(b, half) = Len(b.hits)
    BY <1>3, <1>4, <1>7
  <2> QED BY <1>5, <1>7, <2>2, <2>3, <2>4
<1> QED BY <1>2, <1>5, <1>6, <1>7

----------------------------------------------------------------------------
(***************************************************************************)
(* What a ticket or a ledger can tell of a bucket: its entries that are    *)
(* still in the window.                                                    *)
(***************************************************************************)
Live(b, horizon) == {q \in Seqs(b) : HitAt(b, q) > horizon}

\* The same entries, at the same cost.
Alike(b, c, horizon) ==
  /\ Live(c, horizon) = Live(b, horizon)
  /\ \A q \in Live(b, horizon) : HitAt(c, q) = HitAt(b, q) /\ CostAt(c, q) = CostAt(b, q)

\* At least these entries, at no smaller cost, in the same bucket, or in one that was
\* opened after everything in b had left the window.
Grown(b, c, horizon) ==
  /\ \A q \in Live(b, horizon) : /\ q \in Live(c, horizon) /\ HitAt(c, q) = HitAt(b, q)
                                 /\ CostAt(b, q) <= CostAt(c, q) /\ c.born = b.born
  /\ c # NoBucket => c.born > horizon \/ (b # NoBucket /\ c.born = b.born /\ End(b) <= End(c))

LEMMA SlidGrows ==
  ASSUME NEW b, NEW s, NEW clock, NEW horizon, Sound(b, clock), Sound(s, clock), Slid(b, s, horizon)
  PROVE  Grown(b, s, horizon) /\ Alike(b, s, horizon)
<1>1. Seqs(NoBucket) = {}
  BY DEF Seqs, NoBucket, End, LiveHits
<1>2. \A q \in Seqs(b) : CostAt(b, q) \in Nat
  BY SeqsTyped DEF Sound, Kept
<1>3. End(b) \in Nat
  BY ShapedNumbers, NumbersAdd DEF Sound, Kept
<1>4. ASSUME NEW q \in Live(b, horizon)
      PROVE  q \in Live(s, horizon) /\ HitAt(s, q) = HitAt(b, q) /\ CostAt(s, q) = CostAt(b, q)
             /\ s.born = b.born
  <2>1. q \in Seqs(s) /\ q \in Seqs(b)
    BY DEF Live, Slid
  <2> QED BY <1>1, <2>1 DEF Live, Slid
<1>5. ASSUME NEW q \in Live(s, horizon) PROVE q \in Live(b, horizon)
  BY DEF Live, Slid
<1>6. Live(s, horizon) = Live(b, horizon)
  BY <1>4, <1>5
<1>7. Alike(b, s, horizon)
  BY <1>4, <1>6 DEF Alike
<1>8. ASSUME NEW q \in Live(b, horizon) PROVE CostAt(b, q) <= CostAt(s, q)
  BY <1>2, <1>4 DEF Live
<1>9. s # NoBucket => b # NoBucket /\ s.born = b.born /\ End(b) <= End(s)
  BY <1>3 DEF Slid
<1> QED BY <1>4, <1>7, <1>8, <1>9 DEF Grown

LEMMA RetireGrows ==
  ASSUME NEW b, Sound(b, now), now \in Nat, b # NoBucket
  PROVE  LET r == RetireExpiredHits(b) IN
         Grown(b, r, Horizon) /\ Alike(b, r, Horizon) /\ Live(r, Horizon) = Seqs(r)
<1> DEFINE r == RetireExpiredHits(b)
<1>1. /\ Sound(r, now) /\ r.born = b.born /\ End(r) = End(b)
      /\ \A q \in Seqs(r) : /\ q \in Seqs(b) /\ HitAt(b, q) > Horizon
                            /\ HitAt(r, q) = HitAt(b, q) /\ CostAt(r, q) = CostAt(b, q)
      /\ \A q \in Seqs(b) : HitAt(b, q) > Horizon => q \in Seqs(r)
  BY RetireKeeps
<1> HIDE DEF r
<1>2. Live(r, Horizon) = Seqs(r) /\ Live(b, Horizon) = Seqs(r)
  BY <1>1 DEF Live
<1>3. \A q \in Seqs(b) : CostAt(b, q) \in Nat
  BY SeqsTyped DEF Sound, Kept
<1>4. End(b) \in Nat
  BY ShapedNumbers, NumbersAdd DEF Sound, Kept
<1>5. Alike(b, r, Horizon)
  BY <1>1, <1>2 DEF Alike
<1>6. Grown(b, r, Horizon)
  BY <1>1, <1>2, <1>3, <1>4 DEF Grown
<1> QED BY <1>2, <1>5, <1>6 DEF r

LEMMA GrownGrows ==
  ASSUME NEW a, NEW b, NEW c, NEW clock, NEW horizon,
         Sound(a, clock), Sound(b, clock), Sound(c, clock),
         Grown(a, b, horizon), Grown(b, c, horizon)
  PROVE  Grown(a, c, horizon)
<1>1. /\ \A q \in Seqs(a) : CostAt(a, q) \in Nat
      /\ \A q \in Seqs(b) : CostAt(b, q) \in Nat
      /\ \A q \in Seqs(c) : CostAt(c, q) \in Nat
  BY SeqsTyped DEF Sound, Kept
<1>2. End(a) \in Nat /\ End(b) \in Nat /\ End(c) \in Nat
  BY ShapedNumbers, NumbersAdd DEF Sound, Kept
<1>3. ASSUME NEW q \in Live(a, horizon)
      PROVE  /\ q \in Live(c, horizon) /\ HitAt(c, q) = HitAt(a, q)
             /\ CostAt(a, q) <= CostAt(c, q) /\ c.born = a.born
  <2>1. /\ q \in Live(b, horizon) /\ HitAt(b, q) = HitAt(a, q)
        /\ CostAt(a, q) <= CostAt(b, q) /\ b.born = a.born
    BY DEF Grown
  <2>2. /\ q \in Live(c, horizon) /\ HitAt(c, q) = HitAt(b, q)
        /\ CostAt(b, q) <= CostAt(c, q) /\ c.born = b.born
    BY <2>1 DEF Grown
  <2>3. CostAt(a, q) \in Nat /\ CostAt(b, q) \in Nat /\ CostAt(c, q) \in Nat
    BY <1>1, <2>1, <2>2 DEF Live
  <2> QED BY <2>1, <2>2, <2>3
<1>4. ASSUME c # NoBucket
      PROVE  c.born > horizon \/ (a # NoBucket /\ c.born = a.born /\ End(a) <= End(c))
  <2>1. c.born > horizon \/ (b # NoBucket /\ c.born = b.born /\ End(b) <= End(c))
    BY <1>4 DEF Grown
  <2>2. b # NoBucket => b.born > horizon \/ (a # NoBucket /\ b.born = a.born /\ End(a) <= End(b))
    BY DEF Grown
  <2> QED BY <1>2, <2>1, <2>2
<1> QED BY <1>3, <1>4 DEF Grown

LEMMA AlikeAlike ==
  ASSUME NEW a, NEW b, NEW c, NEW horizon, Alike(a, b, horizon), Alike(b, c, horizon)
  PROVE  Alike(a, c, horizon)
BY DEF Alike

LEMMA CommitGrows ==
  ASSUME NEW b, Sound(b, now), now \in Nat
  PROVE  LET c == CommitHit(b) IN
         /\ Grown(b, c, Horizon)
         /\ Live(c, Horizon) = Live(b, Horizon) \cup {End(b)} /\ End(b) \notin Live(b, Horizon)
<1> DEFINE c == CommitHit(b)
<1>1. /\ Sound(c, now) /\ c.born = (IF b = NoBucket THEN now ELSE b.born) /\ End(c) = End(b) + 1
      /\ Seqs(c) = Seqs(b) \cup {End(b)} /\ End(b) \notin Seqs(b)
      /\ HitAt(c, End(b)) = now
      /\ \A q \in Seqs(b) : HitAt(c, q) = HitAt(b, q) /\ CostAt(c, q) = CostAt(b, q)
  BY CommitEnters
<1>2. Window \in Nat \ {0}
  BY LimitsAssumption
<1>3. now > Horizon
  BY <1>2 DEF Horizon
<1>4. Seqs(NoBucket) = {}
  BY DEF Seqs, NoBucket, End, LiveHits
<1>5. \A q \in Seqs(b) : CostAt(b, q) \in Nat
  BY SeqsTyped DEF Sound, Kept
<1>6. End(b) \in Nat
  BY ShapedNumbers, NumbersAdd DEF Sound, Kept
<1> HIDE DEF c
<1>7. Live(c, Horizon) = Live(b, Horizon) \cup {End(b)} /\ End(b) \notin Live(b, Horizon)
  BY <1>1, <1>3 DEF Live
<1>8. ASSUME NEW q \in Live(b, Horizon)
      PROVE  /\ q \in Live(c, Horizon) /\ HitAt(c, q) = HitAt(b, q)
             /\ CostAt(b, q) <= CostAt(c, q) /\ c.born = b.born
  <2>1. q \in Seqs(b)
    BY DEF Live
  <2>2. b # NoBucket
    BY <1>4, <2>1
  <2>3. CostAt(b, q) \in Nat /\ CostAt(c, q) = CostAt(b, q)
    BY <1>1, <1>5, <2>1
  <2> QED BY <1>1, <1>7, <2>1, <2>2, <2>3
<1>9. c.born > Horizon \/ (b # NoBucket /\ c.born = b.born /\ End(b) <= End(c))
  BY <1>1, <1>3, <1>6
<1> QED BY <1>7, <1>8, <1>9 DEF Grown, c

LEMMA CostlierGrows ==
  ASSUME NEW b, NEW c, NEW clock, NEW q, NEW n \in Nat, NEW horizon,
         Sound(b, clock), b # NoBucket, Costlier(b, c, q, n)
  PROVE  Grown(b, c, horizon) /\ Live(c, horizon) = Live(b, horizon)
<1>1. \A p \in Seqs(b) : CostAt(b, p) \in Nat
  BY SeqsTyped DEF Sound, Kept
<1>2. End(b) \in Nat
  BY ShapedNumbers, NumbersAdd DEF Sound, Kept
<1>3. Live(c, horizon) = Live(b, horizon)
  BY DEF Costlier, Live
<1>4. ASSUME NEW p \in Live(b, horizon)
      PROVE  HitAt(c, p) = HitAt(b, p) /\ CostAt(b, p) <= CostAt(c, p) /\ c.born = b.born
  <2>1. p \in Seqs(b) /\ CostAt(b, p) \in Nat
    BY <1>1 DEF Live
  <2> QED BY <2>1 DEF Costlier
<1>5. c.born = b.born /\ End(b) <= End(c)
  BY <1>2 DEF Costlier
<1> QED BY <1>3, <1>4, <1>5 DEF Grown

----------------------------------------------------------------------------
(***************************************************************************)
(* The map of buckets.                                                     *)
(***************************************************************************)
Allowance(k) == IF k = Shared THEN SharedLimit ELSE Limit
Tracked(bs) == {k \in Network : bs[k] # NoBucket}

\* Every bucket is sound and within its allowance, and the key ceiling holds.
BucketsOK(bs, clock) ==
  /\ bs \in [Key -> Bucket]
  /\ \A k \in Key : Sound(bs[k], clock) /\ LiveHits(bs[k]) <= Allowance(k)
  /\ IsFiniteSet(Tracked(bs)) /\ Cardinality(Tracked(bs)) <= MaxKeys

AllAlike(bs, cs, horizon) == \A k \in Key : Alike(bs[k], cs[k], horizon)
AllGrown(bs, cs, horizon) == \A k \in Key : Grown(bs[k], cs[k], horizon)

\* Buckets that are none the larger are as much in order.
LEMMA ShrinkOK ==
  ASSUME NEW bs, NEW cs, NEW clock, BucketsOK(bs, clock), cs \in [Key -> Bucket],
         \A k \in Key : /\ Sound(cs[k], clock) /\ LiveHits(cs[k]) <= LiveHits(bs[k])
                        /\ cs[k] # NoBucket => bs[k] # NoBucket
  PROVE  /\ BucketsOK(cs, clock) /\ Tracked(cs) \subseteq Tracked(bs)
         /\ Cardinality(Tracked(cs)) <= Cardinality(Tracked(bs))
<1>1. Tracked(cs) \subseteq Tracked(bs)
  BY DEF Tracked, Key
<1>2. /\ IsFiniteSet(Tracked(bs)) /\ Cardinality(Tracked(bs)) <= MaxKeys
  BY DEF BucketsOK
<1>3. /\ IsFiniteSet(Tracked(cs)) /\ Cardinality(Tracked(cs)) <= Cardinality(Tracked(bs))
  BY <1>1, <1>2, FS_Subset
<1>4. Cardinality(Tracked(cs)) \in Nat /\ Cardinality(Tracked(bs)) \in Nat /\ MaxKeys \in Nat
  BY <1>2, <1>3, FS_CardinalityType, LimitsAssumption
<1>5. ASSUME NEW k \in Key PROVE LiveHits(cs[k]) <= Allowance(k)
  <2>1. LiveHits(bs[k]) \in Nat /\ LiveHits(cs[k]) \in Nat /\ Allowance(k) \in Nat
    BY ShapedNumbers, NumbersAdd, LimitsAssumption DEF Sound, Kept, BucketsOK, Allowance
  <2> QED BY <2>1 DEF BucketsOK
<1> QED BY <1>1, <1>2, <1>3, <1>4, <1>5 DEF BucketsOK

\* Sliding windows, and forgetting what is empty, whichever buckets it is done to.
LEMMA SlideOK ==
  ASSUME NEW bs, NEW cs, now \in Nat, BucketsOK(bs, now), cs \in [Key -> Bucket],
         \A k \in Key : Sound(cs[k], now) /\ Slid(bs[k], cs[k], Horizon)
  PROVE  /\ BucketsOK(cs, now) /\ AllGrown(bs, cs, Horizon) /\ AllAlike(bs, cs, Horizon)
         /\ Tracked(cs) \subseteq Tracked(bs) /\ Cardinality(Tracked(cs)) <= Cardinality(Tracked(bs))
<1>1. \A k \in Key : Sound(bs[k], now)
  BY DEF BucketsOK
<1>2. \A k \in Key : LiveHits(cs[k]) <= LiveHits(bs[k]) /\ (cs[k] # NoBucket => bs[k] # NoBucket)
  BY DEF Slid
<1>3. \A k \in Key : Grown(bs[k], cs[k], Horizon) /\ Alike(bs[k], cs[k], Horizon)
  BY <1>1, SlidGrows
<1> QED BY <1>2, <1>3, ShrinkOK DEF AllGrown, AllAlike

LEMMA GetSlides ==
  ASSUME NEW bs, now \in Nat, BucketsOK(bs, now), NEW k \in Key
  PROVE  LET cs == GetLiveBucket(bs, k) IN
         /\ cs \in [Key -> Bucket] /\ cs[k] = Swept(bs[k]) /\ \A j \in Key \ {k} : cs[j] = bs[j]
         /\ \A j \in Key : Sound(cs[j], now) /\ Slid(bs[j], cs[j], Horizon)
<1> DEFINE cs == GetLiveBucket(bs, k)
<1>1. bs \in [Key -> Bucket] /\ \A j \in Key : Sound(bs[j], now)
  BY DEF BucketsOK
<1>2. Sound(Swept(bs[k]), now) /\ Slid(bs[k], Swept(bs[k]), Horizon)
  BY <1>1, SweptSlides
<1>3. Swept(bs[k]) \in Bucket
  BY <1>2 DEF Sound, Kept, Shaped
<1>4. /\ cs \in [Key -> Bucket] /\ cs[k] = Swept(bs[k]) /\ \A j \in Key \ {k} : cs[j] = bs[j]
  BY <1>1, <1>3 DEF GetLiveBucket
<1> HIDE DEF cs
<1>5. ASSUME NEW j \in Key PROVE Sound(cs[j], now) /\ Slid(bs[j], cs[j], Horizon)
  <2>1. CASE j = k
    BY <1>2, <1>4, <2>1
  <2>2. CASE j # k
    BY <1>1, <1>4, <2>2, SlidStays
  <2> QED BY <2>1, <2>2
<1> QED BY <1>4, <1>5 DEF cs

LEMMA PruneSlides ==
  ASSUME NEW bs, now \in Nat, BucketsOK(bs, now)
  PROVE  LET cs == Prune(bs) IN
         /\ cs \in [Key -> Bucket]
         /\ \A j \in Key : Sound(cs[j], now) /\ Slid(bs[j], cs[j], Horizon) /\ cs[j] = Swept(bs[j])
<1> DEFINE cs == Prune(bs)
<1>1. \A j \in Key : Sound(bs[j], now)
  BY DEF BucketsOK
<1>2. \A j \in Key : Sound(Swept(bs[j]), now) /\ Slid(bs[j], Swept(bs[j]), Horizon)
  BY <1>1, SweptSlides
<1>3. \A j \in Key : Swept(bs[j]) \in Bucket
  BY <1>2 DEF Sound, Kept, Shaped
<1>4. cs \in [Key -> Bucket] /\ \A j \in Key : cs[j] = Swept(bs[j])
  BY <1>3 DEF Prune
<1> HIDE DEF cs
<1> QED BY <1>2, <1>4 DEF cs

\* Nothing has left the window.
Recent(b) == \A q \in Seqs(b) : HitAt(b, q) > Horizon

\* What a request finds: slid windows, with the two it is metered on swept of all that
\* has left them, and room for its key if it is to be tracked.
LEMMA SceneSlides ==
  ASSUME now \in Nat, BucketsOK(buckets, now), NEW k \in Key
  PROVE  LET scene == Scene(k)
             cs == scene.buckets IN
         /\ cs \in [Key -> Bucket] /\ BucketsOK(cs, now) /\ scene.key \in {k, Shared}
         /\ \A j \in Key : Sound(cs[j], now) /\ Slid(buckets[j], cs[j], Horizon)
         /\ scene.key # Shared => cs[scene.key] # NoBucket \/ Cardinality(Tracked(cs)) < MaxKeys
         /\ scene.degraded \in BOOLEAN /\ Recent(cs[scene.key]) /\ Recent(cs[Shared])
<1> DEFINE own == IF k = Shared THEN buckets ELSE GetLiveBucket(buckets, k)
           newcomer == k # Shared /\ own[k] = NoBucket
           sweep == newcomer /\ ~Room(own) /\ now - lastPrune >= PruneInterval
           left == IF sweep THEN Prune(own) ELSE own
           degraded == newcomer /\ ~Room(left)
           cs == GetLiveBucket(left, Shared)
<1>1. /\ Scene(k).buckets = cs /\ Scene(k).key = (IF degraded THEN Shared ELSE k)
      /\ Scene(k).degraded = degraded
  BY DEF Scene
<1>2. Shared \in Key /\ \A j \in Key : Sound(buckets[j], now)
  BY DEF BucketsOK, Key
<1>3. /\ own \in [Key -> Bucket] /\ BucketsOK(own, now)
      /\ \A j \in Key : Sound(own[j], now) /\ Slid(buckets[j], own[j], Horizon)
  <2>1. CASE k = Shared
    BY <1>2, <2>1, SlidStays DEF BucketsOK
  <2>2. CASE k # Shared
    <3>1. own = GetLiveBucket(buckets, k)
      BY <2>2
    <3> HIDE DEF own
    <3>2. /\ own \in [Key -> Bucket]
          /\ \A j \in Key : Sound(own[j], now) /\ Slid(buckets[j], own[j], Horizon)
      BY <3>1, GetSlides
    <3> QED BY <3>2, SlideOK
  <2> HIDE DEF own
  <2> QED BY <2>1, <2>2
<1>3a. k # Shared => Recent(own[k])
  <2>1. k # Shared => own[k] = Swept(buckets[k])
    BY GetSlides
  <2> HIDE DEF own
  <2> QED BY <1>2, <2>1, SweptSlides DEF Recent
<1> HIDE DEF own
<1>4. /\ left \in [Key -> Bucket] /\ BucketsOK(left, now)
      /\ \A j \in Key : Sound(left[j], now) /\ Slid(own[j], left[j], Horizon)
  <2>1. CASE ~sweep
    BY <1>3, <2>1, SlidStays
  <2>2. CASE sweep
    <3>1. left = Prune(own)
      BY <2>2
    <3> HIDE DEF left
    <3>2. /\ left \in [Key -> Bucket]
          /\ \A j \in Key : Sound(left[j], now) /\ Slid(own[j], left[j], Horizon)
      BY <1>3, <3>1, PruneSlides
    <3> QED BY <1>3, <3>2, SlideOK
  <2> HIDE DEF left, sweep
  <2> QED BY <2>1, <2>2
<1>5. k # Shared /\ own[k] # NoBucket => left = own
  OBVIOUS
<1> HIDE DEF left, sweep
<1>6. /\ cs \in [Key -> Bucket] /\ \A j \in Key \ {Shared} : cs[j] = left[j]
      /\ \A j \in Key : Sound(cs[j], now) /\ Slid(left[j], cs[j], Horizon)
  BY <1>2, <1>4, GetSlides
<1>7. BucketsOK(cs, now)
  <2> HIDE DEF cs
  <2> QED BY <1>4, <1>6, SlideOK
<1> HIDE DEF cs
<1>8. ASSUME NEW j \in Key PROVE Slid(buckets[j], cs[j], Horizon)
  <2>1. Slid(buckets[j], left[j], Horizon)
    BY <1>2, <1>3, <1>4, SlidSlides
  <2> QED BY <1>2, <1>4, <1>6, <2>1, SlidSlides
<1>9. ASSUME ~degraded, k # Shared PROVE cs[k] # NoBucket \/ Cardinality(Tracked(cs)) < MaxKeys
  <2>1. CASE own[k] # NoBucket
    BY <1>5, <1>6, <1>9, <2>1
  <2>2. CASE own[k] = NoBucket
    <3>1. Cardinality(Tracked(left)) < MaxKeys
      BY <1>9, <2>2 DEF Room, PerClientBucketCount, Tracked
    <3>2. Cardinality(Tracked(cs)) <= Cardinality(Tracked(left))
      BY <1>4, <1>6, SlideOK
    <3>3. Cardinality(Tracked(left)) \in Nat /\ Cardinality(Tracked(cs)) \in Nat /\ MaxKeys \in Nat
      BY <1>4, <1>7, FS_CardinalityType, LimitsAssumption DEF BucketsOK
    <3> QED BY <3>1, <3>2, <3>3
  <2> QED BY <2>1, <2>2
<1>10. degraded \in BOOLEAN
  OBVIOUS
<1>11. Recent(cs[Shared])
  <2>1. cs[Shared] = Swept(left[Shared])
    BY <1>2, <1>4, GetSlides DEF cs
  <2> QED BY <1>2, <1>4, <2>1, SweptSlides DEF Recent
<1>12. k # Shared => Recent(cs[k])
  <2>1. k # Shared => cs[k] = left[k]
    BY <1>6
  <2> QED BY <1>4, <1>3a, <2>1 DEF Recent, Slid
<1> HIDE DEF degraded
<1> QED BY <1>1, <1>6, <1>7, <1>8, <1>9, <1>10, <1>11, <1>12

LEMMA CommitOK ==
  ASSUME NEW bs, now \in Nat, BucketsOK(bs, now), NEW k \in Key,
         ~ClientFull(bs, k), ~SharedFull(bs),
         k # Shared => bs[k] # NoBucket \/ Cardinality(Tracked(bs)) < MaxKeys
  PROVE  LET cs == Commit(bs, k) IN
         /\ cs \in [Key -> Bucket] /\ BucketsOK(cs, now) /\ AllGrown(bs, cs, Horizon)
         /\ \A j \in Key \ {k, Shared} : cs[j] = bs[j]
         /\ \A j \in {k, Shared} : cs[j] = CommitHit(bs[j])
<1> DEFINE cs == Commit(bs, k)
<1>1. bs \in [Key -> Bucket] /\ Shared \in Key /\ \A j \in Key : Sound(bs[j], now)
  BY DEF BucketsOK, Key
<1>2. /\ \A j \in Key \ {k, Shared} : cs[j] = bs[j]
      /\ \A j \in {k, Shared} : cs[j] = CommitHit(bs[j])
      /\ cs = [j \in Key |-> cs[j]]
  BY <1>1 DEF Commit
<1> HIDE DEF cs
<1>3. ASSUME NEW j \in {k, Shared}
      PROVE  /\ Sound(cs[j], now) /\ LiveHits(cs[j]) = LiveHits(bs[j]) + 1
             /\ Grown(bs[j], cs[j], Horizon)
  BY <1>1, <1>2, CommitEnters, CommitGrows
<1>4. ASSUME NEW j \in Key PROVE Sound(cs[j], now) /\ Grown(bs[j], cs[j], Horizon)
  <2>1. CASE j \in {k, Shared}
    BY <1>3, <2>1
  <2>2. CASE j \notin {k, Shared}
    <3>1. LiveHits(bs[j]) \in Nat
      BY <1>1, ShapedNumbers, NumbersAdd DEF Sound, Kept
    <3> QED BY <1>1, <1>2, <2>2, <3>1, SlidStays, SlidGrows
  <2> QED BY <2>1, <2>2
<1>5. cs \in [Key -> Bucket]
  <2>1. \A j \in Key : cs[j] \in Bucket
    BY <1>4 DEF Sound, Kept, Shaped
  <2> QED BY <1>2, <2>1
<1>6. ASSUME NEW j \in Key PROVE LiveHits(cs[j]) <= Allowance(j)
  <2>1. LiveHits(bs[j]) \in Nat /\ Allowance(j) \in Nat
    BY <1>1, ShapedNumbers, NumbersAdd, LimitsAssumption DEF Sound, Kept, Allowance
  <2>2. CASE j \in {k, Shared}
    <3>1. ~(LiveHits(bs[j]) >= Allowance(j))
      BY <2>2 DEF ClientFull, SharedFull, Allowance
    <3> QED BY <1>3, <2>1, <2>2, <3>1
  <2>3. CASE j \notin {k, Shared}
    BY <1>2, <2>3 DEF BucketsOK
  <2> QED BY <2>2, <2>3
<1>7. IsFiniteSet(Tracked(cs)) /\ Cardinality(Tracked(cs)) <= MaxKeys
  <2>1. IsFiniteSet(Tracked(bs)) /\ Cardinality(Tracked(bs)) <= MaxKeys
        /\ Cardinality(Tracked(bs)) \in Nat /\ MaxKeys \in Nat
    BY FS_CardinalityType, LimitsAssumption DEF BucketsOK
  <2>2. Tracked(cs) \subseteq Tracked(bs) \cup {k}
    BY <1>2, LimitsAssumption DEF Tracked, Key
  <2>3. CASE k = Shared \/ bs[k] # NoBucket
    <3>1. Tracked(cs) \subseteq Tracked(bs)
      BY <2>2, <2>3, LimitsAssumption DEF Tracked, Key
    <3>2. IsFiniteSet(Tracked(cs)) /\ Cardinality(Tracked(cs)) <= Cardinality(Tracked(bs))
      BY <2>1, <3>1, FS_Subset
    <3> QED BY <2>1, <3>2, FS_CardinalityType
  <2>4. CASE k # Shared /\ bs[k] = NoBucket
    <3>1. Cardinality(Tracked(bs)) < MaxKeys /\ k \notin Tracked(bs)
      BY <2>4 DEF Tracked
    <3>2. IsFiniteSet(Tracked(bs) \cup {k}) /\ Cardinality(Tracked(bs) \cup {k}) = Cardinality(Tracked(bs)) + 1
      BY <2>1, <3>1, FS_AddElement
    <3>3. IsFiniteSet(Tracked(cs)) /\ Cardinality(Tracked(cs)) <= Cardinality(Tracked(bs) \cup {k})
      BY <2>2, <3>2, FS_Subset
    <3>4. Cardinality(Tracked(cs)) \in Nat
      BY <3>3, FS_CardinalityType
    <3> QED BY <2>1, <3>1, <3>2, <3>3, <3>4
  <2> QED BY <2>3, <2>4
<1>8. BucketsOK(cs, now)
  BY <1>4, <1>5, <1>6, <1>7 DEF BucketsOK
<1> QED BY <1>2, <1>4, <1>5, <1>8 DEF cs, AllGrown

\* The entry of this half in b, or the newest there is, is charged n more in c.
Pays(b, c, half, n) ==
  /\ b # NoBucket /\ Live(c, Horizon) = Live(b, Horizon) /\ Seqs(c) = Live(c, Horizon)
  /\ \E q \in Live(b, Horizon) :
       /\ half.sequence \in Live(b, Horizon) => q = half.sequence
       /\ \A p \in Live(b, Horizon) :
            /\ HitAt(c, p) = HitAt(b, p)
            /\ CostAt(c, p) = IF p = q THEN CostAt(b, p) + n ELSE CostAt(b, p)

\* A charge: nothing if the ticket's bucket is gone or has nothing live, else one live
\* entry costs more, which is the ticket's own while it is in the window.
LEMMA ApplyPays ==
  ASSUME NEW bs, now \in Nat, BucketsOK(bs, now), NEW k \in Key, NEW half, half.sequence \in Nat,
         NEW n \in Nat, NEW cs, cs = ApplyRecordCharge(bs, k, half, n)
  PROVE  /\ BucketsOK(cs, now) /\ AllGrown(bs, cs, Horizon)
         /\ \A j \in Key \ {k} : cs[j] = bs[j]
         /\ Charges(bs, k, half) => Pays(bs[k], cs[k], half, n)
         /\ ~Charges(bs, k, half) => Alike(bs[k], cs[k], Horizon)
<1> DEFINE r == RetireExpiredHits(bs[k])
           c == IF Target(r, half) = 0 THEN r ELSE Add(r, Target(r, half), n)
<1>1. bs \in [Key -> Bucket] /\ \A j \in Key : Sound(bs[j], now)
  BY DEF BucketsOK
<1>2. CASE ~Pointed(bs, k, half)
  <2>1. cs = bs /\ ~Charges(bs, k, half)
    BY <1>2 DEF ApplyRecordCharge, Charges
  <2>2. \A j \in Key : Slid(bs[j], bs[j], Horizon)
    BY <1>1, SlidStays
  <2> QED BY <1>1, <2>1, <2>2, SlideOK DEF AllAlike
<1>3. CASE Pointed(bs, k, half)
  <2>1. cs = [bs EXCEPT ![k] = c] /\ bs[k] # NoBucket /\ (Charges(bs, k, half) <=> LiveHits(r) > 0)
    BY <1>3 DEF ApplyRecordCharge, Charges, Pointed
  <2>2. /\ Sound(r, now) /\ r.born = bs[k].born /\ End(r) = End(bs[k]) /\ LiveHits(r) <= LiveHits(bs[k])
    BY <1>1, RetireKeeps
  <2>3. Grown(bs[k], r, Horizon) /\ Alike(bs[k], r, Horizon) /\ Live(r, Horizon) = Seqs(r)
    BY <1>1, <2>1, RetireGrows
  <2> HIDE DEF r
  <2>4. Numbered(r) /\ LiveHits(r) \in Nat
    BY <2>2, ShapedNumbers, NumbersAdd DEF Sound, Kept
  <2>5. /\ Sound(c, now) /\ LiveHits(c) = LiveHits(r) /\ Grown(bs[k], c, Horizon)
        /\ ~(LiveHits(r) > 0) => Alike(bs[k], c, Horizon)
        /\ LiveHits(r) > 0 => Pays(bs[k], c, half, n)
    <3>1. CASE ~(LiveHits(r) > 0)
      <4>1. c = r
        BY <2>4, <3>1, TargetIs
      <4> QED BY <2>2, <2>3, <3>1, <4>1
    <3>2. CASE LiveHits(r) > 0
      <4>1. PICK q \in Seqs(r) : /\ Target(r, half) = At(r, q) /\ Target(r, half) # 0
                                 /\ half.sequence \in Seqs(r) => q = half.sequence
        BY <2>4, <3>2, TargetIs
      <4>2. c = Add(r, At(r, q), n)
        BY <4>1
      <4> HIDE DEF c
      <4>3. Sound(c, now) /\ Costlier(r, c, q, n)
        BY <2>2, <4>2, AddCharges
      <4>4. r # NoBucket
        BY <3>2 DEF NoBucket, LiveHits
      <4>5. Grown(r, c, Horizon) /\ Live(c, Horizon) = Live(r, Horizon)
        BY <2>2, <4>3, <4>4, CostlierGrows
      <4>6. Grown(bs[k], c, Horizon)
        BY <1>1, <2>2, <2>3, <4>3, <4>5, GrownGrows
      <4>7. Live(r, Horizon) = Live(bs[k], Horizon) /\ Seqs(r) = Live(bs[k], Horizon)
            /\ \A p \in Live(bs[k], Horizon) : HitAt(r, p) = HitAt(bs[k], p) /\ CostAt(r, p) = CostAt(bs[k], p)
        BY <2>3 DEF Alike
      <4>8. Seqs(c) = Seqs(r) /\ LiveHits(c) = LiveHits(r)
            /\ \A p \in Seqs(r) : /\ HitAt(c, p) = HitAt(r, p)
                                  /\ CostAt(c, p) = IF p = q THEN CostAt(r, p) + n ELSE CostAt(r, p)
        BY <4>3 DEF Costlier
      <4>9. /\ q \in Live(bs[k], Horizon)
            /\ half.sequence \in Live(bs[k], Horizon) => q = half.sequence
            /\ \A p \in Live(bs[k], Horizon) :
                 /\ HitAt(c, p) = HitAt(bs[k], p)
                 /\ CostAt(c, p) = IF p = q THEN CostAt(bs[k], p) + n ELSE CostAt(bs[k], p)
        BY <4>1, <4>7, <4>8
      <4>10. Pays(bs[k], c, half, n)
        BY <2>1, <4>5, <4>7, <4>8, <4>9 DEF Pays
      <4> QED BY <3>2, <4>3, <4>6, <4>8, <4>10
    <3> HIDE DEF c
    <3> QED BY <3>1, <3>2
  <2> HIDE DEF c
  <2>6. /\ cs[k] = c /\ cs \in [Key -> Bucket] /\ \A j \in Key \ {k} : cs[j] = bs[j]
    BY <1>1, <2>1, <2>5 DEF Sound, Kept, Shaped
  <2>7. LiveHits(c) <= LiveHits(bs[k])
    BY <2>2, <2>5
  <2>8. ASSUME NEW j \in Key
        PROVE  /\ Sound(cs[j], now) /\ LiveHits(cs[j]) <= LiveHits(bs[j])
               /\ (cs[j] # NoBucket => bs[j] # NoBucket) /\ Grown(bs[j], cs[j], Horizon)
    <3>1. CASE j = k
      BY <2>1, <2>5, <2>6, <2>7, <3>1
    <3>2. CASE j # k
      <4>1. Slid(bs[j], bs[j], Horizon) /\ LiveHits(bs[j]) <= LiveHits(bs[j])
        BY <1>1, SlidStays DEF Slid
      <4> QED BY <1>1, <2>6, <3>2, <4>1, SlidGrows
    <3> QED BY <3>1, <3>2
  <2>9. BucketsOK(cs, now)
    BY <2>6, <2>8, ShrinkOK
  <2>10. AllGrown(bs, cs, Horizon)
    BY <2>8 DEF AllGrown
  <2> QED BY <2>1, <2>5, <2>6, <2>9, <2>10
<1> QED BY <1>2, <1>3

LEMMA ScannedOK ==
  ASSUME NEW bs, now \in Nat, BucketsOK(bs, now), NEW k \in Key, bs[k] # NoBucket
  PROVE  LET cs == Scanned(bs, k) IN
         /\ cs \in [Key -> Bucket] /\ BucketsOK(cs, now)
         /\ AllGrown(bs, cs, Horizon) /\ AllAlike(bs, cs, Horizon)
         /\ cs[k] = [bs[k] EXCEPT !.charged = Uncharged(bs[k])] /\ Seqs(cs[k]) = Seqs(bs[k])
         /\ cs[k].recordSum = bs[k].recordSum
<1> DEFINE cs == Scanned(bs, k)
           c == [bs[k] EXCEPT !.charged = Uncharged(bs[k])]
<1>1. bs \in [Key -> Bucket] /\ \A j \in Key : Sound(bs[j], now)
  BY DEF BucketsOK
<1>2. /\ Sound(c, now) /\ c.born = bs[k].born /\ c.recordSum = bs[k].recordSum
      /\ End(c) = End(bs[k]) /\ LiveHits(c) = LiveHits(bs[k]) /\ Seqs(c) = Seqs(bs[k])
      /\ \A q : HitAt(c, q) = HitAt(bs[k], q) /\ CostAt(c, q) = CostAt(bs[k], q)
  BY <1>1, ScanKeeps
<1>3. cs = [bs EXCEPT ![k] = c]
  BY DEF Scanned
<1> HIDE DEF c, cs
<1>4. /\ cs[k] = c /\ cs \in [Key -> Bucket] /\ \A j \in Key \ {k} : cs[j] = bs[j]
  BY <1>1, <1>2, <1>3 DEF Sound, Kept, Shaped
<1>5. Slid(bs[k], c, Horizon)
  <2>1. LiveHits(bs[k]) \in Nat
    BY <1>1, ShapedNumbers, NumbersAdd DEF Sound, Kept
  <2> QED BY <1>2, <2>1 DEF Slid
<1>6. ASSUME NEW j \in Key PROVE Sound(cs[j], now) /\ Slid(bs[j], cs[j], Horizon)
  <2>1. CASE j = k
    BY <1>2, <1>4, <1>5, <2>1
  <2>2. CASE j # k
    BY <1>1, <1>4, <2>2, SlidStays
  <2> QED BY <2>1, <2>2
<1>7. BucketsOK(cs, now) /\ AllGrown(bs, cs, Horizon) /\ AllAlike(bs, cs, Horizon)
  BY <1>4, <1>6, SlideOK
<1> QED BY <1>2, <1>4, <1>7 DEF c, cs

LEMMA AllGrows ==
  ASSUME NEW as, NEW bs, NEW cs, NEW clock, NEW horizon,
         BucketsOK(as, clock), BucketsOK(bs, clock), BucketsOK(cs, clock),
         AllGrown(as, bs, horizon), AllGrown(bs, cs, horizon)
  PROVE  AllGrown(as, cs, horizon)
BY GrownGrows DEF AllGrown, BucketsOK

LEMMA AllStays ==
  ASSUME now \in Nat, NEW bs, BucketsOK(bs, now)
  PROVE  AllGrown(bs, bs, Horizon) /\ AllAlike(bs, bs, Horizon)
BY SlidStays, SlidGrows DEF BucketsOK, AllGrown, AllAlike

----------------------------------------------------------------------------
(***************************************************************************)
(* Tickets and what they point to.                                         *)
(***************************************************************************)
Halves == [born : Nat, sequence : Nat]
Ticket == [nr : Nat, at : Window..MaxTime, network : Key, key : Key, degraded : BOOLEAN,
           own : Halves, shared : Halves]
HalfFor(t, k) == IF k = Shared THEN t.shared ELSE t.own
Meters(t) == {t.key, Shared}

\* A client's ticket is its own, and one whose request is recent is remembered.
TicketsOK(adm, rd, clock, arr) ==
  /\ IsFiniteSet(adm)
  /\ \A t \in adm \cup rd : /\ t \in Ticket /\ t.at <= clock /\ t.nr <= arr
                            /\ t.key # Shared => t.key = t.network
  /\ \A t \in adm : t.at > clock - Window
  /\ \A t \in rd : t.at > clock - Window => t \in adm

\* The ticket's entry in the bucket of k.
Finds(bs, t, k, horizon) ==
  /\ bs[k].born = HalfFor(t, k).born /\ HalfFor(t, k).sequence \in Live(bs[k], horizon)
  /\ HitAt(bs[k], HalfFor(t, k).sequence) = t.at

\* No half was issued from a bucket opened later, or numbers an entry yet to come.
Issued(bs, t, k) ==
  /\ HalfFor(t, k).born <= t.at
  /\ bs[k] # NoBucket /\ bs[k].born = HalfFor(t, k).born => HalfFor(t, k).sequence < End(bs[k])

\* Everybody finds an entry, and no half was ever issued twice.
EntriesOK(bs, adm, rd, clock) ==
  /\ \A t \in adm : \A k \in Meters(t) : Finds(bs, t, k, clock - Window)
  /\ \A t \in adm \cup rd : \A k \in Meters(t) : Issued(bs, t, k)
  /\ \A t, u \in adm \cup rd : \A k \in Meters(t) \cap Meters(u) :
       HalfFor(t, k) = HalfFor(u, k) => t = u

\* What was written was paid for, once, and by its own entry in each bucket.
WrittenOK(bs, wr, adm, rd) ==
  /\ IsFiniteSet(wr)
  /\ \A w \in wr :
       /\ w \in [ticket : Ticket, units : Nat] /\ w.ticket \in adm /\ w.ticket \notin rd
       /\ \A k \in Meters(w.ticket) : w.units <= CostAt(bs[k], HalfFor(w.ticket, k).sequence)
  /\ \A v, w \in wr : v.ticket = w.ticket => v = w

RecordAllowance(k) == IF k = Shared THEN SharedRecordLimit ELSE RecordLimit
PaidBy(wr, k) == IF k = Shared THEN wr ELSE {w \in wr : w.ticket.key = k}
WithinOK(wr) == \A k \in Key : Units(PaidBy(wr, k)) <= RecordAllowance(k)

ClockOK(clock, conf, arr) == clock \in Window..MaxTime /\ conf \in {"unread", "read"} /\ arr \in Nat

IngestInv ==
  /\ ClockOK(now, config, arrivals)
  /\ BucketsOK(buckets, now)
  /\ TicketsOK(admitted, reading, now, arrivals)
  /\ EntriesOK(buckets, admitted, reading, now)
  /\ WrittenOK(buckets, written, admitted, reading)
  /\ WithinOK(written)

LEMMA ClockNat ==
  ASSUME NEW clock, NEW conf, NEW arr, ClockOK(clock, conf, arr)
  PROVE  clock \in Nat /\ clock - Window \in Nat
BY LimitsAssumption DEF ClockOK

LEMMA TicketHalves ==
  ASSUME NEW t \in Ticket, NEW k \in Meters(t)
  PROVE  /\ k \in Key /\ HalfFor(t, k) \in Halves
         /\ HalfFor(t, k).born \in Nat /\ HalfFor(t, k).sequence \in Nat
         /\ t.at \in Nat /\ t.nr \in Nat
BY LimitsAssumption DEF Ticket, Meters, HalfFor, Halves, Key

\* Tickets do not mind what was added, moved or thrown out behind them.
LEMMA GrownEntries ==
  ASSUME NEW bs, NEW cs, NEW adm, NEW rd, NEW arr, now \in Nat,
         BucketsOK(bs, now), BucketsOK(cs, now), AllGrown(bs, cs, Horizon),
         TicketsOK(adm, rd, now, arr), EntriesOK(bs, adm, rd, now)
  PROVE  EntriesOK(cs, adm, rd, now)
<1>1. \A t \in adm \cup rd : t \in Ticket /\ t.at <= now
  BY DEF TicketsOK
<1>2. \A k \in Key : Grown(bs[k], cs[k], Horizon) /\ Sound(bs[k], now) /\ Sound(cs[k], now)
  BY DEF AllGrown, BucketsOK
<1>3. ASSUME NEW t \in adm, NEW k \in Meters(t) PROVE Finds(cs, t, k, Horizon)
  <2>1. k \in Key
    BY <1>1, TicketHalves
  <2>2. Finds(bs, t, k, Horizon)
    BY DEF EntriesOK, Horizon
  <2> QED BY <1>2, <2>1, <2>2 DEF Finds, Grown
<1>4. ASSUME NEW t \in adm \cup rd, NEW k \in Meters(t) PROVE Issued(cs, t, k)
  <2> DEFINE half == HalfFor(t, k)
  <2>1. k \in Key /\ half.born \in Nat /\ half.sequence \in Nat /\ t.at \in Nat
    BY <1>1, TicketHalves
  <2>2. Issued(bs, t, k)
    BY DEF EntriesOK
  <2>3. End(bs[k]) \in Nat /\ End(cs[k]) \in Nat /\ Horizon \in Int
    BY <1>2, <2>1, ShapedNumbers, NumbersAdd, LimitsAssumption DEF Sound, Kept, Horizon
  <2>4. ASSUME cs[k] # NoBucket, cs[k].born = half.born PROVE half.sequence < End(cs[k])
    <3>1. CASE bs[k] # NoBucket /\ cs[k].born = bs[k].born /\ End(bs[k]) <= End(cs[k])
      BY <2>1, <2>2, <2>3, <2>4, <3>1 DEF Issued
    <3>2. CASE cs[k].born > Horizon
      <4>1. t.at > Horizon
        BY <2>1, <2>2, <2>3, <2>4, <3>2 DEF Issued
      <4>2. t \in adm
        BY <4>1 DEF TicketsOK, Horizon
      <4>3. half.sequence \in Seqs(cs[k])
        BY <1>3, <4>2 DEF Finds, Live
      <4>4. cs[k].retired \in Nat
        BY <1>2, <2>1, ShapedNumbers DEF Sound, Kept, Numbered
      <4> HIDE DEF half
      <4> QED BY <2>1, <2>3, <4>3, <4>4 DEF Seqs
    <3> QED BY <1>2, <2>1, <2>4, <3>1, <3>2 DEF Grown
  <2> QED BY <2>2, <2>4 DEF Issued
<1> QED BY <1>3, <1>4 DEF EntriesOK, Horizon

LEMMA GrownWritten ==
  ASSUME NEW bs, NEW cs, NEW wr, NEW adm, NEW rd, NEW rest, NEW arr, now \in Nat,
         BucketsOK(bs, now), BucketsOK(cs, now), AllGrown(bs, cs, Horizon), rest \subseteq rd,
         TicketsOK(adm, rd, now, arr), EntriesOK(bs, adm, rd, now), WrittenOK(bs, wr, adm, rd)
  PROVE  WrittenOK(cs, wr, adm, rest)
<1>1. ASSUME NEW w \in wr, NEW k \in Meters(w.ticket)
      PROVE  w.units <= CostAt(cs[k], HalfFor(w.ticket, k).sequence)
  <2> DEFINE q == HalfFor(w.ticket, k).sequence
  <2>1. w.ticket \in adm /\ w.ticket \in Ticket /\ w.units \in Nat /\ w.units <= CostAt(bs[k], q)
    BY DEF WrittenOK
  <2>2. k \in Key
    BY <2>1, TicketHalves
  <2>3. q \in Live(bs[k], Horizon)
    BY <2>1 DEF EntriesOK, Finds, Horizon
  <2>4. Grown(bs[k], cs[k], Horizon) /\ Sound(bs[k], now) /\ Sound(cs[k], now)
    BY <2>2 DEF AllGrown, BucketsOK
  <2> HIDE DEF q
  <2>5. q \in Seqs(bs[k]) /\ q \in Seqs(cs[k]) /\ CostAt(bs[k], q) <= CostAt(cs[k], q)
    BY <2>3, <2>4 DEF Grown, Live
  <2>6. CostAt(bs[k], q) \in Nat /\ CostAt(cs[k], q) \in Nat
    BY <2>4, <2>5, SeqsTyped DEF Sound, Kept
  <2>7. w.units <= CostAt(cs[k], q)
    BY <2>1, <2>5, <2>6
  <2> QED BY <2>7 DEF q
<1> QED BY <1>1 DEF WrittenOK

----------------------------------------------------------------------------
(***************************************************************************)
(* Whatever a caller writes ahead of its own address, the request is       *)
(* metered on that address or on Shared.                                   *)
(***************************************************************************)
LEMMA ProxiesAre ==
  \E m \in Nat : /\ Proxies \in Seq({NotAnAddress}) /\ Len(Proxies) = m /\ m + 1 >= Hops
                 /\ \A i \in 1..m : Proxies[i] = NotAnAddress
<1>1. CASE Hops = 0
  <2>1. 1..(Hops - 1) = 1..0
    BY <1>1
  <2>2. Proxies = [i \in 1..0 |-> NotAnAddress]
    BY <2>1 DEF Proxies
  <2>3. Proxies \in Seq({NotAnAddress}) /\ Len(Proxies) = 0
    BY <2>2
  <2> QED BY <1>1, <2>3
<1>2. CASE Hops # 0
  <2>1. Hops - 1 \in Nat
    BY <1>2, LimitsAssumption
  <2>2. Proxies = [i \in 1..(Hops - 1) |-> NotAnAddress]
    BY DEF Proxies
  <2>3. Proxies \in Seq({NotAnAddress}) /\ Len(Proxies) = Hops - 1
    BY <2>1, <2>2
  <2>4. (Hops - 1) + 1 >= Hops
    BY LimitsAssumption
  <2> QED BY <2>1, <2>2, <2>3, <2>4
<1> QED BY <1>1, <1>2

LEMMA VouchedKey ==
  ASSUME NEW n \in Network, NEW chain \in Vouched(n)
  PROVE  ResolveKey(chain) \in {n, Shared}
<1> DEFINE Entry == Network \cup {NotAnAddress, Blank}
<1>1. PICK pad \in Pad : chain = pad \o <<n>> \o Proxies
  BY DEF Vouched
<1>2. PICK m \in Nat : /\ Proxies \in Seq({NotAnAddress}) /\ Len(Proxies) = m /\ m + 1 >= Hops
                       /\ \A i \in 1..m : Proxies[i] = NotAnAddress
  BY ProxiesAre
<1> DEFINE p == Len(pad) + 1
           head == pad \o <<n>>
<1>3. pad \in Seq(Entry) /\ Len(pad) \in Nat
  BY ChainAssumption
<1>4. head \in Seq(Entry) /\ Len(head) = p /\ head[p] = n
  BY <1>3
<1>5. Proxies \in Seq(Entry)
  BY <1>2
<1>6. chain = head \o Proxies
  BY <1>1
<1> HIDE DEF head
<1>7. p \in Nat /\ p >= 1
  BY <1>3
<1> HIDE DEF p
<1>8. /\ chain \in Seq(Entry) /\ Len(chain) = p + m
      /\ \A i \in 1..p : chain[i] = head[i]
      /\ \A i \in (p + 1)..(p + m) : chain[i] = Proxies[i - p]
  <2>0. head \o Proxies \in Seq(Entry) /\ Len(head \o Proxies) = Len(head) + Len(Proxies)
    <3> HIDE DEF Entry
    <3> QED BY <1>4, <1>5
  <2>1. chain \in Seq(Entry) /\ Len(chain) = p + m
    BY <1>2, <1>4, <1>6, <2>0
  <2>2. \A i \in 1..(Len(head) + Len(Proxies)) :
          chain[i] = IF i <= Len(head) THEN head[i] ELSE Proxies[i - Len(head)]
    BY <1>4, <1>5, <1>6
  <2>3. ASSUME NEW i \in 1..p PROVE chain[i] = head[i]
    <3>1. i \in 1..(p + m) /\ i <= p
      BY <1>2, <1>7
    <3> QED BY <1>2, <1>4, <2>2, <3>1
  <2>4. ASSUME NEW i \in (p + 1)..(p + m) PROVE chain[i] = Proxies[i - p]
    <3>1. i \in 1..(p + m) /\ ~(i <= p)
      BY <1>2, <1>7
    <3> QED BY <1>2, <1>4, <2>2, <3>1
  <2> QED BY <2>1, <2>3, <2>4
<1>9. chain[p] = n
  BY <1>4, <1>7, <1>8
<1>10. ASSUME NEW i \in (p + 1)..(p + m) PROVE chain[i] = NotAnAddress
  <2>1. i - p \in 1..m
    BY <1>2, <1>7
  <2> QED BY <1>2, <1>8, <2>1
<1>11. DOMAIN chain = 1..(p + m)
  BY <1>2, <1>7, <1>8
<1>12. NotAnAddress # Blank /\ n # Blank /\ NotAnAddress \notin Network
  BY ChainAssumption
<1>13. ASSUME NEW i \in DOMAIN chain, chain[i] # Blank, Seen(chain, i) = Hops, chain[i] \in Network
       PROVE  chain[i] = n
  <2>1. CASE i < p
    <3> DEFINE seen == {j \in i..Len(chain) : chain[j] # Blank}
               tail == p..(p + m)
    <3>1. i \in Nat /\ i \in i..(p + m) /\ tail \subseteq i..(p + m) /\ i \notin tail
      BY <1>2, <1>7, <1>11, <2>1
    <3>2. \A j \in tail : chain[j] # Blank
      <4>1. \A j \in tail : j = p \/ j \in (p + 1)..(p + m)
        BY <1>2, <1>7
      <4> QED BY <1>9, <1>10, <1>12, <4>1
    <3>3. IsFiniteSet(tail) /\ Cardinality(tail) = m + 1
      <4>1. p \in Int /\ p + m \in Int /\ p <= p + m /\ p + m - p + 1 = m + 1
        BY <1>2, <1>7
      <4> QED BY <4>1, FS_Interval
    <3>4. tail \cup {i} \subseteq seen
      BY <1>8, <1>13, <3>1, <3>2
    <3>5. IsFiniteSet(seen)
      <4>1. i \in Int /\ p + m \in Int
        BY <1>2, <1>7, <3>1
      <4>2. IsFiniteSet(i..(p + m))
        BY <4>1, FS_Interval
      <4> QED BY <1>8, <4>2, FS_Subset
    <3> HIDE DEF tail, seen
    <3>6. Cardinality(tail \cup {i}) = m + 2 /\ IsFiniteSet(tail \cup {i})
      <4>1. Cardinality(tail \cup {i}) = m + 1 + 1 /\ IsFiniteSet(tail \cup {i})
        BY <3>1, <3>3, FS_AddElement
      <4> QED BY <1>2, <4>1
    <3>7. m + 2 <= Cardinality(seen) /\ Cardinality(seen) \in Nat
      BY <3>4, <3>5, <3>6, FS_Subset, FS_CardinalityType
    <3>8. Cardinality(seen) = Hops
      BY <1>13 DEF Seen, seen
    <3> QED BY <1>2, <3>7, <3>8, LimitsAssumption
  <2>2. CASE i = p
    BY <1>9, <2>2
  <2>3. CASE i > p
    <3>1. i \in (p + 1)..(p + m)
      BY <1>2, <1>7, <1>11, <2>3
    <3> QED BY <1>10, <1>12, <1>13, <3>1
  <2> QED BY <1>7, <1>11, <2>1, <2>2, <2>3
<1>14. Selected(chain) \cap Network \subseteq {n}
  BY <1>13 DEF Selected
<1> QED BY <1>14 DEF ResolveKey

LEMMA UnvouchedKey ==
  ASSUME NEW chain \in Unvouched
  PROVE  ResolveKey(chain) = Shared
<1> DEFINE Entry == {NotAnAddress, Blank}
<1>1. PICK m \in Nat : /\ Proxies \in Seq({NotAnAddress}) /\ Len(Proxies) = m /\ m + 1 >= Hops
                       /\ \A i \in 1..m : Proxies[i] = NotAnAddress
  BY ProxiesAre
<1>2. Proxies \in Seq(Entry)
  BY <1>1
<1>3. chain \in Seq(Entry)
  <2>1. <<NotAnAddress>> \o Proxies \in Seq(Entry)
    BY <1>2
  <2>2. Append(Proxies, Blank) \in Seq(Entry)
    BY <1>2
  <2> QED BY <2>1, <2>2 DEF Unvouched
<1>4. \A i \in DOMAIN chain : chain[i] \in Entry
  BY <1>3
<1>5. Selected(chain) \cap Network = {}
  BY <1>4, ChainAssumption DEF Selected
<1> QED BY <1>5 DEF ResolveKey

----------------------------------------------------------------------------
(***************************************************************************)
(* The invariant, step by step.                                            *)
(***************************************************************************)

\* A step that admits and writes nothing, and takes no entry from anybody.
LEMMA StepKeeps ==
  ASSUME IngestInv, now' = now, config' \in {"unread", "read"}, arrivals' \in Nat,
         arrivals <= arrivals', BucketsOK(buckets', now), AllGrown(buckets, buckets', Horizon),
         admitted' = admitted, written' = written, reading' \subseteq reading
  PROVE  IngestInv'
<1>1. now \in Nat /\ arrivals \in Nat
  BY ClockNat DEF IngestInv, ClockOK
<1>2. ClockOK(now', config', arrivals')
  BY DEF IngestInv, ClockOK
<1>3. EntriesOK(buckets', admitted, reading, now)
  BY <1>1, GrownEntries DEF IngestInv
<1>4. EntriesOK(buckets', admitted, reading', now)
  BY <1>3 DEF EntriesOK
<1>5. TicketsOK(admitted, reading', now, arrivals')
  <2>1. \A t \in admitted \cup reading : t.nr <= arrivals'
    BY <1>1, TicketHalves DEF IngestInv, TicketsOK, Ticket
  <2> QED BY <2>1 DEF IngestInv, TicketsOK
<1>6. WrittenOK(buckets', written, admitted, reading')
  BY <1>1, GrownWritten DEF IngestInv
<1> QED BY <1>2, <1>4, <1>5, <1>6 DEF IngestInv

\* A rejection may sweep, and takes no entry from anybody.
LEMMA RejectKeeps ==
  ASSUME now \in Nat, NEW bs, BucketsOK(bs, now), NEW kind, NEW k, NEW channel, NEW at, NEW swept,
         Reject(kind, k, channel, at, bs, swept)
  PROVE  /\ BucketsOK(buckets', now)
         /\ AllGrown(bs, buckets', Horizon) /\ AllAlike(bs, buckets', Horizon)
<1>1. CASE buckets' = bs
  BY <1>1, AllStays
<1>2. CASE buckets' = Prune(bs)
  <2> DEFINE cs == Prune(bs)
  <2>1. cs \in [Key -> Bucket] /\ \A j \in Key : Sound(cs[j], now) /\ Slid(bs[j], cs[j], Horizon)
    BY PruneSlides
  <2> HIDE DEF cs
  <2>2. BucketsOK(cs, now) /\ AllGrown(bs, cs, Horizon) /\ AllAlike(bs, cs, Horizon)
    BY <2>1, SlideOK
  <2> QED BY <1>2, <2>2 DEF cs
<1> QED BY <1>1, <1>2 DEF Reject

LEMMA NotFoundKeeps ==
  ASSUME IngestInv, NotFound
  PROVE  IngestInv'
<1>1. now \in Nat /\ arrivals \in Nat
  BY ClockNat DEF IngestInv, ClockOK
<1>2. buckets' = buckets /\ AllGrown(buckets, buckets, Horizon)
  BY <1>1, AllStays DEF NotFound, IngestInv
<1> QED BY <1>1, <1>2, StepKeeps DEF NotFound, IngestInv, ClockOK

LEMMA AbandonKeeps ==
  ASSUME IngestInv, NEW t \in reading, Abandon(t)
  PROVE  IngestInv'
<1>1. now \in Nat /\ arrivals \in Nat
  BY ClockNat DEF IngestInv, ClockOK
<1>2. buckets' = buckets /\ AllGrown(buckets, buckets, Horizon)
  BY <1>1, AllStays DEF Abandon, IngestInv
<1> QED BY <1>1, <1>2, StepKeeps DEF Abandon, IngestInv, ClockOK

\* A request enters one entry in each of its buckets, and its ticket finds them.
LEMMA CommitTickets ==
  ASSUME now \in Nat, NEW bs, BucketsOK(bs, now), NEW k \in Key, BucketsOK(Commit(bs, k), now),
         AllGrown(bs, Commit(bs, k), Horizon),
         NEW adm, NEW rd, NEW arr \in Nat, TicketsOK(adm, rd, now, arr), EntriesOK(bs, adm, rd, now),
         NEW t \in Ticket, t.at = now, t.nr = arr + 1, t.key = k, k # Shared => t.key = t.network,
         \A j \in Meters(t) : HalfFor(t, j) = Half(CommitHit(bs[j]))
  PROVE  /\ TicketsOK(adm \cup {t}, rd \cup {t}, now, arr + 1)
         /\ EntriesOK(Commit(bs, k), adm \cup {t}, rd \cup {t}, now)
         /\ t \notin adm
<1> DEFINE cs == Commit(bs, k)
<1>1. /\ Horizon \in Int /\ now > Horizon /\ Horizon = now - Window
  BY LimitsAssumption DEF Horizon
<1>2. \A u \in adm \cup rd : u \in Ticket /\ u.at <= now /\ u.nr <= arr
  BY DEF TicketsOK
<1>3. t \notin adm \cup rd
  BY <1>2, TicketHalves DEF Ticket
<1>4. TicketsOK(adm \cup {t}, rd \cup {t}, now, arr + 1)
  <2>1. IsFiniteSet(adm \cup {t})
    BY FS_AddElement DEF TicketsOK
  <2>2. \A u \in adm \cup rd : u.nr <= arr + 1
    BY <1>2 DEF Ticket
  <2>3. t.nr <= arr + 1
    OBVIOUS
  <2>4. t.at <= now /\ t.at > now - Window
    BY <1>1
  <2> QED BY <2>1, <2>2, <2>3, <2>4 DEF TicketsOK
<1>5. EntriesOK(cs, adm, rd, now)
  BY GrownEntries
<1>6. ASSUME NEW j \in Meters(t)
      PROVE  /\ j \in Key /\ cs[j] = CommitHit(bs[j]) /\ Sound(bs[j], now)
             /\ HalfFor(t, j) = [born |-> cs[j].born, sequence |-> End(bs[j])]
             /\ cs[j].born = (IF bs[j] = NoBucket THEN now ELSE bs[j].born)
             /\ End(cs[j]) = End(bs[j]) + 1 /\ End(bs[j]) \in Nat
             /\ End(bs[j]) \in Live(cs[j], Horizon) /\ HitAt(cs[j], End(bs[j])) = now
             /\ cs[j].born <= now
  <2>1. j \in Key
    BY TicketHalves
  <2>2. cs[j] = CommitHit(bs[j])
    BY <2>1 DEF Commit, Meters
  <2>3. Sound(bs[j], now)
    BY <2>1 DEF BucketsOK
  <2>4. End(bs[j]) \in Nat
    BY <2>3, ShapedNumbers, NumbersAdd DEF Sound, Kept
  <2> HIDE DEF cs
  <2>5. /\ cs[j].born = (IF bs[j] = NoBucket THEN now ELSE bs[j].born)
        /\ End(cs[j]) = End(bs[j]) + 1 /\ Seqs(cs[j]) = Seqs(bs[j]) \cup {End(bs[j])}
        /\ HitAt(cs[j], End(bs[j])) = now
        /\ Half(cs[j]) = [born |-> cs[j].born, sequence |-> End(bs[j])]
        /\ Sound(cs[j], now)
    BY <2>2, <2>3, CommitEnters
  <2>6. End(bs[j]) \in Live(cs[j], Horizon)
    BY <1>1, <2>5 DEF Live
  <2>7. cs[j].born <= now
    BY <2>5 DEF Sound, Kept, Shaped
  <2> QED BY <2>1, <2>2, <2>3, <2>4, <2>5, <2>6, <2>7
<1> HIDE DEF cs
<1>7. ASSUME NEW j \in Meters(t) PROVE Finds(cs, t, j, now - Window) /\ Issued(cs, t, j)
  <2>1. HalfFor(t, j).born = cs[j].born /\ HalfFor(t, j).sequence = End(bs[j])
    BY <1>6
  <2>2. Finds(cs, t, j, now - Window)
    BY <1>1, <1>6, <2>1 DEF Finds
  <2>3. End(bs[j]) < End(cs[j])
    BY <1>6
  <2> QED BY <1>6, <2>1, <2>2, <2>3 DEF Issued
<1>8. ASSUME NEW u \in adm \cup rd, NEW j \in Meters(t) \cap Meters(u), HalfFor(t, j) = HalfFor(u, j)
      PROVE  FALSE
  <2>1. HalfFor(u, j).born = cs[j].born /\ HalfFor(u, j).sequence = End(bs[j])
    BY <1>6, <1>8
  <2>2. Issued(bs, u, j)
    BY DEF EntriesOK
  <2>3. CASE bs[j] # NoBucket
    <3>1. End(bs[j]) < End(bs[j])
      BY <1>6, <2>1, <2>2, <2>3 DEF Issued
    <3> QED BY <1>6, <3>1
  <2>4. CASE bs[j] = NoBucket
    <3>1. u.at = now
      BY <1>2, <1>6, <2>1, <2>2, <2>4 DEF Issued, Ticket
    <3>2. u \in adm
      BY <1>1, <3>1 DEF TicketsOK
    <3>3. Finds(bs, u, j, now - Window)
      BY <3>2 DEF EntriesOK
    <3>4. HalfFor(u, j).sequence \in Seqs(NoBucket)
      BY <2>4, <3>3 DEF Finds, Live
    <3> QED BY <3>4, NothingSound
  <2> QED BY <2>3, <2>4
<1>9. EntriesOK(cs, adm \cup {t}, rd \cup {t}, now)
  <2>1. \A u \in adm \cup {t} : \A j \in Meters(u) : Finds(cs, u, j, now - Window)
    BY <1>5, <1>7 DEF EntriesOK
  <2>2. \A u \in adm \cup rd \cup {t} : \A j \in Meters(u) : Issued(cs, u, j)
    BY <1>5, <1>7 DEF EntriesOK
  <2>3. \A u, v \in adm \cup rd \cup {t} : \A j \in Meters(u) \cap Meters(v) :
          HalfFor(u, j) = HalfFor(v, j) => u = v
    BY <1>5, <1>8 DEF EntriesOK
  <2> QED BY <2>1, <2>2, <2>3 DEF EntriesOK
<1> QED BY <1>3, <1>4, <1>9 DEF cs

\* A request that is entered: on key k, in the buckets bs of its scene.
Entering(bs, k) ==
  /\ ~ClientFull(bs, k) /\ ~SharedFull(bs)
  /\ k # Shared => bs[k] # NoBucket \/ Cardinality(Tracked(bs)) < MaxKeys
  /\ buckets' = Commit(bs, k) /\ answer' = NoAnswer /\ written' = written
  /\ \E t \in Ticket :
       /\ t.at = now /\ t.nr = arrivals + 1 /\ t.key = k /\ (k # Shared => t.key = t.network)
       /\ \A j \in Meters(t) : HalfFor(t, j) = Half(CommitHit(bs[j]))
       /\ reading' = reading \cup {t} /\ admitted' = admitted \cup {t}

\* A request that is not: the window of j is full.
Rejecting(bs, j) ==
  /\ LiveHits(bs[j]) >= Allowance(j) /\ Recent(bs[j])
  /\ UNCHANGED <<reading, admitted, written>>
  /\ \E channel, swept : Reject("window", j, channel, bs[j].hits[bs[j].start + 1], bs, swept)

\* The scene of a request: every bucket as it was but for what has left the window.
SceneOf(bs) ==
  /\ bs \in [Key -> Bucket] /\ BucketsOK(bs, now)
  /\ AllGrown(buckets, bs, Horizon) /\ AllAlike(buckets, bs, Horizon)

LEMMA MeteredIs ==
  ASSUME IngestInv, NEW n \in Key, NEW chain, ResolveKey(chain) \in {n, Shared}, Metered(n, chain)
  PROVE  /\ now' = now /\ config' \in {"unread", "read"} /\ arrivals' = arrivals + 1
         /\ \E bs : \E k \in {n, Shared} :
              /\ SceneOf(bs) /\ Recent(bs[k]) /\ Recent(bs[Shared])
              /\ Entering(bs, k) \/ Rejecting(bs, k) \/ Rejecting(bs, Shared)
<1> DEFINE key == ResolveKey(chain)
           scene == Scene(key)
           bs == scene.buckets
           k == scene.key
           after == Commit(bs, k)
           t == [nr |-> arrivals', at |-> now, network |-> n, key |-> k, degraded |-> scene.degraded,
                 own |-> Half(after[k]), shared |-> Half(after[Shared])]
<1>1. now \in Nat /\ arrivals \in Nat /\ now \in Window..MaxTime /\ BucketsOK(buckets, now)
  BY ClockNat DEF IngestInv, ClockOK
<1>2. key \in Key /\ Shared \in Key /\ key \in {n, Shared}
  BY DEF Key
<1>3. Arrive
  BY DEF Metered
<1>4. now' = now /\ config' \in {"unread", "read"} /\ arrivals' = arrivals + 1 /\ written' = written
  BY <1>3 DEF Arrive, ReadConfig, IngestInv, ClockOK
<1>5. \/ /\ ClientFull(bs, k)
         /\ Reject("window", k, "window:client", bs[k].hits[bs[k].start + 1], bs, scene.swept)
         /\ UNCHANGED <<reading, admitted>>
      \/ /\ ~ClientFull(bs, k) /\ SharedFull(bs)
         /\ Reject("window", Shared, SharedChannel("window", scene.degraded),
                   bs[Shared].hits[bs[Shared].start + 1], bs, scene.swept)
         /\ UNCHANGED <<reading, admitted>>
      \/ /\ ~ClientFull(bs, k) /\ ~SharedFull(bs)
         /\ buckets' = after
         /\ reading' = reading \cup {t}
         /\ admitted' = admitted \cup {t}
         /\ answer' = NoAnswer
  BY DEF Metered
<1>6. /\ bs \in [Key -> Bucket] /\ BucketsOK(bs, now) /\ k \in {key, Shared}
      /\ \A j \in Key : Sound(bs[j], now) /\ Slid(buckets[j], bs[j], Horizon)
      /\ k # Shared => bs[k] # NoBucket \/ Cardinality(Tracked(bs)) < MaxKeys
      /\ scene.degraded \in BOOLEAN /\ Recent(bs[k]) /\ Recent(bs[Shared])
  BY <1>1, <1>2, SceneSlides
<1> HIDE DEF key, scene, bs, k
<1>7. SceneOf(bs)
  BY <1>1, <1>6, SlideOK DEF SceneOf
<1>8. k \in {n, Shared} /\ k \in Key
  BY <1>2, <1>6
<1>9. CASE ClientFull(bs, k) /\ Reject("window", k, "window:client", bs[k].hits[bs[k].start + 1], bs, scene.swept)
           /\ UNCHANGED <<reading, admitted>>
  <2>1. LiveHits(bs[k]) >= Allowance(k)
    BY <1>9 DEF ClientFull, Allowance
  <2>2. Rejecting(bs, k)
    BY <1>4, <1>6, <1>9, <2>1 DEF Rejecting
  <2> QED BY <1>4, <1>6, <1>7, <1>8, <2>2
<1>10. CASE /\ SharedFull(bs)
            /\ Reject("window", Shared, SharedChannel("window", scene.degraded),
                      bs[Shared].hits[bs[Shared].start + 1], bs, scene.swept)
            /\ UNCHANGED <<reading, admitted>>
  <2>1. LiveHits(bs[Shared]) >= Allowance(Shared)
    BY <1>10 DEF SharedFull, Allowance
  <2>2. Rejecting(bs, Shared)
    BY <1>4, <1>6, <1>10, <2>1 DEF Rejecting
  <2> QED BY <1>4, <1>6, <1>7, <1>8, <2>2
<1>11. CASE /\ ~ClientFull(bs, k) /\ ~SharedFull(bs)
            /\ buckets' = after
            /\ reading' = reading \cup {t}
            /\ admitted' = admitted \cup {t}
            /\ answer' = NoAnswer
  <2>1. \A j \in {k, Shared} : after[j] = CommitHit(bs[j])
    BY <1>1, <1>2, <1>6, <1>8, <1>11, CommitOK
  <2>2. \A j \in {k, Shared} : Half(CommitHit(bs[j])) \in Halves
    <3>1. ASSUME NEW j \in {k, Shared} PROVE Half(CommitHit(bs[j])) \in Halves
      <4> DEFINE c == CommitHit(bs[j])
      <4>1. Sound(bs[j], now)
        BY <1>2, <1>6, <1>8
      <4>2. Sound(c, now) /\ Half(c) = [born |-> c.born, sequence |-> End(bs[j])]
        BY <1>1, <4>1, CommitEnters
      <4>3. End(bs[j]) \in Nat
        BY <4>1, ShapedNumbers, NumbersAdd DEF Sound, Kept
      <4> HIDE DEF c
      <4>4. c.born \in Nat
        BY <4>2 DEF Sound, Kept, Shaped, Bucket
      <4> QED BY <4>2, <4>3, <4>4 DEF c, Halves
    <3> QED BY <3>1
  <2>3. t \in Ticket
    BY <1>1, <1>4, <1>6, <1>8, <2>1, <2>2 DEF Ticket
  <2>4. /\ t.at = now /\ t.nr = arrivals + 1 /\ t.key = k /\ t.network = n
        /\ t.own = Half(CommitHit(bs[k])) /\ t.shared = Half(CommitHit(bs[Shared]))
    BY <1>4, <2>1
  <2> HIDE DEF t
  <2>5. \A j \in Meters(t) : HalfFor(t, j) = Half(CommitHit(bs[j]))
    BY <2>4 DEF HalfFor, Meters
  <2>6. Entering(bs, k)
    BY <1>4, <1>6, <1>8, <1>11, <2>3, <2>4, <2>5 DEF Entering
  <2> QED BY <1>4, <1>6, <1>7, <1>8, <2>6
<1> HIDE DEF after, t
<1> QED BY <1>5, <1>9, <1>10, <1>11

LEMMA RejectingKeeps ==
  ASSUME IngestInv, now' = now, config' \in {"unread", "read"}, arrivals' = arrivals + 1,
         NEW bs, SceneOf(bs), NEW j, Rejecting(bs, j)
  PROVE  IngestInv' /\ AllAlike(buckets, buckets', Horizon)
<1>1. now \in Nat /\ arrivals \in Nat /\ BucketsOK(buckets, now)
  BY ClockNat DEF IngestInv, ClockOK
<1>2. BucketsOK(buckets', now) /\ AllGrown(bs, buckets', Horizon) /\ AllAlike(bs, buckets', Horizon)
  BY <1>1, RejectKeeps DEF Rejecting, SceneOf
<1>3. AllGrown(buckets, buckets', Horizon)
  BY <1>1, <1>2, AllGrows DEF SceneOf
<1>4. AllAlike(buckets, buckets', Horizon)
  BY <1>2, AlikeAlike DEF SceneOf, AllAlike
<1>5. arrivals' \in Nat /\ arrivals <= arrivals'
  BY <1>1
<1>6. IngestInv'
  BY <1>2, <1>3, <1>5, StepKeeps DEF Rejecting
<1> QED BY <1>4, <1>6

LEMMA EnteringKeeps ==
  ASSUME IngestInv, now' = now, config' \in {"unread", "read"}, arrivals' = arrivals + 1,
         NEW bs, SceneOf(bs), NEW k \in Key, Entering(bs, k)
  PROVE  IngestInv'
<1>1. now \in Nat /\ arrivals \in Nat /\ BucketsOK(buckets, now)
  BY ClockNat DEF IngestInv, ClockOK
<1>2. PICK t \in Ticket :
        /\ t.at = now /\ t.nr = arrivals + 1 /\ t.key = k /\ (k # Shared => t.key = t.network)
        /\ \A j \in Meters(t) : HalfFor(t, j) = Half(CommitHit(bs[j]))
        /\ reading' = reading \cup {t} /\ admitted' = admitted \cup {t}
  BY DEF Entering
<1>3. /\ BucketsOK(bs, now) /\ AllGrown(buckets, bs, Horizon)
  BY DEF SceneOf
<1>4. BucketsOK(Commit(bs, k), now) /\ AllGrown(bs, Commit(bs, k), Horizon)
  BY <1>1, <1>3, CommitOK DEF Entering
<1>5. EntriesOK(bs, admitted, reading, now)
  BY <1>1, <1>3, GrownEntries DEF IngestInv
<1>6. buckets' = Commit(bs, k) /\ written' = written
  BY DEF Entering
<1>7. /\ TicketsOK(admitted', reading', now, arrivals + 1)
      /\ EntriesOK(buckets', admitted', reading', now)
      /\ t \notin admitted
  BY <1>1, <1>2, <1>3, <1>4, <1>5, <1>6, CommitTickets DEF IngestInv
<1>8. WrittenOK(buckets', written, admitted, reading)
  <2>1. AllGrown(buckets, buckets', Horizon)
    BY <1>1, <1>3, <1>4, <1>6, AllGrows
  <2> QED BY <1>1, <1>4, <1>6, <2>1, GrownWritten DEF IngestInv
<1>9. WrittenOK(buckets', written', admitted', reading')
  BY <1>2, <1>6, <1>7, <1>8 DEF WrittenOK
<1>10. ClockOK(now', config', arrivals')
  BY <1>1 DEF IngestInv, ClockOK
<1>11. BucketsOK(buckets', now')
  BY <1>4, <1>6
<1>12. WithinOK(written')
  BY <1>6 DEF IngestInv
<1> QED BY <1>7, <1>9, <1>10, <1>11, <1>12 DEF IngestInv

LEMMA MeteredKeeps ==
  ASSUME IngestInv, NEW n \in Key, NEW chain, ResolveKey(chain) \in {n, Shared}, Metered(n, chain)
  PROVE  IngestInv'
<1>1. /\ now' = now /\ config' \in {"unread", "read"} /\ arrivals' = arrivals + 1
      /\ \E bs : \E k \in {n, Shared} :
           /\ SceneOf(bs) /\ Recent(bs[k]) /\ Recent(bs[Shared])
           /\ Entering(bs, k) \/ Rejecting(bs, k) \/ Rejecting(bs, Shared)
  BY MeteredIs
<1> QED BY <1>1, EnteringKeeps, RejectingKeeps DEF Key

\* Each bucket of the ticket pays if it can, and no other bucket changes.
LEMMA PaidPays ==
  ASSUME now \in Nat, BucketsOK(buckets, now), NEW t \in Ticket, NEW n \in Nat
  PROVE  LET bs == Paid(t, n) IN
         /\ BucketsOK(bs, now) /\ AllGrown(buckets, bs, Horizon)
         /\ \A j \in Key \ Meters(t) : bs[j] = buckets[j]
         /\ \A k \in Meters(t) :
              /\ Charges(buckets, k, HalfFor(t, k)) => Pays(buckets[k], bs[k], HalfFor(t, k), n)
              /\ ~Charges(buckets, k, HalfFor(t, k)) => Alike(buckets[k], bs[k], Horizon)
<1> DEFINE own == IF t.key = Shared THEN buckets ELSE ApplyRecordCharge(buckets, t.key, t.own, n)
           bs == ApplyRecordCharge(own, Shared, t.shared, n)
<1>1. t.key \in Key /\ Shared \in Key /\ t.own.sequence \in Nat /\ t.shared.sequence \in Nat
  BY DEF Ticket, Halves, Key
<1>2. /\ BucketsOK(own, now) /\ AllGrown(buckets, own, Horizon)
      /\ \A j \in Key \ {t.key} : own[j] = buckets[j]
      /\ t.key = Shared => own = buckets
      /\ t.key # Shared /\ Charges(buckets, t.key, t.own) => Pays(buckets[t.key], own[t.key], t.own, n)
      /\ t.key # Shared /\ ~Charges(buckets, t.key, t.own) => Alike(buckets[t.key], own[t.key], Horizon)
  <2>1. CASE t.key = Shared
    BY <2>1, AllStays
  <2>2. CASE t.key # Shared
    <3>1. own = ApplyRecordCharge(buckets, t.key, t.own, n)
      BY <2>2
    <3> DEFINE k == t.key
               half == t.own
    <3> HIDE DEF own, k, half
    <3>2. k \in Key /\ half.sequence \in Nat /\ own = ApplyRecordCharge(buckets, k, half, n)
      BY <1>1, <3>1 DEF k, half
    <3>3. BucketsOK(own, now) /\ AllGrown(buckets, own, Horizon)
      BY <3>2, ApplyPays
    <3>4. \A j \in Key \ {k} : own[j] = buckets[j]
      BY <3>2, ApplyPays
    <3>5. /\ Charges(buckets, k, half) => Pays(buckets[k], own[k], half, n)
          /\ ~Charges(buckets, k, half) => Alike(buckets[k], own[k], Horizon)
      BY <3>2, ApplyPays
    <3> QED BY <2>2, <3>3, <3>4, <3>5 DEF k, half
  <2> HIDE DEF own
  <2> QED BY <2>1, <2>2
<1> HIDE DEF own
<1>3. own[Shared] = buckets[Shared]
  BY <1>1, <1>2
<1>4. Charges(own, Shared, t.shared) <=> Charges(buckets, Shared, t.shared)
  BY <1>3 DEF Charges, Pointed
<1>5. /\ BucketsOK(bs, now) /\ AllGrown(own, bs, Horizon)
      /\ \A j \in Key \ {Shared} : bs[j] = own[j]
      /\ Charges(buckets, Shared, t.shared) => Pays(buckets[Shared], bs[Shared], t.shared, n)
      /\ ~Charges(buckets, Shared, t.shared) => Alike(buckets[Shared], bs[Shared], Horizon)
  <2> DEFINE half == t.shared
             k == Shared
  <2> HIDE DEF bs, half, k
  <2>1. half.sequence \in Nat /\ bs = ApplyRecordCharge(own, k, half, n) /\ BucketsOK(own, now)
       /\ k \in Key
    BY <1>1, <1>2 DEF bs, half, k
  <2>2. BucketsOK(bs, now) /\ AllGrown(own, bs, Horizon)
    BY <2>1, ApplyPays
  <2>3. \A j \in Key \ {k} : bs[j] = own[j]
    BY <2>1, ApplyPays
  <2>4. /\ Charges(own, k, half) => Pays(own[k], bs[k], half, n)
        /\ ~Charges(own, k, half) => Alike(own[k], bs[k], Horizon)
    BY <2>1, ApplyPays
  <2> QED BY <1>3, <1>4, <2>2, <2>3, <2>4 DEF half, k
<1>6. bs = Paid(t, n)
  BY DEF Paid, own
<1> HIDE DEF bs
<1>7. AllGrown(buckets, bs, Horizon)
  BY <1>2, <1>5, AllGrows
<1>8. \A j \in Key \ Meters(t) : bs[j] = buckets[j]
  BY <1>2, <1>5 DEF Meters
<1>9. ASSUME NEW k \in Meters(t)
      PROVE  /\ Charges(buckets, k, HalfFor(t, k)) => Pays(buckets[k], bs[k], HalfFor(t, k), n)
             /\ ~Charges(buckets, k, HalfFor(t, k)) => Alike(buckets[k], bs[k], Horizon)
  <2>1. CASE k = Shared
    BY <1>5, <2>1 DEF HalfFor
  <2>2. CASE k # Shared
    <3>1. k = t.key /\ bs[k] = own[k] /\ HalfFor(t, k) = t.own
      BY <1>1, <1>5, <2>2 DEF HalfFor, Meters
    <3> QED BY <1>2, <2>2, <3>1
  <2> QED BY <2>1, <2>2
<1> QED BY <1>5, <1>6, <1>7, <1>8, <1>9

\* A request in the window has something to charge.
LEMMA RecentCharges ==
  ASSUME IngestInv, NEW t \in reading, t.at > Horizon, NEW k \in Meters(t)
  PROVE  /\ Charges(buckets, k, HalfFor(t, k)) /\ t \in admitted
         /\ HalfFor(t, k).sequence \in Live(buckets[k], Horizon)
<1> DEFINE b == buckets[k]
           r == RetireExpiredHits(b)
           q == HalfFor(t, k).sequence
<1>1. now \in Nat /\ BucketsOK(buckets, now)
  BY ClockNat DEF IngestInv
<1>2. t \in admitted /\ t \in Ticket
  BY DEF IngestInv, TicketsOK, Horizon
<1>3. k \in Key
  BY <1>2, TicketHalves
<1>4. Finds(buckets, t, k, Horizon)
  BY <1>2 DEF IngestInv, EntriesOK, Horizon
<1>5. b.born = HalfFor(t, k).born /\ q \in Live(b, Horizon)
  BY <1>4 DEF Finds
<1>6. Sound(b, now)
  BY <1>1, <1>3 DEF BucketsOK
<1>7. b # NoBucket
  BY <1>5, NothingSound, <1>1 DEF Live
<1>8. Sound(r, now) /\ q \in Seqs(r)
  <2> HIDE DEF b, q
  <2> QED BY <1>1, <1>5, <1>6, RetireKeeps DEF Live
<1> HIDE DEF r, q
<1>9. LiveHits(r) > 0
  <2>1. Numbered(r)
    BY <1>8, ShapedNumbers DEF Sound, Kept
  <2>2. LiveHits(r) \in Nat /\ r.retired \in Nat
    BY <2>1, NumbersAdd DEF Numbered
  <2> QED BY <1>8, <2>2 DEF Seqs, End
<1> QED BY <1>2, <1>5, <1>7, <1>9 DEF Charges, Pointed, r, q

----------------------------------------------------------------------------
(***************************************************************************)
(* What was written is within what the buckets sum up.                     *)
(***************************************************************************)
LEMMA UnitsSum ==
  ASSUME NEW batches
  PROVE  Units(batches) = SumFunctionOnSet([w \in batches |-> w.units], batches)
BY DEF Units, SumFunction, FoldFunction, SumFunctionOnSet

LEMMA UnitsShrink ==
  ASSUME NEW batches, IsFiniteSet(batches), \A w \in batches : w.units \in Nat,
         NEW rest, rest \subseteq batches
  PROVE  Units(rest) <= Units(batches) /\ Units(rest) \in Nat /\ Units(batches) \in Nat
<1> DEFINE f == [w \in batches |-> w.units]
           g == [w \in rest |-> w.units]
           same == [w \in rest |-> w]
<1>1. IsFiniteSet(rest)
  BY FS_Subset
<1>2. Injects(same, g, rest, f, batches)
  BY DEF Injects
<1>3. SumFunctionOnSet(f, batches) \in Nat
  BY SumByChoice
<1>4. SumFunctionOnSet(g, rest) \in Nat
  BY <1>1, SumByChoice
<1> HIDE DEF same
<1>5. SumFunctionOnSet(g, rest) <= SumFunctionOnSet(f, batches)
  <2> HIDE DEF f, g
  <2> QED BY <1>1, <1>2, SumInjects
<1> QED BY <1>3, <1>4, <1>5, UnitsSum

LEMMA UnitsPaid ==
  ASSUME NEW clock, NEW bs, BucketsOK(bs, clock), NEW adm, NEW rd, NEW wr,
         EntriesOK(bs, adm, rd, clock), WrittenOK(bs, wr, adm, rd), NEW k \in Key
  PROVE  Units(PaidBy(wr, k)) <= bs[k].recordSum
<1> DEFINE b == bs[k]
           batches == PaidBy(wr, k)
           f == [w \in batches |-> w.units]
           m == [w \in batches |-> HalfFor(w.ticket, k).sequence]
<1>1. batches \subseteq wr /\ IsFiniteSet(batches)
  <2>1. batches \subseteq wr
    BY DEF PaidBy
  <2> QED BY <2>1, FS_Subset DEF WrittenOK
<1>2. Sound(b, clock)
  BY DEF BucketsOK
<1>3. ASSUME NEW w \in batches
      PROVE  /\ k \in Meters(w.ticket) /\ w.ticket \in adm /\ w.units \in Nat
             /\ Finds(bs, w.ticket, k, clock - Window)
             /\ w.units <= CostAt(b, m[w]) /\ m[w] \in Seqs(b) /\ m[w] = HalfFor(w.ticket, k).sequence
  <2>1. k \in Meters(w.ticket)
    BY DEF PaidBy, Meters
  <2>2. w.ticket \in adm /\ w.units \in Nat /\ w.units <= CostAt(b, HalfFor(w.ticket, k).sequence)
    BY <1>1, <2>1 DEF WrittenOK
  <2>3. Finds(bs, w.ticket, k, clock - Window)
    BY <2>1, <2>2 DEF EntriesOK
  <2> QED BY <2>1, <2>2, <2>3 DEF Finds, Live
<1> HIDE DEF batches, m
<1>4. ASSUME NEW v \in batches, NEW w \in batches, m[v] = m[w] PROVE v = w
  <2>1. HalfFor(v.ticket, k).sequence = HalfFor(w.ticket, k).sequence
    BY <1>3, <1>4
  <2>2. HalfFor(v.ticket, k).born = HalfFor(w.ticket, k).born
    BY <1>3 DEF Finds
  <2>3. HalfFor(v.ticket, k) \in Halves /\ HalfFor(w.ticket, k) \in Halves
    BY <1>1, <1>3, TicketHalves DEF WrittenOK
  <2>4. HalfFor(v.ticket, k) = HalfFor(w.ticket, k)
    BY <2>1, <2>2, <2>3 DEF Halves
  <2>5. v.ticket = w.ticket
    BY <1>3, <2>4 DEF EntriesOK
  <2> QED BY <1>1, <2>5 DEF WrittenOK
<1>5. \A q \in Seqs(b) : Costs(b)[q] \in Nat /\ Costs(b)[q] = CostAt(b, q)
  BY <1>2, SeqsTyped DEF Sound, Kept
<1>6. Injects(m, f, batches, Costs(b), Seqs(b))
  BY <1>3, <1>4, <1>5 DEF Injects
<1>7. IsFiniteSet(Seqs(b))
  BY <1>2, ShapedNumbers, SeqsFinite DEF Sound, Kept
<1>8. SumFunctionOnSet(f, batches) <= SumFunctionOnSet(Costs(b), Seqs(b))
  <2> HIDE DEF f, b
  <2> QED BY <1>1, <1>6, <1>7, SumInjects
<1>9. Units(batches) = SumFunctionOnSet(f, batches)
  BY UnitsSum
<1> QED BY <1>2, <1>8, <1>9 DEF batches, Sound, Kept, Balanced

\* A batch that is refused: the window of k, which it was charged to, is over.
Refusing(bs, t, k) ==
  /\ Charges(buckets, k, HalfFor(t, k)) /\ bs[k].recordSum > RecordAllowance(k)
  /\ written' = written
  /\ \E channel : Reject("records", k, channel, OldestCharged(bs[k]), Scanned(bs, k), FALSE)

\* A batch that is written: no window it was charged to is over.
Writing(bs, t, n) ==
  /\ \A k \in Meters(t) : Charges(buckets, k, HalfFor(t, k)) => bs[k].recordSum <= RecordAllowance(k)
  /\ buckets' = bs /\ answer' = [NoAnswer EXCEPT !.kind = "written"]
  /\ written' = IF t.at > Horizon THEN written \cup {[ticket |-> t, units |-> n]} ELSE written

LEMMA SettleIs ==
  ASSUME IngestInv, NEW t \in reading, NEW n \in Unit, Settle(t, n), NEW bs, bs = Paid(t, n)
  PROVE  /\ UNCHANGED <<now, config, arrivals, admitted>> /\ reading' = reading \ {t}
         /\ Writing(bs, t, n) \/ \E k \in Meters(t) : Refusing(bs, t, k)
<1>1. now \in Nat /\ BucketsOK(buckets, now) /\ t \in Ticket
  BY ClockNat DEF IngestInv, TicketsOK
<1>2. n \in Nat
  BY LimitsAssumption
<1>3. BucketsOK(bs, now)
  BY <1>1, <1>2, PaidPays
<1>4. \A k \in Meters(t) : bs[k].recordSum \in Nat /\ RecordAllowance(k) \in Nat
  <2>1. ASSUME NEW k \in Meters(t) PROVE bs[k].recordSum \in Nat
    <3>1. k \in Key
      BY <1>1, TicketHalves
    <3> QED BY <1>3, <3>1, ShapedNumbers DEF BucketsOK, Sound, Kept, Numbered
  <2> QED BY <2>1, LimitsAssumption DEF RecordAllowance
<1>5. UNCHANGED <<now, config, arrivals, admitted>> /\ reading' = reading \ {t}
  BY DEF Settle
<1>6. \/ /\ OverOwn(bs, t) /\ written' = written
         /\ Reject("records", t.key, "records:client", OldestCharged(bs[t.key]), Scanned(bs, t.key), FALSE)
      \/ /\ OverShared(bs, t) /\ written' = written
         /\ Reject("records", Shared, SharedChannel("records", t.degraded), OldestCharged(bs[Shared]),
                   Scanned(bs, Shared), FALSE)
      \/ /\ ~OverOwn(bs, t) /\ ~OverShared(bs, t)
         /\ buckets' = bs
         /\ written' = IF t.at > Horizon THEN written \cup {[ticket |-> t, units |-> n]} ELSE written
         /\ answer' = [NoAnswer EXCEPT !.kind = "written"]
  BY DEF Settle
<1>7. CASE /\ OverOwn(bs, t) /\ written' = written
           /\ Reject("records", t.key, "records:client", OldestCharged(bs[t.key]), Scanned(bs, t.key), FALSE)
  <2>1. t.key \in Meters(t) /\ Refusing(bs, t, t.key)
    BY <1>7 DEF OverOwn, Refusing, HalfFor, RecordAllowance, Meters
  <2> QED BY <1>5, <2>1
<1>8. CASE /\ OverShared(bs, t) /\ written' = written
           /\ Reject("records", Shared, SharedChannel("records", t.degraded), OldestCharged(bs[Shared]),
                     Scanned(bs, Shared), FALSE)
  <2>1. Shared \in Meters(t) /\ Refusing(bs, t, Shared)
    BY <1>8 DEF OverShared, Refusing, HalfFor, RecordAllowance, Meters
  <2> QED BY <1>5, <2>1
<1>9. CASE /\ ~OverOwn(bs, t) /\ ~OverShared(bs, t)
           /\ buckets' = bs
           /\ written' = IF t.at > Horizon THEN written \cup {[ticket |-> t, units |-> n]} ELSE written
           /\ answer' = [NoAnswer EXCEPT !.kind = "written"]
  <2>1. ASSUME NEW k \in Meters(t), Charges(buckets, k, HalfFor(t, k))
        PROVE  ~(bs[k].recordSum > RecordAllowance(k))
    <3>1. CASE k = Shared
      BY <1>9, <2>1, <3>1 DEF OverShared, HalfFor, RecordAllowance
    <3>2. CASE k # Shared
      BY <1>9, <2>1, <3>2 DEF OverOwn, HalfFor, RecordAllowance, Meters
    <3> QED BY <3>1, <3>2
  <2>2. Writing(bs, t, n)
    BY <1>4, <1>9, <2>1 DEF Writing
  <2> QED BY <1>5, <2>2
<1> QED BY <1>6, <1>7, <1>8, <1>9

LEMMA RefusingKeeps ==
  ASSUME IngestInv, NEW t \in reading, NEW n \in Nat, NEW bs, bs = Paid(t, n),
         UNCHANGED <<now, config, arrivals, admitted>>, reading' = reading \ {t},
         NEW k \in Meters(t), Refusing(bs, t, k)
  PROVE  IngestInv' /\ AllAlike(bs, buckets', Horizon)
<1>1. /\ now \in Nat /\ BucketsOK(buckets, now) /\ t \in Ticket /\ arrivals \in Nat
      /\ config \in {"unread", "read"}
  BY ClockNat DEF IngestInv, TicketsOK, ClockOK
<1>2. /\ BucketsOK(bs, now) /\ AllGrown(buckets, bs, Horizon) /\ k \in Key
  BY <1>1, PaidPays, TicketHalves
<1>3. bs[k] # NoBucket
  BY <1>2, LimitsAssumption DEF Refusing, NoBucket, RecordAllowance
<1>4. /\ BucketsOK(Scanned(bs, k), now) /\ AllGrown(bs, Scanned(bs, k), Horizon)
      /\ AllAlike(bs, Scanned(bs, k), Horizon)
  BY <1>1, <1>2, <1>3, ScannedOK
<1>5. /\ BucketsOK(buckets', now) /\ AllGrown(Scanned(bs, k), buckets', Horizon)
      /\ AllAlike(Scanned(bs, k), buckets', Horizon)
  BY <1>1, <1>4, RejectKeeps DEF Refusing
<1>6. AllGrown(buckets, buckets', Horizon)
  <2>1. AllGrown(bs, buckets', Horizon)
    BY <1>2, <1>4, <1>5, AllGrows
  <2> QED BY <1>1, <1>2, <1>5, <2>1, AllGrows
<1>7. AllAlike(bs, buckets', Horizon)
  BY <1>4, <1>5, AlikeAlike DEF AllAlike
<1>8. written' = written
  BY DEF Refusing
<1>9. IngestInv'
  BY <1>1, <1>5, <1>6, <1>8, StepKeeps
<1> QED BY <1>7, <1>9

LEMMA WritingKeeps ==
  ASSUME IngestInv, NEW t \in reading, NEW n \in Nat, NEW bs, bs = Paid(t, n),
         UNCHANGED <<now, config, arrivals, admitted>>, reading' = reading \ {t}, Writing(bs, t, n)
  PROVE  IngestInv'
<1>1. /\ now \in Nat /\ BucketsOK(buckets, now) /\ t \in Ticket /\ arrivals \in Nat
      /\ config \in {"unread", "read"}
  BY ClockNat DEF IngestInv, TicketsOK, ClockOK
<1>1a. arrivals <= arrivals
  BY <1>1
<1>2. /\ BucketsOK(bs, now) /\ AllGrown(buckets, bs, Horizon)
      /\ \A k \in Meters(t) :
           Charges(buckets, k, HalfFor(t, k)) => Pays(buckets[k], bs[k], HalfFor(t, k), n)
  BY <1>1, PaidPays
<1>3. buckets' = bs
  BY DEF Writing
<1>4. CASE ~(t.at > Horizon)
  <2>1. written' = written
    BY <1>4 DEF Writing
  <2> QED BY <1>1, <1>1a, <1>2, <1>3, <2>1, StepKeeps
<1>5. CASE t.at > Horizon
  <2> DEFINE w == [ticket |-> t, units |-> n]
             rest == reading \ {t}
  <2>1. \A k \in Meters(t) : /\ Charges(buckets, k, HalfFor(t, k)) /\ t \in admitted
                             /\ HalfFor(t, k).sequence \in Live(buckets[k], Horizon)
    BY <1>5, RecentCharges
  <2>2. t \in admitted
    BY <2>1 DEF Meters
  <2>3. w \in [ticket : Ticket, units : Nat] /\ w.ticket = t /\ w.units = n
    BY <1>1
  <2> HIDE DEF w
  <2>4. written' = written \cup {w}
    BY <1>5 DEF Writing, w
  <2>5. EntriesOK(bs, admitted, rest, now) /\ TicketsOK(admitted, rest, now, arrivals)
    <3>1. EntriesOK(bs, admitted, reading, now)
      BY <1>1, <1>2, GrownEntries DEF IngestInv
    <3> QED BY <3>1 DEF EntriesOK, IngestInv, TicketsOK
  <2>6. WrittenOK(bs, written, admitted, rest)
    BY <1>1, <1>2, GrownWritten DEF IngestInv
  <2>7. ASSUME NEW k \in Meters(t) PROVE n <= CostAt(bs[k], HalfFor(t, k).sequence)
    <3> DEFINE q == HalfFor(t, k).sequence
               b == buckets[k]
    <3>1. q \in Live(b, Horizon) /\ Pays(b, bs[k], HalfFor(t, k), n)
      BY <1>2, <2>1
    <3>2. CostAt(bs[k], q) = CostAt(b, q) + n
      BY <3>1 DEF Pays
    <3>3. k \in Key
      BY <1>1, TicketHalves
    <3>4. CostAt(b, q) \in Nat
      BY <1>1, <3>1, <3>3, SeqsTyped DEF Live, BucketsOK, Sound, Kept
    <3> HIDE DEF q, b
    <3>5. n <= CostAt(bs[k], q)
      BY <3>2, <3>4
    <3> QED BY <3>5 DEF q
  <2>8. \A v \in written : v.ticket # t
    BY DEF IngestInv, WrittenOK
  <2>9. WrittenOK(bs, written', admitted, rest)
    <3>1. IsFiniteSet(written')
      BY <2>4, <2>6, FS_AddElement DEF WrittenOK
    <3>2. ASSUME NEW v \in written'
          PROVE /\ v \in [ticket : Ticket, units : Nat] /\ v.ticket \in admitted /\ v.ticket \notin rest
                /\ \A k \in Meters(v.ticket) : v.units <= CostAt(bs[k], HalfFor(v.ticket, k).sequence)
      <4>1. CASE v \in written
        BY <2>6, <4>1 DEF WrittenOK
      <4>2. CASE v = w
        BY <2>2, <2>3, <2>7, <4>2
      <4> QED BY <2>4, <4>1, <4>2
    <3>3. \A u, v \in written' : u.ticket = v.ticket => u = v
      BY <2>3, <2>4, <2>6, <2>8 DEF WrittenOK
    <3> QED BY <3>1, <3>2, <3>3 DEF WrittenOK
  <2>10. ASSUME NEW k \in Key PROVE Units(PaidBy(written', k)) <= RecordAllowance(k)
    <3>1. CASE k \in Meters(t)
      <4>1. Units(PaidBy(written', k)) <= bs[k].recordSum
        BY <1>2, <2>5, <2>9, UnitsPaid
      <4>2. bs[k].recordSum <= RecordAllowance(k)
        BY <2>1, <3>1 DEF Writing
      <4>3. bs[k].recordSum \in Nat /\ RecordAllowance(k) \in Nat
        BY <1>2, ShapedNumbers, LimitsAssumption DEF BucketsOK, Sound, Kept, Numbered, RecordAllowance
      <4>4. Units(PaidBy(written', k)) \in Nat
        <5>1. PaidBy(written', k) \subseteq written'
          BY DEF PaidBy
        <5> QED BY <2>9, <5>1, UnitsShrink DEF WrittenOK
      <4> QED BY <4>1, <4>2, <4>3, <4>4
    <3>2. CASE k \notin Meters(t)
      <4>1. PaidBy(written', k) = PaidBy(written, k)
        BY <2>3, <2>4, <3>2 DEF PaidBy, Meters
      <4> QED BY <4>1 DEF IngestInv, WithinOK
    <3> QED BY <3>1, <3>2
  <2>11. WithinOK(written')
    BY <2>10 DEF WithinOK
  <2>12. ClockOK(now', config', arrivals')
    BY DEF IngestInv, ClockOK
  <2> QED BY <1>2, <1>3, <2>5, <2>9, <2>11, <2>12 DEF IngestInv
<1> QED BY <1>4, <1>5

LEMMA SettleKeeps ==
  ASSUME IngestInv, NEW t \in reading, NEW n \in Unit, Settle(t, n)
  PROVE  IngestInv'
<1> DEFINE bs == Paid(t, n)
<1>1. n \in Nat
  BY LimitsAssumption
<1>2. /\ UNCHANGED <<now, config, arrivals, admitted>> /\ reading' = reading \ {t}
      /\ Writing(bs, t, n) \/ \E k \in Meters(t) : Refusing(bs, t, k)
  BY SettleIs
<1> QED BY <1>1, <1>2, WritingKeeps, RefusingKeeps

\* Time passes: what is remembered is what is still in the window.
LEMMA TickKeeps ==
  ASSUME IngestInv, Tick
  PROVE  IngestInv'
<1> DEFINE later == now + 1
           adm == {t \in admitted : t.at > later - Window}
           wr == {w \in written : w.ticket.at > later - Window}
<1>1. /\ now' = later /\ admitted' = adm /\ written' = wr
      /\ UNCHANGED <<config, buckets, reading, arrivals>>
  BY DEF Tick
<1>2. /\ now \in Nat /\ Window \in Nat /\ now \in Window..MaxTime /\ MaxTime \in Nat /\ now < MaxTime
  BY ClockNat, LimitsAssumption DEF IngestInv, ClockOK, Tick
<1>3. later \in Window..MaxTime /\ later \in Nat /\ now <= later
  BY <1>2
<1>4. \A at \in Nat : at > later - Window => at > now - Window
  BY <1>2
<1>5. \A at \in Nat : at <= now => at <= later
  BY <1>2
<1> HIDE DEF later
<1>6. BucketsOK(buckets, later)
  <2>1. ASSUME NEW k \in Key PROVE Sound(buckets[k], later)
    <3>1. Sound(buckets[k], now)
      BY DEF IngestInv, BucketsOK
    <3>2. /\ \A i \in DOMAIN buckets[k].hits : buckets[k].hits[i] \in Nat
          /\ buckets[k].born \in Nat
      BY <3>1, ShapedNumbers DEF Sound, Kept, Bucket
    <3>3. /\ \A i \in DOMAIN buckets[k].hits : buckets[k].hits[i] <= later
          /\ buckets[k].born <= later
      BY <1>5, <3>1, <3>2 DEF Sound, Kept, Shaped
    <3> QED BY <3>1, <3>3 DEF Sound, Kept, Shaped
  <2> QED BY <2>1 DEF IngestInv, BucketsOK
<1>7. /\ TicketsOK(admitted, reading, now, arrivals) /\ EntriesOK(buckets, admitted, reading, now)
      /\ WrittenOK(buckets, written, admitted, reading) /\ WithinOK(written)
  BY DEF IngestInv
<1>8. \A t \in admitted \cup reading : t \in Ticket /\ t.at \in Nat /\ t.at <= now
  BY <1>7, LimitsAssumption DEF TicketsOK, Ticket
<1>9. TicketsOK(adm, reading, later, arrivals)
  <2>1. IsFiniteSet(adm)
    BY <1>7, FS_Subset DEF TicketsOK
  <2>2. \A t \in adm \cup reading : t.at <= later
    BY <1>5, <1>8
  <2>3. \A t \in reading : t.at > later - Window => t \in adm
    BY <1>4, <1>7, <1>8 DEF TicketsOK
  <2> QED BY <1>7, <2>1, <2>2, <2>3 DEF TicketsOK
<1>10. EntriesOK(buckets, adm, reading, later)
  <2>1. ASSUME NEW t \in adm, NEW k \in Meters(t) PROVE Finds(buckets, t, k, later - Window)
    BY <1>7 DEF EntriesOK, Finds, Live
  <2> QED BY <1>7, <2>1 DEF EntriesOK
<1>11. WrittenOK(buckets, wr, adm, reading)
  <2>1. IsFiniteSet(wr)
    BY <1>7, FS_Subset DEF WrittenOK
  <2> QED BY <1>7, <2>1 DEF WrittenOK
<1>12. ASSUME NEW k \in Key PROVE Units(PaidBy(wr, k)) <= RecordAllowance(k)
  <2>1. PaidBy(wr, k) \subseteq PaidBy(written, k) /\ PaidBy(written, k) \subseteq written
    BY DEF PaidBy
  <2>2. IsFiniteSet(PaidBy(written, k)) /\ \A w \in PaidBy(written, k) : w.units \in Nat
    BY <1>7, <2>1, FS_Subset DEF WrittenOK
  <2>3. Units(PaidBy(wr, k)) <= Units(PaidBy(written, k))
        /\ Units(PaidBy(wr, k)) \in Nat /\ Units(PaidBy(written, k)) \in Nat
    BY <2>1, <2>2, UnitsShrink
  <2>4. Units(PaidBy(written, k)) <= RecordAllowance(k)
    BY <1>7 DEF WithinOK
  <2>5. RecordAllowance(k) \in Nat
    BY LimitsAssumption DEF RecordAllowance
  <2> QED BY <2>3, <2>4, <2>5
<1>13. ClockOK(later, config, arrivals)
  BY <1>3 DEF IngestInv, ClockOK
<1> HIDE DEF adm, wr
<1>14. WithinOK(wr)
  BY <1>12 DEF WithinOK
<1> QED BY <1>1, <1>6, <1>9, <1>10, <1>11, <1>13, <1>14 DEF IngestInv

LEMMA InitKeeps ==
  ASSUME Init
  PROVE  IngestInv
<1>1. now = Window /\ Window \in Nat /\ Window <= MaxTime /\ MaxTime \in Nat
  BY LimitsAssumption DEF Init
<1>2. ClockOK(now, config, arrivals)
  <2>1. now \in Window..MaxTime
    BY <1>1
  <2> QED BY <2>1 DEF Init, ClockOK
<1>3. BucketsOK(buckets, now)
  <2>1. buckets = [k \in Key |-> NoBucket]
    BY DEF Init
  <2>2. Sound(NoBucket, now) /\ LiveHits(NoBucket) = 0 /\ NoBucket \in Bucket
    BY <1>1, NothingSound DEF Sound, Kept, Shaped
  <2>3. \A k \in Key : 0 <= Allowance(k)
    BY LimitsAssumption DEF Allowance
  <2>4. Tracked(buckets) = {}
    BY <2>1 DEF Tracked, Key
  <2>5. IsFiniteSet(Tracked(buckets)) /\ Cardinality(Tracked(buckets)) <= MaxKeys
    BY <2>4, FS_EmptySet, LimitsAssumption
  <2> QED BY <2>1, <2>2, <2>3, <2>5 DEF BucketsOK
<1>4. TicketsOK(admitted, reading, now, arrivals)
  BY FS_EmptySet DEF Init, TicketsOK
<1>5. EntriesOK(buckets, admitted, reading, now)
  BY DEF Init, EntriesOK
<1>6. WrittenOK(buckets, written, admitted, reading)
  BY FS_EmptySet DEF Init, WrittenOK
<1>7. ASSUME NEW k \in Key PROVE Units(PaidBy(written, k)) <= RecordAllowance(k)
  <2>1. PaidBy(written, k) = {}
    BY DEF Init, PaidBy
  <2>2. Units({}) = 0
    BY UnitsSum, SumEmpty
  <2>3. 0 <= RecordAllowance(k)
    BY LimitsAssumption DEF RecordAllowance
  <2> QED BY <2>1, <2>2, <2>3
<1>8. WithinOK(written)
  BY <1>7 DEF WithinOK
<1> QED BY <1>2, <1>3, <1>4, <1>5, <1>6, <1>8 DEF IngestInv

LEMMA StutterKeeps ==
  ASSUME IngestInv, UNCHANGED vars
  PROVE  IngestInv'
<1>1. /\ now' = now /\ config' = config /\ buckets' = buckets /\ reading' = reading
      /\ arrivals' = arrivals /\ admitted' = admitted /\ written' = written
  BY DEF vars
<1> QED BY <1>1 DEF IngestInv

LEMMA NextKeeps ==
  ASSUME IngestInv, Next
  PROVE  IngestInv'
<1>1. CASE Tick
  BY <1>1, TickKeeps
<1>2. CASE NotFound
  BY <1>2, NotFoundKeeps
<1>3. ASSUME NEW n \in Network, MeterVouched(n) PROVE IngestInv'
  BY <1>3, VouchedKey, MeteredKeeps DEF MeterVouched, Key
<1>4. CASE MeterUnvouched
  <2>1. Shared \in Key
    BY DEF Key
  <2> QED BY <1>4, <2>1, UnvouchedKey, MeteredKeeps DEF MeterUnvouched
<1>5. ASSUME NEW t \in reading, Abandon(t) PROVE IngestInv'
  BY <1>5, AbandonKeeps
<1>6. ASSUME NEW t \in reading, NEW n \in Unit, Settle(t, n) PROVE IngestInv'
  BY <1>6, SettleKeeps
<1> QED BY <1>1, <1>2, <1>3, <1>4, <1>5, <1>6 DEF Next

\* Buckets, tickets and the history of what was admitted and written stay consistent
\* with each other through every request, charge, compaction, sweep and tick.
THEOREM IngestInvariant == Spec => []IngestInv
<1>1. Init => IngestInv
  BY InitKeeps
<1>2. IngestInv /\ [Next]_vars => IngestInv'
  BY NextKeeps, StutterKeeps
<1> QED BY <1>1, <1>2, PTL DEF Spec

----------------------------------------------------------------------------
(***************************************************************************)
(* Ceilings, and every ticket's entry.                                     *)
(***************************************************************************)

\* No more requests are admitted on k than its allowance: each has its own entry.
LEMMA AdmittedFit ==
  ASSUME IngestInv, NEW k \in Key, NEW T, T \subseteq admitted, \A t \in T : k \in Meters(t)
  PROVE  Cardinality(T) <= Allowance(k)
<1> DEFINE b == buckets[k]
           f == [t \in T |-> HalfFor(t, k).sequence]
<1>1. now \in Nat /\ Sound(b, now) /\ LiveHits(b) <= Allowance(k)
  BY ClockNat DEF IngestInv, BucketsOK
<1>2. Numbered(b)
  BY <1>1, ShapedNumbers DEF Sound, Kept
<1>3. IsFiniteSet(Seqs(b)) /\ Cardinality(Seqs(b)) = LiveHits(b) /\ LiveHits(b) \in Nat
  BY <1>2, SeqsFinite, NumbersAdd
<1>4. ASSUME NEW t \in T
      PROVE  /\ t \in admitted /\ HalfFor(t, k) \in Halves
             /\ b.born = HalfFor(t, k).born /\ HalfFor(t, k).sequence \in Seqs(b)
  <2>1. t \in Ticket
    BY DEF IngestInv, TicketsOK
  <2>2. Finds(buckets, t, k, now - Window)
    BY DEF IngestInv, EntriesOK
  <2> QED BY <2>1, <2>2, TicketHalves DEF Finds, Live
<1> HIDE DEF b
<1>5. ASSUME NEW t \in T, NEW u \in T, HalfFor(t, k).sequence = HalfFor(u, k).sequence
      PROVE  t = u
  <2>1. HalfFor(t, k) = HalfFor(u, k)
    BY <1>4, <1>5 DEF Halves
  <2> QED BY <1>4, <2>1 DEF IngestInv, EntriesOK
<1>6. f \in Injection(T, Seqs(b))
  <2>1. f \in [T -> Seqs(b)]
    BY <1>4
  <2>2. \A t, u \in T : f[t] = f[u] => t = u
    BY <1>5
  <2> HIDE DEF f
  <2> QED BY <2>1, <2>2 DEF Injection, IsInjective
<1> HIDE DEF f
<1>7. Cardinality(T) <= LiveHits(b) /\ Cardinality(T) \in Nat
  BY <1>3, <1>6, FS_Injection, FS_CardinalityType
<1>8. Allowance(k) \in Nat
  BY LimitsAssumption DEF Allowance
<1> QED BY <1>1, <1>3, <1>7, <1>8 DEF b

LEMMA TypesKept ==
  ASSUME IngestInv
  PROVE  TypeOK
<1>1. ASSUME NEW k \in Key
      PROVE  LET b == buckets[k] IN
             /\ Len(b.hits) = Len(b.records) /\ b.start \in 0..Len(b.hits)
             /\ b.start * 2 < Len(b.hits) \/ b.start = 0
             /\ \A i, j \in DOMAIN b.hits : i < j => b.hits[i] <= b.hits[j]
  <2> DEFINE b == buckets[k]
  <2>1. Sound(b, now)
    BY DEF IngestInv, BucketsOK
  <2> HIDE DEF b
  <2>2. b.start \in Nat /\ Len(b.hits) \in Nat /\ b.start <= Len(b.hits)
    BY <2>1, ShapedNumbers DEF Sound, Kept, Numbered
  <2>3. b.start \in 0..Len(b.hits)
    BY <2>2
  <2> QED BY <2>1, <2>3 DEF Sound, Kept, Shaped, Lean, b
<1>2. PerClientBucketCount(buckets) <= MaxKeys
  BY DEF PerClientBucketCount, Tracked, IngestInv, BucketsOK
<1>3. reading \subseteq Ticket
  BY DEF IngestInv, TicketsOK
<1> QED BY <1>1, <1>2, <1>3 DEF TypeOK, IngestInv, ClockOK, Ticket, Halves

LEMMA CeilingsHold ==
  ASSUME IngestInv
  PROVE  Ceilings
<1>1. Cardinality(admitted) <= SharedLimit
  BY AdmittedFit DEF Key, Meters, Allowance
<1>2. Units(written) <= SharedRecordLimit
  BY DEF IngestInv, WithinOK, PaidBy, Key, RecordAllowance
<1>3. ASSUME NEW n \in Network
      PROVE  Cardinality(OfClient(n)) <= Limit /\ Units(WrittenFor(OfClient(n))) <= RecordLimit
  <2>1. n \in Key /\ n # Shared
    BY LimitsAssumption DEF Key
  <2>2. \A t \in OfClient(n) : t \in admitted /\ t.key = n
    BY DEF OfClient, IngestInv, TicketsOK
  <2>3. OfClient(n) \subseteq admitted /\ \A t \in OfClient(n) : n \in Meters(t)
    BY <2>2 DEF Meters
  <2>4. Cardinality(OfClient(n)) <= Limit
    BY <2>1, <2>3, AdmittedFit DEF Allowance
  <2>5. WrittenFor(OfClient(n)) \subseteq PaidBy(written, n) /\ PaidBy(written, n) \subseteq written
    BY <2>1, <2>2 DEF WrittenFor, PaidBy
  <2>6. IsFiniteSet(PaidBy(written, n)) /\ \A w \in PaidBy(written, n) : w.units \in Nat
    BY <2>5, FS_Subset DEF IngestInv, WrittenOK
  <2>7. /\ Units(WrittenFor(OfClient(n))) <= Units(PaidBy(written, n))
        /\ Units(WrittenFor(OfClient(n))) \in Nat /\ Units(PaidBy(written, n)) \in Nat
    BY <2>5, <2>6, UnitsShrink
  <2>8. Units(PaidBy(written, n)) <= RecordLimit
    BY <2>1 DEF IngestInv, WithinOK, RecordAllowance
  <2> QED BY <2>4, <2>7, <2>8, LimitsAssumption
<1> QED BY <1>1, <1>2, <1>3, TypesKept DEF Ceilings

\* Whatever a caller writes ahead of its address, and whatever retires or is compacted
\* between a request and its charge: neither a client nor the whole app is admitted, or
\* has written, more than its allowances in any window; nor are more clients tracked
\* than allowed.
THEOREM CeilingsSafe == Spec => []Ceilings
BY IngestInvariant, CeilingsHold, PTL

LEMMA TicketsFind ==
  ASSUME IngestInv
  PROVE  TicketFindsItsEntry
<1> SUFFICES ASSUME NEW t \in reading, t.at > Horizon, NEW k \in {t.key, Shared}
             PROVE  LET half == IF k = Shared THEN t.shared ELSE t.own
                        b == buckets[k]
                        i == b.start + half.sequence - b.retired + 1 IN
                    /\ Pointed(buckets, k, half)
                    /\ i \in LiveAt(b) /\ b.hits[i] = t.at
                    /\ \A u \in reading \ {t} : k = Shared => u.shared # t.shared
  BY DEF TicketFindsItsEntry
<1> DEFINE b == buckets[k]
           half == HalfFor(t, k)
<1>1. k \in Meters(t)
  BY DEF Meters
<1>2. /\ t \in admitted /\ t \in Ticket /\ Pointed(buckets, k, half)
      /\ half.sequence \in Live(b, Horizon)
  BY <1>1, RecentCharges DEF Charges, IngestInv, TicketsOK
<1>3. Finds(buckets, t, k, Horizon)
  BY <1>1, <1>2 DEF IngestInv, EntriesOK, Horizon
<1>4. k \in Key
  BY <1>1, <1>2, TicketHalves
<1>5. half.sequence \in Seqs(b) /\ b.hits[At(b, half.sequence)] = t.at
  BY <1>3 DEF Finds, Live, HitAt
<1>6. Numbered(b)
  BY <1>4, ShapedNumbers DEF IngestInv, BucketsOK, Sound, Kept
<1>7. At(b, half.sequence) \in LiveAt(b)
  <2> HIDE DEF b, half
  <2> QED BY <1>5, <1>6, Placed
<1>8. At(b, half.sequence) = b.start + half.sequence - b.retired + 1
  BY DEF At
<1>9. ASSUME NEW u \in reading \ {t}, k = Shared PROVE u.shared # t.shared
  <2>1. Shared \in Meters(t) \cap Meters(u)
    BY DEF Meters
  <2> QED BY <2>1 DEF IngestInv, EntriesOK, HalfFor
<1>10. half = IF k = Shared THEN t.shared ELSE t.own
  BY DEF HalfFor
<1> HIDE DEF half, b
<1> QED BY <1>2, <1>5, <1>7, <1>8, <1>9, <1>10 DEF b

\* A request whose body is still being read finds its own entry, and nobody else's,
\* however many entries have retired or moved since it was issued.
THEOREM TicketsSafe == Spec => []TicketFindsItsEntry
BY IngestInvariant, TicketsFind, PTL

----------------------------------------------------------------------------
(***************************************************************************)
(* Retry-After.                                                            *)
(***************************************************************************)

\* What is still in the window when an entry of that time has left it is younger.
LEMMA YoungerThan ==
  ASSUME now \in Nat, NEW at \in Nat, NEW hit \in Nat,
         hit > now + SecondsUntilRetired(at) - Window
  PROVE  hit > at
BY LimitsAssumption DEF SecondsUntilRetired, Larger

\* The entry that the answer counts on is gone by then.
LEMMA LaterLacks ==
  ASSUME now \in Nat, NEW b, Sound(b, now), NEW q \in Seqs(b), NEW at, at = HitAt(b, q)
  PROVE  LET later == {i \in LiveAt(b) : b.hits[i] > now + SecondsUntilRetired(at) - Window} IN
         /\ IsFiniteSet(later) /\ Cardinality(later) < LiveHits(b)
         /\ CostAt(b, q) # 0 => SumFunctionOnSet(b.records, later) < b.recordSum
<1> DEFINE later == {i \in LiveAt(b) : b.hits[i] > now + SecondsUntilRetired(at) - Window}
           m == [i \in later |-> i - 1 - b.start + b.retired]
           rest == Seqs(b) \ {q}
<1>1. /\ Numbered(b) /\ b.hits \in Seq(Nat) /\ b.records \in Seq(Nat)
      /\ DOMAIN b.hits = 1..Len(b.hits) /\ DOMAIN b.records = 1..Len(b.hits)
  BY ShapedNumbers DEF Sound, Kept
<1>2. at \in Nat /\ CostAt(b, q) \in Nat
  BY SeqsTyped DEF Sound, Kept
<1>3. ASSUME NEW i \in later PROVE m[i] \in rest /\ i = At(b, m[i])
  <2>1. i \in LiveAt(b) /\ m[i] = i - 1 - b.start + b.retired
    OBVIOUS
  <2> HIDE DEF m
  <2>2. m[i] \in Seqs(b) /\ At(b, m[i]) = i
    BY <1>1, <2>1, Placed
  <2>3. b.hits[i] \in Nat /\ b.hits[i] = HitAt(b, m[i])
    BY <2>2, SeqsTyped DEF Sound, Kept, HitAt
  <2>4. b.hits[i] > at
    BY <1>2, <2>3, YoungerThan
  <2>5. m[i] # q
    BY <1>2, <2>3, <2>4
  <2> QED BY <2>2, <2>5
<1>4. \A i, j \in later : m[i] = m[j] => i = j
  <2> HIDE DEF later, m, rest
  <2> QED BY <1>3
<1>5. /\ IsFiniteSet(Seqs(b)) /\ Cardinality(Seqs(b)) = LiveHits(b) /\ LiveHits(b) \in Nat
  BY <1>1, SeqsFinite, NumbersAdd
<1>6. IsFiniteSet(rest) /\ Cardinality(rest) = LiveHits(b) - 1
  BY <1>5, FS_RemoveElement
<1>7. m \in Injection(later, rest)
  <2>1. m \in [later -> rest]
    BY <1>3
  <2> HIDE DEF m
  <2> QED BY <1>4, <2>1 DEF Injection, IsInjective
<1>8. IsFiniteSet(later) /\ Cardinality(later) <= Cardinality(rest) /\ Cardinality(later) \in Nat
  <2> HIDE DEF later, m, rest
  <2> QED BY <1>6, <1>7, FS_Injection, FS_CardinalityType
<1>9. Cardinality(later) < LiveHits(b)
  <2> HIDE DEF later, rest
  <2> QED BY <1>5, <1>6, <1>8
<1>10. ASSUME CostAt(b, q) # 0 PROVE SumFunctionOnSet(b.records, later) < b.recordSum
  <2>1. \A p \in Seqs(b) : Costs(b)[p] \in Nat /\ Costs(b)[p] = CostAt(b, p)
    BY SeqsTyped DEF Sound, Kept
  <2> HIDE DEF later, m
  <2>2. \A i \in later : b.records[i] = Costs(b)[m[i]] /\ Costs(b)[m[i]] \in Nat
    BY <1>3, <2>1 DEF CostAt
  <2>3. \A i \in later : b.records[i] \in Nat /\ m[i] \in rest /\ b.records[i] <= Costs(b)[m[i]]
    BY <1>3, <2>2
  <2>4. Injects(m, b.records, later, Costs(b), rest)
    BY <1>4, <2>1, <2>3 DEF Injects
  <2>5. SumFunctionOnSet(b.records, later) <= SumFunctionOnSet(Costs(b), rest)
    BY <1>6, <1>8, <2>4, SumInjects
  <2>6. /\ SumFunctionOnSet(Costs(b), Seqs(b)) = Costs(b)[q] + SumFunctionOnSet(Costs(b), rest)
        /\ SumFunctionOnSet(Costs(b), rest) \in Nat
    BY <1>5, <2>1, SumOne
  <2>7. SumFunctionOnSet(b.records, later) \in Nat
    BY <1>8, <2>3, SumByChoice
  <2>8. b.recordSum = CostAt(b, q) + SumFunctionOnSet(Costs(b), rest)
    BY <2>1, <2>6 DEF Sound, Kept, Balanced
  <2> HIDE DEF rest
  <2> QED BY <1>2, <1>10, <2>5, <2>6, <2>7, <2>8
<1> QED BY <1>8, <1>9, <1>10

\* What RetryAfterFrees says of a step.
Honest ==
  LET b == buckets'[answer'.key]
      later == {i \in LiveAt(b) : b.hits[i] > now + answer'.retryAfter - Window} IN
  /\ answer'.kind = "window" /\ answer' # answer =>
       Cardinality(later) < IF answer'.key = Shared THEN SharedLimit ELSE Limit
  /\ answer'.kind = "records" /\ answer' # answer =>
       SumFunctionOnSet(b.records, later) < b.recordSum

LEMMA WindowHonest ==
  ASSUME now \in Nat, NEW bs, SceneOf(bs), NEW k \in Key, Recent(bs[k]), Rejecting(bs, k)
  PROVE  Honest
<1> DEFINE b == bs[k]
           c == buckets'[k]
           q == b.retired
           at == b.hits[b.start + 1]
           later == {i \in LiveAt(c) : c.hits[i] > now + SecondsUntilRetired(at) - Window}
<1>1. PICK channel, swept : Reject("window", k, channel, at, bs, swept)
  BY DEF Rejecting
<1>2. answer' = [kind |-> "window", key |-> k, retryAfter |-> SecondsUntilRetired(at)]
  BY <1>1 DEF Reject
<1>3. Sound(b, now) /\ Numbered(b)
  BY ShapedNumbers DEF SceneOf, BucketsOK, Sound, Kept
<1>4. BucketsOK(buckets', now) /\ AllAlike(bs, buckets', Horizon)
  BY <1>1, RejectKeeps DEF SceneOf
<1>5. Sound(c, now) /\ LiveHits(c) <= Allowance(k)
  BY <1>4 DEF BucketsOK
<1>6. Allowance(k) \in Nat /\ Allowance(k) > 0
  BY LimitsAssumption DEF Allowance
<1>7. q \in Seqs(b) /\ at = HitAt(b, q)
  <2>1. LiveHits(b) \in Nat /\ LiveHits(b) > 0 /\ q \in Nat
    <3>1. LiveHits(b) \in Nat /\ q \in Nat
      BY <1>3, NumbersAdd DEF Numbered
    <3>2. LiveHits(b) >= Allowance(k)
      BY DEF Rejecting
    <3> HIDE DEF b, q
    <3> QED BY <1>6, <3>1, <3>2
  <2>2. b.start \in Nat
    BY <1>3 DEF Numbered
  <2>3. At(b, q) = b.start + 1
    BY <2>1, <2>2 DEF At
  <2>4. q \in q..((q + LiveHits(b)) - 1)
    BY <2>1
  <2>5. q \in Seqs(b)
    BY <2>4 DEF Seqs, End
  <2> QED BY <2>3, <2>5 DEF HitAt
<1>8. q \in Live(b, Horizon)
  BY <1>7 DEF Recent, Live
<1>9. q \in Live(c, Horizon) /\ HitAt(c, q) = HitAt(b, q)
  BY <1>4, <1>8 DEF AllAlike, Alike
<1>10. q \in Seqs(c) /\ at = HitAt(c, q)
  BY <1>7, <1>9 DEF Live
<1> HIDE DEF b, c, q, at
<1>11. Cardinality(later) < LiveHits(c) /\ IsFiniteSet(later)
  BY <1>5, <1>10, LaterLacks
<1>12. LiveHits(c) \in Nat /\ Cardinality(later) \in Nat
  BY <1>5, <1>11, ShapedNumbers, NumbersAdd, FS_CardinalityType DEF Sound, Kept
<1>13. Cardinality(later) < Allowance(k)
  <2> HIDE DEF later
  <2> QED BY <1>5, <1>6, <1>11, <1>12
<1>14. answer'.kind = "window" /\ answer'.key = k /\ answer'.retryAfter = SecondsUntilRetired(at)
  BY <1>2
<1> QED BY <1>13, <1>14 DEF Honest, Allowance, c

LEMMA RecordsHonest ==
  ASSUME now \in Nat, BucketsOK(buckets, now), NEW t \in Ticket, NEW n \in Nat, NEW bs, bs = Paid(t, n),
         NEW k \in Meters(t), Refusing(bs, t, k)
  PROVE  Honest
<1> DEFINE b == bs[k]
           c == buckets'[k]
           at == OldestCharged(b)
           later == {i \in LiveAt(c) : c.hits[i] > now + SecondsUntilRetired(at) - Window}
<1>1. PICK channel : Reject("records", k, channel, at, Scanned(bs, k), FALSE)
  BY DEF Refusing
<1>2. answer' = [kind |-> "records", key |-> k, retryAfter |-> SecondsUntilRetired(at)]
  BY <1>1 DEF Reject
<1>3. k \in Key /\ BucketsOK(bs, now)
  BY TicketHalves, PaidPays
<1>4. Pays(buckets[k], bs[k], HalfFor(t, k), n)
  BY PaidPays DEF Refusing
<1>5. Sound(b, now) /\ b.recordSum # 0
  BY <1>3, LimitsAssumption DEF BucketsOK, Refusing, RecordAllowance
<1>6. PICK q \in Seqs(b) : CostAt(b, q) # 0 /\ at = HitAt(b, q)
  BY <1>5, OldestCarries
<1>7. q \in Live(b, Horizon)
  BY <1>4, <1>6 DEF Pays
<1>8. /\ BucketsOK(Scanned(bs, k), now) /\ AllAlike(bs, Scanned(bs, k), Horizon)
  <2>1. bs[k] # NoBucket
    BY <1>5 DEF NoBucket
  <2> QED BY <1>3, <2>1, ScannedOK
<1>9. BucketsOK(buckets', now) /\ AllAlike(Scanned(bs, k), buckets', Horizon)
  BY <1>1, <1>8, RejectKeeps
<1>10. Alike(b, c, Horizon)
  BY <1>3, <1>8, <1>9, AlikeAlike DEF AllAlike
<1>11. q \in Seqs(c) /\ at = HitAt(c, q) /\ CostAt(c, q) # 0
  BY <1>6, <1>7, <1>10 DEF Alike, Live
<1>12. Sound(c, now)
  BY <1>3, <1>9 DEF BucketsOK
<1> HIDE DEF b, c, at
<1>13. SumFunctionOnSet(c.records, later) < c.recordSum
  BY <1>11, <1>12, LaterLacks
<1>14. answer'.kind = "records" /\ answer'.key = k /\ answer'.retryAfter = SecondsUntilRetired(at)
  BY <1>2
<1> QED BY <1>13, <1>14 DEF Honest, c

LEMMA NextHonest ==
  ASSUME IngestInv, [Next]_vars
  PROVE  Honest
<1>1. now \in Nat /\ BucketsOK(buckets, now)
  BY ClockNat DEF IngestInv
<1>2. ASSUME answer'.kind \in {"none", "written"} PROVE Honest
  BY <1>2 DEF Honest
<1>3. answer' = NoAnswer => Honest
  BY <1>2 DEF NoAnswer
<1>4. ASSUME NEW n \in Key, NEW chain, ResolveKey(chain) \in {n, Shared}, Metered(n, chain)
      PROVE  Honest
  <2>1. PICK bs : \E k \in {n, Shared} :
          /\ SceneOf(bs) /\ Recent(bs[k]) /\ Recent(bs[Shared])
          /\ Entering(bs, k) \/ Rejecting(bs, k) \/ Rejecting(bs, Shared)
    BY <1>4, MeteredIs
  <2> QED BY <1>1, <1>3, <2>1, WindowHonest DEF Entering, Key
<1>5. CASE Tick
  BY <1>3, <1>5 DEF Tick
<1>6. CASE NotFound
  BY <1>3, <1>6 DEF NotFound
<1>7. ASSUME NEW n \in Network, MeterVouched(n) PROVE Honest
  BY <1>4, <1>7, VouchedKey DEF MeterVouched, Key
<1>8. CASE MeterUnvouched
  <2>1. Shared \in Key
    BY DEF Key
  <2> QED BY <1>4, <1>8, <2>1, UnvouchedKey DEF MeterUnvouched
<1>9. ASSUME NEW t \in reading, Abandon(t) PROVE Honest
  BY <1>3, <1>9 DEF Abandon
<1>10. ASSUME NEW t \in reading, NEW n \in Unit, Settle(t, n) PROVE Honest
  <2> DEFINE bs == Paid(t, n)
  <2>1. n \in Nat /\ t \in Ticket
    BY LimitsAssumption DEF IngestInv, TicketsOK
  <2>2. Writing(bs, t, n) \/ \E k \in Meters(t) : Refusing(bs, t, k)
    BY <1>10, SettleIs
  <2>3. CASE Writing(bs, t, n)
    <3>1. answer'.kind = "written"
      BY <2>3 DEF Writing, NoAnswer
    <3> QED BY <1>2, <3>1
  <2>4. CASE \E k \in Meters(t) : Refusing(bs, t, k)
    BY <1>1, <2>1, <2>4, RecordsHonest
  <2> HIDE DEF bs
  <2> QED BY <2>2, <2>3, <2>4
<1>11. CASE UNCHANGED vars
  BY <1>11 DEF vars, Honest
<1> QED BY <1>5, <1>6, <1>7, <1>8, <1>9, <1>10, <1>11 DEF Next

\* Retry-After is honest: after that time the exhausted window has given back a request,
\* or some of the records it charged, whatever the sweeps did meanwhile.
THEOREM RetryAfterHonest == Spec => RetryAfterFrees
<1>1. IngestInv /\ [Next]_vars => Honest
  BY NextHonest
<1> QED BY <1>1, IngestInvariant, PTL DEF Spec, RetryAfterFrees, Honest

----------------------------------------------------------------------------
(***************************************************************************)
(* IngestLedger.  The ledger of a key is its bucket's live entries.        *)
(***************************************************************************)
Entry(b, q) == [id |-> q + 1, at |-> HitAt(b, q), units |-> CostAt(b, q)]
Entries(b, horizon) == {Entry(b, q) : q \in Live(b, horizon)}

LEMMA LedgeredIs ==
  ASSUME NEW b, Sound(b, now)
  PROVE  Ledgered(b) = Entries(b, Horizon)
<1> DEFINE At1(i) == [id |-> b.retired + i - b.start, at |-> b.hits[i], units |-> b.records[i]]
<1>1. Numbered(b)
  BY ShapedNumbers DEF Sound, Kept
<1>2. ASSUME NEW q \in Live(b, Horizon)
      PROVE  At(b, q) \in Unexpired(b) /\ At1(At(b, q)) = Entry(b, q)
  <2>1. q \in Seqs(b) /\ HitAt(b, q) > Horizon
    BY DEF Live
  <2>2. At(b, q) \in LiveAt(b) /\ At(b, q) - 1 - b.start + b.retired = q /\ q \in Nat
        /\ At(b, q) \in 1..Len(b.hits)
    BY <1>1, <2>1, Placed
  <2>3. b.retired \in Nat /\ b.start \in Nat
    BY <1>1 DEF Numbered
  <2> DEFINE i == At(b, q)
  <2>4. i \in Int /\ i - 1 - b.start + b.retired = q
    BY <1>1, <2>2 DEF Numbered
  <2> HIDE DEF i
  <2>5. b.retired + i - b.start = q + 1
    BY <2>2, <2>3, <2>4
  <2>6. At1(i) = Entry(b, q)
    BY <2>5 DEF Entry, HitAt, CostAt, i
  <2> QED BY <2>1, <2>2, <2>6 DEF Unexpired, HitAt, i
<1>3. ASSUME NEW i \in Unexpired(b)
      PROVE  \E q \in Live(b, Horizon) : At(b, q) = i
  <2>1. i \in LiveAt(b) /\ b.hits[i] > Horizon
    BY DEF Unexpired
  <2>2. i - 1 - b.start + b.retired \in Seqs(b) /\ At(b, i - 1 - b.start + b.retired) = i
    BY <1>1, <2>1, Placed
  <2> QED BY <2>1, <2>2 DEF Live, HitAt
<1> HIDE DEF At1
<1>4. Entries(b, Horizon) = {At1(i) : i \in Unexpired(b)}
  BY <1>2, <1>3 DEF Entries
<1> QED BY <1>4 DEF Ledgered, At1

LedgerOf == [k \in Key |-> Ledgered(buckets[k])]

LEMMA LedgerBefore == IngestInv => LedgerOf = [k \in Key |-> Entries(buckets[k], now - Window)]
BY LedgeredIs DEF IngestInv, BucketsOK, Horizon, LedgerOf

LEMMA LedgerAfter ==
  IngestInv' => LedgerOf' = [k \in Key |-> Entries(buckets'[k], now' - Window)]
<1>1. IngestInv' => (LedgerOf = [k \in Key |-> Entries(buckets[k], now - Window)])'
  BY LedgerBefore, PTL
<1> QED BY <1>1

LEMMA AlikeEntries ==
  ASSUME NEW b, NEW c, NEW horizon, Alike(b, c, horizon)
  PROVE  Entries(c, horizon) = Entries(b, horizon)
BY DEF Alike, Entries, Entry

\* As many entries as the bucket has live ones.
LEMMA EntriesFit ==
  ASSUME NEW b, NEW clock, Sound(b, clock), NEW horizon
  PROVE  /\ IsFiniteSet(Entries(b, horizon)) /\ Cardinality(Entries(b, horizon)) <= LiveHits(b)
         /\ Cardinality(Entries(b, horizon)) \in Nat /\ LiveHits(b) \in Nat
<1> DEFINE f == [e \in Entries(b, horizon) |-> e.id - 1]
<1>1. Numbered(b)
  BY ShapedNumbers DEF Sound, Kept
<1>2. IsFiniteSet(Seqs(b)) /\ Cardinality(Seqs(b)) = LiveHits(b) /\ LiveHits(b) \in Nat
  BY <1>1, SeqsFinite, NumbersAdd
<1>3. ASSUME NEW e \in Entries(b, horizon) PROVE f[e] \in Seqs(b) /\ e = Entry(b, f[e])
  <2>1. PICK q \in Live(b, horizon) : e = Entry(b, q)
    BY DEF Entries
  <2>2. q \in Seqs(b)
    BY DEF Live
  <2>3. q \in Nat
    BY <1>1, <2>2, Placed
  <2>4. f[e] = (q + 1) - 1
    BY <2>1 DEF Entry
  <2>5. f[e] = q
    BY <2>3, <2>4
  <2> HIDE DEF f
  <2> QED BY <2>1, <2>2, <2>5
<1>4. f \in [Entries(b, horizon) -> Seqs(b)]
  BY <1>3
<1> HIDE DEF f
<1>5. \A e, d \in Entries(b, horizon) : f[e] = f[d] => e = d
  BY <1>3
<1>6. f \in Injection(Entries(b, horizon), Seqs(b))
  BY <1>4, <1>5 DEF Injection, IsInjective
<1> QED BY <1>2, <1>6, FS_Injection, FS_CardinalityType

\* What the ledger's entries cost is the running sum.
LEMMA EntriesCost ==
  ASSUME NEW b, NEW clock, Sound(b, clock), NEW horizon, Seqs(b) = Live(b, horizon)
  PROVE  Ledger!Cost(Entries(b, horizon)) = b.recordSum
<1> DEFINE S == Entries(b, horizon)
           f == [e \in S |-> e.units]
           m == [e \in S |-> e.id - 1]
<1>1. Numbered(b) /\ IsFiniteSet(S)
  BY ShapedNumbers, EntriesFit DEF Sound, Kept
<1>2. IsFiniteSet(Seqs(b))
  BY <1>1, SeqsFinite
<1>3. ASSUME NEW q \in Seqs(b)
      PROVE  /\ Entry(b, q) \in S /\ m[Entry(b, q)] = q /\ f[Entry(b, q)] = Costs(b)[q]
             /\ Costs(b)[q] \in Nat
  <2>1. q \in Nat
    BY <1>1, Placed
  <2>2. Entry(b, q) \in S
    BY DEF Entries
  <2>3. m[Entry(b, q)] = (q + 1) - 1 /\ f[Entry(b, q)] = CostAt(b, q)
    BY <2>2 DEF Entry
  <2>4. Costs(b)[q] = CostAt(b, q) /\ CostAt(b, q) \in Nat
    BY SeqsTyped DEF Sound, Kept
  <2> QED BY <2>1, <2>2, <2>3, <2>4
<1>4. \A e \in S : \E q \in Seqs(b) : e = Entry(b, q)
  BY DEF Entries
<1> HIDE DEF S, m, f
<1>5. Renames(m, f, S, Costs(b), Seqs(b))
  BY <1>3, <1>4 DEF Renames
<1>6. SumFunctionOnSet(f, S) = SumFunctionOnSet(Costs(b), Seqs(b))
  BY <1>1, <1>2, <1>5, SumRenames
<1>7. Ledger!Cost(S) = SumFunctionOnSet(f, S)
  <2>1. DOMAIN f = S
    BY DEF f
  <2>2. Ledger!Cost(S) = Ledger!SumFunctionOnSet(f, DOMAIN f)
    BY DEF Ledger!Cost, Ledger!SumFunction, f
  <2>3. Ledger!SumFunctionOnSet(f, S) = SumFunctionOnSet(f, S)
    BY DEF Ledger!SumFunctionOnSet, Ledger!FoldFunctionOnSet, Ledger!MapThenFoldSet,
           SumFunctionOnSet, FoldFunctionOnSet, MapThenFoldSet
  <2> QED BY <2>1, <2>2, <2>3
<1> QED BY <1>6, <1>7 DEF S, Sound, Kept, Balanced

\* A payment is a charge to one entry.
LEMMA PaysCharges ==
  ASSUME NEW b, NEW c, NEW half, NEW n, Sound(b, now), Pays(b, c, half, n)
  PROVE  \E e \in Entries(b, Horizon) :
           Entries(c, Horizon) = Ledger!Charged(Entries(b, Horizon), e, n)
<1> DEFINE L == Live(b, Horizon)
<1>1. PICK q \in L :
        \A p \in L : /\ HitAt(c, p) = HitAt(b, p)
                     /\ CostAt(c, p) = IF p = q THEN CostAt(b, p) + n ELSE CostAt(b, p)
  BY DEF Pays
<1> DEFINE e == Entry(b, q)
           paid == [e EXCEPT !.units = @ + n]
<1>2. Live(c, Horizon) = L
  BY DEF Pays
<1>3. \A p \in L : p \in Nat
  BY ShapedNumbers, Placed DEF Sound, Kept, Live
<1>4. paid = Entry(c, q)
  BY <1>1 DEF Entry
<1>5. \A p \in L : p # q => Entry(c, p) = Entry(b, p)
  BY <1>1 DEF Entry
<1>6. \A p \in L : p # q => Entry(b, p) # e
  <2>1. \A p \in L : p # q => p + 1 # q + 1
    <3> HIDE DEF L
    <3> QED BY <1>3
  <2>2. \A p \in L : Entry(b, p).id = p + 1
    BY DEF Entry
  <2> QED BY <2>1, <2>2
<1>7. Entries(b, Horizon) = {Entry(b, p) : p \in L} /\ Entries(c, Horizon) = {Entry(c, p) : p \in L}
  BY <1>2 DEF Entries
<1>8. e \in Entries(b, Horizon)
  BY <1>7
<1>9. Entries(c, Horizon) = (Entries(b, Horizon) \ {e}) \cup {Entry(c, q)}
  <2> HIDE DEF L, e
  <2>1. Entry(b, q) = e
    BY DEF e
  <2> QED BY <1>5, <1>6, <1>7, <2>1
<1>10. Entries(c, Horizon) = Ledger!Charged(Entries(b, Horizon), e, n)
  BY <1>4, <1>9 DEF Ledger!Charged
<1> QED BY <1>8, <1>10

\* A step that moves, sweeps or retires, and adds and charges nothing.
LEMMA AnswerImplements ==
  ASSUME IngestInv, IngestInv', now' = now, AllAlike(buckets, buckets', Horizon),
         answer'.kind # "written"
  PROVE  Ledger!Answer
<1>1. \A k \in Key : Entries(buckets'[k], now - Window) = Entries(buckets[k], now - Window)
  BY AlikeEntries DEF AllAlike, Horizon
<1>2. LedgerOf' = LedgerOf
  BY <1>1, LedgerBefore, LedgerAfter
<1> QED BY <1>2 DEF Ledger!Answer, LedgerOf

LEMMA TickImplements ==
  ASSUME IngestInv, IngestInv', Tick
  PROVE  Ledger!Tick
<1> DEFINE later == now + 1
<1>1. now' = later /\ buckets' = buckets /\ answer'.kind # "written"
  BY DEF Tick, NoAnswer
<1>2. now \in Nat /\ Window \in Nat
  BY ClockNat, LimitsAssumption DEF IngestInv
<1>3. \A at \in Nat : at > later - Window => at > now - Window
  BY <1>2
<1> HIDE DEF later
<1>4. ASSUME NEW k \in Key
      PROVE  Entries(buckets[k], later - Window)
               = {e \in Entries(buckets[k], now - Window) : e.at > later - Window}
  <2> DEFINE b == buckets[k]
  <2>1. Sound(b, now)
    BY DEF IngestInv, BucketsOK
  <2>2. \A q \in Seqs(b) : HitAt(b, q) \in Nat
    BY <2>1, SeqsTyped DEF Sound, Kept
  <2> HIDE DEF b
  <2>3. Live(b, later - Window) = {q \in Live(b, now - Window) : HitAt(b, q) > later - Window}
    BY <1>3, <2>2 DEF Live
  <2>4. \A q : Entry(b, q).at = HitAt(b, q)
    BY DEF Entry
  <2>5. Entries(b, later - Window) = {e \in Entries(b, now - Window) : e.at > later - Window}
    BY <2>3, <2>4 DEF Entries
  <2> QED BY <2>5 DEF b
<1>5. LedgerOf = [k \in Key |-> Entries(buckets[k], now - Window)]
      /\ LedgerOf' = [k \in Key |-> Entries(buckets[k], later - Window)]
  BY <1>1, LedgerBefore, LedgerAfter
<1>6. LedgerOf' = [k \in Key |-> {e \in LedgerOf[k] : e.at > now' - Window}]
  BY <1>1, <1>4, <1>5
<1>7. Key = Ledger!Meter
  BY DEF Key, Ledger!Meter
<1> QED BY <1>1, <1>6, <1>7 DEF Ledger!Tick, LedgerOf, later

\* The same count, under the name it has in the ledger's module.
LEMMA LedgerCounts ==
  ASSUME NEW S
  PROVE  Ledger!Cardinality(S) = Cardinality(S)
BY DEF Ledger!Cardinality, Cardinality

\* A request that is admitted is entered in the ledgers of its keys.
LEMMA EnteringImplements ==
  ASSUME IngestInv, IngestInv', now' = now, NEW bs, SceneOf(bs), NEW k \in Key, Entering(bs, k)
  PROVE  Ledger!Admit({k, Shared})
<1> DEFINE old == LedgerOf
           new == LedgerOf'
           h == now - Window
<1>1. now \in Nat /\ now > h /\ h = Horizon /\ Shared \in Key
  BY ClockNat, LimitsAssumption DEF IngestInv, Horizon, Key
<1>2. /\ bs \in [Key -> Bucket] /\ BucketsOK(bs, now) /\ \A j \in Key : Sound(bs[j], now)
  BY DEF SceneOf, BucketsOK
<1>3. /\ \A j \in Key \ {k, Shared} : buckets'[j] = bs[j]
      /\ \A j \in {k, Shared} : buckets'[j] = CommitHit(bs[j])
  BY <1>1, <1>2, CommitOK DEF Entering
<1>4. /\ \A j \in Key : old[j] = Entries(bs[j], h) /\ new[j] = Entries(buckets'[j], h)
      /\ DOMAIN new = Key
  <2>1. \A j \in Key : Entries(bs[j], h) = Entries(buckets[j], h)
    BY <1>1, AlikeEntries DEF SceneOf, AllAlike
  <2>2. LedgerOf = [j \in Key |-> Entries(buckets[j], now - Window)]
        /\ LedgerOf' = [j \in Key |-> Entries(buckets'[j], now - Window)]
    BY LedgerBefore, LedgerAfter
  <2> QED BY <2>1, <2>2
<1> HIDE DEF old, new, h
<1>5. ASSUME NEW j \in {k, Shared}
      PROVE  /\ Cardinality(old[j]) < Ledger!RequestsAllowed(j)
             /\ Ledger!Entered(old[j], new[j])
  <2> DEFINE b == bs[j]
             c == CommitHit(b)
             e == Entry(c, End(b))
  <2>1. j \in Key /\ Sound(b, now) /\ Numbered(b)
    BY <1>1, <1>2, ShapedNumbers DEF Sound, Kept
  <2>2. old[j] = Entries(b, h) /\ new[j] = Entries(c, h)
    BY <1>3, <1>4, <2>1
  <2>3. Cardinality(old[j]) < Ledger!RequestsAllowed(j)
    <3>1. /\ Cardinality(Entries(b, h)) <= LiveHits(b)
          /\ Cardinality(Entries(b, h)) \in Nat /\ LiveHits(b) \in Nat
      BY <2>1, EntriesFit
    <3>2. ~(LiveHits(b) >= Ledger!RequestsAllowed(j)) /\ Ledger!RequestsAllowed(j) \in Nat
      BY LimitsAssumption DEF Entering, ClientFull, SharedFull, Ledger!RequestsAllowed
    <3> HIDE DEF b
    <3> QED BY <2>2, <3>1, <3>2
  <2> HIDE DEF b
  <2>4. /\ Live(c, h) = Live(b, h) \cup {End(b)} /\ End(b) \notin Live(b, h)
    BY <1>1, <2>1, CommitGrows
  <2>5. /\ HitAt(c, End(b)) = now /\ CostAt(c, End(b)) = 0
        /\ \A q \in Seqs(b) : HitAt(c, q) = HitAt(b, q) /\ CostAt(c, q) = CostAt(b, q)
    BY <1>1, <2>1, CommitEnters
  <2> HIDE DEF c
  <2>6. /\ e.at = now /\ e.units = 0 /\ e.id = End(b) + 1
    BY <2>5 DEF Entry
  <2>7. \A q \in Live(b, h) : Entry(c, q) = Entry(b, q)
    BY <2>5 DEF Entry, Live
  <2>8. Entries(c, h) = Entries(b, h) \cup {e}
    <3>1. Entries(c, h) = {Entry(c, q) : q \in Live(b, h) \cup {End(b)}}
      BY <2>4 DEF Entries
    <3>2. Entries(b, h) = {Entry(b, q) : q \in Live(b, h)}
      BY DEF Entries
    <3> QED BY <2>7, <3>1, <3>2
  <2>9. ASSUME NEW other \in Entries(b, h) PROVE other.id # e.id
    <3>1. PICK q \in Live(b, h) : other = Entry(b, q)
      BY DEF Entries
    <3>2. q # End(b) /\ q \in Seqs(b)
      BY <2>4 DEF Live
    <3>3. q \in Nat /\ End(b) \in Nat
      BY <2>1, <3>2, Placed, NumbersAdd
    <3>4. other.id = q + 1
      BY <3>1 DEF Entry
    <3>5. q + 1 # End(b) + 1
      BY <3>2, <3>3
    <3> QED BY <2>6, <3>4, <3>5
  <2> HIDE DEF e
  <2>10. Ledger!Entered(old[j], new[j])
    BY <2>2, <2>6, <2>8, <2>9 DEF Ledger!Entered
  <2> QED BY <2>3, <2>10
<1>6. \A j \in Key \ {k, Shared} : new[j] = old[j]
  BY <1>3, <1>4
<1>7. (answer'.kind = "written") = FALSE
  BY DEF Entering, NoAnswer
<1>8. Key = Ledger!Meter
  BY DEF Key, Ledger!Meter
<1>9. /\ \A m \in {k, Shared} : Cardinality(LedgerOf[m]) < Ledger!RequestsAllowed(m)
      /\ DOMAIN LedgerOf' = Ledger!Meter
      /\ \A m \in Ledger!Meter : IF m \in {k, Shared} THEN Ledger!Entered(LedgerOf[m], LedgerOf'[m])
                                                      ELSE LedgerOf'[m] = LedgerOf[m]
  BY <1>4, <1>5, <1>6, <1>8 DEF old, new
<1>10. \A m \in {k, Shared} : Ledger!Cardinality(LedgerOf[m]) < Ledger!RequestsAllowed(m)
  BY <1>9, LedgerCounts
<1> QED BY <1>7, <1>9, <1>10 DEF Ledger!Admit, LedgerOf

\* A batch is charged to the ledgers whose buckets can still pay, and written exactly
\* when none of them is over then.
LEMMA SettleImplements ==
  ASSUME IngestInv, IngestInv', NEW t \in reading, NEW n \in Unit, Settle(t, n)
  PROVE  \E meters \in SUBSET Ledger!Meter : Ledger!Charge(meters, n)
<1> DEFINE bs == Paid(t, n)
           meters == {k \in Meters(t) : Charges(buckets, k, HalfFor(t, k))}
           h == now - Window
<1>1. /\ now \in Nat /\ BucketsOK(buckets, now) /\ t \in Ticket /\ n \in Nat /\ h = Horizon
  BY ClockNat, LimitsAssumption DEF IngestInv, TicketsOK, Horizon
<1>2. /\ BucketsOK(bs, now) /\ AllGrown(buckets, bs, Horizon)
      /\ \A j \in Key \ Meters(t) : bs[j] = buckets[j]
      /\ \A k \in Meters(t) :
           /\ Charges(buckets, k, HalfFor(t, k)) => Pays(buckets[k], bs[k], HalfFor(t, k), n)
           /\ ~Charges(buckets, k, HalfFor(t, k)) => Alike(buckets[k], bs[k], Horizon)
  BY <1>1, PaidPays
<1>3. /\ UNCHANGED <<now, config, arrivals, admitted>> /\ reading' = reading \ {t}
      /\ Writing(bs, t, n) \/ \E k \in Meters(t) : Refusing(bs, t, k)
  BY SettleIs
<1>4. AllAlike(bs, buckets', Horizon)
  <2>1. CASE Writing(bs, t, n)
    BY <1>1, <1>2, <2>1, AllStays DEF Writing
  <2>2. CASE \E k \in Meters(t) : Refusing(bs, t, k)
    <3> HIDE DEF bs
    <3>1. bs = Paid(t, n)
      BY DEF bs
    <3> QED BY <1>1, <1>3, <2>2, <3>1, RefusingKeeps
  <2> HIDE DEF bs
  <2> QED BY <1>3, <2>1, <2>2
<1> HIDE DEF bs, h
<1>5. /\ \A m \in Key : LedgerOf[m] = Entries(buckets[m], h) /\ LedgerOf'[m] = Entries(bs[m], h)
      /\ DOMAIN LedgerOf' = Key
  <2>1. \A m \in Key : Entries(buckets'[m], h) = Entries(bs[m], h)
    BY <1>1, <1>4, AlikeEntries DEF AllAlike
  <2>2. LedgerOf = [m \in Key |-> Entries(buckets[m], h)]
        /\ LedgerOf' = [m \in Key |-> Entries(buckets'[m], h)]
    BY <1>3, LedgerBefore, LedgerAfter DEF h
  <2> QED BY <2>1, <2>2
<1>6. \A m \in Meters(t) : m \in Key
  BY <1>1, TicketHalves
<1>7. ASSUME NEW m \in meters
      PROVE  /\ \E e \in LedgerOf[m] : LedgerOf'[m] = Ledger!Charged(LedgerOf[m], e, n)
             /\ Ledger!Cost(LedgerOf'[m]) = bs[m].recordSum
  <2>1. m \in Key /\ Pays(buckets[m], bs[m], HalfFor(t, m), n)
    BY <1>2, <1>6
  <2>2. Sound(buckets[m], now) /\ Sound(bs[m], now)
    BY <1>1, <1>2, <2>1 DEF BucketsOK
  <2>3. \E e \in Entries(buckets[m], h) : Entries(bs[m], h) = Ledger!Charged(Entries(buckets[m], h), e, n)
    BY <1>1, <2>1, <2>2, PaysCharges
  <2>4. Seqs(bs[m]) = Live(bs[m], h)
    BY <1>1, <2>1 DEF Pays
  <2>5. Ledger!Cost(Entries(bs[m], h)) = bs[m].recordSum
    BY <2>2, <2>4, EntriesCost
  <2> QED BY <1>5, <2>1, <2>3, <2>5
<1>8. ASSUME NEW m \in Key, m \notin meters PROVE LedgerOf'[m] = LedgerOf[m]
  <2>1. CASE m \in Meters(t)
    BY <1>1, <1>2, <1>5, <1>8, <2>1, AlikeEntries
  <2>2. CASE m \notin Meters(t)
    BY <1>2, <1>5, <2>2
  <2> QED BY <2>1, <2>2
<1>9. \A m \in Meters(t) : Ledger!RecordsAllowed(m) = RecordAllowance(m)
  BY DEF Ledger!RecordsAllowed, RecordAllowance
<1>10. (answer'.kind = "written") = (\A m \in meters : Ledger!Cost(LedgerOf'[m]) <= Ledger!RecordsAllowed(m))
  <2>1. CASE Writing(bs, t, n)
    <3>1. answer'.kind = "written"
      BY <2>1 DEF Writing, NoAnswer
    <3>2. \A m \in meters : Ledger!Cost(LedgerOf'[m]) <= Ledger!RecordsAllowed(m)
      BY <1>7, <1>9, <2>1 DEF Writing
    <3> QED BY <3>1, <3>2
  <2>2. CASE \E k \in Meters(t) : Refusing(bs, t, k)
    <3>1. PICK k \in Meters(t) : Refusing(bs, t, k)
      BY <2>2
    <3>2. answer'.kind # "written"
      BY <3>1 DEF Refusing, Reject
    <3>3. k \in meters /\ bs[k].recordSum > RecordAllowance(k)
      BY <3>1 DEF Refusing
    <3>4. bs[k].recordSum \in Nat /\ RecordAllowance(k) \in Nat
      BY <1>2, <1>6, ShapedNumbers, LimitsAssumption
         DEF BucketsOK, Sound, Kept, Numbered, RecordAllowance
    <3>5. ~(bs[k].recordSum <= RecordAllowance(k))
      BY <3>3, <3>4
    <3>6. ~(Ledger!Cost(LedgerOf'[k]) <= Ledger!RecordsAllowed(k))
      BY <1>7, <1>9, <3>3, <3>5
    <3> QED BY <3>2, <3>3, <3>6
  <2> QED BY <1>3, <2>1, <2>2
<1>11. meters \in SUBSET Ledger!Meter /\ Key = Ledger!Meter
  BY <1>6 DEF Key, Ledger!Meter
<1> HIDE DEF meters
<1>12. /\ DOMAIN LedgerOf' = Ledger!Meter
       /\ \A m \in Ledger!Meter : IF m \in meters
            THEN \E e \in LedgerOf[m] : LedgerOf'[m] = Ledger!Charged(LedgerOf[m], e, n)
            ELSE LedgerOf'[m] = LedgerOf[m]
  BY <1>5, <1>7, <1>8, <1>11
<1>13. Ledger!Charge(meters, n)
  BY <1>3, <1>10, <1>12 DEF Ledger!Charge, LedgerOf
<1> QED BY <1>11, <1>13

LEMMA MeteredImplements ==
  ASSUME IngestInv, IngestInv', NEW n \in Key, NEW chain, ResolveKey(chain) \in {n, Shared},
         Metered(n, chain)
  PROVE  Ledger!Next
<1>1. /\ now' = now /\ config' \in {"unread", "read"} /\ arrivals' = arrivals + 1
      /\ \E bs : \E k \in {n, Shared} :
           /\ SceneOf(bs) /\ Recent(bs[k]) /\ Recent(bs[Shared])
           /\ Entering(bs, k) \/ Rejecting(bs, k) \/ Rejecting(bs, Shared)
  BY MeteredIs
<1>2. ASSUME NEW bs, NEW k \in Key, SceneOf(bs), Entering(bs, k) PROVE Ledger!Next
  <2>1. Ledger!Admit({k, Shared})
    BY <1>1, <1>2, EnteringImplements
  <2> QED BY <2>1 DEF Ledger!Next, Key
<1>3. ASSUME NEW bs, NEW j, SceneOf(bs), Rejecting(bs, j) PROVE Ledger!Next
  <2>1. AllAlike(buckets, buckets', Horizon)
    BY <1>1, <1>3, RejectingKeeps
  <2>2. answer'.kind # "written"
    BY <1>3 DEF Rejecting, Reject
  <2> QED BY <1>1, <2>1, <2>2, AnswerImplements DEF Ledger!Next
<1> QED BY <1>1, <1>2, <1>3 DEF Key

LEMMA NextImplements ==
  ASSUME IngestInv, IngestInv', [Next]_vars
  PROVE  [Ledger!Next]_(Ledger!vars)
<1>1. now \in Nat /\ BucketsOK(buckets, now)
  BY ClockNat DEF IngestInv
<1>2. ASSUME UNCHANGED <<now, buckets>>, answer' = NoAnswer PROVE Ledger!Next
  <2>1. AllAlike(buckets, buckets', Horizon)
    BY <1>1, <1>2, AllStays
  <2> QED BY <1>2, <2>1, AnswerImplements DEF Ledger!Next, NoAnswer
<1>3. CASE Tick
  BY <1>3, TickImplements DEF Ledger!Next
<1>4. CASE NotFound
  BY <1>2, <1>4 DEF NotFound
<1>5. ASSUME NEW n \in Network, MeterVouched(n) PROVE Ledger!Next
  BY <1>5, VouchedKey, MeteredImplements DEF MeterVouched, Key
<1>6. CASE MeterUnvouched
  <2>1. Shared \in Key
    BY DEF Key
  <2> QED BY <1>6, <2>1, UnvouchedKey, MeteredImplements DEF MeterUnvouched
<1>7. ASSUME NEW t \in reading, Abandon(t) PROVE Ledger!Next
  BY <1>2, <1>7 DEF Abandon
<1>8. ASSUME NEW t \in reading, NEW n \in Unit, Settle(t, n) PROVE Ledger!Next
  BY <1>8, SettleImplements DEF Ledger!Next
<1>9. CASE UNCHANGED vars
  <2>1. now' = now /\ buckets' = buckets /\ answer' = answer
    BY <1>9 DEF vars
  <2>2. LedgerOf' = LedgerOf
    BY <2>1, LedgerBefore, LedgerAfter
  <2> QED BY <2>1, <2>2 DEF Ledger!vars, LedgerOf
<1> QED BY <1>3, <1>4, <1>5, <1>6, <1>7, <1>8, <1>9 DEF Next

LEMMA InitImplements ==
  ASSUME Init
  PROVE  Ledger!Init
<1>1. IngestInv
  BY InitKeeps
<1>2. \A k \in Key : Entries(buckets[k], now - Window) = {}
  BY NothingSound, LimitsAssumption DEF Init, Entries, Live
<1>3. LedgerOf = [k \in Key |-> {}]
  BY <1>1, <1>2, LedgerBefore
<1>4. Key = Ledger!Meter
  BY DEF Key, Ledger!Meter
<1> QED BY <1>3, <1>4 DEF Init, NoAnswer, Ledger!Init, LedgerOf

\* Head indices, lazy retirement, compaction, sweeps and sequences amount to two exact
\* sliding windows: the limiter admits, charges and writes as the ledgers would.
THEOREM LedgerKept == Spec => KeepsLedger
<1>1. Init => Ledger!Init
  BY InitImplements
<1>2. IngestInv /\ IngestInv' /\ [Next]_vars => [Ledger!Next]_(Ledger!vars)
  BY NextImplements
<1> QED BY <1>1, <1>2, IngestInvariant, PTL DEF Spec, KeepsLedger, Ledger!Spec

=============================================================================
