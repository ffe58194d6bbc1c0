------------------------- MODULE BoundedThrottlerProofs -------------------------
(***************************************************************************)
(* Theorems about the rate-limit store, for every set of keys and names,   *)
(* every limit and window and every ceiling.  A record and the history of  *)
(* its key are related one key at a time (RecordOK); what increment does   *)
(* to a record is a visit, which retires or blanks it, and then a hit.     *)
(***************************************************************************)
EXTENDS BoundedThrottler, FiniteSetTheorems, SequenceTheorems, TLAPS

Record == [hits : [Name -> Seq(Nat)], blocked : BOOLEAN, until : Nat]

\* Times of hits, oldest first and none in the future.
InOrder(hits, time) ==
  hits \in Seq(Nat) /\ Ascending(hits) /\ \A i \in DOMAIN hits : hits[i] <= time

\* One name's own key, with a block that lasts a window.
Own(k, n) == Uses[k] = {n} /\ Block[n] >= Ttl[n]

\* While its key is not blocked, a name has admitted what its record still counts;
\* while it is blocked, what was admitted in this window has aged out before the
\* block lapses.
Bounded(n, rec, admitted, time) ==
  /\ Len(admitted[n]) <= Limit[n]
  /\ ~rec.blocked => admitted[n] = FreshAt(n, rec.hits[n], time)
  /\ rec.blocked => \A i \in DOMAIN admitted[n] : admitted[n][i] + Block[n] <= rec.until

RecordOK(k, rec, admitted, time) ==
  /\ rec \in Record /\ admitted \in [Name -> Seq(Nat)]
  /\ \A n \in Name :
       /\ InOrder(rec.hits[n], time) /\ InOrder(admitted[n], time)
       /\ \A i \in DOMAIN admitted[n] : admitted[n][i] > time - Ttl[n]
       /\ Own(k, n) => Bounded(n, rec, admitted, time)

\* The order of insertion is a total order of the keys in the Map.
Ordered(present, before) ==
  /\ \A j, k \in present : j # k => (j \in before[k] <=> k \notin before[j])
  /\ \A k \in present : \A j \in before[k] : j \in present /\ before[j] \subseteq before[k] \ {j}

Placed ==
  /\ keys \in SUBSET Key /\ IsFiniteSet(keys) /\ Cardinality(keys) <= MaxKeys
  /\ older \in [Key -> SUBSET Key] /\ Ordered(keys, older)
  /\ \A k \in Key : k \notin keys => record[k] = Blank

Types ==
  /\ now \in Nat /\ lastPrune \in Nat
  /\ record \in [Key -> Record] /\ served \in [Key -> [Name -> Seq(Nat)]]

RecordsOK == \A k \in Key : RecordOK(k, record[k], served[k], now)

ThrottleInv == Types /\ Placed /\ RecordsOK

--------------------------------------------------------------------------------
(* Retiring hits. *)

\* The prefix the scan passes is the one all of whose hits have aged out.
LEMMA Cut ==
  ASSUME NEW n \in Name, NEW hits \in Seq(Nat), NEW time \in Nat, NEW m \in 0..Len(hits),
         \A i \in 1..m : hits[i] <= time - Ttl[n],
         m < Len(hits) => hits[m + 1] > time - Ttl[n]
  PROVE  FreshAt(n, hits, time) = SubSeq(hits, m + 1, Len(hits))
<1>1. AgedOut(n, hits, time) = 1..m
  <2>1. DOMAIN hits = 1..Len(hits) /\ Len(hits) \in Nat
    OBVIOUS
  <2>2. Ttl[n] \in Nat /\ \A i \in 1..Len(hits) : hits[i] \in Nat
    BY BucketsAssumption
  <2>3. ASSUME NEW i \in AgedOut(n, hits, time) PROVE i \in 1..m
    <3>1. i \in 1..Len(hits) /\ \A j \in 1..i : hits[j] <= time - Ttl[n]
      BY <2>1 DEF AgedOut
    <3>2. i > m => m + 1 \in 1..i /\ m < Len(hits)
      BY <2>1, <3>1
    <3> QED
      BY <2>1, <2>2, <3>1, <3>2
  <2>4. ASSUME NEW i \in 1..m PROVE i \in AgedOut(n, hits, time)
    BY <2>1 DEF AgedOut
  <2> QED
    BY <2>3, <2>4
<1>2. Cardinality(1..m) = m
  BY FS_Interval
<1> QED
  BY <1>1, <1>2 DEF FreshAt

\* There is such a prefix: as many hits as have aged out are the first ones.
LEMMA CutExists ==
  ASSUME NEW n \in Name, NEW hits \in Seq(Nat), NEW time \in Nat
  PROVE  \E m \in 0..Len(hits) :
           /\ \A i \in 1..m : hits[i] <= time - Ttl[n]
           /\ m < Len(hits) => hits[m + 1] > time - Ttl[n]
<1> DEFINE A == AgedOut(n, hits, time)
           m == Cardinality(A)
<1>1. DOMAIN hits = 1..Len(hits) /\ Len(hits) \in Nat /\ Ttl[n] \in Nat
      /\ \A i \in 1..Len(hits) : hits[i] \in Nat
  BY BucketsAssumption
<1>2. A \subseteq 1..Len(hits) /\ \A i \in A : 1..i \subseteq A
  BY <1>1 DEF AgedOut
<1>3. \A k \in Nat : IsFiniteSet(1..k) /\ Cardinality(1..k) = k
  BY FS_Interval
<1>4. IsFiniteSet(A) /\ m \in Nat /\ m <= Len(hits)
  BY <1>1, <1>2, <1>3, FS_Subset, FS_CardinalityType
<1>5. ASSUME NEW i \in A PROVE i <= m
  <2>1. 1..i \subseteq A /\ i \in Nat
    BY <1>1, <1>2
  <2> QED
    BY <2>1, <1>3, <1>4, FS_Subset
<1>6. ASSUME NEW i \in 1..m PROVE i \in A
  <2> SUFFICES ASSUME i \notin A PROVE FALSE
    OBVIOUS
  <2>1. A \subseteq 1..(i - 1) /\ i - 1 \in Nat
    <3> SUFFICES ASSUME NEW j \in A PROVE j \in 1..(i - 1)
      BY <1>4
    <3>1. j \in 1..Len(hits) /\ 1..j \subseteq A
      BY <1>2
    <3> QED
      BY <3>1, <1>1, <1>4
  <2>2. m <= i - 1
    BY <2>1, <1>3, FS_Subset
  <2> QED
    BY <2>1, <2>2, <1>4
<1>7. \A i \in 1..m : hits[i] <= time - Ttl[n]
  <2> SUFFICES ASSUME NEW i \in 1..m PROVE hits[i] <= time - Ttl[n]
    OBVIOUS
  <2>1. i \in A /\ i \in 1..i
    BY <1>4, <1>6
  <2> QED
    BY <2>1 DEF AgedOut
<1>8. m < Len(hits) => hits[m + 1] > time - Ttl[n]
  <2> SUFFICES ASSUME m < Len(hits), ~(hits[m + 1] > time - Ttl[n]) PROVE FALSE
    OBVIOUS
  <2>1. m + 1 \in 1..Len(hits) /\ hits[m + 1] <= time - Ttl[n]
    BY <1>1, <1>4
  <2>2. \A j \in 1..(m + 1) : hits[j] <= time - Ttl[n]
    BY <1>4, <1>7, <2>1
  <2>3. m + 1 \in A
    BY <1>1, <2>1, <2>2 DEF AgedOut
  <2> QED
    BY <1>4, <1>5, <2>3
<1> QED
  BY <1>4, <1>7, <1>8

\* What is left of hits in order: a suffix, and exactly those inside the window.
LEMMA FreshSuffix ==
  ASSUME NEW n \in Name, NEW time \in Nat, NEW hits \in Seq(Nat), Ascending(hits)
  PROVE  \E m \in 0..Len(hits) :
           /\ FreshAt(n, hits, time) = SubSeq(hits, m + 1, Len(hits))
           /\ FreshAt(n, hits, time) \in Seq(Nat)
           /\ Len(FreshAt(n, hits, time)) = Len(hits) - m
           /\ \A i \in 1..(Len(hits) - m) : FreshAt(n, hits, time)[i] = hits[m + i]
           /\ \A i \in 1..m : hits[i] <= time - Ttl[n]
           /\ \A i \in (m + 1)..Len(hits) : hits[i] > time - Ttl[n]
<1>1. PICK m \in 0..Len(hits) :
        /\ \A i \in 1..m : hits[i] <= time - Ttl[n]
        /\ m < Len(hits) => hits[m + 1] > time - Ttl[n]
  BY CutExists
<1>2. FreshAt(n, hits, time) = SubSeq(hits, m + 1, Len(hits))
  BY <1>1, Cut
<1>3. /\ SubSeq(hits, m + 1, Len(hits)) \in Seq(Nat)
      /\ Len(SubSeq(hits, m + 1, Len(hits))) = Len(hits) - m
      /\ \A i \in 1..(Len(hits) - m) : SubSeq(hits, m + 1, Len(hits))[i] = hits[m + i]
  OBVIOUS
<1>4. \A i \in (m + 1)..Len(hits) : hits[i] > time - Ttl[n]
  <2> SUFFICES ASSUME NEW i \in (m + 1)..Len(hits) PROVE hits[i] > time - Ttl[n]
    OBVIOUS
  <2>1. hits[m + 1] > time - Ttl[n] /\ m + 1 \in DOMAIN hits /\ i \in DOMAIN hits
        /\ m + 1 <= i
    BY <1>1
  <2>2. hits[m + 1] <= hits[i]
    BY <2>1 DEF Ascending
  <2>3. hits[m + 1] \in Nat /\ hits[i] \in Nat /\ Ttl[n] \in Nat
    BY <2>1, BucketsAssumption
  <2> QED
    BY <2>1, <2>2, <2>3
<1> QED
  BY <1>1, <1>2, <1>3, <1>4

\* Retiring keeps hits in order, and none that has aged out.
LEMMA FreshInOrder ==
  ASSUME NEW n \in Name, NEW time \in Nat, NEW later \in Nat, time <= later,
         NEW hits, InOrder(hits, time)
  PROVE  /\ InOrder(FreshAt(n, hits, later), time)
         /\ \A i \in DOMAIN FreshAt(n, hits, later) : FreshAt(n, hits, later)[i] > later - Ttl[n]
         /\ Len(FreshAt(n, hits, later)) <= Len(hits)
<1> DEFINE F == FreshAt(n, hits, later)
<1>0. hits \in Seq(Nat) /\ Ascending(hits) /\ \A i \in 1..Len(hits) : hits[i] <= time
  BY DEF InOrder
<1>1. PICK m \in 0..Len(hits) :
        /\ F \in Seq(Nat) /\ Len(F) = Len(hits) - m
        /\ \A i \in 1..(Len(hits) - m) : F[i] = hits[m + i]
        /\ \A i \in (m + 1)..Len(hits) : hits[i] > later - Ttl[n]
  BY <1>0, FreshSuffix
<1> HIDE DEF F
<1>2. DOMAIN F = 1..(Len(hits) - m) /\ Len(hits) \in Nat
  BY <1>0, <1>1
<1>3. Ascending(F)
  <2> SUFFICES ASSUME NEW i \in 1..(Len(hits) - m), NEW j \in 1..(Len(hits) - m), i < j
               PROVE  F[i] <= F[j]
    BY <1>2 DEF Ascending
  <2>1. m + i \in DOMAIN hits /\ m + j \in DOMAIN hits /\ m + i < m + j
    BY <1>0
  <2> QED
    BY <1>0, <1>1, <2>1 DEF Ascending
<1>4. \A i \in DOMAIN F : F[i] <= time /\ F[i] > later - Ttl[n]
  <2> SUFFICES ASSUME NEW i \in 1..(Len(hits) - m) PROVE F[i] <= time /\ F[i] > later - Ttl[n]
    BY <1>2
  <2>1. m + i \in 1..Len(hits) /\ m + i \in (m + 1)..Len(hits)
    BY <1>2
  <2> QED
    BY <1>0, <1>1, <2>1
<1>5. Len(F) <= Len(hits)
  BY <1>1, <1>2
<1> QED
  BY <1>1, <1>3, <1>4, <1>5 DEF InOrder, F

\* Nothing is retired of hits that are all inside the window, everything of hits
\* that have all aged out.
LEMMA FreshAll ==
  ASSUME NEW n \in Name, NEW time \in Nat, NEW hits \in Seq(Nat),
         \A i \in DOMAIN hits : hits[i] > time - Ttl[n]
  PROVE  FreshAt(n, hits, time) = hits
<1>1. 0 \in 0..Len(hits) /\ (0 < Len(hits) => hits[0 + 1] > time - Ttl[n])
  OBVIOUS
<1>2. FreshAt(n, hits, time) = SubSeq(hits, 0 + 1, Len(hits))
  BY <1>1, Cut
<1> QED
  BY <1>2, SubSeqFull

LEMMA FreshNone ==
  ASSUME NEW n \in Name, NEW time \in Nat
  PROVE  FreshAt(n, <<>>, time) = <<>>
<1>1. <<>> \in Seq(Nat) /\ DOMAIN <<>> = {}
  OBVIOUS
<1> QED
  BY <1>1, FreshAll

\* Retiring now and again later is retiring later.
LEMMA FreshTwice ==
  ASSUME NEW n \in Name, NEW time \in Nat, NEW later \in Nat, time <= later,
         NEW hits \in Seq(Nat), Ascending(hits)
  PROVE  FreshAt(n, FreshAt(n, hits, time), later) = FreshAt(n, hits, later)
<1> DEFINE F == FreshAt(n, hits, time)
<1>1. PICK m \in 0..Len(hits) :
        /\ F = SubSeq(hits, m + 1, Len(hits))
        /\ F \in Seq(Nat) /\ Len(F) = Len(hits) - m
        /\ \A i \in 1..(Len(hits) - m) : F[i] = hits[m + i]
        /\ \A i \in 1..m : hits[i] <= time - Ttl[n]
        /\ \A i \in (m + 1)..Len(hits) : hits[i] > time - Ttl[n]
  BY FreshSuffix
<1>2. PICK q \in 0..Len(hits) :
        /\ FreshAt(n, hits, later) = SubSeq(hits, q + 1, Len(hits))
        /\ \A i \in 1..q : hits[i] <= later - Ttl[n]
        /\ \A i \in (q + 1)..Len(hits) : hits[i] > later - Ttl[n]
  BY FreshSuffix
<1> HIDE DEF F
<1>3. Len(hits) \in Nat /\ Ttl[n] \in Nat /\ \A i \in 1..Len(hits) : hits[i] \in Nat
  BY BucketsAssumption
<1>4. m <= q
  <2> SUFFICES ASSUME q < m PROVE FALSE
    BY <1>3
  <2>1. q + 1 \in 1..m /\ q + 1 \in (q + 1)..Len(hits) /\ q + 1 \in 1..Len(hits)
    BY <1>3
  <2>2. hits[q + 1] <= time - Ttl[n] /\ hits[q + 1] > later - Ttl[n] /\ hits[q + 1] \in Nat
    BY <1>1, <1>2, <1>3, <2>1
  <2> QED
    BY <1>3, <2>2
<1>5. q - m \in 0..Len(F) /\ Len(F) \in Nat
  BY <1>1, <1>3, <1>4
<1>6. \A i \in 1..(q - m) : F[i] <= later - Ttl[n]
  <2> SUFFICES ASSUME NEW i \in 1..(q - m) PROVE F[i] <= later - Ttl[n]
    OBVIOUS
  <2>1. i \in 1..(Len(hits) - m) /\ m + i \in 1..q
    BY <1>3, <1>4
  <2> QED
    BY <1>1, <1>2, <2>1
<1>7. q - m < Len(F) => F[q - m + 1] > later - Ttl[n]
  <2> SUFFICES ASSUME q - m < Len(F) PROVE F[q - m + 1] > later - Ttl[n]
    OBVIOUS
  <2>1. q - m + 1 \in 1..(Len(hits) - m) /\ m + (q - m + 1) = q + 1
        /\ q + 1 \in (q + 1)..Len(hits)
    BY <1>1, <1>3, <1>4
  <2> QED
    BY <1>1, <1>2, <2>1
<1>8. FreshAt(n, F, later) = SubSeq(F, q - m + 1, Len(F))
  BY <1>1, <1>5, <1>6, <1>7, Cut
<1>9. SubSeq(F, q - m + 1, Len(F)) = SubSeq(hits, q + 1, Len(hits))
  <2> DEFINE G == SubSeq(F, q - m + 1, Len(F))
             H == SubSeq(hits, q + 1, Len(hits))
  <2>1. /\ G \in Seq(Nat) /\ Len(G) = Len(F) - (q - m)
        /\ \A i \in 1..(Len(F) - (q - m)) : G[i] = F[i + (q - m)]
    BY <1>1, <1>5
  <2>2. /\ H \in Seq(Nat) /\ Len(H) = Len(hits) - q
        /\ \A i \in 1..(Len(hits) - q) : H[i] = hits[i + q]
    BY <1>3
  <2> HIDE DEF G, H
  <2>3. Len(F) - (q - m) = Len(hits) - q
    BY <1>1, <1>3, <1>4
  <2>4. ASSUME NEW i \in 1..(Len(hits) - q) PROVE G[i] = H[i]
    <3>1. i + (q - m) \in 1..(Len(hits) - m) /\ m + (i + (q - m)) = i + q
      BY <1>3, <1>4
    <3> QED
      BY <1>1, <2>1, <2>2, <2>3, <3>1
  <2>5. G = H
    BY <2>1, <2>2, <2>3, <2>4, SeqEqual
  <2> QED
    BY <2>5 DEF G, H
<1> QED
  BY <1>2, <1>8, <1>9 DEF F

--------------------------------------------------------------------------------
(* What is done to one record. *)

LEMMA RetireOK ==
  ASSUME now \in Nat, NEW k \in Key, NEW rec, NEW admitted, RecordOK(k, rec, admitted, now)
  PROVE  /\ RecordOK(k, Retire(rec), admitted, now)
         /\ Retire(rec).blocked = rec.blocked /\ Retire(rec).until = rec.until
         /\ \A n \in Name : /\ Retire(rec).hits[n] = Fresh(n, rec.hits[n])
                            /\ Fresh(n, Retire(rec).hits[n]) = Fresh(n, rec.hits[n])
<1>1. rec \in Record /\ \A n \in Name : InOrder(rec.hits[n], now)
  BY DEF RecordOK
<1>2. /\ Retire(rec).blocked = rec.blocked /\ Retire(rec).until = rec.until
      /\ Retire(rec).hits = [n \in Name |-> FreshAt(n, rec.hits[n], now)]
      /\ DOMAIN Retire(rec) = DOMAIN rec
      /\ Retire(rec) = [hits |-> Retire(rec).hits, blocked |-> rec.blocked, until |-> rec.until]
  BY <1>1 DEF Retire, Record, Fresh
<1>3. \A n \in Name : InOrder(FreshAt(n, rec.hits[n], now), now)
  BY <1>1, FreshInOrder
<1>4. Retire(rec) \in Record
  <2>1. \A n \in Name : FreshAt(n, rec.hits[n], now) \in Seq(Nat)
    BY <1>3 DEF InOrder
  <2> QED
    BY <1>1, <1>2, <2>1 DEF Record
<1>5. \A n \in Name : FreshAt(n, FreshAt(n, rec.hits[n], now), now) = FreshAt(n, rec.hits[n], now)
  BY <1>1, FreshTwice DEF InOrder
<1>6. \A n \in Name : Own(k, n) => Bounded(n, Retire(rec), admitted, now)
  BY <1>2, <1>5 DEF RecordOK, Bounded
<1>7. RecordOK(k, Retire(rec), admitted, now)
  BY <1>2, <1>3, <1>4, <1>6 DEF RecordOK
<1> QED
  BY <1>2, <1>5, <1>7 DEF Fresh

LEMMA BlankIs ==
  /\ Blank \in Record /\ ~Blank.blocked
  /\ \A n \in Name : Blank.hits[n] = <<>> /\ NoHits[n] = <<>>
  /\ NoHits \in [Name -> Seq(Nat)]
  /\ \A time \in Nat : InOrder(<<>>, time)
<1>1. <<>> \in Seq(Nat) /\ DOMAIN <<>> = {}
  OBVIOUS
<1> QED
  BY <1>1 DEF Blank, NoHits, Record, InOrder, Ascending

LEMMA NoneIsEmpty == ASSUME NEW hits \in Seq(Nat), DOMAIN hits = {} PROVE hits = <<>>
OBVIOUS

\* A dead record leaves nothing behind: whatever its name admitted has aged out too.
LEMMA BlankOK ==
  ASSUME now \in Nat, NEW k \in Key, NEW rec, NEW admitted, RecordOK(k, rec, admitted, now),
         Reclaimable(rec)
  PROVE  RecordOK(k, Blank, admitted, now)
<1>1. \A n \in Name : Fresh(n, rec.hits[n]) = <<>>
  BY RetireOK, BlankIs DEF Reclaimable
<1>2. ASSUME NEW n \in Name, Own(k, n) PROVE Bounded(n, Blank, admitted, now)
  <2>1. /\ Bounded(n, rec, admitted, now) /\ admitted[n] \in Seq(Nat)
        /\ \A i \in DOMAIN admitted[n] : admitted[n][i] > now - Ttl[n]
    BY <1>2 DEF RecordOK
  <2>2. admitted[n] = <<>>
    <3>1. CASE ~rec.blocked
      BY <1>1, <2>1, <3>1 DEF Bounded, Fresh
    <3>2. CASE rec.blocked
      <4>1. rec.until <= now /\ rec.until \in Nat
        BY <3>2 DEF Reclaimable, ServingBlock, RecordOK, Record
      <4>2. ASSUME NEW i \in DOMAIN admitted[n] PROVE FALSE
        <5>1. admitted[n][i] + Block[n] <= rec.until /\ admitted[n][i] > now - Ttl[n]
              /\ admitted[n][i] \in Nat
          BY <2>1, <3>2 DEF Bounded
        <5>2. Block[n] >= Ttl[n] /\ Block[n] \in Nat /\ Ttl[n] \in Nat
          BY <1>2, BucketsAssumption DEF Own
        <5> QED
          BY <4>1, <5>1, <5>2
      <4> QED
        BY <2>1, <4>2
    <3> QED
      BY <3>1, <3>2 DEF RecordOK, Record
  <2>3. Limit[n] \in Nat /\ Len(<<>>) = 0
    BY BucketsAssumption
  <2> QED
    BY <2>2, <2>3, BlankIs, FreshNone DEF Bounded
<1> QED
  BY <1>2, BlankIs DEF RecordOK

\* Pushing the present time onto hits inside the window.
LEMMA PushFresh ==
  ASSUME now \in Nat, NEW n \in Name, NEW hits, InOrder(hits, now),
         \A i \in DOMAIN hits : hits[i] > now - Ttl[n]
  PROVE  /\ InOrder(Append(hits, now), now)
         /\ \A i \in DOMAIN Append(hits, now) : Append(hits, now)[i] > now - Ttl[n]
         /\ FreshAt(n, Append(hits, now), now) = Append(hits, now)
         /\ Append(hits, now) \in Seq(Nat) /\ Len(Append(hits, now)) = Len(hits) + 1
<1> DEFINE A == Append(hits, now)
<1>0. Len(hits) \in Nat
  BY DEF InOrder
<1>1. hits \in Seq(Nat) /\ Len(hits) \in Nat /\ Ttl[n] \in Nat \ {0}
      /\ \A i \in 1..Len(hits) : hits[i] \in Nat /\ hits[i] <= now /\ hits[i] > now - Ttl[n]
  BY BucketsAssumption DEF InOrder
<1>2. /\ A \in Seq(Nat) /\ Len(A) = Len(hits) + 1 /\ DOMAIN A = 1..(Len(hits) + 1)
      /\ \A i \in 1..Len(hits) : A[i] = hits[i]
      /\ A[Len(hits) + 1] = now
  BY <1>1
<1> HIDE DEF A
<1>3. ASSUME NEW i \in 1..(Len(hits) + 1)
      PROVE  A[i] \in Nat /\ A[i] <= now /\ A[i] > now - Ttl[n]
  <2>1. CASE i = Len(hits) + 1
    BY <1>1, <1>2, <2>1
  <2>2. CASE i \in 1..Len(hits)
    BY <1>1, <1>2, <2>2
  <2> QED
    BY <1>1, <2>1, <2>2
<1>4. Ascending(A)
  <2> SUFFICES ASSUME NEW i \in 1..(Len(hits) + 1), NEW j \in 1..(Len(hits) + 1), i < j
               PROVE  A[i] <= A[j]
    BY <1>2 DEF Ascending
  <2>1. CASE j = Len(hits) + 1
    BY <1>2, <1>3, <2>1
  <2>2. CASE j \in 1..Len(hits)
    <3>1. i \in 1..Len(hits) /\ i \in DOMAIN hits /\ j \in DOMAIN hits
      BY <1>1, <2>2
    <3> QED
      BY <1>2, <2>2, <3>1 DEF InOrder, Ascending
  <2>3. j = Len(hits) + 1 \/ j \in 1..Len(hits)
    BY <1>0
  <2> QED
    BY <2>1, <2>2, <2>3
<1>5. FreshAt(n, A, now) = A
  BY <1>2, <1>3, FreshAll
<1> QED
  BY <1>2, <1>3, <1>4, <1>5 DEF InOrder, A

\* The history after a hit that left record rec of name n.
Admitted(rec, n, admitted) ==
  IF rec.blocked THEN admitted ELSE [admitted EXCEPT ![n] = Append(@, now)]

\* The three cases of a hit exclude one another.
LEMMA HitCases ==
  ASSUME NEW rec, rec.blocked \in BOOLEAN, NEW n
  PROVE  /\ ~rec.blocked => Hit(rec, n) = Pushed(rec, n)
         /\ ServingBlock(rec) => Hit(rec, n) = rec
         /\ rec.blocked /\ ~ServingBlock(rec) =>
              Hit(rec, n) = [hits |-> [rec.hits EXCEPT ![n] = <<now>>], blocked |-> FALSE,
                             until |-> 0]
BY DEF Hit, ServingBlock

LEMMA OneHit ==
  ASSUME now \in Nat, NEW n \in Name
  PROVE  /\ InOrder(<<now>>, now) /\ <<now>> \in Seq(Nat) /\ Len(<<now>>) = 1
         /\ \A i \in DOMAIN <<now>> : <<now>>[i] > now - Ttl[n]
         /\ FreshAt(n, <<now>>, now) = <<now>>
         /\ Append(<<>>, now) = <<now>>
<1>1. Append(<<>>, now) = <<now>>
  OBVIOUS
<1>2. InOrder(<<>>, now) /\ \A i \in DOMAIN <<>> : <<>>[i] > now - Ttl[n]
  BY BlankIs
<1>3. Len(<<now>>) = 1
  OBVIOUS
<1> QED
  BY <1>1, <1>2, <1>3, PushFresh

\* The call that passes the limit blocks its key before anything it admitted in this
\* window ages out; a lapsed block finds all of it gone.
LEMMA HitOK ==
  ASSUME now \in Nat, NEW k \in Key, NEW n \in Name, n \in Uses[k],
         NEW rec, NEW admitted, RecordOK(k, rec, admitted, now)
  PROVE  RecordOK(k, Hit(rec, n), Admitted(Hit(rec, n), n, admitted), now)
<1> DEFINE new == Hit(rec, n)
           F == FreshAt(n, rec.hits[n], now)
           P == Append(F, now)
           more == [admitted EXCEPT ![n] = Append(@, now)]
<1>1. /\ rec \in Record /\ rec.blocked \in BOOLEAN /\ rec.until \in Nat
      /\ rec.hits \in [Name -> Seq(Nat)] /\ admitted \in [Name -> Seq(Nat)]
  BY DEF RecordOK, Record
<1>2. \A m \in Name : /\ InOrder(rec.hits[m], now) /\ InOrder(admitted[m], now)
                      /\ \A i \in DOMAIN admitted[m] : admitted[m][i] > now - Ttl[m]
  BY DEF RecordOK
<1>3. InOrder(F, now) /\ \A i \in DOMAIN F : F[i] > now - Ttl[n]
  BY <1>2, FreshInOrder
<1>4. /\ InOrder(P, now) /\ FreshAt(n, P, now) = P
      /\ P \in Seq(Nat) /\ Len(P) = Len(F) + 1
  BY <1>3, PushFresh
<1>5. /\ InOrder(Append(admitted[n], now), now)
      /\ \A i \in DOMAIN Append(admitted[n], now) : Append(admitted[n], now)[i] > now - Ttl[n]
      /\ Append(admitted[n], now) \in Seq(Nat)
  BY <1>2, PushFresh
<1>6. /\ more \in [Name -> Seq(Nat)] /\ more[n] = Append(admitted[n], now)
      /\ \A m \in Name \ {n} : more[m] = admitted[m]
      /\ \A m \in Name : InOrder(more[m], now)
      /\ \A m \in Name : \A i \in DOMAIN more[m] : more[m][i] > now - Ttl[m]
  BY <1>1, <1>2, <1>5
<1>7. \A m \in Name : Own(k, m) => m = n
  BY DEF Own
<1>8. /\ Limit[n] \in Nat \ {0} /\ Block[n] \in Nat /\ Ttl[n] \in Nat
      /\ Len(admitted[n]) \in Nat /\ \A i \in DOMAIN admitted[n] : admitted[n][i] \in Nat
  BY <1>1, BucketsAssumption
<1>9. Own(k, n) => Bounded(n, rec, admitted, now)
  BY DEF RecordOK
<1>0. rec.blocked \in BOOLEAN
  BY <1>1
<1>13. /\ ServingBlock(rec) => new = rec /\ new.blocked
       /\ rec.blocked /\ ~ServingBlock(rec) =>
            new = [hits |-> [rec.hits EXCEPT ![n] = <<now>>], blocked |-> FALSE, until |-> 0]
  BY <1>0, HitCases DEF ServingBlock
<1> HIDE DEF F, P, more
<1>10. CASE ~rec.blocked
  <2> DEFINE over == Len(P) > Limit[n]
  <2>1. new = [hits |-> [rec.hits EXCEPT ![n] = P], blocked |-> over,
               until |-> IF over THEN now + Block[n] ELSE rec.until]
    BY <1>1, <1>10, HitCases DEF Pushed, Fresh, F, P
  <2> HIDE DEF new
  <2>2. new \in Record /\ new.hits[n] = P /\ \A m \in Name \ {n} : new.hits[m] = rec.hits[m]
    BY <1>1, <1>4, <1>8, <2>1 DEF Record
  <2>3. \A m \in Name : InOrder(new.hits[m], now)
    BY <1>2, <1>4, <2>2
  <2>4. CASE over
    <3>1. new.blocked /\ new.until = now + Block[n] /\ Admitted(new, n, admitted) = admitted
      BY <2>1, <2>4 DEF Admitted
    <3>2. Own(k, n) => Bounded(n, new, admitted, now)
      <4>1. \A i \in DOMAIN admitted[n] : admitted[n][i] + Block[n] <= now + Block[n]
        BY <1>2, <1>8 DEF InOrder
      <4> QED
        BY <1>9, <3>1, <4>1 DEF Bounded
    <3> QED
      BY <1>1, <1>2, <1>7, <2>2, <2>3, <3>1, <3>2 DEF RecordOK, new
  <2>5. CASE ~over
    <3>1. ~new.blocked /\ Admitted(new, n, admitted) = more
      BY <2>1, <2>5 DEF Admitted, more
    <3>2. Own(k, n) => Bounded(n, new, more, now)
      <4> SUFFICES ASSUME Own(k, n) PROVE Bounded(n, new, more, now)
        OBVIOUS
      <4>1. admitted[n] = F
        BY <1>9, <1>10 DEF Bounded, F
      <4>2. more[n] = P
        BY <1>6, <4>1 DEF P
      <4>3. Len(P) \in Nat /\ Len(P) <= Limit[n]
        BY <1>4, <1>8, <2>5
      <4> QED
        BY <1>4, <2>2, <3>1, <4>2, <4>3 DEF Bounded
    <3> QED
      BY <1>6, <1>7, <2>2, <2>3, <3>1, <3>2 DEF RecordOK, new
  <2> QED
    BY <2>4, <2>5
<1>11. CASE ServingBlock(rec)
  <2>1. new = rec /\ Admitted(new, n, admitted) = admitted
    BY <1>11, <1>13 DEF Admitted
  <2> QED
    BY <2>1
<1>12. CASE rec.blocked /\ ~ServingBlock(rec)
  <2>1. new = [hits |-> [rec.hits EXCEPT ![n] = <<now>>], blocked |-> FALSE, until |-> 0]
    BY <1>12, <1>13
  <2> HIDE DEF new
  <2>2. /\ new \in Record /\ ~new.blocked /\ new.hits[n] = <<now>>
        /\ \A m \in Name \ {n} : new.hits[m] = rec.hits[m]
        /\ Admitted(new, n, admitted) = more
    BY <1>1, <2>1, OneHit DEF Record, Admitted, more
  <2>3. \A m \in Name : InOrder(new.hits[m], now)
    BY <1>2, <2>2, OneHit
  <2>4. Own(k, n) => Bounded(n, new, more, now)
    <3> SUFFICES ASSUME Own(k, n) PROVE Bounded(n, new, more, now)
      OBVIOUS
    <3>1. rec.until <= now
      BY <1>1, <1>12 DEF ServingBlock
    <3>2. ASSUME NEW i \in DOMAIN admitted[n] PROVE FALSE
      <4>1. admitted[n][i] + Block[n] <= rec.until /\ admitted[n][i] > now - Ttl[n]
            /\ admitted[n][i] \in Nat
        BY <1>2, <1>8, <1>9, <1>12 DEF Bounded
      <4>2. Block[n] >= Ttl[n]
        BY DEF Own
      <4> QED
        BY <1>1, <1>8, <3>1, <4>1, <4>2
    <3>3. admitted[n] = <<>>
      <4>1. admitted[n] \in Seq(Nat)
        BY <1>1
      <4>2. DOMAIN admitted[n] = {}
        BY <3>2
      <4> QED
        BY <4>1, <4>2, NoneIsEmpty
    <3>4. more[n] = <<now>>
      BY <1>6, <3>3, OneHit
    <3> QED
      BY <1>8, <2>2, <3>4, OneHit DEF Bounded
  <2> QED
    BY <1>6, <1>7, <2>2, <2>3, <2>4 DEF RecordOK, new
<1> QED
  BY <1>10, <1>11, <1>12 DEF ServingBlock

--------------------------------------------------------------------------------
(* What is done to the Map. *)

LEMMA OrderLeft ==
  ASSUME NEW present, NEW before, Ordered(present, before), NEW left, left \subseteq present,
         present \subseteq Key, NEW rest,
         rest = [k \in Key |-> IF k \in left THEN before[k] \cap left ELSE {}]
  PROVE  Ordered(left, rest)
<1>1. \A k \in left : rest[k] = before[k] \cap left
  OBVIOUS
<1>2. \A j, k \in left : j # k => (j \in rest[k] <=> k \notin rest[j])
  BY <1>1 DEF Ordered
<1>3. ASSUME NEW k \in left, NEW j \in rest[k] PROVE j \in left /\ rest[j] \subseteq rest[k] \ {j}
  <2>1. j \in before[k] /\ j \in left
    BY <1>1
  <2>2. before[j] \subseteq before[k] \ {j}
    BY <2>1 DEF Ordered
  <2> QED
    BY <1>1, <2>1, <2>2
<1> QED
  BY <1>2, <1>3 DEF Ordered

LEMMA OrderAdd ==
  ASSUME NEW left, left \subseteq Key, NEW rest \in [Key -> SUBSET Key], Ordered(left, rest),
         NEW k \in Key, k \notin left
  PROVE  Ordered(left \cup {k}, [rest EXCEPT ![k] = left])
<1> DEFINE new == [rest EXCEPT ![k] = left]
<1>1. new[k] = left /\ \A j \in left : new[j] = rest[j] /\ j # k
  OBVIOUS
<1>2. \A j \in left : \A i \in rest[j] : i \in left /\ rest[i] \subseteq rest[j] \ {i}
  BY DEF Ordered
<1> HIDE DEF new
<1>3. \A i, j \in left \cup {k} : i # j => (i \in new[j] <=> j \notin new[i])
  BY <1>1, <1>2 DEF Ordered
<1>4. ASSUME NEW j \in left \cup {k}, NEW i \in new[j]
      PROVE  i \in left \cup {k} /\ new[i] \subseteq new[j] \ {i}
  <2>1. CASE j \in left
    BY <1>1, <1>2, <2>1
  <2>2. CASE j = k
    <3>1. i \in left /\ new[i] = rest[i]
      BY <1>1, <2>2
    <3>2. rest[i] \subseteq left \ {i}
      BY <1>2, <3>1
    <3> QED
      BY <1>1, <2>2, <3>1, <3>2
  <2> QED
    BY <2>1, <2>2
<1> QED
  BY <1>3, <1>4 DEF Ordered, new

\* A visit leaves the keys that were not dead, in their order, and no record behind
\* any other.
LEMMA VisitPlaced ==
  ASSUME ThrottleInv, NEW visited, visited \subseteq keys
  PROVE  /\ Left(visited) \subseteq keys
         /\ OlderAmong(Left(visited)) \in [Key -> SUBSET Key]
         /\ Ordered(Left(visited), OlderAmong(Left(visited)))
         /\ \A k \in Key \ Left(visited) : Visited(visited)[k] = Blank
<1>1. Left(visited) \subseteq keys /\ keys \subseteq Key
  BY DEF Left, ThrottleInv, Placed
<1>2. OlderAmong(Left(visited)) \in [Key -> SUBSET Key]
  BY <1>1 DEF OlderAmong, ThrottleInv, Placed
<1>3. Ordered(Left(visited), OlderAmong(Left(visited)))
  BY <1>1, OrderLeft DEF OlderAmong, ThrottleInv, Placed
<1>4. ASSUME NEW k \in Key \ Left(visited) PROVE Visited(visited)[k] = Blank
  <2>1. CASE k \in keys
    BY <2>1 DEF Left, Dead, Visited
  <2>2. CASE k \notin keys
    BY <2>2 DEF Visited, ThrottleInv, Placed
  <2> QED
    BY <2>1, <2>2
<1> QED
  BY <1>1, <1>2, <1>3, <1>4

LEMMA VisitOK ==
  ASSUME ThrottleInv, NEW visited, NEW k \in Key
  PROVE  RecordOK(k, Visited(visited)[k], served[k], now)
<1>1. now \in Nat /\ RecordOK(k, record[k], served[k], now)
  BY DEF ThrottleInv, Types, RecordsOK
<1>2. /\ Reclaimable(record[k]) => RecordOK(k, Blank, served[k], now)
      /\ RecordOK(k, Retire(record[k]), served[k], now)
  BY <1>1, BlankOK, RetireOK
<1> QED
  BY <1>1, <1>2 DEF Visited

\* The types follow from the records one by one.
LEMMA TypesFromRecords ==
  ASSUME now' = now, ThrottleInv, lastPrune' \in Nat,
         record' = [k \in Key |-> record'[k]], served' = [k \in Key |-> served'[k]],
         \A k \in Key : RecordOK(k, record'[k], served'[k], now)
  PROVE  Types' /\ RecordsOK'
<1>1. \A k \in Key : record'[k] \in Record /\ served'[k] \in [Name -> Seq(Nat)]
  BY DEF RecordOK
<1> QED
  BY <1>1 DEF ThrottleInv, Types, RecordsOK

LEMMA CountKeeps ==
  ASSUME ThrottleInv, NEW k \in Key, NEW n \in Name, n \in Uses[k],
         NEW visited, visited \subseteq keys, Count(k, n, visited),
         now' = now, lastPrune' \in Nat, Cardinality(Left(visited) \cup {k}) <= MaxKeys
  PROVE  ThrottleInv'
<1> DEFINE left == Left(visited)
           before == Visited(visited)[k]
           new == Hit(before, n)
<1>1. /\ left \subseteq keys /\ keys \subseteq Key /\ IsFiniteSet(keys)
      /\ OlderAmong(left) \in [Key -> SUBSET Key] /\ Ordered(left, OlderAmong(left))
      /\ \A j \in Key \ left : Visited(visited)[j] = Blank
  BY VisitPlaced DEF ThrottleInv, Placed
<1>2. /\ keys' = left \cup {k}
      /\ older' = [OlderAmong(left) EXCEPT ![k] = IF k \in left THEN @ ELSE left]
      /\ record' = [Visited(visited) EXCEPT ![k] = new]
      /\ served' = IF new.blocked THEN served ELSE [served EXCEPT ![k][n] = Append(@, now)]
  BY DEF Count
<1>3. Placed'
  <2>1. keys' \in SUBSET Key /\ IsFiniteSet(keys') /\ Cardinality(keys') <= MaxKeys
    BY <1>1, <1>2, FS_Subset, FS_AddElement
  <2>2. older' \in [Key -> SUBSET Key] /\ Ordered(keys', older')
    <3>1. CASE k \in left
      <4>1. keys' = left /\ older' = OlderAmong(left)
        BY <1>1, <1>2, <3>1
      <4> QED
        BY <1>1, <4>1
    <3>2. CASE k \notin left
      <4>1. older' = [OlderAmong(left) EXCEPT ![k] = left]
        BY <1>2, <3>2
      <4>2. older' \in [Key -> SUBSET Key]
        BY <1>1, <4>1
      <4>3. Ordered(left \cup {k}, [OlderAmong(left) EXCEPT ![k] = left])
        <5>1. left \subseteq Key
          BY <1>1
        <5> QED
          BY <1>1, <3>2, <5>1, OrderAdd
      <4> QED
        BY <1>2, <4>1, <4>2, <4>3
    <3> QED
      BY <3>1, <3>2
  <2>3. \A j \in Key : j \notin keys' => record'[j] = Blank
    <3>1. ASSUME NEW j \in Key, j \notin keys' PROVE record'[j] = Blank
      <4>1. j # k /\ j \notin left
        BY <1>2, <3>1
      <4>2. record'[j] = Visited(visited)[j]
        BY <1>2, <4>1 DEF Visited
      <4> QED
        BY <1>1, <4>1, <4>2
    <3> QED
      BY <3>1
  <2> QED
    BY <2>1, <2>2, <2>3 DEF Placed
<1>4. served \in [Key -> [Name -> Seq(Nat)]] /\ now \in Nat
  BY DEF ThrottleInv, Types
<1>5. /\ record'[k] = new /\ \A j \in Key \ {k} : record'[j] = Visited(visited)[j]
      /\ record' = [j \in Key |-> record'[j]]
  BY <1>2 DEF Visited
<1>6. /\ served'[k] = Admitted(new, n, served[k])
      /\ \A j \in Key \ {k} : served'[j] = served[j]
      /\ served' = [j \in Key |-> served'[j]]
  <2>1. CASE new.blocked
    BY <1>2, <1>4, <2>1 DEF Admitted
  <2>2. CASE ~new.blocked
    BY <1>2, <1>4, <2>2 DEF Admitted
  <2> QED
    BY <2>1, <2>2
<1>7. RecordOK(k, new, Admitted(new, n, served[k]), now)
  <2>1. RecordOK(k, before, served[k], now)
    BY VisitOK
  <2> QED
    BY <1>4, <2>1, HitOK
<1> HIDE DEF new, before
<1>8. \A j \in Key : RecordOK(j, record'[j], served'[j], now)
  BY <1>5, <1>6, <1>7, VisitOK
<1> QED
  BY <1>3, <1>5, <1>6, <1>8, TypesFromRecords DEF ThrottleInv

LEMMA RefuseKeeps ==
  ASSUME ThrottleInv, NEW visited, visited \subseteq keys, Refuse(visited),
         now' = now, lastPrune' \in Nat
  PROVE  ThrottleInv'
<1>1. /\ keys' = Left(visited) /\ older' = OlderAmong(Left(visited))
      /\ record' = Visited(visited) /\ served' = served
  BY DEF Refuse
<1>2. Placed'
  <2>1. keys' \subseteq keys /\ IsFiniteSet(keys) /\ Cardinality(keys) <= MaxKeys
        /\ keys \subseteq Key
    BY <1>1, VisitPlaced DEF ThrottleInv, Placed
  <2>2. IsFiniteSet(keys') /\ Cardinality(keys') <= MaxKeys
    <3>1. /\ IsFiniteSet(keys') /\ Cardinality(keys') <= Cardinality(keys)
      BY <2>1, FS_Subset
    <3>2. Cardinality(keys') \in Nat /\ Cardinality(keys) \in Nat /\ MaxKeys \in Nat
      BY <2>1, <3>1, FS_CardinalityType, StoreAssumption
    <3> QED
      BY <2>1, <3>1, <3>2
  <2> QED
    BY <1>1, <2>1, <2>2, VisitPlaced DEF Placed
<1>3. /\ record' = [k \in Key |-> record'[k]] /\ served' = [k \in Key |-> served'[k]]
  BY <1>1 DEF Visited, ThrottleInv, Types
<1>4. \A k \in Key : RecordOK(k, record'[k], served'[k], now)
  BY <1>1, VisitOK
<1> QED
  BY <1>2, <1>3, <1>4, TypesFromRecords DEF ThrottleInv

\* Room for one more: the visit of each way to make room ends below the ceiling, or
\* finds the key in its place.
LEMMA Room ==
  ASSUME ThrottleInv, NEW k \in Key, NEW visited, visited \subseteq keys,
         \/ k \in keys \/ Cardinality(Left(visited)) < MaxKeys
         \/ \E d \in visited : d \in Dead
  PROVE  Cardinality(Left(visited) \cup {k}) <= MaxKeys
<1> DEFINE left == Left(visited)
<1>1. left \subseteq keys /\ IsFiniteSet(keys) /\ Cardinality(keys) <= MaxKeys
      /\ MaxKeys \in Nat /\ Cardinality(keys) \in Nat
  BY VisitPlaced, StoreAssumption, FS_CardinalityType DEF ThrottleInv, Placed
<1>2. IsFiniteSet(left) /\ Cardinality(left) \in Nat /\ Cardinality(left) <= Cardinality(keys)
  BY <1>1, FS_Subset, FS_CardinalityType
<1>3. CASE k \in keys
  <2>1. left \cup {k} \subseteq keys
    BY <1>1, <1>3
  <2>2. Cardinality(left \cup {k}) <= Cardinality(keys) /\ Cardinality(left \cup {k}) \in Nat
    BY <1>1, <2>1, FS_Subset, FS_CardinalityType
  <2> QED
    BY <1>1, <2>2
<1>4. Cardinality(left) < MaxKeys => Cardinality(left \cup {k}) <= MaxKeys
  BY <1>1, <1>2, FS_AddElement
<1>5. ASSUME NEW d \in visited, d \in Dead PROVE Cardinality(left) < MaxKeys
  <2>1. d \in keys /\ left \subseteq keys \ {d}
    BY <1>5 DEF Left, Dead
  <2>2. IsFiniteSet(keys \ {d}) /\ Cardinality(keys \ {d}) = Cardinality(keys) - 1
    BY <1>1, <2>1, FS_RemoveElement
  <2>3. Cardinality(left) <= Cardinality(keys \ {d})
    BY <2>1, <2>2, FS_Subset
  <2> QED
    BY <1>1, <1>2, <2>2, <2>3
<1> QED
  BY <1>3, <1>4, <1>5

LEMMA ThrottleInit == ASSUME Init PROVE ThrottleInv
<1>1. now = 0 /\ lastPrune = 0 /\ keys = {} /\ older = [k \in Key |-> {}]
      /\ record = [k \in Key |-> Blank] /\ served = [k \in Key |-> NoHits]
  BY DEF Init
<1>2. Types
  BY <1>1, BlankIs DEF Types
<1>3. Placed
  BY <1>1, FS_EmptySet, StoreAssumption DEF Placed, Ordered
<1>4. ASSUME NEW k \in Key PROVE RecordOK(k, Blank, NoHits, 0)
  <2>1. \A n \in Name : Limit[n] \in Nat /\ Len(<<>>) = 0 /\ DOMAIN <<>> = {}
    BY BucketsAssumption
  <2> QED
    BY <2>1, BlankIs, FreshNone DEF RecordOK, Bounded
<1> QED
  BY <1>1, <1>2, <1>3, <1>4 DEF ThrottleInv, RecordsOK

\* As time goes on the history and the record age alike.
LEMMA TickKeeps == ASSUME ThrottleInv, Tick PROVE ThrottleInv'
<1>1. /\ now' = now + 1 /\ now \in Nat /\ now' \in Nat /\ now <= now'
      /\ keys' = keys /\ older' = older /\ record' = record /\ lastPrune' = lastPrune
      /\ served' = [k \in Key |-> [n \in Name |-> FreshAt(n, served[k][n], now + 1)]]
  BY DEF Tick, ThrottleInv, Types
<1>2. Placed'
  BY <1>1 DEF ThrottleInv, Placed
<1>3. ASSUME NEW k \in Key PROVE RecordOK(k, record[k], served'[k], now + 1)
  <2>1. RecordOK(k, record[k], served[k], now)
    BY DEF ThrottleInv, RecordsOK
  <2>2. /\ record[k] \in Record
        /\ \A n \in Name : InOrder(record[k].hits[n], now) /\ InOrder(served[k][n], now)
    BY <2>1 DEF RecordOK
  <2>3. \A n \in Name : served'[k][n] = FreshAt(n, served[k][n], now + 1)
    BY <1>1
  <2>0. now + 1 \in Nat /\ now \in Nat /\ now <= now + 1
    BY <1>1
  <2>4. \A hits : InOrder(hits, now) => InOrder(hits, now + 1)
    <3> SUFFICES ASSUME NEW hits, InOrder(hits, now) PROVE InOrder(hits, now + 1)
      OBVIOUS
    <3>1. hits \in Seq(Nat) /\ \A i \in DOMAIN hits : hits[i] \in Nat /\ hits[i] <= now
      BY DEF InOrder
    <3>2. \A i \in DOMAIN hits : hits[i] <= now + 1
      BY <1>1, <3>1
    <3> QED
      BY <3>2 DEF InOrder
  <2>5. ASSUME NEW n \in Name
        PROVE  /\ InOrder(record[k].hits[n], now + 1) /\ InOrder(served'[k][n], now + 1)
               /\ \A i \in DOMAIN served'[k][n] : served'[k][n][i] > (now + 1) - Ttl[n]
               /\ served'[k][n] \in Seq(Nat)
    <3> DEFINE later == now + 1
               old == served[k][n]
    <3>0. later \in Nat /\ now <= later /\ InOrder(old, now)
      BY <2>0, <2>2
    <3> HIDE DEF later, old
    <3>1. /\ InOrder(FreshAt(n, old, later), now)
          /\ \A i \in DOMAIN FreshAt(n, old, later) :
               FreshAt(n, old, later)[i] > later - Ttl[n]
      BY <2>0, <3>0, FreshInOrder
    <3> QED
      BY <2>2, <2>3, <2>4, <3>1 DEF InOrder, later, old
  <2>6. ASSUME NEW n \in Name, Own(k, n) PROVE Bounded(n, record[k], served'[k], now + 1)
    <3>1. Bounded(n, record[k], served[k], now)
      BY <2>1, <2>6 DEF RecordOK
    <3>2. Len(served'[k][n]) <= Limit[n]
      <4>1. Len(served'[k][n]) <= Len(served[k][n]) /\ Len(served[k][n]) <= Limit[n]
        BY <1>1, <2>2, <2>3, <3>1, FreshInOrder DEF Bounded
      <4>2. Len(served'[k][n]) \in Nat /\ Len(served[k][n]) \in Nat /\ Limit[n] \in Nat
        BY <2>2, <2>5, BucketsAssumption DEF InOrder
      <4> QED
        BY <4>1, <4>2
    <3>3. ~record[k].blocked => served'[k][n] = FreshAt(n, record[k].hits[n], now + 1)
      BY <1>1, <2>2, <2>3, <3>1, FreshTwice DEF Bounded, InOrder
    <3>4. ASSUME record[k].blocked, NEW i \in DOMAIN served'[k][n]
          PROVE  served'[k][n][i] + Block[n] <= record[k].until
      <4> DEFINE old == served[k][n]
      <4>1. old \in Seq(Nat) /\ Ascending(old)
        BY <2>2 DEF InOrder
      <4>2. PICK m \in 0..Len(old) :
              /\ FreshAt(n, old, now + 1) \in Seq(Nat)
              /\ Len(FreshAt(n, old, now + 1)) = Len(old) - m
              /\ \A j \in 1..(Len(old) - m) : FreshAt(n, old, now + 1)[j] = old[m + j]
        BY <1>1, <4>1, FreshSuffix
      <4>3. i \in 1..(Len(old) - m)
        BY <2>3, <3>4, <4>2
      <4>4. m + i \in DOMAIN old
        BY <4>1, <4>3
      <4>5. served'[k][n][i] = old[m + i]
        BY <2>3, <4>2, <4>3
      <4> QED
        BY <3>1, <3>4, <4>4, <4>5 DEF Bounded
    <3> QED
      BY <3>2, <3>3, <3>4 DEF Bounded
  <2>7. served'[k] \in [Name -> Seq(Nat)]
    BY <1>1, <2>3, <2>5
  <2>8. \A n \in Name :
          /\ InOrder(record[k].hits[n], now + 1) /\ InOrder(served'[k][n], now + 1)
          /\ \A i \in DOMAIN served'[k][n] : served'[k][n][i] > (now + 1) - Ttl[n]
          /\ Own(k, n) => Bounded(n, record[k], served'[k], now + 1)
    BY <2>5, <2>6
  <2> DEFINE later == now + 1
             admitted == served'[k]
  <2>9. /\ admitted \in [Name -> Seq(Nat)]
        /\ \A n \in Name :
             /\ InOrder(record[k].hits[n], later) /\ InOrder(admitted[n], later)
             /\ \A i \in DOMAIN admitted[n] : admitted[n][i] > later - Ttl[n]
             /\ Own(k, n) => Bounded(n, record[k], admitted, later)
    BY <2>7, <2>8
  <2> HIDE DEF later, admitted
  <2>10. RecordOK(k, record[k], admitted, later)
    BY <2>2, <2>9 DEF RecordOK
  <2> QED
    BY <2>10 DEF later, admitted
<1>4. served' \in [Key -> [Name -> Seq(Nat)]]
  BY <1>1, <1>3 DEF RecordOK
<1> QED
  BY <1>1, <1>2, <1>3, <1>4 DEF ThrottleInv, Types, RecordsOK

LEMMA DestroyKeeps == ASSUME ThrottleInv, OnModuleDestroy PROVE ThrottleInv'
<1>1. /\ now' = now /\ lastPrune' = lastPrune /\ keys' = {} /\ older' = [k \in Key |-> {}]
      /\ record' = [k \in Key |-> Blank] /\ served' = [k \in Key |-> NoHits]
      /\ now \in Nat /\ lastPrune \in Nat
  BY DEF OnModuleDestroy, ThrottleInv, Types
<1>2. Types'
  BY <1>1, BlankIs DEF Types
<1>3. Placed'
  BY <1>1, FS_EmptySet, StoreAssumption DEF Placed, Ordered
<1>4. ASSUME NEW k \in Key PROVE RecordOK(k, Blank, NoHits, now)
  <2>1. \A n \in Name : Limit[n] \in Nat /\ Len(<<>>) = 0 /\ DOMAIN <<>> = {}
    BY BucketsAssumption
  <2> QED
    BY <1>1, <2>1, BlankIs, FreshNone DEF RecordOK, Bounded
<1> QED
  BY <1>1, <1>2, <1>3, <1>4 DEF ThrottleInv, RecordsOK

LEMMA ThrottleStep == ASSUME ThrottleInv, [Next]_vars PROVE ThrottleInv'
<1>0. now \in Nat /\ lastPrune \in Nat
  BY DEF ThrottleInv, Types
<1>1. ASSUME NEW k \in Key, NEW n \in Name, IncrementKnown(k, n) PROVE ThrottleInv'
  BY <1>0, <1>1, CountKeeps, Room DEF IncrementKnown
<1>2. ASSUME NEW k \in Key, NEW n \in Name, IncrementNew(k, n) PROVE ThrottleInv'
  <2>1. Cardinality(Left({})) < MaxKeys
    <3>1. Left({}) = keys
      BY DEF Left
    <3>2. Cardinality(keys) \in Nat /\ MaxKeys \in Nat
      BY FS_CardinalityType, StoreAssumption DEF ThrottleInv, Placed
    <3> QED
      BY <1>2, <3>1, <3>2 DEF IncrementNew, Full
  <2>2. Cardinality(Left({}) \cup {k}) <= MaxKeys /\ {} \subseteq keys
    BY <2>1, Room
  <2>3. /\ n \in Uses[k] /\ Count(k, n, {}) /\ now' = now /\ lastPrune' \in Nat
    BY <1>0, <1>2 DEF IncrementNew
  <2> QED
    BY <2>2, <2>3, CountKeeps
<1>3. ASSUME NEW k \in Key, NEW n \in Name, IncrementSweeping(k, n) PROVE ThrottleInv'
  <2>1. CASE Cardinality(Left(keys)) < MaxKeys
    BY <1>0, <1>3, <2>1, CountKeeps, Room DEF IncrementSweeping
  <2>2. CASE ~(Cardinality(Left(keys)) < MaxKeys)
    BY <1>0, <1>3, <2>2, RefuseKeeps DEF IncrementSweeping
  <2> QED
    BY <2>1, <2>2
<1>4. ASSUME NEW k \in Key, NEW n \in Name, IncrementScanning(k, n) PROVE ThrottleInv'
  <2>1. ASSUME NEW d \in Scanned \cap Dead, Count(k, n, older[d] \cup {d}) PROVE ThrottleInv'
    <3>1. older[d] \cup {d} \subseteq keys /\ d \in Dead
      BY <2>1 DEF Dead, ThrottleInv, Placed, Ordered
    <3>2. Cardinality(Left(older[d] \cup {d}) \cup {k}) <= MaxKeys
      BY <3>1, Room
    <3> QED
      BY <1>0, <1>4, <2>1, <3>1, <3>2, CountKeeps DEF IncrementScanning
  <2>2. CASE Refuse(Scanned)
    <3>1. Scanned \subseteq keys
      BY DEF Scanned
    <3> QED
      BY <1>0, <1>4, <2>2, <3>1, RefuseKeeps DEF IncrementScanning
  <2> QED
    BY <1>4, <2>1, <2>2 DEF IncrementScanning
<1>5. CASE Sweep
  BY <1>0, <1>5, RefuseKeeps DEF Sweep
<1>6. CASE UNCHANGED vars
  <2>1. /\ now' = now /\ keys' = keys /\ older' = older /\ record' = record
        /\ lastPrune' = lastPrune /\ served' = served
    BY <1>6 DEF vars
  <2> QED
    BY <2>1 DEF ThrottleInv, Types, Placed, RecordsOK
<1> QED
  BY <1>1, <1>2, <1>3, <1>4, <1>5, <1>6, TickKeeps, DestroyKeeps DEF Next

LEMMA Throttles == Spec => []ThrottleInv
<1>1. Init => ThrottleInv
  BY ThrottleInit
<1>2. ThrottleInv /\ [Next]_vars => ThrottleInv'
  BY ThrottleStep
<1> QED
  BY <1>1, <1>2, PTL DEF Spec

\* The Map stays within its ceiling, its keys in one order and its hits in time order,
\* and nothing is kept of a key that has no place in it, whoever made room for whom
\* (increment, makeRoom, prune).
THEOREM StoreStaysSound == Spec => []StoreOK
<1>1. ThrottleInv => StoreOK
  <2> SUFFICES ASSUME ThrottleInv PROVE StoreOK
    OBVIOUS
  <2>1. \A k \in Key, n \in Name : Ascending(record[k].hits[n])
    BY DEF ThrottleInv, RecordsOK, RecordOK, InOrder
  <2> QED
    BY <2>1 DEF ThrottleInv, Placed, Ordered, StoreOK
<1> QED
  BY <1>1, Throttles, PTL

\* The store stays sound, and no window of one Ttl admits more calls of a name on its own
\* key than its limit, however calls, sweeps, evictions and lapsed blocks fall, as long
\* as the block lasts a window (increment with countHit and its two tests).
THEOREM LimitsHold == Spec => []WindowBound
<1>1. ThrottleInv /\ StoreOK => WindowBound
  BY DEF ThrottleInv, RecordsOK, RecordOK, Bounded, Own, WindowBound
<1> QED
  BY <1>1, Throttles, StoreStaysSound, PTL

--------------------------------------------------------------------------------
(* What a step may never do. *)

\* What LiveKept asks of one record, and of what it becomes.
Kept(rec, new) ==
  /\ \A n \in Name :
       \/ IsPrefix(Fresh(n, rec.hits[n]), Fresh(n, new.hits[n]))
       \/ rec.blocked /\ ~ServingBlock(rec) /\ new.hits[n] = <<now>>
  /\ ServingBlock(rec) => new.blocked

LEMMA PrefixFacts ==
  ASSUME NEW hits \in Seq(Nat)
  PROVE  IsPrefix(hits, hits) /\ IsPrefix(<<>>, hits) /\ IsPrefix(hits, Append(hits, now))
<1>1. /\ Len(hits) \in Nat /\ Len(<<>>) = 0 /\ SubSeq(hits, 1, 0) = <<>>
      /\ SubSeq(<<>>, 1, 0) = <<>>
  OBVIOUS
<1>2. /\ Len(Append(hits, now)) = Len(hits) + 1
      /\ SubSeq(Append(hits, now), 1, Len(hits)) = SubSeq(hits, 1, Len(hits))
  OBVIOUS
<1> QED
  BY <1>1, <1>2 DEF IsPrefix

LEMMA FreshType ==
  ASSUME now \in Nat, NEW k \in Key, NEW rec, NEW admitted, RecordOK(k, rec, admitted, now)
  PROVE  \A n \in Name : Fresh(n, rec.hits[n]) \in Seq(Nat)
<1>1. \A n \in Name : InOrder(FreshAt(n, rec.hits[n], now), now)
  BY FreshInOrder DEF RecordOK
<1> QED
  BY <1>1 DEF InOrder, Fresh

LEMMA HitType ==
  ASSUME now \in Nat, NEW k \in Key, NEW n \in Name,
         NEW rec, NEW admitted, RecordOK(k, rec, admitted, now)
  PROVE  Hit(rec, n).hits \in [Name -> Seq(Nat)]
<1>1. rec.blocked \in BOOLEAN /\ rec.hits \in [Name -> Seq(Nat)]
  BY DEF RecordOK, Record
<1>2. Append(Fresh(n, rec.hits[n]), now) \in Seq(Nat) /\ <<now>> \in Seq(Nat)
  <2>1. Fresh(n, rec.hits[n]) \in Seq(Nat)
    BY FreshType
  <2> QED
    BY <2>1
<1>3. Pushed(rec, n).hits = [rec.hits EXCEPT ![n] = Append(Fresh(n, rec.hits[n]), now)]
  BY DEF Pushed
<1>4. \/ Hit(rec, n).hits = Pushed(rec, n).hits
      \/ Hit(rec, n) = rec
      \/ Hit(rec, n).hits = [rec.hits EXCEPT ![n] = <<now>>]
  <2>1. rec.blocked \in BOOLEAN
    BY <1>1
  <2>2. /\ ~rec.blocked => Hit(rec, n) = Pushed(rec, n)
        /\ ServingBlock(rec) => Hit(rec, n) = rec
        /\ rec.blocked /\ ~ServingBlock(rec) =>
             Hit(rec, n) = [hits |-> [rec.hits EXCEPT ![n] = <<now>>], blocked |-> FALSE,
                            until |-> 0]
    BY <2>1, HitCases
  <2> QED
    BY <2>2
<1> QED
  BY <1>1, <1>2, <1>3, <1>4

\* A hit keeps what is fresh, but for the one name whose call lifts a lapsed block.
LEMMA HitKept ==
  ASSUME now \in Nat, NEW k \in Key, NEW n \in Name,
         NEW rec, NEW admitted, RecordOK(k, rec, admitted, now)
  PROVE  Kept(rec, Hit(rec, n))
<1> DEFINE new == Hit(rec, n)
           F == Fresh(n, rec.hits[n])
<1>1. /\ rec \in Record /\ rec.blocked \in BOOLEAN /\ rec.hits \in [Name -> Seq(Nat)]
  BY DEF RecordOK, Record
<1>2. \A m \in Name : Fresh(m, rec.hits[m]) \in Seq(Nat)
  BY FreshType
<1>3. /\ ~rec.blocked => new = Pushed(rec, n)
      /\ ServingBlock(rec) => new = rec
      /\ rec.blocked /\ ~ServingBlock(rec) =>
           new = [hits |-> [rec.hits EXCEPT ![n] = <<now>>], blocked |-> FALSE, until |-> 0]
  <2>1. rec.blocked \in BOOLEAN
    BY <1>1
  <2> QED
    BY <2>1, HitCases
<1> HIDE DEF new
<1>4. \A m \in Name \ {n} : new.hits[m] = rec.hits[m]
  BY <1>1, <1>3 DEF Pushed, ServingBlock
<1>5. \A m \in Name \ {n} : IsPrefix(Fresh(m, rec.hits[m]), Fresh(m, new.hits[m]))
  BY <1>2, <1>4, PrefixFacts
<1>6. ~rec.blocked => IsPrefix(F, Fresh(n, new.hits[n]))
  <2> SUFFICES ASSUME ~rec.blocked PROVE IsPrefix(F, Fresh(n, new.hits[n]))
    OBVIOUS
  <2>1. new.hits[n] = Append(F, now)
    BY <1>1, <1>3 DEF Pushed
  <2>2. InOrder(F, now) /\ \A i \in DOMAIN F : F[i] > now - Ttl[n]
    BY FreshInOrder DEF RecordOK, Fresh
  <2>3. Fresh(n, Append(F, now)) = Append(F, now)
    BY <2>2, PushFresh DEF Fresh
  <2> QED
    BY <1>2, <2>1, <2>3, PrefixFacts
<1>7. ServingBlock(rec) => IsPrefix(F, Fresh(n, new.hits[n])) /\ new.blocked
  BY <1>2, <1>3, PrefixFacts DEF ServingBlock
<1>8. rec.blocked /\ ~ServingBlock(rec) => new.hits[n] = <<now>>
  BY <1>1, <1>3
<1> QED
  BY <1>5, <1>6, <1>7, <1>8 DEF Kept, new, ServingBlock

\* To retire a record changes nothing that is fresh; only a dead one is dropped.
LEMMA VisitKept ==
  ASSUME ThrottleInv, NEW visited, NEW k \in Key
  PROVE  /\ Kept(record[k], Visited(visited)[k])
         /\ \A n \in Name : Kept(record[k], Hit(Visited(visited)[k], n))
<1> DEFINE rec == record[k]
           seen == Visited(visited)[k]
<1>1. now \in Nat /\ RecordOK(k, rec, served[k], now) /\ RecordOK(k, seen, served[k], now)
  BY VisitOK DEF ThrottleInv, Types, RecordsOK
<1>2. \A n \in Name : Fresh(n, rec.hits[n]) \in Seq(Nat)
  BY <1>1, FreshType
<1>3. \A n \in Name : Kept(seen, Hit(seen, n)) /\ Hit(seen, n).hits \in [Name -> Seq(Nat)]
  <2> TAKE n \in Name
  <2>1. Kept(seen, Hit(seen, n))
    BY <1>1, HitKept
  <2>2. Hit(seen, n).hits \in [Name -> Seq(Nat)]
    BY <1>1, HitType
  <2> QED
    BY <2>1, <2>2
<1>4. CASE seen = Blank /\ Reclaimable(rec)
  <2>1. \A n \in Name : Fresh(n, rec.hits[n]) = <<>>
    BY <1>1, <1>4, RetireOK, BlankIs DEF Reclaimable
  <2>2. ~ServingBlock(rec)
    BY <1>4 DEF Reclaimable
  <2>3. ASSUME NEW new, NEW adm, RecordOK(k, new, adm, now) PROVE Kept(rec, new)
    <3>1. \A n \in Name : Fresh(n, new.hits[n]) \in Seq(Nat)
      BY <1>1, <2>3, FreshType
    <3> QED
      BY <2>1, <2>2, <3>1, PrefixFacts DEF Kept
  <2>4. ASSUME NEW n \in Name PROVE Kept(rec, Hit(seen, n))
    <3>1. ~seen.blocked /\ seen.hits \in [Name -> Seq(Nat)]
      BY <1>1, <1>4, BlankIs DEF RecordOK, Record
    <3>2. \A m \in Name : Kept(seen, Hit(seen, n)) /\ Fresh(m, seen.hits[m]) = <<>>
      BY <1>1, <1>3, <1>4, BlankIs, FreshNone DEF Fresh
    <3>3. \A m \in Name : IsPrefix(<<>>, Fresh(m, Hit(seen, n).hits[m]))
      BY <3>1, <3>2 DEF Kept
    <3> QED
      BY <2>1, <2>2, <3>3 DEF Kept
  <2> QED
    BY <1>1, <2>3, <2>4
<1>5. CASE seen = rec \/ seen = Retire(rec)
  <2>1. /\ seen.blocked = rec.blocked /\ seen.until = rec.until
        /\ \A n \in Name : Fresh(n, seen.hits[n]) = Fresh(n, rec.hits[n])
    BY <1>1, <1>5, RetireOK
  <2>2. ServingBlock(seen) <=> ServingBlock(rec)
    BY <2>1 DEF ServingBlock
  <2>3. Kept(rec, seen)
    BY <1>2, <2>1, PrefixFacts DEF Kept, ServingBlock
  <2>4. \A n \in Name : Kept(rec, Hit(seen, n))
    BY <1>3, <2>1, <2>2 DEF Kept
  <2> QED
    BY <2>3, <2>4
<1> QED
  BY <1>4, <1>5 DEF Visited

\* Nothing live is dropped to make room: a hit inside its window survives every step
\* of a store that is not destroyed, but for the one name whose call lifts a lapsed
\* block, and a block still running is never lost (isReclaimable and the three places
\* that delete).
THEOREM NothingLiveDropped == Spec => LiveKept
<1>1. ASSUME ThrottleInv, Next, stopped' = stopped, NEW k \in Key
      PROVE  Kept(record[k], record'[k])
  <2>0. now \in Nat /\ RecordOK(k, record[k], served[k], now)
    BY <1>1 DEF ThrottleInv, Types, RecordsOK
  <2>1. CASE record'[k] = record[k]
    <3>1. \A n \in Name : Fresh(n, record[k].hits[n]) \in Seq(Nat)
      BY <2>0, FreshType
    <3> QED
      BY <2>1, <3>1, PrefixFacts DEF Kept, ServingBlock
  <2>2. ASSUME NEW j \in Key, NEW n \in Name, NEW visited, Count(j, n, visited)
        PROVE  Kept(record[k], record'[k])
    <3>1. record'[k] \in {Visited(visited)[k], Hit(Visited(visited)[k], n)}
      BY <2>2 DEF Count, Visited
    <3> QED
      BY <1>1, <3>1, VisitKept
  <2>3. ASSUME NEW visited, Refuse(visited) PROVE Kept(record[k], record'[k])
    BY <1>1, <2>3, VisitKept DEF Refuse
  <2>4. CASE \E j \in Key, n \in Name :
               \/ IncrementKnown(j, n) \/ IncrementNew(j, n)
               \/ IncrementSweeping(j, n) \/ IncrementScanning(j, n)
    BY <2>2, <2>3, <2>4 DEF IncrementKnown, IncrementNew, IncrementSweeping, IncrementScanning
  <2>5. CASE Sweep
    BY <2>3, <2>5 DEF Sweep
  <2>6. ~OnModuleDestroy
    BY <1>1 DEF OnModuleDestroy
  <2>7. CASE Tick
    BY <2>1, <2>7 DEF Tick
  <2> QED
    BY <1>1, <2>4, <2>5, <2>6, <2>7 DEF Next
<1>2. ThrottleInv /\ [Next]_vars =>
        [stopped' = stopped =>
           \A k \in Key :
             /\ \A n \in Name :
                  \/ IsPrefix(Fresh(n, record[k].hits[n]), Fresh(n, record'[k].hits[n]))
                  \/ /\ record[k].blocked /\ ~ServingBlock(record[k])
                     /\ record'[k].hits[n] = <<now>>
             /\ ServingBlock(record[k]) => record'[k].blocked]_vars
  BY <1>1 DEF Kept
<1> QED
  BY <1>2, Throttles, PTL DEF Spec, LiveKept

\* A newcomer is turned away although a dead record holds a place only while a sweep
\* has just been made: when one is made for it, nothing dead is left (makeRoom).
THEOREM FalseSaturationPasses == Spec => FalseSaturationBrief
<1>1. ASSUME ThrottleInv, NEW k \in Key, NEW n \in Name, Refused(k, n)
      PROVE  \/ now - lastPrune' < MinInterval /\ lastPrune' = lastPrune
             \/ \A j \in keys' : ~Reclaimable(record'[j])
  <2>0. now \in Nat /\ lastPrune \in Nat /\ MinInterval \in Nat /\ keys \subseteq Key
    BY <1>1, StoreAssumption DEF ThrottleInv, Types, Placed
  <2>1. CASE IncrementScanning(k, n)
    BY <2>0, <2>1 DEF IncrementScanning, SweepDue
  <2>2. CASE IncrementSweeping(k, n)
    <3>1. ~Count(k, n, keys)
      BY <1>1 DEF Refused, Count
    <3>2. Refuse(keys)
      BY <2>2, <3>1 DEF IncrementSweeping
    <3>3. ASSUME NEW j \in keys' PROVE ~Reclaimable(record'[j])
      <4>1. j \in keys /\ j \in Key /\ ~Reclaimable(record[j])
        BY <2>0, <3>2, <3>3 DEF Refuse, Left, Dead
      <4>2. record'[j] = Retire(record[j])
        BY <3>2, <4>1 DEF Refuse, Visited
      <4>3. RecordOK(j, record[j], served[j], now)
        BY <1>1, <4>1 DEF ThrottleInv, RecordsOK
      <4>4. /\ record[j].hits \in [Name -> Seq(Nat)]
            /\ Retire(record[j]).blocked = record[j].blocked
            /\ Retire(record[j]).until = record[j].until
            /\ \A m \in Name : Fresh(m, Retire(record[j]).hits[m]) = Fresh(m, record[j].hits[m])
        BY <2>0, <4>1, <4>3, RetireOK DEF RecordOK, Record
      <4>5. record[j] \in Record /\ Retire(record[j]) \in Record
        BY <2>0, <4>1, <4>3, RetireOK DEF RecordOK
      <4>6. /\ Retire(Retire(record[j])).hits = [m \in Name |-> Fresh(m, Retire(record[j]).hits[m])]
            /\ Retire(record[j]).hits = [m \in Name |-> Fresh(m, record[j].hits[m])]
        BY <4>5 DEF Retire, Record
      <4>7. Retire(Retire(record[j])).hits = Retire(record[j]).hits
        BY <4>4, <4>6
      <4> QED
        BY <4>1, <4>2, <4>4, <4>7 DEF Reclaimable, ServingBlock
    <3> QED
      BY <3>3
  <2> QED
    BY <1>1, <2>1, <2>2 DEF Refused
<1>2. ThrottleInv /\ [Next]_vars =>
        [\A k \in Key, n \in Name : Refused(k, n) =>
           \/ now - lastPrune' < MinInterval /\ lastPrune' = lastPrune
           \/ \A j \in keys' : ~Reclaimable(record'[j])]_vars
  BY <1>1
<1> QED
  BY <1>2, Throttles, PTL DEF Spec, FalseSaturationBrief

================================================================================
