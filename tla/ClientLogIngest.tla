--------------------------- MODULE ClientLogIngest ---------------------------
(***************************************************************************)
(* POST /api/client-logs (apps/frontend/app/api/client-logs/route.ts) and  *)
(* its limiter (apps/frontend/lib/logging/client-log-rate-limit.ts).       *)
(*                                                                         *)
(* Everything before the body is read is one synchronous step, and so is   *)
(* everything after it; between the two the clock moves and other requests *)
(* arrive.  Times are in units of PRUNE_MIN_INTERVAL_MS or finer, and the  *)
(* clock does not step back.  Addresses are what normalizeAddress makes of *)
(* them: the network an entry names, whatever its spelling, port or host.  *)
(***************************************************************************)
EXTENDS Integers, Sequences, FiniteSets, Functions

CONSTANTS Network,            \* client networks: one IPv4 address or one IPv6 /56
          Shared,             \* SHARED_BUCKET_KEY
          Blank, NotAnAddress, \* chain entries that name no network
          Pad,                \* what a caller may write ahead of its own address
          Hops,               \* TRUST_PROXY
          Window, PruneInterval, ConfigRetry,
          Limit, SharedLimit, RecordLimit, SharedRecordLimit, MaxKeys,
          Unit,               \* record-equivalents a batch may cost
          MaxTime, MaxArrivals, MaxReading  \* bounds: clock, requests, bodies being read

ASSUME LimitsAssumption ==
  /\ Shared \notin Network
  /\ Limit \in Nat \ {0} /\ SharedLimit \in Nat \ {0} /\ MaxKeys \in Nat
  /\ RecordLimit \in Nat /\ SharedRecordLimit \in Nat /\ Unit \subseteq Nat
  /\ Window \in Nat \ {0} /\ PruneInterval \in Nat /\ ConfigRetry \in Nat
  /\ Hops \in Nat /\ MaxTime \in Nat /\ Window <= MaxTime /\ MaxArrivals \in Nat

\* What proxies append is an address or no address, and never blank.
ASSUME ChainAssumption ==
  /\ NotAnAddress # Blank /\ {NotAnAddress, Blank} \cap Network = {}
  /\ \A pad \in Pad : pad \in Seq(Network \cup {NotAnAddress, Blank})

VARIABLES now,
          config,     \* cachedConfig: whether the environment has been parsed
          holdUntil,  \* fallbackHoldUntilMs
          buckets,    \* the Map, NoBucket for a key it does not hold
          lastPrune,  \* lastPruneAtMs
          slots,      \* reportSlots: when each channel last reported
          reading,    \* the tickets of the requests whose body is being read
          arrivals,   \* bound: requests so far
          admitted,   \* history: the tickets of the requests admitted in the last window
          written,    \* history: the batches written whose ticket is that recent
          answer      \* history: what the last step refused or wrote

vars == <<now, config, holdUntil, buckets, lastPrune, slots, reading, arrivals,
          admitted, written, answer>>

Key == Network \cup {Shared}
Horizon == now - Window

----------------------------------------------------------------------------
(***************************************************************************)
(* A bucket: the time and cost of every request since the last compaction, *)
(* of which the first `start' have left the window.  `born' is when it was *)
(* opened: it tells a bucket from an earlier one of the same key, which a  *)
(* ticket may still point to.                                              *)
(***************************************************************************)
NoBucket == [hits |-> <<>>, records |-> <<>>, start |-> 0, recordSum |-> 0,
             charged |-> 0, retired |-> 0, born |-> 0]
OpenBucket == [NoBucket EXCEPT !.born = now]

LiveHits(b) == Len(b.hits) - b.start
LiveAt(b) == (b.start + 1)..Len(b.hits)

Larger(m, n) == IF m > n THEN m ELSE n

\* Mutants: the sum keeps what the retired entries cost; they are not counted.
DropKeepingSum(b, dead) == [b EXCEPT !.retired = @ + dead - b.start, !.start = dead]
DropUncounted(b, dead) ==
  [b EXCEPT !.recordSum = @ - SumFunctionOnSet(b.records, (b.start + 1)..dead), !.start = dead]

Compact(b) ==
  [b EXCEPT !.hits = SubSeq(@, b.start + 1, Len(@)),
            !.records = SubSeq(@, b.start + 1, Len(@)),
            !.start = 0, !.charged = Larger(0, @ - b.start)]

Drop(b, dead) ==
  [b EXCEPT !.recordSum = @ - SumFunctionOnSet(b.records, (b.start + 1)..dead),
            !.retired = @ + dead - b.start, !.start = dead]

RetireExpiredHits(b) ==
  LET expired == {i \in LiveAt(b) : \A j \in (b.start + 1)..i : b.hits[j] <= Horizon}
      dropped == Drop(b, b.start + Cardinality(expired)) IN
  IF expired = {} THEN b
  ELSE IF dropped.start * 2 >= Len(b.hits) THEN Compact(dropped) ELSE dropped

Swept(b) == LET r == RetireExpiredHits(b) IN IF LiveHits(r) = 0 THEN NoBucket ELSE r
GetLiveBucket(bs, k) == [bs EXCEPT ![k] = Swept(@)]
Prune(bs) == [k \in Key |-> Swept(bs[k])]

PerClientBucketCount(bs) == Cardinality({k \in Network : bs[k] # NoBucket})

CommitHit(b) ==
  LET open == IF b = NoBucket THEN OpenBucket ELSE b IN
  [open EXCEPT !.hits = Append(@, now), !.records = Append(@, 0)]
Half(b) == [born |-> b.born, sequence |-> b.retired + LiveHits(b) - 1]

----------------------------------------------------------------------------
(***************************************************************************)
(* Reports: one slot per channel, claimed at most once a window.  Those of *)
(* the rejections matter here, for the sweep that goes with a report; what *)
(* the others log (refusals, a chain too short, a full map) changes nothing*)
(* else.                                                                   *)
(***************************************************************************)
Channel == {"window:client", "window:shared", "window:shared:degraded",
            "records:client", "records:shared", "records:shared:degraded"}

SlotFree(channel) == now - slots[channel] >= Window
TakeReportSlot(channel) ==
  [slots EXCEPT ![channel] = IF SlotFree(channel) THEN now ELSE @]

----------------------------------------------------------------------------
(***************************************************************************)
(* Which bucket.                                                           *)
(***************************************************************************)
\* The chain is walked from the right; blank entries are not seen.
Seen(chain, i) == Cardinality({j \in i..Len(chain) : chain[j] # Blank})
Selected(chain) == {chain[i] : i \in {j \in DOMAIN chain : chain[j] # Blank /\ Seen(chain, j) = Hops}}

\* At most one entry is selected, and none without hops or past a short chain.
ResolveKey(chain) ==
  LET addresses == Selected(chain) \cap Network IN
  IF addresses = {} THEN Shared ELSE CHOOSE n \in addresses : TRUE

\* A caller writes what it likes; the declared proxies append the rest.
Proxies == [i \in 1..(Hops - 1) |-> NotAnAddress]
Vouched(n) == {pad \o <<n>> \o Proxies : pad \in Pad}
Unvouched == {<<NotAnAddress>> \o Proxies, Append(Proxies, Blank)}

----------------------------------------------------------------------------
(***************************************************************************)
(* The request half: checkClientLogRateLimit.                              *)
(***************************************************************************)
Room(bs) == PerClientBucketCount(bs) < MaxKeys
SharedFull(bs) == LiveHits(bs[Shared]) >= SharedLimit
ClientFull(bs, k) == k # Shared /\ LiveHits(bs[k]) >= Limit

\* What the call finds once it has slid the windows: the map after a sweep that
\* the key ceiling may force, and whether the caller is metered on Shared only.
Scene(k) ==
  LET own == IF k = Shared THEN buckets ELSE GetLiveBucket(buckets, k)
      newcomer == k # Shared /\ own[k] = NoBucket
      sweep == newcomer /\ ~Room(own) /\ now - lastPrune >= PruneInterval
      left == IF sweep THEN Prune(own) ELSE own
      degraded == newcomer /\ ~Room(left) IN
  [buckets |-> GetLiveBucket(left, Shared), swept |-> sweep, degraded |-> degraded,
   key |-> IF degraded THEN Shared ELSE k]

Commit(bs, k) == [j \in Key |-> IF j \in {k, Shared} THEN CommitHit(bs[j]) ELSE bs[j]]

NoAnswer == [kind |-> "none", key |-> Shared, retryAfter |-> 0]

\* Never below one, so that no caller is invited to retry at once.
SecondsUntilRetired(at) == Larger(1, at + Window - now)

\* The window of key k is out: say when it frees, and sweep if this is reported.
Reject(kind, k, channel, at, bs, swept) ==
  /\ answer' = [kind |-> kind, key |-> k, retryAfter |-> SecondsUntilRetired(at)]
  /\ slots' = TakeReportSlot(channel)
  /\ buckets' = IF SlotFree(channel) THEN Prune(bs) ELSE bs
  /\ lastPrune' = IF SlotFree(channel) \/ swept THEN now ELSE lastPrune

SharedChannel(dimension, degraded) ==
  CASE dimension = "window"  /\ ~degraded -> "window:shared"
    [] dimension = "window"  /\ degraded  -> "window:shared:degraded"
    [] dimension = "records" /\ ~degraded -> "records:shared"
    [] OTHER -> "records:shared:degraded"

\* readConfig: memoised once it parsed; a failed parse holds the fallback, and the
\* fallback's ingestEnabled is false.  Once parsed, the hold is never looked at again.
ReadConfig ==
  \/ config = "read" /\ UNCHANGED <<config, holdUntil>>
  \/ config = "unread" /\ now >= holdUntil /\ config' = "read" /\ holdUntil' = 0

NotFound ==
  /\ config = "unread"
  /\ \/ now < holdUntil /\ UNCHANGED holdUntil
     \/ now >= holdUntil /\ holdUntil' = now + ConfigRetry
  /\ answer' = NoAnswer
  /\ UNCHANGED <<now, config, buckets, lastPrune, slots, reading, arrivals, admitted, written>>

Arrive ==
  /\ arrivals < MaxArrivals
  /\ ReadConfig
  /\ arrivals' = arrivals + 1
  /\ UNCHANGED <<now, written>>

Metered(n, chain) ==
  \E scene \in {Scene(ResolveKey(chain))} :
  LET bs == scene.buckets
      after == Commit(bs, scene.key)
      ticket == [nr |-> arrivals', at |-> now, network |-> n, key |-> scene.key, degraded |-> scene.degraded,
                 own |-> Half(after[scene.key]), shared |-> Half(after[Shared])] IN
  /\ Arrive
  /\ \/ /\ ClientFull(bs, scene.key)
        /\ Reject("window", scene.key, "window:client", bs[scene.key].hits[bs[scene.key].start + 1],
                  bs, scene.swept)
        /\ UNCHANGED <<reading, admitted>>
     \/ /\ ~ClientFull(bs, scene.key) /\ SharedFull(bs)
        /\ Reject("window", Shared, SharedChannel("window", scene.degraded),
                  bs[Shared].hits[bs[Shared].start + 1], bs, scene.swept)
        /\ UNCHANGED <<reading, admitted>>
     \/ /\ ~ClientFull(bs, scene.key) /\ ~SharedFull(bs)
        /\ Cardinality(reading) < MaxReading
        /\ buckets' = after
        /\ lastPrune' = IF scene.swept THEN now ELSE lastPrune
        /\ reading' = reading \cup {ticket}
        /\ admitted' = admitted \cup {ticket}
        /\ answer' = NoAnswer
        /\ UNCHANGED slots

MeterVouched(n) == \E chain \in Vouched(n) : Metered(n, chain)
MeterUnvouched == \E chain \in Unvouched : Metered(Shared, chain)

----------------------------------------------------------------------------
(***************************************************************************)
(* The record half: chargeClientLogRecords.                                *)
(***************************************************************************)
Add(b, i, n) ==
  [b EXCEPT !.records[i] = @ + n, !.recordSum = @ + n,
            !.charged = IF n > 0 /\ i - 1 < @ THEN i - 1 ELSE @]

\* The entry the cost goes to: the ticket's own while it is in the window, then
\* the newest there is, and 0 when there is none.
Target(b, half) ==
  LET index == half.sequence - b.retired IN
  IF index >= 0 /\ index < LiveHits(b) THEN b.start + index + 1
  ELSE IF LiveHits(b) > 0 THEN Len(b.hits) ELSE 0

\* A ticket points to the bucket it was issued for.  Taken out of the map, that
\* bucket has no live entry left and gets no other.
Pointed(bs, k, half) == bs[k] # NoBucket /\ bs[k].born = half.born

ApplyRecordCharge(bs, k, half, n) ==
  IF ~Pointed(bs, k, half) THEN bs
  ELSE LET b == RetireExpiredHits(bs[k]) IN
       [bs EXCEPT ![k] = IF Target(b, half) = 0 THEN b ELSE Add(b, Target(b, half), n)]

Charges(bs, k, half) ==
  Pointed(bs, k, half) /\ LiveHits(RetireExpiredHits(bs[k])) > 0

\* Mutants: the oldest entry stands for the oldest charged one; the allowance is
\* looked at before the charge is made.
UnchargedAny(b) == b.start
OverSharedBefore(bs, t) ==
  Charges(buckets, Shared, t.shared) /\ buckets[Shared].recordSum > SharedRecordLimit

\* The oldest entry that carries a charge, looked for from the bound on.
Uncharged(b) ==
  LET from == Larger(b.start, b.charged)
      found == {i \in (from + 1)..Len(b.records) : b.records[i] # 0} IN
  IF found = {} THEN Len(b.records) ELSE (CHOOSE i \in found : \A j \in found : i <= j) - 1

OldestCharged(b) ==
  b.hits[IF Uncharged(b) < Len(b.records) THEN Uncharged(b) + 1 ELSE b.start + 1]

Scanned(bs, k) == [bs EXCEPT ![k].charged = Uncharged(bs[k])]

OverOwn(bs, t) ==
  t.key # Shared /\ Charges(buckets, t.key, t.own) /\ bs[t.key].recordSum > RecordLimit
OverShared(bs, t) ==
  Charges(buckets, Shared, t.shared) /\ bs[Shared].recordSum > SharedRecordLimit

\* The body is too large, unreadable or no batch: the request stays counted, and
\* nothing is charged.
Abandon(t) ==
  /\ reading' = reading \ {t}
  /\ answer' = NoAnswer
  /\ UNCHANGED <<now, config, holdUntil, buckets, lastPrune, slots, arrivals, admitted,
                 written>>

\* Both windows pay for a batch that costs n, whatever is decided then.
Paid(t, n) ==
  LET own == IF t.key = Shared THEN buckets
             ELSE ApplyRecordCharge(buckets, t.key, t.own, n) IN
  ApplyRecordCharge(own, Shared, t.shared, n)

\* The batch is parsed: it is paid for, and written only if neither window is over
\* its allowance then.
Settle(t, n) ==
  \E bs \in {Paid(t, n)} :
  /\ reading' = reading \ {t}
  /\ \/ /\ OverOwn(bs, t)
        /\ Reject("records", t.key, "records:client", OldestCharged(bs[t.key]),
                  Scanned(bs, t.key), FALSE)
        /\ UNCHANGED <<written>>
     \/ /\ ~OverOwn(bs, t) /\ OverShared(bs, t)
        /\ Reject("records", Shared, SharedChannel("records", t.degraded),
                  OldestCharged(bs[Shared]), Scanned(bs, Shared), FALSE)
        /\ UNCHANGED <<written>>
     \/ /\ ~OverOwn(bs, t) /\ ~OverShared(bs, t)
        /\ buckets' = bs
        /\ written' = IF t.at > Horizon THEN written \cup {[ticket |-> t, units |-> n]} ELSE written
        /\ answer' = [NoAnswer EXCEPT !.kind = "written"]
        /\ UNCHANGED <<lastPrune, slots>>
  /\ UNCHANGED <<now, config, holdUntil, arrivals, admitted>>

Tick ==
  /\ now < MaxTime
  /\ now' = now + 1
  /\ admitted' = {t \in admitted : t.at > now' - Window}
  /\ written' = {w \in written : w.ticket.at > now' - Window}
  /\ answer' = NoAnswer
  /\ UNCHANGED <<config, holdUntil, buckets, lastPrune, slots, reading, arrivals>>

Init ==
  /\ now = Window /\ config = "unread" /\ holdUntil = 0
  /\ buckets = [k \in Key |-> NoBucket] /\ lastPrune = 0
  /\ slots = [c \in Channel |-> 0]
  /\ reading = {} /\ arrivals = 0
  /\ admitted = {} /\ written = {} /\ answer = NoAnswer

Next ==
  \/ Tick
  \/ NotFound
  \/ \E n \in Network : MeterVouched(n)
  \/ MeterUnvouched
  \/ \E t \in reading : Abandon(t) \/ \E n \in Unit : Settle(t, n)

Spec == Init /\ [][Next]_vars

----------------------------------------------------------------------------
(***************************************************************************)
(* Properties.                                                             *)
(***************************************************************************)
Unexpired(b) == {i \in LiveAt(b) : b.hits[i] > Horizon}
SpentIn(b) == SumFunctionOnSet(b.records, Unexpired(b))

\* Types and shapes: the two arrays of a bucket keep step, hits ascend, at most
\* one dead entry is kept per live one, and no more keys are tracked than allowed.
TypeOK ==
  /\ now \in Window..MaxTime /\ config \in {"unread", "read"}
  /\ \A k \in Key : LET b == buckets[k] IN
       /\ Len(b.hits) = Len(b.records) /\ b.start \in 0..Len(b.hits)
       /\ b.start * 2 < Len(b.hits) \/ b.start = 0
       /\ \A i, j \in DOMAIN b.hits : i < j => b.hits[i] <= b.hits[j]
  /\ PerClientBucketCount(buckets) <= MaxKeys
  /\ reading \subseteq [nr : Nat, at : Window..MaxTime, network : Key, key : Key,
                        degraded : BOOLEAN, own : [born : Nat, sequence : Nat],
                        shared : [born : Nat, sequence : Nat]]

Units(batches) == SumFunction([w \in batches |-> w.units])

\* Neither a client behind a vouched-for chain, whatever it writes ahead of its own
\* address, nor the whole app has more requests admitted in a window than allowed;
\* nor do the batches written for those requests exceed the record allowances,
\* although they are charged after their requests were, in any order, while entries
\* retire and the arrays are compacted.
OfClient(n) == {t \in admitted : t.network = n /\ t.key # Shared}
WrittenFor(tickets) == {w \in written : w.ticket \in tickets}
Ceilings ==
  /\ TypeOK
  /\ Cardinality(admitted) <= SharedLimit /\ Units(written) <= SharedRecordLimit
  /\ \A n \in Network : /\ Cardinality(OfClient(n)) <= Limit
                         /\ Units(WrittenFor(OfClient(n))) <= RecordLimit

\* A request whose body is still being read finds its own entry by its sequence,
\* and nobody else's, however many entries have retired since.
TicketFindsItsEntry ==
  \A t \in reading : t.at > Horizon =>
    \A k \in {t.key, Shared} :
      LET half == IF k = Shared THEN t.shared ELSE t.own
          b == buckets[k]
          i == b.start + half.sequence - b.retired + 1 IN
      /\ Pointed(buckets, k, half)
      /\ i \in LiveAt(b) /\ b.hits[i] = t.at
      /\ \A u \in reading \ {t} : k = Shared => u.shared # t.shared

\* Retry-After is honest: when that time has passed the exhausted window has given
\* back a request, or some of the records it charged.
RetryAfterFrees ==
  [][LET b == buckets'[answer'.key]
         later == {i \in LiveAt(b) : b.hits[i] > now + answer'.retryAfter - Window} IN
     /\ answer'.kind = "window" /\ answer' # answer =>
          Cardinality(later) < IF answer'.key = Shared THEN SharedLimit ELSE Limit
     /\ answer'.kind = "records" /\ answer' # answer =>
          SumFunctionOnSet(b.records, later) < b.recordSum]_vars

Ledgered(b) == {[id |-> b.retired + i - b.start, at |-> b.hits[i], units |-> b.records[i]]
                  : i \in Unexpired(b)}

Ledger == INSTANCE IngestLedger WITH
  ledger <- [k \in Key |-> Ledgered(buckets[k])], wrote <- answer.kind = "written",
  Start <- Window

\* Head indices, lazy retirement, compaction, sweeps and sequences amount to two
\* exact sliding windows.
KeepsLedger == Ledger!Spec
=============================================================================
