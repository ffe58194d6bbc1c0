-------------------------- MODULE BoundedThrottler --------------------------
(***************************************************************************)
(* The in-process rate-limit store of                                      *)
(* apps/backend/src/common/throttling/bounded-throttler.storage.ts: a Map  *)
(* from storage keys to records with the time of every hit still inside    *)
(* its window, one block per key, and a ceiling on the number of keys.     *)
(*                                                                         *)
(* increment and the sweep run to completion on the event loop, so each is *)
(* one step; what interleaves is whose call comes next, the clock and the  *)
(* timer.  The clock counts in units of the forced-sweep floor or finer.   *)
(* windowExpiresAtMs only feeds a response header and is left out.  A Map  *)
(* iterates in the order of insertion: here each key has those before it.  *)
(***************************************************************************)
EXTENDS Integers, Sequences, FiniteSets, SequencesExt

CONSTANTS Key,         \* storage keys
          Name,        \* throttler names
          Uses,        \* the names that share each key
          Limit,       \* hits a name admits per window
          Ttl,         \* its window
          Block,       \* how long passing the limit blocks the key
          MaxKeys,     \* THROTTLE_STORE_MAX_KEYS
          ScanLimit,   \* RECLAIM_SCAN_LIMIT
          MinInterval, \* FORCED_PRUNE_MIN_INTERVAL_MS
          MaxTime      \* bound: the last clock value explored

ASSUME BucketsAssumption ==
  /\ Uses \in [Key -> SUBSET Name]
  /\ Limit \in [Name -> Nat \ {0}]
  /\ Ttl \in [Name -> Nat \ {0}] /\ Block \in [Name -> Nat \ {0}]
ASSUME StoreAssumption ==
  /\ MaxKeys \in Nat \ {0} /\ ScanLimit \in Nat \ {0} /\ MinInterval \in Nat \ {0}
  /\ MaxTime \in Nat

VARIABLES now,
          keys,       \* the keys in the Map
          older,      \* for each of them, the keys inserted before it
          record,     \* the record behind each key, Blank for a key not in the Map
          lastPrune,  \* lastPruneAtMs
          stopped,    \* onModuleDestroy ran
          served      \* history: when each name admitted a call on each key

vars == <<now, keys, older, record, lastPrune, stopped, served>>

NoHits == [n \in Name |-> <<>>]
Blank == [hits |-> NoHits, blocked |-> FALSE, until |-> 0]

\* A hit leaves exactly one window after it was made: the prefix scan stops at the
\* first survivor.
AgedOut(n, hits, time) == {i \in DOMAIN hits : \A j \in 1..i : hits[j] <= time - Ttl[n]}
FreshAt(n, hits, time) == SubSeq(hits, Cardinality(AgedOut(n, hits, time)) + 1, Len(hits))

\* Mutant: a hit leaves one unit early.
FreshEarly(n, hits) == FreshAt(n, hits, now + 1)

\* retireExpiredHits
Fresh(n, hits) == FreshAt(n, hits, now)

Retire(rec) == [rec EXCEPT !.hits = [n \in Name |-> Fresh(n, rec.hits[n])]]
ServingBlock(rec) == rec.blocked /\ rec.until > now

Reclaimable(rec) == Retire(rec).hits = NoHits /\ ~ServingBlock(rec)

Init ==
  /\ now = 0 /\ keys = {} /\ older = [k \in Key |-> {}] /\ record = [k \in Key |-> Blank]
  /\ lastPrune = 0 /\ stopped = FALSE
  /\ served = [k \in Key |-> NoHits]

----------------------------------------------------------------------------
(***************************************************************************)
(* Asking isReclaimable of a record retires its hits on the way; the dead  *)
(* ones among those visited are deleted.                                   *)
(***************************************************************************)
Dead == {k \in keys : Reclaimable(record[k])}

Left(visited) == keys \ (visited \cap Dead)

OlderAmong(left) == [k \in Key |-> IF k \in left THEN older[k] \cap left ELSE {}]

Visited(visited) ==
  [k \in Key |-> IF k \notin visited THEN record[k]
                 ELSE IF Reclaimable(record[k]) THEN Blank ELSE Retire(record[k])]

(***************************************************************************)
(* What a hit does to a record that has a place in the Map.                *)
(***************************************************************************)
Pushed(rec, n) ==
  LET hits == Append(Fresh(n, rec.hits[n]), now)
      over == Len(hits) > Limit[n] IN
  [hits |-> [rec.hits EXCEPT ![n] = hits], blocked |-> over,
   until |-> IF over THEN now + Block[n] ELSE rec.until]

\* Mutant: a lapsed block clears every name that shares the key.
HitClearsAll(rec, n) ==
  CASE ~rec.blocked       -> Pushed(rec, n)
    [] ServingBlock(rec)  -> rec
    [] OTHER -> [hits |-> [NoHits EXCEPT ![n] = <<now>>], blocked |-> FALSE, until |-> 0]

\* A call that finds the block lapsed lifts it and counts as its name's first hit.
Hit(rec, n) ==
  CASE ~rec.blocked       -> Pushed(rec, n)
    [] ServingBlock(rec)  -> rec
    [] OTHER -> [hits |-> [rec.hits EXCEPT ![n] = <<now>>], blocked |-> FALSE, until |-> 0]

\* The step of increment that counts, once the records visited made room for it: a
\* key that has no place goes to the end of the Map.
Count(k, n, visited) ==
  LET rec == Hit(Visited(visited)[k], n)
      left == Left(visited) IN
  /\ keys' = left \cup {k}
  /\ older' = [OlderAmong(left) EXCEPT ![k] = IF k \in left THEN @ ELSE left]
  /\ record' = [Visited(visited) EXCEPT ![k] = rec]
  /\ served' = IF rec.blocked THEN served
               ELSE [served EXCEPT ![k][n] = Append(@, now)]

Refuse(visited) ==
  /\ keys' = Left(visited) /\ older' = OlderAmong(Left(visited))
  /\ record' = Visited(visited)
  /\ UNCHANGED served

----------------------------------------------------------------------------
(***************************************************************************)
(* Making room.                                                            *)
(***************************************************************************)
Scanned == {k \in keys : Cardinality(older[k]) < ScanLimit}

\* Mutants: one key too many; a sweep is never forced.
OverFull == Cardinality(keys) > MaxKeys
SweepNever == FALSE

Full == Cardinality(keys) >= MaxKeys
SweepDue == now - lastPrune >= MinInterval

\* A key with a live record, or one whose dead record gives way to a new one.
IncrementKnown(k, n) ==
  /\ n \in Uses[k] /\ k \in keys
  /\ Count(k, n, {k})
  /\ UNCHANGED <<now, lastPrune, stopped>>

IncrementNew(k, n) ==
  /\ n \in Uses[k] /\ k \notin keys /\ ~Full
  /\ Count(k, n, {})
  /\ UNCHANGED <<now, lastPrune, stopped>>

IncrementSweeping(k, n) ==
  /\ n \in Uses[k] /\ k \notin keys /\ Full /\ SweepDue
  /\ lastPrune' = now
  /\ IF Cardinality(Left(keys)) < MaxKeys THEN Count(k, n, keys) ELSE Refuse(keys)
  /\ UNCHANGED <<now, stopped>>

\* The scan ends at the first dead record.
IncrementScanning(k, n) ==
  /\ n \in Uses[k] /\ k \notin keys /\ Full /\ ~SweepDue
  /\ \/ \E d \in Scanned \cap Dead :
          older[d] \cap Dead = {} /\ Count(k, n, older[d] \cup {d})
     \/ Scanned \cap Dead = {} /\ Refuse(Scanned)
  /\ UNCHANGED <<now, lastPrune, stopped>>

\* The background timer; setInterval fires late or on time.
Sweep ==
  /\ ~stopped
  /\ Refuse(keys) /\ lastPrune' = now
  /\ UNCHANGED <<now, stopped>>

OnModuleDestroy ==
  /\ ~stopped /\ stopped' = TRUE
  /\ keys' = {} /\ older' = [k \in Key |-> {}] /\ record' = [k \in Key |-> Blank]
  /\ served' = [k \in Key |-> NoHits]
  /\ UNCHANGED <<now, lastPrune>>

Tick ==
  /\ now < MaxTime /\ now' = now + 1
  /\ served' = [k \in Key |-> [n \in Name |-> FreshAt(n, served[k][n], now + 1)]]
  /\ UNCHANGED <<keys, older, record, lastPrune, stopped>>

Next ==
  \/ \E k \in Key, n \in Name :
       \/ IncrementKnown(k, n) \/ IncrementNew(k, n)
       \/ IncrementSweeping(k, n) \/ IncrementScanning(k, n)
  \/ Sweep \/ OnModuleDestroy \/ Tick

Spec == Init /\ [][Next]_vars

----------------------------------------------------------------------------
(***************************************************************************)
(* Properties.                                                             *)
(***************************************************************************)
Ascending(hits) == \A i, j \in DOMAIN hits : i < j => hits[i] <= hits[j]

\* The Map stays within its ceiling and its keys in one order, oldest first; there is
\* no record without a place in it; hits are in time order, as the prefix scan that
\* retires them needs.
StoreOK ==
  /\ Cardinality(keys) <= MaxKeys
  /\ \A j, k \in keys : j # k => (j \in older[k] <=> k \notin older[j])
  /\ \A k \in keys : \A j \in older[k] : j \in keys /\ older[j] \subseteq older[k] \ {j}
  /\ \A k \in Key : k \notin keys => record[k] = Blank
  /\ \A k \in Key, n \in Name : Ascending(record[k].hits[n])

\* The store is sound; and however calls, sweeps, evictions and lapsed blocks fall, no
\* window of one Ttl holds more than Limit admitted calls on a key, provided the key is
\* one name's own and its block lasts a window, as every guard has it.
WindowBound ==
  /\ StoreOK
  /\ \A k \in Key, n \in Name :
       Uses[k] = {n} /\ Block[n] >= Ttl[n] => Len(served[k][n]) <= Limit[n]

\* Nothing live is dropped to make room: a hit still inside its window survives
\* every step, except those of the one name whose call lifts a lapsed block, and
\* a block still running is never lost.
LiveKept ==
  [][stopped' = stopped =>
       \A k \in Key :
         /\ \A n \in Name :
              \/ IsPrefix(Fresh(n, record[k].hits[n]), Fresh(n, record'[k].hits[n]))
              \/ /\ record[k].blocked /\ ~ServingBlock(record[k])
                 /\ record'[k].hits[n] = <<now>>
         /\ ServingBlock(record[k]) => record'[k].blocked]_vars

Refused(k, n) ==
  (IncrementSweeping(k, n) \/ IncrementScanning(k, n)) /\ k \notin keys'

\* A newcomer is refused although a dead record holds its place only within
\* MinInterval of a sweep: false saturation corrects itself.
FalseSaturationBrief ==
  [][\A k \in Key, n \in Name : Refused(k, n) =>
       \/ now - lastPrune' < MinInterval /\ lastPrune' = lastPrune
       \/ \A j \in keys' : ~Reclaimable(record'[j])]_vars

=============================================================================
