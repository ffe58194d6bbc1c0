---------------------------- MODULE SinkDelivery ----------------------------
(***************************************************************************)
(* What the two HTTP log sinks of packages/logging share: the bounded      *)
(* queue, the single dispatch loop, the drain waiters and the fallback of  *)
(* sink-delivery.ts, and the shutdown of the active sink of                *)
(* resolve-log-sink.ts.                                                    *)
(*                                                                         *)
(* Records are numbered in the order they are emitted.  The loop's place   *)
(* is where its last await left it; emits come between any two steps.      *)
(* Writing a batch to the fallback is one step: stdout takes it at once.   *)
(***************************************************************************)
EXTENDS Integers, Sequences, FiniteSets, Functions, SequencesExt

CONSTANTS QueueSize, BatchSize, MaxRetries,
          MaxRecords  \* bound: records emitted

\* resolve-log-sink.ts makes both sizes at least 1.
ASSUME SizesFit ==
  /\ QueueSize \in Nat \ {0} /\ BatchSize \in Nat \ {0}
  /\ MaxRetries \in Nat /\ MaxRecords \in Nat

VARIABLES emitted,  \* how many records there were so far
          queue,    \* the records that wait
          loop,     \* where the dispatch loop is, "none" without one
          hand,     \* the records it is sending or writing to the fallback
          attempt,  \* attempts made on them before this one
          flush,    \* where flush is
          salvage,  \* the records flush is writing to the fallback
          shut,     \* isShutdownRequested
          remote,   \* history: records the collector acknowledged, in order
          local,    \* history: records written to the fallback, in order
          evicted   \* history: records dropped from a full queue

loopVars == <<loop, hand, attempt>>
flushVars == <<flush, salvage, shut>>
history == <<remote, local, evicted>>
deliveryVars == <<emitted, queue, loopVars, flushVars, history>>

Shorter(m, n) == IF m < n THEN m ELSE n

\* queue.splice(0, batchSize).
Taken(q) == SubSeq(q, 1, Shorter(BatchSize, Len(q)))
Left(q) == SubSeq(q, Shorter(BatchSize, Len(q)) + 1, Len(q))

\* Mutant: one place is never used.
FullEarly == Len(queue) + 1 >= QueueSize

Full == Len(queue) >= QueueSize

\* Mutant: a record handed over overtakes those that wait.
KeptInFront == <<emitted + 1>> \o (IF Full THEN Tail(queue) ELSE queue)

\* A record handed over: kept, the oldest one giving way, or written locally.
Kept == Append(IF Full THEN Tail(queue) ELSE queue, emitted + 1)

CountEviction ==
  /\ evicted' = IF Full THEN evicted \cup {Head(queue)} ELSE evicted
  /\ UNCHANGED <<remote, local>>

WriteRecord ==
  /\ local' = Append(local, emitted + 1)
  /\ UNCHANGED <<queue, loopVars, remote, evicted>>

Acknowledge == remote' = remote \o hand /\ UNCHANGED <<local, evicted>>
WriteBatch(records) == local' = local \o records /\ UNCHANGED <<remote, evicted>>

\* The sleep of computeRetryDelayMs is over.
Retry ==
  /\ loop = "backoff"
  /\ loop' = "sending" /\ attempt' = attempt + 1
  /\ UNCHANGED <<emitted, queue, hand, flushVars, history>>

\* Mutants: a loop that has ended is not followed by another; the waiters are asked
\* for while the loop still counts as running.
RestartNever == FALSE
IdleBefore == FALSE

\* What is left for another loop, and isIdle: both asked once this one is cleared,
\* with nothing in flight.
Restart == queue # <<>> /\ ~shut
Idle == queue = <<>>

SettleIfIdle == flush' = IF flush = "waiting" /\ Idle THEN "drained" ELSE flush

\* drainQueue, and the end of flush.
Drained ==
  /\ flush = "draining"
  /\ flush' = "drained"
  /\ WriteBatch(salvage)
  /\ salvage' = <<>>
  /\ UNCHANGED <<emitted, queue, loopVars, shut>>

\* shutdownActiveLogSink, once flush is back.
Shutdown ==
  /\ flush = "drained" /\ ~shut
  /\ shut' = TRUE
  /\ UNCHANGED <<emitted, queue, loopVars, flush, salvage, history>>

DeliveryInit ==
  /\ emitted = 0 /\ queue = <<>> /\ loop = "none" /\ hand = <<>> /\ attempt = 0
  /\ flush = "no" /\ salvage = <<>> /\ shut = FALSE
  /\ remote = <<>> /\ local = <<>> /\ evicted = {}

----------------------------------------------------------------------------
(***************************************************************************)
(* Properties of either sink.                                              *)
(***************************************************************************)
DeliveryTypeOK ==
  /\ emitted \in 0..MaxRecords /\ Len(queue) <= QueueSize
  /\ attempt \in 0..MaxRetries /\ shut \in BOOLEAN
  /\ flush \in {"no", "waiting", "salvaging", "draining", "drained"}
  /\ loop \in {"sending", "backoff", "fallback"} => Len(hand) \in 1..BatchSize
  /\ \A s \in {queue, hand, salvage, remote, local} : Range(s) \subseteq 1..emitted

\* What the collector acknowledged and the fallback has, or will have, too.
Twice == Range(remote) \cap (Range(salvage) \cup Range(local))

\* No record is lost, and each is in exactly one place, whatever emits, retries and
\* evictions do.  A drain timeout may leave the records of one request in two.
AccountedFor(inHand) ==
  LET places == <<Range(queue), inHand, Range(salvage), Range(remote) \ Twice, Range(local), evicted>> IN
  /\ UNION Range(places) = 1..emitted
  /\ \A i, j \in DOMAIN places : i # j => places[i] \cap places[j] = {}
  /\ IsInjective(remote) /\ IsInjective(local)
  /\ Cardinality(Twice) <= IF flush \in {"no", "waiting"} THEN 0 ELSE BatchSize

\* The collector acknowledges records in the order they were emitted: a retry is
\* never overtaken by a later batch.
RemoteInOrder == \A i, j \in DOMAIN remote : i < j => remote[i] < remote[j]

\* Nobody waits for a sink that is idle already: the last loop to end settles them.
NobodyWaitsForIdle == ~(flush = "waiting" /\ loop = "none" /\ queue = <<>>)

\* A record that waits or is in hand gets somewhere, unless the sink is shut down.
Unsettled(r) == r \in Range(queue) \cup Range(hand)
Settles == \A r \in 1..MaxRecords : Unsettled(r) ~> (~Unsettled(r) \/ shut)
=============================================================================
