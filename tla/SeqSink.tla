------------------------------- MODULE SeqSink -------------------------------
(***************************************************************************)
(* SeqLogSink (packages/logging/src/seq-sink.ts): no circuit breaker, a    *)
(* 4xx is not tried again, and a drain timeout takes over the batch whose  *)
(* request is under way.                                                   *)
(***************************************************************************)
EXTENDS SinkDelivery

VARIABLE routed  \* the batch in hand is in drainTimeoutFallbackBatches

\* The head of the loop with the queue at q: take a batch and send it, or end.
LoopHead(q) ==
  IF q = <<>> \/ shut
  THEN loop' = "ending" /\ hand' = <<>> /\ queue' = q /\ UNCHANGED <<attempt, routed>>
  ELSE loop' = "sending" /\ hand' = Taken(q) /\ queue' = Left(q)
       /\ attempt' = 0 /\ routed' = FALSE

\* ensureDispatchLoop: there is never more than one loop.
EnsureLoop(q) ==
  IF loop = "none" THEN LoopHead(q) ELSE queue' = q /\ UNCHANGED <<loopVars, routed>>

Emit ==
  /\ emitted < MaxRecords
  /\ \/ shut /\ WriteRecord /\ UNCHANGED routed
     \/ ~shut /\ EnsureLoop(Kept) /\ CountEviction
  /\ emitted' = emitted + 1
  /\ UNCHANGED flushVars

\* The batch is done with: pause before the next one, if there is one.
AfterBatch ==
  /\ loop' = IF queue # <<>> /\ ~shut THEN "pausing" ELSE "ending"
  /\ hand' = <<>>
  /\ UNCHANGED <<emitted, queue, attempt, routed, flushVars>>

\* Mutant: the loop sends again what flush has salvaged.
Forgotten(b) == FALSE

\* consumeDrainTimeoutFallbackBatch.
Consumed(b) == routed

Acknowledged == loop = "sending" /\ ~Consumed(hand) /\ Acknowledge /\ AfterBatch

\* The request flush aborted ends, and the batch is done with.  The abort may have come
\* too late: then the collector has what flush writes to the fallback.
Aborted ==
  /\ loop = "sending" /\ Consumed(hand)
  /\ AfterBatch
  /\ Acknowledge \/ UNCHANGED history

\* A 4xx other than 429: the same bytes would fail again.
Refused ==
  /\ loop = "sending" /\ ~Consumed(hand)
  /\ loop' = "fallback"
  /\ UNCHANGED <<emitted, queue, hand, attempt, routed, flushVars, history>>

\* A 429, a 5xx, a network error or no answer in time.
Failed ==
  /\ loop = "sending" /\ ~Consumed(hand)
  /\ loop' = IF attempt >= MaxRetries \/ shut THEN "fallback" ELSE "backoff"
  /\ UNCHANGED <<emitted, queue, hand, attempt, routed, flushVars, history>>

WriteFallback == loop = "fallback" /\ WriteBatch(hand) /\ AfterBatch

Resume ==
  /\ loop = "pausing"
  /\ LoopHead(queue)
  /\ UNCHANGED <<emitted, flushVars, history>>

\* The loop's finally: settle who waits for an idle sink, and start again for what
\* was emitted while the loop was ending.
LoopEnds ==
  /\ loop = "ending"
  /\ IF Restart THEN LoopHead(queue)
     ELSE loop' = "none" /\ UNCHANGED <<queue, hand, attempt, routed>>
  /\ SettleIfIdle
  /\ UNCHANGED <<emitted, salvage, shut, history>>

\* flush starts a loop if there is none, so that the sink is never idle here.
Flush ==
  /\ flush = "no"
  /\ flush' = "waiting"
  /\ EnsureLoop(queue)
  /\ UNCHANGED <<emitted, salvage, shut, history>>

\* shutdownDrainTimeoutMs is over: abort the request under way and take its records.
DrainTimeout ==
  /\ flush = "waiting"
  /\ flush' = "salvaging"
  /\ routed' = (loop = "sending")
  /\ salvage' = IF loop = "sending" THEN hand ELSE <<>>
  /\ UNCHANGED <<emitted, queue, loopVars, shut, history>>

\* Those are written; what is queued by now is next.
Salvaged ==
  /\ flush = "salvaging"
  /\ flush' = "draining"
  /\ WriteBatch(salvage)
  /\ salvage' = queue /\ queue' = <<>>
  /\ UNCHANGED <<emitted, loopVars, routed, shut>>

Init == DeliveryInit /\ routed = FALSE

Again == Retry /\ UNCHANGED routed
End == (Drained \/ Shutdown) /\ UNCHANGED routed

Answer == Acknowledged \/ Aborted \/ Refused \/ Failed
Dispatch == Answer \/ Again \/ WriteFallback \/ Resume \/ LoopEnds
Close == DrainTimeout \/ Salvaged \/ End

Next == Emit \/ Dispatch \/ Flush \/ Close

----------------------------------------------------------------------------
TypeOK ==
  /\ DeliveryTypeOK /\ routed \in BOOLEAN
  /\ loop \in {"none", "sending", "backoff", "fallback", "pausing", "ending"}

\* The records the loop has in hand and nobody else has written.
Accounted == AccountedFor(IF routed THEN {} ELSE Range(hand))

=============================================================================
