------------------------------ MODULE OtlpSink ------------------------------
(***************************************************************************)
(* HttpOtlpLogSink (packages/logging/src/http-otlp-sink.ts): the dispatch  *)
(* loop of the Seq sink with an initialization that may fail and a circuit *)
(* breaker, and a flush that leaves the batch under way to its request.    *)
(*                                                                         *)
(* The circuit is closed, open, or lapsed: circuitOpenMs is over but no    *)
(* call has looked yet.  The rest is as in SeqSink.                        *)
(***************************************************************************)
EXTENDS SinkDelivery

CONSTANTS FailureThreshold, InitThreshold

VARIABLES initialized, initFailures, circuit, failedBatches

breaker == <<circuit, failedBatches, initFailures>>

\* refreshCircuitState.
RefreshCircuit ==
  IF circuit = "lapsed"
  THEN circuit' = "closed" /\ failedBatches' = 0 /\ initFailures' = 0
  ELSE UNCHANGED breaker

\* ensureDispatchLoop: a loop that finds records starts by initializing.
EnsureLoop(q) ==
  /\ queue' = q
  /\ loop' = IF loop # "none" THEN loop ELSE IF q = <<>> THEN "ending" ELSE "initializing"
  /\ UNCHANGED <<hand, attempt>>

Emit ==
  /\ emitted < MaxRecords
  /\ RefreshCircuit
  /\ \/ (shut \/ circuit = "open") /\ WriteRecord
     \/ ~shut /\ circuit # "open" /\ EnsureLoop(Kept) /\ CountEviction
  /\ emitted' = emitted + 1
  /\ UNCHANGED <<initialized, flushVars>>

\* Everything that waits goes to the fallback, and the loop ends.
Shed == loop' = "shedding" /\ hand' = queue /\ queue' = <<>> /\ UNCHANGED attempt

\* The head of the loop.
LoopHead ==
  CASE queue = <<>> \/ shut -> loop' = "ending" /\ hand' = <<>> /\ UNCHANGED <<queue, attempt>>
    [] queue # <<>> /\ ~shut /\ circuit = "open" -> Shed
    [] OTHER -> loop' = "sending" /\ hand' = Taken(queue) /\ queue' = Left(queue) /\ attempt' = 0

InitializationDone ==
  /\ loop = "initializing"
  /\ initialized' = TRUE
  /\ LoopHead
  /\ IF queue # <<>> /\ ~shut /\ circuit = "lapsed"
     THEN circuit' = "closed" /\ failedBatches' = 0 ELSE UNCHANGED <<circuit, failedBatches>>
  /\ initFailures' = 0
  /\ UNCHANGED <<emitted, flushVars, history>>

InitializationFailed ==
  /\ loop = "initializing" /\ ~initialized
  /\ IF initFailures + 1 >= InitThreshold /\ ~shut
     THEN Shed /\ circuit' = "open"
     ELSE /\ loop' = IF shut THEN "ending" ELSE "initBackoff"
          /\ UNCHANGED <<queue, hand, attempt, circuit>>
  /\ initFailures' = initFailures + 1
  /\ UNCHANGED <<emitted, initialized, failedBatches, flushVars, history>>

InitRetry ==
  /\ loop = "initBackoff"
  /\ loop' = "ending"
  /\ UNCHANGED <<emitted, queue, hand, attempt, initialized, breaker, flushVars, history>>

\* What follows a batch: a pause when there is more to do, though the sink be shut.
AfterBatch ==
  /\ loop' = IF queue # <<>> THEN "pausing" ELSE "ending"
  /\ hand' = <<>>
  /\ UNCHANGED <<queue, attempt>>

Acknowledged ==
  /\ loop = "sending"
  /\ Acknowledge
  /\ AfterBatch
  /\ failedBatches' = 0
  /\ UNCHANGED <<emitted, initialized, circuit, initFailures, flushVars>>

\* Any other answer or none: unlike Seq's, a 4xx is tried again.
Failed ==
  /\ loop = "sending"
  /\ loop' = IF attempt >= MaxRetries \/ shut THEN "fallback" ELSE "backoff"
  /\ UNCHANGED <<emitted, queue, hand, attempt, initialized, breaker, flushVars, history>>

Trip == Shed /\ circuit' = "open"

\* One batch more that could not be delivered; enough of them open the circuit.
WriteFallback ==
  /\ loop = "fallback"
  /\ WriteBatch(hand)
  /\ failedBatches' = failedBatches + 1
  /\ IF failedBatches' >= FailureThreshold THEN Trip ELSE AfterBatch /\ UNCHANGED circuit
  /\ UNCHANGED <<emitted, initialized, initFailures, flushVars>>

Shedding ==
  /\ loop = "shedding"
  /\ WriteBatch(hand)
  /\ loop' = "ending" /\ hand' = <<>>
  /\ UNCHANGED <<emitted, queue, attempt, initialized, breaker, flushVars>>

Resume ==
  /\ loop = "pausing"
  /\ LoopHead
  /\ IF queue # <<>> /\ ~shut THEN RefreshCircuit ELSE UNCHANGED breaker
  /\ UNCHANGED <<emitted, initialized, flushVars, history>>

LoopEnds ==
  /\ loop = "ending"
  /\ loop' = IF Restart THEN "initializing" ELSE "none"
  /\ SettleIfIdle
  /\ UNCHANGED <<emitted, queue, hand, attempt, initialized, breaker, salvage, shut, history>>

\* circuitOpenMs goes by.
Lapse ==
  /\ circuit = "open"
  /\ circuit' = "lapsed"
  /\ UNCHANGED <<emitted, queue, loopVars, initialized, failedBatches, initFailures,
                 flushVars, history>>

Flush ==
  /\ flush = "no"
  /\ flush' = "waiting"
  /\ EnsureLoop(queue)
  /\ UNCHANGED <<emitted, initialized, breaker, salvage, shut, history>>

DrainTimeout ==
  /\ flush = "waiting"
  /\ flush' = "draining"
  /\ salvage' = queue /\ queue' = <<>>
  /\ UNCHANGED <<emitted, loopVars, initialized, breaker, shut, history>>

Init ==
  /\ DeliveryInit
  /\ initialized = FALSE /\ initFailures = 0 /\ circuit = "closed" /\ failedBatches = 0

Again == Retry /\ UNCHANGED <<initialized, breaker>>
End == (Drained \/ Shutdown) /\ UNCHANGED <<initialized, breaker>>

Initialize == InitializationDone \/ InitializationFailed \/ InitRetry
Deliver == Acknowledged \/ Failed \/ Again \/ WriteFallback \/ Shedding
Dispatch == Initialize \/ Deliver \/ Resume \/ LoopEnds
Close == DrainTimeout \/ End

Next == Emit \/ Dispatch \/ Lapse \/ Flush \/ Close

----------------------------------------------------------------------------
TypeOK ==
  /\ DeliveryTypeOK
  /\ loop \in {"none", "initializing", "initBackoff", "sending", "backoff", "fallback",
               "shedding", "pausing", "ending"}
  /\ initialized \in BOOLEAN /\ circuit \in {"closed", "open", "lapsed"}
  /\ failedBatches \in 0..FailureThreshold /\ initFailures \in 0..InitThreshold

\* No request is aborted: nothing is in two places.
Accounted == AccountedFor(Range(hand)) /\ Twice = {}

=============================================================================
