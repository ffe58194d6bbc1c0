----------------------------- MODULE MCLogSinks -----------------------------
(***************************************************************************)
(* One process runs one of the two sinks: `sink' says which.               *)
(***************************************************************************)
EXTENDS SinkDelivery

CONSTANTS FailureThreshold, InitThreshold

\* Both are positive in the environment's schema (env.schema.ts).
ASSUME ThresholdsFit == FailureThreshold \in Nat \ {0} /\ InitThreshold \in Nat \ {0}

VARIABLES sink, routed, initialized, initFailures, circuit, failedBatches

SeqS == INSTANCE SeqSink
Otlp == INSTANCE OtlpSink

otlpVars == <<initialized, initFailures, circuit, failedBatches>>
vars == <<sink, deliveryVars, routed, otlpVars>>

Init == sink \in {"seq", "otlp"} /\ SeqS!Init /\ Otlp!Init

SeqStep(A) == sink = "seq" /\ A /\ UNCHANGED <<sink, otlpVars>>
OtlpStep(A) == sink = "otlp" /\ A /\ UNCHANGED <<sink, routed>>

Next == SeqStep(SeqS!Next) \/ OtlpStep(Otlp!Next)

\* Every request ends by its own timeout, every sleep and every timer fires.
Fairness ==
  /\ WF_vars(SeqStep(SeqS!Dispatch)) /\ WF_vars(SeqStep(SeqS!Close))
  /\ WF_vars(OtlpStep(Otlp!Dispatch)) /\ WF_vars(OtlpStep(Otlp!Close))

Spec == Init /\ [][Next]_vars /\ Fairness

\* Types, the bounds on the queue, a batch and the failures counted; and no record is
\* lost or in two places, whatever emits, retries and evictions do, but the records of
\* the one request that a drain timeout of the Seq sink gave up and that was answered
\* all the same: those the collector has besides the fallback.
Accounted ==
  IF sink = "seq" THEN SeqS!TypeOK /\ SeqS!Accounted ELSE Otlp!TypeOK /\ Otlp!Accounted

----------------------------------------------------------------------------
\* A record as the promise of a sink sees it: in hand it is being sent, or the fallback
\* is next.
Fate(r) ==
  CASE r > emitted -> "unborn"
    [] r \in evicted -> "dropped"
    [] r \in Range(queue) -> "waiting"
    [] r \in Range(local) -> "local"
    [] r \in Range(salvage) -> "leaving"
    [] r \in Range(remote) \ Twice -> "remote"
    [] OTHER -> IF loop \in {"sending", "backoff"} THEN "sending" ELSE "leaving"

\* A request that flush aborted has not ended yet.
Late == IF routed THEN Range(hand) ELSE {}

Delivery == INSTANCE LogDelivery WITH
  fate <- [r \in 1..MaxRecords |-> Fate(r)],
  late <- Late,
  twice <- Twice

\* Queue, loop, retries, evictions and salvage keep what a sink promises of each record,
\* the order in which they leave included.
KeepsDelivery == Delivery!Spec
=============================================================================
