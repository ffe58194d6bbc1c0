------------------------------ MODULE MCParts ------------------------------
(***************************************************************************)
(* Five small parts that share nothing, checked side by side: `part' says  *)
(* which one moves.                                                        *)
(***************************************************************************)
EXTENDS Naturals, Sequences, FiniteSets

CONSTANTS
  MaxAttempts,
  File, Copies, BadType, TooLarge, MaxFiles, MinFiles, MaxBatch,
  MaxRuns,
  Figure, MaxEdits,
  RowId, SweepId, BatchSizes, Ceilings, Ttl, MaxTime, MaxMishaps,
  f1, f2, f3, f4, f5, f6

ASSUME BoundsFit ==
  MaxAttempts \in Nat /\ MaxRuns \in Nat /\ MaxFiles \in Nat /\ MaxBatch \in Nat

\* AUTH_SESSION_PRUNE_BATCH_SIZE, its fellows and the lifetime are positive.
ASSUME PruneAssumption ==
  /\ BatchSizes \subseteq Nat \ {0} /\ Ceilings \subseteq Nat \ {0} /\ Ttl \in Nat \ {0}
  /\ MaxTime \in Nat /\ MaxMishaps \in Nat /\ IsFiniteSet(SweepId)

VARIABLES
  part,
  hasOnSubmit, store, fieldErrors, serverErrors, phase, rendered,
  failCount, lastCounted, inFlight, streak, thrown, outcome,
  multiple, disabled, files, errors, added,
  state, requestId, timer, controller, underway, aborted, mounted, wanted,
  file, edits, env,
  batchSize, maxBatches, expires, now, stopped, mishaps, sweep, born, counted, due

Form == INSTANCE AppForm
Upload == INSTANCE FileSelection
Lookup == INSTANCE TypeAhead
Boot == INSTANCE Settings
Pruning == INSTANCE SessionPrune

formVars == <<hasOnSubmit, store, fieldErrors, serverErrors, phase, rendered,
              failCount, lastCounted, inFlight, streak, thrown, outcome>>
uploadVars == <<multiple, disabled, files, errors, added>>
lookupVars == <<state, requestId, timer, controller, underway, aborted, mounted, wanted>>
bootVars == <<file, edits, env>>
pruneVars == <<batchSize, maxBatches, expires, now, stopped, mishaps, sweep, born, counted, due>>
vars == <<part, formVars, uploadVars, lookupVars, bootVars, pruneVars>>

\* f2 is a copy of f1.
MCCopies == {<<f1, f2>>}

\* The defaults are reached by leaving a variable out; these are around the
\* bounds of each, and of those it is compared with.
MCFigures == [
  AUTH_SESSION_TTL_SECONDS |-> {3600, 604801, 2592000},
  AUTH_SESSION_ROTATE_AFTER_SECONDS |-> {0, 60, 604800},
  AUTH_SESSION_ROTATION_GRACE_SECONDS |-> {0, 59, 3600},
  AUTH_SESSION_PRUNE_BATCH_SIZE |-> {0, 10000, 10001},
  AUTH_SESSION_PRUNE_MAX_BATCHES |-> {0, 10000, 10001},
  AUTH_ARGON2_MEMORY_KIB |-> {8, 65535, 65536},
  AUTH_ARGON2_TIME_COST |-> {0, 2, 3},
  AUTH_ARGON2_PARALLELISM |-> {1, 3, 4, 9000},
  BACKEND_INSTANCE_COUNT |-> {0, 1, 2, 1001},
  AUTH_IDLE_TIMEOUT_SECONDS |-> {0, 2592000, 2592001},
  AUTH_ROTATION_RETRY_SECONDS |-> {0, 3600, 3601},
  FRONTEND_INSTANCE_COUNT |-> {0, 1, 2},
  CLIENT_LOG_RATE_LIMIT_PER_MINUTE |-> {0, 600, 601},
  CLIENT_LOG_RATE_LIMIT_SHARED_PER_MINUTE |-> {299, 300, 60001},
  CLIENT_LOG_RECORD_LIMIT_PER_MINUTE |-> {0, 60000, 60001},
  CLIENT_LOG_RECORD_LIMIT_SHARED_PER_MINUTE |-> {11999, 12000, 1200001}]

Init ==
  /\ part \in {"form", "upload", "lookup", "boot", "prune"}
  /\ Form!Init /\ (part # "form" => hasOnSubmit)
  /\ Upload!Init /\ (part # "upload" => files = <<>> /\ multiple)
  /\ Lookup!Init
  /\ Boot!Init /\ (part # "boot" => file = Boot!TestFile)
  /\ Pruning!Init
  /\ part # "prune" => \A m \in BatchSizes, n \in Ceilings : batchSize <= m /\ maxBatches <= n

Next ==
  /\ UNCHANGED part
  /\ \/ part = "form" /\ Form!Next /\ UNCHANGED <<uploadVars, lookupVars, bootVars, pruneVars>>
     \/ part = "upload" /\ Upload!Next /\ UNCHANGED <<formVars, lookupVars, bootVars, pruneVars>>
     \/ part = "lookup" /\ Lookup!Next /\ UNCHANGED <<formVars, uploadVars, bootVars, pruneVars>>
     \/ part = "boot" /\ Boot!Next /\ UNCHANGED <<formVars, uploadVars, lookupVars, pruneVars>>
     \/ part = "prune" /\ Pruning!Next /\ UNCHANGED <<formVars, uploadVars, lookupVars, bootVars>>

Spec == Init /\ [][Next]_vars

\* The pruner's timer keeps ticking and the database answers every query, if only
\* with an error; nothing else is owed.
FairSpec ==
  /\ Spec
  /\ WF_pruneVars(part = "prune" /\ \E s \in SweepId : Pruning!StartSweep(s))
  /\ \A s \in SweepId : WF_pruneVars(part = "prune" /\ Pruning!Query(s))

\* Whenever a form is at rest, its count of failures is that of the attempts
\* that failed since the last success, and it reports success exactly when the
\* latest attempt succeeded (useAppForm).
CountedOnce == Form!TypeOK /\ Form!CountedOnce

\* A batch dropped on a selection of several files that is within maxFiles and
\* free of copies, whatever the batch holds: nothing selected is lost, what is
\* announced is exactly what joined the selection, in order, the result is
\* again within its bounds and free of copies, and a file left out is reported
\* (addFiles and its onFilesAdded).
AddsWhatItAnnounces ==
  [][part = "upload" => \A batch \in Upload!Batches : Upload!AddsExactly(batch)]_vars

\* A component shows the latest lookup it asked for, however many earlier ones
\* answer late, and every lookup it no longer wants has been told to stop
\* (useDebouncedAsync).
ShowsLatest == Lookup!TypeOK /\ Lookup!ShowsLatest

\* An application that is up has settings the rest of it can live with, however
\* its file was edited (envSchema, serverEnvSchema).
UpMeansFit == Boot!UpMeansFit

\* A sweep that stops on an empty or a short batch, be it its first or a later one,
\* has cleaned the table of every row that was expired when it began, whoever
\* deleted it (session-prune.service.ts).
CleanSweep ==
  [][\A s \in SweepId : Pruning!EndsClean(s) => Pruning!LeavesClean(s)]_pruneVars

\* No row is reported as deleted twice, however sweeps overlap, and while no query
\* fails and no process is killed every row that is gone is accounted for
\* (deleteMany's count, session-prune.service.ts).
ReportsAddUp == Pruning!ReportsAddUp

\* Every expired row is deleted in the end, backlog, batch ceiling and failed
\* queries notwithstanding, unless the service shuts down.
ExpiredRowsGo == \A r \in RowId : Pruning!Overdue(r) ~> Pruning!Gone(r)
=============================================================================
