---------------------------- MODULE SessionPrune ----------------------------
(***************************************************************************)
(* apps/backend/src/auth/session-prune.service.ts: expired session rows    *)
(* are deleted in batches by sweeps that start at boot and on a timer.     *)
(* Nothing awaits a sweep, so sweeps overlap one another, sign-ins and     *)
(* rotations, and the shutdown that tells them to stop.  Each query is one *)
(* step: its answer arrives and the next query is issued.                  *)
(***************************************************************************)
EXTENDS Integers, FiniteSets, FiniteSetsExt

CONSTANTS RowId,       \* session ids; a uuid is never drawn twice
          SweepId,     \* bound: sweeps under way at once
          BatchSizes,  \* values of AUTH_SESSION_PRUNE_BATCH_SIZE
          Ceilings,    \* values of AUTH_SESSION_PRUNE_MAX_BATCHES
          Ttl,         \* AUTH_SESSION_TTL_SECONDS, in ticks
          MaxTime,     \* bound: the last clock value explored
          MaxMishaps   \* bound: failed queries and restarts explored

VARIABLES batchSize, maxBatches,  \* read once, by the constructor
          expires,  \* expiresAt of each row in the table, Absent for the others
          now, stopped, mishaps,
          sweep,    \* the local variables of each sweep
          born,     \* history: ids ever inserted
          counted,  \* history: rows reported as deleted by the sweeps that ended
          due       \* history: the expired rows in the table when each sweep began

config == <<batchSize, maxBatches>>
vars == <<config, expires, now, stopped, mishaps, sweep, born, counted, due>>

Absent == -1
Present == {r \in RowId : expires[r] # Absent}
ExpiredBy(t) == {r \in Present : expires[r] <= t}

NoSweep == [pc |-> "idle", at |-> 0, batch |-> {}, deleted |-> 0, batches |-> 0]
Idle(s) == sweep[s].pc = "idle"

Init ==
  /\ batchSize \in BatchSizes /\ maxBatches \in Ceilings
  /\ expires = [r \in RowId |-> Absent] /\ born = {}
  /\ now = 0 /\ stopped = FALSE /\ mishaps = 0
  /\ sweep = [s \in SweepId |-> NoSweep]
  /\ counted = 0 /\ due = [s \in SweepId |-> {}]

----------------------------------------------------------------------------
\* issueSession, and the successor of a rotation, which inherits its family's
\* expiry and may commit after it.
SignIn(r) ==
  /\ r \notin born /\ born' = born \cup {r}
  /\ \E e \in {now + Ttl} \cup {expires[q] : q \in Present} :
       expires' = [expires EXCEPT ![r] = e]
  /\ UNCHANGED <<config, now, stopped, mishaps, sweep, counted, due>>

Tick ==
  /\ now < MaxTime /\ now' = now + 1
  /\ UNCHANGED <<config, expires, stopped, mishaps, sweep, born, counted, due>>

\* Mutant: the timer does not outlive the first failure.
StartUnlessFailed(s) ==
  /\ Idle(s) /\ ~stopped /\ mishaps = 0
  /\ sweep' = [sweep EXCEPT ![s] = [NoSweep EXCEPT !.pc = "find", !.at = now]]
  /\ due' = [due EXCEPT ![s] = ExpiredBy(now)]
  /\ UNCHANGED <<config, expires, now, stopped, mishaps, born, counted>>

\* The boot sweep or a tick of the interval: the clock is read once.
StartSweep(s) ==
  /\ Idle(s) /\ ~stopped
  /\ sweep' = [sweep EXCEPT ![s] = [NoSweep EXCEPT !.pc = "find", !.at = now]]
  /\ due' = [due EXCEPT ![s] = ExpiredBy(now)]
  /\ UNCHANGED <<config, expires, now, stopped, mishaps, born, counted>>

End(s) ==
  /\ sweep' = [sweep EXCEPT ![s] = NoSweep]
  /\ due' = [due EXCEPT ![s] = {}]
  /\ counted' = counted + sweep[s].deleted

\* findMany with take: any batchSize of the expired rows, or all of them.
Batches(t) ==
  LET rows == ExpiredBy(t) IN
  IF Cardinality(rows) <= batchSize THEN {rows} ELSE kSubset(batchSize, rows)

\* stopped is not read between the answer and the deleteMany it leads to.
FoundExpired(s) ==
  /\ sweep[s].pc = "find"
  /\ \E batch \in Batches(sweep[s].at) :
       IF batch = {} THEN End(s)
       ELSE /\ sweep' = [sweep EXCEPT ![s].pc = "delete", ![s].batch = batch]
            /\ UNCHANGED <<counted, due>>
  /\ UNCHANGED <<config, expires, now, stopped, mishaps, born>>

\* Mutant: a batch of exactly batchSize is taken for the last one.
ShortBatchOrFull(s) == Cardinality(sweep[s].batch) <= batchSize

\* A short batch is the last one.
ShortBatch(s) == Cardinality(sweep[s].batch) < batchSize

\* Mutant: the rows asked for are counted, not those deleted.
Requests(s) == sweep[s].batch

\* deleteMany by id: rows another sweep took first are not counted.
Deletions(s) == sweep[s].batch \cap Present

\* The table without some rows.
Without(rows) == [r \in RowId |-> IF r \in rows THEN Absent ELSE expires[r]]

Deleted(s) ==
  LET q == [sweep[s] EXCEPT !.pc = "find", !.batch = {}, !.batches = @ + 1,
                            !.deleted = @ + Cardinality(Deletions(s))]
      last == ShortBatch(s) \/ q.batches >= maxBatches \/ stopped IN
  /\ sweep[s].pc = "delete"
  /\ expires' = Without(sweep[s].batch)
  /\ sweep' = [sweep EXCEPT ![s] = IF last THEN NoSweep ELSE q]
  /\ due' = [due EXCEPT ![s] = IF last THEN {} ELSE @]
  /\ counted' = counted + IF last THEN q.deleted ELSE 0
  /\ UNCHANGED <<config, now, stopped, mishaps, born>>

\* A failed query is logged, with what was deleted before it, and swallowed.  A
\* deleteMany whose answer is lost may have taken its rows all the same.
QueryFails(s) ==
  /\ ~Idle(s) /\ mishaps < MaxMishaps /\ mishaps' = mishaps + 1
  /\ expires' \in {expires, Without(sweep[s].batch)}
  /\ End(s)
  /\ UNCHANGED <<config, now, stopped, born>>

OnModuleDestroy ==
  /\ ~stopped /\ stopped' = TRUE
  /\ UNCHANGED <<config, expires, now, mishaps, sweep, born, counted, due>>

\* The process is killed, whatever it was doing, and boots again.  Its sweeps report
\* nothing, and the statements under way may have taken effect or not.
Restart ==
  /\ mishaps < MaxMishaps /\ mishaps' = mishaps + 1
  /\ stopped' = FALSE
  /\ sweep' = [s \in SweepId |-> NoSweep]
  /\ due' = [s \in SweepId |-> {}]
  /\ \E cut \in SUBSET SweepId : expires' = Without(UNION {sweep[s].batch : s \in cut})
  /\ UNCHANGED <<config, now, born, counted>>

Query(s) == FoundExpired(s) \/ Deleted(s)

Next ==
  \/ \E r \in RowId : SignIn(r)
  \/ \E s \in SweepId : StartSweep(s) \/ Query(s) \/ QueryFails(s)
  \/ Tick \/ OnModuleDestroy \/ Restart

Spec == Init /\ [][Next]_vars

----------------------------------------------------------------------------
(***************************************************************************)
(* What the properties are said in.                                        *)
(***************************************************************************)
\* What the sweeps under way have deleted so far.
Underway == MapThenSumSet(LAMBDA s : sweep[s].deleted, SweepId)

\* Rows go unreported when a query fails or the process is killed, but none is
\* reported twice.
ReportsAddUp ==
  LET gone == Cardinality(born \ Present) IN
  /\ counted + Underway <= gone
  /\ mishaps = 0 => counted + Underway = gone

EndsClean(s) ==
  \/ FoundExpired(s) /\ sweep'[s].pc = "idle"
  \/ Deleted(s) /\ ShortBatch(s)

LeavesClean(s) == due[s] \cap Present' = {}

Overdue(r) == expires[r] # Absent /\ expires[r] <= now
Gone(r) == expires[r] = Absent \/ stopped

=============================================================================
