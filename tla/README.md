# Verification of ll-stack

ll-stack is a NestJS backend (PostgreSQL through Prisma), a Next.js frontend and the packages
they share. This directory holds TLA+ models of the parts of it whose correctness depends on
order: which of two requests commits first, what a retry finds, what happens at a ceiling. TLC
checks the models on small instances; TLAPS proves theorems about all of them for every instance: every
safety property and every refinement that a passing run checks is also a theorem.

## Inventory

| component | state | operations | hard behaviour | modelled in |
|---|---|---|---|---|
| **Session service** (`apps/backend/src/auth/auth.service.ts`, `schema.prisma`) | one row per bearer token: family, issuedAt, expiresAt, rotatedAt, firstUsedAt, revokedAt | issue, resolve, rotate, recover a lost rotation, raise the reuse alarm, log out, revoke all | concurrent statements at READ COMMITTED, multi-row UPDATEs waiting on row locks, lost answers, failures between transactions | `SessionFamilies` |
| **Accounts** (`auth.service.ts`, `auth.controller.ts`) | users table, hashing settings of a release | register, login, re-hash on login | unique-email race, deletion between check and issue, a re-hash racing a password change, a deployment under requests in flight | `AuthAccounts` |
| **Browser and proxy** (`apps/frontend/proxy.ts`, `lib/auth/*`, `app/(public)/logout`, `app/actions`) | session and binding cookies of one browser | rotate on a member's navigation, roll the binding, sign in, sign out, revoke others | several tabs, answers out of order or lost, rotation calls given up on that commit later | `BrowserSessions` |
| **Client-log ingest** (`app/api/client-logs`, `lib/logging/client-log-rate-limit.ts`) | per-client and shared windows of requests and record units | admit a request, charge its records, sweep, degrade | the charge is split around reading the body while entries retire and arrays are compacted | `ClientLogIngest` |
| **Log sinks** (`packages/logging/src/sink-delivery.ts`, `seq-sink.ts`, `http-otlp-sink.ts`) | bounded queue, loop, circuit, drain waiters | emit, dispatch, retry, flush, shut down | retries and eviction from one queue, a drain timeout racing a late answer | `SeqSink`, `OtlpSink` |
| **Session pruning** (`session-prune.service.ts`) | the sessions table, per-sweep locals, `stopped` | sweep at boot and on a timer, shutdown | overlapping sweeps, batch ceiling, failed queries | `SessionPrune` |
| **Rate-limit store** (`common/throttling/bounded-throttler.storage.ts`) | map from key to hit times and a block | increment, sweep, destroy | window boundaries, lapsed blocks on shared keys, the key ceiling | `BoundedThrottler` |
| **Configuration** (both `config/env.schema.ts`) | an environment file, the settings of a started process | start, stop, edit | two schemas reading one file differently, settings that constrain one another, values worked out twice | `Settings` |
| **Interface library** (`packages/ui`) | a form's counters, a file selection, a debounced lookup | submit, add files, type | effects and continuations in either order, late answers | `AppForm`, `FileSelection`, `TypeAhead` |
| Throttler guards | none | choose key, limit, window | - | the off switch, in `Settings` |
| Cookies and HTTP boundary, generated clients, read-only endpoints, scripts | none | - | - | - |

How they interact: the proxy calls `POST /auth/session/rotate` on a member's navigation and
forwards the token it got; the member layout and the actions call `/auth/*`; the guards consult
the rate-limit store before the session service runs; every authenticated endpoint resolves the
session cookie first; login ends in the session service's `issueSession`; the pruner and the
session service share only the `sessions` table; the browser posts its log lines to the ingest
route, and both apps hand theirs to a sink; the intervals all of this depends on come from the
two environment schemas.

What makes each correct:

- sessions: a sign-in has at most one token in force; one that ended stays ended; sign-out ends
  every token although rotations add rows; a lost answer is undone without discarding a token
  somebody used; rotation never prolongs a sign-in; every revoker returns;
- accounts: one live account per address; a re-hash never puts back an old password or writes to a
  deleted row; an answer OK means there is a session and, to a login, a live account;
- browser: its own tabs are never taken for a thief, unless an answer with a rotated token was lost on
  the way to it; in calm weather nobody signed in is turned away; the jar never moves back to an older
  token; a jar that disagrees with itself heals;
- ingest: no client and not the whole app exceeds its allowances; a charge lands on the request that
  made it; Retry-After is honest;
- sinks: every record ends in one place, but those of one request given up at a drain timeout and
  answered all the same; the oldest of a full queue is the one evicted, the collector sees records in
  order, a flush waits for nothing that cannot come;
- pruning: a sweep that says the table is clean is right, no row is reported twice, a backlog drains;
- rate-limit store: limits hold over every window, nothing live is evicted, false saturation is brief;
- configuration: an application that is up has settings the rest of it can live with;
- interface: each failed submission counts once, what is announced as added was added, a late lookup
  is not shown.

## Modules

| module | what it is |
|---|---|
| `SignInLineage` | what a session service promises, without a database: one token in force per sign-in, advance, go back, discard |
| `SessionFamilies` | the session service against PostgreSQL, one action per statement |
| `AccountBook` | what accounts promise their owners: a set of entries, each sign-in decided at one instant |
| `AuthAccounts` | register, login and the re-hash, one action per statement |
| `BackendSessions` | the session service as a client sees it, one action per call step |
| `BrowserSessions` | one browser, the proxy and the sign-out and sign-in routes on top of `BackendSessions` |
| `IngestLedger` | what the client-log limiter promises: two exact sliding windows |
| `ClientLogIngest` | the ingest route and its limiter |
| `LogDelivery` | what a sink promises of its records: their fates, and the order they leave in |
| `SinkDelivery` | what the two sinks share: queue, waiters, fallback, shutdown |
| `SeqSink`, `OtlpSink` | their dispatch loops |
| `SessionPrune`, `BoundedThrottler` | the pruner, one action per query answer; the store, one per call |
| `Settings` | both environment schemas and the processes started on them |
| `AppForm`, `FileSelection`, `TypeAhead` | `useAppForm`, `useFileUpload`, `useDebouncedAsync` |
| `MC...` | the instances TLC explores; `MCLogSinks` runs either sink, `MCParts` one of the last four or the pruner |
| `SessionFamiliesProofs` | theorems about `SessionFamilies`: types, one token in force, the whole life of a sign-in, `SignInLineage`, and what revokers promise |
| `BrowserSessionsProofs` | theorems about `BrowserSessions` and the `BackendSessions` below it |
| `AuthAccountsProofs` | theorems about `AuthAccounts` and `AccountBook` |
| `LogSinksProofs` | theorems about both sinks and `LogDelivery` |
| `BoundedThrottlerProofs` | theorems about `BoundedThrottler` |
| `PartsProofs` | theorems about `AppForm`, `FileSelection`, `TypeAhead`, `Settings` and `SessionPrune` |
| `ClientLogIngestProofs` | theorems about `ClientLogIngest` and `IngestLedger` |
| `FoldFacts` | facts about folds and sums that several of these need, and induction over numbers and finite sets |

Operators whose comment begins "Mutant" are deliberately wrong versions of the operator after them;
no specification uses them. Put in the place of the right one they must break the property named for
them in `PROJECT.json`, which shows that the property can see such a fault.

### SessionFamilies

A token is a model value that stands for its row (the code selects a row by the token's hash, and
`sessionId` and hash identify each other). `disk` is the committed table, `draft` and `lock` are
the uncommitted row versions and their holders. `req[r]` is one call of `AuthService`: its program
counter and the local variables that survive an `await`. Each statement the code sends is one
action, because between two of them any other request may run; `Date.now()` is read in the action
that follows the `await` it follows in the code.

A multi-row `UPDATE` is not atomic. It takes the rows that match when it starts (`todo`), waits for
each until it is free, tests its WHERE clause again on the committed version and locks it
(`SweepRow`). This is READ COMMITTED as PostgreSQL documents it, and the reason the passes of
`revokeSessionFamily` and `revokeAllSessions` repeat. A single-row guarded update is the same with
one row: wait, test, write. Requests that wait for one another are the deadlock detector's:
`DeadlockVictim` rolls one back. `Fail` is a lost connection, Prisma's transaction timeout or the
death of the process at any step; losing the answer to a rotation is `Fail` at `answer`, since the
row is committed and its raw token is gone.

| code | actions |
|---|---|
| `issueSession` | `SignIn` |
| `resolveSession`, `markFirstUse` | `ResolveCurrent`, `MarkFirstUse` |
| `resolveSupersededSession`, `reportSessionReuse` | `ResolveSuperseded`, `CheckSuccessors` |
| `recoverUndeliveredRotation`, `resolveContestedRecovery` | `RecoverClaim`, `RecoverSnapshot`, `SweepRow`, `RecoverCheck`, `RecoverUndo`, `RecoverReuse`, `Contested` |
| `rotateSession` | `CheckAge`, `ClaimRotation`, `ReadLostClaim`, `Mint`, `Deliver` |
| `logout`, `revokeSessionFamily` | `SignOut`, `StartRevokePass`, `SweepRow`, `EndRevokePass` |
| `revokeAllSessions` | `FindKept`, `ReadFamilies`, `StartAllPass`, `SweepRow`, `EndAllPass` |
| pruner, account deletion, clock | `Prune`, `DeleteUser`, `Tick` |

Abstractions: one account (families of other accounts are untouched by every WHERE clause);
`firstUsedAt` and `revokedAt` are Booleans because the code only compares them with null; token
values are drawn once (`minted`); `SignIn` is not guarded by the account's deletion, because login
looks the account up several awaits earlier. One backend instance with a clock that does not run
backwards is assumed, as `env.schema.ts` assumes one instance. `TokenLeft` keeps a rotation from
starting when the instance has no token left to mint.

`LastingSpec` is the service while no sign-out and no alarm dies between its passes, be it as the deadlock
detector's victim; any other request may fail at any step. What revokers promise is stated under it,
because their passes are separate transactions that nothing repeats once their caller is gone.

### AuthAccounts

`req[r]` is one call of `POST /auth/register` or `POST /auth/login`; its steps are the statements of
`register`, `login`, `rehashPasswordIfStale`, `issueSessionForAccount` and `issueSession`, and the
controller's second look at the account. Any of them may fail, with or without having taken effect
(`Fail`), and any may run while another request, a password change, a deletion or a deployment
(`Deploy`: another `PASSWORD_HASH_VERSION` and argon2 cost) goes on; a request keeps the settings of
the process it came to. A hash is its password and the cost it was derived with. Salts are left out:
two hashes of one password at one cost are equal here, which lets a guarded re-hash match where the
code's would not and is harmless, as both write that password again. Ids are handed out in a fixed
order (`FreshId`). Password change and account deletion are not in this repository's endpoints; they
are external actions because the guards of the re-hash and of every look-up expect them.

Seen through `Abstract`, the book is the set of live accounts with their passwords, and a request's
answer is decided in one step: at the read of the row for a login whose password matches it, at the
insert for a registration. `KeepsBook` says so.

### BackendSessions and BrowserSessions

`BackendSessions` is the session service one call step at a time - the browser's troubles are in
what reaches it when, not in its statements. It keeps `SignInLineage`, as `SessionFamilies` does.
`TokenLeft` is the bound on the tokens of an instance; the run's is never met by a rotation.

A slot is a tab: it meets the frontend with the jar as it is (`Go`, or `Follow` after a redirect),
goes through its calls, and its answer's cookies are applied in one step (`Receive`). What a request
spends and what its answer sets are fields of its record, so a request that waited carries old
values, as the code's locals do. `weather` is calm, where every call is answered and every answer
arrives, or flaky, where the frontend may give up on a rotation call that may run all the same
(`RotationGivenUp`, `LateRotation`), a revoke may fail, and an answer may be lost between the frontend
and the browser (`Lose`); `strayed` records that one of the lost answers carried the successor of a
rotation, which a render had spent. A sign-in form may be sent by a browser that has a session by then,
because the proxy turns only GETs away from the guest pages; the sign-in it replaces stays live at the
backend, as `login` ends none. A request, with its calls, takes at most `Life`.

| code | actions |
|---|---|
| `proxy.ts` before the call; guest pages | `Go`, `Follow` (`Member`, `Guest`) |
| `session-rotation.ts`, and the proxy's four outcomes | `Resolving`, `RotationAnswered` (`RotatedTo`, `NotDue`, `LeftAlone`), `RotationGivenUp` (`Unavailable`), `LateRotation`, `LateLost` |
| idle roll, `binding-cookies.ts`, `binding.ts` | `Rolled`, `Binding`, `Bound` |
| member layout, actions | `Render`, `RevokeOthers` |
| `/logout`; login and registration actions | `LogOut`, `LogIn` |

Left out: the expiry of sign-ins, the cross-site guard and the logout token, and the difference
between the strict and the lax copy of the binding, which are written and cleared together.

### ClientLogIngest

Everything before the body is read is one step and everything after it another; tickets of the
requests in between are `reading`, numbered (`nr`) in the order of arrival. Buckets have the code's
arrays, head index, `retired`, `charged` and running sum; `Compact` is the compaction. The chain of
forwarded addresses is a sequence of networks with what a caller may write ahead of it, so that the
choice of the key (`Seen`: the entries that count from the right) is part of the model.
`KeepsLedger` shows that all of it amounts to two exact sliding windows (`IngestLedger`).

### SinkDelivery, SeqSink, OtlpSink

Records are numbered in the order they are emitted. `loop` is the await the single dispatch loop
stands at, `hand` the batch it holds, `flush` where a drain waits, `salvage` what the drain took over.
Emits come between any two steps. The Seq sink salvages the batch in flight at a drain timeout and
has no circuit; the OTLP sink initializes, opens its circuit after failures and leaves the batch in
flight to its request. A request that `flush` aborts may have been answered by then (`Aborted`): its
records are at the collector and in the fallback, and `Twice` names them. `LogDelivery` gives each record
one final fate and says in what order they leave: of those that wait the oldest is dropped, and only
from a full queue; the oldest leave for the collector, one batch at a time, and what the collector gets
is newer than what it has; one request at most is given up while it is out, and only its records may be
in two places.
`flushIntervalMs` is positive, as the configuration requires.

### SessionPrune and BoundedThrottler

`StartSweep` is the boot sweep or a timer tick, `FoundExpired` the answer to `findMany` (any
`batchSize` of the expired rows) that issues the `deleteMany`, `Deleted` its answer and the loop
test. `SignIn` also inserts rows that inherit an expiry, as rotations do, even one that has passed. A
query that fails may have taken effect (`QueryFails`), and so may those under way when the process is
killed, whose sweeps report nothing (`Restart`); such rows go unreported.

`increment` has four shapes: the key is known, there is room, the store is full and a sweep is due,
it is full and only the bounded scan is allowed. The Map's keys are `keys`, and its insertion order
is `older`: for each key those inserted before it. `served` is a history variable: the admitted calls
of the last window.

### Settings

A raw value is what it is (absent, blank, a word, digits, a number in other notation, a secret of so
many characters) and its figure. Each parser is what it does to such a value, which is where the two
schemas differ: the backend coerces `1e3` and refuses blanks, the frontend's whole numbers take
digits only. `BackendAccepts` and `FrontendAccepts` are the rules that relate settings, split by
subject (`HashingStrong`, `IntervalsOrdered`, `LimitsCount`, `OriginExplicit`, `SecretsReal`,
`TelemetryHasEndpoints`); `BackendEnv` and `FrontendEnv` what a started process holds. A file is
edited only while both applications are down, one variable at a time. Variables that nothing else
depends on (ports, timeouts, those of the sinks, names, levels, URLs) are left out.

### AppForm, FileSelection, TypeAhead

`AppForm`: the count of failed submissions is written by the wrapped `onSubmit` and by an effect that
runs after renders; `rendered` says whether it has run since the last change. TanStack Form's pipeline
is external, modelled from how the code uses it. A form is submitted only when it is at rest, because
`SubmitButton` is disabled meanwhile; validators are synchronous, as all of the repository's are;
nothing resets a form, and nobody uses `setServerError` or `applyFormError`.

`FileSelection`: `addFiles` is one action (`Problem`, `Validate`, the cut at `maxFiles`, the
announcement), with `removeFile`, `clearFiles`, `clearErrors` and an owner that hands down another
selection (`Outside`). Renders come between events.

`TypeAhead`: any number of lookups may be under way and answer in any order, before or after newer
ones, a reset or the unmount. A lookup may ignore its abort signal.

## Runs

| run | instance | what it shows |
|---|---|---|
| `SessionRotation` | 2 requests, each any of rotate, resolve, logout; 3 tokens; failures; rotate after 2, grace 1, lifetime 5, clock to 4 | no interleaving forks, revives or prolongs a sign-in, and the service implements `SignInLineage` |
| `SessionSignOut` | logout or revoke-all, logout, and a rotation, under `LastingSpec`; lifetime 3, clock to 3, so rows expire and are pruned; failures of all but a revoker between its passes | when a sign-out has returned, the family is ended |
| `SessionEverywhere` | two sign-ins, revoke-all against revoke-all or rotate, failures | what was counted is ended |
| `SessionLiveness` | a rotation against a rotation or a logout, fairness | every revoker returns |
| `DocRefused` | as `SessionRotation` | a comment the code does not keep, below |
| `DocNoneEscapes` | as `SessionSignOut`, without failures | another one, below |
| `Accounts` | 2 requests, 2 rows, one address in two spellings, 3 passwords of which one is too short, 3 releases of which one differs from the first in cost and one in scheme, one deployment, one failure, and changes and deletions at any point | the accounts' invariants, that a row in use ends on the newest settings, and that the endpoints implement `AccountBook` |
| `BrowserSessions` | 2 tabs, 5 tokens, 2 logins; rotate after 3, grace 2, retry after 2, idle timeout 4, one unit for a request; from a token due for rotation to 6 in calm weather, with actions, sign-outs and sign-ins, and to 7 in flaky, with navigations and one lost answer | the browser's safety and, under fairness, that a stale jar heals |
| `ClientLogs` | 2 client networks, the shared window, room for one client; windows of 2, limits 2 and 3 for requests and records; 4 arrivals of which 2 may be reading; clock to 4 | ceilings, tickets, Retry-After, and that the ledger is kept |
| `LogSinks` | either sink; queue and batch of 2, one retry, thresholds of 2, 6 records | nothing lost, nothing in two places but one aborted request's records, the oldest evicted first, order, no idle flush waits, and under fairness that the loop settles |
| `ThrottleStore` | 3 keys for 2 places, one key shared by two names, scan of 1, clock to 5 | limits, no live eviction, brief false saturation |
| `Parts` | each on its own: 4 submissions; 6 files of which one is a copy, one of a bad type and one too large, `maxFiles` 2, batches and selections of up to 2; 4 lookups; 2 edits of a shipped environment file, figures on both sides of each bound; 2 overlapping sweeps of the pruner, 3 rows, batches of 1 or 2, two batches a sweep, one failure or restart, a shutdown | `CountedOnce`, `AddsWhatItAnnounces`, `ShowsLatest`, `UpMeansFit`; that a clean sweep is clean, that reports add up, and under fairness that the backlog drains |

Bounds. Three tokens allow two rotations in a row, which is the shortest history in which a stale
recovery, a second successor and a reused token can meet; two requests are the parties of every race the
comments describe, and three are explored where two revokers race a rotation. The intervals keep the
order the configuration enforces (0 < grace < rotate-after < ttl) with the clock long enough to pass each
of them. In `BrowserSessions` the clock passes a rotation, the grace after it and a retry, so that a
token lost to a rotation given up on is either recovered or found dead; five tokens are two sign-ins and
their rotations. Two accounts suffice for an address to be deleted and taken again under a request; two
releases for one old and one new hash. `MaxKeys = 1` in `ClientLogs` makes the second client meet the
ceiling; `ScanLimit = 1` below `MaxKeys = 2` makes false saturation reachable. A queue of two with
batches of two lets a retry, an eviction and a waiting record meet. With `maxFiles` 2 a selection may
hold a file and its copy or two in either order, and a batch may be cut in part, refused whole, or meet a
selection that is full. Batches of 1 make a sweep of the pruner go on to a second one, those of 2 make it
stop at a short one; two rows expired are more than a batch then, three are more than a sweep of the
smaller batches may take. A single lost answer is enough for each of its kinds: one whose token was
rotated, which raises the alarm in the run, and the others, which do not. The two releases a deployment
goes to differ from the first in one setting each, so that each of the checks of `rehashPasswordIfStale`
is the only one that sees it.

Deadlock is checked in every session run but the liveness one, and in `ThrottleStore` and `Accounts`.
In `SessionRotation` and `SessionEverywhere` its absence says that no set of requests can wait on row
locks without the detector finding it. It is not checked where the system may stop or the bounds run out: in
`SessionLiveness` a rotation may wait for ever once the instance has no tokens left, after a shutdown
the pruner and a sink owe nothing, and the clock, arrivals, submissions and edits of
`BrowserSessions`, `ClientLogs` and `Parts` end.

Fairness, each time of what the code or its platform schedules and never of clients, clocks or faults:

- `SessionFamilies`: the event loop and the database answer (weak fairness of each request's next
  step), and PostgreSQL's lock queue does not starve a waiting `UPDATE` (strong fairness of `SweepRow`);
- the pruner in `MCParts`: the timer ticks and queries are answered, if only with an error;
- `AuthAccounts`: each request's next statement is answered, if only with an error (that an owner keeps
  signing in is the premise of `UsedAccountsHeal`);
- `SinkDelivery`: a request to the collector ends by its own timeout, sleeps and timers fire;
- `BrowserSessions`: calls and answers of a request come, by its time limit at the latest; and the
  visitor of `StaleJarHeals` keeps navigating (strong fairness of `Go` with a navigation).

## Where comments and code part

Two runs state a comment, and TLC must find it violated:

- `DocRefused`: a recovery that commits between the two lookups of `resolveSession` makes a rotation
  refuse a token that is by then the family's live one.
- `DocNoneEscapes`: an empty pass of `revokeSessionFamily` does not prove that no token escaped
  (`auth.service.ts:1135`). Two revokers queue behind a rotation, the second finds the retired row
  revoked by the first, touches nothing and returns; the successor is live until the first revoker's
  next pass. That somebody's next pass is sure to come is what `RevokeEndsFamily` says and what holds.

The following were met while modelling and are no runs:

- *`auth.service.ts`.* Should the first of those two revokers die before that pass, or be the deadlock
  detector's victim, nobody ends the successor although the second has answered; hence `LastingSpec`. A
  recovery that ends in `reuse` leaves a live family until the alarm's revoke, possibly without a current
  token, so that the listing leaves it out; `OneCurrent`, at most one, holds. Should the revoke fail, the
  family stays live, and no property says otherwise. The number `revokeAllSessions` returns is
  read by another statement than the update. A successor already resolved but not yet stamped may be
  revoked by a recovery.
- *`session-prune.service.ts:136`.* A sweep whose `findMany` is under way at shutdown still issues its
  `deleteMany`.
- *`bounded-throttler.storage.ts`.* The hit that passes a limit is stored, so an entry holds `limit + 1`
  times where the comment says `limit`.
- *`client-log-rate-limit.ts:1144`.* The comment will not have slow requests write for free; the branch
  below it lets them when nothing of the window is live any more. Such a client's records are bounded
  by its requests and the body limit alone.
- *`seq-sink.ts:72`.* The set of batches routed to the fallback is kept "to avoid delivering the same
  records twice", which it does where the sink itself would retry or write them again. The request that
  the drain aborts may have been answered already, and then the collector and the fallback both have
  its batch. `Accounted` and `LogDelivery` allow this for that one request and no other.
- *`session-prune.service.ts`.* The number a sweep logs after a failure leaves out a `deleteMany` that
  took effect and lost its answer.
- *`lib/auth/constants.ts:94`.* A retry within the grace window does not quite keep the chain unbroken:
  a navigation answered `superseded` at the end of the window renders after it, is refused, and the
  visitor signed out before a later one could recover the token. This is why `ServedWhileSignedIn` is
  about calm weather. `RetryAfter <= Grace` itself is enforced by neither schema, as they belong to two
  processes; the frontend's default equals the backend's.
- *`useFileUpload.ts`.* Beyond `maxFiles` (a controlled selection) the overflow exceeds the batch and
  `splice` starts from the end, so files are announced that were not added (line 65 says otherwise). In
  single mode the first valid file is kept, where line 267 says the latest. Two `addFiles` in one
  handler overwrite each other, since both read the selection of the last render.
- *`createAppForm.tsx`.* `form.reset()` leaves `lastCountedAttemptRef`, so later failures go uncounted.
- *`useDebouncedAsync.ts`, `DropDown.tsx`.* Clearing the query does not cancel a search that is pending; a
  disabled drop-down's chips and Backspace still change the selection; "Select all" drops selections
  that are not among the options shown.
- *`config/env.schema.ts` of the backend.* `RATE_LIMITING_ENABLED=0` is accepted as off, but the
  guard compares the raw variable with `false` and goes on limiting. This errs on the safe side.

## Proofs

**Session service.** `TypeCorrect` (`Spec => []TypeOK`) is proved action by action.

`LineageCorrect` (`Spec => []LineageInv`). What matters about a family is `Lineage`: of any two unrevoked
rows, one was retired no later than the other was issued. Two rows that are both unretired contradict
it at once, which gives `OneCurrentToken`. `Lineage` is not inductive by itself, because a step is
justified by what an earlier statement of the same request read or locked. `LineageInv` adds

- `RowsOK`: no row was issued in the future, and tokens not yet minted have no row;
- `LocksOK`: the uncommitted version of a locked row differs from the committed one only by what its
  holder writes - a rotation sets `rotatedAt` of the current row it presented, a recovery clears the
  very `rotatedAt` it read, everybody else only revokes;
- `RequestsOK`: the copy of the row a request carries has the family of the committed row, the
  instant of a rotation is not before the row was issued nor in the future, and a recovery about to
  commit holds every unrevoked row issued since the retirement it undoes.

A step of one request changes neither what the others know nor the rows they hold (`FrameHolds`),
so each action only has to account for its own record and locks. The two commits that move a
family on carry the argument. `RecoverUndoLineage`: whatever unrevoked row of the family the recovery does
not hold was issued before the retirement, so by `Lineage` it was retired before the restored row was
issued. `MintLineage`: the row being retired is locked and current, so every older row was retired
before it was issued; and a recovery of an older row that is about to commit would have to hold the
row the rotation holds.

`NeverRevived` (`Spec => EndedStaysEnded`): commits write no version that is unrevoked where the committed
row is revoked, and a rotation inserts a row only while it holds an unrevoked one of the same family.

`RotationRenewsNothing` (`Spec => []FamilyExpiresTogether`). Its invariant `ExpiryInv` adds `Dated` (a
missing row has no expiry) and `Copied` (the copy of its row that a request carries to the insert has the
row's expiry). Every step but the sign-in and the insert drops a row or leaves its family and expiry alone
(`KeepingStep`), a sign-in opens a family nobody has, and the insert copies from a row that it holds and
that is still there, which is what `LineageInv` says of it.

`ServiceKeepsPromise` (`Spec => KeepsPromise`) is the refinement of `SignInLineage`. Head, past and spent
tokens of a sign-in are read off the committed rows, so that only commits matter: the stamp of a first
use spends, an insert of a rotation advances (its claim is part of the same transaction), the commit
of a recovery goes back, revoking and pruning discard. `LineageInv` says what each of these needs: the
row a rotation retires is the head and was spent before, what a recovery takes back was never spent.
`RecoveryRevokesUnused` (`Spec => RecoverySparesUsed`) is the other half of the last of them, about the
rows a recovery holds when it goes on.

`RevokersEndFamilies` (`LastingSpec => RevokeEndsFamily`) and `EverywhereEndsCounted` (`LastingSpec =>
RevokeAllEndsCounted`). A pass knows only its own snapshot, so that a family is ended when somebody
returns cannot follow from what that one saw. The invariant `RevokeInv` says instead that a row which
escaped is always chased. Its parts:

- `AimsInv`: a sweep holds and has yet to visit only rows it was sent for, of families that began
  (`HolderOK`, `TodoOK`, `AimOK`), and a row is retired strictly after it was issued (`RetiredLater`, `AgedOK`);
- `Gaps`: while a sweep has hit nothing, an unrevoked row that it does not visit is younger than every
  unrevoked row of the family that it has yet to visit, which is therefore retired;
- `Chased`: as long as a family somebody is `InCharge` of has a usable row that escapes, some request
  `Minds` that row and has a pass `Pending` - it is about to start one, has hit, so that another follows,
  or has yet to visit a row it will hit. It is stated for every set `F` of sign-outs everywhere whose
  commit is foreseen: theirs is one transaction, so until it commits their rows are neither ended nor free.

A revoker that returns was in charge, and has no pass pending itself; so either nothing usable escaped or
another one has. The steps that could lose the chaser are a commit of a sweep (`ChaseCommit`,
`ChaseForeseen`: the rows it releases are revoked, and had it been the last hope of a row it would have
hit), the insert of a rotation (`ChaseMint`: whoever has yet to visit the row it retires will find it
unrevoked) and the commit of a recovery, which revokes rows a sweep counted on (`Replaced`: the restored row
stands for them, being older, and by `Gaps` is among those to be visited). `RevokersChase` states the
invariant.

**Browser.** The invariant `BrowserInv` relates tokens, requests and the clock. About the table, whoever
calls (`Chain`): the tokens of a sign-in are minted more than a grace window apart (`Spaced`), of two
live ones the older was retired before the younger was issued (`Ordered`), a retired token was replaced
at that instant and nothing was minted later unless that successor was spent (`Followed`), and a current
token with younger ones was restored after their window (`Aged`). About the browser: a token is `Known`
if it was spent or somebody has it or is on the way to it - in calm weather, all are. A known token
younger than the jar's is on its way to the jar (`JarKnows`), unless an answer with a rotated token
`strayed`: this is the one condition on what is said here of the browser, and only flaky weather knows
it. Hence one younger than what a request presents was issued at most one `Life` before the request began
(`RequestsKnow`): a request lags behind the jar by what another request may be ahead. As both end within
`Life` and twice that is within the grace (`IntervalAssumption`), a token somebody presents is either in
force, within its window, or one whose successor was not spent (`WithinGrace`). An answer lost that
carried no rotated token is no loss to `JarKnows`: what is known and younger than the jar's is a
successor, so another answer delivers it. `NoAlarmFromOwnTabs`, `ServedUntilSignedOut` and
`JarNeverMovesBack` follow; the last also from `Spaced`, since a token on its way to the jar is younger
than a grace window and so the youngest. `BackendKeepsLineage` is the refinement of `SignInLineage` from
`Chain` alone.

`IdleFloorKept` (`Spec => IdleFloor`) adds `FloorInv`: a binding lasts the idle timeout from some instant of
the request that brings it (`PairedAt`); a request that brings none met a jar with enough left, or the
jar was written since, or an answer that will write it is on its way (`Kept`). The step that matters is the
`superseded` answer: by `JarKnows` the successor, with its binding, is on the way.

**Accounts.** The inductive invariant `AccountsInv` is `TypeOK`, `OneLiveAccount`, `OpensWithOwnPassword`
and two facts they need: `VerifiedRow`, a request past the check of its password carries the row it
verified and goes on with that account under its own address, and `PlainAddresses`, what is stored or
asked for is normalized, so that the unique index compares what `OneLiveAccount` speaks of.
`OneAccountPerAddress` and `OwnPasswordKept` follow; the second rests on the guard of the re-hash, which
compares the stored hash with the verified one. `DeletedRowsStay` is an action property from the same
invariant.

`BookKept` (`Spec => KeepsBook`) is the refinement of `AccountBook`: with `HandlersFit`, which says that a
request's place in its handler fits what it was asked, every step is an open, a change, a deletion, an
arrival or a decision of the book, or changes nothing the book sees. `OKIsSignedIn` (`Spec =>
OKMeansSignedIn`) needs besides that a request about to be answered has its session (`SessionIssued`).

**Client-log ingest.** An entry is named by its sequence, the number `commitHit` gave it, because
retirement and compaction move it in the arrays. What these do to a bucket is a matter of one bucket:
`Shaped` (the arrays keep step and ascend), `Balanced` (the running sum is the sum of the live costs) and
`Bounded` (no charge lies before the bound of the scan) are `Kept` by every operation, with `Lean` (dead
entries are fewer than live ones) a bucket is `Sound`; `Slid` relates a bucket to itself without entries
that left the window. The invariant `IngestInv` relates buckets to requests: a ticket whose request is
recent is remembered (`TicketsOK`) and finds in its client's and in the shared bucket the entry it was
issued for, which no other ticket was ever issued (`EntriesOK`: a bucket that was swept and opened again
has a later `born`, since a bucket with an entry of this instant is not swept); what was written was paid
for once, by that entry (`WrittenOK`), within the allowances (`WithinOK`). It is `IngestInvariant`; from
it follow `CeilingsSafe`, `TicketsSafe` and `RetryAfterHonest`, the last with the fact that the instant
promised is that of the entry whose departure makes room. `LedgerKept` (`Spec => KeepsLedger`) is the
refinement of `IngestLedger`: the ledger of a key is its live entries, numbered from their sequences, and
arrival, charge, tick and sweep are steps of the ledger or leave it alone.

**Session pruning.** `SweepsEndClean`: of the rows that were expired when a sweep began, those still
there are within its cutoff, and a batch shorter than the limit has all of them (`DueFound`).
`RowsReportedOnce` (`Spec => []ReportsAddUp`): what the sweeps counted, those under way included, is the
number of rows that are gone while nothing went wrong and never more (`SumsFit`), which needs the sum over
the sweeps taken apart at the one that moves, and that a batch takes from the table only rows no other
batch has taken.

**Log sinks.** A record is in one of six places: the queue, the loop's hand, what a drain salvaged, the
collector, the fallback, or evicted. `SinkInv` says that each emitted record is in exactly one, except
that those of one aborted request may be at the collector too (`Twice`), in what order the places are
(what was acknowledged or written before what is in hand before what waits), and which places are empty
where the loop and the drain stand (`Control`, `Breaker`). A step is a few moves between places, each a
lemma about sequences without a variable of the sinks; the two dispatch loops are put together from the
same lemmas. `EachRecordInOnePlace`, `CollectedInOrder`, `FlushIsSettled` and the refinement
`SinksKeepDelivery` follow.

**Rate-limit store.** `ThrottleInv` is `Types`, `Placed` (the keys are in one order, within the ceiling,
and nothing is kept of the others) and `RecordsOK`, which relates a key's record to its history `served`:
while a name's own key is not blocked, what it admitted is what its record still counts; while it is, all
it admitted ages out before the block lapses. The scan passes a prefix of the hits, which is shown by its
length (`Cut`). `StoreStaysSound` is `StoreOK`, which
`WindowBound` repeats. `LimitsHold` is for names with a key of their own whose block lasts a window, as the
source's do; `NothingLiveDropped` and `FalseSaturationPasses` are action properties from the same
invariant.

**Configuration.** `BootInv`: what an application holds is what it made of the file when it started,
the file having been accepted and, as it is edited only while both are down, unchanged since.
`SettingsFit` then goes through the rules.

**Interface.** `LatestShown` (`TypeAhead`): a lookup that is wanted is the latest, and none but the wanted
one is at work under its number (`Numbered`); a timer is armed only for it, before it starts (`Armed`);
and the hook holds its controller, so that it can tell it to stop when the next one supersedes it
(`Abortable`).

`EachFailureOnce` (`AppForm`): at most one attempt is not yet accounted for (`OneOpen`); if the
pipeline is at rest, the effect is about to see that attempt and the store shows what it will make of
it (`Unseen`), else the count is right (`Balanced`). `FlagsFit` and `OutcomeFits` tie the flags and the
store to the place of the pipeline, and `AttemptsCounted` the counts to the attempts made.

`AnnouncementsExact` (`FileSelection`): `addFiles` folds a validation over the batch. By induction
over the prefixes of the batch the fold's verdict is `Fair`: with the selection there before, what it
accepted has no file twice and none of a refused type or size, and every file so far is accepted or
named by an error. `CutAgrees` says that the cut at `maxFiles` then takes the same files off the
announcement and off the selection, as long as the selection was within `maxFiles`.

Assumptions used: `NamesAssumption` and `EnvAssumption` of `SessionFamilies` (the null values are not
tokens or requests; the order of the intervals); `IntervalAssumption` of `BrowserSessions` (their order
again, and that a request takes at most half the grace), its `BoundAssumption`, and for `IdleFloorKept`
`IdleAssumption` (two requests fit into the idle timeout, eight hours by default); `AccountsAssumption`;
`SizesFit` and `ThresholdsFit` of the sinks, `BucketsAssumption` and `StoreAssumption` of the store
(sizes, limits and windows are positive, as the schemas require); `LimitsAssumption` and `ChainAssumption`
of the ingest (the same, and the clock, which starts after one window, has room for it; the null addresses
are not networks); `PruneAssumption` (batches and lifetimes are positive, the sweeps of a process are
finitely many); `BoundsFit` of `MCParts`. The proofs hold for any number of tokens, requests, tabs,
accounts, records, clients, keys, rows, files, lookups and submissions.

Only model-checked is liveness, with everything about ENABLED, which this prover does not handle:
`RevokersReturn`, `UsedAccountsHeal`, `StaleJarHeals`, `Settles`, `ExpiredRowsGo`. That the two comments
above are violated is TLC's to show as well. Induction takes the form of `NatSet` in `FoldFacts`: a set
with zero and with the successor of each of its numbers has all numbers, since the library's induction
theorems take an operator as their parameter and the provers cannot instantiate it.

`TypeOK` of `SessionFamilies` and of `AuthAccounts` is proved and not repeated in a run.

## Not modelled, and limits of what is

- *Cookies and HTTP boundary*: attributes of cookies, headers, validation of bodies. `BrowserSessions`
  has the cookies' values and lifetimes; the rest is wording. The keys the throttler guards choose are
  pure functions of a request.
- *`DropDown`, `DataTable`, the primitives, the theme*: one user's clicks on the state of one component;
  no step depends on another actor's. *Generated clients, read-only endpoints, scripts*: no state.
- Most of the lines of this repository are rendering, tests and tooling of that kind, so the share of
  lines the map covers stays small although the stateful parts are modelled.
- `shutdownActiveLogSink` is called by no application, only by tests, so what a sink promises at
  shutdown is so far promised to nobody. A record emitted between the final drain and the end of the
  shutdown stays in the queue.
- A rotation call that outlives twice the grace raises a false alarm; the model's `Life` keeps calls
  shorter. A binding-only answer overtaken by a rotation's, or by another tab's sign-in, may leave a jar
  that `StaleJarHeals` ends by a sign-out. `ServedWhileSignedIn` and `IdleFloor` are stated for calm weather
  only: when an answer or a call is lost a visitor may be signed out. The run explores actions, sign-outs
  and sign-ins in calm weather only; the theorems have no such restriction.
- A registration may be answered OK for an account that is deleted after the controller's second look.
- In `ClientLogIngest` a request's size is known once its body is read, parsing is left out, and the
  report of suppressed lines too. In the sinks payload formats and warnings are left out.

## What is left

- The liveness properties have no proof.
- `RevokeAllEndsCounted` is checked by TLC under `Spec` with two requests and proved under `LastingSpec`
  for any number; with more requests and a revoker that dies it does not hold, for the reason above.
- Three hazards of `PROJECT.json` have no property: a request that outlasts the ingest's window, a file
  selection that is already beyond `maxFiles`, and an alarm whose revoke fails. In all three the code does
  what its comments disclaim or deny, and the sections above say what.
- Components with state of their own that nothing else depends on (`DropDown`, `DataTable`, tooltips) would each
  be a model of one user's clicks.
