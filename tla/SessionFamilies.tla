-------------------------- MODULE SessionFamilies --------------------------
(***************************************************************************)
(* The session rows of apps/backend/src/auth/auth.service.ts.  A sign-in   *)
(* is a family of rows, one per bearer token it has held; the root token   *)
(* names the family.  Rotation retires one row and inserts the next, a     *)
(* sign-out revokes every row, and a rotation whose answer was lost can be *)
(* undone.                                                                 *)
(*                                                                         *)
(* Requests run concurrently against PostgreSQL at READ COMMITTED: every   *)
(* statement reads the rows committed when it starts, an UPDATE locks its  *)
(* rows one by one, waits for a row another transaction holds, and tests   *)
(* its WHERE clause again on what that transaction left.  disk holds the   *)
(* committed rows, draft the new version of a locked row, lock its holder. *)
(***************************************************************************)
EXTENDS Integers, FiniteSets

CONSTANTS Token,       \* raw bearer tokens, each with the row its hash selects
          Roots,       \* bound: the tokens a sign-in may draw
          NoToken,
          Request,     \* concurrent calls of AuthService
          NoRequest,
          Serves,      \* the endpoint kinds each request slot may be
          RotateAfter, \* AUTH_SESSION_ROTATE_AFTER_SECONDS, in ticks
          Grace,       \* AUTH_SESSION_ROTATION_GRACE_SECONDS
          Ttl,         \* AUTH_SESSION_TTL_SECONDS
          MaxTime,     \* bound: the last clock value explored
          MayFail      \* bound: whether requests may fail half way in this instance

Kinds == {"rotate", "get", "logout", "revokeAll"}

(***************************************************************************)
(* env.schema.ts refuses to boot unless 0 < grace < rotateAfter < ttl.     *)
(***************************************************************************)
ASSUME NamesAssumption ==
  /\ NoToken \notin Token /\ NoRequest \notin Request
  /\ Roots \subseteq Token
  /\ Serves \in [Request -> SUBSET Kinds]
ASSUME EnvAssumption ==
  /\ Grace \in Nat \ {0} /\ RotateAfter \in Nat /\ Ttl \in Nat /\ MaxTime \in Nat
  /\ Grace < RotateAfter /\ RotateAfter < Ttl /\ MayFail \in BOOLEAN

VARIABLES disk,     \* committed row behind each token; NoRow when there is none
          draft,    \* uncommitted version of each locked row
          lock,     \* transaction holding each row
          minted,   \* tokens ever generated: random values, never drawn twice
          known,    \* tokens whose raw value reached a client
          now,      \* the backend's clock
          deleted,  \* the account's deletedAt is set
          req       \* progress and local variables of each request

env == <<minted, known, now, deleted>>
db == <<disk, draft, lock>>
vars == <<disk, draft, lock, minted, known, now, deleted, req>>

Never == -1  \* a null timestamp
Instant == Nat \cup {Never}

(***************************************************************************)
(* Rows.  firstUsedAt and revokedAt are only ever compared with null here. *)
(***************************************************************************)
Row == [family : Token \cup {NoToken}, issuedAt : Instant, expiresAt : Instant,
        rotatedAt : Instant, used : BOOLEAN, revoked : BOOLEAN]

NoRow == [family |-> NoToken, issuedAt |-> Never, expiresAt |-> Never,
          rotatedAt |-> Never, used |-> FALSE, revoked |-> FALSE]

NewRow(family, issuedAt, expiresAt) ==
  [family |-> family, issuedAt |-> issuedAt, expiresAt |-> expiresAt,
   rotatedAt |-> Never, used |-> FALSE, revoked |-> FALSE]

Exists(row) == row.family # NoToken
Unrevoked(row) == Exists(row) /\ ~row.revoked
Current(row) == Unrevoked(row) /\ row.rotatedAt = Never
Retired(row) == Unrevoked(row) /\ row.rotatedAt # Never
Live(row) == Unrevoked(row) /\ row.expiresAt > now /\ ~deleted
InGrace(row) == now - row.rotatedAt <= Grace

Ended == {"idle", "refused"}
Pc == Ended \cup
      {"resolve", "stamp", "superseded", "successors", "recoverClaim", "recoverSnapshot",
       "recoverSweep", "recoverUndo", "recoverReuse", "contested", "due", "claim",
       "claimLost", "mint", "answer", "signOut", "revoke", "revokeSweep", "keep",
       "families", "allPass", "allSweep"}

NewRequest(pc, kind, tok) ==
  [pc |-> pc, kind |-> kind, tok |-> tok, row |-> NoRow, at |-> Never, todo |-> {},
   hit |-> FALSE, fams |-> {}]
IdleRequest == NewRequest("idle", "get", NoToken)

Put(r, q) == req' = [req EXCEPT ![r] = q]
Goto(r, pc) == Put(r, [req[r] EXCEPT !.pc = pc, !.todo = {}, !.hit = FALSE])
Finish(r) == Put(r, IdleRequest)
Refuse(r) == Put(r, NewRequest("refused", "get", NoToken))

(***************************************************************************)
(* The database: what a transaction sees, and how it ends.                 *)
(***************************************************************************)
Free(t) == lock[t] = NoRequest
View(r, t) == IF lock[t] = r THEN draft[t] ELSE disk[t]
Release(r) == /\ draft' = [t \in Token |-> IF lock[t] = r THEN NoRow ELSE draft[t]]
              /\ lock' = [t \in Token |-> IF lock[t] = r THEN NoRequest ELSE lock[t]]
Commit(r) == Release(r) /\ disk' = [t \in Token |-> View(r, t)]
Write(r, t, row) == /\ lock' = [lock EXCEPT ![t] = r]
                    /\ draft' = [draft EXCEPT ![t] = row]
                    /\ UNCHANGED disk

Init ==
  /\ disk = [t \in Token |-> NoRow]
  /\ draft = [t \in Token |-> NoRow]
  /\ lock = [t \in Token |-> NoRequest]
  /\ minted = {} /\ known = {}
  /\ now = 0
  /\ deleted = FALSE
  /\ req = [r \in Request |-> IdleRequest]

----------------------------------------------------------------------------
(***************************************************************************)
(* The surroundings: sign-in, the clock, account deletion and the pruner.  *)
(***************************************************************************)
\* issueSession: a fresh row that names its own family.
SignIn(t) ==
  /\ t \in Roots \ minted
  /\ disk' = [disk EXCEPT ![t] = NewRow(t, now, now + Ttl)]
  /\ minted' = minted \cup {t} /\ known' = known \cup {t}
  /\ UNCHANGED <<draft, lock, now, deleted, req>>

Tick ==
  /\ now < MaxTime /\ now' = now + 1
  /\ UNCHANGED <<disk, draft, lock, minted, known, deleted, req>>

DeleteUser ==
  /\ ~deleted /\ deleted' = TRUE
  /\ UNCHANGED <<disk, draft, lock, minted, known, now, req>>

\* The pruner's deleteMany reaches an expired row; a locked one makes it wait.
Prune(t) ==
  /\ Exists(disk[t]) /\ disk[t].expiresAt <= now /\ Free(t)
  /\ disk' = [disk EXCEPT ![t] = NoRow]
  /\ UNCHANGED <<draft, lock, minted, known, now, deleted, req>>

\* A request arrives with a token some client holds, current or long dead.
Call(r, kind, t) ==
  /\ req[r].pc \in Ended /\ kind \in Serves[r] /\ t \in known
  /\ Put(r, NewRequest(IF kind = "logout" THEN "signOut" ELSE "resolve", kind, t))
  /\ UNCHANGED <<db, env>>

\* The connection drops, Prisma's transaction times out or the process dies: the
\* transaction rolls back.
Fail(r) ==
  /\ MayFail /\ req[r].pc \notin Ended
  /\ Release(r) /\ Finish(r)
  /\ UNCHANGED <<disk, env>>

\* Requests each of whose remaining rows is held by another of them: PostgreSQL's
\* deadlock detector aborts one, which answers with an error.
Deadlocked(r) ==
  \E S \in SUBSET Request :
    r \in S /\ \A s \in S : req[s].todo # {} /\ \A t \in req[s].todo : lock[t] \in S

DeadlockVictim(r) ==
  /\ Deadlocked(r)
  /\ Release(r) /\ Finish(r)
  /\ UNCHANGED <<disk, env>>

----------------------------------------------------------------------------
(***************************************************************************)
(* resolveSession: two lookups, the first-use stamp between the first one  *)
(* and its caller.  AfterResolve is where each caller goes on.             *)
(***************************************************************************)
AfterResolve(kind) ==
  CASE kind = "rotate" -> "due" [] kind = "revokeAll" -> "keep" [] OTHER -> "idle"

Resolved(r, row) ==
  IF req[r].kind = "get" THEN Finish(r)
  ELSE Put(r, [req[r] EXCEPT !.pc = AfterResolve(req[r].kind), !.row = row])

ResolveCurrent(r) ==
  LET row == disk[req[r].tok] IN
  /\ req[r].pc = "resolve"
  /\ \/ /\ Current(row) /\ Live(row)
        /\ IF row.used THEN Resolved(r, row)
           ELSE Put(r, [req[r] EXCEPT !.pc = "stamp", !.row = row])
     \/ /\ ~(Current(row) /\ Live(row))
        /\ Goto(r, "superseded")
  /\ UNCHANGED <<db, env>>

\* markFirstUse: no liveness condition, so a row revoked meanwhile is stamped too.
MarkFirstUse(r) ==
  LET t == req[r].tok IN
  /\ req[r].pc = "stamp"
  /\ \/ /\ Exists(disk[t]) /\ ~disk[t].used /\ Free(t)
        /\ disk' = [disk EXCEPT ![t].used = TRUE]
     \/ /\ ~(Exists(disk[t]) /\ ~disk[t].used)
        /\ UNCHANGED disk
  /\ Resolved(r, req[r].row)
  /\ UNCHANGED <<draft, lock, env>>

\* Inside the grace window a retired token is served: rotate answers
\* "superseded", every other caller goes on with the session.
ResolveSuperseded(r) ==
  LET row == disk[req[r].tok] IN
  /\ req[r].pc = "superseded"
  /\ \/ /\ ~(Retired(row) /\ Live(row))
        /\ Refuse(r)
     \/ /\ Retired(row) /\ Live(row) /\ InGrace(row)
        /\ IF req[r].kind = "rotate" THEN Finish(r) ELSE Resolved(r, row)
     \/ /\ Retired(row) /\ Live(row) /\ ~InGrace(row)
        /\ Put(r, [req[r] EXCEPT !.pc = "successors", !.row = row, !.at = row.rotatedAt])
  /\ UNCHANGED <<db, env>>

\* Mutant: strictly after, which overlooks the row minted by the retirement itself.
LaterSuccessor(r, t, row) ==
  /\ Exists(row) /\ row.family = req[r].row.family
  /\ t # req[r].tok /\ row.issuedAt > req[r].at

\* A row minted at or after the presented token was retired.
Successor(r, t, row) ==
  /\ Exists(row) /\ row.family = req[r].row.family
  /\ t # req[r].tok /\ row.issuedAt >= req[r].at

\* A used successor means a second holder; the usedSuccessor query also counts
\* revoked rows.  Only rotate may undo a rotation nobody used.
CheckSuccessors(r) ==
  /\ req[r].pc = "successors"
  /\ \/ /\ \E t \in Token : Successor(r, t, disk[t]) /\ disk[t].used
        /\ Goto(r, "revoke")
     \/ /\ \A t \in Token : Successor(r, t, disk[t]) => ~disk[t].used
        /\ IF req[r].kind = "rotate" THEN Goto(r, "recoverClaim") ELSE Refuse(r)
  /\ UNCHANGED <<db, env>>

----------------------------------------------------------------------------
(***************************************************************************)
(* recoverUndeliveredRotation: one transaction that un-retires the         *)
(* presented row, revokes the successors nobody used, and looks again.     *)
(***************************************************************************)
\* The claim matches the exact rotatedAt that was read, so a stale reader of
\* an earlier rotation writes nothing.
RecoverClaim(r) ==
  LET t == req[r].tok
      match == Unrevoked(disk[t]) /\ disk[t].rotatedAt = req[r].at IN
  /\ req[r].pc = "recoverClaim"
  /\ \/ /\ match /\ Free(t)
        /\ Write(r, t, [disk[t] EXCEPT !.rotatedAt = Never])
        /\ Goto(r, "recoverSnapshot")
     \/ /\ ~match
        /\ Goto(r, "contested")
        /\ UNCHANGED db
  /\ UNCHANGED env

Undelivered(r, t, row) == Successor(r, t, row) /\ ~row.revoked

\* The rows the recovery's UPDATE will visit, as of its start.
RecoverSnapshot(r) ==
  /\ req[r].pc = "recoverSnapshot"
  /\ Put(r, [req[r] EXCEPT !.pc = "recoverSweep",
               !.todo = {t \in Token : Undelivered(r, t, disk[t]) /\ ~disk[t].used}])
  /\ UNCHANGED <<db, env>>

\* Mutant: the transaction does not look again after its UPDATE.
RecoverUnchecked(r) ==
  /\ req[r].pc = "recoverSweep" /\ req[r].todo = {}
  /\ Goto(r, "recoverUndo")
  /\ UNCHANGED <<db, env>>

\* A successor still unrevoked is in use: put the claim back and raise the alarm.
RecoverCheck(r) ==
  /\ req[r].pc = "recoverSweep" /\ req[r].todo = {}
  /\ IF \E t \in Token : Undelivered(r, t, View(r, t))
     THEN Goto(r, "recoverReuse") ELSE Goto(r, "recoverUndo")
  /\ UNCHANGED <<db, env>>

\* rotateSession goes on with the restored row.
RecoverUndo(r) ==
  /\ req[r].pc = "recoverUndo"
  /\ Commit(r)
  /\ Put(r, [req[r] EXCEPT !.pc = "due", !.row = draft[req[r].tok]])
  /\ UNCHANGED env

RecoverReuse(r) ==
  LET t == req[r].tok IN
  /\ req[r].pc = "recoverReuse"
  /\ Release(r)
  /\ disk' = [u \in Token |-> IF u = t THEN [draft[t] EXCEPT !.rotatedAt = req[r].at]
                             ELSE View(r, u)]
  /\ Goto(r, "revoke")
  /\ UNCHANGED env

\* resolveContestedRecovery: another request won; read what it left.
Contested(r) ==
  LET row == disk[req[r].tok] IN
  /\ req[r].pc = "contested"
  /\ \/ Current(row) /\ Live(row) /\ Resolved(r, row)
     \/ Retired(row) /\ Live(row) /\ InGrace(row) /\ Finish(r)
     \/ ~(Live(row) /\ (Current(row) \/ InGrace(row))) /\ Refuse(r)
  /\ UNCHANGED <<db, env>>

----------------------------------------------------------------------------
(***************************************************************************)
(* rotateSession after its token resolved as current.                      *)
(***************************************************************************)
\* The age check, and the instant the rotation will carry: read before the
\* transaction opens.
CheckAge(r) ==
  /\ req[r].pc = "due"
  /\ IF now - req[r].row.issuedAt < RotateAfter THEN Finish(r)
     ELSE Put(r, [req[r] EXCEPT !.pc = "claim", !.at = now])
  /\ UNCHANGED <<db, env>>

\* Bound: every rotation under way finds a token to mint.
TokenLeft ==
  Cardinality({s \in Request : req[s].pc = "mint"}) < Cardinality(Token \ (minted \cup Roots))

\* Mutant: the claim does not test rotatedAt.
ClaimRetired(r) ==
  LET t == req[r].tok IN
  /\ req[r].pc = "claim"
  /\ \/ /\ Unrevoked(disk[t]) /\ Free(t) /\ TokenLeft
        /\ Write(r, t, [disk[t] EXCEPT !.rotatedAt = req[r].at])
        /\ Goto(r, "mint")
     \/ /\ ~Unrevoked(disk[t])
        /\ Goto(r, "claimLost")
        /\ UNCHANGED db
  /\ UNCHANGED env

\* Mutant: the claim does not test revokedAt.
ClaimRevoked(r) ==
  LET t == req[r].tok
      match == Exists(disk[t]) /\ disk[t].rotatedAt = Never IN
  /\ req[r].pc = "claim"
  /\ \/ /\ match /\ Free(t) /\ TokenLeft
        /\ Write(r, t, [disk[t] EXCEPT !.rotatedAt = req[r].at])
        /\ Goto(r, "mint")
     \/ /\ ~match
        /\ Goto(r, "claimLost")
        /\ UNCHANGED db
  /\ UNCHANGED env

ClaimRotation(r) ==
  LET t == req[r].tok IN
  /\ req[r].pc = "claim"
  /\ \/ /\ Current(disk[t]) /\ Free(t) /\ TokenLeft
        /\ Write(r, t, [disk[t] EXCEPT !.rotatedAt = req[r].at])
        /\ Goto(r, "mint")
     \/ /\ ~Current(disk[t])
        /\ Goto(r, "claimLost")
        /\ UNCHANGED db
  /\ UNCHANGED env

\* Which guard refused the claim: another rotation, or the end of the session.
ReadLostClaim(r) ==
  /\ req[r].pc = "claimLost"
  /\ IF Unrevoked(disk[req[r].tok]) THEN Finish(r) ELSE Refuse(r)
  /\ UNCHANGED <<db, env>>

\* Mutant: the successor starts a lifetime of its own.
MintRenewed(r, u) ==
  LET t == req[r].tok IN
  /\ req[r].pc = "mint" /\ u \in Token \ (minted \cup Roots)
  /\ Release(r)
  /\ disk' = [disk EXCEPT ![t] = draft[t],
                ![u] = NewRow(req[r].row.family, req[r].at, req[r].at + Ttl)]
  /\ minted' = minted \cup {u}
  /\ Put(r, NewRequest("answer", "get", u))
  /\ UNCHANGED <<known, now, deleted>>

\* Insert the successor, which inherits family and expiry, and commit.
Mint(r, u) ==
  LET t == req[r].tok IN
  /\ req[r].pc = "mint" /\ u \in Token \ (minted \cup Roots)
  /\ Release(r)
  /\ disk' = [disk EXCEPT ![t] = draft[t],
                ![u] = NewRow(req[r].row.family, req[r].at, req[r].row.expiresAt)]
  /\ minted' = minted \cup {u}
  /\ Put(r, NewRequest("answer", "get", u))
  /\ UNCHANGED <<known, now, deleted>>

\* The answer is the only copy of the successor's raw value; losing it is Fail.
Deliver(r) ==
  /\ req[r].pc = "answer"
  /\ known' = known \cup {req[r].tok}
  /\ Finish(r)
  /\ UNCHANGED <<db, minted, now, deleted>>

----------------------------------------------------------------------------
(***************************************************************************)
(* revokeSessionFamily, for logout and for the reuse alarm: UPDATE passes, *)
(* each its own transaction, until one of them touches nothing.            *)
(***************************************************************************)
\* logout looks the row up with no liveness filter.
SignOut(r) ==
  LET row == disk[req[r].tok] IN
  /\ req[r].pc = "signOut"
  /\ IF Exists(row) THEN Put(r, [req[r] EXCEPT !.pc = "revoke", !.row = row]) ELSE Finish(r)
  /\ UNCHANGED <<db, env>>

\* Mutant: the UPDATE does not skip rows that are revoked already.
AnyInFamily(r, row) == Exists(row) /\ row.family = req[r].row.family

InFamily(r, row) == Unrevoked(row) /\ row.family = req[r].row.family

EndRevoke(r) == IF req[r].kind = "logout" THEN Finish(r) ELSE Refuse(r)

StartRevokePass(r) ==
  /\ req[r].pc = "revoke"
  /\ LET rows == {t \in Token : InFamily(r, disk[t])} IN
       IF rows = {} THEN EndRevoke(r)
       ELSE Put(r, [req[r] EXCEPT !.pc = "revokeSweep", !.todo = rows, !.hit = FALSE])
  /\ UNCHANGED <<db, env>>

\* Mutant: one pass only.
EndOnlyPass(r) ==
  /\ req[r].pc = "revokeSweep" /\ req[r].todo = {}
  /\ Commit(r) /\ EndRevoke(r)
  /\ UNCHANGED env

EndRevokePass(r) ==
  /\ req[r].pc = "revokeSweep" /\ req[r].todo = {}
  /\ Commit(r)
  /\ IF req[r].hit THEN Goto(r, "revoke") ELSE EndRevoke(r)
  /\ UNCHANGED env

----------------------------------------------------------------------------
(***************************************************************************)
(* revokeAllSessions: the same passes over every family of the account but *)
(* the kept one, inside one transaction.                                   *)
(***************************************************************************)
FindKept(r) ==
  LET row == disk[req[r].tok] IN
  /\ req[r].pc = "keep"
  /\ \/ Exists(row) /\ Put(r, [req[r] EXCEPT !.pc = "families", !.row = row, !.at = now])
     \/ ~Exists(row) /\ Refuse(r)
     \/ Put(r, [req[r] EXCEPT !.pc = "families", !.row = NoRow, !.at = now])
  /\ UNCHANGED <<db, env>>

\* Mutant: the kept session is excluded by its own row's token, not its family.
OnAccountButToken(r, row) ==
  /\ Unrevoked(row) /\ row.expiresAt > req[r].at
  /\ row.family # req[r].row.family \/ row # disk[req[r].tok]

OnAccount(r, row) ==
  Unrevoked(row) /\ row.expiresAt > req[r].at /\ row.family # req[r].row.family

ReadFamilies(r) ==
  /\ req[r].pc = "families"
  /\ Put(r, [req[r] EXCEPT !.pc = "allPass",
               !.fams = {disk[t].family : t \in {u \in Token : OnAccount(r, disk[u])}}])
  /\ UNCHANGED <<db, env>>

StartAllPass(r) ==
  /\ req[r].pc = "allPass"
  /\ LET rows == {t \in Token : OnAccount(r, View(r, t))} IN
       IF rows = {} THEN Commit(r) /\ Finish(r)
       ELSE /\ Put(r, [req[r] EXCEPT !.pc = "allSweep", !.todo = rows, !.hit = FALSE])
            /\ UNCHANGED db
  /\ UNCHANGED env

EndAllPass(r) ==
  /\ req[r].pc = "allSweep" /\ req[r].todo = {}
  /\ IF req[r].hit THEN Goto(r, "allPass") /\ UNCHANGED db
     ELSE Commit(r) /\ Finish(r)
  /\ UNCHANGED env

----------------------------------------------------------------------------
(***************************************************************************)
(* One row of a multi-row UPDATE ... SET revoked_at: wait until the row is *)
(* free, test the WHERE clause on its committed version, lock and write.   *)
(***************************************************************************)
\* Mutant: the recovery's UPDATE does not repeat firstUsedAt: null.
MatchesUsed(r, t, row) ==
  CASE req[r].pc = "recoverSweep" -> Undelivered(r, t, row)
    [] req[r].pc = "revokeSweep" -> InFamily(r, row)
    [] req[r].pc = "allSweep" -> OnAccount(r, row)

Matches(r, t, row) ==
  CASE req[r].pc = "recoverSweep" -> Undelivered(r, t, row) /\ ~row.used
    [] req[r].pc = "revokeSweep" -> InFamily(r, row)
    [] req[r].pc = "allSweep" -> OnAccount(r, row)

SweepRow(r, t) ==
  /\ req[r].pc \in {"recoverSweep", "revokeSweep", "allSweep"}
  /\ t \in req[r].todo /\ Free(t)
  /\ IF Matches(r, t, disk[t])
     THEN /\ Write(r, t, [disk[t] EXCEPT !.revoked = TRUE])
          /\ Put(r, [req[r] EXCEPT !.todo = @ \ {t}, !.hit = TRUE])
     ELSE /\ Put(r, [req[r] EXCEPT !.todo = @ \ {t}])
          /\ UNCHANGED db
  /\ UNCHANGED env

Handle(r) ==
  \/ ResolveCurrent(r) \/ MarkFirstUse(r) \/ ResolveSuperseded(r) \/ CheckSuccessors(r)
  \/ RecoverClaim(r) \/ RecoverSnapshot(r) \/ RecoverCheck(r) \/ RecoverUndo(r)
  \/ RecoverReuse(r) \/ Contested(r)
  \/ CheckAge(r) \/ ClaimRotation(r) \/ ReadLostClaim(r) \/ (\E u \in Token : Mint(r, u))
  \/ Deliver(r)
  \/ SignOut(r) \/ StartRevokePass(r) \/ EndRevokePass(r)
  \/ FindKept(r) \/ ReadFamilies(r) \/ StartAllPass(r) \/ EndAllPass(r)
  \/ (\E t \in Token : SweepRow(r, t))

Next ==
  \/ \E t \in Token : SignIn(t) \/ Prune(t)
  \/ Tick \/ DeleteUser
  \/ \E r \in Request : Handle(r) \/ Fail(r) \/ DeadlockVictim(r)
                         \/ (\E k \in Kinds, t \in Token : Call(r, k, t))

Spec == Init /\ [][Next]_vars

\* The event loop and the database answer every statement, and PostgreSQL hands a
\* released row to the statement queued for it, so an UPDATE that keeps finding its
\* row free again gets it; the clock, the clients and the pruner owe nothing.
FairSpec ==
  /\ Spec
  /\ \A r \in Request : /\ WF_vars(Handle(r) \/ DeadlockVictim(r))
                         /\ SF_vars(\E t \in Token : SweepRow(r, t))

----------------------------------------------------------------------------
(***************************************************************************)
(* Properties.                                                             *)
(***************************************************************************)
RequestRecord ==
  {q \in [pc : Pc, kind : Kinds, tok : Token \cup {NoToken}, row : Row, at : Instant,
          todo : SUBSET Token, hit : BOOLEAN, fams : SUBSET (Token \cup {NoToken})] :
     q.pc \notin Ended => q.tok \in Token}

\* Rows, locks and request records keep their shape.
TypeOK ==
  /\ disk \in [Token -> Row] /\ draft \in [Token -> Row]
  /\ lock \in [Token -> Request \cup {NoRequest}]
  /\ minted \in SUBSET Token /\ known \in SUBSET Token
  /\ now \in 0..MaxTime /\ deleted \in BOOLEAN
  /\ req \in [Request -> RequestRecord]

Unended(f, rows) == \E t \in Token : Unrevoked(rows[t]) /\ rows[t].family = f
Usable(f, rows) ==
  \E t \in Token : Unrevoked(rows[t]) /\ rows[t].family = f /\ rows[t].expiresAt > now

\* The lifetimes of the unrevoked rows of a family follow one another: of any
\* two, one was retired no later than the other was issued.  Rotation, recovery
\* and the alarm all rely on it when they compare issuedAt with rotatedAt.
Lineage ==
  \A t, u \in Token :
    (t # u /\ Unrevoked(disk[t]) /\ Unrevoked(disk[u]) /\ disk[t].family = disk[u].family) =>
      \/ disk[t].rotatedAt # Never /\ disk[t].rotatedAt <= disk[u].issuedAt
      \/ disk[u].rotatedAt # Never /\ disk[u].rotatedAt <= disk[t].issuedAt

\* Every row belongs to a family that began, no row was issued in the future, and
\* only tokens that were minted are known.
RowsOK ==
  /\ known \subseteq minted
  /\ \A t \in Token :
       /\ disk[t].issuedAt <= now
       /\ disk[t].family \in minted \cup {NoToken}
       /\ t \notin minted => disk[t] = NoRow /\ Free(t)

Recovering == {"recoverSnapshot", "recoverSweep", "recoverUndo", "recoverReuse"}
Sweeping == Recovering \cup {"revokeSweep", "allPass", "allSweep"}

\* What the holder of a row lock has written: a rotation retires the current row,
\* a recovery un-retires exactly the row it read, everything else only revokes.
LockOK(t) ==
  LET q == req[lock[t]] IN
  Free(t) \/
  /\ Exists(disk[t])
  /\ \/ /\ q.pc = "mint" /\ t = q.tok /\ Current(disk[t])
        /\ draft[t] = [disk[t] EXCEPT !.rotatedAt = q.at]
     \/ /\ q.pc \in Recovering /\ t = q.tok /\ Unrevoked(disk[t]) /\ disk[t].rotatedAt = q.at
        /\ draft[t] = [disk[t] EXCEPT !.rotatedAt = Never]
     \/ /\ q.pc \in Sweeping /\ (q.pc \in Recovering => t # q.tok)
        /\ draft[t] = [disk[t] EXCEPT !.revoked = TRUE]
LocksOK == \A t \in Token : LockOK(t)

HoldsRow == {"stamp", "successors", "recoverClaim", "contested", "due", "claim", "mint"}
              \cup Recovering

\* What each request knows of the row it presented, and what a recovery that is
\* about to commit has locked: every unrevoked row issued since the retirement.
RequestOK(r) ==
  LET q == req[r] IN
  /\ q.pc \notin Ended => q.tok \in minted
  /\ q.pc \in HoldsRow /\ Exists(disk[q.tok]) => q.row.family = disk[q.tok].family
  /\ q.pc \in Recovering \cup {"mint"} => lock[q.tok] = r
  /\ q.pc \in {"successors", "recoverClaim"} \cup Recovering => q.at # Never
  /\ q.pc \in {"claim", "mint"} => q.at # Never /\ q.at <= now /\ disk[q.tok].issuedAt <= q.at
  /\ q.pc = "recoverUndo" => \A t \in Token : Undelivered(r, t, disk[t]) => lock[t] = r
RequestsOK == \A r \in Request : RequestOK(r)

\* The inductive strengthening of Lineage.
LineageInv == TypeOK /\ RowsOK /\ LocksOK /\ RequestsOK /\ Lineage

\* Of concurrent rotations, recoveries and revocations, no interleaving leaves a
\* family with two tokens that are neither retired nor revoked.
OneCurrent ==
  \A t, u \in Token :
    Current(disk[t]) /\ Current(disk[u]) /\ disk[t].family = disk[u].family => t = u

\* Rotation is not renewal: every row of a family carries the expiry the sign-in
\* got, however often it rotated.
FamilyExpiresTogether ==
  \A t, u \in Token : disk[t].family = disk[u].family => disk[t].expiresAt = disk[u].expiresAt

\* A sign-in that has no unrevoked row left never gets one again: no rotation or
\* recovery still under way revives a family that was ended.
EndedStaysEnded ==
  [][\A f \in minted : Unended(f, disk') => Unended(f, disk)]_vars

\* A recovery revokes no successor whose use was recorded, even when the use is
\* recorded between its query and its UPDATE.
RecoverySparesUsed ==
  [][\A r \in Request, t \in Token :
       req[r].pc = "recoverUndo" /\ req'[r].pc = "due" /\ ~disk[t].revoked /\ disk'[t].revoked
         => ~disk[t].used]_vars

Revoking(r) == req[r].pc \in {"revoke", "revokeSweep"}
RevokeReturns(r) == (StartRevokePass(r) \/ EndRevokePass(r)) /\ req'[r].pc \in Ended
AllReturns(r) == (StartAllPass(r) \/ EndAllPass(r)) /\ req'[r].pc \in Ended

\* The service while no sign-out and no alarm dies between its passes.  Nobody
\* repeats the passes of one that does, and another that returned on the strength
\* of them leaves a live token behind; any other request may die.
LastingNext ==
  \/ \E t \in Token : SignIn(t) \/ Prune(t)
  \/ Tick \/ DeleteUser
  \/ \E r \in Request : \/ Handle(r)
                        \/ ~Revoking(r) /\ (Fail(r) \/ DeadlockVictim(r))
                        \/ \E k \in Kinds, t \in Token : Call(r, k, t)

LastingSpec == Init /\ [][LastingNext]_vars

\* A sign-out or an alarm that returns has ended the family, unless another
\* request is still in its own passes over that family: revokeSessionFamily while
\* its callers last.
RevokeEndsFamily ==
  [][\A r \in Request : RevokeReturns(r) /\ Usable(req[r].row.family, disk') =>
       \E s \in Request \ {r} : Revoking(s) /\ req[s].row.family = req[r].row.family]_vars

\* When revokeAllSessions commits, every family it counted is ended, with the
\* same exception; the family it keeps is untouched by it.
RevokeAllEndsCounted ==
  [][\A r \in Request : AllReturns(r) =>
       /\ \A f \in req[r].fams : Usable(f, disk') =>
            \E s \in Request \ {r} : Revoking(s) /\ req[s].row.family = f
       /\ \A t \in Token : disk'[t] # disk[t] => disk[t].family # req[r].row.family]_vars

\* Every sign-out, alarm and sign-out-everywhere returns: the passes stop although
\* rotations add rows behind them, and no wait for a row lock is for ever.
RevokersReturn ==
  \A r \in Request : Revoking(r) \/ req[r].pc \in {"allPass", "allSweep"} ~> req[r].pc \in Ended

----------------------------------------------------------------------------
(***************************************************************************)
(* The detailed service implements the promise of SignInLineage: the token *)
(* in force is the family's current row, the remembered ones its retired   *)
(* rows, the spent ones those with a first use.                            *)
(***************************************************************************)
Heads(f) == {t \in Token : Current(disk[t]) /\ disk[t].family = f}
Promise == INSTANCE SignInLineage WITH
  head <- [f \in Token |-> IF Heads(f) = {} THEN NoToken ELSE CHOOSE t \in Heads(f) : TRUE],
  past <- [f \in Token |-> {t \in Token : Retired(disk[t]) /\ disk[t].family = f}],
  seen <- minted,
  spent <- {t \in Token : disk[t].used}

\* Every behaviour of the rows, locks and requests is one SignInLineage allows.
KeepsPromise == Promise!Spec

----------------------------------------------------------------------------
(***************************************************************************)
(* What a comment says of the code, and it does not keep.                  *)
(***************************************************************************)
\* "the second query below runs only when the first found nothing, which is a dead
\* cookie": a rotation is not refused while its token is the family's live one.
RefusedTokenIsDead ==
  [][\A r \in Request : req[r].kind = "rotate" /\ req'[r].pc = "refused" =>
       ~(Current(disk[req[r].tok]) /\ Live(disk[req[r].tok]))]_vars

\* "a pass that touches nothing proves none escaped": a sign-out or an alarm that
\* returns leaves no usable row of the family.
NoneEscapes ==
  [][\A r \in Request : RevokeReturns(r) => ~Usable(req[r].row.family, disk')]_vars
============================================================================
