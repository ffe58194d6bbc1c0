----------------------- MODULE SessionFamiliesProofs -----------------------
(***************************************************************************)
(* Proofs about SessionFamilies for every set of tokens, requests and      *)
(* timing constants: types; the locks and rows that every request leaves   *)
(* consistent; that the unrevoked rows of a family never overlap, whatever *)
(* rotates, recovers, signs out, fails or is pruned at the same time, and  *)
(* that no family ever has two current tokens; then the whole life of a    *)
(* sign-in: ended stays ended, rotation is not renewal, a recovery spares  *)
(* the used, and together the promise of SignInLineage; last, that those   *)
(* who end sign-ins end them.                                              *)
(***************************************************************************)
EXTENDS SessionFamilies, TLAPS

----------------------------------------------------------------------------
(***************************************************************************)
(* Types.                                                                  *)
(***************************************************************************)
\* The two empty values have the type of what they stand for.
LEMMA EmptyValues == NoRow \in Row /\ IdleRequest \in RequestRecord
BY DEF NoRow, Row, IdleRequest, NewRequest, RequestRecord, Pc, Ended, Kinds, Never, Instant

\* An instant exists.
LEMMA NoRowInstant == Never \in Instant /\ NoRow.issuedAt = Never
BY DEF NoRow, Never, Instant

\* The type of a request record, field by field.
LEMMA RequestFields ==
  ASSUME NEW q \in RequestRecord
  PROVE  /\ q.pc \in Pc /\ q.kind \in Kinds /\ q.tok \in Token \cup {NoToken} /\ q.row \in Row
         /\ q.at \in Instant /\ q.todo \in SUBSET Token /\ q.hit \in BOOLEAN
         /\ q.fams \in SUBSET (Token \cup {NoToken})
         /\ q.pc \notin Ended => q.tok \in Token
BY DEF RequestRecord

\* A step of a request that starts a new statement keeps its record well typed.
LEMMA GotoType ==
  ASSUME NEW q \in RequestRecord, q.pc \notin Ended, NEW pc \in Pc
  PROVE  [q EXCEPT !.pc = pc, !.todo = {}, !.hit = FALSE] \in RequestRecord
BY DEF RequestRecord

\* So does a step that keeps a row, or a row and an instant.
LEMMA RowType ==
  ASSUME NEW q \in RequestRecord, q.pc \notin Ended, NEW pc \in Pc, NEW row \in Row, NEW at \in Instant
  PROVE  /\ [q EXCEPT !.pc = pc, !.row = row] \in RequestRecord
         /\ [q EXCEPT !.pc = pc, !.row = row, !.at = at] \in RequestRecord
         /\ [q EXCEPT !.pc = pc, !.at = at] \in RequestRecord
BY DEF RequestRecord

\* So does a step that fixes or shortens the rows an UPDATE has left.
LEMMA TodoType ==
  ASSUME NEW q \in RequestRecord, q.pc \notin Ended, NEW pc \in Pc, NEW S \in SUBSET Token, NEW t \in Token,
         NEW F \in SUBSET (Token \cup {NoToken})
  PROVE  /\ [q EXCEPT !.pc = pc, !.todo = S] \in RequestRecord
         /\ [q EXCEPT !.pc = pc, !.todo = S, !.hit = FALSE] \in RequestRecord
         /\ [q EXCEPT !.todo = @ \ {t}, !.hit = TRUE] \in RequestRecord
         /\ [q EXCEPT !.todo = @ \ {t}] \in RequestRecord
         /\ [q EXCEPT !.pc = pc, !.fams = F] \in RequestRecord
BY DEF RequestRecord

\* The records requests start, answer and end with.
LEMMA StartType ==
  ASSUME NEW pc \in Pc, NEW kind \in Kinds, NEW t \in Token \cup {NoToken},
         t \in Token \/ pc \in Ended
  PROVE  NewRequest(pc, kind, t) \in RequestRecord
BY EmptyValues DEF NewRequest, RequestRecord, Instant

\* Replacing one request's record by a well-typed one keeps req well typed.
LEMMA PutType ==
  ASSUME TypeOK, NEW r \in Request, NEW q \in RequestRecord, Put(r, q)
  PROVE  req' \in [Request -> RequestRecord]
BY DEF TypeOK, Put

\* The steps every handler shares keep req well typed.
LEMMA RequestSteps ==
  ASSUME TypeOK, NEW r \in Request, req[r].pc \notin Ended
  PROVE  /\ \A pc \in Pc : Goto(r, pc) => req' \in [Request -> RequestRecord]
         /\ Finish(r) \/ Refuse(r) => req' \in [Request -> RequestRecord]
<1>1. req[r] \in RequestRecord
  BY DEF TypeOK
<1>2. NewRequest("refused", "get", NoToken) \in RequestRecord
  BY StartType DEF Pc, Ended, Kinds
<1> QED  BY <1>1, <1>2, GotoType, PutType, EmptyValues DEF Goto, Finish, Refuse

\* So does a token that resolved, whichever caller goes on with it.
LEMMA ResolvedStep ==
  ASSUME TypeOK, NEW r \in Request, req[r].pc \notin Ended, NEW row \in Row, Resolved(r, row)
  PROVE  req' \in [Request -> RequestRecord]
<1>1. req[r] \in RequestRecord
  BY DEF TypeOK
<1>2. AfterResolve(req[r].kind) \in Pc
  BY DEF AfterResolve, Pc, Ended
<1>3. CASE req[r].kind = "get"
  BY <1>3, RequestSteps DEF Resolved
<1>4. CASE req[r].kind # "get"
  <2>1. [req[r] EXCEPT !.pc = AfterResolve(req[r].kind), !.row = row] \in RequestRecord
    BY <1>1, <1>2, NoRowInstant, RowType
  <2> QED  BY <1>4, <2>1, PutType DEF Resolved
<1> QED  BY <1>3, <1>4

\* Statements that write, commit or roll back keep rows and locks well typed.
LEMMA DatabaseSteps ==
  ASSUME TypeOK, NEW r \in Request
  PROVE  /\ \A t \in Token : View(r, t) \in Row
         /\ \A t \in Token, row \in Row : Write(r, t, row) =>
              disk' \in [Token -> Row] /\ draft' \in [Token -> Row]
                /\ lock' \in [Token -> Request \cup {NoRequest}]
         /\ Release(r) => draft' \in [Token -> Row] /\ lock' \in [Token -> Request \cup {NoRequest}]
         /\ Commit(r) => disk' \in [Token -> Row]
BY EmptyValues DEF TypeOK, View, Write, Release, Commit

\* The steps of the surroundings keep the types.
LEMMA SurroundingsType ==
  ASSUME TypeOK,
         (\E t \in Token : SignIn(t) \/ Prune(t)) \/ Tick \/ DeleteUser
  PROVE  TypeOK'
<1>1. ASSUME NEW t \in Token, SignIn(t) PROVE TypeOK'
  <2>1. NewRow(t, now, now + Ttl) \in Row
    BY EnvAssumption DEF TypeOK, NewRow, Row, Instant, Never
  <2> QED  BY <1>1, <2>1 DEF TypeOK, SignIn
<1>2. ASSUME NEW t \in Token, Prune(t) PROVE TypeOK'
  BY <1>2, EmptyValues DEF TypeOK, Prune
<1>3. CASE Tick
  BY <1>3, EnvAssumption DEF TypeOK, Tick
<1>4. CASE DeleteUser
  BY <1>4 DEF TypeOK, DeleteUser
<1> QED  BY <1>1, <1>2, <1>3, <1>4

\* Arrivals and failures keep the types.
LEMMA CallType ==
  ASSUME TypeOK, NEW r \in Request,
         Fail(r) \/ DeadlockVictim(r) \/ (\E k \in Kinds, t \in Token : Call(r, k, t))
  PROVE  TypeOK'
<1>1. ASSUME NEW k \in Kinds, NEW t \in Token, Call(r, k, t) PROVE TypeOK'
  <2> DEFINE pc == IF k = "logout" THEN "signOut" ELSE "resolve"
  <2>1. pc \in Pc
    BY DEF Pc
  <2>2. NewRequest(pc, k, t) \in RequestRecord
    BY <2>1, StartType
  <2>3. req' \in [Request -> RequestRecord]
    BY <1>1, <2>2, PutType DEF Call
  <2> QED  BY <1>1, <2>3 DEF TypeOK, Call, db, env
<1>2. ASSUME Fail(r) \/ DeadlockVictim(r) PROVE TypeOK'
  <2>1. req' \in [Request -> RequestRecord]
    BY <1>2, PutType, EmptyValues DEF Fail, DeadlockVictim, Finish
  <2>2. draft' \in [Token -> Row] /\ lock' \in [Token -> Request \cup {NoRequest}]
    BY <1>2, DatabaseSteps DEF Fail, DeadlockVictim
  <2> QED  BY <1>2, <2>1, <2>2 DEF TypeOK, Fail, DeadlockVictim, env
<1> QED  BY <1>1, <1>2

\* The steps that resolve a token keep the types.
LEMMA ResolveType ==
  ASSUME TypeOK, NEW r \in Request,
         \/ ResolveCurrent(r) \/ MarkFirstUse(r) \/ ResolveSuperseded(r) \/ CheckSuccessors(r)
  PROVE  TypeOK'
<1> DEFINE t == req[r].tok
<1>1. req[r] \in RequestRecord /\ req[r].pc \notin Ended
  BY DEF TypeOK, ResolveCurrent, MarkFirstUse, ResolveSuperseded, CheckSuccessors, Ended
<1>2. t \in Token /\ disk[t] \in Row /\ req[r].row \in Row
  BY <1>1, RequestFields DEF TypeOK
<1>3. {"stamp", "superseded", "successors", "revoke", "recoverClaim"} \subseteq Pc
  BY DEF Pc
<1>4. CASE ResolveCurrent(r)
  <2>1. req' \in [Request -> RequestRecord]
    <3>1. [req[r] EXCEPT !.pc = "stamp", !.row = disk[t]] \in RequestRecord
      BY <1>1, <1>2, <1>3, RowType, NoRowInstant
    <3>2. CASE Resolved(r, disk[t])
      BY <1>1, <1>2, <3>2, ResolvedStep
    <3>3. CASE Put(r, [req[r] EXCEPT !.pc = "stamp", !.row = disk[t]])
      BY <3>1, <3>3, PutType
    <3>4. CASE Goto(r, "superseded")
      BY <1>1, <1>3, <3>4, RequestSteps
    <3> QED  BY <1>4, <3>2, <3>3, <3>4 DEF ResolveCurrent
  <2> QED  BY <1>4, <2>1 DEF TypeOK, ResolveCurrent, db, env
<1>5. CASE MarkFirstUse(r)
  <2>1. req' \in [Request -> RequestRecord]
    BY <1>1, <1>2, <1>5, ResolvedStep DEF MarkFirstUse
  <2>2. [disk[t] EXCEPT !.used = TRUE] \in Row
    BY <1>2 DEF Row
  <2>3. disk' \in [Token -> Row]
    BY <1>2, <1>5, <2>2 DEF TypeOK, MarkFirstUse
  <2> QED  BY <1>5, <2>1, <2>3 DEF TypeOK, MarkFirstUse, env
<1>6. CASE ResolveSuperseded(r)
  <2>1. req' \in [Request -> RequestRecord]
    <3>1. disk[t].rotatedAt \in Instant
      BY <1>2 DEF Row
    <3> QED  BY <1>1, <1>2, <1>3, <1>6, <3>1, ResolvedStep, RowType, PutType, RequestSteps
             DEF ResolveSuperseded
  <2> QED  BY <1>6, <2>1 DEF TypeOK, ResolveSuperseded, db, env
<1>7. CASE CheckSuccessors(r)
  <2>1. req' \in [Request -> RequestRecord]
    BY <1>1, <1>3, <1>7, RequestSteps DEF CheckSuccessors
  <2> QED  BY <1>7, <2>1 DEF TypeOK, CheckSuccessors, db, env
<1> QED  BY <1>4, <1>5, <1>6, <1>7

\* A row with one column changed is still a row.
LEMMA ColumnType ==
  ASSUME NEW row \in Row, NEW at \in Instant
  PROVE  /\ [row EXCEPT !.rotatedAt = at] \in Row
         /\ [row EXCEPT !.revoked = TRUE] \in Row
BY DEF Row

\* The steps of a recovery keep the types.
LEMMA RecoverType ==
  ASSUME TypeOK, NEW r \in Request,
         \/ RecoverClaim(r) \/ RecoverSnapshot(r) \/ RecoverCheck(r)
         \/ RecoverUndo(r) \/ RecoverReuse(r) \/ Contested(r)
  PROVE  TypeOK'
<1> DEFINE t == req[r].tok
<1>1. req[r] \in RequestRecord /\ req[r].pc \notin Ended
  BY DEF TypeOK, RecoverClaim, RecoverSnapshot, RecoverCheck, RecoverUndo, RecoverReuse,
         Contested, Ended
<1>2. t \in Token /\ disk[t] \in Row /\ draft[t] \in Row /\ req[r].at \in Instant
  BY <1>1, RequestFields DEF TypeOK
<1>3. {"recoverSnapshot", "contested", "recoverSweep", "recoverReuse", "recoverUndo", "due",
       "revoke"} \subseteq Pc
  BY DEF Pc
<1>4. CASE RecoverClaim(r)
  <2>1. req' \in [Request -> RequestRecord]
    BY <1>1, <1>3, <1>4, RequestSteps DEF RecoverClaim
  <2>2. [disk[t] EXCEPT !.rotatedAt = Never] \in Row
    BY <1>2, ColumnType, NoRowInstant
  <2>3. /\ disk' \in [Token -> Row] /\ draft' \in [Token -> Row]
        /\ lock' \in [Token -> Request \cup {NoRequest}]
    BY <1>2, <1>4, <2>2, DatabaseSteps DEF RecoverClaim, TypeOK, db
  <2> QED  BY <1>4, <2>1, <2>3 DEF TypeOK, RecoverClaim, env
<1>5. CASE RecoverSnapshot(r)
  <2> DEFINE S == {u \in Token : Undelivered(r, u, disk[u]) /\ ~disk[u].used}
  <2>1. [req[r] EXCEPT !.pc = "recoverSweep", !.todo = S] \in RequestRecord
    BY <1>1, <1>2, <1>3, TodoType
  <2>2. req' \in [Request -> RequestRecord]
    BY <1>5, <2>1, PutType DEF RecoverSnapshot
  <2> QED  BY <1>5, <2>2 DEF TypeOK, RecoverSnapshot, db, env
<1>6. CASE RecoverCheck(r)
  <2>1. req' \in [Request -> RequestRecord]
    BY <1>1, <1>3, <1>6, RequestSteps DEF RecoverCheck
  <2> QED  BY <1>6, <2>1 DEF TypeOK, RecoverCheck, db, env
<1>7. CASE RecoverUndo(r)
  <2>1. [req[r] EXCEPT !.pc = "due", !.row = draft[t]] \in RequestRecord
    BY <1>1, <1>2, <1>3, RowType, NoRowInstant
  <2>2. req' \in [Request -> RequestRecord]
    BY <1>7, <2>1, PutType DEF RecoverUndo
  <2>3. /\ disk' \in [Token -> Row] /\ draft' \in [Token -> Row]
        /\ lock' \in [Token -> Request \cup {NoRequest}]
    BY <1>7, DatabaseSteps DEF RecoverUndo, Commit
  <2> QED  BY <1>7, <2>2, <2>3 DEF TypeOK, RecoverUndo, env
<1>8. CASE RecoverReuse(r)
  <2>1. req' \in [Request -> RequestRecord]
    BY <1>1, <1>3, <1>8, RequestSteps DEF RecoverReuse
  <2>2. [draft[t] EXCEPT !.rotatedAt = req[r].at] \in Row
    BY <1>2, ColumnType
  <2>3. /\ disk' \in [Token -> Row] /\ draft' \in [Token -> Row]
        /\ lock' \in [Token -> Request \cup {NoRequest}]
    BY <1>8, <2>2, DatabaseSteps DEF RecoverReuse
  <2> QED  BY <1>8, <2>1, <2>3 DEF TypeOK, RecoverReuse, env
<1>9. CASE Contested(r)
  <2>1. req' \in [Request -> RequestRecord]
    BY <1>1, <1>2, <1>9, RequestSteps, ResolvedStep DEF Contested
  <2> QED  BY <1>9, <2>1 DEF TypeOK, Contested, db, env
<1> QED  BY <1>4, <1>5, <1>6, <1>7, <1>8, <1>9

\* The steps of a rotation keep the types.
LEMMA RotateType ==
  ASSUME TypeOK, NEW r \in Request,
         \/ CheckAge(r) \/ ClaimRotation(r) \/ ReadLostClaim(r)
         \/ (\E u \in Token : Mint(r, u)) \/ Deliver(r)
  PROVE  TypeOK'
<1> DEFINE t == req[r].tok
<1>1. req[r] \in RequestRecord /\ req[r].pc \notin Ended
  BY DEF TypeOK, CheckAge, ClaimRotation, ReadLostClaim, Mint, Deliver, Ended
<1>2. /\ t \in Token /\ disk[t] \in Row /\ draft[t] \in Row /\ req[r].at \in Instant
      /\ req[r].row \in Row
  BY <1>1, RequestFields DEF TypeOK
<1>3. {"claim", "claimLost", "mint", "answer"} \subseteq Pc
  BY DEF Pc
<1>4. CASE CheckAge(r)
  <2>1. now \in Instant
    BY EnvAssumption DEF TypeOK, Instant
  <2>2. [req[r] EXCEPT !.pc = "claim", !.at = now] \in RequestRecord
    BY <1>1, <1>2, <1>3, <2>1, RowType
  <2>3. req' \in [Request -> RequestRecord]
    BY <1>1, <1>4, <2>2, PutType, RequestSteps DEF CheckAge
  <2> QED  BY <1>4, <2>3 DEF TypeOK, CheckAge, db, env
<1>5. CASE ClaimRotation(r)
  <2>1. req' \in [Request -> RequestRecord]
    BY <1>1, <1>3, <1>5, RequestSteps DEF ClaimRotation
  <2>2. [disk[t] EXCEPT !.rotatedAt = req[r].at] \in Row
    BY <1>2, ColumnType
  <2>3. /\ disk' \in [Token -> Row] /\ draft' \in [Token -> Row]
        /\ lock' \in [Token -> Request \cup {NoRequest}]
    BY <1>2, <1>5, <2>2, DatabaseSteps DEF ClaimRotation, TypeOK, db
  <2> QED  BY <1>5, <2>1, <2>3 DEF TypeOK, ClaimRotation, env
<1>6. CASE ReadLostClaim(r)
  <2>1. req' \in [Request -> RequestRecord]
    BY <1>1, <1>6, RequestSteps DEF ReadLostClaim
  <2> QED  BY <1>6, <2>1 DEF TypeOK, ReadLostClaim, db, env
<1>7. ASSUME NEW u \in Token, Mint(r, u) PROVE TypeOK'
  <2>1. NewRequest("answer", "get", u) \in RequestRecord
    BY <1>3, StartType DEF Kinds
  <2>2. req' \in [Request -> RequestRecord]
    BY <1>7, <2>1, PutType DEF Mint
  <2>3. NewRow(req[r].row.family, req[r].at, req[r].row.expiresAt) \in Row
    BY <1>2 DEF Row, NewRow, Instant
  <2>4. draft' \in [Token -> Row] /\ lock' \in [Token -> Request \cup {NoRequest}]
    BY <1>7, DatabaseSteps DEF Mint
  <2>5. disk' \in [Token -> Row]
    BY <1>2, <1>7, <2>3 DEF TypeOK, Mint
  <2>6. minted' \in SUBSET Token /\ known' \in SUBSET Token
    BY <1>7 DEF TypeOK, Mint
  <2> QED  BY <1>7, <2>2, <2>4, <2>5, <2>6 DEF TypeOK, Mint
<1>8. CASE Deliver(r)
  <2>1. req' \in [Request -> RequestRecord]
    BY <1>1, <1>8, RequestSteps DEF Deliver
  <2> QED  BY <1>2, <1>8, <2>1 DEF TypeOK, Deliver, db
<1> QED  BY <1>4, <1>5, <1>6, <1>7, <1>8

\* The steps of the revocations keep the types.
LEMMA RevokeType ==
  ASSUME TypeOK, NEW r \in Request,
         \/ SignOut(r) \/ StartRevokePass(r) \/ EndRevokePass(r) \/ FindKept(r)
         \/ ReadFamilies(r) \/ StartAllPass(r) \/ EndAllPass(r)
         \/ (\E t \in Token : SweepRow(r, t))
  PROVE  TypeOK'
<1> DEFINE t == req[r].tok
<1>1. req[r] \in RequestRecord /\ req[r].pc \notin Ended
  BY DEF TypeOK, SignOut, StartRevokePass, EndRevokePass, FindKept, ReadFamilies, StartAllPass,
         EndAllPass, SweepRow, Ended
<1>2. t \in Token /\ disk[t] \in Row
  BY <1>1, RequestFields DEF TypeOK
<1>3. {"revoke", "revokeSweep", "families", "allPass", "allSweep"} \subseteq Pc
  BY DEF Pc
<1>4. now \in Instant
  BY EnvAssumption DEF TypeOK, Instant
<1>5. CASE SignOut(r)
  <2>1. [req[r] EXCEPT !.pc = "revoke", !.row = disk[t]] \in RequestRecord
    BY <1>1, <1>2, <1>3, RowType, NoRowInstant
  <2>2. req' \in [Request -> RequestRecord]
    BY <1>1, <1>5, <2>1, PutType, RequestSteps DEF SignOut
  <2> QED  BY <1>5, <2>2 DEF TypeOK, SignOut, db, env
<1>6. CASE StartRevokePass(r)
  <2> DEFINE S == {u \in Token : InFamily(r, disk[u])}
  <2>1. [req[r] EXCEPT !.pc = "revokeSweep", !.todo = S, !.hit = FALSE] \in RequestRecord
    BY <1>1, <1>2, <1>3, TodoType
  <2>2. req' \in [Request -> RequestRecord]
    BY <1>1, <1>6, <2>1, PutType, RequestSteps DEF StartRevokePass, EndRevoke
  <2> QED  BY <1>6, <2>2 DEF TypeOK, StartRevokePass, db, env
<1>7. CASE EndRevokePass(r)
  <2>1. req' \in [Request -> RequestRecord]
    BY <1>1, <1>3, <1>7, RequestSteps DEF EndRevokePass, EndRevoke
  <2>2. /\ disk' \in [Token -> Row] /\ draft' \in [Token -> Row]
        /\ lock' \in [Token -> Request \cup {NoRequest}]
    BY <1>7, DatabaseSteps DEF EndRevokePass, Commit
  <2> QED  BY <1>7, <2>1, <2>2 DEF TypeOK, EndRevokePass, env
<1>8. CASE FindKept(r)
  <2>1. /\ [req[r] EXCEPT !.pc = "families", !.row = disk[t], !.at = now] \in RequestRecord
        /\ [req[r] EXCEPT !.pc = "families", !.row = NoRow, !.at = now] \in RequestRecord
    BY <1>1, <1>2, <1>3, <1>4, RowType, EmptyValues
  <2>2. req' \in [Request -> RequestRecord]
    BY <1>1, <1>8, <2>1, PutType, RequestSteps DEF FindKept
  <2> QED  BY <1>8, <2>2 DEF TypeOK, FindKept, db, env
<1>9. CASE ReadFamilies(r)
  <2> DEFINE F == {disk[v].family : v \in {u \in Token : OnAccount(r, disk[u])}}
  <2>1. F \in SUBSET (Token \cup {NoToken})
    BY DEF TypeOK, Row
  <2>2. [req[r] EXCEPT !.pc = "allPass", !.fams = F] \in RequestRecord
    BY <1>1, <1>2, <1>3, <2>1, TodoType
  <2>3. req' \in [Request -> RequestRecord]
    BY <1>9, <2>2, PutType DEF ReadFamilies
  <2> QED  BY <1>9, <2>3 DEF TypeOK, ReadFamilies, db, env
<1>10. CASE StartAllPass(r)
  <2> DEFINE S == {u \in Token : OnAccount(r, View(r, u))}
  <2>1. [req[r] EXCEPT !.pc = "allSweep", !.todo = S, !.hit = FALSE] \in RequestRecord
    BY <1>1, <1>2, <1>3, TodoType
  <2>2. req' \in [Request -> RequestRecord]
    BY <1>1, <1>10, <2>1, PutType, RequestSteps DEF StartAllPass
  <2>3. /\ disk' \in [Token -> Row] /\ draft' \in [Token -> Row]
        /\ lock' \in [Token -> Request \cup {NoRequest}]
    BY <1>10, DatabaseSteps DEF StartAllPass, Commit, TypeOK, db
  <2> QED  BY <1>10, <2>2, <2>3 DEF TypeOK, StartAllPass, env
<1>11. CASE EndAllPass(r)
  <2>1. req' \in [Request -> RequestRecord]
    BY <1>1, <1>3, <1>11, RequestSteps DEF EndAllPass
  <2>2. /\ disk' \in [Token -> Row] /\ draft' \in [Token -> Row]
        /\ lock' \in [Token -> Request \cup {NoRequest}]
    BY <1>11, DatabaseSteps DEF EndAllPass, Commit, TypeOK, db
  <2> QED  BY <1>11, <2>1, <2>2 DEF TypeOK, EndAllPass, env
<1>12. ASSUME NEW u \in Token, SweepRow(r, u) PROVE TypeOK'
  <2>1. /\ [req[r] EXCEPT !.todo = @ \ {u}, !.hit = TRUE] \in RequestRecord
        /\ [req[r] EXCEPT !.todo = @ \ {u}] \in RequestRecord
    BY <1>1, <1>2, <1>3, TodoType
  <2>2. req' \in [Request -> RequestRecord]
    BY <1>12, <2>1, PutType DEF SweepRow
  <2>3. [disk[u] EXCEPT !.revoked = TRUE] \in Row
    BY ColumnType, NoRowInstant DEF TypeOK
  <2>4. /\ disk' \in [Token -> Row] /\ draft' \in [Token -> Row]
        /\ lock' \in [Token -> Request \cup {NoRequest}]
    BY <1>12, <2>3, DatabaseSteps DEF SweepRow, TypeOK, db
  <2> QED  BY <1>12, <2>2, <2>4 DEF TypeOK, SweepRow, env
<1> QED  BY <1>5, <1>6, <1>7, <1>8, <1>9, <1>10, <1>11, <1>12

\* No step breaks the types.
LEMMA TypeStep == TypeOK /\ [Next]_vars => TypeOK'
<1> SUFFICES ASSUME TypeOK, [Next]_vars PROVE TypeOK'
  OBVIOUS
<1>1. CASE UNCHANGED vars
  BY <1>1 DEF TypeOK, vars
<1>2. ASSUME NEW r \in Request, Handle(r) PROVE TypeOK'
  BY <1>2, ResolveType, RecoverType, RotateType, RevokeType DEF Handle
<1>3. ASSUME NEW r \in Request,
             Fail(r) \/ DeadlockVictim(r) \/ (\E k \in Kinds, t \in Token : Call(r, k, t))
      PROVE  TypeOK'
  BY <1>3, CallType
<1>4. ASSUME (\E t \in Token : SignIn(t) \/ Prune(t)) \/ Tick \/ DeleteUser PROVE TypeOK'
  BY <1>4, SurroundingsType
<1> QED  BY <1>1, <1>2, <1>3, <1>4 DEF Next

\* Rows, locks and request records keep their shape in every reachable state, so
\* no handler ever reads a row or a request the model does not define.
THEOREM TypeCorrect == Spec => []TypeOK
<1>1. ASSUME Init PROVE TypeOK
  <2>1. /\ disk \in [Token -> Row] /\ draft \in [Token -> Row]
        /\ req \in [Request -> RequestRecord]
    BY <1>1, EmptyValues DEF Init
  <2>2. lock \in [Token -> Request \cup {NoRequest}] /\ now \in 0..MaxTime
    BY <1>1, EnvAssumption DEF Init
  <2> QED  BY <1>1, <2>1, <2>2 DEF Init, TypeOK
<1> QED  BY <1>1, TypeStep, PTL DEF Spec

----------------------------------------------------------------------------
(***************************************************************************)
(* What a step of one request leaves to the others.                        *)
(***************************************************************************)
\* A request outside a transaction holds no row.
LEMMA HoldsNothing ==
  ASSUME LocksOK, NEW r \in Request, req[r].pc \notin Sweeping \cup {"mint"}, NEW t \in Token
  PROVE  lock[t] # r
BY NamesAssumption DEF LocksOK, LockOK, Free, Sweeping, Recovering

\* What a step does to one committed row at most: drop it, or revoke it.
Shrinks(t) ==
  \/ disk'[t] = NoRow
  \/ /\ disk'[t].family = disk[t].family /\ disk'[t].issuedAt = disk[t].issuedAt
     /\ disk[t].revoked => disk'[t].revoked

\* What a step of r (NoRequest: of the surroundings) leaves alone: the records of
\* the other requests and the rows they hold; and it adds no row that a recovery
\* about to commit would have had to look at.
Frame(r) ==
  /\ \A s \in Request \ {r} : req'[s] = req[s]
  /\ \A t \in Token : lock[t] \notin {r, NoRequest} =>
       lock'[t] = lock[t] /\ draft'[t] = draft[t] /\ disk'[t] = disk[t]
  /\ \A t \in Token : lock'[t] \notin {r, NoRequest} => lock'[t] = lock[t]
  /\ \A t \in minted : Shrinks(t)
  /\ minted \subseteq minted' /\ now <= now'
  /\ \A s \in Request \ {r}, t \in Token \ minted :
       req[s].pc = "recoverUndo" => ~Undelivered(s, t, disk'[t])

\* Then the rows of the other holders and the records of the other requests stay
\* in order.
LEMMA FrameHolds ==
  ASSUME LineageInv, TypeOK', NEW r \in Request \cup {NoRequest}, Frame(r)
  PROVE  /\ \A s \in Request \ {r} : RequestOK(s)'
         /\ \A t \in Token : lock'[t] \notin {r, NoRequest} => LockOK(t)'
<1>1. ASSUME NEW s \in Request \ {r} PROVE RequestOK(s)'
  <2> DEFINE q == req[s]
  <2>1. q' = q /\ q \in RequestRecord /\ RequestOK(s)
    BY DEF Frame, LineageInv, TypeOK, RequestsOK
  <2>2. q.pc \notin Ended => q.tok \in minted /\ q.tok \in minted' /\ q.tok \in Token
    BY <2>1, RequestFields DEF RequestOK, Frame
  <2>3. q.pc \notin Ended => Shrinks(q.tok)
    BY <2>2 DEF Frame
  <2>4. q.pc \in HoldsRow \cup {"claim", "mint"} \cup Recovering => q.pc \notin Ended
    BY DEF HoldsRow, Recovering, Ended
  <2>5. q.pc \in HoldsRow /\ Exists(disk'[q.tok]) => q.row.family = disk'[q.tok].family
    BY <2>1, <2>3, <2>4 DEF RequestOK, Shrinks, Exists, NoRow
  <2>6. q.pc \in Recovering \cup {"mint"} => lock'[q.tok] = s
    BY <2>1, <2>2, <2>4, NamesAssumption DEF RequestOK, Frame
  <2>7. q.pc \in {"claim", "mint"} =>
          q.at # Never /\ q.at <= now' /\ disk'[q.tok].issuedAt <= q.at
    <3> SUFFICES ASSUME q.pc \in {"claim", "mint"}
                 PROVE  q.at <= now' /\ disk'[q.tok].issuedAt <= q.at
      BY <2>1 DEF RequestOK
    <3>1. disk[q.tok].issuedAt <= q.at /\ q.at <= now /\ q.at # Never /\ q.at \in Instant
      BY <2>1, RequestFields DEF RequestOK
    <3>2. now \in Int /\ now' \in Int /\ now <= now'
      BY EnvAssumption DEF LineageInv, TypeOK, Frame
    <3> QED  BY <2>3, <2>4, <3>1, <3>2 DEF Shrinks, NoRow, Never, Instant
  <2>8. q.pc = "recoverUndo" => \A t \in Token : Undelivered(s, t, disk'[t]) => lock'[t] = s
    <3> SUFFICES ASSUME q.pc = "recoverUndo", NEW t \in Token, Undelivered(s, t, disk'[t])
                 PROVE  lock'[t] = s
      OBVIOUS
    <3>1. t \in minted
      BY DEF Frame
    <3>2. Undelivered(s, t, disk[t])
      BY <3>1 DEF Frame, Shrinks, Undelivered, Successor, Exists, NoRow
    <3> QED  BY <2>1, <3>2, NamesAssumption DEF RequestOK, Frame
  <2>9. \A t \in Token : Undelivered(s, t, disk[t])' <=> Undelivered(s, t, disk'[t])
    BY <2>1 DEF Undelivered, Successor
  <2> QED  BY <2>1, <2>2, <2>5, <2>6, <2>7, <2>8, <2>9 DEF RequestOK
<1>2. ASSUME NEW t \in Token, lock'[t] \notin {r, NoRequest} PROVE LockOK(t)'
  <2>1. lock'[t] = lock[t] /\ draft'[t] = draft[t] /\ disk'[t] = disk[t]
    BY <1>2 DEF Frame
  <2>2. req'[lock[t]] = req[lock[t]]
    BY <1>2, <2>1 DEF Frame, LineageInv, TypeOK
  <2> QED  BY <2>1, <2>2 DEF LineageInv, LocksOK, LockOK, Free, Exists, Current, Unrevoked
<1> QED  BY <1>1, <1>2

\* A step that moves request r on and changes neither rows nor locks only has to
\* account for r's own record and for the rows r holds.
LEMMA LocalStep ==
  ASSUME LineageInv, TypeOK', NEW r \in Request, NEW q, Put(r, q), UNCHANGED <<db, minted, now>>,
         known' \subseteq minted, RequestOK(r)', \A t \in Token : lock[t] = r => LockOK(t)'
  PROVE  LineageInv'
<1>1. req'[r] = q /\ \A s \in Request \ {r} : req'[s] = req[s]
  BY DEF Put, LineageInv, TypeOK
<1>2. \A s \in Request, t \in Token : disk[t] = NoRow => ~Undelivered(s, t, disk'[t])
  BY DEF Undelivered, Successor, Exists, NoRow, db
<1>3. Frame(r)
  BY <1>1, <1>2, EnvAssumption DEF Frame, Shrinks, db, LineageInv, RowsOK, TypeOK
<1>4. RequestsOK' /\ LocksOK'
  <2>1. \A t \in Token : lock[t] = NoRequest => LockOK(t)'
    BY DEF LockOK, Free, db
  <2> QED  BY <1>3, <2>1, FrameHolds DEF RequestsOK, LocksOK, db
<1>5. RowsOK' /\ Lineage'
  <2>1. RowsOK /\ Lineage
    BY DEF LineageInv
  <2>2. RowsOK'
    BY <2>1 DEF RowsOK, db, Free, NoRow
  <2>3. Lineage'
    BY <2>1 DEF Lineage, db, Unrevoked, Exists
  <2> QED  BY <2>2, <2>3
<1> QED  BY <1>4, <1>5 DEF LineageInv

\* The same for a request that holds no row.
LEMMA FreeLocalStep ==
  ASSUME LineageInv, TypeOK', NEW r \in Request, NEW q, Put(r, q), UNCHANGED <<db, minted, now>>,
         known' \subseteq minted, RequestOK(r)', req[r].pc \notin Sweeping \cup {"mint"}
  PROVE  LineageInv'
<1>1. \A t \in Token : lock[t] # r
  BY HoldsNothing DEF LineageInv
<1> QED  BY <1>1, LocalStep

\* A record that waits at no particular point asks nothing but a minted token.
LEMMA PlainRecord ==
  ASSUME NEW r \in Request,
         req'[r].pc \notin HoldsRow, req'[r].pc \notin Ended => req'[r].tok \in minted'
  PROVE  RequestOK(r)'
BY DEF RequestOK, HoldsRow, Recovering

\* Requests that end outside a transaction.
LEMMA EndFree ==
  ASSUME LineageInv, TypeOK', NEW r \in Request, Finish(r) \/ Refuse(r),
         UNCHANGED <<db, minted, now>>, known' \subseteq minted,
         req[r].pc \notin Sweeping \cup {"mint"}
  PROVE  LineageInv'
<1> DEFINE done == NewRequest("refused", "get", NoToken)
<1>1. PICK q \in {IdleRequest, done} : Put(r, q)
  BY DEF Finish, Refuse
<1>2. req'[r] = q /\ q.pc \in Ended
  BY <1>1 DEF Put, LineageInv, TypeOK, IdleRequest, NewRequest, Ended
<1>3. RequestOK(r)'
  BY <1>2, PlainRecord DEF HoldsRow, Recovering, Ended
<1> QED  BY <1>1, <1>3, FreeLocalStep

----------------------------------------------------------------------------
(***************************************************************************)
(* Steps outside a transaction.                                            *)
(***************************************************************************)
\* What a request in the middle of a call knows before it moves.
LEMMA Busy ==
  ASSUME LineageInv, NEW r \in Request, req[r].pc \notin Ended
  PROVE  /\ RequestOK(r) /\ req[r] \in RequestRecord
         /\ req[r].tok \in Token /\ req[r].tok \in minted /\ disk[req[r].tok] \in Row
         /\ req[r].row \in Row /\ req[r].at \in Instant
         /\ \A q : Put(r, q) => req'[r] = q
BY RequestFields DEF LineageInv, TypeOK, RequestsOK, RequestOK, Put

\* A token that resolved: the row copied agrees with the row it was read from.
LEMMA ResolvedFree ==
  ASSUME LineageInv, TypeOK', NEW r \in Request, NEW row, Resolved(r, row),
         UNCHANGED <<db, minted, now, known>>,
         req[r].pc \notin Sweeping \cup {"mint"} \cup Ended,
         Exists(disk[req[r].tok]) => row.family = disk[req[r].tok].family
  PROVE  LineageInv'
<1>1. CASE req[r].kind = "get"
  <2>1. known \subseteq minted
    BY DEF LineageInv, RowsOK
  <2> QED  BY <1>1, <2>1, EndFree DEF Resolved
<1>2. CASE req[r].kind # "get"
  <2> DEFINE pc == AfterResolve(req[r].kind)
             q == [req[r] EXCEPT !.pc = pc, !.row = row]
  <2>1. Put(r, q) /\ req'[r] = q
    BY <1>2, Busy DEF Resolved
  <2>2. pc \in {"due", "keep", "idle"}
    BY DEF AfterResolve
  <2>3. q.pc = pc /\ q.row = row /\ q.tok = req[r].tok /\ q.tok \in minted
    BY Busy DEF RequestRecord
  <2>4. RequestOK(r)'
    BY <2>1, <2>2, <2>3 DEF RequestOK, HoldsRow, Recovering, Exists, db
  <2>5. known' \subseteq minted
    BY DEF LineageInv, RowsOK
  <2> QED  BY <2>1, <2>4, <2>5, FreeLocalStep
<1> QED  BY <1>1, <1>2

\* Each step of resolveSession but the first-use stamp.
LEMMA ResolveLineage ==
  ASSUME LineageInv, TypeOK', NEW r \in Request,
         ResolveCurrent(r) \/ ResolveSuperseded(r) \/ CheckSuccessors(r) \/ Contested(r)
  PROVE  LineageInv'
<1> DEFINE t == req[r].tok
<1>1. req[r].pc \in {"resolve", "superseded", "successors", "contested"}
  BY DEF ResolveCurrent, ResolveSuperseded, CheckSuccessors, Contested
<1>2. req[r].pc \notin Sweeping \cup {"mint"} \cup Ended
  BY <1>1 DEF Sweeping, Recovering, Ended
<1>3. UNCHANGED <<db, minted, now, known>> /\ known' \subseteq minted
  BY DEF ResolveCurrent, ResolveSuperseded, CheckSuccessors, Contested, env, LineageInv, RowsOK
<1>4. CASE Finish(r) \/ Refuse(r)
  BY <1>2, <1>3, <1>4, EndFree
<1>5. CASE Resolved(r, disk[t])
  BY <1>2, <1>3, <1>5, ResolvedFree
<1>6. ASSUME NEW pc \in {"superseded", "revoke"}, Goto(r, pc) PROVE LineageInv'
  <2> DEFINE q == [req[r] EXCEPT !.pc = pc, !.todo = {}, !.hit = FALSE]
  <2>1. Put(r, q) /\ req'[r] = q /\ q.pc = pc /\ q.tok \in minted
    BY <1>2, <1>6, Busy DEF Goto, RequestRecord
  <2>2. RequestOK(r)'
    BY <1>3, <2>1, PlainRecord DEF HoldsRow, Recovering
  <2> QED  BY <1>2, <1>3, <2>1, <2>2, FreeLocalStep
<1>7. CASE Put(r, [req[r] EXCEPT !.pc = "stamp", !.row = disk[t]])
  <2> DEFINE q == [req[r] EXCEPT !.pc = "stamp", !.row = disk[t]]
  <2>1. req'[r] = q /\ q.pc = "stamp" /\ q.tok = t /\ t \in minted /\ q.row = disk[t]
    BY <1>2, <1>7, Busy DEF RequestRecord
  <2>2. RequestOK(r)'
    BY <1>3, <2>1 DEF RequestOK, Recovering, db
  <2> QED  BY <1>2, <1>3, <1>7, <2>2, FreeLocalStep
<1>8. CASE /\ Put(r, [req[r] EXCEPT !.pc = "successors", !.row = disk[t], !.at = disk[t].rotatedAt])
           /\ Retired(disk[t])
  <2> DEFINE q == [req[r] EXCEPT !.pc = "successors", !.row = disk[t], !.at = disk[t].rotatedAt]
  <2>1. /\ req'[r] = q /\ q.pc = "successors" /\ q.tok = t /\ t \in minted /\ q.row = disk[t]
        /\ q.at = disk[t].rotatedAt
    BY <1>2, <1>8, Busy DEF RequestRecord
  <2>2. RequestOK(r)'
    BY <1>3, <1>8, <2>1 DEF RequestOK, Recovering, db, Retired
  <2> QED  BY <1>2, <1>3, <1>8, <2>2, FreeLocalStep
<1>9. CASE Goto(r, "recoverClaim") /\ req[r].pc = "successors"
  <2> DEFINE q == [req[r] EXCEPT !.pc = "recoverClaim", !.todo = {}, !.hit = FALSE]
  <2>1. /\ Put(r, q) /\ req'[r] = q /\ q.pc = "recoverClaim" /\ q.tok = t /\ t \in minted
        /\ q.row = req[r].row /\ q.at = req[r].at
    BY <1>2, <1>9, Busy DEF Goto, RequestRecord
  <2>2. RequestOK(r)
    BY <1>2, Busy
  <2>3. RequestOK(r)'
    BY <1>3, <1>9, <2>1, <2>2 DEF RequestOK, HoldsRow, Recovering, db, Exists
  <2> QED  BY <1>2, <1>3, <2>1, <2>3, FreeLocalStep
<1> QED  BY <1>4, <1>5, <1>6, <1>7, <1>8, <1>9
         DEF ResolveCurrent, ResolveSuperseded, CheckSuccessors, Contested

\* rotateSession outside its transaction, and the answer.
LEMMA RotateLineage ==
  ASSUME LineageInv, TypeOK', NEW r \in Request, CheckAge(r) \/ ReadLostClaim(r) \/ Deliver(r)
  PROVE  LineageInv'
<1>1. req[r].pc \in {"due", "claimLost", "answer"}
  BY DEF CheckAge, ReadLostClaim, Deliver
<1>2. req[r].pc \notin Sweeping \cup {"mint"} \cup Ended
  BY <1>1 DEF Sweeping, Recovering, Ended
<1>3. UNCHANGED <<db, minted, now>> /\ known' \subseteq minted
  BY <1>2, Busy DEF CheckAge, ReadLostClaim, Deliver, env, LineageInv, RowsOK
<1>4. CASE Finish(r) \/ Refuse(r)
  BY <1>2, <1>3, <1>4, EndFree
<1>5. CASE Put(r, [req[r] EXCEPT !.pc = "claim", !.at = now]) /\ req[r].pc = "due"
  <2> DEFINE q == [req[r] EXCEPT !.pc = "claim", !.at = now]
             t == req[r].tok
  <2>1. /\ req'[r] = q /\ q.pc = "claim" /\ q.tok = t /\ t \in minted /\ t \in Token
        /\ q.row = req[r].row /\ q.at = now
    BY <1>2, <1>5, Busy DEF RequestRecord
  <2>2. RequestOK(r) /\ disk[t].issuedAt <= now /\ now # Never /\ now <= now /\ now' = now
    BY <1>2, <1>3, <2>1, Busy, EnvAssumption DEF LineageInv, RowsOK, TypeOK, Never
  <2>3. RequestOK(r)'
    BY <1>3, <1>5, <2>1, <2>2 DEF RequestOK, HoldsRow, Recovering, db, Exists
  <2> QED  BY <1>2, <1>3, <1>5, <2>3, FreeLocalStep
<1> QED  BY <1>4, <1>5 DEF CheckAge, ReadLostClaim, Deliver

\* The steps of a sign-out and of a sign-out everywhere that only read.
LEMMA RevokeReadLineage ==
  ASSUME LineageInv, TypeOK', NEW r \in Request,
         SignOut(r) \/ StartRevokePass(r) \/ FindKept(r) \/ ReadFamilies(r)
  PROVE  LineageInv'
<1>1. req[r].pc \in {"signOut", "revoke", "keep", "families"}
  BY DEF SignOut, StartRevokePass, FindKept, ReadFamilies
<1>2. req[r].pc \notin Sweeping \cup {"mint"} \cup Ended
  BY <1>1 DEF Sweeping, Recovering, Ended
<1>3. UNCHANGED <<db, minted, now>> /\ known' \subseteq minted
  BY DEF SignOut, StartRevokePass, FindKept, ReadFamilies, env, LineageInv, RowsOK
<1>4. CASE Finish(r) \/ Refuse(r)
  BY <1>2, <1>3, <1>4, EndFree
<1>5. ASSUME NEW q \in RequestRecord, Put(r, q), q.tok = req[r].tok,
             q.pc \in {"revoke", "revokeSweep", "families", "allPass"}
      PROVE  LineageInv'
  <2>1. req'[r] = q /\ q.tok \in minted
    BY <1>2, <1>5, Busy
  <2>2. RequestOK(r)'
    BY <1>3, <1>5, <2>1, PlainRecord DEF HoldsRow, Recovering
  <2> QED  BY <1>2, <1>3, <1>5, <2>2, FreeLocalStep
<1>6. ASSUME NEW q, Put(r, q) PROVE q \in RequestRecord
  BY <1>2, <1>6, Busy DEF TypeOK
<1>7. req[r] \in RequestRecord
  BY DEF LineageInv, TypeOK
<1>8. CASE SignOut(r)
  <2> DEFINE q == [req[r] EXCEPT !.pc = "revoke", !.row = disk[req[r].tok]]
  <2>1. q.tok = req[r].tok /\ q.pc = "revoke"
    BY <1>7 DEF RequestRecord
  <2> QED  BY <1>4, <1>5, <1>6, <1>8, <2>1 DEF SignOut
<1>9. CASE StartRevokePass(r)
  <2> DEFINE rows == {t \in Token : InFamily(r, disk[t])}
             q == [req[r] EXCEPT !.pc = "revokeSweep", !.todo = rows, !.hit = FALSE]
  <2>1. q.tok = req[r].tok /\ q.pc = "revokeSweep"
    BY <1>7 DEF RequestRecord
  <2> QED  BY <1>4, <1>5, <1>6, <1>9, <2>1 DEF StartRevokePass, EndRevoke
<1>10. CASE FindKept(r)
  <2> DEFINE kept == [req[r] EXCEPT !.pc = "families", !.row = disk[req[r].tok], !.at = now]
             none == [req[r] EXCEPT !.pc = "families", !.row = NoRow, !.at = now]
  <2>1. kept.tok = req[r].tok /\ kept.pc = "families" /\ none.tok = req[r].tok /\ none.pc = "families"
    BY <1>7 DEF RequestRecord
  <2>2. Put(r, kept) \/ Put(r, none) \/ Refuse(r)
    BY <1>10 DEF FindKept
  <2> QED  BY <1>4, <1>5, <1>6, <2>1, <2>2
<1>11. CASE ReadFamilies(r)
  <2> DEFINE F == {disk[t].family : t \in {u \in Token : OnAccount(r, disk[u])}}
             q == [req[r] EXCEPT !.pc = "allPass", !.fams = F]
  <2>1. q.tok = req[r].tok /\ q.pc = "allPass"
    BY <1>7 DEF RequestRecord
  <2> QED  BY <1>5, <1>6, <1>11, <2>1 DEF ReadFamilies
<1> QED  BY <1>8, <1>9, <1>10, <1>11

----------------------------------------------------------------------------
(***************************************************************************)
(* Locks and the end of transactions.                                      *)
(***************************************************************************)
\* A step that locks one more row leaves the committed rows alone.
LEMMA LockStep ==
  ASSUME LineageInv, TypeOK', NEW r \in Request, NEW q, Put(r, q),
         NEW t \in Token, NEW row, Free(t), Write(r, t, row), UNCHANGED env,
         RequestOK(r)', Exists(disk[t]), LockOK(t)', \A u \in Token : lock[u] = r => LockOK(u)'
  PROVE  LineageInv'
<1>1. \A s \in Request \ {r} : req'[s] = req[s]
  BY DEF Put, LineageInv, TypeOK
<1>2. /\ disk' = disk /\ minted' = minted /\ known' = known /\ now' = now
      /\ lock'[t] = r /\ \A u \in Token \ {t} : lock'[u] = lock[u] /\ draft'[u] = draft[u]
  BY DEF Write, env, LineageInv, TypeOK
<1>3. RowsOK /\ Lineage /\ now \in Int
  BY EnvAssumption DEF LineageInv, TypeOK
<1>4. \A s \in Request, u \in Token : disk[u] = NoRow => ~Undelivered(s, u, disk'[u])
  BY <1>2 DEF Undelivered, Successor, Exists, NoRow
<1>5. Frame(r)
  BY <1>1, <1>2, <1>3, <1>4 DEF Frame, Shrinks, RowsOK, Free
<1>6. RequestsOK' /\ LocksOK'
  <2>1. \A u \in Token : lock'[u] = NoRequest => LockOK(u)'
    BY DEF LockOK, Free
  <2>2. \A u \in Token : lock'[u] = r => LockOK(u)'
    BY <1>2
  <2> QED  BY <1>5, <2>1, <2>2, FrameHolds DEF RequestsOK, LocksOK
<1>7. RowsOK'
  <2>1. disk[t] # NoRow
    BY DEF Exists, NoRow
  <2>2. \A u \in Token \ minted : disk[u] = NoRow /\ Free(u) /\ u # t
    BY <1>3, <2>1 DEF RowsOK
  <2>3. \A u \in Token \ minted : Free(u)'
    BY <1>2, <2>2 DEF Free
  <2> QED  BY <1>2, <1>3, <2>3 DEF RowsOK
<1>8. Lineage'
  BY <1>2, <1>3 DEF Lineage, Unrevoked, Exists
<1> QED  BY <1>6, <1>7, <1>8 DEF LineageInv

\* The end of a transaction: r holds nothing any more, and of the rows it held
\* some shrank.
LEMMA ReleaseStep ==
  ASSUME LineageInv, TypeOK', NEW r \in Request, NEW q, Put(r, q), Release(r), UNCHANGED env,
         \A t \in Token : disk'[t] = disk[t] \/ (lock[t] = r /\ Shrinks(t)),
         RequestOK(r)', Lineage'
  PROVE  LineageInv'
<1>1. \A s \in Request \ {r} : req'[s] = req[s]
  BY DEF Put, LineageInv, TypeOK
<1>2. /\ minted' = minted /\ known' = known /\ now' = now
      /\ \A t \in Token : /\ lock'[t] = IF lock[t] = r THEN NoRequest ELSE lock[t]
                          /\ lock[t] # r => draft'[t] = draft[t]
      /\ \A t \in Token : lock'[t] # r
  BY NamesAssumption DEF Release, env
<1>3. RowsOK /\ r # NoRequest
  BY NamesAssumption DEF LineageInv
<1>4. \A t \in Token : Shrinks(t)
  BY DEF Shrinks
<1>5. \A s \in Request, t \in Token \ minted : ~Undelivered(s, t, disk'[t])
  BY <1>3 DEF RowsOK, Free, Undelivered, Successor, Exists, NoRow
<1>6. Frame(r)
  BY <1>1, <1>2, <1>4, <1>5 DEF Frame, LineageInv, TypeOK
<1>7. RequestsOK' /\ LocksOK'
  <2>1. \A t \in Token : lock'[t] = NoRequest => LockOK(t)'
    BY DEF LockOK, Free
  <2> QED  BY <1>2, <1>6, <2>1, FrameHolds DEF RequestsOK, LocksOK
<1>8. RowsOK'
  <2>1. \A t \in Token : disk'[t].issuedAt <= now' /\ disk'[t].family \in minted' \cup {NoToken}
    BY <1>2, <1>3, <1>4 DEF RowsOK, Shrinks, NoRow, Never, LineageInv, TypeOK
  <2> QED  BY <1>2, <1>3, <2>1 DEF RowsOK, Free
<1> QED  BY <1>7, <1>8 DEF LineageInv

\* Rows that stay unrevoked and unchanged keep their order.
LEMMA RevokingKeepsLineage ==
  ASSUME LineageInv, \A t \in Token : Unrevoked(disk'[t]) => disk'[t] = disk[t]
  PROVE  Lineage'
BY DEF LineageInv, Lineage, Unrevoked, Exists

\* A transaction that only revokes, or that rolls back.
LEMMA RevokeStep ==
  ASSUME LineageInv, TypeOK', NEW r \in Request, NEW q, Put(r, q), Release(r), UNCHANGED env,
         \A t \in Token : \/ disk'[t] = disk[t]
                          \/ lock[t] = r /\ disk'[t] = [disk[t] EXCEPT !.revoked = TRUE],
         req'[r].pc \notin HoldsRow, req'[r].pc \notin Ended => req'[r].tok \in minted
  PROVE  LineageInv'
<1>1. \A t \in Token : disk[t] \in Row
  BY DEF LineageInv, TypeOK
<1>2. \A t \in Token : disk'[t] = disk[t] \/ (lock[t] = r /\ Shrinks(t))
  BY <1>1 DEF Shrinks, Row
<1>3. \A t \in Token : Unrevoked(disk'[t]) => disk'[t] = disk[t]
  BY <1>1 DEF Unrevoked, Exists, Row
<1>4. RequestOK(r)'
  BY PlainRecord DEF env
<1> QED  BY <1>2, <1>3, <1>4, ReleaseStep, RevokingKeepsLineage

\* What a revoking transaction commits.
LEMMA RevokeCommit ==
  ASSUME LineageInv, NEW r \in Request, Commit(r), req[r].pc \in {"revokeSweep", "allPass", "allSweep"}
  PROVE  \A t \in Token : \/ disk'[t] = disk[t]
                          \/ lock[t] = r /\ disk'[t] = [disk[t] EXCEPT !.revoked = TRUE]
<1>1. \A t \in Token : lock[t] = r => draft[t] = [disk[t] EXCEPT !.revoked = TRUE]
  BY NamesAssumption DEF LineageInv, LocksOK, LockOK, Free, Recovering
<1> QED  BY <1>1 DEF Commit, View

\* Commits of revoking transactions, and rollbacks.
LEMMA RevokersLineage ==
  ASSUME LineageInv, TypeOK', NEW r \in Request,
         EndRevokePass(r) \/ EndAllPass(r) \/ StartAllPass(r) \/ Fail(r) \/ DeadlockVictim(r)
  PROVE  LineageInv'
<1>1. req[r] \in RequestRecord /\ \A q : Put(r, q) => req'[r] = q
  BY DEF LineageInv, TypeOK, Put
<1>2. ASSUME Finish(r) \/ Refuse(r), Release(r), UNCHANGED env,
             disk' = disk \/ (Commit(r) /\ req[r].pc \in {"revokeSweep", "allPass", "allSweep"})
      PROVE  LineageInv'
  <2> DEFINE refused == NewRequest("refused", "get", NoToken)
  <2>1. PICK q \in {IdleRequest, refused} : Put(r, q)
    BY <1>2 DEF Finish, Refuse
  <2>2. q.pc \in Ended /\ q.pc \notin HoldsRow
    BY DEF IdleRequest, NewRequest, Ended, HoldsRow, Recovering
  <2> QED  BY <1>1, <1>2, <2>1, <2>2, RevokeCommit, RevokeStep
<1>3. CASE Fail(r) \/ DeadlockVictim(r)
  BY <1>2, <1>3 DEF Fail, DeadlockVictim
<1>4. CASE EndRevokePass(r)
  <2>1. CASE Goto(r, "revoke")
    <3> DEFINE q == [req[r] EXCEPT !.pc = "revoke", !.todo = {}, !.hit = FALSE]
    <3>1. Put(r, q) /\ req'[r] = q /\ q.pc = "revoke" /\ q.tok = req[r].tok
      BY <1>1, <2>1 DEF Goto, RequestRecord
    <3>2. q.tok \in minted /\ q.pc \notin HoldsRow
      BY <1>4, <3>1, Busy DEF EndRevokePass, Ended, HoldsRow, Recovering
    <3>3. Release(r) /\ UNCHANGED env /\ Commit(r)
      BY <1>4 DEF EndRevokePass, Commit
    <3> QED  BY <1>4, <3>1, <3>2, <3>3, RevokeCommit, RevokeStep DEF EndRevokePass
  <2> QED  BY <1>2, <1>4, <2>1 DEF EndRevokePass, EndRevoke, Commit
<1>5. ASSUME NEW q, Put(r, q), UNCHANGED <<db, env>>,
             req[r].pc \in {"allPass", "allSweep"}, q.pc \in {"allPass", "allSweep"}, q.tok = req[r].tok
      PROVE  LineageInv'
  <2>1. req'[r] = q /\ q.tok \in minted
    BY <1>5, Busy DEF Ended
  <2>2. RequestOK(r)'
    BY <1>5, <2>1, PlainRecord DEF HoldsRow, Recovering, env
  <2>3. \A t \in Token : lock[t] = r => LockOK(t)'
    BY <1>5, <2>1 DEF LineageInv, LocksOK, LockOK, Free, Sweeping, Recovering, db, Exists
  <2>4. known' \subseteq minted /\ UNCHANGED <<db, minted, now>>
    BY <1>5 DEF LineageInv, RowsOK, env
  <2> QED  BY <1>5, <2>2, <2>3, <2>4, LocalStep
<1>6. CASE StartAllPass(r)
  <2> DEFINE rows == {t \in Token : OnAccount(r, View(r, t))}
             q == [req[r] EXCEPT !.pc = "allSweep", !.todo = rows, !.hit = FALSE]
  <2>1. q.pc = "allSweep" /\ q.tok = req[r].tok
    BY <1>1 DEF RequestRecord
  <2> QED  BY <1>2, <1>5, <1>6, <2>1 DEF StartAllPass, Commit
<1>7. CASE EndAllPass(r)
  <2> DEFINE q == [req[r] EXCEPT !.pc = "allPass", !.todo = {}, !.hit = FALSE]
  <2>1. q.pc = "allPass" /\ q.tok = req[r].tok
    BY <1>1 DEF RequestRecord
  <2> QED  BY <1>2, <1>5, <1>7, <2>1 DEF EndAllPass, Commit, Goto
<1> QED  BY <1>3, <1>4, <1>6, <1>7

----------------------------------------------------------------------------
(***************************************************************************)
(* Claims, and reads inside a recovery.                                    *)
(***************************************************************************)
\* The fields a request keeps while it moves on inside a call.
LEMMA GotoFields ==
  ASSUME NEW q \in RequestRecord, NEW pc
  PROVE  LET p == [q EXCEPT !.pc = pc, !.todo = {}, !.hit = FALSE]
         IN  p.pc = pc /\ p.tok = q.tok /\ p.row = q.row /\ p.at = q.at
BY DEF RequestRecord

\* The claim of a recovery.
LEMMA RecoverClaimLineage ==
  ASSUME LineageInv, TypeOK', NEW r \in Request, RecoverClaim(r)
  PROVE  LineageInv'
<1>1. req[r].pc = "recoverClaim" /\ UNCHANGED env
  BY DEF RecoverClaim
<1>2. req[r].pc \notin Sweeping \cup {"mint"} \cup Ended
  BY <1>1 DEF Sweeping, Recovering, Ended
<1> PICK t \in Token : t = req[r].tok
  BY <1>2, Busy
<1>3. /\ RequestOK(r) /\ req[r] \in RequestRecord /\ t \in minted
      /\ \A q : Put(r, q) => req'[r] = q
  BY <1>2, Busy
<1>4. req[r].at # Never /\ (Exists(disk[t]) => req[r].row.family = disk[t].family)
  BY <1>1, <1>3 DEF RequestOK, HoldsRow
<1>5. CASE /\ Unrevoked(disk[t]) /\ disk[t].rotatedAt = req[r].at /\ Free(t)
           /\ Write(r, t, [disk[t] EXCEPT !.rotatedAt = Never]) /\ Goto(r, "recoverSnapshot")
  <2> DEFINE q == [req[r] EXCEPT !.pc = "recoverSnapshot", !.todo = {}, !.hit = FALSE]
             row == [disk[t] EXCEPT !.rotatedAt = Never]
  <2>1. /\ Put(r, q) /\ req'[r] = q /\ q.pc = "recoverSnapshot" /\ q.tok = t
        /\ q.row = req[r].row /\ q.at = req[r].at
    BY <1>3, <1>5, GotoFields DEF Goto
  <2>2. disk' = disk /\ lock'[t] = r /\ draft'[t] = row /\ minted' = minted
    BY <1>1, <1>3, <1>5 DEF Write, env, LineageInv, TypeOK
  <2>3. RequestOK(r)'
    BY <1>3, <1>4, <2>1, <2>2 DEF RequestOK, HoldsRow, Recovering
  <2>4. Exists(disk[t]) /\ LockOK(t)'
    <3>1. Exists(disk[t])
      BY <1>5 DEF Unrevoked
    <3>2. req'[lock'[t]] = q /\ draft'[t] = [disk'[t] EXCEPT !.rotatedAt = Never]
      BY <2>1, <2>2
    <3>3. q.pc \in Recovering /\ t = q.tok /\ Unrevoked(disk'[t]) /\ disk'[t].rotatedAt = q.at
      BY <1>5, <2>1, <2>2 DEF Recovering
    <3>4. Exists(disk'[t])
      BY <2>2, <3>1
    <3> QED  BY <3>1, <3>2, <3>3, <3>4 DEF LockOK, Unrevoked, Exists
  <2>5. \A u \in Token : lock[u] # r
    BY <1>2, HoldsNothing DEF LineageInv
  <2> QED  BY <1>1, <1>3, <1>5, <2>1, <2>3, <2>4, <2>5, LockStep
<1>6. CASE Goto(r, "contested") /\ UNCHANGED db
  <2> DEFINE q == [req[r] EXCEPT !.pc = "contested", !.todo = {}, !.hit = FALSE]
  <2>1. /\ Put(r, q) /\ req'[r] = q /\ q.pc = "contested" /\ q.tok = t
        /\ q.row = req[r].row /\ q.at = req[r].at
    BY <1>3, <1>6, GotoFields DEF Goto
  <2>2. UNCHANGED <<db, minted, now>> /\ known' \subseteq minted
    BY <1>1, <1>6 DEF env, LineageInv, RowsOK
  <2>3. RequestOK(r)'
    BY <1>3, <1>4, <2>1, <2>2 DEF RequestOK, HoldsRow, Recovering, db, Exists
  <2> QED  BY <1>2, <2>1, <2>2, <2>3, FreeLocalStep
<1> QED  BY <1>5, <1>6 DEF RecoverClaim

\* The claim of a rotation.
LEMMA ClaimRotationLineage ==
  ASSUME LineageInv, TypeOK', NEW r \in Request, ClaimRotation(r)
  PROVE  LineageInv'
<1>1. req[r].pc = "claim" /\ UNCHANGED env
  BY DEF ClaimRotation
<1>2. req[r].pc \notin Sweeping \cup {"mint"} \cup Ended
  BY <1>1 DEF Sweeping, Recovering, Ended
<1> PICK t \in Token : t = req[r].tok
  BY <1>2, Busy
<1>3. /\ RequestOK(r) /\ req[r] \in RequestRecord /\ t \in minted
      /\ \A q : Put(r, q) => req'[r] = q
  BY <1>2, Busy
<1>4. CASE /\ Current(disk[t]) /\ Free(t)
           /\ Write(r, t, [disk[t] EXCEPT !.rotatedAt = req[r].at]) /\ Goto(r, "mint")
  <2> DEFINE q == [req[r] EXCEPT !.pc = "mint", !.todo = {}, !.hit = FALSE]
             row == [disk[t] EXCEPT !.rotatedAt = req[r].at]
  <2>1. /\ Put(r, q) /\ req'[r] = q /\ q.pc = "mint" /\ q.tok = t
        /\ q.row = req[r].row /\ q.at = req[r].at
    BY <1>3, <1>4, GotoFields DEF Goto
  <2>2. disk' = disk /\ lock'[t] = r /\ draft'[t] = row /\ minted' = minted /\ now' = now
    BY <1>1, <1>3, <1>4 DEF Write, env, LineageInv, TypeOK
  <2>3. RequestOK(r)'
    BY <1>1, <1>3, <2>1, <2>2 DEF RequestOK, HoldsRow, Recovering, Exists
  <2>4. Exists(disk[t]) /\ LockOK(t)'
    <3>1. Exists(disk[t])
      BY <1>4 DEF Current, Unrevoked
    <3>2. req'[lock'[t]] = q /\ draft'[t] = [disk'[t] EXCEPT !.rotatedAt = q.at]
      BY <2>1, <2>2
    <3> QED  BY <1>4, <2>1, <2>2, <3>1, <3>2 DEF LockOK, Current, Unrevoked, Exists
  <2>5. \A u \in Token : lock[u] # r
    BY <1>2, HoldsNothing DEF LineageInv
  <2> QED  BY <1>1, <1>3, <1>4, <2>1, <2>3, <2>4, <2>5, LockStep
<1>5. CASE Goto(r, "claimLost") /\ UNCHANGED db
  <2> DEFINE q == [req[r] EXCEPT !.pc = "claimLost", !.todo = {}, !.hit = FALSE]
  <2>1. Put(r, q) /\ req'[r] = q /\ q.pc = "claimLost" /\ q.tok = t
    BY <1>3, <1>5, GotoFields DEF Goto
  <2>2. UNCHANGED <<db, minted, now>> /\ known' \subseteq minted
    BY <1>1, <1>5 DEF env, LineageInv, RowsOK
  <2>3. RequestOK(r)'
    BY <1>3, <2>1, <2>2, PlainRecord DEF HoldsRow, Recovering
  <2> QED  BY <1>2, <2>1, <2>2, <2>3, FreeLocalStep
<1> QED  BY <1>4, <1>5 DEF ClaimRotation

\* A recovery that reads while it holds the presented row: what it is about to
\* commit covers every unrevoked row issued since the retirement.
LEMMA RecoverReadLineage ==
  ASSUME LineageInv, TypeOK', NEW r \in Request, RecoverSnapshot(r) \/ RecoverCheck(r)
  PROVE  LineageInv'
<1>1. req[r].pc \in {"recoverSnapshot", "recoverSweep"} /\ UNCHANGED <<db, env>>
  BY DEF RecoverSnapshot, RecoverCheck
<1>2. /\ RequestOK(r) /\ req[r] \in RequestRecord /\ req[r].tok \in Token
      /\ \A q : Put(r, q) => req'[r] = q
  BY <1>1, Busy DEF Ended
<1>3. ASSUME NEW q, Put(r, q), q.tok = req[r].tok, q.row = req[r].row, q.at = req[r].at,
             q.pc \in Recovering,
             q.pc = "recoverUndo" => \A t \in Token : Undelivered(r, t, disk[t]) => lock[t] = r
      PROVE  LineageInv'
  <2>1. req'[r] = q
    BY <1>2, <1>3
  <2>2. \A t \in Token : Undelivered(r, t, disk[t])' <=> Undelivered(r, t, disk[t])
    BY <1>1, <1>3, <2>1 DEF Undelivered, Successor, db, Exists
  <2>3. RequestOK(r)'
    BY <1>1, <1>2, <1>3, <2>1, <2>2 DEF RequestOK, HoldsRow, Recovering, Ended, db, env, Exists
  <2>4. \A t \in Token : lock[t] = r => LockOK(t)'
    BY <1>1, <1>3, <2>1 DEF LineageInv, LocksOK, LockOK, Free, Sweeping, Recovering, db, Exists, Unrevoked
  <2>5. known' \subseteq minted /\ UNCHANGED <<db, minted, now>>
    BY <1>1 DEF LineageInv, RowsOK, env
  <2> QED  BY <1>3, <2>3, <2>4, <2>5, LocalStep
<1>4. CASE RecoverSnapshot(r)
  <2> DEFINE rows == {t \in Token : Undelivered(r, t, disk[t]) /\ ~disk[t].used}
             q == [req[r] EXCEPT !.pc = "recoverSweep", !.todo = rows]
  <2>1. q.pc = "recoverSweep" /\ q.tok = req[r].tok /\ q.row = req[r].row /\ q.at = req[r].at
    BY <1>2 DEF RequestRecord
  <2> QED  BY <1>3, <1>4, <2>1 DEF RecoverSnapshot, Recovering
<1>5. CASE RecoverCheck(r)
  <2>1. PICK pc \in {"recoverReuse", "recoverUndo"} :
          /\ Goto(r, pc)
          /\ pc = "recoverUndo" => ~\E t \in Token : Undelivered(r, t, View(r, t))
    BY <1>5 DEF RecoverCheck
  <2> DEFINE q == [req[r] EXCEPT !.pc = pc, !.todo = {}, !.hit = FALSE]
  <2>2. Put(r, q) /\ q.pc = pc /\ q.tok = req[r].tok /\ q.row = req[r].row /\ q.at = req[r].at
    BY <1>2, <2>1, GotoFields DEF Goto
  <2>3. pc = "recoverUndo" => \A t \in Token : Undelivered(r, t, disk[t]) => lock[t] = r
    BY <2>1 DEF View
  <2> QED  BY <1>3, <2>2, <2>3 DEF Recovering
<1> QED  BY <1>4, <1>5

\* One row of a multi-row UPDATE.
LEMMA SweepLineage ==
  ASSUME LineageInv, TypeOK', NEW r \in Request, NEW t \in Token, SweepRow(r, t)
  PROVE  LineageInv'
<1>1. req[r].pc \in {"recoverSweep", "revokeSweep", "allSweep"} /\ Free(t) /\ UNCHANGED env
  BY DEF SweepRow
<1>2. /\ RequestOK(r) /\ req[r] \in RequestRecord /\ disk[t] \in Row /\ r # NoRequest
      /\ \A q : Put(r, q) => req'[r] = q
  BY <1>1, Busy, NamesAssumption DEF Ended, LineageInv, TypeOK
<1>3. LocksOK /\ lock \in [Token -> Request \cup {NoRequest}] /\ draft \in [Token -> Row]
  BY DEF LineageInv, TypeOK
<1>4. CASE /\ Matches(r, t, disk[t]) /\ Write(r, t, [disk[t] EXCEPT !.revoked = TRUE])
           /\ Put(r, [req[r] EXCEPT !.todo = @ \ {t}, !.hit = TRUE])
  <2> DEFINE q == [req[r] EXCEPT !.todo = @ \ {t}, !.hit = TRUE]
             row == [disk[t] EXCEPT !.revoked = TRUE]
  <2>1. /\ Put(r, q) /\ req'[r] = q /\ q.pc = req[r].pc /\ q.tok = req[r].tok
        /\ q.row = req[r].row /\ q.at = req[r].at
    BY <1>2, <1>4 DEF RequestRecord
  <2>2. /\ disk' = disk /\ minted' = minted /\ lock'[t] = r /\ draft'[t] = row
        /\ \A u \in Token \ {t} : lock'[u] = lock[u] /\ draft'[u] = draft[u]
    BY <1>1, <1>3, <1>4 DEF Write, env
  <2>3. RequestOK(r)'
    <3>1. req[r].tok \in Token /\ req[r].tok \in minted
      BY <1>1, Busy DEF Ended
    <3>2. req[r].pc = "recoverSweep" => lock[req[r].tok] = r /\ lock'[req[r].tok] = r
      BY <1>2, <2>2, <3>1 DEF RequestOK, Recovering
    <3> HIDE DEF q
    <3> QED  BY <1>1, <1>2, <2>1, <2>2, <3>1, <3>2 DEF RequestOK, HoldsRow, Recovering, Exists
  <2>4. Exists(disk[t]) /\ (req[r].pc \in Recovering => t # req[r].tok)
    BY <1>1, <1>4 DEF Matches, Undelivered, Successor, InFamily, OnAccount, Unrevoked, Recovering
  <2>5. LockOK(t)'
    <3>1. req'[lock'[t]] = q /\ draft'[t] = [disk'[t] EXCEPT !.revoked = TRUE]
      BY <2>1, <2>2
    <3>2. q.pc \in Sweeping /\ (q.pc \in Recovering => t # q.tok) /\ Exists(disk'[t])
      BY <1>1, <2>1, <2>2, <2>4 DEF Sweeping, Recovering
    <3> HIDE DEF q, row
    <3> QED  BY <3>1, <3>2 DEF LockOK, Exists
  <2>6. ASSUME NEW u \in Token, lock[u] = r PROVE LockOK(u)'
    <3>1. u # t /\ lock'[u] = r /\ draft'[u] = draft[u] /\ LockOK(u)
      BY <1>1, <1>2, <1>3, <2>2, <2>6 DEF Free, LocksOK
    <3>2. req'[lock'[u]] = q /\ req[lock[u]] = req[r] /\ disk'[u] = disk[u]
      BY <2>1, <2>2, <3>1
    <3> HIDE DEF q, row
    <3> QED  BY <1>2, <2>1, <2>6, <3>1, <3>2 DEF LockOK, Free, Exists, Current, Unrevoked
  <2> QED  BY <1>1, <1>4, <2>1, <2>3, <2>4, <2>5, <2>6, LockStep
<1>5. CASE Put(r, [req[r] EXCEPT !.todo = @ \ {t}]) /\ UNCHANGED db
  <2> DEFINE q == [req[r] EXCEPT !.todo = @ \ {t}]
  <2>1. /\ Put(r, q) /\ req'[r] = q /\ q.pc = req[r].pc /\ q.tok = req[r].tok
        /\ q.row = req[r].row /\ q.at = req[r].at
    BY <1>2, <1>5 DEF RequestRecord
  <2>2. UNCHANGED <<db, minted, now>> /\ known' \subseteq minted
    BY <1>1, <1>5 DEF env, LineageInv, RowsOK
  <2>3. RequestOK(r)'
    BY <1>1, <1>2, <2>1, <2>2 DEF RequestOK, HoldsRow, Recovering, Ended, Exists, db
  <2>4. ASSUME NEW u \in Token, lock[u] = r PROVE LockOK(u)'
    <3>1. lock'[u] = r /\ draft'[u] = draft[u] /\ disk'[u] = disk[u] /\ LockOK(u)
      BY <1>3, <2>2, <2>4 DEF LocksOK, db
    <3>2. req'[lock'[u]] = q /\ req[lock[u]] = req[r]
      BY <2>1, <2>4, <3>1
    <3> HIDE DEF q
    <3> QED  BY <1>2, <2>1, <2>4, <3>1, <3>2 DEF LockOK, Free, Exists, Current, Unrevoked
  <2> QED  BY <2>1, <2>2, <2>3, <2>4, LocalStep
<1> QED  BY <1>4, <1>5 DEF SweepRow

----------------------------------------------------------------------------
(***************************************************************************)
(* The first-use stamp and the surroundings.                               *)
(***************************************************************************)
\* The first-use stamp: rows keep everything the lineage is about.
LEMMA StampLineage ==
  ASSUME LineageInv, TypeOK', NEW r \in Request, MarkFirstUse(r)
  PROVE  LineageInv'
<1>1. req[r].pc = "stamp" /\ UNCHANGED <<draft, lock, env>> /\ Resolved(r, req[r].row)
  BY DEF MarkFirstUse
<1>2. req[r].pc \notin Sweeping \cup {"mint"} \cup Ended
  BY <1>1 DEF Sweeping, Recovering, Ended
<1> PICK t \in Token : t = req[r].tok
  BY <1>2, Busy
<1>3. /\ RequestOK(r) /\ req[r] \in RequestRecord /\ t \in minted /\ disk \in [Token -> Row]
      /\ \A q : Put(r, q) => req'[r] = q
  BY <1>2, Busy DEF LineageInv, TypeOK
<1>4. disk' = disk \/ (Exists(disk[t]) /\ Free(t) /\ disk' = [disk EXCEPT ![t].used = TRUE])
  BY DEF MarkFirstUse
<1>5. \A u \in Token :
        /\ disk'[u].family = disk[u].family /\ disk'[u].issuedAt = disk[u].issuedAt
        /\ disk'[u].rotatedAt = disk[u].rotatedAt /\ disk'[u].revoked = disk[u].revoked
        /\ ~Free(u) => disk'[u] = disk[u]
  BY <1>3, <1>4 DEF Row
<1>6. RowsOK /\ LocksOK /\ Lineage /\ req \in [Request -> RequestRecord]
  BY DEF LineageInv, TypeOK
<1>7. \A s \in Request \ {r} : req'[s] = req[s]
  BY <1>1, <1>6 DEF Resolved, Finish, Put
<1>8. \A u \in Token : Exists(disk'[u]) <=> Exists(disk[u])
  BY <1>5 DEF Exists
<1>9. \A s \in Request, u \in Token \ minted : ~Undelivered(s, u, disk'[u])
  BY <1>6, <1>8 DEF RowsOK, Undelivered, Successor, Exists, NoRow
<1>10. Frame(r)
  BY <1>1, <1>5, <1>7, <1>9 DEF Frame, Shrinks, env, Free, LineageInv, TypeOK
<1>11. RequestOK(r)'
  <2>1. CASE req[r].kind = "get"
    <3>1. req'[r].pc \in Ended
      BY <1>3, <2>1, <1>1 DEF Resolved, Finish, IdleRequest, NewRequest, Ended
    <3> QED  BY <3>1, PlainRecord DEF HoldsRow, Recovering, Ended
  <2>2. CASE req[r].kind # "get"
    <3> DEFINE pc == AfterResolve(req[r].kind)
               q == [req[r] EXCEPT !.pc = pc, !.row = req[r].row]
    <3>1. req'[r] = q /\ pc \in {"due", "keep", "idle"}
      BY <1>1, <1>3, <2>2 DEF Resolved, AfterResolve
    <3>2. q.pc = pc /\ q.row = req[r].row /\ q.tok = t
      BY <1>3 DEF RequestRecord
    <3>3. Exists(disk[t]) => req[r].row.family = disk[t].family
      BY <1>1, <1>3 DEF RequestOK, HoldsRow
    <3> QED  BY <1>1, <1>3, <1>5, <1>8, <3>1, <3>2, <3>3 DEF RequestOK, HoldsRow, Recovering, env
  <2> QED  BY <2>1, <2>2
<1>12. RequestsOK' /\ LocksOK'
  <2>1. \A u \in Token : lock[u] # r
    BY <1>2, <1>6, HoldsNothing
  <2>2. \A u \in Token : lock'[u] = NoRequest => LockOK(u)'
    BY DEF LockOK, Free
  <2> QED  BY <1>1, <1>10, <1>11, <2>1, <2>2, FrameHolds DEF RequestsOK, LocksOK
<1>13. RowsOK'
  <2>1. \A u \in Token \ minted : disk'[u] = disk[u]
    BY <1>4, <1>3
  <2> QED  BY <1>1, <1>5, <1>6, <2>1 DEF RowsOK, env, Free
<1>14. Lineage'
  BY <1>5, <1>6, <1>8 DEF Lineage, Unrevoked
<1> QED  BY <1>12, <1>13, <1>14 DEF LineageInv

\* The surroundings change no request and no locked row.
LEMMA AroundStep ==
  ASSUME LineageInv, TypeOK', Frame(NoRequest), req' = req, lock' = lock, RowsOK', Lineage'
  PROVE  LineageInv'
<1>1. RequestsOK' /\ LocksOK'
  <2>1. \A u \in Token : lock'[u] = NoRequest => LockOK(u)'
    BY DEF LockOK, Free
  <2> QED  BY <2>1, FrameHolds, NamesAssumption DEF RequestsOK, LocksOK
<1> QED  BY <1>1 DEF LineageInv

\* A sign-in starts a family no row and no request belongs to yet.
LEMMA SignInLineageStep ==
  ASSUME LineageInv, TypeOK', NEW t \in Token, SignIn(t)
  PROVE  LineageInv'
<1> DEFINE row == NewRow(t, now, now + Ttl)
<1>1. /\ t \notin minted /\ UNCHANGED <<draft, lock, now, req>>
      /\ minted' = minted \cup {t} /\ known' = known \cup {t}
      /\ disk'[t] = row /\ \A u \in Token \ {t} : disk'[u] = disk[u]
  BY DEF SignIn, LineageInv, TypeOK
<1>2. /\ row.family = t /\ row.issuedAt = now /\ ~row.revoked /\ t # NoToken
      /\ NoRow.family = NoToken
  BY NamesAssumption DEF NewRow, NoRow
<1>3. RowsOK /\ LocksOK /\ RequestsOK /\ Lineage /\ minted \subseteq Token /\ now \in Nat
  BY EnvAssumption DEF LineageInv, TypeOK
<1>4. \A s \in Request : req[s].pc = "recoverUndo" => req[s].row.family \in minted
  <2> SUFFICES ASSUME NEW s \in Request, req[s].pc = "recoverUndo"
               PROVE  req[s].row.family \in minted
    OBVIOUS
  <2>1. RequestOK(s) /\ req[s].tok \in Token
    BY Busy DEF Ended
  <2>2. lock[req[s].tok] = s /\ Exists(disk[req[s].tok])
    BY <1>3, <2>1, NamesAssumption DEF RequestOK, Recovering, LocksOK, LockOK, Free
  <2> QED  BY <1>3, <2>1, <2>2 DEF RequestOK, HoldsRow, Recovering, RowsOK, Exists
<1>5. \A s \in Request, u \in Token \ minted :
        req[s].pc = "recoverUndo" => ~Undelivered(s, u, disk'[u])
  BY <1>1, <1>2, <1>3, <1>4 DEF RowsOK, Undelivered, Successor, Exists
<1>6. Frame(NoRequest)
  BY <1>1, <1>3, <1>5 DEF Frame, Shrinks, RowsOK, Free
<1>7. RowsOK'
  BY <1>1, <1>2, <1>3 DEF RowsOK, Free
<1>8. Lineage'
  <2>1. \A u \in Token \ {t} : Exists(disk'[u]) => disk'[u].family # t
    BY <1>1, <1>3 DEF RowsOK, Exists
  <2> QED  BY <1>1, <1>2, <1>3, <2>1 DEF Lineage, Unrevoked
<1> QED  BY <1>1, <1>6, <1>7, <1>8, AroundStep

\* The clock, account deletion and the pruner.
LEMMA SurroundingsLineage ==
  ASSUME LineageInv, TypeOK', Tick \/ DeleteUser \/ (\E t \in Token : Prune(t))
  PROVE  LineageInv'
<1>1. RowsOK /\ Lineage /\ minted \subseteq Token /\ disk \in [Token -> Row]
      /\ now \in Nat /\ NoRow.family = NoToken /\ NoRow.issuedAt = Never
  BY EnvAssumption DEF LineageInv, TypeOK, NoRow
<1>2. \A s \in Request, u \in Token \ minted : disk'[u] = NoRow => ~Undelivered(s, u, disk'[u])
  BY <1>1 DEF Undelivered, Successor, Exists
<1>3. CASE Tick \/ DeleteUser
  <2>1. /\ UNCHANGED <<disk, draft, lock, minted, known, req>>
        /\ now' \in Nat /\ now <= now'
    BY <1>1, <1>3 DEF Tick, DeleteUser
  <2>2. Frame(NoRequest)
    BY <1>1, <1>2, <2>1 DEF Frame, Shrinks, RowsOK
  <2>3. RowsOK'
    <3>1. \A u \in Token : disk[u].issuedAt \in Int
      BY <1>1 DEF Row, Instant, Never
    <3> QED  BY <1>1, <2>1, <3>1 DEF RowsOK, Free
  <2>4. Lineage'
    BY <1>1, <2>1 DEF Lineage, Unrevoked, Exists
  <2> QED  BY <2>1, <2>2, <2>3, <2>4, AroundStep
<1>4. ASSUME NEW t \in Token, Prune(t) PROVE LineageInv'
  <2>1. /\ UNCHANGED <<draft, lock, minted, known, now, req>> /\ Free(t)
        /\ disk'[t] = NoRow /\ \A u \in Token \ {t} : disk'[u] = disk[u]
    BY <1>1, <1>4 DEF Prune
  <2>2. Frame(NoRequest)
    BY <1>1, <1>2, <2>1 DEF Frame, Shrinks, RowsOK, Free
  <2>3. RowsOK'
    BY <1>1, <2>1 DEF RowsOK, Free, Never
  <2>4. \A u \in Token : Unrevoked(disk'[u]) => disk'[u] = disk[u]
    BY <1>1, <2>1 DEF Unrevoked, Exists
  <2>5. Lineage'
    BY <2>4, RevokingKeepsLineage
  <2> QED  BY <2>1, <2>2, <2>3, <2>5, AroundStep
<1> QED  BY <1>3, <1>4

\* A request arrives.
LEMMA CallLineage ==
  ASSUME LineageInv, TypeOK', NEW r \in Request, NEW k \in Kinds, NEW t \in Token, Call(r, k, t)
  PROVE  LineageInv'
<1> DEFINE pc == IF k = "logout" THEN "signOut" ELSE "resolve"
           q == NewRequest(pc, k, t)
<1>1. Put(r, q) /\ req'[r] = q /\ UNCHANGED <<db, env>> /\ req[r].pc \in Ended /\ t \in known
  BY DEF Call, Put, LineageInv, TypeOK
<1>2. q.pc \in {"signOut", "resolve"} /\ q.tok = t /\ t \in minted /\ known' \subseteq minted
      /\ UNCHANGED <<db, minted, now>>
  BY <1>1 DEF NewRequest, LineageInv, RowsOK, env
<1>3. RequestOK(r)'
  BY <1>1, <1>2, PlainRecord DEF HoldsRow, Recovering
<1>4. req[r].pc \notin Sweeping \cup {"mint"}
  BY <1>1 DEF Sweeping, Recovering, Ended
<1> QED  BY <1>1, <1>2, <1>3, <1>4, FreeLocalStep

----------------------------------------------------------------------------
(***************************************************************************)
(* The commits that move a family on: recovery and rotation.               *)
(***************************************************************************)
\* What a recovery has written to the rows it holds.
LEMMA RecoveryHolds ==
  ASSUME LineageInv, NEW r \in Request, req[r].pc \in Recovering, NEW u \in Token, lock[u] = r
  PROVE  /\ u = req[r].tok => /\ Unrevoked(disk[u]) /\ disk[u].rotatedAt = req[r].at
                              /\ draft[u] = [disk[u] EXCEPT !.rotatedAt = Never]
         /\ u # req[r].tok => draft[u] = [disk[u] EXCEPT !.revoked = TRUE]
<1>1. LockOK(u) /\ ~Free(u) /\ req[lock[u]] = req[r]
  BY NamesAssumption DEF LineageInv, LocksOK, Free
<1>2. req[r].pc # "mint"
  BY DEF Recovering
<1> QED  BY <1>1, <1>2 DEF LockOK

\* A recovery that found a successor in use puts the row back as it was.
LEMMA RecoverReuseLineage ==
  ASSUME LineageInv, TypeOK', NEW r \in Request, RecoverReuse(r)
  PROVE  LineageInv'
<1>1. req[r].pc = "recoverReuse" /\ Release(r) /\ UNCHANGED env /\ Goto(r, "revoke")
  BY DEF RecoverReuse
<1> PICK t \in Token : t = req[r].tok
  BY <1>1, Busy DEF Ended
<1>2. /\ RequestOK(r) /\ req[r] \in RequestRecord /\ t \in minted /\ disk \in [Token -> Row]
      /\ \A q : Put(r, q) => req'[r] = q
  BY <1>1, Busy DEF Ended, LineageInv, TypeOK
<1>3. lock[t] = r
  BY <1>1, <1>2 DEF RequestOK, Recovering
<1>4. \A u \in Token : lock[u] = r =>
        /\ u = t => disk[u].rotatedAt = req[r].at /\ draft[u] = [disk[u] EXCEPT !.rotatedAt = Never]
        /\ u # t => draft[u] = [disk[u] EXCEPT !.revoked = TRUE]
  BY <1>1, RecoveryHolds DEF Recovering
<1>5. disk'[t] = disk[t]
  <2>1. disk[t] \in Row /\ disk'[t] = [draft[t] EXCEPT !.rotatedAt = req[r].at]
    BY <1>2 DEF RecoverReuse
  <2>2. disk'[t] = [disk[t] EXCEPT !.rotatedAt = disk[t].rotatedAt]
    BY <1>3, <1>4, <2>1 DEF Row
  <2> QED  BY <2>1, <2>2 DEF Row
<1>6. \A u \in Token : \/ disk'[u] = disk[u]
                       \/ lock[u] = r /\ disk'[u] = [disk[u] EXCEPT !.revoked = TRUE]
  BY <1>4, <1>5 DEF RecoverReuse, View
<1> DEFINE q == [req[r] EXCEPT !.pc = "revoke", !.todo = {}, !.hit = FALSE]
<1>7. Put(r, q) /\ q.pc = "revoke" /\ q.tok = t
  BY <1>2, <1>1, GotoFields DEF Goto
<1>8. req'[r].pc \notin HoldsRow /\ req'[r].tok \in minted
  BY <1>2, <1>7 DEF HoldsRow, Recovering
<1> QED  BY <1>1, <1>6, <1>7, <1>8, RevokeStep

\* An undone rotation: every other unrevoked row of the family was issued before
\* the retirement that is undone, so it was retired before the restored row began.
LEMMA RecoverUndoLineage ==
  ASSUME LineageInv, TypeOK', NEW r \in Request, RecoverUndo(r)
  PROVE  LineageInv'
<1>1. req[r].pc = "recoverUndo" /\ Commit(r) /\ UNCHANGED env
  BY DEF RecoverUndo
<1> PICK t \in Token : t = req[r].tok
  BY <1>1, Busy DEF Ended
<1>2. /\ RequestOK(r) /\ req[r] \in RequestRecord /\ t \in minted
      /\ disk \in [Token -> Row] /\ draft \in [Token -> Row]
      /\ \A q : Put(r, q) => req'[r] = q
  BY <1>1, Busy DEF Ended, LineageInv, TypeOK
<1>3. /\ lock[t] = r /\ req[r].at # Never
      /\ Exists(disk[t]) => req[r].row.family = disk[t].family
      /\ \A u \in Token : Undelivered(r, u, disk[u]) => lock[u] = r
  BY <1>1, <1>2 DEF RequestOK, Recovering, HoldsRow
<1>4. \A u \in Token : lock[u] = r =>
        /\ u = t => /\ Unrevoked(disk[u]) /\ disk[u].rotatedAt = req[r].at
                    /\ draft[u] = [disk[u] EXCEPT !.rotatedAt = Never]
        /\ u # t => draft[u] = [disk[u] EXCEPT !.revoked = TRUE]
  BY <1>1, RecoveryHolds DEF Recovering
<1>5. \A u \in Token : disk'[u] = IF lock[u] = r THEN draft[u] ELSE disk[u]
  BY <1>1 DEF Commit, View
<1>6. /\ disk'[t].family = disk[t].family /\ disk'[t].issuedAt = disk[t].issuedAt
      /\ ~disk[t].revoked /\ Exists(disk[t]) /\ disk[t].rotatedAt = req[r].at
      /\ draft[t].family = disk[t].family
  BY <1>2, <1>3, <1>4, <1>5 DEF Row, Unrevoked
<1>7. \A u \in Token \ {t} : \/ disk'[u] = disk[u] /\ lock[u] # r
                             \/ lock[u] = r /\ disk'[u] = [disk[u] EXCEPT !.revoked = TRUE]
  BY <1>4, <1>5
<1>8. \A u \in Token : disk'[u] = disk[u] \/ (lock[u] = r /\ Shrinks(u))
  <2>1. lock[t] = r /\ Shrinks(t)
    BY <1>3, <1>6 DEF Shrinks
  <2>2. \A u \in Token : disk[u] \in Row
    BY <1>2
  <2>3. \A u \in Token \ {t} : disk'[u] = disk[u] \/ (lock[u] = r /\ Shrinks(u))
    BY <1>7, <2>2 DEF Shrinks, Row
  <2> QED  BY <2>1, <2>3
<1>9. \A u \in Token \ {t} : Unrevoked(disk'[u]) => disk'[u] = disk[u] /\ lock[u] # r
  BY <1>2, <1>7 DEF Unrevoked, Exists, Row
<1>10. \A u \in Token \ {t} :
         Unrevoked(disk'[u]) /\ disk'[u].family = disk'[t].family =>
           disk[u].rotatedAt # Never /\ disk[u].rotatedAt <= disk[t].issuedAt
  <2> SUFFICES ASSUME NEW u \in Token \ {t}, Unrevoked(disk'[u]), disk'[u].family = disk'[t].family
               PROVE  disk[u].rotatedAt # Never /\ disk[u].rotatedAt <= disk[t].issuedAt
    OBVIOUS
  <2>1. Unrevoked(disk[u]) /\ disk[u].family = disk[t].family /\ ~Undelivered(r, u, disk[u])
    BY <1>3, <1>6, <1>9
  <2>2. ~(disk[u].issuedAt >= req[r].at)
    BY <1>3, <1>6, <2>1 DEF Undelivered, Successor, Unrevoked
  <2> QED  BY <1>6, <2>1, <2>2 DEF LineageInv, Lineage, Unrevoked
<1>11. Lineage'
  <2>1. \A u, v \in Token \ {t} :
          (u # v /\ Unrevoked(disk'[u]) /\ Unrevoked(disk'[v]) /\ disk'[u].family = disk'[v].family) =>
            \/ disk'[u].rotatedAt # Never /\ disk'[u].rotatedAt <= disk'[v].issuedAt
            \/ disk'[v].rotatedAt # Never /\ disk'[v].rotatedAt <= disk'[u].issuedAt
    BY <1>9 DEF LineageInv, Lineage
  <2> QED  BY <1>6, <1>9, <1>10, <2>1 DEF Lineage, Unrevoked, Exists
<1> DEFINE q == [req[r] EXCEPT !.pc = "due", !.row = draft[t]]
<1>12. /\ Put(r, q) /\ req'[r] = q /\ q.pc = "due" /\ q.tok = t /\ q.row = draft[t]
  BY <1>2 DEF RecoverUndo, RequestRecord
<1>13. RequestOK(r)'
  BY <1>1, <1>2, <1>6, <1>12 DEF RequestOK, HoldsRow, Recovering, env
<1> QED  BY <1>1, <1>8, <1>11, <1>12, <1>13, ReleaseStep DEF Commit

\* A rotation: the row it retires is the only current one, so every older row was
\* retired before it began, and the successor begins where it ends.
LEMMA MintLineage ==
  ASSUME LineageInv, TypeOK', NEW r \in Request, NEW u \in Token, Mint(r, u)
  PROVE  LineageInv'
<1>1. req[r].pc = "mint" /\ u \notin minted /\ Release(r) /\ UNCHANGED <<known, now, deleted>>
      /\ minted' = minted \cup {u}
  BY DEF Mint
<1> PICK t \in Token : t = req[r].tok
  BY <1>1, Busy DEF Ended
<1> DEFINE row == NewRow(req[r].row.family, req[r].at, req[r].row.expiresAt)
<1>2. /\ RequestOK(r) /\ req[r] \in RequestRecord /\ t \in minted /\ disk \in [Token -> Row]
      /\ \A q : Put(r, q) => req'[r] = q
      /\ RowsOK /\ LocksOK /\ RequestsOK /\ Lineage /\ minted \subseteq Token /\ r # NoRequest
      /\ req \in [Request -> RequestRecord]
  BY <1>1, Busy, NamesAssumption DEF Ended, LineageInv, TypeOK
<1>3. /\ lock[t] = r /\ req[r].at # Never /\ req[r].at <= now /\ disk[t].issuedAt <= req[r].at
      /\ Exists(disk[t]) => req[r].row.family = disk[t].family
      /\ req[r].at \in Int /\ now \in Int
      /\ \A x \in Token : disk[x].issuedAt \in Int /\ disk[x].rotatedAt \in Int
  BY <1>1, <1>2, EnvAssumption, RequestFields
     DEF RequestOK, HoldsRow, LineageInv, TypeOK, Row, Instant, Never
<1>4. \A x \in Token : lock[x] = r =>
        x = t /\ Current(disk[t]) /\ draft[t] = [disk[t] EXCEPT !.rotatedAt = req[r].at]
  <2> SUFFICES ASSUME NEW x \in Token, lock[x] = r
               PROVE  /\ x = t /\ Current(disk[x])
                      /\ draft[x] = [disk[x] EXCEPT !.rotatedAt = req[r].at]
    OBVIOUS
  <2>1. LockOK(x) /\ ~Free(x) /\ req[lock[x]] = req[r]
    BY <1>2 DEF LocksOK, Free
  <2>2. req[r].pc \notin Recovering /\ req[r].pc \notin Sweeping
    BY <1>1 DEF Recovering, Sweeping
  <2> QED  BY <2>1, <2>2 DEF LockOK
<1>5. /\ u # t /\ disk[u] = NoRow /\ Free(u)
      /\ disk'[t] = draft[t] /\ disk'[u] = row
      /\ \A x \in Token \ {t, u} : disk'[x] = disk[x]
  BY <1>1, <1>2 DEF Mint, RowsOK
<1>6. /\ Current(disk[t]) /\ Unrevoked(disk[t]) /\ disk[t].rotatedAt = Never
      /\ disk'[t].family = disk[t].family /\ disk'[t].issuedAt = disk[t].issuedAt
      /\ disk'[t].revoked = disk[t].revoked /\ disk'[t].rotatedAt = req[r].at
      /\ row.family = disk[t].family /\ row.issuedAt = req[r].at /\ row.rotatedAt = Never
  BY <1>2, <1>3, <1>4, <1>5 DEF Current, Unrevoked, NewRow, Row
<1>7. /\ \A x \in Token : /\ lock'[x] = IF lock[x] = r THEN NoRequest ELSE lock[x]
                          /\ lock[x] # r => draft'[x] = draft[x]
      /\ \A x \in Token : lock'[x] # r
  BY <1>1, <1>2 DEF Release
<1>8. /\ \A s \in Request \ {r} : req'[s] = req[s]
      /\ req'[r].pc = "answer" /\ req'[r].tok = u
  BY <1>2 DEF Mint, Put, NewRequest
<1>9. \A x \in Token \ {t} :
        Unrevoked(disk[x]) /\ disk[x].family = disk[t].family =>
          disk[x].rotatedAt # Never /\ disk[x].rotatedAt <= disk[t].issuedAt
  BY <1>2, <1>6 DEF Lineage
<1>10. ASSUME NEW s \in Request \ {r}, req[s].pc = "recoverUndo"
       PROVE  ~Undelivered(s, u, disk'[u])
  <2> SUFFICES ASSUME Undelivered(s, u, disk'[u]) PROVE FALSE
    OBVIOUS
  <2> PICK p \in Token : p = req[s].tok
    BY <1>10, Busy DEF Ended
  <2>1. RequestOK(s) /\ lock[p] = s
    BY <1>2, <1>10 DEF RequestsOK, RequestOK, Recovering
  <2>2. Unrevoked(disk[p]) /\ disk[p].rotatedAt = req[s].at
    BY <1>10, <2>1, RecoveryHolds DEF Recovering
  <2>3. p # t /\ req[s].row.family = disk[p].family
    BY <1>3, <1>10, <2>1, <2>2 DEF RequestOK, HoldsRow, Recovering, Unrevoked
  <2>4. disk[t].family = disk[p].family
    BY <1>5, <1>6, <2>3 DEF Undelivered, Successor
  <2>5. disk[p].rotatedAt <= disk[t].issuedAt
    BY <1>9, <2>2, <2>3, <2>4
  <2>6. Undelivered(s, t, disk[t])
    BY <1>3, <1>6, <2>2, <2>3, <2>4, <2>5 DEF Undelivered, Successor, Unrevoked
  <2> QED  BY <1>3, <1>10, <2>1, <2>6 DEF RequestOK
<1>11. \A s \in Request, x \in Token \ (minted \cup {u}) : ~Undelivered(s, x, disk'[x])
  BY <1>2, <1>5 DEF RowsOK, Undelivered, Successor, Exists, NoRow
<1>12. Frame(r)
  <2>1. \A x \in minted : Shrinks(x)
    BY <1>1, <1>2, <1>5, <1>6 DEF Shrinks
  <2>2. \A x \in Token : lock[x] \notin {r, NoRequest} =>
          lock'[x] = lock[x] /\ draft'[x] = draft[x] /\ disk'[x] = disk[x]
    BY <1>3, <1>5, <1>7 DEF Free
  <2>3. \A x \in Token : lock'[x] \notin {r, NoRequest} => lock'[x] = lock[x]
    BY <1>7
  <2> QED  BY <1>1, <1>3, <1>8, <1>10, <1>11, <2>1, <2>2, <2>3 DEF Frame
<1>13. RequestOK(r)'
  BY <1>1, <1>8, PlainRecord DEF HoldsRow, Recovering
<1>14. RequestsOK' /\ LocksOK'
  <2>1. \A x \in Token : lock'[x] = NoRequest => LockOK(x)'
    BY DEF LockOK, Free
  <2> QED  BY <1>7, <1>12, <1>13, <2>1, FrameHolds DEF RequestsOK, LocksOK
<1>15. RowsOK'
  <2>1. \A x \in Token : disk'[x].issuedAt <= now' /\ disk'[x].family \in minted' \cup {NoToken}
    BY <1>1, <1>2, <1>3, <1>5, <1>6 DEF RowsOK
  <2>2. \A x \in Token \ minted' : disk'[x] = NoRow /\ Free(x)'
    BY <1>1, <1>2, <1>5, <1>7 DEF RowsOK, Free
  <2> QED  BY <1>1, <1>2, <2>1, <2>2 DEF RowsOK
<1>16. Lineage'
  <2>1. \A x, y \in Token \ {t, u} :
          (x # y /\ Unrevoked(disk'[x]) /\ Unrevoked(disk'[y]) /\ disk'[x].family = disk'[y].family) =>
            \/ disk'[x].rotatedAt # Never /\ disk'[x].rotatedAt <= disk'[y].issuedAt
            \/ disk'[y].rotatedAt # Never /\ disk'[y].rotatedAt <= disk'[x].issuedAt
    BY <1>2, <1>5 DEF Lineage
  <2>2. \A x \in Token \ {t, u} :
          Unrevoked(disk'[x]) /\ disk'[x].family = disk[t].family =>
            /\ disk'[x].rotatedAt # Never /\ disk'[x].rotatedAt <= disk'[t].issuedAt
            /\ disk'[x].rotatedAt <= disk'[u].issuedAt
    BY <1>3, <1>5, <1>6, <1>9
  <2>3. disk'[t].rotatedAt # Never /\ disk'[t].rotatedAt <= disk'[u].issuedAt
        /\ disk'[u].family = disk[t].family
    BY <1>3, <1>5, <1>6
  <2> QED  BY <1>6, <2>1, <2>2, <2>3 DEF Lineage
<1> QED  BY <1>14, <1>15, <1>16 DEF LineageInv

----------------------------------------------------------------------------
(***************************************************************************)
(* The theorems.                                                           *)
(***************************************************************************)
\* The invariant holds at the start.
LEMMA InitLineage == Init => RowsOK /\ LocksOK /\ RequestsOK /\ Lineage
<1> SUFFICES ASSUME Init PROVE RowsOK /\ LocksOK /\ RequestsOK /\ Lineage
  OBVIOUS
<1>1. RowsOK
  BY DEF Init, RowsOK, NoRow, Never, Free
<1>2. LocksOK
  BY DEF Init, LocksOK, LockOK, Free
<1>3. RequestsOK
  BY DEF Init, RequestsOK, RequestOK, IdleRequest, NewRequest, Ended, HoldsRow, Recovering
<1>4. Lineage
  BY DEF Init, Lineage, Unrevoked, Exists, NoRow
<1> QED  BY <1>1, <1>2, <1>3, <1>4

\* Every handler keeps it.
LEMMA HandleLineage ==
  ASSUME LineageInv, TypeOK', NEW r \in Request, Handle(r)
  PROVE  LineageInv'
BY ResolveLineage, StampLineage, RotateLineage, RevokeReadLineage, RevokersLineage,
   RecoverClaimLineage, ClaimRotationLineage, RecoverReadLineage, SweepLineage,
   RecoverReuseLineage, RecoverUndoLineage, MintLineage DEF Handle

\* Every step keeps it.
LEMMA NextLineage == LineageInv /\ TypeOK' /\ [Next]_vars => LineageInv'
<1> SUFFICES ASSUME LineageInv, TypeOK', [Next]_vars PROVE LineageInv'
  OBVIOUS
<1>1. CASE \E t \in Token : SignIn(t)
  BY <1>1, SignInLineageStep
<1>2. CASE Tick \/ DeleteUser \/ \E t \in Token : Prune(t)
  BY <1>2, SurroundingsLineage
<1>3. ASSUME NEW r \in Request, Handle(r) PROVE LineageInv'
  BY <1>3, HandleLineage
<1>4. ASSUME NEW r \in Request, Fail(r) \/ DeadlockVictim(r) PROVE LineageInv'
  BY <1>4, RevokersLineage
<1>5. ASSUME NEW r \in Request, NEW k \in Kinds, NEW t \in Token, Call(r, k, t) PROVE LineageInv'
  BY <1>5, CallLineage
<1>6. CASE UNCHANGED vars
  <2>1. /\ disk' = disk /\ draft' = draft /\ lock' = lock /\ minted' = minted
        /\ known' = known /\ now' = now /\ req' = req
    BY <1>6 DEF vars
  <2>2. RowsOK /\ LocksOK /\ RequestsOK /\ Lineage
    BY DEF LineageInv
  <2>3. RowsOK' /\ LocksOK'
    BY <2>1, <2>2 DEF RowsOK, LocksOK, LockOK, Free, Exists, Current, Unrevoked
  <2>4. RequestsOK'
    BY <2>1, <2>2 DEF RequestsOK, RequestOK, Undelivered, Successor, Exists
  <2>5. Lineage'
    BY <2>1, <2>2 DEF Lineage, Unrevoked, Exists
  <2> QED  BY <2>3, <2>4, <2>5 DEF LineageInv
<1> QED  BY <1>1, <1>2, <1>3, <1>4, <1>5, <1>6 DEF Next

\* At every moment the unrevoked rows of a family follow one another in time, each
\* row lock holds what its transaction may write, and every request knows what
\* its next statement relies on, for any tokens, requests, intervals and clock.
THEOREM LineageCorrect == Spec => []LineageInv
<1>1. Init /\ TypeOK => LineageInv
  BY InitLineage DEF LineageInv
<1>2. TypeOK /\ TypeOK' /\ LineageInv /\ [Next]_vars => LineageInv'
  BY NextLineage
<1> QED  BY <1>1, <1>2, TypeCorrect, PTL DEF Spec

\* Two rows that are neither retired nor revoked would each have to be retired
\* before the other was issued: a family never has two current tokens.
THEOREM OneCurrentToken == Spec => []OneCurrent
<1>1. LineageInv => OneCurrent
  BY DEF LineageInv, Lineage, OneCurrent, Current
<1> QED  BY <1>1, LineageCorrect, PTL

----------------------------------------------------------------------------
(***************************************************************************)
(* What one step of a request does to the committed rows.                  *)
(***************************************************************************)
\* A transaction that only revokes rows it holds.
Revokes(r) == \A t \in Token :
  disk'[t] = disk[t] \/ (lock[t] = r /\ disk'[t] = [disk[t] EXCEPT !.revoked = TRUE])

\* The alarm of a recovery puts its claim back before it commits.
LEMMA ReuseRevokes == ASSUME LineageInv, NEW r \in Request, RecoverReuse(r) PROVE Revokes(r)
<1> PICK t \in Token : t = req[r].tok
  BY Busy DEF RecoverReuse, Ended
<1>1. req[r].pc = "recoverReuse" /\ RequestOK(r) /\ disk[t] \in Row
  BY Busy DEF RecoverReuse, Ended
<1>2. lock[t] = r
  BY <1>1 DEF RequestOK, Recovering
<1>3. disk[t].rotatedAt = req[r].at /\ draft[t] = [disk[t] EXCEPT !.rotatedAt = Never]
  BY <1>1, <1>2, RecoveryHolds DEF Recovering
<1>4. disk'[t] = [draft[t] EXCEPT !.rotatedAt = req[r].at]
      /\ \A u \in Token \ {t} : disk'[u] = View(r, u)
  BY DEF RecoverReuse
<1>5. disk'[t] = disk[t]
  <2>1. disk'[t] = [disk[t] EXCEPT !.rotatedAt = disk[t].rotatedAt]
    BY <1>1, <1>3, <1>4 DEF Row
  <2> QED  BY <1>1, <2>1 DEF Row
<1>6. \A u \in Token \ {t} : lock[u] = r => draft[u] = [disk[u] EXCEPT !.revoked = TRUE]
  BY <1>1, RecoveryHolds DEF Recovering
<1> QED  BY <1>4, <1>5, <1>6 DEF Revokes, View

\* Every other step of a request, the insert and the recovery's commit apart.
LEMMA HandleEffects ==
  ASSUME LineageInv, NEW r \in Request, Handle(r), ~\E u \in Token : Mint(r, u)
  PROVE  /\ minted' = minted
         /\ UNCHANGED disk \/ MarkFirstUse(r) \/ RecoverUndo(r) \/ Revokes(r)
<1>1. CASE MarkFirstUse(r) \/ RecoverUndo(r)
  BY <1>1 DEF MarkFirstUse, RecoverUndo, env
<1>2. CASE RecoverReuse(r)
  BY <1>2, ReuseRevokes DEF RecoverReuse, env
<1>3. CASE EndRevokePass(r) \/ StartAllPass(r) \/ EndAllPass(r)
  <2>1. req[r].pc \in {"revokeSweep", "allPass", "allSweep"}
    BY <1>3 DEF EndRevokePass, StartAllPass, EndAllPass
  <2>2. minted' = minted /\ (UNCHANGED disk \/ Commit(r))
    BY <1>3 DEF EndRevokePass, StartAllPass, EndAllPass, env, db
  <2>3. Commit(r) => Revokes(r)
    BY <2>1, RevokeCommit DEF Revokes
  <2> QED  BY <2>2, <2>3
<1>4. CASE \E t \in Token : SweepRow(r, t)
  BY <1>4 DEF SweepRow, Write, db, env
<1>5. CASE RecoverClaim(r) \/ ClaimRotation(r)
  BY <1>5 DEF RecoverClaim, ClaimRotation, Write, db, env
<1>6. CASE Deliver(r)
  BY <1>6 DEF Deliver, db
<1>7. CASE \/ ResolveCurrent(r) \/ ResolveSuperseded(r) \/ CheckSuccessors(r) \/ RecoverSnapshot(r)
           \/ RecoverCheck(r) \/ Contested(r) \/ CheckAge(r) \/ ReadLostClaim(r)
           \/ SignOut(r) \/ StartRevokePass(r) \/ FindKept(r) \/ ReadFamilies(r)
  <2>1. UNCHANGED <<db, env>>
    BY <1>7 DEF ResolveCurrent, ResolveSuperseded, CheckSuccessors, RecoverSnapshot, RecoverCheck,
                Contested, CheckAge, ReadLostClaim, SignOut, StartRevokePass, FindKept,
                ReadFamilies
  <2> QED  BY <2>1 DEF db, env
<1> QED  BY <1>1, <1>2, <1>3, <1>4, <1>5, <1>6, <1>7 DEF Handle

\* The recovery's commit restores the presented row and revokes rows nobody used.
LEMMA UndoEffect ==
  ASSUME LineageInv, NEW r \in Request, RecoverUndo(r)
  PROVE  /\ req[r].tok \in Token /\ lock[req[r].tok] = r
         /\ Unrevoked(disk[req[r].tok]) /\ disk[req[r].tok].rotatedAt = req[r].at
         /\ disk'[req[r].tok] = [disk[req[r].tok] EXCEPT !.rotatedAt = Never]
         /\ \A u \in Token \ {req[r].tok} :
              disk'[u] = IF lock[u] = r THEN [disk[u] EXCEPT !.revoked = TRUE] ELSE disk[u]
<1>1. req[r].pc = "recoverUndo" /\ RequestOK(r) /\ req[r].tok \in Token
  BY Busy DEF RecoverUndo, Ended
<1>2. lock[req[r].tok] = r
  BY <1>1 DEF RequestOK, Recovering
<1>3. \A u \in Token : disk'[u] = View(r, u)
  BY DEF RecoverUndo, Commit
<1> QED  BY <1>1, <1>2, <1>3, RecoveryHolds DEF View, Recovering

\* The stamp, when it writes, writes a row nobody holds.
LEMMA StampEffect ==
  ASSUME LineageInv, NEW r \in Request, MarkFirstUse(r)
  PROVE  LET t == req[r].tok IN
         /\ t \in Token /\ t \in minted
         /\ Exists(disk[t]) => disk'[t].used
         /\ \/ UNCHANGED disk
            \/ Free(t) /\ Exists(disk[t]) /\ disk' = [disk EXCEPT ![t].used = TRUE]
<1>1. req[r].tok \in Token /\ req[r].tok \in minted /\ disk[req[r].tok] \in Row
  BY Busy DEF MarkFirstUse, Ended
<1>2. disk \in [Token -> Row]
  BY DEF LineageInv, TypeOK
<1> QED  BY <1>1, <1>2 DEF MarkFirstUse, Row

\* So a row keeps its terms, and is stamped, un-retired or revoked at most.
LEMMA HandleRows ==
  ASSUME LineageInv, NEW r \in Request, Handle(r), ~\E u \in Token : Mint(r, u), NEW t \in Token
  PROVE  \/ disk'[t] = disk[t]
         \/ disk'[t] = [disk[t] EXCEPT !.used = TRUE]
         \/ disk'[t] = [disk[t] EXCEPT !.revoked = TRUE]
         \/ Unrevoked(disk[t]) /\ disk'[t] = [disk[t] EXCEPT !.rotatedAt = Never]
<1>1. disk \in [Token -> Row] /\ disk[t] \in Row
  BY DEF LineageInv, TypeOK
<1>2. CASE MarkFirstUse(r)
  <2>1. UNCHANGED disk \/ \E x \in Token : disk' = [disk EXCEPT ![x].used = TRUE]
    BY <1>2, StampEffect
  <2> QED  BY <1>1, <2>1
<1>3. CASE RecoverUndo(r)
  BY <1>3, UndoEffect
<1> QED  BY <1>2, <1>3, HandleEffects DEF Revokes

LEMMA HandleIsBusy == ASSUME NEW r \in Request, Handle(r) PROVE req[r].pc \notin Ended
BY DEF Handle, ResolveCurrent, MarkFirstUse, ResolveSuperseded, CheckSuccessors, RecoverClaim,
       RecoverSnapshot, RecoverCheck, RecoverUndo, RecoverReuse, Contested, CheckAge, ClaimRotation,
       ReadLostClaim, Mint, Deliver, SignOut, StartRevokePass, EndRevokePass, FindKept, ReadFamilies,
       StartAllPass, EndAllPass, SweepRow, Ended

\* A request's own step changes no other record.
LEMMA HandleIsLocal ==
  ASSUME LineageInv, NEW r \in Request, Handle(r), NEW s \in Request \ {r}
  PROVE  req'[s] = req[s]
BY DEF Handle, ResolveCurrent, MarkFirstUse, ResolveSuperseded, CheckSuccessors, RecoverClaim,
       RecoverSnapshot, RecoverCheck, RecoverUndo, RecoverReuse, Contested, CheckAge, ClaimRotation,
       ReadLostClaim, Mint, Deliver, SignOut, StartRevokePass, EndRevokePass, FindKept, ReadFamilies,
       StartAllPass, EndAllPass, SweepRow, EndRevoke, Resolved, Goto, Finish, Refuse, Put,
       LineageInv, TypeOK

----------------------------------------------------------------------------
(***************************************************************************)
(* Ended stays ended.                                                      *)
(***************************************************************************)
\* No row comes back to life, and none changes family.
NoneRevived == \A t \in Token :
  Unrevoked(disk'[t]) => Unrevoked(disk[t]) /\ disk'[t].family = disk[t].family

\* A rotation adds a row only to the family of a row that is not revoked.
LEMMA MintEndedNothing ==
  ASSUME LineageInv, NEW r \in Request, NEW u \in Token, Mint(r, u), NEW f, Unended(f, disk')
  PROVE  Unended(f, disk)
<1>1. req[r].pc = "mint"
  BY DEF Mint
<1> PICK t \in Token : t = req[r].tok
  BY <1>1, Busy DEF Ended
<1>2. RequestOK(r) /\ lock[t] = r /\ LockOK(t) /\ ~Free(t) /\ disk[t] \in Row
  BY <1>1, Busy, NamesAssumption
     DEF Ended, RequestOK, LineageInv, LocksOK, TypeOK, Free
<1>3. Current(disk[t]) /\ draft[t] = [disk[t] EXCEPT !.rotatedAt = req[r].at]
  BY <1>1, <1>2 DEF LockOK, Recovering, Sweeping
<1>4. req[r].row.family = disk[t].family /\ Unrevoked(disk[t])
  BY <1>1, <1>2, <1>3 DEF RequestOK, HoldsRow, Current, Unrevoked
<1>5. disk'[u] = NewRow(req[r].row.family, req[r].at, req[r].row.expiresAt) \/ disk'[u] = disk[u]
  BY DEF Mint, LineageInv, TypeOK
<1>6. PICK x \in Token : Unrevoked(disk'[x]) /\ disk'[x].family = f
  BY DEF Unended
<1>7. CASE x = t
  <2>1. u # t
    BY <1>1, Busy DEF Mint, Ended
  <2>2. disk'[t] = draft[t]
    BY <1>2, <2>1 DEF Mint, LineageInv, TypeOK
  <2>3. disk'[t].family = disk[t].family
    BY <1>2, <1>3, <2>2 DEF Row
  <2> QED  BY <1>4, <1>6, <1>7, <2>3 DEF Unended
<1>8. CASE x = u /\ x # t
  <2>1. disk'[u] = NewRow(req[r].row.family, req[r].at, req[r].row.expiresAt)
    BY <1>8 DEF Mint, LineageInv, TypeOK
  <2>2. disk'[u].family = req[r].row.family
    BY <2>1 DEF NewRow
  <2> QED  BY <1>4, <1>6, <1>8, <2>2 DEF Unended
<1>9. CASE x \notin {t, u}
  <2>1. disk'[x] = disk[x]
    BY <1>9 DEF Mint, LineageInv, TypeOK
  <2> QED  BY <1>6, <2>1 DEF Unended
<1> QED  BY <1>7, <1>8, <1>9

\* Every other step of a request.
LEMMA OthersReviveNothing ==
  ASSUME LineageInv, NEW r \in Request, Handle(r), ~\E u \in Token : Mint(r, u)
  PROVE  NoneRevived
<1> SUFFICES ASSUME NEW t \in Token, Unrevoked(disk'[t])
             PROVE  Unrevoked(disk[t]) /\ disk'[t].family = disk[t].family
  BY DEF NoneRevived
<1>1. disk[t] \in Row
  BY DEF LineageInv, TypeOK
<1> QED  BY <1>1, HandleRows DEF Row, Unrevoked, Exists

\* A sign-in without an unrevoked row never gets one again, whatever is under way
\* when it loses the last one.
THEOREM NeverRevived == Spec => EndedStaysEnded
<1> DEFINE kept == \A f \in minted : Unended(f, disk') => Unended(f, disk)
<1>1. LineageInv /\ NoneRevived => kept
  BY DEF NoneRevived, Unended
<1>2. LineageInv /\ Next => kept
  <2> SUFFICES ASSUME LineageInv, Next PROVE kept
    OBVIOUS
  <2>1. ASSUME NEW t \in Token, SignIn(t) PROVE kept
    <3> SUFFICES ASSUME NEW f \in minted, Unended(f, disk') PROVE Unended(f, disk)
      OBVIOUS
    <3>1. PICK x \in Token : Unrevoked(disk'[x]) /\ disk'[x].family = f
      BY DEF Unended
    <3>2. disk'[t].family = t /\ t \notin minted /\ \A u \in Token \ {t} : disk'[u] = disk[u]
      BY <2>1 DEF SignIn, LineageInv, TypeOK, NewRow
    <3> QED  BY <3>1, <3>2 DEF Unended
  <2>2. ASSUME NEW t \in Token, Prune(t) PROVE kept
    <3>1. \A u \in Token : disk'[u] = NoRow \/ disk'[u] = disk[u]
      BY <2>2 DEF Prune, LineageInv, TypeOK
    <3>2. NoneRevived
      BY <3>1 DEF NoneRevived, Unrevoked, Exists, NoRow
    <3> QED  BY <1>1, <3>2
  <2>3. CASE UNCHANGED disk
    BY <2>3 DEF Unended, Unrevoked, Exists
  <2>4. ASSUME NEW r \in Request, Handle(r) PROVE kept
    <3>1. ASSUME NEW u \in Token, Mint(r, u) PROVE kept
      BY <3>1, MintEndedNothing
    <3> QED  BY <1>1, <2>4, <3>1, OthersReviveNothing
  <2>5. ASSUME NEW r \in Request, NEW k \in Kinds, NEW t \in Token, Call(r, k, t) PROVE kept
    BY <2>3, <2>5 DEF Call, db
  <2>6. ASSUME NEW r \in Request, Fail(r) \/ DeadlockVictim(r) PROVE kept
    BY <2>3, <2>6 DEF Fail, DeadlockVictim
  <2>7. CASE Tick \/ DeleteUser
    BY <2>3, <2>7 DEF Tick, DeleteUser
  <2> QED  BY <2>1, <2>2, <2>4, <2>5, <2>6, <2>7 DEF Next
<1> QED  BY <1>2, LineageCorrect, PTL DEF Spec, EndedStaysEnded

----------------------------------------------------------------------------
(***************************************************************************)
(* Rotation is not renewal.                                                *)
(***************************************************************************)
\* A row that is not there has no expiry.
Dated == \A t \in Token : ~Exists(disk[t]) => disk[t].expiresAt = Never

\* The copy of its row that a request carries to the insert has the row's expiry.
Copied(r) ==
  req[r].pc \in HoldsRow /\ Exists(disk[req[r].tok]) =>
    req[r].row.expiresAt = disk[req[r].tok].expiresAt

ExpiryInv == FamilyExpiresTogether /\ Dated /\ \A r \in Request : Copied(r)

\* A step drops a row or leaves its family and its expiry alone.
Keeps(t) ==
  \/ disk'[t] = NoRow
  \/ disk'[t].family = disk[t].family /\ disk'[t].expiresAt = disk[t].expiresAt

\* A request that holds a row after a step read it in this step or held it before.
Carries(r) ==
  req'[r].pc \in HoldsRow =>
    /\ req[r].pc \notin Ended /\ req'[r].tok = req[r].tok
    /\ \/ req'[r].row.expiresAt = disk[req[r].tok].expiresAt
       \/ req[r].pc \in HoldsRow /\ req'[r].row = req[r].row

\* Nothing else is needed of a step that inserts no row.
LEMMA KeepingStep ==
  ASSUME LineageInv, ExpiryInv, \A t \in Token : Keeps(t),
         \A r \in Request : req'[r] = req[r] \/ Carries(r)
  PROVE  ExpiryInv'
<1>1. FamilyExpiresTogether /\ Dated
  BY DEF ExpiryInv
<1>2. Dated'
  BY <1>1 DEF Dated, Keeps, Exists, NoRow
<1>3. \A t \in Token : ~Exists(disk'[t]) => disk'[t].expiresAt = Never
  BY <1>2 DEF Dated, Exists
<1>4. FamilyExpiresTogether'
  <2> SUFFICES ASSUME NEW t \in Token, NEW u \in Token, disk'[t].family = disk'[u].family
               PROVE  disk'[t].expiresAt = disk'[u].expiresAt
    BY DEF FamilyExpiresTogether
  <2>1. CASE ~Exists(disk'[t])
    BY <1>3, <2>1 DEF Exists
  <2>2. CASE Exists(disk'[t])
    <3>1. disk'[t] # NoRow /\ disk'[u] # NoRow
      BY <2>2 DEF Exists, NoRow
    <3> QED  BY <1>1, <3>1 DEF Keeps, FamilyExpiresTogether
  <2> QED  BY <2>1, <2>2
<1>5. ASSUME NEW r \in Request, req'[r].pc \in HoldsRow, Exists(disk'[req'[r].tok])
      PROVE  req'[r].row.expiresAt = disk'[req'[r].tok].expiresAt
  <2>1. Copied(r) /\ RequestOK(r) /\ req[r] \in RequestRecord
    BY DEF ExpiryInv, LineageInv, RequestsOK, TypeOK
  <2>2. req[r].pc \notin Ended /\ req'[r].tok = req[r].tok
    BY <1>5 DEF Carries, HoldsRow, Recovering, Ended
  <2>3. req[r].tok \in Token
    BY <2>2, Busy
  <2>4. disk'[req[r].tok] # NoRow
    BY <1>5, <2>2 DEF Exists, NoRow
  <2>5. /\ disk'[req[r].tok].family = disk[req[r].tok].family
        /\ disk'[req[r].tok].expiresAt = disk[req[r].tok].expiresAt
    BY <2>3, <2>4 DEF Keeps
  <2>6. Exists(disk[req[r].tok])
    BY <1>5, <2>2, <2>5 DEF Exists
  <2> QED  BY <1>5, <2>1, <2>2, <2>5, <2>6 DEF Carries, Copied
<1>6. \A r \in Request : Copied(r)'
  BY <1>5 DEF Copied, Exists
<1> QED  BY <1>2, <1>4, <1>6 DEF ExpiryInv

\* What a transaction writes to a row it holds keeps both.
LEMMA DraftsKeep ==
  ASSUME LineageInv, NEW r \in Request, NEW t \in Token, lock[t] = r
  PROVE  draft[t].family = disk[t].family /\ draft[t].expiresAt = disk[t].expiresAt
<1>1. LockOK(t) /\ ~Free(t) /\ disk[t] \in Row
  BY NamesAssumption DEF LineageInv, LocksOK, TypeOK, Free
<1>2. \/ \E at \in {req[r].at, Never} : draft[t] = [disk[t] EXCEPT !.rotatedAt = at]
      \/ draft[t] = [disk[t] EXCEPT !.revoked = TRUE]
  BY <1>1 DEF LockOK
<1> QED  BY <1>1, <1>2 DEF Row

\* Every step of a request but the insert keeps the rows' terms.
LEMMA HandleKeeps ==
  ASSUME LineageInv, NEW r \in Request, Handle(r), ~\E u \in Token : Mint(r, u)
  PROVE  \A t \in Token : Keeps(t)
<1> SUFFICES ASSUME NEW t \in Token PROVE Keeps(t)
  OBVIOUS
<1>1. disk[t] \in Row
  BY DEF LineageInv, TypeOK
<1> QED  BY <1>1, HandleRows DEF Row, Keeps

\* The ways a record changes.
LEMMA CarriesPlain ==
  ASSUME NEW r \in Request, req'[r].pc \notin HoldsRow PROVE Carries(r)
BY DEF Carries

LEMMA CarriesEnd ==
  ASSUME LineageInv, NEW r \in Request, Finish(r) \/ Refuse(r) PROVE Carries(r)
BY DEF Finish, Refuse, Put, IdleRequest, NewRequest, LineageInv, TypeOK, Carries, HoldsRow, Recovering

LEMMA CarriesGoto ==
  ASSUME LineageInv, NEW r \in Request, NEW pc, Goto(r, pc), pc \in HoldsRow => req[r].pc \in HoldsRow
  PROVE  Carries(r)
<1> DEFINE q == [req[r] EXCEPT !.pc = pc, !.todo = {}, !.hit = FALSE]
<1>1. req'[r] = q /\ req[r] \in RequestRecord
  BY DEF Goto, Put, LineageInv, TypeOK
<1>2. q.pc = pc /\ q.tok = req[r].tok /\ q.row = req[r].row
  BY <1>1 DEF RequestRecord
<1> QED  BY <1>1, <1>2 DEF Carries, HoldsRow, Recovering, Ended

\* A request that read its row, or goes on with what it carries.
LEMMA CarriesRead ==
  ASSUME LineageInv, NEW r \in Request, NEW q, Put(r, q), req[r].pc \notin Ended, q.tok = req[r].tok,
         q.row.expiresAt = disk[req[r].tok].expiresAt \/ (req[r].pc \in HoldsRow /\ q.row = req[r].row)
  PROVE  Carries(r)
BY Busy DEF Carries

LEMMA CarriesResolved ==
  ASSUME LineageInv, NEW r \in Request, NEW row, Resolved(r, row), req[r].pc \notin Ended,
         row = disk[req[r].tok] \/ (req[r].pc \in HoldsRow /\ row = req[r].row)
  PROVE  Carries(r)
<1>1. CASE Finish(r)
  BY <1>1, CarriesEnd
<1>2. CASE Put(r, [req[r] EXCEPT !.pc = AfterResolve(req[r].kind), !.row = row])
  <2> DEFINE q == [req[r] EXCEPT !.pc = AfterResolve(req[r].kind), !.row = row]
  <2>1. q.tok = req[r].tok /\ q.row = row
    BY Busy DEF RequestRecord
  <2> QED  BY <1>2, <2>1, CarriesRead
<1> QED  BY <1>1, <1>2 DEF Resolved

LEMMA HandleCarries ==
  ASSUME LineageInv, NEW r \in Request, Handle(r) PROVE Carries(r)
<1> DEFINE t == req[r].tok
<1>1. req[r].pc \notin Ended /\ req[r] \in RequestRecord
  BY DEF Handle, ResolveCurrent, MarkFirstUse, ResolveSuperseded, CheckSuccessors, RecoverClaim,
         RecoverSnapshot, RecoverCheck, RecoverUndo, RecoverReuse, Contested, CheckAge, ClaimRotation,
         ReadLostClaim, Mint, Deliver, SignOut, StartRevokePass, EndRevokePass, FindKept, ReadFamilies,
         StartAllPass, EndAllPass, SweepRow, Ended, LineageInv, TypeOK
<1>2. CASE Finish(r) \/ Refuse(r)
  BY <1>2, CarriesEnd
<1>3. CASE ResolveCurrent(r)
  <2> DEFINE q == [req[r] EXCEPT !.pc = "stamp", !.row = disk[t]]
  <2>1. q.tok = t /\ q.row = disk[t]
    BY <1>1 DEF RequestRecord
  <2>2. CASE Put(r, q)
    BY <1>1, <2>1, <2>2, CarriesRead
  <2>3. CASE Goto(r, "superseded")
    BY <2>3, CarriesGoto DEF HoldsRow, Recovering
  <2> QED  BY <1>1, <1>3, <2>2, <2>3, CarriesResolved DEF ResolveCurrent
<1>4. CASE MarkFirstUse(r)
  <2>1. req[r].pc \in HoldsRow /\ Resolved(r, req[r].row)
    BY <1>4 DEF MarkFirstUse, HoldsRow
  <2> QED  BY <1>1, <2>1, CarriesResolved
<1>5. CASE ResolveSuperseded(r)
  <2> DEFINE q == [req[r] EXCEPT !.pc = "successors", !.row = disk[t], !.at = disk[t].rotatedAt]
  <2>1. q.tok = t /\ q.row = disk[t]
    BY <1>1 DEF RequestRecord
  <2>2. CASE Put(r, q)
    BY <1>1, <2>1, <2>2, CarriesRead
  <2> QED  BY <1>1, <1>2, <1>5, <2>2, CarriesResolved DEF ResolveSuperseded
<1>6. CASE CheckSuccessors(r)
  <2>1. req[r].pc \in HoldsRow
    BY <1>6 DEF CheckSuccessors, HoldsRow
  <2> QED  BY <1>2, <1>6, <2>1, CarriesGoto DEF CheckSuccessors
<1>7. CASE RecoverClaim(r) \/ RecoverCheck(r) \/ RecoverReuse(r) \/ ClaimRotation(r)
  <2>1. req[r].pc \in HoldsRow
    BY <1>7 DEF RecoverClaim, RecoverCheck, RecoverReuse, ClaimRotation, HoldsRow, Recovering
  <2> QED  BY <1>7, <2>1, CarriesGoto DEF RecoverClaim, RecoverCheck, RecoverReuse, ClaimRotation
<1>8. CASE RecoverSnapshot(r)
  <2> DEFINE T == {u \in Token : Undelivered(r, u, disk[u]) /\ ~disk[u].used}
             q == [req[r] EXCEPT !.pc = "recoverSweep", !.todo = T]
  <2>1. q.tok = t /\ q.row = req[r].row /\ Put(r, q) /\ req[r].pc \in HoldsRow
    BY <1>1, <1>8 DEF RequestRecord, RecoverSnapshot, HoldsRow, Recovering
  <2> QED  BY <1>1, <2>1, CarriesRead
<1>9. CASE RecoverUndo(r)
  <2> DEFINE q == [req[r] EXCEPT !.pc = "due", !.row = draft[t]]
  <2>1. q.tok = t /\ q.row = draft[t] /\ Put(r, q)
    BY <1>1, <1>9 DEF RequestRecord, RecoverUndo
  <2>2. lock[t] = r /\ t \in Token
    BY <1>1, <1>9, Busy DEF RecoverUndo, RequestOK, Recovering
  <2> QED  BY <1>1, <2>1, <2>2, DraftsKeep, CarriesRead
<1>10. CASE Contested(r)
  BY <1>1, <1>2, <1>10, CarriesResolved DEF Contested
<1>11. CASE CheckAge(r)
  <2> DEFINE q == [req[r] EXCEPT !.pc = "claim", !.at = now]
  <2>1. q.tok = t /\ q.row = req[r].row /\ req[r].pc \in HoldsRow
    BY <1>1, <1>11 DEF RequestRecord, CheckAge, HoldsRow
  <2>2. CASE Put(r, q)
    BY <1>1, <2>1, <2>2, CarriesRead
  <2> QED  BY <1>2, <1>11, <2>2 DEF CheckAge
<1>12. CASE ReadLostClaim(r) \/ Deliver(r)
  BY <1>2, <1>12 DEF ReadLostClaim, Deliver
<1>13. ASSUME NEW u \in Token, Mint(r, u) PROVE Carries(r)
  <2>1. req'[r].pc = "answer"
    BY <1>13 DEF Mint, Put, NewRequest, LineageInv, TypeOK
  <2> QED  BY <2>1, CarriesPlain DEF HoldsRow, Recovering
<1>14. CASE SignOut(r) \/ FindKept(r) \/ ReadFamilies(r) \/ StartRevokePass(r)
            \/ EndRevokePass(r) \/ StartAllPass(r) \/ EndAllPass(r)
  <2> DEFINE away == {"revoke", "families", "allPass", "revokeSweep", "allSweep"}
  <2>1. ASSUME req'[r].pc \in away PROVE Carries(r)
    BY <2>1, CarriesPlain DEF HoldsRow, Recovering
  <2>2. ASSUME NEW pc \in away, Goto(r, pc) PROVE Carries(r)
    BY <2>2, CarriesGoto DEF HoldsRow, Recovering
  <2>3. ASSUME NEW q, Put(r, q), q.pc \in away PROVE Carries(r)
    BY <1>1, <2>1, <2>3, Busy
  <2>4. CASE SignOut(r)
    <3>1. [req[r] EXCEPT !.pc = "revoke", !.row = disk[t]].pc = "revoke"
      BY <1>1 DEF RequestRecord
    <3> QED  BY <1>2, <2>3, <2>4, <3>1 DEF SignOut
  <2>5. CASE FindKept(r)
    <3>1. \A row : [req[r] EXCEPT !.pc = "families", !.row = row, !.at = now].pc = "families"
      BY <1>1 DEF RequestRecord
    <3> QED  BY <1>2, <2>3, <2>5, <3>1 DEF FindKept
  <2>6. CASE ReadFamilies(r)
    <3>1. \A F : [req[r] EXCEPT !.pc = "allPass", !.fams = F].pc = "allPass"
      BY <1>1 DEF RequestRecord
    <3> QED  BY <2>3, <2>6, <3>1 DEF ReadFamilies
  <2>7. CASE StartRevokePass(r) \/ StartAllPass(r)
    <3>1. \A T, pc : [req[r] EXCEPT !.pc = pc, !.todo = T, !.hit = FALSE].pc = pc
      BY <1>1 DEF RequestRecord
    <3> QED  BY <1>2, <2>3, <2>7, <3>1 DEF StartRevokePass, StartAllPass, EndRevoke
  <2>8. CASE EndRevokePass(r) \/ EndAllPass(r)
    BY <1>2, <2>2, <2>8 DEF EndRevokePass, EndAllPass, EndRevoke
  <2> QED  BY <1>14, <2>4, <2>5, <2>6, <2>7, <2>8
<1>15. ASSUME NEW u \in Token, SweepRow(r, u) PROVE Carries(r)
  <2>1. PICK q \in {[req[r] EXCEPT !.todo = @ \ {u}, !.hit = TRUE], [req[r] EXCEPT !.todo = @ \ {u}]} : Put(r, q)
    BY <1>15 DEF SweepRow
  <2>2. q.pc = req[r].pc /\ q.tok = t /\ q.row = req[r].row /\ req'[r] = q
    BY <1>1, <2>1, Busy DEF RequestRecord
  <2>3. CASE req[r].pc \in HoldsRow
    BY <1>1, <2>1, <2>2, <2>3, CarriesRead
  <2>4. CASE req[r].pc \notin HoldsRow
    BY <2>2, <2>4, CarriesPlain
  <2> QED  BY <2>3, <2>4
<1> QED  BY <1>3, <1>4, <1>5, <1>6, <1>7, <1>8, <1>9, <1>10, <1>11, <1>12, <1>13, <1>14, <1>15 DEF Handle

\* The insert: the row it retires is held, so the copy the request carries has the
\* expiry of a row of that family.
LEMMA MintInherits ==
  ASSUME LineageInv, ExpiryInv, NEW r \in Request, NEW u \in Token, Mint(r, u)
  PROVE  ExpiryInv'
<1>1. req[r].pc = "mint" /\ req[r].pc \notin Ended
  BY DEF Mint, Ended
<1> PICK t \in Token : t = req[r].tok
  BY <1>1, Busy
<1>2. RequestOK(r) /\ lock[t] = r /\ ~Free(t) /\ Exists(disk[t]) /\ t \in minted /\ u \notin minted
  <2>1. RequestOK(r) /\ t \in minted
    BY <1>1, Busy
  <2>2. lock[t] = r
    BY <1>1, <2>1 DEF RequestOK
  <2>3. ~Free(t)
    BY <2>2, NamesAssumption DEF Free
  <2>4. LockOK(t)
    BY DEF LineageInv, LocksOK
  <2>5. Exists(disk[t])
    BY <2>3, <2>4 DEF LockOK
  <2>6. u \notin minted
    BY DEF Mint
  <2> QED  BY <2>1, <2>2, <2>3, <2>5, <2>6
<1>3. req[r].row.family = disk[t].family /\ req[r].row.expiresAt = disk[t].expiresAt
  BY <1>1, <1>2 DEF RequestOK, HoldsRow, ExpiryInv, Copied
<1>4. disk' = [disk EXCEPT ![t] = draft[t],
                 ![u] = NewRow(req[r].row.family, req[r].at, req[r].row.expiresAt)]
  BY DEF Mint
<1>5. disk'[u].family = disk[t].family /\ disk'[u].expiresAt = disk[t].expiresAt
  BY <1>2, <1>3, <1>4 DEF NewRow, LineageInv, TypeOK
<1>6. disk'[t].family = disk[t].family /\ disk'[t].expiresAt = disk[t].expiresAt
  BY <1>2, <1>4, DraftsKeep DEF LineageInv, TypeOK
<1>7. \A x \in Token \ {t, u} : disk'[x] = disk[x]
  BY <1>4 DEF LineageInv, TypeOK
<1>8. FamilyExpiresTogether /\ Dated
  BY DEF ExpiryInv
<1>9. \A x \in Token \ {u} : disk'[x].family = disk[x].family /\ disk'[x].expiresAt = disk[x].expiresAt
  BY <1>6, <1>7
<1>10. Dated'
  BY <1>2, <1>5, <1>8, <1>9 DEF Dated, Exists
<1>11. FamilyExpiresTogether'
  BY <1>5, <1>8, <1>9 DEF FamilyExpiresTogether
<1>12. ASSUME NEW s \in Request PROVE Copied(s)'
  <2>1. CASE s = r
    <3>1. req'[r].pc = "answer"
      BY DEF Mint, Put, NewRequest, LineageInv, TypeOK
    <3> QED  BY <2>1, <3>1 DEF Copied, HoldsRow, Recovering
  <2>2. CASE s # r
    <3>1. req'[s] = req[s] /\ Copied(s) /\ RequestOK(s)
      BY <2>2 DEF Mint, Put, LineageInv, TypeOK, RequestsOK, ExpiryInv
    <3>2. req[s].pc \in HoldsRow => req[s].tok \in Token \ {u}
      BY <1>2, Busy DEF HoldsRow, Recovering, Ended
    <3> QED  BY <1>9, <3>1, <3>2 DEF Copied, Exists
  <2> QED  BY <2>1, <2>2
<1> QED  BY <1>10, <1>11, <1>12 DEF ExpiryInv

\* A sign-in begins a family nobody has a row of.
LEMMA SignInDates ==
  ASSUME LineageInv, ExpiryInv, NEW t \in Token, SignIn(t)
  PROVE  ExpiryInv'
<1>1. t \notin minted /\ disk'[t].family = t /\ \A x \in Token \ {t} : disk'[x] = disk[x]
  BY DEF SignIn, NewRow, LineageInv, TypeOK
<1>2. \A x \in Token : disk[x].family # t
  BY <1>1, NamesAssumption DEF LineageInv, RowsOK
<1>3. FamilyExpiresTogether /\ Dated
  BY DEF ExpiryInv
<1>4. Dated'
  BY <1>1, <1>3, NamesAssumption DEF Dated, Exists
<1>5. FamilyExpiresTogether'
  BY <1>1, <1>2, <1>3 DEF FamilyExpiresTogether
<1>6. ASSUME NEW s \in Request PROVE Copied(s)'
  <2>1. req' = req /\ Copied(s)
    BY DEF SignIn, ExpiryInv
  <2>2. req[s].pc \in HoldsRow => req[s].tok \in Token \ {t}
    BY <1>1, Busy DEF HoldsRow, Recovering, Ended
  <2> QED  BY <1>1, <2>1, <2>2 DEF Copied, Exists
<1> QED  BY <1>4, <1>5, <1>6 DEF ExpiryInv

LEMMA NextExpiry == ASSUME LineageInv, ExpiryInv, [Next]_vars PROVE ExpiryInv'
<1>1. ASSUME NEW r \in Request, Handle(r) PROVE ExpiryInv'
  <2>1. CASE \E u \in Token : Mint(r, u)
    BY <2>1, MintInherits
  <2>2. CASE ~\E u \in Token : Mint(r, u)
    <3>1. \A s \in Request : req'[s] = req[s] \/ Carries(s)
      BY <1>1, HandleCarries, HandleIsLocal
    <3> QED  BY <1>1, <2>2, <3>1, HandleKeeps, KeepingStep
  <2> QED  BY <2>1, <2>2
<1>2. ASSUME NEW t \in Token, SignIn(t) PROVE ExpiryInv'
  BY <1>2, SignInDates
<1>3. ASSUME NEW t \in Token, Prune(t) PROVE ExpiryInv'
  <2>1. req' = req /\ \A x \in Token : disk'[x] = NoRow \/ disk'[x] = disk[x]
    BY <1>3 DEF Prune, LineageInv, TypeOK
  <2>2. \A x \in Token : Keeps(x)
    BY <2>1 DEF Keeps
  <2> QED  BY <2>1, <2>2, KeepingStep
<1>4. ASSUME NEW r \in Request, Fail(r) \/ DeadlockVictim(r) PROVE ExpiryInv'
  <2>1. disk' = disk /\ Finish(r)
    BY <1>4 DEF Fail, DeadlockVictim
  <2>2. \A s \in Request : req'[s] = req[s] \/ Carries(s)
    BY <2>1, CarriesEnd DEF Finish, Put, LineageInv, TypeOK
  <2>3. \A x \in Token : Keeps(x)
    BY <2>1 DEF Keeps
  <2> QED  BY <2>2, <2>3, KeepingStep
<1>5. ASSUME NEW r \in Request, NEW k \in Kinds, NEW t \in Token, Call(r, k, t) PROVE ExpiryInv'
  <2>1. disk' = disk /\ \A s \in Request \ {r} : req'[s] = req[s]
    BY <1>5 DEF Call, Put, db, LineageInv, TypeOK
  <2>2. req'[r].pc \in {"signOut", "resolve"}
    BY <1>5 DEF Call, Put, NewRequest, LineageInv, TypeOK
  <2>3. Carries(r)
    BY <2>2, CarriesPlain DEF HoldsRow, Recovering
  <2>4. \A x \in Token : Keeps(x)
    BY <2>1 DEF Keeps
  <2> QED  BY <2>1, <2>3, <2>4, KeepingStep
<1>6. CASE Tick \/ DeleteUser \/ UNCHANGED vars
  <2>1. disk' = disk /\ req' = req
    BY <1>6 DEF Tick, DeleteUser, vars
  <2>2. \A x \in Token : Keeps(x)
    BY <2>1 DEF Keeps
  <2> QED  BY <2>1, <2>2, KeepingStep
<1> QED  BY <1>1, <1>2, <1>3, <1>4, <1>5, <1>6 DEF Next

\* A family's rows agree on their expiry with each other and with what was read of them.
THEOREM ExpiryKept == Spec => []ExpiryInv
<1>1. Init => ExpiryInv
  BY DEF Init, ExpiryInv, FamilyExpiresTogether, Dated, Copied, NoRow, Exists, IdleRequest, NewRequest,
         HoldsRow, Recovering
<1>2. LineageInv /\ ExpiryInv /\ [Next]_vars => ExpiryInv'
  BY NextExpiry
<1> QED  BY <1>1, <1>2, LineageCorrect, PTL DEF Spec

\* However often a sign-in rotates or recovers, all its rows expire when the first
\* one was going to (rotateSession copies the expiry it read before its
\* transaction).
THEOREM RotationRenewsNothing == Spec => []FamilyExpiresTogether
<1>1. ExpiryInv => FamilyExpiresTogether
  BY DEF ExpiryInv
<1> QED  BY <1>1, ExpiryKept, PTL

----------------------------------------------------------------------------
(***************************************************************************)
(* First uses.                                                             *)
(***************************************************************************)
\* Where a request has seen the token it presents marked as used.
InUse == {"successors", "recoverClaim", "contested", "due", "claim", "mint"} \cup Recovering

\* Only a used token is ever retired.
RetiredWasUsed == \A t \in Token : disk[t].rotatedAt # Never => disk[t].used

\* The first use is recorded before the request goes on.
KnowsUse(r) == req[r].pc \in InUse /\ Exists(disk[req[r].tok]) => disk[req[r].tok].used

\* The rows a recovery has revoked but not committed: unused ones of its family.
SweptUnused(r) ==
  req[r].pc \in Recovering =>
    \A t \in Token : lock[t] = r /\ t # req[r].tok =>
      ~disk[t].used /\ disk[t].family = req[r].row.family

UseInv == RetiredWasUsed /\ \A r \in Request : KnowsUse(r) /\ SweptUnused(r)

----------------------------------------------------------------------------
(***************************************************************************)
(* What one step of a request does to its own record.                      *)
(***************************************************************************)
\* A request begins to rely on the use of its token in three places only, and in
\* each the row it has just read or stamped is used.
Learns(r) ==
  req'[r].pc \in InUse =>
    /\ req'[r].tok = req[r].tok
    /\ \/ req[r].pc \in InUse
       \/ Exists(disk'[req[r].tok]) => disk'[req[r].tok].used

LEMMA LearnsInUse ==
  ASSUME LineageInv, NEW r \in Request, Handle(r), req[r].pc \in InUse
  PROVE  Learns(r)
BY HandleCarries DEF Learns, Carries, HoldsRow, InUse

LEMMA LearnsNothing ==
  ASSUME NEW r \in Request, req'[r].pc \notin InUse PROVE Learns(r)
BY DEF Learns

LEMMA LearnsResolved ==
  ASSUME LineageInv, NEW r \in Request, NEW row, Resolved(r, row), req[r].pc \notin Ended,
         Exists(disk'[req[r].tok]) => disk'[req[r].tok].used
  PROVE  Learns(r)
<1>1. req[r] \in RequestRecord /\ \A q : Put(r, q) => req'[r] = q
  BY Busy
<1>2. CASE Finish(r)
  BY <1>1, <1>2 DEF Finish, IdleRequest, NewRequest, Learns, InUse, Recovering
<1>3. CASE Put(r, [req[r] EXCEPT !.pc = AfterResolve(req[r].kind), !.row = row])
  <2>1. req'[r].tok = req[r].tok
    BY <1>1, <1>3 DEF RequestRecord
  <2> QED  BY <2>1 DEF Learns
<1> QED  BY <1>2, <1>3 DEF Resolved

LEMMA HandleLearns ==
  ASSUME LineageInv, RetiredWasUsed, NEW r \in Request, Handle(r)
  PROVE  Learns(r)
<1> DEFINE t == req[r].tok
<1>1. /\ req[r].pc \notin Ended /\ req[r] \in RequestRecord /\ t \in Token
      /\ \A q : Put(r, q) => req'[r] = q
  BY HandleIsBusy, Busy
<1>2. CASE req[r].pc \in InUse
  BY <1>2, LearnsInUse
<1>3. ASSUME Finish(r) \/ Refuse(r) PROVE Learns(r)
  BY <1>1, <1>3 DEF Finish, Refuse, IdleRequest, NewRequest, Learns, InUse, Recovering
<1>4. ASSUME NEW pc \in Pc \ InUse, Goto(r, pc) PROVE Learns(r)
  <2>1. req'[r] = [req[r] EXCEPT !.pc = pc, !.todo = {}, !.hit = FALSE]
    BY <1>4 DEF Goto, Put, LineageInv, TypeOK
  <2>2. req'[r].pc = pc
    BY <1>1, <2>1, GotoFields
  <2> QED  BY <1>4, <2>2, LearnsNothing
<1>5. CASE ResolveCurrent(r)
  <2>1. CASE Goto(r, "superseded")
    BY <1>4, <2>1 DEF Pc, InUse, Recovering
  <2>2. CASE Put(r, [req[r] EXCEPT !.pc = "stamp", !.row = disk[t]])
    <3>1. req'[r].pc = "stamp"
      BY <1>1, <2>2 DEF RequestRecord
    <3> QED  BY <3>1 DEF Learns, InUse, Recovering
  <2> QED  BY <1>1, <1>5, <2>1, <2>2, LearnsResolved DEF ResolveCurrent, db
<1>6. CASE MarkFirstUse(r)
  BY <1>1, <1>6, StampEffect, LearnsResolved DEF MarkFirstUse
<1>7. CASE ResolveSuperseded(r)
  <2>1. Refuse(r) \/ disk[t].used
    BY <1>1, <1>7 DEF ResolveSuperseded, Retired, RetiredWasUsed
  <2>2. disk' = disk
    BY <1>7 DEF ResolveSuperseded, db
  <2>3. CASE Put(r, [req[r] EXCEPT !.pc = "successors", !.row = disk[t], !.at = disk[t].rotatedAt])
    <3>1. req'[r].tok = t
      BY <1>1, <2>3 DEF RequestRecord
    <3> QED  BY <1>3, <2>1, <2>2, <3>1 DEF Learns
  <2> QED  BY <1>1, <1>3, <1>7, <2>1, <2>2, <2>3, LearnsResolved DEF ResolveSuperseded
<1>8. CASE ReadLostClaim(r) \/ Deliver(r)
  BY <1>3, <1>8 DEF ReadLostClaim, Deliver
<1>9. CASE SignOut(r) \/ FindKept(r) \/ ReadFamilies(r) \/ StartRevokePass(r) \/ StartAllPass(r)
  <2> DEFINE away == {"revoke", "families", "allPass", "revokeSweep", "allSweep"}
  <2>1. ASSUME NEW q, Put(r, q), q.pc \in away PROVE Learns(r)
    BY <1>1, <2>1 DEF Learns, InUse, Recovering
  <2>2. CASE SignOut(r)
    <3>1. [req[r] EXCEPT !.pc = "revoke", !.row = disk[t]].pc = "revoke"
      BY <1>1 DEF RequestRecord
    <3> QED  BY <1>3, <2>1, <2>2, <3>1 DEF SignOut
  <2>3. CASE FindKept(r)
    <3>1. \A row : [req[r] EXCEPT !.pc = "families", !.row = row, !.at = now].pc = "families"
      BY <1>1 DEF RequestRecord
    <3> QED  BY <1>3, <2>1, <2>3, <3>1 DEF FindKept
  <2>4. CASE ReadFamilies(r)
    <3>1. \A F : [req[r] EXCEPT !.pc = "allPass", !.fams = F].pc = "allPass"
      BY <1>1 DEF RequestRecord
    <3> QED  BY <2>1, <2>4, <3>1 DEF ReadFamilies
  <2>5. CASE StartRevokePass(r) \/ StartAllPass(r)
    <3>1. \A T, pc : [req[r] EXCEPT !.pc = pc, !.todo = T, !.hit = FALSE].pc = pc
      BY <1>1 DEF RequestRecord
    <3> QED  BY <1>3, <2>1, <2>5, <3>1 DEF StartRevokePass, StartAllPass, EndRevoke
  <2> QED  BY <1>9, <2>2, <2>3, <2>4, <2>5
<1>10. CASE EndRevokePass(r) \/ EndAllPass(r)
  <2>1. Goto(r, "revoke") \/ Goto(r, "allPass") \/ Finish(r) \/ Refuse(r)
    BY <1>10 DEF EndRevokePass, EndAllPass, EndRevoke
  <2> QED  BY <1>3, <1>4, <2>1 DEF Pc, InUse, Recovering
<1>11. ASSUME NEW u \in Token, SweepRow(r, u), req[r].pc \notin InUse PROVE Learns(r)
  <2>1. PICK q \in {[req[r] EXCEPT !.todo = @ \ {u}, !.hit = TRUE], [req[r] EXCEPT !.todo = @ \ {u}]} :
          Put(r, q)
    BY <1>11 DEF SweepRow
  <2>2. req'[r].pc = req[r].pc
    BY <1>1, <2>1 DEF RequestRecord
  <2> QED  BY <1>11, <2>2, LearnsNothing
<1>12. CASE \/ CheckSuccessors(r) \/ RecoverClaim(r) \/ RecoverSnapshot(r) \/ RecoverCheck(r)
            \/ RecoverUndo(r) \/ RecoverReuse(r) \/ Contested(r) \/ CheckAge(r) \/ ClaimRotation(r)
            \/ \E u \in Token : Mint(r, u)
  <2>1. req[r].pc \in InUse
    BY <1>12 DEF CheckSuccessors, RecoverClaim, RecoverSnapshot, RecoverCheck, RecoverUndo,
                 RecoverReuse, Contested, CheckAge, ClaimRotation, Mint, InUse, Recovering
  <2> QED  BY <1>2, <2>1
<1> QED  BY <1>2, <1>5, <1>6, <1>7, <1>8, <1>9, <1>10, <1>11, <1>12 DEF Handle

----------------------------------------------------------------------------
(***************************************************************************)
(* What one step of a request does to the locks.                           *)
(***************************************************************************)
LEMMA HandleLockKinds ==
  ASSUME LineageInv, NEW r \in Request, Handle(r)
  PROVE  \/ UNCHANGED lock
         \/ Release(r)
         \/ \E t \in Token : Free(t) /\ lock' = [lock EXCEPT ![t] = r] /\ UNCHANGED disk
<1> req[r].tok \in Token
  BY HandleIsBusy, Busy
<1>1. CASE RecoverClaim(r) \/ ClaimRotation(r) \/ \E t \in Token : SweepRow(r, t)
  BY <1>1 DEF RecoverClaim, ClaimRotation, SweepRow, Write, db
<1>2. CASE \/ RecoverUndo(r) \/ RecoverReuse(r) \/ (\E u \in Token : Mint(r, u))
           \/ EndRevokePass(r) \/ StartAllPass(r) \/ EndAllPass(r)
  BY <1>2 DEF RecoverUndo, RecoverReuse, Mint, EndRevokePass, StartAllPass, EndAllPass, Commit, db
<1>3. CASE \/ ResolveCurrent(r) \/ MarkFirstUse(r) \/ ResolveSuperseded(r) \/ CheckSuccessors(r)
           \/ RecoverSnapshot(r) \/ RecoverCheck(r) \/ Contested(r) \/ CheckAge(r)
           \/ ReadLostClaim(r) \/ Deliver(r) \/ SignOut(r) \/ StartRevokePass(r) \/ FindKept(r)
           \/ ReadFamilies(r)
  BY <1>3 DEF ResolveCurrent, MarkFirstUse, ResolveSuperseded, CheckSuccessors, RecoverSnapshot,
              RecoverCheck, Contested, CheckAge, ReadLostClaim, Deliver, SignOut, StartRevokePass,
              FindKept, ReadFamilies, db
<1> QED  BY <1>1, <1>2, <1>3 DEF Handle

\* A row that another request holds stays held and stays as it is.
LEMMA OthersLocksStay ==
  ASSUME LineageInv, NEW r \in Request, Handle(r), NEW s \in Request \ {r}, NEW t \in Token, lock'[t] = s
  PROVE  lock[t] = s /\ disk'[t] = disk[t]
<1>1. lock \in [Token -> Request \cup {NoRequest}] /\ s # NoRequest
  BY NamesAssumption DEF LineageInv, TypeOK
<1>2. lock[t] = s
  BY <1>1, HandleLockKinds DEF Release
<1>3. ~Free(t) /\ lock[t] # r
  BY <1>1, <1>2 DEF Free
<1>4. ASSUME NEW u \in Token, Mint(r, u) PROVE disk'[t] = disk[t]
  <2>1. req[r].pc = "mint" /\ RequestOK(r) /\ u \notin minted
    BY <1>4, Busy DEF Mint, Ended
  <2>2. t # req[r].tok
    BY <1>3, <2>1 DEF RequestOK
  <2>3. t # u
    BY <1>3, <2>1 DEF LineageInv, RowsOK
  <2> QED  BY <1>4, <2>2, <2>3 DEF Mint, LineageInv, TypeOK
<1>5. CASE ~\E u \in Token : Mint(r, u)
  <2>1. CASE MarkFirstUse(r)
    BY <1>2, <1>3, <2>1, StampEffect DEF LineageInv, TypeOK
  <2>2. CASE RecoverUndo(r)
    BY <1>2, <1>3, <2>2, UndoEffect
  <2> QED  BY <1>2, <1>3, <1>5, <2>1, <2>2, HandleEffects DEF Revokes
<1> QED  BY <1>2, <1>4, <1>5

\* A recovery holds the row it presented and unused rows of its family only.
LEMMA SweepStaysUnused ==
  ASSUME LineageInv, UseInv, NEW r \in Request, Handle(r)
  PROVE  SweptUnused(r)'
<1> DEFINE t == req[r].tok
<1> SUFFICES ASSUME req'[r].pc \in Recovering, NEW u \in Token, lock'[u] = r, u # req'[r].tok
             PROVE  ~disk'[u].used /\ disk'[u].family = req'[r].row.family
  BY DEF SweptUnused
<1>1. /\ req[r].pc \notin Ended /\ req[r] \in RequestRecord /\ t \in Token
      /\ \A q : Put(r, q) => req'[r] = q
  BY HandleIsBusy, Busy
<1>2. lock \in [Token -> Request \cup {NoRequest}] /\ r # NoRequest /\ SweptUnused(r)
  BY NamesAssumption DEF LineageInv, TypeOK, UseInv
<1>3. ASSUME req[r].pc \in Recovering, lock[u] = r, t = req'[r].tok, req'[r].row = req[r].row,
             disk'[u] = disk[u]
      PROVE  ~disk'[u].used /\ disk'[u].family = req'[r].row.family
  BY <1>2, <1>3 DEF SweptUnused
<1>4. ASSUME NEW pc, Goto(r, pc)
      PROVE  req'[r].pc = pc /\ req'[r].tok = t /\ req'[r].row = req[r].row
  <2>1. req'[r] = [req[r] EXCEPT !.pc = pc, !.todo = {}, !.hit = FALSE]
    BY <1>4 DEF Goto, Put, LineageInv, TypeOK
  <2> QED  BY <1>1, <2>1, GotoFields
<1>5. CASE RecoverClaim(r)
  <2>1. req'[r].pc = "recoverSnapshot" /\ req'[r].tok = t /\ lock' = [lock EXCEPT ![t] = r]
    BY <1>4, <1>5 DEF RecoverClaim, Write, Recovering
  <2>2. lock[u] = r
    BY <1>2, <2>1
  <2>3. req[r].pc \notin Sweeping \cup {"mint"}
    BY <1>5 DEF RecoverClaim, Sweeping, Recovering
  <2> QED  BY <2>2, <2>3, HoldsNothing DEF LineageInv
<1>6. CASE RecoverSnapshot(r)
  <2>1. req[r].pc \in Recovering /\ UNCHANGED db
    BY <1>6 DEF RecoverSnapshot, Recovering
  <2> DEFINE T == {x \in Token : Undelivered(r, x, disk[x]) /\ ~disk[x].used}
             q == [req[r] EXCEPT !.pc = "recoverSweep", !.todo = T]
  <2>2. q.tok = t /\ q.row = req[r].row /\ Put(r, q)
    BY <1>1, <1>6 DEF RequestRecord, RecoverSnapshot
  <2> QED  BY <1>1, <1>3, <2>1, <2>2 DEF db
<1>7. CASE RecoverCheck(r)
  <2>1. req[r].pc \in Recovering /\ UNCHANGED db
    BY <1>7 DEF RecoverCheck, Recovering
  <2> QED  BY <1>3, <1>4, <1>7, <2>1 DEF RecoverCheck, db
<1>8. ASSUME NEW x \in Token, SweepRow(r, x)
      PROVE  ~disk'[u].used /\ disk'[u].family = req'[r].row.family
  <2>1. PICK q \in {[req[r] EXCEPT !.todo = @ \ {x}, !.hit = TRUE], [req[r] EXCEPT !.todo = @ \ {x}]} :
          Put(r, q)
    BY <1>8 DEF SweepRow
  <2>2. req'[r].pc = req[r].pc /\ req'[r].tok = t /\ req'[r].row = req[r].row
    BY <1>1, <2>1 DEF RequestRecord
  <2>3. req[r].pc = "recoverSweep" /\ UNCHANGED disk
    BY <1>8, <2>2 DEF SweepRow, Write, db, Recovering
  <2>4. CASE lock[u] = r
    BY <1>3, <2>2, <2>3, <2>4 DEF Recovering
  <2>5. CASE lock[u] # r
    <3>1. u = x /\ Matches(r, x, disk[x])
      BY <1>2, <1>8, <2>5 DEF SweepRow, Write, db
    <3>2. ~disk[u].used /\ disk[u].family = req[r].row.family
      BY <2>3, <3>1 DEF Matches, Undelivered, Successor
    <3> QED  BY <2>2, <2>3, <3>2
  <2> QED  BY <2>4, <2>5
<1>9. CASE Release(r)
  BY <1>2, <1>9 DEF Release
<1>10. CASE \/ RecoverUndo(r) \/ RecoverReuse(r) \/ (\E x \in Token : Mint(r, x)) \/ EndRevokePass(r)
  BY <1>9, <1>10 DEF RecoverUndo, RecoverReuse, Mint, EndRevokePass, Commit
<1>11. CASE req[r].pc \notin Sweeping \cup {"mint"} /\ UNCHANGED lock
  BY <1>11, HoldsNothing DEF LineageInv
<1>12. CASE \/ ResolveCurrent(r) \/ MarkFirstUse(r) \/ ResolveSuperseded(r) \/ CheckSuccessors(r)
            \/ Contested(r) \/ CheckAge(r) \/ ReadLostClaim(r) \/ Deliver(r) \/ SignOut(r)
            \/ StartRevokePass(r) \/ FindKept(r) \/ ReadFamilies(r)
  <2>1. req[r].pc \notin Sweeping \cup {"mint"}
    BY <1>12 DEF ResolveCurrent, MarkFirstUse, ResolveSuperseded, CheckSuccessors, Contested, CheckAge,
                 ReadLostClaim, Deliver, SignOut, StartRevokePass, FindKept, ReadFamilies, Sweeping,
                 Recovering
  <2>2. UNCHANGED lock
    BY <1>12 DEF ResolveCurrent, MarkFirstUse, ResolveSuperseded, CheckSuccessors, Contested, CheckAge,
                 ReadLostClaim, Deliver, SignOut, StartRevokePass, FindKept, ReadFamilies, db
  <2> QED  BY <1>11, <2>1, <2>2
<1>13. CASE StartAllPass(r) \/ EndAllPass(r)
  <2>1. \A T : [req[r] EXCEPT !.pc = "allSweep", !.todo = T, !.hit = FALSE].pc = "allSweep"
    BY <1>1 DEF RequestRecord
  <2>2. Release(r) \/ req'[r].pc \in {"allSweep", "allPass"}
    <3>1. CASE StartAllPass(r)
      <4> DEFINE T == {x \in Token : OnAccount(r, View(r, x))}
                 q == [req[r] EXCEPT !.pc = "allSweep", !.todo = T, !.hit = FALSE]
      <4>1. Release(r) \/ Put(r, q)
        BY <3>1 DEF StartAllPass, Commit
      <4> QED  BY <1>1, <2>1, <4>1
    <3>2. CASE EndAllPass(r)
      BY <1>4, <3>2 DEF EndAllPass, Commit
    <3> QED  BY <1>13, <3>1, <3>2
  <2> QED  BY <1>9, <2>2 DEF Recovering
<1>14. CASE ClaimRotation(r)
  BY <1>4, <1>14 DEF ClaimRotation, Recovering
<1> QED  BY <1>5, <1>6, <1>7, <1>8, <1>10, <1>12, <1>13, <1>14 DEF Handle

----------------------------------------------------------------------------
(***************************************************************************)
(* The invariant.                                                          *)
(***************************************************************************)
\* A row goes, or comes no closer to being retired unused.
Ages(t) ==
  \/ disk'[t] = NoRow
  \/ /\ disk'[t].family = disk[t].family
     /\ disk[t].used => disk'[t].used
     /\ disk'[t].rotatedAt # Never => disk[t].rotatedAt # Never

LEMMA HandleAges ==
  ASSUME LineageInv, NEW r \in Request, Handle(r), ~\E u \in Token : Mint(r, u), NEW t \in Token
  PROVE  Ages(t)
<1>1. disk[t] \in Row
  BY DEF LineageInv, TypeOK
<1> QED  BY <1>1, HandleRows DEF Row, Ages

\* A step that inserts no row and retires none.
LEMMA AgingStep ==
  ASSUME LineageInv, UseInv, \A t \in Token : Ages(t),
         \A r \in Request : req'[r] = req[r] \/ (req[r].pc \notin Ended /\ Learns(r)) \/ req'[r].pc \notin InUse,
         \A r \in Request : SweptUnused(r)'
  PROVE  UseInv'
<1>1. RetiredWasUsed'
  BY DEF UseInv, RetiredWasUsed, Ages, NoRow
<1>2. ASSUME NEW r \in Request, req'[r].pc \in InUse, Exists(disk'[req'[r].tok])
      PROVE  disk'[req'[r].tok].used
  <2>1. req[r].pc \notin Ended /\ req'[r].tok = req[r].tok
    BY <1>2 DEF Learns, InUse, Recovering, Ended
  <2>2. req[r].tok \in Token
    BY <2>1, Busy
  <2>3. CASE Exists(disk'[req[r].tok]) => disk'[req[r].tok].used
    BY <1>2, <2>1, <2>3
  <2>4. CASE req[r].pc \in InUse
    <3>1. disk'[req[r].tok] # NoRow
      BY <1>2, <2>1 DEF Exists, NoRow
    <3>2. Exists(disk[req[r].tok]) /\ KnowsUse(r)
      BY <1>2, <2>1, <2>2, <3>1 DEF Ages, Exists, UseInv
    <3> QED  BY <2>1, <2>2, <2>4, <3>1, <3>2 DEF Ages, KnowsUse
  <2> QED  BY <1>2, <2>3, <2>4 DEF Learns
<1>3. \A r \in Request : KnowsUse(r)'
  BY <1>2 DEF KnowsUse, Exists
<1> QED  BY <1>1, <1>3 DEF UseInv

\* A step that leaves a request's record and the rows it holds alone.
LEMMA SweptStays ==
  ASSUME UseInv, NEW r \in Request, req'[r] = req[r],
         \A t \in Token : lock'[t] = r => lock[t] = r /\ disk'[t] = disk[t]
  PROVE  SweptUnused(r)'
BY DEF UseInv, SweptUnused

\* The insert: the row it retires is used, the new one is not retired.
LEMMA MintUses ==
  ASSUME LineageInv, UseInv, NEW r \in Request, NEW u \in Token, Mint(r, u)
  PROVE  UseInv'
<1>1. req[r].pc = "mint" /\ req[r].pc \notin Ended /\ u \notin minted
  BY DEF Mint, Ended
<1> PICK t \in Token : t = req[r].tok
  BY <1>1, Busy
<1>2. RequestOK(r) /\ t \in minted /\ lock[t] = r /\ disk[t] \in Row /\ disk \in [Token -> Row]
  BY <1>1, Busy DEF RequestOK, LineageInv, TypeOK
<1>3. ~Free(t) /\ LockOK(t)
  BY <1>2, NamesAssumption DEF Free, LineageInv, LocksOK
<1>4. Current(disk[t]) /\ draft[t] = [disk[t] EXCEPT !.rotatedAt = req[r].at]
  BY <1>1, <1>2, <1>3 DEF LockOK, Recovering, Sweeping
<1>5. disk[t].used
  BY <1>1, <1>4 DEF UseInv, KnowsUse, InUse, Current, Unrevoked
<1>6. disk'[t].used /\ disk'[t].family = disk[t].family
  BY <1>1, <1>2, <1>4, <1>5 DEF Mint, Row
<1>7. disk'[u].rotatedAt = Never /\ \A x \in Token \ {t, u} : disk'[x] = disk[x]
  BY <1>2 DEF Mint, NewRow
<1>8. RetiredWasUsed'
  BY <1>6, <1>7 DEF UseInv, RetiredWasUsed
<1>9. req'[r] = NewRequest("answer", "get", u) /\ \A s \in Request \ {r} : req'[s] = req[s]
  BY DEF Mint, Put, LineageInv, TypeOK
<1>10. ASSUME NEW s \in Request PROVE KnowsUse(s)'
  <2>1. CASE s = r
    BY <1>9, <2>1 DEF KnowsUse, NewRequest, InUse, Recovering
  <2>2. CASE s # r /\ req[s].pc \in InUse
    <3>1. req[s].tok \in Token \ {u} /\ KnowsUse(s)
      BY <1>1, <2>2, Busy DEF InUse, Recovering, Ended, UseInv
    <3> QED  BY <1>6, <1>7, <1>9, <2>2, <3>1 DEF KnowsUse, Exists
  <2> QED  BY <1>9, <2>1, <2>2 DEF KnowsUse
<1>11. ASSUME NEW s \in Request PROVE SweptUnused(s)'
  <2>1. Handle(r)
    BY DEF Handle
  <2>2. CASE s = r
    BY <2>1, <2>2, SweepStaysUnused
  <2>3. CASE s # r
    BY <1>9, <2>1, <2>3, OthersLocksStay, SweptStays
  <2> QED  BY <2>2, <2>3
<1> QED  BY <1>8, <1>10, <1>11 DEF UseInv

LEMMA NextUses == ASSUME LineageInv, UseInv, [Next]_vars PROVE UseInv'
<1>1. ASSUME NEW r \in Request, Handle(r) PROVE UseInv'
  <2>1. CASE \E u \in Token : Mint(r, u)
    BY <2>1, MintUses
  <2>2. CASE ~\E u \in Token : Mint(r, u)
    <3>1. \A s \in Request : req'[s] = req[s] \/ (req[s].pc \notin Ended /\ Learns(s))
      BY <1>1, HandleLearns, HandleIsBusy, HandleIsLocal DEF UseInv
    <3>2. ASSUME NEW s \in Request PROVE SweptUnused(s)'
      <4>1. CASE s = r
        BY <1>1, <4>1, SweepStaysUnused
      <4>2. CASE s # r
        BY <1>1, <4>2, HandleIsLocal, OthersLocksStay, SweptStays
      <4> QED  BY <4>1, <4>2
    <3>3. \A t \in Token : Ages(t)
      BY <1>1, <2>2, HandleAges
    <3> QED  BY <3>1, <3>2, <3>3, AgingStep
  <2> QED  BY <2>1, <2>2
<1>2. ASSUME req' = req, lock' = lock, \A t \in Token : disk'[t] = disk[t] \/ (Free(t) /\ Ages(t))
      PROVE  UseInv'
  <2>1. \A t \in Token : Ages(t)
    BY <1>2 DEF Ages
  <2>2. \A s \in Request : SweptUnused(s)'
    BY <1>2, NamesAssumption, SweptStays DEF Free
  <2> QED  BY <1>2, <2>1, <2>2, AgingStep
<1>3. ASSUME NEW t \in Token, SignIn(t) PROVE UseInv'
  <2>1. /\ req' = req /\ lock' = lock /\ t \notin minted
        /\ disk' = [disk EXCEPT ![t] = NewRow(t, now, now + Ttl)] /\ disk \in [Token -> Row]
    BY <1>3 DEF SignIn, LineageInv, TypeOK
  <2>2. Free(t)
    BY <2>1 DEF LineageInv, RowsOK
  <2>3. RetiredWasUsed'
    BY <2>1 DEF UseInv, RetiredWasUsed, NewRow
  <2>4. \A s \in Request : SweptUnused(s)'
    BY <2>1, <2>2, NamesAssumption, SweptStays DEF Free
  <2>5. ASSUME NEW s \in Request, req[s].pc \in InUse PROVE KnowsUse(s)'
    <3>1. req[s].tok \in Token \ {t} /\ KnowsUse(s)
      BY <2>1, <2>5, Busy DEF InUse, Recovering, Ended, UseInv
    <3> QED  BY <2>1, <3>1 DEF KnowsUse, Exists
  <2>6. \A s \in Request : KnowsUse(s)'
    BY <2>1, <2>5 DEF KnowsUse
  <2> QED  BY <2>3, <2>4, <2>6 DEF UseInv
<1>4. ASSUME NEW t \in Token, Prune(t) PROVE UseInv'
  <2>1. /\ req' = req /\ lock' = lock /\ Free(t)
        /\ \A x \in Token \ {t} : disk'[x] = disk[x]
        /\ disk'[t] = NoRow
    BY <1>4 DEF Prune, LineageInv, TypeOK
  <2> QED  BY <1>2, <2>1 DEF Ages
<1>5. ASSUME NEW r \in Request, Fail(r) \/ DeadlockVictim(r) PROVE UseInv'
  <2>1. disk' = disk /\ Finish(r) /\ Release(r)
    BY <1>5 DEF Fail, DeadlockVictim
  <2>2. req'[r].pc \notin InUse /\ \A s \in Request \ {r} : req'[s] = req[s]
    BY <2>1 DEF Finish, Put, IdleRequest, NewRequest, InUse, Recovering, LineageInv, TypeOK
  <2>3. \A s \in Request, x \in Token : lock'[x] = s => lock[x] = s
    BY <2>1, NamesAssumption DEF Release
  <2>4. ASSUME NEW s \in Request PROVE SweptUnused(s)'
    <3>1. CASE s = r
      BY <2>2, <3>1 DEF SweptUnused, InUse
    <3>2. CASE s # r
      BY <2>1, <2>2, <2>3, <3>2, SweptStays
    <3> QED  BY <3>1, <3>2
  <2>5. \A x \in Token : Ages(x)
    BY <2>1 DEF Ages
  <2> QED  BY <2>2, <2>4, <2>5, AgingStep
<1>6. ASSUME NEW r \in Request, NEW k \in Kinds, NEW t \in Token, Call(r, k, t) PROVE UseInv'
  <2>1. disk' = disk /\ lock' = lock /\ \A s \in Request \ {r} : req'[s] = req[s]
    BY <1>6 DEF Call, Put, db, LineageInv, TypeOK
  <2>2. req'[r].pc \notin InUse
    BY <1>6 DEF Call, Put, NewRequest, LineageInv, TypeOK, InUse, Recovering
  <2>3. ASSUME NEW s \in Request PROVE SweptUnused(s)'
    <3>1. CASE s = r
      BY <2>2, <3>1 DEF SweptUnused, InUse
    <3>2. CASE s # r
      BY <2>1, <3>2, SweptStays
    <3> QED  BY <3>1, <3>2
  <2>4. \A x \in Token : Ages(x)
    BY <2>1 DEF Ages
  <2> QED  BY <2>1, <2>2, <2>3, <2>4, AgingStep
<1>7. CASE Tick \/ DeleteUser \/ UNCHANGED vars
  BY <1>2, <1>7 DEF Tick, DeleteUser, vars
<1> QED  BY <1>1, <1>3, <1>4, <1>5, <1>6, <1>7 DEF Next

LEMMA InitUses == Init => UseInv
BY DEF Init, UseInv, RetiredWasUsed, KnowsUse, SweptUnused, NoRow, IdleRequest, NewRequest, InUse,
       Recovering, Never

----------------------------------------------------------------------------
(***************************************************************************)
(* The mapping to SignInLineage.                                           *)
(***************************************************************************)
HeadOf(f) == IF Heads(f) = {} THEN NoToken ELSE CHOOSE t \in Heads(f) : TRUE
PastOf(f) == {t \in Token : Retired(disk[t]) /\ disk[t].family = f}
Head == [f \in Token |-> HeadOf(f)]
Past == [f \in Token |-> PastOf(f)]
SpentTokens == {t \in Token : disk[t].used}

\* A family has one current row at most, so its head is that row.
LEMMA HeadIs ==
  ASSUME OneCurrent, NEW f
  PROVE  /\ \A t \in Heads(f) : HeadOf(f) = t
         /\ Heads(f) = {} => HeadOf(f) = NoToken
         /\ HeadOf(f) \in Token => HeadOf(f) \in Heads(f)
<1>1. \A t, u \in Heads(f) : t = u
  BY DEF Heads, OneCurrent
<1>2. NoToken \notin Token /\ Heads(f) \subseteq Token
  BY NamesAssumption DEF Heads
<1> QED  BY <1>1, <1>2 DEF HeadOf

LEMMA HeadIsAfter ==
  ASSUME OneCurrent', NEW f
  PROVE  /\ \A t \in Heads(f)' : HeadOf(f)' = t
         /\ Heads(f)' = {} => HeadOf(f)' = NoToken
<1>1. \A t, u \in Heads(f)' : t = u
  BY DEF Heads, OneCurrent
<1> QED  BY <1>1 DEF HeadOf

LEMMA HeadSame ==
  ASSUME OneCurrent, OneCurrent', NEW f, Heads(f)' = Heads(f)
  PROVE  HeadOf(f)' = HeadOf(f)
<1>1. CASE Heads(f) = {}
  BY <1>1, HeadIs, HeadIsAfter
<1>2. ASSUME NEW t \in Heads(f) PROVE HeadOf(f)' = HeadOf(f)
  BY HeadIs, HeadIsAfter
<1> QED  BY <1>1, <1>2

\* The abstract steps in terms of the mapping.
LEMMA Stutters ==
  ASSUME UNCHANGED <<disk, minted>> PROVE UNCHANGED Promise!vars
BY DEF Promise!vars, Heads, Retired, Current, Unrevoked, Exists

LEMMA Begins ==
  ASSUME NEW f \in Token \ minted, minted' = minted \cup {f},
         HeadOf(f)' = f, \A g \in Token \ {f} : HeadOf(g)' = HeadOf(g),
         \A g \in Token : PastOf(g)' = PastOf(g), SpentTokens' = SpentTokens
  PROVE  Promise!Next
<1>1. Head' = [Head EXCEPT ![f] = f]
  BY DEF Head
<1>2. Past' = Past
  BY DEF Past
<1>3. Promise!Begin(f)
  BY <1>1, <1>2 DEF Promise!Begin, Head, HeadOf, Past, PastOf, SpentTokens
<1> QED  BY <1>3 DEF Promise!Next

LEMMA Spends ==
  ASSUME NEW t \in minted, t \in Token, minted' = minted,
         \A g \in Token : HeadOf(g)' = HeadOf(g) /\ PastOf(g)' = PastOf(g),
         SpentTokens' = SpentTokens \cup {t}
  PROVE  Promise!Next
<1>1. Head' = Head
  BY DEF Head
<1>2. Past' = Past
  BY DEF Past
<1>3. Promise!Spend(t)
  BY <1>1, <1>2 DEF Promise!Spend, Head, HeadOf, Past, PastOf, SpentTokens
<1> QED  BY <1>3 DEF Promise!Next

LEMMA Advances ==
  ASSUME NEW f \in Token, NEW u \in Token \ minted, HeadOf(f) \in SpentTokens, minted' = minted \cup {u},
         HeadOf(f)' = u, \A g \in Token \ {f} : HeadOf(g)' = HeadOf(g) /\ PastOf(g)' = PastOf(g),
         PastOf(f)' = PastOf(f) \cup {HeadOf(f)}, SpentTokens' = SpentTokens
  PROVE  Promise!Next
<1>1. Head' = [Head EXCEPT ![f] = u] /\ Head[f] \in SpentTokens
  BY DEF Head
<1>2. Past' = [Past EXCEPT ![f] = @ \cup {Head[f]}]
  BY DEF Past, Head
<1>3. Promise!Advance(f, u)
  BY <1>1, <1>2 DEF Promise!Advance, Head, HeadOf, Past, PastOf, SpentTokens
<1> QED  BY <1>3 DEF Promise!Next

LEMMA GoesBack ==
  ASSUME NEW f \in Token, NEW t \in Token, t \in PastOf(f), HeadOf(f) \notin SpentTokens,
         minted' = minted, SpentTokens' = SpentTokens,
         HeadOf(f)' = t, \A g \in Token \ {f} : HeadOf(g)' = HeadOf(g) /\ PastOf(g)' = PastOf(g),
         PastOf(f)' = PastOf(f) \ {t}
  PROVE  Promise!Next
<1>1. Head' = [Head EXCEPT ![f] = t] /\ Head[f] \notin SpentTokens
  BY DEF Head
<1>2. Past' = [Past EXCEPT ![f] = @ \ {t}] /\ t \in Past[f]
  BY DEF Past
<1>3. Promise!GoBack(f, t)
  BY <1>1, <1>2 DEF Promise!GoBack, Head, HeadOf, Past, PastOf, SpentTokens
<1> QED  BY <1>3 DEF Promise!Next

LEMMA Discards ==
  ASSUME \A g \in Token : /\ HeadOf(g)' \in {HeadOf(g), NoToken} /\ HeadOf(g)' \in Token \cup {NoToken}
                          /\ PastOf(g)' \subseteq PastOf(g),
         SpentTokens' \subseteq SpentTokens, minted' = minted
  PROVE  Promise!Next
<1>1. \A g \in Token : PastOf(g)' \subseteq Token
  BY DEF PastOf
<1>2. Promise!Discard
  BY <1>1 DEF Promise!Discard, HeadOf, PastOf, SpentTokens
<1> QED  BY <1>2 DEF Promise!Next

----------------------------------------------------------------------------
(***************************************************************************)
(* The steps of the service, mapped.                                       *)
(***************************************************************************)
LEMMA LineageOneCurrent == ASSUME LineageInv PROVE OneCurrent
BY DEF LineageInv, Lineage, OneCurrent, Current

\* A step that revokes or drops rows and changes no other.
LEMMA DiscardingStep ==
  ASSUME OneCurrent, OneCurrent', minted' = minted,
         \A t \in Token : /\ Unrevoked(disk'[t]) => disk'[t] = disk[t]
                          /\ disk'[t].used => disk[t].used
  PROVE  Promise!Next
<1>1. ASSUME NEW f \in Token
      PROVE  HeadOf(f)' \in {HeadOf(f), NoToken} /\ HeadOf(f)' \in Token \cup {NoToken}
  <2>1. CASE Heads(f)' = {}
    BY <2>1, HeadIsAfter
  <2>2. ASSUME NEW t \in Heads(f)'
        PROVE  HeadOf(f)' \in {HeadOf(f), NoToken} /\ HeadOf(f)' \in Token \cup {NoToken}
    <3>1. t \in Token /\ disk'[t] = disk[t]
      BY <2>2 DEF Heads, Current, Unrevoked, Exists
    <3>2. t \in Heads(f)
      BY <2>2, <3>1 DEF Heads, Current, Unrevoked, Exists
    <3> QED  BY <3>1, <3>2, HeadIs, HeadIsAfter
  <2> QED  BY <2>1, <2>2
<1>2. \A f \in Token : PastOf(f)' \subseteq PastOf(f)
  BY DEF PastOf, Retired, Unrevoked, Exists
<1>3. SpentTokens' \subseteq SpentTokens
  BY DEF SpentTokens
<1> QED  BY <1>1, <1>2, <1>3, Discards

LEMMA RevokesDiscards ==
  ASSUME LineageInv, LineageInv', NEW r \in Request, Revokes(r), minted' = minted
  PROVE  Promise!Next
<1>1. \A t \in Token : disk[t] \in Row
  BY DEF LineageInv, TypeOK
<1>2. \A t \in Token : /\ Unrevoked(disk'[t]) => disk'[t] = disk[t]
                       /\ disk'[t].used => disk[t].used
  BY <1>1 DEF Revokes, Row, Unrevoked
<1>3. OneCurrent'
  BY LineageOneCurrent, PTL
<1> QED  BY <1>2, <1>3, LineageOneCurrent, DiscardingStep

LEMMA PruneDiscards ==
  ASSUME LineageInv, LineageInv', NEW t \in Token, Prune(t)
  PROVE  Promise!Next
<1>1. minted' = minted /\ \A u \in Token : disk'[u] = NoRow \/ disk'[u] = disk[u]
  BY DEF Prune, LineageInv, TypeOK
<1>2. \A u \in Token : /\ Unrevoked(disk'[u]) => disk'[u] = disk[u]
                       /\ disk'[u].used => disk[u].used
  BY <1>1 DEF NoRow, Unrevoked, Exists
<1>3. OneCurrent'
  BY LineageOneCurrent, PTL
<1> QED  BY <1>1, <1>2, <1>3, LineageOneCurrent, DiscardingStep

\* The stamp spends the token it marks.
LEMMA StampSpends ==
  ASSUME LineageInv, LineageInv', NEW r \in Request, MarkFirstUse(r)
  PROVE  [Promise!Next]_(Promise!vars)
<1>1. minted' = minted
  BY DEF MarkFirstUse, env
<1>2. CASE UNCHANGED disk
  BY <1>1, <1>2, Stutters
<1>3. ASSUME NEW t \in Token, t \in minted, disk' = [disk EXCEPT ![t].used = TRUE]
      PROVE  Promise!Next
  <2>1. disk \in [Token -> Row] /\ disk[t] \in Row
    BY DEF LineageInv, TypeOK
  <2>2. \A u \in Token : /\ disk'[u].family = disk[u].family /\ disk'[u].revoked = disk[u].revoked
                         /\ disk'[u].rotatedAt = disk[u].rotatedAt
                         /\ disk'[u].used <=> disk[u].used \/ u = t
    BY <1>3, <2>1 DEF Row
  <2>3. \A u \in Token : (Current(disk'[u]) <=> Current(disk[u])) /\ (Retired(disk'[u]) <=> Retired(disk[u]))
    BY <2>2 DEF Current, Retired, Unrevoked, Exists
  <2>4. \A g \in Token : Heads(g)' = Heads(g) /\ PastOf(g)' = PastOf(g)
    BY <2>2, <2>3 DEF Heads, PastOf
  <2>5. \A g \in Token : HeadOf(g)' = HeadOf(g)
    <3>1. OneCurrent'
      BY LineageOneCurrent, PTL
    <3> QED  BY <2>4, <3>1, LineageOneCurrent, HeadSame
  <2>6. SpentTokens' = SpentTokens \cup {t}
    BY <2>2 DEF SpentTokens
  <2> QED  BY <1>1, <1>3, <2>4, <2>5, <2>6, Spends
<1> QED  BY <1>2, <1>3, StampEffect

\* A sign-in begins a family of its own.
LEMMA SignInBegins ==
  ASSUME LineageInv, LineageInv', NEW t \in Token, SignIn(t)
  PROVE  Promise!Next
<1> DEFINE row == NewRow(t, now, now + Ttl)
<1>1. /\ t \notin minted /\ minted' = minted \cup {t} /\ disk'[t] = row
      /\ \A u \in Token \ {t} : disk'[u] = disk[u]
  BY DEF SignIn, LineageInv, TypeOK
<1>2. /\ disk[t] = NoRow /\ \A u \in Token : disk[u].family # t
  BY <1>1, NamesAssumption DEF LineageInv, RowsOK
<1>3. /\ ~Current(disk[t]) /\ ~Retired(disk[t]) /\ ~disk[t].used
      /\ Current(row) /\ ~Retired(row) /\ ~row.used /\ row.family = t
  BY <1>2, NamesAssumption DEF NoRow, NewRow, Current, Retired, Unrevoked, Exists
<1>4. OneCurrent'
  BY LineageOneCurrent, PTL
<1>5. t \in Heads(t)'
  BY <1>1, <1>3 DEF Heads
<1>6. HeadOf(t)' = t
  BY <1>4, <1>5, HeadIsAfter
<1>7. \A g \in Token \ {t} : Heads(g)' = Heads(g)
  BY <1>1, <1>3 DEF Heads
<1>8. \A g \in Token \ {t} : HeadOf(g)' = HeadOf(g)
  BY <1>4, <1>7, LineageOneCurrent, HeadSame
<1>9. \A g \in Token : PastOf(g)' = PastOf(g)
  BY <1>1, <1>3 DEF PastOf
<1>10. SpentTokens' = SpentTokens
  BY <1>1, <1>3 DEF SpentTokens
<1> QED  BY <1>1, <1>6, <1>8, <1>9, <1>10, Begins

\* A rotation replaces the token in force, which was spent, by the one it mints.
LEMMA MintAdvances ==
  ASSUME LineageInv, LineageInv', UseInv, NEW r \in Request, NEW u \in Token, Mint(r, u)
  PROVE  Promise!Next
<1> DEFINE row == NewRow(req[r].row.family, req[r].at, req[r].row.expiresAt)
<1>1. req[r].pc = "mint" /\ req[r].pc \notin Ended /\ u \notin minted /\ minted' = minted \cup {u}
  BY DEF Mint, Ended
<1> PICK t \in Token : t = req[r].tok
  BY <1>1, Busy
<1>2. RequestOK(r) /\ t \in minted /\ lock[t] = r /\ disk[t] \in Row /\ disk \in [Token -> Row]
  BY <1>1, Busy DEF RequestOK, LineageInv, TypeOK
<1>3. ~Free(t) /\ LockOK(t)
  BY <1>2, NamesAssumption DEF Free, LineageInv, LocksOK
<1>4. Current(disk[t]) /\ draft[t] = [disk[t] EXCEPT !.rotatedAt = req[r].at]
  BY <1>1, <1>2, <1>3 DEF LockOK, Recovering, Sweeping
<1>5. disk[t].used /\ req[r].row.family = disk[t].family /\ req[r].at # Never
  BY <1>1, <1>2, <1>4 DEF UseInv, KnowsUse, InUse, Current, Unrevoked, RequestOK, HoldsRow
<1>6. PICK f \in Token : f = disk[t].family
  BY <1>2, <1>4 DEF Current, Unrevoked, Exists, Row
<1>7. /\ disk'[t] = [disk[t] EXCEPT !.rotatedAt = req[r].at] /\ disk'[u] = row
      /\ \A x \in Token \ {t, u} : disk'[x] = disk[x]
  BY <1>1, <1>2, <1>4 DEF Mint
<1>8. /\ Retired(disk'[t]) /\ ~Current(disk'[t]) /\ disk'[t].family = f /\ disk'[t].used
  BY <1>2, <1>4, <1>5, <1>6, <1>7 DEF Row, Current, Retired, Unrevoked, Exists
<1>9. /\ Current(disk'[u]) /\ ~Retired(disk'[u]) /\ disk'[u].family = f /\ ~disk'[u].used
  BY <1>5, <1>6, <1>7, NamesAssumption DEF NewRow, Current, Retired, Unrevoked, Exists
<1>10. disk[u] = NoRow
  BY <1>1 DEF LineageInv, RowsOK
<1>11. ~Current(disk[u]) /\ ~Retired(disk[u]) /\ ~disk[u].used
  BY <1>10 DEF NoRow, Current, Retired, Unrevoked, Exists
<1>12. t \in Heads(f) /\ u \in Heads(f)' /\ OneCurrent /\ OneCurrent'
  <2>1. OneCurrent'
    BY LineageOneCurrent, PTL
  <2> QED  BY <1>4, <1>6, <1>9, <2>1, LineageOneCurrent DEF Heads
<1>13. HeadOf(f) = t /\ HeadOf(f)' = u
  BY <1>12, HeadIs, HeadIsAfter
<1>14. \A g \in Token \ {f} : Heads(g)' = Heads(g) /\ PastOf(g)' = PastOf(g)
  <2> SUFFICES ASSUME NEW g \in Token \ {f}, NEW x \in Token
               PROVE  /\ Current(disk'[x]) /\ disk'[x].family = g <=> Current(disk[x]) /\ disk[x].family = g
                      /\ Retired(disk'[x]) /\ disk'[x].family = g <=> Retired(disk[x]) /\ disk[x].family = g
    BY DEF Heads, PastOf
  <2>1. CASE x = t
    BY <1>6, <1>8, <2>1
  <2>2. CASE x = u
    BY <1>9, <1>11, <2>2
  <2> QED  BY <1>7, <2>1, <2>2
<1>15. \A g \in Token \ {f} : HeadOf(g)' = HeadOf(g)
  BY <1>12, <1>14, HeadSame
<1>16. PastOf(f)' = PastOf(f) \cup {t}
  BY <1>7, <1>8, <1>9, <1>11 DEF PastOf
<1>17. SpentTokens' = SpentTokens /\ t \in SpentTokens
  BY <1>5, <1>7, <1>8, <1>9, <1>11 DEF SpentTokens
<1> QED  BY <1>1, <1>6, <1>13, <1>14, <1>15, <1>16, <1>17, Advances

\* A recovery goes back to the token it restores, from one nobody spent.
LEMMA UndoGoesBack ==
  ASSUME LineageInv, LineageInv', UseInv, NEW r \in Request, RecoverUndo(r)
  PROVE  Promise!Next
<1> PICK t \in Token : t = req[r].tok
  BY UndoEffect
<1>1. /\ req[r].pc = "recoverUndo" /\ req[r].pc \notin Ended /\ minted' = minted
  BY DEF RecoverUndo, Ended, env
<1>2. /\ RequestOK(r) /\ SweptUnused(r) /\ disk[t] \in Row /\ \A x \in Token : disk[x] \in Row
  BY <1>1, Busy DEF UseInv, LineageInv, TypeOK
<1>3. /\ lock[t] = r /\ Unrevoked(disk[t]) /\ disk[t].rotatedAt = req[r].at
      /\ disk'[t] = [disk[t] EXCEPT !.rotatedAt = Never]
      /\ \A x \in Token \ {t} :
           disk'[x] = IF lock[x] = r THEN [disk[x] EXCEPT !.revoked = TRUE] ELSE disk[x]
  BY UndoEffect
<1> PICK f \in Token : f = disk[t].family
  BY <1>2, <1>3 DEF Unrevoked, Exists, Row
<1>4. req[r].at # Never /\ req[r].row.family = f
  BY <1>1, <1>2, <1>3 DEF RequestOK, Recovering, HoldsRow, Unrevoked
<1>5. \A x \in Token \ {t} : lock[x] = r => ~disk[x].used /\ disk[x].family = f
  BY <1>1, <1>2, <1>4 DEF SweptUnused, Recovering
<1>6. Retired(disk[t]) /\ ~Current(disk[t])
  BY <1>3, <1>4 DEF Retired, Current
<1>7. Current(disk'[t]) /\ ~Retired(disk'[t]) /\ disk'[t].family = f /\ disk'[t].used = disk[t].used
  BY <1>2, <1>3 DEF Row, Current, Retired, Unrevoked, Exists
<1>8. ASSUME NEW x \in Token \ {t}, lock[x] = r
      PROVE  /\ ~Current(disk'[x]) /\ ~Retired(disk'[x]) /\ ~Retired(disk[x])
             /\ ~disk'[x].used /\ ~disk[x].used /\ disk[x].family = f
  <2>1. disk[x].rotatedAt = Never
    BY <1>5, <1>8 DEF UseInv, RetiredWasUsed
  <2> QED  BY <1>2, <1>3, <1>5, <1>8, <2>1 DEF Row, Current, Retired, Unrevoked
<1>9. \A x \in Token \ {t} : lock[x] # r => disk'[x] = disk[x]
  BY <1>3
<1>10. ASSUME NEW x \in Token, Current(disk[x]), disk[x].family = f PROVE x # t /\ lock[x] = r
  <2>1. x # t
    BY <1>6, <1>10
  <2>2. disk[t].rotatedAt <= disk[x].issuedAt
    BY <1>3, <1>10, <2>1 DEF LineageInv, Lineage, Current
  <2>3. Undelivered(r, x, disk[x])
    BY <1>3, <1>4, <1>10, <2>1, <2>2, <1>2
       DEF Undelivered, Successor, Current, Unrevoked, Row, Instant, Never
  <2> QED  BY <1>1, <1>2, <2>1, <2>3 DEF RequestOK
<1>11. OneCurrent /\ OneCurrent'
  <2>1. OneCurrent'
    BY LineageOneCurrent, PTL
  <2> QED  BY <2>1, LineageOneCurrent
<1>12. t \in Heads(f)' /\ t \in PastOf(f)
  BY <1>6, <1>7 DEF Heads, PastOf
<1>13. HeadOf(f)' = t
  BY <1>11, <1>12, HeadIsAfter
<1>14. HeadOf(f) \notin SpentTokens
  <2>1. CASE HeadOf(f) \in Token
    <3>1. HeadOf(f) \in Heads(f)
      BY <1>11, <2>1, HeadIs
    <3> QED  BY <1>8, <1>10, <3>1 DEF Heads, SpentTokens
  <2> QED  BY <2>1 DEF SpentTokens
<1>15. \A g \in Token \ {f} : Heads(g)' = Heads(g) /\ PastOf(g)' = PastOf(g)
  <2> SUFFICES ASSUME NEW g \in Token \ {f}, NEW x \in Token
               PROVE  /\ Current(disk'[x]) /\ disk'[x].family = g <=> Current(disk[x]) /\ disk[x].family = g
                      /\ Retired(disk'[x]) /\ disk'[x].family = g <=> Retired(disk[x]) /\ disk[x].family = g
    BY DEF Heads, PastOf
  <2> QED  BY <1>7, <1>8, <1>9
<1>16. \A g \in Token \ {f} : HeadOf(g)' = HeadOf(g)
  BY <1>11, <1>15, HeadSame
<1>17. PastOf(f)' = PastOf(f) \ {t}
  <2> SUFFICES ASSUME NEW x \in Token
               PROVE  Retired(disk'[x]) /\ disk'[x].family = f <=> Retired(disk[x]) /\ disk[x].family = f /\ x # t
    BY DEF PastOf
  <2> QED  BY <1>7, <1>8, <1>9
<1>18. SpentTokens' = SpentTokens
  <2> SUFFICES ASSUME NEW x \in Token PROVE disk'[x].used <=> disk[x].used
    BY DEF SpentTokens
  <2> QED  BY <1>7, <1>8, <1>9
<1> QED  BY <1>1, <1>4, <1>12, <1>13, <1>14, <1>15, <1>16, <1>17, <1>18, GoesBack

LEMMA NextPromised ==
  ASSUME LineageInv, LineageInv', UseInv, [Next]_vars PROVE [Promise!Next]_(Promise!vars)
<1>1. ASSUME NEW r \in Request, Handle(r) PROVE [Promise!Next]_(Promise!vars)
  <2>1. CASE \E u \in Token : Mint(r, u)
    BY <2>1, MintAdvances
  <2>2. CASE ~\E u \in Token : Mint(r, u)
    BY <1>1, <2>2, HandleEffects, Stutters, StampSpends, UndoGoesBack, RevokesDiscards
  <2> QED  BY <2>1, <2>2
<1>2. ASSUME NEW t \in Token, SignIn(t) \/ Prune(t) PROVE [Promise!Next]_(Promise!vars)
  BY <1>2, SignInBegins, PruneDiscards
<1>3. CASE UNCHANGED <<disk, minted>>
  BY <1>3, Stutters
<1>4. ASSUME NEW r \in Request, Fail(r) \/ DeadlockVictim(r) PROVE UNCHANGED <<disk, minted>>
  BY <1>4 DEF Fail, DeadlockVictim, env
<1>5. ASSUME NEW r \in Request, NEW k \in Kinds, NEW t \in Token, Call(r, k, t)
      PROVE  UNCHANGED <<disk, minted>>
  BY <1>5 DEF Call, db, env
<1>6. CASE Tick \/ DeleteUser \/ UNCHANGED vars
  BY <1>3, <1>6 DEF Tick, DeleteUser, vars
<1> QED  BY <1>1, <1>2, <1>3, <1>4, <1>5, <1>6 DEF Next

LEMMA InitPromised == Init => Promise!Init
<1> SUFFICES ASSUME Init PROVE Promise!Init
  OBVIOUS
<1>1. \A t \in Token : ~Current(disk[t]) /\ ~Retired(disk[t]) /\ ~disk[t].used
  BY DEF Init, NoRow, Current, Retired, Unrevoked, Exists
<1>2. \A f \in Token : HeadOf(f) = NoToken /\ PastOf(f) = {}
  BY <1>1 DEF HeadOf, Heads, PastOf
<1>3. Head = [f \in Token |-> NoToken] /\ Past = [f \in Token |-> {}] /\ SpentTokens = {} /\ minted = {}
  BY <1>1, <1>2 DEF Head, Past, SpentTokens, Init
<1> QED  BY <1>3 DEF Promise!Init, Head, HeadOf, Past, PastOf, SpentTokens

\* The session service keeps the promise: however its requests interleave, fail and
\* are pruned, a sign-in has one token in force, only a spent token is replaced, only
\* an unspent one is taken back, and what is discarded does not return.
THEOREM ServiceKeepsPromise == Spec => KeepsPromise
<1>1. Init => Promise!Init /\ UseInv
  BY InitPromised, InitUses
<1>2. LineageInv /\ UseInv /\ [Next]_vars => UseInv'
  BY NextUses
<1>3. LineageInv /\ LineageInv' /\ UseInv /\ [Next]_vars => [Promise!Next]_(Promise!vars)
  BY NextPromised
<1> QED  BY <1>1, <1>2, <1>3, LineageCorrect, PTL DEF Spec, KeepsPromise, Promise!Spec

----------------------------------------------------------------------------
\* A recovery whose successor is stamped between its query and its UPDATE leaves
\* that successor alone: it raises the alarm instead, and only unused rows are
\* revoked by a recovery that goes on.
THEOREM RecoveryRevokesUnused == Spec => RecoverySparesUsed
<1>1. ASSUME LineageInv, UseInv, NEW r \in Request, NEW s \in Request, Handle(s),
             req[r].pc = "recoverUndo", req'[r].pc = "due"
      PROVE  RecoverUndo(r)
  <2>1. s = r
    BY <1>1, HandleIsLocal
  <2>2. UNCHANGED req \/ RecoverUndo(r)
    BY <1>1, <2>1
       DEF Handle, ResolveCurrent, MarkFirstUse, ResolveSuperseded, CheckSuccessors, RecoverClaim,
           RecoverSnapshot, RecoverCheck, RecoverReuse, Contested, CheckAge, ClaimRotation,
           ReadLostClaim, Mint, Deliver, SignOut, StartRevokePass, EndRevokePass, FindKept, ReadFamilies,
           StartAllPass, EndAllPass, SweepRow
  <2> QED  BY <1>1, <2>2
<1>2. ASSUME LineageInv, UseInv, Next, NEW r \in Request, NEW t \in Token,
             req[r].pc = "recoverUndo", req'[r].pc = "due", ~disk[t].revoked, disk'[t].revoked
      PROVE  ~disk[t].used
  <2>1. RecoverUndo(r)
    <3>1. CASE \E s \in Request : Handle(s)
      BY <1>1, <1>2, <3>1
    <3>2. ASSUME NEW s \in Request, Fail(s) \/ DeadlockVictim(s) PROVE FALSE
      <4>1. req' = [req EXCEPT ![s] = IdleRequest]
        BY <3>2 DEF Fail, DeadlockVictim, Finish, Put
      <4> QED  BY <1>2, <4>1 DEF IdleRequest, NewRequest, LineageInv, TypeOK
    <3>3. ASSUME NEW s \in Request, NEW k \in Kinds, NEW x \in Token, Call(s, k, x) PROVE FALSE
      BY <1>2, <3>3 DEF Call, Put, NewRequest, LineageInv, TypeOK
    <3>4. req' # req
      BY <1>2
    <3> QED  BY <1>2, <3>1, <3>2, <3>3, <3>4 DEF Next, SignIn, Prune, Tick, DeleteUser
  <2>2. req[r].pc \in Recovering /\ SweptUnused(r) /\ disk[t] \in Row
    BY <1>2 DEF Recovering, UseInv, LineageInv, TypeOK
  <2>3. t # req[r].tok
    <3>1. CASE t = req[r].tok
      <4>1. disk'[t] = [disk[t] EXCEPT !.rotatedAt = Never]
        BY <1>2, <2>1, <3>1, UndoEffect
      <4> QED  BY <1>2, <2>2, <4>1 DEF Row
    <3> QED  BY <3>1
  <2>4. lock[t] = r
    BY <1>2, <2>1, <2>3, UndoEffect
  <2> QED  BY <2>2, <2>3, <2>4 DEF SweptUnused
<1>3. LineageInv /\ UseInv /\ [Next]_vars =>
        [\A r \in Request, t \in Token :
           req[r].pc = "recoverUndo" /\ req'[r].pc = "due" /\ ~disk[t].revoked /\ disk'[t].revoked
             => ~disk[t].used]_vars
  BY <1>2
<1>4. Init => UseInv
  BY InitUses
<1>5. LineageInv /\ UseInv /\ [Next]_vars => UseInv'
  BY NextUses
<1> QED  BY <1>3, <1>4, <1>5, LineageCorrect, PTL DEF Spec, RecoverySparesUsed

----------------------------------------------------------------------------
(***************************************************************************)
(* Those who end sign-ins end them.  What a revoker is to rows.            *)
(***************************************************************************)
EndingAll(r) == req[r].pc \in {"allPass", "allSweep"}
Sweeps(r) == req[r].pc \in {"revokeSweep", "allSweep"}

\* The rows a sweep holds are rows it was sent for.
HolderOK(t) ==
  LET q == req[lock[t]] IN
  ~Free(t) =>
    /\ q.pc = "revokeSweep" => q.hit /\ disk[t].family = q.row.family
    /\ q.pc \in {"allPass", "allSweep"} => OnAccount(lock[t], disk[t])
    /\ q.pc \in Recovering /\ t # q.tok =>
         disk[t].family = disk[q.tok].family /\ disk[t].issuedAt >= q.at

\* So are those it has yet to visit, as long as they are there.
TodoOK(r) ==
  LET q == req[r] IN
  /\ q.todo \subseteq minted
  /\ q.pc \notin {"recoverSweep", "revokeSweep", "allSweep"} => q.todo = {}
  /\ \A t \in q.todo : Exists(disk[t]) =>
       /\ q.pc = "revokeSweep" => disk[t].family = q.row.family
       /\ q.pc = "allSweep" => disk[t].family # q.row.family /\ disk[t].expiresAt > q.at

\* It is sent for families that began, and a sign-out everywhere for families
\* whose expiry its WHERE clause does not pass over.
AimOK(r) ==
  LET q == req[r] IN
  /\ q.pc \in {"successors", "recoverClaim", "revoke", "revokeSweep"} \cup Recovering =>
       q.row.family \in minted
  /\ EndingAll(r) =>
       /\ q.fams \subseteq minted \ {q.row.family}
       /\ \A t \in Token : disk[t].family \in q.fams => disk[t].expiresAt > q.at

\* A row is retired after it was issued, by the distance checkAge asks for.
RetiredLater == \A t \in Token : Retired(disk[t]) => disk[t].issuedAt < disk[t].rotatedAt
AgedOK(r) ==
  LET q == req[r] IN
  /\ q.pc \in {"stamp", "due"} /\ Exists(disk[q.tok]) => q.row.issuedAt = disk[q.tok].issuedAt
  /\ q.pc \in {"claim", "mint"} /\ Exists(disk[q.tok]) => disk[q.tok].issuedAt < q.at

\* As long as a sweep has hit nothing, what it does not visit is younger than what
\* it has yet to visit: it was minted after the sweep began.
Gaps(r) ==
  Sweeps(r) /\ ~req[r].hit =>
    \A x \in req[r].todo, a \in Token \ req[r].todo :
      Unrevoked(disk[x]) /\ Unrevoked(disk[a]) /\ lock[a] # r /\ disk[x].family = disk[a].family =>
        disk[x].rotatedAt # Never /\ disk[x].rotatedAt <= disk[a].issuedAt

\* F: sign-outs everywhere whose commit is foreseen.  A row escapes them when it is
\* unrevoked and none of them holds it.
Escapes(t, F) == Unrevoked(disk[t]) /\ lock[t] \notin F

\* Somebody has taken it on himself to end family f.
InCharge(r, f, F) ==
  \/ Revoking(r) /\ req[r].row.family = f
  \/ r \in F /\ \/ f \in req[r].fams
                \/ \E x \in Token : (x \in req[r].todo \/ lock[x] = r) /\ disk[x].family = f

\* The passes of r are over rows like t, and another one is sure to come: it is
\* about to start, this one has hit, or it will hit.
Minds(r, t, F) ==
  \/ Revoking(r) /\ req[r].row.family = disk[t].family
  \/ r \in F /\ OnAccount(r, disk[t])
Pending(r, t, F) ==
  \/ req[r].pc \in {"revoke", "allPass"} \/ req[r].hit
  \/ \E x \in req[r].todo : Escapes(x, F) /\ disk[x].family = disk[t].family

\* As long as a family somebody is in charge of has a usable row, a pass that will
\* see the row is sure to come.
Chaser(t, F) == \E r \in Request : Minds(r, t, F) /\ Pending(r, t, F)
ChasedBy(F) == \A t \in Token :
  Escapes(t, F) /\ disk[t].expiresAt > now /\ (\E r \in Request : InCharge(r, disk[t].family, F)) =>
    Chaser(t, F)
Enders == {r \in Request : EndingAll(r)}
Chased == \A F \in SUBSET Enders : ChasedBy(F)

AimsInv ==
  /\ RetiredLater /\ \A t \in Token : HolderOK(t)
  /\ \A r \in Request : TodoOK(r) /\ AimOK(r) /\ AgedOK(r)

\* The inductive invariant behind both promises.
RevokeInv == AimsInv /\ (\A r \in Request : Gaps(r)) /\ Chased

----------------------------------------------------------------------------
(***************************************************************************)
(* What any step leaves to the others.                                     *)
(***************************************************************************)
\* A row goes, or keeps its terms and does not come back to life.
Settled(t) ==
  \/ disk'[t] = NoRow
  \/ /\ disk'[t].family = disk[t].family /\ disk'[t].issuedAt = disk[t].issuedAt
     /\ disk'[t].expiresAt = disk[t].expiresAt /\ (disk[t].revoked => disk'[t].revoked)

\* It is retired for good, unless everything issued since is revoked with the step.
Retimed(t) ==
  \/ disk'[t].rotatedAt = disk[t].rotatedAt
  \/ disk'[t] = NoRow
  \/ disk[t].rotatedAt = Never /\ disk[t].issuedAt < disk'[t].rotatedAt
  \/ /\ disk'[t].rotatedAt = Never
     /\ \A a \in Token \ {t} : Unrevoked(disk'[a]) /\ disk[a].family = disk[t].family =>
          disk[a].issuedAt < disk[t].rotatedAt

\* A new row is current and begins a family or has the terms of an older row of it.
Inherits(t) ==
  Exists(disk'[t]) =>
    /\ disk'[t].rotatedAt = Never
    /\ \/ disk'[t].family \notin minted
       \/ \E x \in minted : /\ disk[x].family = disk'[t].family
                            /\ disk[x].expiresAt = disk'[t].expiresAt

\* r: the request that moves, NoRequest when it is the surroundings.
Others(r) ==
  /\ \A s \in Request \ {r} : req'[s] = req[s]
  /\ \A t \in Token : lock[t] \notin {r, NoRequest} => lock'[t] = lock[t] /\ disk'[t] = disk[t]
  /\ \A t \in Token : lock'[t] \notin {r, NoRequest} => lock'[t] = lock[t]
  /\ minted \subseteq minted' /\ now <= now'
  /\ \A t \in minted : Settled(t) /\ Retimed(t)
  /\ \A t \in Token \ minted : Inherits(t)

\* Nothing else is asked of a step that keeps the rows or drops one nobody holds.
LEMMA QuietOthers ==
  ASSUME LineageInv, NEW r \in Request \cup {NoRequest},
         \A s \in Request \ {r} : req'[s] = req[s],
         \A t \in Token : disk'[t] = disk[t] \/ (Free(t) /\ disk'[t] = NoRow),
         \A t \in Token : lock'[t] = lock[t] \/ (lock[t] = r /\ lock'[t] = NoRequest),
         minted \subseteq minted', now <= now'
  PROVE  Others(r)
<1>1. \A t \in Token : Settled(t) /\ Retimed(t)
  BY DEF Settled, Retimed
<1>2. \A t \in Token \ minted : ~Exists(disk'[t])
  BY DEF LineageInv, RowsOK, Exists, NoRow
<1>3. minted \subseteq Token
  BY DEF LineageInv, TypeOK
<1> QED  BY <1>1, <1>2, <1>3 DEF Others, Inherits, Free

\* What a recovery restores was retired before anything it leaves was issued.
LEMMA UndoRetimes ==
  ASSUME LineageInv, NEW r \in Request, RecoverUndo(r), NEW t \in Token
  PROVE  Retimed(t)
<1>1. req[r].pc = "recoverUndo" /\ RequestOK(r) /\ req[r].at \in Instant
  BY Busy DEF RecoverUndo, Ended
<1> PICK k \in Token : k = req[r].tok
  BY <1>1, Busy DEF Ended
<1>2. /\ lock[k] = r /\ Unrevoked(disk[k]) /\ disk[k].rotatedAt = req[r].at
      /\ disk'[k] = [disk[k] EXCEPT !.rotatedAt = Never]
      /\ \A u \in Token \ {k} :
           disk'[u] = IF lock[u] = r THEN [disk[u] EXCEPT !.revoked = TRUE] ELSE disk[u]
  BY UndoEffect
<1>3. \A u \in Token : disk[u] \in Row
  BY DEF LineageInv, TypeOK
<1>4. CASE t # k
  BY <1>2, <1>3, <1>4 DEF Retimed, Row
<1>5. CASE t = k
  <2>1. disk'[k].rotatedAt = Never
    BY <1>2, <1>3 DEF Row
  <2>2. ASSUME NEW a \in Token \ {k}, Unrevoked(disk'[a]), disk[a].family = disk[k].family
        PROVE  disk[a].issuedAt < disk[k].rotatedAt
    <3>1. lock[a] # r
      BY <1>2, <1>3, <2>2 DEF Unrevoked, Row
    <3>2. Unrevoked(disk[a])
      BY <1>2, <2>2, <3>1
    <3>3. ~Undelivered(r, a, disk[a])
      BY <1>1, <3>1 DEF RequestOK
    <3>4. req[r].row.family = disk[k].family
      BY <1>1, <1>2 DEF RequestOK, HoldsRow, Recovering, Unrevoked
    <3>5. ~(disk[a].issuedAt >= req[r].at)
      BY <2>2, <3>2, <3>3, <3>4 DEF Undelivered, Successor, Unrevoked
    <3>6. disk[a].issuedAt \in Int /\ req[r].at \in Int
      BY <1>1, <1>3 DEF Row, Instant, Never
    <3> QED  BY <1>2, <3>5, <3>6
  <2> QED  BY <1>5, <2>1, <2>2 DEF Retimed
<1> QED  BY <1>4, <1>5

\* The rows of any step of a request but the insert.
LEMMA PlainRows ==
  ASSUME LineageInv, NEW r \in Request, Handle(r), ~\E u \in Token : Mint(r, u), NEW t \in Token
  PROVE  /\ Settled(t) /\ Retimed(t)
         /\ t \notin minted => Inherits(t)
<1>1. disk \in [Token -> Row] /\ disk[t] \in Row
  BY DEF LineageInv, TypeOK
<1>2. Settled(t)
  BY <1>1, HandleRows DEF Settled, Row
<1>3. Retimed(t)
  <2>1. CASE UNCHANGED disk \/ Revokes(r)
    BY <1>1, <2>1 DEF Retimed, Revokes, Row
  <2>2. CASE MarkFirstUse(r)
    <3>1. disk'[t] = disk[t] \/ disk'[t] = [disk[t] EXCEPT !.used = TRUE]
      BY <1>1, <2>2, StampEffect
    <3> QED  BY <1>1, <3>1 DEF Retimed, Row
  <2> QED  BY <2>1, <2>2, UndoRetimes, HandleEffects
<1>4. t \notin minted => ~Exists(disk'[t])
  BY <1>2 DEF Settled, LineageInv, RowsOK, Exists, NoRow
<1> QED  BY <1>2, <1>3, <1>4 DEF Inherits

\* The insert retires the current row it holds, by then old enough, and adds one
\* row of its family.
LEMMA MintEffect ==
  ASSUME LineageInv, ExpiryInv, NEW r \in Request, NEW u \in Token, Mint(r, u)
  PROVE  LET t == req[r].tok IN
         /\ t \in minted /\ t \in Token /\ u \notin minted /\ t # u /\ lock[t] = r
         /\ Current(disk[t]) /\ req[r].pc = "mint"
         /\ disk'[t] = [disk[t] EXCEPT !.rotatedAt = req[r].at]
         /\ disk'[u] = NewRow(disk[t].family, req[r].at, disk[t].expiresAt)
         /\ \A x \in Token \ {t, u} : disk'[x] = disk[x]
<1>1. req[r].pc = "mint" /\ RequestOK(r)
  BY Busy DEF Mint, Ended
<1> PICK t \in Token : t = req[r].tok
  BY <1>1, Busy DEF Ended
<1>2. t \in minted /\ u \notin minted /\ lock[t] = r
  BY <1>1, Busy DEF Ended, Mint, RequestOK
<1>3. LockOK(t) /\ ~Free(t)
  BY <1>2, NamesAssumption DEF LineageInv, LocksOK, Free
<1>4. Current(disk[t]) /\ draft[t] = [disk[t] EXCEPT !.rotatedAt = req[r].at]
  BY <1>1, <1>2, <1>3 DEF LockOK, Recovering, Sweeping
<1>5. req[r].row.family = disk[t].family /\ req[r].row.expiresAt = disk[t].expiresAt
  BY <1>1, <1>4 DEF RequestOK, HoldsRow, ExpiryInv, Copied, Current, Unrevoked
<1>6. disk' = [disk EXCEPT ![t] = draft[t],
                 ![u] = NewRow(req[r].row.family, req[r].at, req[r].row.expiresAt)]
  BY DEF Mint
<1>7. disk'[t] = draft[t] /\ disk'[u] = NewRow(req[r].row.family, req[r].at, req[r].row.expiresAt)
      /\ \A x \in Token \ {t, u} : disk'[x] = disk[x]
  BY <1>2, <1>6 DEF LineageInv, TypeOK
<1> QED  BY <1>1, <1>2, <1>4, <1>5, <1>7

LEMMA MintRows ==
  ASSUME LineageInv, ExpiryInv, NEW r \in Request, AgedOK(r), NEW u \in Token, Mint(r, u), NEW x \in Token
  PROVE  /\ x \in minted => Settled(x) /\ Retimed(x)
         /\ x \notin minted => Inherits(x)
<1> PICK t \in Token : t = req[r].tok
  BY MintEffect
<1>1. /\ t \in minted /\ u \notin minted /\ t # u /\ lock[t] = r
      /\ Current(disk[t]) /\ req[r].pc = "mint"
      /\ disk'[t] = [disk[t] EXCEPT !.rotatedAt = req[r].at]
      /\ disk'[u] = NewRow(disk[t].family, req[r].at, disk[t].expiresAt)
      /\ \A y \in Token \ {t, u} : disk'[y] = disk[y]
  BY MintEffect
<1>2. disk[t] \in Row
  BY DEF LineageInv, TypeOK
<1>3. CASE x = t
  <2>1. Settled(t)
    BY <1>1, <1>2 DEF Settled, Row
  <2>2. Retimed(t)
    BY <1>1, <1>2 DEF Retimed, Row, Current, Unrevoked, AgedOK
  <2> QED  BY <1>1, <1>3, <2>1, <2>2
<1>4. CASE x = u
  BY <1>1, <1>4 DEF Inherits, NewRow
<1>5. CASE x \notin {t, u}
  <2>1. disk'[x] = disk[x]
    BY <1>1, <1>5
  <2>2. x \notin minted => ~Exists(disk'[x])
    BY <2>1 DEF LineageInv, RowsOK, Exists, NoRow
  <2> QED  BY <2>1, <2>2 DEF Settled, Retimed, Inherits
<1> QED  BY <1>3, <1>4, <1>5

LEMMA HandleOthers ==
  ASSUME LineageInv, ExpiryInv, NEW r \in Request, AgedOK(r), Handle(r)
  PROVE  Others(r)
<1>1. \A s \in Request \ {r} : req'[s] = req[s]
  BY HandleIsLocal
<1>2. ASSUME NEW t \in Token PROVE (t \in minted => Settled(t) /\ Retimed(t)) /\ (t \notin minted => Inherits(t))
  <2>1. CASE \E u \in Token : Mint(r, u)
    BY <2>1, MintRows
  <2>2. CASE ~\E u \in Token : Mint(r, u)
    BY <2>2, PlainRows
  <2> QED  BY <2>1, <2>2
<1>3. minted \subseteq Token /\ now \in Int
  BY EnvAssumption DEF LineageInv, TypeOK
<1>4. lock \in [Token -> Request \cup {NoRequest}] /\ r # NoRequest
  BY NamesAssumption DEF LineageInv, TypeOK
<1>5. ASSUME NEW t \in Token, lock'[t] \notin {r, NoRequest} PROVE lock'[t] = lock[t]
  BY <1>4, <1>5, HandleLockKinds DEF Release
<1>6. ASSUME NEW t \in Token, lock[t] \notin {r, NoRequest} PROVE lock'[t] = lock[t] /\ disk'[t] = disk[t]
  <2>1. lock'[t] = lock[t]
    BY <1>4, <1>6, HandleLockKinds DEF Release, Free
  <2>2. lock[t] \in Request \ {r}
    BY <1>4, <1>6
  <2> QED  BY <2>1, <2>2, OthersLocksStay
<1>7. minted \subseteq minted' /\ now <= now'
  <2>1. now' = now
    BY DEF Handle, ResolveCurrent, MarkFirstUse, ResolveSuperseded, CheckSuccessors, RecoverClaim,
       RecoverSnapshot, RecoverCheck, RecoverUndo, RecoverReuse, Contested, CheckAge, ClaimRotation,
       ReadLostClaim, Mint, Deliver, SignOut, StartRevokePass, EndRevokePass, FindKept, ReadFamilies,
       StartAllPass, EndAllPass, SweepRow, env
  <2>2. minted \subseteq minted'
    BY HandleEffects DEF Mint
  <2> QED  BY <1>3, <2>1, <2>2
<1> QED  BY <1>1, <1>2, <1>3, <1>5, <1>6, <1>7 DEF Others

LEMMA AroundOthers ==
  ASSUME LineageInv, (\E t \in Token : SignIn(t) \/ Prune(t)) \/ Tick \/ DeleteUser
  PROVE  Others(NoRequest)
<1>1. req' = req /\ lock' = lock /\ now \in Int /\ minted \subseteq Token /\ disk \in [Token -> Row]
  BY EnvAssumption DEF SignIn, Prune, Tick, DeleteUser, LineageInv, TypeOK
<1>2. ASSUME NEW t \in Token, SignIn(t) PROVE Others(NoRequest)
  <2>1. /\ t \notin minted /\ minted \subseteq minted' /\ now' = now
        /\ disk'[t] = NewRow(t, now, now + Ttl) /\ \A u \in Token \ {t} : disk'[u] = disk[u]
    BY <1>1, <1>2 DEF SignIn
  <2>2. \A u \in minted : Settled(u) /\ Retimed(u)
    BY <1>1, <2>1 DEF Settled, Retimed
  <2>3. \A u \in Token \ minted : Inherits(u)
    BY <2>1 DEF Inherits, NewRow, LineageInv, RowsOK, Exists, NoRow
  <2>4. now <= now'
    BY <1>1, <2>1
  <2>5. \A u \in Token : lock[u] # NoRequest => u # t
    BY <2>1 DEF LineageInv, RowsOK, Free
  <2> QED  BY <1>1, <2>1, <2>2, <2>3, <2>4, <2>5 DEF Others
<1>3. ASSUME NEW t \in Token, Prune(t) PROVE Others(NoRequest)
  <2>1. \A u \in Token : disk'[u] = disk[u] \/ (Free(u) /\ disk'[u] = NoRow)
    BY <1>1, <1>3 DEF Prune
  <2>2. minted \subseteq minted' /\ now <= now'
    BY <1>1, <1>3 DEF Prune
  <2>3. \A s \in Request \ {NoRequest} : req'[s] = req[s]
    BY <1>1
  <2>4. \A u \in Token : lock'[u] = lock[u] \/ (lock[u] = NoRequest /\ lock'[u] = NoRequest)
    BY <1>1
  <2> QED  BY <2>1, <2>2, <2>3, <2>4, QuietOthers
<1>4. CASE Tick \/ DeleteUser
  <2>1. disk' = disk /\ minted \subseteq minted' /\ now <= now'
    BY <1>1, <1>4 DEF Tick, DeleteUser
  <2>2. \A u \in Token : disk'[u] = disk[u] \/ (Free(u) /\ disk'[u] = NoRow)
    BY <2>1
  <2>3. \A s \in Request \ {NoRequest} : req'[s] = req[s]
    BY <1>1
  <2>4. \A u \in Token : lock'[u] = lock[u] \/ (lock[u] = NoRequest /\ lock'[u] = NoRequest)
    BY <1>1
  <2> QED  BY <2>1, <2>2, <2>3, <2>4, QuietOthers
<1> QED  BY <1>2, <1>3, <1>4

LEMMA ArrivalOthers ==
  ASSUME LineageInv, NEW r \in Request,
         Fail(r) \/ DeadlockVictim(r) \/ (\E k \in Kinds, t \in Token : Call(r, k, t))
  PROVE  Others(r)
<1>1. now \in Int
  BY EnvAssumption DEF LineageInv, TypeOK
<1>2. disk' = disk /\ minted' = minted /\ now' = now /\ \A s \in Request \ {r} : req'[s] = req[s]
  BY DEF Fail, DeadlockVictim, Call, Finish, Put, db, env, LineageInv, TypeOK
<1>3. \A t \in Token : lock'[t] = lock[t] \/ (lock[t] = r /\ lock'[t] = NoRequest)
  BY DEF Fail, DeadlockVictim, Call, db, Release
<1>4. minted \subseteq minted' /\ now <= now'
  BY <1>1, <1>2
<1>5. \A t \in Token : disk'[t] = disk[t] \/ (Free(t) /\ disk'[t] = NoRow)
  BY <1>2
<1> QED  BY <1>2, <1>3, <1>4, <1>5, QuietOthers

\* What is known of the others, their rows and the retirements outlasts such a step.
LEMMA AimsFrame ==
  ASSUME LineageInv, AimsInv, NEW r \in Request \cup {NoRequest}, Others(r)
  PROVE  /\ \A s \in Request \ {r} : TodoOK(s)' /\ AimOK(s)' /\ AgedOK(s)'
         /\ \A t \in Token : lock'[t] \notin {r, NoRequest} => HolderOK(t)'
         /\ RetiredLater'
<1>1. minted \subseteq Token /\ minted \subseteq minted' /\ NoToken \notin minted
  BY NamesAssumption DEF LineageInv, TypeOK, Others
<1>2. \A t \in minted : Settled(t) /\ Retimed(t)
  BY DEF Others
<1>3. \A t \in Token \ minted : Inherits(t)
  BY DEF Others
<1>4. ASSUME NEW s \in Request \ {r} PROVE TodoOK(s)' /\ AimOK(s)' /\ AgedOK(s)'
  <2> DEFINE q == req[s]
  <2>1. req'[s] = q /\ q \in RequestRecord /\ RequestOK(s) /\ TodoOK(s) /\ AimOK(s) /\ AgedOK(s)
    BY DEF Others, LineageInv, TypeOK, RequestsOK, AimsInv
  <2>2. TodoOK(s)'
    <3>1. \A t \in q.todo : Exists(disk'[t]) =>
            Exists(disk[t]) /\ disk'[t].family = disk[t].family /\ disk'[t].expiresAt = disk[t].expiresAt
      BY <1>2, <2>1 DEF TodoOK, Settled, Exists, NoRow
    <3> HIDE DEF q
    <3> QED  BY <1>1, <2>1, <3>1 DEF TodoOK, Exists, q
  <2>3. AimOK(s)'
    <3>1. ASSUME EndingAll(s), NEW t \in Token, disk'[t].family \in q.fams PROVE disk'[t].expiresAt > q.at
      <4>1. q.fams \subseteq minted /\ disk'[t].family \in minted
        BY <2>1, <3>1 DEF AimOK
      <4>2. disk'[t] # NoRow /\ Exists(disk'[t])
        BY <1>1, <4>1 DEF NoRow, Exists
      <4>3. PICK x \in Token : disk[x].family = disk'[t].family /\ disk[x].expiresAt = disk'[t].expiresAt
        BY <1>1, <1>2, <1>3, <4>1, <4>2 DEF Settled, Inherits
      <4>4. disk[x].expiresAt > q.at
        BY <2>1, <3>1, <4>3 DEF AimOK
      <4> QED  BY <4>3, <4>4
    <3> HIDE DEF q
    <3> QED  BY <1>1, <2>1, <3>1 DEF AimOK, EndingAll, q
  <2>4. AgedOK(s)'
    <3>1. q.pc \in {"stamp", "due", "claim", "mint"} => Settled(q.tok)
      BY <1>2, <2>1 DEF RequestOK, Ended
    <3> HIDE DEF q
    <3> QED  BY <2>1, <3>1 DEF AgedOK, Settled, Exists, NoRow, q
  <2> QED  BY <2>2, <2>3, <2>4
<1>5. ASSUME NEW t \in Token, lock'[t] \notin {r, NoRequest} PROVE HolderOK(t)'
  <2>1. lock'[t] = lock[t] /\ disk'[t] = disk[t]
    BY <1>5 DEF Others
  <2>2. lock[t] \in Request \ {r}
    BY <1>5, <2>1 DEF LineageInv, TypeOK
  <2> DEFINE s == lock[t]
             q == req[s]
  <2>3. req'[s] = q /\ HolderOK(t) /\ RequestOK(s) /\ q \in RequestRecord /\ s # NoRequest
    BY <2>2, NamesAssumption DEF Others, AimsInv, LineageInv, RequestsOK, TypeOK
  <2>4. q.pc \in Recovering => disk'[q.tok] = disk[q.tok]
    BY <2>2, <2>3, RequestFields DEF Others, RequestOK, Recovering, Ended
  <2> HIDE DEF q
  <2> QED  BY <2>1, <2>3, <2>4 DEF HolderOK, Free, OnAccount, Unrevoked, Exists, q
<1>6. RetiredLater'
  <2> SUFFICES ASSUME NEW t \in Token, Retired(disk'[t]) PROVE disk'[t].issuedAt < disk'[t].rotatedAt
    BY DEF RetiredLater, Retired, Unrevoked, Exists
  <2>1. t \in minted /\ disk'[t] # NoRow
    BY <1>3 DEF Inherits, Retired, Unrevoked, Exists, NoRow
  <2>2. Settled(t) /\ Retimed(t) /\ RetiredLater /\ disk[t] \in Row
    BY <1>2, <2>1 DEF AimsInv, LineageInv, TypeOK
  <2> QED  BY <2>1, <2>2 DEF Settled, Retimed, RetiredLater, Retired, Unrevoked, Exists, Row
<1> QED  BY <1>4, <1>5, <1>6

----------------------------------------------------------------------------
(***************************************************************************)
(* What a request knows of its own passes.                                 *)
(***************************************************************************)
OwnOK(r) ==
  /\ TodoOK(r) /\ AimOK(r) /\ AgedOK(r)
  /\ \A t \in Token : lock[t] = r => HolderOK(t)

LEMMA OwnOfAims == ASSUME AimsInv, NEW r \in Request PROVE OwnOK(r)
BY DEF AimsInv, OwnOK

LEMMA HoldsNothingAfter ==
  ASSUME LocksOK', NEW r \in Request, req'[r].pc \notin Sweeping \cup {"mint"}, NEW t \in Token
  PROVE  lock'[t] # r
BY NamesAssumption DEF LocksOK, LockOK, Free, Sweeping, Recovering

\* A request that is not about to end anything, nor to retire its row.
Aimless == Pc \ ({"stamp", "due", "claim", "mint", "successors", "recoverClaim", "revoke", "revokeSweep",
                  "allPass", "allSweep"} \cup Recovering)
LEMMA OwnPlain ==
  ASSUME LineageInv', NEW r \in Request, req'[r].pc \in Aimless, req'[r].todo = {}
  PROVE  OwnOK(r)'
<1>1. \A t \in Token : lock'[t] # r
  BY HoldsNothingAfter DEF Aimless, Sweeping, LineageInv
<1> QED  BY <1>1 DEF Aimless, OwnOK, TodoOK, AimOK, AgedOK, EndingAll, Recovering

LEMMA OwnEnd ==
  ASSUME LineageInv, LineageInv', NEW r \in Request, Finish(r) \/ Refuse(r)
  PROVE  OwnOK(r)'
<1>1. req'[r].pc \in Ended /\ req'[r].todo = {}
  BY DEF Finish, Refuse, Put, IdleRequest, NewRequest, LineageInv, TypeOK, Ended
<1>2. req'[r].pc \in Aimless
  BY <1>1 DEF Aimless, Pc, Ended, Recovering
<1> QED  BY <1>1, <1>2, OwnPlain

\* The steps of resolveSession and of its callers until they claim a row.
LEMMA OwnResolved ==
  ASSUME LineageInv, LineageInv', NEW r \in Request, OwnOK(r), req[r].pc \notin Ended, req[r].todo = {},
         NEW row, Resolved(r, row),
         Exists(disk'[req[r].tok]) => row.issuedAt = disk'[req[r].tok].issuedAt
  PROVE  OwnOK(r)'
<1>1. CASE req[r].kind = "get"
  BY <1>1, OwnEnd DEF Resolved
<1>2. CASE req[r].kind # "get"
  <2> DEFINE q == [req[r] EXCEPT !.pc = AfterResolve(req[r].kind), !.row = row]
  <2>1. req'[r] = q
    BY <1>2, Busy DEF Resolved
  <2>2. q.pc \in {"due", "keep", "idle"} /\ q.todo = {} /\ q.tok = req[r].tok /\ q.row = row
    BY Busy DEF RequestRecord, AfterResolve
  <2>3. CASE q.pc # "due"
    <3>1. q.pc \in Aimless
      BY <2>2, <2>3 DEF Aimless, Pc, Ended, Recovering
    <3> HIDE DEF q
    <3> QED  BY <2>1, <2>2, <3>1, OwnPlain
  <2>4. CASE q.pc = "due"
    <3> HIDE DEF q
    <3>1. \A t \in Token : lock'[t] # r
      BY <2>1, <2>4, HoldsNothingAfter DEF LineageInv, Sweeping, Recovering
    <3>2. TodoOK(r)' /\ AimOK(r)'
      BY <2>1, <2>2, <2>4 DEF TodoOK, AimOK, EndingAll, Recovering
    <3>3. AgedOK(r)'
      BY <2>1, <2>2, <2>4 DEF AgedOK, Exists
    <3> QED  BY <3>1, <3>2, <3>3 DEF OwnOK
  <2> QED  BY <2>3, <2>4
<1> QED  BY <1>1, <1>2

LEMMA OwnResolve ==
  ASSUME LineageInv, LineageInv', AimsInv, NEW r \in Request,
         ResolveCurrent(r) \/ ResolveSuperseded(r) \/ CheckSuccessors(r) \/ Contested(r) \/ MarkFirstUse(r)
  PROVE  OwnOK(r)'
<1> DEFINE t == req[r].tok
<1>1. /\ req[r].pc \in {"resolve", "superseded", "successors", "contested", "stamp"}
      /\ req[r].pc \notin Ended
  BY DEF ResolveCurrent, ResolveSuperseded, CheckSuccessors, Contested, MarkFirstUse, Ended
<1>2. /\ req[r] \in RequestRecord /\ t \in Token /\ t \in minted /\ disk[t] \in Row
      /\ \A q : Put(r, q) => req'[r] = q
  BY <1>1, Busy
<1>3. OwnOK(r) /\ req[r].todo = {}
  BY <1>1, OwnOfAims DEF OwnOK, TodoOK
<1>4. minted' = minted
  BY DEF ResolveCurrent, ResolveSuperseded, CheckSuccessors, Contested, MarkFirstUse, env
<1>5. CASE MarkFirstUse(r)
  <2>1. disk'[t].issuedAt = disk[t].issuedAt /\ (Exists(disk'[t]) => Exists(disk[t]))
    <3>1. disk'[t] = disk[t] \/ disk'[t] = [disk[t] EXCEPT !.used = TRUE]
      BY <1>2, <1>5, StampEffect DEF LineageInv, TypeOK
    <3> QED  BY <1>2, <3>1 DEF Row, Exists
  <2>2. Resolved(r, req[r].row) /\ req[r].pc = "stamp"
    BY <1>5 DEF MarkFirstUse
  <2>3. Exists(disk'[t]) => req[r].row.issuedAt = disk'[t].issuedAt
    BY <1>3, <2>1, <2>2 DEF OwnOK, AgedOK
  <2> QED  BY <1>1, <1>3, <2>2, <2>3, OwnResolved
<1>6. ~MarkFirstUse(r) => disk' = disk /\ lock' = lock
  BY DEF ResolveCurrent, ResolveSuperseded, CheckSuccessors, Contested, MarkFirstUse, db
<1>7. CASE Finish(r) \/ Refuse(r)
  BY <1>7, OwnEnd
<1>8. CASE Resolved(r, disk[t]) /\ disk' = disk
  BY <1>1, <1>3, <1>8, OwnResolved
<1>9. CASE Put(r, [req[r] EXCEPT !.pc = "stamp", !.row = disk[t]]) /\ disk' = disk
  <2> DEFINE q == [req[r] EXCEPT !.pc = "stamp", !.row = disk[t]]
  <2>1. req'[r] = q /\ q.pc = "stamp" /\ q.tok = t /\ q.row = disk[t] /\ q.todo = {}
    BY <1>2, <1>3, <1>9 DEF RequestRecord
  <2> HIDE DEF q
  <2>2. \A x \in Token : lock'[x] # r
    BY <2>1, HoldsNothingAfter DEF LineageInv, Sweeping, Recovering
  <2> QED  BY <1>9, <2>1, <2>2 DEF OwnOK, TodoOK, AimOK, AgedOK, EndingAll, Recovering, Exists
<1>10. CASE Goto(r, "superseded")
  <2>1. req'[r].pc = "superseded" /\ req'[r].todo = {}
    BY <1>2, <1>10 DEF Goto, RequestRecord
  <2> QED  BY <2>1, OwnPlain DEF Aimless, Pc, Recovering
<1>11. ASSUME NEW pc \in {"successors", "recoverClaim", "revoke"}, req'[r].pc = pc, req'[r].todo = {},
              req'[r].row.family \in minted
       PROVE  OwnOK(r)'
  <2>1. \A x \in Token : lock'[x] # r
    BY <1>11, HoldsNothingAfter DEF LineageInv, Sweeping, Recovering
  <2> QED  BY <1>4, <1>11, <2>1 DEF OwnOK, TodoOK, AimOK, AgedOK, EndingAll, Recovering
<1>12. CASE /\ Put(r, [req[r] EXCEPT !.pc = "successors", !.row = disk[t], !.at = disk[t].rotatedAt])
            /\ Retired(disk[t])
  <2> DEFINE q == [req[r] EXCEPT !.pc = "successors", !.row = disk[t], !.at = disk[t].rotatedAt]
  <2>1. req'[r] = q /\ q.pc = "successors" /\ q.row = disk[t] /\ q.todo = {}
    BY <1>2, <1>3, <1>12 DEF RequestRecord
  <2> HIDE DEF q
  <2>2. disk[t].family \in minted
    BY <1>2, <1>12 DEF LineageInv, RowsOK, Retired, Unrevoked, Exists
  <2> QED  BY <1>11, <2>1, <2>2
<1>13. ASSUME NEW pc \in {"recoverClaim", "revoke"}, Goto(r, pc), req[r].pc = "successors" PROVE OwnOK(r)'
  <2>1. req'[r].pc = pc /\ req'[r].todo = {} /\ req'[r].row = req[r].row
    BY <1>2, <1>13 DEF Goto, RequestRecord
  <2>2. req[r].row.family \in minted
    BY <1>3, <1>13 DEF OwnOK, AimOK
  <2> QED  BY <1>11, <2>1, <2>2
<1> QED  BY <1>5, <1>6, <1>7, <1>8, <1>9, <1>10, <1>12, <1>13
         DEF ResolveCurrent, ResolveSuperseded, CheckSuccessors, Contested

\* The steps of a rotation.
LEMMA OwnRotate ==
  ASSUME LineageInv, LineageInv', AimsInv, NEW r \in Request,
         CheckAge(r) \/ ClaimRotation(r) \/ ReadLostClaim(r) \/ Deliver(r) \/ \E u \in Token : Mint(r, u)
  PROVE  OwnOK(r)'
<1> DEFINE t == req[r].tok
<1>1. req[r].pc \in {"due", "claim", "claimLost", "answer", "mint"} /\ req[r].pc \notin Ended
  BY DEF CheckAge, ClaimRotation, ReadLostClaim, Deliver, Mint, Ended
<1>2. /\ req[r] \in RequestRecord /\ t \in Token /\ t \in minted /\ disk[t] \in Row /\ req[r].row \in Row
      /\ \A q : Put(r, q) => req'[r] = q
  BY <1>1, Busy
<1>3. OwnOK(r) /\ req[r].todo = {}
  BY <1>1, OwnOfAims DEF OwnOK, TodoOK
<1>4. CASE Finish(r) \/ Refuse(r)
  BY <1>4, OwnEnd
<1>5. CASE CheckAge(r) /\ Put(r, [req[r] EXCEPT !.pc = "claim", !.at = now])
  <2> DEFINE q == [req[r] EXCEPT !.pc = "claim", !.at = now]
  <2>1. req'[r] = q /\ q.pc = "claim" /\ q.tok = t /\ q.at = now /\ q.todo = {}
    BY <1>2, <1>3, <1>5 DEF RequestRecord
  <2>2. disk' = disk /\ req[r].pc = "due" /\ now \in Int
    BY <1>5, EnvAssumption DEF CheckAge, db, LineageInv, TypeOK
  <2>3. CASE now - req[r].row.issuedAt < RotateAfter
    <3>1. req'[r] = IdleRequest
      BY <1>2, <1>5, <2>3 DEF CheckAge, Finish
    <3>2. req'[r].pc = "idle"
      BY <3>1 DEF IdleRequest, NewRequest
    <3> QED  BY <2>1, <3>2
  <2>4. CASE ~(now - req[r].row.issuedAt < RotateAfter)
    <3>1. req[r].row.issuedAt \in Int
      BY <1>2 DEF Row, Instant, Never
    <3>2. req[r].row.issuedAt < now
      BY <2>2, <2>4, <3>1, EnvAssumption
    <3>3. Exists(disk[t]) => disk[t].issuedAt < now
      BY <1>3, <2>2, <3>2 DEF OwnOK, AgedOK
    <3> HIDE DEF q
    <3>4. \A x \in Token : lock'[x] # r
      BY <2>1, HoldsNothingAfter DEF LineageInv, Sweeping, Recovering
    <3> QED  BY <2>1, <2>2, <3>3, <3>4 DEF OwnOK, TodoOK, AimOK, AgedOK, EndingAll, Recovering, Exists
  <2> QED  BY <2>3, <2>4
<1>6. CASE ClaimRotation(r) /\ Goto(r, "mint")
  <2>1. req'[r].pc = "mint" /\ req'[r].todo = {} /\ req'[r].tok = t /\ req'[r].at = req[r].at
    BY <1>2, <1>6 DEF Goto, RequestRecord
  <2>2. disk' = disk /\ req[r].pc = "claim"
    BY <1>6 DEF ClaimRotation, Write, db
  <2>3. Exists(disk'[t]) => disk'[t].issuedAt < req[r].at
    BY <1>3, <2>2 DEF OwnOK, AgedOK
  <2>4. \A x \in Token : lock'[x] = r => HolderOK(x)'
    BY <2>1 DEF HolderOK, Recovering
  <2> QED  BY <2>1, <2>3, <2>4 DEF OwnOK, TodoOK, AimOK, AgedOK, EndingAll, Recovering, Exists
<1>7. CASE Goto(r, "claimLost")
  <2>1. req'[r].pc = "claimLost" /\ req'[r].todo = {}
    BY <1>2, <1>7 DEF Goto, RequestRecord
  <2> QED  BY <2>1, OwnPlain DEF Aimless, Pc, Recovering
<1>8. ASSUME NEW u \in Token, Mint(r, u) PROVE OwnOK(r)'
  <2>1. req'[r].pc = "answer" /\ req'[r].todo = {}
    BY <1>2, <1>8 DEF Mint, NewRequest
  <2> QED  BY <2>1, OwnPlain DEF Aimless, Pc, Recovering
<1> QED  BY <1>4, <1>5, <1>6, <1>7, <1>8 DEF CheckAge, ClaimRotation, ReadLostClaim, Deliver

\* The steps of a recovery but those of its sweep.
LEMMA OwnRecover ==
  ASSUME LineageInv, LineageInv', AimsInv, NEW r \in Request,
         RecoverClaim(r) \/ RecoverSnapshot(r) \/ RecoverCheck(r) \/ RecoverUndo(r) \/ RecoverReuse(r)
  PROVE  OwnOK(r)'
<1> DEFINE t == req[r].tok
<1>1. req[r].pc \in {"recoverClaim"} \cup Recovering /\ req[r].pc \notin Ended
  BY DEF RecoverClaim, RecoverSnapshot, RecoverCheck, RecoverUndo, RecoverReuse, Recovering, Ended
<1>2. /\ req[r] \in RequestRecord /\ t \in Token /\ t \in minted /\ disk[t] \in Row
      /\ \A q : Put(r, q) => req'[r] = q
  BY <1>1, Busy
<1>3. OwnOK(r) /\ req[r].row.family \in minted
  BY <1>1, OwnOfAims DEF OwnOK, AimOK
<1>4. minted' = minted
  BY DEF RecoverClaim, RecoverSnapshot, RecoverCheck, RecoverUndo, RecoverReuse, env
<1>5. CASE RecoverClaim(r) /\ Goto(r, "contested")
  <2>1. req'[r].pc = "contested" /\ req'[r].todo = {}
    BY <1>2, <1>5 DEF Goto, RequestRecord
  <2> QED  BY <2>1, OwnPlain DEF Aimless, Pc, Recovering
<1>6. ASSUME NEW q, req'[r] = q, q.pc \in Recovering, q.row = req[r].row, q.tok = t, q.at = req[r].at,
             q.todo \subseteq minted, q.pc # "recoverSweep" => q.todo = {}, disk' = disk,
             \A x \in Token : lock'[x] = r => x = t \/ (lock[x] = r /\ req[r].pc \in Recovering)
      PROVE  OwnOK(r)'
  <2>1. TodoOK(r)' /\ AimOK(r)' /\ AgedOK(r)'
    BY <1>3, <1>4, <1>6 DEF TodoOK, AimOK, AgedOK, EndingAll, Recovering
  <2>2. ASSUME NEW x \in Token, lock'[x] = r PROVE HolderOK(x)'
    <3>1. x # t => /\ disk[x].family = disk[t].family /\ disk[x].issuedAt >= q.at
      BY <1>3, <1>6, <2>2, NamesAssumption DEF OwnOK, HolderOK, Free
    <3> QED  BY <1>6, <2>2, <3>1 DEF HolderOK, Recovering
  <2> QED  BY <2>1, <2>2 DEF OwnOK
<1>7. CASE RecoverClaim(r) /\ Goto(r, "recoverSnapshot")
  <2> DEFINE q == [req[r] EXCEPT !.pc = "recoverSnapshot", !.todo = {}, !.hit = FALSE]
  <2>1. req'[r] = q /\ q.pc = "recoverSnapshot" /\ q.row = req[r].row /\ q.tok = t /\ q.at = req[r].at
        /\ q.todo = {}
    BY <1>2, <1>7 DEF Goto, RequestRecord
  <2>2. disk' = disk /\ lock' = [lock EXCEPT ![t] = r]
    <3>1. Goto(r, "contested") => req'[r].pc = "contested"
      BY <1>2 DEF Goto, RequestRecord
    <3> HIDE DEF q
    <3>2. ~Goto(r, "contested")
      BY <2>1, <3>1
    <3> QED  BY <1>7, <3>2 DEF RecoverClaim, Write
  <2>3. req[r].pc = "recoverClaim" /\ \A x \in Token : lock[x] # r
    BY <1>7, HoldsNothing DEF RecoverClaim, LineageInv, Sweeping, Recovering
  <2>4. \A x \in Token : lock'[x] = r => x = t
    BY <1>2, <2>2, <2>3 DEF LineageInv, TypeOK
  <2> HIDE DEF q
  <2> QED  BY <1>6, <2>1, <2>2, <2>4 DEF Recovering
<1>8. CASE RecoverSnapshot(r)
  <2> DEFINE T == {x \in Token : Undelivered(r, x, disk[x]) /\ ~disk[x].used}
             q == [req[r] EXCEPT !.pc = "recoverSweep", !.todo = T]
  <2>1. req'[r] = q /\ q.pc = "recoverSweep" /\ q.row = req[r].row /\ q.tok = t /\ q.at = req[r].at
        /\ q.todo = T
    BY <1>2, <1>8 DEF RecoverSnapshot, RequestRecord
  <2>2. disk' = disk /\ lock' = lock /\ req[r].pc \in Recovering
    BY <1>8 DEF RecoverSnapshot, db, Recovering
  <2>3. T \subseteq minted
    BY DEF Undelivered, Successor, Exists, LineageInv, RowsOK, NoRow
  <2> HIDE DEF q, T
  <2> QED  BY <1>6, <2>1, <2>2, <2>3 DEF Recovering
<1>9. ASSUME NEW pc \in {"recoverUndo", "recoverReuse"}, RecoverCheck(r), Goto(r, pc) PROVE OwnOK(r)'
  <2> DEFINE q == [req[r] EXCEPT !.pc = pc, !.todo = {}, !.hit = FALSE]
  <2>1. req'[r] = q /\ q.pc = pc /\ q.row = req[r].row /\ q.tok = t /\ q.at = req[r].at /\ q.todo = {}
    BY <1>2, <1>9 DEF Goto, RequestRecord
  <2>2. disk' = disk /\ lock' = lock /\ req[r].pc \in Recovering
    BY <1>9 DEF RecoverCheck, db, Recovering
  <2> HIDE DEF q
  <2> QED  BY <1>6, <1>9, <2>1, <2>2 DEF Recovering
<1>10. CASE RecoverUndo(r)
  <2> DEFINE q == [req[r] EXCEPT !.pc = "due", !.row = draft[t]]
  <2>1. req'[r] = q /\ q.pc = "due" /\ q.row = draft[t] /\ q.tok = t /\ q.todo = {}
    BY <1>2, <1>3, <1>10 DEF RecoverUndo, RequestRecord, OwnOK, TodoOK
  <2>2. disk'[t] = draft[t]
    BY <1>2, <1>10, UndoEffect DEF RecoverUndo, Commit, View
  <2>3. \A x \in Token : lock'[x] # r
    BY <2>1, HoldsNothingAfter DEF LineageInv, Sweeping, Recovering
  <2> HIDE DEF q
  <2> QED  BY <2>1, <2>2, <2>3 DEF OwnOK, TodoOK, AimOK, AgedOK, EndingAll, Recovering
<1>11. CASE RecoverReuse(r)
  <2>1. req'[r].pc = "revoke" /\ req'[r].todo = {} /\ req'[r].row = req[r].row
    BY <1>2, <1>11 DEF RecoverReuse, Goto, RequestRecord
  <2>2. \A x \in Token : lock'[x] # r
    BY <2>1, HoldsNothingAfter DEF LineageInv, Sweeping, Recovering
  <2> QED  BY <1>3, <1>4, <2>1, <2>2 DEF OwnOK, TodoOK, AimOK, AgedOK, EndingAll, Recovering
<1> QED  BY <1>5, <1>7, <1>8, <1>9, <1>10, <1>11 DEF RecoverClaim, RecoverCheck

\* The steps of those who end sign-ins, but those of their sweeps.
LEMMA OwnRevoke ==
  ASSUME LineageInv, LineageInv', AimsInv, NEW r \in Request,
         SignOut(r) \/ StartRevokePass(r) \/ EndRevokePass(r)
  PROVE  OwnOK(r)'
<1> DEFINE t == req[r].tok
<1>1. req[r].pc \in {"signOut", "revoke", "revokeSweep"} /\ req[r].pc \notin Ended
  BY DEF SignOut, StartRevokePass, EndRevokePass, Ended
<1>2. /\ req[r] \in RequestRecord /\ t \in Token /\ t \in minted /\ disk[t] \in Row
      /\ \A q : Put(r, q) => req'[r] = q
  BY <1>1, Busy
<1>3. OwnOK(r) /\ (req[r].pc # "signOut" => req[r].row.family \in minted)
  BY <1>1, OwnOfAims DEF OwnOK, AimOK
<1>4. minted' = minted
  BY DEF SignOut, StartRevokePass, EndRevokePass, env
<1>5. CASE Finish(r) \/ Refuse(r)
  BY <1>5, OwnEnd
<1>6. ASSUME req'[r].pc = "revoke", req'[r].todo = {}, req'[r].row.family \in minted PROVE OwnOK(r)'
  <2>1. \A x \in Token : lock'[x] # r
    BY <1>6, HoldsNothingAfter DEF LineageInv, Sweeping, Recovering
  <2> QED  BY <1>4, <1>6, <2>1 DEF OwnOK, TodoOK, AimOK, AgedOK, EndingAll, Recovering
<1>7. CASE SignOut(r) /\ Exists(disk[t])
  <2> DEFINE q == [req[r] EXCEPT !.pc = "revoke", !.row = disk[t]]
  <2>1. req'[r] = q /\ q.pc = "revoke" /\ q.row = disk[t] /\ q.todo = {}
    BY <1>2, <1>3, <1>7 DEF SignOut, RequestRecord, OwnOK, TodoOK
  <2>2. disk[t].family \in minted
    BY <1>2, <1>7 DEF LineageInv, RowsOK, Exists
  <2> HIDE DEF q
  <2> QED  BY <1>6, <2>1, <2>2
<1>8. CASE EndRevokePass(r) /\ Goto(r, "revoke")
  <2>1. req'[r].pc = "revoke" /\ req'[r].todo = {} /\ req'[r].row = req[r].row /\ req[r].pc # "signOut"
    BY <1>2, <1>8 DEF EndRevokePass, Goto, RequestRecord
  <2> QED  BY <1>3, <1>6, <2>1
<1> DEFINE T == {x \in Token : InFamily(r, disk[x])}
<1>9. CASE StartRevokePass(r) /\ Put(r, [req[r] EXCEPT !.pc = "revokeSweep", !.todo = T, !.hit = FALSE])
  <2> DEFINE q == [req[r] EXCEPT !.pc = "revokeSweep", !.todo = T, !.hit = FALSE]
  <2>1. req'[r] = q /\ q.pc = "revokeSweep" /\ q.todo = T /\ q.row = req[r].row
    BY <1>2, <1>9 DEF RequestRecord
  <2>2. disk' = disk /\ lock' = lock /\ req[r].pc = "revoke"
    BY <1>9 DEF StartRevokePass, db
  <2>3. \A x \in Token : lock'[x] # r
    BY <2>2, HoldsNothing DEF LineageInv, Sweeping, Recovering
  <2>4. T \subseteq minted /\ \A x \in T : disk[x].family = req[r].row.family
    BY DEF InFamily, Unrevoked, Exists, LineageInv, RowsOK, NoRow
  <2> HIDE DEF q, T
  <2>5. TodoOK(r)'
    BY <1>4, <2>1, <2>2, <2>4 DEF TodoOK, Exists
  <2> QED  BY <1>3, <1>4, <2>1, <2>2, <2>3, <2>5 DEF OwnOK, AimOK, AgedOK, EndingAll, Recovering
<1> QED  BY <1>5, <1>7, <1>8, <1>9 DEF SignOut, StartRevokePass, EndRevokePass, EndRevoke

LEMMA OwnRevokeAll ==
  ASSUME LineageInv, LineageInv', ExpiryInv, AimsInv, NEW r \in Request,
         FindKept(r) \/ ReadFamilies(r) \/ StartAllPass(r) \/ EndAllPass(r)
  PROVE  OwnOK(r)'
<1> DEFINE t == req[r].tok
<1>1. req[r].pc \in {"keep", "families", "allPass", "allSweep"} /\ req[r].pc \notin Ended
  BY DEF FindKept, ReadFamilies, StartAllPass, EndAllPass, Ended
<1>2. /\ req[r] \in RequestRecord /\ t \in Token /\ t \in minted /\ disk[t] \in Row
      /\ \A q : Put(r, q) => req'[r] = q
  BY <1>1, Busy
<1>3. OwnOK(r)
  BY OwnOfAims
<1>4. minted' = minted
  BY DEF FindKept, ReadFamilies, StartAllPass, EndAllPass, env
<1>5. CASE Finish(r) \/ Refuse(r)
  BY <1>5, OwnEnd
<1>6. ASSUME NEW row, Put(r, [req[r] EXCEPT !.pc = "families", !.row = row, !.at = now]), req[r].pc = "keep"
      PROVE  OwnOK(r)'
  <2>1. req'[r].pc = "families" /\ req'[r].todo = {}
    BY <1>2, <1>3, <1>6 DEF RequestRecord, OwnOK, TodoOK
  <2> QED  BY <2>1, OwnPlain DEF Aimless, Pc, Recovering
<1>7. CASE ReadFamilies(r)
  <2> DEFINE F == {disk[x].family : x \in {u \in Token : OnAccount(r, disk[u])}}
             q == [req[r] EXCEPT !.pc = "allPass", !.fams = F]
  <2>1. req'[r] = q /\ q.pc = "allPass" /\ q.fams = F /\ q.row = req[r].row /\ q.at = req[r].at /\ q.todo = {}
    BY <1>2, <1>3, <1>7 DEF ReadFamilies, RequestRecord, OwnOK, TodoOK
  <2>2. disk' = disk /\ lock' = lock /\ req[r].pc = "families"
    BY <1>7 DEF ReadFamilies, db
  <2>3. \A x \in Token : lock'[x] # r
    BY <2>2, HoldsNothing DEF LineageInv, Sweeping, Recovering
  <2>4. F \subseteq minted \ {req[r].row.family}
    BY DEF OnAccount, Unrevoked, Exists, LineageInv, RowsOK
  <2>5. \A x \in Token : disk[x].family \in F => disk[x].expiresAt > req[r].at
    BY DEF OnAccount, ExpiryInv, FamilyExpiresTogether
  <2> HIDE DEF q, F
  <2> QED  BY <1>4, <2>1, <2>2, <2>3, <2>4, <2>5 DEF OwnOK, TodoOK, AimOK, AgedOK, EndingAll, Recovering
<1>8. ASSUME NEW q, req'[r] = q, q.pc \in {"allPass", "allSweep"}, q.row = req[r].row, q.at = req[r].at,
             q.fams = req[r].fams, disk' = disk, lock' = lock, q.todo \subseteq minted,
             q.pc = "allPass" => q.todo = {}, \A x \in q.todo : OnAccount(r, disk[x]),
             req[r].pc \in {"allPass", "allSweep"}
      PROVE  OwnOK(r)'
  <2>1. TodoOK(r)'
    BY <1>4, <1>8 DEF TodoOK, Exists, OnAccount
  <2>2. AimOK(r)' /\ AgedOK(r)'
    BY <1>3, <1>4, <1>8 DEF OwnOK, AimOK, AgedOK, EndingAll, Recovering
  <2>3. ASSUME NEW x \in Token, lock'[x] = r PROVE HolderOK(x)'
    <3>1. OnAccount(r, disk[x])
      BY <1>3, <1>8, <2>3, NamesAssumption DEF OwnOK, HolderOK, Free
    <3> QED  BY <1>8, <2>3, <3>1 DEF HolderOK, Recovering, OnAccount, Unrevoked, Exists
  <2> QED  BY <2>1, <2>2, <2>3 DEF OwnOK
<1> DEFINE T == {x \in Token : OnAccount(r, View(r, x))}
<1>9. CASE StartAllPass(r) /\ Put(r, [req[r] EXCEPT !.pc = "allSweep", !.todo = T, !.hit = FALSE]) /\ UNCHANGED db
  <2> DEFINE q == [req[r] EXCEPT !.pc = "allSweep", !.todo = T, !.hit = FALSE]
  <2>1. /\ req'[r] = q /\ q.pc = "allSweep" /\ q.todo = T /\ q.row = req[r].row /\ q.at = req[r].at
        /\ q.fams = req[r].fams
    BY <1>2, <1>9 DEF RequestRecord
  <2>2. disk' = disk /\ lock' = lock /\ req[r].pc = "allPass"
    BY <1>9 DEF StartAllPass, db
  <2>3. ASSUME NEW x \in T PROVE OnAccount(r, disk[x]) /\ x \in minted
    <3>1. View(r, x) = disk[x]
      <4>1. x \in Token
        BY <2>3
      <4>2. ASSUME lock[x] = r PROVE draft[x].revoked
        <5>1. LockOK(x) /\ ~Free(x)
          BY <4>1, <4>2, NamesAssumption DEF LineageInv, LocksOK, Free
        <5>2. draft[x] = [disk[x] EXCEPT !.revoked = TRUE]
          BY <2>2, <4>2, <5>1 DEF LockOK, Recovering
        <5>3. disk[x] \in Row
          BY <4>1 DEF LineageInv, TypeOK
        <5> QED  BY <5>2, <5>3 DEF Row
      <4> QED  BY <4>2 DEF View, OnAccount, Unrevoked
    <3> QED  BY <3>1 DEF OnAccount, Unrevoked, Exists, LineageInv, RowsOK, NoRow
  <2> HIDE DEF q, T
  <2> QED  BY <1>8, <2>1, <2>2, <2>3
<1>10. CASE EndAllPass(r) /\ Goto(r, "allPass") /\ UNCHANGED db
  <2> DEFINE q == [req[r] EXCEPT !.pc = "allPass", !.todo = {}, !.hit = FALSE]
  <2>1. /\ req'[r] = q /\ q.pc = "allPass" /\ q.todo = {} /\ q.row = req[r].row /\ q.at = req[r].at
        /\ q.fams = req[r].fams
    BY <1>2, <1>10 DEF Goto, RequestRecord
  <2>2. disk' = disk /\ lock' = lock /\ req[r].pc = "allSweep"
    BY <1>10 DEF EndAllPass, db
  <2> HIDE DEF q
  <2> QED  BY <1>8, <2>1, <2>2
<1> QED  BY <1>5, <1>6, <1>7, <1>9, <1>10 DEF FindKept, StartAllPass, EndAllPass

\* A step of a sweep: the row is one the sweep was sent for, and if it still
\* matches it is held from now on.
LEMMA OwnSweep ==
  ASSUME LineageInv, LineageInv', AimsInv, NEW r \in Request, NEW y \in Token, SweepRow(r, y)
  PROVE  OwnOK(r)'
<1> DEFINE t == req[r].tok
           hit == [req[r] EXCEPT !.todo = @ \ {y}, !.hit = TRUE]
           miss == [req[r] EXCEPT !.todo = @ \ {y}]
<1>1. req[r].pc \in {"recoverSweep", "revokeSweep", "allSweep"} /\ req[r].pc \notin Ended /\ Free(y)
  BY DEF SweepRow, Ended
<1>2. /\ req[r] \in RequestRecord /\ t \in Token /\ t \in minted /\ disk[t] \in Row
      /\ \A q : Put(r, q) => req'[r] = q
  BY <1>1, Busy
<1>3. OwnOK(r) /\ minted' = minted /\ disk' = disk
  BY OwnOfAims DEF SweepRow, env, Write, db
<1>4. ASSUME NEW q \in {hit, miss} 
      PROVE  /\ q.pc = req[r].pc /\ q.tok = t /\ q.row = req[r].row /\ q.at = req[r].at /\ q.fams = req[r].fams
             /\ q.todo = req[r].todo \ {y} /\ q.hit \in {req[r].hit, TRUE} /\ (q = hit => q.hit)
  BY <1>2 DEF RequestRecord
<1> HIDE DEF hit, miss
<1>5. PICK q \in {hit, miss} : req'[r] = q
  BY <1>2 DEF SweepRow, hit, miss
<1>6. TodoOK(r)' /\ AimOK(r)' /\ AgedOK(r)'
  BY <1>1, <1>3, <1>4, <1>5 DEF OwnOK, TodoOK, AimOK, AgedOK, EndingAll, Exists
<1>7. ASSUME NEW x \in Token, lock'[x] = r, lock[x] = r PROVE HolderOK(x)'
  <2>1. HolderOK(x) /\ ~Free(x)
    BY <1>3, <1>7, NamesAssumption DEF OwnOK, Free
  <2>2. /\ q.pc = req[r].pc /\ q.tok = t /\ q.row = req[r].row /\ q.at = req[r].at
        /\ (req[r].hit => q.hit)
    BY <1>4
  <2>3. CASE req[r].pc = "recoverSweep"
    BY <1>3, <1>5, <1>7, <2>1, <2>2, <2>3 DEF HolderOK, Recovering
  <2>4. CASE req[r].pc = "revokeSweep"
    BY <1>3, <1>5, <1>7, <2>1, <2>2, <2>4 DEF HolderOK, Recovering
  <2>5. CASE req[r].pc = "allSweep"
    BY <1>3, <1>5, <1>7, <2>1, <2>2, <2>5 DEF HolderOK, Recovering, OnAccount, Unrevoked, Exists
  <2> QED  BY <1>1, <2>3, <2>4, <2>5
<1>8. ASSUME NEW x \in Token, lock'[x] = r, lock[x] # r PROVE HolderOK(x)'
  <2>1. x = y /\ Matches(r, y, disk[y]) /\ q = hit
    <3>1. CASE Matches(r, y, disk[y])
      BY <1>2, <1>5, <1>8, <3>1 DEF SweepRow, Write, LineageInv, TypeOK, hit
    <3>2. CASE ~Matches(r, y, disk[y])
      BY <1>8, <3>2 DEF SweepRow, db
    <3> QED  BY <3>1, <3>2
  <2>2. q.hit /\ q.pc = req[r].pc /\ q.tok = t /\ q.row = req[r].row /\ q.at = req[r].at
    BY <1>4, <2>1
  <2>3. CASE req[r].pc = "recoverSweep"
    <3>1. disk[y].family = req[r].row.family /\ disk[y].issuedAt >= req[r].at
      BY <2>1, <2>3 DEF Matches, Undelivered, Successor
    <3>2. Exists(disk[t]) /\ RequestOK(r)
      <4>1. lock[t] = r /\ RequestOK(r)
        BY <1>1, <2>3, Busy DEF RequestOK, Recovering
      <4> QED  BY <1>2, <2>3, <4>1, RecoveryHolds DEF Recovering, Unrevoked
    <3>3. disk[t].family = req[r].row.family
      BY <2>3, <3>2 DEF RequestOK, HoldsRow, Recovering
    <3> QED  BY <1>3, <1>5, <1>8, <2>1, <2>2, <2>3, <3>1, <3>3 DEF HolderOK, Recovering
  <2>4. CASE req[r].pc = "revokeSweep"
    BY <1>3, <1>5, <1>8, <2>1, <2>2, <2>4 DEF HolderOK, Matches, InFamily, Recovering
  <2>5. CASE req[r].pc = "allSweep"
    BY <1>3, <1>5, <1>8, <2>1, <2>2, <2>5 DEF HolderOK, Matches, OnAccount, Recovering, Unrevoked, Exists
  <2> QED  BY <1>1, <2>3, <2>4, <2>5
<1> QED  BY <1>6, <1>7, <1>8 DEF OwnOK

LEMMA OwnHandle ==
  ASSUME LineageInv, LineageInv', ExpiryInv, AimsInv, NEW r \in Request, Handle(r)
  PROVE  OwnOK(r)'
BY OwnResolve, OwnRotate, OwnRecover, OwnRevoke, OwnRevokeAll, OwnSweep DEF Handle


\* A step is one of the surroundings, of a request, or none.
LEMMA NextAims ==
  ASSUME LineageInv, LineageInv', ExpiryInv, AimsInv, [LastingNext]_vars
  PROVE  AimsInv'
<1>1. ASSUME NEW r \in Request, Others(r), OwnOK(r)' PROVE AimsInv'
  <2>1. \A s \in Request : TodoOK(s)' /\ AimOK(s)' /\ AgedOK(s)'
    BY <1>1, AimsFrame DEF OwnOK
  <2>2. \A t \in Token : HolderOK(t)'
    BY <1>1, AimsFrame DEF OwnOK, HolderOK, Free
  <2>3. RetiredLater'
    BY <1>1, AimsFrame
  <2> QED  BY <2>1, <2>2, <2>3 DEF AimsInv
<1>2. CASE (\E t \in Token : SignIn(t) \/ Prune(t)) \/ Tick \/ DeleteUser
  <2>1. Others(NoRequest) /\ req' = req
    BY <1>2, AroundOthers DEF SignIn, Prune, Tick, DeleteUser
  <2>2. \A s \in Request : TodoOK(s)' /\ AimOK(s)' /\ AgedOK(s)'
    BY <2>1, AimsFrame, NamesAssumption
  <2>3. \A t \in Token : HolderOK(t)'
    BY <2>1, AimsFrame DEF HolderOK, Free
  <2>4. RetiredLater'
    BY <2>1, AimsFrame
  <2> QED  BY <2>2, <2>3, <2>4 DEF AimsInv
<1>3. ASSUME NEW r \in Request, Handle(r) PROVE AimsInv'
  BY <1>1, <1>3, HandleOthers, OwnHandle DEF AimsInv
<1>4. ASSUME NEW r \in Request, Fail(r) \/ DeadlockVictim(r) PROVE AimsInv'
  <2>1. Finish(r)
    BY <1>4 DEF Fail, DeadlockVictim
  <2> QED  BY <1>1, <1>4, <2>1, ArrivalOthers, OwnEnd
<1>5. ASSUME NEW r \in Request, NEW k \in Kinds, NEW t \in Token, Call(r, k, t) PROVE AimsInv'
  <2>1. req'[r].pc \in {"signOut", "resolve"} /\ req'[r].todo = {}
    BY <1>5 DEF Call, Put, NewRequest, LineageInv, TypeOK
  <2>2. OwnOK(r)'
    BY <2>1, OwnPlain DEF Aimless, Pc, Recovering
  <2> QED  BY <1>1, <1>5, <2>2, ArrivalOthers
<1>6. CASE UNCHANGED vars
  <2>1. Others(NoRequest) /\ req' = req
    <3>1. /\ \A s \in Request \ {NoRequest} : req'[s] = req[s]
          /\ \A t \in Token : disk'[t] = disk[t] \/ (Free(t) /\ disk'[t] = NoRow)
          /\ \A t \in Token : lock'[t] = lock[t] \/ (lock[t] = NoRequest /\ lock'[t] = NoRequest)
          /\ minted \subseteq minted' /\ now <= now' /\ req' = req
      BY <1>6, EnvAssumption DEF vars, LineageInv, TypeOK
    <3> QED  BY <3>1, QuietOthers
  <2>2. \A s \in Request : TodoOK(s)' /\ AimOK(s)' /\ AgedOK(s)'
    BY <2>1, AimsFrame, NamesAssumption
  <2>3. \A t \in Token : HolderOK(t)'
    BY <2>1, AimsFrame DEF HolderOK, Free
  <2>4. RetiredLater'
    BY <2>1, AimsFrame
  <2> QED  BY <2>2, <2>3, <2>4 DEF AimsInv
<1> QED  BY <1>2, <1>3, <1>4, <1>5, <1>6 DEF LastingNext

----------------------------------------------------------------------------
(***************************************************************************)
(* Gaps.  Between two rows of a family that r's sweep treats apart.        *)
(***************************************************************************)
Apart(x, a) ==
  Unrevoked(disk[x]) /\ Unrevoked(disk[a]) /\ disk[x].family = disk[a].family =>
    disk[x].rotatedAt # Never /\ disk[x].rotatedAt <= disk[a].issuedAt

\* Once apart, rows stay apart.
LEMMA ApartStays ==
  ASSUME LineageInv, LineageInv', NEW r \in Request \cup {NoRequest}, Others(r),
         NEW x \in minted, NEW a \in Token \ {x}, a \in minted => Apart(x, a)
  PROVE  Apart(x, a)'
<1> SUFFICES ASSUME Unrevoked(disk'[x]), Unrevoked(disk'[a]), disk'[x].family = disk'[a].family
             PROVE  disk'[x].rotatedAt # Never /\ disk'[x].rotatedAt <= disk'[a].issuedAt
  BY DEF Apart, Unrevoked, Exists
<1>1. x \in Token /\ disk[x] \in Row /\ disk[a] \in Row /\ disk'[x] \in Row /\ disk'[a] \in Row
  BY DEF LineageInv, TypeOK
<1>2. Settled(x) /\ Retimed(x) /\ disk'[x] # NoRow /\ disk'[a] # NoRow
  BY DEF Others, Unrevoked, Exists, NoRow
<1>3. Unrevoked(disk[x]) /\ disk[x].family = disk'[x].family
  BY <1>1, <1>2 DEF Settled, Unrevoked, Exists, Row
<1>4. CASE a \in minted
  <2>1. Settled(a)
    BY <1>4 DEF Others
  <2>2. Unrevoked(disk[a]) /\ disk[a].family = disk'[a].family /\ disk'[a].issuedAt = disk[a].issuedAt
    BY <1>1, <1>2, <2>1 DEF Settled, Unrevoked, Exists, Row
  <2>3. disk[x].rotatedAt # Never /\ disk[x].rotatedAt <= disk[a].issuedAt
    BY <1>3, <1>4, <2>2 DEF Apart
  <2>4. disk[x].rotatedAt \in Int /\ disk[a].issuedAt \in Int
    BY <1>1 DEF Row, Instant, Never
  <2>5. ~(disk[a].issuedAt < disk[x].rotatedAt)
    BY <2>3, <2>4
  <2>6. disk'[x].rotatedAt = disk[x].rotatedAt
    BY <1>2, <1>3, <2>2, <2>3, <2>5 DEF Retimed
  <2> QED  BY <2>2, <2>3, <2>6
<1>5. CASE a \notin minted
  <2>1. disk'[a].rotatedAt = Never
    BY <1>5 DEF Others, Inherits, Unrevoked
  <2> QED  BY <1>1, <2>1 DEF LineageInv, Lineage
<1> QED  BY <1>4, <1>5


\* The statements a step of r may bring it to, but for the sweeps.
LEMMA NextStatement ==
  ASSUME LineageInv, NEW r \in Request, Handle(r), ~StartRevokePass(r), ~StartAllPass(r),
         ~\E y \in Token : SweepRow(r, y)
  PROVE  /\ req'[r].pc \notin {"revokeSweep", "allSweep"}
         /\ req'[r].pc = "revoke" =>
              CheckSuccessors(r) \/ SignOut(r) \/ RecoverReuse(r) \/ (EndRevokePass(r) /\ req[r].hit)
         /\ req'[r].pc = "allPass" => ReadFamilies(r) \/ (EndAllPass(r) /\ req[r].hit)
<1>1. req[r] \in RequestRecord /\ \A q : Put(r, q) => req'[r] = q
  BY HandleIsBusy, Busy
<1>2. \A pc : Goto(r, pc) => req'[r].pc = pc
  BY <1>1 DEF Goto, RequestRecord
<1>3. Finish(r) \/ Refuse(r) => req'[r].pc \in Ended
  BY <1>1 DEF Finish, Refuse, IdleRequest, NewRequest, Ended
<1>4. ASSUME NEW row, Resolved(r, row) PROVE req'[r].pc \in {"due", "keep", "idle"}
  <2>1. AfterResolve(req[r].kind) \in {"due", "keep", "idle"}
    BY DEF AfterResolve
  <2>2. CASE req[r].kind = "get"
    BY <1>1, <1>4, <2>2 DEF Resolved, Finish, IdleRequest, NewRequest
  <2>3. CASE req[r].kind # "get"
    BY <1>1, <1>4, <2>1, <2>3 DEF Resolved, RequestRecord
  <2> QED  BY <2>2, <2>3
<1>5. \A pc, row : Put(r, [req[r] EXCEPT !.pc = pc, !.row = row]) => req'[r].pc = pc
  BY <1>1 DEF RequestRecord
<1>6. \A pc, row, at : Put(r, [req[r] EXCEPT !.pc = pc, !.row = row, !.at = at]) => req'[r].pc = pc
  BY <1>1 DEF RequestRecord
<1>7. \A pc, at : Put(r, [req[r] EXCEPT !.pc = pc, !.at = at]) => req'[r].pc = pc
  BY <1>1 DEF RequestRecord
<1>8. CASE ResolveCurrent(r) \/ MarkFirstUse(r) \/ ResolveSuperseded(r) \/ Contested(r)
  BY <1>2, <1>3, <1>4, <1>5, <1>6, <1>8
     DEF ResolveCurrent, MarkFirstUse, ResolveSuperseded, Contested, Ended
<1>9. CASE CheckSuccessors(r) \/ SignOut(r) \/ RecoverReuse(r)
  BY <1>2, <1>3, <1>5, <1>9 DEF CheckSuccessors, SignOut, RecoverReuse, Ended
<1>10. CASE RecoverClaim(r) \/ RecoverCheck(r) \/ RecoverUndo(r) \/ CheckAge(r) \/ ClaimRotation(r)
            \/ ReadLostClaim(r) \/ Deliver(r)
  BY <1>2, <1>3, <1>5, <1>7, <1>10
     DEF RecoverClaim, RecoverCheck, RecoverUndo, CheckAge, ClaimRotation, ReadLostClaim, Deliver, Ended
<1>11. CASE RecoverSnapshot(r) \/ \E u \in Token : Mint(r, u)
  <2>1. \A todo : Put(r, [req[r] EXCEPT !.pc = "recoverSweep", !.todo = todo]) => req'[r].pc = "recoverSweep"
    BY <1>1 DEF RequestRecord
  <2>2. \A u : Put(r, NewRequest("answer", "get", u)) => req'[r].pc = "answer"
    BY <1>1 DEF NewRequest
  <2> QED  BY <1>11, <2>1, <2>2 DEF RecoverSnapshot, Mint
<1>12. CASE EndRevokePass(r) \/ EndAllPass(r)
  BY <1>2, <1>3, <1>12 DEF EndRevokePass, EndRevoke, EndAllPass, Ended
<1>13. CASE FindKept(r) \/ ReadFamilies(r)
  BY <1>1, <1>3, <1>6, <1>13 DEF FindKept, ReadFamilies, RequestRecord, Ended
<1> QED  BY <1>8, <1>9, <1>10, <1>11, <1>12, <1>13 DEF Handle

LEMMA OwnGaps ==
  ASSUME LineageInv, ExpiryInv, AimsInv, NEW r \in Request, Gaps(r), Handle(r)
  PROVE  Gaps(r)'
<1>1. /\ req[r] \in RequestRecord /\ (\A q : Put(r, q) => req'[r] = q)
      /\ TodoOK(r) /\ \A x \in Token : disk[x] \in Row
  BY HandleIsBusy, Busy DEF AimsInv, LineageInv, TypeOK
<1>2. CASE StartRevokePass(r)
  <2> DEFINE T == {x \in Token : InFamily(r, disk[x])}
             q == [req[r] EXCEPT !.pc = "revokeSweep", !.todo = T, !.hit = FALSE]
  <2>1. CASE Put(r, q)
    <3>1. req'[r] = q /\ q.todo = T /\ disk' = disk
      BY <1>1, <1>2, <2>1 DEF StartRevokePass, db, RequestRecord
    <3> HIDE DEF q
    <3>2. \A x \in T, a \in Token \ T : ~(Unrevoked(disk[a]) /\ disk[x].family = disk[a].family)
      BY DEF InFamily
    <3> HIDE DEF T
    <3> QED  BY <3>1, <3>2 DEF Gaps, Unrevoked, Exists
  <2>2. CASE EndRevoke(r)
    <3>1. req'[r].pc \in Ended
      BY <1>1, <2>2 DEF EndRevoke, Finish, Refuse, IdleRequest, NewRequest, Ended
    <3> QED  BY <3>1 DEF Gaps, Sweeps, Ended
  <2> QED  BY <1>2, <2>1, <2>2 DEF StartRevokePass
<1>3. CASE StartAllPass(r)
  <2> DEFINE T == {x \in Token : OnAccount(r, View(r, x))}
             q == [req[r] EXCEPT !.pc = "allSweep", !.todo = T, !.hit = FALSE]
  <2>1. CASE Put(r, q) /\ UNCHANGED db
    <3>1. req'[r] = q /\ q.todo = T /\ disk' = disk /\ lock' = lock
      BY <1>1, <2>1 DEF db, RequestRecord
    <3> HIDE DEF q
    <3>2. ASSUME NEW x \in T, NEW a \in Token \ T, Unrevoked(disk[a]), lock[a] # r,
                 disk[x].family = disk[a].family
          PROVE  FALSE
      <4>1. x \in Token /\ OnAccount(r, View(r, x))
        BY <3>2
      <4>2. View(r, x).family = disk[x].family /\ View(r, x).expiresAt = disk[x].expiresAt
        <5>1. CASE lock[x] = r
          <6>1. LockOK(x) /\ ~Free(x)
            BY <4>1, <5>1, NamesAssumption DEF LineageInv, LocksOK, Free
          <6>2. draft[x] = [disk[x] EXCEPT !.revoked = TRUE]
            BY <1>3, <5>1, <6>1 DEF StartAllPass, LockOK, Recovering
          <6> QED  BY <1>1, <4>1, <5>1, <6>2 DEF View, Row
        <5> QED  BY <5>1 DEF View
      <4>3. disk[a].expiresAt = disk[x].expiresAt
        BY <3>2, <4>1 DEF ExpiryInv, FamilyExpiresTogether
      <4>4. OnAccount(r, disk[a])
        BY <3>2, <4>1, <4>2, <4>3 DEF OnAccount
      <4> QED  BY <3>2, <4>4 DEF View
    <3> HIDE DEF T
    <3> QED  BY <3>1, <3>2 DEF Gaps, Unrevoked, Exists
  <2>2. CASE Finish(r)
    <3>1. req'[r].pc \in Ended
      BY <1>1, <2>2 DEF Finish, IdleRequest, NewRequest, Ended
    <3> QED  BY <3>1 DEF Gaps, Sweeps, Ended
  <2> QED  BY <1>3, <2>1, <2>2 DEF StartAllPass
<1>4. ASSUME NEW y \in Token, SweepRow(r, y) PROVE Gaps(r)'
  <2>1. CASE Matches(r, y, disk[y])
    <3> DEFINE q == [req[r] EXCEPT !.todo = @ \ {y}, !.hit = TRUE]
    <3>1. req'[r] = q /\ q.hit
      BY <1>1, <1>4, <2>1 DEF SweepRow, RequestRecord
    <3> QED  BY <3>1 DEF Gaps
  <2>2. CASE ~Matches(r, y, disk[y])
    <3> DEFINE q == [req[r] EXCEPT !.todo = @ \ {y}]
    <3>1. req'[r] = q /\ q.pc = req[r].pc /\ q.hit = req[r].hit /\ q.todo = req[r].todo \ {y}
      BY <1>1, <1>4, <2>2 DEF SweepRow, RequestRecord
    <3>2. disk' = disk /\ lock' = lock /\ y \in req[r].todo
      BY <1>4, <2>2 DEF SweepRow, db
    <3> HIDE DEF q
    <3>3. req[r].pc \in {"revokeSweep", "allSweep"} => ~Unrevoked(disk[y])
      <4>1. CASE req[r].pc = "revokeSweep"
        BY <1>1, <2>2, <3>2, <4>1 DEF TodoOK, Matches, InFamily, Unrevoked
      <4>2. CASE req[r].pc = "allSweep"
        BY <1>1, <2>2, <3>2, <4>2 DEF TodoOK, Matches, OnAccount, Unrevoked
      <4> QED  BY <4>1, <4>2
    <3> QED  BY <3>1, <3>2, <3>3 DEF Gaps, Sweeps, Unrevoked, Exists
  <2> QED  BY <2>1, <2>2
<1>5. CASE req'[r].pc \notin {"revokeSweep", "allSweep"}
  BY <1>5 DEF Gaps, Sweeps
<1> QED  BY <1>2, <1>3, <1>4, <1>5, NextStatement

LEMMA NextGaps ==
  ASSUME LineageInv, LineageInv', ExpiryInv, AimsInv, \A r \in Request : Gaps(r), [LastingNext]_vars
  PROVE  \A r \in Request : Gaps(r)'
<1>1. ASSUME NEW r \in Request \cup {NoRequest}, Others(r), NEW s \in Request \ {r} PROVE Gaps(s)'
  <2>1. req'[s] = req[s] /\ Gaps(s) /\ TodoOK(s) /\ s # NoRequest
    BY <1>1, NamesAssumption DEF Others, AimsInv
  <2>2. SUFFICES ASSUME Sweeps(s), ~req[s].hit, NEW x \in req[s].todo, NEW a \in Token \ req[s].todo,
                        lock'[a] # s
                 PROVE  Apart(x, a)'
    BY <2>1 DEF Gaps, Sweeps, Apart, Unrevoked, Exists
  <2>3. x \in minted /\ a # x
    BY <2>1, <2>2 DEF TodoOK
  <2>4. lock[a] # s
    BY <1>1, <2>1, <2>2 DEF Others
  <2>5. Apart(x, a)
    BY <2>1, <2>2, <2>3, <2>4 DEF Gaps, Apart, LineageInv, TypeOK
  <2> QED  BY <1>1, <2>3, <2>5, ApartStays
<1>2. CASE (\E t \in Token : SignIn(t) \/ Prune(t)) \/ Tick \/ DeleteUser
  BY <1>1, <1>2, AroundOthers, NamesAssumption
<1>3. ASSUME NEW r \in Request, Handle(r) PROVE \A s \in Request : Gaps(s)'
  BY <1>1, <1>3, HandleOthers, OwnGaps DEF AimsInv
<1>4. ASSUME NEW r \in Request, Fail(r) \/ DeadlockVictim(r) \/ (\E k \in Kinds, t \in Token : Call(r, k, t))
      PROVE  \A s \in Request : Gaps(s)'
  <2>1. req'[r].pc \notin {"revokeSweep", "allSweep"}
    BY <1>4 DEF Fail, DeadlockVictim, Call, Finish, Put, IdleRequest, NewRequest, LineageInv, TypeOK
  <2> QED  BY <1>1, <1>4, <2>1, ArrivalOthers DEF Gaps, Sweeps
<1>5. CASE UNCHANGED vars
  BY <1>5 DEF vars, Gaps, Sweeps, Unrevoked, Exists
<1> QED  BY <1>2, <1>3, <1>4, <1>5 DEF LastingNext


----------------------------------------------------------------------------
(***************************************************************************)
(* The chase goes on.  r moves, F are the commits foreseen after the step, *)
(* G those foreseen before it.                                             *)
(***************************************************************************)
\* Whoever else is in charge of a family that has a row was in charge of it before.
LEMMA ChargeWas ==
  ASSUME LineageInv, AimsInv, NEW r \in Request \cup {NoRequest}, Others(r), NEW F, NEW G, F \ {r} = G \ {r},
         NEW c \in Request \ {r}, NEW f, f # NoToken, InCharge(c, f, F)'
  PROVE  InCharge(c, f, G)
<1>1. req'[c] = req[c] /\ (c \in F => c \in G) /\ TodoOK(c) /\ c # NoRequest
  BY NamesAssumption DEF Others, AimsInv
<1>2. CASE Revoking(c)' /\ req'[c].row.family = f
  BY <1>1, <1>2 DEF InCharge, Revoking
<1>3. CASE c \in F /\ f \in req'[c].fams
  BY <1>1, <1>3 DEF InCharge
<1>4. ASSUME NEW x \in Token, x \in req'[c].todo \/ lock'[x] = c, disk'[x].family = f, c \in F
      PROVE  InCharge(c, f, G)
  <2>1. x \in req[c].todo \/ lock[x] = c
    BY <1>1, <1>4 DEF Others
  <2>2. CASE lock[x] = c
    <3>1. disk[x].family = f
      BY <1>1, <1>4, <2>2 DEF Others
    <3> QED  BY <1>1, <1>4, <2>2, <3>1 DEF InCharge
  <2>3. CASE x \in req[c].todo
    <3>1. Settled(x) /\ disk'[x] # NoRow
      BY <1>1, <1>4, <2>3 DEF Others, TodoOK, NoRow
    <3>2. disk[x].family = f
      BY <1>4, <3>1 DEF Settled
    <3> QED  BY <1>1, <1>4, <2>3, <3>2 DEF InCharge
  <2> QED  BY <2>1, <2>2, <2>3
<1> QED  BY <1>2, <1>3, <1>4 DEF InCharge

\* A family somebody is in charge of has begun.
LEMMA ChargedBegan ==
  ASSUME LineageInv, AimsInv, NEW F \in SUBSET Enders, NEW c \in Request, NEW f, f # NoToken, InCharge(c, f, F)
  PROVE  f \in minted
<1>1. AimOK(c)
  BY DEF AimsInv
<1>2. c \in F => EndingAll(c)
  BY DEF Enders
<1> QED  BY <1>1, <1>2 DEF InCharge, AimOK, Revoking, LineageInv, RowsOK

\* t0 is the row before the step that t stands for after it.
LEMMA Chase ==
  ASSUME LineageInv, LineageInv', AimsInv, NEW r \in Request \cup {NoRequest}, Others(r),
         NEW F, NEW G, F \ {r} = G \ {r}, ChasedBy(G),
         NEW t \in Token, Escapes(t, F)', disk'[t].expiresAt > now',
         NEW c \in Request, InCharge(c, disk[t].family, F)',
         NEW t0 \in Token, Escapes(t0, G), disk[t0].family = disk'[t].family,
         disk[t0].expiresAt = disk'[t].expiresAt,
         c = r => InCharge(r, disk[t0].family, G) \/ Chaser(t, F)',
         r \in Request /\ Minds(r, t0, G) /\ Pending(r, t0, G) => Chaser(t, F)',
         \A w \in Request \ {r} : \A x \in req[w].todo :
           Minds(w, t0, G) /\ ~req[w].hit /\ Escapes(x, G) /\ disk[x].family = disk[t0].family =>
             \/ \E y \in req[w].todo : Escapes(y, F)' /\ disk'[y].family = disk[t0].family
             \/ Chaser(t, F)'
  PROVE  Chaser(t, F)'
<1> PICK f : f = disk[t0].family
  OBVIOUS
<1>1. f # NoToken /\ f = disk'[t].family
  BY DEF Escapes, Unrevoked, Exists
<1>2. InCharge(c, f, G) \/ Chaser(t, F)'
  <2>1. CASE c = r
    BY <2>1
  <2>2. CASE c # r
    <3>1. InCharge(c, f, F)'
      BY <1>1 DEF InCharge
    <3> QED  BY <1>1, <2>2, <3>1, ChargeWas
  <2> QED  BY <2>1, <2>2
<1>3. disk[t0].expiresAt > now
  <2>1. now <= now' /\ now \in Int /\ now' \in Int /\ disk'[t].expiresAt \in Int
    <3>1. disk'[t] \in Row
      BY DEF LineageInv, TypeOK
    <3> QED  BY <3>1, EnvAssumption DEF Others, LineageInv, TypeOK, Row, Instant, Never
  <2> QED  BY <2>1
<1>4. CASE InCharge(c, f, G)
  <2>1. PICK w \in Request : Minds(w, t0, G) /\ Pending(w, t0, G)
    BY <1>3, <1>4 DEF ChasedBy, Chaser
  <2>2. CASE w = r
    BY <2>1, <2>2
  <2>3. CASE w # r
    <3>1. req'[w] = req[w] /\ (w \in G => w \in F)
      BY <2>3 DEF Others
    <3>2. Minds(w, t, F)'
      BY <1>1, <2>1, <3>1 DEF Minds, Revoking, OnAccount, Escapes
    <3>3. CASE req[w].pc \in {"revoke", "allPass"} \/ req[w].hit
      BY <3>1, <3>2, <3>3 DEF Chaser, Pending
    <3>4. CASE ~(req[w].pc \in {"revoke", "allPass"} \/ req[w].hit)
      <4>1. PICK x \in req[w].todo : Escapes(x, G) /\ disk[x].family = f
        BY <2>1, <3>4 DEF Pending
      <4>2. (\E y \in req[w].todo : Escapes(y, F)' /\ disk'[y].family = f) \/ Chaser(t, F)'
        BY <2>1, <2>3, <3>4, <4>1
      <4> QED  BY <1>1, <3>1, <3>2, <4>2 DEF Chaser, Pending
    <3> QED  BY <3>3, <3>4
  <2> QED  BY <2>2, <2>3
<1> QED  BY <1>2, <1>4

\* A step whose actor's commit is not foreseen and that inserts nothing.
LEMMA ChaseOutside ==
  ASSUME LineageInv, LineageInv', AimsInv, Chased, NEW r \in Request \cup {NoRequest}, Others(r),
         NEW F \in SUBSET Enders', r \notin F,
         NEW t \in minted, Escapes(t, F)', disk'[t].expiresAt > now',
         NEW c \in Request, InCharge(c, disk[t].family, F)',
         c = r => InCharge(r, disk[t].family, F) \/ Chaser(t, F)',
         r \in Request /\ Minds(r, t, F) /\ Pending(r, t, F) => Chaser(t, F)',
         \A w \in Request \ {r} : \A x \in req[w].todo :
           /\ Minds(w, t, F) /\ ~req[w].hit /\ Escapes(x, F) /\ disk[x].family = disk[t].family
           /\ ~Unrevoked(disk'[x])
           => \/ \E y \in req[w].todo : Escapes(y, F)' /\ disk'[y].family = disk[t].family
              \/ Chaser(t, F)'
  PROVE  Chaser(t, F)'
<1>1. F \subseteq Request /\ NoRequest \notin F
  BY NamesAssumption DEF Enders
<1>2. ChasedBy(F)
  <2>1. ASSUME NEW s \in F PROVE s \in Enders
    <3>1. s \in Request \ {r} /\ EndingAll(s)'
      BY <1>1, <2>1 DEF Enders
    <3>2. req'[s] = req[s]
      BY <3>1 DEF Others
    <3> QED  BY <3>1, <3>2 DEF Enders, EndingAll
  <2> QED  BY <2>1 DEF Chased
<1>3. t \in Token /\ disk[t] \in Row /\ disk'[t] \in Row /\ Settled(t) /\ disk'[t] # NoRow
  BY DEF LineageInv, TypeOK, Others, Escapes, Unrevoked, Exists, NoRow
<1>4. disk[t].family = disk'[t].family /\ disk[t].expiresAt = disk'[t].expiresAt /\ Unrevoked(disk[t])
  BY <1>3 DEF Settled, Escapes, Unrevoked, Exists, Row
<1>5. \A x \in Token : lock[x] \in F <=> lock'[x] \in F
  BY <1>1 DEF Others
<1>6. Escapes(t, F)
  BY <1>3, <1>4, <1>5 DEF Escapes
<1>7. ASSUME NEW w \in Request \ {r}, NEW x \in req[w].todo,
             Minds(w, t, F) /\ ~req[w].hit /\ Escapes(x, F) /\ disk[x].family = disk[t].family
      PROVE  \/ \E y \in req[w].todo : Escapes(y, F)' /\ disk'[y].family = disk[t].family
             \/ Chaser(t, F)'
  <2>1. CASE ~Unrevoked(disk'[x])
    BY <1>7, <2>1
  <2>2. CASE Unrevoked(disk'[x])
    <3>1. x \in minted /\ x \in Token
      BY DEF AimsInv, TodoOK, LineageInv, TypeOK
    <3>2. Settled(x) /\ disk'[x] # NoRow
      BY <2>2, <3>1 DEF Others, Unrevoked, Exists, NoRow
    <3>3. Escapes(x, F)' /\ disk'[x].family = disk[t].family
      BY <1>5, <1>7, <2>2, <3>1, <3>2 DEF Escapes, Settled
    <3> QED  BY <3>3
  <2> QED  BY <2>1, <2>2
<1> QED  BY <1>2, <1>3, <1>4, <1>6, <1>7, Chase


\* Sign-ins, the clock, deletion and the pruner.
LEMMA ChaseAround ==
  ASSUME LineageInv, LineageInv', ExpiryInv, AimsInv, Chased,
         (\E t \in Token : SignIn(t) \/ Prune(t)) \/ Tick \/ DeleteUser
  PROVE  Chased'
<1> SUFFICES ASSUME NEW F \in SUBSET Enders', NEW t \in Token, Escapes(t, F)', disk'[t].expiresAt > now',
                    NEW c \in Request, InCharge(c, disk[t].family, F)'
             PROVE  Chaser(t, F)'
  BY DEF Chased, ChasedBy
<1>1. Others(NoRequest) /\ req' = req /\ NoRequest \notin Request /\ NoRequest \notin F
  BY AroundOthers, NamesAssumption DEF SignIn, Prune, Tick, DeleteUser, Enders
<1>2. F \in SUBSET Enders
  BY <1>1 DEF Enders, EndingAll
<1>3. t \in minted
  <2>1. CASE SignIn(t)
    <3>1. t \notin minted /\ disk'[t].family = t
      BY <2>1 DEF SignIn, NewRow, LineageInv, TypeOK
    <3>2. InCharge(c, t, F)' /\ t # NoToken /\ c \in Request \ {NoRequest}
      BY <1>1, <3>1, NamesAssumption DEF InCharge
    <3>3. InCharge(c, t, F)
      BY <1>1, <3>2, ChargeWas
    <3> QED  BY <1>2, <3>1, <3>2, <3>3, ChargedBegan
  <2>2. CASE ~SignIn(t)
    <3>1. disk'[t] = disk[t] \/ disk'[t] = NoRow
      BY <2>2 DEF SignIn, Prune, Tick, DeleteUser, LineageInv, TypeOK
    <3> QED  BY <3>1 DEF Escapes, Unrevoked, Exists, LineageInv, RowsOK, NoRow
  <2> QED  BY <2>1, <2>2
<1>4. ASSUME NEW x \in Token, Escapes(x, F), disk[x].family = disk[t].family, ~Unrevoked(disk'[x])
      PROVE  FALSE
  <2>1. Prune(x)
    <3>1. disk'[x] # disk[x] /\ x \in minted
      BY <1>4 DEF Escapes, Unrevoked, Exists, LineageInv, RowsOK, NoRow
    <3> QED  BY <3>1 DEF SignIn, Prune, Tick, DeleteUser, LineageInv, TypeOK
  <2>2. disk[x].expiresAt <= now /\ now' = now
    BY <2>1 DEF Prune
  <2>3. disk[x].expiresAt = disk[t].expiresAt
    BY <1>4 DEF ExpiryInv, FamilyExpiresTogether
  <2>4. disk'[t].expiresAt = disk[t].expiresAt
    BY <1>1, <1>3 DEF Others, Settled, Escapes, Unrevoked, Exists, NoRow
  <2>5. now \in Int /\ disk[t].expiresAt \in Int
    BY EnvAssumption DEF LineageInv, TypeOK, Row, Instant, Never
  <2> QED  BY <2>2, <2>3, <2>4, <2>5
<1>5. \A w \in Request \ {NoRequest} : req[w].todo \subseteq Token
  BY DEF AimsInv, TodoOK, LineageInv, TypeOK
<1> QED  BY <1>1, <1>3, <1>4, <1>5, ChaseOutside

\* Requests that come, and those that die when they are in charge of nothing.
LEMMA ChaseArrival ==
  ASSUME LineageInv, LineageInv', AimsInv, Chased, NEW r \in Request,
         \/ ~Revoking(r) /\ (Fail(r) \/ DeadlockVictim(r))
         \/ \E k \in Kinds, t \in Token : Call(r, k, t)
  PROVE  Chased'
<1> SUFFICES ASSUME NEW F \in SUBSET Enders', NEW t \in Token, Escapes(t, F)', disk'[t].expiresAt > now',
                    NEW c \in Request, InCharge(c, disk[t].family, F)'
             PROVE  Chaser(t, F)'
  BY DEF Chased, ChasedBy
<1>1. Others(r)
  BY ArrivalOthers
<1>2. disk' = disk
  BY DEF Fail, DeadlockVictim, Call, db
<1>3. req'[r].pc \in {"idle", "resolve", "signOut"}
  BY DEF Fail, DeadlockVictim, Call, Finish, Put, IdleRequest, NewRequest, LineageInv, TypeOK
<1>4. r \notin F /\ ~Revoking(r)' /\ ~Revoking(r)
  BY <1>3 DEF Enders, EndingAll, Revoking, Call, Ended
<1>5. t \in minted
  BY <1>2 DEF Escapes, Unrevoked, Exists, LineageInv, RowsOK, NoRow
<1>6. \A w \in Request \ {r} : \A x \in req[w].todo : Escapes(x, F) => Unrevoked(disk'[x])
  BY <1>2 DEF Escapes
<1> QED  BY <1>1, <1>4, <1>5, <1>6, ChaseOutside DEF InCharge, Minds

\* The step of a revoker, as far as another pass over a row of its family is concerned.
LEMMA RevokerStep ==
  ASSUME LineageInv, AimsInv, NEW r \in Request, Handle(r), Revoking(r), NEW F, NEW t \in Token,
         Escapes(t, F)', Escapes(t, F), disk'[t].family = disk[t].family,
         Minds(r, t, F), r \notin F, Pending(r, t, F)
  PROVE  Minds(r, t, F)' /\ Pending(r, t, F)'
<1>1. /\ req[r] \in RequestRecord /\ (\A q : Put(r, q) => req'[r] = q)
      /\ TodoOK(r) /\ req[r].row.family = disk[t].family
  BY HandleIsBusy, Busy DEF AimsInv, Minds
<1>2. StartRevokePass(r) \/ EndRevokePass(r) \/ (\E y \in Token : SweepRow(r, y))
  BY DEF Revoking, Handle, ResolveCurrent, MarkFirstUse, ResolveSuperseded, CheckSuccessors,
         RecoverClaim, RecoverSnapshot, RecoverCheck, RecoverUndo, RecoverReuse, Contested, CheckAge,
         ClaimRotation, ReadLostClaim, Mint, Deliver, SignOut, FindKept, ReadFamilies, StartAllPass, EndAllPass
<1>3. CASE StartRevokePass(r)
  <2> DEFINE T == {x \in Token : InFamily(r, disk[x])}
             q == [req[r] EXCEPT !.pc = "revokeSweep", !.todo = T, !.hit = FALSE]
  <2>1. t \in T /\ disk' = disk
    BY <1>1, <1>3 DEF InFamily, Escapes, StartRevokePass, db
  <2>2. req'[r] = q /\ q.pc = "revokeSweep" /\ q.todo = T /\ q.row = req[r].row
    BY <1>1, <1>3, <2>1 DEF StartRevokePass, RequestRecord
  <2> HIDE DEF q, T
  <2> QED  BY <1>1, <2>1, <2>2 DEF Minds, Pending, Revoking
<1>4. CASE EndRevokePass(r)
  <2>1. req[r].hit /\ Goto(r, "revoke")
    BY <1>4 DEF EndRevokePass, Pending
  <2> DEFINE q == [req[r] EXCEPT !.pc = "revoke", !.todo = {}, !.hit = FALSE]
  <2>2. req'[r] = q /\ q.pc = "revoke" /\ q.row = req[r].row
    BY <1>1, <2>1, GotoFields DEF Goto
  <2> HIDE DEF q
  <2> QED  BY <1>1, <2>2 DEF Minds, Pending, Revoking
<1>5. ASSUME NEW y \in Token, SweepRow(r, y) PROVE Minds(r, t, F)' /\ Pending(r, t, F)'
  <2>1. req[r].pc = "revokeSweep"
    BY <1>5 DEF Revoking, SweepRow
  <2>2. CASE Matches(r, y, disk[y])
    <3> DEFINE q == [req[r] EXCEPT !.todo = @ \ {y}, !.hit = TRUE]
    <3>1. req'[r] = q /\ q.hit /\ q.pc = req[r].pc /\ q.row = req[r].row
      BY <1>1, <1>5, <2>2 DEF SweepRow, RequestRecord
    <3> HIDE DEF q
    <3> QED  BY <1>1, <2>1, <3>1 DEF Minds, Pending, Revoking
  <2>3. CASE ~Matches(r, y, disk[y])
    <3> DEFINE q == [req[r] EXCEPT !.todo = @ \ {y}]
    <3>1. /\ req'[r] = q /\ q.hit = req[r].hit /\ q.pc = req[r].pc /\ q.row = req[r].row
          /\ q.todo = req[r].todo \ {y}
      BY <1>1, <1>5, <2>3 DEF SweepRow, RequestRecord
    <3>2. disk' = disk /\ lock' = lock /\ y \in req[r].todo
      BY <1>5, <2>3 DEF SweepRow, db
    <3> HIDE DEF q
    <3>3. ~Unrevoked(disk[y])
      BY <1>1, <2>1, <2>3, <3>2 DEF TodoOK, Matches, InFamily, Unrevoked
    <3>4. \A x \in req[r].todo : Escapes(x, F) => x \in q.todo /\ Escapes(x, F)'
      BY <3>1, <3>2, <3>3 DEF Escapes, Unrevoked, Exists
    <3> QED  BY <1>1, <2>1, <3>1, <3>2, <3>4 DEF Minds, Pending, Revoking
  <2> QED  BY <2>2, <2>3
<1> QED  BY <1>2, <1>3, <1>4, <1>5

\* Who may revoke a row.
LEMMA WhoRevokes ==
  ASSUME NEW r \in Request, Handle(r), ~\E u \in Token : Mint(r, u), ~MarkFirstUse(r), disk' # disk
  PROVE  RecoverUndo(r) \/ RecoverReuse(r) \/ EndRevokePass(r) \/ StartAllPass(r) \/ EndAllPass(r)
BY DEF Handle, ResolveCurrent, ResolveSuperseded, CheckSuccessors, RecoverClaim, RecoverSnapshot,
       RecoverCheck, Contested, CheckAge, ClaimRotation, ReadLostClaim, Deliver, SignOut,
       StartRevokePass, FindKept, ReadFamilies, SweepRow, Write, db


\* What a step revokes that forgets the account's sign-outs: rows of a family it
\* goes on to end, or rows of a recovery.  Then whoever was to visit them is to
\* visit the row the recovery restores.
LEMMA Replaced ==
  ASSUME LineageInv, AimsInv, \A s \in Request : Gaps(s), NEW r \in Request, Handle(r),
         ~\E u \in Token : Mint(r, u), ~StartAllPass(r), ~EndAllPass(r),
         NEW F \in SUBSET Enders', r \notin F, NEW t \in Token, Escapes(t, F)', disk'[t].family = disk[t].family,
         NEW w \in Request \ {r}, NEW x \in req[w].todo, Minds(w, t, F), ~req[w].hit,
         Escapes(x, F), disk[x].family = disk[t].family, ~Unrevoked(disk'[x])
  PROVE  \/ \E y \in req[w].todo : Escapes(y, F)' /\ disk'[y].family = disk[t].family
         \/ Chaser(t, F)'
<1>1. /\ req[r] \in RequestRecord /\ (\A q : Put(r, q) => req'[r] = q) /\ RequestOK(r)
      /\ x \in Token /\ disk[x] \in Row /\ TodoOK(w) /\ r # NoRequest
  BY HandleIsBusy, Busy, NamesAssumption DEF AimsInv, LineageInv, TypeOK, TodoOK
<1>2. ~MarkFirstUse(r) /\ disk'[x] # disk[x]
  <2>1. MarkFirstUse(r) => disk'[x] = disk[x] \/ disk'[x] = [disk[x] EXCEPT !.used = TRUE]
    BY <1>1, StampEffect DEF LineageInv, TypeOK
  <2>2. Unrevoked([disk[x] EXCEPT !.used = TRUE])
    BY <1>1 DEF Escapes, Unrevoked, Exists, Row
  <2> QED  BY <2>1, <2>2 DEF Escapes
<1>3. RecoverUndo(r) \/ RecoverReuse(r) \/ EndRevokePass(r)
  BY <1>2, WhoRevokes
<1>4. ASSUME lock[x] = r, req'[r].pc = "revoke", req'[r].row.family = disk[x].family PROVE Chaser(t, F)'
  BY <1>4 DEF Chaser, Minds, Pending, Revoking
<1>5. CASE EndRevokePass(r)
  <2>1. lock[x] = r
    BY <1>1, <1>2, <1>5, RevokeCommit DEF EndRevokePass
  <2>2. req[r].hit /\ disk[x].family = req[r].row.family
    BY <1>1, <1>5, <2>1 DEF AimsInv, HolderOK, Free, EndRevokePass
  <2> DEFINE q == [req[r] EXCEPT !.pc = "revoke", !.todo = {}, !.hit = FALSE]
  <2>3. req'[r] = q /\ q.pc = "revoke" /\ q.row = req[r].row
    BY <1>1, <1>5, <2>2, GotoFields DEF EndRevokePass, Goto
  <2> HIDE DEF q
  <2> QED  BY <1>4, <2>1, <2>2, <2>3
<1>6. CASE RecoverReuse(r)
  <2>1. lock[x] = r
    BY <1>1, <1>2, <1>6, ReuseRevokes DEF Revokes
  <2>2. req[r].pc \in Recovering /\ lock[req[r].tok] = r /\ req[r].tok \in Token
    BY <1>1, <1>6, RequestFields DEF RecoverReuse, Recovering, RequestOK, Ended
  <2>3. disk[req[r].tok].family = req[r].row.family
    BY <1>1, <2>2, RecoveryHolds DEF RequestOK, HoldsRow, Unrevoked
  <2>4. disk[x].family = disk[req[r].tok].family
    BY <1>1, <2>1, <2>2 DEF AimsInv, HolderOK, Free
  <2> DEFINE q == [req[r] EXCEPT !.pc = "revoke", !.todo = {}, !.hit = FALSE]
  <2>5. req'[r] = q /\ q.pc = "revoke" /\ q.row = req[r].row
    BY <1>1, <1>6, GotoFields DEF RecoverReuse, Goto
  <2> HIDE DEF q
  <2> QED  BY <1>4, <2>1, <2>3, <2>4, <2>5
<1>7. CASE RecoverUndo(r)
  <2> PICK k \in Token : k = req[r].tok
    BY <1>7, UndoEffect
  <2>1. /\ lock[k] = r /\ Unrevoked(disk[k]) /\ disk[k].rotatedAt = req[r].at
        /\ disk'[k] = [disk[k] EXCEPT !.rotatedAt = Never]
        /\ \A u \in Token \ {k} :
             disk'[u] = IF lock[u] = r THEN [disk[u] EXCEPT !.revoked = TRUE] ELSE disk[u]
    BY <1>7, UndoEffect
  <2>2. req[r].pc \in Recovering /\ req[r].at \in Int /\ req[r].at # Never
    <3>1. req[r].pc \in Recovering /\ req[r].at \in Instant
      BY <1>1, <1>7, RequestFields DEF RecoverUndo, Recovering
    <3> QED  BY <1>1, <3>1 DEF RequestOK, Instant, Never
  <2>3. /\ lock[k] = r /\ Unrevoked(disk[k]) /\ disk[k].rotatedAt = req[r].at /\ disk[k] \in Row
        /\ disk'[k] = [disk[k] EXCEPT !.rotatedAt = Never]
        /\ req[r].pc \in Recovering /\ req[r].at \in Int /\ req[r].at # Never
    BY <2>1, <2>2 DEF LineageInv, TypeOK
  <2>4. Unrevoked(disk'[k]) /\ disk'[k].family = disk[k].family
    BY <2>3 DEF Unrevoked, Exists, Row
  <2>5. x # k /\ lock[x] = r
    BY <1>1, <1>2, <2>4, <2>1
  <2>6. disk[x].family = disk[k].family /\ disk[x].issuedAt >= req[r].at
    BY <1>1, <2>3, <2>5 DEF AimsInv, HolderOK, Free
  <2>7. k \in req[w].todo
    <3>1. SUFFICES ASSUME k \notin req[w].todo PROVE FALSE
      OBVIOUS
    <3>2. Sweeps(w)
      <4>1. Revoking(w) \/ w \in F
        BY DEF Minds
      <4>2. req'[w] = req[w]
        BY <1>7, HandleIsLocal
      <4>3. Revoking(w) \/ EndingAll(w)
        BY <4>1, <4>2 DEF Enders, EndingAll
      <4> QED  BY <1>1, <4>3 DEF TodoOK, Revoking, EndingAll, Sweeps
    <3>3. disk[x].rotatedAt # Never /\ disk[x].rotatedAt <= disk[k].issuedAt
      BY <2>3, <2>6, <3>1, <3>2 DEF Gaps, Escapes
    <3>4. disk[x].issuedAt < disk[x].rotatedAt /\ disk[k].issuedAt < disk[k].rotatedAt
      BY <1>1, <2>3, <3>3 DEF AimsInv, RetiredLater, Retired, Escapes
    <3>5. disk[x].issuedAt \in Int /\ disk[x].rotatedAt \in Int /\ disk[k].issuedAt \in Int
      BY <1>1, <2>3 DEF Row, Instant, Never
    <3> QED  BY <2>3, <2>6, <3>3, <3>4, <3>5
  <2>8. lock'[k] = NoRequest
    BY <1>7, <2>3 DEF RecoverUndo, Commit, Release
  <2>9. Escapes(k, F)'
    BY <2>4, <2>8, NamesAssumption DEF Escapes, Enders
  <2> QED  BY <2>4, <2>6, <2>7, <2>9
<1> QED  BY <1>3, <1>5, <1>6, <1>7

LEMMA ChaseHandle ==
  ASSUME LineageInv, LineageInv', ExpiryInv, AimsInv, \A s \in Request : Gaps(s), Chased,
         NEW r \in Request, Handle(r), ~\E u \in Token : Mint(r, u),
         (StartAllPass(r) \/ EndAllPass(r)) => disk' = disk,
         NEW F \in SUBSET Enders', r \notin F
  PROVE  ChasedBy(F)'
<1> SUFFICES ASSUME NEW t \in Token, Escapes(t, F)', disk'[t].expiresAt > now',
                    NEW c \in Request, InCharge(c, disk[t].family, F)'
             PROVE  Chaser(t, F)'
  BY DEF ChasedBy
<1>1. /\ req[r] \in RequestRecord /\ (\A q : Put(r, q) => req'[r] = q) /\ Others(r)
  BY HandleIsBusy, Busy, HandleOthers DEF AimsInv
<1>2. t \in minted /\ disk'[t].family = disk[t].family /\ Unrevoked(disk[t])
  <2>1. Settled(t) /\ disk'[t] # NoRow
    BY PlainRows DEF Escapes, Unrevoked, Exists, NoRow
  <2> QED  BY <2>1 DEF Settled, Escapes, Unrevoked, Exists, LineageInv, RowsOK, NoRow
<1>3. c = r => InCharge(r, disk[t].family, F) \/ Chaser(t, F)'
  <2> SUFFICES ASSUME c = r PROVE InCharge(r, disk[t].family, F) \/ Chaser(t, F)'
    OBVIOUS
  <2>1. Revoking(r)' /\ req'[r].row.family = disk'[t].family
    BY DEF InCharge
  <2>2. CASE req'[r].pc = "revoke"
    BY <2>1, <2>2 DEF Chaser, Minds, Pending
  <2>3. CASE req'[r].pc = "revokeSweep"
    <3>1. StartRevokePass(r) \/ StartAllPass(r) \/ \E y \in Token : SweepRow(r, y)
      BY <2>3, NextStatement
    <3>2. Revoking(r) /\ req'[r].row = req[r].row
      <4>1. CASE StartRevokePass(r)
        <5>1. req'[r] # IdleRequest /\ req'[r] # NewRequest("refused", "get", NoToken)
          BY <2>3 DEF IdleRequest, NewRequest
        <5> DEFINE T == {x \in Token : InFamily(r, disk[x])}
                   q == [req[r] EXCEPT !.pc = "revokeSweep", !.todo = T, !.hit = FALSE]
        <5>2. req'[r] = q
          BY <1>1, <4>1, <5>1 DEF StartRevokePass, EndRevoke, Finish, Refuse
        <5> QED  BY <1>1, <4>1, <5>2 DEF RequestRecord, StartRevokePass, Revoking
      <4>2. CASE StartAllPass(r)
        <5> DEFINE T == {x \in Token : OnAccount(r, View(r, x))}
                   q == [req[r] EXCEPT !.pc = "allSweep", !.todo = T, !.hit = FALSE]
        <5>1. req'[r] = q \/ req'[r] = IdleRequest
          BY <1>1, <4>2 DEF StartAllPass, Finish
        <5>2. q.pc = "allSweep" /\ IdleRequest.pc = "idle"
          BY <1>1 DEF RequestRecord, IdleRequest, NewRequest
        <5> HIDE DEF q
        <5> QED  BY <2>3, <5>1, <5>2
      <4>3. ASSUME NEW y \in Token, SweepRow(r, y) PROVE Revoking(r) /\ req'[r].row = req[r].row
        <5> DEFINE p == [req[r] EXCEPT !.todo = @ \ {y}, !.hit = TRUE]
                   q == [req[r] EXCEPT !.todo = @ \ {y}]
        <5>1. req'[r] = p \/ req'[r] = q
          BY <1>1, <4>3 DEF SweepRow
        <5>2. p.pc = req[r].pc /\ p.row = req[r].row /\ q.pc = req[r].pc /\ q.row = req[r].row
          BY <1>1 DEF RequestRecord
        <5> HIDE DEF p, q
        <5> QED  BY <2>3, <5>1, <5>2 DEF Revoking
      <4> QED  BY <3>1, <4>1, <4>2, <4>3
    <3> QED  BY <1>2, <2>1, <3>2 DEF InCharge
  <2> QED  BY <2>1, <2>2, <2>3 DEF Revoking
<1>4. Escapes(t, F)
  <2>1. lock[t] \in F => lock'[t] \in F
    BY <1>1, NamesAssumption DEF Others, Enders
  <2> QED  BY <1>2, <2>1 DEF Escapes
<1>5. Minds(r, t, F) /\ Pending(r, t, F) => Chaser(t, F)'
  <2>1. Minds(r, t, F) => Revoking(r)
    BY DEF Minds
  <2> QED  BY <1>2, <1>4, <2>1, RevokerStep DEF Chaser
<1>6. ASSUME NEW w \in Request \ {r}, NEW x \in req[w].todo,
             /\ Minds(w, t, F) /\ ~req[w].hit /\ Escapes(x, F) /\ disk[x].family = disk[t].family
             /\ ~Unrevoked(disk'[x])
      PROVE  \/ \E y \in req[w].todo : Escapes(y, F)' /\ disk'[y].family = disk[t].family
             \/ Chaser(t, F)'
  <2>1. ~StartAllPass(r) /\ ~EndAllPass(r)
    BY <1>6 DEF Escapes
  <2> QED  BY <1>2, <1>6, <2>1, Replaced
<1> QED  BY <1>1, <1>2, <1>3, <1>5, <1>6, ChaseOutside


\* The insert: the new row stands for the one it retires.
LEMMA ChaseMint ==
  ASSUME LineageInv, LineageInv', ExpiryInv, AimsInv, Chased, NEW r \in Request, NEW u \in Token, Mint(r, u),
         NEW F \in SUBSET Enders'
  PROVE  ChasedBy(F)'
<1> SUFFICES ASSUME NEW t \in Token, Escapes(t, F)', disk'[t].expiresAt > now',
                    NEW c \in Request, InCharge(c, disk[t].family, F)'
             PROVE  Chaser(t, F)'
  BY DEF ChasedBy
<1>1. Handle(r) /\ Others(r)
  BY HandleOthers DEF Handle, AimsInv
<1> PICK k \in Token : k = req[r].tok
  BY MintEffect
<1>2. /\ k # u /\ u \notin minted /\ lock[k] = r /\ Current(disk[k]) /\ req[r].pc = "mint"
      /\ disk'[k] = [disk[k] EXCEPT !.rotatedAt = req[r].at]
      /\ disk'[u] = NewRow(disk[k].family, req[r].at, disk[k].expiresAt)
      /\ \A x \in Token \ {k, u} : disk'[x] = disk[x]
  BY MintEffect
<1>3. req'[r].pc = "answer"
  <2>1. req'[r] = NewRequest("answer", "get", u)
    BY <1>1, Busy, HandleIsBusy DEF Mint
  <2> QED  BY <2>1 DEF NewRequest
<1>4. r \notin F /\ ~Revoking(r)' /\ ~Revoking(r) /\ c # r
  BY <1>2, <1>3 DEF Enders, EndingAll, Revoking, InCharge
<1>5. \A x \in Token : Unrevoked(disk[x]) => Unrevoked(disk'[x])
  <2>1. disk[k] \in Row
    BY DEF LineageInv, TypeOK
  <2>2. Unrevoked(disk'[k])
    BY <1>2, <2>1 DEF Current, Unrevoked, Exists, Row
  <2>3. ~Unrevoked(disk[u])
    BY <1>2 DEF Unrevoked, Exists, LineageInv, RowsOK, NoRow
  <2> QED  BY <1>2, <2>2, <2>3
<1>6. \A w \in Request \ {r} : \A x \in req[w].todo : Escapes(x, F) => Unrevoked(disk'[x])
  BY <1>5 DEF Escapes, AimsInv, TodoOK, LineageInv, TypeOK
<1>7. CASE t \in minted
  BY <1>1, <1>4, <1>6, <1>7, ChaseOutside DEF Minds
<1>8. CASE t \notin minted
  <2>1. t = u
    BY <1>2, <1>8 DEF Escapes, Unrevoked, Exists, LineageInv, RowsOK, NoRow, MintEffect
  <2>2. disk[k].family = disk'[t].family /\ disk[k].expiresAt = disk'[t].expiresAt
    BY <1>2, <2>1 DEF NewRow
  <2>3. Escapes(k, F)
    BY <1>2, <1>4 DEF Escapes, Current
  <2>4. ChasedBy(F)
    <3>1. F \subseteq Enders
      BY <1>1, <1>4, HandleIsLocal DEF Enders, EndingAll
    <3> QED  BY <3>1 DEF Chased
  <2>5. ASSUME NEW w \in Request \ {r}, NEW x \in req[w].todo, Escapes(x, F), disk[x].family = disk[k].family
        PROVE  \E y \in req[w].todo : Escapes(y, F)' /\ disk'[y].family = disk[k].family
    <3>1. x \in minted /\ x \in Token
      BY DEF AimsInv, TodoOK, LineageInv, TypeOK
    <3>2. Unrevoked(disk'[x])
      BY <1>6, <2>5
    <3>3. disk'[x].family = disk[x].family
      BY <1>1, <3>1, <3>2 DEF Others, Settled, Unrevoked, Exists, NoRow
    <3>4. lock'[x] \notin F
      BY <1>1, <1>4, <2>5, <3>1, NamesAssumption DEF Others, Escapes, Enders
    <3> QED  BY <2>5, <3>2, <3>3, <3>4 DEF Escapes
  <2> QED  BY <1>1, <1>4, <2>2, <2>3, <2>4, <2>5, Chase DEF Minds
<1> QED  BY <1>7, <1>8

\* The commit of a sign-out everywhere: it was foreseen.
LEMMA ChaseCommit ==
  ASSUME LineageInv, LineageInv', ExpiryInv, AimsInv, Chased, NEW r \in Request, Handle(r),
         Commit(r) /\ Finish(r), req[r].pc = "allPass" => \A x \in Token : ~OnAccount(r, View(r, x)),
         req[r].pc = "allSweep" => ~req[r].hit /\ req[r].todo = {}, EndingAll(r),
         NEW F \in SUBSET Enders'
  PROVE  ChasedBy(F)'
<1> SUFFICES ASSUME NEW t \in Token, Escapes(t, F)', disk'[t].expiresAt > now',
                    NEW c \in Request, InCharge(c, disk[t].family, F)'
             PROVE  Chaser(t, F)'
  BY DEF ChasedBy
<1> DEFINE G == F \cup {r}
<1>1. Others(r) /\ r # NoRequest
  BY HandleOthers, NamesAssumption DEF AimsInv
<1>2. req'[r].pc = "idle"
  BY DEF Finish, Put, IdleRequest, NewRequest, LineageInv, TypeOK
<1>3. r \notin F /\ ~Revoking(r)' /\ ~Revoking(r) /\ c # r /\ F \ {r} = G \ {r}
  BY <1>2 DEF Enders, EndingAll, Revoking, InCharge
<1>4. ChasedBy(G)
  <2>1. G \subseteq Enders
    BY <1>3, HandleIsLocal DEF Enders, EndingAll
  <2> QED  BY <2>1 DEF Chased
<1>5. \A x \in Token : disk'[x] = IF lock[x] = r THEN draft[x] ELSE disk[x]
  BY DEF Commit, View
<1>6. ASSUME NEW x \in Token, lock[x] = r PROVE ~Unrevoked(disk'[x])
  <2>1. LockOK(x) /\ ~Free(x) /\ disk[x] \in Row
    BY <1>1, <1>6 DEF LineageInv, TypeOK, LocksOK, Free
  <2>2. draft[x] = [disk[x] EXCEPT !.revoked = TRUE]
    BY <1>6, <2>1 DEF LockOK, EndingAll, Recovering
  <2> QED  BY <1>5, <1>6, <2>1, <2>2 DEF Unrevoked, Row
<1>7. lock[t] # r /\ disk'[t] = disk[t]
  BY <1>5, <1>6 DEF Escapes
<1>8. \A x \in Token : lock[x] \in F => lock'[x] \in F
  BY <1>1, <1>3, NamesAssumption DEF Others, Enders
<1>9. Escapes(t, G)
  BY <1>7, <1>8 DEF Escapes
<1>10. ~(Minds(r, t, G) /\ Pending(r, t, G))
  <2>1. CASE req[r].pc = "allPass"
    BY <1>3, <1>7, <2>1 DEF Minds, View
  <2>2. CASE req[r].pc = "allSweep"
    BY <2>2 DEF Pending
  <2> QED  BY <2>1, <2>2 DEF EndingAll
<1>11. ASSUME NEW w \in Request \ {r}, NEW x \in req[w].todo, Escapes(x, G), disk[x].family = disk[t].family
      PROVE  \E y \in req[w].todo : Escapes(y, F)' /\ disk'[y].family = disk[t].family
  <2>1. x \in Token /\ lock[x] # r /\ lock[x] \notin F
    BY <1>11 DEF AimsInv, TodoOK, LineageInv, TypeOK, Escapes
  <2>2. disk'[x] = disk[x]
    BY <1>5, <2>1
  <2>3. lock'[x] \notin F
    BY <1>1, <1>3, <2>1, NamesAssumption DEF Others, Enders
  <2> QED  BY <1>11, <2>2, <2>3 DEF Escapes
<1> HIDE DEF G
<1> QED  BY <1>1, <1>3, <1>4, <1>7, <1>9, <1>10, <1>11, Chase


\* The steps of a sign-out everywhere whose commit stays ahead of it.
LEMMA ChaseForeseen ==
  ASSUME LineageInv, LineageInv', ExpiryInv, AimsInv, AimsInv', Chased, NEW r \in Request, Handle(r),
         NEW F \in SUBSET Enders', r \in F
  PROVE  ChasedBy(F)'
<1> SUFFICES ASSUME NEW t \in Token, Escapes(t, F)', disk'[t].expiresAt > now',
                    NEW c \in Request, InCharge(c, disk[t].family, F)'
             PROVE  Chaser(t, F)'
  BY DEF ChasedBy
<1>1. /\ req[r] \in RequestRecord /\ (\A q : Put(r, q) => req'[r] = q) /\ Others(r) /\ TodoOK(r) /\ AimOK(r)'
      /\ EndingAll(r)' /\ r # NoRequest /\ \A x \in Token : disk[x] \in Row
  BY HandleIsBusy, Busy, HandleOthers, NamesAssumption DEF AimsInv, Enders, LineageInv, TypeOK
<1>2. \A s \in Request \ {r} : s \in F => s \in Enders
  BY HandleIsLocal DEF Enders, EndingAll
<1>3. \A x \in Token : lock[x] \in F \ {r} => lock'[x] \in F
  BY <1>1, NamesAssumption DEF Others, Enders
<1>4. ASSUME NEW w \in Request \ {r}, NEW x \in req[w].todo, disk' = disk,
             lock[x] \notin F \ {r}, lock'[x] # r, Unrevoked(disk[x]), disk[x].family = disk[t].family
      PROVE  \E y \in req[w].todo : Escapes(y, F)' /\ disk'[y].family = disk[t].family
  <2>1. x \in Token
    BY DEF AimsInv, TodoOK, LineageInv, TypeOK
  <2>2. lock'[x] \notin F
    BY <1>1, <1>4, <2>1, NamesAssumption DEF Others, Enders
  <2> QED  BY <1>4, <2>2 DEF Escapes
<1>5. CASE ReadFamilies(r)
  <2> DEFINE A == {disk[x].family : x \in {y \in Token : OnAccount(r, disk[y])}}
             q == [req[r] EXCEPT !.pc = "allPass", !.fams = A]
             G == F \ {r}
  <2>1. /\ req'[r] = q /\ q.pc = "allPass" /\ q.fams = A /\ q.row = req[r].row /\ q.at = req[r].at
        /\ q.todo = req[r].todo /\ req[r].pc = "families"
    BY <1>1, <1>5 DEF ReadFamilies, RequestRecord
  <2>2. disk' = disk /\ lock' = lock /\ req[r].todo = {} /\ \A x \in Token : lock[x] # r
    BY <1>1, <2>1, <1>5, HoldsNothing DEF ReadFamilies, db, TodoOK, LineageInv, Sweeping, Recovering
  <2>3. ~Revoking(r) /\ ~Revoking(r)'
    BY <1>1, <2>1 DEF Revoking, EndingAll
  <2> HIDE DEF A, q
  <2>4. ASSUME c = r PROVE Chaser(t, F)'
    <3>1. disk'[t].family \in req'[r].fams
      BY <2>1, <2>2, <2>3, <2>4 DEF InCharge
    <3>2. OnAccount(r, disk[t])'
      BY <1>1, <3>1 DEF AimOK, OnAccount, Escapes
    <3> QED  BY <2>1, <3>2 DEF Chaser, Minds, Pending
  <2>5. ChasedBy(G) /\ F \ {r} = G \ {r} /\ Escapes(t, G)
    BY <1>2, <2>2 DEF Chased, Escapes, Enders
  <2>6. ~Minds(r, t, G)
    BY <2>3 DEF Minds
  <2>7. ASSUME NEW w \in Request \ {r}, NEW x \in req[w].todo, Escapes(x, G), disk[x].family = disk[t].family
        PROVE  \E y \in req[w].todo : Escapes(y, F)' /\ disk'[y].family = disk[t].family
    <3>1. x \in Token
      BY DEF AimsInv, TodoOK, LineageInv, TypeOK
    <3> QED  BY <1>4, <2>2, <2>7, <3>1 DEF Escapes
  <2> HIDE DEF G
  <2>8. disk[t].family = disk'[t].family /\ disk[t].expiresAt = disk'[t].expiresAt
    BY <2>2
  <2> QED  BY <1>1, <2>4, <2>5, <2>6, <2>7, <2>8, Chase
<1>6. ASSUME disk' = disk, r \in Enders, \A x \in Token : lock[x] = r => lock'[x] = r,
             InCharge(r, disk[t].family, F)' => InCharge(r, disk[t].family, F) \/ Chaser(t, F)',
             Minds(r, t, F) /\ Pending(r, t, F) => Chaser(t, F)',
             \A x \in Token : lock'[x] = r /\ lock[x] # r /\ disk[x].family = disk[t].family => Chaser(t, F)'
      PROVE  Chaser(t, F)'
  <2>1. ChasedBy(F)
    BY <1>2, <1>6 DEF Chased, Enders
  <2>2. Escapes(t, F)
    BY <1>3, <1>6 DEF Escapes
  <2>3. ASSUME NEW w \in Request \ {r}, NEW x \in req[w].todo, Escapes(x, F), disk[x].family = disk[t].family
        PROVE  (\E y \in req[w].todo : Escapes(y, F)' /\ disk'[y].family = disk[t].family) \/ Chaser(t, F)'
    <3>1. x \in Token
      BY DEF AimsInv, TodoOK, LineageInv, TypeOK
    <3>2. lock[x] \notin F /\ lock[x] # r /\ Unrevoked(disk[x])
      BY <2>3 DEF Escapes
    <3> QED  BY <1>4, <1>6, <2>3, <3>1, <3>2
  <2>4. disk[t].family = disk'[t].family /\ disk[t].expiresAt = disk'[t].expiresAt
    BY <1>6
  <2> QED  BY <1>1, <1>6, <2>1, <2>2, <2>3, <2>4, Chase
<1>7. CASE StartAllPass(r)
  <2> DEFINE T == {x \in Token : OnAccount(r, View(r, x))}
             q == [req[r] EXCEPT !.pc = "allSweep", !.todo = T, !.hit = FALSE]
  <2>1. req'[r] # IdleRequest
    BY <1>1 DEF EndingAll, IdleRequest, NewRequest
  <2>2. req'[r] = q /\ UNCHANGED db /\ req[r].pc = "allPass"
    BY <1>1, <1>7, <2>1 DEF StartAllPass, Finish
  <2>3. q.pc = "allSweep" /\ q.todo = T /\ q.row = req[r].row /\ q.at = req[r].at /\ q.fams = req[r].fams
    BY <1>1 DEF RequestRecord
  <2>4. disk' = disk /\ lock' = lock /\ lock[t] # r
    BY <2>2 DEF db, Escapes
  <2>5. OnAccount(r, disk[t]) => t \in T
    BY <2>4 DEF View
  <2>6. ASSUME NEW x \in T PROVE disk[x].family # req[r].row.family /\ disk[x].expiresAt > req[r].at
    <3>1. x \in Token /\ OnAccount(r, View(r, x))
      BY <2>6
    <3>2. CASE lock[x] = r
      <4>1. LockOK(x) /\ ~Free(x)
        BY <1>1, <3>1, <3>2 DEF LineageInv, LocksOK, Free
      <4>2. draft[x] = [disk[x] EXCEPT !.revoked = TRUE]
        BY <2>2, <3>2, <4>1 DEF LockOK, Recovering
      <4> QED  BY <1>1, <3>1, <3>2, <4>2 DEF View, Row, OnAccount
    <3>3. CASE lock[x] # r
      BY <3>1, <3>3 DEF View, OnAccount
    <3> QED  BY <3>2, <3>3
  <2>7. (\E x \in T : disk[x].family = disk[t].family) => OnAccount(r, disk[t])
    BY <2>4, <2>6 DEF OnAccount, Escapes, ExpiryInv, FamilyExpiresTogether
  <2> HIDE DEF q, T
  <2>8. OnAccount(r, disk[t]) => Chaser(t, F)'
    BY <2>2, <2>3, <2>4, <2>5 DEF Chaser, Minds, Pending, OnAccount
  <2>9. ~Revoking(r) /\ ~Revoking(r)' /\ r \in Enders
    BY <2>2, <2>3 DEF Revoking, Enders, EndingAll
  <2>10. InCharge(r, disk[t].family, F)' => InCharge(r, disk[t].family, F) \/ Chaser(t, F)'
    BY <2>2, <2>3, <2>4, <2>7, <2>8, <2>9 DEF InCharge
  <2> QED  BY <1>6, <2>4, <2>8, <2>9, <2>10 DEF Minds
<1>8. CASE EndAllPass(r)
  <2> DEFINE q == [req[r] EXCEPT !.pc = "allPass", !.todo = {}, !.hit = FALSE]
  <2>1. req'[r] # IdleRequest
    BY <1>1 DEF EndingAll, IdleRequest, NewRequest
  <2>2. req'[r] = q /\ UNCHANGED db /\ req[r].pc = "allSweep"
    BY <1>1, <1>8, <2>1 DEF EndAllPass, Finish, Goto
  <2>3. q.pc = "allPass" /\ q.todo = {} /\ q.row = req[r].row /\ q.at = req[r].at /\ q.fams = req[r].fams
    BY <1>1 DEF RequestRecord
  <2>4. disk' = disk /\ lock' = lock
    BY <2>2 DEF db
  <2> HIDE DEF q
  <2>5. ~Revoking(r) /\ ~Revoking(r)' /\ r \in Enders
    BY <2>2, <2>3 DEF Revoking, Enders, EndingAll
  <2>6. Minds(r, t, F) => Chaser(t, F)'
    BY <2>2, <2>3, <2>4, <2>5 DEF Chaser, Minds, Pending, OnAccount
  <2>7. InCharge(r, disk[t].family, F)' => InCharge(r, disk[t].family, F)
    BY <2>2, <2>3, <2>4, <2>5 DEF InCharge
  <2> QED  BY <1>6, <2>4, <2>5, <2>6, <2>7
<1>9. ASSUME NEW y \in Token, SweepRow(r, y) PROVE Chaser(t, F)'
  <2> DEFINE hit == [req[r] EXCEPT !.todo = @ \ {y}, !.hit = TRUE]
             miss == [req[r] EXCEPT !.todo = @ \ {y}]
  <2>1. ASSUME NEW q \in {hit, miss}
        PROVE  /\ q.pc = req[r].pc /\ q.row = req[r].row /\ q.at = req[r].at /\ q.fams = req[r].fams
               /\ q.todo = req[r].todo \ {y} /\ (q = hit => q.hit) /\ (q = miss => q.hit = req[r].hit)
    BY <1>1 DEF RequestRecord
  <2> HIDE DEF hit, miss
  <2>2. PICK q \in {hit, miss} : req'[r] = q
    BY <1>1, <1>9 DEF SweepRow, hit, miss
  <2>3. req[r].pc = "allSweep" /\ y \in req[r].todo /\ disk' = disk
    BY <1>1, <1>9, <2>1, <2>2 DEF SweepRow, EndingAll, Write, db
  <2>4. ~Revoking(r) /\ ~Revoking(r)' /\ r \in Enders
    BY <2>1, <2>2, <2>3 DEF Revoking, Enders, EndingAll
  <2>5. CASE OnAccount(r, disk[y])
    <3>1. Put(r, hit) /\ lock' = [lock EXCEPT ![y] = r]
      BY <1>9, <2>3, <2>5 DEF SweepRow, Matches, Write, hit
    <3>2. req'[r].hit /\ \A x \in Token : lock'[x] = IF x = y THEN r ELSE lock[x]
      BY <1>1, <2>1, <3>1 DEF LineageInv, TypeOK
    <3>3. OnAccount(r, disk[t]) => Chaser(t, F)'
      BY <2>1, <2>2, <2>3, <3>2 DEF Chaser, Minds, Pending, OnAccount
    <3>4. disk[y].family = disk[t].family => Chaser(t, F)'
      <4>1. disk[y].family = disk[t].family => OnAccount(r, disk[t])
        BY <2>3, <2>5 DEF OnAccount, Escapes, ExpiryInv, FamilyExpiresTogether
      <4> QED  BY <3>3, <4>1
    <3>5. InCharge(r, disk[t].family, F)' => InCharge(r, disk[t].family, F)
      BY <2>1, <2>2, <2>3, <2>4, <3>2 DEF InCharge
    <3>6. Minds(r, t, F) => Chaser(t, F)'
      BY <2>4, <3>3 DEF Minds
    <3> QED  BY <1>6, <2>3, <2>4, <3>2, <3>4, <3>5, <3>6
  <2>6. CASE ~OnAccount(r, disk[y])
    <3>1. Put(r, miss) /\ lock' = lock
      BY <1>9, <2>3, <2>6 DEF SweepRow, Matches, db, miss
    <3>2. req'[r].hit = req[r].hit /\ req'[r].todo = req[r].todo \ {y}
      BY <1>1, <2>1, <3>1
    <3>3. ~Unrevoked(disk[y])
      BY <1>1, <2>3, <2>6 DEF TodoOK, OnAccount, Unrevoked
    <3>4. ASSUME Minds(r, t, F), Pending(r, t, F) PROVE Chaser(t, F)'
      <4>1. Minds(r, t, F)'
        BY <2>1, <2>2, <2>3, <2>4, <3>4 DEF Minds, OnAccount
      <4>2. \A x \in req[r].todo : Escapes(x, F) => x \in req'[r].todo /\ Escapes(x, F)'
        BY <2>3, <3>1, <3>2, <3>3 DEF Escapes, Unrevoked, Exists
      <4>3. Pending(r, t, F)'
        BY <2>3, <3>2, <3>4, <4>2 DEF Pending
      <4> QED  BY <4>1, <4>3 DEF Chaser
    <3>5. InCharge(r, disk[t].family, F)' => InCharge(r, disk[t].family, F)
      BY <2>1, <2>2, <2>3, <2>4, <3>1 DEF InCharge
    <3> QED  BY <1>6, <2>3, <2>4, <3>1, <3>4, <3>5
  <2> QED  BY <2>5, <2>6
<1>10. ReadFamilies(r) \/ StartAllPass(r) \/ EndAllPass(r) \/ (\E y \in Token : SweepRow(r, y))
  <2>1. ASSUME StartRevokePass(r) PROVE FALSE
    <3> DEFINE T == {x \in Token : InFamily(r, disk[x])}
               q == [req[r] EXCEPT !.pc = "revokeSweep", !.todo = T, !.hit = FALSE]
    <3>1. req'[r] \in {q, IdleRequest, NewRequest("refused", "get", NoToken)}
      BY <1>1, <2>1 DEF StartRevokePass, EndRevoke, Finish, Refuse
    <3>2. q.pc = "revokeSweep" /\ IdleRequest.pc = "idle" /\ NewRequest("refused", "get", NoToken).pc = "refused"
      BY <1>1 DEF RequestRecord, IdleRequest, NewRequest
    <3> HIDE DEF q
    <3> QED  BY <1>1, <3>1, <3>2 DEF EndingAll
  <2> QED  BY <1>1, <2>1, NextStatement DEF EndingAll
<1> QED  BY <1>5, <1>7, <1>8, <1>9, <1>10


LEMMA NextChased ==
  ASSUME LineageInv, LineageInv', ExpiryInv, RevokeInv, AimsInv', [LastingNext]_vars
  PROVE  Chased'
<1>1. AimsInv /\ Chased /\ \A r \in Request : Gaps(r)
  BY DEF RevokeInv
<1>2. CASE (\E t \in Token : SignIn(t) \/ Prune(t)) \/ Tick \/ DeleteUser
  BY <1>1, <1>2, ChaseAround
<1>3. ASSUME NEW r \in Request, Handle(r) PROVE Chased'
  <2> SUFFICES ASSUME NEW F \in SUBSET Enders' PROVE ChasedBy(F)'
    BY DEF Chased
  <2>1. CASE \E u \in Token : Mint(r, u)
    BY <1>1, <2>1, ChaseMint
  <2>2. CASE (StartAllPass(r) \/ EndAllPass(r)) /\ disk' # disk
    <3>1. Commit(r) /\ Finish(r) /\ EndingAll(r)
      BY <2>2 DEF StartAllPass, EndAllPass, db, EndingAll
    <3>2. req[r].pc = "allPass" => \A x \in Token : ~OnAccount(r, View(r, x))
      BY <2>2 DEF StartAllPass, EndAllPass, db
    <3>3. req[r].pc = "allSweep" => ~req[r].hit /\ req[r].todo = {}
      BY <2>2 DEF StartAllPass, EndAllPass, db
    <3> QED  BY <1>1, <1>3, <3>1, <3>2, <3>3, ChaseCommit
  <2>3. CASE r \in F
    BY <1>1, <1>3, <2>3, ChaseForeseen
  <2> QED  BY <1>1, <1>3, <2>1, <2>2, <2>3, ChaseHandle
<1>4. ASSUME NEW r \in Request,
             \/ ~Revoking(r) /\ (Fail(r) \/ DeadlockVictim(r))
             \/ \E k \in Kinds, t \in Token : Call(r, k, t)
      PROVE  Chased'
  BY <1>1, <1>4, ChaseArrival
<1>5. CASE UNCHANGED vars
  <2> SUFFICES ASSUME NEW F \in SUBSET Enders', NEW t \in Token, Escapes(t, F)', disk'[t].expiresAt > now',
                      NEW c \in Request, InCharge(c, disk[t].family, F)'
               PROVE  Chaser(t, F)'
    BY DEF Chased, ChasedBy
  <2>1. disk' = disk /\ lock' = lock /\ req' = req /\ now' = now
    BY <1>5 DEF vars
  <2>2. F \in SUBSET Enders
    BY <2>1 DEF Enders, EndingAll
  <2>3. \A x \in Token : Escapes(x, F)' <=> Escapes(x, F)
    BY <2>1 DEF Escapes
  <2>4. InCharge(c, disk[t].family, F)
    BY <2>1 DEF InCharge, Revoking
  <2>5. PICK w \in Request : Minds(w, t, F) /\ Pending(w, t, F)
    BY <1>1, <2>1, <2>2, <2>3, <2>4 DEF Chased, ChasedBy, Chaser
  <2>6. Minds(w, t, F)'
    BY <2>1, <2>5 DEF Minds, Revoking, OnAccount, Unrevoked, Exists
  <2>7. Pending(w, t, F)'
    BY <2>1, <2>5 DEF Pending, Escapes, Unrevoked, Exists
  <2> QED  BY <2>6, <2>7 DEF Chaser
<1> QED  BY <1>2, <1>3, <1>4, <1>5 DEF LastingNext

LEMMA InitRevoke == Init => RevokeInv
<1> SUFFICES ASSUME Init PROVE RevokeInv
  OBVIOUS
<1>1. /\ \A t \in Token : disk[t] = NoRow /\ lock[t] = NoRequest
      /\ \A r \in Request : req[r] = IdleRequest
  BY DEF Init
<1>2. ~Unrevoked(NoRow) /\ ~Exists(NoRow) /\ IdleRequest.pc = "idle" /\ IdleRequest.todo = {}
  BY DEF Unrevoked, Exists, NoRow, IdleRequest, NewRequest
<1>3. AimsInv
  BY <1>1, <1>2 DEF AimsInv, RetiredLater, Retired, HolderOK, Free, TodoOK, AimOK, AgedOK, EndingAll, Recovering
<1>4. \A r \in Request : Gaps(r)
  BY <1>1, <1>2 DEF Gaps, Sweeps
<1>5. Chased
  BY <1>1, <1>2 DEF Chased, ChasedBy, Escapes
<1> QED  BY <1>3, <1>4, <1>5 DEF RevokeInv

\* While no revoker dies between its passes, those in charge of a family are never
\* done as long as it has a usable row.
THEOREM RevokersChase == LastingSpec => [](LineageInv /\ RevokeInv)
<1>1. [LastingNext]_vars => [Next]_vars
  BY DEF LastingNext, Next
<1>2. LineageInv /\ LineageInv' /\ ExpiryInv /\ RevokeInv /\ [LastingNext]_vars => RevokeInv'
  <2> SUFFICES ASSUME LineageInv, LineageInv', ExpiryInv, RevokeInv, [LastingNext]_vars PROVE RevokeInv'
    OBVIOUS
  <2>1. AimsInv /\ \A r \in Request : Gaps(r)
    BY DEF RevokeInv
  <2>2. AimsInv'
    BY <2>1, NextAims
  <2>3. \A r \in Request : Gaps(r)'
    BY <2>1, NextGaps
  <2>4. Chased'
    BY <2>2, NextChased
  <2> QED  BY <2>2, <2>3, <2>4 DEF RevokeInv
<1>3. LastingSpec => Spec
  BY <1>1, PTL DEF LastingSpec, Spec
<1>4. LastingSpec => []LineageInv /\ []ExpiryInv
  BY <1>3, LineageCorrect, ExpiryKept, PTL
<1> QED  BY <1>2, <1>4, InitRevoke, PTL DEF LastingSpec

\* A sign-out or an alarm that returns (revokeSessionFamily) leaves no usable row of
\* the family unless another request is in its passes over it: whatever escaped its
\* last pass, the one that let it escape is still to come back for.
THEOREM RevokersEndFamilies == LastingSpec => RevokeEndsFamily
<1> DEFINE Promised == \A r \in Request : RevokeReturns(r) /\ Usable(req[r].row.family, disk') =>
                         \E s \in Request \ {r} : Revoking(s) /\ req[s].row.family = req[r].row.family
<1>1. LineageInv /\ RevokeInv /\ LineageInv' /\ [LastingNext]_vars => [Promised]_vars
  <2> SUFFICES ASSUME LineageInv, RevokeInv, LineageInv', NEW r \in Request, RevokeReturns(r),
                      Usable(req[r].row.family, disk')
               PROVE  \E s \in Request \ {r} : Revoking(s) /\ req[s].row.family = req[r].row.family
    OBVIOUS
  <2> DEFINE f == req[r].row.family
  <2>1. Handle(r) /\ Revoking(r) /\ req'[r].pc \in Ended
    BY DEF RevokeReturns, Handle, StartRevokePass, EndRevokePass, Revoking
  <2>2. req[r] \in RequestRecord /\ \A q : Put(r, q) => req'[r] = q
    BY <2>1, HandleIsBusy, Busy
  <2>3. PICK t \in Token : Unrevoked(disk'[t]) /\ disk'[t].family = f /\ disk'[t].expiresAt > now
    BY DEF Usable
  <2>4. disk'[t] = disk[t]
    <3>1. CASE StartRevokePass(r)
      BY <3>1 DEF StartRevokePass, db
    <3>2. CASE EndRevokePass(r)
      <4>1. disk[t] \in Row
        BY DEF LineageInv, TypeOK
      <4> QED  BY <2>3, <3>2, <4>1, RevokeCommit DEF EndRevokePass, Unrevoked, Row
    <3> QED  BY <3>1, <3>2 DEF RevokeReturns
  <2>5. PICK w \in Request : Minds(w, t, {}) /\ Pending(w, t, {})
    <3>1. ChasedBy({})
      BY DEF RevokeInv, Chased
    <3>2. Escapes(t, {}) /\ InCharge(r, disk[t].family, {})
      BY <2>1, <2>3, <2>4 DEF Escapes, InCharge
    <3> QED  BY <2>3, <2>4, <3>1, <3>2 DEF ChasedBy, Chaser
  <2>6. w # r
    <3> SUFFICES ASSUME w = r PROVE FALSE
      OBVIOUS
    <3>1. CASE StartRevokePass(r)
      <4> DEFINE T == {x \in Token : InFamily(r, disk[x])}
                 q == [req[r] EXCEPT !.pc = "revokeSweep", !.todo = T, !.hit = FALSE]
      <4>1. t \in T
        BY <2>3, <2>4 DEF InFamily
      <4>2. req'[r] = q /\ q.pc = "revokeSweep"
        BY <2>2, <3>1, <4>1 DEF StartRevokePass, RequestRecord
      <4> HIDE DEF q
      <4> QED  BY <2>1, <4>2 DEF Ended
    <3>2. CASE EndRevokePass(r)
      <4>1. req[r].hit /\ Goto(r, "revoke")
        BY <2>5, <3>2 DEF EndRevokePass, Pending
      <4> DEFINE q == [req[r] EXCEPT !.pc = "revoke", !.todo = {}, !.hit = FALSE]
      <4>2. req'[r] = q /\ q.pc = "revoke"
        BY <2>2, <4>1, GotoFields DEF Goto
      <4> HIDE DEF q
      <4> QED  BY <2>1, <4>2 DEF Ended
    <3> QED  BY <3>1, <3>2 DEF RevokeReturns
  <2> QED  BY <2>3, <2>4, <2>5, <2>6 DEF Minds
<1> QED  BY <1>1, RevokersChase, PTL DEF LastingSpec, RevokeEndsFamily

\* revokeAllSessions, when it commits, ends every family it counted, with the same
\* exception, and touches no row of the family it keeps.
THEOREM EverywhereEndsCounted == LastingSpec => RevokeAllEndsCounted
<1> DEFINE Promised == \A r \in Request : AllReturns(r) =>
                         /\ \A f \in req[r].fams : Usable(f, disk') =>
                              \E s \in Request \ {r} : Revoking(s) /\ req[s].row.family = f
                         /\ \A t \in Token : disk'[t] # disk[t] => disk[t].family # req[r].row.family
<1>1. LineageInv /\ RevokeInv /\ LineageInv' /\ [LastingNext]_vars => [Promised]_vars
  <2> SUFFICES ASSUME LineageInv, RevokeInv, LineageInv', NEW r \in Request, AllReturns(r)
               PROVE  /\ \A f \in req[r].fams : Usable(f, disk') =>
                           \E s \in Request \ {r} : Revoking(s) /\ req[s].row.family = f
                      /\ \A t \in Token : disk'[t] # disk[t] => disk[t].family # req[r].row.family
    OBVIOUS
  <2>1. Handle(r) /\ EndingAll(r) /\ req'[r].pc \in Ended
    BY DEF AllReturns, Handle, StartAllPass, EndAllPass, EndingAll
  <2>2. req[r] \in RequestRecord /\ (\A q : Put(r, q) => req'[r] = q) /\ r # NoRequest
    BY <2>1, HandleIsBusy, Busy, NamesAssumption
  <2>3. /\ Commit(r)
        /\ req[r].pc = "allPass" => \A x \in Token : ~OnAccount(r, View(r, x))
        /\ req[r].pc = "allSweep" => ~req[r].hit /\ req[r].todo = {}
    <3>1. CASE StartAllPass(r)
      <4> DEFINE T == {x \in Token : OnAccount(r, View(r, x))}
                 q == [req[r] EXCEPT !.pc = "allSweep", !.todo = T, !.hit = FALSE]
      <4>1. q.pc = "allSweep"
        BY <2>2 DEF RequestRecord
      <4>2. ~Put(r, q)
        BY <2>1, <2>2, <4>1 DEF Ended
      <4> HIDE DEF q
      <4> QED  BY <3>1, <4>2 DEF StartAllPass, q
    <3>2. CASE EndAllPass(r)
      <4>1. Goto(r, "allPass") => req'[r].pc = "allPass"
        BY <2>2 DEF Goto, RequestRecord
      <4> QED  BY <2>1, <3>2, <4>1 DEF EndAllPass, Ended
    <3> QED  BY <3>1, <3>2 DEF AllReturns
  <2>4. \A x \in Token : disk'[x] = IF lock[x] = r THEN draft[x] ELSE disk[x]
    BY <2>3 DEF Commit, View
  <2>5. ASSUME NEW x \in Token, lock[x] = r PROVE ~Unrevoked(disk'[x]) /\ disk[x].family # req[r].row.family
    <3>1. LockOK(x) /\ ~Free(x) /\ disk[x] \in Row /\ HolderOK(x)
      BY <2>2, <2>5 DEF LineageInv, TypeOK, LocksOK, Free, RevokeInv, AimsInv
    <3>2. draft[x] = [disk[x] EXCEPT !.revoked = TRUE]
      BY <2>1, <2>5, <3>1 DEF LockOK, EndingAll, Recovering
    <3>3. OnAccount(r, disk[x])
      BY <2>1, <2>5, <3>1 DEF HolderOK, EndingAll
    <3> QED  BY <2>4, <2>5, <3>1, <3>2, <3>3 DEF Unrevoked, Row, OnAccount
  <2>6. ASSUME NEW f \in req[r].fams, Usable(f, disk')
        PROVE  \E s \in Request \ {r} : Revoking(s) /\ req[s].row.family = f
    <3>1. PICK t \in Token : Unrevoked(disk'[t]) /\ disk'[t].family = f /\ disk'[t].expiresAt > now
      BY <2>6 DEF Usable
    <3>2. lock[t] # r /\ disk'[t] = disk[t]
      BY <2>4, <2>5, <3>1
    <3>3. PICK w \in Request : Minds(w, t, {r}) /\ Pending(w, t, {r})
      <4>1. ChasedBy({r})
        BY <2>1 DEF RevokeInv, Chased, Enders
      <4>2. Escapes(t, {r}) /\ InCharge(r, disk[t].family, {r})
        BY <2>6, <3>1, <3>2 DEF Escapes, InCharge
      <4> QED  BY <3>1, <3>2, <4>1, <4>2 DEF ChasedBy, Chaser
    <3>4. w # r
      <4> SUFFICES ASSUME w = r PROVE FALSE
        OBVIOUS
      <4>1. ~Revoking(r)
        BY <2>1 DEF EndingAll, Revoking
      <4>2. OnAccount(r, View(r, t))
        BY <3>2, <3>3, <4>1 DEF Minds, View
      <4> QED  BY <2>1, <2>3, <3>3, <4>2 DEF EndingAll, Pending
    <3> QED  BY <3>1, <3>2, <3>3, <3>4 DEF Minds
  <2> QED  BY <2>4, <2>5, <2>6
<1> QED  BY <1>1, RevokersChase, PTL DEF LastingSpec, RevokeAllEndsCounted
=============================================================================
