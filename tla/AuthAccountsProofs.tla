------------------------- MODULE AuthAccountsProofs -------------------------
(***************************************************************************)
(* Proofs about AuthAccounts for every set of accounts, requests,          *)
(* addresses, passwords and releases.                                      *)
(***************************************************************************)
EXTENDS AuthAccounts, TLAPS

----------------------------------------------------------------------------
(***************************************************************************)
(* Records.                                                                *)
(***************************************************************************)
\* Under way, answered and free requests are told apart by their pc.
LEMMA Kinds3 ==
  ASSUME NEW q \in {NoRequest} \cup InFlight \cup Reply
  PROVE  /\ q.pc \in {"create", "reload", "find", "rehash", "issue", "answer"} => q \in InFlight
         /\ q.pc = "done" => q \in Reply
         /\ q.pc = "free" => q = NoRequest
BY DEF NoRequest, InFlight, Reply

\* What a request in flight consists of.
LEMMA InFlightFields ==
  ASSUME NEW q \in InFlight
  PROVE  /\ q.asked \in Asked /\ q.asked.email \in Spelling /\ q.asked.pw \in Password
         /\ q.set \in Release /\ q.account \in Account \cup {NoAccount} /\ q.row \in Row
         /\ q.kind \in Kinds
BY DEF InFlight, Asked

\* NoRow is the only row that is not there.
LEMMA RowFields ==
  ASSUME NEW row \in Row
  PROVE  /\ row.there \in BOOLEAN
         /\ row.there => row \in Stored /\ OneRelease(row)
         /\ ~row.there => row = NoRow
<1>1. CASE row = NoRow
  <2>1. row.there = FALSE
    BY <1>1 DEF NoRow
  <2> QED
    BY <1>1, <2>1
<1>2. CASE row # NoRow
  <2>1. row \in Stored /\ OneRelease(row)
    BY <1>2 DEF Row
  <2>2. row.there = TRUE
    BY <2>1 DEF Stored
  <2> QED
    BY <2>1, <2>2
<1> QED
  BY <1>1, <1>2

\* A new row.
LEMMA NewRowType ==
  ASSUME NEW e \in Spelling, NEW p \in Password, NEW s \in Release
  PROVE  /\ UserRow(e, p, s) \in Row /\ UserRow(e, p, s).there /\ ~UserRow(e, p, s).deleted
         /\ UserRow(e, p, s).hash.pw = p /\ UserRow(e, p, s).email = e
BY DEF UserRow, Hash, Row, Stored, OneRelease

\* A row whose hash and scheme are replaced together, and a deleted one.
LEMMA RowRewritten ==
  ASSUME NEW row \in Row, row.there, NEW p \in Password, NEW s \in Release
  PROVE  /\ [row EXCEPT !.hash = Hash(p, s.cost), !.scheme = s.scheme] \in Row
         /\ [row EXCEPT !.deleted = TRUE] \in Row
<1>1. row \in Stored /\ OneRelease(row)
  BY RowFields
<1>2. [row EXCEPT !.hash = Hash(p, s.cost), !.scheme = s.scheme] \in Stored
  BY <1>1 DEF Stored, Hash
<1>3. OneRelease([row EXCEPT !.hash = Hash(p, s.cost), !.scheme = s.scheme])
  BY <1>1 DEF Stored, OneRelease, Hash
<1>4. [row EXCEPT !.deleted = TRUE] \in Stored /\ OneRelease([row EXCEPT !.deleted = TRUE])
  BY <1>1 DEF Stored, OneRelease
<1> QED
  BY <1>2, <1>3, <1>4 DEF Row

\* Requests as they arrive, go on and end.
LEMMA ArrivalType ==
  ASSUME TypeOK, AccountsAssumption, NEW kind \in Kinds, NEW asked \in Asked
  PROVE  Arrival(kind, asked) \in InFlight
BY DEF Arrival, InFlight, TypeOK, Row, Kinds

LEMMA GotoType ==
  ASSUME NEW q \in InFlight, NEW pc \in {"create", "reload", "find", "rehash", "issue", "answer"}
  PROVE  [q EXCEPT !.pc = pc, !.row = NoRow] \in InFlight
BY DEF InFlight, Row

LEMMA AnsweredType ==
  ASSUME NEW q \in InFlight,
         NEW answer \in {"OK", "ERROR", "CONSENT_REQUIRED", "INVALID_CREDENTIALS",
                          "EMAIL_ALREADY_REGISTERED", "ACCOUNT_NOT_FOUND"}
  PROVE  Answered(q, answer) \in Reply
BY DEF InFlight, Reply, Answered

\* normalizeEmail leaves a stored address alone and tells two addresses apart.
LEMMA Normalized ==
  ASSUME NEW s \in Spelling
  PROVE  /\ normalizeEmail(s) \in Spelling /\ normalizeEmail(s)[2] = "plain"
         /\ \A t \in Spelling : s[2] = "plain" /\ t[2] = "plain" /\ s[1] = t[1] => s = t
BY DEF Spelling, normalizeEmail

----------------------------------------------------------------------------
(***************************************************************************)
(* Types.                                                                  *)
(***************************************************************************)
LEMMA TypeInit == Init /\ AccountsAssumption => TypeOK
BY DEF Init, TypeOK, AccountsAssumption, Row

\* The users table under the two statements that write it for a request.
LEMMA WritesType ==
  ASSUME TypeOK, NEW r \in Request
  PROVE  /\ \A a \in Account : Insert(r, a) => /\ users' \in [Account -> Row]
                                             /\ chosen' \in [Account -> Password \cup {Nothing.pw}]
         /\ VerifiedRow /\ req[r].pc = "rehash" /\ WriteHash(req[r]) => users' \in [Account -> Row]
<1>1. ASSUME NEW a \in Account, Insert(r, a)
      PROVE  users' \in [Account -> Row] /\ chosen' \in [Account -> Password \cup {Nothing.pw}]
  <2>1. req[r] \in InFlight
    BY <1>1, Kinds3 DEF Insert, TypeOK
  <2>2. UserRow(req[r].asked.email, req[r].asked.pw, req[r].set) \in Row /\ req[r].asked.pw \in Password
    BY <2>1, InFlightFields, NewRowType
  <2> QED
    BY <1>1, <2>2 DEF Insert, TypeOK
<1>2. ASSUME VerifiedRow, req[r].pc = "rehash", WriteHash(req[r])
      PROVE  users' \in [Account -> Row]
  <2> DEFINE q == req[r]
  <2>1. q \in InFlight
    BY <1>2, Kinds3 DEF TypeOK
  <2>2. q.account \in Account /\ users[q.account].there /\ users[q.account] \in Row
    BY <1>2 DEF VerifiedRow, TypeOK
  <2>3. q.asked.pw \in Password /\ q.set \in Release
    BY <2>1, InFlightFields
  <2>4. [users[q.account] EXCEPT !.hash = Hash(q.asked.pw, q.set.cost), !.scheme = q.set.scheme] \in Row
    BY <2>2, <2>3, RowRewritten
  <2>5. users' = [users EXCEPT ![q.account] = [users[q.account] EXCEPT !.hash = Hash(q.asked.pw, q.set.cost),
                                                                     !.scheme = q.set.scheme]]
        \/ users' = users
    BY <1>2, <2>2 DEF WriteHash, TypeOK
  <2> QED
    BY <2>4, <2>5 DEF TypeOK
<1> QED
  BY <1>1, <1>2

LEMMA TypeStep ==
  ASSUME TypeOK, VerifiedRow, AccountsAssumption, [Next]_vars
  PROVE  TypeOK'
<1> DEFINE Reqs == {NoRequest} \cup InFlight \cup Reply
<1> USE DEF TypeOK
<1>1. ASSUME NEW r \in Request, Visit(r) PROVE TypeOK'
  <2>1. ASSUME NEW s \in Spelling, NEW p \in Password, Login(r, normalizeEmail(s), p) PROVE TypeOK'
    <3>1. [email |-> normalizeEmail(s), pw |-> p] \in Asked
      BY Normalized DEF Asked
    <3>2. Arrival("login", [email |-> normalizeEmail(s), pw |-> p]) \in InFlight
      BY <3>1, ArrivalType DEF Kinds
    <3> QED
      BY <2>1, <3>2 DEF Login
  <2>2. ASSUME NEW s \in Spelling, NEW p \in Password, NEW consent \in BOOLEAN,
               Register(r, normalizeEmail(s), p, consent)
        PROVE  TypeOK'
    <3> DEFINE q == Arrival("register", [email |-> normalizeEmail(s), pw |-> p])
    <3>1. [email |-> normalizeEmail(s), pw |-> p] \in Asked
      BY Normalized DEF Asked
    <3>2. q \in InFlight
      BY <3>1, ArrivalType DEF Kinds
    <3>3. Answered(q, "CONSENT_REQUIRED") \in Reply /\ Answered(q, "INVALID_CREDENTIALS") \in Reply
      BY <3>2, AnsweredType
    <3>4. \E x \in Reqs : req' = [req EXCEPT ![r] = x]
      BY <2>2, <3>2, <3>3 DEF Register
    <3> QED
      BY <2>2, <3>4 DEF Register
  <2> QED
    BY <1>1, <2>1, <2>2 DEF Visit
<1>2. ASSUME NEW r \in Request, NEW pc \in {"reload", "issue", "answer"}, req[r] \in InFlight, Goto(r, pc)
      PROVE  req' \in [Request -> Reqs]
  <2>1. [req[r] EXCEPT !.pc = pc, !.row = NoRow] \in InFlight
    BY <1>2, GotoType
  <2>2. req' = [req EXCEPT ![r] = [req[r] EXCEPT !.pc = pc, !.row = NoRow]]
    BY <1>2 DEF Goto
  <2> QED
    BY <2>1, <2>2
<1>3. ASSUME NEW r \in Request, req[r] \in InFlight,
             NEW answer \in {"OK", "ERROR", "INVALID_CREDENTIALS", "EMAIL_ALREADY_REGISTERED",
                              "ACCOUNT_NOT_FOUND"},
             Done(r, answer)
      PROVE  req' \in [Request -> Reqs]
  BY <1>3, AnsweredType DEF Done
<1>4. ASSUME NEW r \in Request, req[r].pc \in {"create", "reload", "find", "rehash", "issue", "answer"}
      PROVE  req[r] \in InFlight
  BY <1>4, Kinds3
<1>5. ASSUME NEW r \in Request, NEW a \in Account, Create(r, a) PROVE TypeOK'
  <2>1. req[r] \in InFlight /\ Insert(r, a)
    BY <1>4, <1>5 DEF Create, Insert
  <2>2. [req[r] EXCEPT !.pc = "reload", !.account = a] \in InFlight
    BY <2>1 DEF InFlight
  <2>3. req' = [req EXCEPT ![r] = [req[r] EXCEPT !.pc = "reload", !.account = a]]
    BY <1>5 DEF Create
  <2> QED
    BY <1>5, <2>1, <2>2, <2>3, WritesType DEF Create
<1>6. ASSUME NEW r \in Request, CreateRefused(r) \/ Reload(r) \/ Answer(r) PROVE TypeOK'
  BY <1>2, <1>3, <1>4, <1>6 DEF CreateRefused, Reload, Answer
<1>7. ASSUME NEW r \in Request, Find(r) PROVE TypeOK'
  <2> DEFINE q == req[r]
  <2>1. q \in InFlight
    BY <1>4, <1>7 DEF Find
  <2>2. CASE Done(r, "INVALID_CREDENTIALS")
    BY <1>3, <1>7, <2>1, <2>2 DEF Find
  <2>3. ASSUME NEW a \in LiveAccounts,
               req' = [req EXCEPT ![r] = IF Stale(users[a], q.set)
                           THEN [q EXCEPT !.pc = "rehash", !.account = a, !.row = users[a]]
                           ELSE [q EXCEPT !.pc = "issue", !.account = a]]
        PROVE  TypeOK'
    <3>1. a \in Account /\ users[a] \in Row
      BY DEF LiveAccounts
    <3>2. /\ [q EXCEPT !.pc = "rehash", !.account = a, !.row = users[a]] \in InFlight
          /\ [q EXCEPT !.pc = "issue", !.account = a] \in InFlight
      BY <2>1, <3>1 DEF InFlight
    <3>3. req' \in [Request -> Reqs]
      BY <2>3, <3>2
    <3> QED
      BY <1>7, <3>3 DEF Find
  <2> QED
    BY <1>7, <2>2, <2>3 DEF Find
<1>8. ASSUME NEW r \in Request, Rehash(r) \/ RehashFails(r) PROVE TypeOK'
  <2>1. users' \in [Account -> Row]
    BY <1>8, WritesType DEF Rehash, RehashFails
  <2>2. req' \in [Request -> Reqs]
    BY <1>2, <1>4, <1>8 DEF Rehash, RehashFails
  <2> QED
    BY <1>8, <2>1, <2>2 DEF Rehash, RehashFails
<1>9. ASSUME NEW r \in Request, Issue(r) PROVE TypeOK'
  <2>1. req[r].account \in Account
    BY <1>9 DEF Issue, VerifiedRow
  <2>2. req' \in [Request -> Reqs]
    BY <1>2, <1>3, <1>4, <1>9 DEF Issue
  <2> QED
    BY <1>9, <2>1, <2>2 DEF Issue
<1>10. ASSUME NEW r \in Request, Fail(r) PROVE TypeOK'
  <2>1. req' \in [Request -> Reqs]
    BY <1>3, <1>4, <1>10 DEF Fail
  <2>2. users' \in [Account -> Row] /\ chosen' \in [Account -> Password \cup {Nothing.pw}]
    BY <1>10, WritesType DEF Fail
  <2>3. sessions' \subseteq Account
    BY <1>10 DEF Fail, VerifiedRow
  <2> QED
    BY <1>10, <2>1, <2>2, <2>3 DEF Fail
<1>11. ASSUME NEW r \in Request, Leave(r) PROVE TypeOK'
  BY <1>11 DEF Leave
<1>12. CASE Outside
  <2>1. ASSUME NEW a \in Account, Delete(a) PROVE TypeOK'
    <3>1. [users[a] EXCEPT !.deleted = TRUE] \in Row
      <4>1. PICK s \in Release : TRUE
        BY DEF AccountsAssumption
      <4>2. users[a] \in Stored
        BY <2>1, RowFields DEF Delete, Live
      <4>3. users[a].hash.pw \in Password
        BY <4>2 DEF Stored
      <4> QED
        BY <2>1, <4>1, <4>3, RowRewritten DEF Delete, Live
    <3> QED
      BY <2>1, <3>1 DEF Delete
  <2>2. ASSUME NEW a \in Account, NEW p \in Password, ChangePassword(a, p) PROVE TypeOK'
    <3>1. [users[a] EXCEPT !.hash = Hash(p, settings.cost), !.scheme = settings.scheme] \in Row
      BY <2>2, RowRewritten DEF ChangePassword, Live
    <3>2. users' = [users EXCEPT ![a] = [users[a] EXCEPT !.hash = Hash(p, settings.cost),
                                                        !.scheme = settings.scheme]]
      BY <2>2 DEF ChangePassword
    <3> QED
      BY <2>2, <3>1, <3>2 DEF ChangePassword
  <2>3. ASSUME NEW s \in Release, Deploy(s) PROVE TypeOK'
    BY <2>3 DEF Deploy
  <2> QED
    BY <1>12, <2>1, <2>2, <2>3 DEF Outside
<1>13. CASE UNCHANGED vars
  BY <1>13 DEF vars
<1> QED
  BY <1>1, <1>5, <1>6, <1>7, <1>8, <1>9, <1>10, <1>11, <1>12, <1>13 DEF Next, Step

----------------------------------------------------------------------------
(***************************************************************************)
(* The invariant.                                                          *)
(***************************************************************************)
\* Addresses are compared and stored as normalizeEmail leaves them.
PlainAddresses ==
  /\ \A a \in Account : users[a].there => users[a].email[2] = "plain"
  /\ \A r \in Request : req[r].pc = "create" => req[r].asked.email[2] = "plain"

AccountsInv == TypeOK /\ VerifiedRow /\ OpensWithOwnPassword /\ PlainAddresses /\ OneLiveAccount

\* What a step can do to the table: nothing, a new row, a guarded re-hash, a
\* changed password, a deletion.
Rewritten(a, p, s) ==
  [users EXCEPT ![a] = [users[a] EXCEPT !.hash = Hash(p, s.cost), !.scheme = s.scheme]]
UsersStep ==
  \/ UNCHANGED <<users, chosen>>
  \/ \E r \in Request, a \in Account : Insert(r, a)
  \/ /\ chosen' = chosen
     /\ \E r \in Request :
          /\ req[r].pc = "rehash" /\ Guarded(users[req[r].account], req[r].row)
          /\ users' = Rewritten(req[r].account, req[r].asked.pw, req[r].set)
  \/ \E a \in Account, p \in Password :
       /\ Live(a) /\ users' = Rewritten(a, p, settings) /\ chosen' = [chosen EXCEPT ![a] = p]
  \/ /\ chosen' = chosen
     /\ \E a \in Account : Live(a) /\ users' = [users EXCEPT ![a].deleted = TRUE]

LEMMA UsersSteps ==
  ASSUME TypeOK, VerifiedRow, [Next]_vars
  PROVE  UsersStep
<1>1. ASSUME NEW r \in Request, req[r].pc = "rehash", WriteHash(req[r]), chosen' = chosen PROVE UsersStep
  <2>1. req[r].account \in Account /\ users \in [Account -> Row]
    BY <1>1 DEF VerifiedRow, TypeOK
  <2>2. \/ users' = users
        \/ /\ Guarded(users[req[r].account], req[r].row)
           /\ users' = Rewritten(req[r].account, req[r].asked.pw, req[r].set)
    BY <1>1, <2>1 DEF WriteHash, Rewritten
  <2> QED
    BY <1>1, <2>2 DEF UsersStep
<1>2. ASSUME NEW r \in Request, Step(r) \/ Visit(r) \/ RehashFails(r) \/ Fail(r) PROVE UsersStep
  <2>1. CASE Rehash(r) \/ RehashFails(r)
    BY <1>1, <2>1 DEF Rehash, RehashFails, UsersStep
  <2>2. CASE \E a \in Account : Create(r, a)
    BY <2>2 DEF Create, UsersStep
  <2>3. CASE Fail(r)
    BY <2>3 DEF Fail, UsersStep
  <2>4. CASE CreateRefused(r) \/ Reload(r) \/ Find(r) \/ Issue(r) \/ Answer(r) \/ Leave(r)
    BY <2>4 DEF CreateRefused, Reload, Find, Issue, Answer, Leave, UsersStep
  <2>5. CASE Visit(r)
    BY <2>5 DEF Visit, Login, Register, UsersStep
  <2> QED
    BY <1>2, <2>1, <2>2, <2>3, <2>4, <2>5 DEF Step
<1>3. CASE Outside
  <2>1. ASSUME NEW a \in Account, NEW p \in Password, ChangePassword(a, p) PROVE UsersStep
    <3>1. users' = Rewritten(a, p, settings)
      BY <2>1 DEF ChangePassword, Rewritten, TypeOK
    <3> QED
      BY <2>1, <3>1 DEF ChangePassword, UsersStep
  <2>2. ASSUME NEW a \in Account, Delete(a) PROVE UsersStep
    BY <2>2 DEF Delete, UsersStep
  <2>3. ASSUME NEW s \in Release, Deploy(s) PROVE UsersStep
    BY <2>3 DEF Deploy, UsersStep
  <2> QED
    BY <1>3, <2>1, <2>2, <2>3 DEF Outside
<1>4. CASE UNCHANGED vars
  BY <1>4 DEF vars, UsersStep
<1> QED
  BY <1>2, <1>3, <1>4 DEF Next

\* A row never goes, changes its address or comes back from deletion.
LEMMA RowsStay ==
  ASSUME TypeOK, VerifiedRow, UsersStep, NEW a \in Account, users[a].there
  PROVE  /\ users'[a].there /\ users'[a].email = users[a].email
         /\ users[a].deleted => users'[a].deleted
<1>1. users[a] \in Stored /\ users \in [Account -> Row]
  BY RowFields DEF TypeOK
<1>2. ASSUME NEW b \in Account, NEW p, NEW s, users' = Rewritten(b, p, s)
      PROVE  /\ users'[a].there /\ users'[a].email = users[a].email
             /\ users[a].deleted => users'[a].deleted
  BY <1>1, <1>2 DEF Rewritten, Stored
<1>3. CASE \E r \in Request, b \in Account : Insert(r, b)
  BY <1>1, <1>3 DEF Insert, Unborn
<1>4. CASE \E b \in Account : users' = [users EXCEPT ![b].deleted = TRUE]
  BY <1>1, <1>4 DEF Stored
<1>5. ASSUME NEW r \in Request, req[r].pc = "rehash" PROVE req[r].account \in Account
  BY <1>5 DEF VerifiedRow
<1> QED
  BY <1>2, <1>3, <1>4, <1>5 DEF UsersStep

\* The hash of a live account is of the password chosen last, after each way
\* the table changes.
LEMMA OwnPasswordStep ==
  ASSUME TypeOK, VerifiedRow, OpensWithOwnPassword, UsersStep
  PROVE  OpensWithOwnPassword'
<1> SUFFICES ASSUME NEW a \in Account, users'[a].there, ~users'[a].deleted
             PROVE  users'[a].hash.pw = chosen'[a]
  BY DEF OpensWithOwnPassword, LiveAccounts, Live
<1>1. users \in [Account -> Row] /\ chosen \in [Account -> Password \cup {Nothing.pw}]
  BY DEF TypeOK
<1>2. users[a].there /\ ~users[a].deleted => users[a].hash.pw = chosen[a]
  BY DEF OpensWithOwnPassword, LiveAccounts, Live
<1>3. CASE UNCHANGED <<users, chosen>>
  BY <1>2, <1>3
<1>4. ASSUME NEW r \in Request, NEW b \in Account, Insert(r, b)
      PROVE  users'[a].hash.pw = chosen'[a]
  BY <1>1, <1>2, <1>4 DEF Insert, UserRow, Hash
<1>5. ASSUME NEW r \in Request, req[r].pc = "rehash", chosen' = chosen,
             Guarded(users[req[r].account], req[r].row),
             users' = Rewritten(req[r].account, req[r].asked.pw, req[r].set)
      PROVE  users'[a].hash.pw = chosen'[a]
  <2>1. /\ req[r].account \in Account /\ users[req[r].account].there
        /\ req[r].row.hash.pw = req[r].asked.pw
    BY <1>5 DEF VerifiedRow
  <2>2. CASE a # req[r].account
    BY <1>1, <1>2, <1>5, <2>1, <2>2 DEF Rewritten
  <2>3. CASE a = req[r].account
    <3>1. users[a].hash.pw = req[r].asked.pw /\ ~users[a].deleted
      BY <1>5, <2>1, <2>3 DEF Guarded
    <3>2. users[a] \in Stored
      BY <1>1, <2>1, <2>3, RowFields
    <3>3. users'[a].hash.pw = req[r].asked.pw
      BY <1>1, <1>5, <2>3, <3>2 DEF Rewritten, Hash, Stored
    <3> QED
      BY <1>2, <1>5, <2>1, <2>3, <3>1, <3>3
  <2> QED
    BY <2>2, <2>3
<1>6. ASSUME NEW b \in Account, NEW p \in Password, Live(b), users' = Rewritten(b, p, settings),
             chosen' = [chosen EXCEPT ![b] = p]
      PROVE  users'[a].hash.pw = chosen'[a]
  <2>1. users[b] \in Stored
    BY <1>1, <1>6, RowFields DEF Live
  <2> QED
    BY <1>1, <1>2, <1>6, <2>1 DEF Rewritten, Hash, Stored
<1>7. ASSUME NEW b \in Account, Live(b), users' = [users EXCEPT ![b].deleted = TRUE], chosen' = chosen
      PROVE  users'[a].hash.pw = chosen'[a]
  <2>1. users[b] \in Stored
    BY <1>1, <1>7, RowFields DEF Live
  <2>2. a # b
    BY <1>1, <1>7, <2>1 DEF Stored
  <2> QED
    BY <1>1, <1>2, <1>7, <2>2
<1> QED
  BY <1>3, <1>4, <1>5, <1>6, <1>7 DEF UsersStep

\* VerifiedRow, for one request and one state of the table.
Holds(q, table) ==
  /\ q.pc = "rehash" => q.row.there /\ q.row.hash.pw = q.asked.pw
  /\ q.pc \in {"rehash", "reload", "issue", "answer"} =>
       /\ q.account \in Account /\ table[q.account].there
       /\ table[q.account].email = q.asked.email

\* A request that does not move keeps it, whatever the table does.
LEMMA HoldsOn ==
  ASSUME TypeOK, VerifiedRow, UsersStep, NEW r \in Request
  PROVE  Holds(req[r], users) /\ Holds(req[r], users')
BY RowsStay DEF VerifiedRow, Holds

\* A request that goes on about the same account keeps it, and one that ends.
LEMMA HoldsMoved ==
  ASSUME TypeOK, VerifiedRow, UsersStep, NEW r \in Request, req[r] \in InFlight
  PROVE  /\ \A pc \in {"issue", "answer"} :
              req[r].pc \in {"rehash", "reload", "issue"} /\ Goto(r, pc) => Holds(req'[r], users')
         /\ \A answer : Done(r, answer) => Holds(req'[r], users')
<1>1. ASSUME NEW pc \in {"issue", "answer"}, req[r].pc \in {"rehash", "reload", "issue"}, Goto(r, pc)
      PROVE  Holds(req'[r], users')
  <2>1. /\ req'[r].pc = pc /\ req'[r].account = req[r].account /\ req'[r].asked = req[r].asked
    BY <1>1 DEF Goto, TypeOK, InFlight
  <2> QED
    BY <1>1, <2>1, HoldsOn DEF Holds
<1>2. ASSUME NEW answer, Done(r, answer) PROVE Holds(req'[r], users')
  BY <1>2 DEF Done, Answered, Holds, TypeOK
<1> QED
  BY <1>1, <1>2

LEMMA VerifiedRowStep ==
  ASSUME TypeOK, VerifiedRow, AccountsAssumption, [Next]_vars
  PROVE  VerifiedRow'
<1>1. UsersStep
  BY UsersSteps
<1>2. SUFFICES ASSUME NEW x \in Request PROVE Holds(req'[x], users')
  BY <1>2 DEF Holds, VerifiedRow
<1>3. CASE req'[x] = req[x]
  BY <1>1, <1>3, HoldsOn
<1>4. ASSUME NEW r \in Request, r # x, Step(r) \/ Visit(r) \/ RehashFails(r) \/ Fail(r)
      PROVE  req'[x] = req[x]
  BY <1>4 DEF Step, Visit, Login, Register, Create, CreateRefused, Reload, Find, Rehash, RehashFails,
              Issue, Answer, Fail, Leave, Goto, Done, TypeOK
<1>5. CASE Visit(x)
  <2>1. ASSUME NEW kind, NEW asked PROVE Holds(Arrival(kind, asked), users')
    BY DEF Holds, Arrival
  <2>2. ASSUME NEW q, NEW answer PROVE Holds(Answered(q, answer), users')
    BY DEF Holds, Answered
  <2>3. CASE \E s \in Spelling, p \in Password : Login(x, normalizeEmail(s), p)
    BY <2>1, <2>3 DEF Login, TypeOK
  <2>4. CASE \E s \in Spelling, p \in Password, consent \in BOOLEAN :
               Register(x, normalizeEmail(s), p, consent)
    BY <2>1, <2>2, <2>4 DEF Register, TypeOK
  <2> QED
    BY <1>5, <2>3, <2>4 DEF Visit
<1>6. CASE \E a \in Account : Create(x, a)
  <2>1. PICK a \in Account : Create(x, a)
    BY <1>6
  <2>2. req[x] \in InFlight
    BY <2>1, Kinds3 DEF Create, Insert, TypeOK
  <2>3. users'[a].there /\ users'[a].email = req[x].asked.email
    BY <2>1 DEF Create, Insert, UserRow, TypeOK
  <2>4. req'[x].pc = "reload" /\ req'[x].account = a /\ req'[x].asked = req[x].asked
    BY <2>1, <2>2 DEF Create, TypeOK, InFlight
  <2> QED
    BY <2>3, <2>4 DEF Holds
<1>7. CASE CreateRefused(x) \/ Reload(x) \/ Rehash(x) \/ RehashFails(x) \/ Issue(x) \/ Answer(x) \/ Fail(x)
  <2>1. req[x] \in InFlight
    BY <1>7, Kinds3 DEF CreateRefused, Reload, Rehash, RehashFails, Issue, Answer, Fail, TypeOK
  <2> QED
    BY <1>1, <1>7, <2>1, HoldsMoved
       DEF CreateRefused, Reload, Rehash, RehashFails, Issue, Answer, Fail
<1>8. CASE Find(x)
  <2>1. req[x] \in InFlight
    BY <1>8, Kinds3 DEF Find, TypeOK
  <2>2. CASE Done(x, "INVALID_CREDENTIALS")
    BY <1>1, <2>1, <2>2, HoldsMoved
  <2>3. ASSUME NEW a \in Account, Live(a), users[a].email = req[x].asked.email,
               Verified(users[a], req[x].asked.pw),
               req' = [req EXCEPT ![x] = IF Stale(users[a], req[x].set)
                           THEN [req[x] EXCEPT !.pc = "rehash", !.account = a, !.row = users[a]]
                           ELSE [req[x] EXCEPT !.pc = "issue", !.account = a]]
        PROVE  Holds(req'[x], users')
    <3>1. users'[a].there /\ users'[a].email = users[a].email
      BY <1>1, <2>3, RowsStay DEF Live
    <3>2. /\ req'[x].account = a /\ req'[x].asked = req[x].asked
          /\ \/ req'[x].pc = "rehash" /\ req'[x].row = users[a]
             \/ req'[x].pc = "issue"
      BY <2>1, <2>3 DEF TypeOK, InFlight
    <3> QED
      BY <2>3, <3>1, <3>2 DEF Holds, Verified, Live
  <2> QED
    BY <1>8, <2>2, <2>3 DEF Find, LiveAccounts
<1>9. CASE Leave(x)
  BY <1>9 DEF Leave, Holds, NoRequest, TypeOK
<1>10. CASE Outside
  BY <1>3, <1>10 DEF Outside, Delete, ChangePassword, Deploy
<1>11. CASE UNCHANGED vars
  BY <1>3, <1>11 DEF vars
<1> QED
  BY <1>3, <1>4, <1>5, <1>6, <1>7, <1>8, <1>9, <1>10, <1>11 DEF Next, Step

\* Outside an insert no account becomes live, and live ones keep their address.
LEMMA LiveStays ==
  ASSUME TypeOK, VerifiedRow, UsersStep, ~\E r \in Request, b \in Account : Insert(r, b),
         NEW a \in Account, Live(a)'
  PROVE  Live(a) /\ users'[a].email = users[a].email
<1>1. users \in [Account -> Row]
  BY DEF TypeOK
<1>2. ASSUME users[a].there PROVE Live(a) /\ users'[a].email = users[a].email
  BY <1>2, RowsStay DEF Live
<1>3. ASSUME ~users[a].there PROVE FALSE
  <2>1. users[a] = NoRow /\ users'[a].there
    BY <1>1, <1>3, RowFields DEF Live
  <2>2. users'[a] # users[a]
    BY <2>1 DEF NoRow
  <2>3. CASE \E r \in Request : /\ req[r].pc = "rehash"
                              /\ users' = Rewritten(req[r].account, req[r].asked.pw, req[r].set)
    BY <1>1, <1>3, <2>2, <2>3 DEF VerifiedRow, Rewritten
  <2>4. CASE \E b \in Account, p \in Password : Live(b) /\ users' = Rewritten(b, p, settings)
    BY <1>1, <1>3, <2>2, <2>4 DEF Live, Rewritten
  <2>5. CASE \E b \in Account : Live(b) /\ users' = [users EXCEPT ![b].deleted = TRUE]
    BY <1>1, <1>3, <2>2, <2>5 DEF Live
  <2> QED
    BY <2>2, <2>3, <2>4, <2>5 DEF UsersStep
<1> QED
  BY <1>2, <1>3

\* Stored and requested addresses stay normalized.
LEMMA PlainStep ==
  ASSUME TypeOK, VerifiedRow, PlainAddresses, [Next]_vars
  PROVE  PlainAddresses'
<1>1. UsersStep
  BY UsersSteps
<1>2. ASSUME NEW a \in Account, users'[a].there PROVE users'[a].email[2] = "plain"
  <2>1. CASE users[a].there
    BY <1>1, <2>1, RowsStay DEF PlainAddresses
  <2>2. ASSUME NEW r \in Request, NEW b \in Account, Insert(r, b)
        PROVE  users'[a].email[2] = "plain"
    <3>1. CASE a = b
      <4>1. users'[a].email = req[r].asked.email
        BY <2>2, <3>1 DEF Insert, UserRow, TypeOK
      <4>2. req[r].asked.email[2] = "plain"
        BY <2>2 DEF Insert, PlainAddresses
      <4> QED
        BY <4>1, <4>2
    <3>2. CASE a # b
      BY <1>2, <2>2, <3>2 DEF Insert, PlainAddresses, TypeOK
    <3> QED
      BY <3>1, <3>2
  <2>3. ASSUME ~users[a].there, ~\E r \in Request, b \in Account : Insert(r, b) PROVE FALSE
    <3>1. users[a] = NoRow /\ users \in [Account -> Row]
      BY <2>3, RowFields DEF TypeOK
    <3>2. users'[a] # users[a]
      BY <1>2, <3>1 DEF NoRow
    <3> QED
      BY <1>1, <2>3, <3>1, <3>2 DEF UsersStep, Rewritten, VerifiedRow, Live
  <2> QED
    BY <2>1, <2>2, <2>3
<1>3. ASSUME NEW x \in Request, req'[x].pc = "create" PROVE req'[x].asked.email[2] = "plain"
  <2>1. CASE req'[x] = req[x]
    BY <1>3, <2>1 DEF PlainAddresses
  <2>2. CASE Visit(x)
    <3>1. ASSUME NEW s \in Spelling, NEW p \in Password,
                 req'[x] = Arrival("register", [email |-> normalizeEmail(s), pw |-> p])
          PROVE  req'[x].asked.email[2] = "plain"
      BY <3>1, Normalized DEF Arrival
    <3>2. ASSUME NEW s \in Spelling, NEW p \in Password, Login(x, normalizeEmail(s), p) PROVE FALSE
      BY <1>3, <3>2 DEF Login, Arrival, TypeOK
    <3>3. ASSUME NEW s \in Spelling, NEW p \in Password, NEW consent \in BOOLEAN,
                 Register(x, normalizeEmail(s), p, consent)
          PROVE  req'[x] = Arrival("register", [email |-> normalizeEmail(s), pw |-> p])
      BY <1>3, <3>3 DEF Register, Answered, TypeOK
    <3> QED
      BY <2>2, <3>1, <3>2, <3>3 DEF Visit
  <2>3. ASSUME NEW r \in Request, r # x, Step(r) \/ Visit(r) \/ RehashFails(r) \/ Fail(r)
        PROVE  req'[x] = req[x]
    BY <2>3 DEF Step, Visit, Login, Register, Create, CreateRefused, Reload, Find, Rehash, RehashFails,
                Issue, Answer, Fail, Leave, Goto, Done, TypeOK
  <2>4. CASE Step(x) \/ RehashFails(x) \/ Fail(x)
    <3>1. CASE Find(x)
      <4>1. req[x] \in InFlight
        BY <3>1, Kinds3 DEF Find, TypeOK
      <4>2. CASE Done(x, "INVALID_CREDENTIALS")
        BY <1>3, <4>2 DEF Done, Answered, TypeOK
      <4>3. ASSUME NEW a \in Account,
                   req' = [req EXCEPT ![x] = IF Stale(users[a], req[x].set)
                           THEN [req[x] EXCEPT !.pc = "rehash", !.account = a, !.row = users[a]]
                           ELSE [req[x] EXCEPT !.pc = "issue", !.account = a]]
            PROVE  FALSE
        BY <1>3, <4>1, <4>3 DEF TypeOK, InFlight
      <4> QED
        BY <3>1, <4>2, <4>3 DEF Find, LiveAccounts
    <3>2. CASE Leave(x) \/ CreateRefused(x) \/ Fail(x)
      BY <1>3, <3>2 DEF Leave, CreateRefused, Fail, Done, Answered, TypeOK, NoRequest
    <3>3. CASE Reload(x) \/ Rehash(x) \/ RehashFails(x) \/ Issue(x) \/ Answer(x) \/ \E a \in Account : Create(x, a)
      <4>1. req[x] \in InFlight
        BY <3>3, Kinds3 DEF Reload, Rehash, RehashFails, Issue, Answer, Create, Insert, TypeOK
      <4> QED
        BY <1>3, <3>3, <4>1 DEF Reload, Rehash, RehashFails, Issue, Answer, Create, Goto, Done, Answered,
                                TypeOK, InFlight
    <3> QED
      BY <2>4, <3>1, <3>2, <3>3 DEF Step
  <2>5. CASE Outside \/ UNCHANGED vars
    BY <2>1, <2>5 DEF Outside, Delete, ChangePassword, Deploy, vars
  <2> QED
    BY <2>1, <2>2, <2>3, <2>4, <2>5 DEF Next
<1> QED
  BY <1>2, <1>3 DEF PlainAddresses

\* One live account per address, although what is stored is compared as a
\* whole: it is normalized.
LEMMA OneLiveStep ==
  ASSUME TypeOK, VerifiedRow, PlainAddresses, OneLiveAccount, UsersStep
  PROVE  OneLiveAccount'
<1> SUFFICES ASSUME NEW a \in Account, NEW b \in Account, Live(a)', Live(b)',
                    users'[a].email[1] = users'[b].email[1]
             PROVE  a = b
  BY DEF OneLiveAccount, LiveAccounts
<1>1. ASSUME ~\E r \in Request, c \in Account : Insert(r, c) PROVE a = b
  BY <1>1, LiveStays DEF OneLiveAccount, LiveAccounts
<1>2. ASSUME NEW r \in Request, NEW c \in Account, Insert(r, c) PROVE a = b
  <2>1. req[r] \in InFlight
    BY <1>2, Kinds3 DEF Insert, TypeOK
  <2>2. /\ req[r].asked.email \in Spelling /\ req[r].asked.email[2] = "plain"
        /\ ~Taken(req[r].asked.email)
    BY <1>2, <2>1, InFlightFields DEF Insert, PlainAddresses
  <2>3. ASSUME NEW d \in Account, d # c, Live(d)'
        PROVE  Live(d) /\ users'[d] = users[d] /\ users[d].email[1] # req[r].asked.email[1]
    <3>1. Live(d) /\ users'[d] = users[d]
      BY <1>2, <2>3 DEF Insert, Live, TypeOK
    <3>2. users[d].email \in Spelling /\ users[d].email[2] = "plain"
      BY <3>1, RowFields DEF TypeOK, Stored, Live, PlainAddresses
    <3>3. users[d].email # req[r].asked.email
      BY <2>2, <3>1 DEF Taken
    <3> QED
      BY <2>2, <3>1, <3>2, <3>3, Normalized
  <2>4. users'[c].email = req[r].asked.email
    BY <1>2 DEF Insert, UserRow, TypeOK
  <2> QED
    BY <2>3, <2>4 DEF OneLiveAccount, LiveAccounts
<1> QED
  BY <1>1, <1>2

----------------------------------------------------------------------------
(***************************************************************************)
(* Theorems.                                                               *)
(***************************************************************************)
LEMMA InvInit == Init /\ AccountsAssumption => AccountsInv
<1> SUFFICES ASSUME Init, AccountsAssumption PROVE AccountsInv
  OBVIOUS
<1>1. \A a \in Account : users[a].there = FALSE
  BY DEF Init, NoRow
<1>2. \A r \in Request : req[r].pc = "free"
  BY DEF Init, NoRequest
<1> QED
  BY <1>1, <1>2, TypeInit
     DEF AccountsInv, VerifiedRow, OpensWithOwnPassword, PlainAddresses, OneLiveAccount, LiveAccounts, Live

LEMMA InvStep ==
  ASSUME AccountsAssumption, AccountsInv, [Next]_vars
  PROVE  AccountsInv'
BY TypeStep, VerifiedRowStep, UsersSteps, OwnPasswordStep, PlainStep, OneLiveStep DEF AccountsInv

LEMMA Invariance == Spec => []AccountsInv
<1>1. Init => AccountsInv
  BY InvInit, AccountsAssumption
<1>2. AccountsInv /\ [Next]_vars => AccountsInv'
  BY InvStep, AccountsAssumption
<1> QED
  BY <1>1, <1>2, PTL DEF Spec

\* Types, and a hash and its scheme of one release, in every state.
THEOREM AccountsTypeCorrect == Spec => []TypeOK
<1>1. AccountsInv => TypeOK
  BY DEF AccountsInv
<1> QED
  BY <1>1, Invariance, PTL

\* However registrations of one address race, fail and follow a deletion, one
\* live account has it.
THEOREM OneAccountPerAddress == Spec => []OneLiveAccount
<1>1. AccountsInv => OneLiveAccount
  BY DEF AccountsInv
<1> QED
  BY <1>1, Invariance, PTL

\* No re-hash, however late, costs an owner the password chosen last.
THEOREM OwnPasswordKept == Spec => []OpensWithOwnPassword
<1>1. AccountsInv => OpensWithOwnPassword
  BY DEF AccountsInv
<1> QED
  BY <1>1, Invariance, PTL

\* No statement of a request that read a row before it was deleted writes to it.
LEMMA DeletedStep ==
  ASSUME TypeOK, VerifiedRow, UsersStep, NEW a \in Account, users[a].there, ~Live(a)
  PROVE  users'[a] = users[a]
<1>1. users \in [Account -> Row] /\ users[a].deleted
  BY DEF TypeOK, Live
<1>2. CASE \E r \in Request, b \in Account : Insert(r, b)
  BY <1>1, <1>2 DEF Insert, Unborn
<1>3. CASE \E r \in Request : /\ req[r].pc = "rehash" /\ Guarded(users[req[r].account], req[r].row)
                            /\ users' = Rewritten(req[r].account, req[r].asked.pw, req[r].set)
  BY <1>1, <1>3 DEF Guarded, Rewritten
<1>4. CASE \E b \in Account, p \in Password : Live(b) /\ users' = Rewritten(b, p, settings)
  BY <1>1, <1>4 DEF Live, Rewritten
<1>5. CASE \E b \in Account : Live(b) /\ users' = [users EXCEPT ![b].deleted = TRUE]
  BY <1>1, <1>5 DEF Live
<1> QED
  BY <1>2, <1>3, <1>4, <1>5 DEF UsersStep

\* A re-hash that comes after the deletion of its account finds nothing to write
\* to, and neither does anything else.
THEOREM DeletedRowsStay == Spec => DeletedStays
<1>1. AccountsInv /\ [Next]_vars =>
        [\A a \in Account : users[a].there /\ ~Live(a) => users'[a] = users[a]]_vars
  BY DeletedStep, UsersSteps DEF AccountsInv
<1> QED
  BY <1>1, Invariance, PTL DEF Spec, DeletedStays

----------------------------------------------------------------------------
(***************************************************************************)
(* AuthAccounts implements AccountBook: every step is one of the book's or *)
(* changes nothing in it.                                                  *)
(***************************************************************************)
\* Which handler is where.
HandlersFit ==
  \A r \in Request : /\ req[r].pc \in {"create", "reload"} => req[r].kind = "register"
                     /\ req[r].pc \in {"find", "rehash", "answer"} => req[r].kind = "login"

\* The same table, the same book.
LEMMA SameBook == ASSUME users' = users PROVE Book' = Book
BY DEF Book, LiveAccounts, Live

\* One request moves, one visitor at the desk does.
LEMMA DeskMoves ==
  ASSUME TypeOK, NEW r \in Request, NEW q, req' = [req EXCEPT ![r] = q]
  PROVE  Desk' = [Desk EXCEPT ![r] = Told(q)]
BY DEF Desk, TypeOK

LEMMA DeskStays == ASSUME req' = req PROVE Desk' = Desk
BY DEF Desk

\* The moves of the desk.
LEMMA Asks ==
  ASSUME TypeOK, Book' = Book, NEW r \in Request, NEW q, req' = [req EXCEPT ![r] = q],
         NEW e \in Asked, Told(req[r]) = Quiet, Told(q) = [said |-> "asked", entry |-> e]
  PROVE  Abstract!Next
<1>1. Desk[r] = Abstract!Nobody
  BY DEF Desk, Quiet, Abstract!Nobody
<1>2. Desk' = [Desk EXCEPT ![r] = [said |-> "asked", entry |-> e]]
  BY DeskMoves
<1>3. Abstract!Ask(r, e)
  BY <1>1, <1>2 DEF Abstract!Ask
<1> QED
  BY <1>3 DEF Abstract!Next, Abstract!Entry, Asked

LEMMA Leaves ==
  ASSUME TypeOK, Book' = Book, NEW r \in Request, NEW q, req' = [req EXCEPT ![r] = q], Told(q) = Quiet
  PROVE  Abstract!Next
BY DeskMoves DEF Abstract!Next, Abstract!Leave, Abstract!Nobody, Quiet

LEMMA Decides ==
  ASSUME TypeOK, Book' = Book, NEW r \in Request, NEW q, req' = [req EXCEPT ![r] = q],
         NEW e, Told(req[r]) = [said |-> "asked", entry |-> e],
         Told(q) = [said |-> IF e \in Book THEN "yes" ELSE "no", entry |-> e]
  PROVE  Abstract!Next
<1>1. Desk \in [Request -> {Told(req[x]) : x \in Request}] /\ Desk[r] = [said |-> "asked", entry |-> e]
  BY DEF Desk
<1>2. Desk[r].said = "asked" /\ Desk[r].entry = e
  BY <1>1
<1>3. [Desk[r] EXCEPT !.said = IF e \in Book THEN "yes" ELSE "no"] = Told(q)
  BY <1>1
<1>4. Desk' = [Desk EXCEPT ![r] = Told(q)]
  BY DeskMoves
<1>5. Desk' = [Desk EXCEPT ![r] = [Desk[r] EXCEPT !.said = IF e \in Book THEN "yes" ELSE "no"]]
  BY <1>3, <1>4
<1> QED
  BY <1>2, <1>5 DEF Abstract!Next, Abstract!Decide

LEMMA Stays ==
  ASSUME TypeOK, Book' = Book, NEW r \in Request, NEW q, req' = [req EXCEPT ![r] = q], Told(q) = Told(req[r])
  PROVE  UNCHANGED <<Book, Desk>>
BY DeskMoves DEF Desk

----------------------------------------------------------------------------
(***************************************************************************)
(* The book.                                                               *)
(***************************************************************************)
EntryOf(row) == [email |-> row.email, pw |-> row.hash.pw]
Others(a) == {EntryOf(users[b]) : b \in LiveAccounts \ {a}}

\* The book when one row changes.
LEMMA BookSplit ==
  ASSUME TypeOK, NEW a \in Account, NEW row, users' = [users EXCEPT ![a] = row]
  PROVE  /\ Live(a) => Book = Others(a) \cup {EntryOf(users[a])}
         /\ ~Live(a) => Book = Others(a)
         /\ row.there /\ ~row.deleted => Book' = Others(a) \cup {EntryOf(row)}
         /\ ~(row.there /\ ~row.deleted) => Book' = Others(a)
<1>1. Book = {EntryOf(users[b]) : b \in LiveAccounts}
  BY DEF Book, EntryOf
<1>2. Book' = {EntryOf(users'[b]) : b \in LiveAccounts'}
  BY DEF Book, EntryOf
<1>3. \A b \in Account : b # a => users'[b] = users[b]
  BY DEF TypeOK
<1>4. users'[a] = row
  BY DEF TypeOK
<1>5. LiveAccounts' \ {a} = LiveAccounts \ {a}
  BY <1>3 DEF LiveAccounts, Live
<1>6. {EntryOf(users'[b]) : b \in LiveAccounts' \ {a}} = Others(a)
  BY <1>3, <1>5 DEF Others, LiveAccounts
<1>7. (a \in LiveAccounts <=> Live(a)) /\ (a \in LiveAccounts' <=> row.there /\ ~row.deleted)
  BY <1>4 DEF LiveAccounts, Live
<1> QED
  BY <1>1, <1>2, <1>4, <1>6, <1>7 DEF Others

\* No other entry has the address of a live account.
LEMMA OthersDiffer ==
  ASSUME OneLiveAccount, NEW a \in Account, Live(a)
  PROVE  \A x \in Others(a) : x.email # users[a].email
BY DEF OneLiveAccount, Others, EntryOf, LiveAccounts

\* An entry is one.
LEMMA LiveEntry ==
  ASSUME TypeOK, NEW a \in Account, Live(a)
  PROVE  EntryOf(users[a]) \in Abstract!Entry /\ users[a] \in Stored
BY RowFields DEF TypeOK, Live, Stored, EntryOf, Abstract!Entry

LEMMA Opens ==
  ASSUME AccountsInv, NEW r \in Request, NEW a \in Account, Insert(r, a), Desk' = Desk
  PROVE  Abstract!Next
<1> USE DEF AccountsInv
<1> DEFINE e == req[r].asked
           row == UserRow(e.email, e.pw, req[r].set)
<1>1. req[r] \in InFlight
  BY Kinds3 DEF Insert, TypeOK
<1>2. e \in Asked /\ e = [email |-> e.email, pw |-> e.pw]
  BY <1>1, InFlightFields DEF Asked
<1>3. row.there /\ ~row.deleted /\ EntryOf(row) = e
  BY <1>2 DEF UserRow, EntryOf, Hash
<1>4. ~Live(a) /\ users' = [users EXCEPT ![a] = row]
  BY DEF Insert, Unborn, Live
<1>5. Book' = Book \cup {e}
  BY <1>3, <1>4, BookSplit
<1>6. \A x \in Book : x.email # e.email
  BY DEF Insert, Taken, Book, LiveAccounts
<1> QED
  BY <1>2, <1>5, <1>6 DEF Abstract!Next, Abstract!Open, Abstract!Entry, Asked

LEMMA Closes ==
  ASSUME AccountsInv, NEW a \in Account, Live(a), users' = [users EXCEPT ![a].deleted = TRUE],
         Desk' = Desk
  PROVE  Abstract!Next
<1> USE DEF AccountsInv
<1>1. users[a] \in Stored /\ EntryOf(users[a]) \in Abstract!Entry
  BY LiveEntry
<1>2. [users[a] EXCEPT !.deleted = TRUE].deleted
  BY <1>1 DEF Stored
<1>3. Book = Others(a) \cup {EntryOf(users[a])} /\ Book' = Others(a)
  BY <1>2, BookSplit
<1>4. EntryOf(users[a]) \notin Others(a)
  BY OthersDiffer DEF EntryOf
<1>5. Book' = Book \ {EntryOf(users[a])} /\ EntryOf(users[a]) \in Book
  BY <1>3, <1>4
<1> QED
  BY <1>1, <1>5 DEF Abstract!Next, Abstract!Close

\* A rewritten hash changes the password of one entry, or nothing.
LEMMA Rewrites ==
  ASSUME AccountsInv, NEW a \in Account, Live(a), NEW p \in Password, NEW s, users' = Rewritten(a, p, s)
  PROVE  /\ Desk' = Desk => Abstract!Next
         /\ users[a].hash.pw = p => Book' = Book
<1> USE DEF AccountsInv
<1> DEFINE row == [users[a] EXCEPT !.hash = Hash(p, s.cost), !.scheme = s.scheme]
           e == EntryOf(users[a])
<1>1. users[a] \in Stored /\ e \in Abstract!Entry
  BY LiveEntry
<1>2. /\ row.there /\ ~row.deleted /\ EntryOf(row) = [e EXCEPT !.pw = p]
  BY <1>1 DEF Stored, EntryOf, Hash, Live
<1>3. Book = Others(a) \cup {e} /\ Book' = Others(a) \cup {[e EXCEPT !.pw = p]}
  BY <1>2, BookSplit DEF Rewritten
<1>4. e \notin Others(a)
  BY OthersDiffer DEF EntryOf
<1>5. e \in Book /\ Book' = (Book \ {e}) \cup {[e EXCEPT !.pw = p]}
  BY <1>3, <1>4
<1>6. Desk' = Desk => Abstract!Next
  BY <1>1, <1>5 DEF Abstract!Next, Abstract!Change
<1>7. users[a].hash.pw = p => [e EXCEPT !.pw = p] = e
  BY DEF EntryOf
<1> QED
  BY <1>3, <1>6, <1>7

----------------------------------------------------------------------------
(***************************************************************************)
(* Steps.                                                                  *)
(***************************************************************************)
\* What the desk shows of a request that arrives, goes on and ends.
LEMMA Shown ==
  ASSUME NEW q
  PROVE  /\ \A asked : Told(Arrival("login", asked)) = [said |-> "asked", entry |-> asked]
         /\ \A asked : Told(Arrival("register", asked)) = Quiet
         /\ Told(NoRequest) = Quiet
         /\ \A answer : q.kind = "register" => Told(Answered(q, answer)) = Quiet
         /\ Told(Answered(q, "ERROR")) = Quiet /\ Told(Answered(q, "ACCOUNT_NOT_FOUND")) = Quiet
         /\ q.kind = "login" =>
              /\ Told(Answered(q, "OK")) = [said |-> "yes", entry |-> q.asked]
              /\ Told(Answered(q, "INVALID_CREDENTIALS")) = [said |-> "no", entry |-> q.asked]
BY DEF Told, Arrival, Answered, NoRequest, Quiet

\* A request in flight.
LEMMA ShownInFlight ==
  ASSUME NEW q \in InFlight
  PROVE  /\ q.kind = "register" => Told(q) = Quiet
         /\ q.kind = "login" /\ q.pc = "find" => Told(q) = [said |-> "asked", entry |-> q.asked]
         /\ q.kind = "login" /\ q.pc \in {"rehash", "issue", "answer"} =>
              Told(q) = [said |-> "yes", entry |-> q.asked]
BY DEF Told, InFlight

LEMMA BookVisit ==
  ASSUME AccountsInv, NEW r \in Request, Visit(r)
  PROVE  Abstract!Next
<1> USE DEF AccountsInv
<1>1. ASSUME NEW s \in Spelling, NEW p \in Password, Login(r, normalizeEmail(s), p)
      PROVE  Abstract!Next
  <2>1. [email |-> normalizeEmail(s), pw |-> p] \in Asked
    BY Normalized DEF Asked
  <2>2. Told(req[r]) = Quiet
    BY <1>1 DEF Login, Told
  <2> QED
    BY <1>1, <2>1, <2>2, SameBook, Shown, Asks DEF Login
<1>2. ASSUME NEW s \in Spelling, NEW p \in Password, NEW consent \in BOOLEAN,
             Register(r, normalizeEmail(s), p, consent)
      PROVE  Abstract!Next
  <2> DEFINE q == Arrival("register", [email |-> normalizeEmail(s), pw |-> p])
  <2>1. q.kind = "register"
    BY DEF Arrival
  <2>2. \E x : req' = [req EXCEPT ![r] = x] /\ Told(x) = Quiet
    <3>1. /\ Told(q) = Quiet /\ Told(Answered(q, "CONSENT_REQUIRED")) = Quiet
          /\ Told(Answered(q, "INVALID_CREDENTIALS")) = Quiet
      BY <2>1, Shown
    <3>2. \E x \in {q, Answered(q, "CONSENT_REQUIRED"), Answered(q, "INVALID_CREDENTIALS")} :
             req' = [req EXCEPT ![r] = x]
      BY <1>2 DEF Register
    <3> QED
      BY <3>1, <3>2
  <2> QED
    BY <1>2, <2>2, SameBook, Leaves DEF Register
<1> QED
  BY <1>1, <1>2 DEF Visit

\* A look-up decides by the one live account of the address, if there is one.
LEMMA BookFind ==
  ASSUME AccountsInv, HandlersFit, NEW r \in Request, Find(r)
  PROVE  Abstract!Next
<1> USE DEF AccountsInv
<1> DEFINE q == req[r]
<1>1. q \in InFlight /\ q.kind = "login" /\ q.pc = "find"
  BY Kinds3 DEF Find, HandlersFit, TypeOK
<1>2. q.asked \in Asked /\ Told(q) = [said |-> "asked", entry |-> q.asked]
  BY <1>1, InFlightFields, ShownInFlight
<1>3. q.asked = [email |-> q.asked.email, pw |-> q.asked.pw]
  BY <1>2 DEF Asked
<1>4. Book' = Book
  BY SameBook DEF Find
<1>5. ASSUME q.asked \notin Book, Done(r, "INVALID_CREDENTIALS") PROVE Abstract!Next
  <2>1. Told(Answered(q, "INVALID_CREDENTIALS")) = [said |-> "no", entry |-> q.asked]
    BY <1>1, Shown
  <2>2. Told(Answered(q, "INVALID_CREDENTIALS")) =
          [said |-> IF q.asked \in Book THEN "yes" ELSE "no", entry |-> q.asked]
    BY <1>5, <2>1
  <2>3. req' = [req EXCEPT ![r] = Answered(q, "INVALID_CREDENTIALS")]
    BY <1>5 DEF Done
  <2> QED
    BY <1>2, <1>4, <2>2, <2>3, Decides
<1>6. CASE {a \in LiveAccounts : users[a].email = q.asked.email} = {} /\ Done(r, "INVALID_CREDENTIALS")
  <2>1. \A x \in Book : x.email # q.asked.email
    BY <1>6 DEF Book
  <2> QED
    BY <1>5, <1>6, <2>1
<1>7. ASSUME NEW a \in LiveAccounts, users[a].email = q.asked.email, ~Verified(users[a], q.asked.pw),
             Done(r, "INVALID_CREDENTIALS")
      PROVE  Abstract!Next
  <2>1. \A b \in LiveAccounts : b # a => users[b].email # q.asked.email
    BY <1>7 DEF OneLiveAccount
  <2>2. \A b \in LiveAccounts : [email |-> users[b].email, pw |-> users[b].hash.pw] # q.asked
    BY <1>3, <1>7, <2>1 DEF Verified
  <2> QED
    BY <1>5, <1>7, <2>2 DEF Book
<1>8. ASSUME NEW a \in LiveAccounts, users[a].email = q.asked.email, Verified(users[a], q.asked.pw),
             req' = [req EXCEPT ![r] = IF Stale(users[a], q.set)
                           THEN [q EXCEPT !.pc = "rehash", !.account = a, !.row = users[a]]
                           ELSE [q EXCEPT !.pc = "issue", !.account = a]]
      PROVE  Abstract!Next
  <2>1. q.asked \in Book
    BY <1>3, <1>8 DEF Book, Verified
  <2>2. PICK x : /\ req' = [req EXCEPT ![r] = x] /\ x.kind = "login" /\ x.asked = q.asked
                 /\ x.pc \in {"rehash", "issue"}
    <3>1. CASE Stale(users[a], q.set)
      <4>1. [q EXCEPT !.pc = "rehash", !.account = a, !.row = users[a]].kind = "login"
        BY <1>1 DEF InFlight
      <4>2. /\ [q EXCEPT !.pc = "rehash", !.account = a, !.row = users[a]].asked = q.asked
            /\ [q EXCEPT !.pc = "rehash", !.account = a, !.row = users[a]].pc = "rehash"
        BY <1>1 DEF InFlight
      <4> QED
        BY <1>8, <3>1, <4>1, <4>2
    <3>2. CASE ~Stale(users[a], q.set)
      <4>1. /\ [q EXCEPT !.pc = "issue", !.account = a].kind = "login"
            /\ [q EXCEPT !.pc = "issue", !.account = a].asked = q.asked
            /\ [q EXCEPT !.pc = "issue", !.account = a].pc = "issue"
        BY <1>1 DEF InFlight
      <4> QED
        BY <1>8, <3>2, <4>1
    <3> QED
      BY <3>1, <3>2
  <2>3. Told(x) = [said |-> "yes", entry |-> q.asked]
    BY <2>2 DEF Told
  <2> QED
    BY <1>2, <1>4, <2>1, <2>2, <2>3, Decides
<1> QED
  BY <1>6, <1>7, <1>8 DEF Find

\* A request that goes on about what it asked, or ends without a verdict.
LEMMA BookGoto ==
  ASSUME AccountsInv, NEW r \in Request, req[r] \in InFlight, NEW pc \in {"issue", "answer"}, Goto(r, pc),
         Book' = Book, req[r].kind = "login" => req[r].pc \in {"rehash", "issue"}
  PROVE  [Abstract!Next]_<<Book, Desk>>
<1> USE DEF AccountsInv
<1> DEFINE q == [req[r] EXCEPT !.pc = pc, !.row = NoRow]
<1>1. /\ req' = [req EXCEPT ![r] = q] /\ q.kind = req[r].kind /\ q.asked = req[r].asked /\ q.pc = pc
      /\ q.kind \in Kinds
  BY DEF Goto, InFlight, TypeOK
<1>2. CASE q.kind = "register"
  BY <1>1, <1>2, Leaves DEF Told
<1>3. CASE q.kind = "login"
  <2>1. Told(req[r]) = [said |-> "yes", entry |-> req[r].asked]
    BY <1>1, <1>3, ShownInFlight
  <2>2. Told(q) = [said |-> "yes", entry |-> req[r].asked]
    BY <1>1, <1>3 DEF Told
  <2> QED
    BY <1>1, <2>1, <2>2, Stays
<1> QED
  BY <1>1, <1>2, <1>3 DEF Kinds

LEMMA BookEnd ==
  ASSUME AccountsInv, NEW r \in Request, NEW answer, Done(r, answer), Book' = Book,
         req[r].kind = "register" \/ answer \in {"ERROR", "ACCOUNT_NOT_FOUND"}
  PROVE  Abstract!Next
<1>1. Told(Answered(req[r], answer)) = Quiet
  BY Shown
<1>2. req' = [req EXCEPT ![r] = Answered(req[r], answer)]
  BY DEF Done
<1> QED
  BY <1>1, <1>2, Leaves DEF AccountsInv

\* A registration that inserts shows nothing at the desk, before and after.
LEMMA BookInsert ==
  ASSUME AccountsInv, HandlersFit, NEW r \in Request, NEW a \in Account, Insert(r, a),
         NEW q, req' = [req EXCEPT ![r] = q], Told(q) = Quiet
  PROVE  Abstract!Next
<1> USE DEF AccountsInv
<1>1. Told(req[r]) = Quiet
  BY Kinds3, ShownInFlight DEF Insert, HandlersFit, TypeOK
<1>2. Desk' = Desk
  BY <1>1, DeskMoves DEF Desk
<1> QED
  BY <1>2, Opens

LEMMA BookStep ==
  ASSUME AccountsInv, HandlersFit, AccountsAssumption, [Next]_vars
  PROVE  [Abstract!Next]_<<Book, Desk>>
<1> USE DEF AccountsInv
<1>1. ASSUME NEW r \in Request, req[r].pc \in {"create", "reload", "find", "rehash", "issue", "answer"}
      PROVE  req[r] \in InFlight
  BY <1>1, Kinds3 DEF TypeOK
<1>2. ASSUME NEW r \in Request, NEW a \in Account, Create(r, a) PROVE Abstract!Next
  <2> DEFINE q == [req[r] EXCEPT !.pc = "reload", !.account = a]
  <2>1. req[r] \in InFlight /\ req[r].kind = "register"
    BY <1>1, <1>2 DEF Create, Insert, HandlersFit
  <2>2. req' = [req EXCEPT ![r] = q] /\ q.kind = "register"
    BY <1>2, <2>1 DEF Create, InFlight, TypeOK
  <2>3. Told(q) = Quiet
    BY <2>2 DEF Told
  <2> QED
    BY <1>2, <2>2, <2>3, BookInsert DEF Create
<1>3. ASSUME NEW r \in Request, CreateRefused(r) PROVE Abstract!Next
  BY <1>3, SameBook, BookEnd DEF CreateRefused, HandlersFit
<1>4. ASSUME NEW r \in Request, Reload(r) PROVE [Abstract!Next]_<<Book, Desk>>
  <2>1. req[r] \in InFlight /\ req[r].kind = "register" /\ Book' = Book
    BY <1>1, <1>4, SameBook DEF Reload, HandlersFit
  <2> QED
    BY <1>4, <2>1, BookGoto, BookEnd DEF Reload
<1>5. ASSUME NEW r \in Request, Rehash(r) \/ RehashFails(r) PROVE [Abstract!Next]_<<Book, Desk>>
  <2> DEFINE q == req[r]
  <2>1. q \in InFlight /\ Goto(r, "issue") /\ q.pc = "rehash"
    BY <1>1, <1>5 DEF Rehash, RehashFails
  <2>2. /\ q.account \in Account /\ users[q.account].there /\ q.row.hash.pw = q.asked.pw
        /\ q.asked.pw \in Password
    BY <2>1, InFlightFields DEF VerifiedRow
  <2>3. ASSUME WriteHash(q), Guarded(users[q.account], q.row) PROVE Book' = Book
    <3>1. users' = Rewritten(q.account, q.asked.pw, q.set)
      BY <2>2, <2>3 DEF WriteHash, Rewritten, TypeOK
    <3>2. Live(q.account) /\ users[q.account].hash.pw = q.asked.pw
      BY <2>2, <2>3 DEF Guarded, Live
    <3> QED
      BY <2>2, <3>1, <3>2, Rewrites
  <2>4. Book' = Book
    BY <1>5, <2>3, SameBook DEF Rehash, RehashFails, WriteHash
  <2> QED
    BY <2>1, <2>4, BookGoto
<1>6. ASSUME NEW r \in Request, Issue(r) PROVE [Abstract!Next]_<<Book, Desk>>
  <2>1. req[r] \in InFlight /\ req[r].kind \in Kinds /\ Book' = Book /\ req[r].pc = "issue"
    BY <1>1, <1>6, InFlightFields, SameBook DEF Issue
  <2> QED
    BY <1>6, <2>1, BookGoto, BookEnd DEF Issue, Kinds
<1>7. ASSUME NEW r \in Request, Answer(r) PROVE [Abstract!Next]_<<Book, Desk>>
  <2>1. req[r] \in InFlight /\ req[r].kind = "login" /\ Book' = Book /\ req[r].pc = "answer"
    BY <1>1, <1>7, SameBook DEF Answer, HandlersFit
  <2>2. CASE Done(r, "OK")
    <3>1. Told(Answered(req[r], "OK")) = Told(req[r])
      BY <2>1, Shown, ShownInFlight
    <3> QED
      BY <2>1, <2>2, <3>1, Stays DEF Done
  <2>3. CASE Done(r, "ACCOUNT_NOT_FOUND")
    BY <2>1, <2>3, BookEnd
  <2> QED
    BY <1>7, <2>2, <2>3 DEF Answer
<1>8. ASSUME NEW r \in Request, Fail(r) PROVE Abstract!Next
  <2>1. Done(r, "ERROR") /\ Told(Answered(req[r], "ERROR")) = Quiet
    BY <1>8, Shown DEF Fail
  <2>2. CASE users' = users
    BY <2>1, <2>2, SameBook, BookEnd
  <2>3. CASE \E a \in Account : Insert(r, a)
    BY <2>1, <2>3, BookInsert DEF Done
  <2> QED
    BY <1>8, <2>2, <2>3 DEF Fail
<1>9. ASSUME NEW r \in Request, Leave(r) PROVE Abstract!Next
  BY <1>9, SameBook, Shown, Leaves DEF Leave
<1>10. CASE Outside
  <2>1. ASSUME NEW a \in Account, Delete(a) PROVE Abstract!Next
    BY <2>1, DeskStays, Closes DEF Delete
  <2>2. ASSUME NEW a \in Account, NEW p \in Password, ChangePassword(a, p) PROVE Abstract!Next
    <3>1. users' = Rewritten(a, p, settings)
      BY <2>2 DEF ChangePassword, Rewritten, TypeOK
    <3> QED
      BY <2>2, <3>1, DeskStays, Rewrites DEF ChangePassword
  <2>3. ASSUME NEW s \in Release, Deploy(s) PROVE UNCHANGED <<Book, Desk>>
    BY <2>3, SameBook, DeskStays DEF Deploy
  <2> QED
    BY <1>10, <2>1, <2>2, <2>3 DEF Outside
<1>11. CASE UNCHANGED vars
  BY <1>11, SameBook, DeskStays DEF vars
<1> QED
  BY <1>2, <1>3, <1>4, <1>5, <1>6, <1>7, <1>8, <1>9, <1>10, <1>11, BookVisit, BookFind DEF Next, Step

----------------------------------------------------------------------------
(***************************************************************************)
(* The theorem.                                                            *)
(***************************************************************************)
\* HandlersFit for one request.
Fits(q) == /\ q.pc \in {"create", "reload"} => q.kind = "register"
           /\ q.pc \in {"find", "rehash", "answer"} => q.kind = "login"

\* A request that ends fits, and one that goes on as its kind does.
LEMMA FitsOn ==
  ASSUME TypeOK, HandlersFit, NEW r \in Request, req[r] \in InFlight
  PROVE  /\ \A answer : Done(r, answer) => Fits(req'[r])
         /\ Goto(r, "issue") => Fits(req'[r])
         /\ req[r].kind = "login" /\ Goto(r, "answer") => Fits(req'[r])
<1>1. ASSUME NEW answer, Done(r, answer) PROVE Fits(req'[r])
  BY <1>1 DEF Done, Answered, Fits, TypeOK
<1>2. ASSUME NEW pc \in {"issue", "answer"}, Goto(r, pc)
      PROVE  req'[r].pc = pc /\ req'[r].kind = req[r].kind
  BY <1>2 DEF Goto, TypeOK, InFlight
<1> QED
  BY <1>1, <1>2 DEF Fits

LEMMA HandlersStep ==
  ASSUME TypeOK, HandlersFit, [Next]_vars
  PROVE  HandlersFit'
<1>1. SUFFICES ASSUME NEW x \in Request PROVE Fits(req'[x])
  BY <1>1 DEF Fits, HandlersFit
<1>2. CASE req'[x] = req[x]
  BY <1>2 DEF HandlersFit, Fits
<1>3. ASSUME NEW r \in Request, r # x, Step(r) \/ Visit(r) \/ RehashFails(r) \/ Fail(r)
      PROVE  req'[x] = req[x]
  BY <1>3 DEF Step, Visit, Login, Register, Create, CreateRefused, Reload, Find, Rehash, RehashFails,
              Issue, Answer, Fail, Leave, Goto, Done, TypeOK
<1>4. CASE Visit(x)
  <2>1. \A asked : Fits(Arrival("login", asked)) /\ Fits(Arrival("register", asked))
    BY DEF Fits, Arrival
  <2>2. \A q, answer : Fits(Answered(q, answer))
    BY DEF Fits, Answered
  <2> QED
    BY <1>4, <2>1, <2>2 DEF Visit, Login, Register, TypeOK
<1>5. ASSUME NEW a \in Account, Create(x, a) PROVE Fits(req'[x])
  <2>1. req[x] \in InFlight /\ req[x].kind = "register"
    BY <1>5, Kinds3 DEF Create, Insert, HandlersFit, TypeOK
  <2>2. req'[x].pc = "reload" /\ req'[x].kind = "register"
    BY <1>5, <2>1 DEF Create, InFlight, TypeOK
  <2> QED
    BY <2>2 DEF Fits
<1>6. CASE CreateRefused(x) \/ Reload(x) \/ Rehash(x) \/ RehashFails(x) \/ Issue(x) \/ Answer(x) \/ Fail(x)
  <2>1. req[x] \in InFlight
    BY <1>6, Kinds3 DEF CreateRefused, Reload, Rehash, RehashFails, Issue, Answer, Fail, TypeOK
  <2> QED
    BY <1>6, <2>1, FitsOn DEF CreateRefused, Reload, Rehash, RehashFails, Issue, Answer, Fail
<1>7. CASE Find(x)
  <2>1. req[x] \in InFlight /\ req[x].kind = "login"
    BY <1>7, Kinds3 DEF Find, HandlersFit, TypeOK
  <2>2. CASE Done(x, "INVALID_CREDENTIALS")
    BY <2>1, <2>2, FitsOn
  <2>3. ASSUME NEW a \in Account,
               req' = [req EXCEPT ![x] = IF Stale(users[a], req[x].set)
                           THEN [req[x] EXCEPT !.pc = "rehash", !.account = a, !.row = users[a]]
                           ELSE [req[x] EXCEPT !.pc = "issue", !.account = a]]
        PROVE  Fits(req'[x])
    <3>1. /\ [req[x] EXCEPT !.pc = "rehash", !.account = a, !.row = users[a]].kind = "login"
          /\ [req[x] EXCEPT !.pc = "rehash", !.account = a, !.row = users[a]].pc = "rehash"
          /\ [req[x] EXCEPT !.pc = "issue", !.account = a].pc = "issue"
      BY <2>1 DEF InFlight
    <3> QED
      BY <2>3, <3>1 DEF Fits, TypeOK
  <2> QED
    BY <1>7, <2>2, <2>3 DEF Find, LiveAccounts
<1>8. CASE Leave(x)
  BY <1>8 DEF Leave, Fits, NoRequest, TypeOK
<1>9. CASE Outside \/ UNCHANGED vars
  BY <1>2, <1>9 DEF Outside, Delete, ChangePassword, Deploy, vars
<1> QED
  BY <1>2, <1>3, <1>4, <1>5, <1>6, <1>7, <1>8, <1>9 DEF Next, Step

LEMMA BookInit == Init => Abstract!Init /\ HandlersFit
<1> SUFFICES ASSUME Init PROVE Abstract!Init /\ HandlersFit
  OBVIOUS
<1>1. Book = {}
  BY DEF Init, NoRow, Book, LiveAccounts, Live
<1>2. Desk = [r \in Request |-> Abstract!Nobody]
  BY DEF Init, NoRequest, Desk, Told, Quiet, Abstract!Nobody
<1>3. HandlersFit
  BY DEF Init, NoRequest, HandlersFit
<1> QED
  BY <1>1, <1>2, <1>3 DEF Abstract!Init

\* AuthAccounts implements AccountBook: whatever the statements of concurrent
\* requests, failures and deployments do, an owner sees one account per
\* address whose password only the owner changes, and sign-ins decided by it.
THEOREM BookKept == Spec => KeepsBook
<1>1. Init => Abstract!Init /\ HandlersFit
  BY BookInit
<1>2. AccountsInv /\ HandlersFit /\ [Next]_vars => HandlersFit'
  BY HandlersStep DEF AccountsInv
<1>3. AccountsInv /\ HandlersFit /\ [Next]_vars => [Abstract!Next]_<<Book, Desk>>
  BY BookStep, AccountsAssumption
<1> QED
  BY <1>1, <1>2, <1>3, Invariance, PTL DEF Spec, KeepsBook, Abstract!Spec

----------------------------------------------------------------------------
(***************************************************************************)
(* What an answer OK means.                                                *)
(***************************************************************************)
\* Who is about to be answered has a session.
SessionIssued == \A r \in Request : req[r].pc = "answer" => req[r].account \in sessions

\* A request moves by its own step only, and sessions stay.
LEMMA OwnStep ==
  ASSUME TypeOK, [Next]_vars, NEW x \in Request, req'[x] # req[x]
  PROVE  \/ Visit(x) \/ Leave(x) \/ CreateRefused(x) \/ Reload(x) \/ Find(x) \/ Rehash(x) \/ RehashFails(x)
         \/ Issue(x) \/ Answer(x) \/ Fail(x) \/ \E a \in Account : Create(x, a)
<1>1. ASSUME NEW r \in Request, r # x, Step(r) \/ Visit(r) \/ RehashFails(r) \/ Fail(r)
      PROVE  req'[x] = req[x]
  BY <1>1 DEF Step, Visit, Login, Register, Create, CreateRefused, Reload, Find, Rehash, RehashFails,
              Issue, Answer, Fail, Leave, Goto, Done, TypeOK
<1>2. ~(Outside \/ UNCHANGED vars)
  BY DEF Outside, Delete, ChangePassword, Deploy, vars
<1> QED
  BY <1>1, <1>2 DEF Next, Step

LEMMA SessionsStay == ASSUME [Next]_vars PROVE sessions \subseteq sessions'
<1>1. ASSUME NEW r \in Request, Step(r) \/ Visit(r) \/ RehashFails(r) PROVE sessions \subseteq sessions'
  BY <1>1 DEF Step, Visit, Login, Register, Create, CreateRefused, Reload, Find, Rehash, RehashFails,
              Issue, Answer, Leave
<1>2. ASSUME NEW r \in Request, Fail(r) PROVE sessions \subseteq sessions'
  BY <1>2 DEF Fail
<1>3. CASE Outside \/ UNCHANGED vars
  BY <1>3 DEF Outside, Delete, ChangePassword, Deploy, vars
<1> QED
  BY <1>1, <1>2, <1>3 DEF Next

\* What a statement leaves of its request: an answer, or the next place.
LEMMA DoneMeans ==
  ASSUME TypeOK, NEW r \in Request, req[r] \in InFlight
  PROVE  /\ \A answer : Done(r, answer) => /\ req'[r].pc = "done" /\ req'[r].answer = answer
                                           /\ req'[r].kind = req[r].kind
                                           /\ answer = "OK" => req'[r].account = req[r].account
         /\ \A pc : Goto(r, pc) => req'[r].pc = pc /\ req'[r].account = req[r].account
<1>1. ASSUME NEW answer, Done(r, answer)
      PROVE  /\ req'[r].pc = "done" /\ req'[r].answer = answer /\ req'[r].kind = req[r].kind
             /\ answer = "OK" => req'[r].account = req[r].account
  BY <1>1 DEF Done, Answered, TypeOK
<1>2. ASSUME NEW pc, Goto(r, pc) PROVE req'[r].pc = pc /\ req'[r].account = req[r].account
  BY <1>2 DEF Goto, TypeOK, InFlight
<1> QED
  BY <1>1, <1>2

\* Where a step that is neither leads a request.
LEMMA ElsewherePlaces ==
  ASSUME TypeOK, NEW r \in Request,
         Visit(r) \/ Leave(r) \/ Find(r) \/ \E a \in Account : Create(r, a)
  PROVE  req'[r].pc # "answer" /\ ~(req'[r].pc = "done" /\ req'[r].answer = "OK")
<1>1. CASE Visit(r)
  <2>1. \A q, answer : Answered(q, answer).answer = answer
    BY DEF Answered
  <2>2. \A q, answer : Answered(q, answer).pc = "done"
    BY DEF Answered
  <2>3. \A kind, asked : Arrival(kind, asked).pc \in {"find", "create"}
    BY DEF Arrival
  <2> QED
    BY <1>1, <2>1, <2>2, <2>3 DEF Visit, Login, Register, TypeOK
<1>2. CASE Leave(r)
  BY <1>2 DEF Leave, NoRequest, TypeOK
<1>3. CASE Find(r)
  <2>1. req[r] \in InFlight
    BY <1>3, Kinds3 DEF Find, TypeOK
  <2>2. CASE Done(r, "INVALID_CREDENTIALS")
    BY <2>1, <2>2, DoneMeans
  <2>3. ASSUME NEW a \in Account,
               req' = [req EXCEPT ![r] = IF Stale(users[a], req[r].set)
                           THEN [req[r] EXCEPT !.pc = "rehash", !.account = a, !.row = users[a]]
                           ELSE [req[r] EXCEPT !.pc = "issue", !.account = a]]
        PROVE  req'[r].pc \in {"rehash", "issue"}
    <3>1. /\ [req[r] EXCEPT !.pc = "rehash", !.account = a, !.row = users[a]].pc = "rehash"
          /\ [req[r] EXCEPT !.pc = "issue", !.account = a].pc = "issue"
      BY <2>1 DEF InFlight
    <3> QED
      BY <2>3, <3>1 DEF TypeOK
  <2> QED
    BY <1>3, <2>2, <2>3, <2>1, DoneMeans DEF Find, LiveAccounts
<1>4. ASSUME NEW a \in Account, Create(r, a) PROVE req'[r].pc = "reload"
  <2>1. req[r] \in InFlight
    BY <1>4, Kinds3 DEF Create, Insert, TypeOK
  <2> QED
    BY <1>4, <2>1 DEF Create, InFlight, TypeOK
<1> QED
  BY <1>1, <1>2, <1>3, <1>4

LEMMA IssuedStep ==
  ASSUME TypeOK, SessionIssued, [Next]_vars
  PROVE  SessionIssued'
<1> SUFFICES ASSUME NEW x \in Request, req'[x].pc = "answer" PROVE req'[x].account \in sessions'
  BY DEF SessionIssued
<1>1. CASE req'[x] = req[x]
  BY <1>1, SessionsStay DEF SessionIssued
<1>2. CASE Issue(x)
  <2>1. req[x] \in InFlight
    BY <1>2, Kinds3 DEF Issue, TypeOK
  <2> QED
    BY <1>2, <2>1, DoneMeans DEF Issue
<1>3. CASE CreateRefused(x) \/ Reload(x) \/ Rehash(x) \/ RehashFails(x) \/ Answer(x) \/ Fail(x)
  <2>1. req[x] \in InFlight
    BY <1>3, Kinds3 DEF CreateRefused, Reload, Rehash, RehashFails, Answer, Fail, TypeOK
  <2> QED
    BY <1>3, <2>1, DoneMeans DEF CreateRefused, Reload, Rehash, RehashFails, Answer, Fail
<1> QED
  BY <1>1, <1>2, <1>3, OwnStep, ElsewherePlaces

LEMMA AnswerStep ==
  ASSUME TypeOK, HandlersFit, SessionIssued, [Next]_vars, NEW x \in Request,
         req'[x].pc = "done", req[x].pc # "done", req'[x].answer = "OK"
  PROVE  req'[x].account \in sessions' /\ (req'[x].kind = "login" => Live(req'[x].account))
<1>1. req'[x] # req[x]
  OBVIOUS
<1>2. CASE Issue(x)
  <2>1. req[x] \in InFlight
    BY <1>2, Kinds3 DEF Issue, TypeOK
  <2>2. req[x].kind # "login" /\ Done(x, "OK")
    BY <1>2, <2>1, DoneMeans DEF Issue
  <2> QED
    BY <1>2, <2>1, <2>2, DoneMeans DEF Issue
<1>3. CASE Answer(x)
  <2>1. req[x] \in InFlight
    BY <1>3, Kinds3 DEF Answer, TypeOK
  <2>2. Live(req[x].account) /\ Done(x, "OK")
    BY <1>3, <2>1, DoneMeans DEF Answer
  <2> QED
    BY <1>3, <2>1, <2>2, DoneMeans DEF Answer, SessionIssued
<1>4. CASE CreateRefused(x) \/ Reload(x) \/ Rehash(x) \/ RehashFails(x) \/ Fail(x)
  <2>1. req[x] \in InFlight
    BY <1>4, Kinds3 DEF CreateRefused, Reload, Rehash, RehashFails, Fail, TypeOK
  <2> QED
    BY <1>4, <2>1, DoneMeans DEF CreateRefused, Reload, Rehash, RehashFails, Fail
<1> QED
  BY <1>1, <1>2, <1>3, <1>4, OwnStep, ElsewherePlaces

\* Who is told OK has a session, and a login is told so only of an account that is live
\* when the controller reads it back, whatever was deleted in between.
THEOREM OKIsSignedIn == Spec => OKMeansSignedIn
<1>1. Init => SessionIssued /\ HandlersFit
  BY DEF Init, NoRequest, SessionIssued, HandlersFit
<1>2. AccountsInv /\ SessionIssued /\ HandlersFit /\ [Next]_vars => SessionIssued' /\ HandlersFit'
  BY IssuedStep, HandlersStep DEF AccountsInv
<1>3. AccountsInv /\ SessionIssued /\ HandlersFit /\ [Next]_vars => [\A r \in Request : AnsweredOK(r)]_vars
  BY AnswerStep DEF AccountsInv, AnsweredOK
<1> QED
  BY <1>1, <1>2, <1>3, Invariance, PTL DEF Spec, OKMeansSignedIn
=============================================================================
