---------------------------- MODULE AuthAccounts ----------------------------
(***************************************************************************)
(* apps/backend/src/auth/auth.service.ts and auth.controller.ts: register, *)
(* login and the re-hash a login makes on its way.  A step of a request is *)
(* one statement at the database and what the handler does until the next; *)
(* any of them may fail, with or without taking effect, and requests of    *)
(* the process a deployment replaces run on with its settings.             *)
(* Password changes and deletions are not in this code; its guards expect  *)
(* them.  A hash is its password and its cost: two of one password at one  *)
(* cost are not told apart.                                                *)
(***************************************************************************)
EXTENDS Naturals, FiniteSets

CONSTANTS Account,    \* user ids: uuids, never drawn twice
          Request, Address, Password,
          Short,      \* the passwords below MIN_PASSWORD_LENGTH
          Release, First,  \* settings of a deployment, [scheme, cost], and of the first one
          NoAccount,
          MaxMishaps, \* bound: failures
          MaxReplaced \* bound: deployments that replace another

ASSUME AccountsAssumption ==
  /\ Short \subseteq Password /\ NoAccount \notin Account /\ First \in Release
  /\ {MaxMishaps, MaxReplaced} \subseteq Nat

VARIABLES users,     \* the table: a row per id
          sessions,  \* the accounts with a session row
          settings,  \* PASSWORD_HASH_VERSION and AUTH_ARGON2_* of the newest process
          replaced,  \* the settings of earlier deployments
          req, mishaps,
          chosen     \* history: the password each account's owner chose last

vars == <<users, sessions, settings, replaced, req, mishaps, chosen>>

\* An address as typed, and as normalizeEmail leaves it: trimmed, in lower case.
Spelling == Address \X {"plain", "padded"}
\* Mutant: stored as typed.
AsTyped(s) == s
normalizeEmail(s) == <<s[1], "plain">>

NoRow == [there |-> FALSE]
Hash(p, c) == [pw |-> p, cost |-> c]
UserRow(e, p, s) ==
  [there |-> TRUE, deleted |-> FALSE, email |-> e, hash |-> Hash(p, s.cost), scheme |-> s.scheme]
Live(a) == users[a].there /\ ~users[a].deleted
LiveAccounts == {a \in Account : Live(a)}

\* rehashPasswordIfStale: another scheme, or another cost than the configured one.
Stale(row, s) == row.scheme # s.scheme \/ row.hash.cost # s.cost

\* A request: what it asked, the settings of its process, and what it has read.
NoRequest == [pc |-> "free"]
Nothing == [email |-> "none", pw |-> "none"]
Arrival(kind, asked) ==
  [pc |-> IF kind = "login" THEN "find" ELSE "create", kind |-> kind, asked |-> asked,
   set |-> settings, account |-> NoAccount, row |-> NoRow]
Answered(q, answer) ==
  [pc |-> "done", kind |-> q.kind, answer |-> answer,
   account |-> IF answer = "OK" THEN q.account ELSE NoAccount,
   asked |-> IF q.kind = "login" /\ answer \in {"OK", "INVALID_CREDENTIALS"}
             THEN q.asked ELSE Nothing]
Goto(r, pc) == req' = [req EXCEPT ![r].pc = pc, ![r].row = NoRow]
Done(r, answer) == req' = [req EXCEPT ![r] = Answered(req[r], answer)]

Init ==
  /\ users = [a \in Account |-> NoRow] /\ sessions = {}
  /\ settings = First /\ replaced = {}
  /\ req = [r \in Request |-> NoRequest] /\ mishaps = 0 /\ chosen = [a \in Account |-> Nothing.pw]

----------------------------------------------------------------------------
\* Consent and the length are refused before the first statement.  Bound: no
\* more registrations than ids left.
Unborn == {a \in Account : ~users[a].there}
IdLeft == Cardinality({r \in Request : req[r].pc = "create"}) < Cardinality(Unborn)
Register(r, e, p, consent) ==
  /\ req[r].pc = "free" /\ IdLeft
  /\ LET q == Arrival("register", [email |-> e, pw |-> p])
     IN  req' = [req EXCEPT ![r] = IF ~consent THEN Answered(q, "CONSENT_REQUIRED")
                                   ELSE IF p \in Short THEN Answered(q, "INVALID_CREDENTIALS")
                                   ELSE q]
  /\ UNCHANGED <<users, sessions, settings, replaced, mishaps, chosen>>

Login(r, e, p) ==
  /\ req[r].pc = "free"
  /\ req' = [req EXCEPT ![r] = Arrival("login", [email |-> e, pw |-> p])]
  /\ UNCHANGED <<users, sessions, settings, replaced, mishaps, chosen>>

\* unique_active_user_email: one live row per email.
Taken(e) == \E a \in Account : Live(a) /\ users[a].email = e

\* user.create.  The fresh id is the next of a fixed order: nothing depends on
\* which it is.
FreshId == CHOOSE a \in Unborn : TRUE
Insert(r, a) ==
  /\ req[r].pc = "create" /\ a \in Unborn /\ a = FreshId /\ ~Taken(req[r].asked.email)
  /\ users' = [users EXCEPT ![a] = UserRow(req[r].asked.email, req[r].asked.pw, req[r].set)]
  /\ chosen' = [chosen EXCEPT ![a] = req[r].asked.pw]

Create(r, a) ==
  /\ Insert(r, a)
  /\ req' = [req EXCEPT ![r].pc = "reload", ![r].account = a]
  /\ UNCHANGED <<sessions, settings, replaced, mishaps>>

CreateRefused(r) ==
  /\ req[r].pc = "create" /\ Taken(req[r].asked.email)
  /\ Done(r, "EMAIL_ALREADY_REGISTERED")
  /\ UNCHANGED <<users, sessions, settings, replaced, mishaps, chosen>>

\* issueSessionForAccount: the account is looked up again.
Reload(r) ==
  /\ req[r].pc = "reload"
  /\ IF Live(req[r].account) THEN Goto(r, "issue") ELSE Done(r, "ACCOUNT_NOT_FOUND")
  /\ UNCHANGED <<users, sessions, settings, replaced, mishaps, chosen>>

\* login: the account, then argon2Verify and whether the hash is stale.
\* Mutant: the promise of argon2Verify is not awaited, and is truthy.
VerifiedUnawaited(row, p) == TRUE
Verified(row, p) == row.hash.pw = p
Find(r) ==
  /\ req[r].pc = "find"
  /\ LET q == req[r]
         found == {a \in LiveAccounts : users[a].email = q.asked.email}
     IN  \/ found = {} /\ Done(r, "INVALID_CREDENTIALS")
         \/ \E a \in found : ~Verified(users[a], q.asked.pw) /\ Done(r, "INVALID_CREDENTIALS")
         \/ \E a \in found :
              /\ Verified(users[a], q.asked.pw)
              /\ req' = [req EXCEPT ![r] = IF Stale(users[a], q.set)
                           THEN [q EXCEPT !.pc = "rehash", !.account = a, !.row = users[a]]
                           ELSE [q EXCEPT !.pc = "issue", !.account = a]]
  /\ UNCHANGED <<users, sessions, settings, replaced, mishaps, chosen>>

\* updateMany: only the row whose hash is still the one just verified.
\* Mutants: one of its two conditions is missing.
GuardedByHash(row, read) == row.hash = read.hash
GuardedByRow(row, read) == ~row.deleted
Guarded(row, read) == ~row.deleted /\ row.hash = read.hash
\* Mutant: the scheme is not written along.
WriteHashOnly(q) ==
  users' = IF Guarded(users[q.account], q.row)
           THEN [users EXCEPT ![q.account].hash = Hash(q.asked.pw, q.set.cost)]
           ELSE users
WriteHash(q) ==
  users' = IF Guarded(users[q.account], q.row)
           THEN [users EXCEPT ![q.account].hash = Hash(q.asked.pw, q.set.cost),
                              ![q.account].scheme = q.set.scheme]
           ELSE users

Rehash(r) ==
  /\ req[r].pc = "rehash"
  /\ WriteHash(req[r]) /\ Goto(r, "issue")
  /\ UNCHANGED <<sessions, settings, replaced, mishaps, chosen>>

\* A failed re-hash is logged, and the login goes on.
RehashFails(r) ==
  /\ req[r].pc = "rehash" /\ mishaps < MaxMishaps /\ mishaps' = mishaps + 1
  /\ WriteHash(req[r]) \/ UNCHANGED users
  /\ Goto(r, "issue")
  /\ UNCHANGED <<sessions, settings, replaced, chosen>>

\* issueSession; the controller of login then reads the account once more.
Issue(r) ==
  /\ req[r].pc = "issue"
  /\ sessions' = sessions \cup {req[r].account}
  /\ IF req[r].kind = "login" THEN Goto(r, "answer") ELSE Done(r, "OK")
  /\ UNCHANGED <<users, settings, replaced, mishaps, chosen>>

\* getUserById
\* Mutant: the controller answers from what login read.
AnswerUnread(r) ==
  /\ req[r].pc = "answer" /\ Done(r, "OK")
  /\ UNCHANGED <<users, sessions, settings, replaced, mishaps, chosen>>
Answer(r) ==
  /\ req[r].pc = "answer"
  /\ Done(r, IF Live(req[r].account) THEN "OK" ELSE "ACCOUNT_NOT_FOUND")
  /\ UNCHANGED <<users, sessions, settings, replaced, mishaps, chosen>>

\* Any other failed statement is a 500, whether or not it took effect.
Fail(r) ==
  /\ req[r].pc \in {"create", "reload", "find", "issue", "answer"}
  /\ mishaps < MaxMishaps /\ mishaps' = mishaps + 1
  /\ Done(r, "ERROR")
  /\ \/ UNCHANGED <<users, sessions, chosen>>
     \/ (\E a \in Account : Insert(r, a)) /\ UNCHANGED sessions
     \/ req[r].pc = "issue" /\ sessions' = sessions \cup {req[r].account}
        /\ UNCHANGED <<users, chosen>>
  /\ UNCHANGED <<settings, replaced>>

Leave(r) ==
  /\ req[r].pc = "done" /\ req' = [req EXCEPT ![r] = NoRequest]
  /\ UNCHANGED <<users, sessions, settings, replaced, mishaps, chosen>>

----------------------------------------------------------------------------
ChangePassword(a, p) ==
  /\ Live(a) /\ p \notin Short
  /\ users' = [users EXCEPT ![a].hash = Hash(p, settings.cost), ![a].scheme = settings.scheme]
  /\ chosen' = [chosen EXCEPT ![a] = p]
  /\ UNCHANGED <<sessions, settings, replaced, req, mishaps>>

Delete(a) ==
  /\ Live(a) /\ users' = [users EXCEPT ![a].deleted = TRUE]
  /\ UNCHANGED <<sessions, settings, replaced, req, mishaps, chosen>>

Deploy(s) ==
  /\ s # settings /\ s \notin replaced /\ Cardinality(replaced) < MaxReplaced
  /\ settings' = s /\ replaced' = replaced \cup {settings}
  /\ UNCHANGED <<users, sessions, req, mishaps, chosen>>

Step(r) == CreateRefused(r) \/ Reload(r) \/ Find(r) \/ Rehash(r) \/ Issue(r) \/ Answer(r) \/ Leave(r)
           \/ \E a \in Account : Create(r, a)
Visit(r) == \E s \in Spelling, p \in Password :
              \/ Login(r, normalizeEmail(s), p)
              \/ \E consent \in BOOLEAN : Register(r, normalizeEmail(s), p, consent)
Outside == \/ \E a \in Account : Delete(a) \/ \E p \in Password : ChangePassword(a, p)
           \/ \E s \in Release : Deploy(s)

Next == Outside \/ \E r \in Request : Step(r) \/ Visit(r) \/ RehashFails(r) \/ Fail(r)
\* The event loop runs a handler whose statement has been answered.
Fairness == \A r \in Request : WF_vars(Step(r))
Spec == Init /\ [][Next]_vars
FairSpec == Spec /\ Fairness

----------------------------------------------------------------------------
\* A stored hash and its scheme come from one release.
Stored ==
  [there : {TRUE}, deleted : BOOLEAN, email : Spelling, scheme : {s.scheme : s \in Release},
   hash : [pw : Password, cost : {s.cost : s \in Release}]]
OneRelease(row) == \E s \in Release : row.scheme = s.scheme /\ row.hash.cost = s.cost
Row == {NoRow} \cup {row \in Stored : OneRelease(row)}
Asked == [email : Spelling, pw : Password]
Kinds == {"register", "login"}
InFlight ==
  [pc : {"create", "reload", "find", "rehash", "issue", "answer"}, kind : Kinds, asked : Asked,
   set : Release, account : Account \cup {NoAccount}, row : Row]
Reply ==
  [pc : {"done"}, kind : Kinds, asked : Asked \cup {Nothing}, account : Account \cup {NoAccount},
   answer : {"OK", "ERROR", "CONSENT_REQUIRED", "INVALID_CREDENTIALS",
             "EMAIL_ALREADY_REGISTERED", "ACCOUNT_NOT_FOUND"}]

\* Types; a hash is stored together with the scheme that made it (register,
\* rehashPasswordIfStale).
TypeOK ==
  /\ users \in [Account -> Row] /\ sessions \subseteq Account
  /\ settings \in Release /\ replaced \subseteq Release
  /\ req \in [Request -> {NoRequest} \cup InFlight \cup Reply] /\ mishaps \in Nat
  /\ chosen \in [Account -> Password \cup {Nothing.pw}]

\* Two registrations of one email, however they interleave and fail, and
\* whatever was deleted and registered again, leave one live account for it
\* (register, unique_active_user_email).
OneLiveAccount ==
  \A a, b \in LiveAccounts : users[a].email[1] = users[b].email[1] => a = b

\* What a login is about to write is a hash of the password it verified, and
\* every step after the look-up is about an account that exists under the
\* address asked for: the row may have changed since, the account may be
\* deleted, but it is never another's (login, rehashPasswordIfStale).
VerifiedRow ==
  \A r \in Request :
    /\ req[r].pc = "rehash" => req[r].row.there /\ req[r].row.hash.pw = req[r].asked.pw
    /\ req[r].pc \in {"rehash", "reload", "issue", "answer"} =>
         /\ req[r].account \in Account /\ users[req[r].account].there
         /\ users[req[r].account].email = req[r].asked.email

\* A live account opens with the password its owner chose last: a re-hash
\* stores that password again or nothing, even if the owner, or another login,
\* replaced the hash while it was being derived (rehashPasswordIfStale).
OpensWithOwnPassword == \A a \in LiveAccounts : users[a].hash.pw = chosen[a]

\* A deleted row stays as it was left: not even the re-hash of a login that
\* read it before the deletion writes to it (deletedAt in its where clause).
DeletedStays == [][\A a \in Account : users[a].there /\ ~Live(a) => users'[a] = users[a]]_vars

\* The issued session goes out with an answer: whoever is told OK has a
\* session, and a login is told OK only of an account that is live when it is
\* read back, although the session was issued without a look at deletedAt
\* (the controller's getUserById after login).
AnsweredOK(r) ==
  req'[r].pc = "done" /\ req[r].pc # "done" =>
    (req'[r].answer = "OK" =>
      /\ req'[r].account \in sessions'
      /\ req'[r].kind = "login" => Live(req'[r].account))
OKMeansSignedIn == [][\A r \in Request : AnsweredOK(r)]_vars

\* After the last deployment, an account whose owner keeps signing in comes to
\* be hashed with its settings and stays so, whatever races, failures and
\* requests of the earlier process did before (rehashPasswordIfStale).
SignsIn(a) ==
  \E r \in Request : /\ req[r].pc = "done"
                     /\ req[r].answer = "OK" /\ req[r].account = a /\ req[r].kind = "login"
UsedAccountsHeal ==
  \A a \in Account : []<>SignsIn(a) => <>[](users[a].there /\ ~Stale(users[a], settings))

\* The promise: AccountBook, with a re-hash as a stutter.
Book == {[email |-> users[a].email, pw |-> users[a].hash.pw] : a \in LiveAccounts}
Quiet == [said |-> "nothing"]
Told(q) ==
  IF q.pc = "free" THEN Quiet
  ELSE IF q.kind = "register" THEN Quiet
  ELSE IF q.pc = "find" THEN [said |-> "asked", entry |-> q.asked]
  ELSE IF q.pc # "done" \/ q.answer = "OK" THEN [said |-> "yes", entry |-> q.asked]
  ELSE IF q.answer = "INVALID_CREDENTIALS" THEN [said |-> "no", entry |-> q.asked]
  ELSE Quiet
Desk == [r \in Request |-> Told(req[r])]
Abstract == INSTANCE AccountBook WITH Visitor <- Request, Email <- Spelling, book <- Book, desk <- Desk

\* Each sign-in is decided by the password an account has at one instant of
\* it, a registration opens one account or none, and a re-hash cannot be seen
\* (register, login).
KeepsBook == Abstract!Spec
=============================================================================
