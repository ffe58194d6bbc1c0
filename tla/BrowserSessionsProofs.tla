------------------------ MODULE BrowserSessionsProofs ------------------------
(***************************************************************************)
(* Theorems about BrowserSessions, for any number of tabs and tokens and   *)
(* any intervals in the order the configuration enforces: a browser is     *)
(* taken for two only when an answer with a rotated token was lost, no     *)
(* page of one that is signed in is refused in calm weather, the jar never *)
(* moves back, and the backend below keeps the promise of SignInLineage.   *)
(***************************************************************************)
EXTENDS BrowserSessions, SequenceTheorems, FiniteSetTheorems, TLAPS

(***************************************************************************)
(* What holds of the sessions table, whoever calls.                        *)
(***************************************************************************)
Kin(t, u) == rows[t].family = rows[u].family

TableOK == rows \in Seq(Row) /\ Len(rows) <= MaxTokens /\ now \in Nat

\* No row is dated in the future; a sign-in is named by its first token; only a spent
\* token is retired, and not before its age.
Dated ==
  \A t \in DOMAIN rows :
    /\ rows[t].family <= t /\ rows[t].issuedAt <= now /\ rows[t].rotatedAt <= now
    /\ rows[t].rotatedAt # Never =>
         rows[t].used /\ rows[t].rotatedAt - rows[t].issuedAt >= RotateAfter

\* The tokens of a sign-in are minted further apart than a grace window.
Spaced ==
  \A t, u \in DOMAIN rows : t < u /\ Kin(t, u) => rows[u].issuedAt - rows[t].issuedAt > Grace

\* Of two tokens that are not revoked the older one was retired before the other was issued.
Ordered ==
  \A t, u \in DOMAIN rows :
    t < u /\ Kin(t, u) /\ Live(t) /\ Live(u) => Retired(t) /\ rows[t].rotatedAt <= rows[u].issuedAt

\* A retired token was replaced at that instant, and nothing was minted after that
\* unless the successor was spent.
Follows(x, t) ==
  /\ t < x /\ Kin(t, x) /\ rows[x].issuedAt = rows[t].rotatedAt
  /\ (\E w \in DOMAIN rows : Kin(t, w) /\ rows[w].issuedAt > rows[t].rotatedAt) => rows[x].used
Followed == \A t \in DOMAIN rows : Retired(t) => \E x \in DOMAIN rows : Follows(x, t)

\* A current token with younger ones was restored, when they were past their window.
Aged ==
  \A t, u \in DOMAIN rows : t < u /\ Kin(t, u) /\ Current(t) => now - rows[u].issuedAt > Grace

Chain == TableOK /\ Dated /\ Spaced /\ Ordered /\ Followed /\ Aged

(***************************************************************************)
(* What holds of the browser.                                              *)
(***************************************************************************)
Bindings == [token : Nat, expiresAt : Int, rotateAt : Int]
Calling ==
  [at : {"sent", "rotating", "rendering", "revoking", "signing in"},
   kind : {"nav", "post", "guest", "logout", "login"},
   since : Nat, asked : Nat, token : Nat, session : Nat, binding : Bindings]
Answers ==
  [at : {"answered"}, goto : {"stay", "login", "logout", "dashboard"},
   since : Nat, session : Nat \cup {Clear}, binding : Bindings]
Redirected == [at : {"redirected"}, kind : {"nav", "guest", "logout"}, since : Nat]
Requests == {Idle} \cup Calling \cup Answers \cup Redirected

HistoryOK == alarm \in BOOLEAN /\ strayed \in BOOLEAN /\ losses \in 0..MaxLosses

Shapes ==
  /\ req \in [Slot -> Requests]
  /\ late = {} \/ \E c \in [token : Nat, since : Nat] : late = {c}
  /\ jar \in [session : Nat, binding : Bindings]
  /\ weather \in {"calm", "flaky"} /\ now <= MaxClock[weather]
  /\ HistoryOK
  /\ \A s \in Slot : req[s].at \in {"rotating", "revoking", "signing in"} => req[s].session = Never

\* A request's token is at work; its answer sets the session cookie.
Presents(s, t) == req[s].at \in {"rotating", "rendering"} /\ req[s].token = t
Delivers(s, t) == req[s].at \in {"rendering", "answered"} /\ req[s].session = t

\* All tokens in the browser's hands were issued, those it does not have yet under way to it.
Issued == {Never} \cup DOMAIN rows
Genuine ==
  /\ {jar.session, jar.binding.token} \subseteq Issued
  /\ \A s \in Slot : /\ \A t : Presents(s, t) => t \in DOMAIN rows
                     /\ req[s].at \notin {"idle", "redirected"} => req[s].binding.token \in Issued
                     /\ \A t : Delivers(s, t) /\ t \notin {Never, Clear}
                               => t \in DOMAIN rows /\ rows[t].issuedAt >= req[s].since
  /\ \A c \in late : c.token \in DOMAIN rows

Timely ==
  /\ \A s \in Slot : req[s] # Idle => req[s].since <= now /\ now - req[s].since <= Life
  /\ \A c \in late : c.since <= now /\ now - c.since <= Life

\* A token somebody has, had, or may still get by an answer under way. In calm weather
\* no answer is lost, so that this is every token.
Held(t) ==
  \/ jar.session = t
  \/ \E s \in Slot : Presents(s, t) \/ Delivers(s, t)
  \/ \E c \in late : c.token = t
Known(t) == t \in DOMAIN rows /\ (weather = "calm" \/ rows[t].used \/ Held(t))

\* What is known and younger than the jar's token is on its way to the jar, as long as no
\* answer with a rotated token was lost.
JarKnows ==
  ~strayed => \A t, u \in DOMAIN rows :
    jar.session = t /\ t < u /\ Kin(t, u) /\ Known(u) => \E s \in Slot : Delivers(s, u)

\* What is known and younger than the token a request presents is younger than the
\* request, by what another one may have been ahead of it.
Lags(t, since) ==
  \A u \in DOMAIN rows : t < u /\ Kin(t, u) /\ Known(u) => rows[u].issuedAt >= since - Life
RequestsKnow ==
  ~strayed =>
  /\ \A s \in Slot : \A t \in DOMAIN rows : Presents(s, t) => Lags(t, req[s].since)
  /\ \A c \in late : Lags(c.token, c.since)

\* Nobody is taken for a thief but for such a loss, and in calm weather, where there is
\* none, only a sign-out ends a sign-in.
Peaceful ==
  /\ alarm => strayed
  /\ weather = "calm" => /\ late = {} /\ ~strayed
                         /\ \A t \in DOMAIN rows : rows[t].revoked => rows[t].family \in signedOut

BrowserInv == Chain /\ Shapes /\ Genuine /\ Timely /\ JarKnows /\ RequestsKnow /\ Peaceful
----------------------------------------------------------------------------
(***************************************************************************)
(* What a call may do to the table, row by row.                            *)
(***************************************************************************)
Spends(t) == Current(t) /\ rows' = [rows EXCEPT ![t].used = TRUE]
Restores(t) == Undelivered(t) /\ rows' = Restored(t)
Mints(t) ==
  /\ TokenLeft /\ Current(t) /\ rows[t].used /\ Due(t)
  /\ rows' = Append([rows EXCEPT ![t].rotatedAt = now], NewRow(rows[t].family))
Begins == TokenLeft /\ rows' = Append(rows, NewRow(Len(rows) + 1))
Ends(S) == rows' = Revoked(S)

LEMMA Constants ==
  /\ RotateAfter \in Nat /\ Grace \in Nat /\ Life \in Nat /\ MaxTokens \in Nat /\ MaxTokens >= 1
  /\ IdleTimeout \in Nat /\ RetryAfter \in Nat
  /\ Grace < RotateAfter /\ 2 * Life <= Grace
BY IntervalAssumption, BoundAssumption

LEMMA Rows ==
  ASSUME TableOK
  PROVE  /\ Len(rows) \in Nat /\ DOMAIN rows = 1..Len(rows)
         /\ \A t \in DOMAIN rows : /\ rows[t] \in Row /\ t \in Nat /\ t > 0
                                   /\ rows[t].family \in Nat /\ rows[t].issuedAt \in Nat
                                   /\ rows[t].rotatedAt \in Nat
                                   /\ rows[t].revoked \in BOOLEAN /\ rows[t].used \in BOOLEAN
<1>1. rows \in Seq(Row)
  BY DEF TableOK
<1>2. Len(rows) \in Nat /\ DOMAIN rows = 1..Len(rows) /\ \A t \in DOMAIN rows : rows[t] \in Row
  BY <1>1, LenProperties, ElementOfSeq
<1> QED  BY <1>2 DEF Row, Token

LEMMA SpendRows ==
  ASSUME TableOK, NEW t \in DOMAIN rows, Spends(t)
  PROVE  /\ rows' \in Seq(Row) /\ Len(rows') = Len(rows) /\ DOMAIN rows' = DOMAIN rows
         /\ \A u \in DOMAIN rows :
              /\ rows'[u].family = rows[u].family /\ rows'[u].issuedAt = rows[u].issuedAt
              /\ rows'[u].rotatedAt = rows[u].rotatedAt /\ rows'[u].revoked = rows[u].revoked
              /\ rows'[u].used = (rows[u].used \/ u = t)
<1> DEFINE row == [rows[t] EXCEPT !.used = TRUE]
<1>1. row \in Row /\ rows' = [rows EXCEPT ![t] = row]
  BY Rows DEF Spends, Row
<1>2. rows' \in Seq(Row) /\ Len(rows') = Len(rows) /\ DOMAIN rows' = DOMAIN rows
  BY <1>1, Rows, ExceptSeq, LenProperties DEF TableOK
<1>3. ASSUME NEW u \in DOMAIN rows
      PROVE  /\ rows'[u].family = rows[u].family /\ rows'[u].issuedAt = rows[u].issuedAt
             /\ rows'[u].rotatedAt = rows[u].rotatedAt /\ rows'[u].revoked = rows[u].revoked
             /\ rows'[u].used = (rows[u].used \/ u = t)
  BY <1>1, Rows DEF Row
<1> QED  BY <1>2, <1>3

LEMMA EndRows ==
  ASSUME TableOK, NEW S, Ends(S)
  PROVE  /\ rows' \in Seq(Row) /\ Len(rows') = Len(rows) /\ DOMAIN rows' = DOMAIN rows
         /\ \A u \in DOMAIN rows :
              /\ rows'[u].family = rows[u].family /\ rows'[u].issuedAt = rows[u].issuedAt
              /\ rows'[u].rotatedAt = rows[u].rotatedAt /\ rows'[u].used = rows[u].used
              /\ rows'[u].revoked = (rows[u].revoked \/ u \in S)
<1>1. ASSUME NEW u \in DOMAIN rows
      PROVE  /\ rows'[u] \in Row
             /\ rows'[u].family = rows[u].family /\ rows'[u].issuedAt = rows[u].issuedAt
             /\ rows'[u].rotatedAt = rows[u].rotatedAt /\ rows'[u].used = rows[u].used
             /\ rows'[u].revoked = (rows[u].revoked \/ u \in S)
  <2>1. rows'[u] = [rows[u] EXCEPT !.revoked = @ \/ u \in S]
    BY DEF Ends, Revoked
  <2>2. rows[u] \in Row /\ rows[u].revoked \in BOOLEAN
    BY Rows
  <2> QED  BY <2>1, <2>2 DEF Row
<1>2. rows' = [u \in 1..Len(rows) |-> rows'[u]]
  BY Rows DEF Ends, Revoked
<1>3. rows' \in Seq(Row) /\ DOMAIN rows' = 1..Len(rows)
  BY <1>1, <1>2, Rows, IsASeq
<1>4. Len(rows') = Len(rows)
  BY <1>3, Rows, LenProperties
<1> QED  BY <1>1, <1>3, <1>4, Rows

LEMMA RestoreRows ==
  ASSUME TableOK, NEW t \in DOMAIN rows, Restores(t)
  PROVE  /\ rows' \in Seq(Row) /\ Len(rows') = Len(rows) /\ DOMAIN rows' = DOMAIN rows
         /\ \A u \in DOMAIN rows :
              /\ rows'[u].family = rows[u].family /\ rows'[u].issuedAt = rows[u].issuedAt
              /\ rows'[u].rotatedAt = (IF u = t THEN Never ELSE rows[u].rotatedAt)
              /\ rows'[u].used = rows[u].used
              /\ rows'[u].revoked =
                   (rows[u].revoked \/ (u # t /\ Kin(t, u) /\ rows[u].issuedAt >= rows[t].rotatedAt))
<1> DEFINE S == MintedSince(t)
           old == Revoked(S)
<1>1. ASSUME NEW u \in DOMAIN rows PROVE u \in S <=> u # t /\ Kin(t, u) /\ rows[u].issuedAt >= rows[t].rotatedAt
  BY DEF MintedSince, FamilyOf, Kin
<1>2. ASSUME NEW u \in DOMAIN rows
      PROVE  /\ old[u] \in Row
             /\ old[u].family = rows[u].family /\ old[u].issuedAt = rows[u].issuedAt
             /\ old[u].rotatedAt = rows[u].rotatedAt /\ old[u].used = rows[u].used
             /\ old[u].revoked = (rows[u].revoked \/ u \in S)
  <2>1. old[u] = [rows[u] EXCEPT !.revoked = @ \/ u \in S]
    BY DEF Revoked
  <2>2. rows[u] \in Row /\ rows[u].revoked \in BOOLEAN
    BY Rows
  <2> QED  BY <2>1, <2>2 DEF Row
<1>3. DOMAIN old = DOMAIN rows /\ old = [u \in 1..Len(rows) |-> old[u]]
  BY Rows DEF Revoked
<1>4. rows' = [old EXCEPT ![t].rotatedAt = Never]
  BY DEF Restores, Restored
<1> HIDE DEF old, S
<1>5. ASSUME NEW u \in DOMAIN rows
      PROVE  /\ rows'[u] \in Row
             /\ rows'[u].family = rows[u].family /\ rows'[u].issuedAt = rows[u].issuedAt
             /\ rows'[u].rotatedAt = (IF u = t THEN Never ELSE rows[u].rotatedAt)
             /\ rows'[u].used = rows[u].used
             /\ rows'[u].revoked = (rows[u].revoked \/ u \in S)
  <2>1. rows'[u] = IF u = t THEN [old[u] EXCEPT !.rotatedAt = Never] ELSE old[u]
    BY <1>3, <1>4
  <2> QED  BY <1>2, <2>1 DEF Row, Never
<1>6. rows' = [u \in 1..Len(rows) |-> rows'[u]] /\ DOMAIN rows' = DOMAIN rows
  BY <1>3, <1>4, Rows
<1>7. rows' \in Seq(Row)
  BY <1>5, <1>6, Rows, IsASeq
<1>8. Len(rows') = Len(rows)
  BY <1>6, <1>7, Rows, LenProperties
<1> QED  BY <1>1, <1>5, <1>6, <1>7, <1>8

LEMMA BeginRows ==
  ASSUME TableOK, Begins
  PROVE  /\ rows' \in Seq(Row) /\ Len(rows') = Len(rows) + 1 /\ Len(rows') <= MaxTokens
         /\ DOMAIN rows' = DOMAIN rows \cup {Len(rows) + 1}
         /\ \A u \in DOMAIN rows : rows'[u] = rows[u]
         /\ rows'[Len(rows) + 1] = NewRow(Len(rows) + 1)
<1>1. NewRow(Len(rows) + 1) \in Row
  BY Rows, Constants DEF Begins, TokenLeft, NewRow, Row, Token, TableOK, Never
<1>2. rows' \in Seq(Row) /\ Len(rows') = Len(rows) + 1 /\ rows'[Len(rows) + 1] = NewRow(Len(rows) + 1)
      /\ \A u \in 1..Len(rows) : rows'[u] = rows[u]
  BY <1>1, AppendProperties DEF Begins, TableOK
<1>3. DOMAIN rows' = 1..(Len(rows) + 1)
  BY <1>2, LenProperties
<1> QED  BY <1>2, <1>3, Rows, Constants DEF Begins, TokenLeft

LEMMA MintRows ==
  ASSUME TableOK, NEW t \in DOMAIN rows, Mints(t)
  PROVE  /\ rows' \in Seq(Row) /\ Len(rows') = Len(rows) + 1 /\ Len(rows') <= MaxTokens
         /\ DOMAIN rows' = DOMAIN rows \cup {Len(rows) + 1}
         /\ \A u \in DOMAIN rows :
              /\ rows'[u].family = rows[u].family /\ rows'[u].issuedAt = rows[u].issuedAt
              /\ rows'[u].rotatedAt = (IF u = t THEN now ELSE rows[u].rotatedAt)
              /\ rows'[u].revoked = rows[u].revoked /\ rows'[u].used = rows[u].used
         /\ rows'[Len(rows) + 1] = NewRow(rows[t].family)
<1> DEFINE row == [rows[t] EXCEPT !.rotatedAt = now]
           old == [rows EXCEPT ![t] = row]
<1>1. row \in Row /\ NewRow(rows[t].family) \in Row /\ rows' = Append(old, NewRow(rows[t].family))
  BY Rows DEF Mints, Row, TableOK, NewRow, Never
<1>2. old \in Seq(Row) /\ Len(old) = Len(rows) /\ DOMAIN old = DOMAIN rows
  BY <1>1, Rows, ExceptSeq, LenProperties DEF TableOK
<1>3. ASSUME NEW u \in DOMAIN rows
      PROVE  /\ old[u].family = rows[u].family /\ old[u].issuedAt = rows[u].issuedAt
             /\ old[u].rotatedAt = (IF u = t THEN now ELSE rows[u].rotatedAt)
             /\ old[u].revoked = rows[u].revoked /\ old[u].used = rows[u].used
  BY <1>1, Rows DEF Row
<1> HIDE DEF old, row
<1>4. /\ rows' \in Seq(Row) /\ Len(rows') = Len(rows) + 1
      /\ rows'[Len(rows) + 1] = NewRow(rows[t].family)
      /\ \A u \in 1..Len(rows) : rows'[u] = old[u]
  BY <1>1, <1>2, AppendProperties
<1>5. DOMAIN rows' = 1..(Len(rows) + 1)
  BY <1>4, LenProperties
<1> QED  BY <1>3, <1>4, <1>5, Rows, Constants DEF Mints, TokenLeft
----------------------------------------------------------------------------
(***************************************************************************)
(* The chain of tokens of each sign-in.                                    *)
(***************************************************************************)
LEMMA OneInForce ==
  ASSUME Chain, NEW t \in DOMAIN rows, NEW u \in DOMAIN rows, Kin(t, u), Live(t), Current(u), t # u
  PROVE  Retired(t) /\ rows[t].rotatedAt <= rows[u].issuedAt
<1>1. CASE t < u
  BY <1>1 DEF Chain, Ordered, Current
<1>2. CASE u < t
  BY <1>2 DEF Chain, Ordered, Current, Retired, Kin
<1> QED  BY <1>1, <1>2, Rows DEF Chain

\* Of a sign-in no two tokens are minted at one instant.
LEMMA Apart ==
  ASSUME Chain, NEW t \in DOMAIN rows, NEW u \in DOMAIN rows, t < u, Kin(t, u)
  PROVE  rows[t].issuedAt # rows[u].issuedAt
<1>1. rows[u].issuedAt - rows[t].issuedAt > Grace
  BY DEF Chain, Spaced
<1>2. rows[u].issuedAt \in Nat /\ rows[t].issuedAt \in Nat
  BY Rows DEF Chain
<1> QED  BY <1>1, <1>2, Constants

\* What was minted since a token was retired is unused, or its successor is used.
LEMMA Successor ==
  ASSUME Chain, NEW t \in DOMAIN rows, Retired(t)
  PROVE  \E x \in DOMAIN rows :
           /\ t < x /\ Kin(t, x) /\ rows[x].issuedAt = rows[t].rotatedAt
           /\ (\E u \in MintedSince(t) : rows[u].used) => rows[x].used
<1>1. PICK x \in DOMAIN rows : Follows(x, t)
  BY DEF Chain, Followed
<1>2. ASSUME NEW u \in MintedSince(t), rows[u].used PROVE rows[x].used
  <2>1. u \in DOMAIN rows /\ Kin(t, u) /\ rows[u].issuedAt >= rows[t].rotatedAt
    BY DEF MintedSince, FamilyOf, Kin
  <2>2. CASE rows[u].issuedAt > rows[t].rotatedAt
    BY <1>1, <2>1, <2>2 DEF Follows
  <2>3. CASE rows[u].issuedAt = rows[t].rotatedAt
    <3>1. Kin(u, x) /\ Kin(x, u) /\ rows[u].issuedAt = rows[x].issuedAt
      BY <1>1, <2>1, <2>3 DEF Follows, Kin
    <3>2. ~(u < x) /\ ~(x < u)
      BY <2>1, <3>1, Apart
    <3> QED  BY <1>2, <2>1, <3>2, Rows DEF Chain
  <2> QED  BY <2>1, <2>2, <2>3, Rows DEF Chain
<1> QED  BY <1>1, <1>2 DEF Follows

LEMMA SpendChain ==
  ASSUME Chain, NEW t \in DOMAIN rows, Spends(t), now' = now PROVE Chain'
<1>0. TableOK
  BY DEF Chain
<1>1. /\ rows' \in Seq(Row) /\ Len(rows') = Len(rows) /\ DOMAIN rows' = DOMAIN rows
      /\ \A u \in DOMAIN rows :
           /\ rows'[u].family = rows[u].family /\ rows'[u].issuedAt = rows[u].issuedAt
           /\ rows'[u].rotatedAt = rows[u].rotatedAt /\ rows'[u].revoked = rows[u].revoked
           /\ rows[u].used => rows'[u].used
  BY <1>0, SpendRows
<1>2. TableOK'
  BY <1>0, <1>1 DEF TableOK
<1>3. Dated'
  BY <1>1 DEF Chain, Dated
<1>4. Spaced'
  BY <1>1 DEF Chain, Spaced, Kin
<1>5. Ordered'
  BY <1>1 DEF Chain, Ordered, Kin, Live, Retired
<1>6. Followed'
  <2> SUFFICES ASSUME NEW u \in DOMAIN rows, Retired(u)' PROVE \E x \in DOMAIN rows : Follows(x, u)'
    BY <1>1 DEF Followed
  <2>1. PICK x \in DOMAIN rows : Follows(x, u)
    BY <1>1 DEF Chain, Followed, Retired, Live
  <2> QED  BY <1>1, <2>1 DEF Follows, Kin
<1>7. Aged'
  BY <1>1 DEF Chain, Aged, Kin, Current, Live
<1> QED  BY <1>2, <1>3, <1>4, <1>5, <1>6, <1>7 DEF Chain

LEMMA EndChain ==
  ASSUME Chain, NEW S, Ends(S), now' = now PROVE Chain'
<1>0. TableOK
  BY DEF Chain
<1>1. /\ rows' \in Seq(Row) /\ Len(rows') = Len(rows) /\ DOMAIN rows' = DOMAIN rows
      /\ \A u \in DOMAIN rows :
           /\ rows'[u].family = rows[u].family /\ rows'[u].issuedAt = rows[u].issuedAt
           /\ rows'[u].rotatedAt = rows[u].rotatedAt /\ rows'[u].used = rows[u].used
           /\ rows[u].revoked => rows'[u].revoked
  BY <1>0, EndRows
<1>2. TableOK'
  BY <1>0, <1>1 DEF TableOK
<1>3. Dated'
  BY <1>1 DEF Chain, Dated
<1>4. Spaced'
  BY <1>1 DEF Chain, Spaced, Kin
<1>5. Ordered'
  BY <1>1 DEF Chain, Ordered, Kin, Live, Retired
<1>6. Followed'
  <2> SUFFICES ASSUME NEW u \in DOMAIN rows, Retired(u)' PROVE \E x \in DOMAIN rows : Follows(x, u)'
    BY <1>1 DEF Followed
  <2>1. PICK x \in DOMAIN rows : Follows(x, u)
    BY <1>1 DEF Chain, Followed, Retired, Live
  <2> QED  BY <1>1, <2>1 DEF Follows, Kin
<1>7. Aged'
  BY <1>1 DEF Chain, Aged, Kin, Current, Live
<1> QED  BY <1>2, <1>3, <1>4, <1>5, <1>6, <1>7 DEF Chain

LEMMA TickChain == ASSUME Chain, rows' = rows, now' = now + 1 PROVE Chain'
<1>0. TableOK
  BY DEF Chain
<1>1. TableOK'
  BY <1>0 DEF TableOK
<1>2. Dated'
  BY <1>0, Rows DEF Chain, Dated, TableOK
<1>3. Spaced' /\ Ordered' /\ Followed'
  BY DEF Chain, Spaced, Ordered, Followed, Follows, Kin, Live, Retired
<1>4. Aged'
  <2> SUFFICES ASSUME NEW t \in DOMAIN rows, NEW u \in DOMAIN rows, t < u, Kin(t, u), Current(t)
               PROVE  (now + 1) - rows[u].issuedAt > Grace
    BY DEF Aged, Kin, Current, Live
  <2>1. now - rows[u].issuedAt > Grace
    BY DEF Chain, Aged
  <2> QED  BY <1>0, <2>1, Rows, Constants DEF TableOK
<1> QED  BY <1>1, <1>2, <1>3, <1>4 DEF Chain

\* A restored token is the only one of its sign-in that is not revoked, but for those
\* retired before it was issued.
LEMMA RestoreLeaves ==
  ASSUME Chain, NEW t \in DOMAIN rows, Restores(t)
  PROVE  /\ Retired(t) /\ now - rows[t].rotatedAt > Grace
         /\ \A u \in DOMAIN rows :
              u # t /\ Kin(t, u) /\ Live(u) =>
                \/ u < t /\ Retired(u) /\ rows[u].rotatedAt <= rows[t].issuedAt
                \/ t < u /\ rows'[u].revoked /\ ~rows[u].used /\ Current(u)
         /\ \A u \in DOMAIN rows : t < u /\ Kin(t, u) => rows[u].issuedAt <= rows[t].rotatedAt
<1>0. TableOK
  BY DEF Chain
<1>1. Retired(t) /\ ~InGrace(t) /\ \A u \in MintedSince(t) : ~rows[u].used
  BY DEF Restores, Undelivered, Reused
<1>2. now - rows[t].rotatedAt > Grace
  BY <1>0, <1>1, Rows, Constants DEF InGrace, TableOK
<1>3. \A u \in DOMAIN rows : u # t /\ Kin(t, u) /\ rows[u].issuedAt >= rows[t].rotatedAt => u \in MintedSince(t)
  BY DEF MintedSince, FamilyOf, Kin
<1>4. ASSUME NEW u \in DOMAIN rows, u # t, Kin(t, u), Live(u)
      PROVE  \/ u < t /\ Retired(u) /\ rows[u].rotatedAt <= rows[t].issuedAt
             \/ t < u /\ rows'[u].revoked /\ ~rows[u].used /\ Current(u)
  <2>1. CASE u < t
    BY <1>1, <1>4, <2>1 DEF Chain, Ordered, Retired, Kin
  <2>2. CASE t < u
    <3>1. rows[t].rotatedAt <= rows[u].issuedAt
      BY <1>1, <1>4, <2>2 DEF Chain, Ordered, Retired
    <3>2. u \in MintedSince(t)
      BY <1>0, <1>3, <1>4, <3>1, Rows
    <3>3. rows'[u].revoked
      BY <1>0, <1>4, <3>1, RestoreRows, Rows
    <3>4. ~rows[u].used /\ rows[u].rotatedAt = Never
      BY <1>1, <3>2 DEF Chain, Dated
    <3> QED  BY <1>4, <2>2, <3>3, <3>4 DEF Current
  <2> QED  BY <1>0, <1>4, <2>1, <2>2, Rows
<1>5. ASSUME NEW u \in DOMAIN rows, t < u, Kin(t, u) PROVE rows[u].issuedAt <= rows[t].rotatedAt
  <2>1. PICK x \in DOMAIN rows : Follows(x, t)
    BY <1>1 DEF Chain, Followed
  <2>2. x \in MintedSince(t)
    BY <1>0, <1>3, <2>1, Rows DEF Follows
  <2>3. ~(rows[u].issuedAt > rows[t].rotatedAt)
    BY <1>1, <1>5, <2>1, <2>2 DEF Follows
  <2> QED  BY <1>0, <2>3, Rows
<1> QED  BY <1>1, <1>2, <1>4, <1>5

LEMMA RestoreChain ==
  ASSUME Chain, NEW t \in DOMAIN rows, Restores(t), now' = now PROVE Chain'
<1>0. TableOK
  BY DEF Chain
<1>1. /\ rows' \in Seq(Row) /\ Len(rows') = Len(rows) /\ DOMAIN rows' = DOMAIN rows
      /\ \A u \in DOMAIN rows :
           /\ rows'[u].family = rows[u].family /\ rows'[u].issuedAt = rows[u].issuedAt
           /\ rows'[u].rotatedAt = (IF u = t THEN Never ELSE rows[u].rotatedAt)
           /\ rows'[u].used = rows[u].used
           /\ rows[u].revoked => rows'[u].revoked
  BY <1>0, RestoreRows
<1>2. /\ Retired(t) /\ now - rows[t].rotatedAt > Grace
      /\ \A u \in DOMAIN rows :
           u # t /\ Kin(t, u) /\ ~rows'[u].revoked =>
             u < t /\ Retired(u) /\ rows[u].rotatedAt <= rows[t].issuedAt
      /\ \A u \in DOMAIN rows : t < u /\ Kin(t, u) => rows[u].issuedAt <= rows[t].rotatedAt
  BY <1>1, RestoreLeaves DEF Live
<1>3. TableOK'
  BY <1>0, <1>1 DEF TableOK
<1>4. Dated'
  <2>1. ASSUME NEW u \in DOMAIN rows
        PROVE  /\ rows'[u].family <= u /\ rows'[u].issuedAt <= now /\ rows'[u].rotatedAt <= now
               /\ rows'[u].rotatedAt # Never
                  => rows'[u].used /\ rows'[u].rotatedAt - rows'[u].issuedAt >= RotateAfter
    <3>1. /\ rows[u].family <= u /\ rows[u].issuedAt <= now /\ rows[u].rotatedAt <= now
          /\ rows[u].rotatedAt # Never
             => rows[u].used /\ rows[u].rotatedAt - rows[u].issuedAt >= RotateAfter
      BY DEF Chain, Dated
    <3>2. now \in Nat
      BY <1>0 DEF TableOK
    <3>3. CASE u = t
      BY <1>1, <3>1, <3>2, <3>3 DEF Never
    <3>4. CASE u # t
      BY <1>1, <3>1, <3>4
    <3> QED  BY <3>3, <3>4
  <2> QED  BY <1>1, <2>1 DEF Dated
<1>5. Spaced'
  BY <1>1 DEF Chain, Spaced, Kin
<1>6. Ordered'
  <2> SUFFICES ASSUME NEW a \in DOMAIN rows, NEW b \in DOMAIN rows, a < b, Kin(a, b),
                      ~rows'[a].revoked, ~rows'[b].revoked
               PROVE  rows'[a].rotatedAt # Never /\ rows'[a].rotatedAt <= rows[b].issuedAt
    BY <1>1 DEF Ordered, Kin, Live, Retired
  <2>1. Live(a) /\ Live(b)
    BY <1>1 DEF Live
  <2>2. Retired(a) /\ rows[a].rotatedAt <= rows[b].issuedAt
    BY <2>1 DEF Chain, Ordered
  <2>3. a # t
    BY <1>0, <1>2, Rows DEF Kin
  <2> QED  BY <1>1, <2>2, <2>3 DEF Retired
<1>7. Followed'
  <2> SUFFICES ASSUME NEW u \in DOMAIN rows, Retired(u)' PROVE \E x \in DOMAIN rows : Follows(x, u)'
    BY <1>1 DEF Followed
  <2>1. u # t /\ Retired(u)
    BY <1>1 DEF Retired, Live
  <2>2. PICK x \in DOMAIN rows : Follows(x, u)
    BY <2>1 DEF Chain, Followed
  <2> QED  BY <1>1, <2>1, <2>2 DEF Follows, Kin
<1>8. Aged'
  <2> SUFFICES ASSUME NEW a \in DOMAIN rows, NEW u \in DOMAIN rows, a < u, Kin(a, u), Current(a)'
               PROVE  now - rows[u].issuedAt > Grace
    BY <1>1 DEF Aged, Kin
  <2>1. CASE a = t
    BY <1>0, <1>2, <2>1, Rows, Constants DEF TableOK
  <2>2. CASE a # t
    BY <1>1, <2>2 DEF Chain, Aged, Current, Live
  <2> QED  BY <2>1, <2>2
<1> QED  BY <1>3, <1>4, <1>5, <1>6, <1>7, <1>8 DEF Chain

LEMMA BeginChain == ASSUME Chain, Begins, now' = now PROVE Chain'
<1> DEFINE new == Len(rows) + 1
<1>0. TableOK
  BY DEF Chain
<1>1. /\ rows' \in Seq(Row) /\ Len(rows') <= MaxTokens
      /\ DOMAIN rows' = DOMAIN rows \cup {new}
      /\ \A u \in DOMAIN rows : rows'[u] = rows[u]
      /\ rows'[new] = NewRow(new)
  BY <1>0, BeginRows
<1>2. /\ rows'[new].family = new /\ rows'[new].issuedAt = now /\ rows'[new].rotatedAt = Never
      /\ rows'[new].revoked = FALSE /\ rows'[new].used = FALSE
  BY <1>1 DEF NewRow
<1>3. new \in Nat /\ \A u \in DOMAIN rows : u < new /\ u # new /\ rows[u].family < new /\ rows[u].family \in Nat
  BY <1>0, Rows DEF Chain, Dated
<1> HIDE DEF new
<1>4. \A a, b \in DOMAIN rows' : a < b /\ Kin(a, b)' => a \in DOMAIN rows /\ b \in DOMAIN rows /\ Kin(a, b)
  BY <1>1, <1>2, <1>3 DEF Kin
<1>5. TableOK'
  BY <1>0, <1>1 DEF TableOK
<1>6. Dated'
  BY <1>0, <1>1, <1>2, <1>3 DEF Chain, Dated, TableOK, Never
<1>7. Spaced'
  BY <1>1, <1>4 DEF Chain, Spaced
<1>8. Ordered'
  BY <1>1, <1>4 DEF Chain, Ordered, Live, Retired
<1>9. Followed'
  <2> SUFFICES ASSUME NEW u \in DOMAIN rows', Retired(u)' PROVE \E x \in DOMAIN rows' : Follows(x, u)'
    BY DEF Followed
  <2>1. u \in DOMAIN rows /\ Retired(u)
    BY <1>1, <1>2 DEF Retired, Live
  <2>2. PICK x \in DOMAIN rows : Follows(x, u)
    BY <2>1 DEF Chain, Followed
  <2>3. \A w \in DOMAIN rows' : Kin(u, w)' => w \in DOMAIN rows /\ Kin(u, w)
    BY <1>1, <1>2, <1>3, <2>1 DEF Kin
  <2>4. x \in DOMAIN rows' /\ Kin(u, x)' /\ rows'[x] = rows[x] /\ rows'[u] = rows[u]
    BY <1>1, <2>1, <2>2 DEF Follows, Kin
  <2> QED  BY <1>1, <2>2, <2>3, <2>4 DEF Follows
<1>10. Aged'
  BY <1>1, <1>4 DEF Chain, Aged, Current, Live
<1> QED  BY <1>5, <1>6, <1>7, <1>8, <1>9, <1>10 DEF Chain

LEMMA MintChain ==
  ASSUME Chain, NEW t \in DOMAIN rows, Mints(t), now' = now PROVE Chain'
<1>0. TableOK
  BY DEF Chain
<1> PICK new \in Nat : new = Len(rows) + 1
  BY <1>0, Rows
<1>1. /\ rows' \in Seq(Row) /\ Len(rows') <= MaxTokens
      /\ DOMAIN rows' = DOMAIN rows \cup {new}
      /\ \A u \in DOMAIN rows :
           /\ rows'[u].family = rows[u].family /\ rows'[u].issuedAt = rows[u].issuedAt
           /\ rows'[u].rotatedAt = (IF u = t THEN now ELSE rows[u].rotatedAt)
           /\ rows'[u].revoked = rows[u].revoked /\ rows'[u].used = rows[u].used
      /\ rows'[new] = NewRow(rows[t].family)
  BY <1>0, MintRows
<1>2. /\ rows'[new].family = rows[t].family /\ rows'[new].issuedAt = now /\ rows'[new].rotatedAt = Never
      /\ rows'[new].revoked = FALSE /\ rows'[new].used = FALSE
  BY <1>1 DEF NewRow
<1>3. \A u \in DOMAIN rows : u \in Nat /\ u < new /\ u # new /\ rows[u].family \in Nat
  BY <1>0, Rows
<1>4. Current(t) /\ rows[t].used /\ now - rows[t].issuedAt >= RotateAfter
  BY DEF Mints, Due
<1>5. TableOK'
  BY <1>0, <1>1 DEF TableOK
<1>6. Dated'
  <2>1. rows[t].family <= t /\ t < new
    BY <1>3 DEF Chain, Dated
  <2>2. rows[t].family \in Nat /\ t \in Nat
    BY <1>0, Rows
  <2>3. rows[t].family <= new
    BY <1>3, <2>1, <2>2
  <2>4. ASSUME NEW u \in DOMAIN rows
        PROVE  /\ rows'[u].family <= u /\ rows'[u].issuedAt <= now /\ rows'[u].rotatedAt <= now
               /\ rows'[u].rotatedAt # Never =>
                    rows'[u].used /\ rows'[u].rotatedAt - rows'[u].issuedAt >= RotateAfter
    BY <1>0, <1>1, <1>4 DEF Chain, Dated, TableOK
  <2> QED  BY <1>0, <1>1, <1>2, <2>3, <2>4 DEF Dated, TableOK, Never
<1>7. \A u \in DOMAIN rows : Kin(u, t) => now - rows[u].issuedAt > Grace
  <2> SUFFICES ASSUME NEW u \in DOMAIN rows, Kin(u, t) PROVE now - rows[u].issuedAt > Grace
    OBVIOUS
  <2>1. CASE u = t
    BY <1>0, <1>4, <2>1, Rows, Constants DEF TableOK
  <2>2. CASE u < t
    <3>1. rows[t].issuedAt - rows[u].issuedAt > Grace
      BY <2>2 DEF Chain, Spaced
    <3> QED  BY <1>0, <1>4, <3>1, Rows, Constants DEF TableOK
  <2>3. CASE t < u
    BY <1>4, <2>3 DEF Chain, Aged, Kin
  <2> QED  BY <1>3, <2>1, <2>2, <2>3
<1>8. Spaced'
  <2> SUFFICES ASSUME NEW a \in DOMAIN rows', NEW b \in DOMAIN rows', a < b, Kin(a, b)'
               PROVE  rows'[b].issuedAt - rows'[a].issuedAt > Grace
    BY DEF Spaced
  <2>1. a \in DOMAIN rows
    BY <1>1, <1>3
  <2>2. CASE b = new
    BY <1>1, <1>2, <1>7, <2>1, <2>2 DEF Kin
  <2>3. CASE b # new
    BY <1>1, <2>1, <2>3 DEF Chain, Spaced, Kin
  <2> QED  BY <2>2, <2>3
<1>9. Ordered'
  <2> SUFFICES ASSUME NEW a \in DOMAIN rows', NEW b \in DOMAIN rows', a < b, Kin(a, b)',
                      Live(a)', Live(b)'
               PROVE  rows'[a].rotatedAt # Never /\ rows'[a].rotatedAt <= rows'[b].issuedAt
    BY DEF Ordered, Retired
  <2>1. a \in DOMAIN rows /\ Live(a)
    BY <1>1, <1>3 DEF Live
  <2>2. CASE b = new
    <3>1. Kin(a, t)
      BY <1>1, <1>2, <2>1, <2>2 DEF Kin
    <3>2. CASE a = t
      BY <1>0, <1>1, <1>2, <1>4, <2>2, <3>2, Rows, Constants DEF TableOK, Never
    <3>3. CASE a # t
      <4>1. Retired(a) /\ rows[a].rotatedAt <= now
        BY <1>4, <2>1, <3>1, <3>3, OneInForce DEF Chain, Dated
      <4> QED  BY <1>1, <1>2, <2>1, <2>2, <3>3, <4>1 DEF Retired
    <3> QED  BY <3>2, <3>3
  <2>3. CASE b # new
    <3>1. b \in DOMAIN rows /\ Live(b) /\ Kin(a, b)
      BY <1>1, <2>1, <2>3 DEF Live, Kin
    <3>2. Retired(a) /\ rows[a].rotatedAt <= rows[b].issuedAt
      BY <2>1, <3>1 DEF Chain, Ordered
    <3> QED  BY <1>1, <1>4, <2>1, <3>1, <3>2 DEF Retired, Current
  <2> QED  BY <2>2, <2>3
<1>10. Followed'
  <2> SUFFICES ASSUME NEW u \in DOMAIN rows', Retired(u)' PROVE \E x \in DOMAIN rows' : Follows(x, u)'
    BY DEF Followed
  <2>1. u \in DOMAIN rows /\ Live(u)
    BY <1>1, <1>2 DEF Retired, Live
  <2>2. CASE u = t
    <3>1. /\ rows'[t].family = rows'[new].family
          /\ rows'[new].issuedAt = rows'[t].rotatedAt /\ rows'[t].rotatedAt = now
      BY <1>1, <1>2
    <3>2. \A w \in DOMAIN rows' : ~(rows'[w].issuedAt > now)
      BY <1>0, <1>1, <1>2, Rows DEF Chain, Dated, TableOK
    <3>3. t < new
      BY <1>3
    <3>4. Follows(new, t)'
      BY <3>1, <3>2, <3>3 DEF Follows, Kin
    <3> QED  BY <1>1, <2>2, <3>4
  <2>3. CASE u # t
    <3>1. Retired(u)
      BY <1>1, <2>1, <2>3 DEF Retired
    <3>2. PICK x \in DOMAIN rows : Follows(x, u)
      BY <2>1, <3>1 DEF Chain, Followed
    <3>3. Kin(u, t) => rows[x].used
      <4> SUFFICES ASSUME Kin(u, t) PROVE rows[x].used
        OBVIOUS
      <4>1. rows[u].rotatedAt <= rows[t].issuedAt
        BY <1>4, <2>1, <2>3, OneInForce
      <4>2. CASE rows[u].rotatedAt < rows[t].issuedAt
        BY <1>0, <3>2, <4>2, Rows DEF Follows
      <4>3. CASE rows[u].rotatedAt = rows[t].issuedAt
        <5>0. Kin(t, x) /\ Kin(x, t) /\ rows[t].issuedAt = rows[x].issuedAt
          BY <3>2, <4>3 DEF Follows, Kin
        <5>1. ~(x < t) /\ ~(t < x)
          BY <5>0, Apart
        <5> QED  BY <1>3, <1>4, <5>1
      <4> QED  BY <1>0, <2>1, <4>1, <4>2, <4>3, Rows
    <3>4. ASSUME NEW w \in DOMAIN rows', Kin(u, w)', rows'[w].issuedAt > rows'[u].rotatedAt
          PROVE  rows[x].used
      <4>1. CASE w = new
        BY <1>1, <1>2, <2>1, <3>3, <3>4, <4>1 DEF Kin
      <4>2. CASE w # new
        BY <1>1, <2>1, <2>3, <3>2, <3>4, <4>2 DEF Kin, Follows
      <4> QED  BY <4>1, <4>2
    <3>5. u < x /\ Kin(u, x)' /\ rows'[x].issuedAt = rows'[u].rotatedAt /\ rows'[x].used = rows[x].used
      BY <1>1, <2>1, <2>3, <3>2 DEF Follows, Kin
    <3>6. Follows(x, u)'
      BY <3>4, <3>5 DEF Follows
    <3> QED  BY <1>1, <3>6
  <2> QED  BY <2>2, <2>3
<1>11. Aged'
  <2> SUFFICES ASSUME NEW a \in DOMAIN rows', NEW b \in DOMAIN rows', a < b, Kin(a, b)', Current(a)'
               PROVE  now - rows'[b].issuedAt > Grace
    BY DEF Aged
  <2>1. a \in DOMAIN rows /\ a # t /\ Current(a)
    BY <1>0, <1>1, <1>3, <1>4, Rows, Constants DEF Current, Live, TableOK, Never
  <2>2. CASE b = new
    <3>1. Kin(a, t)
      BY <1>1, <1>2, <2>1, <2>2 DEF Kin
    <3>2. Retired(a)
      BY <1>4, <2>1, <3>1, OneInForce DEF Current
    <3> QED  BY <2>1, <3>2 DEF Current, Retired
  <2>3. CASE b # new
    BY <1>1, <2>1, <2>3 DEF Chain, Aged, Kin
  <2> QED  BY <2>2, <2>3
<1> QED  BY <1>5, <1>6, <1>8, <1>9, <1>10, <1>11 DEF Chain
----------------------------------------------------------------------------
(***************************************************************************)
(* What each call does to the table.                                       *)
(***************************************************************************)
Moves ==
  \/ \E t \in DOMAIN rows : Spends(t) \/ Restores(t) \/ Mints(t)
  \/ Begins
  \/ \E S \in SUBSET DOMAIN rows : Ends(S)
  \/ UNCHANGED rows

LEMMA PresentMoves ==
  ASSUME NEW t, Present(t)
  PROVE  /\ alarm' = (alarm \/ Reused(t))
         /\ \/ Spends(t)
            \/ Reused(t) /\ Ends(FamilyOf(t))
            \/ UNCHANGED rows
BY DEF Present, Spends, Ends

LEMMA ResolveMoves ==
  ASSUME NEW t, Resolve(t)
  PROVE  UNCHANGED alarm /\ t \in DOMAIN rows /\ (Spends(t) \/ Restores(t))
BY DEF Resolve, MarkFirstUse, Spends, Restores, Undelivered, Retired, Current, Live

LEMMA RotateMoves ==
  ASSUME NEW t, Rotate(t)
  PROVE  /\ alarm' = (alarm \/ Reused(t))
         /\ \/ Verdict(t) = "rotated" /\ t \in DOMAIN rows /\ Mints(t)
            \/ Verdict(t) # "rotated" /\ Reused(t) /\ Ends(FamilyOf(t))
            \/ Verdict(t) # "rotated" /\ UNCHANGED rows
<1>1. CASE Verdict(t) = "rotated"
  <2>1. Current(t) /\ Due(t) /\ ~Reused(t)
    BY <1>1 DEF Verdict, Served, Superseded, Reused, Retired, Current
  <2>2. rows' = Append([rows EXCEPT ![t].rotatedAt = now], NewRow(rows[t].family))
    BY <1>1, <2>1 DEF Rotate
  <2>3. rows[t].used /\ TokenLeft /\ t \in DOMAIN rows
    BY <1>1, <2>1 DEF Rotate, Resolved, Current, Live
  <2> QED  BY <1>1, <2>1, <2>2, <2>3 DEF Mints, Rotate
<1>2. CASE Verdict(t) # "rotated"
  BY <1>2 DEF Rotate, Ends
<1> QED  BY <1>1, <1>2

LEMMA FamilyOfRows == ASSUME NEW t PROVE FamilyOf(t) \in SUBSET DOMAIN rows
BY DEF FamilyOf

LEMMA NextMoves ==
  ASSUME [Next]_vars
  PROVE  \/ Moves /\ now' = now
         \/ rows' = rows /\ now' = now + 1
<1>1. ASSUME NEW s \in Slot, NEW kind, Meet(s, kind) PROVE Moves /\ now' = now
  BY <1>1 DEF Meet, backendVars, Moves
<1>2. ASSUME NEW s \in Slot, Resolving(s) PROVE Moves /\ now' = now
  <2>1. now' = now
    BY <1>2 DEF Resolving
  <2>2. CASE Resolve(req[s].token)
    BY <2>1, <2>2, ResolveMoves DEF Moves
  <2>3. CASE MarkFirstUse(req[s].token)
    BY <2>1, <2>3 DEF Moves, MarkFirstUse, Spends, Current, Live
  <2> QED  BY <1>2, <2>2, <2>3 DEF Resolving
<1>3. ASSUME NEW s \in Slot, RotationAnswered(s) PROVE Moves /\ now' = now
  BY <1>3, RotateMoves, FamilyOfRows DEF RotationAnswered, Moves
<1>4. ASSUME NEW s \in Slot, Render(s) PROVE Moves /\ now' = now
  <2>1. Spends(req[s].token) => req[s].token \in DOMAIN rows
    BY DEF Spends, Current, Live
  <2> QED  BY <1>4, <2>1, PresentMoves, FamilyOfRows DEF Render, Moves
<1>5. ASSUME NEW s \in Slot, LogOut(s) PROVE Moves /\ now' = now
  BY <1>5, FamilyOfRows DEF LogOut, EndFamily, Ends, Moves
<1>6. ASSUME NEW s \in Slot, LogIn(s) PROVE Moves /\ now' = now
  BY <1>6 DEF LogIn, SignIn, Begins, Moves
<1>7. ASSUME NEW s \in Slot, RevokeOthers(s) PROVE Moves /\ now' = now
  <2>1. DOMAIN rows \ FamilyOf(req[s].token) \in SUBSET DOMAIN rows
    OBVIOUS
  <2> QED  BY <1>7, <2>1 DEF RevokeOthers, EndOthers, Ends, Moves
<1>8. ASSUME NEW s \in Slot, RotationGivenUp(s) \/ Receive(s) \/ Lose(s) PROVE Moves /\ now' = now
  BY <1>8 DEF RotationGivenUp, Receive, Lose, backendVars, Moves
<1>9. ASSUME LateRotation PROVE Moves /\ now' = now
  BY <1>9, ResolveMoves, RotateMoves, FamilyOfRows DEF LateRotation, Moves
<1>10. CASE LateLost \/ UNCHANGED vars
  BY <1>10 DEF LateLost, vars, backendVars, Moves
<1>11. CASE Tick
  BY <1>11 DEF Tick
<1> QED
  BY <1>1, <1>2, <1>3, <1>4, <1>5, <1>6, <1>7, <1>8, <1>9, <1>10, <1>11
  DEF Next, Serve, Go, Follow

LEMMA NextChain == ASSUME Chain, [Next]_vars PROVE Chain'
<1>1. CASE rows' = rows /\ now' = now + 1
  BY <1>1, TickChain
<1>2. ASSUME Moves, now' = now PROVE Chain'
  <2>1. ASSUME NEW t \in DOMAIN rows, Spends(t) \/ Restores(t) \/ Mints(t) PROVE Chain'
    BY <1>2, <2>1, SpendChain, RestoreChain, MintChain
  <2>2. ASSUME NEW S \in SUBSET DOMAIN rows, Ends(S) PROVE Chain'
    BY <1>2, <2>2, EndChain
  <2>3. CASE UNCHANGED rows
    BY <1>2, <2>3 DEF Chain, TableOK, Dated, Spaced, Ordered, Followed, Follows, Aged, Kin,
                      Live, Retired, Current
  <2> QED  BY <1>2, <2>1, <2>2, <2>3, BeginChain DEF Moves
<1> QED  BY <1>1, <1>2, NextMoves

LEMMA InitChain == Init => Chain
<1> SUFFICES ASSUME Init PROVE Chain
  OBVIOUS
<1> DEFINE first == [family |-> 1, issuedAt |-> 1, rotatedAt |-> Never, revoked |-> FALSE, used |-> FALSE]
<1>1. rows = <<first>> /\ now = RotateAfter + 1 /\ first \in Row
  BY Constants DEF Init, BackendInit, Row, Token, Never
<1>2. rows \in Seq(Row) /\ Len(rows) = 1 /\ DOMAIN rows = {1} /\ rows[1] = first
  BY <1>1
<1>3. /\ rows[1].family = 1 /\ rows[1].issuedAt = 1 /\ rows[1].rotatedAt = Never
      /\ rows[1].revoked = FALSE /\ rows[1].used = FALSE
  BY <1>2
<1> HIDE DEF first
<1>4. TableOK
  BY <1>1, <1>2, Constants DEF TableOK
<1>5. Dated
  BY <1>1, <1>2, <1>3, Constants DEF Dated, Never
<1>6. Spaced /\ Ordered /\ Aged
  BY <1>2 DEF Spaced, Ordered, Aged
<1>7. Followed
  BY <1>2, <1>3 DEF Followed, Retired
<1> QED  BY <1>4, <1>5, <1>6, <1>7 DEF Chain
----------------------------------------------------------------------------
(***************************************************************************)
(* The table keeps the promise of SignInLineage.                           *)
(***************************************************************************)
IsHead(t, f) == Current(t) /\ rows[t].family = f
HeadOf(f) == IF \E t \in DOMAIN rows : Current(t) /\ rows[t].family = f
             THEN CHOOSE t \in DOMAIN rows : Current(t) /\ rows[t].family = f
             ELSE Never
PastOf(f) == {t \in DOMAIN rows : Retired(t) /\ rows[t].family = f}
SpentTokens == {t \in DOMAIN rows : rows[t].used}
HeadTable == [f \in Token |-> HeadOf(f)]
PastTable == [f \in Token |-> PastOf(f)]

LEMMA Tokens == ASSUME TableOK PROVE DOMAIN rows \subseteq Token /\ Never \notin Token
BY Rows, Constants DEF TableOK, Token, Never

LEMMA HeadIs ==
  ASSUME Chain, NEW f
  PROVE  /\ \A t : IsHead(t, f) => HeadOf(f) = t
         /\ (\A t : ~IsHead(t, f)) => HeadOf(f) = Never
         /\ IsHead(HeadOf(f), f) \/ HeadOf(f) = Never
<1>1. ASSUME NEW t, NEW u, IsHead(t, f), IsHead(u, f) PROVE t = u
  <2>1. t \in DOMAIN rows /\ u \in DOMAIN rows /\ Kin(t, u) /\ Kin(u, t) /\ Live(t) /\ Live(u)
        /\ ~Retired(t) /\ ~Retired(u)
    BY <1>1 DEF IsHead, Current, Live, Retired, Kin
  <2>2. ~(t < u) /\ ~(u < t)
    BY <2>1 DEF Chain, Ordered
  <2>3. t \in Nat /\ u \in Nat
    BY <2>1, Rows DEF Chain
  <2> QED  BY <2>2, <2>3
<1> QED  BY <1>1 DEF HeadOf, IsHead, Current, Live

LEMMA HeadIsAfter ==
  ASSUME Chain', NEW f
  PROVE  /\ \A t : IsHead(t, f)' => HeadOf(f)' = t
         /\ (\A t : ~IsHead(t, f)') => HeadOf(f)' = Never
<1>1. ASSUME NEW t, NEW u, IsHead(t, f)', IsHead(u, f)' PROVE t = u
  <2>1. t \in DOMAIN rows' /\ u \in DOMAIN rows' /\ Kin(t, u)' /\ Kin(u, t)' /\ Live(t)' /\ Live(u)'
        /\ ~Retired(t)' /\ ~Retired(u)'
    BY <1>1 DEF IsHead, Current, Live, Retired, Kin
  <2>2. ~(t < u) /\ ~(u < t)
    BY <2>1 DEF Chain, Ordered
  <2>3. rows' \in Seq(Row) /\ DOMAIN rows' = 1..Len(rows') /\ Len(rows') \in Nat
    BY LenProperties DEF Chain, TableOK
  <2> QED  BY <2>1, <2>2, <2>3
<1> QED  BY <1>1 DEF HeadOf, IsHead, Current, Live

LEMMA HeadSame ==
  ASSUME Chain, Chain', NEW f, \A t : IsHead(t, f)' <=> IsHead(t, f)
  PROVE  HeadOf(f)' = HeadOf(f)
<1>1. CASE \E t : IsHead(t, f)
  BY <1>1, HeadIs, HeadIsAfter
<1>2. CASE \A t : ~IsHead(t, f)
  BY <1>2, HeadIs, HeadIsAfter
<1> QED  BY <1>1, <1>2

\* The steps of SignInLineage in terms of the mapping.
LEMMA LineageBegins ==
  ASSUME NEW f \in Token \ DOMAIN rows, DOMAIN rows' = DOMAIN rows \cup {f},
         HeadOf(f)' = f, \A g \in Token \ {f} : HeadOf(g)' = HeadOf(g),
         \A g \in Token : PastOf(g)' = PastOf(g), SpentTokens' = SpentTokens
  PROVE  Lineage!Next
<1>1. HeadTable' = [HeadTable EXCEPT ![f] = f] /\ PastTable' = PastTable
  BY DEF HeadTable, PastTable
<1>2. Lineage!Begin(f)
  BY <1>1 DEF Lineage!Begin, HeadTable, HeadOf, PastTable, PastOf, SpentTokens
<1> QED  BY <1>2 DEF Lineage!Next

LEMMA LineageSpends ==
  ASSUME NEW t \in Token, t \in DOMAIN rows, DOMAIN rows' = DOMAIN rows,
         \A g \in Token : HeadOf(g)' = HeadOf(g) /\ PastOf(g)' = PastOf(g),
         SpentTokens' = SpentTokens \cup {t}
  PROVE  Lineage!Next
<1>1. HeadTable' = HeadTable /\ PastTable' = PastTable
  BY DEF HeadTable, PastTable
<1>2. Lineage!Spend(t)
  BY <1>1 DEF Lineage!Spend, HeadTable, HeadOf, PastTable, PastOf, SpentTokens
<1> QED  BY <1>2 DEF Lineage!Next

LEMMA LineageAdvances ==
  ASSUME NEW f \in Token, NEW u \in Token \ DOMAIN rows, HeadOf(f) \in SpentTokens,
         DOMAIN rows' = DOMAIN rows \cup {u},
         HeadOf(f)' = u, \A g \in Token \ {f} : HeadOf(g)' = HeadOf(g) /\ PastOf(g)' = PastOf(g),
         PastOf(f)' = PastOf(f) \cup {HeadOf(f)}, SpentTokens' = SpentTokens
  PROVE  Lineage!Next
<1>1. HeadTable' = [HeadTable EXCEPT ![f] = u] /\ HeadTable[f] \in SpentTokens
  BY DEF HeadTable
<1>2. PastTable' = [PastTable EXCEPT ![f] = @ \cup {HeadTable[f]}]
  BY DEF PastTable, HeadTable
<1>3. Lineage!Advance(f, u)
  BY <1>1, <1>2 DEF Lineage!Advance, HeadTable, HeadOf, PastTable, PastOf, SpentTokens
<1> QED  BY <1>3 DEF Lineage!Next

LEMMA LineageGoesBack ==
  ASSUME NEW f \in Token, NEW t \in Token, t \in PastOf(f), HeadOf(f) \notin SpentTokens,
         DOMAIN rows' = DOMAIN rows, SpentTokens' = SpentTokens,
         HeadOf(f)' = t, \A g \in Token \ {f} : HeadOf(g)' = HeadOf(g) /\ PastOf(g)' = PastOf(g),
         PastOf(f)' = PastOf(f) \ {t}
  PROVE  Lineage!Next
<1>1. HeadTable' = [HeadTable EXCEPT ![f] = t] /\ HeadTable[f] \notin SpentTokens
  BY DEF HeadTable
<1>2. PastTable' = [PastTable EXCEPT ![f] = @ \ {t}] /\ t \in PastTable[f]
  BY DEF PastTable
<1>3. Lineage!GoBack(f, t)
  BY <1>1, <1>2 DEF Lineage!GoBack, HeadTable, HeadOf, PastTable, PastOf, SpentTokens
<1> QED  BY <1>3 DEF Lineage!Next

LEMMA LineageDiscards ==
  ASSUME \A g \in Token : /\ HeadOf(g)' \in {HeadOf(g), Never} /\ HeadOf(g)' \in Token \cup {Never}
                          /\ PastOf(g)' \subseteq PastOf(g) /\ PastOf(g)' \subseteq Token,
         SpentTokens' \subseteq SpentTokens, DOMAIN rows' = DOMAIN rows
  PROVE  Lineage!Next
<1>1. Lineage!Discard
  BY DEF Lineage!Discard, HeadOf, PastOf, SpentTokens
<1> QED  BY <1>1 DEF Lineage!Next

LEMMA SpendKept ==
  ASSUME Chain, Chain', NEW t \in DOMAIN rows, Spends(t) PROVE Lineage!Next
<1>0. TableOK
  BY DEF Chain
<1>1. /\ DOMAIN rows' = DOMAIN rows
      /\ \A u \in DOMAIN rows :
           /\ rows'[u].family = rows[u].family /\ rows'[u].rotatedAt = rows[u].rotatedAt
           /\ rows'[u].revoked = rows[u].revoked /\ rows'[u].used = (rows[u].used \/ u = t)
  BY <1>0, SpendRows
<1>2. ASSUME NEW f PROVE HeadOf(f)' = HeadOf(f) /\ PastOf(f)' = PastOf(f)
  <2>1. \A u : IsHead(u, f)' <=> IsHead(u, f)
    BY <1>1 DEF IsHead, Current, Live
  <2> QED  BY <1>1, <2>1, HeadSame DEF PastOf, Retired, Live
<1>3. SpentTokens' = SpentTokens \cup {t}
  BY <1>1 DEF SpentTokens
<1> QED  BY <1>0, <1>1, <1>2, <1>3, Tokens, LineageSpends

LEMMA EndKept ==
  ASSUME Chain, Chain', NEW S, Ends(S) PROVE Lineage!Next
<1>0. TableOK
  BY DEF Chain
<1>1. /\ DOMAIN rows' = DOMAIN rows
      /\ \A u \in DOMAIN rows :
           /\ rows'[u].family = rows[u].family /\ rows'[u].rotatedAt = rows[u].rotatedAt
           /\ rows[u].revoked => rows'[u].revoked
           /\ rows'[u].used = rows[u].used
  BY <1>0, EndRows
<1>2. ASSUME NEW f PROVE HeadOf(f)' \in {HeadOf(f), Never}
  <2>1. CASE \E u : IsHead(u, f)'
    <3>1. PICK u : IsHead(u, f)'
      BY <2>1
    <3>2. IsHead(u, f)
      BY <1>1, <3>1 DEF IsHead, Current, Live
    <3> QED  BY <3>1, <3>2, HeadIs, HeadIsAfter
  <2>2. CASE \A u : ~IsHead(u, f)'
    BY <2>2, HeadIsAfter
  <2> QED  BY <2>1, <2>2
<1>3. ASSUME NEW f PROVE HeadOf(f) \in Token \cup {Never}
  BY <1>0, Tokens, HeadIs DEF IsHead, Current, Live
<1>4. ASSUME NEW f PROVE PastOf(f)' \subseteq PastOf(f) /\ PastOf(f) \subseteq Token
  BY <1>0, <1>1, Tokens DEF PastOf, Retired, Live
<1>5. SpentTokens' = SpentTokens
  BY <1>1 DEF SpentTokens
<1>6. \A f \in Token : /\ HeadOf(f)' \in {HeadOf(f), Never} /\ HeadOf(f)' \in Token \cup {Never}
                       /\ PastOf(f)' \subseteq PastOf(f) /\ PastOf(f)' \subseteq Token
  BY <1>2, <1>3, <1>4
<1> QED  BY <1>1, <1>5, <1>6, LineageDiscards

LEMMA BeginKept ==
  ASSUME Chain, Chain', Begins PROVE Lineage!Next
<1>0. TableOK
  BY DEF Chain
<1> PICK new \in Nat : new = Len(rows) + 1
  BY <1>0, Rows
<1>1. /\ DOMAIN rows' = DOMAIN rows \cup {new}
      /\ \A u \in DOMAIN rows : rows'[u] = rows[u]
      /\ rows'[new] = NewRow(new)
  BY <1>0, BeginRows
<1>2. /\ rows'[new].family = new /\ rows'[new].rotatedAt = Never
      /\ rows'[new].revoked = FALSE /\ rows'[new].used = FALSE
  BY <1>1 DEF NewRow
<1>3. new \in Token \ DOMAIN rows /\ \A u \in DOMAIN rows : u # new /\ rows[u].family # new
  <2>1. new <= MaxTokens
    BY <1>0, Rows, Constants DEF Begins, TokenLeft
  <2>2. \A u \in DOMAIN rows : u < new /\ rows[u].family < new
    BY <1>0, Rows DEF Chain, Dated
  <2> QED  BY <1>0, <2>1, <2>2, Rows, Constants DEF Token
<1>4. IsHead(new, new)'
  BY <1>1, <1>2 DEF IsHead, Current, Live
<1>5. ASSUME NEW f, f # new PROVE HeadOf(f)' = HeadOf(f)
  <2>1. \A u : IsHead(u, f)' <=> IsHead(u, f)
    BY <1>1, <1>2, <1>3, <1>5 DEF IsHead, Current, Live
  <2> QED  BY <2>1, HeadSame
<1>6. ASSUME NEW f PROVE PastOf(f)' = PastOf(f)
  BY <1>1, <1>2, <1>3 DEF PastOf, Retired, Live
<1>7. SpentTokens' = SpentTokens
  BY <1>1, <1>2, <1>3 DEF SpentTokens
<1>8. HeadOf(new)' = new
  BY <1>4, HeadIsAfter
<1>9. \A g \in Token \ {new} : HeadOf(g)' = HeadOf(g)
  BY <1>5
<1>10. \A g \in Token : PastOf(g)' = PastOf(g)
  BY <1>6
<1> QED  BY <1>1, <1>3, <1>7, <1>8, <1>9, <1>10, LineageBegins

LEMMA MintKept ==
  ASSUME Chain, Chain', NEW t \in DOMAIN rows, Mints(t) PROVE Lineage!Next
<1>0. TableOK
  BY DEF Chain
<1> PICK new \in Nat : new = Len(rows) + 1
  BY <1>0, Rows
<1> PICK f \in Token : f = rows[t].family
  BY <1>0, Rows DEF Row
<1>1. /\ DOMAIN rows' = DOMAIN rows \cup {new}
      /\ \A u \in DOMAIN rows :
           /\ rows'[u].family = rows[u].family
           /\ rows'[u].rotatedAt = (IF u = t THEN now ELSE rows[u].rotatedAt)
           /\ rows'[u].revoked = rows[u].revoked /\ rows'[u].used = rows[u].used
      /\ rows'[new] = NewRow(f)
  BY <1>0, MintRows
<1>2. /\ rows'[new].family = f /\ rows'[new].rotatedAt = Never
      /\ rows'[new].revoked = FALSE /\ rows'[new].used = FALSE
  BY <1>1 DEF NewRow
<1>3. new \in Token \ DOMAIN rows /\ \A u \in DOMAIN rows : u # new
  <2>1. new <= MaxTokens
    BY <1>0, Rows, Constants DEF Mints, TokenLeft
  <2> QED  BY <1>0, <2>1, Rows, Constants DEF Token
<1>4. Current(t) /\ rows[t].used /\ IsHead(t, f)
  BY DEF Mints, IsHead
<1>5. now # Never
  BY <1>0, <1>4, Rows, Constants DEF Mints, Due, TableOK, Never
<1>6. IsHead(new, f)'
  BY <1>1, <1>2 DEF IsHead, Current, Live
<1>7. ASSUME NEW g, g # f PROVE HeadOf(g)' = HeadOf(g) /\ PastOf(g)' = PastOf(g)
  <2>1. \A u : IsHead(u, g)' <=> IsHead(u, g)
    BY <1>1, <1>2, <1>3, <1>7 DEF IsHead, Current, Live
  <2>2. PastOf(g)' = PastOf(g)
    BY <1>1, <1>2, <1>3, <1>7 DEF PastOf, Retired, Live
  <2> QED  BY <2>1, <2>2, HeadSame
<1>8. HeadOf(f) = t /\ HeadOf(f)' = new
  BY <1>4, <1>6, HeadIs, HeadIsAfter
<1>9. PastOf(f)' = PastOf(f) \cup {t}
  BY <1>1, <1>2, <1>3, <1>4, <1>5 DEF PastOf, Retired, Live, Current
<1>10. SpentTokens' = SpentTokens /\ t \in SpentTokens
  BY <1>1, <1>2, <1>3, <1>4 DEF SpentTokens
<1>11. \A g \in Token \ {f} : HeadOf(g)' = HeadOf(g) /\ PastOf(g)' = PastOf(g)
  BY <1>7
<1> QED  BY <1>1, <1>3, <1>8, <1>9, <1>10, <1>11, LineageAdvances

LEMMA RestoreKept ==
  ASSUME Chain, Chain', NEW t \in DOMAIN rows, Restores(t) PROVE Lineage!Next
<1>0. TableOK
  BY DEF Chain
<1> PICK f \in Token : f = rows[t].family
  BY <1>0, Rows DEF Row
<1>1. /\ DOMAIN rows' = DOMAIN rows
      /\ \A u \in DOMAIN rows :
           /\ rows'[u].family = rows[u].family
           /\ rows'[u].rotatedAt = (IF u = t THEN Never ELSE rows[u].rotatedAt)
           /\ rows'[u].used = rows[u].used
           /\ rows'[u].revoked =
                (rows[u].revoked \/ (u # t /\ Kin(t, u) /\ rows[u].issuedAt >= rows[t].rotatedAt))
  BY <1>0, RestoreRows
<1>2. Retired(t)
  BY RestoreLeaves
<1>3. ASSUME NEW u \in DOMAIN rows, u # t, Kin(t, u), Live(u)
      PROVE  (Retired(u) /\ ~rows'[u].revoked) \/ (Current(u) /\ rows'[u].revoked /\ ~rows[u].used)
  <2>1. CASE u < t /\ Retired(u) /\ rows[u].rotatedAt <= rows[t].issuedAt
    <3>1. rows[u].issuedAt < rows[t].rotatedAt
      <4>1. rows[t].issuedAt - rows[u].issuedAt > Grace
        BY <1>3, <2>1 DEF Chain, Spaced, Kin
      <4>2. rows[t].rotatedAt - rows[t].issuedAt >= RotateAfter
        BY <1>2 DEF Chain, Dated, Retired
      <4> QED  BY <1>0, <4>1, <4>2, Rows, Constants
    <3> QED  BY <1>0, <1>1, <1>3, <2>1, <3>1, Rows DEF Live
  <2> QED  BY <1>3, <2>1, RestoreLeaves
<1>4. IsHead(t, f)'
  BY <1>1, <1>2 DEF IsHead, Current, Live, Retired, Never
<1>5. ASSUME NEW g, g # f PROVE HeadOf(g)' = HeadOf(g) /\ PastOf(g)' = PastOf(g)
  <2>1. \A u : IsHead(u, g)' <=> IsHead(u, g)
    BY <1>1, <1>5 DEF IsHead, Current, Live, Kin
  <2>2. PastOf(g)' = PastOf(g)
    BY <1>1, <1>5 DEF PastOf, Retired, Live, Kin
  <2> QED  BY <2>1, <2>2, HeadSame
<1>6. HeadOf(f)' = t
  BY <1>4, HeadIsAfter
<1>7. HeadOf(f) \notin SpentTokens
  <2>1. CASE IsHead(HeadOf(f), f)
    <3>1. HeadOf(f) \in DOMAIN rows /\ HeadOf(f) # t /\ Kin(t, HeadOf(f)) /\ Live(HeadOf(f)) /\ ~Retired(HeadOf(f))
      BY <1>2, <2>1 DEF IsHead, Current, Live, Kin, Retired
    <3> QED  BY <1>3, <3>1 DEF SpentTokens
  <2>2. CASE HeadOf(f) = Never
    BY <1>0, <2>2, Tokens DEF SpentTokens
  <2> QED  BY <2>1, <2>2, HeadIs
<1>8. PastOf(f)' = PastOf(f) \ {t} /\ t \in PastOf(f)
  <2>1. t \in PastOf(f)
    BY <1>2 DEF PastOf
  <2>2. ASSUME NEW u \in DOMAIN rows PROVE u \in PastOf(f)' <=> u \in PastOf(f) /\ u # t
    <3>1. CASE u # t /\ Kin(t, u) /\ Live(u)
      BY <1>1, <1>3, <3>1 DEF PastOf, Retired, Live, Current
    <3>2. CASE u = t \/ ~Kin(t, u) \/ ~Live(u)
      BY <1>1, <3>2 DEF PastOf, Retired, Live, Kin
    <3> QED  BY <3>1, <3>2
  <2> QED  BY <1>1, <2>1, <2>2 DEF PastOf
<1>9. SpentTokens' = SpentTokens
  BY <1>1 DEF SpentTokens
<1>10. \A g \in Token \ {f} : HeadOf(g)' = HeadOf(g) /\ PastOf(g)' = PastOf(g)
  BY <1>5
<1>11. t \in Token
  BY <1>0, Tokens
<1> QED  BY <1>1, <1>6, <1>7, <1>8, <1>9, <1>10, <1>11, LineageGoesBack

\* Every step keeps the lineage.
LEMMA NextKept == ASSUME Chain, [Next]_vars PROVE [Lineage!Next]_(Lineage!vars)
<1>1. Chain'
  BY NextChain
<1>2. CASE rows' = rows
  BY <1>2 DEF Lineage!vars, Current, Retired, Live
<1>3. CASE Moves
  BY <1>1, <1>2, <1>3, SpendKept, RestoreKept, MintKept, BeginKept, EndKept DEF Moves
<1> QED  BY <1>2, <1>3, NextMoves

\* The session service as the browser model has it keeps the promise the detailed one
\* keeps: one token in force per sign-in, replaced when it was spent, taken back when its
\* successor was not, and what is discarded does not return.
THEOREM BackendKeepsLineage == Spec => KeepsLineage
<1>1. Init => Chain
  BY InitChain
<1>2. Chain /\ [Next]_vars => Chain'
  BY NextChain
<1>3. Chain /\ [Next]_vars => [Lineage!Next]_(Lineage!vars)
  BY NextKept
<1> QED  BY <1>1, <1>2, <1>3, PTL DEF Spec, KeepsLineage
----------------------------------------------------------------------------
(***************************************************************************)
(* What each step does to the request of a slot.                           *)
(***************************************************************************)
\* The rows are kept, and a new one is the youngest.
RowsGrow ==
  /\ DOMAIN rows \subseteq DOMAIN rows'
  /\ \A u \in DOMAIN rows : rows'[u].family = rows[u].family /\ rows'[u].issuedAt = rows[u].issuedAt
  /\ \A u \in DOMAIN rows' \ DOMAIN rows :
       /\ rows'[u].issuedAt = now /\ ~rows'[u].used /\ ~rows'[u].revoked
       /\ \A t \in DOMAIN rows' \ {u} : t \in DOMAIN rows /\ t < u

NoCookie == {Never, Clear}

\* A slot goes on with what it had, with the jar as it is, or with a token minted for it.
SlotStep(s) ==
  /\ req'[s] \in Requests
  /\ req'[s].at \in {"rotating", "revoking", "signing in"} => req'[s].session = Never
  /\ \A t : Presents(s, t)' => /\ t \in DOMAIN rows'
                               /\ \/ Presents(s, t) /\ req'[s].since = req[s].since
                                  \/ t = jar.session /\ req'[s].since = now
                                  \/ t \notin DOMAIN rows
  /\ \A t : Delivers(s, t)' /\ t \notin NoCookie =>
              \/ Delivers(s, t) /\ req'[s].since = req[s].since
              \/ t \in DOMAIN rows' \ DOMAIN rows
  /\ req'[s].at \notin {"idle", "redirected"} => req'[s].binding.token \in Issued'
  /\ req'[s] # Idle => req'[s].since = now \/ (req[s] # Idle /\ req'[s].since = req[s].since)

StillDelivers(s) == \A t : Delivers(s, t) /\ t \notin NoCookie => Delivers(s, t)'

LEMMA MovesGrow == ASSUME TableOK, Moves PROVE RowsGrow
<1>1. ASSUME NEW t \in DOMAIN rows, Spends(t) \/ Restores(t) PROVE RowsGrow
  BY <1>1, SpendRows, RestoreRows DEF RowsGrow
<1>2. ASSUME NEW S \in SUBSET DOMAIN rows, Ends(S) PROVE RowsGrow
  BY <1>2, EndRows DEF RowsGrow
<1> PICK new \in Nat : new = Len(rows) + 1
  BY Rows
<1>3. ASSUME DOMAIN rows' = DOMAIN rows \cup {new},
             \A u \in DOMAIN rows :
               rows'[u].family = rows[u].family /\ rows'[u].issuedAt = rows[u].issuedAt,
             NEW f, rows'[new] = NewRow(f)
      PROVE  RowsGrow
  <2>1. \A t \in DOMAIN rows : t < new /\ t # new
    BY Rows
  <2>2. rows'[new].issuedAt = now /\ rows'[new].used = FALSE /\ rows'[new].revoked = FALSE
    BY <1>3 DEF NewRow
  <2> QED  BY <1>3, <2>1, <2>2 DEF RowsGrow
<1>4. ASSUME NEW t \in DOMAIN rows, Mints(t) PROVE RowsGrow
  BY <1>3, <1>4, MintRows
<1>5. CASE Begins
  BY <1>3, <1>5, BeginRows
<1>6. CASE UNCHANGED rows
  BY <1>6 DEF RowsGrow
<1> QED  BY <1>1, <1>2, <1>4, <1>5, <1>6 DEF Moves

LEMMA Shaped ==
  ASSUME NEW r \in Requests
  PROVE  \/ r = Idle /\ r.at = "idle"
         \/ r \in Calling /\ r.at \in {"sent", "rotating", "rendering", "revoking", "signing in"} /\ r # Idle
         \/ r \in Answers /\ r.at = "answered" /\ r # Idle
         \/ r \in Redirected /\ r.at = "redirected" /\ r # Idle
<1>1. Idle.at = "idle"
  BY DEF Idle
<1>2. CASE r = Idle
  BY <1>1, <1>2
<1>3. CASE r \in Calling
  BY <1>1, <1>3 DEF Calling
<1>4. CASE r \in Answers
  BY <1>1, <1>4 DEF Answers
<1>5. CASE r \in Redirected
  BY <1>1, <1>5 DEF Redirected
<1> QED  BY <1>2, <1>3, <1>4, <1>5 DEF Requests

LEMMA Slots ==
  ASSUME Shapes, NEW s \in Slot
  PROVE  /\ req[s] \in Requests
         /\ req[s].at \in {"rotating", "rendering", "revoking", "signing in"} => req[s] \in Calling
         /\ req[s].at = "answered" => req[s] \in Answers
         /\ req[s].at = "redirected" => req[s] \in Redirected
         /\ req[s].at = "idle" <=> req[s] = Idle
         /\ req[s].at \in {"rotating", "revoking", "signing in"} => req[s].session = Never
<1>1. req[s] \in Requests
  BY DEF Shapes
<1>2. req[s].at \in {"rotating", "revoking", "signing in"} => req[s].session = Never
  BY DEF Shapes
<1> QED  BY <1>1, <1>2, Shaped

LEMMA AnswerShape ==
  ASSUME NEW r \in Calling, NEW goto \in {"stay", "login", "logout", "dashboard"}
  PROVE  /\ Answered(r, goto) \in Answers
         /\ Answered(r, goto).at = "answered" /\ Answered(r, goto).since = r.since
         /\ Answered(r, goto).session = r.session /\ Answered(r, goto).binding = r.binding
BY DEF Answered, Calling, Answers

LEMMA SlotRests ==
  ASSUME Shapes, Genuine, RowsGrow, NEW s \in Slot, req'[s] = req[s]
  PROVE  SlotStep(s) /\ StillDelivers(s)
<1>1. Issued \subseteq Issued'
  BY DEF Issued, RowsGrow
<1>2. req'[s] \in Requests
  BY Slots
<1>3. req'[s].at \in {"rotating", "revoking", "signing in"} => req'[s].session = Never
  BY Slots
<1>4. ASSUME NEW t, Presents(s, t)' PROVE t \in DOMAIN rows' /\ Presents(s, t) /\ req'[s].since = req[s].since
  BY <1>4 DEF Presents, Genuine, RowsGrow
<1>5. \A t : Delivers(s, t)' <=> Delivers(s, t)
  BY DEF Delivers
<1>6. req'[s].at \notin {"idle", "redirected"} => req'[s].binding.token \in Issued'
  BY <1>1 DEF Genuine
<1> QED  BY <1>2, <1>3, <1>4, <1>5, <1>6 DEF SlotStep, StillDelivers

\* A request as it meets the frontend.
LEMMA MetShape ==
  ASSUME TableOK, Shapes, NEW kind \in {"nav", "post", "guest", "logout", "login"},
         NEW r, r = Met(Request(kind))
  PROVE  /\ r \in Requests
         /\ r # Idle => r.since = now
         /\ r.at \in {"rotating", "rendering"} => r.token = jar.session /\ jar.session # Never
         /\ r.at \in {"rotating", "rendering", "revoking", "signing in", "answered"} =>
              r.session = Never /\ r.binding.token \in {Never, jar.session}
         /\ r.at # "redirected"
<1> DEFINE q == Request(kind)
<1>2. now \in Nat /\ jar.session \in Nat /\ jar.binding.rotateAt \in Int /\ jar.binding.expiresAt \in Int
  BY DEF TableOK, Shapes, Bindings
<1>3. NoBinding \in Bindings /\ NoBinding.token = Never
  BY DEF NoBinding, Bindings, Never
<1>1. q \in Calling /\ q.at = "sent" /\ q.kind = kind /\ q.since = now /\ q.asked = Never
      /\ q.token = jar.session /\ q.session = Never /\ q.binding = NoBinding
  BY <1>2, <1>3 DEF Request, Calling, Never
<1> HIDE DEF q
<1>4. Rolled(q) \in Bindings /\ Rolled(q).token \in {Never, jar.session}
  <2>1. Binding(q.token, jar.binding.rotateAt) \in Bindings
        /\ Binding(q.token, jar.binding.rotateAt).token = jar.session
    BY <1>1, <1>2, Constants DEF Binding, Bindings
  <2> QED  BY <1>3, <2>1 DEF Rolled
<1>5. ASSUME NEW goto \in {"stay", "login", "logout", "dashboard"}, r = Answered(q, goto)
      PROVE  /\ r \in Requests /\ r.since = now /\ r.at = "answered"
             /\ r.session = Never /\ r.binding.token = Never
  BY <1>1, <1>3, <1>5, AnswerShape DEF Requests
<1>6. CASE kind \in {"nav", "post"}
  <2>1. r = Member(q)
    BY <1>1, <1>6 DEF Met, q
  <2>2. CASE q.token = Never
    <3>1. r = Answered(q, "login")
      BY <2>1, <2>2 DEF Member
    <3> QED  BY <1>5, <3>1
  <2>3. CASE q.token # Never /\ ~Bound
    <3>1. r = Answered(q, "logout")
      BY <2>1, <2>3 DEF Member
    <3> QED  BY <1>5, <3>1
  <2>4. CASE q.token # Never /\ Bound /\ q.kind = "nav" /\ now >= jar.binding.rotateAt
    <3>1. r = [q EXCEPT !.at = "rotating", !.asked = now]
      BY <2>1, <2>4 DEF Member
    <3> QED  BY <1>1, <1>2, <1>3, <2>4, <3>1 DEF Calling, Requests, Idle
  <2>5. CASE q.token # Never /\ Bound /\ ~(q.kind = "nav" /\ now >= jar.binding.rotateAt)
    <3>1. r = [q EXCEPT !.at = "rendering", !.binding = Rolled(q)]
      BY <2>1, <2>5 DEF Member
    <3> QED  BY <1>1, <1>2, <1>4, <2>5, <3>1 DEF Calling, Requests, Idle
  <2> QED  BY <2>2, <2>3, <2>4, <2>5
<1>7. CASE kind = "guest"
  <2>1. r = Guest(q)
    BY <1>1, <1>7 DEF Met, q
  <2>2. r = Idle \/ r = Answered(q, "dashboard")
    BY <2>1 DEF Guest
  <2>3. Idle \in Requests /\ Idle.at = "idle"
    BY DEF Requests, Idle
  <2> QED  BY <1>5, <2>2, <2>3
<1>8. CASE kind = "logout"
  <2>1. r = [q EXCEPT !.at = "revoking"]
    BY <1>1, <1>8 DEF Met, q
  <2> QED  BY <1>1, <1>2, <1>3, <2>1 DEF Calling, Requests, Idle
<1>9. CASE kind = "login"
  <2>1. r = [q EXCEPT !.at = "signing in"]
    BY <1>1, <1>9 DEF Met, q
  <2> QED  BY <1>1, <1>2, <1>3, <2>1 DEF Calling, Requests, Idle
<1> QED  BY <1>6, <1>7, <1>8, <1>9

LEMMA MeetSlot ==
  ASSUME Chain, Shapes, Genuine, NEW s \in Slot,
         NEW kind \in {"nav", "post", "guest", "logout", "login"},
         Meet(s, kind), req[s].at \in {"idle", "redirected"}
  PROVE  SlotStep(s) /\ StillDelivers(s)
<1> DEFINE r == Met(Request(kind))
<1>1. req'[s] = r /\ rows' = rows
  BY DEF Meet, backendVars, Shapes
<1> HIDE DEF r
<1>2. /\ r \in Requests
      /\ r # Idle => r.since = now
      /\ r.at \in {"rotating", "rendering"} => r.token = jar.session /\ jar.session # Never
      /\ r.at \in {"rotating", "rendering", "revoking", "signing in", "answered"} =>
           r.session = Never /\ r.binding.token \in {Never, jar.session}
      /\ r.at # "redirected"
  BY MetShape DEF r, Chain
<1>3. jar.session \in Issued /\ Never \in Issued
  BY DEF Genuine, Issued
<1>4. r.at \in {"sent", "rotating", "rendering", "revoking", "signing in", "answered", "redirected", "idle"}
  BY <1>2, Shaped
<1>5. r.at # "sent"
  BY DEF r, Met, Member, Guest, Request, Answered, Idle
<1>6. ASSUME NEW t, Presents(s, t)' PROVE t \in DOMAIN rows' /\ t = jar.session /\ req'[s].since = now
  BY <1>1, <1>2, <1>3, <1>6, Shaped DEF Presents, Issued
<1>7. \A t : Delivers(s, t)' => t = Never
  BY <1>1, <1>2 DEF Delivers
<1>8. \A t : ~Delivers(s, t)
  BY DEF Delivers
<1>9. Issued' = Issued
  BY <1>1 DEF Issued
<1>10. req'[s].at \notin {"idle", "redirected"} => req'[s].binding.token \in Issued'
  BY <1>1, <1>2, <1>3, <1>4, <1>5, <1>9
<1> QED  BY <1>1, <1>2, <1>6, <1>7, <1>8, <1>10 DEF SlotStep, StillDelivers, NoCookie

LEMMA BindingShape ==
  ASSUME TableOK, NEW t \in Nat, NEW i \in Int
  PROVE  \E b \in Bindings : b = Binding(t, i) /\ b.token = t
<1>1. now + IdleTimeout \in Int
  BY Constants DEF TableOK
<1>2. Binding(t, i) \in Bindings /\ Binding(t, i).token = t
  BY <1>1 DEF Binding, Bindings
<1> QED  BY <1>2

\* A request that goes on under its token, or ends, with no new session cookie.
LEMMA GoesOn ==
  ASSUME Shapes, Genuine, RowsGrow, NEW s \in Slot, req'[s] \in Requests, req'[s] # Idle,
         req'[s].since = req[s].since, req[s] # Idle, req'[s].at \in {"rendering", "answered"},
         req'[s].at = "rendering" => Presents(s, req'[s].token),
         req'[s].binding.token \in Issued,
         \/ req[s].at \in {"rendering", "answered"} /\ req'[s].session = req[s].session
         \/ req[s].at \notin {"rendering", "answered"} /\ req'[s].session \in NoCookie
  PROVE  SlotStep(s) /\ StillDelivers(s)
<1>1. Issued \subseteq Issued'
  BY DEF Issued, RowsGrow
<1>2. ASSUME NEW t, Presents(s, t)' PROVE t \in DOMAIN rows' /\ Presents(s, t)
  <2>1. Presents(s, t)
    BY <1>2 DEF Presents
  <2> QED  BY <2>1 DEF Genuine, RowsGrow
<1>3. ASSUME NEW t, t \notin NoCookie PROVE Delivers(s, t)' <=> Delivers(s, t)
  BY <1>3 DEF Delivers
<1> QED  BY <1>1, <1>2, <1>3 DEF SlotStep, StillDelivers

LEMMA RotatedSlot ==
  ASSUME Chain, Shapes, Genuine, RowsGrow, NEW s \in Slot, RotationAnswered(s)
  PROVE  /\ SlotStep(s) /\ StillDelivers(s)
         /\ \A u \in DOMAIN rows' \ DOMAIN rows : Delivers(s, u)'
<1>0. TableOK
  BY DEF Chain
<1> DEFINE r == req[s]
           t == req[s].token
<1>1. r \in Calling /\ r.at = "rotating" /\ r.session = Never /\ Presents(s, t) /\ t \in DOMAIN rows
      /\ r.binding.token \in Issued /\ r # Idle
  BY Slots DEF RotationAnswered, Presents, Genuine
<1>2. req'[s] = AfterRotation(r)
  BY DEF RotationAnswered, Shapes
<1>3. rows[t].issuedAt \in Nat /\ now \in Nat /\ t \in Nat /\ Len(rows) + 1 \in Nat
  BY <1>0, <1>1, Rows DEF TableOK
<1>4. r.asked \in Nat
  BY <1>1 DEF Calling
<1> PICK at \in Int : at = r.asked + RotateIn(t)
  BY <1>3, <1>4, Constants DEF RotateIn
<1>6. CASE Verdict(t) = "rotated"
  <2> PICK new \in Nat : new = Len(rows) + 1
    BY <1>3
  <2> PICK b \in Bindings : b = Binding(new, at) /\ b.token = new
    BY <1>0, BindingShape
  <2>1. req'[s] = [r EXCEPT !.at = "rendering", !.asked = Never, !.token = new, !.session = new,
                            !.binding = b]
    BY <1>2, <1>6 DEF AfterRotation, RotatedTo
  <2>a. Mints(t)
    BY <1>6, RotateMoves DEF RotationAnswered
  <2>b. DOMAIN rows' = DOMAIN rows \cup {new}
    BY <1>0, <1>1, <2>a, MintRows
  <2>2. DOMAIN rows' = DOMAIN rows \cup {new} /\ new \notin DOMAIN rows
    BY <1>0, <2>b, Rows
  <2>3. /\ req'[s] \in Calling /\ req'[s].at = "rendering" /\ req'[s].token = new
        /\ req'[s].session = new /\ req'[s].since = r.since /\ req'[s].binding.token = new
    BY <1>1, <2>1 DEF Calling, Never
  <2>4. req'[s] \in Requests /\ \A u : Delivers(s, u) => FALSE
    BY <1>1, <2>3 DEF Requests, Delivers
  <2>5. \A u : Presents(s, u)' => u = new
    BY <2>3 DEF Presents
  <2>6. \A u : Delivers(s, u)' <=> u = new
    BY <2>3 DEF Delivers
  <2>7. new \in Issued'
    BY <2>2 DEF Issued
  <2> QED  BY <1>1, <2>2, <2>3, <2>4, <2>5, <2>6, <2>7 DEF SlotStep, StillDelivers
<1>7. CASE Verdict(t) # "rotated"
  <2>1. rows' = rows \/ Ends(FamilyOf(t))
    BY <1>7, RotateMoves DEF RotationAnswered
  <2>2. DOMAIN rows' = DOMAIN rows
    BY <1>0, <2>1, EndRows
  <2>3. Verdict(t) \in {"not_due", "superseded", "invalid"}
    BY <1>7 DEF Verdict
  <2>4. /\ req'[s] \in Requests /\ req'[s] # Idle /\ req'[s].since = r.since
        /\ req'[s].at \in {"rendering", "answered"} /\ req'[s].session = Never
        /\ req'[s].at = "rendering" => req'[s].token = t
        /\ req'[s].binding.token \in Issued
    <3>1. CASE Verdict(t) = "not_due"
      <4> PICK b \in Bindings : b = Binding(t, at) /\ b.token = t
        BY <1>0, <1>3, BindingShape
      <4>1. req'[s] = [r EXCEPT !.at = "rendering", !.asked = Never, !.binding = b]
        BY <1>2, <3>1 DEF AfterRotation, NotDue
      <4>2. /\ req'[s] \in Calling /\ req'[s].at = "rendering" /\ req'[s].token = t
            /\ req'[s].session = Never /\ req'[s].since = r.since /\ req'[s].binding.token = t
        BY <1>1, <4>1 DEF Calling, Never
      <4> QED  BY <1>1, <4>2, Shaped DEF Requests, Issued
    <3>2. CASE Verdict(t) = "superseded"
      <4>1. req'[s] = [r EXCEPT !.at = "rendering", !.asked = Never]
        BY <1>2, <3>2 DEF AfterRotation, LeftAlone
      <4>2. /\ req'[s] \in Calling /\ req'[s].at = "rendering" /\ req'[s].token = t
            /\ req'[s].session = Never /\ req'[s].since = r.since /\ req'[s].binding = r.binding
        BY <1>1, <4>1 DEF Calling, Never
      <4> QED  BY <1>1, <4>2, Shaped DEF Requests
    <3>3. CASE Verdict(t) = "invalid"
      <4>1. req'[s] = Answered(r, "logout")
        BY <1>2, <3>3 DEF AfterRotation
      <4>2. /\ req'[s] \in Answers /\ req'[s].at = "answered" /\ req'[s].since = r.since
            /\ req'[s].session = Never /\ req'[s].binding = r.binding
        BY <1>1, <4>1, AnswerShape
      <4> QED  BY <1>1, <4>2, Shaped DEF Requests
    <3> QED  BY <2>3, <3>1, <3>2, <3>3
  <2>5. SlotStep(s) /\ StillDelivers(s)
    BY <1>1, <2>4, GoesOn DEF NoCookie
  <2> QED  BY <2>2, <2>5
<1> QED  BY <1>6, <1>7

LEMMA GivenUpSlot ==
  ASSUME Chain, Shapes, Genuine, RowsGrow, NEW s \in Slot, RotationGivenUp(s)
  PROVE  SlotStep(s) /\ StillDelivers(s)
<1>0. TableOK
  BY DEF Chain
<1> DEFINE r == req[s]
           t == req[s].token
<1>1. r \in Calling /\ r.at = "rotating" /\ r.session = Never /\ Presents(s, t) /\ t \in DOMAIN rows /\ r # Idle
  BY Slots DEF RotationGivenUp, Presents, Genuine
<1>2. r.asked \in Nat
  BY <1>1 DEF Calling
<1> PICK at \in Int : at = r.asked + RetryAfter
  BY <1>2, Constants
<1>3. t \in Nat
  BY <1>0, <1>1, Rows
<1> PICK b \in Bindings : b = Binding(t, at) /\ b.token = t
  BY <1>0, <1>3, BindingShape
<1>4. req'[s] = [r EXCEPT !.at = "rendering", !.asked = Never, !.binding = b]
  BY DEF RotationGivenUp, Unavailable, Shapes
<1>5. /\ req'[s] \in Calling /\ req'[s].at = "rendering" /\ req'[s].token = t
      /\ req'[s].session = Never /\ req'[s].since = r.since /\ req'[s].binding.token = t
  BY <1>1, <1>4 DEF Calling, Never
<1>6. req'[s] \in Requests /\ req'[s] # Idle
  BY <1>5, Shaped DEF Requests
<1> QED  BY <1>1, <1>5, <1>6, GoesOn DEF NoCookie, Issued

\* A page or an action that is done.
LEMMA DoneSlot ==
  ASSUME Chain, Shapes, Genuine, RowsGrow, NEW s \in Slot, Render(s) \/ RevokeOthers(s)
  PROVE  SlotStep(s) /\ StillDelivers(s)
<1>1. req[s] \in Calling /\ req[s].at = "rendering" /\ req[s].binding.token \in Issued /\ req[s] # Idle
  BY Slots DEF Render, RevokeOthers, Genuine
<1>2. \E goto \in {"logout", "stay"} : req'[s] = Answered(req[s], goto)
  BY DEF Render, RevokeOthers, Shapes
<1>3. /\ req'[s] \in Answers /\ req'[s].at = "answered" /\ req'[s].since = req[s].since
      /\ req'[s].session = req[s].session /\ req'[s].binding = req[s].binding
  BY <1>1, <1>2, AnswerShape
<1>4. req'[s] \in Requests /\ req'[s] # Idle
  BY <1>3, Shaped DEF Requests
<1> QED  BY <1>1, <1>3, <1>4, GoesOn

LEMMA LogOutSlot ==
  ASSUME Chain, Shapes, Genuine, RowsGrow, NEW s \in Slot, LogOut(s)
  PROVE  SlotStep(s) /\ StillDelivers(s)
<1>1. req[s] \in Calling /\ req[s].at = "revoking" /\ req[s].binding.token \in Issued /\ req[s] # Idle
  BY Slots DEF LogOut, Genuine
<1>2. req'[s] = [Answered(req[s], "login") EXCEPT !.session = Clear]
  BY DEF LogOut, Shapes, Cleared
<1>3. /\ req'[s] \in Answers /\ req'[s].at = "answered" /\ req'[s].since = req[s].since
      /\ req'[s].session = Clear /\ req'[s].binding = req[s].binding
  BY <1>1, <1>2, AnswerShape DEF Answers
<1>4. req'[s] \in Requests /\ req'[s] # Idle
  BY <1>3, Shaped DEF Requests
<1> QED  BY <1>1, <1>3, <1>4, GoesOn DEF NoCookie

LEMMA LogInSlot ==
  ASSUME Chain, Shapes, Genuine, RowsGrow, NEW s \in Slot, LogIn(s)
  PROVE  /\ SlotStep(s) /\ StillDelivers(s)
         /\ \A u \in DOMAIN rows' \ DOMAIN rows : Delivers(s, u)'
<1>0. TableOK
  BY DEF Chain
<1> PICK new \in Nat : new = Len(rows) + 1
  BY <1>0, Rows
<1>1. req[s] \in Calling /\ req[s].at = "signing in" /\ req[s].session = Never /\ req[s] # Idle
  BY Slots DEF LogIn
<1>2. \A u : ~Delivers(s, u) /\ ~Presents(s, u)
  BY <1>1 DEF Delivers, Presents
<1>3. CASE req'[s] = Idle /\ rows' = rows
  <2>1. req'[s] \in Requests /\ req'[s].at = "idle"
    BY <1>3 DEF Requests, Idle
  <2> QED  BY <1>2, <1>3, <2>1 DEF SlotStep, StillDelivers, Presents, Delivers
<1>4. CASE ~(req'[s] = Idle /\ rows' = rows)
  <2> PICK b \in Bindings : b = Binding(new, 0) /\ b.token = new
    BY <1>0, BindingShape
  <2>1. /\ Begins
        /\ req'[s] = [Answered(req[s], "dashboard") EXCEPT !.session = new, !.binding = b]
    BY <1>4 DEF LogIn, SignIn, Begins, Shapes
  <2>2. DOMAIN rows' = DOMAIN rows \cup {new} /\ new \notin DOMAIN rows
    BY <1>0, <2>1, BeginRows, Rows
  <2>3. PICK a \in Answers : a = Answered(req[s], "dashboard") /\ a.since = req[s].since
    BY <1>1, AnswerShape
  <2>4. /\ req'[s] \in Answers /\ req'[s].at = "answered" /\ req'[s].since = req[s].since
        /\ req'[s].session = new /\ req'[s].binding.token = new
    BY <2>1, <2>3 DEF Answers
  <2>5. req'[s] \in Requests /\ new \in Issued'
    BY <2>2, <2>4 DEF Requests, Issued
  <2>6. \A u : ~Presents(s, u)' /\ (Delivers(s, u)' <=> u = new)
    BY <2>4 DEF Presents, Delivers
  <2> QED  BY <1>1, <1>2, <2>2, <2>4, <2>5, <2>6 DEF SlotStep, StillDelivers
<1> QED  BY <1>3, <1>4

LEMMA ReceiveSlot ==
  ASSUME Chain, Shapes, Genuine, NEW s \in Slot, Receive(s)
  PROVE  SlotStep(s)
<1>1. req[s] \in Answers /\ req[s].at = "answered"
  BY Slots DEF Receive
<1>2. req'[s] = Landed(req[s]) /\ now' = now
  BY DEF Receive, Shapes, backendVars
<1>3. CASE req[s].goto = "stay"
  <2>1. req'[s] = Idle
    BY <1>2, <1>3 DEF Landed
  <2>2. req'[s] \in Requests /\ req'[s].at = "idle"
    BY <2>1 DEF Requests, Idle
  <2> QED  BY <2>1, <2>2 DEF SlotStep, Presents, Delivers
<1>4. CASE req[s].goto # "stay"
  <2>1. req'[s] = [at |-> "redirected", kind |-> Page[req[s].goto], since |-> now]
    BY <1>2, <1>4 DEF Landed
  <2>2. Page[req[s].goto] \in {"nav", "guest", "logout"}
    BY <1>1, <1>4 DEF Answers, Page
  <2>3. now \in Nat
    BY DEF Chain, TableOK
  <2>4. req'[s] \in Requests /\ req'[s].at = "redirected" /\ req'[s].since = now
    BY <2>1, <2>2, <2>3 DEF Requests, Redirected
  <2> QED  BY <2>4 DEF SlotStep, Presents, Delivers
<1> QED  BY <1>3, <1>4

----------------------------------------------------------------------------
(***************************************************************************)
(* What is known, and what of it a request may have missed.                *)
(***************************************************************************)
\* No token comes into use or into a late call that was not at work in the browser.
UsesHeld == \A u \in DOMAIN rows : rows'[u].used => rows[u].used \/ Held(u)
LateHeld ==
  \A c \in late' : c \in late \/ \E s \in Slot : Presents(s, c.token) /\ c.since = req[s].since
JarTakes ==
  \A t \in DOMAIN rows : jar'.session = t => jar.session = t \/ \E s \in Slot : Delivers(s, t)
NewKnown == \A u \in DOMAIN rows' \ DOMAIN rows : Known(u)' => \E s \in Slot : Delivers(s, u)'

\* What strays stays lost, and in calm weather nothing does.
Onward == weather' = weather /\ (strayed => strayed') /\ (weather = "calm" => strayed' = strayed)

LEMMA NextOnward == ASSUME HistoryOK, [Next]_vars PROVE HistoryOK' /\ Onward
<1>0. MaxLosses \in Nat
  BY BoundAssumption
<1>1. ASSUME alarm' = alarm \/ (\E t : alarm' = (alarm \/ Reused(t))) PROVE alarm' \in BOOLEAN
  BY <1>1 DEF HistoryOK
<1>2. ASSUME weather' = weather, losses' = losses, strayed' = strayed,
             alarm' = alarm \/ (\E t : alarm' = (alarm \/ Reused(t)))
      PROVE  HistoryOK' /\ Onward
  BY <1>1, <1>2 DEF HistoryOK, Onward
<1>3. ASSUME NEW s \in Slot, Lose(s) PROVE HistoryOK' /\ Onward
  <2>1. alarm' = alarm /\ losses' \in 0..MaxLosses /\ weather' = weather /\ weather # "calm"
    BY <1>0, <1>3 DEF Lose, HistoryOK, backendVars
  <2>2. strayed' = (strayed \/ Rotated(req[s].session))
    BY <1>3 DEF Lose
  <2>3. strayed' \in BOOLEAN
    BY <2>2
  <2> QED  BY <2>1, <2>2, <2>3 DEF HistoryOK, Onward
<1>4. ASSUME NEW s \in Slot, NEW kind, Meet(s, kind) PROVE HistoryOK' /\ Onward
  BY <1>2, <1>4 DEF Meet, backendVars, lossVars
<1>5. ASSUME NEW s \in Slot, Resolving(s) PROVE HistoryOK' /\ Onward
  BY <1>2, <1>5 DEF Resolving, Resolve, MarkFirstUse, browserVars, lossVars
<1>6. ASSUME NEW s \in Slot, RotationAnswered(s) \/ Render(s) PROVE HistoryOK' /\ Onward
  BY <1>2, <1>6 DEF RotationAnswered, Rotate, Render, Present, lossVars
<1>7. ASSUME NEW s \in Slot, LogOut(s) \/ LogIn(s) \/ RevokeOthers(s) PROVE HistoryOK' /\ Onward
  BY <1>2, <1>7 DEF LogOut, EndFamily, LogIn, SignIn, RevokeOthers, EndOthers, lossVars
<1>8. ASSUME NEW s \in Slot, RotationGivenUp(s) \/ Receive(s) PROVE HistoryOK' /\ Onward
  BY <1>2, <1>8 DEF RotationGivenUp, Receive, backendVars, lossVars
<1>9. CASE LateRotation
  BY <1>2, <1>9 DEF LateRotation, Resolve, MarkFirstUse, Rotate, lossVars
<1>10. CASE LateLost \/ Tick \/ UNCHANGED vars
  BY <1>2, <1>10 DEF LateLost, Tick, vars, backendVars, browserVars, lossVars
<1> QED
  BY <1>3, <1>4, <1>5, <1>6, <1>7, <1>8, <1>9, <1>10 DEF Next, Serve, Go, Follow

Step ==
  /\ RowsGrow /\ now' = now /\ Onward
  /\ \A s \in Slot : SlotStep(s)
  /\ UsesHeld /\ LateHeld /\ JarTakes /\ NewKnown

\* Nothing is learnt of the tokens that were there.
LEMMA KnownBefore ==
  ASSUME TableOK, Step, NEW u \in DOMAIN rows, Known(u)' PROVE Known(u)
<1>1. u \notin NoCookie
  BY Rows DEF NoCookie, Never, Clear
<1>2. CASE weather = "calm"
  BY <1>2 DEF Known
<1>3. CASE rows'[u].used
  BY <1>3 DEF Step, UsesHeld, Known
<1>4. CASE jar'.session = u
  BY <1>4 DEF Step, JarTakes, Known, Held
<1>5. ASSUME NEW s \in Slot, Presents(s, u)' PROVE Known(u)
  BY <1>5 DEF Step, SlotStep, Known, Held
<1>6. ASSUME NEW s \in Slot, Delivers(s, u)' PROVE Known(u)
  BY <1>1, <1>6 DEF Step, SlotStep, Known, Held
<1>7. ASSUME NEW c \in late', c.token = u PROVE Known(u)
  BY <1>7 DEF Step, LateHeld, Known, Held
<1> QED  BY <1>2, <1>3, <1>4, <1>5, <1>6, <1>7 DEF Known, Held, Step, Onward

LEMMA StepTimely ==
  ASSUME TableOK, Timely, Shapes, Step PROVE Timely'
<1>1. now \in Nat
  BY DEF TableOK
<1>2. ASSUME NEW s \in Slot, req'[s] # Idle PROVE req'[s].since <= now /\ now - req'[s].since <= Life
  <2>1. CASE req'[s].since = now
    BY <1>1, <2>1, Constants
  <2>2. CASE req[s] # Idle /\ req'[s].since = req[s].since
    BY <2>2 DEF Timely
  <2> QED  BY <1>2, <2>1, <2>2 DEF Step, SlotStep
<1>3. ASSUME NEW c \in late' PROVE c.since <= now /\ now - c.since <= Life
  <2>1. ASSUME NEW s \in Slot, Presents(s, c.token) PROVE req[s].since <= now /\ now - req[s].since <= Life
    <3>1. req[s] # Idle
      BY <2>1, Slots DEF Presents
    <3> QED  BY <3>1 DEF Timely
  <2> QED  BY <1>3, <2>1 DEF Step, LateHeld, Timely
<1> QED  BY <1>2, <1>3 DEF Timely, Step

LEMMA StepGenuine ==
  ASSUME Chain, Genuine, Timely', Shapes', Step, {jar'.session, jar'.binding.token} \subseteq Issued'
  PROVE  Genuine'
<1>1. ASSUME NEW s \in Slot, NEW t, Presents(s, t)' PROVE t \in DOMAIN rows'
  BY <1>1 DEF Step, SlotStep
<1>2. ASSUME NEW s \in Slot, NEW t, Delivers(s, t)', t \notin NoCookie
      PROVE  t \in DOMAIN rows' /\ rows'[t].issuedAt >= req'[s].since
  <2>1. CASE Delivers(s, t) /\ req'[s].since = req[s].since
    BY <1>2, <2>1 DEF Genuine, NoCookie, Step, RowsGrow
  <2>2. CASE t \in DOMAIN rows' \ DOMAIN rows
    <3>1. rows'[t].issuedAt = now
      BY <2>2 DEF Step, RowsGrow
    <3>2. req'[s].at \in {"rendering", "answered"}
      BY <1>2 DEF Delivers
    <3>3. req'[s] \in Requests /\ req'[s] # Idle
      BY <3>2, Shaped DEF Step, SlotStep
    <3>4. req'[s].since <= now /\ req'[s].since \in Nat /\ now \in Nat
      BY <3>2, <3>3, Shaped DEF Timely, Step, Chain, TableOK, Calling, Answers
    <3> QED  BY <2>2, <3>1, <3>4
  <2> QED  BY <1>2, <2>1, <2>2 DEF Step, SlotStep
<1>3. ASSUME NEW c \in late' PROVE c.token \in DOMAIN rows'
  BY <1>3 DEF Step, LateHeld, Genuine, RowsGrow
<1>4. ASSUME NEW s \in Slot, req'[s].at \notin {"idle", "redirected"}
      PROVE  req'[s].binding.token \in Issued'
  BY <1>4 DEF Step, SlotStep
<1> QED  BY <1>1, <1>2, <1>3, <1>4 DEF Genuine, NoCookie

LEMMA StepJarKnows ==
  ASSUME Chain, Chain', Genuine, JarKnows, Step, jar'.session = jar.session, \A s \in Slot : StillDelivers(s)
  PROVE  JarKnows'
<1>0. TableOK
  BY DEF Chain
<1> SUFFICES ASSUME ~strayed', NEW t \in DOMAIN rows', NEW u \in DOMAIN rows',
                    jar.session = t, t < u, Kin(t, u)', Known(u)'
             PROVE  \E s \in Slot : Delivers(s, u)'
  BY DEF JarKnows
<1>a. ~strayed
  BY DEF Step, Onward
<1>1. CASE u \notin DOMAIN rows
  BY <1>1 DEF Step, NewKnown
<1>2. CASE u \in DOMAIN rows
  <2>1. t \in DOMAIN rows
    <3>1. t # Never
      BY LenProperties DEF Chain, TableOK, Never
    <3> QED  BY <3>1 DEF Genuine, Issued
  <2>2. Kin(t, u)
    BY <1>2, <2>1 DEF Kin, Step, RowsGrow
  <2>3. Known(u)
    BY <1>0, <1>2, KnownBefore
  <2>4. PICK s \in Slot : Delivers(s, u)
    BY <1>a, <1>2, <2>1, <2>2, <2>3 DEF JarKnows
  <2>5. u \notin NoCookie
    BY <1>0, <1>2, Rows DEF NoCookie, Never, Clear
  <2> QED  BY <2>4, <2>5 DEF StillDelivers
<1> QED  BY <1>1, <1>2

LEMMA StepLags ==
  ASSUME Chain, Step, NEW t \in DOMAIN rows, NEW since \in Nat, since <= now, Lags(t, since)
  PROVE  Lags(t, since)'
<1>0. TableOK /\ now \in Nat
  BY DEF Chain, TableOK
<1> SUFFICES ASSUME NEW u \in DOMAIN rows', t < u, Kin(t, u)', Known(u)'
             PROVE  rows'[u].issuedAt >= since - Life
  BY DEF Lags
<1>1. CASE u \in DOMAIN rows
  <2>1. Known(u) /\ Kin(t, u) /\ rows'[u].issuedAt = rows[u].issuedAt
    BY <1>0, <1>1, KnownBefore DEF Kin, Step, RowsGrow
  <2> QED  BY <1>1, <2>1 DEF Lags
<1>2. CASE u \notin DOMAIN rows
  <2>1. rows'[u].issuedAt = now
    BY <1>2 DEF Step, RowsGrow
  <2> QED  BY <1>0, <2>1, Constants
<1> QED  BY <1>1, <1>2

LEMMA StepRequestsKnow ==
  ASSUME Chain, Chain', Genuine, Timely, Timely', Shapes, Shapes', JarKnows, RequestsKnow, Step
  PROVE  RequestsKnow'
<1>0. TableOK /\ now \in Nat
  BY DEF Chain, TableOK
<1> SUFFICES ASSUME ~strayed'
             PROVE  /\ \A s \in Slot : \A t \in DOMAIN rows' : Presents(s, t)' => Lags(t, req[s].since)'
                    /\ \A c \in late' : Lags(c.token, c.since)'
  BY DEF RequestsKnow
<1>a. ~strayed
  BY DEF Step, Onward
<1>1. ASSUME NEW s \in Slot, NEW t, Presents(s, t)
      PROVE  t \in DOMAIN rows /\ req[s].since \in Nat /\ req[s].since <= now /\ Lags(t, req[s].since)
  <2>1. req[s] # Idle /\ req[s] \in Calling /\ t \in DOMAIN rows
    BY <1>1, Slots DEF Presents, Genuine
  <2> QED  BY <1>a, <1>1, <2>1 DEF Calling, Timely, RequestsKnow
<1>2. ASSUME NEW s \in Slot, NEW t \in DOMAIN rows', Presents(s, t)' PROVE Lags(t, req[s].since)'
  <2>1. CASE Presents(s, t) /\ req'[s].since = req[s].since
    BY <1>1, <2>1, StepLags
  <2>2. CASE t = jar.session /\ req'[s].since = now /\ t \in DOMAIN rows
    <3>1. ASSUME NEW u \in DOMAIN rows, t < u, Kin(t, u), Known(u) PROVE rows[u].issuedAt >= now - Life
      <4>1. PICK o \in Slot : Delivers(o, u)
        BY <1>a, <2>2, <3>1 DEF JarKnows
      <4>2. u \notin NoCookie
        BY <1>0, Rows DEF NoCookie, Never, Clear
      <4>3. rows[u].issuedAt >= req[o].since
        BY <4>1, <4>2 DEF Genuine, NoCookie
      <4>4. req[o] # Idle /\ req[o].since \in Nat
        BY <4>1, Slots DEF Delivers, Calling, Answers
      <4>5. now - req[o].since <= Life
        BY <4>4 DEF Timely
      <4> QED  BY <1>0, <4>3, <4>4, <4>5, Rows, Constants
    <3>2. Lags(t, now)
      BY <3>1 DEF Lags
    <3>3. Lags(t, now)'
      <4> PICK n \in Nat : n = now
        BY <1>0
      <4>1. Lags(t, n)'
        BY <1>0, <2>2, <3>2, StepLags
      <4> QED  BY <4>1 DEF Step
    <3> QED  BY <2>2, <3>3 DEF Step, Lags
  <2>3. CASE t \notin DOMAIN rows
    <3>1. \A u \in DOMAIN rows' : ~(t < u)
      <4>1. \A u \in DOMAIN rows' : u # t => u < t /\ u \in DOMAIN rows
        BY <2>3 DEF Step, RowsGrow
      <4>2. t \in Nat /\ \A u \in DOMAIN rows : u \in Nat
        <5>1. t \in Nat
          BY LenProperties DEF Chain, TableOK
        <5> QED  BY <1>0, <5>1, Rows
      <4> QED  BY <4>1, <4>2
    <3> QED  BY <3>1 DEF Lags
  <2> QED  BY <1>2, <2>1, <2>2, <2>3 DEF Step, SlotStep
<1>3. ASSUME NEW c \in late' PROVE Lags(c.token, c.since)'
  <2>1. CASE c \in late
    <3>1. c.token \in DOMAIN rows /\ c.since \in Nat /\ c.since <= now /\ Lags(c.token, c.since)
      BY <1>a, <2>1 DEF Shapes, Genuine, Timely, RequestsKnow
    <3> QED  BY <3>1, StepLags
  <2>2. CASE c \notin late
    <3>1. PICK s \in Slot : Presents(s, c.token) /\ c.since = req[s].since
      BY <1>3, <2>2 DEF Step, LateHeld
    <3> QED  BY <1>1, <3>1, StepLags
  <2> QED  BY <2>1, <2>2
<1> QED  BY <1>2, <1>3

----------------------------------------------------------------------------
(***************************************************************************)
(* The grace window covers whatever a request may have missed.             *)
(***************************************************************************)
AtWork(t) == (\E s \in Slot : Presents(s, t)) \/ (\E c \in late : c.token = t)

LEMMA WithinGrace ==
  ASSUME BrowserInv, NEW t, AtWork(t)
  PROVE  /\ t \in DOMAIN rows /\ (Reused(t) => strayed)
         /\ weather = "calm" => ~Undelivered(t) /\ (Retired(t) => InGrace(t))
<1>0. TableOK /\ now \in Nat /\ Chain
  BY DEF BrowserInv, Chain, TableOK
<1>a. t \in DOMAIN rows
  BY DEF AtWork, BrowserInv, Genuine
<1>b. CASE strayed
  BY <1>a, <1>b DEF BrowserInv, Peaceful
<1> SUFFICES ASSUME ~strayed
             PROVE  /\ ~Reused(t)
                    /\ weather = "calm" => ~Undelivered(t) /\ (Retired(t) => InGrace(t))
  BY <1>a, <1>b
<1>1. \E since \in Nat : since <= now /\ now - since <= Life /\ Lags(t, since) /\ t \in DOMAIN rows
  <2>1. ASSUME NEW s \in Slot, Presents(s, t)
        PROVE  /\ req[s].since \in Nat /\ req[s].since <= now /\ now - req[s].since <= Life
               /\ Lags(t, req[s].since) /\ t \in DOMAIN rows
    <3>1. req[s] # Idle /\ req[s] \in Calling /\ t \in DOMAIN rows
      BY <2>1, Slots DEF Presents, Genuine, BrowserInv
    <3> QED  BY <2>1, <3>1 DEF Calling, Timely, RequestsKnow, BrowserInv
  <2>2. ASSUME NEW c \in late, c.token = t
        PROVE  /\ c.since \in Nat /\ c.since <= now /\ now - c.since <= Life
               /\ Lags(t, c.since) /\ t \in DOMAIN rows
    BY <2>2 DEF BrowserInv, Shapes, Genuine, Timely, RequestsKnow
  <2> QED  BY <2>1, <2>2 DEF AtWork
<1>2. PICK since \in Nat : since <= now /\ now - since <= Life /\ Lags(t, since) /\ t \in DOMAIN rows
  BY <1>1
<1>3. ASSUME Retired(t), ~InGrace(t) PROVE ~Reused(t) /\ weather # "calm"
  <2>1. PICK x \in DOMAIN rows : /\ t < x /\ Kin(t, x) /\ rows[x].issuedAt = rows[t].rotatedAt
                                 /\ (\E u \in MintedSince(t) : rows[u].used) => rows[x].used
    BY <1>0, <1>2, <1>3, Successor
  <2>2. ~Known(x)
    <3> SUFFICES ASSUME Known(x) PROVE FALSE
      OBVIOUS
    <3>1. rows[x].issuedAt >= since - Life
      BY <1>2, <2>1 DEF Lags
    <3>2. rows[t].rotatedAt \in Nat
      BY <1>0, <1>2, Rows
    <3>3. now - rows[t].rotatedAt <= Grace
      BY <1>0, <1>2, <2>1, <3>1, <3>2, Constants
    <3> QED  BY <1>3, <3>3 DEF InGrace
  <2> QED  BY <2>1, <2>2 DEF Known, Reused
<1>4. ~Reused(t)
  BY <1>3 DEF Reused
<1>5. weather = "calm" => (Retired(t) => InGrace(t))
  BY <1>3
<1> QED  BY <1>2, <1>4, <1>5 DEF Undelivered

----------------------------------------------------------------------------
(***************************************************************************)
(* The steps, put together.                                                *)
(***************************************************************************)
HeldMoves ==
  \/ \E t \in DOMAIN rows : (Spends(t) /\ Held(t)) \/ Restores(t) \/ Mints(t)
  \/ Begins
  \/ \E S \in SUBSET DOMAIN rows : Ends(S)
  \/ UNCHANGED rows

LEMMA HeldMoved == ASSUME TableOK, HeldMoves PROVE UsesHeld /\ RowsGrow
<1>1. Moves
  BY DEF HeldMoves, Moves
<1>2. ASSUME NEW t \in DOMAIN rows, Spends(t), Held(t) PROVE UsesHeld
  BY <1>2, SpendRows DEF UsesHeld
<1>3. ASSUME NEW t \in DOMAIN rows, Restores(t) \/ Mints(t) PROVE UsesHeld
  BY <1>3, RestoreRows, MintRows DEF UsesHeld
<1>4. ASSUME NEW S \in SUBSET DOMAIN rows, Ends(S) PROVE UsesHeld
  BY <1>4, EndRows DEF UsesHeld
<1>5. ASSUME Begins \/ UNCHANGED rows PROVE UsesHeld
  BY <1>5, BeginRows DEF UsesHeld
<1> QED  BY <1>1, <1>2, <1>3, <1>4, <1>5, MovesGrow DEF HeldMoves

\* Nothing is revoked.
LEMMA PeaceKept ==
  ASSUME Chain, Peaceful, Onward, alarm' = alarm \/ strayed, signedOut' = signedOut,
         weather = "calm" => late' = {},
         \/ \E t \in DOMAIN rows : Spends(t) \/ Mints(t)
         \/ Begins \/ UNCHANGED rows \/ weather # "calm"
  PROVE  Peaceful'
<1>0. TableOK
  BY DEF Chain
<1>1. ASSUME weather = "calm", NEW u \in DOMAIN rows', rows'[u].revoked PROVE rows'[u].family \in signedOut
  <2>1. u \in DOMAIN rows /\ rows[u].revoked /\ rows'[u].family = rows[u].family
    <3>1. ASSUME NEW t \in DOMAIN rows, Spends(t)
          PROVE  u \in DOMAIN rows /\ rows[u].revoked /\ rows'[u].family = rows[u].family
      BY <1>0, <1>1, <3>1, SpendRows
    <3>2. ASSUME NEW t \in DOMAIN rows, Mints(t)
          PROVE  u \in DOMAIN rows /\ rows[u].revoked /\ rows'[u].family = rows[u].family
      <4>1. /\ DOMAIN rows' = DOMAIN rows \cup {Len(rows) + 1}
            /\ \A v \in DOMAIN rows : rows'[v].family = rows[v].family /\ rows'[v].revoked = rows[v].revoked
            /\ rows'[Len(rows) + 1] = NewRow(rows[t].family)
        BY <1>0, <3>2, MintRows
      <4> QED  BY <1>1, <4>1 DEF NewRow
    <3>3. ASSUME Begins PROVE u \in DOMAIN rows /\ rows[u].revoked /\ rows'[u].family = rows[u].family
      <4>1. /\ DOMAIN rows' = DOMAIN rows \cup {Len(rows) + 1}
            /\ \A v \in DOMAIN rows : rows'[v] = rows[v]
            /\ rows'[Len(rows) + 1] = NewRow(Len(rows) + 1)
        BY <1>0, <3>3, BeginRows
      <4> QED  BY <1>1, <4>1 DEF NewRow
    <3> QED  BY <1>1, <3>1, <3>2, <3>3
  <2> QED  BY <1>1, <2>1 DEF Peaceful
<1> QED  BY <1>1 DEF Peaceful, Onward

\* A sign-out revokes sign-ins it is on record for.
LEMMA PeaceEnded ==
  ASSUME Chain, Peaceful, Onward, alarm' = alarm, late' = late, NEW S \in SUBSET DOMAIN rows,
         Ends(S), signedOut \subseteq signedOut', \A u \in S : rows[u].family \in signedOut'
  PROVE  Peaceful'
<1>0. TableOK
  BY DEF Chain
<1>1. ASSUME weather = "calm", NEW u \in DOMAIN rows', rows'[u].revoked PROVE rows'[u].family \in signedOut'
  <2>1. u \in DOMAIN rows /\ rows'[u].family = rows[u].family /\ (rows[u].revoked \/ u \in S)
    BY <1>0, <1>1, EndRows
  <2> QED  BY <1>1, <2>1 DEF Peaceful
<1> QED  BY <1>1 DEF Peaceful, Onward

Late == {{}} \cup {{c} : c \in [token : Nat, since : Nat]}

LEMMA StepInv ==
  ASSUME BrowserInv, [Next]_vars, Chain', Step, req' = [s \in Slot |-> req'[s]], late' \in Late,
         jar' \in [session : Nat, binding : Bindings], {jar'.session, jar'.binding.token} \subseteq Issued',
         JarKnows', Peaceful'
  PROVE  BrowserInv'
<1>0. TableOK /\ Chain /\ Shapes /\ Genuine /\ Timely /\ JarKnows /\ RequestsKnow
  BY DEF BrowserInv, Chain
<1>1. Shapes'
  <2>1. req' \in [Slot -> Requests]
    BY DEF Step, SlotStep
  <2>2. \A s \in Slot : req'[s].at \in {"rotating", "revoking", "signing in"} => req'[s].session = Never
    BY DEF Step, SlotStep
  <2>3. late' = {} \/ \E c \in [token : Nat, since : Nat] : late' = {c}
    BY DEF Late
  <2>4. HistoryOK'
    BY <1>0, NextOnward DEF Shapes
  <2> QED  BY <1>0, <2>1, <2>2, <2>3, <2>4 DEF Shapes, Step, Onward
<1>2. Timely'
  BY <1>0, StepTimely
<1>3. Genuine'
  BY <1>0, <1>1, <1>2, StepGenuine
<1>4. RequestsKnow'
  BY <1>0, <1>1, <1>2, StepRequestsKnow
<1> QED  BY <1>1, <1>2, <1>3, <1>4 DEF BrowserInv

\* A step of one slot that leaves the jar alone.
LEMMA SlotInv ==
  ASSUME BrowserInv, [Next]_vars, HeldMoves, now' = now, weather' = weather, jar' = jar,
         NEW s \in Slot, req' = [req EXCEPT ![s] = req'[s]], SlotStep(s), StillDelivers(s),
         LateHeld, late' \in Late, Peaceful',
         \A u \in DOMAIN rows' \ DOMAIN rows : Delivers(s, u)'
  PROVE  BrowserInv'
<1>0. TableOK /\ Chain /\ Shapes /\ Genuine /\ JarKnows
  BY DEF BrowserInv, Chain
<1>1. Chain' /\ UsesHeld /\ RowsGrow /\ Onward
  BY <1>0, NextChain, HeldMoved, NextOnward DEF Shapes
<1>2. ASSUME NEW o \in Slot PROVE SlotStep(o) /\ StillDelivers(o)
  <2>1. CASE o # s
    <3>1. req'[o] = req[o]
      BY <1>0, <2>1 DEF Shapes
    <3> QED  BY <1>0, <1>1, <3>1, SlotRests
  <2> QED  BY <2>1
<1>3. JarTakes /\ NewKnown
  BY DEF JarTakes, NewKnown
<1>4. Step
  BY <1>1, <1>2, <1>3 DEF Step
<1>5. JarKnows'
  BY <1>0, <1>1, <1>2, <1>4, StepJarKnows
<1>6. req' = [o \in Slot |-> req'[o]]
  BY <1>0 DEF Shapes
<1>7. jar' \in [session : Nat, binding : Bindings] /\ {jar'.session, jar'.binding.token} \subseteq Issued'
  BY <1>0, <1>1 DEF Shapes, Genuine, Issued, RowsGrow
<1> QED  BY <1>1, <1>4, <1>5, <1>6, <1>7, StepInv

LEMMA Parts ==
  ASSUME BrowserInv
  PROVE  /\ TableOK /\ Chain /\ Shapes /\ Genuine /\ Timely /\ JarKnows /\ RequestsKnow /\ Peaceful
         /\ req = [s \in Slot |-> req[s]] /\ late \in Late /\ HistoryOK
         /\ weather = "calm" => ~strayed
BY DEF BrowserInv, Chain, Shapes, Late, Peaceful

LEMMA MeetInv ==
  ASSUME BrowserInv, [Next]_vars, NEW s \in Slot,
         NEW kind \in {"nav", "post", "guest", "logout", "login"},
         Meet(s, kind), req[s].at \in {"idle", "redirected"}
  PROVE  BrowserInv'
<1>1. /\ rows' = rows /\ now' = now /\ alarm' = alarm /\ weather' = weather /\ jar' = jar
      /\ late' = late /\ signedOut' = signedOut
  BY DEF Meet, backendVars
<1>2. HeldMoves /\ LateHeld
  BY <1>1 DEF HeldMoves, LateHeld
<1>3. req' = [req EXCEPT ![s] = req'[s]]
  BY Parts DEF Meet
<1>4. SlotStep(s) /\ StillDelivers(s)
  BY Parts, MeetSlot
<1>5. Peaceful'
  BY <1>1, Parts, NextOnward, PeaceKept DEF Peaceful
<1> QED  BY <1>1, <1>2, <1>3, <1>4, <1>5, Parts, SlotInv

LEMMA ResolvingInv ==
  ASSUME BrowserInv, [Next]_vars, NEW s \in Slot, Resolving(s) PROVE BrowserInv'
<1> DEFINE t == req[s].token
<1>1. /\ now' = now /\ weather' = weather /\ jar' = jar /\ req' = req
      /\ late' = late /\ signedOut' = signedOut
  BY DEF Resolving, browserVars
<1>2. Presents(s, t)
  BY DEF Resolving, Presents
<1>3. t \in DOMAIN rows /\ Held(t) /\ AtWork(t)
  BY <1>2, Parts DEF Genuine, Held, AtWork
<1>4. alarm' = alarm /\ (Spends(t) \/ Restores(t))
  <2>1. CASE Resolve(t)
    BY <2>1, ResolveMoves
  <2>2. CASE MarkFirstUse(t)
    BY <2>2 DEF MarkFirstUse, Spends
  <2> QED  BY <2>1, <2>2 DEF Resolving
<1>5. weather = "calm" => Spends(t)
  BY <1>3, <1>4, WithinGrace DEF Restores
<1> HIDE DEF t
<1>6. HeldMoves /\ LateHeld
  BY <1>1, <1>3, <1>4 DEF HeldMoves, LateHeld
<1>7. RowsGrow
  BY <1>6, Parts, HeldMoved
<1>8. SlotStep(s) /\ StillDelivers(s)
  BY <1>1, <1>7, Parts, SlotRests
<1>9. Peaceful'
  BY <1>1, <1>3, <1>4, <1>5, Parts, NextOnward, PeaceKept DEF Peaceful
<1>10. DOMAIN rows' = DOMAIN rows
  BY <1>3, <1>4, Parts, SpendRows, RestoreRows
<1>11. req' = [req EXCEPT ![s] = req'[s]]
  BY <1>1, Parts
<1> QED  BY <1>1, <1>6, <1>8, <1>9, <1>10, <1>11, Parts, SlotInv

LEMMA RotatedInv ==
  ASSUME BrowserInv, [Next]_vars, NEW s \in Slot, RotationAnswered(s) PROVE BrowserInv'
<1> DEFINE t == req[s].token
<1>1. /\ now' = now /\ weather' = weather /\ jar' = jar
      /\ late' = late /\ signedOut' = signedOut
  BY DEF RotationAnswered
<1>2. Presents(s, t)
  BY DEF RotationAnswered, Presents
<1>3. t \in DOMAIN rows /\ (Reused(t) => strayed) /\ FamilyOf(t) \in SUBSET DOMAIN rows
  BY <1>2, WithinGrace, FamilyOfRows DEF AtWork
<1>4. /\ alarm' = alarm \/ strayed
      /\ Mints(t) \/ UNCHANGED rows \/ (strayed /\ Ends(FamilyOf(t)))
  BY <1>3, Parts, RotateMoves DEF RotationAnswered, HistoryOK
<1> HIDE DEF t
<1>5. HeldMoves /\ LateHeld
  BY <1>1, <1>3, <1>4 DEF HeldMoves, LateHeld
<1>6. RowsGrow
  BY <1>5, Parts, HeldMoved
<1>7. SlotStep(s) /\ StillDelivers(s) /\ \A u \in DOMAIN rows' \ DOMAIN rows : Delivers(s, u)'
  BY <1>6, Parts, RotatedSlot
<1>8. Peaceful'
  BY <1>1, <1>3, <1>4, Parts, NextOnward, PeaceKept DEF Peaceful
<1>9. req' = [req EXCEPT ![s] = req'[s]]
  BY Parts DEF RotationAnswered
<1> QED  BY <1>1, <1>5, <1>7, <1>8, <1>9, Parts, SlotInv

LEMMA GivenUpInv ==
  ASSUME BrowserInv, [Next]_vars, NEW s \in Slot, RotationGivenUp(s) PROVE BrowserInv'
<1> DEFINE c == [token |-> req[s].token, since |-> req[s].since]
<1>1. /\ rows' = rows /\ now' = now /\ alarm' = alarm /\ weather' = weather /\ jar' = jar
      /\ signedOut' = signedOut /\ weather # "calm"
  BY DEF RotationGivenUp, backendVars
<1>2. req[s] \in Calling /\ Presents(s, c.token) /\ c.since = req[s].since
  BY Parts, Slots DEF RotationGivenUp, Presents
<1>3. c \in [token : Nat, since : Nat]
  BY <1>2 DEF Calling
<1>4. late' = late \/ late' = {c}
  BY DEF RotationGivenUp
<1> HIDE DEF c
<1>5. LateHeld /\ late' \in Late
  BY <1>2, <1>3, <1>4, Parts DEF LateHeld, Late
<1>6. HeldMoves
  BY <1>1 DEF HeldMoves
<1>7. SlotStep(s) /\ StillDelivers(s)
  BY <1>6, Parts, HeldMoved, GivenUpSlot
<1>8. Peaceful'
  BY <1>1, Parts, NextOnward, PeaceKept
<1>9. req' = [req EXCEPT ![s] = req'[s]]
  BY Parts DEF RotationGivenUp
<1> QED  BY <1>1, <1>5, <1>6, <1>7, <1>8, <1>9, SlotInv

LEMMA RenderInv ==
  ASSUME BrowserInv, [Next]_vars, NEW s \in Slot, Render(s) PROVE BrowserInv'
<1> DEFINE t == req[s].token
<1>1. /\ now' = now /\ weather' = weather /\ jar' = jar
      /\ late' = late /\ signedOut' = signedOut
  BY DEF Render
<1>2. Presents(s, t)
  BY DEF Render, Presents
<1>3. /\ t \in DOMAIN rows /\ (Reused(t) => strayed) /\ Held(t)
      /\ FamilyOf(t) \in SUBSET DOMAIN rows
  BY <1>2, WithinGrace, FamilyOfRows DEF AtWork, Held
<1>4. /\ alarm' = alarm \/ strayed
      /\ Spends(t) \/ UNCHANGED rows \/ (strayed /\ Ends(FamilyOf(t)))
  BY <1>3, Parts, PresentMoves DEF Render, HistoryOK
<1> HIDE DEF t
<1>5. HeldMoves /\ LateHeld
  BY <1>1, <1>3, <1>4 DEF HeldMoves, LateHeld
<1>6. SlotStep(s) /\ StillDelivers(s)
  BY <1>5, Parts, HeldMoved, DoneSlot
<1>7. Peaceful'
  BY <1>1, <1>3, <1>4, Parts, NextOnward, PeaceKept DEF Peaceful
<1>8. DOMAIN rows' = DOMAIN rows
  BY <1>3, <1>4, Parts, SpendRows, EndRows
<1>9. req' = [req EXCEPT ![s] = req'[s]]
  BY Parts DEF Render
<1> QED  BY <1>1, <1>5, <1>6, <1>7, <1>8, <1>9, Parts, SlotInv

LEMMA RevokeOthersInv ==
  ASSUME BrowserInv, [Next]_vars, NEW s \in Slot, RevokeOthers(s) PROVE BrowserInv'
<1> DEFINE S == DOMAIN rows \ FamilyOf(req[s].token)
<1>1. /\ now' = now /\ weather' = weather /\ jar' = jar /\ late' = late /\ alarm' = alarm
      /\ Ends(S) /\ signedOut' = signedOut \cup {rows[u].family : u \in S}
  BY DEF RevokeOthers, EndOthers, Ends
<1>2. S \in SUBSET DOMAIN rows
  OBVIOUS
<1> HIDE DEF S
<1>3. HeldMoves /\ LateHeld
  BY <1>1, <1>2 DEF HeldMoves, LateHeld
<1>4. SlotStep(s) /\ StillDelivers(s)
  BY <1>3, Parts, HeldMoved, DoneSlot
<1>5. Peaceful'
  BY <1>1, <1>2, Parts, NextOnward, PeaceEnded
<1>6. DOMAIN rows' = DOMAIN rows
  BY <1>1, Parts, EndRows
<1>7. req' = [req EXCEPT ![s] = req'[s]]
  BY Parts DEF RevokeOthers
<1> QED  BY <1>1, <1>3, <1>4, <1>5, <1>6, <1>7, Parts, SlotInv

LEMMA LogOutInv ==
  ASSUME BrowserInv, [Next]_vars, NEW s \in Slot, LogOut(s) PROVE BrowserInv'
<1> DEFINE t == req[s].token
           S == FamilyOf(t)
<1>1. /\ now' = now /\ weather' = weather /\ jar' = jar /\ late' = late /\ alarm' = alarm
  BY DEF LogOut, EndFamily
<1>2. \/ rows' = rows /\ signedOut' = signedOut /\ weather # "calm"
      \/ rows' = rows /\ signedOut' = signedOut \cup {rows[u].family : u \in {t} \cap DOMAIN rows}
         /\ t \notin DOMAIN rows
      \/ /\ t \in DOMAIN rows /\ Ends(S)
         /\ signedOut' = signedOut \cup {rows[u].family : u \in {t} \cap DOMAIN rows}
  BY DEF LogOut, EndFamily, Ends
<1>3. S \in SUBSET DOMAIN rows
  BY FamilyOfRows
<1>4. HeldMoves /\ LateHeld
  BY <1>1, <1>2, <1>3 DEF HeldMoves, LateHeld
<1>5. SlotStep(s) /\ StillDelivers(s)
  BY <1>4, Parts, HeldMoved, LogOutSlot
<1>6. Peaceful'
  <2>1. CASE rows' = rows /\ signedOut' = signedOut
    BY <1>1, <2>1, Parts, NextOnward, PeaceKept DEF Peaceful
  <2>2. CASE rows' = rows /\ t \notin DOMAIN rows
             /\ signedOut' = signedOut \cup {rows[u].family : u \in {t} \cap DOMAIN rows}
    <3>1. signedOut' = signedOut
      BY <2>2
    <3> QED  BY <2>1, <2>2, <3>1
  <2>3. CASE t \in DOMAIN rows /\ Ends(S)
             /\ signedOut' = signedOut \cup {rows[u].family : u \in {t} \cap DOMAIN rows}
    <3>1. \A u \in S : rows[u].family = rows[t].family
      BY DEF FamilyOf
    <3>2. rows[t].family \in signedOut' /\ signedOut \subseteq signedOut'
      BY <2>3
    <3>3. \A u \in S : rows[u].family \in signedOut'
      BY <3>1, <3>2
    <3> HIDE DEF S, t
    <3> QED  BY <1>1, <1>3, <2>3, <3>2, <3>3, Parts, NextOnward, PeaceEnded
  <2> QED  BY <1>2, <2>1, <2>2, <2>3
<1>7. DOMAIN rows' = DOMAIN rows
  <2> HIDE DEF S, t
  <2> QED  BY <1>2, Parts, EndRows
<1>8. req' = [req EXCEPT ![s] = req'[s]]
  BY Parts DEF LogOut
<1> QED  BY <1>1, <1>4, <1>5, <1>6, <1>7, <1>8, Parts, SlotInv

LEMMA LogInInv ==
  ASSUME BrowserInv, [Next]_vars, NEW s \in Slot, LogIn(s) PROVE BrowserInv'
<1>1. /\ now' = now /\ weather' = weather /\ jar' = jar
      /\ late' = late /\ signedOut' = signedOut /\ alarm' = alarm
  BY DEF LogIn, SignIn
<1>2. Begins \/ UNCHANGED rows
  BY DEF LogIn, SignIn, Begins
<1>3. HeldMoves /\ LateHeld
  BY <1>1, <1>2 DEF HeldMoves, LateHeld
<1>4. SlotStep(s) /\ StillDelivers(s) /\ \A u \in DOMAIN rows' \ DOMAIN rows : Delivers(s, u)'
  BY <1>3, Parts, HeldMoved, LogInSlot
<1>5. Peaceful'
  BY <1>1, <1>2, Parts, NextOnward, PeaceKept DEF Peaceful
<1>6. req' = [req EXCEPT ![s] = req'[s]]
  BY Parts DEF LogIn
<1> QED  BY <1>1, <1>3, <1>4, <1>5, <1>6, Parts, SlotInv

\* A token on its way to the jar is the youngest of its sign-in.
LEMMA DeliveredIsYoungest ==
  ASSUME BrowserInv, NEW s \in Slot, NEW u, Delivers(s, u), u \notin NoCookie
  PROVE  u \in DOMAIN rows /\ \A v \in DOMAIN rows : Kin(u, v) => ~(u < v)
<1>0. TableOK /\ Chain /\ now \in Nat
  BY Parts DEF TableOK
<1>1. u \in DOMAIN rows /\ rows[u].issuedAt >= req[s].since
  BY Parts DEF Genuine, NoCookie
<1>2. req[s] # Idle /\ req[s].since \in Nat
  BY Parts, Slots DEF Delivers, Calling, Answers
<1>3. now - req[s].since <= Life
  BY <1>2, Parts DEF Timely
<1>4. ASSUME NEW v \in DOMAIN rows, Kin(u, v), u < v PROVE FALSE
  <2>1. rows[v].issuedAt - rows[u].issuedAt > Grace /\ rows[v].issuedAt <= now
    BY <1>0, <1>1, <1>4 DEF Chain, Spaced, Dated
  <2>2. rows[v].issuedAt \in Nat /\ rows[u].issuedAt \in Nat
    BY <1>0, <1>1, Rows
  <2> QED  BY <1>0, <1>1, <1>2, <1>3, <2>1, <2>2, Constants
<1> QED  BY <1>1, <1>4

LEMMA Received ==
  ASSUME BrowserInv, NEW s \in Slot, Receive(s)
  PROVE  /\ jar' \in [session : Nat, binding : Bindings] /\ jar'.binding.token \in Issued
         /\ \/ jar'.session = Never
            \/ jar'.session = jar.session /\ req[s].session = Never
            \/ jar'.session = req[s].session /\ jar'.session \notin NoCookie /\ Delivers(s, jar'.session)
<1>1. req[s] \in Answers /\ req[s].at = "answered"
  BY Parts, Slots DEF Receive
<1>2. req[s].session \in Nat \cup {Clear} /\ req[s].binding \in Bindings /\ req[s].binding.token \in Issued
  BY <1>1, Parts DEF Answers, Genuine
<1>3. jar.session \in Nat /\ jar.binding \in Bindings /\ jar.binding.token \in Issued
  BY Parts DEF Shapes, Genuine
<1>4. CASE req[s].session = Clear
  <2>1. jar' = EmptyJar
    BY <1>4 DEF Receive
  <2>2. NoBinding \in Bindings /\ NoBinding.token = Never
    BY DEF NoBinding, Bindings, Never
  <2> QED  BY <2>1, <2>2 DEF EmptyJar, Never, Issued
<1>5. CASE req[s].session # Clear
  <2> DEFINE session == IF req[s].session = Never THEN jar.session ELSE req[s].session
             binding == IF req[s].binding = NoBinding THEN jar.binding ELSE req[s].binding
  <2>1. jar' = [session |-> session, binding |-> binding]
    BY <1>5 DEF Receive
  <2>2. session \in Nat /\ binding \in Bindings /\ binding.token \in Issued
    BY <1>2, <1>3, <1>5
  <2>3. jar'.session = session /\ jar'.binding = binding
    BY <2>1
  <2>4. CASE req[s].session = Never
    BY <2>1, <2>2, <2>3, <2>4
  <2>5. CASE req[s].session # Never
    <3>1. Delivers(s, req[s].session) /\ req[s].session \notin NoCookie
      BY <1>1, <1>5, <2>5 DEF Delivers, NoCookie
    <3> QED  BY <2>1, <2>2, <2>3, <2>5, <3>1
  <2> QED  BY <2>4, <2>5
<1> QED  BY <1>4, <1>5

LEMMA ReceiveInv ==
  ASSUME BrowserInv, [Next]_vars, NEW s \in Slot, Receive(s) PROVE BrowserInv'
<1>0. TableOK /\ Chain /\ Genuine /\ Shapes
  BY Parts
<1>1. /\ rows' = rows /\ now' = now /\ weather' = weather
      /\ late' = late /\ signedOut' = signedOut /\ alarm' = alarm
  BY DEF Receive, backendVars
<1>2. UsesHeld /\ RowsGrow /\ Chain' /\ LateHeld /\ NewKnown
  <2>1. HeldMoves
    BY <1>1 DEF HeldMoves
  <2> QED  BY <1>0, <1>1, <2>1, HeldMoved, NextChain DEF LateHeld, NewKnown
<1>a. Onward
  BY Parts, NextOnward
<1>3. ASSUME NEW o \in Slot \ {s} PROVE SlotStep(o) /\ StillDelivers(o)
  <2>1. req'[o] = req[o]
    BY <1>0 DEF Receive, Shapes
  <2> QED  BY <1>0, <1>2, <2>1, SlotRests
<1>4. SlotStep(s)
  BY <1>0, ReceiveSlot
<1>5. Never \notin DOMAIN rows /\ jar.session \in Issued
  BY <1>0, Rows DEF Never, Genuine
<1>6. JarTakes
  BY <1>5, Received DEF JarTakes
<1>7. Step
  BY <1>1, <1>2, <1>a, <1>3, <1>4, <1>6 DEF Step
<1>8. jar' \in [session : Nat, binding : Bindings] /\ {jar'.session, jar'.binding.token} \subseteq Issued'
  BY <1>1, <1>5, Received, DeliveredIsYoungest DEF Issued
<1>9. JarKnows'
  <2> SUFFICES ASSUME ~strayed, NEW t \in DOMAIN rows, NEW u \in DOMAIN rows,
                      jar'.session = t, t < u, Kin(t, u), Known(u)'
               PROVE  \E o \in Slot : Delivers(o, u)'
    BY <1>1, <1>a DEF JarKnows, Kin, Onward
  <2>1. jar'.session # Never
    BY <1>5
  <2>2. CASE Delivers(s, jar'.session) /\ jar'.session \notin NoCookie
    <3> PICK j : j = jar'.session
      OBVIOUS
    <3> QED  BY <2>2, DeliveredIsYoungest
  <2>3. CASE jar'.session = jar.session /\ req[s].session = Never
    <3>1. Known(u)
      BY <1>0, <1>7, KnownBefore
    <3>2. PICK o \in Slot : Delivers(o, u)
      BY <2>3, <3>1, Parts DEF JarKnows
    <3>3. u # Never /\ u \notin NoCookie
      BY <1>0, Rows DEF NoCookie, Never, Clear
    <3>4. o # s
      BY <2>3, <3>2, <3>3 DEF Delivers
    <3> QED  BY <1>3, <3>2, <3>3, <3>4 DEF StillDelivers
  <2> QED  BY <2>1, <2>2, <2>3, Received
<1>10. Peaceful'
  BY <1>1, Parts, NextOnward, PeaceKept DEF Peaceful
<1>11. req' = [o \in Slot |-> req'[o]]
  BY Parts DEF Receive
<1> QED  BY <1>1, <1>2, <1>7, <1>8, <1>9, <1>10, <1>11, Parts, StepInv

\* Losing an answer, the jar misses no younger token of its sign-in, unless one strayed.
LEMMA LoseInv ==
  ASSUME BrowserInv, [Next]_vars, NEW s \in Slot, Lose(s) PROVE BrowserInv'
<1>0. TableOK /\ Chain /\ Genuine /\ Shapes
  BY Parts
<1>1. /\ rows' = rows /\ now' = now /\ weather' = weather /\ jar' = jar
      /\ late' = late /\ signedOut' = signedOut /\ alarm' = alarm /\ weather # "calm"
  BY DEF Lose, backendVars
<1>2. UsesHeld /\ RowsGrow /\ Chain' /\ LateHeld /\ NewKnown /\ JarTakes /\ Onward
  <2>1. HeldMoves
    BY <1>1 DEF HeldMoves
  <2> QED  BY <1>0, <1>1, <2>1, Parts, HeldMoved, NextChain, NextOnward DEF LateHeld, NewKnown, JarTakes
<1>3. ASSUME NEW o \in Slot \ {s} PROVE SlotStep(o) /\ StillDelivers(o)
  <2>1. req'[o] = req[o]
    BY <1>0 DEF Lose, Shapes
  <2> QED  BY <1>0, <1>2, <2>1, SlotRests
<1>4. SlotStep(s)
  <2>1. req'[s] = Idle /\ Idle \in Requests
    BY <1>0 DEF Lose, Shapes, Requests
  <2>2. req'[s].at = "idle"
    BY <2>1 DEF Idle
  <2> QED  BY <2>1, <2>2 DEF SlotStep, Presents, Delivers
<1>5. Step
  BY <1>1, <1>2, <1>3, <1>4 DEF Step
<1>6. JarKnows'
  <2> SUFFICES ASSUME ~strayed', NEW t \in DOMAIN rows, NEW u \in DOMAIN rows,
                      jar.session = t, t < u, Kin(t, u), Known(u)'
               PROVE  \E o \in Slot : Delivers(o, u)'
    BY <1>1 DEF JarKnows, Kin
  <2>1. ~strayed /\ ~Rotated(req[s].session)
    BY DEF Lose
  <2>2. Known(u)
    BY <1>0, <1>5, KnownBefore
  <2>3. PICK o \in Slot : Delivers(o, u)
    BY <2>1, <2>2, Parts DEF JarKnows
  <2>4. rows[u].family # u
    BY <1>0, Rows DEF Chain, Dated, Kin
  <2>5. o # s
    BY <2>1, <2>3, <2>4 DEF Rotated, Delivers
  <2>6. u \notin NoCookie
    BY <1>0, Rows DEF NoCookie, Never, Clear
  <2> QED  BY <1>3, <2>3, <2>5, <2>6 DEF StillDelivers
<1>7. Peaceful'
  BY <1>1, Parts, NextOnward, PeaceKept DEF Peaceful
<1>8. req' = [o \in Slot |-> req'[o]]
  BY Parts DEF Lose
<1>9. jar' \in [session : Nat, binding : Bindings] /\ {jar'.session, jar'.binding.token} \subseteq Issued'
  BY <1>0, <1>1 DEF Shapes, Genuine, Issued
<1> QED  BY <1>1, <1>2, <1>5, <1>6, <1>7, <1>8, <1>9, Parts, StepInv

\* A step that leaves the requests and the jar alone.
LEMMA BackgroundInv ==
  ASSUME BrowserInv, [Next]_vars, HeldMoves, now' = now, weather' = weather, jar' = jar, req' = req,
         late' \subseteq late, late' \in Late, Peaceful',
         weather = "calm" => DOMAIN rows' = DOMAIN rows
  PROVE  BrowserInv'
<1>0. TableOK /\ Chain /\ Shapes /\ Genuine /\ JarKnows
  BY Parts
<1>1. Chain' /\ UsesHeld /\ RowsGrow /\ LateHeld /\ JarTakes /\ Onward
  BY <1>0, Parts, NextChain, HeldMoved, NextOnward DEF LateHeld, JarTakes
<1>2. ASSUME NEW o \in Slot PROVE SlotStep(o) /\ StillDelivers(o)
  BY <1>0, <1>1, SlotRests
<1>3. NewKnown
  <2> SUFFICES ASSUME NEW u \in DOMAIN rows' \ DOMAIN rows, Known(u)' PROVE FALSE
    BY DEF NewKnown
  <2>1. weather # "calm" /\ ~rows'[u].used
    BY <1>1 DEF RowsGrow
  <2>2. u \notin NoCookie
    <3>1. rows' \in Seq(Row) /\ DOMAIN rows' = 1..Len(rows') /\ Len(rows') \in Nat
      BY <1>1, LenProperties DEF Chain, TableOK
    <3> QED  BY <3>1 DEF NoCookie, Never, Clear
  <2>3. jar'.session # u
    BY <1>0, <2>2 DEF Genuine, Issued, NoCookie
  <2>4. \A s \in Slot : ~Presents(s, u)' /\ ~Delivers(s, u)'
    BY <1>0, <2>2 DEF Genuine, NoCookie, Presents, Delivers
  <2>5. \A c \in late' : c.token # u
    BY <1>0 DEF Genuine
  <2> QED  BY <2>1, <2>3, <2>4, <2>5 DEF Known, Held
<1>4. Step
  BY <1>1, <1>2, <1>3 DEF Step
<1>5. JarKnows'
  BY <1>0, <1>1, <1>2, <1>4, StepJarKnows
<1>6. req' = [o \in Slot |-> req'[o]]
  BY Parts
<1>7. jar' \in [session : Nat, binding : Bindings] /\ {jar'.session, jar'.binding.token} \subseteq Issued'
  BY <1>0, <1>1 DEF Shapes, Genuine, Issued, RowsGrow
<1> QED  BY <1>1, <1>4, <1>5, <1>6, <1>7, StepInv

LEMMA LateInv ==
  ASSUME BrowserInv, [Next]_vars, LateRotation PROVE BrowserInv'
<1>1. PICK c \in late : \/ Resolve(c.token) /\ late' = late
                        \/ Rotate(c.token) /\ late' = {}
  BY DEF LateRotation
<1>2. now' = now /\ jar' = jar /\ req' = req /\ weather' = weather /\ signedOut' = signedOut
  BY DEF LateRotation
<1>3. weather # "calm"
  BY Parts DEF Peaceful
<1>4. AtWork(c.token) /\ Held(c.token) /\ late' \subseteq late /\ late' \in Late
  BY <1>1, Parts DEF AtWork, Held, Late
<1>5. /\ c.token \in DOMAIN rows /\ (Reused(c.token) => strayed)
      /\ FamilyOf(c.token) \in SUBSET DOMAIN rows
  BY <1>4, WithinGrace, FamilyOfRows
<1>6. (alarm' = alarm \/ strayed) /\ HeldMoves
  BY <1>1, <1>4, <1>5, Parts, ResolveMoves, RotateMoves DEF HeldMoves, HistoryOK
<1>7. Peaceful'
  BY <1>2, <1>3, <1>6, Parts, NextOnward, PeaceKept
<1> QED  BY <1>2, <1>3, <1>4, <1>6, <1>7, BackgroundInv

LEMMA RestInv ==
  ASSUME BrowserInv, [Next]_vars, LateLost \/ UNCHANGED vars PROVE BrowserInv'
<1>1. /\ rows' = rows /\ now' = now /\ alarm' = alarm /\ weather' = weather /\ jar' = jar /\ req' = req
      /\ signedOut' = signedOut /\ (late' = late \/ late' = {})
  BY DEF LateLost, vars, backendVars, browserVars
<1>2. late' \subseteq late /\ late' \in Late /\ HeldMoves
  BY <1>1, Parts DEF Late, HeldMoves
<1>3. Peaceful'
  BY <1>1, Parts, NextOnward, PeaceKept DEF Peaceful
<1> QED  BY <1>1, <1>2, <1>3, BackgroundInv

LEMMA TickInv == ASSUME BrowserInv, [Next]_vars, Tick PROVE BrowserInv'
<1>1. /\ rows' = rows /\ now' = now + 1 /\ alarm' = alarm /\ weather' = weather /\ jar' = jar /\ req' = req
      /\ signedOut' = signedOut /\ late' = late /\ strayed' = strayed /\ now < MaxClock[weather]
  BY DEF Tick, browserVars, lossVars
<1>2. now \in Nat
  BY Parts DEF TableOK
<1>3. Chain'
  BY Parts, NextChain
<1>4. Shapes'
  <2>1. now' <= MaxClock[weather]
    <3>1. weather \in {"calm", "flaky"}
      BY Parts DEF Shapes
    <3>2. MaxClock[weather] \in Nat
      BY <3>1, BoundAssumption
    <3> QED  BY <1>1, <1>2, <3>2
  <2>2. HistoryOK'
    BY Parts, NextOnward
  <2> QED  BY <1>1, <2>1, <2>2, Parts DEF Shapes
<1>5. Genuine' /\ Peaceful'
  BY <1>1, Parts DEF Genuine, Peaceful, Presents, Delivers, Issued
<1>6. Timely'
  <2>1. ASSUME NEW s \in Slot, req[s] # Idle PROVE req[s].since <= now + 1 /\ (now + 1) - req[s].since <= Life
    <3>1. req[s].since \in Nat
      <4>1. req[s] \in Calling \/ req[s] \in Answers \/ req[s] \in Redirected
        BY <2>1, Parts DEF Shapes, Requests
      <4> QED  BY <4>1 DEF Calling, Answers, Redirected
    <3>2. req[s].since <= now /\ now - req[s].since < Life
      BY <2>1, Parts DEF Timely, Tick
    <3> QED  BY <1>2, <3>1, <3>2, Constants
  <2>2. ASSUME NEW c \in late PROVE c.since <= now + 1 /\ (now + 1) - c.since <= Life
    <3>1. c.since \in Nat
      BY Parts DEF Shapes
    <3>2. c.since <= now /\ now - c.since < Life
      BY Parts DEF Timely, Tick
    <3> QED  BY <1>2, <3>1, <3>2, Constants
  <2> QED  BY <1>1, <2>1, <2>2 DEF Timely
<1>7. JarKnows' /\ RequestsKnow'
  BY <1>1, Parts DEF JarKnows, RequestsKnow, Lags, Known, Held, Kin, Presents, Delivers
<1> QED  BY <1>3, <1>4, <1>5, <1>6, <1>7 DEF BrowserInv

LEMMA NextInv == ASSUME BrowserInv, [Next]_vars PROVE BrowserInv'
<1>1. ASSUME NEW s \in Slot, NEW kind \in Kinds[weather], Go(s, kind) PROVE BrowserInv'
  <2>1. kind \in {"nav", "post", "guest", "logout", "login"}
    BY Parts, BoundAssumption DEF Shapes
  <2>2. req[s].at = "idle"
    BY <1>1, Parts, Slots DEF Go
  <2> QED  BY <1>1, <2>1, <2>2, MeetInv DEF Go
<1>2. ASSUME NEW s \in Slot, Follow(s) PROVE BrowserInv'
  <2>1. req[s].kind \in {"nav", "guest", "logout"}
    BY <1>2, Parts, Slots DEF Follow, Redirected
  <2> QED  BY <1>2, <2>1, MeetInv DEF Follow
<1>3. ASSUME NEW s \in Slot, Serve(s) PROVE BrowserInv'
  BY <1>2, <1>3, ResolvingInv, RotatedInv, RenderInv, LogOutInv, LogInInv DEF Serve
<1> QED
  BY <1>1, <1>3, RevokeOthersInv, GivenUpInv, ReceiveInv, LoseInv, LateInv, RestInv, TickInv DEF Next

LEMMA InitInv == Init => BrowserInv
<1> SUFFICES ASSUME Init PROVE BrowserInv
  OBVIOUS
<1>1. Chain /\ now = RotateAfter + 1
  BY InitChain DEF Init, BackendInit
<1>2. DOMAIN rows = {1} /\ rows[1].revoked = FALSE /\ rows[1].family = 1
  BY DEF Init, BackendInit
<1> DEFINE b == [token |-> 1, expiresAt |-> 1 + IdleTimeout, rotateAt |-> 0]
<1>3. b \in Bindings /\ b.token = 1 /\ jar = [session |-> 1, binding |-> b]
  BY Constants DEF Init, Bindings
<1>4. req = [s \in Slot |-> Idle] /\ late = {} /\ weather \in {"calm", "flaky"} /\ Idle.at = "idle"
  BY DEF Init, Idle
<1>a. HistoryOK /\ strayed = FALSE /\ alarm = FALSE
  <2>1. losses = 0 /\ strayed = FALSE /\ alarm = FALSE
    BY DEF Init, BackendInit
  <2>2. MaxLosses \in Nat
    BY BoundAssumption
  <2>3. losses \in 0..MaxLosses
    BY <2>1, <2>2
  <2>4. strayed \in BOOLEAN /\ alarm \in BOOLEAN
    BY <2>1
  <2> QED  BY <2>1, <2>3, <2>4 DEF HistoryOK
<1>5. Shapes
  <2>1. \A w \in {"calm", "flaky"} : RotateAfter + 1 <= MaxClock[w]
    BY Constants, BoundAssumption
  <2> QED  BY <1>1, <1>3, <1>4, <1>a, <2>1 DEF Shapes, Requests
<1>6. \A s \in Slot : \A t : ~Presents(s, t) /\ ~Delivers(s, t)
  BY <1>4 DEF Presents, Delivers
<1>7. Genuine
  BY <1>2, <1>3, <1>4, <1>6 DEF Genuine, Issued
<1>8. Timely
  BY <1>4 DEF Timely
<1>9. JarKnows /\ RequestsKnow
  BY <1>2, <1>4, <1>6 DEF JarKnows, RequestsKnow
<1>10. Peaceful
  BY <1>2, <1>4, <1>a DEF Peaceful
<1> QED  BY <1>1, <1>5, <1>7, <1>8, <1>9, <1>10 DEF BrowserInv

(***************************************************************************)
(* The theorems.                                                           *)
(***************************************************************************)
LEMMA Quiet == BrowserInv => NoFalseAlarm
<1> SUFFICES ASSUME BrowserInv PROVE TypeOK /\ (alarm => strayed)
  BY DEF NoFalseAlarm
<1>1. BackendTypeOK
  <2>1. rows \in Seq(Row) /\ Len(rows) <= MaxTokens /\ alarm \in BOOLEAN
    BY Parts DEF TableOK, HistoryOK
  <2>2. \A t \in DOMAIN rows : rows[t].rotatedAt # Never => rows[t].rotatedAt - rows[t].issuedAt >= RotateAfter
    BY Parts DEF Chain, Dated
  <2> QED  BY <2>1, <2>2 DEF BackendTypeOK
<1>2. Cardinality(late) <= 1
  <2>1. CASE late = {}
    BY <2>1, FS_EmptySet
  <2>2. CASE \E c \in [token : Nat, since : Nat] : late = {c}
    <3>1. Cardinality(late) = 1
      BY <2>2, FS_Singleton, Zenon
    <3> QED  BY <3>1
  <2> QED  BY <2>1, <2>2, Parts DEF Shapes
<1>3. now <= MaxClock[weather]
  BY Parts DEF Shapes
<1>4. jar.session \in {Never} \cup DOMAIN rows /\ jar.binding.token \in {Never} \cup DOMAIN rows
  BY Parts DEF Genuine, Issued
<1>5. alarm => strayed
  BY Parts DEF Peaceful
<1> QED  BY <1>1, <1>2, <1>3, <1>4, <1>5, Parts DEF TypeOK, HistoryOK

LEMMA StillServed == BrowserInv => ServedWhileSignedIn
<1> SUFFICES ASSUME BrowserInv, weather = "calm", NEW s \in Slot, req[s].at = "rendering"
             PROVE  Served(req[s].token) \/ rows[req[s].token].family \in signedOut
  BY DEF ServedWhileSignedIn, ServedUnlessEnded
<1> PICK t : t = req[s].token
  OBVIOUS
<1>1. AtWork(t)
  BY DEF AtWork, Presents
<1>2. t \in DOMAIN rows /\ (Retired(t) => InGrace(t))
  BY <1>1, WithinGrace
<1>3. CASE rows[t].revoked
  BY <1>2, <1>3, Parts DEF Peaceful
<1>4. CASE ~rows[t].revoked
  BY <1>2, <1>4 DEF Served, Superseded, Current, Retired, Live
<1> QED  BY <1>3, <1>4

LEMMA JarStep ==
  ASSUME BrowserInv, [Next]_vars,
         jar.session # Never, jar'.session # Never,
         rows[jar.session].family = rows'[jar'.session].family
  PROVE  jar'.session >= jar.session
<1>1. jar.session \in DOMAIN rows /\ jar.session \in Nat
  BY Parts, Rows DEF Genuine, Issued
<1>2. ASSUME NEW s \in Slot, Receive(s) PROVE jar'.session >= jar.session
  <2>1. CASE jar'.session = jar.session
    BY <1>1, <2>1
  <2>2. CASE jar'.session \notin NoCookie /\ Delivers(s, jar'.session)
    <3> PICK u : u = jar'.session
      OBVIOUS
    <3>1. u \in DOMAIN rows /\ \A v \in DOMAIN rows : Kin(u, v) => ~(u < v)
      BY <2>2, DeliveredIsYoungest
    <3>2. rows' = rows
      BY <1>2 DEF Receive, backendVars
    <3>3. u \in Nat /\ Kin(u, jar.session)
      BY <3>1, <3>2, Parts, Rows DEF Kin
    <3> QED  BY <1>1, <3>1, <3>3
  <2> QED  BY <1>2, <2>1, <2>2, Received
<1>3. CASE jar' = jar
  BY <1>1, <1>3
<1>4. jar' = jar \/ \E s \in Slot : Receive(s)
  <2>1. ASSUME NEW s \in Slot, Serve(s) PROVE jar' = jar
    BY <2>1 DEF Serve, Follow, Meet, Resolving, browserVars, RotationAnswered, Render, LogOut, LogIn
  <2>2. ASSUME NEW s \in Slot, NEW kind, Go(s, kind) PROVE jar' = jar
    BY <2>2 DEF Go, Meet
  <2>3. ASSUME NEW s \in Slot, RevokeOthers(s) \/ RotationGivenUp(s) \/ Lose(s) PROVE jar' = jar
    BY <2>3 DEF RevokeOthers, RotationGivenUp, Lose
  <2>4. LateRotation \/ LateLost \/ Tick \/ UNCHANGED vars => jar' = jar
    BY DEF LateRotation, LateLost, Tick, vars, browserVars
  <2> QED  BY <2>1, <2>2, <2>3, <2>4 DEF Next
<1> QED  BY <1>2, <1>3, <1>4

\* One browser is taken for two only when an answer that carried a rotated token was lost on
\* its way to it: whatever its tabs do otherwise, whichever rotation calls the frontend
\* gives up and however late they run, whichever other answers are lost, and though a
\* sign-in is sent over a session, recoverUndeliveredRotation and getSession report no
\* reuse. For any number of tabs, with a request within half the grace window.
THEOREM NoAlarmFromOwnTabs == Spec => []NoFalseAlarm
<1>1. BrowserInv /\ [Next]_vars => BrowserInv'
  BY NextInv
<1> QED  BY InitInv, <1>1, Quiet, PTL DEF Spec

\* Where every call is answered, the backend refuses no page that proxy.ts let through,
\* unless a sign-out ended the sign-in: rotations by other tabs go unnoticed.
THEOREM ServedUntilSignedOut == Spec => []ServedWhileSignedIn
<1>1. BrowserInv /\ [Next]_vars => BrowserInv'
  BY NextInv
<1> QED  BY InitInv, <1>1, StillServed, PTL DEF Spec

\* In whatever order the answers to its tabs come in, the session cookie never goes
\* back to an older token of its sign-in.
THEOREM JarNeverMovesBack == Spec => JarMovesForward
<1>1. BrowserInv /\ [Next]_vars => BrowserInv'
  BY NextInv
<1>2. BrowserInv /\ [Next]_vars =>
        [/\ jar.session # Never /\ jar'.session # Never
         /\ rows[jar.session].family = rows'[jar'.session].family
         => jar'.session >= jar.session]_vars
  BY JarStep
<1> QED  BY InitInv, <1>1, <1>2, PTL DEF Spec, JarMovesForward

----------------------------------------------------------------------------
(***************************************************************************)
(* The floor of the idle timeout.  A request that brings no binding met a  *)
(* jar that had enough left, or the jar has been written since, or an      *)
(* answer that will write it is on its way.                                *)
(***************************************************************************)
\* A binding lasts the idle timeout from some instant of its request, and a session
\* cookie comes with one.
PairedAt(r) ==
  r.at \notin {"idle", "redirected"} =>
    /\ r.binding # NoBinding => r.binding.expiresAt >= r.since + IdleTimeout
    /\ r.session \notin NoCookie => r.binding # NoBinding

\* It was let through, or is about to be, and brings no binding.
UnrolledAt(r) ==
  \/ r.at = "rotating"
  \/ r.at = "rendering" /\ r.binding = NoBinding
  \/ r.at = "answered" /\ r.binding = NoBinding /\ r.goto = "stay"

Renewed(since) == 2 * (jar.binding.expiresAt - since) > IdleTimeout

\* The jar's binding has enough left for it, fits no session, or is about to be replaced.
Settled(since) == jar.session = Never \/ jar.binding.token # jar.session \/ Renewed(since)
Replaced(s) == \E o \in Slot \ {s} : \E u : u \notin NoCookie /\ Delivers(o, u)
Kept(s) ==
  Settled(req[s].since) \/ Replaced(s) \/ (req[s].at = "rotating" /\ jar.session = req[s].token)

FloorInv ==
  /\ \A s \in Slot : PairedAt(req[s])
  /\ weather = "calm" => \A s \in Slot : UnrolledAt(req[s]) => Kept(s)

LEMMA NextGrows == ASSUME BrowserInv, [Next]_vars PROVE RowsGrow
<1>1. CASE Moves
  BY <1>1, Parts, MovesGrow
<1>2. CASE rows' = rows
  BY <1>2 DEF RowsGrow
<1> QED  BY <1>1, <1>2, NextMoves

\* A binding made now.
LEMMA NewBinding ==
  ASSUME TableOK, NEW t \in Nat, t # Never, NEW i \in Int
  PROVE  /\ Binding(t, i) \in Bindings /\ Binding(t, i) # NoBinding
         /\ Binding(t, i).expiresAt = now + IdleTimeout
<1>1. now + IdleTimeout \in Int
  BY Constants DEF TableOK
<1>2. Binding(t, i) \in Bindings /\ Binding(t, i).token = t /\ Binding(t, i).expiresAt = now + IdleTimeout
  BY <1>1 DEF Binding, Bindings
<1> QED  BY <1>2 DEF NoBinding

\* Another slot's step, and the jar as it was.
LEMMA KeptOn ==
  ASSUME jar' = jar, NEW s \in Slot, req'[s] = req[s], Kept(s),
         \A o \in Slot \ {s} : StillDelivers(o)
  PROVE  Kept(s)'
<1>1. Settled(req[s].since) => Settled(req[s].since)'
  BY DEF Settled, Renewed
<1>2. Replaced(s) => Replaced(s)'
  BY DEF Replaced, StillDelivers
<1> QED  BY <1>1, <1>2 DEF Kept, Settled, Renewed

LEMMA FloorSlot ==
  ASSUME BrowserInv, FloorInv, [Next]_vars, weather' = weather, jar' = jar,
         NEW s \in Slot, \A o \in Slot \ {s} : req'[o] = req[o], StillDelivers(s),
         PairedAt(req'[s]), weather = "calm" /\ UnrolledAt(req'[s]) => Kept(s)'
  PROVE  FloorInv'
<1>1. \A o \in Slot \ {s} : StillDelivers(o)
  BY NextGrows, Parts, SlotRests
<1>2. ASSUME NEW o \in Slot PROVE PairedAt(req'[o])
  BY DEF FloorInv
<1>3. ASSUME NEW o \in Slot, weather = "calm", UnrolledAt(req'[o]) PROVE Kept(o)'
  BY <1>1, <1>3, KeptOn DEF FloorInv
<1> QED  BY <1>2, <1>3 DEF FloorInv, PairedAt, UnrolledAt

\* The requests and the jar as they were.
LEMMA FloorRests ==
  ASSUME BrowserInv, FloorInv, [Next]_vars, weather' = weather, jar' = jar, req' = req
  PROVE  FloorInv'
<1>1. \A o \in Slot : StillDelivers(o)
  BY NextGrows, Parts, SlotRests
<1>2. ASSUME NEW o \in Slot, weather = "calm", UnrolledAt(req[o]) PROVE Kept(o)'
  BY <1>1, <1>2, KeptOn DEF FloorInv
<1> QED  BY <1>2 DEF FloorInv, PairedAt, UnrolledAt

\* What a request brings when it has met the frontend.
LEMMA MetBrings ==
  ASSUME TableOK, Shapes, Genuine, NEW kind \in {"nav", "post", "guest", "logout", "login"},
         NEW r, r = Met(Request(kind))
  PROVE  /\ PairedAt(r)
         /\ UnrolledAt(r) => /\ r.since = now
                             /\ Renewed(now) \/ (r.at = "rotating" /\ jar.session = r.token)
<1> DEFINE q == Request(kind)
<1>1. q \in Calling /\ q.at = "sent" /\ q.kind = kind /\ q.since = now
      /\ q.token = jar.session /\ q.session = Never /\ q.binding = NoBinding
  <2>1. now \in Nat /\ jar.session \in Nat
    BY DEF TableOK, Shapes
  <2>2. NoBinding \in Bindings
    BY DEF NoBinding, Bindings, Never
  <2> QED  BY <2>1, <2>2 DEF Request, Calling, Never
<1> HIDE DEF q
<1>2. r.since = now \/ r = Idle
  BY MetShape
<1>3. ASSUME NEW goto \in {"login", "logout", "dashboard"}, r = Answered(q, goto)
      PROVE  PairedAt(r) /\ ~UnrolledAt(r)
  <2>1. r.at = "answered" /\ r.goto = goto /\ r.session = Never /\ r.binding = NoBinding
    BY <1>1, <1>3 DEF Answered
  <2> QED  BY <2>1 DEF PairedAt, UnrolledAt, NoCookie
<1>4. ASSUME NEW at \in {"revoking", "signing in"}, r = [q EXCEPT !.at = at]
      PROVE  PairedAt(r) /\ ~UnrolledAt(r)
  <2>1. r.at = at /\ r.session = Never /\ r.binding = NoBinding
    BY <1>1, <1>4 DEF Calling
  <2> QED  BY <2>1 DEF PairedAt, UnrolledAt, NoCookie
<1>5. CASE kind \in {"nav", "post"}
  <2>1. r = Member(q)
    BY <1>1, <1>5 DEF Met, q
  <2>2. CASE q.token = Never
    <3>1. r = Answered(q, "login")
      BY <2>1, <2>2 DEF Member
    <3> QED  BY <1>3, <3>1
  <2>3. CASE q.token # Never /\ ~Bound
    <3>1. r = Answered(q, "logout")
      BY <2>1, <2>3 DEF Member
    <3> QED  BY <1>3, <3>1
  <2>4. CASE q.token # Never /\ Bound /\ q.kind = "nav" /\ now >= jar.binding.rotateAt
    <3>1. r = [q EXCEPT !.at = "rotating", !.asked = now]
      BY <2>1, <2>4 DEF Member
    <3>2. r.at = "rotating" /\ r.token = jar.session /\ r.session = Never /\ r.binding = NoBinding
          /\ r.since = now
      BY <1>1, <3>1 DEF Calling
    <3> QED  BY <3>2 DEF PairedAt, UnrolledAt, NoCookie
  <2>5. CASE q.token # Never /\ Bound /\ ~(q.kind = "nav" /\ now >= jar.binding.rotateAt)
    <3>1. r = [q EXCEPT !.at = "rendering", !.binding = Rolled(q)]
      BY <2>1, <2>5 DEF Member
    <3>2. r.at = "rendering" /\ r.session = Never /\ r.binding = Rolled(q) /\ r.since = now
      BY <1>1, <3>1 DEF Calling
    <3>3. jar.binding.expiresAt \in Int /\ jar.binding.rotateAt \in Int /\ now \in Nat /\ jar.session \in Nat
      BY DEF Shapes, Bindings, TableOK
    <3>4. CASE 2 * (jar.binding.expiresAt - now) <= IdleTimeout
      <4>1. Rolled(q) = Binding(jar.session, jar.binding.rotateAt)
        BY <1>1, <3>4 DEF Rolled
      <4>2. r.binding # NoBinding /\ r.binding.expiresAt = now + IdleTimeout
        BY <1>1, <2>5, <3>2, <3>3, <4>1, NewBinding
      <4>3. now + IdleTimeout >= now + IdleTimeout
        BY <3>3, Constants
      <4> QED  BY <3>2, <4>2, <4>3 DEF PairedAt, UnrolledAt, NoCookie
    <3>5. CASE ~(2 * (jar.binding.expiresAt - now) <= IdleTimeout)
      <4>1. r.binding = NoBinding
        BY <3>2, <3>5 DEF Rolled
      <4>2. Renewed(now)
        BY <3>3, <3>5, Constants DEF Renewed
      <4> QED  BY <3>2, <4>1, <4>2 DEF PairedAt, UnrolledAt, NoCookie
    <3> QED  BY <3>4, <3>5
  <2> QED  BY <2>2, <2>3, <2>4, <2>5
<1>6. CASE kind = "guest"
  <2>1. r = Guest(q)
    BY <1>1, <1>6 DEF Met, q
  <2>2. r = Idle \/ r = Answered(q, "dashboard")
    BY <2>1 DEF Guest
  <2>3. PairedAt(Idle) /\ ~UnrolledAt(Idle)
    BY DEF PairedAt, UnrolledAt, Idle
  <2> QED  BY <1>3, <2>2, <2>3
<1>7. CASE kind = "logout"
  <2>1. r = [q EXCEPT !.at = "revoking"]
    BY <1>1, <1>7 DEF Met, q
  <2> QED  BY <1>4, <2>1
<1>8. CASE kind = "login"
  <2>1. r = [q EXCEPT !.at = "signing in"]
    BY <1>1, <1>8 DEF Met, q
  <2> QED  BY <1>4, <2>1
<1> QED  BY <1>5, <1>6, <1>7, <1>8

LEMMA MeetFloor ==
  ASSUME BrowserInv, FloorInv, [Next]_vars, NEW s \in Slot,
         NEW kind \in {"nav", "post", "guest", "logout", "login"},
         Meet(s, kind), req[s].at \in {"idle", "redirected"}
  PROVE  FloorInv'
<1>1. weather' = weather /\ jar' = jar /\ \A o \in Slot \ {s} : req'[o] = req[o]
  BY Parts DEF Meet
<1> PICK r : r = Met(Request(kind))
  OBVIOUS
<1>2. req'[s] = r
  BY Parts DEF Meet
<1>3. PairedAt(r) /\ (UnrolledAt(r) => /\ r.since = now
                                       /\ Renewed(now) \/ (r.at = "rotating" /\ jar.session = r.token))
  BY Parts, MetBrings
<1>4. UnrolledAt(r) => Kept(s)'
  BY <1>1, <1>2, <1>3 DEF Kept, Settled, Renewed
<1>5. StillDelivers(s)
  BY Parts, MeetSlot
<1> QED  BY <1>1, <1>2, <1>3, <1>4, <1>5, FloorSlot

LEMMA CallingSince ==
  ASSUME BrowserInv, NEW s \in Slot, req[s] \in Calling
  PROVE  req[s].since \in Nat /\ req[s].since <= now /\ now \in Nat
<1>1. Idle.at = "idle" /\ req[s].at # "idle" /\ req[s].since \in Nat
  BY DEF Calling, Idle
<1> QED  BY <1>1, Parts DEF Timely, TableOK

LEMMA RotatedFloor ==
  ASSUME BrowserInv, FloorInv, [Next]_vars, NEW s \in Slot, RotationAnswered(s)
  PROVE  FloorInv'
<1> DEFINE r == req[s]
           t == req[s].token
           Good == PairedAt(req'[s]) /\ (weather = "calm" /\ UnrolledAt(req'[s]) => Kept(s)')
<1>1. /\ weather' = weather /\ jar' = jar /\ \A o \in Slot \ {s} : req'[o] = req[o]
      /\ req'[s] = AfterRotation(r)
  BY Parts DEF RotationAnswered
<1>2. r \in Calling /\ r.at = "rotating" /\ r.session = Never /\ t \in DOMAIN rows
  BY Parts, Slots DEF RotationAnswered, Genuine, Presents
<1>3. /\ rows[t].issuedAt \in Nat /\ now \in Nat /\ t \in Nat /\ t > 0
      /\ Len(rows) + 1 \in Nat /\ Len(rows) + 1 > 0
  BY <1>2, Parts, Rows DEF TableOK
<1>4. r.asked \in Nat /\ r.since \in Nat /\ r.since <= now
  BY <1>2, CallingSince DEF Calling
<1> PICK at \in Int : at = r.asked + RotateIn(t)
  BY <1>3, <1>4, Constants DEF RotateIn
<1>5. PairedAt(r)
  BY DEF FloorInv
<1>6. ASSUME Verdict(t) \in {"rotated", "not_due"} PROVE Good
  <2>1. PICK b \in Bindings : /\ b # NoBinding /\ b.expiresAt = now + IdleTimeout
                              /\ req'[s].at = "rendering" /\ req'[s].binding = b /\ req'[s].since = r.since
    <3>1. CASE Verdict(t) = "rotated"
      <4> PICK new \in Nat : new = Len(rows) + 1 /\ new # Never
        BY <1>3 DEF Never
      <4> PICK c \in Bindings : c = Binding(new, at) /\ c # NoBinding /\ c.expiresAt = now + IdleTimeout
        BY Parts, NewBinding
      <4>1. req'[s] = [r EXCEPT !.at = "rendering", !.asked = Never, !.token = new, !.session = new,
                                !.binding = c]
        BY <1>1, <3>1 DEF AfterRotation, RotatedTo
      <4>2. req'[s].at = "rendering" /\ req'[s].binding = c /\ req'[s].since = r.since
        BY <1>2, <4>1 DEF Calling
      <4> QED  BY <4>2
    <3>2. CASE Verdict(t) = "not_due"
      <4> PICK c \in Bindings : c = Binding(t, at) /\ c # NoBinding /\ c.expiresAt = now + IdleTimeout
        BY <1>3, Parts, NewBinding DEF Never
      <4>1. req'[s] = [r EXCEPT !.at = "rendering", !.asked = Never, !.binding = c]
        BY <1>1, <3>2 DEF AfterRotation, NotDue
      <4>2. req'[s].at = "rendering" /\ req'[s].binding = c /\ req'[s].since = r.since
        BY <1>2, <4>1 DEF Calling
      <4> QED  BY <4>2
    <3> QED  BY <1>6, <3>1, <3>2
  <2>2. now + IdleTimeout >= r.since + IdleTimeout
    BY <1>3, <1>4, Constants
  <2> QED  BY <2>1, <2>2 DEF PairedAt, UnrolledAt
<1>7. ASSUME Verdict(t) = "superseded" PROVE Good
  <2>1. req'[s] = [r EXCEPT !.at = "rendering", !.asked = Never]
    BY <1>1, <1>7 DEF AfterRotation, LeftAlone
  <2>2. /\ req'[s].at = "rendering" /\ req'[s].session = r.session /\ req'[s].binding = r.binding
        /\ req'[s].since = r.since
    BY <1>2, <2>1 DEF Calling
  <2>3. PairedAt(req'[s])
    BY <1>2, <1>5, <2>2 DEF PairedAt
  <2>4. ASSUME weather = "calm" PROVE Kept(s)'
    <3>1. Kept(s)
      BY <1>2, <2>4 DEF FloorInv, UnrolledAt
    <3>2. CASE Settled(r.since)
      BY <1>1, <2>2, <3>2 DEF Kept, Settled, Renewed
    <3>3. CASE Replaced(s)
      <4>1. Replaced(s)'
        BY <1>1, <3>3 DEF Replaced, Delivers
      <4> QED  BY <4>1 DEF Kept
    <3>4. CASE jar.session = t
      <4>1. Retired(t)
        BY <1>7 DEF Verdict, Superseded
      <4>2. PICK x \in DOMAIN rows : Follows(x, t)
        BY <1>2, <4>1, Parts DEF Chain, Followed
      <4>3. t < x /\ Kin(t, x) /\ Known(x)
        BY <2>4, <4>2 DEF Follows, Known
      <4>4. PICK o \in Slot : Delivers(o, x)
        BY <1>2, <2>4, <3>4, <4>3, Parts DEF JarKnows
      <4>5. x \notin NoCookie
        BY Parts, Rows DEF NoCookie, Never, Clear
      <4>6. o # s
        BY <1>2, <4>4 DEF Delivers
      <4>7. Replaced(s)'
        BY <1>1, <4>4, <4>5, <4>6 DEF Replaced, Delivers
      <4> QED  BY <4>7 DEF Kept
    <3> QED  BY <3>1, <3>2, <3>3, <3>4 DEF Kept
  <2> QED  BY <2>3, <2>4
<1>8. ASSUME Verdict(t) = "invalid" PROVE Good
  <2>1. req'[s] = Answered(r, "logout")
    BY <1>1, <1>8 DEF AfterRotation
  <2>2. /\ req'[s].at = "answered" /\ req'[s].goto = "logout" /\ req'[s].since = r.since
        /\ req'[s].session = r.session /\ req'[s].binding = r.binding
    BY <2>1 DEF Answered
  <2> QED  BY <1>2, <1>5, <2>2 DEF PairedAt, UnrolledAt
<1>9. Verdict(t) \in {"rotated", "not_due", "superseded", "invalid"}
  BY DEF Verdict
<1>10. Good
  BY <1>6, <1>7, <1>8, <1>9
<1>11. StillDelivers(s)
  BY NextGrows, Parts, RotatedSlot
<1> QED  BY <1>1, <1>10, <1>11, FloorSlot

LEMMA GivenUpFloor ==
  ASSUME BrowserInv, FloorInv, [Next]_vars, NEW s \in Slot, RotationGivenUp(s)
  PROVE  FloorInv'
<1> DEFINE r == req[s]
           t == req[s].token
<1>1. /\ weather' = weather /\ weather # "calm" /\ jar' = jar
      /\ \A o \in Slot \ {s} : req'[o] = req[o]
  BY Parts DEF RotationGivenUp
<1>a. req'[s] = Unavailable(r)
  BY Parts DEF RotationGivenUp
<1>2. r \in Calling /\ r.at = "rotating" /\ t \in DOMAIN rows
  BY Parts, Slots DEF RotationGivenUp, Genuine, Presents
<1>3. t \in Nat /\ t # Never /\ now \in Nat
  BY <1>2, Parts, Rows DEF TableOK, Never
<1>4. r.asked \in Nat /\ r.since \in Nat /\ r.since <= now
  BY <1>2, CallingSince DEF Calling
<1> PICK at \in Int : at = r.asked + RetryAfter
  BY <1>4, Constants
<1>5. PICK b \in Bindings : b = Binding(t, at) /\ b # NoBinding /\ b.expiresAt = now + IdleTimeout
  BY <1>3, Parts, NewBinding
<1>6. req'[s] = [r EXCEPT !.at = "rendering", !.asked = Never, !.binding = b]
  BY <1>a, <1>5 DEF Unavailable
<1>7. req'[s].at = "rendering" /\ req'[s].binding = b /\ req'[s].since = r.since
  BY <1>2, <1>6 DEF Calling
<1>8. now + IdleTimeout >= r.since + IdleTimeout
  BY <1>3, <1>4, Constants
<1>9. PairedAt(req'[s])
  BY <1>5, <1>7, <1>8 DEF PairedAt
<1>10. StillDelivers(s)
  BY NextGrows, Parts, GivenUpSlot
<1> QED  BY <1>1, <1>9, <1>10, FloorSlot

LEMMA DoneFloor ==
  ASSUME BrowserInv, FloorInv, [Next]_vars, NEW s \in Slot, Render(s) \/ RevokeOthers(s)
  PROVE  FloorInv'
<1>1. weather' = weather /\ jar' = jar /\ \A o \in Slot \ {s} : req'[o] = req[o]
  BY Parts DEF Render, RevokeOthers
<1>2. req[s].at = "rendering" /\ \E goto \in {"logout", "stay"} : req'[s] = Answered(req[s], goto)
  BY Parts DEF Render, RevokeOthers
<1>3. /\ req'[s].at = "answered" /\ req'[s].since = req[s].since
      /\ req'[s].session = req[s].session /\ req'[s].binding = req[s].binding
  BY <1>2 DEF Answered
<1>4. PairedAt(req'[s])
  BY <1>2, <1>3 DEF FloorInv, PairedAt
<1>5. ASSUME weather = "calm", UnrolledAt(req'[s]) PROVE Kept(s)'
  <2>1. Kept(s)
    BY <1>2, <1>3, <1>5 DEF FloorInv, UnrolledAt
  <2>2. Replaced(s) => Replaced(s)'
    BY <1>1 DEF Replaced, Delivers
  <2>3. Settled(req[s].since) => Settled(req[s].since)'
    BY <1>1, <1>3 DEF Settled, Renewed
  <2> QED  BY <1>2, <1>3, <2>1, <2>2, <2>3 DEF Kept, Settled, Renewed
<1>6. StillDelivers(s)
  BY NextGrows, Parts, DoneSlot
<1> QED  BY <1>1, <1>4, <1>5, <1>6, FloorSlot

LEMMA LogOutFloor ==
  ASSUME BrowserInv, FloorInv, [Next]_vars, NEW s \in Slot, LogOut(s)
  PROVE  FloorInv'
<1>1. weather' = weather /\ jar' = jar /\ \A o \in Slot \ {s} : req'[o] = req[o]
  BY Parts DEF LogOut
<1>2. req[s] \in Calling /\ req[s].at = "revoking"
  BY Parts, Slots DEF LogOut
<1>3. req'[s] = [Answered(req[s], "login") EXCEPT !.session = Clear]
  BY Parts DEF LogOut, Cleared
<1>4. /\ req'[s].at = "answered" /\ req'[s].goto = "login" /\ req'[s].since = req[s].since
      /\ req'[s].session = Clear /\ req'[s].binding = req[s].binding
  BY <1>3 DEF Answered
<1>5. PairedAt(req'[s]) /\ ~UnrolledAt(req'[s])
  BY <1>2, <1>4 DEF FloorInv, PairedAt, UnrolledAt, NoCookie
<1>6. StillDelivers(s)
  BY NextGrows, Parts, LogOutSlot
<1> QED  BY <1>1, <1>5, <1>6, FloorSlot

LEMMA LogInFloor ==
  ASSUME BrowserInv, FloorInv, [Next]_vars, NEW s \in Slot, LogIn(s)
  PROVE  FloorInv'
<1>1. weather' = weather /\ jar' = jar /\ \A o \in Slot \ {s} : req'[o] = req[o]
  BY Parts DEF LogIn
<1>2. req[s] \in Calling /\ req[s].since \in Nat /\ req[s].since <= now /\ now \in Nat
  BY Parts, Slots, CallingSince DEF LogIn
<1>3. ASSUME req'[s] = Idle PROVE PairedAt(req'[s]) /\ ~UnrolledAt(req'[s])
  BY <1>3 DEF PairedAt, UnrolledAt, Idle
<1>4. ASSUME req'[s] # Idle PROVE PairedAt(req'[s]) /\ ~UnrolledAt(req'[s])
  <2> PICK new \in Nat : new = Len(rows) + 1 /\ new # Never
    BY Parts, Rows DEF Never
  <2>1. PICK b \in Bindings : b = Binding(new, 0) /\ b # NoBinding /\ b.expiresAt = now + IdleTimeout
    BY Parts, NewBinding
  <2>2. req'[s] = [Answered(req[s], "dashboard") EXCEPT !.session = new, !.binding = b]
    BY <1>4, <2>1, Parts DEF LogIn
  <2>3. /\ req'[s].at = "answered" /\ req'[s].goto = "dashboard" /\ req'[s].since = req[s].since
        /\ req'[s].binding = b
    BY <2>2 DEF Answered
  <2>4. now + IdleTimeout >= req[s].since + IdleTimeout
    BY <1>2, Constants
  <2> QED  BY <2>1, <2>3, <2>4 DEF PairedAt, UnrolledAt
<1>5. PairedAt(req'[s]) /\ ~UnrolledAt(req'[s])
  BY <1>3, <1>4
<1>6. StillDelivers(s)
  BY NextGrows, Parts, LogInSlot
<1> QED  BY <1>1, <1>5, <1>6, FloorSlot

\* A binding that comes is young enough for every request under way.
LEMMA FreshEnough ==
  ASSUME BrowserInv, NEW s \in Slot, NEW o \in Slot, req[s] # Idle, req[o] # Idle,
         req[s].since \in Nat, req[o].since \in Nat,
         NEW e \in Int, e >= req[o].since + IdleTimeout
  PROVE  2 * (e - req[s].since) > IdleTimeout
<1>1. now \in Nat /\ req[s].since <= now /\ now - req[o].since <= Life
  BY Parts DEF Timely, TableOK
<1>2. 2 * Life < IdleTimeout
  BY IdleAssumption
<1> QED  BY <1>1, <1>2, Constants

LEMMA ReceiveFloor ==
  ASSUME BrowserInv, FloorInv, [Next]_vars, NEW s \in Slot, Receive(s)
  PROVE  FloorInv'
<1>1. weather' = weather /\ \A o \in Slot \ {s} : req'[o] = req[o]
  BY Parts DEF Receive
<1>2. req[s] \in Answers /\ req[s].at = "answered" /\ req[s].since \in Nat /\ req[s] # Idle
  <2>1. req[s] \in Answers /\ req[s].at = "answered"
    BY Parts, Slots DEF Receive
  <2>2. Idle.at = "idle"
    BY DEF Idle
  <2> QED  BY <2>1, <2>2 DEF Answers
<1>3. PairedAt(req'[s]) /\ ~UnrolledAt(req'[s])
  <2>1. req'[s] = Landed(req[s])
    BY Parts DEF Receive
  <2> QED  BY <2>1 DEF Landed, Idle, PairedAt, UnrolledAt
<1>4. ASSUME NEW o \in Slot \ {s}, weather = "calm", UnrolledAt(req[o]) PROVE Kept(o)'
  <2>1. Kept(o) /\ req'[o] = req[o]
    BY <1>1, <1>4 DEF FloorInv
  <2>2. req[o] # Idle /\ req[o].since \in Nat
    <3>1. req[o] \in Calling \/ req[o] \in Answers
      BY <1>4, Parts, Slots DEF UnrolledAt
    <3>2. Idle.at = "idle"
      BY DEF Idle
    <3> QED  BY <1>4, <3>1, <3>2 DEF UnrolledAt, Calling, Answers
  <2>3. CASE req[s].session = Clear
    <3>1. jar'.session = Never
      BY <2>3 DEF Receive, EmptyJar
    <3> QED  BY <3>1 DEF Kept, Settled
  <2>4. CASE req[s].session # Clear /\ req[s].binding # NoBinding
    <3>1. jar'.binding = req[s].binding
      BY <2>4 DEF Receive
    <3>2. req[s].binding.expiresAt \in Int /\ req[s].binding.expiresAt >= req[s].since + IdleTimeout
      BY <1>2, <2>4 DEF FloorInv, PairedAt, Answers, Bindings
    <3>3. 2 * (jar'.binding.expiresAt - req'[o].since) > IdleTimeout
      BY <1>2, <2>1, <2>2, <3>1, <3>2, FreshEnough
    <3> QED  BY <3>3 DEF Kept, Settled, Renewed
  <2>5. CASE req[s].session # Clear /\ req[s].binding = NoBinding
    <3>1. req[s].session = Never
      BY <1>2, <2>5 DEF FloorInv, PairedAt, NoCookie
    <3>2. jar'.session = jar.session /\ jar'.binding = jar.binding
      BY <2>5, <3>1 DEF Receive
    <3>3. Replaced(o) => Replaced(o)'
      <4> SUFFICES ASSUME NEW p \in Slot \ {o}, NEW u, u \notin NoCookie, Delivers(p, u)
                   PROVE  Replaced(o)'
        BY DEF Replaced
      <4>1. p # s
        BY <3>1 DEF Delivers, NoCookie
      <4>2. Delivers(p, u)'
        BY <1>1, <4>1 DEF Delivers
      <4> QED  BY <4>2 DEF Replaced
    <3> QED  BY <2>1, <3>2, <3>3 DEF Kept, Settled, Renewed
  <2> QED  BY <2>3, <2>4, <2>5
<1>5. \A o \in Slot : PairedAt(req'[o])
  BY <1>1, <1>3 DEF FloorInv
<1> QED  BY <1>1, <1>3, <1>4, <1>5 DEF FloorInv

\* An answer that does not come leaves the other requests, and the jar, as they were.
LEMMA LoseFloor ==
  ASSUME BrowserInv, FloorInv, [Next]_vars, NEW s \in Slot, Lose(s)
  PROVE  FloorInv'
<1>1. weather' = weather /\ weather # "calm" /\ \A o \in Slot \ {s} : req'[o] = req[o]
  BY Parts DEF Lose
<1>2. req'[s] = Idle
  BY Parts DEF Lose
<1>3. PairedAt(req'[s])
  BY <1>2 DEF PairedAt, Idle
<1> QED  BY <1>1, <1>3 DEF FloorInv

LEMMA FloorNext == ASSUME BrowserInv, FloorInv, [Next]_vars PROVE FloorInv'
<1>1. ASSUME NEW s \in Slot, NEW kind \in Kinds[weather], Go(s, kind) PROVE FloorInv'
  <2>1. kind \in {"nav", "post", "guest", "logout", "login"}
    BY Parts, BoundAssumption DEF Shapes
  <2>2. req[s].at = "idle"
    BY <1>1, Parts, Slots DEF Go
  <2> QED  BY <1>1, <2>1, <2>2, MeetFloor DEF Go
<1>2. ASSUME NEW s \in Slot, Follow(s) PROVE FloorInv'
  <2>1. req[s].kind \in {"nav", "guest", "logout"}
    BY <1>2, Parts, Slots DEF Follow, Redirected
  <2> QED  BY <1>2, <2>1, MeetFloor DEF Follow
<1>3. ASSUME weather' = weather, jar' = jar, req' = req PROVE FloorInv'
  BY <1>3, FloorRests
<1>4. ASSUME NEW s \in Slot, Resolving(s) PROVE FloorInv'
  BY <1>3, <1>4 DEF Resolving, browserVars
<1>5. CASE LateRotation \/ LateLost \/ Tick \/ UNCHANGED vars
  BY <1>3, <1>5 DEF LateRotation, LateLost, Tick, vars, browserVars
<1>6. ASSUME NEW s \in Slot, Serve(s) PROVE FloorInv'
  BY <1>2, <1>4, <1>6, RotatedFloor, DoneFloor, LogOutFloor, LogInFloor DEF Serve
<1> QED
  BY <1>1, <1>5, <1>6, DoneFloor, GivenUpFloor, ReceiveFloor, LoseFloor DEF Next

\* What the invariant says to the last answer that lands.
LEMMA FloorStep ==
  ASSUME BrowserInv, FloorInv, NEW s \in Slot, weather = "calm", Receive(s), req[s].goto = "stay",
         \A o \in Slot \ {s} : req[o] = Idle,
         jar'.session # Never, jar'.binding.token = jar'.session
  PROVE  2 * (jar'.binding.expiresAt - now + Life) > IdleTimeout
<1>1. req[s] \in Answers /\ req[s].at = "answered" /\ req[s].since \in Nat /\ req[s] # Idle
  <2>1. req[s] \in Answers /\ req[s].at = "answered"
    BY Parts, Slots DEF Receive
  <2>2. Idle.at = "idle"
    BY DEF Idle
  <2> QED  BY <2>1, <2>2 DEF Answers
<1>2. now \in Nat /\ req[s].since <= now /\ now - req[s].since <= Life
  BY <1>1, Parts DEF Timely, TableOK
<1>3. req[s].session # Clear
  BY DEF Receive, EmptyJar
<1>4. CASE req[s].binding # NoBinding
  <2>1. jar'.binding = req[s].binding
    BY <1>3, <1>4 DEF Receive
  <2>2. req[s].binding.expiresAt \in Int /\ req[s].binding.expiresAt >= req[s].since + IdleTimeout
    BY <1>1, <1>4 DEF FloorInv, PairedAt, Answers, Bindings
  <2>3. 2 * Life < IdleTimeout
    BY IdleAssumption
  <2> QED  BY <1>1, <1>2, <2>1, <2>2, <2>3, Constants
<1>5. CASE req[s].binding = NoBinding
  <2>1. req[s].session = Never
    BY <1>1, <1>3, <1>5 DEF FloorInv, PairedAt, NoCookie
  <2>2. jar'.session = jar.session /\ jar'.binding = jar.binding
    BY <1>3, <1>5, <2>1 DEF Receive
  <2>3. Kept(s)
    BY <1>1, <1>5 DEF FloorInv, UnrolledAt
  <2>4. ~Replaced(s)
    BY DEF Replaced, Delivers, Idle
  <2>5. Renewed(req[s].since)
    BY <1>1, <2>2, <2>3, <2>4 DEF Kept, Settled
  <2>6. jar.binding.expiresAt \in Int
    BY Parts DEF Shapes, Bindings
  <2> QED  BY <1>1, <1>2, <2>2, <2>5, <2>6, Constants DEF Renewed
<1> QED  BY <1>4, <1>5

\* Whoever was let through to a member page has at least half the idle timeout left, by
\* whatever method and though a superseded request rolls nothing, when the answers
\* that were under way with it have landed (lib/auth/constants.ts).
THEOREM IdleFloorKept == Spec => IdleFloor
<1>1. Init => FloorInv
  BY DEF Init, Idle, FloorInv, PairedAt, UnrolledAt
<1>2. BrowserInv /\ [Next]_vars => BrowserInv'
  BY NextInv
<1>3. BrowserInv /\ FloorInv /\ [Next]_vars => FloorInv'
  BY FloorNext
<1>4. BrowserInv /\ FloorInv =>
        [\A s \in Slot :
           /\ weather = "calm" /\ Receive(s) /\ req[s].goto = "stay"
           /\ \A o \in Slot \ {s} : req[o] = Idle
           /\ jar'.session # Never /\ jar'.binding.token = jar'.session
           => 2 * (jar'.binding.expiresAt - now + Life) > IdleTimeout]_vars
  BY FloorStep
<1> QED  BY InitInv, <1>1, <1>2, <1>3, <1>4, PTL DEF Spec, IdleFloor
=============================================================================
