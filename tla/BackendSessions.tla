--------------------------- MODULE BackendSessions ---------------------------
(***************************************************************************)
(* The session service of auth.service.ts as a client sees it: each call   *)
(* is the few steps that change rows, taken one at a time.  SessionFamilies *)
(* has the statements and their interleavings; both keep SignInLineage.    *)
(* Sign-ins do not expire here: the runs are shorter than their lifetime.  *)
(***************************************************************************)
EXTENDS Integers, Sequences, FiniteSets

CONSTANTS RotateAfter, Grace,
          MaxTokens  \* bound: tokens ever issued

VARIABLES now,   \* the clock, from 1
          rows,  \* the sessions table, a row per token in the order of issue
          alarm  \* history: auth.session.reuse_detected was reported

Never == 0

Token == 1..MaxTokens
Row == [family : Token, issuedAt : Nat, rotatedAt : Nat, revoked : BOOLEAN, used : BOOLEAN]

NewRow(family) ==
  [family |-> family, issuedAt |-> now, rotatedAt |-> Never, revoked |-> FALSE, used |-> FALSE]

Live(t) == t \in DOMAIN rows /\ ~rows[t].revoked
Retired(t) == Live(t) /\ rows[t].rotatedAt # Never
Current(t) == Live(t) /\ rows[t].rotatedAt = Never

FamilyOf(t) == {u \in DOMAIN rows : rows[u].family = rows[t].family}
MintedSince(t) == {u \in FamilyOf(t) \ {t} : rows[u].issuedAt >= rows[t].rotatedAt}

\* Mutant: the last instant of the grace window is outside it.
GraceExclusive(t) == now - rows[t].rotatedAt < Grace

InGrace(t) == now - rows[t].rotatedAt <= Grace

\* What a retired token is taken for.
Superseded(t) == Retired(t) /\ InGrace(t)
Reused(t) == Retired(t) /\ ~InGrace(t) /\ \E u \in MintedSince(t) : rows[u].used
Undelivered(t) == Retired(t) /\ ~InGrace(t) /\ ~Reused(t)

Served(t) == Current(t) \/ Superseded(t)

Revoked(tokens) == [u \in DOMAIN rows |-> [rows[u] EXCEPT !.revoked = @ \/ u \in tokens]]

TokenLeft == Len(rows) < MaxTokens

\* A sign-in begins.
SignIn == TokenLeft /\ rows' = Append(rows, NewRow(Len(rows) + 1)) /\ UNCHANGED alarm

\* getSession: what presenting a token does to the rows.
Present(t) ==
  /\ rows' = IF Current(t) THEN [rows EXCEPT ![t].used = TRUE]
             ELSE IF Reused(t) THEN Revoked(FamilyOf(t)) ELSE rows
  /\ alarm' = (alarm \/ Reused(t))

\* Mutant: the successor nobody received stays.
RestoredOnly(t) == [rows EXCEPT ![t].rotatedAt = Never]

\* recoverUndeliveredRotation.
Restored(t) == [Revoked(MintedSince(t)) EXCEPT ![t].rotatedAt = Never]

MarkFirstUse(t) ==
  /\ Current(t) /\ ~rows[t].used
  /\ rows' = [rows EXCEPT ![t].used = TRUE]
  /\ UNCHANGED alarm

\* What rotateSession does before it has a verdict.
Resolve(t) ==
  \/ MarkFirstUse(t)
  \/ Undelivered(t) /\ rows' = Restored(t) /\ UNCHANGED alarm

Resolved(t) == ~Undelivered(t) /\ (Current(t) => rows[t].used)

Due(t) == now - rows[t].issuedAt >= RotateAfter

Verdict(t) ==
  IF ~Served(t) THEN "invalid"
  ELSE IF Superseded(t) THEN "superseded"
  ELSE IF Due(t) THEN "rotated" ELSE "not_due"

\* The rest of rotateSession.
Rotate(t) ==
  /\ Resolved(t)
  /\ Verdict(t) = "rotated" => TokenLeft
  /\ rows' = CASE Verdict(t) = "rotated" ->
                    Append([rows EXCEPT ![t].rotatedAt = now], NewRow(rows[t].family))
               [] Reused(t) -> Revoked(FamilyOf(t))
               [] OTHER -> rows
  /\ alarm' = (alarm \/ Reused(t))

RotateIn(t) == IF Verdict(t) = "rotated" THEN RotateAfter ELSE rows[t].issuedAt + RotateAfter - now

\* revokeSessionFamily, and revokeAllSessions with keepCurrent, of the one account.
EndFamily(t) == rows' = (IF t \in DOMAIN rows THEN Revoked(FamilyOf(t)) ELSE rows) /\ UNCHANGED alarm
EndOthers(t) ==
  /\ Served(t) /\ Resolved(t)
  /\ rows' = Revoked(DOMAIN rows \ FamilyOf(t))
  /\ UNCHANGED alarm

\* One sign-in was made at 1, nothing was heard of it since, and its token is due for rotation.
BackendInit ==
  /\ now = RotateAfter + 1 /\ alarm = FALSE
  /\ rows = <<[family |-> 1, issuedAt |-> 1, rotatedAt |-> Never, revoked |-> FALSE, used |-> FALSE]>>

\* No token is retired before its rotation age.
BackendTypeOK ==
  /\ rows \in Seq(Row) /\ Len(rows) <= MaxTokens /\ alarm \in BOOLEAN
  /\ \A t \in DOMAIN rows :
       rows[t].rotatedAt # Never => rows[t].rotatedAt - rows[t].issuedAt >= RotateAfter

\* The token in force, the retired ones and the spent ones of each sign-in.
Lineage == INSTANCE SignInLineage WITH
  NoToken <- Never,
  head <- [f \in Token |-> IF \E t \in DOMAIN rows : Current(t) /\ rows[t].family = f
                           THEN CHOOSE t \in DOMAIN rows : Current(t) /\ rows[t].family = f
                           ELSE Never],
  past <- [f \in Token |-> {t \in DOMAIN rows : Retired(t) /\ rows[t].family = f}],
  seen <- DOMAIN rows,
  spent <- {t \in DOMAIN rows : rows[t].used}
=============================================================================
