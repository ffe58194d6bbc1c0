--------------------------- MODULE SignInLineage ---------------------------
(***************************************************************************)
(* What the session service promises of a sign-in, without a database: at  *)
(* any moment at most one token stands for it.  A rotation replaces that   *)
(* token by a new one once it was spent; a lost rotation is undone by      *)
(* going back to a token the sign-in held before, which discards a token   *)
(* nobody spent; ending a sign-in discards tokens, and a discarded token   *)
(* never comes back.  A sign-in with no token left is over for good.       *)
(***************************************************************************)
EXTENDS FiniteSets

CONSTANTS Token, NoToken

VARIABLES head,  \* per sign-in (named by its first token), the token in force
          past,  \* per sign-in, replaced tokens that are still remembered
          seen,  \* tokens ever handed out
          spent  \* tokens presented at least once

vars == <<head, past, seen, spent>>

Init ==
  /\ head = [f \in Token |-> NoToken]
  /\ past = [f \in Token |-> {}]
  /\ seen = {} /\ spent = {}

Begin(f) ==
  /\ f \in Token \ seen
  /\ head' = [head EXCEPT ![f] = f]
  /\ seen' = seen \cup {f}
  /\ UNCHANGED <<past, spent>>

Spend(t) ==
  /\ t \in seen
  /\ spent' = spent \cup {t}
  /\ UNCHANGED <<head, past, seen>>

Advance(f, u) ==
  /\ head[f] \in spent /\ u \in Token \ seen
  /\ head' = [head EXCEPT ![f] = u]
  /\ past' = [past EXCEPT ![f] = @ \cup {head[f]}]
  /\ seen' = seen \cup {u}
  /\ UNCHANGED spent

GoBack(f, t) ==
  /\ t \in past[f] /\ head[f] \notin spent
  /\ head' = [head EXCEPT ![f] = t]
  /\ past' = [past EXCEPT ![f] = @ \ {t}]
  /\ UNCHANGED <<seen, spent>>

\* Sign-out, alarm, account-wide revocation, pruning: tokens of any sign-ins go.
Discard ==
  /\ head' \in [Token -> Token \cup {NoToken}]
  /\ \A f \in Token : head'[f] \in {head[f], NoToken}
  /\ past' \in [Token -> SUBSET Token]
  /\ \A f \in Token : past'[f] \subseteq past[f]
  /\ spent' \subseteq spent
  /\ UNCHANGED seen

Next ==
  \/ \E f \in Token : Begin(f) \/ Spend(f)
  \/ \E f, t \in Token : Advance(f, t) \/ GoBack(f, t)
  \/ Discard

Spec == Init /\ [][Next]_vars
============================================================================
