---------------------------- MODULE AccountBook ----------------------------
(***************************************************************************)
(* What accounts promise their owners, without hashes or statements: one   *)
(* live account per email, and a sign-in decided at one instant by the     *)
(* password the account has then.                                          *)
(***************************************************************************)
CONSTANTS Visitor, Email, Password

VARIABLES book,  \* the live accounts: email and password
          desk   \* what each visitor asked and was told

Entry == [email : Email, pw : Password]
Nobody == [said |-> "nothing"]

Open(e) == (\A x \in book : x.email # e.email) /\ book' = book \cup {e}
Close(e) == book' = book \ {e}
Change(e, p) == book' = (book \ {e}) \cup {[e EXCEPT !.pw = p]}

Ask(v, e) == desk[v] = Nobody /\ desk' = [desk EXCEPT ![v] = [said |-> "asked", entry |-> e]]
Decide(v) ==
  /\ desk[v].said = "asked"
  /\ desk' = [desk EXCEPT ![v].said = IF desk[v].entry \in book THEN "yes" ELSE "no"]
Leave(v) == desk' = [desk EXCEPT ![v] = Nobody]

Init == book = {} /\ desk = [v \in Visitor |-> Nobody]
Next ==
  \/ /\ UNCHANGED desk
     /\ \/ \E e \in Entry : Open(e)
        \/ \E e \in book : Close(e) \/ \E p \in Password : Change(e, p)
  \/ /\ UNCHANGED book
     /\ \E v \in Visitor : Decide(v) \/ Leave(v) \/ \E e \in Entry : Ask(v, e)

Spec == Init /\ [][Next]_<<book, desk>>
=============================================================================
