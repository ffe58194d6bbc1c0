---------------------------- MODULE IngestLedger ----------------------------
(***************************************************************************)
(* What the client-log limiter promises, without saying how: two ledgers   *)
(* of admitted requests, one per client network and one for the whole app, *)
(* each an exact sliding window of requests with what each cost the sink.  *)
(* A request is entered only when both ledgers have room for it; its cost  *)
(* is entered later, and the batch is written exactly when no ledger it was*)
(* entered in is over its record allowance then.                           *)
(***************************************************************************)
EXTENDS Integers, FiniteSets, Functions

CONSTANTS Network, Shared, Window, Limit, SharedLimit, RecordLimit, SharedRecordLimit,
          Unit, Start

VARIABLES now,
          ledger,   \* per network and for Shared: the requests still in the window, each
                    \* with when it came and what it cost so far
          wrote     \* the last step wrote its batch

vars == <<now, ledger, wrote>>

Meter == Network \cup {Shared}
RequestsAllowed(m) == IF m = Shared THEN SharedLimit ELSE Limit
RecordsAllowed(m) == IF m = Shared THEN SharedRecordLimit ELSE RecordLimit
Cost(entries) == SumFunction([e \in entries |-> e.units])

Init == now = Start /\ ledger = [m \in Meter |-> {}] /\ wrote = FALSE

\* Time passes: what is a window old leaves both ledgers at the same instant.
Tick ==
  /\ now' = now + 1
  /\ ledger' = [m \in Meter |-> {e \in ledger[m] : e.at > now' - Window}]
  /\ wrote' = FALSE

\* A request of this instant that has cost nothing joins, told apart from the others.
Entered(before, after) ==
  \E e \in after : /\ after = before \cup {e} /\ e.at = now /\ e.units = 0
                   /\ \A other \in before : other.id # e.id

\* One request is entered in the ledgers of meters, which always include Shared.
Admit(meters) ==
  /\ \A m \in meters : Cardinality(ledger[m]) < RequestsAllowed(m)
  /\ DOMAIN ledger' = Meter
  /\ \A m \in Meter : IF m \in meters THEN Entered(ledger[m], ledger'[m])
                                       ELSE ledger'[m] = ledger[m]
  /\ wrote' = FALSE /\ UNCHANGED now

Charged(entries, e, n) == (entries \ {e}) \cup {[e EXCEPT !.units = @ + n]}

\* A batch of n units is charged to one entry of each ledger in meters; it is
\* written only if that keeps every one of them within its record allowance.
Charge(meters, n) ==
  /\ DOMAIN ledger' = Meter
  /\ \A m \in Meter : IF m \in meters
       THEN \E e \in ledger[m] : ledger'[m] = Charged(ledger[m], e, n)
       ELSE ledger'[m] = ledger[m]
  /\ wrote' = (\A m \in meters : Cost(ledger'[m]) <= RecordsAllowed(m))
  /\ UNCHANGED now

\* Any other answer: refused, rejected or abandoned, nothing is entered.
Answer == wrote' = FALSE /\ UNCHANGED <<now, ledger>>

Next ==
  \/ Answer
  \/ Tick
  \/ \E k \in Network \cup {Shared} : Admit({k, Shared})
  \/ \E meters \in SUBSET Meter, n \in Unit : Charge(meters, n)

Spec == Init /\ [][Next]_vars
=============================================================================
