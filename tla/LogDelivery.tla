----------------------------- MODULE LogDelivery -----------------------------
(***************************************************************************)
(* What a log sink promises of the records handed to it.  Each has one     *)
(* fate, which is final: the collector, the fallback, or dropped to make   *)
(* room, and then it was the oldest of a full queue.  One batch at a time  *)
(* leaves for the collector, in the order the records came.  Only when a   *)
(* request is given up while it is out may its records get there as well   *)
(* as to the fallback, and that happens once.                              *)
(***************************************************************************)
EXTENDS Integers, FiniteSets

CONSTANTS MaxRecords, QueueSize, BatchSize

VARIABLES fate,  \* per record, in the order they are handed over
          late,  \* the records of a request given up and still out
          twice  \* those of them the collector has too

vars == <<fate, late, twice>>

Record == 1..MaxRecords
Having(f) == {r \in Record : fate[r] = f}
Moved(records, to) == [r \in Record |-> IF r \in records THEN to ELSE fate[r]]

\* Two of the sets that the rules are about.
Out == Having("sending") \cup late
Collected == Having("remote") \cup twice

Init == fate = [r \in Record |-> "unborn"] /\ late = {} /\ twice = {}

\* A record is handed over: it waits, is sent or is written at once.  In a full queue it
\* takes the place of the oldest.
Emit(r) ==
  /\ fate[r] = "unborn" /\ \A s \in Record : s < r => fate[s] # "unborn"
  /\ LET waiting == Having("waiting") IN
     \/ Cardinality(waiting) < QueueSize /\ fate' = Moved({r}, "waiting")
     \/ waiting \cup Out = {} /\ fate' = Moved({r}, "sending")
     \/ fate' = Moved({r}, "local")
     \/ \E old \in waiting :
          /\ Cardinality(waiting) = QueueSize /\ \A s \in waiting : old <= s
          /\ fate' = [Moved({r}, "waiting") EXCEPT ![old] = "dropped"]
  /\ UNCHANGED <<late, twice>>

\* The oldest that wait are sent, while nothing else is out.
Take(records) ==
  /\ records # {} /\ Cardinality(records) <= BatchSize /\ Out = {}
  /\ \A r \in records, s \in Having("waiting") \ records : r < s
  /\ fate' = Moved(records, "sending")
  /\ UNCHANGED <<late, twice>>

\* The collector acknowledges a batch, and has nothing newer.
Acknowledge ==
  /\ Having("sending") # {}
  /\ \A r \in Having("sending"), s \in Collected : s < r
  /\ fate' = Moved(Having("sending"), "remote")
  /\ UNCHANGED <<late, twice>>

\* The batch is for the fallback: its attempts are over, or its request is given up.
GiveUp ==
  /\ Having("sending") # {}
  /\ fate' = Moved(Having("sending"), "leaving")
  /\ \/ late' = late
     \/ late = {} /\ twice = {} /\ late' = Having("sending")
  /\ UNCHANGED twice

\* A request given up ends, and may have got there.
LateAnswer ==
  /\ late # {} /\ late' = {}
  /\ \/ twice' = twice
     \/ twice' = late /\ \A r \in late, s \in Collected : s < r
  /\ UNCHANGED fate

\* The fallback takes records, and those that wait may be put down for it.
Write(records) ==
  /\ \E next \in {{}, Having("waiting")} :
       fate' = [r \in Record |-> IF r \in records THEN "local" ELSE Moved(next, "leaving")[r]]
  /\ UNCHANGED <<late, twice>>

Next ==
  \/ \E r \in Record : Emit(r)
  \/ \E records \in SUBSET Having("waiting") : Take(records)
  \/ Acknowledge \/ GiveUp \/ LateAnswer
  \/ \E records \in SUBSET Having("leaving") : Write(records)

Spec == Init /\ [][Next]_vars
=============================================================================
