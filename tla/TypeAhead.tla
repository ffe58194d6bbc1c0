------------------------------- MODULE TypeAhead -------------------------------
(***************************************************************************)
(* useDebouncedAsync (packages/ui/src/ui/hooks/useDebouncedAsync.ts): a    *)
(* lookup runs after a pause in typing, at most one timer is armed, and    *)
(* any number of earlier lookups may still be under way and answer in any  *)
(* order.  A request number decides whose answer may be shown; each run    *)
(* has an abort signal of its own, which the lookup may ignore.  Nobody    *)
(* calls run or reset of a component that is gone.                         *)
(***************************************************************************)
EXTENDS Naturals, FiniteSets

CONSTANT MaxRuns \* bound on calls of run and reset

VARIABLES
  state,      \* what the component sees: status, and the run it came from
  requestId,
  timer,      \* the run whose timer is armed, 0 for none
  controller, \* the run whose signal the hook can still abort, 0 for none
  underway,   \* runs whose lookup has not answered
  aborted,    \* runs whose signal was aborted
  mounted,
  wanted      \* history: the latest run, 0 after a reset or an unmount

vars == <<state, requestId, timer, controller, underway, aborted, mounted, wanted>>

Runs == 1..MaxRuns

Shown(status, run) == [status |-> status, run |-> run]

TypeOK ==
  /\ state \in [status : {"idle", "loading", "success", "error"}, run : 0..MaxRuns]
  /\ {requestId, timer, controller, wanted} \subseteq 0..(MaxRuns + 1)
  /\ underway \subseteq Runs /\ aborted \subseteq Runs
  /\ mounted \in BOOLEAN

Init ==
  /\ state = Shown("idle", 0)
  /\ requestId = 0 /\ timer = 0 /\ controller = 0 /\ wanted = 0
  /\ underway = {} /\ aborted = {}
  /\ mounted = TRUE

\* controllerRef.current?.abort(): no more than a mark for a run that is over.
Abort == aborted' = aborted \cup ({controller} \ {0})

run ==
  /\ mounted /\ requestId < MaxRuns
  /\ Abort
  /\ requestId' = requestId + 1
  /\ controller' = requestId'
  /\ timer' = requestId'
  /\ state' = Shown("loading", requestId')
  /\ wanted' = requestId'
  /\ UNCHANGED <<underway, mounted>>

reset ==
  /\ mounted /\ requestId < MaxRuns
  /\ Abort
  /\ requestId' = requestId + 1
  /\ controller' = 0
  /\ timer' = 0
  /\ state' = Shown("idle", 0)
  /\ wanted' = 0
  /\ UNCHANGED <<underway, mounted>>

\* The pause is over: the lookup starts.
Fire ==
  /\ timer # 0
  /\ underway' = underway \cup {timer}
  /\ timer' = 0
  /\ UNCHANGED <<state, requestId, controller, aborted, mounted, wanted>>

\* Mutant: whatever answers is shown.
AnyAnswer(id) == TRUE
Latest(id) == id = requestId

\* A lookup answers or fails, an aborted one too; only the latest is shown.
Settle ==
  \E id \in underway, status \in {"success", "error"} :
    /\ underway' = underway \ {id}
    /\ state' = IF Latest(id) THEN Shown(status, id) ELSE state
    /\ UNCHANGED <<requestId, timer, controller, aborted, mounted, wanted>>

Unmount ==
  /\ mounted
  /\ mounted' = FALSE
  /\ timer' = 0
  /\ Abort
  /\ requestId' = requestId + 1
  /\ wanted' = 0
  /\ UNCHANGED <<state, controller, underway>>

Next == run \/ reset \/ Fire \/ Settle \/ Unmount

Spec == Init /\ [][Next]_vars

--------------------------------------------------------------------------------
(* While the component is mounted it shows the latest run and no other:    *)
(* an answer is that run's, however many earlier lookups answer late, and  *)
(* loading means that run is still on its way.  Whatever else is under     *)
(* way, after the unmount everything, has been told to stop, and nothing   *)
(* is started that is not wanted (run, reset and the cleanup).             *)
ShowsLatest ==
  /\ mounted =>
       /\ state.run = wanted
       /\ state.status = "idle" <=> wanted = 0
       /\ state.status = "loading" <=> (wanted # 0 /\ wanted \in underway \cup {timer})
  /\ underway \ {wanted} \subseteq aborted
  /\ timer \in {0, wanted}
================================================================================
