------------------------------ MODULE PartsProofs ------------------------------
(***************************************************************************)
(* The parts that share nothing, for every bound: the accounting of        *)
(* useAppForm, the answers useDebouncedAsync shows, the settings an        *)
(* application runs on, the files useFileUpload adds and the sweeps of the *)
(* session pruner, each by an inductive invariant of its own.              *)
(***************************************************************************)
EXTENDS MCParts, FoldFacts

(* useAppForm *)

Types ==
  /\ hasOnSubmit \in BOOLEAN
  /\ store \in [attempts : Nat, submitting : BOOLEAN, successful : BOOLEAN]
  /\ fieldErrors \in BOOLEAN /\ serverErrors \in BOOLEAN
  /\ rendered \in BOOLEAN /\ inFlight \in BOOLEAN
  /\ phase \in {"idle", "validating", "sending", "callback"}
  /\ failCount \in Nat /\ lastCounted \in Nat /\ streak \in Nat /\ thrown \in Nat
  /\ outcome \in {"none", "good", "bad", "threw"}

\* The flags tell where the pipeline stands.
FlagsFit ==
  /\ store.submitting <=> phase # "idle"
  /\ inFlight <=> phase \in {"sending", "callback"}

\* At most one attempt is unaccounted for: the one under way, or the one the next
\* effect is going to see.
OneOpen ==
  /\ lastCounted <= store.attempts /\ store.attempts <= lastCounted + 1
  /\ phase \in {"validating", "sending"} => Form!New
  /\ phase = "callback" \/ (phase = "idle" /\ rendered) => ~Form!New

\* What the outcome says of the store.
OutcomeFits ==
  /\ phase \in {"validating", "sending"} => outcome = "none"
  /\ phase = "callback" => outcome \in {"good", "bad"}
  /\ outcome \in {"none", "threw"} => ~store.successful
  /\ outcome = "bad" => streak >= 1
  /\ outcome = "good" => streak = 0 /\ thrown = 0 /\ (phase = "idle" => store.successful)
  /\ phase = "validating" => Form!isValid

\* An attempt that has ended and not been seen by the effect shows in the store
\* what the effect is going to make of it.
Unseen ==
  /\ outcome \in {"bad", "good", "threw"}
  /\ outcome = "bad" => ~Form!isValid /\ streak <= failCount + 1 /\ failCount + 1 <= streak + thrown
  /\ outcome = "good" => Form!isValid
  /\ outcome = "threw" => streak <= failCount /\ failCount + 1 <= streak + thrown

Balanced ==
  /\ phase = "idle" /\ Form!New => Unseen
  /\ ~(phase = "idle" /\ Form!New) => streak <= failCount /\ failCount <= streak + thrown

\* An attempt is counted once in each count, when it ends.
AttemptsCounted ==
  /\ store.attempts <= MaxAttempts /\ failCount <= lastCounted
  /\ streak <= store.attempts /\ thrown <= store.attempts
  /\ phase \in {"validating", "sending"} => streak < store.attempts
  /\ phase # "idle" => thrown < store.attempts

FormInv == AttemptsCounted /\ Types /\ FlagsFit /\ OneOpen /\ OutcomeFits /\ Balanced

--------------------------------------------------------------------------------
LEMMA FormInit == ASSUME Form!Init PROVE FormInv
<1> USE BoundsFit DEF BoundsFit, AttemptsCounted, Form!Init, Form!New, Form!isValid
<1>1. Types  BY DEF Types
<1>2. FlagsFit  BY DEF FlagsFit
<1>3. OneOpen  BY DEF OneOpen
<1>4. OutcomeFits  BY DEF OutcomeFits
<1>5. Balanced  BY DEF Balanced
<1>6. AttemptsCounted  OBVIOUS
<1> QED  BY <1>1, <1>2, <1>3, <1>4, <1>5, <1>6 DEF FormInv

\* Every event of the user and every step of the pipeline.
LEMMA PipelineStep ==
  ASSUME FormInv,
         \/ Form!Submit \/ Form!Edit \/ Form!Refused \/ Form!SettleAlone \/ Form!Send
         \/ Form!AnswerError \/ Form!AnswerOK \/ Form!Throw \/ Form!Resolve
  PROVE  FormInv'
<1> USE BoundsFit DEF BoundsFit, AttemptsCounted, FormInv, Types, FlagsFit, OneOpen, OutcomeFits, Balanced, Unseen, Form!New, Form!isValid
<1>1. CASE Form!Submit
  <2>1. Types'
    <3>1. streak' \in Nat /\ thrown' \in Nat /\ failCount' \in Nat /\ lastCounted' \in Nat
      BY <1>1 DEF Form!Submit, Form!Fails
    <3>2. store' \in [attempts : Nat, submitting : BOOLEAN, successful : BOOLEAN]
      BY <1>1 DEF Form!Submit, Form!Fails
    <3>3. hasOnSubmit' \in BOOLEAN /\ fieldErrors' \in BOOLEAN /\ serverErrors' \in BOOLEAN
          /\ rendered' \in BOOLEAN /\ inFlight' \in BOOLEAN
      BY <1>1 DEF Form!Submit, Form!Fails
    <3>4. phase' \in {"idle", "validating", "sending", "callback"} /\ outcome' \in {"none", "good", "bad", "threw"}
      BY <1>1 DEF Form!Submit, Form!Fails
    <3> QED  BY <3>1, <3>2, <3>3, <3>4
  <2>2. FlagsFit'  BY <1>1 DEF Form!Submit, Form!Fails
  <2>3. OneOpen'  BY <1>1 DEF Form!Submit, Form!Fails
  <2>4. OutcomeFits'  BY <1>1 DEF Form!Submit, Form!Fails
  <2>5. Balanced'  BY <1>1 DEF Form!Submit, Form!Fails
  <2>6. AttemptsCounted'  BY <1>1 DEF Form!Submit, Form!Fails
  <2> QED  BY <2>1, <2>2, <2>3, <2>4, <2>5, <2>6
<1>2. CASE Form!Edit
  <2>1. Types'  BY <1>2 DEF Form!Edit
  <2>2. FlagsFit'  BY <1>2 DEF Form!Edit
  <2>3. OneOpen'  BY <1>2 DEF Form!Edit
  <2>4. OutcomeFits'  BY <1>2 DEF Form!Edit
  <2>5. Balanced'  BY <1>2 DEF Form!Edit
  <2>6. AttemptsCounted'  BY <1>2 DEF Form!Edit
  <2> QED  BY <2>1, <2>2, <2>3, <2>4, <2>5, <2>6
<1>3. CASE Form!Refused
  <2>1. Types'
    <3>1. streak' \in Nat /\ thrown' \in Nat /\ failCount' \in Nat /\ lastCounted' \in Nat
      BY <1>3 DEF Form!Refused, Form!Fails
    <3>2. store' \in [attempts : Nat, submitting : BOOLEAN, successful : BOOLEAN]
      BY <1>3 DEF Form!Refused, Form!Fails
    <3>3. hasOnSubmit' \in BOOLEAN /\ fieldErrors' \in BOOLEAN /\ serverErrors' \in BOOLEAN
          /\ rendered' \in BOOLEAN /\ inFlight' \in BOOLEAN
      BY <1>3 DEF Form!Refused, Form!Fails
    <3>4. phase' \in {"idle", "validating", "sending", "callback"} /\ outcome' \in {"none", "good", "bad", "threw"}
      BY <1>3 DEF Form!Refused, Form!Fails
    <3> QED  BY <3>1, <3>2, <3>3, <3>4
  <2>2. FlagsFit'  BY <1>3 DEF Form!Refused, Form!Fails
  <2>3. OneOpen'  BY <1>3 DEF Form!Refused, Form!Fails
  <2>4. OutcomeFits'  BY <1>3 DEF Form!Refused, Form!Fails
  <2>5. Balanced'  BY <1>3 DEF Form!Refused, Form!Fails
  <2>6. AttemptsCounted'  BY <1>3 DEF Form!Refused, Form!Fails
  <2> QED  BY <2>1, <2>2, <2>3, <2>4, <2>5, <2>6
<1>4. CASE Form!SettleAlone
  <2>1. Types'  BY <1>4 DEF Form!SettleAlone, Form!Succeeds
  <2>2. FlagsFit'  BY <1>4 DEF Form!SettleAlone, Form!Succeeds
  <2>3. OneOpen'  BY <1>4 DEF Form!SettleAlone, Form!Succeeds
  <2>4. OutcomeFits'  BY <1>4 DEF Form!SettleAlone, Form!Succeeds
  <2>5. Balanced'  BY <1>4 DEF Form!SettleAlone, Form!Succeeds
  <2>6. AttemptsCounted'  BY <1>4 DEF Form!SettleAlone, Form!Succeeds
  <2> QED  BY <2>1, <2>2, <2>3, <2>4, <2>5, <2>6
<1>5. CASE Form!Send
  <2>1. Types'  BY <1>5 DEF Form!Send
  <2>2. FlagsFit'  BY <1>5 DEF Form!Send
  <2>3. OneOpen'  BY <1>5 DEF Form!Send
  <2>4. OutcomeFits'  BY <1>5 DEF Form!Send
  <2>5. Balanced'  BY <1>5 DEF Form!Send
  <2>6. AttemptsCounted'  BY <1>5 DEF Form!Send
  <2> QED  BY <2>1, <2>2, <2>3, <2>4, <2>5, <2>6
<1>6. CASE Form!AnswerError
  <2>1. Types'
    <3>1. streak' \in Nat /\ thrown' \in Nat /\ failCount' \in Nat /\ lastCounted' \in Nat
      BY <1>6 DEF Form!AnswerError, Form!Fails
    <3>2. store' \in [attempts : Nat, submitting : BOOLEAN, successful : BOOLEAN]
      BY <1>6 DEF Form!AnswerError, Form!Fails
    <3>3. hasOnSubmit' \in BOOLEAN /\ fieldErrors' \in BOOLEAN /\ serverErrors' \in BOOLEAN
          /\ rendered' \in BOOLEAN /\ inFlight' \in BOOLEAN
      BY <1>6 DEF Form!AnswerError, Form!Fails
    <3>4. phase' \in {"idle", "validating", "sending", "callback"} /\ outcome' \in {"none", "good", "bad", "threw"}
      BY <1>6 DEF Form!AnswerError, Form!Fails
    <3> QED  BY <3>1, <3>2, <3>3, <3>4
  <2>2. FlagsFit'  BY <1>6 DEF Form!AnswerError, Form!Fails
  <2>3. OneOpen'  BY <1>6 DEF Form!AnswerError, Form!Fails
  <2>4. OutcomeFits'  BY <1>6 DEF Form!AnswerError, Form!Fails
  <2>5. Balanced'  BY <1>6 DEF Form!AnswerError, Form!Fails
  <2>6. AttemptsCounted'  BY <1>6 DEF Form!AnswerError, Form!Fails
  <2> QED  BY <2>1, <2>2, <2>3, <2>4, <2>5, <2>6
<1>7. CASE Form!AnswerOK
  <2>1. Types'  BY <1>7 DEF Form!AnswerOK, Form!Succeeds
  <2>2. FlagsFit'  BY <1>7 DEF Form!AnswerOK, Form!Succeeds
  <2>3. OneOpen'  BY <1>7 DEF Form!AnswerOK, Form!Succeeds
  <2>4. OutcomeFits'  BY <1>7 DEF Form!AnswerOK, Form!Succeeds
  <2>5. Balanced'  BY <1>7 DEF Form!AnswerOK, Form!Succeeds
  <2>6. AttemptsCounted'  BY <1>7 DEF Form!AnswerOK, Form!Succeeds
  <2> QED  BY <2>1, <2>2, <2>3, <2>4, <2>5, <2>6
<1>8. CASE Form!Throw
  <2>1. Types'
    <3>1. streak' \in Nat /\ thrown' \in Nat /\ failCount' \in Nat /\ lastCounted' \in Nat
      BY <1>8 DEF Form!Throw
    <3>2. store' \in [attempts : Nat, submitting : BOOLEAN, successful : BOOLEAN]
      BY <1>8 DEF Form!Throw
    <3>3. hasOnSubmit' \in BOOLEAN /\ fieldErrors' \in BOOLEAN /\ serverErrors' \in BOOLEAN
          /\ rendered' \in BOOLEAN /\ inFlight' \in BOOLEAN
      BY <1>8 DEF Form!Throw
    <3>4. phase' \in {"idle", "validating", "sending", "callback"} /\ outcome' \in {"none", "good", "bad", "threw"}
      BY <1>8 DEF Form!Throw
    <3> QED  BY <3>1, <3>2, <3>3, <3>4
  <2>2. FlagsFit'  BY <1>8 DEF Form!Throw
  <2>3. OneOpen'  BY <1>8 DEF Form!Throw
  <2>4. OutcomeFits'  BY <1>8 DEF Form!Throw
  <2>5. Balanced'  BY <1>8 DEF Form!Throw
  <2>6. AttemptsCounted'  BY <1>8 DEF Form!Throw
  <2> QED  BY <2>1, <2>2, <2>3, <2>4, <2>5, <2>6
<1>9. CASE Form!Resolve
  <2>1. Types'  BY <1>9 DEF Form!Resolve
  <2>2. FlagsFit'  BY <1>9 DEF Form!Resolve
  <2>3. OneOpen'  BY <1>9 DEF Form!Resolve
  <2>4. OutcomeFits'  BY <1>9 DEF Form!Resolve
  <2>5. Balanced'  BY <1>9 DEF Form!Resolve
  <2>6. AttemptsCounted'  BY <1>9 DEF Form!Resolve
  <2> QED  BY <2>1, <2>2, <2>3, <2>4, <2>5, <2>6
<1> QED
  BY <1>1, <1>2, <1>3, <1>4, <1>5, <1>6, <1>7, <1>8, <1>9

\* The effect accounts for an attempt that has ended, and for no other.
LEMMA EffectStep == ASSUME FormInv, Form!Effect PROVE FormInv'
<1> USE BoundsFit DEF BoundsFit, AttemptsCounted, FormInv, Types, FlagsFit, OneOpen, OutcomeFits, Balanced, Unseen, Form!New, Form!isValid
<1>1. CASE Form!CountsHere
  <2>1. Types'  BY <1>1 DEF Form!Effect, Form!CountsHere
  <2>2. FlagsFit'  BY <1>1 DEF Form!Effect, Form!CountsHere
  <2>3. OneOpen'  BY <1>1 DEF Form!Effect, Form!CountsHere
  <2>4. OutcomeFits'  BY <1>1 DEF Form!Effect, Form!CountsHere
  <2>5. Balanced'
    <3>1. phase = "idle" /\ Unseen /\ outcome \in {"bad", "threw"}
      BY <1>1 DEF Form!CountsHere
    <3>2. streak <= failCount + 1 /\ failCount + 1 <= streak + thrown
      BY <3>1
    <3>3. failCount' = failCount + 1 /\ lastCounted' = store.attempts
      BY <1>1 DEF Form!Effect, Form!CountsHere, Form!SettledValid
    <3>4. store' = store /\ streak' = streak /\ thrown' = thrown
      BY DEF Form!Effect
    <3>5. ~Form!New'
      BY <3>3, <3>4
    <3> QED  BY <3>2, <3>3, <3>4, <3>5
  <2>6. AttemptsCounted'
    BY <1>1 DEF Form!Effect, Form!CountsHere, Form!SettledValid
  <2> QED  BY <2>1, <2>2, <2>3, <2>4, <2>5, <2>6
<1>2. CASE Form!SettledValid
  <2>1. Types'  BY <1>2 DEF Form!Effect, Form!CountsHere, Form!SettledValid
  <2>2. FlagsFit'  BY <1>2 DEF Form!Effect, Form!CountsHere, Form!SettledValid
  <2>3. OneOpen'  BY <1>2 DEF Form!Effect, Form!CountsHere, Form!SettledValid
  <2>4. OutcomeFits'  BY <1>2 DEF Form!Effect, Form!CountsHere, Form!SettledValid
  <2>5. Balanced'  BY <1>2 DEF Form!Effect, Form!CountsHere, Form!SettledValid
  <2>6. AttemptsCounted'  BY <1>2 DEF Form!Effect, Form!CountsHere, Form!SettledValid
  <2> QED  BY <2>1, <2>2, <2>3, <2>4, <2>5, <2>6
<1>3. CASE ~Form!CountsHere /\ ~Form!SettledValid
  <2>1. Types'  BY <1>3 DEF Form!Effect, Form!CountsHere, Form!SettledValid
  <2>2. FlagsFit'  BY <1>3 DEF Form!Effect, Form!CountsHere, Form!SettledValid
  <2>3. OneOpen'  BY <1>3 DEF Form!Effect, Form!CountsHere, Form!SettledValid
  <2>4. OutcomeFits'  BY <1>3 DEF Form!Effect, Form!CountsHere, Form!SettledValid
  <2>5. Balanced'  BY <1>3 DEF Form!Effect, Form!CountsHere, Form!SettledValid
  <2>6. AttemptsCounted'  BY <1>3 DEF Form!Effect, Form!CountsHere, Form!SettledValid
  <2> QED  BY <2>1, <2>2, <2>3, <2>4, <2>5, <2>6
<1> QED
  BY <1>1, <1>2, <1>3

--------------------------------------------------------------------------------
(* useDebouncedAsync *)

\* Request numbers: the run wanted is the latest one, everything started is no
\* younger, and what is given up will never carry the latest number again.
Numbered ==
  /\ mounted => requestId \in 0..MaxRuns
  /\ ~mounted => wanted = 0
  /\ wanted \in {0, requestId}
  /\ underway \subseteq 1..requestId
  /\ wanted = 0 => requestId \notin underway

\* A timer is armed for the run wanted, before its lookup starts.
Armed == timer \in {0, wanted} /\ (timer # 0 => timer \notin underway)

\* The hook can still abort the run it wants.
Abortable ==
  /\ mounted => controller \in {0, requestId}
  /\ mounted /\ wanted # 0 => controller = wanted

LookupInv == Lookup!TypeOK /\ Numbered /\ Armed /\ Abortable /\ Lookup!ShowsLatest

--------------------------------------------------------------------------------
LEMMA LookupInit == ASSUME Lookup!Init PROVE LookupInv
BY BoundsFit DEF BoundsFit, Lookup!Init, LookupInv, Lookup!TypeOK, Numbered, Armed, Abortable, Lookup!ShowsLatest, Lookup!Shown, Lookup!Runs

\* What a mounted component gives up is told to stop: the run it wanted is the one
\* the hook can abort.
LEMMA AbortsAll ==
  ASSUME LookupInv, mounted, Lookup!Abort
  PROVE  aborted' \subseteq Lookup!Runs /\ underway \subseteq aborted'
<1>1. ({controller} \ {0}) \subseteq Lookup!Runs
  BY DEF LookupInv, Abortable, Numbered, Lookup!Runs
<1>2. ASSUME NEW id \in underway PROVE id \in aborted'
  <2>1. CASE id = wanted
    BY <2>1 DEF LookupInv, Numbered, Abortable, Lookup!Abort
  <2>2. CASE id # wanted
    BY <2>2 DEF LookupInv, Lookup!ShowsLatest, Lookup!Abort
  <2> QED
    BY <2>1, <2>2
<1>3. aborted' \subseteq Lookup!Runs
  BY <1>1 DEF LookupInv, Lookup!TypeOK, Lookup!Abort
<1> QED
  BY <1>2, <1>3

\* run and reset draw a new number, which no lookup under way carries, and abort
\* the run they supersede.
LEMMA RunStep == ASSUME LookupInv, Lookup!run PROVE LookupInv'
<1> USE BoundsFit DEF BoundsFit, LookupInv
<1>1. requestId \in 0..MaxRuns /\ requestId' = requestId + 1 /\ requestId' \in 1..MaxRuns
      /\ requestId' \notin underway /\ mounted /\ mounted'
  BY DEF Lookup!run, Numbered, Lookup!TypeOK
<1>2. Lookup!TypeOK'
  BY <1>1, AbortsAll DEF Lookup!run, Lookup!TypeOK, Lookup!Shown
<1>3. Numbered' /\ Armed' /\ Abortable'
  BY <1>1 DEF Lookup!run, Lookup!TypeOK, Numbered, Armed, Abortable
<1>4. underway' \ {wanted'} \subseteq aborted'
  BY AbortsAll DEF Lookup!run
<1> QED
  BY <1>1, <1>2, <1>3, <1>4 DEF Lookup!run, Lookup!ShowsLatest, Lookup!Shown

LEMMA ResetStep == ASSUME LookupInv, Lookup!reset PROVE LookupInv'
<1> USE BoundsFit DEF BoundsFit, LookupInv
<1>1. requestId \in 0..MaxRuns /\ requestId' = requestId + 1 /\ requestId' \in 1..MaxRuns
      /\ requestId' \notin underway /\ mounted /\ mounted'
  BY DEF Lookup!reset, Numbered, Lookup!TypeOK
<1>2. Lookup!TypeOK'
  BY <1>1, AbortsAll DEF Lookup!reset, Lookup!TypeOK, Lookup!Shown
<1>3. Numbered' /\ Armed' /\ Abortable'
  BY <1>1 DEF Lookup!reset, Lookup!TypeOK, Numbered, Armed, Abortable
<1>4. underway' \ {wanted'} \subseteq aborted'
  BY AbortsAll DEF Lookup!reset
<1> QED
  BY <1>1, <1>2, <1>3, <1>4 DEF Lookup!reset, Lookup!ShowsLatest, Lookup!Shown

\* Only the timer of the run wanted can go off, on a mounted component.
LEMMA FireStep == ASSUME LookupInv, Lookup!Fire PROVE LookupInv'
<1> USE BoundsFit DEF BoundsFit, LookupInv
<1>1. timer = wanted /\ wanted = requestId /\ mounted /\ timer \in 1..MaxRuns
  BY DEF Lookup!Fire, Armed, Numbered, Lookup!TypeOK
<1>2. Lookup!TypeOK' /\ Numbered' /\ Armed' /\ Abortable'
  BY <1>1 DEF Lookup!Fire, Lookup!TypeOK, Numbered, Armed, Abortable, Lookup!Runs
<1> QED
  BY <1>1, <1>2 DEF Lookup!Fire, Lookup!ShowsLatest

\* An answer is shown only if its run is the one wanted.
LEMMA SettleStep == ASSUME LookupInv, Lookup!Settle PROVE LookupInv'
<1> USE BoundsFit DEF BoundsFit, LookupInv
<1>1. PICK id \in underway, status \in {"success", "error"} :
        /\ underway' = underway \ {id}
        /\ state' = IF Lookup!Latest(id) THEN Lookup!Shown(status, id) ELSE state
        /\ UNCHANGED <<requestId, timer, controller, aborted, mounted, wanted>>
  BY DEF Lookup!Settle
<1>2. Lookup!Latest(id) => wanted = id /\ mounted /\ wanted # 0 /\ timer # wanted
  BY DEF Lookup!Latest, Numbered, Armed, Lookup!TypeOK, Lookup!Runs
<1>3. id \in 1..MaxRuns
  BY DEF Lookup!TypeOK, Lookup!Runs
<1>4. ~Lookup!Latest(id) => id # wanted \/ wanted = 0
  BY DEF Lookup!Latest, Numbered
<1>5. Lookup!TypeOK'
  BY <1>1, <1>3 DEF Lookup!TypeOK, Lookup!Shown, Lookup!Runs
<1>6. Numbered' /\ Armed' /\ Abortable'
  BY <1>1 DEF Numbered, Armed, Abortable
<1> QED
  BY <1>1, <1>2, <1>3, <1>4, <1>5, <1>6 DEF Lookup!ShowsLatest, Lookup!Shown

\* The cleanup takes the number on, so that nothing is shown any more.
LEMMA UnmountStep == ASSUME LookupInv, Lookup!Unmount PROVE LookupInv'
<1> USE BoundsFit DEF BoundsFit, LookupInv
<1>1. requestId \in 0..MaxRuns /\ requestId' = requestId + 1 /\ requestId' \notin underway
  BY DEF Lookup!Unmount, Numbered, Lookup!TypeOK
<1>2. Lookup!TypeOK'
  <2>1. aborted' \subseteq Lookup!Runs
    BY AbortsAll DEF Lookup!Unmount
  <2>2. requestId' \in 0..(MaxRuns + 1) /\ 0 \in 0..(MaxRuns + 1)
    BY <1>1
  <2> QED
    BY <2>1, <2>2 DEF Lookup!Unmount, Lookup!TypeOK
<1>3. Numbered' /\ Armed' /\ Abortable'
  BY <1>1 DEF Lookup!Unmount, Lookup!TypeOK, Numbered, Armed, Abortable
<1>4. underway' \ {wanted'} \subseteq aborted'
  BY <1>1 DEF Lookup!Unmount, Lookup!ShowsLatest, Lookup!Abort, Abortable
<1> QED
  BY <1>2, <1>3, <1>4 DEF Lookup!Unmount, Lookup!ShowsLatest

--------------------------------------------------------------------------------
(* The parts side by side: only the one `part' names moves. *)

LEMMA FormMoves == ASSUME FormInv, Form!Next \/ UNCHANGED formVars PROVE FormInv'
<1>1. CASE Form!Effect
  BY <1>1, EffectStep
<1>2. CASE UNCHANGED formVars
  BY <1>2 DEF formVars, FormInv, AttemptsCounted, Types, FlagsFit, OneOpen, OutcomeFits,
              Balanced, Unseen, Form!New, Form!isValid
<1> QED
  BY <1>1, <1>2, PipelineStep DEF Form!Next

LEMMA LookupMoves == ASSUME LookupInv, Lookup!Next \/ UNCHANGED lookupVars PROVE LookupInv'
<1>1. CASE UNCHANGED lookupVars
  BY <1>1 DEF lookupVars, LookupInv, Lookup!TypeOK, Numbered, Armed, Abortable,
              Lookup!ShowsLatest
<1> QED
  BY <1>1, RunStep, ResetStep, FireStep, SettleStep, UnmountStep DEF Lookup!Next

\* Whenever a form is at rest, its count of failures is the number of attempts
\* that failed since the last success, whoever counted them, and it reports
\* success exactly when its latest attempt succeeded (wrappedOnSubmit, the effect
\* and submitSuccess of useAppForm).
THEOREM EachFailureOnce == Spec => []CountedOnce
<1>1. Init => FormInv
  BY FormInit DEF Init
<1>2. FormInv /\ [Next]_vars => FormInv'
  BY FormMoves DEF Next, vars
<1>3. FormInv => CountedOnce
  <2> SUFFICES ASSUME FormInv PROVE CountedOnce
    OBVIOUS
  <2>1. /\ failCount \in 0..MaxAttempts /\ lastCounted \in 0..MaxAttempts
        /\ streak \in 0..MaxAttempts /\ thrown \in 0..MaxAttempts
        /\ store \in [attempts : 0..MaxAttempts, submitting : BOOLEAN, successful : BOOLEAN]
    BY BoundsFit DEF BoundsFit, FormInv, AttemptsCounted, Types, OneOpen
  <2>2. Form!TypeOK
    BY <2>1 DEF FormInv, Types, Form!TypeOK
  <2>3. Form!CountedOnce
    <3> SUFFICES ASSUME phase = "idle", rendered
                 PROVE  /\ failCount \in streak..(streak + thrown)
                        /\ Form!submitSuccess <=> outcome = "good"
      BY DEF Form!CountedOnce
    <3>1. ~Form!New
      BY DEF FormInv, OneOpen
    <3>2. streak <= failCount /\ failCount <= streak + thrown
      BY <3>1 DEF FormInv, Balanced
    <3> QED
      BY <3>2, <2>1 DEF FormInv, Types, FlagsFit, OutcomeFits, Form!submitSuccess
  <2> QED
    BY <2>2, <2>3 DEF CountedOnce
<1> QED
  BY <1>1, <1>2, <1>3, PTL DEF Spec

\* A mounted component shows the run it asked for last and no other, however many
\* earlier lookups answer late, and every lookup it no longer wants has been told
\* to stop (run, reset and the cleanup of useDebouncedAsync).
THEOREM LatestShown == Spec => []ShowsLatest
<1>1. Init => LookupInv
  BY LookupInit DEF Init
<1>2. LookupInv /\ [Next]_vars => LookupInv'
  BY LookupMoves DEF Next, vars
<1>3. LookupInv => ShowsLatest
  BY DEF LookupInv, ShowsLatest
<1> QED
  BY <1>1, <1>2, <1>3, PTL DEF Spec

--------------------------------------------------------------------------------
(* The environment schemas *)

\* The secret both applications read is one of those an operator writes, a
\* secret left out has no length, and a depth of proxies is not negative.
Readable(f) ==
  /\ f.BACKEND_API_SECRET.is \in {"absent", "dev", "text"}
  /\ f.BACKEND_API_SECRET.is = "absent" => f.BACKEND_API_SECRET.n = 0
  /\ f.TRUST_PROXY.is = "digits" => f.TRUST_PROXY.n \in Nat

UpBackend(f) ==
  [up |-> TRUE, mode |-> f.NODE_ENV.is, set |-> Boot!BackendEnv(f),
   unlimited |-> Boot!LimitingDisabled(f)]
UpFrontend(f) == [up |-> TRUE, mode |-> f.NODE_ENV.is, set |-> Boot!FrontendEnv(f)]

\* What is up runs on the file as it stands, and the schema took that file.
BootInv ==
  /\ file = [k \in Boot!Variables |-> file[k]] /\ Readable(file)
  /\ env = [backend |-> env.backend, frontend |-> env.frontend]
  /\ env.backend = Boot!Down \/ (env.backend = UpBackend(file) /\ Boot!BackendAccepts(file))
  /\ env.frontend = Boot!Down \/ (env.frontend = UpFrontend(file) /\ Boot!FrontendAccepts(file))

\* The variables the argument looks at have kinds of their own.
LEMMA Kinds ==
  /\ "BACKEND_API_SECRET" \in Boot!Variables /\ "BACKEND_API_SECRET" \in Boot!Secrets
  /\ "BACKEND_API_SECRET" \notin Boot!Numbers \cup Boot!Flags
  /\ "TRUST_PROXY" \in Boot!Variables
  /\ "TRUST_PROXY" \notin Boot!Numbers \cup Boot!Secrets \cup Boot!Flags
BY DEF Boot!Variables, Boot!Numbers, Boot!Secrets, Boot!Flags, Boot!BackendNumbers,
       Boot!FrontendNumbers, Boot!BackendSecrets, Boot!FrontendSecrets, Boot!BackendFlags,
       Boot!BackendTexts

\* Whatever is written into a file leaves it readable.
LEMMA WrittenReadable ==
  ASSUME NEW f, f = [k \in Boot!Variables |-> f[k]], Readable(f),
         NEW k \in Boot!Variables, NEW raw \in Boot!Written(k)
  PROVE  LET g == [f EXCEPT ![k] = raw]
         IN  g = [j \in Boot!Variables |-> g[j]] /\ Readable(g)
<1> DEFINE g == [f EXCEPT ![k] = raw]
<1>1. g = [j \in Boot!Variables |-> g[j]]
  OBVIOUS
<1>2. /\ g.BACKEND_API_SECRET = IF k = "BACKEND_API_SECRET" THEN raw ELSE f.BACKEND_API_SECRET
      /\ g.TRUST_PROXY = IF k = "TRUST_PROXY" THEN raw ELSE f.TRUST_PROXY
  BY Kinds
<1>3. CASE k = "BACKEND_API_SECRET"
  <2>1. raw \in {Boot!Absent, Boot!Dev(22), Boot!Text(1), Boot!Text(31), Boot!Text(32)}
    BY <1>3, Kinds DEF Boot!Written, Boot!DevSecret
  <2> QED
    BY <1>1, <1>2, <1>3, <2>1 DEF Readable, Boot!Absent, Boot!Dev, Boot!Text, Boot!Raw
<1>4. CASE k = "TRUST_PROXY"
  <2>1. raw \in {Boot!Absent, Boot!Word, Boot!Digits(1), Boot!Digits(16), Boot!Digits(17)}
    BY <1>4, Kinds DEF Boot!Written
  <2> QED
    BY <1>1, <1>2, <1>4, <2>1 DEF Readable, Boot!Absent, Boot!Word, Boot!Digits, Boot!Raw
<1> QED
  BY <1>1, <1>2, <1>3, <1>4 DEF Readable

LEMMA BootInit == ASSUME Boot!Init PROVE BootInv
<1>1. /\ Boot!Example = [k \in Boot!Variables |-> Boot!Example[k]] /\ Readable(Boot!Example)
  BY Kinds DEF Boot!Example, Readable, Boot!DevSecret, Boot!Dev, Boot!Absent, Boot!Raw
<1>2. /\ Boot!DeployedFile = [k \in Boot!Variables |-> Boot!DeployedFile[k]]
      /\ Readable(Boot!DeployedFile)
  BY Kinds DEF Boot!DeployedFile, Readable, Boot!Text, Boot!Absent, Boot!Raw
<1>3. /\ Boot!TestFile = [k \in Boot!Variables |-> Boot!TestFile[k]] /\ Readable(Boot!TestFile)
  <2>1. /\ Boot!TestFile.BACKEND_API_SECRET = Boot!Text(15)
        /\ Boot!TestFile.TRUST_PROXY = Boot!Example.TRUST_PROXY
    BY <1>1, Kinds DEF Boot!TestFile
  <2>2. Boot!TestFile = [k \in Boot!Variables |-> Boot!TestFile[k]]
    BY <1>1 DEF Boot!TestFile
  <2> QED
    BY <1>1, <2>1, <2>2 DEF Readable, Boot!Text, Boot!Raw
<1> QED
  BY <1>1, <1>2, <1>3 DEF Boot!Init, BootInv

LEMMA BootMoves == ASSUME BootInv, Boot!Next \/ UNCHANGED bootVars PROVE BootInv'
<1>1. CASE Boot!Edit
  <2>1. env.backend = Boot!Down /\ env.frontend = Boot!Down /\ env' = env
    BY <1>1 DEF Boot!Edit, BootInv, UpBackend, UpFrontend
  <2>2. PICK k \in Boot!Variables : \E raw \in Boot!Written(k) : file' = [file EXCEPT ![k] = raw]
    BY <1>1 DEF Boot!Edit
  <2>3. file' = [k0 \in Boot!Variables |-> file'[k0]] /\ Readable(file')
    BY <2>2, WrittenReadable DEF BootInv
  <2> QED
    BY <2>1, <2>3 DEF BootInv
<1>2. CASE Boot!BootBackend
  <2>1. env' = [env EXCEPT !.backend = UpBackend(file)] /\ file' = file
        /\ Boot!BackendAccepts(file)
    BY <1>2 DEF Boot!BootBackend, UpBackend
  <2>2. env'.backend = UpBackend(file) /\ env'.frontend = env.frontend
        /\ env' = [backend |-> env'.backend, frontend |-> env'.frontend]
    BY <2>1 DEF BootInv
  <2> QED
    BY <2>1, <2>2 DEF BootInv
<1>3. CASE Boot!BootFrontend
  <2>1. env' = [env EXCEPT !.frontend = UpFrontend(file)] /\ file' = file
        /\ Boot!FrontendAccepts(file)
    BY <1>3 DEF Boot!BootFrontend, UpFrontend
  <2>2. env'.frontend = UpFrontend(file) /\ env'.backend = env.backend
        /\ env' = [backend |-> env'.backend, frontend |-> env'.frontend]
    BY <2>1 DEF BootInv
  <2> QED
    BY <2>1, <2>2 DEF BootInv
<1>4. ASSUME NEW app \in {"backend", "frontend"}, Boot!Stop(app) PROVE BootInv'
  <2>1. env' = [env EXCEPT ![app] = Boot!Down] /\ file' = file
    BY <1>4 DEF Boot!Stop
  <2>2. /\ env'.backend \in {env.backend, Boot!Down}
        /\ env'.frontend \in {env.frontend, Boot!Down}
        /\ env' = [backend |-> env'.backend, frontend |-> env'.frontend]
    BY <2>1 DEF BootInv
  <2> QED
    BY <2>1, <2>2 DEF BootInv
<1>5. CASE UNCHANGED bootVars
  BY <1>5 DEF bootVars, BootInv
<1> QED
  BY <1>1, <1>2, <1>3, <1>4, <1>5 DEF Boot!Next

\* A number a parser lets through is the default or within its bounds.
LEMMA NumbersPositive ==
  ASSUME NEW raw, NEW default \in Nat \ {0}, NEW max \in Nat
  PROVE  /\ Boot!Whole(raw, default, max) \in (Nat \ {0}) \cup {Boot!NoNumber}
         /\ Boot!Coerced(raw, default, max) \in (Nat \ {0}) \cup {Boot!NoNumber}
BY DEF Boot!Whole, Boot!Coerced, Boot!Within, Boot!NoNumber, Boot!Absent, Boot!Blank, Boot!Raw

LEMMA ProductPositive == ASSUME NEW m \in Nat \ {0}, NEW n \in Nat \ {0} PROVE m * n > 0
OBVIOUS

\* The numbers of a file the schema took are positive.
LEMMA BackendCounts ==
  ASSUME NEW f, Boot!BackendAccepts(f), NEW k \in DOMAIN Boot!BackendNumbers
  PROVE  Boot!BackendEnv(f).num[k] \in Nat \ {0}
<1> DEFINE n == Boot!BackendFields(f).num[k]
<1>1. Boot!BackendEnv(f).num = Boot!BackendFields(f).num
  BY DEF Boot!BackendEnv
<1>2. DOMAIN Boot!BackendFields(f).num = DOMAIN Boot!BackendNumbers
  BY DEF Boot!BackendFields
<1>3. n # Boot!NoNumber
  BY <1>2 DEF Boot!BackendAccepts
<1>4. /\ Boot!BackendNumbers[k].default \in Nat \ {0} /\ Boot!BackendNumbers[k].max \in Nat
  BY DEF Boot!BackendNumbers, Boot!Bounds, Boot!Unbounded
<1>5. n \in {Boot!Whole(f[k], Boot!BackendNumbers[k].default, Boot!BackendNumbers[k].max),
             Boot!Coerced(f[k], Boot!BackendNumbers[k].default, Boot!BackendNumbers[k].max)}
  BY DEF Boot!BackendFields
<1> QED
  BY <1>1, <1>3, <1>4, <1>5, NumbersPositive

LEMMA FrontendCounts ==
  ASSUME NEW f, Boot!FrontendAccepts(f), NEW k \in DOMAIN Boot!FrontendNumbers
  PROVE  Boot!FrontendEnv(f).num[k] \in Nat \ {0}
<1> DEFINE n == Boot!FrontendEnv(f).num[k]
<1>1. DOMAIN Boot!FrontendEnv(f).num = DOMAIN Boot!FrontendNumbers
  BY DEF Boot!FrontendEnv
<1>2. n # Boot!NoNumber
  BY <1>1 DEF Boot!FrontendAccepts
<1>3. /\ Boot!FrontendNumbers[k].default \in Nat \ {0} /\ Boot!FrontendNumbers[k].max \in Nat
  BY DEF Boot!FrontendNumbers, Boot!Bounds
<1>4. n = Boot!Whole(f[k], Boot!FrontendNumbers[k].default, Boot!FrontendNumbers[k].max)
  BY DEF Boot!FrontendEnv
<1> QED
  BY <1>2, <1>3, <1>4, NumbersPositive

\* The rules of the schema, seen from the settings they leave.
LEMMA AcceptedBackendFits ==
  ASSUME BootInv, Boot!BackendAccepts(file)
  PROVE  Boot!BackendFit(UpBackend(file))
<1> DEFINE e == Boot!BackendFields(file)
           s == Boot!BackendEnv(file)
           num == s.num
<1>1. \A k \in DOMAIN Boot!BackendNumbers : num[k] \in Nat \ {0}
  BY BackendCounts
<1>2. /\ num.AUTH_SESSION_ROTATION_GRACE_SECONDS \in Nat \ {0}
      /\ num.AUTH_SESSION_ROTATE_AFTER_SECONDS \in Nat \ {0}
      /\ num.AUTH_SESSION_TTL_SECONDS \in Nat \ {0}
      /\ num.AUTH_SESSION_PRUNE_BATCH_SIZE \in Nat \ {0}
      /\ num.AUTH_SESSION_PRUNE_MAX_BATCHES \in Nat \ {0}
      /\ num.AUTH_ARGON2_MEMORY_KIB \in Nat \ {0} /\ num.AUTH_ARGON2_PARALLELISM \in Nat \ {0}
      /\ num.BACKEND_INSTANCE_COUNT \in Nat \ {0}
  BY <1>1 DEF Boot!BackendNumbers
<1>3. num = e.num
  BY DEF Boot!BackendEnv
<1>4. /\ num.AUTH_SESSION_ROTATION_GRACE_SECONDS < num.AUTH_SESSION_ROTATE_AFTER_SECONDS
      /\ num.AUTH_SESSION_ROTATE_AFTER_SECONDS < num.AUTH_SESSION_TTL_SECONDS
      /\ num.AUTH_ARGON2_MEMORY_KIB >= 8 * num.AUTH_ARGON2_PARALLELISM
      /\ Boot!Deployed(file) => num.BACKEND_INSTANCE_COUNT = 1
  BY <1>2, <1>3 DEF Boot!BackendAccepts, Boot!IntervalsOrdered, Boot!HashingStrong,
                    Boot!LimitsCount
<1>5. num.AUTH_SESSION_PRUNE_BATCH_SIZE * num.AUTH_SESSION_PRUNE_MAX_BATCHES > 0
  BY <1>2, ProductPositive
<1>6. /\ s.flag.OTEL_TRACES_ENABLED = e.flag.OTEL_TRACES_ENABLED
      /\ s.flag.OTEL_METRICS_ENABLED = Boot!Mirrored(e.flag)
      /\ s.flag.RATE_LIMITING_ENABLED = e.flag.RATE_LIMITING_ENABLED
      /\ s.flag.AUTH_SESSION_PRUNE_ENABLED =
           IF e.flag.AUTH_SESSION_PRUNE_ENABLED # Boot!Unset THEN e.flag.AUTH_SESSION_PRUNE_ENABLED
           ELSE IF file.NODE_ENV.is # "test" THEN "on" ELSE "off"
  BY DEF Boot!BackendEnv, Boot!BackendFields, Boot!BackendFlags
<1>7. /\ s.text.OTEL_EXPORTER_OTLP_TRACES_ENDPOINT = e.text.OTEL_EXPORTER_OTLP_TRACES_ENDPOINT
      /\ s.text.OTEL_EXPORTER_OTLP_METRICS_ENDPOINT =
           IF e.text.OTEL_EXPORTER_OTLP_METRICS_ENDPOINT = Boot!Unset
           THEN Boot!DerivedMetrics(e.text.OTEL_EXPORTER_OTLP_TRACES_ENDPOINT)
           ELSE e.text.OTEL_EXPORTER_OTLP_METRICS_ENDPOINT
      /\ s.text.FRONTEND_ORIGIN = IF e.text.FRONTEND_ORIGIN = Boot!Unset THEN "localhost"
                                  ELSE e.text.FRONTEND_ORIGIN
  BY DEF Boot!BackendEnv, Boot!BackendFields, Boot!BackendTexts
<1>8. /\ s.flag.OTEL_TRACES_ENABLED = "on" =>
           s.text.OTEL_EXPORTER_OTLP_TRACES_ENDPOINT # Boot!Unset
      /\ s.flag.OTEL_METRICS_ENABLED = "on" =>
           s.text.OTEL_EXPORTER_OTLP_METRICS_ENDPOINT # Boot!Unset
  BY <1>6, <1>7 DEF Boot!BackendAccepts, Boot!TelemetryHasEndpoints
<1>9. Boot!LimitingDisabled(file) =>
        ~Boot!Deployed(file) /\ s.flag.RATE_LIMITING_ENABLED = "off"
  <2>1. e.flag.RATE_LIMITING_ENABLED = Boot!Flag(file.RATE_LIMITING_ENABLED, "on", TRUE)
    BY DEF Boot!BackendFields, Boot!BackendFlags
  <2>2. file.RATE_LIMITING_ENABLED.is = "false" =>
          Boot!Flag(file.RATE_LIMITING_ENABLED, "on", TRUE) = "off"
    BY DEF Boot!Flag, Boot!Absent, Boot!Digits, Boot!Raw
  <2> QED
    BY <1>6, <2>1, <2>2 DEF Boot!LimitingDisabled
<1>10. Boot!Deployed(file) => s.text.FRONTEND_ORIGIN = "origin"
  BY <1>7 DEF Boot!BackendAccepts, Boot!OriginExplicit
<1>11. Boot!Deployed(file) /\ s.flag.AUTH_SESSION_PRUNE_ENABLED = "off" =>
         file.AUTH_SESSION_PRUNE_ENABLED # Boot!Absent
  <2>1. e.flag.AUTH_SESSION_PRUNE_ENABLED
          = Boot!Flag(file.AUTH_SESSION_PRUNE_ENABLED, Boot!Unset, TRUE)
    BY DEF Boot!BackendFields, Boot!BackendFlags
  <2>2. file.AUTH_SESSION_PRUNE_ENABLED = Boot!Absent =>
          Boot!Flag(file.AUTH_SESSION_PRUNE_ENABLED, Boot!Unset, TRUE) = Boot!Unset
    BY DEF Boot!Flag, Boot!Absent, Boot!Digits, Boot!Raw
  <2> QED
    BY <1>6, <2>1, <2>2 DEF Boot!Deployed
<1> HIDE DEF s, num
<1>12. /\ UpBackend(file).set = s /\ UpBackend(file).mode = file.NODE_ENV.is
       /\ UpBackend(file).unlimited = Boot!LimitingDisabled(file)
  BY DEF UpBackend, s
<1>13. s.num = num
  BY DEF num
<1> QED
  BY <1>2, <1>4, <1>5, <1>8, <1>9, <1>10, <1>11, <1>12, <1>13
     DEF Boot!BackendFit, Boot!Deployed

LEMMA AcceptedFrontendFits ==
  ASSUME BootInv, Boot!FrontendAccepts(file)
  PROVE  Boot!FrontendFit(UpFrontend(file))
<1> DEFINE s == Boot!FrontendEnv(file)
<1>1. \A k \in DOMAIN Boot!FrontendNumbers : s.num[k] \in Nat \ {0}
  BY FrontendCounts
<1>2. /\ s.num.CLIENT_LOG_RATE_LIMIT_PER_MINUTE \in Nat \ {0}
      /\ s.num.CLIENT_LOG_RATE_LIMIT_SHARED_PER_MINUTE \in Nat \ {0}
      /\ s.num.CLIENT_LOG_RECORD_LIMIT_PER_MINUTE \in Nat \ {0}
      /\ s.num.CLIENT_LOG_RECORD_LIMIT_SHARED_PER_MINUTE \in Nat \ {0}
      /\ s.num.FRONTEND_INSTANCE_COUNT \in Nat \ {0}
  BY <1>1 DEF Boot!FrontendNumbers
<1>3. /\ s.num.CLIENT_LOG_RATE_LIMIT_PER_MINUTE
           \in 1..s.num.CLIENT_LOG_RATE_LIMIT_SHARED_PER_MINUTE
      /\ s.num.CLIENT_LOG_RECORD_LIMIT_PER_MINUTE
           \in 1..s.num.CLIENT_LOG_RECORD_LIMIT_SHARED_PER_MINUTE
      /\ Boot!Deployed(file) => s.num.FRONTEND_INSTANCE_COUNT = 1
  BY <1>2 DEF Boot!FrontendAccepts, Boot!SharedAboveOwn
<1>4. s.hops \in 0..16
  <2>1. s.hops = Boot!TrustedHops(file.TRUST_PROXY)
    BY DEF Boot!FrontendEnv
  <2> QED
    BY <2>1 DEF Boot!TrustedHops, BootInv, Readable
<1>5. s.origin \in {Boot!Unset, "origin"}
  <2>1. s.origin = Boot!AllowedOrigin(file.CLIENT_LOG_ALLOWED_ORIGIN)
    BY DEF Boot!FrontendEnv
  <2>2. s.origin # Boot!Refused
    BY DEF Boot!FrontendAccepts
  <2> QED
    BY <2>1, <2>2 DEF Boot!AllowedOrigin, Boot!Absent, Boot!Blank, Boot!Raw
<1> HIDE DEF s
<1>6. UpFrontend(file).set = s /\ UpFrontend(file).mode = file.NODE_ENV.is
  BY DEF UpFrontend, s
<1> QED
  BY <1>3, <1>4, <1>5, <1>6 DEF Boot!FrontendFit, Boot!Deployed

\* A deployed application that is up has the shared secret in hand, and not the
\* one that is published.
LEMMA AcceptedSecretReal ==
  ASSUME BootInv, Boot!Deployed(file), Boot!BackendAccepts(file) \/ Boot!FrontendAccepts(file)
  PROVE  file.BACKEND_API_SECRET.is = "text"
<1>1. file.BACKEND_API_SECRET.n >= 1 /\ file.BACKEND_API_SECRET.is # "dev"
  <2>1. CASE Boot!BackendAccepts(file)
    BY <2>1 DEF Boot!BackendAccepts, Boot!SecretsReal, Boot!BackendSecrets
  <2>2. CASE Boot!FrontendAccepts(file)
    BY <2>2 DEF Boot!FrontendAccepts, Boot!FrontendSecrets
  <2> QED
    BY <2>1, <2>2
<1> QED
  BY <1>1 DEF BootInv, Readable

\* An application that is up has settings the rest of it can live with, however
\* often its file was edited between two starts and whatever an operator wrote
\* there: intervals in order, telemetry with somewhere to send it, allowances that
\* can be reached, and in a deployment one process, limits that count and a real
\* secret (the rules of envSchema and serverEnvSchema).
THEOREM SettingsFit == Spec => []UpMeansFit
<1>1. Init => BootInv
  BY BootInit DEF Init
<1>2. BootInv /\ [Next]_vars => BootInv'
  BY BootMoves DEF Next, vars
<1>3. BootInv => UpMeansFit
  <2> SUFFICES ASSUME BootInv PROVE Boot!UpMeansFit
    BY DEF UpMeansFit
  <2>1. /\ env.backend.up => env.backend = UpBackend(file) /\ Boot!BackendAccepts(file)
        /\ env.frontend.up => env.frontend = UpFrontend(file) /\ Boot!FrontendAccepts(file)
    BY DEF BootInv, Boot!Down
  <2> QED
    BY <2>1, AcceptedBackendFits, AcceptedFrontendFits, AcceptedSecretReal
       DEF Boot!UpMeansFit
<1> QED
  BY <1>1, <1>2, <1>3, PTL DEF Spec

--------------------------------------------------------------------------------
(* useFileUpload *)

\* What a batch has come to so far, and what the next file makes of it.
Verdict == [accepted : Seq(File),
            errors : SUBSET ({"file-invalid-type", "file-too-large", "duplicate-file"} \X File)]

Checked(start, acc, f) ==
  LET problem == Upload!Problem(f, start \o acc.accepted) IN
  IF ~multiple /\ acc.accepted # <<>> THEN acc
  ELSE IF problem = "none" THEN [acc EXCEPT !.accepted = Append(@, f)]
  ELSE [acc EXCEPT !.errors = @ \cup {<<problem, f>>}]

Unchecked == [accepted |-> <<>>, errors |-> {}]

LEMMA CheckedTyped ==
  ASSUME NEW start, NEW acc \in Verdict, NEW f \in File
  PROVE  Checked(start, acc, f) \in Verdict
<1> DEFINE problem == Upload!Problem(f, start \o acc.accepted)
<1>1. problem \in {"none", "file-invalid-type", "file-too-large", "duplicate-file"}
  BY DEF Upload!Problem
<1>2. acc.accepted \in Seq(File) /\ Append(acc.accepted, f) \in Seq(File)
  BY DEF Verdict
<1> HIDE DEF problem
<1>3. CASE problem = "none"
  BY <1>2, <1>3 DEF Checked, Verdict, problem
<1>4. CASE problem # "none"
  <2>1. acc.errors \cup {<<problem, f>>}
          \in SUBSET ({"file-invalid-type", "file-too-large", "duplicate-file"} \X File)
    BY <1>1, <1>4 DEF Verdict
  <2> QED BY <1>2, <1>4, <2>1 DEF Checked, Verdict, problem
<1> QED BY <1>3, <1>4

\* The greatest of some numbers up to n is what Max chooses.
LEMMA MaxChosen ==
  ASSUME NEW n \in Nat, NEW S \in SUBSET (1..n), S # {}
  PROVE  Upload!Max(S) \in S /\ \A y \in S : Upload!Max(S) >= y
<1> DEFINE T == {n - x : x \in S}
<1>1. T \subseteq Nat /\ T # {}
  OBVIOUS
<1>2. PICK m \in T : \A k \in T : m <= k
  <2> HIDE DEF T
  <2> QED BY <1>1, NatLeast
<1>3. PICK x \in S : m = n - x
  OBVIOUS
<1>4. ASSUME NEW y \in S PROVE x >= y
  <2>1. n - y \in T /\ x \in 1..n /\ y \in 1..n
    OBVIOUS
  <2>2. n - x <= n - y
    BY <1>2, <1>3, <2>1
  <2> QED BY <2>1, <2>2
<1>5. \E z \in S : \A y \in S : z >= y
  BY <1>4
<1> QED BY <1>5 DEF Upload!Max

\* A fold over a batch goes through it from left to right: there is a history of what
\* it came to after each file.
LEMMA ValidateSteps ==
  ASSUME NEW start, NEW batch \in Seq(File)
  PROVE  \E acc : /\ acc[0] = Unchecked
                  /\ \A i \in 1..Len(batch) : acc[i] = Checked(start, acc[i - 1], batch[i])
                  /\ Upload!Validate(start, batch) = acc[Len(batch)]
<1> DEFINE D == 1..Len(batch)
           choice == [s \in SUBSET D |-> Upload!Max(s)]
           step == [p \in D \X Verdict |-> Checked(start, p[2], batch[p[1]])]
           Eq(h) == h = [s \in SUBSET D |-> IF s = {} THEN Unchecked
                           ELSE Checked(start, h[s \ {Upload!Max(s)}], batch[Upload!Max(s)])]
           iter == CHOOSE h : Eq(h)
<1>1. DOMAIN batch = D /\ IsFiniteSet(D) /\ Len(batch) \in Nat /\ \A i \in D : batch[i] \in File
  BY FS_Interval
<1>2. Unchecked \in Verdict
  BY DEF Unchecked, Verdict
<1>3. \A s \in SUBSET D : s # {} => choice[s] = Upload!Max(s) /\ choice[s] \in s
  BY <1>1, MaxChosen
<1>4. step \in [D \X Verdict -> Verdict]
      /\ \A i \in D, v \in Verdict : step[i, v] = Checked(start, v, batch[i])
  <2>1. \A p \in D \X Verdict : Checked(start, p[2], batch[p[1]]) \in Verdict
    BY <1>1, CheckedTyped
  <2>2. step \in [D \X Verdict -> Verdict]
    BY <2>1
  <2>3. ASSUME NEW i \in D, NEW v \in Verdict PROVE step[i, v] = Checked(start, v, batch[i])
    OBVIOUS
  <2> HIDE DEF step
  <2> QED BY <2>2, <2>3
<1>5. \E h : Eq(h)
  <2>1. PICK g \in [SUBSET D -> Verdict] : TakesOff(g, D, choice, Unchecked, step)
    <3> HIDE DEF D, choice, step
    <3> QED BY <1>1, <1>2, <1>3, <1>4, TakingOffExists
  <2>2. ASSUME NEW s \in SUBSET D
        PROVE  g[s] = IF s = {} THEN Unchecked
                      ELSE Checked(start, g[s \ {Upload!Max(s)}], batch[Upload!Max(s)])
    <3>1. g[s] = IF s = {} THEN Unchecked ELSE step[choice[s], g[s \ {choice[s]}]]
      <4> HIDE DEF D, choice, step
      <4> QED BY <2>1 DEF TakesOff
    <3>2. CASE s = {}
      BY <3>1, <3>2
    <3>3. CASE s # {}
      <4>1. choice[s] = Upload!Max(s) /\ choice[s] \in D /\ s \ {choice[s]} \in SUBSET D
        BY <1>3, <3>3
      <4>2. g[s \ {choice[s]}] \in Verdict
        BY <2>1, <4>1
      <4>3. step[choice[s], g[s \ {choice[s]}]] = Checked(start, g[s \ {choice[s]}], batch[choice[s]])
        <5> HIDE DEF step, choice
        <5> QED BY <1>4, <4>1, <4>2
      <4> HIDE DEF step, choice
      <4> QED BY <3>1, <3>3, <4>1, <4>3
    <3> QED BY <3>2, <3>3
  <2>3. Eq(g)
    <3> HIDE DEF choice, step
    <3> QED BY <2>2
  <2> HIDE DEF Eq
  <2> QED BY <2>3
<1>6. Eq(iter)
  <2> HIDE DEF Eq
  <2> QED BY <1>5
<1>7. Upload!Validate(start, batch) = iter[D]
  BY <1>1 DEF Upload!Validate, Upload!FoldLeft, Upload!MapThenFoldSet, Checked, Unchecked
<1> HIDE DEF iter
<1>8. \A s \in SUBSET D : iter[s] = IF s = {} THEN Unchecked
        ELSE Checked(start, iter[s \ {Upload!Max(s)}], batch[Upload!Max(s)])
  BY <1>6
<1> DEFINE acc == [i \in 0..Len(batch) |-> iter[1..i]]
<1>9. acc[0] = Unchecked
  <2>1. 1..0 = {} /\ {} \in SUBSET D /\ 0 \in 0..Len(batch)
    BY <1>1
  <2> QED BY <2>1, <1>8
<1>10. ASSUME NEW i \in D PROVE acc[i] = Checked(start, acc[i - 1], batch[i])
  <2>1. 1..i \in SUBSET D /\ i \in 1..i /\ i - 1 \in 0..Len(batch) /\ i \in 0..Len(batch)
    BY <1>1
  <2>2. Upload!Max(1..i) = i
    <3>1. Upload!Max(1..i) \in 1..i /\ Upload!Max(1..i) >= i
      BY <1>1, <2>1, MaxChosen
    <3> QED BY <3>1
  <2>3. (1..i) \ {i} = 1..(i - 1)
    BY <1>1
  <2>4. iter[1..i] = Checked(start, iter[(1..i) \ {i}], batch[i])
    BY <1>8, <2>1, <2>2
  <2>5. acc[i] = iter[1..i] /\ acc[i - 1] = iter[1..(i - 1)]
    BY <2>1
  <2> QED BY <2>3, <2>4, <2>5
<1>11. Upload!Validate(start, batch) = acc[Len(batch)]
  BY <1>1, <1>7
<1> HIDE DEF acc
<1> QED BY <1>9, <1>10, <1>11

\* The history of a batch is one of verdicts, if it starts from a selection.
StepsThrough(acc, start, batch) ==
  /\ acc[0] = Unchecked
  /\ \A i \in 1..Len(batch) : acc[i] = Checked(start, acc[i - 1], batch[i])

LEMMA VerdictsAll ==
  ASSUME NEW start, NEW batch \in Seq(File), NEW acc, StepsThrough(acc, start, batch)
  PROVE  \A i \in 0..Len(batch) : acc[i] \in Verdict
<1> DEFINE P == {n \in Nat : n <= Len(batch) => acc[n] \in Verdict}
<1>1. 0 \in P
  <2>1. acc[0] = Unchecked /\ Unchecked \in Verdict
    BY DEF StepsThrough, Unchecked, Verdict
  <2> QED BY <2>1
<1>2. ASSUME NEW n \in Nat, n \in P PROVE n + 1 \in P
  <2>1. ASSUME n + 1 <= Len(batch) PROVE acc[n + 1] \in Verdict
    <3>1. n + 1 \in 1..Len(batch) /\ (n + 1) - 1 = n /\ acc[n] \in Verdict
      BY <1>2, <2>1
    <3>2. acc[n + 1] = Checked(start, acc[n], batch[n + 1]) /\ batch[n + 1] \in File
      BY <3>1 DEF StepsThrough
    <3> QED BY <3>1, <3>2, CheckedTyped
  <2> QED BY <2>1
<1>3. Nat \subseteq P
  <2> HIDE DEF P
  <2> QED BY <1>1, <1>2, NatSet
<1> QED BY <1>3

\* What is accepted is checked by addFiles against everything accepted before it: it
\* is allowed, and no copy of anything selected.
Allowed(s) == \A i \in DOMAIN s : s[i] \notin BadType /\ s[i] \notin TooLarge

\* Every file so far is accepted or named by an error.
Dealt(acc, batch, n) ==
  \A j \in 1..n : \/ batch[j] \in Upload!Range(acc.accepted)
                  \/ \E problem : <<problem, batch[j]>> \in acc.errors

Fair(start, acc, batch, n) ==
  Upload!Distinct(start \o acc.accepted) /\ Allowed(acc.accepted) /\ Dealt(acc, batch, n)

\* What a sequence holds with one element more.
LEMMA AppendRange ==
  ASSUME NEW S, NEW a \in Seq(S), NEW f \in S
  PROVE  /\ \A i \in DOMAIN Append(a, f) : Append(a, f)[i] \in Upload!Range(a) \cup {f}
         /\ f \in Upload!Range(Append(a, f))
         /\ Upload!Range(a) \subseteq Upload!Range(Append(a, f))
<1> DEFINE b == Append(a, f)
<1>1. /\ DOMAIN a = 1..Len(a) /\ DOMAIN b = 1..(Len(a) + 1) /\ Len(a) \in Nat
      /\ b[Len(a) + 1] = f /\ \A i \in 1..Len(a) : b[i] = a[i]
  OBVIOUS
<1>2. Len(a) + 1 \in DOMAIN b /\ \A i \in 1..Len(a) : i \in DOMAIN b
  BY <1>1
<1>3. \A i \in DOMAIN b : i \in 1..Len(a) \/ i = Len(a) + 1
  BY <1>1
<1> HIDE DEF b
<1>4. /\ \A i \in DOMAIN b : b[i] \in Upload!Range(a) \cup {f}
      /\ f \in Upload!Range(b) /\ Upload!Range(a) \subseteq Upload!Range(b)
  BY <1>1, <1>2, <1>3 DEF Upload!Range
<1> QED BY <1>4 DEF b

\* One file more keeps that, in a selection of several.
LEMMA OneFileMore ==
  ASSUME multiple, NEW start \in Seq(File), NEW batch \in Seq(File), NEW n \in Nat,
         n + 1 <= Len(batch), NEW acc \in Verdict, Fair(start, acc, batch, n)
  PROVE  Fair(start, Checked(start, acc, batch[n + 1]), batch, n + 1)
<1> DEFINE f == batch[n + 1]
           all == start \o acc.accepted
           problem == Upload!Problem(f, all)
           next == Checked(start, acc, f)
<1>1. f \in File /\ acc.accepted \in Seq(File) /\ all \in Seq(File)
  BY DEF Verdict
<1>2. \A j \in 1..(n + 1) : j \in 1..n \/ j = n + 1
  OBVIOUS
<1>3. CASE problem = "none"
  <2>1. next.accepted = Append(acc.accepted, f) /\ next.errors = acc.errors
    BY <1>3 DEF Checked, Verdict
  <2>2. f \notin BadType /\ f \notin TooLarge /\ \A g \in Upload!Range(all) : ~Upload!isSameFile(g, f)
    BY <1>3 DEF Upload!Problem
  <2> HIDE DEF f, next
  <2>3. start \o next.accepted = Append(all, f)
    BY <1>1, <2>1
  <2>4. Upload!Distinct(Append(all, f))
    <3>1. \A i \in 1..Len(all) : all[i] \in Upload!Range(all)
      <4>1. DOMAIN all = 1..Len(all)
        BY <1>1
      <4> HIDE DEF all
      <4> QED BY <4>1 DEF Upload!Range
    <3>2. \A i \in 1..Len(all) : ~Upload!isSameFile(all[i], f) /\ ~Upload!isSameFile(f, all[i])
      BY <2>2, <3>1 DEF Upload!isSameFile
    <3>3. \A i, j \in 1..Len(all) : i # j => ~Upload!isSameFile(all[i], all[j])
      <4>1. DOMAIN all = 1..Len(all)
        BY <1>1
      <4>2. Upload!Distinct(all)
        BY DEF Fair
      <4> HIDE DEF all
      <4> QED BY <4>1, <4>2 DEF Upload!Distinct
    <3> HIDE DEF all
    <3>4. \A i \in DOMAIN Append(all, f) :
            \/ i \in 1..Len(all) /\ Append(all, f)[i] = all[i]
            \/ i = Len(all) + 1 /\ Append(all, f)[i] = f
      <4>1. DOMAIN Append(all, f) = 1..(Len(all) + 1) /\ Len(all) \in Nat
        BY <1>1
      <4> QED BY <1>1, <4>1
    <3> QED BY <1>1, <3>2, <3>3, <3>4 DEF Upload!Distinct
  <2>5. /\ \A i \in DOMAIN next.accepted : next.accepted[i] \in Upload!Range(acc.accepted) \cup {f}
        /\ f \in Upload!Range(next.accepted)
        /\ Upload!Range(acc.accepted) \subseteq Upload!Range(next.accepted)
    BY <1>1, <2>1, AppendRange
  <2>6. Allowed(next.accepted)
    <3>1. \A g \in Upload!Range(acc.accepted) : g \notin BadType /\ g \notin TooLarge
      BY DEF Fair, Allowed, Upload!Range
    <3> QED BY <2>2, <2>5, <3>1 DEF Allowed
  <2>7. Dealt(next, batch, n + 1)
    BY <1>2, <2>1, <2>5 DEF Fair, Dealt, f
  <2> QED BY <2>3, <2>4, <2>6, <2>7 DEF Fair, f, next
<1>4. CASE problem # "none"
  <2>1. next.accepted = acc.accepted /\ next.errors = acc.errors \cup {<<problem, f>>}
    BY <1>4 DEF Checked, Verdict
  <2>2. Dealt(next, batch, n + 1)
    <3> HIDE DEF next, problem
    <3> QED BY <1>2, <2>1 DEF Fair, Dealt
  <2> HIDE DEF next, problem
  <2> QED BY <2>1, <2>2 DEF Fair, next
<1> QED BY <1>3, <1>4

\* What addFiles makes of a batch dropped on a selection of several files, free of
\* copies.
LEMMA ValidateFair ==
  ASSUME multiple, NEW start \in Seq(File), Upload!Distinct(start), NEW batch \in Seq(File)
  PROVE  /\ Upload!Validate(start, batch) \in Verdict
         /\ Fair(start, Upload!Validate(start, batch), batch, Len(batch))
<1>1. PICK acc : /\ StepsThrough(acc, start, batch)
                 /\ Upload!Validate(start, batch) = acc[Len(batch)]
  BY ValidateSteps DEF StepsThrough
<1>2. \A i \in 0..Len(batch) : acc[i] \in Verdict
  BY <1>1, VerdictsAll
<1> DEFINE P == {n \in Nat : n <= Len(batch) => Fair(start, acc[n], batch, n)}
<1>3. 0 \in P
  <2>1. acc[0].accepted = <<>> /\ start \o <<>> = start
    BY <1>1 DEF StepsThrough, Unchecked
  <2>2. Fair(start, acc[0], batch, 0)
    BY <2>1 DEF Fair, Allowed, Dealt
  <2> QED BY <2>2
<1>4. ASSUME NEW n \in Nat, n \in P PROVE n + 1 \in P
  <2>1. ASSUME n + 1 <= Len(batch) PROVE Fair(start, acc[n + 1], batch, n + 1)
    <3>1. n \in 0..Len(batch) /\ n + 1 \in 1..Len(batch) /\ (n + 1) - 1 = n /\ Fair(start, acc[n], batch, n)
      BY <1>4, <2>1
    <3>2. acc[n + 1] = Checked(start, acc[n], batch[n + 1]) /\ acc[n] \in Verdict
      BY <1>1, <1>2, <3>1 DEF StepsThrough
    <3> QED BY <2>1, <3>1, <3>2, OneFileMore
  <2> QED BY <2>1
<1>5. Nat \subseteq P
  <2> HIDE DEF P
  <2> QED BY <1>3, <1>4, NatSet
<1>6. Len(batch) \in Nat
  OBVIOUS
<1> QED BY <1>1, <1>2, <1>5, <1>6

\* A batch in any mode comes to a verdict.
LEMMA ValidateTyped ==
  ASSUME NEW start, NEW batch \in Seq(File)
  PROVE  Upload!Validate(start, batch) \in Verdict
<1>1. PICK acc : /\ StepsThrough(acc, start, batch)
                 /\ Upload!Validate(start, batch) = acc[Len(batch)]
  BY ValidateSteps DEF StepsThrough
<1> QED BY <1>1, VerdictsAll

\* The cut at maxFiles takes the same files off the selection and off the announcement.
LEMMA CutAgrees ==
  ASSUME NEW start \in Seq(File), NEW a \in Seq(File), Len(start) <= MaxFiles,
         Len(start \o a) > MaxFiles
  PROVE  LET kept == Upload!Announced(a, Len(start \o a) - MaxFiles)
             cut == MaxFiles - Len(start) IN
         /\ kept \in Seq(File) /\ cut \in 0..Len(a) /\ kept = SubSeq(a, 1, cut)
         /\ SubSeq(start \o a, 1, MaxFiles) = start \o kept
         /\ Len(start \o kept) <= MaxFiles
<1> DEFINE all == start \o a
           over == Len(all) - MaxFiles
           cut == MaxFiles - Len(start)
           kept == Upload!Announced(a, over)
<1>1. /\ Len(all) = Len(start) + Len(a) /\ Len(start) \in Nat /\ Len(a) \in Nat
      /\ MaxFiles \in Nat /\ all \in Seq(File)
  BY BoundsFit DEF BoundsFit
<1>2. cut \in 0..Len(a) /\ cut = Len(a) - over /\ cut + over = Len(a)
  BY <1>1
<1>3. kept = SubSeq(a, 1, cut) \o SubSeq(a, cut + over + 1, Len(a))
  <2> HIDE DEF over, cut
  <2>1. cut >= 0 /\ Len(a) - over = cut
    BY <1>2
  <2> QED BY <2>1 DEF Upload!Announced, Upload!Splice
<1>4. SubSeq(a, cut + over + 1, Len(a)) = <<>>
  <2>1. SubSeq(a, Len(a) + 1, Len(a)) = <<>>
    <3>1. SubSeq(a, Len(a) + 1, Len(a)) \in Seq(File) /\ Len(SubSeq(a, Len(a) + 1, Len(a))) = 0
      BY <1>1
    <3> QED BY <3>1
  <2> QED BY <2>1, <1>2
<1>5. SubSeq(a, 1, cut) \in Seq(File) /\ Len(SubSeq(a, 1, cut)) = cut
      /\ \A i \in 1..cut : SubSeq(a, 1, cut)[i] = a[i]
  <2> HIDE DEF cut
  <2> QED BY <1>1, <1>2
<1>6. kept = SubSeq(a, 1, cut)
  <2> DEFINE b == SubSeq(a, 1, cut)
  <2>1. kept = b \o <<>> /\ b \in Seq(File)
    BY <1>3, <1>4, <1>5
  <2> HIDE DEF b, kept
  <2> QED BY <2>1 DEF b
<1>7. SubSeq(all, 1, MaxFiles) = start \o kept
  <2> DEFINE l == SubSeq(all, 1, MaxFiles)
             r == start \o kept
  <2>1. l \in Seq(File) /\ Len(l) = MaxFiles /\ \A i \in 1..MaxFiles : l[i] = all[i]
    <3> HIDE DEF all
    <3> QED BY <1>1
  <2>2. /\ r \in Seq(File) /\ Len(r) = MaxFiles
        /\ \A i \in 1..Len(start) : r[i] = start[i]
        /\ \A i \in (Len(start) + 1)..MaxFiles : r[i] = a[i - Len(start)]
    <3>1. kept \in Seq(File) /\ Len(kept) = cut /\ \A i \in 1..cut : kept[i] = a[i]
      BY <1>5, <1>6
    <3> HIDE DEF kept
    <3>2. r \in Seq(File) /\ Len(r) = Len(start) + Len(kept)
      <4>1. \A x, y \in Seq(File) : x \o y \in Seq(File) /\ Len(x \o y) = Len(x) + Len(y)
        OBVIOUS
      <4> QED BY <3>1, <4>1
    <3>3. \A i \in 1..Len(start) : r[i] = start[i]
      BY <3>1
    <3>4. ASSUME NEW i \in (Len(start) + 1)..MaxFiles PROVE r[i] = a[i - Len(start)]
      <4>1. i - Len(start) \in 1..cut /\ i \in 1..(Len(start) + Len(kept)) /\ ~(i <= Len(start))
        BY <1>1, <3>1
      <4>2. r[i] = kept[i - Len(start)]
        BY <4>1, <3>1, <1>1
      <4> QED BY <4>1, <4>2, <3>1
    <3> QED BY <3>1, <3>2, <3>3, <3>4, <1>1
  <2>3. /\ \A i \in 1..Len(start) : all[i] = start[i]
        /\ \A i \in (Len(start) + 1)..MaxFiles : all[i] = a[i - Len(start)]
    BY <1>1
  <2>4. \A i \in 1..MaxFiles : i \in 1..Len(start) \/ i \in (Len(start) + 1)..MaxFiles
    BY <1>1
  <2> HIDE DEF l, r, all, kept
  <2>5. \A i \in 1..MaxFiles : l[i] = r[i]
    BY <2>1, <2>2, <2>3, <2>4
  <2>6. l = r
    BY <2>1, <2>2, <2>5
  <2> QED BY <2>6 DEF l, r
<1>8. kept \in Seq(File) /\ Len(start \o kept) <= MaxFiles
  <2>1. kept \in Seq(File) /\ Len(kept) = cut
    BY <1>5, <1>6
  <2> HIDE DEF kept
  <2> QED BY <2>1, <1>1
<1> HIDE DEF kept, cut
<1> QED BY <1>2, <1>6, <1>7, <1>8 DEF kept, cut

\* Selections are lists of files, in either mode and from outside too.
LEMMA ListsTyped == \A s \in Upload!Lists : s \in Seq(File)
<1>1. ASSUME NEW n \in 0..MaxBatch, NEW s \in [1..n -> File] PROVE s \in Seq(File)
  BY BoundsFit DEF BoundsFit
<1> QED BY <1>1 DEF Upload!Lists

\* The parts of addFiles: what was checked, and what follows from it.
LEMMA AddFilesParts ==
  ASSUME files \in Seq(File), NEW batch \in Seq(File), Upload!addFiles(batch)
  PROVE  LET start == IF multiple THEN files ELSE <<>>
             checked == Upload!Validate(start, batch)
             all == start \o checked.accepted
             over == multiple /\ Len(all) > MaxFiles
             kept == IF over THEN Upload!Announced(checked.accepted, Len(all) - MaxFiles)
                             ELSE checked.accepted
             next == IF over THEN SubSeq(all, 1, MaxFiles) ELSE all IN
         /\ start \in Seq(File) /\ checked \in Verdict
         /\ checked.accepted \in Seq(File) /\ all \in Seq(File) /\ next \in Seq(File)
         /\ checked.errors \subseteq errors' /\ (over => <<"too-many-files">> \in errors')
         /\ files' = (IF kept = <<>> THEN files ELSE next) /\ added' = kept
<1> DEFINE start == IF multiple THEN files ELSE <<>>
           checked == Upload!Validate(start, batch)
           all == start \o checked.accepted
           over == multiple /\ Len(all) > MaxFiles
           kept == IF over THEN Upload!Announced(checked.accepted, Len(all) - MaxFiles)
                           ELSE checked.accepted
           next == IF over THEN SubSeq(all, 1, MaxFiles) ELSE all
<1>1. start \in Seq(File)
  OBVIOUS
<1>2. checked \in Verdict
  BY ValidateTyped
<1>3. /\ errors' = checked.errors \cup (IF over THEN {<<"too-many-files">>} ELSE {})
                     \cup Upload!tooFewError(next)
      /\ files' = (IF kept = <<>> THEN files ELSE next) /\ added' = kept
  BY DEF Upload!addFiles
<1> HIDE DEF checked
<1>4. checked.accepted \in Seq(File)
  BY <1>2 DEF Verdict
<1>5. all \in Seq(File)
  <2> HIDE DEF start
  <2> QED BY <1>1, <1>4
<1> HIDE DEF start, all
<1>6. next \in Seq(File)
  <2>1. CASE over
    <3>1. MaxFiles \in Nat /\ MaxFiles <= Len(all)
      BY <2>1, <1>5, BoundsFit DEF BoundsFit
    <3>2. SubSeq(all, 1, MaxFiles) \in Seq(File)
      BY <3>1, <1>5
    <3> QED BY <2>1, <3>2
  <2>2. CASE ~over
    BY <2>2, <1>5
  <2> QED BY <2>1, <2>2
<1>7. checked.errors \subseteq errors' /\ (over => <<"too-many-files">> \in errors')
  <2> HIDE DEF over, next, kept
  <2> QED BY <1>3
<1> HIDE DEF kept, next, over
<1> QED BY <1>1, <1>2, <1>3, <1>4, <1>5, <1>6, <1>7 DEF kept, next, over, all, checked, start

\* The other steps leave a list of files too.
LEMMA FilesStayListed ==
  ASSUME files \in Seq(File), Upload!Next \/ UNCHANGED uploadVars
  PROVE  files' \in Seq(File)
<1>1. ASSUME NEW batch \in Upload!Batches, Upload!addFiles(batch) PROVE files' \in Seq(File)
  <2>1. batch \in Seq(File)
    BY ListsTyped DEF Upload!Batches
  <2> QED BY <1>1, <2>1, AddFilesParts
<1>2. CASE Upload!removeFile
  <2>1. PICK i \in 1..Len(files) : files' = Upload!RemoveAt(files, i)
    BY <1>2 DEF Upload!removeFile
  <2>2. SubSeq(files, 1, i - 1) \in Seq(File) /\ SubSeq(files, i + 1, Len(files)) \in Seq(File)
    BY <2>1
  <2> QED BY <2>1, <2>2 DEF Upload!RemoveAt
<1>3. CASE Upload!clearFiles
  BY <1>3 DEF Upload!clearFiles
<1>4. CASE Upload!clearErrors
  BY <1>4 DEF Upload!clearErrors
<1>5. CASE Upload!Outside
  BY <1>5, ListsTyped DEF Upload!Outside, Upload!Selections
<1>6. CASE UNCHANGED uploadVars
  BY <1>6 DEF uploadVars
<1> QED BY <1>1, <1>2, <1>3, <1>4, <1>5, <1>6 DEF Upload!Next, Upload!Adds

\* What addFiles owes for a batch, it gives.
LEMMA AddsItsBatch ==
  ASSUME files \in Seq(File), NEW batch \in Upload!Batches
  PROVE  Upload!AddsExactly(batch)
<1> SUFFICES ASSUME multiple, Len(files) <= MaxFiles, Upload!Distinct(files), Upload!addFiles(batch)
             PROVE  /\ files' = files \o added'
                    /\ Len(files') <= MaxFiles /\ Upload!Distinct(files')
                    /\ Upload!Range(added') \cap (BadType \cup TooLarge) = {}
                    /\ \A f \in Upload!Range(batch) \ Upload!Range(added') : Upload!LeftOut(f)
  BY DEF Upload!AddsExactly
<1> DEFINE checked == Upload!Validate(files, batch)
           a == checked.accepted
           all == files \o a
           over == Len(all) > MaxFiles
           kept == IF over THEN Upload!Announced(a, Len(all) - MaxFiles) ELSE a
           next == IF over THEN SubSeq(all, 1, MaxFiles) ELSE all
<1>1. batch \in Seq(File)
  BY ListsTyped DEF Upload!Batches
<1>2. /\ checked \in Verdict /\ a \in Seq(File) /\ all \in Seq(File)
      /\ checked.errors \subseteq errors' /\ (over => <<"too-many-files">> \in errors')
      /\ files' = (IF kept = <<>> THEN files ELSE next) /\ added' = kept
  BY <1>1, AddFilesParts
<1>3. Upload!Distinct(all) /\ Allowed(a) /\ Dealt(checked, batch, Len(batch))
  BY <1>1, ValidateFair DEF Fair
<1> HIDE DEF checked
<1>4. MaxFiles \in Nat /\ Len(all) \in Nat /\ Len(files) \in Nat
  <2> HIDE DEF all
  <2> QED BY <1>2, BoundsFit DEF BoundsFit
\* What is kept is a part of what was accepted, and joins the selection.
<1>5. \E cut \in 0..Len(a) : /\ kept = SubSeq(a, 1, cut) /\ next = files \o kept
                             /\ Len(files \o kept) <= MaxFiles /\ kept \in Seq(File)
                             /\ ~over => cut = Len(a)
  <2>1. CASE over
    <3> HIDE DEF a
    <3> QED BY <2>1, <1>2, CutAgrees
  <2>2. CASE ~over
    <3>1. kept = a /\ next = files \o a /\ Len(files \o a) <= MaxFiles
      BY <2>2, <1>4
    <3>2. Len(a) \in 0..Len(a) /\ a = SubSeq(a, 1, Len(a))
      <4> HIDE DEF a
      <4> QED BY <1>2
    <3> HIDE DEF kept, next, a, over
    <3> QED BY <2>2, <3>1, <3>2, <1>2
  <2> QED BY <2>1, <2>2
<1>6. PICK cut \in 0..Len(a) : /\ kept = SubSeq(a, 1, cut) /\ next = files \o kept
                               /\ Len(files \o kept) <= MaxFiles /\ kept \in Seq(File)
                               /\ ~over => cut = Len(a)
  <2> HIDE DEF kept, next, over, a
  <2> QED BY <1>5
<1>7. /\ DOMAIN kept = 1..cut /\ \A i \in 1..cut : i \in DOMAIN a /\ kept[i] = a[i]
      /\ ~over => kept = a
  <2> HIDE DEF a
  <2>1. DOMAIN SubSeq(a, 1, cut) = 1..cut /\ \A i \in 1..cut : i \in DOMAIN a /\ SubSeq(a, 1, cut)[i] = a[i]
    BY <1>2
  <2>2. SubSeq(a, 1, Len(a)) = a
    BY <1>2
  <2> HIDE DEF kept, over
  <2> QED BY <1>6, <2>1, <2>2
<1>8. added' = kept
  BY <1>2
<1>9. files' = files \o kept
  <2>1. files \o <<>> = files
    OBVIOUS
  <2> HIDE DEF kept, next
  <2> QED BY <1>2, <1>6, <2>1
<1>10. Upload!Distinct(files \o kept)
  <2> DEFINE r == files \o kept
  <2>1. /\ DOMAIN r = 1..(Len(files) + cut) /\ DOMAIN all = 1..(Len(files) + Len(a))
        /\ Len(a) \in Nat /\ cut \in Nat /\ cut <= Len(a)
        /\ \A i \in 1..(Len(files) + cut) : r[i] = all[i]
    <3>0. kept \in Seq(File) /\ Len(kept) = cut /\ Len(a) \in Nat /\ a \in Seq(File)
      <4> HIDE DEF kept, a
      <4> QED BY <1>2, <1>6, <1>7
    <3> HIDE DEF kept, a
    <3>1. DOMAIN r = 1..(Len(files) + cut) /\ DOMAIN all = 1..(Len(files) + Len(a))
      BY <3>0
    <3>2. ASSUME NEW i \in 1..(Len(files) + cut) PROVE r[i] = all[i]
      <4>1. CASE i <= Len(files)
        BY <4>1, <3>0, <1>4
      <4>2. CASE i > Len(files)
        <5>1. i - Len(files) \in 1..cut /\ i \in 1..(Len(files) + Len(kept)) /\ i \in 1..(Len(files) + Len(a))
          BY <4>2, <3>0, <1>4
        <5>2. r[i] = kept[i - Len(files)] /\ all[i] = a[i - Len(files)]
          BY <5>1, <4>2, <3>0, <1>4
        <5> QED BY <5>1, <5>2, <1>7
      <4>3. i \in Int /\ Len(files) \in Int
        BY <3>0, <1>4
      <4>4. i <= Len(files) \/ i > Len(files)
        BY <4>3
      <4> HIDE DEF r, all
      <4> QED BY <4>1, <4>2, <4>4
    <3> QED BY <3>0, <3>1, <3>2
  <2>2. \A i \in DOMAIN r : i \in DOMAIN all /\ r[i] = all[i]
    BY <2>1, <1>4
  <2> HIDE DEF r, all
  <2>3. Upload!Distinct(r)
    BY <2>2, <1>3 DEF Upload!Distinct
  <2> QED BY <2>3 DEF r
<1>11. Upload!Range(kept) \cap (BadType \cup TooLarge) = {}
  <2> HIDE DEF kept, a
  <2> QED BY <1>3, <1>7 DEF Allowed, Upload!Range
<1>12. ASSUME NEW f \in Upload!Range(batch) \ Upload!Range(kept) PROVE Upload!LeftOut(f)
  <2>1. CASE over
    <3>1. <<"too-many-files">> \in errors'
      BY <2>1, <1>2
    <3>2. <<"too-many-files">>[1] = "too-many-files"
      OBVIOUS
    <3> QED BY <3>1, <3>2 DEF Upload!LeftOut
  <2>2. CASE ~over
    <3>1. PICK j \in 1..Len(batch) : f = batch[j]
      BY <1>1 DEF Upload!Range
    <3>2. f \in Upload!Range(a) \/ \E problem : <<problem, f>> \in checked.errors
      BY <1>3, <3>1 DEF Dealt
    <3>3. f \notin Upload!Range(a)
      BY <1>7, <1>12, <2>2
    <3>4. PICK problem : <<problem, f>> \in errors'
      BY <1>2, <3>2, <3>3
    <3>5. Len(<<problem, f>>) = 2 /\ <<problem, f>>[2] = f
      OBVIOUS
    <3> QED BY <3>4, <3>5 DEF Upload!LeftOut
  <2> QED BY <2>1, <2>2
<1> HIDE DEF kept
<1> QED BY <1>6, <1>8, <1>9, <1>10, <1>11, <1>12

\* A batch dropped on a selection of several files that is within maxFiles and free of
\* copies: nothing selected is lost, what is announced is exactly what joined, in
\* order, the result is within its bounds and free of copies again, and a file left
\* out is reported, however many files there are and whatever the batch holds (addFiles
\* and its onFilesAdded).
THEOREM AnnouncementsExact == Spec => AddsWhatItAnnounces
<1>1. Init => files \in Seq(File)
  BY ListsTyped DEF Init, Upload!Init, Upload!Selections
<1>2. files \in Seq(File) /\ [Next]_vars => (files \in Seq(File))'
  BY FilesStayListed DEF Next, vars, uploadVars
<1>3. files \in Seq(File) /\ [Next]_vars
        => [part = "upload" => \A batch \in Upload!Batches : Upload!AddsExactly(batch)]_vars
  BY AddsItsBatch
<1> QED BY <1>1, <1>2, <1>3, PTL DEF Spec, AddsWhatItAnnounces

--------------------------------------------------------------------------------
(* The session pruner *)

Sweeper == [pc : {"idle", "find", "delete"}, at : Nat, batch : SUBSET RowId,
            deleted : Nat, batches : Nat]

RowsTyped ==
  /\ expires \in [RowId -> Nat \cup {Pruning!Absent}]
  /\ born \in SUBSET RowId /\ IsFiniteSet(born) /\ Pruning!Present \subseteq born
  /\ now \in Nat /\ batchSize \in Nat \ {0}

\* Rows that no id names twice: what a sweep holds or has to clean was inserted.
SweepsTyped ==
  /\ sweep \in [SweepId -> Sweeper] /\ due \in [SweepId -> SUBSET RowId]
  /\ \A s \in SweepId : /\ sweep[s].batch \subseteq born /\ due[s] \subseteq born
                        /\ Pruning!Idle(s) => sweep[s].deleted = 0

\* What was expired when a sweep began and is still there is as old as its cutoff,
\* and a batch that is short of the limit has all of it.
DueFound(s) ==
  /\ ~Pruning!Idle(s) => \A r \in due[s] \cap Pruning!Present : expires[r] <= sweep[s].at
  /\ sweep[s].pc = "delete" /\ Pruning!ShortBatch(s) =>
       due[s] \cap Pruning!Present \subseteq sweep[s].batch

\* No more is counted than is gone, and no less while nothing went wrong.
SumsFit == counted \in Nat /\ mishaps \in Nat /\ Pruning!ReportsAddUp

PruneInv == RowsTyped /\ SweepsTyped /\ (\A s \in SweepId : DueFound(s)) /\ SumsFit

\* The rows sweeps under way have deleted, as a sum.
Deletes(sw) == [s \in SweepId |-> sw[s].deleted]
DeletedBy(sw) == SumFunctionOnSet(Deletes(sw), SweepId)

LEMMA UnderwayIsSum ==
  /\ Pruning!Underway = DeletedBy(sweep)
  /\ Pruning!Underway' = DeletedBy(sweep')
<1>1. Pruning!Underway = SumFunctionOnSet(Deletes(sweep), SweepId)
  BY SumUnfolds DEF Pruning!Underway, Pruning!MapThenSumSet, Pruning!MapThenFoldSet, Deletes
<1>2. Pruning!Underway' = SumFunctionOnSet(Deletes(sweep'), SweepId)
  BY SumUnfolds DEF Pruning!Underway, Pruning!MapThenSumSet, Pruning!MapThenFoldSet, Deletes
<1> QED BY <1>1, <1>2 DEF DeletedBy

LEMMA SumTyped ==
  ASSUME IsFiniteSet(SweepId), SweepsTyped
  PROVE  DeletedBy(sweep) \in Nat /\ \A s \in SweepId : Deletes(sweep)[s] \in Nat
<1>1. \A s \in SweepId : Deletes(sweep)[s] \in Nat
  BY DEF SweepsTyped, Deletes, Sweeper
<1> QED BY <1>1, SumByChoice DEF DeletedBy

\* Only sweep s moves: the sum moves as it does.
LEMMA OneSweepMoves ==
  ASSUME IsFiniteSet(SweepId), SweepsTyped, NEW s \in SweepId, NEW q \in Sweeper,
         sweep' = [sweep EXCEPT ![s] = q]
  PROVE  DeletedBy(sweep') \in Nat /\ DeletedBy(sweep') + sweep[s].deleted = DeletedBy(sweep) + q.deleted
<1> DEFINE f == Deletes(sweep)
           g == Deletes(sweep')
           Rest == SweepId \ {s}
<1>1. \A x \in SweepId : f[x] \in Nat /\ g[x] \in Nat
  BY DEF SweepsTyped, Deletes, Sweeper
<1>2. f[s] = sweep[s].deleted /\ g[s] = q.deleted /\ \A x \in Rest : f[x] = g[x]
  BY DEF SweepsTyped, Deletes
<1>3. IsFiniteSet(Rest)
  BY FS_Subset
<1> HIDE DEF f, g
<1>4. SumFunctionOnSet(f, Rest) = SumFunctionOnSet(g, Rest)
  BY <1>1, <1>2, <1>3, SumAgrees
<1>5. /\ SumFunctionOnSet(f, SweepId) = f[s] + SumFunctionOnSet(f, Rest)
      /\ SumFunctionOnSet(f, Rest) \in Nat
  BY <1>1, SumOne
<1>6. SumFunctionOnSet(g, SweepId) = g[s] + SumFunctionOnSet(g, Rest) /\ SumFunctionOnSet(g, SweepId) \in Nat
  BY <1>1, SumOne
<1>7. DeletedBy(sweep) = SumFunctionOnSet(f, SweepId) /\ DeletedBy(sweep') = SumFunctionOnSet(g, SweepId)
  BY DEF DeletedBy, f, g
<1>8. f[s] \in Nat /\ g[s] \in Nat
  BY <1>1
<1> QED BY <1>2, <1>4, <1>5, <1>6, <1>7, <1>8

\* Nothing is under way.
LEMMA NothingDeleted ==
  ASSUME NEW sw, IsFiniteSet(SweepId), \A s \in SweepId : sw[s].deleted = 0
  PROVE  DeletedBy(sw) = 0
<1>1. \A s \in SweepId : Deletes(sw)[s] = 0
  BY DEF Deletes
<1> QED BY <1>1, SumZero DEF DeletedBy

\* More rows gone than told of stays so when as many more go as are told of.
LEMMA ReportsLag ==
  ASSUME NEW c \in Nat, NEW d \in Nat, NEW g \in Nat, NEW m \in Nat,
         NEW b \in Nat, NEW e \in Nat, c + d <= g, b + e <= c + d + m
  PROVE  /\ b + e <= g + m
         /\ c + d = g /\ b + e = c + d + m => b + e = g + m
OBVIOUS

\* The sums move with the rows that go, or fall behind them when something goes wrong.
LEMMA SumsStayFit ==
  ASSUME PruneInv, counted' \in Nat, DeletedBy(sweep') \in Nat, NEW m \in Nat,
         Cardinality((born \ Pruning!Present)') = Cardinality(born \ Pruning!Present) + m,
         \/ /\ mishaps' = mishaps
            /\ counted' + DeletedBy(sweep') = counted + DeletedBy(sweep) + m
         \/ /\ mishaps' = mishaps + 1
            /\ counted' + DeletedBy(sweep') <= counted + DeletedBy(sweep) + m
  PROVE  SumsFit'
<1> DEFINE g == Cardinality(born \ Pruning!Present)
           h == Cardinality((born \ Pruning!Present)')
           c == counted
           b == counted'
           d == DeletedBy(sweep)
           e == DeletedBy(sweep')
<1>1. d \in Nat
  BY SumTyped, PruneAssumption DEF PruneAssumption, PruneInv
<1>2. g \in Nat
  <2>1. IsFiniteSet(born \ Pruning!Present)
    BY FS_Subset DEF PruneInv, RowsTyped
  <2> QED BY <2>1, FS_CardinalityType
<1>3. c \in Nat /\ mishaps \in Nat /\ c + d <= g /\ (mishaps = 0 => c + d = g)
  BY UnderwayIsSum DEF PruneInv, SumsFit, Pruning!ReportsAddUp, Pruning!Cardinality, Cardinality
<1>4. b \in Nat /\ e \in Nat /\ h = g + m
  OBVIOUS
<1>5. \/ mishaps' = mishaps /\ b + e = c + d + m
      \/ mishaps' = mishaps + 1 /\ b + e <= c + d + m
  OBVIOUS
<1> HIDE DEF g, h, b, c, d, e
<1>6. b + e <= c + d + m /\ mishaps' \in Nat
  BY <1>1, <1>3, <1>4, <1>5
<1>7. mishaps' = 0 => mishaps = 0 /\ b + e = c + d + m
  BY <1>3, <1>5
<1>8. b + e <= h
  BY <1>1, <1>2, <1>3, <1>4, <1>6, ReportsLag
<1>9. mishaps' = 0 => b + e = h
  BY <1>1, <1>2, <1>3, <1>4, <1>6, <1>7, ReportsLag
<1> QED BY <1>4, <1>6, <1>8, <1>9, UnderwayIsSum
        DEF SumsFit, Pruning!ReportsAddUp, Pruning!Cardinality, Cardinality, b, e, h

\* Nothing told, nothing gone.
LEMMA SumsRest ==
  ASSUME PruneInv, UNCHANGED <<counted, mishaps, born>>, Pruning!Present' = Pruning!Present,
         DeletedBy(sweep') = DeletedBy(sweep)
  PROVE  SumsFit'
<1>1. DeletedBy(sweep) \in Nat /\ counted \in Nat
  BY SumTyped, PruneAssumption DEF PruneAssumption, PruneInv, SumsFit
<1>2. Cardinality(born \ Pruning!Present) \in Nat
  <2>1. IsFiniteSet(born \ Pruning!Present)
    BY FS_Subset DEF PruneInv, RowsTyped
  <2> QED BY <2>1, FS_CardinalityType
<1>3. (born \ Pruning!Present)' = born \ Pruning!Present
  OBVIOUS
<1>4. Cardinality((born \ Pruning!Present)') = Cardinality(born \ Pruning!Present) + 0
  BY <1>2, <1>3
<1>5. counted' + DeletedBy(sweep') = counted + DeletedBy(sweep) + 0
  BY <1>1
<1> QED BY <1>1, <1>4, <1>5, SumsStayFit

\* Some rows leave the table.
LEMMA RowsLeave ==
  ASSUME PruneInv, NEW rows, expires' = Pruning!Without(rows), UNCHANGED <<now, born, batchSize>>
  PROVE  /\ Pruning!Present' = Pruning!Present \ rows
         /\ \A r \in Pruning!Present' : expires'[r] = expires[r]
         /\ RowsTyped'
         /\ IsFiniteSet(rows \cap Pruning!Present) /\ Cardinality(rows \cap Pruning!Present) \in Nat
         /\ Cardinality((born \ Pruning!Present)')
              = Cardinality(born \ Pruning!Present) + Cardinality(rows \cap Pruning!Present)
<1> DEFINE gone == rows \cap Pruning!Present
<1>1. /\ born \in SUBSET RowId /\ IsFiniteSet(born) /\ Pruning!Present \subseteq born
      /\ expires \in [RowId -> Nat \cup {Pruning!Absent}]
  BY DEF PruneInv, RowsTyped
<1>2. /\ Pruning!Present' = Pruning!Present \ rows
      /\ \A r \in Pruning!Present' : expires'[r] = expires[r]
      /\ expires' \in [RowId -> Nat \cup {Pruning!Absent}]
  BY <1>1 DEF Pruning!Present, Pruning!Absent, Pruning!Without
<1>3. RowsTyped'
  BY <1>1, <1>2 DEF PruneInv, RowsTyped
<1>4. IsFiniteSet(gone) /\ Cardinality(gone) \in Nat
  <2>1. gone \subseteq born
    BY <1>1
  <2> QED BY <2>1, <1>1, FS_Subset, FS_CardinalityType
<1>5. Cardinality((born \ Pruning!Present) \cup gone) = Cardinality(born \ Pruning!Present) + Cardinality(gone)
  <2>1. IsFiniteSet(born \ Pruning!Present)
    BY <1>1, FS_Subset
  <2>2. Cardinality((born \ Pruning!Present) \cap gone) = 0
    <3>1. (born \ Pruning!Present) \cap gone = {}
      OBVIOUS
    <3> QED BY <3>1, FS_EmptySet
  <2>3. Cardinality(born \ Pruning!Present) \in Nat
    BY <2>1, FS_CardinalityType
  <2>4. Cardinality((born \ Pruning!Present) \cup gone)
          = Cardinality(born \ Pruning!Present) + Cardinality(gone)
              - Cardinality((born \ Pruning!Present) \cap gone)
    BY <2>1, <1>4, FS_Union
  <2> HIDE DEF gone
  <2> QED BY <2>2, <2>3, <2>4, <1>4
<1>6. (born \ Pruning!Present)' = (born \ Pruning!Present) \cup gone
  BY <1>1, <1>2
<1> HIDE DEF gone
<1> QED BY <1>2, <1>3, <1>4, <1>5, <1>6 DEF gone

\* The table as it is lacks no row.
LEMMA NoneLeave ==
  ASSUME PruneInv, expires' = expires
  PROVE  expires' = Pruning!Without({})
BY DEF PruneInv, RowsTyped, Pruning!Without

LEMMA PruneInit == ASSUME Pruning!Init PROVE PruneInv
<1>1. \A s \in SweepId : sweep[s] = Pruning!NoSweep /\ sweep[s].deleted = 0 /\ due[s] = {}
  BY DEF Pruning!Init, Pruning!NoSweep
<1>2. Pruning!Present = {}
  BY DEF Pruning!Init, Pruning!Present
<1>3. RowsTyped
  BY <1>2, FS_EmptySet, PruneAssumption DEF RowsTyped, Pruning!Init, PruneAssumption
<1>4. SweepsTyped
  BY <1>1 DEF SweepsTyped, Pruning!Init, Sweeper, Pruning!NoSweep
<1>5. \A s \in SweepId : DueFound(s)
  BY <1>1 DEF DueFound, Pruning!NoSweep, Pruning!Idle
<1>6. SumsFit
  <2>1. DeletedBy(sweep) = 0
    BY <1>1, NothingDeleted, PruneAssumption DEF PruneAssumption
  <2>2. born \ Pruning!Present = {} /\ counted = 0 /\ mishaps = 0
    BY <1>2 DEF Pruning!Init
  <2>3. Cardinality(born \ Pruning!Present) = 0
    BY <2>2, FS_EmptySet
  <2> QED BY <2>1, <2>2, <2>3, UnderwayIsSum DEF SumsFit, Pruning!ReportsAddUp, Pruning!Cardinality, Cardinality
<1> QED BY <1>3, <1>4, <1>5, <1>6 DEF PruneInv

\* A sweep begins: all that is expired then is due.
LEMMA StartKeeps ==
  ASSUME PruneInv, NEW s \in SweepId, Pruning!StartSweep(s)
  PROVE  PruneInv'
<1> DEFINE q == [Pruning!NoSweep EXCEPT !.pc = "find", !.at = now]
<1>1. q \in Sweeper /\ q.deleted = 0 /\ q.pc = "find" /\ q.at = now /\ q.batch = {}
  BY DEF Sweeper, Pruning!NoSweep, PruneInv, RowsTyped
<1>2. /\ sweep' = [sweep EXCEPT ![s] = q] /\ due' = [due EXCEPT ![s] = Pruning!ExpiredBy(now)]
      /\ UNCHANGED <<expires, now, born, counted, mishaps, batchSize>> /\ sweep[s].pc = "idle"
  BY DEF Pruning!StartSweep, Pruning!Idle, Pruning!config
<1> HIDE DEF q
<1>3. Pruning!Present' = Pruning!Present
  BY <1>2 DEF Pruning!Present
<1>4. /\ sweep \in [SweepId -> Sweeper] /\ due \in [SweepId -> SUBSET RowId]
      /\ \A t \in SweepId : sweep'[t] = IF t = s THEN q ELSE sweep[t]
      /\ \A t \in SweepId : due'[t] = IF t = s THEN Pruning!ExpiredBy(now) ELSE due[t]
  BY <1>2 DEF PruneInv, SweepsTyped
<1>5. Pruning!ExpiredBy(now) \subseteq born /\ \A r \in Pruning!ExpiredBy(now) : expires[r] <= now
  BY DEF Pruning!ExpiredBy, PruneInv, RowsTyped
<1>6. RowsTyped'
  BY <1>2, <1>3 DEF PruneInv, RowsTyped
<1>7. SweepsTyped'
  <2>1. sweep' \in [SweepId -> Sweeper] /\ due' \in [SweepId -> SUBSET RowId]
    BY <1>1, <1>2, <1>4, <1>5 DEF PruneInv, RowsTyped
  <2> QED BY <2>1, <1>1, <1>2, <1>4, <1>5 DEF PruneInv, SweepsTyped, Pruning!Idle
<1>8. ASSUME NEW t \in SweepId PROVE DueFound(t)'
  BY <1>1, <1>2, <1>3, <1>4, <1>5 DEF PruneInv, DueFound, Pruning!Idle, Pruning!ShortBatch
<1>9. SumsFit'
  <2>1. sweep[s].deleted = 0
    BY <1>2 DEF PruneInv, SweepsTyped, Pruning!Idle
  <2>2. DeletedBy(sweep') = DeletedBy(sweep)
    <3>1. DeletedBy(sweep') \in Nat /\ DeletedBy(sweep') + sweep[s].deleted = DeletedBy(sweep) + q.deleted
      BY <1>1, <1>2, OneSweepMoves, PruneAssumption DEF PruneAssumption, PruneInv
    <3>2. DeletedBy(sweep) \in Nat
      BY SumTyped, PruneAssumption DEF PruneAssumption, PruneInv
    <3> QED BY <2>1, <1>1, <3>1, <3>2
  <2> QED BY <2>2, <1>2, <1>3, SumsRest
<1> QED BY <1>6, <1>7, <1>8, <1>9 DEF PruneInv

\* A step that leaves the other sweeps alone and puts sweep s at rest, with what it
\* deleted counted; rows may have gone that it knows nothing of.
LEMMA EndKeeps ==
  ASSUME PruneInv, NEW s \in SweepId, Pruning!End(s), UNCHANGED <<now, born, batchSize>>,
         NEW rows, expires' = Pruning!Without(rows),
         (rows = {} /\ mishaps' = mishaps) \/ mishaps' = mishaps + 1
  PROVE  PruneInv'
<1> DEFINE q == Pruning!NoSweep
<1>1. q \in Sweeper /\ q.deleted = 0 /\ q.pc = "idle" /\ q.batch = {}
  BY DEF Sweeper, Pruning!NoSweep
<1>2. /\ sweep' = [sweep EXCEPT ![s] = q] /\ due' = [due EXCEPT ![s] = {}]
      /\ counted' = counted + sweep[s].deleted
  BY DEF Pruning!End
<1> HIDE DEF q
<1>3. /\ Pruning!Present' \subseteq Pruning!Present
      /\ \A r \in Pruning!Present' : expires'[r] = expires[r]
      /\ RowsTyped'
  BY RowsLeave
<1>4. /\ sweep \in [SweepId -> Sweeper] /\ due \in [SweepId -> SUBSET RowId]
      /\ \A t \in SweepId : sweep'[t] = IF t = s THEN q ELSE sweep[t]
      /\ \A t \in SweepId : due'[t] = IF t = s THEN {} ELSE due[t]
  BY <1>2 DEF PruneInv, SweepsTyped
<1>7. SweepsTyped'
  <2>1. sweep' \in [SweepId -> Sweeper] /\ due' \in [SweepId -> SUBSET RowId]
    BY <1>1, <1>2, <1>4
  <2> QED BY <2>1, <1>1, <1>4 DEF PruneInv, SweepsTyped, Pruning!Idle
<1>8. ASSUME NEW t \in SweepId PROVE DueFound(t)'
  BY <1>1, <1>3, <1>4 DEF PruneInv, DueFound, Pruning!Idle, Pruning!ShortBatch
<1>9. SumsFit'
  <2>1. DeletedBy(sweep') \in Nat /\ DeletedBy(sweep') + sweep[s].deleted = DeletedBy(sweep) + q.deleted
    BY <1>1, <1>2, OneSweepMoves, PruneAssumption DEF PruneAssumption, PruneInv
  <2>2. DeletedBy(sweep) \in Nat /\ sweep[s].deleted \in Nat
    BY <1>4, SumTyped, PruneAssumption DEF PruneAssumption, PruneInv, Sweeper
  <2>3. counted' \in Nat /\ counted' + DeletedBy(sweep') = counted + DeletedBy(sweep)
    BY <1>1, <1>2, <2>1, <2>2 DEF PruneInv, SumsFit
  <2> DEFINE m == Cardinality(rows \cap Pruning!Present)
  <2>4. m \in Nat /\ Cardinality((born \ Pruning!Present)') = Cardinality(born \ Pruning!Present) + m
    BY RowsLeave
  <2>5. rows = {} => m = 0
    BY FS_EmptySet
  <2> HIDE DEF m
  <2>6. counted \in Nat /\ DeletedBy(sweep') \in Nat
    BY <2>1 DEF PruneInv, SumsFit
  <2>7. \/ mishaps' = mishaps /\ counted' + DeletedBy(sweep') = counted + DeletedBy(sweep) + m
        \/ mishaps' = mishaps + 1 /\ counted' + DeletedBy(sweep') <= counted + DeletedBy(sweep) + m
    BY <2>2, <2>3, <2>4, <2>5, <2>6
  <2> QED BY <2>3, <2>4, <2>6, <2>7, SumsStayFit
<1> QED BY <1>3, <1>7, <1>8, <1>9 DEF PruneInv

\* What findMany finds: all that is expired, or a full batch of it.
LEMMA BatchFound ==
  ASSUME NEW t, NEW batch \in Pruning!Batches(t)
  PROVE  /\ batch \subseteq Pruning!ExpiredBy(t)
         /\ batch = Pruning!ExpiredBy(t) \/ Cardinality(batch) = batchSize
<1>1. CASE batch = Pruning!ExpiredBy(t)
  BY <1>1
<1>2. CASE batch \in Pruning!kSubset(batchSize, Pruning!ExpiredBy(t))
  BY <1>2 DEF Pruning!kSubset, Pruning!Cardinality, Cardinality
<1> QED BY <1>1, <1>2 DEF Pruning!Batches

\* A row that is due and there is still expired by the cutoff of its sweep.
LEMMA DueExpired ==
  ASSUME PruneInv, NEW s \in SweepId, ~Pruning!Idle(s)
  PROVE  due[s] \cap Pruning!Present \subseteq Pruning!ExpiredBy(sweep[s].at)
BY DEF PruneInv, DueFound, Pruning!ExpiredBy

\* The answer to findMany: the sweep ends, or holds a batch.
LEMMA FoundKeeps ==
  ASSUME PruneInv, NEW s \in SweepId, Pruning!FoundExpired(s)
  PROVE  PruneInv'
<1>1. /\ sweep[s].pc = "find" /\ UNCHANGED <<expires, now, born, mishaps, batchSize>>
  BY DEF Pruning!FoundExpired, Pruning!config
<1>2. PICK batch \in Pruning!Batches(sweep[s].at) :
        IF batch = {} THEN Pruning!End(s)
        ELSE /\ sweep' = [sweep EXCEPT ![s].pc = "delete", ![s].batch = batch]
             /\ UNCHANGED <<counted, due>>
  BY DEF Pruning!FoundExpired
<1>3. CASE batch = {}
  BY <1>1, <1>2, <1>3, EndKeeps, NoneLeave
<1>4. CASE batch # {}
  <2> DEFINE q == [sweep[s] EXCEPT !.pc = "delete", !.batch = batch]
  <2>1. batch \subseteq Pruning!ExpiredBy(sweep[s].at)
        /\ (batch = Pruning!ExpiredBy(sweep[s].at) \/ Cardinality(batch) = batchSize)
    BY BatchFound
  <2>2. Pruning!ExpiredBy(sweep[s].at) \subseteq Pruning!Present /\ Pruning!Present \subseteq born
        /\ born \subseteq RowId
    BY DEF Pruning!ExpiredBy, PruneInv, RowsTyped
  <2>3. sweep \in [SweepId -> Sweeper]
    BY DEF PruneInv, SweepsTyped
  <2>4. /\ q \in Sweeper /\ q.deleted = sweep[s].deleted /\ q.pc = "delete" /\ q.at = sweep[s].at
        /\ q.batch = batch
    BY <2>1, <2>2, <2>3 DEF Sweeper
  <2>5. sweep' = [sweep EXCEPT ![s] = q] /\ UNCHANGED <<counted, due>>
    BY <1>2, <1>4, <2>3
  <2> HIDE DEF q
  <2>6. \A t \in SweepId : sweep'[t] = IF t = s THEN q ELSE sweep[t]
    BY <2>3, <2>5
  <2>7. Pruning!Present' = Pruning!Present
    BY <1>1 DEF Pruning!Present
  <2>8. RowsTyped'
    BY <1>1, <2>7 DEF PruneInv, RowsTyped
  <2>9. SweepsTyped'
    <3>1. sweep' \in [SweepId -> Sweeper]
      BY <2>3, <2>4, <2>5
    <3>2. due' = due /\ born' = born
      BY <1>1, <2>5
    <3> QED BY <3>1, <3>2, <2>1, <2>2, <2>4, <2>6 DEF PruneInv, SweepsTyped, Pruning!Idle
  <2>10. ASSUME NEW t \in SweepId PROVE DueFound(t)'
    <3>1. CASE t # s
      BY <1>1, <2>5, <2>6, <2>7, <3>1 DEF PruneInv, DueFound, Pruning!Idle, Pruning!ShortBatch
    <3>2. CASE t = s
      <4>1. due[s] \cap Pruning!Present \subseteq Pruning!ExpiredBy(sweep[s].at)
        BY <1>1, DueExpired DEF Pruning!Idle
      <4>2. sweep'[s] = q /\ due'[s] = due[s] /\ expires' = expires
        BY <1>1, <2>5, <2>6
      <4>3. \A r \in due[s] \cap Pruning!Present : expires[r] <= sweep[s].at
        BY <4>1 DEF Pruning!ExpiredBy
      <4>4. Pruning!ShortBatch(s)' => due[s] \cap Pruning!Present \subseteq batch
        <5>1. Pruning!ShortBatch(s)' <=> Cardinality(batch) < batchSize
          BY <1>1, <2>4, <4>2 DEF Pruning!ShortBatch, Pruning!Cardinality, Cardinality
        <5>2. batchSize \in Nat
          BY DEF PruneInv, RowsTyped
        <5> QED BY <5>1, <5>2, <2>1, <4>1
      <4> QED BY <3>2, <4>2, <4>3, <4>4, <2>4, <2>7 DEF DueFound, Pruning!Idle
    <3> QED BY <3>1, <3>2
  <2>11. SumsFit'
    <3>1. DeletedBy(sweep') \in Nat /\ DeletedBy(sweep') + sweep[s].deleted = DeletedBy(sweep) + q.deleted
      BY <2>4, <2>5, OneSweepMoves, PruneAssumption DEF PruneAssumption, PruneInv
    <3>2. DeletedBy(sweep) \in Nat /\ sweep[s].deleted \in Nat
      BY <2>3, SumTyped, PruneAssumption DEF PruneAssumption, PruneInv, Sweeper
    <3>3. DeletedBy(sweep') = DeletedBy(sweep)
      BY <2>4, <3>1, <3>2
    <3> QED BY <1>1, <2>5, <2>7, <3>3, SumsRest
  <2> QED BY <2>8, <2>9, <2>10, <2>11 DEF PruneInv
<1> QED BY <1>3, <1>4

\* The answer to deleteMany: the rows of the batch are gone, and those that were there
\* are counted; the sweep ends or looks for more.
LEMMA DeletedKeeps ==
  ASSUME PruneInv, NEW s \in SweepId, Pruning!Deleted(s)
  PROVE  PruneInv'
<1> DEFINE gone == Pruning!Deletions(s)
           q == [sweep[s] EXCEPT !.pc = "find", !.batch = {}, !.batches = @ + 1,
                                 !.deleted = @ + Cardinality(gone)]
           last == Pruning!ShortBatch(s) \/ q.batches >= maxBatches \/ stopped
           next == IF last THEN Pruning!NoSweep ELSE q
<1>1. /\ sweep[s].pc = "delete" /\ UNCHANGED <<now, born, mishaps, batchSize>>
      /\ expires' = Pruning!Without(sweep[s].batch)
      /\ sweep' = [sweep EXCEPT ![s] = next]
      /\ due' = [due EXCEPT ![s] = IF last THEN {} ELSE @]
      /\ counted' = counted + IF last THEN q.deleted ELSE 0
  BY DEF Pruning!Deleted, Pruning!Cardinality, Cardinality, Pruning!config
<1>2. sweep \in [SweepId -> Sweeper] /\ due \in [SweepId -> SUBSET RowId]
  BY DEF PruneInv, SweepsTyped
<1>3. /\ sweep[s].deleted \in Nat /\ sweep[s].batches \in Nat /\ sweep[s].batch \subseteq born
  BY <1>2 DEF PruneInv, RowsTyped, SweepsTyped, Sweeper
<1>4. gone = sweep[s].batch \cap Pruning!Present /\ IsFiniteSet(gone) /\ Cardinality(gone) \in Nat
  BY <1>1, RowsLeave DEF Pruning!Deletions
<1> HIDE DEF gone
<1>5. /\ q \in Sweeper /\ q.deleted = sweep[s].deleted + Cardinality(gone) /\ q.at = sweep[s].at
      /\ q.pc = "find" /\ q.batch = {}
  <2>1. sweep[s] \in Sweeper
    BY <1>2
  <2>2. sweep[s].deleted + Cardinality(gone) \in Nat /\ sweep[s].batches + 1 \in Nat
    BY <1>3, <1>4
  <2>3. q = [sweep[s] EXCEPT !.pc = "find", !.batch = {}, !.batches = sweep[s].batches + 1,
                             !.deleted = sweep[s].deleted + Cardinality(gone)]
    BY <2>1 DEF Sweeper
  <2> HIDE DEF q
  <2> QED BY <2>1, <2>2, <2>3 DEF Sweeper
<1>6. /\ next \in Sweeper /\ next.batch = {} /\ next.pc # "delete"
      /\ next.deleted = (IF last THEN 0 ELSE q.deleted)
      /\ next.pc = "idle" => next.deleted = 0 /\ last
      /\ last => next.pc = "idle"
      /\ ~last => next.at = sweep[s].at
  BY <1>5 DEF Sweeper, Pruning!NoSweep
<1> HIDE DEF q, last, next
<1>7. /\ \A t \in SweepId : sweep'[t] = IF t = s THEN next ELSE sweep[t]
      /\ \A t \in SweepId : due'[t] \subseteq due[t]
      /\ due' \in [SweepId -> SUBSET RowId]
  BY <1>1, <1>2
<1>8. /\ Pruning!Present' = Pruning!Present \ sweep[s].batch
      /\ \A r \in Pruning!Present' : expires'[r] = expires[r]
      /\ RowsTyped'
  BY <1>1, RowsLeave
<1>10. SweepsTyped'
  <2>1. sweep' \in [SweepId -> Sweeper]
    BY <1>1, <1>2, <1>6
  <2> QED BY <2>1, <1>1, <1>6, <1>7 DEF PruneInv, SweepsTyped, Pruning!Idle
<1>11. ASSUME NEW t \in SweepId PROVE DueFound(t)'
  <2>1. due'[t] \cap Pruning!Present' \subseteq due[t] \cap Pruning!Present
    BY <1>7, <1>8
  <2>2. CASE t # s
    <3>1. sweep'[t] = sweep[t]
      BY <1>7, <2>2
    <3> QED BY <3>1, <2>1, <1>1, <1>8 DEF PruneInv, DueFound, Pruning!Idle, Pruning!ShortBatch
  <2>3. CASE t = s
    <3>1. sweep'[t] = next
      BY <1>7, <2>3
    <3>2. next.pc # "idle" => next.at = sweep[s].at
      BY <1>6
    <3>3. \A r \in due[s] \cap Pruning!Present : expires[r] <= sweep[s].at
      BY <1>1 DEF PruneInv, DueFound, Pruning!Idle
    <3> QED BY <3>1, <3>2, <3>3, <2>1, <2>3, <1>6, <1>8 DEF DueFound, Pruning!Idle
  <2> QED BY <2>2, <2>3
<1>12. SumsFit'
  <2>1. DeletedBy(sweep') \in Nat /\ DeletedBy(sweep') + sweep[s].deleted = DeletedBy(sweep) + next.deleted
    BY <1>1, <1>6, OneSweepMoves, PruneAssumption DEF PruneAssumption, PruneInv
  <2>2. DeletedBy(sweep) \in Nat
    BY SumTyped, PruneAssumption DEF PruneAssumption, PruneInv
  <2>3. counted \in Nat
    BY DEF PruneInv, SumsFit
  <2>4. /\ counted' = counted + (IF last THEN q.deleted ELSE 0)
        /\ next.deleted = (IF last THEN 0 ELSE q.deleted)
        /\ q.deleted = sweep[s].deleted + Cardinality(gone)
    BY <1>1, <1>5, <1>6
  <2>5. counted' \in Nat /\ counted' + DeletedBy(sweep') = counted + DeletedBy(sweep) + Cardinality(gone)
    <3>1. CASE last
      BY <3>1, <2>1, <2>2, <2>3, <2>4, <1>3, <1>4
    <3>2. CASE ~last
      BY <3>2, <2>1, <2>2, <2>3, <2>4, <1>3, <1>4
    <3> QED BY <3>1, <3>2
  <2>6. Cardinality((born \ Pruning!Present)') = Cardinality(born \ Pruning!Present) + Cardinality(gone)
    BY <1>1, <1>4, RowsLeave
  <2> QED BY <1>1, <1>4, <2>1, <2>5, <2>6, SumsStayFit
<1> QED BY <1>8, <1>10, <1>11, <1>12 DEF PruneInv

\* A sign-in or a rotation inserts a row under an id of its own, which nobody waits for.
LEMMA SignInKeeps ==
  ASSUME PruneInv, NEW r \in RowId, Pruning!SignIn(r)
  PROVE  PruneInv'
<1>1. /\ r \notin born /\ born' = born \cup {r}
      /\ UNCHANGED <<now, sweep, counted, due, mishaps, batchSize>>
  BY DEF Pruning!SignIn, Pruning!config
<1>2. PICK e \in {now + Ttl} \cup {expires[q] : q \in Pruning!Present} :
        expires' = [expires EXCEPT ![r] = e]
  BY DEF Pruning!SignIn
<1>3. /\ born \in SUBSET RowId /\ IsFiniteSet(born) /\ Pruning!Present \subseteq born
      /\ expires \in [RowId -> Nat \cup {Pruning!Absent}] /\ now \in Nat /\ Ttl \in Nat
      /\ batchSize \in Nat \ {0}
  BY PruneAssumption DEF PruneInv, RowsTyped, PruneAssumption
<1>4. e \in Nat /\ e # Pruning!Absent
  BY <1>3 DEF Pruning!Present, Pruning!Absent
<1>5. /\ Pruning!Present' = Pruning!Present \cup {r}
      /\ \A x \in RowId : x # r => expires'[x] = expires[x]
      /\ expires' \in [RowId -> Nat \cup {Pruning!Absent}]
  BY <1>2, <1>3, <1>4 DEF Pruning!Present
<1>6. IsFiniteSet(born')
  BY <1>1, <1>3, FS_AddElement
<1>7. RowsTyped'
  BY <1>1, <1>3, <1>5, <1>6 DEF RowsTyped, Pruning!Absent
<1>8. SweepsTyped'
  BY <1>1 DEF PruneInv, SweepsTyped, Pruning!Idle
<1>9. ASSUME NEW t \in SweepId PROVE DueFound(t)'
  <2>1. due[t] \subseteq born
    BY DEF PruneInv, SweepsTyped
  <2>2. due'[t] = due[t] /\ sweep'[t] = sweep[t]
        /\ due[t] \cap Pruning!Present' = due[t] \cap Pruning!Present
    BY <1>1, <1>5, <2>1
  <2>3. \A x \in due[t] \cap Pruning!Present : expires'[x] = expires[x]
    BY <1>1, <1>3, <1>5, <2>1
  <2> QED BY <1>1, <2>2, <2>3 DEF PruneInv, DueFound, Pruning!Idle, Pruning!ShortBatch
<1>10. SumsFit'
  <2>1. (born \ Pruning!Present)' = born \ Pruning!Present /\ counted' = counted /\ sweep' = sweep
    BY <1>1, <1>3, <1>5
  <2>2. DeletedBy(sweep) \in Nat /\ counted \in Nat /\ Cardinality(born \ Pruning!Present) \in Nat
    <3>1. IsFiniteSet(born \ Pruning!Present)
      BY <1>3, FS_Subset
    <3> QED BY <3>1, FS_CardinalityType, SumTyped, PruneAssumption
            DEF PruneAssumption, PruneInv, SumsFit
  <2>3. /\ Cardinality((born \ Pruning!Present)') = Cardinality(born \ Pruning!Present) + 0
        /\ counted' + DeletedBy(sweep') = counted + DeletedBy(sweep) + 0
        /\ DeletedBy(sweep') = DeletedBy(sweep)
    <3>1. DeletedBy(sweep') = DeletedBy(sweep)
      BY <2>1
    <3> DEFINE d == DeletedBy(sweep)
               dd == DeletedBy(sweep')
    <3> HIDE DEF d, dd
    <3>2. d \in Nat /\ dd = d
      BY <3>1, <2>2 DEF d, dd
    <3>3. counted' + dd = counted + d + 0
      BY <3>2, <2>1, <2>2
    <3>4. Cardinality((born \ Pruning!Present)') = Cardinality(born \ Pruning!Present) + 0
      BY <2>1, <2>2
    <3> QED BY <3>1, <3>3, <3>4 DEF d, dd
  <2> QED BY <1>1, <2>1, <2>2, <2>3, SumsStayFit
<1> QED BY <1>7, <1>8, <1>9, <1>10 DEF PruneInv

\* The process is killed: what its sweeps deleted stays deleted, unreported.
LEMMA RestartKeeps ==
  ASSUME PruneInv, Pruning!Restart
  PROVE  PruneInv'
<1>1. /\ sweep' = [s \in SweepId |-> Pruning!NoSweep] /\ due' = [s \in SweepId |-> {}]
      /\ UNCHANGED <<now, born, counted, batchSize>> /\ mishaps' = mishaps + 1
  BY DEF Pruning!Restart, Pruning!config
<1>2. PICK rows : expires' = Pruning!Without(rows)
  BY DEF Pruning!Restart
<1>3. \A s \in SweepId : sweep'[s] = Pruning!NoSweep /\ sweep'[s].deleted = 0 /\ due'[s] = {}
  BY <1>1 DEF Pruning!NoSweep
<1>4. RowsTyped'
  BY <1>1, <1>2, RowsLeave
<1>5. SweepsTyped'
  <2>1. Pruning!NoSweep \in Sweeper
    BY DEF Pruning!NoSweep, Sweeper
  <2> QED BY <2>1, <1>1, <1>3 DEF SweepsTyped, Pruning!NoSweep
<1>6. \A s \in SweepId : DueFound(s)'
  BY <1>3 DEF DueFound, Pruning!NoSweep
<1>7. SumsFit'
  <2> DEFINE m == Cardinality(rows \cap Pruning!Present)
  <2>1. DeletedBy(sweep') = 0
    BY <1>3, NothingDeleted, PruneAssumption DEF PruneAssumption
  <2>2. DeletedBy(sweep) \in Nat /\ counted \in Nat
    BY SumTyped, PruneAssumption DEF PruneAssumption, PruneInv, SumsFit
  <2>3. m \in Nat /\ Cardinality((born \ Pruning!Present)') = Cardinality(born \ Pruning!Present) + m
    BY <1>1, <1>2, RowsLeave
  <2> HIDE DEF m
  <2>4. counted' + DeletedBy(sweep') <= counted + DeletedBy(sweep) + m
    BY <1>1, <2>1, <2>2, <2>3
  <2> QED BY <1>1, <2>1, <2>2, <2>3, <2>4, SumsStayFit
<1> QED BY <1>4, <1>5, <1>6, <1>7 DEF PruneInv

\* The clock and the shutdown touch no row and no sweep.
LEMMA IdleKeeps ==
  ASSUME PruneInv, UNCHANGED <<expires, sweep, born, counted, due, mishaps, batchSize>>, now' \in Nat
  PROVE  PruneInv'
<1>1. Pruning!Present' = Pruning!Present
  BY DEF Pruning!Present
<1>2. RowsTyped' /\ SweepsTyped'
  BY <1>1 DEF PruneInv, RowsTyped, SweepsTyped, Pruning!Idle
<1>3. ASSUME NEW t \in SweepId PROVE DueFound(t)'
  BY <1>1 DEF PruneInv, DueFound, Pruning!Idle, Pruning!ShortBatch
<1>4. SumsFit'
  BY <1>1, SumsRest
<1> QED BY <1>2, <1>3, <1>4 DEF PruneInv

LEMMA PruneMoves ==
  ASSUME PruneInv, Pruning!Next \/ UNCHANGED Pruning!vars
  PROVE  PruneInv'
<1>0. now \in Nat
  BY DEF PruneInv, RowsTyped
<1>1. CASE Pruning!Tick
  BY <1>0, <1>1, IdleKeeps DEF Pruning!Tick, Pruning!config
<1>2. CASE Pruning!OnModuleDestroy
  BY <1>0, <1>2, IdleKeeps DEF Pruning!OnModuleDestroy, Pruning!config
<1>3. CASE UNCHANGED Pruning!vars
  BY <1>0, <1>3, IdleKeeps DEF Pruning!vars, Pruning!config
<1>4. ASSUME NEW s \in SweepId, Pruning!QueryFails(s) PROVE PruneInv'
  <2>1. PICK rows : expires' = Pruning!Without(rows)
    BY <1>4, NoneLeave DEF Pruning!QueryFails
  <2> QED BY <1>4, <2>1, EndKeeps DEF Pruning!QueryFails, Pruning!config
<1> QED BY <1>1, <1>2, <1>3, <1>4, SignInKeeps, StartKeeps, FoundKeeps, DeletedKeeps, RestartKeeps
        DEF Pruning!Next, Pruning!Query

\* What a sweep leaves that stops on an empty or a short batch.
LEMMA EndsCleanly ==
  ASSUME PruneInv, NEW s \in SweepId, Pruning!EndsClean(s)
  PROVE  due[s] \cap Pruning!Present' = {}
<1>1. CASE Pruning!FoundExpired(s) /\ sweep'[s].pc = "idle"
  <2>1. sweep[s].pc = "find" /\ expires' = expires
    BY <1>1 DEF Pruning!FoundExpired
  <2>2. PICK batch \in Pruning!Batches(sweep[s].at) :
          IF batch = {} THEN Pruning!End(s)
          ELSE sweep' = [sweep EXCEPT ![s].pc = "delete", ![s].batch = batch]
    BY <1>1 DEF Pruning!FoundExpired
  <2>3. batch = {}
    <3>1. CASE batch # {}
      <4>1. sweep \in [SweepId -> Sweeper]
        BY DEF PruneInv, SweepsTyped
      <4>2. sweep'[s].pc = "delete"
        BY <2>2, <3>1, <4>1 DEF Sweeper
      <4> QED BY <4>2, <1>1
    <3> QED BY <3>1
  <2>4. Pruning!ExpiredBy(sweep[s].at) = {}
    <3>1. Cardinality(batch) # batchSize
      BY <2>3, FS_EmptySet DEF PruneInv, RowsTyped
    <3> QED BY <3>1, <2>3, BatchFound
  <2>5. due[s] \cap Pruning!Present \subseteq Pruning!ExpiredBy(sweep[s].at)
    BY <2>1, DueExpired DEF Pruning!Idle
  <2>6. Pruning!Present' = Pruning!Present
    BY <2>1 DEF Pruning!Present
  <2> QED BY <2>4, <2>5, <2>6
<1>2. CASE Pruning!Deleted(s) /\ Pruning!ShortBatch(s)
  <2>1. /\ sweep[s].pc = "delete"
        /\ expires' = Pruning!Without(sweep[s].batch)
    BY <1>2 DEF Pruning!Deleted
  <2>2. due[s] \cap Pruning!Present \subseteq sweep[s].batch
    BY <1>2, <2>1 DEF PruneInv, DueFound
  <2>3. Pruning!Present' \subseteq Pruning!Present \ sweep[s].batch
    BY <2>1 DEF Pruning!Present, Pruning!Without
  <2> QED BY <2>2, <2>3
<1> QED BY <1>1, <1>2 DEF Pruning!EndsClean

\* What the invariant rests on, from the start on.
LEMMA PruneInvariance == Spec => []PruneInv
<1>1. Init => PruneInv
  BY PruneInit DEF Init
<1>2. PruneInv /\ [Next]_vars => PruneInv'
  BY PruneMoves DEF Next, vars, pruneVars, Pruning!vars, Pruning!config
<1> QED BY <1>1, <1>2, PTL DEF Spec

\* A sweep that stops on an empty or a short batch has cleaned the table of every row
\* that was expired when it began, whoever deleted it, whatever the batch size and the
\* ceiling (session-prune.service.ts).
THEOREM SweepsEndClean == Spec => CleanSweep
<1>1. PruneInv /\ [Next]_vars
        => [\A s \in SweepId : Pruning!EndsClean(s) => Pruning!LeavesClean(s)]_pruneVars
  BY EndsCleanly DEF Pruning!LeavesClean
<1> QED BY <1>1, PruneInvariance, PTL DEF Spec, CleanSweep

\* No row is reported as deleted twice, however many sweeps overlap: what they report is
\* at most what is gone, whatever fails or is killed, and all of it while nothing does
\* (deleteMany's count, session-prune.service.ts).
THEOREM RowsReportedOnce == Spec => []ReportsAddUp
<1>1. PruneInv => ReportsAddUp
  BY DEF PruneInv, SumsFit, ReportsAddUp
<1> QED BY <1>1, PruneInvariance, PTL
================================================================================
