-------------------------------- MODULE AppForm --------------------------------
(***************************************************************************)
(* The accounting of submissions in useAppForm                             *)
(* (packages/ui/src/ui/integrations/form/createAppForm.tsx): a form keeps  *)
(* a count of failed submissions which two pieces of code write, the       *)
(* wrapped onSubmit when the server has answered, and an effect that runs  *)
(* after every render and reads the validity and the progress of TanStack  *)
(* Form.  A reference, lastCounted, is all that keeps an attempt from      *)
(* being counted by both.  TanStack's own submission pipeline is external. *)
(*                                                                         *)
(* Renders, and the effect after them, come between any two events; a      *)
(* continuation of the pipeline may run before or after the render of the  *)
(* step before it.  The validators are synchronous, as in every form of    *)
(* this repository, and nothing resets the form.                           *)
(***************************************************************************)
EXTENDS Naturals

CONSTANT MaxAttempts \* bound on submissions

VARIABLES
  hasOnSubmit,  \* the consumer gave an onSubmit handler
  store,        \* TanStack: submissionAttempts, isSubmitting, isSubmitSuccessful
  fieldErrors,  \* TanStack: some field is invalid
  serverErrors, \* an error of the server is shown (onServer, field onSubmit)
  phase,        \* where the pipeline of the present submission stands
  rendered,     \* the effect has run since the last change it depends on
  failCount,    \* submitFailCount
  lastCounted,  \* lastCountedAttemptRef
  inFlight,     \* serverSubmitInFlightRef
  streak,       \* history: failed attempts since the last success
  thrown,       \* history: attempts since then in which consumer code threw
  outcome       \* history: how the latest attempt ended

vars == <<hasOnSubmit, store, fieldErrors, serverErrors, phase, rendered,
          failCount, lastCounted, inFlight, streak, thrown, outcome>>

isValid == ~fieldErrors /\ ~serverErrors

submitSuccess == store.successful /\ failCount = 0 /\ ~store.submitting

TypeOK ==
  /\ hasOnSubmit \in BOOLEAN
  /\ store \in [attempts : 0..MaxAttempts, submitting : BOOLEAN, successful : BOOLEAN]
  /\ {fieldErrors, serverErrors, rendered, inFlight} \subseteq BOOLEAN
  /\ phase \in {"idle", "validating", "sending", "callback"}
  /\ {failCount, lastCounted, streak, thrown} \subseteq 0..MaxAttempts
  /\ outcome \in {"none", "good", "bad", "threw"}

Init ==
  /\ hasOnSubmit \in BOOLEAN
  /\ store = [attempts |-> 0, submitting |-> FALSE, successful |-> FALSE]
  /\ fieldErrors = FALSE /\ serverErrors = FALSE
  /\ phase = "idle"
  /\ rendered = TRUE
  /\ failCount = 0 /\ lastCounted = 0 /\ inFlight = FALSE
  /\ streak = 0 /\ thrown = 0 /\ outcome = "none"

Fails == streak' = streak + 1 /\ outcome' = "bad" /\ UNCHANGED thrown

Succeeds == streak' = 0 /\ thrown' = 0 /\ outcome' = "good"

--------------------------------------------------------------------------------
(* Events *)

\* Form.handleSubmit, from a SubmitButton that is not disabled: the errors of
\* the server are cleared first, then TanStack counts the attempt and refuses
\* it at once while a field is invalid.
Submit ==
  /\ rendered /\ phase = "idle" /\ store.attempts < MaxAttempts
  /\ serverErrors' = FALSE
  /\ store' = [attempts |-> store.attempts + 1, submitting |-> ~fieldErrors,
               successful |-> FALSE]
  /\ rendered' = FALSE
  /\ IF fieldErrors THEN phase' = "idle" /\ Fails
                    ELSE phase' = "validating" /\ outcome' = "none"
                         /\ UNCHANGED <<streak, thrown>>
  /\ UNCHANGED <<hasOnSubmit, fieldErrors, failCount, lastCounted, inFlight>>

\* The user edits a field at any moment a validator is not running: its change
\* and blur validators decide, and an error the server put on the field goes.
Edit ==
  /\ rendered /\ phase # "validating"
  /\ fieldErrors' \in BOOLEAN
  /\ serverErrors' \in {serverErrors, FALSE}
  /\ rendered' = FALSE
  /\ UNCHANGED <<hasOnSubmit, store, phase, failCount, lastCounted, inFlight, streak,
                 thrown, outcome>>

--------------------------------------------------------------------------------
(* The pipeline *)

\* A validator refuses the values: TanStack stops here.
Refused ==
  /\ phase = "validating"
  /\ fieldErrors' = TRUE
  /\ store' = [store EXCEPT !.submitting = FALSE]
  /\ phase' = "idle" /\ rendered' = FALSE
  /\ Fails
  /\ UNCHANGED <<hasOnSubmit, serverErrors, failCount, lastCounted, inFlight>>

\* Without a handler a valid submission is a successful one.
SettleAlone ==
  /\ phase = "validating" /\ ~hasOnSubmit
  /\ store' = [store EXCEPT !.submitting = FALSE, !.successful = TRUE]
  /\ phase' = "idle" /\ rendered' = FALSE
  /\ Succeeds
  /\ UNCHANGED <<hasOnSubmit, fieldErrors, serverErrors, failCount, lastCounted, inFlight>>

Send ==
  /\ phase = "validating" /\ hasOnSubmit
  /\ phase' = "sending"
  /\ inFlight' = TRUE
  /\ UNCHANGED <<hasOnSubmit, store, fieldErrors, serverErrors, rendered, failCount,
                 lastCounted, streak, thrown, outcome>>

\* The handler's answer is an error: counted here, shown, and onError called.
AnswerError ==
  /\ phase = "sending"
  /\ lastCounted' = store.attempts
  /\ failCount' = failCount + 1
  /\ serverErrors' = TRUE
  /\ phase' = "callback" /\ rendered' = FALSE
  /\ Fails
  /\ UNCHANGED <<hasOnSubmit, store, fieldErrors, inFlight>>

AnswerOK ==
  /\ phase = "sending"
  /\ lastCounted' = store.attempts
  /\ failCount' = 0
  /\ phase' = "callback" /\ rendered' = FALSE
  /\ Succeeds
  /\ UNCHANGED <<hasOnSubmit, store, fieldErrors, serverErrors, inFlight>>

\* The handler or the callback throws: TanStack takes the attempt as failed.
Throw ==
  /\ phase \in {"sending", "callback"}
  /\ inFlight' = FALSE
  /\ store' = [store EXCEPT !.submitting = FALSE, !.successful = FALSE]
  /\ phase' = "idle" /\ rendered' = FALSE
  /\ thrown' = thrown + 1 /\ outcome' = "threw"
  /\ UNCHANGED <<hasOnSubmit, fieldErrors, serverErrors, failCount, lastCounted, streak>>

\* The callback returns.  A rejected submission resolves too: TanStack calls it
\* successful.
Resolve ==
  /\ phase = "callback"
  /\ inFlight' = FALSE
  /\ store' = [store EXCEPT !.submitting = FALSE, !.successful = TRUE]
  /\ phase' = "idle" /\ rendered' = FALSE
  /\ UNCHANGED <<hasOnSubmit, fieldErrors, serverErrors, failCount, lastCounted,
                 streak, thrown, outcome>>

--------------------------------------------------------------------------------
(* The effect on submissionAttempts, isValid, isSubmitting, isSubmitSuccessful *)

New == store.attempts > lastCounted

\* Mutant: the effect does not know that a submission is in flight.
CountsInFlight == New /\ ~isValid
CountsHere == New /\ ~isValid /\ ~inFlight

SettledValid == New /\ isValid /\ ~store.submitting

Effect ==
  /\ ~rendered
  /\ rendered' = TRUE
  /\ lastCounted' = IF CountsHere \/ SettledValid THEN store.attempts ELSE lastCounted
  /\ failCount' = CASE CountsHere -> failCount + 1
                    [] SettledValid /\ store.successful -> 0
                    [] OTHER -> failCount
  /\ UNCHANGED <<hasOnSubmit, store, fieldErrors, serverErrors, phase, inFlight, streak,
                 thrown, outcome>>

Next ==
  \/ Submit \/ Edit
  \/ Refused \/ SettleAlone \/ Send \/ AnswerError \/ AnswerOK \/ Throw \/ Resolve
  \/ Effect

Spec == Init /\ [][Next]_vars

--------------------------------------------------------------------------------
(* Whenever the form is at rest, the count is the number of failures since *)
(* the last success: no attempt counted by both the wrapper and the        *)
(* effect, none lost, no later edit taken for an attempt; only an attempt  *)
(* in which consumer code threw may count or not.  And the form reports    *)
(* success exactly when its latest attempt succeeded (wrappedOnSubmit, the *)
(* effect and submitSuccess).                                              *)
CountedOnce ==
  (phase = "idle" /\ rendered) =>
    /\ failCount \in streak..(streak + thrown)
    /\ submitSuccess <=> outcome = "good"
================================================================================
