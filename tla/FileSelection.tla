----------------------------- MODULE FileSelection -----------------------------
(***************************************************************************)
(* The selection kept by useFileUpload                                     *)
(* (packages/ui/src/ui/hooks/useFileUpload.ts): batches of files are       *)
(* checked and added, files removed, the selection cleared, and its owner  *)
(* may hand down another one, larger than maxFiles even.  Renders come     *)
(* between any two events, so the reference the callbacks read is the      *)
(* selection.  Input, dialog and drag handlers only pass files on.         *)
(***************************************************************************)
EXTENDS Naturals, Integers, Sequences, SequencesExt

CONSTANTS
  File,      \* File objects
  Copies,    \* pairs of them with one name, size and modification time
  BadType,   \* those no accept token matches
  TooLarge,  \* those above maxSize
  MaxFiles,  \* maxFiles
  MinFiles,  \* minFiles
  MaxBatch   \* bound on the files of a batch, and on a selection from outside

VARIABLES
  multiple,  \* the mode
  disabled,
  files,     \* the selection
  errors,    \* the codes of the latest validation, with their file
  added      \* what the latest event announced through onFilesAdded

vars == <<multiple, disabled, files, errors, added>>

Lists == {s \in UNION {[1..n -> File] : n \in 0..MaxBatch} : IsInjective(s)}
Batches == Lists \ {<<>>}
Selections(several) == {s \in Lists : several \/ Len(s) <= 1}

isSameFile(f, g) == f = g \/ <<f, g>> \in Copies \/ <<g, f>> \in Copies

Init ==
  /\ multiple \in BOOLEAN
  /\ disabled = FALSE
  /\ files \in Selections(multiple)
  /\ errors = {} /\ added = <<>>

tooFewError(s) == IF Len(s) < MinFiles THEN {<<"too-few-files">>} ELSE {}

--------------------------------------------------------------------------------
(* addFiles *)

Problem(f, selected) ==
  CASE f \in BadType -> "file-invalid-type"
    [] f \in TooLarge -> "file-too-large"
    [] \E g \in Range(selected) : isSameFile(g, f) -> "duplicate-file"
    [] OTHER -> "none"

\* The checks in order, each file against the selection and those accepted so
\* far.  A single selection stops at the first file it accepts.
Validate(start, batch) ==
  FoldLeft(
    LAMBDA acc, f :
      LET problem == Problem(f, start \o acc.accepted)
      IN  IF ~multiple /\ acc.accepted # <<>> THEN acc
          ELSE IF problem = "none"
            THEN [acc EXCEPT !.accepted = Append(@, f)]
            ELSE [acc EXCEPT !.errors = @ \cup {<<problem, f>>}],
    [accepted |-> <<>>, errors |-> {}], batch)

\* Array.prototype.splice(from, n): a negative start counts from the end.
Splice(s, from, n) ==
  LET start == IF from >= 0 THEN from ELSE IF Len(s) + from > 0 THEN Len(s) + from ELSE 0
  IN  SubSeq(s, 1, start) \o SubSeq(s, start + n + 1, Len(s))

\* The rejected files leave the notification too.
\* Mutant: one file too few is taken off it.
AnnouncedOneMore(accepted, overflow) ==
  Splice(accepted, Len(accepted) - overflow + 1, overflow)
Announced(accepted, overflow) == Splice(accepted, Len(accepted) - overflow, overflow)

addFiles(batch) ==
  LET start    == IF multiple THEN files ELSE <<>>
      checked  == Validate(start, batch)
      all      == start \o checked.accepted
      over     == multiple /\ Len(all) > MaxFiles
      accepted == IF over THEN Announced(checked.accepted, Len(all) - MaxFiles)
                          ELSE checked.accepted
      next     == IF over THEN SubSeq(all, 1, MaxFiles) ELSE all
  IN  /\ ~disabled
      /\ errors' = checked.errors
                     \cup (IF over THEN {<<"too-many-files">>} ELSE {})
                     \cup tooFewError(next)
      /\ files' = IF accepted = <<>> THEN files ELSE next
      /\ added' = accepted
      /\ UNCHANGED <<multiple, disabled>>

----------------------------------------------------------------------------
(* The other events *)

removeFile ==
  /\ ~disabled
  /\ \E i \in 1..Len(files) : files' = RemoveAt(files, i)
  /\ errors' = tooFewError(files')
  /\ added' = <<>>
  /\ UNCHANGED <<multiple, disabled>>

clearFiles ==
  /\ ~disabled /\ files # <<>>
  /\ files' = <<>>
  /\ errors' = tooFewError(<<>>)
  /\ added' = <<>>
  /\ UNCHANGED <<multiple, disabled>>

clearErrors ==
  errors' = {} /\ added' = <<>> /\ UNCHANGED <<multiple, disabled, files>>

\* The owner of a controlled selection renders another one, or switches
\* disabled.
Outside ==
  /\ \/ files' \in Selections(multiple) /\ UNCHANGED disabled
     \/ disabled' = ~disabled /\ UNCHANGED files
  /\ added' = <<>>
  /\ UNCHANGED <<multiple, errors>>

Adds == \E batch \in Batches : addFiles(batch)

Next == Adds \/ removeFile \/ clearFiles \/ clearErrors \/ Outside

Spec == Init /\ [][Next]_vars

--------------------------------------------------------------------------------
Distinct(s) == \A i, j \in DOMAIN s : i # j => ~isSameFile(s[i], s[j])

LeftOut(f) == \E e \in errors' : e[1] = "too-many-files" \/ (Len(e) = 2 /\ e[2] = f)

\* What addFiles owes for a batch.
AddsExactly(batch) ==
  (multiple /\ Len(files) <= MaxFiles /\ Distinct(files) /\ addFiles(batch)) =>
    /\ files' = files \o added'
    /\ Len(files') <= MaxFiles /\ Distinct(files')
    /\ Range(added') \cap (BadType \cup TooLarge) = {}
    /\ \A f \in Range(batch) \ Range(added') : LeftOut(f)
=============================================================================
