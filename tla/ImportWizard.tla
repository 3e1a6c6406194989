---------------------------- MODULE ImportWizard ----------------------------
(***************************************************************************)
(* Importing books: the two requests of import_orchestrator.py (detect     *)
(* stages the upload and looks for a duplicate, execute runs the handler   *)
(* and records where the book came from), the handlers for text and for    *)
(* .bgb archives, and the wizard of the browser (wizardMachine.ts with the *)
(* steps that send the requests when they are mounted).  An archive holds  *)
(* one book; those with several have a step and a handler of their own,    *)
(* which are not modelled.                                                 *)
(*                                                                         *)
(* A closed dialog keeps its machine: RESET is heard in success and error  *)
(* only, the mounted step goes, and a reopened dialog mounts it again.     *)
(* The requests run in pool threads; the handler's transaction, the        *)
(* records of origin and the removal of the staged files are three steps.  *)
(***************************************************************************)
EXTENDS Naturals, FiniteSets

CONSTANTS
  Wizards,   \* mounted ImportWizardModals
  Sources,   \* what the users can choose to import
  Carries,   \* the book inside an archive; None: a text, a new book each time
  Mixed,     \* archives with an articles directory as well
  Books,     \* ids of books
  Own,       \* books that are there at the start and were never imported
  Earlier,   \* what the others there at the start were imported from
  MaxCalls,  \* bound on the requests
  MaxMishaps, \* bound on what users do to books elsewhere, server restarts
              \* and broken connections
  None

ASSUME ImportAssumption ==
  /\ Carries \in [Sources -> Books \cup {None}]
  /\ Mixed \subseteq {s \in Sources : Carries[s] # None}
  /\ Own \subseteq Books /\ Earlier \in [Books -> Sources \cup {None}]
  /\ MaxCalls \in Nat /\ MaxMishaps \in Nat
  /\ None \notin Books \cup Sources \cup Wizards \cup Nat \cup [src : Sources, shown : BOOLEAN]

VARIABLES
  book,    \* "none", "live" or "trashed"
  origin,  \* BookImportSource rows
  files,   \* per temp_ref the source whose files are staged, or None
  calls,   \* requests under way; a detection's number is its temp_ref
  wizard,  \* per wizard the machine's state and context, and its open step
  sent, mishaps,
  copyOf,  \* history: per book made from a text, and not restored from an
           \* archive since, the text and whether a duplicate had been shown
  odd      \* history of what the promises below except

dbVars   == <<book, origin, copyOf>>
vars     == <<dbVars, files, calls, wizard, sent, mishaps, odd>>

Texts == {s \in Sources : Carries[s] = None}

\* Ids a new book may get: never twice the same.
Unused == {b \in Books : book[b] = "none" /\ copyOf[b] = None /\ \A s \in Sources : Carries[s] # b}

\* A wizard: heard is the detection its mounted step waits for, detected the
\* source the detection described, replace the choice "overwrite", agreed
\* the book it was made for, got the temp_ref of the import it reports.
Blank == [st |-> "upload", open |-> FALSE, input |-> None, heard |-> None, ref |-> None,
          detected |-> None, dup |-> None, replace |-> FALSE, agreed |-> None, got |-> None]

Call == [id : Nat, wiz : Wizards \cup {None}, kind : {"detect", "execute"}, src : Sources \cup {None},
         ref : Nat, stage : {"sent", "committed", "ok", "refused"},
         dup : Books \cup {None}, replace : BOOLEAN, agreed : Books \cup {None},
         made : Books \cup {None}]

States == {"upload", "detecting", "summary", "preview", "executing", "success", "error"}

\* What uploads, books, wizards and requests may hold.
ImportTypeOK ==
  /\ book \in [Books -> {"none", "live", "trashed"}]
  /\ origin \subseteq [book : {b \in Books : book[b] # "none"}, src : Sources]
  /\ files \in [1..MaxCalls -> Sources \cup {None}]
  /\ calls \subseteq Call /\ sent \in 0..MaxCalls
  /\ \A w \in Wizards : LET z == wizard[w] IN
       /\ DOMAIN z = DOMAIN Blank /\ z.st \in States /\ {z.open, z.replace} \subseteq BOOLEAN
       /\ {z.input, z.detected} \subseteq Sources \cup {None}
       /\ {z.heard, z.ref, z.got} \subseteq 1..MaxCalls \cup {None}
       /\ {z.dup, z.agreed} \subseteq Books \cup {None}

\* Earlier tells from what each book was imported; a copy of a text was made
\* with the first one shown.
Init ==
  /\ book = [b \in Books |-> IF b \in Own \/ Earlier[b] # None THEN "live" ELSE "none"]
  /\ origin = {[book |-> b, src |-> Earlier[b]] : b \in {c \in Books : Earlier[c] # None}}
  /\ copyOf = [b \in Books |->
                 IF Earlier[b] \in Texts
                 THEN [src |-> Earlier[b], shown |-> b # CHOOSE c \in Books : Earlier[c] = Earlier[b]]
                 ELSE None]
  /\ files = [r \in 1..MaxCalls |-> None]
  /\ calls = {} /\ sent = 0 /\ mishaps = 0
  /\ wizard = [w \in Wizards |-> Blank] /\ odd = {}

-----------------------------------------------------------------------------
(* The server                                                              *)

\* The call goes on as new; if that is its end and nobody waits, it is over.
Becomes(k, new) ==
  calls' = (calls \ {k}) \cup (IF new.wiz = None /\ new.stage \in {"ok", "refused"} THEN {} ELSE {new})

Refuse(k)    == Becomes(k, [k EXCEPT !.stage = "refused"])
Dropped(ref) == [files EXCEPT ![ref] = None]

\* Mutant of Duplicates: trashed books do not count.
Duplicates_Live(s) == {o.book : o \in {r \in origin : r.src = s /\ book[r.book] = "live"}}

\* _check_duplicate: the book of any row of the source.
Duplicates(s) == {o.book : o \in {r \in origin : r.src = s}}

\* Mutant of Heard: any detection of the wizard counts.
Heard_AnyDetection(k) ==
  k.wiz # None /\ (IF k.kind = "detect" THEN wizard[k.wiz].st = "detecting"
                                        ELSE wizard[k.wiz].st = "executing")

\* An answer reaches the machine.  A detection counts while its step waits
\* for it; the answer to an import is passed on whatever became of its step,
\* and ignored unless the machine is executing.
Heard(k) ==
  k.wiz # None /\ (IF k.kind = "detect" THEN wizard[k.wiz].heard = k.id
                                        ELSE wizard[k.wiz].st = "executing")

\* Somebody else is between looking at the source and having imported it.
Overlaps(k) ==
  \/ \E n \in calls \ {k} : n.src = k.src /\
       \/ n.kind = "execute" /\ n.stage \in {"sent", "committed"}
       \/ n.kind = "detect" /\ n.stage = "ok" /\ n.wiz # k.wiz /\ Heard(n)
  \/ \E w \in Wizards \ {k.wiz} : wizard[w].st \in {"summary", "preview"} /\ wizard[w].detected = k.src

\* detect_import: whatever is too old goes, the upload is staged, the handler
\* looks at it.  Without a handler the upload goes; a handler that fails
\* leaves it.
DetectImport(k) ==
  /\ k.kind = "detect" /\ k.stage = "sent"
  /\ \E old \in {0} \cup {r \in 1..(k.id - 1) : files[r] # None} :
       LET kept == [r \in 1..MaxCalls |-> IF r <= old THEN None ELSE files[r]]
           new  == [kept EXCEPT ![k.id] = k.src]
       IN \/ /\ files' = new
             /\ \E d \in IF Duplicates(k.src) = {} THEN {None} ELSE Duplicates(k.src) :
                  Becomes(k, [k EXCEPT !.stage = "ok", !.dup = d])
          \/ files' \in {kept, new} /\ Refuse(k)
  /\ odd' = odd \cup (IF Overlaps(k) THEN {"overlap"} ELSE {})
  /\ UNCHANGED dbVars

\* The handler's transaction: the book to overwrite is deleted and its rows
\* with it, made is written.
Writes(k, made) ==
  LET deleted == IF k.replace THEN {k.dup} ELSE {} IN
  /\ book' = [b \in Books |-> IF b = made THEN "live" ELSE IF b \in deleted THEN "none" ELSE book[b]]
  /\ origin' = {o \in origin : o.book \notin deleted \cup {made}}
  /\ copyOf' = [b \in Books |->
                 IF b # made THEN copyOf[b]
                 ELSE IF k.src \in Texts THEN [src |-> k.src, shown |-> k.dup # None] ELSE None]
  /\ Becomes(k, [k EXCEPT !.stage = "committed", !.made = made])

\* A text becomes a new book; an archive's book is restored unless it lives
\* already, then only its articles are.
Execute(k) ==
  /\ k.kind = "execute" /\ k.stage = "sent"
  /\ files[k.ref] # None /\ (k.replace => k.dup # None)
  /\ LET b == Carries[k.src] IN
     \/ k.src \in Texts /\ Unused # {} /\ Writes(k, CHOOSE n \in Unused : TRUE)
     \/ k.src \notin Texts /\ (book[b] = "live" => k.replace /\ k.dup = b) /\ Writes(k, b)
     \/ k.src \in Mixed /\ book[b] = "live" /\ ~(k.replace /\ k.dup = b) /\ Writes(k, None)
  /\ UNCHANGED <<files, odd>>

\* Nothing is staged, nothing to overwrite is named, the handler does not
\* understand the input: the request is refused.  If the handler fails in its
\* transaction, that is rolled back, and the files go.
ExecuteFails(k) ==
  /\ k.kind = "execute" /\ k.stage = "sent"
  /\ files' \in {files, Dropped(k.ref)}
  /\ Refuse(k)
  /\ UNCHANGED <<dbVars, odd>>

\* Mutant of Recorded: after an overwrite no row is added.
Recorded_OnlyUpdates(k) ==
  LET row  == [book |-> k.made, src |-> k.src]
      rows == {o \in origin : k.replace /\ o.book = k.made}
  IN IF k.made = None \/ (k.replace /\ rows = {}) THEN {origin}
     ELSE IF rows = {} THEN {origin \cup {row}}
     ELSE {(origin \ {o}) \cup {row} : o \in rows}

\* The row execute_import writes: after an overwrite over one the book has.
Recorded(k) ==
  LET row  == [book |-> k.made, src |-> k.src]
      rows == {o \in origin : k.replace /\ o.book = k.made}
  IN IF k.made = None THEN {origin}
     ELSE IF rows = {} THEN {origin \cup {row}}
     ELSE {(origin \ {o}) \cup {row} : o \in rows}

\* Where the book came from is recorded, the staged files go, the request is
\* answered.  A book that is gone by now makes it fail; the files stay.
Record(k) ==
  /\ k.stage = "committed"
  /\ IF k.made = None \/ book[k.made] # "none"
     THEN /\ origin' \in Recorded(k)
          /\ files' = Dropped(k.ref)
          /\ Becomes(k, [k EXCEPT !.stage = "ok"])
     ELSE Refuse(k) /\ UNCHANGED <<origin, files>>
  /\ UNCHANGED <<book, copyOf, odd>>

Serve(k) ==
  /\ DetectImport(k) \/ Execute(k) \/ ExecuteFails(k) \/ Record(k)
  /\ UNCHANGED <<wizard, sent, mishaps>>

\* The server restarts: the files and the database stay, the requests fail.
ServerRestart ==
  /\ mishaps < MaxMishaps /\ mishaps' = mishaps + 1
  /\ calls' = {[k EXCEPT !.stage = IF @ = "ok" THEN @ ELSE "refused"] : k \in {n \in calls : n.wiz # None}}
  /\ odd' = odd \cup (IF \E k \in calls : k.stage = "committed" THEN {"unrecorded"} ELSE {})
  /\ UNCHANGED <<dbVars, files, wizard, sent>>

\* Mutant of EditBook: the records of a deleted book stay.
EditBook_NoCascade(b) ==
  /\ mishaps < MaxMishaps /\ mishaps' = mishaps + 1
  /\ \/ book[b] = "live" /\ book' = [book EXCEPT ![b] = "trashed"]
     \/ book[b] = "trashed" /\ book' = [book EXCEPT ![b] = "live"]
     \/ book[b] # "none" /\ book' = [book EXCEPT ![b] = "none"]
  /\ UNCHANGED <<origin, copyOf, files, calls, wizard, sent, odd>>

\* Users trash a book, take it back, or delete it for good.
EditBook(b) ==
  /\ mishaps < MaxMishaps /\ mishaps' = mishaps + 1
  /\ \/ book[b] = "live" /\ book' = [book EXCEPT ![b] = "trashed"]
     \/ book[b] = "trashed" /\ book' = [book EXCEPT ![b] = "live"]
     \/ book[b] # "none" /\ book' = [book EXCEPT ![b] = "none"]
  /\ origin' = {o \in origin : book'[o.book] # "none"}
  /\ UNCHANGED <<copyOf, files, calls, wizard, sent, odd>>

-----------------------------------------------------------------------------
(* The wizard                                                              *)

Sets(w, z) == wizard' = [wizard EXCEPT ![w] = z]
Plain(w, kind) == [id |-> sent + 1, wiz |-> w, kind |-> kind, src |-> None, ref |-> sent + 1,
                   stage |-> "sent", dup |-> None, replace |-> FALSE, agreed |-> None,
                   made |-> None]
Send(k) == sent < MaxCalls /\ sent' = sent + 1 /\ calls' = calls \cup {k}

\* DetectingStep is mounted, or one of its inputs changes: the upload is sent
\* (again), and only this request's answer counts.
Detects(w, z) ==
  /\ Send([Plain(w, "detect") EXCEPT !.src = z.input])
  /\ Sets(w, [z EXCEPT !.st = "detecting", !.heard = sent + 1])

\* Mutant of Back: the choice to overwrite is not reset.
Back_KeepsChoice(z) == [Blank EXCEPT !.open = z.open, !.replace = z.replace]

\* The machine is reset; the dialog stays as it is.
Back(z) == [Blank EXCEPT !.open = z.open]

\* The step of the machine's state is on the screen.
On(w, st) == wizard[w].open /\ wizard[w].st = st

\* The upload step: a file, a folder, or the address of a repository.
UploadShown(w) == On(w, "upload")

\* setInput.
Chosen(z, s) == [z EXCEPT !.input = s]

\* What is too large, empty or of no known kind does not leave the step.
Select(w, s) ==
  /\ UploadShown(w)
  /\ Detects(w, Chosen(wizard[w], s))
  /\ UNCHANGED <<dbVars, files, mishaps, odd>>

\* The page renders anew; the step's callbacks are new functions.
Rerender(w) ==
  /\ On(w, "detecting")
  /\ Detects(w, wizard[w])
  /\ UNCHANGED <<dbVars, files, mishaps, odd>>

\* The error step, whose retry button is there for errors that may pass.
ErrorShown(w) == On(w, "error")

Retry(w) ==
  /\ ErrorShown(w)
  /\ Detects(w, wizard[w])
  /\ odd' = odd \cup (IF wizard[w].replace THEN {"retry"} ELSE {})
  /\ UNCHANGED <<dbVars, files, mishaps>>

Cancel(w) ==
  /\ wizard[w].open /\ wizard[w].st \in {"detecting", "summary", "preview"}
  /\ Sets(w, Back(wizard[w]))
  /\ UNCHANGED <<dbVars, files, calls, sent, mishaps, odd>>

Advance(w) ==
  LET z == wizard[w] IN
  /\ On(w, "summary")
  /\ Sets(w, [z EXCEPT !.st = "preview"])
  /\ UNCHANGED <<dbVars, files, calls, sent, mishaps, odd>>

\* "Overwrite existing", confirmed for the book shown, or "Create as new copy".
ChooseAction(w, replace) ==
  LET z == wizard[w] IN
  /\ On(w, "preview") /\ z.dup # None
  /\ Sets(w, [z EXCEPT !.replace = replace, !.agreed = IF replace THEN z.dup ELSE None])
  /\ UNCHANGED <<dbVars, files, calls, sent, mishaps, odd>>

\* ExecutingStep is mounted and sends the request, once.
Executes(w) ==
  LET z == wizard[w] IN
  /\ Send([Plain(w, "execute") EXCEPT !.src = z.detected, !.ref = z.ref, !.dup = z.dup,
                                      !.replace = z.replace, !.agreed = z.agreed])
  /\ Sets(w, [z EXCEPT !.st = "executing", !.open = TRUE])

Import(w) ==
  /\ On(w, "preview")
  /\ Executes(w)
  /\ UNCHANGED <<dbVars, files, mishaps, odd>>

\* Mutant of Close: every state hears RESET.
Close_ResetsAlways(w) ==
  /\ wizard[w].open
  /\ Sets(w, Blank)
  /\ UNCHANGED <<dbVars, files, calls, sent, mishaps, odd>>

\* Closing: RESET, which only success and error hear, and the step is
\* unmounted; what it waited for is not heard any more.
Close(w) ==
  LET z == wizard[w] IN
  /\ z.open
  /\ Sets(w, IF z.st \in {"success", "error"} THEN Blank
             ELSE [z EXCEPT !.open = FALSE, !.heard = None])
  /\ UNCHANGED <<dbVars, files, calls, sent, mishaps, odd>>

\* Mutant of Open: a detection is not started again.
Open_NoDetection(w) ==
  LET z == wizard[w] IN
  /\ ~z.open
  /\ IF z.st = "executing"
     THEN Executes(w) /\ odd' = odd \cup {"again"}
     ELSE Sets(w, [z EXCEPT !.open = TRUE]) /\ UNCHANGED <<calls, sent, odd>>
  /\ UNCHANGED <<dbVars, files, mishaps>>

\* Opening mounts the step of the state the machine is in.
Open(w) ==
  LET z == wizard[w] IN
  /\ ~z.open
  /\ CASE z.st = "detecting" -> Detects(w, [z EXCEPT !.open = TRUE]) /\ UNCHANGED odd
       [] z.st = "executing" -> Executes(w) /\ odd' = odd \cup {"again"}
       [] OTHER -> Sets(w, [z EXCEPT !.open = TRUE]) /\ UNCHANGED <<calls, sent, odd>>
  /\ UNCHANGED <<dbVars, files, mishaps>>

\* The success step leaves for the editor, by its button or after five
\* seconds, which is Close, or starts again.
SuccessShown(w) == On(w, "success")

\* "Import another".
Another(w) ==
  /\ SuccessShown(w)
  /\ Sets(w, Back(wizard[w]))
  /\ UNCHANGED <<dbVars, files, calls, sent, mishaps, odd>>

\* The page is left or reloaded: a new machine, and nobody hears the answers.
Leave(w) ==
  /\ wizard[w] # Blank
  /\ Sets(w, Blank)
  /\ calls' = {[k EXCEPT !.wiz = IF @ = w THEN None ELSE @] :
                 k \in {n \in calls : n.wiz # w \/ n.stage \in {"sent", "committed"}}}
  /\ UNCHANGED <<dbVars, files, sent, mishaps, odd>>

Succeeds(k) ==
  LET z == wizard[k.wiz] IN
  Sets(k.wiz, IF k.kind = "detect"
              THEN [z EXCEPT !.st = "summary", !.heard = None, !.ref = k.id, !.detected = k.src,
                             !.dup = k.dup]
              ELSE [z EXCEPT !.st = "success", !.got = k.ref])

Fails(k) == Sets(k.wiz, [wizard[k.wiz] EXCEPT !.st = "error", !.heard = None])

Receive(k) ==
  /\ k.stage \in {"ok", "refused"}
  /\ IF ~Heard(k) THEN UNCHANGED wizard
     ELSE IF k.stage = "ok" THEN Succeeds(k) ELSE Fails(k)
  /\ calls' = calls \ {k}
  /\ UNCHANGED <<dbVars, files, sent, mishaps, odd>>

\* The connection breaks; the server goes on.
BreakOff(k) ==
  /\ Heard(k) /\ mishaps < MaxMishaps /\ mishaps' = mishaps + 1
  /\ Fails(k)
  /\ Becomes(k, [k EXCEPT !.wiz = None])
  /\ UNCHANGED <<dbVars, files, sent, odd>>

-----------------------------------------------------------------------------
WizardStep ==
  \E w \in Wizards :
    \/ \E s \in Sources : Select(w, s)
    \/ \E replace \in BOOLEAN : ChooseAction(w, replace)
    \/ Import(w) \/ Rerender(w) \/ Retry(w) \/ Cancel(w) \/ Advance(w) \/ Close(w) \/ Open(w)
    \/ Another(w) \/ Leave(w)

Next ==
  \/ WizardStep
  \/ \E k \in calls : Serve(k) \/ Receive(k) \/ BreakOff(k)
  \/ ServerRestart \/ \E b \in Books : EditBook(b)

Spec == Init /\ [][Next]_vars

-----------------------------------------------------------------------------
(* Properties                                                              *)

\* What the wizard shows, and goes on to import, is what the user chose
\* last, however many detections of other inputs are still on their way
\* (DetectingStep.tsx: mounted, cancelledRef).
PreviewIsOfTheInput ==
  \A w \in Wizards : wizard[w].st \in {"summary", "preview", "executing"}
                     => wizard[w].detected = wizard[w].input

\* A wizard that shows a spinner waits for an answer that will come: after
\* closing and reopening, retries, restarts and broken connections too.
NoStuckSpinner ==
  \A w \in Wizards : LET z == wizard[w] IN
    /\ z.st = "detecting" /\ z.open => \E k \in calls : k.kind = "detect" /\ k.wiz = w /\ k.id = z.heard
    /\ z.st = "executing" => \E k \in calls : k.kind = "execute" /\ k.wiz = w

\* A reported success is that of the upload shown, unless the dialog was
\* opened again during an import, which sends it a second time
\* (ExecutingStep.tsx: fired belongs to the mounted step).
SuccessIsOfTheUpload ==
  "again" \notin odd => \A w \in Wizards : wizard[w].st = "success" => wizard[w].got = wizard[w].ref

\* What the wizard says is about what the user gave it: the preview about the
\* input chosen last, the success about the upload shown, whatever answers
\* are late.
WizardTellsTheTruth == PreviewIsOfTheInput /\ SuccessIsOfTheUpload

Copies(s) == {b \in Books : book[b] # "none" /\ copyOf[b] # None /\ copyOf[b].src = s}

\* A text is not imported twice unless the user was shown the first book
\* ("Without this table, re-imports silently create duplicate books",
\* models/__init__.py:339), however the requests fail and are repeated;
\* except for an import that overlaps another of the same text, one sent
\* again by a reopened dialog, and one whose record was lost.
NoSilentDuplicate ==
  odd \cap {"overlap", "again", "unrecorded"} = {}
  => \A s \in Texts : Cardinality({b \in Copies(s) : ~copyOf[b].shown}) <= 1

\* Every book made from a text is known to the next detection, or an import
\* under way will make it known: the record outlives trash and overwriting.
ImportedIsKnown ==
  "unrecorded" \notin odd
  => \A s \in Texts : \A b \in Copies(s) :
       b \in Duplicates(s) \/ \E k \in calls : k.stage = "committed" /\ b = k.made

\* Imports are remembered: known to the next detection, and so never doubled
\* without a word.
ReimportsAreNoticed == NoSilentDuplicate /\ ImportedIsKnown

\* An import deletes an existing book only if its user confirmed just that
\* ("This will replace all chapters and assets of ..."), unless the choice
\* was carried over a retry, which detects anew.
OverwriteWasConfirmed ==
  [][\A k \in calls, n \in calls' :
       k.id = n.id /\ n.stage = "committed" /\ k.stage = "sent" /\ k.replace /\ "retry" \notin odd
       => k.dup = k.agreed]_vars

=============================================================================
