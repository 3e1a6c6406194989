---------------------------- MODULE ImportReview ----------------------------
(***************************************************************************)
(* What the user decides between the detection and the import: the form    *)
(* with the fields of one book (PreviewStep.tsx, PreviewPanel.tsx), the    *)
(* choice of an author (AuthorPicker.tsx), the list of the books of an     *)
(* archive with several (PreviewMultiBookStep.tsx); and what the handlers  *)
(* make of it (overrides.py, markdown.py, bgb.py).  ImportWizard models    *)
(* the requests and the duplicates of single books.                        *)
(*                                                                         *)
(* A panel keeps the form, the wizard's machine the overrides that will be *)
(* sent; the panel is mounted anew after an error, and when the dialog was *)
(* closed.  One optional field stands for the twenty or so.                *)
(***************************************************************************)
EXTENDS Naturals, FiniteSets, Sequences

CONSTANTS
  Found,    \* what a detection may describe: [kind, title, author, extra]
  Titles,   \* what may be typed as a title; Blank is nothing
  People,   \* authors' names
  Extras,   \* values of the optional field
  Profiles, \* authors in the settings at the start: sequences of names
  Archived, \* the books in the archive with several
  Blank,
  Skip,     \* an override that is null
  MaxReviewSteps \* bound on what the user and other tabs do

VARIABLES
  review,   \* the wizard's step, the panel and the machine's context
  profile,  \* the names in the settings, the first the real one
  allow,    \* the setting that books may lack an author
  pens,     \* requests to add a name, in the order they were made
  made,     \* the row of the imported book, or Skip
  library,  \* per archived book [state, copy]; copy: as edited here or as archived
  recorded, \* those with a BookImportSource row of this archive
  rSteps

reviewVars == <<review, profile, allow, pens, made, library, recorded, rSteps>>

Names == People \cup {Blank}
Actions == {"skip", "overwrite", "create_new"}

ReviewTypeOK ==
  /\ review.step \in {"summary", "preview", "multi", "closed", "executing", "error", "done"}
  /\ review.found \in Found
  /\ review.form.title \in Titles /\ review.form.author \in Names
  /\ review.form.include \in BOOLEAN /\ review.form.extra \in Extras \cup {Blank}
  /\ review.over.title \in Titles \cup {Skip} /\ review.over.author \in Names \cup {Skip}
  /\ review.over.extra \in Extras \cup {Blank, Skip}
  /\ review.proposed \in Names /\ review.creating \in BOOLEAN /\ review.mount \in Nat
  /\ review.chosen \subseteq Archived /\ review.dup \in [Archived -> Actions]
  /\ \A k \in DOMAIN pens : pens[k].name \in People
  /\ recorded \subseteq Archived /\ rSteps \in Nat

-----------------------------------------------------------------------------
(* The panel                                                               *)

\* Fields that were found are included; title and author always are.
InitialForm(f) == [title |-> f.title, author |-> f.author, include |-> f.extra # Blank, extra |-> f.extra]

OverridesFromState(form) ==
  [title |-> form.title, author |-> form.author, extra |-> IF form.include THEN form.extra ELSE Skip]

NoOverrides == [title |-> Skip, author |-> Skip, extra |-> Skip]

\* Mutant of Mounted: the machine is told when something is edited only.
Mounted_Silent(r) ==
  [r EXCEPT !.step = "preview", !.form = InitialForm(r.found), !.known = profile,
            !.mount = @ + 1, !.mode = "create", !.proposed = r.found.author, !.creating = FALSE]

\* A new panel: the form as found, and the machine hears of it at once.
Mounted(r) ==
  [r EXCEPT !.step = "preview", !.form = InitialForm(r.found), !.known = profile,
            !.over = OverridesFromState(InitialForm(r.found)),
            !.mount = @ + 1, !.mode = "create", !.proposed = r.found.author, !.creating = FALSE]

\* A detection resets what was chosen per book, not the overrides.
Detected(r, f) ==
  [r EXCEPT !.step = "summary", !.found = f, !.shownDup = recorded,
            !.chosen = Archived, !.dup = [b \in Archived |-> "skip"]]

Fresh(f) ==
  Detected([step |-> "summary", found |-> f, form |-> InitialForm(f), over |-> NoOverrides,
            known |-> <<>>, mount |-> 0, mode |-> "create", proposed |-> Blank, creating |-> FALSE,
            chosen |-> {}, dup |-> <<>>, shownDup |-> {}], f)

ReviewInit ==
  /\ profile \in Profiles /\ allow \in BOOLEAN /\ pens = <<>> /\ made = Skip /\ rSteps = 0
  /\ \E some \in SUBSET Archived :
       /\ recorded = some
       /\ library = [b \in Archived |-> IF b \in some THEN [state |-> "live", copy |-> "edited"]
                                                      ELSE [state |-> "none", copy |-> "edited"]]
  /\ \E f \in Found : review = Fresh(f)

UserSets(r) ==
  /\ rSteps < MaxReviewSteps /\ rSteps' = rSteps + 1 /\ review' = r
  /\ UNCHANGED <<profile, allow, pens, made, library, recorded>>

Moves(r) == review' = r /\ UNCHANGED <<profile, allow, pens, made, library, recorded, rSteps>>

PanelShown == review.step = "preview"

\* Every edit tells the machine.
UpdateField(form) ==
  /\ PanelShown /\ form # review.form
  /\ UserSets([review EXCEPT !.form = form, !.over = OverridesFromState(form)])

EditTitle(v) == UpdateField([review.form EXCEPT !.title = v])
\* An optional field is a box, and an input once the box is checked.
RowChecked == PanelShown /\ review.form.include

Include(yes) == UpdateField([review.form EXCEPT !.include = yes])
EditExtra(v) == RowChecked /\ UpdateField([review.form EXCEPT !.extra = v])

Choices == {review.known[k] : k \in DOMAIN review.known}
Matched == review.form.author # Blank /\ review.form.author \in Choices

\* A known author gives way to another known one.
SelectKnown(n) == Matched /\ n \in Choices /\ UpdateField([review.form EXCEPT !.author = n])

\* Creating the unknown name, taking a known one, or leaving the author out.
Unmatched(mode) == PanelShown /\ ~Matched /\ review.mode = mode
CreateShown == Unmatched("create")
ExistingShown == Unmatched("existing")
ModeOffered(m) == (m = "existing" => Choices # {}) /\ (m = "defer" => allow)

SetMode(m) ==
  /\ PanelShown /\ ~Matched /\ m # review.mode /\ ModeOffered(m)
  /\ LET form == IF m = "defer" THEN [review.form EXCEPT !.author = Blank] ELSE review.form
     IN UserSets([review EXCEPT !.mode = m, !.form = form, !.over = OverridesFromState(form)])

\* The first one is shown as chosen already, and only a change is heard.
SelectExisting(n) ==
  /\ ExistingShown /\ n \in Choices \ {Head(review.known)}
  /\ UpdateField([review.form EXCEPT !.author = n])

Propose(n) ==
  /\ CreateShown /\ n # review.proposed
  /\ UserSets([review EXCEPT !.proposed = n])

HandleCreate ==
  /\ CreateShown /\ review.proposed # Blank /\ ~review.creating
  /\ rSteps < MaxReviewSteps /\ rSteps' = rSteps + 1
  /\ review' = [review EXCEPT !.creating = TRUE]
  /\ pens' = Append(pens, [name |-> review.proposed, mount |-> review.mount, stage |-> "sent", answer |-> <<>>])
  /\ UNCHANGED <<profile, allow, made, library, recorded>>

\* The name is added unless it is there; the first becomes the real name.
AddPenName(k) ==
  /\ pens[k].stage = "sent"
  /\ profile' = IF \E i \in DOMAIN profile : profile[i] = pens[k].name THEN profile
                ELSE Append(profile, pens[k].name)
  /\ pens' = [pens EXCEPT ![k].stage = "ok", ![k].answer = profile']
  /\ UNCHANGED <<review, allow, made, library, recorded, rSteps>>

PenNameFails(k) ==
  /\ pens[k].stage \in {"sent", "ok"} /\ pens' = [pens EXCEPT ![k].stage = "failed"]
  /\ UNCHANGED <<review, profile, allow, made, library, recorded, rSteps>>

\* The answer makes its name the author, whatever was chosen meanwhile; a
\* panel that is gone hears nothing.
Created(k) ==
  /\ pens[k].stage \in {"ok", "failed"} /\ pens' = [pens EXCEPT ![k].stage = "done"]
  /\ LET here == PanelShown /\ review.mount = pens[k].mount
         form == [review.form EXCEPT !.author = pens[k].name]
     IN review' = CASE ~here -> review
                    [] here /\ pens[k].stage = "ok" ->
                         [review EXCEPT !.creating = FALSE, !.known = pens[k].answer,
                                        !.form = form, !.over = OverridesFromState(form)]
                    [] OTHER -> [review EXCEPT !.creating = FALSE]
  /\ UNCHANGED <<profile, allow, made, library, recorded, rSteps>>

-----------------------------------------------------------------------------
(* An archive with several books                                           *)

Several == review.found.kind = "several"

ListShown == review.step = "multi"

Toggle(b) ==
  /\ ListShown
  /\ UserSets([review EXCEPT !.chosen = IF b \in @ THEN @ \ {b} ELSE @ \cup {b}])

SelectAll(all) ==
  /\ ListShown /\ UserSets([review EXCEPT !.chosen = IF all THEN Archived ELSE {}])

\* Only the books that were imported before have the choice.
ActionsOffered(b) == ListShown /\ b \in review.shownDup

SetDuplicateAction(b, a) ==
  /\ ActionsOffered(b) /\ review.dup[b] # a
  /\ UserSets([review EXCEPT !.dup[b] = a])

-----------------------------------------------------------------------------
(* The wizard's steps                                                      *)

SummaryShown == review.step = "summary"

AdvanceFromSummary ==
  /\ SummaryShown
  /\ Moves(IF Several THEN [review EXCEPT !.step = "multi"] ELSE Mounted(review))

\* Closing and opening the dialog; the machine stays, the panel does not.
CloseDialog == (PanelShown \/ ListShown) /\ UserSets([review EXCEPT !.step = "closed"])

Reopen ==
  /\ review.step = "closed"
  /\ Moves(IF Several THEN [review EXCEPT !.step = "multi"] ELSE Mounted(review))

\* Back to the upload, where another input is chosen and detected.
Restart(f) == (SummaryShown \/ PanelShown \/ ListShown \/ review.step = "error") /\ UserSets(Fresh(f))

RetryImport == review.step = "error" /\ UserSets(Detected(review, review.found))

\* hasMandatoryValues looks at the overrides.
CanImport ==
  IF Several THEN review.chosen # {}
  ELSE review.over.title \notin {Blank, Skip} /\ (allow \/ review.over.author \notin {Blank, Skip})

Confirm ==
  /\ PanelShown \/ ListShown
  /\ CanImport
  /\ Moves([review EXCEPT !.step = "executing"])

-----------------------------------------------------------------------------
(* The server                                                              *)

\* A text: the columns of the new book; an archive: the archived ones, and
\* overrides that are not null on top.  Without an author a text gets one.
RowOf(f, over) ==
  IF f.kind = "text"
  THEN [title |-> over.title, author |-> IF over.author = Blank THEN "Unknown" ELSE over.author,
        extra |-> IF over.extra = Skip THEN Blank ELSE over.extra]
  ELSE [title |-> over.title, author |-> over.author,
        extra |-> IF over.extra = Skip THEN f.extra ELSE over.extra]

ExecuteOne ==
  /\ review.step = "executing" /\ ~Several
  /\ made' = RowOf(review.found, review.over)
  /\ review' = [review EXCEPT !.step = "done"]
  /\ UNCHANGED <<profile, allow, pens, library, recorded, rSteps>>

\* Mutant of ActionFor: no decision means overwrite.
ActionFor_Overwrite(b) ==
  IF b \in recorded /\ review.dup[b] = "skip" THEN "overwrite" ELSE review.dup[b]

ActionFor(b) == review.dup[b]

\* Of the chosen books, those not left out: a live one only if it is deleted
\* first, which takes "overwrite" and a record of the earlier import.
Restored == {b \in review.chosen :
               /\ ~(b \in recorded /\ ActionFor(b) = "skip")
               /\ library[b].state = "live" => b \in recorded /\ ActionFor(b) = "overwrite"}

ExecuteMulti ==
  /\ review.step = "executing" /\ Several
  /\ library' = [b \in Archived |-> IF b \in Restored THEN [state |-> "live", copy |-> "archived"]
                                    ELSE library[b]]
  /\ recorded' = recorded \cup Restored
  /\ review' = [review EXCEPT !.step = "done"]
  /\ UNCHANGED <<profile, allow, pens, made, rSteps>>

ExecuteFailed ==
  /\ review.step = "executing" /\ rSteps < MaxReviewSteps /\ rSteps' = rSteps + 1
  /\ review' = [review EXCEPT !.step = "error"]
  /\ UNCHANGED <<profile, allow, pens, made, library, recorded>>

\* Elsewhere a book is edited, trashed, deleted for good or imported.
LibraryChanges(b, to) ==
  /\ rSteps < MaxReviewSteps /\ rSteps' = rSteps + 1
  /\ library[b] # to /\ library' = [library EXCEPT ![b] = to]
  /\ recorded' = IF to.state = "none" THEN recorded \ {b}
                 ELSE IF to.copy = "archived" /\ library[b].state # "live" THEN recorded \cup {b} ELSE recorded
  /\ to.state = "trashed" => library[b].state = "live"
  /\ to.copy = "edited" /\ to.state = "live" => library[b].state # "none"
  /\ to.copy = "archived" => to.state = "live" /\ library[b].state # "live"
  /\ UNCHANGED <<review, profile, allow, pens, made>>

-----------------------------------------------------------------------------

ReviewNext ==
  \/ \E v \in Titles : EditTitle(v)
  \/ \E yes \in BOOLEAN : Include(yes)
  \/ \E v \in Extras \cup {Blank} : EditExtra(v)
  \/ \E n \in Names : SelectKnown(n) \/ SelectExisting(n) \/ Propose(n)
  \/ \E m \in {"create", "existing", "defer"} : SetMode(m)
  \/ HandleCreate \/ \E k \in DOMAIN pens : AddPenName(k) \/ PenNameFails(k) \/ Created(k)
  \/ \E all \in BOOLEAN : SelectAll(all)
  \/ \E b \in Archived : Toggle(b) \/ \E a \in Actions : SetDuplicateAction(b, a)
  \/ AdvanceFromSummary \/ CloseDialog \/ Reopen \/ RetryImport \/ Confirm
  \/ \E f \in Found : Restart(f)
  \/ ExecuteOne \/ ExecuteMulti \/ ExecuteFailed
  \/ \E b \in Archived, to \in [state : {"none", "live", "trashed"}, copy : {"edited", "archived"}] :
       LibraryChanges(b, to)

ReviewSpec == ReviewInit /\ [][ReviewNext]_reviewVars

-----------------------------------------------------------------------------

\* What was imported is what the form showed when the import was confirmed,
\* however often the panel was mounted, filled and told of a created author
\* before.  A blank author and fields that are left out are the handlers'.
ImportedIsShown ==
  made # Skip /\ review.step = "done" /\ ~Several =>
    /\ made.title = review.form.title
    /\ review.form.author # Blank => made.author = review.form.author
    /\ review.form.include => made.extra = review.form.extra

\* An import of several books changes only those that are chosen, and puts
\* an archived copy in the place of a live book only where the user was shown
\* the duplicate and chose to overwrite it, whatever happened to the books
\* between the detection and the import.
ReplacementWasChosen ==
  ExecuteMulti => \A b \in Archived : library'[b] # library[b] =>
    /\ b \in review.chosen
    /\ library[b].state = "live" => b \in review.shownDup /\ review.dup[b] = "overwrite"

=============================================================================
