---------------------------- MODULE BookMetadata ----------------------------
(***************************************************************************)
(* The metadata form of a book (BookMetadataEditor.tsx, CoverUpload.tsx)   *)
(* inside the book page (BookEditor.tsx), and the handlers it calls        *)
(* (update_book in books.py, services/covers.py).  The page keeps a copy   *)
(* of the book; the form is filled from it whenever that copy is replaced, *)
(* and a save sends the whole form.  A cover is stored by a request of its *)
(* own that changes the row at once.                                       *)
(*                                                                         *)
(* A field is one of a few with different ways to be filled; lists of      *)
(* words (keywords, categories, skipped chapter types) are fields as well. *)
(***************************************************************************)
EXTENDS Naturals, FiniteSets, Sequences

CONSTANTS
  MetaFields,  \* the form's fields
  AiFields,    \* those the AI can write
  CopyFields,  \* those another book can lend
  Cover,       \* the field that holds the path of the cover
  Typed,       \* what the user, the AI or another book puts into a field
  Files,       \* paths of covers: one per file extension
  Empty,       \* a field with nothing in it
  MaxMetaSteps \* bound on what the user, other tabs and losses do

VARIABLES
  mrow,   \* the book's row
  file,   \* the path of the cover that is stored, or Empty
  page,   \* the book page
  mdCalls, \* its requests, in the order they were made
  touched, \* fields changed since the form was last filled
  mdSteps, mdOdd \* steps so far; why form and row may differ

metaVars == <<mrow, file, page, mdCalls, touched, mdSteps, mdOdd>>

Values == Typed \cup Files \cup {Empty}
Forms == [MetaFields -> Values]

MetaTypeOK ==
  /\ mrow \in Forms /\ file \in Files \cup {Empty}
  /\ page.book \in Forms /\ page.form \in Forms
  /\ page.shown \in BOOLEAN /\ page.mount \in Nat
  /\ page.saving \in BOOLEAN /\ page.uploading \in BOOLEAN
  /\ page.asking \in AiFields \cup {Empty}
  /\ \A k \in DOMAIN mdCalls : /\ mdCalls[k].kind \in {"save", "cover", "write", "get"}
                               /\ mdCalls[k].stage \in {"sent", "ok", "failed", "done"}
  /\ touched \subseteq MetaFields
  /\ mdSteps \in Nat /\ mdOdd \subseteq {"overlap", "elsewhere", "lost"}

UnderWay == {k \in DOMAIN mdCalls : mdCalls[k].stage # "done"}

MetaInit ==
  /\ mrow = [f \in MetaFields |-> Empty] /\ file = Empty
  /\ page = [book |-> mrow, form |-> mrow, shown |-> TRUE, mount |-> 1,
             saving |-> FALSE, uploading |-> FALSE, asking |-> Empty]
  /\ mdCalls = <<>> /\ touched = {} /\ mdSteps = 0 /\ mdOdd = {}

-----------------------------------------------------------------------------
(* The form                                                                *)

\* The effect that fills the form whenever the page has another book object.
WithBook(p, book) ==
  IF p.shown THEN [p EXCEPT !.book = book, !.form = book] ELSE [p EXCEPT !.book = book]

UserActs(p) == mdSteps < MaxMetaSteps /\ mdSteps' = mdSteps + 1 /\ page' = p

\* The tabs of the form: the cover has no input of its own.
FieldOffered(f) == page.shown /\ f # Cover

\* A hand edit.
Set(f, v) ==
  /\ FieldOffered(f) /\ v # page.form[f]
  /\ UserActs([page EXCEPT !.form[f] = v]) /\ touched' = touched \cup {f}
  /\ UNCHANGED <<mrow, file, mdCalls, mdOdd>>

\* Another book lends the fields it has something in.
CopyFrom(lent) ==
  /\ page.shown
  /\ UserActs([page EXCEPT !.form = [f \in MetaFields |->
                 IF f \in CopyFields /\ lent[f] # Empty THEN lent[f] ELSE @[f]]])
  /\ touched' = touched \cup CopyFields
  /\ UNCHANGED <<mrow, file, mdCalls, mdOdd>>

\* The page shows a chapter instead: the form is gone with what is not saved.
Back ==
  /\ page.shown
  /\ UserActs([page EXCEPT !.shown = FALSE, !.saving = FALSE, !.uploading = FALSE, !.asking = Empty])
  /\ touched' = {} /\ UNCHANGED <<mrow, file, mdCalls, mdOdd>>

\* A new form, filled from the page's book.
OpenMetadata ==
  /\ ~page.shown
  /\ UserActs([page EXCEPT !.shown = TRUE, !.form = page.book, !.mount = @ + 1])
  /\ UNCHANGED <<mrow, file, mdCalls, touched, mdOdd>>

\* A chapter is renamed, deleted or moved in the sidebar: the page makes a
\* new book object, and the form beside it is filled again.
ChapterChanged ==
  /\ UserActs(WithBook(page, page.book)) /\ touched' = {}
  /\ UNCHANGED <<mrow, file, mdCalls, mdOdd>>

-----------------------------------------------------------------------------
(* Requests                                                                *)

Ask(p, kind, field, data) ==
  /\ UserActs(p)
  /\ mdCalls' = Append(mdCalls, [kind |-> kind, field |-> field, data |-> data,
                                 stage |-> "sent", answer |-> page.book, mount |-> p.mount])
  /\ mdOdd' = mdOdd \cup (IF UnderWay = {} THEN {} ELSE {"overlap"})
  /\ UNCHANGED <<mrow, file, touched>>

CanSave == page.shown /\ ~page.saving

\* The whole form is sent, edited or not.
HandleSave ==
  CanSave /\ Ask([page EXCEPT !.saving = TRUE], "save", Cover, page.form)

\* Only the button that was pressed last is disabled.
AiOffered(f) == page.shown /\ page.asking # f

HandleAiGenerate(f) ==
  /\ AiOffered(f)
  /\ Ask([page EXCEPT !.asking = f], "write", f, page.form)

CoverOffered == page.shown /\ ~page.uploading

HandleFiles(path) ==
  /\ CoverOffered
  /\ Ask([page EXCEPT !.uploading = TRUE], "cover", Cover, [page.form EXCEPT ![Cover] = path])

HandleRemove ==
  /\ CoverOffered /\ page.form[Cover] # Empty
  /\ Ask([page EXCEPT !.uploading = TRUE], "cover", Cover, [page.form EXCEPT ![Cover] = Empty])

\* The AI template was applied to the row; the page fetches the book again.
TemplateApplied(f, v) ==
  /\ page.shown /\ UserActs(page)
  /\ mrow' = [mrow EXCEPT ![f] = v]
  /\ mdCalls' = Append(mdCalls, [kind |-> "get", field |-> Cover, data |-> page.form,
                                 stage |-> "sent", answer |-> page.book, mount |-> page.mount])
  /\ mdOdd' = mdOdd \cup (IF UnderWay = {} THEN {} ELSE {"overlap"})
  /\ UNCHANGED <<file, touched>>

Stage(k, stage) == mdCalls' = [mdCalls EXCEPT ![k].stage = stage]

\* What the server does for a request, and the book it answers with.
UpdateBook(k) ==
  /\ mdCalls[k].kind = "save" /\ mrow' = mdCalls[k].data /\ UNCHANGED file

StoreCover(k) ==
  /\ mdCalls[k].kind = "cover"
  /\ file' = mdCalls[k].data[Cover] /\ mrow' = [mrow EXCEPT ![Cover] = file']

Answer(k) ==
  /\ mdCalls[k].stage = "sent"
  /\ \/ UpdateBook(k) \/ StoreCover(k)
     \/ mdCalls[k].kind \in {"get", "write"} /\ UNCHANGED <<mrow, file>>
  /\ mdCalls' = [mdCalls EXCEPT ![k].stage = "ok", ![k].answer = mrow']
  /\ UNCHANGED <<page, touched, mdSteps, mdOdd>>

\* The server refuses, the provider fails, or the request never arrives.
Refuse(k) ==
  /\ mdCalls[k].stage = "sent" /\ Stage(k, "failed")
  /\ UNCHANGED <<mrow, file, page, touched, mdSteps, mdOdd>>

\* The server did it and its answer is lost.
LoseAnswer(k) ==
  /\ mdCalls[k].stage = "ok" /\ mdCalls[k].kind \in {"save", "cover"}
  /\ UserActs(page) /\ Stage(k, "failed") /\ mdOdd' = mdOdd \cup {"lost"}
  /\ UNCHANGED <<mrow, file, touched>>

\* Only the form that asked is still there to be told.
Mounted(k) == page.shown /\ page.mount = mdCalls[k].mount

\* Mutant of Saved: the page keeps its old book.
Saved_BookKept(p, book) == p

\* The answer becomes part of the page's book, and so fills the form.
Saved(p, book) == WithBook(p, book)

SaveAnswered(k) ==
  /\ mdCalls[k].kind = "save" /\ mdCalls[k].stage \in {"ok", "failed"}
  /\ LET p == IF Mounted(k) THEN [page EXCEPT !.saving = FALSE] ELSE page
         ok == mdCalls[k].stage = "ok"
     IN /\ page' = IF ok THEN Saved(p, mdCalls[k].answer) ELSE p
        /\ touched' = IF ok THEN {} ELSE touched
  /\ Stage(k, "done") /\ UNCHANGED <<mrow, file, mdSteps, mdOdd>>

\* The generated text replaces what the field holds by now.
Generated(k, text) ==
  /\ mdCalls[k].kind = "write" /\ mdCalls[k].stage \in {"ok", "failed"}
  /\ LET f == mdCalls[k].field
         ok == Mounted(k) /\ mdCalls[k].stage = "ok"
     IN /\ page' = IF ~Mounted(k) THEN page
                   ELSE [page EXCEPT !.asking = Empty, !.form[f] = IF ok THEN text ELSE @]
        /\ touched' = IF ok THEN touched \cup {f} ELSE touched
  /\ Stage(k, "done") /\ UNCHANGED <<mrow, file, mdSteps, mdOdd>>

\* The path of the cover goes into the form, not into the page's book.
CoverAnswered(k) ==
  /\ mdCalls[k].kind = "cover" /\ mdCalls[k].stage \in {"ok", "failed"}
  /\ page' = IF ~Mounted(k) THEN page
             ELSE [page EXCEPT !.uploading = FALSE,
                               !.form[Cover] = IF mdCalls[k].stage = "ok" THEN mdCalls[k].data[Cover] ELSE @]
  /\ Stage(k, "done") /\ UNCHANGED <<mrow, file, touched, mdSteps, mdOdd>>

\* A book that cannot be fetched again is ignored.
Refreshed(k) ==
  /\ mdCalls[k].kind = "get" /\ mdCalls[k].stage \in {"ok", "failed"}
  /\ LET ok == mdCalls[k].stage = "ok" IN
     /\ page' = IF ok THEN WithBook(page, mdCalls[k].answer) ELSE page
     /\ touched' = IF ok THEN {} ELSE touched
     /\ mdOdd' = mdOdd \cup (IF ok THEN {} ELSE {"lost"})
  /\ Stage(k, "done") /\ UNCHANGED <<mrow, file, mdSteps>>

\* Another tab saves a field.
SavedElsewhere(f, v) ==
  /\ f # Cover /\ mdSteps < MaxMetaSteps /\ mdSteps' = mdSteps + 1
  /\ mrow' = [mrow EXCEPT ![f] = v] /\ mdOdd' = mdOdd \cup {"elsewhere"}
  /\ UNCHANGED <<file, page, mdCalls, touched>>

-----------------------------------------------------------------------------

MetaNext ==
  \/ \E f \in MetaFields, v \in Typed \cup {Empty} : Set(f, v) \/ SavedElsewhere(f, v)
  \/ \E lent \in [CopyFields -> Typed \cup {Empty}] : CopyFrom(lent)
  \/ Back \/ OpenMetadata \/ ChapterChanged
  \/ HandleSave \/ HandleRemove
  \/ \E f \in AiFields : HandleAiGenerate(f) \/ \E v \in Typed : TemplateApplied(f, v)
  \/ \E path \in Files : HandleFiles(path)
  \/ \E k \in DOMAIN mdCalls :
       \/ Answer(k) \/ Refuse(k) \/ LoseAnswer(k)
       \/ SaveAnswered(k) \/ CoverAnswered(k) \/ Refreshed(k)
       \/ \E text \in Typed : Generated(k, text)

MetaSpec == MetaInit /\ [][MetaNext]_metaVars

-----------------------------------------------------------------------------

\* A form with nothing under way shows, in every field that was not changed
\* since it was filled, what the database holds: after saves, failed saves,
\* generated texts, applied templates, other pages of the book and a new
\* form.  The next save sends these fields too and would otherwise write old
\* values back.  Overlapping requests, lost answers and other tabs are out,
\* and so is the cover (CoverIsServed).
FormIsTypedOrRow ==
  page.shown /\ UnderWay = {} /\ mdOdd = {} =>
    \A f \in MetaFields \ (touched \cup {Cover}) : page.form[f] = mrow[f]

\* covers.py, line 5: the row's cover_image is the path of the stored file,
\* so that the endpoint that serves it just works; here for requests that are
\* made one after the other and whose answers all arrive.  The code does not
\* keep this: a refill after the upload brings the old path back.
CoverIsServed == UnderWay = {} /\ mdOdd = {} => mrow[Cover] = file

=============================================================================
