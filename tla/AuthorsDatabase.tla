--------------------------- MODULE AuthorsDatabase ---------------------------
(***************************************************************************)
(* The authors' database in the settings (AuthorsDatabase.tsx) and its     *)
(* endpoints (routers/authors.py).  The list is loaded when the page is    *)
(* opened, 250 ms after the search was changed and after a creation; what  *)
(* is renamed or deleted is put into it from the answer.                   *)
(* An author is an id with a name; biography and slug are left out.        *)
(***************************************************************************)
EXTENDS Naturals, FiniteSets

CONSTANTS
  People,   \* ids of authors
  Names,    \* names
  Registers, \* what the rows may be at first
  Searches, \* what a search may find: sets of names; Names itself is the empty search
  MaxAuthorCalls, \* bound on the requests that change something or search
  Nobody    \* no author, no name

VARIABLES
  author,   \* the rows: a name, or Nobody
  spent,    \* ids that have been used
  adb,      \* the page
  aCalls,   \* its requests; after: the list that ends a creation; old: a change was
            \* answered since the server read it
  aSent,    \* how many so far
  aOff      \* history: why the list may be wrong

authorVars == <<author, spent, adb, aCalls, aSent, aOff>>

\* loadAuthors with a term, as it is sent.
Load(term) == [kind |-> "list", id |-> Nobody, name |-> Nobody, term |-> term, no |-> aSent + 1,
               st |-> "sent", rows |-> [p \in People |-> Nobody], after |-> FALSE, old |-> FALSE]
Change(kind, p, n, term) == [Load(term) EXCEPT !.kind = kind, !.id = p, !.name = n]

AuthorInit ==
  /\ \E first \in Registers :
       author = first /\ spent = {p \in People : first[p] # Nobody}
  /\ adb = [loading |-> TRUE, list |-> [p \in People |-> Nobody], term |-> Names, due |-> FALSE,
            form |-> "closed", name |-> Nobody, creating |-> FALSE,
            editing |-> Nobody, draft |-> Nobody, saving |-> Nobody, asked |-> Nobody]
  /\ aSent = 0
  /\ aCalls = {[Load(Names) EXCEPT !.no = 0]}
  /\ aOff = {}

\* The confirmation of a deletion covers the page.
Free == adb.asked = Nobody

\* What is typed when no request may follow is left out.
MayAsk == aSent < MaxAuthorCalls

Page(new) == adb' = new /\ UNCHANGED <<author, spent, aCalls, aSent, aOff>>

Ask(c, new) ==
  /\ MayAsk
  /\ aSent' = aSent + 1
  /\ aCalls' = aCalls \cup {c}
  /\ adb' = new
  /\ UNCHANGED <<author, spent, aOff>>

-----------------------------------------------------------------------------
(* Search                                                                  *)

\* Typing starts the timer anew.
SearchFor(term) ==
  /\ Free /\ term # adb.term /\ MayAsk
  /\ Page([adb EXCEPT !.term = term, !.due = TRUE])

SearchDue == adb.due /\ Ask(Load(adb.term), [adb EXCEPT !.due = FALSE])

-----------------------------------------------------------------------------
(* The form for a new author                                               *)

ShowForm == Free /\ adb.form = "closed" /\ Page([adb EXCEPT !.form = "open"])

\* What the form offers: a field, a way out, and a save button that needs a name.
TypeName(n) ==
  /\ Free /\ adb.form = "open" /\ n # adb.name /\ MayAsk
  /\ Page([adb EXCEPT !.name = n])

LeaveForm ==
  /\ Free /\ adb.form = "open"
  /\ Page([adb EXCEPT !.form = "closed", !.name = Nobody])

\* handleCreate; the list will be loaded with the term of now.
CreateAuthor ==
  /\ Free /\ adb.form = "open" /\ adb.name # Nobody /\ ~adb.creating
  /\ Ask(Change("create", Nobody, adb.name, adb.term), [adb EXCEPT !.creating = TRUE])

-----------------------------------------------------------------------------
(* The rows                                                                *)

\* A row of the list, not in edit mode, has buttons to edit and to delete it.
RowShown(p) == Free /\ ~adb.loading /\ adb.list[p] # Nobody
RowAtRest(p) == RowShown(p) /\ adb.editing # p
RowInEdit(p) == RowShown(p) /\ adb.editing = p

StartEdit(p) ==
  /\ RowAtRest(p)
  /\ Page([adb EXCEPT !.editing = p, !.draft = adb.list[p]])

EditsClosed == [adb EXCEPT !.editing = Nobody, !.draft = Nobody]

CancelEdit == \E p \in People : RowInEdit(p) /\ Page(EditsClosed)

TypeDraft(n) ==
  /\ \E p \in People : RowInEdit(p)
  /\ n # adb.draft /\ MayAsk
  /\ Page([adb EXCEPT !.draft = n])

\* handleSaveEdit.
SaveEdit(p) ==
  /\ RowInEdit(p) /\ adb.draft # Nobody /\ adb.saving # p
  /\ Ask(Change("save", p, adb.draft, adb.term), [adb EXCEPT !.saving = p])

\* handleDelete up to the confirmation, and after it.
AskDelete(p) == RowAtRest(p) /\ MayAsk /\ Page([adb EXCEPT !.asked = p])
RefuseDelete == ~Free /\ Page([adb EXCEPT !.asked = Nobody])
ConfirmDelete ==
  /\ ~Free
  /\ Ask(Change("delete", adb.asked, Nobody, adb.term), [adb EXCEPT !.asked = Nobody])

-----------------------------------------------------------------------------
(* The server                                                              *)

\* list_authors finds the names the search matches.
Found(term) == [p \in People |-> IF author[p] \in term THEN author[p] ELSE Nobody]

Handled(c, row, st) ==
  /\ author' = row
  /\ aCalls' = (aCalls \ {c}) \cup {[c EXCEPT !.st = st, !.rows = IF c.kind = "list" THEN Found(c.term) ELSE @]}
  /\ UNCHANGED <<adb, aSent, aOff>>

HandleList(c) == c.kind = "list" /\ Handled(c, author, "done") /\ UNCHANGED spent

HandleCreate(c) ==
  /\ c.kind = "create"
  /\ \E p \in People \ spent :
       Handled(c, [author EXCEPT ![p] = c.name], "done") /\ spent' = spent \cup {p}

\* 404 for an author that is gone; a deletion of one is no error.
HandleSave(c) ==
  /\ c.kind = "save"
  /\ IF author[c.id] = Nobody THEN Handled(c, author, "refused")
     ELSE Handled(c, [author EXCEPT ![c.id] = c.name], "done")
  /\ UNCHANGED spent

HandleDelete(c) ==
  /\ c.kind = "delete"
  /\ Handled(c, [author EXCEPT ![c.id] = Nobody], "done") /\ UNCHANGED spent

HandleAuthors(c) ==
  /\ c.st = "sent"
  /\ HandleList(c) \/ HandleCreate(c) \/ HandleSave(c) \/ HandleDelete(c)

-----------------------------------------------------------------------------
(* The answers                                                             *)

\* The requests left; lists the server has read are older than this change.
Without(c) == {IF d.kind = "list" /\ d.st = "done" /\ c.kind # "list" THEN [d EXCEPT !.old = TRUE] ELSE d :
                 d \in aCalls \ {c}}

\* The list is right again when it was read after the last change, for the
\* search in the box.
AnswerList(c) ==
  /\ c.kind = "list" /\ c.st = "done"
  /\ adb' = [adb EXCEPT !.list = c.rows, !.loading = FALSE, !.creating = @ /\ ~c.after]
  /\ aOff' = IF c.old \/ c.term # adb.term THEN {"late"} ELSE {}
  /\ aCalls' = Without(c)
  /\ UNCHANGED <<author, spent, aSent>>

\* Mutant of AnswerCreate: the list is not loaded again.
AnswerCreate_Unlisted(c) ==
  /\ c.kind = "create" /\ c.st = "done"
  /\ adb' = [adb EXCEPT !.form = "closed", !.name = Nobody, !.creating = FALSE]
  /\ aCalls' = Without(c)
  /\ UNCHANGED <<author, spent, aSent, aOff>>

\* The form is emptied and closed, whatever it holds by now, and the list is
\* loaded with the search as it was when the form was saved.
AnswerCreate(c) ==
  /\ c.kind = "create" /\ c.st = "done"
  /\ adb' = [adb EXCEPT !.form = "closed", !.name = Nobody]
  /\ aCalls' = Without(c) \cup {[c EXCEPT !.kind = "list", !.st = "sent", !.name = Nobody, !.after = TRUE]}
  /\ UNCHANGED <<author, spent, aSent, aOff>>

\* The row takes the new name, in its old place; any row in edit mode leaves it.
AnswerSave(c) ==
  /\ c.kind = "save" /\ c.st = "done"
  /\ adb' = [EditsClosed EXCEPT !.list[c.id] = IF @ = Nobody THEN @ ELSE c.name, !.saving = Nobody]
  /\ aOff' = IF adb.list[c.id] = Nobody \/ c.name \notin adb.term THEN aOff \cup {"renamed"} ELSE aOff
  /\ aCalls' = Without(c)
  /\ UNCHANGED <<author, spent, aSent>>

AnswerDelete(c) ==
  /\ c.kind = "delete" /\ c.st = "done"
  /\ adb' = [adb EXCEPT !.list[c.id] = Nobody]
  /\ aCalls' = Without(c)
  /\ UNCHANGED <<author, spent, aSent, aOff>>

\* The request was refused, or it or its answer is lost: a toast.
AuthorCallFails(c) ==
  /\ adb' = [adb EXCEPT !.loading = @ /\ c.kind # "list",
                        !.creating = @ /\ c.kind # "create" /\ ~c.after,
                        !.saving = IF c.kind = "save" THEN Nobody ELSE @]
  /\ aOff' = IF c.kind = "list" \/ c.st = "done" THEN aOff \cup {"failed"} ELSE aOff
  /\ aCalls' = Without(c)
  /\ UNCHANGED <<author, spent, aSent>>

AuthorAnswer(c) ==
  AnswerList(c) \/ AnswerCreate(c) \/ AnswerSave(c) \/ AnswerDelete(c) \/ AuthorCallFails(c)

-----------------------------------------------------------------------------
AuthorNext ==
  \/ \E term \in Searches : SearchFor(term)
  \/ SearchDue \/ ShowForm \/ LeaveForm \/ CreateAuthor \/ CancelEdit \/ RefuseDelete \/ ConfirmDelete
  \/ \E n \in Names : TypeName(n) \/ TypeDraft(n)
  \/ \E p \in People : StartEdit(p) \/ SaveEdit(p) \/ AskDelete(p)
  \/ \E c \in aCalls : HandleAuthors(c) \/ AuthorAnswer(c)

AuthorSpec == AuthorInit /\ [][AuthorNext]_authorVars

-----------------------------------------------------------------------------
(* Properties                                                              *)

AuthorTypeOK ==
  /\ author \in [People -> Names \cup {Nobody}] /\ spent \subseteq People
  /\ adb \in [loading : BOOLEAN, list : [People -> Names \cup {Nobody}], term : Searches,
              due : BOOLEAN, form : {"closed", "open"}, name : Names \cup {Nobody},
              creating : BOOLEAN, editing : People \cup {Nobody}, draft : Names \cup {Nobody},
              saving : People \cup {Nobody}, asked : People \cup {Nobody}]
  /\ aSent \in 0..MaxAuthorCalls
  /\ aOff \subseteq {"late", "renamed", "failed"}

\* When nothing is under way the list shows what the search in the box finds.
\* It need not after a request that failed, after a rename that changes
\* whether the search finds the author, and after a list that comes late:
\* read before a change that was answered before it, or for an earlier search
\* (there is no guard against either, AuthorsDatabase.tsx:41-55); the next
\* list in order sets it right.
AuthorsShown ==
  aCalls = {} /\ ~adb.due /\ aOff = {} => adb.list = Found(adb.term)

=============================================================================
