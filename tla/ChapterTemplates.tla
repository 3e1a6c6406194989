-------------------------- MODULE ChapterTemplates --------------------------
(***************************************************************************)
(* The templates of chapters: the picker (ChapterTemplatePickerModal.tsx), *)
(* the dialog that makes one from a chapter or edits one                   *)
(* (SaveAsChapterTemplateModal.tsx) and the endpoints                      *)
(* (routers/chapter_templates.py).  A template is an id with a name and a  *)
(* state; text, type and the members of a group are left out.  What an     *)
(* insertion does to the book is in ChapterOrder.                          *)
(***************************************************************************)
EXTENDS Naturals, FiniteSets

CONSTANTS
  Patterns, \* ids of templates
  Builtins, \* those that come with the application
  Labels,   \* names
  MaxTemplateCalls, \* bound on the requests the user makes
  NoName

ASSUME TemplatesAssumption == Builtins \subseteq Patterns

VARIABLES
  tpl,    \* the rows: a name, or NoName; a name is there once
  worn,   \* ids that have been used
  pick,   \* the picker
  tsave,  \* the dialog that saves
  tCalls, \* requests; old: a change was answered since the server read the list
  tSent,  \* number of them
  tOff    \* history: why the picker may be wrong

templateVars == <<tpl, worn, pick, tsave, tCalls, tSent, tOff>>

NoRow  == [p \in Patterns |-> NoName]
NoPick == [open |-> FALSE, loaded |-> FALSE, list |-> NoRow, chosen |-> NoName, asked |-> NoName]
NoSave == [mode |-> "closed", id |-> NoName, name |-> NoName, busy |-> FALSE, taken |-> FALSE]

\* Built-in templates are there, and some of the user's.
TemplateInit ==
  /\ tpl \in [Patterns -> Labels \cup {NoName}]
  /\ \A p \in Builtins : tpl[p] # NoName
  /\ \A p, q \in Patterns : tpl[p] = tpl[q] => p = q \/ tpl[p] = NoName
  /\ worn = {p \in Patterns : tpl[p] # NoName}
  /\ pick = NoPick /\ tsave = NoSave
  /\ tCalls = {} /\ tSent = 0 /\ tOff = {}

Req(kind, p, n) == [kind |-> kind, id |-> p, name |-> n, no |-> tSent, st |-> "sent",
                    rows |-> NoRow, old |-> FALSE]

\* What is typed when no request may follow is left out.
MaySend == tSent < MaxTemplateCalls

Shows(p, s) == pick' = p /\ tsave' = s /\ UNCHANGED <<tpl, worn, tCalls, tSent, tOff>>

Sends(c, p, s) ==
  /\ MaySend
  /\ tSent' = tSent + 1
  /\ tCalls' = tCalls \cup {c}
  /\ pick' = p /\ tsave' = s
  /\ UNCHANGED <<tpl, worn, tOff>>

-----------------------------------------------------------------------------
(* The picker                                                              *)

\* Of the dialogs only the one on top hears the user.
PickerOnTop == pick.open /\ pick.asked = NoName /\ tsave.mode = "closed"

\* refreshList, on every opening.
OpenPicker ==
  /\ ~pick.open /\ tsave.mode = "closed"
  /\ Sends(Req("list", NoName, NoName), [pick EXCEPT !.open = TRUE], tsave)

PickerClosed == [pick EXCEPT !.open = FALSE, !.loaded = FALSE, !.list = NoRow, !.chosen = NoName]

ClosePicker == PickerOnTop /\ Shows(PickerClosed, tsave)

\* A card of the list; only the user's own templates can be edited or deleted.
CardShown(p) == PickerOnTop /\ pick.list[p] # NoName
OwnCard(p)   == CardShown(p) /\ p \notin Builtins

Choose(p) == CardShown(p) /\ pick.chosen # p /\ Shows([pick EXCEPT !.chosen = p], tsave)

\* NoName happens when the chosen template is not in the list.
Insert ==
  /\ PickerOnTop /\ pick.chosen # NoName
  /\ pick.list[pick.chosen] # NoName
  /\ Shows(PickerClosed, tsave)

\* A file with a template.
ImportTemplate(n) == PickerOnTop /\ Sends(Req("import", NoName, n), pick, tsave)

\* handleDelete up to the confirmation, and after it.
AskRemoval(p) == OwnCard(p) /\ MaySend /\ Shows([pick EXCEPT !.asked = p], tsave)
RefuseRemoval == pick.asked # NoName /\ Shows([pick EXCEPT !.asked = NoName], tsave)
ConfirmRemoval ==
  /\ pick.asked # NoName
  /\ Sends(Req("delete", pick.asked, NoName), [pick EXCEPT !.asked = NoName], tsave)

-----------------------------------------------------------------------------
(* The dialog that saves                                                   *)

\* From the picker, and from a chapter of the sidebar: its title is the name at first.
EditTemplate(p) ==
  OwnCard(p) /\ Shows(pick, [NoSave EXCEPT !.mode = "edit", !.id = p, !.name = pick.list[p]])
SaveChapterAs(n) ==
  /\ ~pick.open /\ tsave.mode = "closed"
  /\ Shows(pick, [NoSave EXCEPT !.mode = "create", !.name = n])

\* Its effect: when the page takes the chapter over anew, from the answer to
\* an autosave, the form starts again and what was typed is gone.
ChapterTakenOver(n) ==
  /\ tsave.mode = "create" /\ MaySend
  /\ Shows(pick, [tsave EXCEPT !.name = n, !.taken = FALSE])

TypeLabel(n) ==
  /\ tsave.mode # "closed" /\ tsave.name # n /\ MaySend
  /\ Shows(pick, [tsave EXCEPT !.name = n, !.taken = FALSE])

\* What the dialog offers: to save, and to leave, unless it saves already.
CanSave == tsave.mode # "closed" /\ ~tsave.busy

SubmitTemplate ==
  /\ CanSave
  /\ Sends(Req(tsave.mode, tsave.id, tsave.name), pick, [tsave EXCEPT !.busy = TRUE, !.taken = FALSE])

\* The picker loads its list again whenever its edit dialog is closed.
LeaveSave ==
  /\ CanSave
  /\ IF tsave.mode = "edit" THEN Sends(Req("list", NoName, NoName), pick, NoSave)
     ELSE Shows(pick, NoSave)

-----------------------------------------------------------------------------
(* The server                                                              *)

NameTaken(n) == \E p \in Patterns : tpl[p] = n

Done(c, rows, used, st) ==
  /\ tpl' = rows /\ worn' = used
  /\ tCalls' = (tCalls \ {c}) \cup
       {[c EXCEPT !.st = st, !.rows = IF c.kind = "list" THEN tpl ELSE @,
                  !.id = IF used # worn THEN CHOOSE p \in used : p \notin worn ELSE @]}
  /\ UNCHANGED <<pick, tsave, tSent, tOff>>

HandleTemplates(c) == c.kind = "list" /\ Done(c, tpl, worn, "done")

\* create_chapter_template and import_chapter_template: 409 for a name that is there.
HandleNew(c) ==
  /\ c.kind \in {"create", "import"}
  /\ IF NameTaken(c.name) THEN Done(c, tpl, worn, "taken")
     ELSE \E p \in Patterns \ worn : Done(c, [tpl EXCEPT ![p] = c.name], worn \cup {p}, "done")

\* update_chapter_template looks for no other template of the name; the column
\* is unique, and the commit fails with 500.
HandleEdit(c) ==
  /\ c.kind = "edit"
  /\ IF tpl[c.id] = NoName \/ \E p \in Patterns \ {c.id} : tpl[p] = c.name
     THEN Done(c, tpl, worn, "refused")
     ELSE Done(c, [tpl EXCEPT ![c.id] = c.name], worn, "done")

HandleRemoval(c) ==
  /\ c.kind = "delete"
  /\ IF tpl[c.id] = NoName THEN Done(c, tpl, worn, "refused")
     ELSE Done(c, [tpl EXCEPT ![c.id] = NoName], worn, "done")

HandleTemplate(c) ==
  c.st = "sent" /\ (HandleTemplates(c) \/ HandleNew(c) \/ HandleEdit(c) \/ HandleRemoval(c))

-----------------------------------------------------------------------------
(* The answers                                                             *)

Older(c) ==
  {IF d.kind = "list" /\ d.st = "done" /\ c.kind # "list" THEN [d EXCEPT !.old = TRUE] ELSE d :
     d \in tCalls \ {c}}

ReloadList(c) == [c EXCEPT !.kind = "list", !.id = NoName, !.name = NoName, !.st = "sent"]

Takes(c, p, s, more, off) ==
  /\ pick' = p /\ tsave' = s
  /\ tCalls' = Older(c) \cup more
  /\ tOff' = off
  /\ UNCHANGED <<tpl, worn, tSent>>

\* The list is taken over whatever became of the picker since.
AnswerTemplates(c) ==
  /\ c.kind = "list" /\ c.st = "done"
  /\ Takes(c, [pick EXCEPT !.loaded = TRUE, !.list = c.rows], tsave, {}, IF c.old THEN {"late"} ELSE {})

\* The new template is chosen before the list that holds it has come.
AnswerImport(c) ==
  /\ c.kind = "import" /\ c.st = "done"
  /\ Takes(c, [pick EXCEPT !.chosen = c.id], tsave, {ReloadList(c)}, tOff)

AnswerCreated(c) == c.kind = "create" /\ c.st = "done" /\ Takes(c, pick, NoSave, {}, tOff)

\* Mutant of AnswerEdited: the picker keeps its list.
AnswerEdited_Kept(c) == c.kind = "edit" /\ c.st = "done" /\ Takes(c, pick, NoSave, {}, tOff)

AnswerEdited(c) == c.kind = "edit" /\ c.st = "done" /\ Takes(c, pick, NoSave, {ReloadList(c)}, tOff)

AnswerRemoval(c) ==
  /\ c.kind = "delete" /\ c.st = "done"
  /\ Takes(c, [pick EXCEPT !.list[c.id] = NoName, !.chosen = IF @ = c.id THEN NoName ELSE @],
           tsave, {}, tOff)

\* The request is refused, or it or its answer is lost.  Without a list the
\* picker says so; a name that is taken is shown in the dialog.
TemplateCallFails(c) ==
  Takes(c, IF c.kind = "list" THEN [pick EXCEPT !.loaded = TRUE, !.list = NoRow] ELSE pick,
        IF c.kind \in {"create", "edit"}
          THEN [tsave EXCEPT !.busy = FALSE, !.taken = c.st = "taken"] ELSE tsave,
        {}, IF c.kind = "list" \/ c.st = "done" THEN tOff \cup {"failed"} ELSE tOff)

TemplateAnswer(c) ==
  \/ AnswerTemplates(c) \/ AnswerImport(c) \/ AnswerCreated(c)
  \/ AnswerEdited(c) \/ AnswerRemoval(c) \/ TemplateCallFails(c)

-----------------------------------------------------------------------------
TemplateNext ==
  \/ OpenPicker \/ ClosePicker \/ Insert \/ RefuseRemoval \/ ConfirmRemoval
  \/ SubmitTemplate \/ LeaveSave
  \/ \E p \in Patterns : Choose(p) \/ AskRemoval(p) \/ EditTemplate(p)
  \/ \E n \in Labels : ImportTemplate(n) \/ SaveChapterAs(n) \/ ChapterTakenOver(n) \/ TypeLabel(n)
  \/ \E c \in tCalls : HandleTemplate(c) \/ TemplateAnswer(c)

TemplateSpec == TemplateInit /\ [][TemplateNext]_templateVars

-----------------------------------------------------------------------------
(* Properties                                                              *)

TemplateTypeOK ==
  /\ tpl \in [Patterns -> Labels \cup {NoName}] /\ worn \subseteq Patterns
  /\ pick \in [open : BOOLEAN, loaded : BOOLEAN, list : [Patterns -> Labels \cup {NoName}],
               chosen : Patterns \cup {NoName}, asked : Patterns \cup {NoName}]
  /\ tsave \in [mode : {"closed", "create", "edit"}, id : Patterns \cup {NoName},
                name : Labels \cup {NoName}, busy : BOOLEAN, taken : BOOLEAN]
  /\ tSent \in 0..MaxTemplateCalls
  /\ tOff \subseteq {"late", "failed"}

\* An open picker shows the templates there are when nothing is under way,
\* whatever was imported, renamed and deleted in it, and a template is in it
\* under one name only; except after a failed request, and after a list that
\* the server read before a change and that came after the change's answer
\* (refreshList takes every answer, ChapterTemplatePickerModal.tsx:27-31).
TemplatesShown ==
  pick.open /\ tCalls = {} /\ tOff = {} => pick.loaded /\ pick.list = tpl

=============================================================================
