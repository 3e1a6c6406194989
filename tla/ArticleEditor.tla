--------------------------- MODULE ArticleEditor ---------------------------
(***************************************************************************)
(* The page that edits one article (ArticleEditor.tsx) against the         *)
(* handlers of articles.py.  The page keeps three things apart: the row it *)
(* shows (article), the metadata it believes saved (lastSavedMeta) and the *)
(* document in the TipTap editor, which saves itself through               *)
(* persistContent.  Every answer to a metadata PATCH replaces the row as a *)
(* whole, the document it carries included.  Nothing has a version.        *)
(*                                                                         *)
(* Handlers run in pool threads, requests over several connections: they   *)
(* are handled, and their answers arrive, in any order.  A request may be  *)
(* refused (an ApiError) or its connection may break, before or after it   *)
(* was handled.  The page opens one article; the buttons that always fail  *)
(* in this template (export, translation) are left out.                    *)
(***************************************************************************)
EXTENDS Naturals, FiniteSets

CONSTANTS
  Texts,     \* metadata fields that are typed and saved on blur
  Menus,     \* metadata fields that are saved at once
  Generated, \* fields the AI generates
  Pictures,  \* fields that hold the address of an uploaded picture
  Topics,    \* fields that hold a topic, which the page can add
  Values,    \* values of the metadata fields
  Docs,      \* documents
  v0, d0,    \* what the article holds at first; v0 is the value of an empty field
  MaxEditorCalls, \* bound on the requests of the page and their failures
  None

\* Generated, Pictures and Topics are among them.
Meta == Texts \cup Menus

VARIABLES
  row,    \* the article's row; st is "live", "trashed" or "moved"
  ed,     \* the page
  eCalls, \* requests under way
  eSent,  \* number of requests and failures so far
  eOdd    \* what the promise below excepts: "failed", a request failed; "overlap",
          \* two saves were under way at once; "filled", the AI template wrote
          \* the row; "replaced", the document was replaced under the user's hands

editorVars == <<row, ed, eCalls, eSent, eOdd>>

Article == [meta : [Meta -> Values], doc : Docs]

\* What a request carries: field and value of the patch, the row its sender
\* saw (base), the metadata to be remembered (meta), a document, the row of
\* the answer.
Request == [id : Nat, kind : {"load", "meta", "content", "help", "fill", "force", "refetch", "delete", "reclassify"},
            field : Meta \cup {None}, value : Values \cup {None}, base : Article \cup {None},
            meta : [Meta -> Values] \cup {None}, doc : Docs \cup {None},
            stage : {"sent", "handled", "refused", "broken"}, reply : Article \cup {None}]

EditorTypeOK ==
  /\ row.st \in {"live", "trashed", "moved"} /\ row.at \in Article
  /\ ed.on \in {"loading", "open", "list", "elsewhere"} /\ ed.article \in Article
  /\ ed.lastSavedMeta \in [Meta -> Values] /\ {ed.doc, ed.lastSaved} \subseteq Docs
  /\ ed.timer \in Docs \cup {None} /\ ed.focus \in Texts \cup {None}
  /\ ed.saveStatus \in {"idle", "saving", "saved", "error"} /\ ed.fading \in BOOLEAN
  /\ eCalls \subseteq Request /\ eSent \in 0..MaxEditorCalls

NewArticle == [meta |-> [f \in Meta |-> v0], doc |-> d0]

\* The page before its article is there.
EditorBlank == [on |-> "elsewhere", article |-> NewArticle, lastSavedMeta |-> NewArticle.meta,
                doc |-> d0, lastSaved |-> d0, timer |-> None, focus |-> None,
                saveStatus |-> "idle", fading |-> FALSE]

EditorInit ==
  /\ row = [st |-> "live", at |-> NewArticle]
  /\ ed = EditorBlank /\ eCalls = {} /\ eSent = 0 /\ eOdd = {}

-----------------------------------------------------------------------------
(* Requests                                                                *)

Ask(kind) == [id |-> eSent + 1, kind |-> kind, field |-> None, value |-> None, base |-> None,
              meta |-> None, doc |-> None, stage |-> "sent", reply |-> None]

Issue(c) == eSent < MaxEditorCalls /\ eSent' = eSent + 1 /\ eCalls' = eCalls \cup {c}
Turns(c, new) == eCalls' = (eCalls \ {c}) \cup {new}
Ends(c) == eCalls' = eCalls \ {c}

Saving(C, kinds) == \E c \in C : c.kind \in kinds

Notes(what, happens) == eOdd' = eOdd \cup (IF happens THEN {what} ELSE {})

-----------------------------------------------------------------------------
(* The server                                                              *)

\* update_article: only what the body holds is written.
Patched(c) ==
  IF c.kind = "content" THEN [row.at EXCEPT !.doc = c.doc]
  ELSE [row.at EXCEPT !.meta[c.field] = c.value]

\* The handler of the request; the article may be in the trash, but not gone.
HandleCall(c) ==
  /\ c.stage = "sent" /\ row.st # "moved"
  /\ CASE c.kind \in {"meta", "content"} ->
            /\ row' = [row EXCEPT !.at = Patched(c)]
            /\ Turns(c, [c EXCEPT !.stage = "handled", !.reply = Patched(c)])
       [] c.kind \in {"load", "refetch"} ->
            Turns(c, [c EXCEPT !.stage = "handled", !.reply = row.at]) /\ UNCHANGED row
       [] c.kind = "help" ->
            Turns(c, [c EXCEPT !.stage = "handled"]) /\ UNCHANGED row
       [] c.kind \in {"fill", "force"} ->
            \E f \in Meta, v \in Values \ {v0} :
               /\ row' = IF row.at.meta[f] = v0 \/ c.kind = "force" THEN [row EXCEPT !.at.meta[f] = v] ELSE row
               /\ Turns(c, [c EXCEPT !.stage = "handled"])
       [] c.kind = "delete" ->
            row' = [row EXCEPT !.st = "trashed"] /\ Turns(c, [c EXCEPT !.stage = "handled"])
       [] c.kind = "reclassify" ->
            row' = [row EXCEPT !.st = "moved"] /\ Turns(c, [c EXCEPT !.stage = "handled"])
  /\ UNCHANGED <<ed, eSent, eOdd>>

\* The request is refused, or its connection breaks before or after it is
\* handled; after the article was moved every request is refused.
FailCall(c) ==
  /\ c.stage \in {"sent", "handled"}
  /\ \/ c.stage = "sent" /\ row.st = "moved" /\ Turns(c, [c EXCEPT !.stage = "refused"]) /\ UNCHANGED eSent
     \/ /\ eSent < MaxEditorCalls /\ eSent' = eSent + 1
        /\ \/ c.stage = "sent" /\ Turns(c, [c EXCEPT !.stage = "refused"])
           \/ Turns(c, [c EXCEPT !.stage = "broken"])
  /\ Notes("failed", TRUE)
  /\ UNCHANGED <<row, ed>>

-----------------------------------------------------------------------------
(* The page                                                                *)

\* The Editor's effect: whenever the document of the row shown becomes
\* another one, the editor shows it and takes it for saved.  The debounced
\* save is left as it is.
Shows(e, new) ==
  IF new.doc # e.article.doc /\ e.doc # new.doc
  THEN [e EXCEPT !.article = new, !.doc = new.doc, !.lastSaved = new.doc]
  ELSE [e EXCEPT !.article = new]

Replaced(e, new) == Notes("replaced", Shows(e, new).doc # e.doc)

\* The page is opened.
Open(c) ==
  /\ ed.on = "elsewhere" /\ eSent = 0 /\ c = Ask("load")
  /\ Issue(c) /\ ed' = [EditorBlank EXCEPT !.on = "loading"]
  /\ UNCHANGED <<row, eOdd>>

\* Its article is there; a page that was left does not hear of it.
Loaded(c) ==
  /\ c.kind = "load" /\ c.stage # "sent" /\ Ends(c)
  /\ ed' = IF ed.on = "loading" /\ c.stage = "handled"
           THEN [ed EXCEPT !.on = "open", !.article = c.reply, !.lastSavedMeta = c.reply.meta,
                           !.doc = c.reply.doc, !.lastSaved = c.reply.doc]
           ELSE ed
  /\ UNCHANGED <<row, eSent, eOdd>>

\* persistMeta as a handler of a page that showed the row base: nothing is
\* sent when the metadata is what was saved last.
PersistMeta(base, f, v, rest) ==
  LET next == [base EXCEPT !.meta[f] = v]
      call == [Ask("meta") EXCEPT !.field = f, !.value = v, !.meta = next.meta]
  IN /\ ed' = IF ed.on = "open" THEN Shows([ed EXCEPT !.focus = None], next) ELSE ed
     /\ IF next.meta = ed.lastSavedMeta
        THEN eCalls' = rest /\ UNCHANGED eSent
        ELSE /\ eSent < MaxEditorCalls /\ eSent' = eSent + 1
             /\ eCalls' = rest \cup {call}
     /\ eOdd' = eOdd \cup
          (IF ed.on = "open" /\ Shows(ed, next).doc # ed.doc THEN {"replaced"} ELSE {}) \cup
          (IF base # ed.article \/ Saving(rest, {"meta", "help", "fill", "force", "refetch"}) THEN {"overlap"} ELSE {})
     /\ UNCHANGED row

\* The page is there; nobody types in a field of it.
Editing == ed.on = "open" /\ ed.focus = None

\* Typing in a field shows at once and is saved when the field is left.
TypeField(f, v) ==
  /\ ed.on = "open" /\ ed.focus \in {None, f} /\ v # ed.article.meta[f]
  /\ ed' = [ed EXCEPT !.focus = f, !.article.meta[f] = v]
  /\ UNCHANGED <<row, eCalls, eSent, eOdd>>

BlurField ==
  /\ ed.on = "open" /\ ed.focus # None
  /\ PersistMeta(ed.article, ed.focus, ed.article.meta[ed.focus], eCalls)

\* A choice in a menu, the tags, an address without an upload.
ChooseValue(f, v) ==
  /\ Editing /\ v # ed.article.meta[f]
  /\ PersistMeta(ed.article, f, v, eCalls)

\* What takes a request before the value is there: the page remembers the row
\* it showed when it began.
Begins(f, v) ==
  /\ Editing
  /\ Issue([Ask("help") EXCEPT !.field = f, !.value = v, !.base = ed.article])
  /\ UNCHANGED <<row, ed, eOdd>>

Helps(F) == \E c \in eCalls : c.kind = "help" /\ c.field \in F

\* The buttons beside the fields: one field at a time is generated.
CanGenerate == ~Helps(Generated)
Generate(f, v) == CanGenerate /\ Begins(f, v)

\* The drop zone is there while there is no picture, a button to remove it
\* while there is one.
DropZone(f) == ed.article.meta[f] = v0

Upload(f, v) == DropZone(f) /\ v # v0 /\ Begins(f, v)

\* The file of the picture is looked up and deleted first.
RemovePicture(f) == ~DropZone(f) /\ Begins(f, v0)

\* A topic the settings do not have is added to them first.
AddTopic(f, v) == v # v0 /\ Begins(f, v)

\* The value is there: it is put into the row remembered, which is shown, and
\* saved, also when the page is not open any more.  A picture is taken out of
\* the row even if its file could not be deleted.
HelpDone(c) ==
  /\ c.kind = "help" /\ c.stage # "sent"
  /\ IF c.stage = "handled" \/ (c.field \in Pictures /\ c.value = v0)
     THEN PersistMeta(c.base, c.field, c.value, eCalls \ {c})
     ELSE Ends(c) /\ UNCHANGED <<row, ed, eSent, eOdd>>

\* Mutant of MetaSaved: the metadata is not remembered.
MetaSaved_Forgets(c) ==
  /\ c.kind = "meta" /\ c.stage # "sent" /\ Ends(c)
  /\ IF c.stage # "handled" THEN UNCHANGED <<ed, eOdd>>
     ELSE /\ ed' = IF ed.on = "open" THEN Shows(ed, c.reply) ELSE ed
          /\ eOdd' = eOdd
  /\ UNCHANGED <<row, eSent>>

\* The answer to a metadata PATCH.
MetaSaved(c) ==
  /\ c.kind = "meta" /\ c.stage # "sent" /\ Ends(c)
  /\ IF c.stage # "handled" THEN UNCHANGED <<ed, eOdd>>
     ELSE LET heard == [ed EXCEPT !.lastSavedMeta = c.meta] IN
          /\ ed' = IF ed.on = "open" THEN Shows(heard, c.reply) ELSE heard
          /\ Notes("replaced", ed.on = "open" /\ Shows(ed, c.reply).doc # ed.doc)
  /\ UNCHANGED <<row, eSent>>

\* The AI template panel: the AI or a template file fills the empty fields on
\* the server, a file also others when the user wants that.
FillTemplate(kind) ==
  /\ Editing /\ ~Saving(eCalls, {kind})
  /\ Issue(Ask(kind)) /\ UNCHANGED <<row, ed, eOdd>>

\* Then the page fetches the row again; lastSavedMeta stays.
Filled(c) ==
  /\ c.kind \in {"fill", "force"} /\ c.stage # "sent"
  /\ IF c.stage = "handled"
     THEN /\ eSent < MaxEditorCalls /\ eSent' = eSent + 1
          /\ eCalls' = (eCalls \ {c}) \cup {Ask("refetch")}
          /\ Notes("filled", TRUE)
     ELSE Ends(c) /\ UNCHANGED <<eSent, eOdd>>
  /\ UNCHANGED <<row, ed>>

Refetched(c) ==
  /\ c.kind = "refetch" /\ c.stage # "sent" /\ Ends(c)
  /\ IF ed.on = "open" /\ c.stage = "handled"
     THEN ed' = Shows(ed, c.reply) /\ Replaced(ed, c.reply)
     ELSE UNCHANGED <<ed, eOdd>>
  /\ UNCHANGED <<row, eSent>>

-----------------------------------------------------------------------------
(* The document                                                            *)

TypeDoc(d) ==
  /\ Editing /\ d # ed.doc
  /\ ed' = [ed EXCEPT !.doc = d, !.timer = d]
  /\ UNCHANGED <<row, eCalls, eSent, eOdd>>

\* The debounce is over: persistContent, unless this text was saved last.
Autosave ==
  /\ ed.on = "open" /\ ed.timer # None
  /\ IF ed.timer = ed.lastSaved
     THEN ed' = [ed EXCEPT !.timer = None] /\ UNCHANGED <<eCalls, eSent>>
     ELSE /\ ed' = [ed EXCEPT !.timer = None, !.saveStatus = "saving"]
          /\ Issue([Ask("content") EXCEPT !.doc = ed.timer])
  /\ Notes("overlap", Saving(eCalls, {"content"}))
  /\ UNCHANGED row

\* persistContent keeps every error to itself: the Editor takes the text for
\* saved whatever happened.
ContentSaved(c) ==
  /\ c.kind = "content" /\ c.stage # "sent" /\ Ends(c)
  /\ ed' = IF ed.on # "open" THEN ed
           ELSE [ed EXCEPT !.lastSaved = c.doc,
                           !.saveStatus = CASE c.stage = "handled" -> "saved"
                                            [] c.stage = "refused" -> "error"
                                            [] OTHER -> @,
                           !.fading = @ \/ c.stage = "handled"]
  /\ UNCHANGED <<row, eSent, eOdd>>

\* Two seconds after a save the indicator goes idle, whatever it shows then.
Fade ==
  /\ ed.on = "open" /\ ed.fading
  /\ \E more \in BOOLEAN : ed' = [ed EXCEPT !.saveStatus = "idle", !.fading = more]
  /\ UNCHANGED <<row, eCalls, eSent, eOdd>>

-----------------------------------------------------------------------------
(* Leaving                                                                 *)

\* Of the page, only what its handlers still refer to is left.
Gone(to) == [EditorBlank EXCEPT !.on = to, !.lastSavedMeta = ed.lastSavedMeta]

\* The user goes away; the debounced save goes with the Editor.
LeaveEditor(to) ==
  /\ ed.on \in {"open", "loading"} /\ ed' = Gone(to)
  /\ UNCHANGED <<row, eCalls, eSent, eOdd>>

\* Delete and "Move to comments", after the dialog.
Dispose(kind) ==
  /\ Editing
  /\ Issue(Ask(kind)) /\ UNCHANGED <<row, ed, eOdd>>

\* The list is shown then, wherever the user is.
Disposed(c) ==
  /\ c.kind \in {"delete", "reclassify"} /\ c.stage # "sent" /\ Ends(c)
  /\ ed' = IF c.stage = "handled" THEN Gone("list") ELSE ed
  /\ UNCHANGED <<row, eSent, eOdd>>

EditorNext ==
  \/ Open(Ask("load"))
  \/ \E f \in Texts, v \in Values : TypeField(f, v)
  \/ BlurField
  \/ \E f \in Menus, v \in Values : ChooseValue(f, v)
  \/ \E f \in Generated, v \in Values : Generate(f, v)
  \/ \E f \in Pictures, v \in Values : Upload(f, v)
  \/ \E f \in Pictures : RemovePicture(f)
  \/ \E f \in Topics, v \in Values : AddTopic(f, v)
  \/ \E kind \in {"fill", "force"} : FillTemplate(kind)
  \/ \E d \in Docs : TypeDoc(d)
  \/ Autosave \/ Fade
  \/ \E to \in {"list", "elsewhere"} : LeaveEditor(to)
  \/ \E kind \in {"delete", "reclassify"} : Dispose(kind)
  \/ \E c \in eCalls :
       \/ HandleCall(c) \/ FailCall(c)
       \/ Loaded(c) \/ HelpDone(c) \/ MetaSaved(c) \/ Filled(c) \/ Refetched(c)
       \/ ContentSaved(c) \/ Disposed(c)

EditorSpec == EditorInit /\ [][EditorNext]_editorVars

-----------------------------------------------------------------------------

\* Nothing is under way in the open page.
Quiet == ed.on = "open" /\ eCalls = {} /\ ed.timer = None /\ ed.focus = None

\* A quiet page shows what is saved, metadata and document, unless a request
\* failed, requests or answers overtook each other, the AI filled fields
\* behind lastSavedMeta, or the document was replaced under the user's hands.
QuietPageIsSaved ==
  Quiet /\ eOdd = {} =>
    /\ ed.article.meta = row.at.meta /\ ed.doc = row.at.doc
    /\ ed.saveStatus \in {"idle", "saved"}
=============================================================================
