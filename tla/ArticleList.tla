----------------------------- MODULE ArticleList -----------------------------
(***************************************************************************)
(* The page that lists the articles and their trash (ArticleList.tsx), its *)
(* selection, filters and dialogs, against the handlers of articles.py and *)
(* bulk_delete.py.  The page never loads both lists again after a change:  *)
(* each handler edits the lists it holds as it expects the server to have  *)
(* changed, and loads the trash again at most.  Another tab works on the   *)
(* same rows.  Requests are handled, and answered, in any order; a request *)
(* or its answer may be lost.  The dashboard is the same page for books.   *)
(***************************************************************************)
EXTENDS Naturals, FiniteSets

CONSTANTS
  Items,     \* articles, or books
  Shelves,   \* what the rows may be at first
  Filters,   \* what a setting of the filters hides: sets of items
  BulkMin,   \* fewest items of a bulk deletion (2 in the code)
  BulkLimit, \* most items of one bulk request (BULK_LIMIT_HARD)
  AiLimit,   \* the same for the AI's (ARTICLE_AI_BULK_LIMIT)
  MaxDeskCalls, \* bound on what the user, losses and other tabs do
  None

VARIABLES
  shelf,   \* the rows: "none" yet, "live", "trashed" or "gone" for good
  forGood, \* the setting delete_permanently
  desk,    \* the page; form is the dashboard's dialog for a new book, "kept"
           \* when it is closed and still filled
  dCalls,  \* its requests
  dSent,   \* number of steps that count against the bound
  dOdd     \* history: why the lists may be wrong since they were last loaded

deskVars == <<shelf, forGood, desk, dCalls, dSent, dOdd>>

DeskKinds == {"list", "trash", "delete", "discard", "purgeNext", "purge", "restore", "empty",
              "bulk", "bulkPurge", "undo", "create", "export", "templates"}

DeskCall == [id : Nat, kind : DeskKinds, ids : SUBSET Items, left : SUBSET Items, agreed : SUBSET Items,
             stage : {"sent", "ok", "failed"}, rows : SUBSET Items]

DeskTypeOK ==
  /\ shelf \in [Items -> {"none", "live", "trashed", "gone"}] /\ forGood \in BOOLEAN
  /\ {desk.live, desk.trash, desk.selected, desk.undo, desk.dialog.ids} \subseteq SUBSET Items
  /\ desk.hidden \in Filters /\ desk.soon \in Filters \cup {None}
  /\ desk.showTrash \in BOOLEAN /\ desk.form \in {"closed", "kept", "empty", "filled"}
  /\ dCalls \subseteq DeskCall /\ dSent \in Nat
  /\ dOdd \subseteq {"overlap", "elsewhere", "lost", "revived"}

NoDialog == [ids |-> {}, shown |-> {}]

DeskBlank == [live |-> {}, trash |-> {}, showTrash |-> FALSE, selected |-> {}, hidden |-> {},
              soon |-> None, dialog |-> NoDialog, undo |-> {}, form |-> "closed"]

\* A request about ids; agreed is what the user agreed to lose.
DeskAsk(kind, ids, agreed) == [id |-> dSent + 1, kind |-> kind, ids |-> ids, left |-> ids,
                           agreed |-> agreed, stage |-> "sent", rows |-> {}]

Here(state) == {i \in Items : shelf[i] = state}

\* The page mounted and loaded both lists.
DeskInit ==
  /\ shelf \in Shelves /\ forGood \in BOOLEAN
  /\ desk = [DeskBlank EXCEPT !.live = Here("live"), !.trash = Here("trashed")]
  /\ dCalls = {} /\ dSent = 0 /\ dOdd = {}

-----------------------------------------------------------------------------
(* The server                                                              *)

DeskReplies(c, new) == dCalls' = (dCalls \ {c}) \cup {new}
DeskDone(c, rows) == DeskReplies(c, [c EXCEPT !.stage = "ok", !.rows = rows])
DeskRefuses(c) == DeskReplies(c, [c EXCEPT !.stage = "failed"]) /\ UNCHANGED shelf
Becomes(ids, state) == shelf' = [i \in Items |-> IF i \in ids THEN state ELSE shelf[i]]

\* delete_article finds trashed rows, too; restore and permanent_delete only
\* those.
HandleRow(c) ==
  LET i == CHOOSE x \in c.ids : TRUE IN
  CASE c.kind \in {"delete", "discard"} ->
         IF shelf[i] \in {"live", "trashed"}
         THEN Becomes(c.ids, IF forGood THEN "gone" ELSE "trashed") /\ DeskDone(c, {}) ELSE DeskRefuses(c)
    [] c.kind = "restore" ->
         IF shelf[i] = "trashed" THEN Becomes(c.ids, "live") /\ DeskDone(c, {}) ELSE DeskRefuses(c)
    [] c.kind \in {"purge", "purgeNext"} ->
         IF shelf[i] = "trashed" THEN Becomes(c.ids, "gone") /\ DeskDone(c, {}) ELSE DeskRefuses(c)

\* _bulk_delete in one transaction; the answer names what failed and what was
\* skipped: neither can be undone.
HandleBulk(c) ==
  LET there == {i \in c.ids : shelf[i] \in {"live", "trashed"}} IN
  IF c.kind = "bulk"
  THEN Becomes(c.ids \cap Here("live"), "trashed")
       /\ DeskReplies(c, [c EXCEPT !.stage = "ok", !.rows = c.ids \ there, !.left = c.ids \cap Here("live")])
  ELSE Becomes(there, "gone") /\ DeskDone(c, c.ids \ there)

\* The restores of an undo are separate requests; one that fails fails it.
HandleUndo(c) ==
  \E i \in c.left :
    LET new == [c EXCEPT !.left = @ \ {i}, !.rows = IF shelf[i] = "trashed" THEN @ ELSE @ \cup {i}]
    IN /\ Becomes({i} \cap Here("trashed"), "live")
       /\ DeskReplies(c, [new EXCEPT !.stage = IF new.left # {} THEN "sent"
                                           ELSE IF new.rows = {} THEN "ok" ELSE "failed"])

HandleDesk(c) ==
  /\ c.stage = "sent"
  /\ CASE c.kind = "list"  -> DeskDone(c, Here("live")) /\ UNCHANGED shelf
       [] c.kind = "trash" -> DeskDone(c, Here("trashed")) /\ UNCHANGED shelf
       [] c.kind \in {"delete", "discard", "restore", "purge", "purgeNext"} -> HandleRow(c)
       [] c.kind = "empty" -> Becomes(Here("trashed"), "gone") /\ DeskDone(c, {})
       [] c.kind \in {"bulk", "bulkPurge"} -> HandleBulk(c)
       [] c.kind = "undo" -> HandleUndo(c)
       [] c.kind = "create" ->
            \E i \in Here("none") : Becomes({i}, "live") /\ DeskDone(c, {i})
       [] c.kind \in {"export", "templates"} -> DeskDone(c, {}) /\ UNCHANGED shelf
  /\ UNCHANGED <<forGood, desk, dSent, dOdd>>

\* The request is refused or lost, or its answer is lost.
LoseDesk(c) ==
  /\ c.stage \in {"sent", "ok"} /\ dSent < MaxDeskCalls /\ dSent' = dSent + 1
  /\ DeskReplies(c, [c EXCEPT !.stage = "failed"])
  /\ dOdd' = IF c.stage = "ok" \/ c.kind \in {"list", "trash", "undo", "purgeNext"}
             THEN dOdd \cup {"lost"} ELSE dOdd
  /\ UNCHANGED <<shelf, forGood, desk>>

\* Another tab trashes, restores or purges one.
OtherTab(i, state) ==
  /\ shelf[i] \in {"live", "trashed"} /\ shelf[i] # state
  /\ dSent < MaxDeskCalls /\ dSent' = dSent + 1
  /\ Becomes({i}, state) /\ dOdd' = dOdd \cup {"elsewhere"}
  /\ UNCHANGED <<forGood, desk, dCalls>>

-----------------------------------------------------------------------------
(* The page: lists, selection and filters                                  *)

\* The user asks for something.
DeskSends(kind, ids, agreed, d) ==
  /\ dSent < MaxDeskCalls /\ dSent' = dSent + 1
  /\ dCalls' = dCalls \cup {DeskAsk(kind, ids, agreed)} /\ desk' = d
  /\ dOdd' = IF dCalls # {} THEN dOdd \cup {"overlap"} ELSE dOdd
  /\ UNCHANGED <<shelf, forGood>>

\* An answer changes the page, which may send further requests.
Loads(kinds) == {DeskAsk(k, {}, {}) : k \in kinds}
DeskHears(c, d, more) ==
  /\ dCalls' = (dCalls \ {c}) \cup more
  /\ dSent' = IF more = {} THEN dSent ELSE dSent + 1
  /\ desk' = d
  /\ dOdd' = IF more # {} /\ dCalls # {c} THEN dOdd \cup {"overlap"} ELSE dOdd
  /\ UNCHANGED <<shelf, forGood>>

DeskSend(kind, ids, d) == DeskSends(kind, ids, {}, d)

DeskLocal(d) == desk' = d /\ UNCHANGED <<shelf, forGood, dCalls, dSent, dOdd>>

Visible == desk.live \ desk.hidden
Chosen == Visible \cap desk.selected
NoDialogOpen == desk.dialog = NoDialog /\ desk.form \in {"closed", "kept"}
AtList == NoDialogOpen /\ ~desk.showTrash
AtTrash == NoDialogOpen /\ desk.showTrash

\* The checkbox and the menu of a row, the buttons of one in the trash.
RowOffers(i) == AtList /\ i \in Visible
TrashOffers(i) == AtTrash /\ i \in desk.trash

ShowTrash == NoDialogOpen /\ DeskLocal([desk EXCEPT !.showTrash = ~@])

Toggle(i) ==
  /\ RowOffers(i)
  /\ DeskLocal([desk EXCEPT !.selected = IF i \in @ THEN @ \ {i} ELSE @ \cup {i}])

SelectAll == AtList /\ Visible # {} /\ desk.selected # Visible /\ DeskLocal([desk EXCEPT !.selected = Visible])
ClearSelection == AtList /\ desk.selected # {} /\ DeskLocal([desk EXCEPT !.selected = {}])

\* A facet applies at once, the search after a pause; both clear the
\* selection at once.
Filtered(d) ==
  /\ dSent < MaxDeskCalls /\ dSent' = dSent + 1 /\ desk' = d
  /\ UNCHANGED <<shelf, forGood, dCalls, dOdd>>

\* The bar of the filters.
FacetOffered(h) == AtList /\ h # desk.hidden

ChooseFacet(h) == FacetOffered(h) /\ Filtered([desk EXCEPT !.hidden = h, !.selected = {}])
Search(h) == FacetOffered(h) /\ Filtered([desk EXCEPT !.soon = h, !.selected = {}])
Debounced == desk.soon # None /\ DeskLocal([desk EXCEPT !.hidden = desk.soon, !.soon = None])

\* The page becomes visible again.  When nothing else is under way, what is
\* loaded repairs both lists.
Revisit ==
  /\ dSent < MaxDeskCalls /\ dSent' = dSent + 1
  /\ dCalls' = dCalls \cup Loads({"list", "trash"})
  /\ dOdd' = IF dCalls = {} /\ NoDialogOpen THEN {} ELSE dOdd \cup {"overlap"}
  /\ UNCHANGED <<shelf, forGood, desk>>

Listed(c) ==
  /\ c.kind = "list" /\ c.stage # "sent"
  /\ DeskHears(c, IF c.stage = "ok" THEN [desk EXCEPT !.live = c.rows] ELSE desk, {})

TrashLoaded(c) ==
  /\ c.kind = "trash" /\ c.stage # "sent"
  /\ DeskHears(c, IF c.stage = "ok" THEN [desk EXCEPT !.trash = c.rows] ELSE desk, {})

-----------------------------------------------------------------------------
(* One row                                                                 *)

Drops(i) == [desk EXCEPT !.live = @ \ {i}, !.selected = @ \ {i}]
The(c) == CHOOSE i \in c.ids : TRUE

\* Without a question: the trash is the safety net, unless the setting says
\* otherwise.
Delete(i) ==
  /\ RowOffers(i) /\ DeskSends("delete", {i}, IF forGood THEN {i} ELSE {}, desk)

Deleted(c) ==
  /\ c.kind = "delete" /\ c.stage # "sent"
  /\ IF c.stage = "ok" THEN DeskHears(c, Drops(The(c)), Loads({"trash"})) ELSE DeskHears(c, desk, {})

\* The user agrees to lose the row for good.
Discard(i) == RowOffers(i) /\ DeskSends("discard", {i}, {i}, desk)

\* The row goes to the trash first, then out of it; what becomes of the
\* second request does not matter to the page.
Discarded(c) ==
  /\ c.kind = "discard" /\ c.stage # "sent"
  /\ DeskHears(c, desk, IF c.stage = "ok" THEN {DeskAsk("purgeNext", c.ids, c.ids)} ELSE {})

DiscardEnds(c, loads) ==
  /\ c.kind = "purgeNext" /\ c.stage # "sent"
  /\ DeskHears(c, Drops(The(c)), Loads(loads))

\* The row leaves the trash at once and comes back if it could not be
\* restored.
Restore(i) ==
  /\ TrashOffers(i) /\ DeskSend("restore", {i}, [desk EXCEPT !.trash = @ \ {i}])

\* Mutant of Restored: a failure does not bring the row back.
Restored_NoRollback(c) ==
  /\ c.kind = "restore" /\ c.stage # "sent"
  /\ DeskHears(c, IF c.stage = "ok" THEN [desk EXCEPT !.live = @ \cup c.ids] ELSE desk, {})

Restored(c) ==
  /\ c.kind = "restore" /\ c.stage # "sent"
  /\ DeskHears(c, IF c.stage = "ok" THEN [desk EXCEPT !.live = @ \cup c.ids]
              ELSE [desk EXCEPT !.trash = @ \cup c.ids], {})

Purge(i) == TrashOffers(i) /\ DeskSends("purge", {i}, {i}, desk)

Purged(c) ==
  /\ c.kind = "purge" /\ c.stage # "sent"
  /\ DeskHears(c, IF c.stage = "ok" THEN [desk EXCEPT !.trash = @ \ c.ids, !.selected = @ \ c.ids] ELSE desk, {})

\* What is in the trash list is what the user agrees to lose.
EmptyTrash == AtTrash /\ desk.trash # {} /\ DeskSends("empty", {}, desk.trash, desk)

Emptied(c) ==
  /\ c.kind = "empty" /\ c.stage # "sent"
  /\ DeskHears(c, IF c.stage = "ok" THEN [desk EXCEPT !.trash = {}] ELSE desk, {})

-----------------------------------------------------------------------------
(* The bulk bar                                                            *)

Bar == AtList /\ desk.selected # {}
Count == Cardinality(desk.selected)
CanExport == Bar /\ Count <= BulkLimit
CanDelete == Bar /\ Count >= BulkMin
CanAi == Bar /\ Count <= AiLimit
Deletable == Cardinality(Chosen) \in BulkMin..BulkLimit

Export ==
  /\ CanExport /\ Chosen # {} /\ Cardinality(Chosen) <= BulkLimit
  /\ DeskSend("export", Chosen, desk)

\* The export of documents clears the selection, that of templates does not.
Exported(c) ==
  /\ c.kind = "export" /\ c.stage # "sent"
  /\ \E what \in {"documents", "templates"} :
       DeskHears(c, IF c.stage = "ok" /\ what = "documents" THEN [desk EXCEPT !.selected = {}] ELSE desk, {})

BulkDelete ==
  /\ CanDelete /\ Deletable /\ DeskSend("bulk", Chosen, desk)

\* Rows that failed stay in the list; the toast offers to undo the rest.
BulkDeleted(c) ==
  /\ c.kind = "bulk" /\ c.stage # "sent"
  /\ IF c.stage = "failed" THEN DeskHears(c, desk, {})
     ELSE DeskHears(c, [desk EXCEPT !.live = @ \ (c.ids \ c.rows), !.selected = {}, !.undo = c.left], Loads({"trash"}))

Undo ==
  /\ desk.undo # {} /\ DeskSend("undo", desk.undo, [desk EXCEPT !.undo = {}])

\* The toast times out.
UndoFades == desk.undo # {} /\ DeskLocal([desk EXCEPT !.undo = {}])

Undone(c) ==
  /\ c.kind = "undo" /\ c.stage # "sent"
  /\ IF c.stage = "ok" THEN DeskHears(c, desk, Loads({"list", "trash"})) ELSE DeskHears(c, desk, {})

\* Mutant of Captured: everything selected, hidden rows included.
Captured_Hidden == desk.selected

\* What the dialog captures: the rows shown and selected.
Captured == Chosen

\* They stay what they are while the dialog is open, whatever becomes of the
\* lists.
AskBulkPurge ==
  /\ CanDelete /\ Deletable
  /\ desk' = [desk EXCEPT !.dialog = [ids |-> Captured, shown |-> Chosen]]
  /\ dOdd' = IF dCalls # {} THEN dOdd \cup {"overlap"} ELSE dOdd
  /\ UNCHANGED <<shelf, forGood, dCalls, dSent>>

\* The dialog asks for the number of rows it captured.
Confirming == desk.dialog # NoDialog
CancelBulkPurge == Confirming /\ DeskLocal([desk EXCEPT !.dialog = NoDialog])
BulkPurge ==
  /\ Confirming /\ DeskSends("bulkPurge", desk.dialog.ids, desk.dialog.shown, [desk EXCEPT !.dialog = NoDialog])

BulkPurged(c) ==
  /\ c.kind = "bulkPurge" /\ c.stage # "sent"
  /\ DeskHears(c, IF c.stage = "ok" THEN [desk EXCEPT !.live = @ \ c.ids, !.selected = {}] ELSE desk, {})

-----------------------------------------------------------------------------
(* Other dialogs                                                           *)

\* Templates filled outside are applied; the selection goes, also when none
\* could be applied.
ApplyTemplates == CanAi /\ DeskSend("templates", {}, desk)
TemplatesApplied(c) ==
  /\ c.kind = "templates" /\ c.stage # "sent"
  /\ IF c.stage = "ok" THEN DeskHears(c, [desk EXCEPT !.selected = {}], Loads({"list"})) ELSE DeskHears(c, desk, {})

\* The wizard that makes a book of what is shown and selected is done.
Converted == Bar /\ Chosen # {} /\ DeskLocal([desk EXCEPT !.selected = {}])

\* A backup brings new rows, and takes others out of the trash: an article
\* may have been in the trash when the backup was made, and comes back there.
Import(states, loads) ==
  /\ AtList /\ dSent < MaxDeskCalls /\ dSent' = dSent + 1
  /\ \E i \in Here("none") \cup Here("trashed"), state \in states :
       /\ Becomes({i}, state)
       /\ dOdd' = dOdd \cup (IF dCalls # {} THEN {"overlap"} ELSE {})
                       \cup (IF shelf[i] = "trashed" /\ "trash" \notin loads THEN {"revived"} ELSE {})
  /\ dCalls' = dCalls \cup Loads(loads)
  /\ UNCHANGED <<forGood, desk>>

ArticleListNext ==
  \/ ShowTrash \/ SelectAll \/ ClearSelection \/ Debounced \/ Revisit
  \/ \E i \in Items : Toggle(i) \/ Delete(i) \/ Discard(i) \/ Restore(i) \/ Purge(i)
  \/ \E h \in Filters : ChooseFacet(h) \/ Search(h)
  \/ EmptyTrash \/ Export \/ BulkDelete \/ Undo \/ UndoFades
  \/ AskBulkPurge \/ CancelBulkPurge \/ BulkPurge
  \/ ApplyTemplates \/ Converted \/ Import({"live", "trashed"}, {"list", "trash"})
  \/ \E i \in Items, state \in {"live", "trashed", "gone"} : OtherTab(i, state)
  \/ \E c \in dCalls :
       \/ HandleDesk(c) \/ LoseDesk(c) \/ Listed(c) \/ TrashLoaded(c) \/ Deleted(c)
       \/ Discarded(c) \/ DiscardEnds(c, {"trash"}) \/ Restored(c) \/ Purged(c) \/ Emptied(c)
       \/ Exported(c) \/ BulkDeleted(c) \/ Undone(c) \/ BulkPurged(c) \/ TemplatesApplied(c)

-----------------------------------------------------------------------------

\* A page with nothing under way lists what is live and what is in the trash,
\* unless, since both lists were last loaded, requests overlapped, another tab
\* worked on the rows, an answer was lost, or an import took a book out of the
\* trash, which the dashboard does not load again.
ListsAgree ==
  dCalls = {} /\ dOdd = {} => desk.live = Here("live") /\ desk.trash = Here("trashed")

\* The page's requests take for good only what the user agreed to lose, except
\* that emptying the trash takes what another tab, or a request that
\* overlapped, had put there unseen.
LossWasAgreed ==
  \A i \in Items : shelf[i] # "gone" /\ shelf'[i] = "gone" =>
    \A c \in dCalls \ dCalls' : i \in c.agreed \/ (c.kind = "empty" /\ dOdd # {})
=============================================================================
