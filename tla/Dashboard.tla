------------------------------ MODULE Dashboard ------------------------------
(***************************************************************************)
(* The books' page (Dashboard.tsx): ArticleList over books.py.  Most of    *)
(* its handlers are those of the articles' page; it creates a book in a    *)
(* dialog of its own, filters from two books on, does not load the trash   *)
(* again after a permanent deletion or an import, and nothing at all when  *)
(* it becomes visible again.                                               *)
(***************************************************************************)
EXTENDS ArticleList

\* Genre and language, and the search; both are there from two books on.
FiltersShown == Cardinality(desk.live) > 1
BookFacet(h) == FiltersShown /\ ChooseFacet(h)
BookSearch(h) == FiltersShown /\ Search(h)

\* The rows and the bar of the list.
BookSelection == SelectAll \/ ClearSelection \/ \E i \in Items : Toggle(i)
BookBulk == Export \/ BulkDelete \/ Undo \/ UndoFades \/ AskBulkPurge \/ CancelBulkPurge \/ BulkPurge

\* The dialog for a new book keeps what it was given when it is closed.
OpenBookForm ==
  /\ AtList /\ DeskLocal([desk EXCEPT !.form = IF @ = "kept" THEN "filled" ELSE "empty"])
CloseBookForm ==
  /\ ~Confirming /\ desk.form \in {"empty", "filled"}
  /\ DeskLocal([desk EXCEPT !.form = IF @ = "filled" THEN "kept" ELSE "closed"])

\* Title and author, and a template in that mode.
FillBookForm == desk.form = "empty" /\ DeskLocal([desk EXCEPT !.form = "filled"])

\* The form is emptied at once, and open until the book is there: what it
\* held is lost with a request that fails.
CreateBook == desk.form = "filled" /\ DeskSend("create", {}, [desk EXCEPT !.form = "empty"])

BookCreated(c) ==
  /\ c.kind = "create" /\ c.stage # "sent"
  /\ DeskHears(c, IF c.stage # "ok" THEN desk
                  ELSE [desk EXCEPT !.live = @ \cup c.rows,
                                    !.form = CASE @ = "empty" -> "closed" [] @ = "filled" -> "kept" [] OTHER -> @], {})

\* A row, or all of the trash.
BookRow(i) == Delete(i) \/ Discard(i)
BookTrashRow(i) == Restore(i) \/ Purge(i)

BookRowDone(c) ==
  Deleted(c) \/ Discarded(c) \/ DiscardEnds(c, {}) \/ Restored(c) \/ Purged(c) \/ Emptied(c)

BookBulkDone(c) == Exported(c) \/ BulkDeleted(c) \/ Undone(c) \/ BulkPurged(c)

\* Both lists are loaded when the page mounts, each by one handler.
BooksLoaded(c) == Listed(c) \/ TrashLoaded(c)

\* A backup does not know of the trash: every book it brings is live.
ImportBooks == Import({"live"}, {"list"})

DashboardNext ==
  \/ ShowTrash \/ BookSelection \/ Debounced \/ BookBulk \/ EmptyTrash
  \/ \E h \in Filters : BookFacet(h) \/ BookSearch(h)
  \/ \E i \in Items : BookRow(i) \/ BookTrashRow(i)
  \/ OpenBookForm \/ CloseBookForm \/ FillBookForm \/ CreateBook \/ ImportBooks \/ ApplyTemplates
  \/ \E i \in Items, state \in {"live", "trashed", "gone"} : OtherTab(i, state)
  \/ \E c \in dCalls :
       \/ HandleDesk(c) \/ LoseDesk(c) \/ BooksLoaded(c) \/ BookCreated(c)
       \/ BookRowDone(c) \/ BookBulkDone(c) \/ TemplatesApplied(c)
=============================================================================
