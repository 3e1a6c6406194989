------------------------------- MODULE Comments -------------------------------
(***************************************************************************)
(* The settings' section on imported comments (CommentsAdminSection.tsx)   *)
(* and its handlers in comments.py and bulk_delete.py.  One list shows the *)
(* live comments that match a filter, a page at a time, or the trash.  It  *)
(* is loaded when the filter, the view or the limit changes; after a       *)
(* change of its own the section drops the rows it expects to be gone, and *)
(* only counts the trash again.                                            *)
(***************************************************************************)
EXTENDS Naturals, FiniteSets, SequencesExt

CONSTANTS
  Newest,    \* the comments, newest first
  States,    \* what they may be at first: functions to "live" or "trashed"
  Matches,   \* what a choice of source and orphans lets through: sets of comments
  PageSize,  \* rows per page: 100
  Cap,       \* the server's limit: 500
  BulkLeast, \* fewest comments the bar deletes: 2
  MaxCommentCalls, \* bound on what the user, other tabs and losses do
  None

VARIABLES
  comments, \* the rows: "live", "trashed" or "gone", for good or to the articles
  section,  \* the section
  mCalls,   \* its requests
  mSteps,   \* number of steps that count against the bound
  mOdd      \* history: why the section may be wrong

commentVars == <<comments, section, mCalls, mSteps, mOdd>>

All == ToSet(Newest)
Reads == {"fetch", "count"}

CommentTypeOK ==
  /\ comments \in [All -> {"live", "trashed", "gone"}]
  /\ section.view \in {"active", "trash"} /\ section.filter \in Matches /\ section.limit \in 0..Cap
  /\ section.rows \subseteq All /\ section.selected \subseteq All /\ section.dialog \subseteq All
  /\ section.badge \in Nat /\ section.loading \in BOOLEAN /\ section.preview \in All \cup {None}
  /\ \A c \in mCalls : c.stage \in {"sent", "ok", "failed"} /\ c.ids \subseteq All
  /\ mOdd \subseteq {"overlap", "elsewhere", "lost", "dropped"}

With(state) == {i \in All : comments[i] = state}

-----------------------------------------------------------------------------
(* The section                                                             *)

Call(kind, ids, s) == [id |-> mSteps + 1, kind |-> kind, ids |-> ids, stage |-> "sent", rows |-> {},
                       view |-> s.view, filter |-> s.filter, limit |-> s.limit]

CommentInit ==
  /\ comments \in States
  /\ section = [view |-> "active", filter |-> All, limit |-> PageSize, rows |-> {}, loading |-> TRUE,
                badge |-> 0, selected |-> {}, dialog |-> {}, preview |-> None]
  /\ mSteps = 0 /\ mOdd = {}
  /\ mCalls = {Call("fetch", {}, section), Call("count", {}, section)}

Fetches == {c \in mCalls : c.kind = "fetch"}

\* Mutant of Superseded: an earlier fetch is still listened to.
Superseded_None == {}

\* The effect's clean-up: the answer to an earlier fetch is ignored.
Superseded == Fetches

\* Both windows cover the section.
Idle == section.dialog = {} /\ section.preview = None

Reloads(s) ==
  /\ Idle
  /\ mSteps < MaxCommentCalls /\ mSteps' = mSteps + 1
  /\ section' = [s EXCEPT !.loading = TRUE]
  /\ mCalls' = (mCalls \ Superseded) \cup {Call("fetch", {}, s)}
  /\ mOdd' = IF \A c \in mCalls : c.kind \in Reads THEN mOdd \ {"dropped"} ELSE mOdd \cup {"overlap"}
  /\ UNCHANGED comments

FilterOffered(m) == section.view = "active" /\ m # section.filter

\* Rows stay until the new ones are there, the selection does not.
UpdateFilter(m) ==
  /\ FilterOffered(m)
  /\ Reloads([section EXCEPT !.filter = m, !.limit = PageSize, !.selected = {}])

SwitchViewMode ==
  Reloads([section EXCEPT !.view = IF @ = "active" THEN "trash" ELSE "active",
                          !.rows = {}, !.selected = {}, !.limit = PageSize])

ShowLoadMore == ~section.loading /\ Cardinality(section.rows) = section.limit /\ section.limit < Cap

LoadMore ==
  /\ section.view = "active" /\ ShowLoadMore
  /\ Reloads([section EXCEPT !.limit = IF @ + PageSize < Cap THEN @ + PageSize ELSE Cap])

Fetched(c) ==
  /\ c.kind = "fetch" /\ c.stage # "sent" /\ mCalls' = mCalls \ {c}
  /\ section' = IF c.stage = "failed" THEN [section EXCEPT !.loading = FALSE]
                ELSE [section EXCEPT !.loading = FALSE, !.rows = c.rows,
                                     !.badge = IF section.view = "trash" THEN Cardinality(c.rows) ELSE @]
  /\ UNCHANGED <<comments, mSteps, mOdd>>

\* The badge counts the trash.
Counted(c) ==
  /\ c.kind = "count" /\ c.stage # "sent" /\ mCalls' = mCalls \ {c}
  /\ section' = IF c.stage = "ok" THEN [section EXCEPT !.badge = Cardinality(c.rows)] ELSE section
  /\ UNCHANGED <<comments, mSteps, mOdd>>

Locally(s) == section' = s /\ UNCHANGED <<comments, mCalls, mSteps, mOdd>>

\* A checkbox and, by the view, a button to delete or two to restore or purge.
\* A button is off while its own request runs; here it may be pressed again.
RowOffered(i) == Idle /\ i \in section.rows

Toggle(i) ==
  /\ RowOffered(i)
  /\ Locally([section EXCEPT !.selected = IF i \in @ THEN @ \ {i} ELSE @ \cup {i}])
\* The box above the table is checked when everything is.
SelectAll ==
  /\ Idle /\ ~(section.rows \subseteq section.selected) /\ Locally([section EXCEPT !.selected = section.rows])
Clear == Idle /\ section.selected # {} /\ Locally([section EXCEPT !.selected = {}])

Preview(i) == RowOffered(i) /\ section.view = "active" /\ Locally([section EXCEPT !.preview = i])

\* The whole comment, with buttons to delete it and to make an article of it.
Previewing(i) == section.preview = i /\ section.dialog = {}

ClosePreview == section.preview # None /\ Locally([section EXCEPT !.preview = None])

-----------------------------------------------------------------------------
(* Changes                                                                 *)

\* The user has confirmed, where a question is asked.
Asks(kind, ids, s) ==
  /\ mSteps < MaxCommentCalls /\ mSteps' = mSteps + 1
  /\ mCalls' = mCalls \cup {Call(kind, ids, s)} /\ section' = s
  /\ mOdd' = IF mCalls # {} THEN mOdd \cup {"overlap"} ELSE mOdd
  /\ UNCHANGED comments

\* Mutant of Recounts: the badge is left as it is.
Recounts_Not == {}

Recounts == {Call("count", {}, section)}

\* What was changed leaves the list, which is not loaded again.
Drops(c, ids, more) ==
  /\ mCalls' = (mCalls \ {c}) \cup more
  /\ section' = [section EXCEPT !.rows = @ \ ids,
                                !.selected = IF c.kind \in {"bulk", "bulkPurge", "bulkRestore"} THEN {} ELSE @ \ ids,
                                !.preview = IF @ \in ids THEN None ELSE @]
  /\ mSteps' = IF more = {} THEN mSteps ELSE mSteps + 1
  /\ mOdd' = (mOdd \cup IF section.rows \cap ids # {} THEN {"dropped"} ELSE {})
             \cup IF more # {} /\ mCalls # {c} THEN {"overlap"} ELSE {}
  /\ UNCHANGED comments

Fails(c) == mCalls' = mCalls \ {c} /\ UNCHANGED <<comments, section, mSteps, mOdd>>

Delete(i) ==
  /\ Previewing(i) \/ (RowOffered(i) /\ section.view = "active")
  /\ Asks("delete", {i}, section)

Reclassify(i) == Previewing(i) /\ Asks("reclassify", {i}, section)

Restore(i) == RowOffered(i) /\ section.view = "trash" /\ Asks("restore", {i}, section)
Purge(i) == RowOffered(i) /\ section.view = "trash" /\ Asks("purge", {i}, section)

\* A comment that became an article never was in the trash.
RowChanged(c) ==
  /\ c.kind \in {"delete", "reclassify", "restore", "purge"} /\ c.stage # "sent"
  /\ IF c.stage = "ok" THEN Drops(c, c.ids, IF c.kind = "reclassify" THEN {} ELSE Recounts) ELSE Fails(c)

Ordered == section.rows \cap section.selected

\* The bars of the two views.
ActiveBar == Idle /\ section.view = "active" /\ Cardinality(Ordered) >= BulkLeast
TrashBar == Idle /\ section.view = "trash" /\ Ordered # {}

BulkDelete == ActiveBar /\ Asks("bulk", Ordered, section)

AskBulkPurge ==
  /\ ActiveBar \/ TrashBar
  /\ Locally([section EXCEPT !.dialog = Ordered])
Confirming == section.dialog # {}

CancelBulkPurge == Confirming /\ Locally([section EXCEPT !.dialog = {}])
BulkPurge == Confirming /\ Asks("bulkPurge", section.dialog, [section EXCEPT !.dialog = {}])

BulkRestore == TrashBar /\ Asks("bulkRestore", Ordered, section)

\* Rows the server did not find stay, but not after a permanent deletion.
BulkChanged(c) ==
  /\ c.kind \in {"bulk", "bulkPurge", "bulkRestore"} /\ c.stage # "sent"
  /\ IF c.stage = "ok" THEN Drops(c, IF c.kind = "bulkPurge" THEN c.ids ELSE c.ids \ c.rows, Recounts) ELSE Fails(c)

EmptyTrash ==
  /\ Idle /\ section.view = "trash" /\ section.rows # {} /\ section.badge > 0
  /\ Asks("empty", {}, section)

\* Whatever list is shown by then.
TrashEmptied(c) ==
  /\ c.kind = "empty" /\ c.stage # "sent" /\ mCalls' = mCalls \ {c}
  /\ section' = IF c.stage = "ok" THEN [section EXCEPT !.rows = {}, !.badge = 0, !.selected = {}] ELSE section
  /\ UNCHANGED <<comments, mSteps, mOdd>>

-----------------------------------------------------------------------------
(* The server, other tabs and losses                                       *)

Turn(ids, state) == comments' = [i \in All |-> IF i \in ids THEN state ELSE comments[i]]
Reply(c, stage, what) == mCalls' = (mCalls \ {c}) \cup {[c EXCEPT !.stage = stage, !.rows = what]}

FirstOf(ids, n) == LET s == SelectSeq(Newest, LAMBDA i : i \in ids)
                   IN {s[k] : k \in {j \in DOMAIN s : j <= n}}

\* list_comments limits what it returns, list_trashed_comments does not.
HandleRead(c) ==
  /\ c.stage = "sent" /\ c.kind \in Reads /\ UNCHANGED <<comments, section, mSteps, mOdd>>
  /\ Reply(c, "ok", IF c.kind = "count" \/ c.view = "trash" THEN With("trashed")
                    ELSE FirstOf(With("live") \cap c.filter, c.limit))

\* Deleting what is in the trash, or making an article of it, is no error.
HandleRow(c) ==
  LET ok == CASE c.kind = "delete"     -> c.ids \cap With("gone") = {}
              [] c.kind = "reclassify" -> c.ids \cap With("gone") = {}
              [] OTHER                 -> c.ids \subseteq With("trashed")
      state == CASE c.kind = "delete" -> "trashed" [] c.kind = "restore" -> "live" [] OTHER -> "gone"
  IN /\ c.stage = "sent" /\ c.kind \in {"delete", "reclassify", "restore", "purge"}
     /\ Reply(c, IF ok THEN "ok" ELSE "failed", {})
     /\ IF ok THEN Turn(c.ids, state) ELSE UNCHANGED comments
     /\ UNCHANGED <<section, mSteps, mOdd>>

\* One transaction; what was not found is named in the answer.
HandleBulk(c) ==
  /\ c.stage = "sent" /\ c.kind \in {"bulk", "bulkPurge", "bulkRestore", "empty"}
  /\ Reply(c, "ok", c.ids \cap With("gone"))
  /\ CASE c.kind = "bulk"        -> Turn(c.ids \cap With("live"), "trashed")
       [] c.kind = "bulkRestore" -> Turn(c.ids \cap With("trashed"), "live")
       [] c.kind = "bulkPurge"   -> Turn(c.ids, "gone")
       [] c.kind = "empty"       -> Turn(With("trashed"), "gone")
  /\ UNCHANGED <<section, mSteps, mOdd>>

LoseComment(c) ==
  /\ c.stage \in {"sent", "ok"} /\ mSteps < MaxCommentCalls /\ mSteps' = mSteps + 1
  /\ Reply(c, "failed", {})
  /\ mOdd' = IF c.stage = "ok" \/ c.kind \in Reads THEN mOdd \cup {"lost"} ELSE mOdd
  /\ UNCHANGED <<comments, section>>

Elsewhere(i, state) ==
  /\ comments[i] \notin {"gone", state} /\ mSteps < MaxCommentCalls /\ mSteps' = mSteps + 1
  /\ Turn({i}, state) /\ mOdd' = mOdd \cup {"elsewhere"}
  /\ UNCHANGED <<section, mCalls>>

CommentNext ==
  \/ \E m \in Matches : UpdateFilter(m)
  \/ SwitchViewMode \/ LoadMore \/ SelectAll \/ Clear \/ ClosePreview
  \/ \E i \in All : \/ Toggle(i) \/ Preview(i) \/ Delete(i) \/ Reclassify(i) \/ Restore(i) \/ Purge(i)
                    \/ \E state \in {"live", "trashed", "gone"} : Elsewhere(i, state)
  \/ BulkDelete \/ AskBulkPurge \/ CancelBulkPurge \/ BulkPurge \/ BulkRestore \/ EmptyTrash
  \/ \E c \in mCalls : \/ Fetched(c) \/ Counted(c) \/ RowChanged(c) \/ BulkChanged(c) \/ TrashEmptied(c)
                       \/ HandleRead(c) \/ HandleRow(c) \/ HandleBulk(c) \/ LoseComment(c)

-----------------------------------------------------------------------------

Belong == IF section.view = "trash" THEN With("trashed") ELSE With("live") \cap section.filter

\* A section with nothing under way lists only what belongs there and counts
\* the trash, unless requests overlapped, another tab changed a comment or an
\* answer was lost; and it lists everything or offers to load more, unless it
\* is at the server's limit, or dropped a row since it last loaded the list:
\* a page that is one row short is taken for the last.
CommentsShown ==
  mCalls = {} /\ mOdd \subseteq {"dropped"} =>
    /\ section.rows \subseteq Belong /\ section.badge = Cardinality(With("trashed"))
    /\ "dropped" \in mOdd \/ section.limit = Cap \/ ShowLoadMore \/ section.rows = Belong
=============================================================================
