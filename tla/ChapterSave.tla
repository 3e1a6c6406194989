----------------------------- MODULE ChapterSave -----------------------------
(***************************************************************************)
(* Saving a chapter: the editor pages (Editor.tsx, BookEditor.tsx, one per *)
(* device) with autosave, drafts, the conflict dialog and the flush when a *)
(* page goes away, and the PATCH handler of the server (routers/chapters.py) *)
(* with its optimistic lock and its version history.                       *)
(*                                                                         *)
(* A text is the set of the edits it contains: typing adds one, a save     *)
(* replaces the whole text.  Requests travel on their own: a request that  *)
(* the page aborted may still be handled.  PATCH handlers run in pool      *)
(* threads, each with a session of its own: "threads" in Allowed makes     *)
(* them interleave between reading the row and committing.                 *)
(***************************************************************************)
EXTENDS Naturals, Sequences, SequencesExt

CONSTANTS
  Pages,      \* editor pages, each with a draft store of its own
  Edits,      \* what users type
  Retention,  \* snapshots kept per chapter (VERSION_RETENTION)
  MaxSends,   \* bound on the requests
  MaxLeaves,  \* bound on how often a page leaves the chapter
  Allowed,    \* which of Features happen
  None

Features == {"threads", "loss", "rename", "restore", "refresh", "sync",
             "flush", "crash", "switch", "load"}

ASSUME ChapterSaveAssumption ==
  /\ Retention \in Nat \ {0} /\ MaxSends \in Nat /\ MaxLeaves \in Nat
  /\ Allowed \subseteq Features

VARIABLES
  content, version,  \* the chapter's row
  snaps,             \* chapter_versions, oldest first
  committed,         \* history: the [version, text] pairs the row has had
  requests,          \* PATCH requests under way
  sent,              \* how many were sent
  page,              \* "open", "away" (another chapter is shown) or "closed"
  text,              \* what the editor shows
  saved,             \* lastSaved
  loaded,            \* loadedContent; None when it is another chapter's
  ver,               \* the chapter's version in the page's book
  timer,             \* the pending autosave: the text and the version it captured
  draftTimer,        \* the pending write of the draft: its text
  draft,             \* the draft in IndexedDB: its text
  flying,            \* the request in saveControllers, 0 for none
  dialog,            \* the conflict on show
  failed,            \* the save a retry toast offers
  status,            \* the editor's saveStatus
  leaves,            \* how often a page left
  flushed,           \* history: the edits the last flush was to keep
  forgone            \* history: what a discard, or the answer to a Keep after
                     \* one, may have taken off the screen

rowVars  == <<content, version, snaps, committed>>
netVars  == <<requests, sent>>
bookVars == <<ver, dialog>>
textVars == <<text, saved, loaded>>
timers   == <<timer, draftTimer>>
saveVars == <<flying, failed, status>>
past     == <<leaves, flushed, forgone>>
vars == <<rowVars, netVars, page, bookVars, textVars, timers, draft, saveVars, past>>

Texts == SUBSET Edits
Pending == [text : Texts, ver : Nat]
Snapshot == [version : Nat, text : Texts]
Refusal == [local : Texts, server : Texts, ver : Nat]
Request == [id : Nat, page : Pages, kind : {"save", "orphan", "keepalive", "keep", "rename", "sync"},
            text : Texts, shown : Texts, expect : Nat,  \* orphan: its editor is gone
            stage : {"sent", "checked", "stored", "ok", "conflict"}, read : Texts, result : Nat]

\* What rows, versions, pages and requests may hold.
SaveTypeOK ==
  /\ content \in Texts /\ version \in Nat
  /\ snaps \in Seq(Snapshot)
  /\ committed \subseteq Snapshot
  /\ requests \subseteq Request /\ sent \in 0..MaxSends
  /\ page \in [Pages -> {"open", "away", "closed"}]
  /\ text \in [Pages -> Texts] /\ saved \in [Pages -> Texts]
  /\ loaded \in [Pages -> Texts \cup {None}]
  /\ ver \in [Pages -> Nat]
  /\ timer \in [Pages -> Pending \cup {None}]
  /\ draftTimer \in [Pages -> Texts \cup {None}] /\ draft \in [Pages -> Texts \cup {None}]
  /\ flying \in [Pages -> 0..MaxSends]
  /\ dialog \in [Pages -> Refusal \cup {None}]
  /\ failed \in [Pages -> Pending \cup {None}]
  /\ status \in [Pages -> {"idle", "saving", "saved", "error"}]
  /\ flushed \in [Pages -> Texts] /\ forgone \in [Pages -> Texts] /\ leaves \in 0..MaxLeaves

Init ==
  /\ content = {} /\ version = 1 /\ snaps = <<>>
  /\ committed = {[version |-> 1, text |-> {}]}
  /\ requests = {} /\ sent = 0
  /\ page = [p \in Pages |-> "open"]
  /\ text = [p \in Pages |-> {}] /\ saved = text /\ loaded = text
  /\ ver = [p \in Pages |-> 1]
  /\ timer = [p \in Pages |-> None] /\ draftTimer = timer /\ draft = timer
  /\ flying = [p \in Pages |-> 0]
  /\ dialog = [p \in Pages |-> None] /\ failed = dialog
  /\ status = [p \in Pages |-> "idle"]
  /\ flushed = [p \in Pages |-> {}] /\ forgone = flushed /\ leaves = 0

-----------------------------------------------------------------------------
(* The server                                                              *)

\* The last Retention snapshots.
Trim(s) == SubSeq(s, IF Len(s) > Retention THEN Len(s) - Retention + 1 ELSE 1, Len(s))

\* Mutant of Store: the snapshot is taken after the update.
Store_SnapshotAfter(read, was, new, trims) ==
  /\ LET s == Append(snaps, [version |-> was, text |-> new])
     IN snaps' = IF trims THEN Trim(s) ELSE s
  /\ content' = new
  /\ version' = was + 1
  /\ committed' = committed \cup {[version |-> was + 1, text |-> new]}

\* Mutant of Store: the version is left alone.
Store_SameVersion(read, was, new, trims) ==
  /\ LET s == Append(snaps, [version |-> was, text |-> read])
     IN snaps' = IF trims THEN Trim(s) ELSE s
  /\ content' = new
  /\ version' = was
  /\ committed' = committed \cup {[version |-> was, text |-> new]}

\* The commit: a snapshot of the row as it was read, the new text, and the
\* version that was read, plus one; then, in a transaction of its own, the
\* trim.
Store(read, was, new, trims) ==
  /\ LET s == Append(snaps, [version |-> was, text |-> read])
     IN snaps' = IF trims THEN Trim(s) ELSE s
  /\ content' = new
  /\ version' = was + 1
  /\ committed' = committed \cup {[version |-> was + 1, text |-> new]}

\* What a request writes: a rename leaves the text alone.
Written(r) == IF r.kind = "rename" THEN content ELSE r.text

\* The optimistic lock.
Accepts(r) == r.expect = version

Becomes(r, new) == requests' = (requests \ {r}) \cup {new}

\* The 409 with the current version and content.
Conflict(r) ==
  Becomes(r, [r EXCEPT !.stage = "conflict", !.read = content, !.result = version])

\* update_chapter without a thread switch.
Handle(r) ==
  /\ "threads" \notin Allowed
  /\ r.stage = "sent"
  /\ IF Accepts(r)
     THEN /\ Store(content, version, Written(r), TRUE)
          /\ Becomes(r, [r EXCEPT !.stage = "ok", !.read = content, !.result = version + 1])
     ELSE Conflict(r) /\ UNCHANGED rowVars
  /\ UNCHANGED <<sent, page, bookVars, textVars, timers, draft, saveVars, past>>

\* The same in three steps: the row is read and its version compared ...
Check(r) ==
  /\ "threads" \in Allowed
  /\ r.stage = "sent"
  /\ IF Accepts(r)
     THEN Becomes(r, [r EXCEPT !.stage = "checked", !.read = content])
     ELSE Conflict(r)
  /\ UNCHANGED <<rowVars, sent, page, bookVars, textVars, timers, draft, saveVars, past>>

\* ... it is committed with its snapshot ...
Commit(r) ==
  /\ r.stage = "checked"
  /\ Store(r.read, r.expect, Written(r), FALSE)
  /\ Becomes(r, [r EXCEPT !.stage = "stored", !.result = r.expect + 1])
  /\ UNCHANGED <<sent, page, bookVars, textVars, timers, draft, saveVars, past>>

\* ... and the old snapshots go.
TrimVersions(r) ==
  /\ r.stage = "stored"
  /\ snaps' = Trim(snaps)
  /\ Becomes(r, [r EXCEPT !.stage = "ok"])
  /\ UNCHANGED <<content, version, committed, sent, page, bookVars, textVars, timers, draft,
                 saveVars, past>>

-----------------------------------------------------------------------------
(* The page: sending                                                       *)

\* A PATCH with the given text and expected version; shown is the text its
\* author decided about in the dialog.
Send(p, kind, t, expect, shown) ==
  /\ sent < MaxSends
  /\ sent' = sent + 1
  /\ requests' = requests \cup
       {[id |-> sent + 1, page |-> p, kind |-> kind, text |-> t, shown |-> shown,
         expect |-> expect, stage |-> "sent", read |-> {}, result |-> 0]}

\* api.chapters.update: the request under way for the chapter is aborted.
Update(p, kind, t, expect, shown) ==
  /\ Send(p, kind, t, expect, shown)
  /\ flying' = [flying EXCEPT ![p] = sent + 1]

\* Somebody waits for the answer to r.
Awaited(r) == flying[r.page] = r.id

\* The user types: autosave and draft are put off.
Type(p, e) ==
  /\ page[p] = "open" /\ dialog[p] = None
  /\ \A q \in Pages : e \notin text[q]
  /\ e \notin UNION {c.text : c \in committed}
  /\ text' = [text EXCEPT ![p] = @ \cup {e}]
  /\ timer' = [timer EXCEPT ![p] = [text |-> text'[p], ver |-> ver[p]]]
  /\ draftTimer' = [draftTimer EXCEPT ![p] = text'[p]]
  /\ status' = [status EXCEPT ![p] = "saving"]
  /\ UNCHANGED <<rowVars, netVars, page, bookVars, saved, loaded, draft, flying, failed, past>>

\* The draft's debounce ends.
SaveDraft(p) ==
  /\ draftTimer[p] # None
  /\ draft' = [draft EXCEPT ![p] = draftTimer[p]]
  /\ draftTimer' = [draftTimer EXCEPT ![p] = None]
  /\ UNCHANGED <<rowVars, netVars, page, bookVars, textVars, timer, saveVars, past>>

\* performSave with a captured text and version.
PerformSave(p, captured) ==
  IF captured.text = saved[p]
  THEN status' = [status EXCEPT ![p] = "idle"] /\ UNCHANGED <<netVars, flying>>
  ELSE /\ Update(p, "save", captured.text, captured.ver, {})
       /\ status' = [status EXCEPT ![p] = "saving"]

\* Mutant of Autosave: the timer fires into nothing while a save is under way.
Autosave_SkipBusy(p) ==
  /\ timer[p] # None
  /\ IF flying[p] = 0 THEN PerformSave(p, timer[p]) ELSE UNCHANGED <<netVars, flying, status>>
  /\ timer' = [timer EXCEPT ![p] = None]
  /\ UNCHANGED <<rowVars, page, bookVars, textVars, draftTimer, draft, failed, past>>

\* The autosave's debounce ends.
Autosave(p) ==
  /\ timer[p] # None
  /\ PerformSave(p, timer[p])
  /\ timer' = [timer EXCEPT ![p] = None]
  /\ UNCHANGED <<rowVars, page, bookVars, textVars, draftTimer, draft, failed, past>>

\* The retry button of the toast runs the same closure again (pressed while
\* its editor is there).
Retry(p) ==
  /\ page[p] = "open" /\ failed[p] # None
  /\ PerformSave(p, failed[p])
  /\ failed' = [failed EXCEPT ![p] = None]
  /\ UNCHANGED <<rowVars, page, bookVars, textVars, timers, draft, past>>

\* A rename is a PATCH of the same chapter.
Rename(p) ==
  /\ "rename" \in Allowed
  /\ page[p] = "open" /\ dialog[p] = None
  /\ Update(p, "rename", {}, ver[p], {})
  /\ UNCHANGED <<rowVars, page, bookVars, textVars, timers, draft, failed, status, past>>

\* Back online, syncAllDrafts reads the row's version and sends the draft.
Sync(p) ==
  /\ "sync" \in Allowed
  /\ page[p] # "closed" /\ draft[p] # None
  /\ Update(p, "sync", draft[p], version, {})
  /\ UNCHANGED <<rowVars, page, bookVars, textVars, timers, draft, failed, status, past>>

-----------------------------------------------------------------------------
(* The page: answers                                                       *)

Answered(r) == requests' = requests \ {r}

\* The answer to a request that was aborted, or to a keepalive.
Ignored(r) ==
  /\ r.stage \in {"ok", "conflict"}
  /\ ~Awaited(r)
  /\ Answered(r)
  /\ UNCHANGED <<rowVars, sent, page, bookVars, textVars, timers, draft, saveVars, past>>

\* Mutant of SaveOk: what is on screen counts as saved.
SaveOk_Screen(r) ==
  /\ r.kind \in {"save", "orphan"} /\ r.stage = "ok" /\ Awaited(r)
  /\ Answered(r)
  /\ flying' = [flying EXCEPT ![r.page] = 0]
  /\ ver' = [ver EXCEPT ![r.page] = r.result]
  /\ draft' = [draft EXCEPT ![r.page] = None]
  /\ IF r.kind = "save"
     THEN /\ saved' = [saved EXCEPT ![r.page] = text[r.page]]
          /\ status' = [status EXCEPT ![r.page] = "saved"]
     ELSE UNCHANGED <<saved, status>>
  /\ UNCHANGED <<rowVars, sent, page, dialog, text, loaded, timers, failed, past>>

\* A save was accepted: the book takes over the version, the draft goes; the
\* editor that sent it, if it is still there, counts the text as saved.
SaveOk(r) ==
  /\ r.kind \in {"save", "orphan"} /\ r.stage = "ok" /\ Awaited(r)
  /\ Answered(r)
  /\ flying' = [flying EXCEPT ![r.page] = 0]
  /\ ver' = [ver EXCEPT ![r.page] = r.result]
  /\ draft' = [draft EXCEPT ![r.page] = None]
  /\ IF r.kind = "save"
     THEN /\ saved' = [saved EXCEPT ![r.page] = r.text]
          /\ status' = [status EXCEPT ![r.page] = "saved"]
     ELSE UNCHANGED <<saved, status>>
  /\ UNCHANGED <<rowVars, sent, page, dialog, text, loaded, timers, failed, past>>

\* Mutant of SaveConflict: the book takes over the server's version.
SaveConflict_TakeVersion(r) ==
  /\ r.kind \in {"save", "orphan"} /\ r.stage = "conflict" /\ Awaited(r)
  /\ Answered(r)
  /\ flying' = [flying EXCEPT ![r.page] = 0]
  /\ ver' = [ver EXCEPT ![r.page] = r.result]
  /\ status' = [status EXCEPT ![r.page] = IF r.kind = "save" THEN "error" ELSE @]
  /\ UNCHANGED <<rowVars, sent, page, dialog, textVars, timers, draft, failed, past>>

\* Mutant of SaveConflict: a status the indicator does not know.
SaveConflict_OtherStatus(r) ==
  /\ r.kind \in {"save", "orphan"} /\ r.stage = "conflict" /\ Awaited(r)
  /\ Answered(r)
  /\ flying' = [flying EXCEPT ![r.page] = 0]
  /\ dialog' = [dialog EXCEPT ![r.page] =
                  [local |-> r.text, server |-> r.read, ver |-> r.result]]
  /\ status' = [status EXCEPT ![r.page] = IF r.kind = "save" THEN "conflict" ELSE @]
  /\ UNCHANGED <<rowVars, sent, page, ver, textVars, timers, draft, failed, past>>

\* A save was refused: the dialog shows what the server has.
SaveConflict(r) ==
  /\ r.kind \in {"save", "orphan"} /\ r.stage = "conflict" /\ Awaited(r)
  /\ Answered(r)
  /\ flying' = [flying EXCEPT ![r.page] = 0]
  /\ dialog' = [dialog EXCEPT ![r.page] =
                  [local |-> r.text, server |-> r.read, ver |-> r.result]]
  /\ status' = [status EXCEPT ![r.page] = IF r.kind = "save" THEN "error" ELSE @]
  /\ UNCHANGED <<rowVars, sent, page, ver, textVars, timers, draft, failed, past>>

\* The answer to a rename.
Renamed(r) ==
  /\ r.kind = "rename" /\ r.stage \in {"ok", "conflict"} /\ Awaited(r)
  /\ Answered(r)
  /\ flying' = [flying EXCEPT ![r.page] = 0]
  /\ ver' = [ver EXCEPT ![r.page] = IF r.stage = "ok" THEN r.result ELSE @]
  /\ UNCHANGED <<rowVars, sent, page, dialog, textVars, timers, draft, failed, status, past>>

\* The answer to a synchronised draft.
Synced(r) ==
  /\ r.kind = "sync" /\ r.stage \in {"ok", "conflict"} /\ Awaited(r)
  /\ Answered(r)
  /\ flying' = [flying EXCEPT ![r.page] = 0]
  /\ draft' = [draft EXCEPT ![r.page] = IF r.stage = "ok" THEN None ELSE @]
  /\ UNCHANGED <<rowVars, sent, page, bookVars, textVars, timers, failed, status, past>>

\* The network loses a request or its answer; a waiting save offers a retry.
Lose(r) ==
  /\ "loss" \in Allowed
  /\ r.stage \notin {"checked", "stored"}
  /\ Answered(r)
  /\ IF Awaited(r)
     THEN /\ flying' = [flying EXCEPT ![r.page] = 0]
          /\ IF r.kind = "save"
             THEN /\ failed' = [failed EXCEPT ![r.page] = [text |-> r.text, ver |-> r.expect]]
                  /\ status' = [status EXCEPT ![r.page] = "error"]
             ELSE UNCHANGED <<failed, status>>
     ELSE UNCHANGED saveVars
  /\ UNCHANGED <<rowVars, sent, page, bookVars, textVars, timers, draft, past>>

-----------------------------------------------------------------------------
(* The page: the conflict dialog and other ways to new content             *)

\* setLoadedContent: the editor takes a content prop that changed.
Show(p, t) ==
  /\ loaded' = [loaded EXCEPT ![p] = t]
  /\ LET takes == page[p] = "open" /\ t # loaded[p] /\ t # text[p]
     IN /\ text' = [text EXCEPT ![p] = IF takes THEN t ELSE @]
        /\ saved' = [saved EXCEPT ![p] = IF takes THEN t ELSE @]

\* "Keep my changes": the local text again, with the version on show.
Keep(p) ==
  /\ page[p] # "closed" /\ dialog[p] # None
  /\ ~\E r \in requests : r.page = p /\ r.kind = "keep" /\ Awaited(r)
  /\ Update(p, "keep", dialog[p].local, dialog[p].ver, dialog[p].server)
  /\ UNCHANGED <<rowVars, page, bookVars, textVars, timers, draft, failed, status, past>>

\* The answer: the dialog closes, or stays with an error toast.  It takes the
\* screen also when the user has discarded meanwhile.
Kept(r) ==
  /\ r.kind = "keep" /\ r.stage \in {"ok", "conflict"} /\ Awaited(r)
  /\ Answered(r)
  /\ flying' = [flying EXCEPT ![r.page] = 0]
  /\ IF r.stage = "ok"
     THEN /\ ver' = [ver EXCEPT ![r.page] = r.result]
          /\ dialog' = [dialog EXCEPT ![r.page] = None]
          /\ Show(r.page, r.text)
          /\ forgone' = [forgone EXCEPT ![r.page] =
                            IF dialog[r.page] = None THEN @ \cup text[r.page] ELSE @]
     ELSE UNCHANGED <<bookVars, textVars, forgone>>
  /\ UNCHANGED <<rowVars, sent, page, timers, draft, failed, status, leaves, flushed>>

\* "Discard my changes".
Discard(p) ==
  /\ page[p] # "closed" /\ dialog[p] # None
  /\ ver' = [ver EXCEPT ![p] = dialog[p].ver]
  /\ Show(p, dialog[p].server)
  /\ dialog' = [dialog EXCEPT ![p] = None]
  /\ forgone' = [forgone EXCEPT ![p] = @ \cup text[p]]
  /\ UNCHANGED <<rowVars, netVars, page, timers, draft, saveVars, leaves, flushed>>

\* "Save as new chapter": the local text goes to a chapter of its own
\* (ChapterOrder); the page loads the book afresh and shows the text of the
\* dialog.
SaveAsNew(p) ==
  /\ "refresh" \in Allowed
  /\ page[p] # "closed" /\ dialog[p] # None
  /\ ver' = [ver EXCEPT ![p] = version]
  /\ Show(p, dialog[p].server)
  /\ dialog' = [dialog EXCEPT ![p] = None]
  /\ UNCHANGED <<rowVars, netVars, page, timers, draft, saveVars, past>>

\* The page takes over the book from the server (the answer to a reorder,
\* metadata saved): versions are new, the editor's text is not.
RefreshBook(p) ==
  /\ "refresh" \in Allowed
  /\ page[p] # "closed"
  /\ ver[p] # version
  /\ ver' = [ver EXCEPT ![p] = version]
  /\ UNCHANGED <<rowVars, netVars, page, dialog, textVars, timers, draft, saveVars, past>>

\* A snapshot is restored: like a PATCH on the server, without a version to
\* compare; then the page loads book and content.
RestoreVersion(p, s) ==
  /\ "restore" \in Allowed
  /\ page[p] = "open" /\ dialog[p] = None
  /\ sent < MaxSends /\ sent' = sent + 1
  /\ Store(content, version, s.text, TRUE)
  /\ ver' = [ver EXCEPT ![p] = version + 1]
  /\ Show(p, s.text)
  /\ UNCHANGED <<requests, page, dialog, timers, draft, saveVars, past>>

-----------------------------------------------------------------------------
(* The page: going away and coming back                                    *)

\* visibilitychange: the timers are cleared; what is not saved goes to the
\* draft and into a keepalive request.
Flush(p) ==
  /\ "flush" \in Allowed
  /\ page[p] = "open"
  /\ timer' = [timer EXCEPT ![p] = None]
  /\ draftTimer' = [draftTimer EXCEPT ![p] = None]
  /\ IF text[p] = saved[p]
     THEN UNCHANGED <<netVars, draft, flushed>>
     ELSE /\ draft' = [draft EXCEPT ![p] = text[p]]
          /\ flushed' = [flushed EXCEPT ![p] = text[p]]
          /\ Send(p, "keepalive", text[p], ver[p], {})
  /\ UNCHANGED <<rowVars, page, bookVars, textVars, saveVars, leaves, forgone>>

\* The page is gone: killed in the background, closed after its flush.
Gone(p) ==
  /\ "crash" \in Allowed
  /\ page[p] # "closed"
  /\ page' = [page EXCEPT ![p] = "closed"]
  /\ leaves < MaxLeaves /\ leaves' = leaves + 1
  /\ timer' = [timer EXCEPT ![p] = None]
  /\ draftTimer' = [draftTimer EXCEPT ![p] = None]
  /\ flying' = [flying EXCEPT ![p] = 0]
  /\ dialog' = [dialog EXCEPT ![p] = None]
  /\ failed' = [failed EXCEPT ![p] = None]
  /\ UNCHANGED <<rowVars, netVars, ver, textVars, draft, status, flushed, forgone>>

\* Another chapter is selected: the editor unmounts and clears its autosave,
\* not its draft timer; its save goes on.
Away(p) ==
  /\ "switch" \in Allowed
  /\ page[p] = "open" /\ dialog[p] = None
  /\ page' = [page EXCEPT ![p] = "away"]
  /\ leaves < MaxLeaves /\ leaves' = leaves + 1
  /\ loaded' = [loaded EXCEPT ![p] = None]
  /\ timer' = [timer EXCEPT ![p] = None]
  /\ failed' = [failed EXCEPT ![p] = None]
  /\ requests' = {[r EXCEPT !.kind = IF r.page = p /\ @ = "save" THEN "orphan" ELSE @] :
                    r \in requests}
  /\ UNCHANGED <<rowVars, sent, bookVars, text, saved, draftTimer, draft, flying, status, flushed, forgone>>

\* The editor mounts with the given text.  checkForRecovery is given the
\* present time as the server's, so no draft is newer: it is deleted.
Mount(p, t) ==
  /\ page' = [page EXCEPT ![p] = "open"]
  /\ text' = [text EXCEPT ![p] = t]
  /\ saved' = [saved EXCEPT ![p] = t]
  /\ loaded' = [loaded EXCEPT ![p] = t]
  /\ draft' = [draft EXCEPT ![p] = None]
  /\ status' = [status EXCEPT ![p] = "idle"]

\* The chapter is selected again: its text is fetched unless the dialog has
\* left it behind; the book in the page is the old one.
Back(p) ==
  /\ page[p] = "away" /\ dialog[p] = None
  /\ Mount(p, IF loaded[p] = None THEN content ELSE loaded[p])
  /\ UNCHANGED <<rowVars, netVars, bookVars, timers, flying, failed, past>>

\* The page is opened again.
Load(p) ==
  /\ "load" \in Allowed
  /\ page[p] = "closed"
  /\ Mount(p, content)
  /\ ver' = [ver EXCEPT ![p] = version]
  /\ UNCHANGED <<rowVars, netVars, dialog, timers, flying, failed, past>>

-----------------------------------------------------------------------------
Serve(r) == Handle(r) \/ Check(r) \/ Commit(r) \/ TrimVersions(r)

Receive(r) ==
  Ignored(r) \/ SaveOk(r) \/ SaveConflict(r) \/ Renamed(r) \/ Synced(r) \/ Kept(r)

Next ==
  \/ \E r \in requests : Serve(r) \/ Receive(r) \/ Lose(r)
  \/ \E p \in Pages :
       \/ \E e \in Edits : Type(p, e)
       \/ SaveDraft(p) \/ Autosave(p) \/ Retry(p) \/ Rename(p) \/ Sync(p)
       \/ Keep(p) \/ Discard(p) \/ SaveAsNew(p) \/ RefreshBook(p)
       \/ \E n \in DOMAIN snaps : RestoreVersion(p, snaps[n])
       \/ Flush(p) \/ Gone(p) \/ Away(p) \/ Back(p) \/ Load(p)

Spec == Init /\ [][Next]_vars

\* Timers fire, requests are handled and their answers arrive.
FairSpec ==
  /\ Spec
  /\ WF_vars(\E r \in requests : Serve(r) \/ Receive(r))
  /\ \A p \in Pages : WF_vars(Autosave(p))

-----------------------------------------------------------------------------
(* Properties                                                              *)

\* A save takes nothing away that its author had not in the text or before
\* the eyes: every accepted PATCH contains the edits of the text it replaces,
\* or those were on show in the dialog, or its user had pressed "Discard" on
\* them, or a Keep answered after the discard had taken them off the screen
\* ("the critical thing is that no content is silently lost",
\* ConflictResolutionDialog.tsx:10-11; the optimistic lock of chapters.py:77-79).
\* A synchronised draft is excepted: it is sent with the version just read,
\* whatever text it was typed on.
SavesAddUp ==
  [][\A r \in requests :
       (/\ r.stage \in {"sent", "checked"} /\ r.kind \notin {"rename", "sync"}
        /\ \E n \in requests' : n.id = r.id /\ n.stage \in {"stored", "ok"})
       => content \subseteq content' \cup r.shown \cup forgone[r.page]]_vars

\* Every snapshot is what the chapter was at that version, and no more than
\* Retention are kept once no handler has its trim before it, whichever
\* handlers interleave.
SnapshotsAreReal ==
  /\ (\A r \in requests : r.stage # "stored") => Len(snaps) <= Retention
  /\ \A n \in DOMAIN snaps : snaps[n] \in committed

\* The history has no hole: the snapshots are of the versions just before the
\* current one, one each.
HistoryIsComplete ==
  \A n \in DOMAIN snaps : snaps[n].version = version - (Len(snaps) - n + 1)

\* The editor says "saved" only of a text the server has had: nothing it shows
\* as saved was merely sent (BookEditor.tsx:318-321, "instead of lying").
SavedWasCommitted ==
  \A p \in Pages : \E c \in committed : c.text = saved[p]

\* Whatever happens to a save, the page comes to a state the user can act on:
\* the text is saved, or the error, the dialog or the retry is on show, or the
\* editor is gone.  (A run that has used up its requests is no evidence.)
EditsSettle ==
  \A p \in Pages :
    page[p] = "open" /\ status[p] = "saving"
      ~> page[p] # "open" \/ status[p] # "saving" \/ sent = MaxSends

\* What a page flushed when it went away is not lost: it is in the draft, or
\* on the server, or still on its way ("The IndexedDB draft + recovery banner
\* must allow the user to restore the unsaved content",
\* content-safety.spec.ts:9-12).
FlushedSurvives ==
  \A p \in Pages :
    flushed[p] \subseteq text[p] \cup UNION {c.text : c \in committed}
      \cup (IF draft[p] = None THEN {} ELSE draft[p])
      \cup UNION {r.text : r \in {q \in requests : q.stage = "sent"}}

=============================================================================
