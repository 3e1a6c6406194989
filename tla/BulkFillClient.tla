--------------------------- MODULE BulkFillClient ---------------------------
(***************************************************************************)
(* The browser's view of one bulk AI fill: BulkAiFillJobContext.tsx, which *)
(* reads the log of the job of BulkFill through an EventSource.            *)
(*                                                                         *)
(* The stream starts at the first event of the log, and the browser opens  *)
(* it again by itself when the connection breaks, so one view may read the *)
(* log several times.  A server that does not know the job (restarted, or  *)
(* the job expired, or another process runs it) answers 404, which the     *)
(* EventSource does not retry.                                             *)
(***************************************************************************)
EXTENDS BulkFill

CONSTANTS
  MaxDrops,    \* bound on the losses of the connection
  MaxReloads,  \* bound on the reloads of the page
  Forgets,     \* the server may restart or let the job expire
  Workers      \* processes of the backend, each with a job store of its own

ASSUME BulkFillClientAssumption ==
  MaxDrops \in Nat /\ MaxReloads \in Nat /\ Forgets \in BOOLEAN /\ Workers \in Nat \ {0}

VARIABLES
  known,      \* the job store has the job
  told,       \* the response of start has reached the page
  view,       \* the context's state
  persisted,  \* the job is in localStorage
  conn,       \* the EventSource: "none", "connecting" or "open"
  pos,        \* events received on this connection
  drops, reloads

clientVars == <<known, told, view, persisted, conn, pos, drops, reloads>>
jobVars    == fillVars
allVars    == <<jobVars, clientVars>>

Live == {"connecting", "running"}

\* resetState and clear.
Blank ==
  [phase |-> "idle", total |-> 0, completed |-> 0, itemsUpdated |-> 0, tokens |-> 0,
   items |-> [i \in Items |-> "none"]]

ClientInit ==
  /\ FillInit
  /\ known = TRUE /\ told = FALSE
  /\ view = Blank /\ persisted = FALSE
  /\ conn = "none" /\ pos = 0
  /\ drops = 0 /\ reloads = 0

-----------------------------------------------------------------------------
(* What an event does to the view                                          *)

\* completed is the highest index of an outcome.
Reached(v, n) == IF v.completed < n THEN n ELSE v.completed

\* Position of the n-th event's item in the request.
IndexOf(n) == Cardinality({m \in 1..n : log[m].type \in Outcomes})

\* Mutant of AfterDone: the totals counted so far are kept.
AfterDone_Keep(v, e) == v

\* The totals of done replace those counted from the items.
AfterDone(v, e) == [v EXCEPT !.tokens = e.tokens, !.itemsUpdated = e.count]

\* Mutant of AfterOutcome: an error or a skip leaves the row as it was.
AfterOutcome_DoneOnly(v, n) ==
  LET e == log[n] IN
  [v EXCEPT !.completed = Reached(v, IndexOf(n)),
            !.items[e.item] = "item_done"]

\* item_done, item_skipped and item_error.
AfterOutcome(v, n) ==
  LET e == log[n] IN
  [v EXCEPT !.completed = Reached(v, IndexOf(n)),
            !.itemsUpdated = IF e.updated # {} THEN @ + 1 ELSE @,
            !.tokens = @ + e.tokens,
            !.items[e.item] = e.type]

\* The view after the n-th event of the log.
After(v, n) ==
  LET e == log[n] IN
  CASE e.type = "start"       -> [v EXCEPT !.total = e.count, !.phase = "running"]
    [] e.type = "item_start"  -> [v EXCEPT !.items[e.item] = "item_start"]
    [] e.type \in Outcomes    -> AfterOutcome(v, n)
    [] e.type = "done"        -> AfterDone(v, e)
    [] e.type \in Over        -> [v EXCEPT !.phase = e.type]

\* onerror: only a job that never connected is given up.
OnError(v) == IF v.phase = "connecting" THEN [v EXCEPT !.phase = "failed"] ELSE v

-----------------------------------------------------------------------------
\* Mutant of ClientStart: the job is not written to localStorage.
ClientStart_Forget ==
  /\ job # "none" /\ ~told
  /\ told' = TRUE
  /\ view' = [Blank EXCEPT !.phase = "connecting"]
  /\ conn' = "connecting" /\ pos' = 0
  /\ UNCHANGED <<jobVars, known, persisted, drops, reloads>>

\* start(): called with the job id of the response.
ClientStart ==
  /\ job # "none" /\ ~told
  /\ told' = TRUE
  /\ view' = [Blank EXCEPT !.phase = "connecting"]
  /\ persisted' = TRUE
  /\ conn' = "connecting" /\ pos' = 0
  /\ UNCHANGED <<jobVars, known, drops, reloads>>

\* onopen.
Connected ==
  /\ conn = "connecting" /\ known
  /\ conn' = "open" /\ pos' = 0
  /\ view' = IF view.phase = "connecting" THEN [view EXCEPT !.phase = "running"] ELSE view
  /\ UNCHANGED <<jobVars, known, told, persisted, drops, reloads>>

\* 404: the EventSource is closed for good.  The proxy makes a connection per
\* request, which any process may accept.
Refused ==
  /\ conn = "connecting" /\ (known => Workers > 1)
  /\ conn' = "none"
  /\ view' = OnError(view)
  /\ UNCHANGED <<jobVars, known, told, persisted, pos, drops, reloads>>

\* The network fails, before or after the connection was made; the browser
\* connects again.
Lost ==
  /\ conn # "none"
  /\ drops < MaxDrops
  /\ drops' = drops + 1
  /\ conn' = "connecting" /\ pos' = 0
  /\ view' = OnError(view)
  /\ UNCHANGED <<jobVars, known, told, persisted, reloads>>

\* Mutant of Receive: the stream is left open at its end.
Receive_NoEnd ==
  /\ conn = "open"
  /\ pos < Len(log)
  /\ pos' = pos + 1
  /\ view' = IF log[pos + 1].type \in Over THEN view ELSE After(view, pos + 1)
  /\ UNCHANGED <<jobVars, known, told, persisted, conn, drops, reloads>>

\* onmessage.  stream_end closes the EventSource and forgets the job.
Receive ==
  /\ conn = "open"
  /\ pos < Len(log)
  /\ pos' = pos + 1
  /\ view' = After(view, pos + 1)
  /\ IF log[pos + 1].type \in Over
     THEN conn' = "none" /\ persisted' = FALSE
     ELSE UNCHANGED <<conn, persisted>>
  /\ UNCHANGED <<jobVars, known, told, drops, reloads>>

\* F5: the context mounts again and resumes the job in localStorage.
Reload ==
  /\ told
  /\ reloads < MaxReloads
  /\ reloads' = reloads + 1
  /\ view' = IF persisted THEN [Blank EXCEPT !.phase = "connecting"] ELSE Blank
  /\ conn' = IF persisted THEN "connecting" ELSE "none"
  /\ pos' = 0
  /\ UNCHANGED <<jobVars, known, told, persisted, drops>>

\* The button of the dock that calls clear(): only for a job shown as over.
Dismissable == view.phase \in {"completed", "failed", "cancelled"}

\* clear().
Clear ==
  /\ Dismissable
  /\ view' = Blank
  /\ persisted' = FALSE
  /\ conn' = "none" /\ pos' = 0
  /\ UNCHANGED <<jobVars, known, told, drops, reloads>>

\* The job of a finished worker expires: no new stream finds it.
JobExpires ==
  /\ Forgets
  /\ known /\ job \in Over
  /\ known' = FALSE
  /\ UNCHANGED <<jobVars, told, view, persisted, conn, pos, drops, reloads>>

\* The server restarts: the worker and the job store are gone, every
\* connection breaks.
ServerRestart ==
  /\ Forgets
  /\ known /\ job = "running"
  /\ known' = FALSE
  /\ pc' = "ended" /\ dirty' = [i \in Items |-> {}]
  /\ conn' = IF conn = "none" THEN "none" ELSE "connecting"
  /\ pos' = 0
  /\ view' = OnError(view)
  /\ UNCHANGED <<dbVars, job, reqVars, idx, cls, loaded, base, got, updated, sum, log,
                 billed, userVars, told, persisted, drops, reloads>>

-----------------------------------------------------------------------------
ClientNext ==
  \/ FillNext /\ UNCHANGED clientVars
  \/ ClientStart \/ Connected \/ Refused \/ Receive \/ Lost \/ Reload \/ Clear
  \/ JobExpires \/ ServerRestart

ClientSpec == ClientInit /\ [][ClientNext]_allVars

-----------------------------------------------------------------------------
(* Properties                                                              *)

ClientTypeOK ==
  /\ FillTypeOK
  /\ {known, told, persisted} \subseteq BOOLEAN
  /\ view \in [phase : {"idle"} \cup Live \cup Over, total : Nat, completed : Nat,
               itemsUpdated : Nat, tokens : Nat, items : [Items -> {"none", "item_start"} \cup Outcomes]]
  /\ conn \in {"none", "connecting", "open"} /\ pos \in 0..Len(log)
  /\ drops \in 0..MaxDrops /\ reloads \in 0..MaxReloads

\* Every row of the view is the last word of the log on that item, or an
\* earlier one: the view never shows an outcome the worker did not report,
\* nor more progress, however often the log was replayed.
ViewIsOfTheLog ==
  /\ \A i \in Items : view.items[i] # "none" =>
       \E n \in DOMAIN log : log[n].item = i /\ log[n].type = view.items[i]
  /\ view.completed <= OutcomesIn(Len(log))

\* A completed job is shown as it was: totals, progress and rows are those of
\* the log, after any number of reconnects and reloads.
CompletedViewIsTrue ==
  view.phase = "completed" =>
    /\ view.itemsUpdated = sum.updated /\ view.tokens = sum.tokens
    /\ view.total = Len(ids) /\ view.completed = Len(ids)
    /\ \A n \in DOMAIN log : log[n].type \in Outcomes => view.items[log[n].item] = log[n].type

\* A reload finds the job again as long as the page shows it as live, and a
\* job that came to its end is not resumed (F5 recovery,
\* BulkAiFillJobContext.tsx:370-386).
ReloadResumes ==
  /\ view.phase \in Live => persisted
  /\ view.phase \in {"completed", "cancelled"} => ~persisted

\* A page that shows a job as live has a stream to wait for, and the stream
\* has something left to say: no order of reconnects, replays, reloads and the
\* end of the job leaves a dead view, as long as the server knows the job.
\* (After a 404 it does: onerror leaves a running phase alone.)
LiveViewCanEnd ==
  view.phase \in Live /\ known =>
    /\ conn # "none"
    /\ conn = "open" /\ pos = Len(log) => job = "running"

\* A page says that a job has failed only if it did, or the connection or the
\* job was lost: 404 is "if the job is unknown" (ai_template_bulk_fill.py:433).
\* It takes one process: with more Workers the code does not keep it.
FailedViewIsTrue == view.phase = "failed" => job = "failed" \/ ~known \/ drops > 0

=============================================================================
