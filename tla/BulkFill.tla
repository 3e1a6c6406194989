------------------------------ MODULE BulkFill ------------------------------
(***************************************************************************)
(* The bulk AI fill of the backend: a worker coroutine                     *)
(* (_run_article_bulk_fill_job, _run_book_bulk_fill_job) goes through the  *)
(* records of a request, asks the model once per field class, and writes   *)
(* each record in one commit.  While it awaits a call, pool threads and    *)
(* other coroutines go on changing the same rows: edits, trash, permanent  *)
(* deletion, and the AI call for one record (generate_article_ai_meta).    *)
(*                                                                         *)
(* The worker's session keeps what it read before the first await: the     *)
(* test whether a field is filled, and the sum it writes to                *)
(* ai_tokens_used, are made on that copy.  A class stands for its columns. *)
(* The job's log, its status and its cancellation are those of JobStore.   *)
(***************************************************************************)
EXTENDS Naturals, Sequences, FiniteSets, SequencesExt

CONSTANTS
  Items,      \* record ids (articles, or books)
  Classes,    \* field classes a request can name
  Usages,     \* what a response may report as total_tokens, capped at 1
  MaxEdits,   \* bound on the edits of a record by its user
  MaxCalls,   \* bound on the single-record AI calls
  Purging,    \* records may be deleted permanently during the job
  None

ASSUME BulkFillAssumption ==
  /\ Usages \subseteq {0, 1}
  /\ MaxEdits \in Nat /\ MaxCalls \in Nat
  /\ Purging \in BOOLEAN
  /\ IsFiniteSet(Items) /\ IsFiniteSet(Classes)
  /\ None \notin Items

VARIABLES
  row,      \* per record: "live", "trashed" or "gone"
  body,     \* the record has text to send
  field,    \* per record and class: "empty", "human" or "ai", as committed
  spent,    \* ai_tokens_used, as committed
  job,      \* status of the job
  ids,      \* the request: records, classes to fill in this order, force flag
  classes,
  force,
  pc,       \* where the worker is
  idx,      \* the item it works on
  cls,      \* the class it works on
  loaded,   \* per record: classes filled when the session read it
  base,     \* ai_tokens_used of the current record when the session read it
  dirty,    \* per record: classes the session set and has not committed
  got,      \* tokens reported for the current record
  updated,  \* its classes that apply_field updated
  sum,      \* items_updated and total_tokens
  log,      \* the job's events
  billed,   \* history: tokens the providers reported, per record
  call,     \* the AI call for one record: record and the sum it read
  edits, calls

dbVars     == <<row, body, field, spent>>
reqVars    == <<ids, classes, force>>
itemVars   == <<loaded, base, dirty, got, updated>>
workerVars == <<job, reqVars, pc, idx, cls, itemVars, sum, log>>
userVars   == <<call, edits, calls>>
fillVars   == <<dbVars, workerVars, billed, userVars>>

Over == {"completed", "failed", "cancelled"}

Event == [type : {"start", "item_start", "item_done", "item_skipped", "item_error", "done"}
                   \cup Over,
          item : Items \cup {None}, updated : SUBSET Classes, tokens : Nat, count : Nat]

\* An event with the payload that the properties read.
Ev(type, item) ==
  [type |-> type, item |-> item, updated |-> {}, tokens |-> 0, count |-> 0]

\* What the database, the worker and the log may hold.
FillTypeOK ==
  /\ row \in [Items -> {"live", "trashed", "gone"}]
  /\ body \in [Items -> BOOLEAN]
  /\ field \in [Items -> [Classes -> {"empty", "human", "ai"}]]
  /\ spent \in [Items -> Nat] /\ billed \in [Items -> Nat]
  /\ job \in {"none", "running"} \cup Over
  /\ ids \in Seq(Items) /\ classes \in Seq(Classes) /\ force \in BOOLEAN
  /\ pc \in {"idle", "next", "calling", "filled", "committed", "summary", "ended"}
  /\ idx \in Nat /\ cls \in Nat
  /\ loaded \in [Items -> SUBSET Classes] /\ dirty \in [Items -> SUBSET Classes]
  /\ base \in Nat /\ got \in Nat /\ updated \subseteq Classes
  /\ sum \in [updated : Nat, tokens : Nat]
  /\ log \in Seq(Event)
  /\ call \in [item : Items \cup {None}, base : Nat]
  /\ edits \in 0..MaxEdits /\ calls \in 0..MaxCalls

FillInit ==
  /\ row \in [Items -> {"live", "trashed"}]
  /\ body \in [Items -> BOOLEAN]
  /\ field \in [Items -> [Classes -> {"empty", "human"}]]
  /\ spent = [i \in Items |-> 0] /\ billed = [i \in Items |-> 0]
  /\ job = "none" /\ ids = <<>> /\ classes = <<>> /\ force = FALSE
  /\ pc = "idle" /\ idx = 0 /\ cls = 0
  /\ loaded = [i \in Items |-> {}] /\ dirty = [i \in Items |-> {}]
  /\ base = 0 /\ got = 0 /\ updated = {}
  /\ sum = [updated |-> 0, tokens |-> 0]
  /\ log = <<>>
  /\ call = [item |-> None, base |-> 0]
  /\ edits = 0 /\ calls = 0

-----------------------------------------------------------------------------
(* The worker                                                              *)

Item  == ids[idx]
Class == classes[cls]

\* Sequences of distinct elements of S: the selection lists of the dialogs.
Lists(S) == {q \in UNION {[1..n -> S] : n \in 1..Cardinality(S)} : IsInjective(q)}

\* POST .../start: every id must be a record that is not in the trash; then
\* the worker publishes start.
StartFill(request, wanted, overwrite) ==
  /\ job = "none"
  /\ \A n \in DOMAIN request : row[request[n]] = "live"
  /\ job' = "running"
  /\ ids' = request /\ classes' = wanted /\ force' = overwrite
  /\ pc' = "next" /\ idx' = 1
  /\ log' = <<[Ev("start", None) EXCEPT !.count = Len(request)]>>
  /\ UNCHANGED <<dbVars, cls, itemVars, sum, billed, userVars>>

\* The worker goes on to the next item, or to the summary.
Advance ==
  /\ idx' = idx + 1
  /\ pc' = IF idx < Len(ids) THEN "next" ELSE "summary"

\* Mutant of SkipItem: a record without text is passed over without an event.
SkipItem_Silent ==
  /\ pc = "next"
  /\ row[Item] # "live" \/ ~body[Item]
  /\ log' = IF row[Item] # "live" THEN Append(log, Ev("item_skipped", Item)) ELSE log
  /\ Advance
  /\ UNCHANGED <<dbVars, job, reqVars, cls, itemVars, sum, billed, userVars>>

\* The query no longer finds the record, or the record has no text.
SkipItem ==
  /\ pc = "next"
  /\ row[Item] # "live" \/ ~body[Item]
  /\ log' = Append(log, Ev("item_skipped", Item))
  /\ Advance
  /\ UNCHANGED <<dbVars, job, reqVars, cls, itemVars, sum, billed, userVars>>

\* The record is read into the session; item_start.
BeginItem ==
  /\ pc = "next"
  /\ row[Item] = "live" /\ body[Item]
  /\ loaded' = [loaded EXCEPT ![Item] = {c \in Classes : field[Item][c] # "empty"}]
  /\ base' = spent[Item] /\ got' = 0 /\ updated' = {}
  /\ log' = Append(log, Ev("item_start", Item))
  /\ pc' = "calling" /\ cls' = 1
  /\ UNCHANGED <<dbVars, job, reqVars, idx, dirty, sum, billed, userVars>>

\* Mutant of Applies: filled fields are overwritten without force.
Applies_Always(c) == TRUE

\* apply_field: with force, or on a field the session does not see filled.
Applies(c) == force \/ c \notin loaded[Item] \cup dirty[Item]

NextClass ==
  IF cls < Len(classes) THEN cls' = cls + 1 /\ pc' = "calling"
                        ELSE cls' = cls /\ pc' = "filled"

\* Mutant of ClassAnswered: the position is kept where the class belongs.
ClassAnswered_Index(usable, tokens) ==
  /\ pc = "calling"
  /\ IF usable /\ Applies(Class)
     THEN /\ dirty' = [dirty EXCEPT ![Item] = @ \cup {Class}]
          /\ updated' = updated \cup {cls}
     ELSE UNCHANGED <<dirty, updated>>
  /\ got' = got + tokens
  /\ billed' = [billed EXCEPT ![Item] = @ + tokens]
  /\ NextClass
  /\ UNCHANGED <<dbVars, job, reqVars, idx, loaded, base, sum, log, userVars>>

\* A call came back with a value for the class, or with nothing usable.
ClassAnswered(usable, tokens) ==
  /\ pc = "calling"
  /\ IF usable /\ Applies(Class)
     THEN /\ dirty' = [dirty EXCEPT ![Item] = @ \cup {Class}]
          /\ updated' = updated \cup {Class}
     ELSE UNCHANGED <<dirty, updated>>
  /\ got' = got + tokens
  /\ billed' = [billed EXCEPT ![Item] = @ + tokens]
  /\ NextClass
  /\ UNCHANGED <<dbVars, job, reqVars, idx, loaded, base, sum, log, userVars>>

\* LLMError: the class is recorded as failed, the next one is asked.
ClassFailed ==
  /\ pc = "calling"
  /\ NextClass
  /\ UNCHANGED <<dbVars, job, reqVars, idx, itemVars, sum, log, billed, userVars>>

\* Mutant of ItemCrashed: the error is reported and the session kept.
ItemCrashed_NoRollback ==
  /\ pc = "calling"
  /\ log' = Append(log, Ev("item_error", Item))
  /\ Advance
  /\ UNCHANGED <<dbVars, job, reqVars, cls, itemVars, sum, billed, userVars>>

\* Any other exception: rollback, item_error, next item.
ItemCrashed ==
  /\ pc = "calling"
  /\ dirty' = [i \in Items |-> {}]
  /\ log' = Append(log, Ev("item_error", Item))
  /\ Advance
  /\ UNCHANGED <<dbVars, job, reqVars, cls, loaded, base, got, updated, sum, billed, userVars>>

\* Mutant of EndJob: the exception does not reach the job's status.
EndJob_NoStatus(status) ==
  /\ job' = job
  /\ log' = Append(log, Ev(status, None))
  /\ dirty' = [i \in Items |-> {}]
  /\ pc' = "ended"

\* The job is over: the session is closed, uncommitted values are lost.
EndJob(status) ==
  /\ job' = status
  /\ log' = Append(log, Ev(status, None))
  /\ dirty' = [i \in Items |-> {}]
  /\ pc' = "ended"

\* Records the commit has an UPDATE for.
Flushed == {i \in Items : dirty[i] # {}} \cup {Item}

\* Mutant of SaveItem: only the sum is committed.
SaveItem_SumOnly ==
  /\ pc = "filled"
  /\ got > 0
  /\ \A i \in Flushed : row[i] # "gone"
  /\ spent' = [spent EXCEPT ![Item] = base + got]
  /\ dirty' = [i \in Items |-> {}]
  /\ pc' = "committed"
  /\ UNCHANGED <<row, body, field, job, reqVars, idx, cls, loaded, base, got,
                 updated, sum, log, billed, userVars>>

\* Mutant of SaveItem: the record is charged the job's running total.
SaveItem_RunningTotal ==
  /\ pc = "filled"
  /\ got > 0
  /\ \A i \in Flushed : row[i] # "gone"
  /\ field' = [i \in Items |-> [c \in Classes |->
                 IF c \in dirty[i] THEN "ai" ELSE field[i][c]]]
  /\ spent' = [spent EXCEPT ![Item] = base + sum.tokens + got]
  /\ dirty' = [i \in Items |-> {}]
  /\ pc' = "committed"
  /\ UNCHANGED <<row, body, job, reqVars, idx, cls, loaded, base, got, updated,
                 sum, log, billed, userVars>>

\* With tokens to account for, the session commits: the columns it set, of
\* every record it set them on, and the sum it computed.
SaveItem ==
  /\ pc = "filled"
  /\ got > 0
  /\ \A i \in Flushed : row[i] # "gone"
  /\ field' = [i \in Items |-> [c \in Classes |->
                 IF c \in dirty[i] THEN "ai" ELSE field[i][c]]]
  /\ spent' = [spent EXCEPT ![Item] = base + got]
  /\ dirty' = [i \in Items |-> {}]
  /\ pc' = "committed"
  /\ UNCHANGED <<row, body, job, reqVars, idx, cls, loaded, base, got, updated,
                 sum, log, billed, userVars>>

\* An UPDATE of a deleted row matches nothing, or the refresh after the
\* commit does: the exception is raised outside the item's try and ends the
\* job.
SaveFailed ==
  /\ \/ pc = "filled" /\ got > 0 /\ \E i \in Flushed : row[i] = "gone"
     \/ pc = "committed" /\ got > 0 /\ row[Item] = "gone"
  /\ EndJob("failed")
  /\ UNCHANGED <<dbVars, reqVars, idx, cls, loaded, base, got, updated, sum, billed, userVars>>

\* The sums, item_done, and the pause before the next item.
ReportItem ==
  /\ \/ pc = "committed" /\ row[Item] # "gone"
     \/ pc = "filled" /\ got = 0
  /\ sum' = [updated |-> sum.updated + (IF updated # {} THEN 1 ELSE 0),
             tokens  |-> sum.tokens + got]
  /\ log' = Append(log, [Ev("item_done", Item) EXCEPT !.updated = updated, !.tokens = got])
  /\ Advance
  /\ UNCHANGED <<dbVars, job, reqVars, cls, itemVars, billed, userVars>>

\* done with the totals; the job store closes the log with stream_end.
Summarise ==
  /\ pc = "summary"
  /\ job' = "completed"
  /\ log' = log \o <<[Ev("done", None) EXCEPT !.tokens = sum.tokens, !.count = sum.updated],
                     Ev("completed", None)>>
  /\ dirty' = [i \in Items |-> {}]
  /\ pc' = "ended"
  /\ UNCHANGED <<dbVars, reqVars, idx, cls, loaded, base, got, updated, sum, billed, userVars>>

\* DELETE /ai/jobs/{id}: CancelledError at the await the worker is in, a call
\* or the pause after an item_done.
CancelFill ==
  /\ pc = "calling" \/ (pc = "next" /\ Last(log).type = "item_done")
  /\ EndJob("cancelled")
  /\ UNCHANGED <<dbVars, reqVars, idx, cls, loaded, base, got, updated, sum, billed, userVars>>

-----------------------------------------------------------------------------
(* Everybody else on the same rows                                         *)

\* PATCH of a column.
Edit(i, c) ==
  /\ edits < MaxEdits
  /\ row[i] # "gone"
  /\ field' = [field EXCEPT ![i][c] = "human"]
  /\ edits' = edits + 1
  /\ UNCHANGED <<row, body, spent, workerVars, billed, call, calls>>

\* DELETE of a live record.  Here, in Restore and in Purge only while the job runs: a
\* record trashed earlier is one of the initial states.
Trash(i) ==
  /\ job = "running"
  /\ row[i] = "live"
  /\ row' = [row EXCEPT ![i] = "trashed"]
  /\ UNCHANGED <<body, field, spent, workerVars, billed, userVars>>

Restore(i) ==
  /\ job = "running"
  /\ row[i] = "trashed"
  /\ row' = [row EXCEPT ![i] = "live"]
  /\ UNCHANGED <<body, field, spent, workerVars, billed, userVars>>

\* Permanent deletion, from the trash or with the trash switched off.
Purge(i) ==
  /\ Purging
  /\ job = "running"
  /\ row[i] # "gone"
  /\ row' = [row EXCEPT ![i] = "gone"]
  /\ UNCHANGED <<body, field, spent, workerVars, billed, userVars>>

\* POST /articles/{id}/ai/generate-meta reads the row and awaits the model ...
CallBegin(i) ==
  /\ call.item = None
  /\ calls < MaxCalls
  /\ row[i] # "gone" /\ body[i]
  /\ call' = [item |-> i, base |-> spent[i]]
  /\ calls' = calls + 1
  /\ UNCHANGED <<dbVars, workerVars, billed, edits>>

\* ... and writes the sum.
CallEnd ==
  /\ call.item # None
  /\ spent' = [spent EXCEPT ![call.item] = IF row[call.item] = "gone" THEN @ ELSE call.base + 1]
  /\ billed' = [billed EXCEPT ![call.item] = @ + 1]
  /\ call' = [item |-> None, base |-> 0]
  /\ UNCHANGED <<row, body, field, workerVars, edits, calls>>

-----------------------------------------------------------------------------
FillStep ==
  \/ SkipItem \/ BeginItem \/ ClassFailed \/ ItemCrashed
  \/ \E usable \in BOOLEAN, tokens \in Usages : ClassAnswered(usable, tokens)
  \/ SaveItem \/ SaveFailed \/ ReportItem \/ Summarise

FillStart ==
  \E request \in Lists(Items), wanted \in Lists(Classes), overwrite \in BOOLEAN :
    StartFill(request, wanted, overwrite)

Others ==
  \/ \E i \in Items : Trash(i) \/ Restore(i) \/ Purge(i) \/ CallBegin(i) \/ \E c \in Classes : Edit(i, c)
  \/ CallEnd

FillNext == FillStart \/ FillStep \/ CancelFill \/ Others

Spec == FillInit /\ [][FillNext]_fillVars

\* A call to a model has a timeout (llm_client.py: 120 s), the pause is
\* finite, and the event loop schedules the worker.
FairSpec == Spec /\ WF_fillVars(FillStep)

-----------------------------------------------------------------------------
(* Properties                                                              *)

Outcomes == {"item_done", "item_skipped", "item_error"}

\* How many of the first n events are outcomes.
OutcomesIn(n) == Cardinality({m \in 1..n : log[m].type \in Outcomes})

\* The tokens that the item_done events among the first n of a log report.
Reported(l) ==
  LET f[n \in 0..Len(l)] ==
        IF n = 0 THEN 0 ELSE f[n - 1] + (IF l[n].type = "item_done" THEN l[n].tokens ELSE 0)
  IN f

\* The totals of the done event are those of the item_done events before it.
SummaryAddsUp ==
  \A n \in DOMAIN log : log[n].type = "done" =>
    /\ log[n].count = Cardinality({m \in 1..n : log[m].type = "item_done" /\ log[m].updated # {}})
    /\ log[n].tokens = Reported(log)[n]

\* A reader of the log gets one outcome per item, in the order of the
\* request, and a done or an error only right after its item_start
\* (ai_template_bulk_fill.py:30-41, the event list); the whole request when
\* the job completed, with the totals of its items at the end.
LogTellsTheRequest ==
  /\ SummaryAddsUp
  /\ \A n \in DOMAIN log : log[n].type \in Outcomes =>
       OutcomesIn(n) \in DOMAIN ids /\ log[n].item = ids[OutcomesIn(n)]
  /\ \A n \in DOMAIN log : log[n].type \in {"item_done", "item_error"} =>
       log[n - 1].type = "item_start" /\ log[n - 1].item = log[n].item
  /\ job = "completed" => OutcomesIn(Len(log)) = Len(ids)

\* Without force, a job writes only fields that were empty when it read the
\* record, whatever it commits late or together with another record.
FilledIsKept ==
  [][\A i \in Items, c \in Classes :
       field[i][c] = "human" /\ field'[i][c] = "ai" => force \/ c \notin loaded[i]]_fillVars

IsSaved(e) == row[e.item] = "gone" \/ \A c \in e.updated : field[e.item][c] # "empty"

\* What item_done reports as updated is in the database: nothing that a
\* rollback, a failed commit or the end of the session drops was reported.
ReportedIsSaved == \A n \in DOMAIN log : log[n].type = "item_done" => IsSaved(log[n])

\* A record that item_error reports is left as it was: what its answered
\* classes set never reaches the database, not with a later item's commit
\* either.
FailedIsUntouched ==
  \A n \in DOMAIN log : log[n].type = "item_error" =>
    \A c \in Classes : field[log[n].item][c] # "ai"

\* ai_tokens_used is "the sum of usage across every call that returned"
\* (article_ai_fill.py:15-18): at least what item_done reported for the record
\* as long as no other AI call ran on one (of two overlapping calls the later
\* write loses the tokens of the earlier), and at most what was billed, also
\* when calls overlap or items fail.
ChargesAddUp ==
  /\ calls = 0 => \A n \in DOMAIN log : log[n].type = "item_done" =>
       row[log[n].item] = "gone" \/ log[n].tokens <= spent[log[n].item]
  /\ \A i \in Items : spent[i] <= billed[i]

\* What item_done reports with the tokens it took is saved and charged: the
\* log, the fields and the sum of a record agree after failed commits, edits
\* and other calls (without tokens they need not: ReportedIsSaved).
PaidIsSavedAndCharged ==
  /\ \A n \in DOMAIN log : log[n].type = "item_done" /\ log[n].tokens > 0 => IsSaved(log[n])
  /\ ChargesAddUp

\* A job that started comes to its end.
FillEnds == job = "running" ~> job \in Over

=============================================================================
