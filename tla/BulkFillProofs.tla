---------------------------- MODULE BulkFillProofs ----------------------------
(***************************************************************************)
(* Theorems about BulkFill, for any finite sets of records and classes,    *)
(* any request, and any number of edits and other AI calls.                *)
(***************************************************************************)
EXTENDS BulkFill, FiniteSetTheorems, WellFoundedInduction, TLAPS

\* The record with the id i is behind the worker.
Past(i) == \E m \in DOMAIN ids : m < idx /\ ids[m] = i

AtWork == {"next", "calling", "filled", "committed"}

\* Where the worker is: inside the request, which names no record twice, and
\* inside its classes; the status of the job goes with it.
PlaceInv ==
  /\ \A m, n \in DOMAIN ids : ids[m] = ids[n] => m = n
  /\ pc \in AtWork => idx \in DOMAIN ids
  /\ pc = "summary" => idx = Len(ids) + 1
  /\ pc = "calling" => cls \in DOMAIN classes
  /\ pc # "idle" => Len(classes) >= 1
  /\ pc = "idle" <=> job = "none"
  /\ pc = "ended" <=> job \in Over
  /\ pc = "idle" => log = <<>> /\ ids = <<>>

\* The types, with what they need to know of the worker.
Typed == FillTypeOK /\ PlaceInv

-----------------------------------------------------------------------------
(* Lemmas on requests and events                                           *)

\* A request of the dialogs is a list that is not empty and names nothing twice.
LEMMA ListsAreLists ==
  ASSUME NEW S, IsFiniteSet(S), NEW q \in Lists(S)
  PROVE  /\ q \in Seq(S) /\ Len(q) >= 1
         /\ \A m, n \in DOMAIN q : q[m] = q[n] => m = n
<1>1. Cardinality(S) \in Nat
  BY FS_CardinalityType
<1>2. PICK n \in 1..Cardinality(S) : q \in [1..n -> S]
  BY DEF Lists
<1>3. IsInjective(q)
  BY DEF Lists
<1>4. n \in Nat /\ n >= 1
  BY <1>1
<1>5. q \in Seq(S) /\ Len(q) = n
  BY <1>2, <1>4
<1>. QED  BY <1>3, <1>4, <1>5 DEF IsInjective

EventTypes == {"start", "item_start", "item_done", "item_skipped", "item_error", "done"} \cup Over

LEMMA EventSet ==
  Event = [type : EventTypes, item : Items \cup {None}, updated : SUBSET Classes,
           tokens : Nat, count : Nat]
BY DEF Event, EventTypes

\* What the worker appends is an event, with the type and the item it names.
LEMMA PlainEvent ==
  ASSUME NEW t \in EventTypes, NEW i \in Items \cup {None}
  PROVE  \E e \in Event : /\ e = Ev(t, i) /\ e.type = t /\ e.item = i
                          /\ e.updated = {} /\ e.tokens = 0
<1>1. PICK e : e = Ev(t, i)
  OBVIOUS
<1>2. e = [type |-> t, item |-> i, updated |-> {}, tokens |-> 0, count |-> 0]
  BY <1>1 DEF Ev
<1>3. e \in Event
  BY <1>2, EventSet
<1>. QED  BY <1>1, <1>2, <1>3

LEMMA StartEvent ==
  ASSUME NEW n \in Nat
  PROVE  \E e \in Event : /\ e = [Ev("start", None) EXCEPT !.count = n]
                          /\ e.type = "start" /\ e.updated = {} /\ e.tokens = 0 /\ e.count = n
<1>1. PICK e : e = [Ev("start", None) EXCEPT !.count = n]
  OBVIOUS
<1>2. Ev("start", None) = [type |-> "start", item |-> None, updated |-> {}, tokens |-> 0, count |-> 0]
  BY DEF Ev
<1>3. /\ DOMAIN e = {"type", "item", "updated", "tokens", "count"}
      /\ e = [x \in DOMAIN e |-> e[x]]
  BY <1>1, <1>2
<1>4. e.type = "start" /\ e.item = None /\ e.updated = {} /\ e.tokens = 0 /\ e.count = n
  BY <1>1, <1>2
<1>5. e = [type |-> "start", item |-> None, updated |-> {}, tokens |-> 0, count |-> n]
  BY <1>3, <1>4
<1>6. "start" \in EventTypes
  BY DEF EventTypes
<1>7. e \in Event
  BY <1>5, <1>6, EventSet
<1>. QED  BY <1>1, <1>4, <1>7

LEMMA DoneEvent ==
  ASSUME Item \in Items, updated \in SUBSET Classes, got \in Nat
  PROVE  \E e \in Event : /\ e = [Ev("item_done", Item) EXCEPT !.updated = updated, !.tokens = got]
                          /\ e.type = "item_done" /\ e.item = Item /\ e.updated = updated /\ e.tokens = got
<1>1. PICK e : e = [Ev("item_done", Item) EXCEPT !.updated = updated, !.tokens = got]
  OBVIOUS
<1>2. Ev("item_done", Item) = [type |-> "item_done", item |-> Item, updated |-> {}, tokens |-> 0, count |-> 0]
  BY DEF Ev
<1>3. /\ DOMAIN e = {"type", "item", "updated", "tokens", "count"}
      /\ e = [x \in DOMAIN e |-> e[x]]
  BY <1>1, <1>2
<1>4. e.type = "item_done" /\ e.item = Item /\ e.updated = updated /\ e.tokens = got /\ e.count = 0
  BY <1>1, <1>2
<1>5. e = [type |-> "item_done", item |-> Item, updated |-> updated, tokens |-> got, count |-> 0]
  BY <1>3, <1>4
<1>6. "item_done" \in EventTypes
  BY DEF EventTypes
<1>7. e \in Event
  BY <1>5, <1>6, EventSet
<1>. QED  BY <1>1, <1>4, <1>7

LEMMA TotalEvent ==
  ASSUME sum.tokens \in Nat, sum.updated \in Nat
  PROVE  \E e \in Event : /\ e = [Ev("done", None) EXCEPT !.tokens = sum.tokens, !.count = sum.updated]
                          /\ e.type = "done" /\ e.tokens = sum.tokens /\ e.count = sum.updated /\ e.updated = {}
<1>1. PICK e : e = [Ev("done", None) EXCEPT !.tokens = sum.tokens, !.count = sum.updated]
  OBVIOUS
<1>2. Ev("done", None) = [type |-> "done", item |-> None, updated |-> {}, tokens |-> 0, count |-> 0]
  BY DEF Ev
<1>3. /\ DOMAIN e = {"type", "item", "updated", "tokens", "count"}
      /\ e = [x \in DOMAIN e |-> e[x]]
  BY <1>1, <1>2
<1>4. e.type = "done" /\ e.item = None /\ e.updated = {} /\ e.tokens = sum.tokens /\ e.count = sum.updated
  BY <1>1, <1>2
<1>5. e = [type |-> "done", item |-> None, updated |-> {}, tokens |-> sum.tokens, count |-> sum.updated]
  BY <1>3, <1>4
<1>6. "done" \in EventTypes
  BY DEF EventTypes
<1>7. e \in Event
  BY <1>5, <1>6, EventSet
<1>. QED  BY <1>1, <1>4, <1>7

\* The end of a job is an event of its own type.
LEMMA EndEvent ==
  ASSUME NEW status \in Over
  PROVE  \E e \in Event : e = Ev(status, None) /\ e.type = status /\ e.updated = {} /\ e.tokens = 0
<1>1. status \in EventTypes /\ None \in Items \cup {None}
  BY DEF EventTypes
<1>. QED  BY <1>1, PlainEvent

-----------------------------------------------------------------------------
(* Types                                                                   *)

LEMMA TypedInit == FillInit => Typed
<1>. SUFFICES ASSUME FillInit
              PROVE  Typed
  OBVIOUS
<1>1. FillTypeOK
  <2>1. spent \in [Items -> Nat] /\ billed \in [Items -> Nat] /\ log \in Seq(Event)
    BY DEF FillInit
  <2>2. sum \in [updated : Nat, tokens : Nat] /\ call \in [item : Items \cup {None}, base : Nat]
    BY DEF FillInit
  <2>3. loaded \in [Items -> SUBSET Classes] /\ dirty \in [Items -> SUBSET Classes]
    BY DEF FillInit
  <2>4. field \in [Items -> [Classes -> {"empty", "human", "ai"}]]
    <3>1. \A i \in Items : field[i] \in [Classes -> {"empty", "human", "ai"}]
      BY DEF FillInit
    <3>. QED  BY <3>1 DEF FillInit
  <2>5. row \in [Items -> {"live", "trashed", "gone"}]
    BY DEF FillInit
  <2>6. body \in [Items -> BOOLEAN] /\ force \in BOOLEAN
    BY DEF FillInit
  <2>7. ids \in Seq(Items) /\ classes \in Seq(Classes)
    BY DEF FillInit
  <2>. QED  BY <2>1, <2>2, <2>3, <2>4, <2>5, <2>6, <2>7, BulkFillAssumption DEF FillInit, FillTypeOK
<1>2. PlaceInv
  BY DEF FillInit, PlaceInv, AtWork, Over
<1>. QED  BY <1>1, <1>2 DEF Typed

LEMMA TypedPlace ==
  ASSUME Typed
  PROVE  /\ ids \in Seq(Items) /\ DOMAIN ids = 1..Len(ids) /\ Len(ids) \in Nat
         /\ classes \in Seq(Classes) /\ DOMAIN classes = 1..Len(classes) /\ Len(classes) \in Nat
         /\ pc \in AtWork => Item \in Items /\ idx \in Nat /\ idx <= Len(ids)
         /\ pc = "calling" => Class \in Classes /\ cls \in Nat /\ cls <= Len(classes)
<1>1. /\ ids \in Seq(Items) /\ DOMAIN ids = 1..Len(ids) /\ Len(ids) \in Nat
      /\ classes \in Seq(Classes) /\ DOMAIN classes = 1..Len(classes) /\ Len(classes) \in Nat
  BY DEF Typed, FillTypeOK
<1>2. pc \in AtWork => Item \in Items /\ idx \in Nat /\ idx <= Len(ids)
  BY <1>1 DEF Typed, PlaceInv, Item
<1>3. pc = "calling" => Class \in Classes /\ cls \in Nat /\ cls <= Len(classes)
  BY <1>1 DEF Typed, PlaceInv, Class
<1>. QED  BY <1>1, <1>2, <1>3

LEMMA AdvanceTyped ==
  ASSUME Typed, pc \in AtWork, Advance, ids' = ids
  PROVE  /\ idx' \in Nat /\ idx' = idx + 1 /\ pc' \in {"next", "summary"}
         /\ pc' \in AtWork => idx' \in DOMAIN ids'
         /\ pc' = "summary" => idx' = Len(ids') + 1
         /\ \A i : Past(i)' <=> (Past(i) \/ i = Item)
<1>1. /\ DOMAIN ids = 1..Len(ids) /\ Len(ids) \in Nat /\ idx \in 1..Len(ids) /\ idx \in Nat
  BY TypedPlace DEF Typed, PlaceInv
<1>2. idx' = idx + 1 /\ pc' = IF idx < Len(ids) THEN "next" ELSE "summary"
  BY DEF Advance
<1>3. \A i : Past(i)' <=> (Past(i) \/ i = Item)
  BY <1>1, <1>2 DEF Past, Item
<1>. QED  BY <1>1, <1>2, <1>3 DEF AtWork

LEMMA NextClassTyped ==
  ASSUME Typed, pc = "calling", NextClass, classes' = classes
  PROVE  /\ cls' \in Nat /\ pc' \in {"calling", "filled"}
         /\ pc' = "calling" => cls' \in DOMAIN classes'
<1>1. /\ DOMAIN classes = 1..Len(classes) /\ Len(classes) \in Nat /\ cls \in 1..Len(classes)
  BY TypedPlace DEF Typed, PlaceInv
<1>. QED  BY <1>1 DEF NextClass

\* A step that leaves the worker's place alone.
LEMMA PlaceFrame ==
  ASSUME PlaceInv, UNCHANGED <<ids, pc, idx, cls, classes, job, log>>
  PROVE  PlaceInv'
BY DEF PlaceInv, AtWork

\* The steps of everybody else change rows and charges, and no type.
LEMMA TypesOthers ==
  ASSUME FillTypeOK, Others
  PROVE  FillTypeOK' /\ UNCHANGED workerVars
<1>. USE DEF dbVars, reqVars, itemVars, workerVars, userVars
<1>1. ASSUME NEW i \in Items, Trash(i) \/ Restore(i) \/ Purge(i)
      PROVE  FillTypeOK' /\ UNCHANGED workerVars
  <2>1. row' \in [Items -> {"live", "trashed", "gone"}]
    BY <1>1 DEF Trash, Restore, Purge, FillTypeOK
  <2>2. UNCHANGED <<body, field, spent, workerVars, billed, userVars>>
    BY <1>1 DEF Trash, Restore, Purge
  <2>. QED  BY <2>1, <2>2 DEF FillTypeOK
<1>2. ASSUME NEW i \in Items, CallBegin(i)
      PROVE  FillTypeOK' /\ UNCHANGED workerVars
  <2>1. call' \in [item : Items \cup {None}, base : Nat] /\ calls' \in 0..MaxCalls
    BY <1>2, BulkFillAssumption DEF CallBegin, FillTypeOK
  <2>. QED  BY <1>2, <2>1 DEF CallBegin, FillTypeOK
<1>3. ASSUME NEW i \in Items, NEW c \in Classes, Edit(i, c)
      PROVE  FillTypeOK' /\ UNCHANGED workerVars
  <2>1. /\ field' \in [Items -> [Classes -> {"empty", "human", "ai"}]]
        /\ edits' \in 0..MaxEdits
    BY <1>3, BulkFillAssumption DEF Edit, FillTypeOK
  <2>. QED  BY <1>3, <2>1 DEF Edit, FillTypeOK
<1>4. CASE CallEnd
  <2>1. call.item \in Items /\ call.base \in Nat
    BY <1>4 DEF CallEnd, FillTypeOK
  <2>2. spent' \in [Items -> Nat] /\ billed' \in [Items -> Nat]
    BY SMTT(30), <1>4, <2>1 DEF CallEnd, FillTypeOK
  <2>3. call' \in [item : Items \cup {None}, base : Nat]
    BY <1>4 DEF CallEnd
  <2>. QED  BY <1>4, <2>2, <2>3 DEF CallEnd, FillTypeOK
<1>. QED  BY <1>1, <1>2, <1>3, <1>4 DEF Others

LEMMA TypedOthers ==
  ASSUME Typed, Others
  PROVE  Typed'
BY TypesOthers, PlaceFrame DEF Typed, workerVars, reqVars

\* A step of the worker that changes the session only keeps the types of the
\* rest, whatever it does next.
LEMMA DirtyEmpty ==
  ASSUME dirty' = [i \in Items |-> {}]
  PROVE  dirty' \in [Items -> SUBSET Classes]
OBVIOUS

LEMMA Appended ==
  ASSUME Typed, NEW e \in Event, log' = Append(log, e)
  PROVE  /\ log' \in Seq(Event) /\ Len(log') = Len(log) + 1 /\ Len(log) \in Nat
         /\ log'[Len(log) + 1] = e /\ \A n \in 1..Len(log) : log'[n] = log[n]
         /\ DOMAIN log = 1..Len(log) /\ DOMAIN log' = 1..(Len(log) + 1)
BY DEF Typed, FillTypeOK

LEMMA TypedStart ==
  ASSUME Typed, NEW request \in Lists(Items), NEW wanted \in Lists(Classes), NEW overwrite \in BOOLEAN,
         StartFill(request, wanted, overwrite)
  PROVE  Typed'
<1>. USE DEF dbVars, itemVars, userVars
<1>1. /\ request \in Seq(Items) /\ Len(request) >= 1 /\ Len(request) \in Nat
      /\ \A m, n \in DOMAIN request : request[m] = request[n] => m = n
      /\ wanted \in Seq(Classes) /\ Len(wanted) >= 1
  BY ListsAreLists, BulkFillAssumption
<1>2. log' \in Seq(Event)
  <2>1. PICK e \in Event : e = [Ev("start", None) EXCEPT !.count = Len(request)]
    BY <1>1, StartEvent
  <2>2. log' = <<e>>
    BY <2>1 DEF StartFill
  <2>. QED  BY <2>2
<1>3. ids' = request /\ classes' = wanted /\ force' \in BOOLEAN /\ job' = "running" /\ pc' = "next" /\ idx' = 1
  BY DEF StartFill
<1>4. FillTypeOK'
  <2>1. UNCHANGED <<row, body, field, spent, cls, loaded, base, dirty, got, updated, sum, billed,
                    call, edits, calls>>
    BY DEF StartFill
  <2>2. /\ ids' \in Seq(Items) /\ classes' \in Seq(Classes) /\ force' \in BOOLEAN
        /\ job' \in {"none", "running"} \cup Over /\ pc' \in {"next", "calling"} /\ idx' \in Nat
    BY <1>1, <1>3
  <2>. QED  BY <1>2, <2>1, <2>2 DEF Typed, FillTypeOK
<1>5. PlaceInv'
  <2>1. DOMAIN request = 1..Len(request)
    BY <1>1
  <2>. QED  BY <1>1, <1>3, <2>1 DEF PlaceInv, AtWork, Over
<1>. QED  BY <1>4, <1>5 DEF Typed

\* What keeps the types of the worker's variables when it goes on to the next
\* record, or ends.
LEMMA TypedAdvance ==
  ASSUME Typed, pc \in AtWork, Advance, NEW e \in Event, log' = Append(log, e),
         UNCHANGED <<row, body, job, reqVars, cls, loaded, base, got, updated, billed, userVars,
                     field, spent>>,
         dirty' \in [Items -> SUBSET Classes], sum' \in [updated : Nat, tokens : Nat]
  PROVE  Typed'
<1>. USE DEF reqVars, userVars
<1>1. log' \in Seq(Event)
  BY Appended
<1>2. /\ idx' \in Nat /\ idx' = idx + 1 /\ pc' \in {"next", "summary"}
      /\ pc' \in AtWork => idx' \in DOMAIN ids'
      /\ pc' = "summary" => idx' = Len(ids') + 1
  BY AdvanceTyped
<1>3. FillTypeOK'
  BY <1>1, <1>2 DEF Typed, FillTypeOK
<1>4. PlaceInv'
  BY <1>2 DEF Typed, PlaceInv, AtWork
<1>. QED  BY <1>3, <1>4 DEF Typed

LEMMA TypedEnd ==
  ASSUME Typed, pc \notin {"idle", "ended"}, pc' = "ended", job' \in Over, log' \in Seq(Event),
         UNCHANGED <<dbVars, reqVars, idx, cls, loaded, base, got, updated, sum, billed, userVars>>,
         dirty' \in [Items -> SUBSET Classes]
  PROVE  Typed'
<1>. USE DEF dbVars, reqVars, userVars
<1>1. FillTypeOK'
  BY DEF Typed, FillTypeOK
<1>2. PlaceInv'
  BY DEF Typed, PlaceInv, AtWork, Over
<1>. QED  BY <1>1, <1>2 DEF Typed

LEMMA TypedEndJob ==
  ASSUME Typed, pc \notin {"idle", "ended"}, NEW status \in Over, EndJob(status),
         UNCHANGED <<dbVars, reqVars, idx, cls, loaded, base, got, updated, sum, billed, userVars>>
  PROVE  Typed'
<1>1. PICK e \in Event : e = Ev(status, None)
  BY EndEvent
<1>2. log' \in Seq(Event)
  BY <1>1, Appended DEF EndJob
<1>. QED  BY <1>2, TypedEnd, DirtyEmpty DEF EndJob

\* The worker ends its log with the totals.
LEMMA SummaryEvents ==
  ASSUME Typed, Summarise
  PROVE  \E d \in Event, e \in Event :
           /\ log' = log \o <<d, e>>
           /\ d.type = "done" /\ d.tokens = sum.tokens /\ d.count = sum.updated /\ d.updated = {}
           /\ e.type = "completed"
<1>1. sum.tokens \in Nat /\ sum.updated \in Nat
  BY DEF Typed, FillTypeOK
<1>2. PICK d \in Event : /\ d = [Ev("done", None) EXCEPT !.tokens = sum.tokens, !.count = sum.updated]
                         /\ d.type = "done" /\ d.tokens = sum.tokens /\ d.count = sum.updated
                         /\ d.updated = {}
  BY <1>1, TotalEvent
<1>3. "completed" \in Over
  BY DEF Over
<1>4. PICK e \in Event : e = Ev("completed", None) /\ e.type = "completed"
  BY <1>3, EndEvent
<1>5. log' = log \o <<d, e>>
  BY <1>2, <1>4 DEF Summarise
<1>. QED  BY <1>2, <1>4, <1>5

LEMMA TypedStep ==
  ASSUME Typed, FillNext
  PROVE  Typed'
<1>. USE DEF dbVars, reqVars, itemVars, workerVars, userVars
<1>1. CASE SkipItem
  <2>1. pc \in AtWork /\ Item \in Items
    BY <1>1, TypedPlace DEF SkipItem, AtWork
  <2>2. PICK e \in Event : log' = Append(log, e)
    <3>1. "item_skipped" \in EventTypes
      BY DEF EventTypes
    <3>2. PICK e \in Event : e = Ev("item_skipped", Item)
      BY <2>1, <3>1, PlainEvent
    <3>. QED  BY <1>1, <3>2 DEF SkipItem
  <2>. QED  BY <1>1, <2>1, <2>2, TypedAdvance DEF SkipItem, Typed, FillTypeOK
<1>2. CASE BeginItem
  <2>1. Item \in Items
    BY <1>2, TypedPlace DEF BeginItem, AtWork
  <2>2. PICK e \in Event : log' = Append(log, e)
    <3>1. "item_start" \in EventTypes
      BY DEF EventTypes
    <3>2. PICK e \in Event : e = Ev("item_start", Item)
      BY <2>1, <3>1, PlainEvent
    <3>. QED  BY <1>2, <3>2 DEF BeginItem
  <2>3. log' \in Seq(Event)
    BY <2>2, Appended
  <2>4. /\ loaded' \in [Items -> SUBSET Classes] /\ base' \in Nat /\ got' \in Nat
        /\ updated' \subseteq Classes
    BY <1>2, <2>1 DEF BeginItem, Typed, FillTypeOK
  <2>5. FillTypeOK'
    BY <1>2, <2>3, <2>4 DEF BeginItem, Typed, FillTypeOK
  <2>6. PlaceInv'
    <3>1. classes' = classes /\ DOMAIN classes = 1..Len(classes) /\ Len(classes) \in Nat /\ cls' = 1 /\ pc' = "calling"
      BY <1>2, TypedPlace DEF BeginItem
    <3>. QED  BY <1>2, <3>1 DEF BeginItem, Typed, PlaceInv, AtWork, Over
  <2>. QED  BY <2>5, <2>6 DEF Typed
<1>3. CASE ClassFailed
  <2>1. cls' \in Nat /\ pc' \in {"calling", "filled"} /\ (pc' = "calling" => cls' \in DOMAIN classes')
    BY <1>3, NextClassTyped DEF ClassFailed
  <2>2. FillTypeOK'
    BY <1>3, <2>1 DEF ClassFailed, Typed, FillTypeOK
  <2>3. PlaceInv'
    BY <1>3, <2>1 DEF ClassFailed, Typed, PlaceInv, AtWork, Over
  <2>. QED  BY <2>2, <2>3 DEF Typed
<1>4. CASE ItemCrashed
  <2>1. pc \in AtWork /\ Item \in Items
    BY <1>4, TypedPlace DEF ItemCrashed, AtWork
  <2>2. PICK e \in Event : log' = Append(log, e)
    <3>1. "item_error" \in EventTypes
      BY DEF EventTypes
    <3>2. PICK e \in Event : e = Ev("item_error", Item)
      BY <2>1, <3>1, PlainEvent
    <3>. QED  BY <1>4, <3>2 DEF ItemCrashed
  <2>. QED  BY <1>4, <2>1, <2>2, TypedAdvance, DirtyEmpty DEF ItemCrashed, Typed, FillTypeOK
<1>5. ASSUME NEW usable \in BOOLEAN, NEW tokens \in Usages, ClassAnswered(usable, tokens)
      PROVE  Typed'
  <2>1. cls' \in Nat /\ pc' \in {"calling", "filled"} /\ (pc' = "calling" => cls' \in DOMAIN classes')
    BY <1>5, NextClassTyped DEF ClassAnswered
  <2>2. Item \in Items /\ Class \in Classes /\ tokens \in Nat
    BY <1>5, TypedPlace, BulkFillAssumption DEF ClassAnswered, AtWork
  <2>3. dirty' \in [Items -> SUBSET Classes] /\ updated' \subseteq Classes
    <3>1. dirty \in [Items -> SUBSET Classes] /\ updated \subseteq Classes
      BY DEF Typed, FillTypeOK
    <3>2. \/ /\ dirty' = [dirty EXCEPT ![Item] = dirty[Item] \cup {Class}]
             /\ updated' = updated \cup {Class}
          \/ UNCHANGED <<dirty, updated>>
      BY <1>5 DEF ClassAnswered
    <3>. QED  BY <2>2, <3>1, <3>2
  <2>4. got' \in Nat /\ billed' \in [Items -> Nat]
    <3>1. got \in Nat /\ billed \in [Items -> Nat] /\ Item \in Items /\ tokens \in Nat
      BY <2>2 DEF Typed, FillTypeOK
    <3>2. got' = got + tokens /\ billed' = [billed EXCEPT ![Item] = billed[Item] + tokens]
      BY <1>5 DEF ClassAnswered
    <3>. QED  BY <3>1, <3>2
  <2>5. FillTypeOK'
    BY <1>5, <2>1, <2>3, <2>4 DEF ClassAnswered, Typed, FillTypeOK
  <2>6. PlaceInv'
    BY <1>5, <2>1 DEF ClassAnswered, Typed, PlaceInv, AtWork, Over
  <2>. QED  BY <2>5, <2>6 DEF Typed
<1>6. CASE SaveItem
  <2>1. Item \in Items
    BY <1>6, TypedPlace DEF SaveItem, AtWork
  <2>2. field' \in [Items -> [Classes -> {"empty", "human", "ai"}]]
    <3>1. \A i \in Items : [c \in Classes |-> IF c \in dirty[i] THEN "ai" ELSE field[i][c]]
                             \in [Classes -> {"empty", "human", "ai"}]
      BY DEF Typed, FillTypeOK
    <3>. QED  BY <1>6, <3>1 DEF SaveItem
  <2>3. spent' \in [Items -> Nat]
    BY <1>6, <2>1 DEF SaveItem, Typed, FillTypeOK
  <2>4. FillTypeOK'
    BY <1>6, <2>2, <2>3, DirtyEmpty DEF SaveItem, Typed, FillTypeOK
  <2>5. PlaceInv'
    BY <1>6 DEF SaveItem, Typed, PlaceInv, AtWork, Over
  <2>. QED  BY <2>4, <2>5 DEF Typed
<1>7. CASE SaveFailed
  BY <1>7, TypedEndJob DEF SaveFailed, Over
<1>8. CASE ReportItem
  <2>1. pc \in AtWork /\ Item \in Items
    BY <1>8, TypedPlace DEF ReportItem, AtWork
  <2>2. PICK e \in Event : log' = Append(log, e)
    <3>1. updated \in SUBSET Classes /\ got \in Nat
      BY DEF Typed, FillTypeOK
    <3>2. \E e \in Event : /\ e = [Ev("item_done", Item) EXCEPT !.updated = updated, !.tokens = got]
                            /\ e.type = "item_done" /\ e.item = Item /\ e.updated = updated /\ e.tokens = got
      BY <2>1, <3>1, DoneEvent
    <3>. QED  BY <1>8, <3>2 DEF ReportItem
  <2>3. sum' \in [updated : Nat, tokens : Nat]
    BY SMTT(30), <1>8 DEF ReportItem, Typed, FillTypeOK
  <2>. QED  BY <1>8, <2>1, <2>2, <2>3, TypedAdvance DEF ReportItem, Typed, FillTypeOK
<1>9. CASE Summarise
  <2>1. PICK d \in Event, e \in Event : log' = log \o <<d, e>>
    BY <1>9, SummaryEvents
  <2>2. log' \in Seq(Event)
    BY <2>1 DEF Typed, FillTypeOK
  <2>. QED  BY <1>9, <2>2, TypedEnd, DirtyEmpty DEF Summarise, Over
<1>10. CASE CancelFill
  BY <1>10, TypedEndJob DEF CancelFill, Over
<1>11. CASE Others
  BY <1>11, TypedOthers
<1>12. CASE FillStart
  BY <1>12, TypedStart DEF FillStart
<1>. QED  BY <1>1, <1>2, <1>3, <1>4, <1>5, <1>6, <1>7, <1>8, <1>9, <1>10, <1>11, <1>12
          DEF FillNext, FillStep

LEMMA TypedAlways == Spec => []Typed
<1>1. Typed /\ UNCHANGED fillVars => Typed'
  BY PlaceFrame DEF Typed, FillTypeOK, fillVars, dbVars, workerVars, reqVars, itemVars, userVars
<1>. QED  BY <1>1, TypedInit, TypedStep, PTL DEF Spec

\* The rows, the session, the log and the charges keep their types.
THEOREM FillTyped == Spec => []FillTypeOK
<1>1. Typed => FillTypeOK
  BY DEF Typed
<1>. QED  BY <1>1, TypedAlways, PTL

-----------------------------------------------------------------------------
(* What the session holds                                                  *)

\* What the session set and has not committed belongs to the record at work or
\* to one behind it, and only with force to a field it saw filled; nothing is
\* written by the job before the record is committed.
SessionInv ==
  /\ \A i \in Items : dirty[i] # {} => Past(i) \/ (pc \in {"calling", "filled"} /\ i = Item)
  /\ \A i \in Items : force \/ dirty[i] \cap loaded[i] = {}
  /\ \A i \in Items, c \in Classes : field[i][c] = "ai" =>
       Past(i) \/ (pc \in {"committed", "ended"} /\ idx \in DOMAIN ids /\ i = Item)

\* A record that failed is behind the worker, and the session holds nothing
\* of it.
FailedInv ==
  \A n \in DOMAIN log : log[n].type = "item_error" =>
    /\ log[n].item \in Items /\ Past(log[n].item) /\ dirty[log[n].item] = {}
    /\ \A c \in Classes : field[log[n].item][c] # "ai"

LEMMA ItemIsAhead ==
  ASSUME Typed, pc \in AtWork
  PROVE  ~Past(Item) /\ Item \in Items
<1>1. idx \in DOMAIN ids /\ idx \in Nat /\ \A m, n \in DOMAIN ids : ids[m] = ids[n] => m = n
  BY DEF Typed, PlaceInv, FillTypeOK
<1>2. \A m \in DOMAIN ids : m \in Nat
  BY TypedPlace
<1>. QED  BY <1>1, <1>2, TypedPlace DEF Past, Item

LEMMA SessionInit == FillInit => SessionInv /\ FailedInv
<1>. SUFFICES ASSUME FillInit
              PROVE  SessionInv /\ FailedInv
  OBVIOUS
<1>1. \A i \in Items, c \in Classes : field[i][c] \in {"empty", "human"}
  BY DEF FillInit
<1>2. /\ \A i \in Items : dirty[i] = {}
      /\ DOMAIN log = {}
  BY DEF FillInit
<1>. QED  BY <1>1, <1>2 DEF SessionInv, FailedInv

LEMMA SessionFrame ==
  ASSUME SessionInv, FailedInv, UNCHANGED <<ids, idx, pc, dirty, loaded, force, log>>,
         \A i \in Items, c \in Classes : field'[i][c] = "ai" => field[i][c] = "ai"
  PROVE  SessionInv' /\ FailedInv'
BY DEF SessionInv, FailedInv, Past, Item

\* The record at work is done with, in whatever way.
LEMMA SessionAdvance ==
  ASSUME Typed, SessionInv, FailedInv, pc \in AtWork, Advance,
         NEW e \in Event, log' = Append(log, e), UNCHANGED <<ids, field, loaded, force>>,
         \A i \in Items : dirty'[i] \subseteq dirty[i],
         e.type = "item_error" => /\ e.item = Item /\ dirty'[Item] = {}
                                  /\ \A c \in Classes : field[Item][c] # "ai"
  PROVE  SessionInv' /\ FailedInv'
<1>1. \A i : Past(i)' <=> (Past(i) \/ i = Item)
  BY AdvanceTyped
<1>2. pc # "ended" /\ \A i \in Items : dirty'[i] # {} => dirty[i] # {}
  BY DEF AtWork
<1>3. SessionInv'
  <2>1. \A i \in Items : dirty'[i] # {} => Past(i)'
    BY <1>1, <1>2 DEF SessionInv
  <2>2. \A i \in Items : force \/ dirty'[i] \cap loaded[i] = {}
    BY DEF SessionInv
  <2>3. \A i \in Items, c \in Classes : field'[i][c] = "ai" => Past(i)'
    BY <1>1, <1>2 DEF SessionInv
  <2>. QED  BY <2>1, <2>2, <2>3 DEF SessionInv
<1>4. FailedInv'
  <2>1. \A n \in DOMAIN log' : log'[n] = e \/ (n \in DOMAIN log /\ log'[n] = log[n])
    BY Appended
  <2>2. Item \in Items
    BY ItemIsAhead
  <2>3. \A n \in DOMAIN log : log[n].type = "item_error" =>
          /\ log[n].item \in Items /\ Past(log[n].item)' /\ dirty'[log[n].item] = {}
          /\ \A c \in Classes : field'[log[n].item][c] # "ai"
    BY <1>1 DEF FailedInv
  <2>4. e.type = "item_error" =>
          /\ e.item \in Items /\ Past(e.item)' /\ dirty'[e.item] = {}
          /\ \A c \in Classes : field'[e.item][c] # "ai"
    BY <1>1, <2>2
  <2>5. \A n \in DOMAIN log' : \A i : log'[n].type = "item_error" /\ i = log'[n].item =>
          /\ i \in Items /\ Past(i)' /\ dirty'[i] = {}
          /\ \A c \in Classes : field'[i][c] # "ai"
    BY SMTT(30), <2>1, <2>3, <2>4
  <2>. QED  BY <2>5 DEF FailedInv
<1>. QED  BY <1>3, <1>4

\* The job ends, and the session with it.
LEMMA SessionEnd ==
  ASSUME Typed, SessionInv, FailedInv, pc' = "ended", dirty' = [i \in Items |-> {}],
         UNCHANGED <<ids, idx, field, loaded, force>>,
         pc \in AtWork \cup {"summary"},
         \A n \in DOMAIN log' : log'[n].type = "item_error" => n \in DOMAIN log /\ log'[n] = log[n]
  PROVE  SessionInv' /\ FailedInv'
<1>1. \A i : Past(i)' <=> Past(i)
  BY DEF Past
<1>2. SessionInv'
  BY <1>1 DEF SessionInv, Item
<1>3. FailedInv'
  BY <1>1 DEF FailedInv, Past
<1>. QED  BY <1>2, <1>3

LEMMA SessionEndJob ==
  ASSUME Typed, SessionInv, FailedInv, pc \in AtWork, NEW status \in Over, EndJob(status),
         UNCHANGED <<ids, idx, field, loaded, force>>
  PROVE  SessionInv' /\ FailedInv'
<1>1. PICK e \in Event : e = Ev(status, None) /\ e.type = status
  BY EndEvent
<1>2. e.type # "item_error"
  BY <1>1 DEF Over
<1>3. \A n \in DOMAIN log' : log'[n] = e \/ (n \in DOMAIN log /\ log'[n] = log[n])
  BY <1>1, Appended DEF EndJob
<1>. QED  BY <1>2, <1>3, SessionEnd DEF EndJob

LEMMA SessionStep ==
  ASSUME Typed, Typed', SessionInv, FailedInv, FillNext
  PROVE  SessionInv' /\ FailedInv'
<1>. USE DEF dbVars, reqVars, itemVars, workerVars, userVars
<1>1. CASE SkipItem
  <2>1. pc \in AtWork /\ Item \in Items
    BY <1>1, TypedPlace DEF SkipItem, AtWork
  <2>2. PICK e \in Event : log' = Append(log, e) /\ e.type = "item_skipped"
    <3>1. "item_skipped" \in EventTypes
      BY DEF EventTypes
    <3>2. PICK e \in Event : e = Ev("item_skipped", Item) /\ e.type = "item_skipped"
      BY <2>1, <3>1, PlainEvent
    <3>. QED  BY <1>1, <3>2 DEF SkipItem
  <2>. QED  BY <1>1, <2>1, <2>2, SessionAdvance DEF SkipItem
<1>2. CASE BeginItem
  <2>1. Item \in Items /\ ~Past(Item) /\ pc = "next"
    BY <1>2, ItemIsAhead DEF BeginItem, AtWork
  <2>2. PICK e \in Event : log' = Append(log, e) /\ e.type = "item_start"
    <3>1. "item_start" \in EventTypes
      BY DEF EventTypes
    <3>2. PICK e \in Event : e = Ev("item_start", Item) /\ e.type = "item_start"
      BY <2>1, <3>1, PlainEvent
    <3>. QED  BY <1>2, <3>2 DEF BeginItem
  <2>3. \A i : Past(i)' <=> Past(i)
    BY <1>2 DEF BeginItem, Past
  <2>4. SessionInv'
    <3>1. dirty[Item] = {} /\ \A i \in Items : i # Item => loaded'[i] = loaded[i]
      BY <1>2, <2>1 DEF BeginItem, SessionInv, Typed, FillTypeOK
    <3>. QED  BY <1>2, <2>1, <2>3, <3>1 DEF BeginItem, SessionInv
  <2>5. \A n \in DOMAIN log' : log'[n] = e \/ (n \in DOMAIN log /\ log'[n] = log[n])
    BY <2>2, Appended
  <2>6. FailedInv'
    <3>1. \A n \in DOMAIN log' : log'[n].type = "item_error" => n \in DOMAIN log /\ log'[n] = log[n]
      BY <2>2, <2>5
    <3>2. UNCHANGED <<dirty, field, ids, idx>>
      BY <1>2 DEF BeginItem
    <3>. QED  BY <3>1, <3>2 DEF FailedInv, Past
  <2>. QED  BY <2>4, <2>6
<1>3. CASE ClassFailed
  <2>1. pc \in {"calling", "filled"} /\ pc' \in {"calling", "filled"}
    BY <1>3, NextClassTyped DEF ClassFailed
  <2>2. \A i : Past(i)' <=> Past(i)
    BY <1>3 DEF ClassFailed, Past
  <2>. QED  BY <1>3, <2>1, <2>2 DEF ClassFailed, SessionInv, FailedInv, Item, Past
<1>4. CASE ItemCrashed
  <2>1. pc \in AtWork /\ Item \in Items /\ ~Past(Item) /\ pc = "calling"
    BY <1>4, ItemIsAhead DEF ItemCrashed, AtWork
  <2>2. PICK e \in Event : log' = Append(log, e) /\ e.item = Item
    <3>1. "item_error" \in EventTypes
      BY DEF EventTypes
    <3>2. PICK e \in Event : e = Ev("item_error", Item) /\ e.item = Item
      BY <2>1, <3>1, PlainEvent
    <3>. QED  BY <1>4, <3>2 DEF ItemCrashed
  <2>3. \A c \in Classes : field[Item][c] # "ai"
    BY <2>1 DEF SessionInv
  <2>4. \A i \in Items : dirty'[i] = {}
    BY <1>4 DEF ItemCrashed
  <2>. QED  BY <1>4, <2>1, <2>2, <2>3, <2>4, SessionAdvance DEF ItemCrashed
<1>5. ASSUME NEW usable \in BOOLEAN, NEW tokens \in Usages, ClassAnswered(usable, tokens)
      PROVE  SessionInv' /\ FailedInv'
  <2>1. /\ pc = "calling" /\ pc' \in {"calling", "filled"}
        /\ UNCHANGED <<ids, idx, field, loaded, force, log>>
    BY <1>5, NextClassTyped DEF ClassAnswered
  <2>2. Item \in Items /\ ~Past(Item)
    BY <2>1, ItemIsAhead DEF AtWork
  <2>3. \A i : Past(i)' <=> Past(i)
    BY <2>1 DEF Past
  <2>4. \A i \in Items : i # Item => dirty'[i] = dirty[i]
    BY <1>5 DEF ClassAnswered, Typed, FillTypeOK
  <2>5. force \/ dirty'[Item] \cap loaded[Item] = {}
    <3>1. CASE usable /\ Applies(Class)
      <4>1. dirty'[Item] = dirty[Item] \cup {Class}
        BY <1>5, <2>2, <3>1 DEF ClassAnswered, Typed, FillTypeOK
      <4>2. force \/ Class \notin loaded[Item]
        BY <3>1 DEF Applies
      <4>. QED  BY <2>2, <4>1, <4>2 DEF SessionInv
    <3>2. CASE ~(usable /\ Applies(Class))
      BY <1>5, <2>2, <3>2 DEF ClassAnswered, SessionInv
    <3>. QED  BY <3>1, <3>2
  <2>6. Item' = Item
    BY <2>1 DEF Item
  <2>7. SessionInv'
    BY <2>1, <2>2, <2>3, <2>4, <2>5, <2>6 DEF SessionInv
  <2>8. \A i \in Items : Past(i) => dirty'[i] = dirty[i]
    BY <2>2, <2>4
  <2>9. FailedInv'
    BY <2>1, <2>3, <2>8 DEF FailedInv, Past
  <2>. QED  BY <2>7, <2>9
<1>6. CASE SaveItem
  <2>1. /\ pc = "filled" /\ pc' = "committed" /\ UNCHANGED <<ids, idx, loaded, force, log>>
        /\ \A i \in Items : dirty'[i] = {}
    BY <1>6 DEF SaveItem
  <2>2. \A i \in Items, c \in Classes : field'[i][c] = IF c \in dirty[i] THEN "ai" ELSE field[i][c]
    BY <1>6 DEF SaveItem
  <2>3. \A i : Past(i)' <=> Past(i)
    BY <2>1 DEF Past
  <2>4. idx \in DOMAIN ids /\ Item' = Item
    BY <2>1 DEF Typed, PlaceInv, AtWork, Item
  <2>5. SessionInv'
    BY <2>1, <2>2, <2>3, <2>4 DEF SessionInv
  <2>6. FailedInv'
    BY <2>1, <2>2, <2>3 DEF FailedInv, Past
  <2>. QED  BY <2>5, <2>6
<1>7. CASE SaveFailed
  <2>1. pc \in AtWork
    BY <1>7 DEF SaveFailed, AtWork
  <2>. QED  BY <1>7, <2>1, SessionEndJob DEF SaveFailed, Over
<1>8. CASE ReportItem
  <2>1. pc \in AtWork /\ Item \in Items
    BY <1>8, TypedPlace DEF ReportItem, AtWork
  <2>2. PICK e \in Event : log' = Append(log, e) /\ e.type = "item_done"
    <3>1. updated \in SUBSET Classes /\ got \in Nat
      BY DEF Typed, FillTypeOK
    <3>2. \E e \in Event : /\ e = [Ev("item_done", Item) EXCEPT !.updated = updated, !.tokens = got]
                            /\ e.type = "item_done" /\ e.item = Item /\ e.updated = updated /\ e.tokens = got
      BY <2>1, <3>1, DoneEvent
    <3>. QED  BY <1>8, <3>2 DEF ReportItem
  <2>. QED  BY <1>8, <2>1, <2>2, SessionAdvance DEF ReportItem
<1>9. CASE Summarise
  <2>1. PICK d \in Event, e \in Event : log' = log \o <<d, e>> /\ d.type = "done" /\ e.type = "completed"
    BY <1>9, SummaryEvents
  <2>2. \A n \in DOMAIN log' : log'[n] \in {d, e} \/ (n \in DOMAIN log /\ log'[n] = log[n])
    <3>1. log \in Seq(Event) /\ <<d, e>> \in Seq(Event) /\ Len(<<d, e>>) = 2
      BY DEF Typed, FillTypeOK
    <3>2. /\ DOMAIN log' = 1..(Len(log) + 2) /\ Len(log) \in Nat
          /\ \A n \in 1..Len(log) : log'[n] = log[n]
          /\ log'[Len(log) + 1] = d /\ log'[Len(log) + 2] = e
      BY <2>1, <3>1
    <3>3. \A n \in DOMAIN log' : n \in 1..Len(log) \/ n = Len(log) + 1 \/ n = Len(log) + 2
      BY <3>2
    <3>. QED  BY <3>1, <3>2, <3>3
  <2>. QED  BY <1>9, <2>1, <2>2, SessionEnd DEF Summarise
<1>10. CASE CancelFill
  <2>1. pc \in AtWork
    BY <1>10 DEF CancelFill, AtWork
  <2>. QED  BY <1>10, <2>1, SessionEndJob DEF CancelFill, Over
<1>11. CASE Others
  <2>1. ASSUME NEW i \in Items, NEW c \in Classes, Edit(i, c)
        PROVE  \A j \in Items, d \in Classes : field'[j][d] = "ai" => field[j][d] = "ai"
    BY <2>1 DEF Edit, Typed, FillTypeOK
  <2>2. UNCHANGED <<ids, idx, pc, dirty, loaded, force, log>>
    BY <1>11 DEF Others, Trash, Restore, Purge, CallBegin, CallEnd, Edit
  <2>3. \A j \in Items, d \in Classes : field'[j][d] = "ai" => field[j][d] = "ai"
    BY <1>11, <2>1 DEF Others, Trash, Restore, Purge, CallBegin, CallEnd
  <2>. QED  BY <2>2, <2>3, SessionFrame
<1>12. CASE FillStart
  <2>1. PICK request \in Lists(Items), wanted \in Lists(Classes), overwrite \in BOOLEAN :
          StartFill(request, wanted, overwrite)
    BY <1>12 DEF FillStart
  <2>2. /\ pc = "idle" /\ ids = <<>> /\ idx' = 1 /\ pc' = "next"
        /\ UNCHANGED <<field, dirty, loaded>>
    BY <2>1 DEF StartFill, Typed, PlaceInv
  <2>3. \A i : ~Past(i)
    BY <2>2 DEF Past
  <2>4. /\ \A i \in Items : dirty'[i] = {}
        /\ \A i \in Items, c \in Classes : field'[i][c] # "ai"
    BY <2>2, <2>3 DEF SessionInv
  <2>5. \A n \in DOMAIN log' : log'[n].type # "item_error"
    <3>1. Len(request) \in Nat
      BY ListsAreLists, BulkFillAssumption
    <3>2. PICK e \in Event : /\ e = [Ev("start", None) EXCEPT !.count = Len(request)]
                             /\ e.type = "start"
      BY <3>1, StartEvent
    <3>3. log' = <<e>>
      BY <2>1, <3>2 DEF StartFill
    <3>4. \A n \in DOMAIN log' : log'[n] = e
      BY <3>3
    <3>. QED  BY <3>2, <3>4
  <2>. QED  BY <2>4, <2>5 DEF SessionInv, FailedInv
<1>. QED  BY <1>1, <1>2, <1>3, <1>4, <1>5, <1>6, <1>7, <1>8, <1>9, <1>10, <1>11, <1>12
          DEF FillNext, FillStep

LEMMA SessionAlways == Spec => [](Typed /\ SessionInv /\ FailedInv)
<1>1. SessionInv /\ FailedInv /\ UNCHANGED fillVars => SessionInv' /\ FailedInv'
  <2>. SUFFICES ASSUME SessionInv, FailedInv, UNCHANGED fillVars
                PROVE  SessionInv' /\ FailedInv'
    OBVIOUS
  <2>1. UNCHANGED <<ids, idx, pc, dirty, loaded, force, log, field>>
    BY DEF fillVars, dbVars, workerVars, reqVars, itemVars
  <2>. QED  BY <2>1, SessionFrame
<1>2. Typed /\ Typed' /\ SessionInv /\ FailedInv /\ [FillNext]_fillVars => SessionInv' /\ FailedInv'
  BY <1>1, SessionStep
<1>. QED  BY <1>2, SessionInit, TypedAlways, PTL DEF Spec

\* What item_error reports was left as it was: neither its own commit nor a
\* later one, of the same session, brings its answered classes to the row.
THEOREM FailedUntouched == Spec => []FailedIsUntouched
<1>1. FailedInv => FailedIsUntouched
  BY DEF FailedInv, FailedIsUntouched
<1>. QED  BY <1>1, SessionAlways, PTL

\* Only a commit of the session writes for the job, and only what it holds.
THEOREM FilledKept == Spec => FilledIsKept
<1>1. ASSUME Typed, SessionInv, [FillNext]_fillVars, NEW i \in Items, NEW c \in Classes,
             field[i][c] = "human", field'[i][c] = "ai"
      PROVE  force \/ c \notin loaded[i]
  <2>. USE DEF dbVars, reqVars, itemVars, workerVars, userVars
  <2>1. field' # field
    BY <1>1
  <2>2. SaveItem \/ \E j \in Items, d \in Classes : Edit(j, d)
    BY <1>1, <2>1 DEF FillNext, FillStart, StartFill, FillStep, SkipItem, BeginItem, ClassFailed, ItemCrashed,
       ClassAnswered, SaveFailed, ReportItem, Summarise, CancelFill, Others, Trash, Restore,
       Purge, CallBegin, CallEnd, fillVars
  <2>3. CASE SaveItem
    <3>1. c \in dirty[i]
      BY <1>1, <2>3 DEF SaveItem
    <3>. QED  BY <1>1, <3>1 DEF SessionInv
  <2>4. ASSUME NEW j \in Items, NEW d \in Classes, Edit(j, d)
        PROVE  FALSE
    BY <1>1, <2>4 DEF Edit, Typed, FillTypeOK
  <2>. QED  BY <2>2, <2>3, <2>4
<1>2. Typed /\ SessionInv /\ [FillNext]_fillVars =>
        [\A i \in Items, c \in Classes :
           field[i][c] = "human" /\ field'[i][c] = "ai" => force \/ c \notin loaded[i]]_fillVars
  BY <1>1
<1>. QED  BY <1>2, SessionAlways, PTL DEF Spec, FilledIsKept

-----------------------------------------------------------------------------
(* What item_done reports                                                  *)

Logged(e) == \E n \in DOMAIN log : log[n] = e

\* What an item_done promises: its record is behind the worker, what it paid
\* for is in the row, and charged unless another call's sum came over it.
DoneOK(e) ==
  /\ e.item \in Items /\ Past(e.item)
  /\ e.tokens > 0 => IsSaved(e)
  /\ calls = 0 => row[e.item] = "gone" \/ e.tokens <= spent[e.item]

DonesInv == \A e \in Event : Logged(e) /\ e.type = "item_done" => DoneOK(e)

\* The record at work: what apply_field updated is in the session, then in
\* the row; what was charged, or will be, was billed.
PaidInv ==
  /\ pc \in {"calling", "filled"} => updated \subseteq dirty[Item] /\ base + got <= billed[Item]
  /\ pc = "committed" =>
       /\ \A c \in updated : field[Item][c] # "empty"
       /\ calls = 0 => got <= spent[Item]
  /\ call.item # None => call.base <= billed[call.item]
  /\ calls = 0 => call.item = None
  /\ \A i \in Items : spent[i] <= billed[i]

LEMMA LoggedAppend ==
  ASSUME Typed, NEW e \in Event, log' = Append(log, e)
  PROVE  \A x : Logged(x)' => Logged(x) \/ x = e
BY Appended DEF Logged

\* Only ReportItem adds an item_done, with what it has of the record.
LEMMA OnlyReports ==
  ASSUME Typed, FillNext
  PROVE  \A x \in Event : Logged(x)' /\ x.type = "item_done" =>
           \/ Logged(x)
           \/ ReportItem /\ x.item = Item /\ x.updated = updated /\ x.tokens = got
<1>. USE DEF dbVars, reqVars, itemVars, workerVars, userVars
<1>. DEFINE Told(x) == \/ Logged(x)
                       \/ ReportItem /\ x.item = Item /\ x.updated = updated /\ x.tokens = got
<1>1. ASSUME NEW t \in EventTypes, NEW i \in Items \cup {None}, t # "item_done", log' = Append(log, Ev(t, i))
      PROVE  \A x \in Event : Logged(x)' /\ x.type = "item_done" => Told(x)
  <2>1. PICK e \in Event : e = Ev(t, i) /\ e.type = t
    BY PlainEvent
  <2>. QED  BY <1>1, <2>1, LoggedAppend
<1>2. CASE SkipItem
  <2>1. Item \in Items
    BY <1>2, TypedPlace DEF SkipItem, AtWork
  <2>. QED  BY <1>1, <1>2, <2>1 DEF SkipItem, EventTypes
<1>3. CASE BeginItem
  <2>1. Item \in Items
    BY <1>3, TypedPlace DEF BeginItem, AtWork
  <2>. QED  BY <1>1, <1>3, <2>1 DEF BeginItem, EventTypes
<1>4. CASE ItemCrashed
  <2>1. Item \in Items
    BY <1>4, TypedPlace DEF ItemCrashed, AtWork
  <2>. QED  BY <1>1, <1>4, <2>1 DEF ItemCrashed, EventTypes
<1>5. CASE SaveFailed \/ CancelFill
  <2>1. PICK t \in Over : log' = Append(log, Ev(t, None))
    BY <1>5 DEF SaveFailed, CancelFill, EndJob, Over
  <2>. QED  BY <1>1, <2>1 DEF EventTypes, Over
<1>6. CASE log' = log
  BY <1>6 DEF Logged
<1>7. CASE ReportItem
  <2>1. Item \in Items /\ updated \in SUBSET Classes /\ got \in Nat
    BY <1>7, TypedPlace DEF ReportItem, AtWork, Typed, FillTypeOK
  <2>2. PICK e \in Event : /\ e = [Ev("item_done", Item) EXCEPT !.updated = updated, !.tokens = got]
                           /\ e.item = Item /\ e.updated = updated /\ e.tokens = got
    BY <2>1, DoneEvent
  <2>3. log' = Append(log, e)
    BY <1>7, <2>2 DEF ReportItem
  <2>. QED  BY <1>7, <2>2, <2>3, LoggedAppend
<1>8. CASE Summarise
  <2>1. PICK d \in Event, e \in Event : log' = log \o <<d, e>> /\ d.type = "done" /\ e.type = "completed"
    BY <1>8, SummaryEvents
  <2>2. \A n \in DOMAIN log' : log'[n] \in {d, e} \/ (n \in DOMAIN log /\ log'[n] = log[n])
    <3>1. log \in Seq(Event) /\ <<d, e>> \in Seq(Event) /\ Len(<<d, e>>) = 2
      BY DEF Typed, FillTypeOK
    <3>2. /\ DOMAIN log' = 1..(Len(log) + 2) /\ Len(log) \in Nat
          /\ \A n \in 1..Len(log) : log'[n] = log[n]
          /\ log'[Len(log) + 1] = d /\ log'[Len(log) + 2] = e
      BY <2>1, <3>1
    <3>3. \A n \in DOMAIN log' : n \in 1..Len(log) \/ n = Len(log) + 1 \/ n = Len(log) + 2
      BY <3>2
    <3>. QED  BY <3>1, <3>2, <3>3
  <2>. QED  BY <2>1, <2>2 DEF Logged
<1>9. CASE FillStart
  <2>1. PICK request \in Lists(Items), wanted \in Lists(Classes), overwrite \in BOOLEAN :
          StartFill(request, wanted, overwrite)
    BY <1>9 DEF FillStart
  <2>2. Len(request) \in Nat
    BY ListsAreLists, BulkFillAssumption
  <2>3. PICK e \in Event : e = [Ev("start", None) EXCEPT !.count = Len(request)] /\ e.type = "start"
    BY <2>2, StartEvent
  <2>4. log' = <<e>>
    BY <2>1, <2>3 DEF StartFill
  <2>5. \A n \in DOMAIN log' : log'[n] = e
    BY <2>4
  <2>. QED  BY <2>3, <2>5 DEF Logged
<1>10. FillNext => \/ SkipItem \/ BeginItem \/ ItemCrashed \/ SaveFailed \/ CancelFill \/ ReportItem
                   \/ Summarise \/ FillStart \/ log' = log
  BY DEF FillNext, FillStep, ClassFailed, ClassAnswered, SaveItem, Others, Trash, Restore, Purge,
         CallBegin, CallEnd, Edit
<1>. QED  BY <1>2, <1>3, <1>4, <1>5, <1>6, <1>7, <1>8, <1>9, <1>10

\* A row that is gone stays so, a field that is filled stays so, and the
\* worker never goes back.
LEMMA RowsOnlyGrow ==
  ASSUME Typed, FillNext
  PROVE  /\ \A i \in Items : row[i] = "gone" => row'[i] = "gone"
         /\ \A i \in Items, c \in Classes : field[i][c] # "empty" => field'[i][c] # "empty"
         /\ \A i : Past(i) => Past(i)'
         /\ calls' = 0 => calls = 0
<1>. USE DEF dbVars, reqVars, itemVars, workerVars, userVars
<1>1. \A i \in Items : row[i] = "gone" => row'[i] = "gone"
  <2>1. row' = row \/ \E i \in Items : Trash(i) \/ Restore(i) \/ Purge(i)
    BY DEF FillNext, FillStart, StartFill, FillStep, SkipItem, BeginItem, ClassFailed, ItemCrashed,
       ClassAnswered, SaveItem, SaveFailed, ReportItem, Summarise, CancelFill, Others, CallBegin,
       CallEnd, Edit
  <2>. QED  BY <2>1 DEF Trash, Restore, Purge, Typed, FillTypeOK
<1>2. \A i \in Items, c \in Classes : field[i][c] # "empty" => field'[i][c] # "empty"
  <2>1. field' = field \/ SaveItem \/ \E i \in Items, c \in Classes : Edit(i, c)
    BY DEF FillNext, FillStart, StartFill, FillStep, SkipItem, BeginItem, ClassFailed, ItemCrashed,
       ClassAnswered, SaveFailed, ReportItem, Summarise, CancelFill, Others, CallBegin,
       CallEnd, Trash, Restore, Purge
  <2>2. ASSUME SaveItem
        PROVE  \A i \in Items, c \in Classes : field[i][c] # "empty" => field'[i][c] # "empty"
    BY <2>2 DEF SaveItem
  <2>3. ASSUME NEW j \in Items, NEW d \in Classes, Edit(j, d)
        PROVE  \A i \in Items, c \in Classes : field[i][c] # "empty" => field'[i][c] # "empty"
    BY <2>3 DEF Edit, Typed, FillTypeOK
  <2>. QED  BY <2>1, <2>2, <2>3
<1>3. \A i : Past(i) => Past(i)'
  <2>1. \/ pc = "idle"
        \/ ids' = ids /\ (idx' = idx \/ idx' = idx + 1)
    BY DEF FillNext, FillStart, StartFill, FillStep, SkipItem, BeginItem, ClassFailed, ItemCrashed,
       ClassAnswered, SaveItem, SaveFailed, ReportItem, Summarise, CancelFill, Others, CallBegin,
       CallEnd, Edit, Trash, Restore, Purge, Advance, Typed, PlaceInv
  <2>2. idx \in Nat /\ \A m \in DOMAIN ids : m \in Nat
    <3>1. DOMAIN ids = 1..Len(ids)
      BY TypedPlace
    <3>. QED  BY <3>1 DEF Typed, FillTypeOK
  <2>3. pc = "idle" => \A i : ~Past(i)
    BY DEF Typed, PlaceInv, Past
  <2>. QED  BY <2>1, <2>2, <2>3 DEF Past
<1>4. calls' = 0 => calls = 0
  <2>1. calls' = calls \/ \E i \in Items : CallBegin(i)
    BY DEF FillNext, FillStart, StartFill, FillStep, SkipItem, BeginItem, ClassFailed, ItemCrashed,
       ClassAnswered, SaveItem, SaveFailed, ReportItem, Summarise, CancelFill, Others,
       CallEnd, Edit, Trash, Restore, Purge
  <2>. QED  BY <2>1 DEF CallBegin, Typed, FillTypeOK
<1>. QED  BY <1>1, <1>2, <1>3, <1>4

\* Without another call, only the worker's commit changes a sum, and only
\* that of the record at work.
LEMMA SumsOfThePast ==
  ASSUME Typed, PaidInv, FillNext, calls' = 0
  PROVE  \A i \in Items : Past(i) => spent'[i] = spent[i]
<1>. USE DEF dbVars, reqVars, itemVars, workerVars, userVars
<1>1. calls = 0
  BY RowsOnlyGrow
<1>2. spent' = spent \/ SaveItem
  BY <1>1 DEF FillNext, FillStart, StartFill, FillStep, SkipItem, BeginItem, ClassFailed, ItemCrashed,
     ClassAnswered, SaveFailed, ReportItem, Summarise, CancelFill, Others, CallBegin,
     CallEnd, Edit, Trash, Restore, Purge, PaidInv
<1>3. CASE SaveItem
  <2>1. ~Past(Item) /\ Item \in Items
    BY <1>3, ItemIsAhead DEF SaveItem, AtWork
  <2>. QED  BY <1>3, <2>1 DEF SaveItem, Typed, FillTypeOK
<1>. QED  BY <1>2, <1>3

LEMMA DonesStep ==
  ASSUME Typed, Typed', PaidInv, DonesInv, FillNext
  PROVE  DonesInv'
<1>. USE DEF dbVars, reqVars, itemVars, workerVars, userVars
<1>1. ASSUME NEW e \in Event, DoneOK(e)
      PROVE  DoneOK(e)'
  <2>1. e.updated \subseteq Classes /\ e.tokens \in Nat /\ e.item \in Items /\ Past(e.item)
    BY <1>1, EventSet DEF DoneOK
  <2>2. Past(e.item)'
    BY <2>1, RowsOnlyGrow
  <2>3. IsSaved(e) => IsSaved(e)'
    BY <2>1, RowsOnlyGrow DEF IsSaved
  <2>4. calls' = 0 => row'[e.item] = "gone" \/ e.tokens <= spent'[e.item]
    BY <1>1, <2>1, RowsOnlyGrow, SumsOfThePast DEF DoneOK
  <2>. QED  BY <1>1, <2>1, <2>2, <2>3, <2>4 DEF DoneOK
<1>2. ASSUME NEW e \in Event, ReportItem, e.item = Item, e.updated = updated, e.tokens = got
      PROVE  DoneOK(e)'
  <2>1. Item \in Items /\ pc \in {"committed", "filled"}
    BY <1>2, TypedPlace DEF ReportItem, AtWork
  <2>2. \A i : Past(i)' <=> (Past(i) \/ i = Item)
    <3>1. pc \in AtWork /\ Advance /\ ids' = ids
      BY <1>2, <2>1 DEF ReportItem, AtWork
    <3>. QED  BY <3>1, AdvanceTyped
  <2>3. UNCHANGED <<row, field, spent, calls>>
    BY <1>2 DEF ReportItem
  <2>4. got > 0 => pc = "committed"
    BY <1>2 DEF ReportItem
  <2>5. got > 0 => IsSaved(e)
    BY <1>2, <2>4 DEF PaidInv, IsSaved
  <2>6. calls = 0 => got <= spent[Item]
    <3>1. spent[Item] \in Nat /\ got \in Nat
      BY <2>1 DEF Typed, FillTypeOK
    <3>. QED  BY <2>4, <3>1 DEF PaidInv
  <2>7. e.item \in Items /\ Past(e.item)'
    BY <1>2, <2>1, <2>2
  <2>8. e.tokens > 0 => IsSaved(e)'
    BY <1>2, <2>3, <2>5 DEF IsSaved
  <2>9. calls' = 0 => e.tokens <= spent'[e.item]
    BY <1>2, <2>3, <2>6
  <2>. QED  BY <2>7, <2>8, <2>9 DEF DoneOK
<1>3. ASSUME NEW e \in Event, Logged(e)', e.type = "item_done"
      PROVE  DoneOK(e)'
  BY <1>1, <1>2, <1>3, OnlyReports DEF DonesInv
<1>. QED  BY <1>3 DEF DonesInv

LEMMA PaidStep ==
  ASSUME Typed, Typed', SessionInv, PaidInv, FillNext
  PROVE  PaidInv'
<1>. USE DEF dbVars, reqVars, itemVars, workerVars, userVars
<1>1. CASE SkipItem \/ ItemCrashed \/ ReportItem
  <2>1. pc' \in {"next", "summary"}
    BY <1>1 DEF SkipItem, ItemCrashed, ReportItem, Advance
  <2>2. UNCHANGED <<call, calls, spent, billed>>
    BY <1>1 DEF SkipItem, ItemCrashed, ReportItem
  <2>. QED  BY <2>1, <2>2 DEF PaidInv
<1>2. CASE SaveFailed \/ CancelFill \/ Summarise
  <2>1. pc' = "ended" /\ UNCHANGED <<call, calls, spent, billed>>
    BY <1>2 DEF SaveFailed, CancelFill, Summarise, EndJob
  <2>. QED  BY <2>1 DEF PaidInv
<1>3. CASE BeginItem
  <2>1. Item \in Items
    BY <1>3, TypedPlace DEF BeginItem, AtWork
  <2>2. /\ pc' = "calling" /\ updated' = {} /\ got' = 0 /\ base' = spent[Item]
        /\ UNCHANGED <<call, calls, spent, billed, ids, idx>>
    BY <1>3 DEF BeginItem
  <2>3. spent[Item] \in Nat /\ spent[Item] <= billed[Item]
    BY <2>1 DEF PaidInv, Typed, FillTypeOK
  <2>4. updated' \subseteq dirty'[Item'] /\ base' + got' <= billed'[Item']
    BY <2>2, <2>3 DEF Item
  <2>. QED  BY <2>2, <2>4 DEF PaidInv
<1>4. CASE ClassFailed
  <2>1. pc = "calling" /\ pc' \in {"calling", "filled"}
    BY <1>4, NextClassTyped DEF ClassFailed
  <2>2. UNCHANGED <<updated, dirty, base, got, billed, call, calls, spent, ids, idx>>
    BY <1>4 DEF ClassFailed
  <2>. QED  BY <2>1, <2>2 DEF PaidInv, Item
<1>5. ASSUME NEW usable \in BOOLEAN, NEW tokens \in Usages, ClassAnswered(usable, tokens)
      PROVE  PaidInv'
  <2>1. pc = "calling" /\ pc' \in {"calling", "filled"} /\ tokens \in Nat
    BY <1>5, NextClassTyped, BulkFillAssumption DEF ClassAnswered
  <2>2. Item \in Items
    BY <2>1, TypedPlace DEF AtWork
  <2>3. /\ base' = base /\ got' = got + tokens /\ base \in Nat /\ got \in Nat
        /\ UNCHANGED <<call, calls, spent, ids, idx>>
    BY <1>5 DEF ClassAnswered, Typed, FillTypeOK
  <2>4. /\ billed[Item] \in Nat /\ billed'[Item] = billed[Item] + tokens
        /\ \A i \in Items : billed[i] \in Nat /\ billed'[i] \in Nat /\ billed'[i] >= billed[i]
    BY SMTT(30), <1>5, <2>1, <2>2 DEF ClassAnswered, Typed, FillTypeOK
  <2>5. updated' \subseteq dirty'[Item]
    <3>1. updated \subseteq dirty[Item] /\ dirty \in [Items -> SUBSET Classes]
      BY <2>1 DEF PaidInv, Typed, FillTypeOK
    <3>2. \/ /\ dirty' = [dirty EXCEPT ![Item] = dirty[Item] \cup {Class}]
             /\ updated' = updated \cup {Class}
          \/ UNCHANGED <<dirty, updated>>
      BY <1>5 DEF ClassAnswered
    <3>. QED  BY <2>2, <3>1, <3>2
  <2>6. Item' = Item
    BY <2>3 DEF Item
  <2>7. base + got <= billed[Item]
    BY <2>1 DEF PaidInv
  <2>8. base' + got' <= billed'[Item]
    BY <2>3, <2>4, <2>7, <2>1
  <2>9. call'.item # None => call'.base <= billed'[call'.item]
    <3>1. call.item \in Items \cup {None} /\ call.base \in Nat
      BY DEF Typed, FillTypeOK
    <3>. QED  BY <2>3, <2>4, <3>1 DEF PaidInv
  <2>10. \A i \in Items : spent'[i] <= billed'[i]
    <3>1. \A i \in Items : spent[i] \in Nat /\ spent[i] <= billed[i]
      BY DEF PaidInv, Typed, FillTypeOK
    <3>. QED  BY <2>3, <2>4, <3>1
  <2>11. calls' = 0 => call'.item = None
    BY <2>3 DEF PaidInv
  <2>. QED  BY <2>1, <2>5, <2>6, <2>8, <2>9, <2>10, <2>11 DEF PaidInv
<1>6. CASE SaveItem
  <2>1. pc = "filled" /\ pc' = "committed" /\ UNCHANGED <<call, calls, billed, ids, idx, updated, base, got>>
    BY <1>6 DEF SaveItem
  <2>2. Item \in Items /\ Item' = Item
    BY <2>1, TypedPlace DEF AtWork, Item
  <2>3. /\ spent'[Item] = base + got /\ base \in Nat /\ got \in Nat
        /\ \A i \in Items : i # Item => spent'[i] = spent[i]
    BY <1>6, <2>2 DEF SaveItem, Typed, FillTypeOK
  <2>4. \A c \in updated : field'[Item][c] # "empty"
    <3>1. \A c \in updated : c \in Classes /\ c \in dirty[Item]
      BY <2>1 DEF PaidInv, Typed, FillTypeOK
    <3>. QED  BY <1>6, <2>2, <3>1 DEF SaveItem
  <2>5. base + got <= billed[Item]
    BY <2>1 DEF PaidInv
  <2>6. \A i \in Items : spent'[i] <= billed'[i]
    BY <2>1, <2>3, <2>5 DEF PaidInv
  <2>7. got' <= spent'[Item]
    BY <2>1, <2>3
  <2>. QED  BY <2>1, <2>2, <2>4, <2>6, <2>7 DEF PaidInv
<1>7. CASE FillStart
  <2>1. pc' = "next" /\ UNCHANGED <<call, calls, spent, billed>>
    BY <1>7 DEF FillStart, StartFill
  <2>. QED  BY <2>1 DEF PaidInv
<1>8. CASE Others
  <2>1. /\ UNCHANGED <<ids, idx, pc, dirty, updated, base, got>>
        /\ Item' = Item
    BY <1>8 DEF Others, Trash, Restore, Purge, CallBegin, CallEnd, Edit, Item
  <2>2. pc \in {"calling", "filled", "committed"} => Item \in Items
    BY TypedPlace DEF AtWork
  <2>3. pc = "committed" => \A c \in updated : field'[Item][c] # "empty"
    <3>1. updated \subseteq Classes
      BY DEF Typed, FillTypeOK
    <3>. QED  BY <2>2, <3>1, RowsOnlyGrow DEF PaidInv
  <2>4. CASE UNCHANGED <<call, calls, spent, billed>>
    BY <2>1, <2>3, <2>4 DEF PaidInv
  <2>5. ASSUME NEW i \in Items, CallBegin(i)
        PROVE  PaidInv'
    <3>1. /\ call'.item = i /\ call'.base = spent[i] /\ calls' = calls + 1 /\ calls \in Nat
          /\ UNCHANGED <<spent, billed>>
      BY <2>5 DEF CallBegin, Typed, FillTypeOK
    <3>. QED  BY <2>1, <2>3, <3>1 DEF PaidInv
  <2>6. CASE CallEnd
    <3>1. call.item \in Items /\ call.base \in Nat /\ call.base <= billed[call.item] /\ calls # 0
      BY <2>6 DEF CallEnd, PaidInv, Typed, FillTypeOK
    <3>2. /\ billed'[call.item] = billed[call.item] + 1
          /\ \A i \in Items : billed[i] \in Nat /\ billed'[i] \in Nat /\ billed'[i] >= billed[i]
      BY <2>6, <3>1 DEF CallEnd, Typed, FillTypeOK
    <3>3. /\ \A i \in Items : i # call.item => spent'[i] = spent[i]
          /\ spent'[call.item] = spent[call.item] \/ spent'[call.item] = call.base + 1
      BY <2>6, <3>1 DEF CallEnd, Typed, FillTypeOK
    <3>4. \A i \in Items : spent[i] \in Nat /\ spent[i] <= billed[i]
      BY DEF PaidInv, Typed, FillTypeOK
    <3>5. \A i \in Items : spent'[i] <= billed'[i]
      <4>1. spent'[call.item] <= billed'[call.item]
        BY <3>1, <3>2, <3>3, <3>4
      <4>. QED  BY <3>2, <3>3, <3>4, <4>1
    <3>6. call'.item = None /\ calls' = calls
      BY <2>6 DEF CallEnd
    <3>7. pc \in {"calling", "filled"} => base + got <= billed'[Item]
      <4>1. base \in Nat /\ got \in Nat
        BY DEF Typed, FillTypeOK
      <4>. QED  BY <2>2, <3>2, <4>1 DEF PaidInv
    <3>. QED  BY <2>1, <2>3, <3>1, <3>5, <3>6, <3>7 DEF PaidInv
  <2>. QED  BY <1>8, <2>4, <2>5, <2>6 DEF Others, Trash, Restore, Purge, Edit
<1>. QED  BY <1>1, <1>2, <1>3, <1>4, <1>5, <1>6, <1>7, <1>8 DEF FillNext, FillStep

LEMMA PaidAlways == Spec => [](Typed /\ SessionInv /\ PaidInv /\ DonesInv)
<1>1. FillInit => PaidInv /\ DonesInv
  <2>. SUFFICES ASSUME FillInit
                PROVE  PaidInv /\ DonesInv
    OBVIOUS
  <2>1. DOMAIN log = {} /\ \A i \in Items : spent[i] = 0 /\ billed[i] = 0
    BY DEF FillInit
  <2>. QED  BY <2>1 DEF FillInit, PaidInv, DonesInv, Logged
<1>2. PaidInv /\ DonesInv /\ UNCHANGED fillVars => PaidInv' /\ DonesInv'
  <2>. SUFFICES ASSUME PaidInv, DonesInv, UNCHANGED fillVars
                PROVE  PaidInv' /\ DonesInv'
    OBVIOUS
  <2>. USE DEF fillVars, dbVars, workerVars, reqVars, itemVars, userVars
  <2>1. PaidInv'
    BY DEF PaidInv, Item
  <2>2. DonesInv'
    BY DEF DonesInv, DoneOK, Logged, Past, IsSaved
  <2>. QED  BY <2>1, <2>2
<1>3. Typed /\ Typed' /\ SessionInv /\ PaidInv /\ DonesInv /\ [FillNext]_fillVars => PaidInv' /\ DonesInv'
  BY <1>2, PaidStep, DonesStep
<1>. QED  BY <1>1, <1>3, SessionAlways, PTL DEF Spec

\* With the tokens it took, an item_done is saved and charged; what is charged
\* was billed.
THEOREM PaidSavedCharged == Spec => []PaidIsSavedAndCharged
<1>1. Typed /\ PaidInv /\ DonesInv => PaidIsSavedAndCharged
  <2>. SUFFICES ASSUME Typed, PaidInv, DonesInv
                PROVE  PaidIsSavedAndCharged
    OBVIOUS
  <2>1. \A n \in DOMAIN log : log[n] \in Event /\ Logged(log[n])
    BY DEF Typed, FillTypeOK, Logged
  <2>2. \A n \in DOMAIN log : log[n].type = "item_done" => DoneOK(log[n])
    BY <2>1 DEF DonesInv
  <2>. QED  BY <2>2 DEF PaidInv, DoneOK, PaidIsSavedAndCharged, ChargesAddUp
<1>. QED  BY <1>1, PaidAlways, PTL

-----------------------------------------------------------------------------
(* Counting in a log                                                       *)

LEMMA LeastNat ==
  ASSUME NEW S \in SUBSET Nat, S # {}
  PROVE  \E m \in S : \A n \in S : m <= n
<1>1. IsWellFoundedOn(OpToRel(<, Nat), Nat)
  BY NatLessThanWellFounded
<1>2. PICK m \in S : \A n \in S : ~(<<n, m>> \in OpToRel(<, Nat))
  BY <1>1, WFMin
<1>3. \A n \in S : ~(n < m)
  BY <1>2 DEF OpToRel
<1>. QED  BY <1>3

Tokens(e) == IF e.type = "item_done" THEN e.tokens ELSE 0

\* What Reported computes: each place adds the tokens of its item_done.
SumsUp(f, l, k) ==
  f = [n \in 0..k |-> IF n = 0 THEN 0 ELSE f[n - 1] + Tokens(l[n])]

\* There is such a function for every log: a least length without one would
\* extend the one before it.
LEMMA SumsExist ==
  ASSUME NEW l, NEW k \in Nat
  PROVE  \E f : SumsUp(f, l, k)
<1>. DEFINE Bad == {n \in Nat : ~\E f : SumsUp(f, l, n)}
<1>. SUFFICES ASSUME Bad # {}
              PROVE  FALSE
  OBVIOUS
<1>1. PICK m \in Bad : \A n \in Bad : m <= n
  BY LeastNat
<1>2. m \in Nat /\ ~\E f : SumsUp(f, l, m)
  BY <1>1
<1>. HIDE DEF Bad
<1>3. CASE m = 0
  <2>. DEFINE f == [n \in 0..m |-> 0]
  <2>1. f = [n \in 0..m |-> IF n = 0 THEN 0 ELSE f[n - 1] + Tokens(l[n])]
    BY <1>3
  <2>. HIDE DEF f
  <2>. QED  BY <1>2, <2>1 DEF SumsUp
<1>4. CASE m > 0
  <2>1. m - 1 \in Nat
    BY <1>2, <1>4
  <2>2. m - 1 \notin Bad
    BY <1>1, <1>2, <2>1
  <2>3. PICK f : SumsUp(f, l, m - 1)
    BY <2>1, <2>2 DEF Bad
  <2>4. \A n \in 0..(m - 1) : f[n] = IF n = 0 THEN 0 ELSE f[n - 1] + Tokens(l[n])
    BY <2>3 DEF SumsUp
  <2>. DEFINE g == [n \in 0..m |-> IF n = m THEN f[m - 1] + Tokens(l[m]) ELSE f[n]]
  <2>5. \A n \in 0..m : n = m \/ n \in 0..(m - 1)
    BY <1>2
  <2>6. \A n \in 0..m : g[n] = IF n = 0 THEN 0 ELSE g[n - 1] + Tokens(l[n])
    <3>1. g[m] = f[m - 1] + Tokens(l[m]) /\ \A n \in 0..(m - 1) : g[n] = f[n]
      BY <1>2
    <3>2. g[m - 1] = f[m - 1]
      BY <1>2, <1>4, <3>1
    <3>3. \A n \in 0..(m - 1) : n # 0 => n - 1 \in 0..(m - 1)
      BY <1>2
    <3>. HIDE DEF g
    <3>4. \A n \in 0..(m - 1) : g[n] = IF n = 0 THEN 0 ELSE g[n - 1] + Tokens(l[n])
      BY <2>4, <3>1, <3>3
    <3>. QED  BY <1>4, <2>5, <3>1, <3>2, <3>4
  <2>7. SumsUp(g, l, m)
    <3>1. g = [n \in 0..m |-> g[n]]
      OBVIOUS
    <3>. HIDE DEF g
    <3>. QED  BY <2>6, <3>1 DEF SumsUp
  <2>. QED  BY <1>2, <2>7
<1>. QED  BY <1>2, <1>3, <1>4

SameUpTo(l, k, m) == \A x \in 1..m : k[x] = l[x]

\* And two of them agree as far as their logs do.
LEMMA SumsAgree ==
  ASSUME NEW l, NEW k, NEW m \in Nat, NEW n \in Nat, m <= n,
         SameUpTo(l, k, m),
         NEW f, NEW g, SumsUp(f, l, m), SumsUp(g, k, n)
  PROVE  \A x \in 0..m : g[x] = f[x]
<1>. DEFINE Bad == {x \in 0..m : g[x] # f[x]}
<1>. SUFFICES ASSUME Bad # {}
              PROVE  FALSE
  OBVIOUS
<1>1. PICK x \in Bad : \A y \in Bad : x <= y
  <2>1. Bad \in SUBSET Nat
    OBVIOUS
  <2>. HIDE DEF Bad
  <2>. QED  BY <2>1, LeastNat
<1>2. x \in 0..m /\ g[x] # f[x]
  BY <1>1
<1>3. \A y \in 0..m : y < x => g[y] = f[y]
  BY <1>1, <1>2
<1>. HIDE DEF Bad
<1>4. f[x] = IF x = 0 THEN 0 ELSE f[x - 1] + Tokens(l[x])
  BY <1>2 DEF SumsUp
<1>5. g[x] = IF x = 0 THEN 0 ELSE g[x - 1] + Tokens(k[x])
  <2>1. x \in 0..n
    BY <1>2
  <2>. QED  BY <2>1 DEF SumsUp
<1>6. CASE x = 0
  BY <1>2, <1>4, <1>5, <1>6
<1>7. CASE x # 0
  <2>1. x - 1 \in 0..m /\ x - 1 < x /\ x \in 1..m
    BY <1>2, <1>7
  <2>2. g[x - 1] = f[x - 1] /\ k[x] = l[x]
    BY <1>3, <2>1 DEF SameUpTo
  <2>. QED  BY <1>2, <1>4, <1>5, <1>7, <2>2
<1>. QED  BY <1>6, <1>7

LEMMA ReportedSums ==
  ASSUME NEW l \in Seq(Event)
  PROVE  SumsUp(Reported(l), l, Len(l))
<1>1. Len(l) \in Nat
  OBVIOUS
<1>2. PICK f : SumsUp(f, l, Len(l))
  BY <1>1, SumsExist
<1>3. f = [n \in 0..Len(l) |-> IF n = 0 THEN 0
                               ELSE f[n - 1] + (IF l[n].type = "item_done" THEN l[n].tokens ELSE 0)]
  BY <1>2 DEF SumsUp, Tokens
<1>4. Reported(l) = [n \in 0..Len(l) |-> IF n = 0 THEN 0
                       ELSE Reported(l)[n - 1] + (IF l[n].type = "item_done" THEN l[n].tokens ELSE 0)]
  BY <1>3 DEF Reported
<1>. QED  BY <1>4 DEF SumsUp, Tokens

LEMMA ReportedAgrees ==
  ASSUME NEW l \in Seq(Event), NEW k \in Seq(Event), Len(l) <= Len(k),
         \A x \in 1..Len(l) : k[x] = l[x]
  PROVE  \A x \in 0..Len(l) : Reported(k)[x] = Reported(l)[x]
<1>1. PICK m \in Nat, n \in Nat : m = Len(l) /\ n = Len(k)
  OBVIOUS
<1>2. m <= n /\ SameUpTo(l, k, m)
  BY <1>1 DEF SameUpTo
<1>3. PICK f, g : f = Reported(l) /\ g = Reported(k)
  OBVIOUS
<1>4. SumsUp(f, l, m) /\ SumsUp(g, k, n)
  BY <1>1, <1>3, ReportedSums
<1>5. \A x \in 0..m : g[x] = f[x]
  BY <1>2, <1>4, SumsAgree
<1>. QED  BY <1>1, <1>3, <1>5

OutcomesOf(l, n) == Cardinality({m \in 1..n : l[m].type \in Outcomes})
UpdatesOf(l, n) ==
  Cardinality({m \in 1..n : l[m].type = "item_done" /\ l[m].updated # {}})

\* A set of places up to n + 1 has one more than its part up to n, or as many.
LEMMA CountUp ==
  ASSUME NEW n \in Nat, NEW S \in SUBSET (1..(n + 1))
  PROVE  /\ Cardinality(S) \in Nat /\ Cardinality(S \cap 1..n) \in Nat
         /\ Cardinality(S) = Cardinality(S \cap 1..n) + (IF n + 1 \in S THEN 1 ELSE 0)
<1>1. IsFiniteSet(1..(n + 1)) /\ IsFiniteSet(1..n)
  BY FS_Interval
<1>2. IsFiniteSet(S) /\ IsFiniteSet(S \cap 1..n)
  <2>1. S \cap 1..n \in SUBSET (1..n)
    OBVIOUS
  <2>. QED  BY <1>1, <2>1, FS_Subset
<1>3. Cardinality(S) \in Nat /\ Cardinality(S \cap 1..n) \in Nat
  BY <1>2, FS_CardinalityType
<1>4. \A x \in S : x \in 1..n \/ x = n + 1
  OBVIOUS
<1>5. CASE n + 1 \in S
  <2>1. n + 1 \notin S \cap 1..n
    OBVIOUS
  <2>2. S = (S \cap 1..n) \cup {n + 1}
    BY <1>4, <1>5
  <2>. QED  BY <1>2, <1>3, <1>5, <2>1, <2>2, FS_AddElement
<1>6. CASE n + 1 \notin S
  <2>1. S = S \cap 1..n
    BY <1>4, <1>6
  <2>. QED  BY <1>3, <1>6, <2>1
<1>. QED  BY <1>3, <1>5, <1>6

\* What one more event changes in the counts of a log.
Grows(l, e, k) ==
  /\ k \in Seq(Event) /\ Len(l) \in Nat /\ Len(k) = Len(l) + 1 /\ k[Len(k)] = e
  /\ \A n \in 1..Len(l) : k[n] = l[n]
  /\ \A n \in 1..Len(l) : OutcomesOf(k, n) = OutcomesOf(l, n)
  /\ \A n \in 1..Len(l) : UpdatesOf(k, n) = UpdatesOf(l, n)
  /\ \A n \in 1..Len(l) : Reported(k)[n] = Reported(l)[n]
  /\ OutcomesOf(l, Len(l)) \in Nat /\ UpdatesOf(l, Len(l)) \in Nat
  /\ OutcomesOf(k, Len(k)) = OutcomesOf(l, Len(l)) + (IF e.type \in Outcomes THEN 1 ELSE 0)
  /\ UpdatesOf(k, Len(k)) = UpdatesOf(l, Len(l))
                                   + (IF e.type = "item_done" /\ e.updated # {} THEN 1 ELSE 0)
  /\ Reported(k)[Len(k)] = Reported(l)[Len(l)] + Tokens(e)

LEMMA LogGrows ==
  ASSUME NEW l \in Seq(Event), NEW e \in Event, NEW k, k = Append(l, e)
  PROVE  Grows(l, e, k)
<1>1. /\ k \in Seq(Event) /\ Len(l) \in Nat /\ Len(k) = Len(l) + 1 /\ k[Len(l) + 1] = e
      /\ \A n \in 1..Len(l) : k[n] = l[n]
  OBVIOUS
<1>2. /\ \A n \in 1..Len(l) : OutcomesOf(k, n) = OutcomesOf(l, n)
      /\ \A n \in 1..Len(l) : UpdatesOf(k, n) = UpdatesOf(l, n)
  <2>1. ASSUME NEW n \in 1..Len(l)
        PROVE  /\ {m \in 1..n : k[m].type \in Outcomes} = {m \in 1..n : l[m].type \in Outcomes}
               /\ {m \in 1..n : k[m].type = "item_done" /\ k[m].updated # {}}
                    = {m \in 1..n : l[m].type = "item_done" /\ l[m].updated # {}}
    <3>1. \A m \in 1..n : k[m] = l[m]
      BY <1>1
    <3>. QED  BY <3>1
  <2>. QED  BY <2>1 DEF OutcomesOf, UpdatesOf
<1>3. \A x \in 0..Len(l) : Reported(k)[x] = Reported(l)[x]
  <2>1. Len(l) \in Nat /\ Len(k) \in Nat /\ Len(l) <= Len(k)
    BY <1>1
  <2>. QED  BY <1>1, <2>1, ReportedAgrees
<1>4. Reported(k)[Len(k)] = Reported(l)[Len(l)] + Tokens(e)
  <2>1. SumsUp(Reported(k), k, Len(k))
    BY <1>1, ReportedSums
  <2>2. /\ Len(k) \in 0..Len(k) /\ Len(k) # 0 /\ Len(k) - 1 = Len(l) /\ k[Len(k)] = e
        /\ Len(l) \in 0..Len(l)
    BY <1>1
  <2>3. Reported(k)[Len(k)] = Reported(k)[Len(k) - 1] + Tokens(k[Len(k)])
    BY <2>1, <2>2 DEF SumsUp
  <2>4. Reported(k)[Len(l)] = Reported(l)[Len(l)]
    BY <1>3, <2>2
  <2>. QED  BY <2>2, <2>3, <2>4
<1>5. /\ OutcomesOf(l, Len(l)) \in Nat
      /\ OutcomesOf(k, Len(k)) = OutcomesOf(l, Len(l)) + (IF e.type \in Outcomes THEN 1 ELSE 0)
  <2>. DEFINE S == {m \in 1..(Len(l) + 1) : k[m].type \in Outcomes}
  <2>1. S \cap 1..Len(l) = {m \in 1..Len(l) : l[m].type \in Outcomes}
    BY <1>1
  <2>2. Len(l) + 1 \in S <=> e.type \in Outcomes
    BY <1>1
  <2>3. S \in SUBSET (1..(Len(l) + 1))
    OBVIOUS
  <2>4. OutcomesOf(k, Len(k)) = Cardinality(S) /\ OutcomesOf(l, Len(l)) = Cardinality(S \cap 1..Len(l))
    BY <1>1, <2>1 DEF OutcomesOf
  <2>. HIDE DEF S
  <2>. QED  BY <1>1, <2>2, <2>3, <2>4, CountUp
<1>6. /\ UpdatesOf(l, Len(l)) \in Nat
      /\ UpdatesOf(k, Len(k)) = UpdatesOf(l, Len(l))
                                  + (IF e.type = "item_done" /\ e.updated # {} THEN 1 ELSE 0)
  <2>. DEFINE S == {m \in 1..(Len(l) + 1) : k[m].type = "item_done" /\ k[m].updated # {}}
  <2>1. S \cap 1..Len(l) = {m \in 1..Len(l) : l[m].type = "item_done" /\ l[m].updated # {}}
    BY <1>1
  <2>2. Len(l) + 1 \in S <=> e.type = "item_done" /\ e.updated # {}
    BY <1>1
  <2>3. S \in SUBSET (1..(Len(l) + 1))
    OBVIOUS
  <2>4. UpdatesOf(k, Len(k)) = Cardinality(S) /\ UpdatesOf(l, Len(l)) = Cardinality(S \cap 1..Len(l))
    BY <1>1, <2>1 DEF UpdatesOf
  <2>. HIDE DEF S
  <2>. QED  BY <1>1, <2>2, <2>3, <2>4, CountUp
<1>7. \A n \in 1..Len(l) : Reported(k)[n] = Reported(l)[n]
  BY <1>3
<1>8. Len(k) = Len(l) + 1 /\ k[Len(k)] = e
  BY <1>1
<1>. QED  BY <1>1, <1>2, <1>4, <1>5, <1>6, <1>7, <1>8 DEF Grows

-----------------------------------------------------------------------------
(* What the log tells                                                      *)

\* What an event at place n of the log promises.
Tells(n) ==
  /\ log[n].type = "done" =>
       log[n].count = UpdatesOf(log, n) /\ log[n].tokens = Reported(log)[n]
  /\ log[n].type \in Outcomes =>
       /\ OutcomesOf(log, n) \in DOMAIN ids
       /\ log[n].item = ids[OutcomesOf(log, n)]
  /\ log[n].type \in {"item_done", "item_error"} =>
       /\ n - 1 \in DOMAIN log
       /\ log[n - 1].type = "item_start" /\ log[n - 1].item = log[n].item

\* The log has an outcome for every record behind the worker, and the worker's
\* sums are those of the log.
TellsInv ==
  /\ pc \in AtWork \cup {"summary"} => OutcomesOf(log, Len(log)) + 1 = idx
  /\ pc \in {"calling", "filled", "committed"} =>
       Len(log) >= 1 /\ log[Len(log)].type = "item_start" /\ log[Len(log)].item = Item
  /\ pc # "ended" =>
       /\ sum.tokens = Reported(log)[Len(log)]
       /\ sum.updated = UpdatesOf(log, Len(log))
  /\ \A n \in DOMAIN log : Tells(n)
  /\ job = "completed" => OutcomesOf(log, Len(log)) = Len(ids)

\* An event goes on telling the truth when the log grows.
LEMMA TellsKept ==
  ASSUME Typed, NEW e \in Event, log' = Append(log, e), ids' = ids
  PROVE  \A n \in DOMAIN log : Tells(n) => Tells(n)'
<1>. SUFFICES ASSUME NEW n \in DOMAIN log, Tells(n)
              PROVE  Tells(n)'
  OBVIOUS
<1>1. log \in Seq(Event) /\ DOMAIN log = 1..Len(log) /\ Len(log) \in Nat /\ DOMAIN log' = 1..(Len(log) + 1)
  BY Appended DEF Typed, FillTypeOK
<1>2. /\ log'[n] = log[n]
      /\ OutcomesOf(log', n) = OutcomesOf(log, n) /\ UpdatesOf(log', n) = UpdatesOf(log, n)
      /\ Reported(log')[n] = Reported(log)[n]
      /\ \A m \in DOMAIN log : log'[m] = log[m] /\ m \in DOMAIN log'
  <2>1. Grows(log, e, log')
    BY <1>1, LogGrows
  <2>. QED  BY <1>1, <2>1 DEF Grows
<1>3. log'[n].type = "done" => log'[n].count = UpdatesOf(log', n) /\ log'[n].tokens = Reported(log')[n]
  BY <1>2 DEF Tells
<1>4. log'[n].type \in Outcomes =>
        OutcomesOf(log', n) \in DOMAIN ids' /\ log'[n].item = ids'[OutcomesOf(log', n)]
  BY <1>2 DEF Tells
<1>5. log'[n].type \in {"item_done", "item_error"} =>
        n - 1 \in DOMAIN log' /\ log'[n - 1].type = "item_start" /\ log'[n - 1].item = log'[n].item
  BY <1>2 DEF Tells
<1>. QED  BY <1>3, <1>4, <1>5 DEF Tells

\* The step that appends e: what holds of the old log, and of the new place.
LEMMA TellsAppend ==
  ASSUME Typed, TellsInv, NEW e \in Event, log' = Append(log, e), ids' = ids,
         e.type = "done" => e.count = UpdatesOf(log, Len(log)) /\ e.tokens = Reported(log)[Len(log)],
         e.type \in Outcomes => pc \in AtWork /\ e.item = Item,
         e.type \in {"item_done", "item_error"} => pc \in {"calling", "filled", "committed"}
  PROVE  \A n \in DOMAIN log' : Tells(n)'
<1>1. /\ log \in Seq(Event) /\ DOMAIN log = 1..Len(log) /\ Len(log) \in Nat
      /\ DOMAIN log' = 1..(Len(log) + 1)
  BY Appended DEF Typed, FillTypeOK
<1>2. PICK m : m = Len(log) + 1
  OBVIOUS
<1>3. /\ log'[m] = e /\ m = Len(log')
      /\ OutcomesOf(log, Len(log)) \in Nat /\ UpdatesOf(log, Len(log)) \in Nat
      /\ OutcomesOf(log', m) = OutcomesOf(log, Len(log)) + (IF e.type \in Outcomes THEN 1 ELSE 0)
      /\ UpdatesOf(log', m) = UpdatesOf(log, Len(log))
                                + (IF e.type = "item_done" /\ e.updated # {} THEN 1 ELSE 0)
      /\ Reported(log')[m] = Reported(log)[Len(log)] + Tokens(e)
  <2>1. Grows(log, e, log')
    BY <1>1, LogGrows
  <2>. QED  BY <1>1, <1>2, <2>1 DEF Grows
<1>4. log'[m].type = "done" => log'[m].count = UpdatesOf(log', m) /\ log'[m].tokens = Reported(log')[m]
  <2>. SUFFICES ASSUME e.type = "done"
                PROVE  e.count = UpdatesOf(log', m) /\ e.tokens = Reported(log')[m]
    BY <1>3
  <2>1. e.tokens \in Nat /\ Tokens(e) = 0
    BY EventSet DEF Tokens
  <2>. QED  BY <1>3, <2>1
<1>5. log'[m].type \in Outcomes => OutcomesOf(log', m) \in DOMAIN ids' /\ log'[m].item = ids'[OutcomesOf(log', m)]
  <2>. SUFFICES ASSUME e.type \in Outcomes
                PROVE  OutcomesOf(log', m) \in DOMAIN ids /\ e.item = ids[OutcomesOf(log', m)]
    BY <1>3
  <2>1. pc \in AtWork /\ e.item = ids[idx] /\ idx \in DOMAIN ids
    BY DEF Item, Typed, PlaceInv
  <2>2. OutcomesOf(log', m) = idx
    BY <1>3, <2>1 DEF TellsInv
  <2>. QED  BY <2>1, <2>2
<1>6. log'[m].type \in {"item_done", "item_error"} =>
        m - 1 \in DOMAIN log' /\ log'[m - 1].type = "item_start" /\ log'[m - 1].item = log'[m].item
  <2>. SUFFICES ASSUME e.type \in {"item_done", "item_error"}
                PROVE  m - 1 \in DOMAIN log' /\ log'[m - 1].type = "item_start" /\ log'[m - 1].item = e.item
    BY <1>3
  <2>1. Len(log) >= 1 /\ log[Len(log)].type = "item_start" /\ log[Len(log)].item = Item /\ e.item = Item
    BY DEF TellsInv, Outcomes
  <2>2. m - 1 = Len(log) /\ Len(log) \in 1..Len(log)
    BY <1>1, <1>2, <2>1
  <2>3. log'[Len(log)] = log[Len(log)]
    BY <2>2, Appended
  <2>. QED  BY <1>1, <2>1, <2>2, <2>3
<1>7. Tells(m)'
  BY <1>4, <1>5, <1>6 DEF Tells
<1>8. \A n \in DOMAIN log : Tells(n)'
  BY TellsKept DEF TellsInv
<1>9. \A n \in DOMAIN log' : n \in DOMAIN log \/ n = m
  BY <1>1, <1>2
<1>. QED  BY <1>7, <1>8, <1>9

\* A record is done with.
LEMMA TellsAdvance ==
  ASSUME Typed, TellsInv, pc \in AtWork, Advance, UNCHANGED <<ids, job>>,
         NEW e \in Event, log' = Append(log, e), e.type \in Outcomes, e.item = Item,
         e.type \in {"item_done", "item_error"} => pc \in {"calling", "filled", "committed"},
         IF e.type = "item_done"
         THEN /\ sum'.tokens = sum.tokens + e.tokens
              /\ sum'.updated = sum.updated + (IF e.updated # {} THEN 1 ELSE 0)
         ELSE sum' = sum
  PROVE  TellsInv'
<1>1. log \in Seq(Event) /\ idx' = idx + 1 /\ pc' \in {"next", "summary"} /\ idx \in Nat
  BY AdvanceTyped DEF Typed, FillTypeOK
<1>2. \A n \in DOMAIN log' : Tells(n)'
  <2>1. e.type # "done"
    BY DEF Outcomes
  <2>. QED  BY <2>1, TellsAppend
<1>3. /\ OutcomesOf(log, Len(log)) \in Nat /\ UpdatesOf(log, Len(log)) \in Nat
      /\ OutcomesOf(log', Len(log')) = OutcomesOf(log, Len(log)) + 1
      /\ UpdatesOf(log', Len(log')) = UpdatesOf(log, Len(log))
                                        + (IF e.type = "item_done" /\ e.updated # {} THEN 1 ELSE 0)
      /\ Reported(log')[Len(log')] = Reported(log)[Len(log)] + Tokens(e)
  <2>1. Grows(log, e, log')
    BY <1>1, LogGrows
  <2>2. OutcomesOf(log', Len(log')) = OutcomesOf(log, Len(log)) + (IF e.type \in Outcomes THEN 1 ELSE 0)
    BY <2>1 DEF Grows
  <2>. QED  BY <2>1, <2>2 DEF Grows
<1>4. pc # "ended" /\ job # "completed"
  BY DEF Typed, PlaceInv, AtWork, Over
<1>5. sum'.tokens = Reported(log')[Len(log')]
  <2>1. sum.tokens \in Nat /\ sum.tokens = Reported(log)[Len(log)]
    BY <1>4 DEF Typed, FillTypeOK, TellsInv
  <2>. QED  BY <1>3, <2>1 DEF Tokens
<1>6. sum'.updated = UpdatesOf(log', Len(log'))
  <2>1. sum.updated \in Nat /\ sum.updated = UpdatesOf(log, Len(log))
    BY <1>4 DEF Typed, FillTypeOK, TellsInv
  <2>. QED  BY <1>3, <2>1
<1>7. OutcomesOf(log', Len(log')) + 1 = idx'
  <2>1. OutcomesOf(log, Len(log)) + 1 = idx
    BY DEF TellsInv
  <2>. QED  BY <1>1, <1>3, <2>1
<1>. QED  BY <1>1, <1>2, <1>4, <1>5, <1>6, <1>7 DEF TellsInv

\* The job ends with one event of its own.
LEMMA TellsEndJob ==
  ASSUME Typed, TellsInv, NEW status \in {"failed", "cancelled"}, EndJob(status), ids' = ids
  PROVE  TellsInv'
<1>1. status \in Over
  BY DEF Over
<1>2. PICK e \in Event : e = Ev(status, None) /\ e.type = status
  BY <1>1, EndEvent
<1>3. log' = Append(log, e) /\ pc' = "ended" /\ job' # "completed"
  BY <1>2 DEF EndJob
<1>4. \A n \in DOMAIN log' : Tells(n)'
  BY <1>2, <1>3, TellsAppend DEF Outcomes
<1>. QED  BY <1>3, <1>4 DEF TellsInv, AtWork

LEMMA TellsFrame ==
  ASSUME TellsInv, UNCHANGED <<ids, idx, pc, job, sum, log>>
  PROVE  TellsInv'
<1>1. \A n \in DOMAIN log : Tells(n)'
  BY DEF TellsInv, Tells
<1>. QED  BY <1>1 DEF TellsInv, Item

\* The first event.
LEMMA TellsStart ==
  ASSUME Typed, Typed', TellsInv, FillStart
  PROVE  TellsInv'
<1>. USE DEF dbVars, itemVars, userVars
<1>1. PICK request \in Lists(Items), wanted \in Lists(Classes), overwrite \in BOOLEAN :
        StartFill(request, wanted, overwrite)
  BY DEF FillStart
<1>2. Len(request) \in Nat
  BY ListsAreLists, BulkFillAssumption
<1>3. PICK e \in Event : /\ e = [Ev("start", None) EXCEPT !.count = Len(request)]
                         /\ e.type = "start" /\ e.updated = {} /\ e.tokens = 0
  BY <1>2, StartEvent
<1>4. log = <<>> /\ pc # "ended" /\ sum \in [updated : Nat, tokens : Nat]
  BY <1>1 DEF StartFill, Typed, PlaceInv, Over, FillTypeOK
<1>5. log' = Append(log, e)
  BY <1>1, <1>3, <1>4 DEF StartFill
<1>6. Len(log) = 0 /\ log \in Seq(Event)
  BY <1>4
<1>7. OutcomesOf(log, 0) = 0
  <2>1. {m \in 1..0 : log[m].type \in Outcomes} = {}
    OBVIOUS
  <2>. QED  BY <2>1, FS_EmptySet DEF OutcomesOf
<1>8. /\ OutcomesOf(log', Len(log')) = 0
      /\ UpdatesOf(log', Len(log')) = UpdatesOf(log, 0) /\ UpdatesOf(log, 0) \in Nat
      /\ Reported(log')[Len(log')] = Reported(log)[0] + 0
      /\ Len(log') = 1 /\ log'[1] = e /\ log' \in Seq(Event)
  <2>1. Grows(log, e, log')
    BY <1>5, <1>6, LogGrows
  <2>2. e.type \notin Outcomes /\ e.type # "item_done" /\ Tokens(e) = 0
    BY <1>3 DEF Outcomes, Tokens
  <2>. QED  BY <1>6, <1>7, <2>1, <2>2 DEF Grows
<1>9. sum.tokens = Reported(log)[0] /\ sum.updated = UpdatesOf(log, 0)
  BY <1>4, <1>6 DEF TellsInv
<1>10. sum' = sum /\ idx' = 1 /\ pc' = "next" /\ job' = "running"
  BY <1>1 DEF StartFill
<1>11. \A n \in DOMAIN log' : Tells(n)'
  <2>1. \A n \in DOMAIN log' : log'[n] = e
    BY <1>8
  <2>. QED  BY <1>3, <2>1 DEF Tells, Outcomes
<1>. QED  BY <1>4, <1>8, <1>9, <1>10, <1>11 DEF TellsInv

\* The last two.
LEMMA TellsSummary ==
  ASSUME Typed, TellsInv, Summarise
  PROVE  TellsInv'
<1>. USE DEF dbVars, reqVars, userVars
<1>1. PICK d \in Event, e \in Event :
        /\ log' = log \o <<d, e>>
        /\ d.type = "done" /\ d.tokens = sum.tokens /\ d.count = sum.updated
        /\ e.type = "completed"
  BY SummaryEvents
<1>2. /\ pc = "summary" /\ pc' = "ended" /\ job' = "completed" /\ ids' = ids
      /\ log \in Seq(Event) /\ idx = Len(ids) + 1 /\ Len(ids) \in Nat
  BY TypedPlace DEF Summarise, Typed, PlaceInv, FillTypeOK
<1>3. PICK k : k = Append(log, d)
  OBVIOUS
<1>4. log' = Append(k, e)
  BY <1>1, <1>2, <1>3
<1>5. /\ k \in Seq(Event) /\ Len(k) = Len(log) + 1 /\ k[Len(k)] = d /\ Len(log) \in Nat
      /\ \A n \in 1..Len(log) : k[n] = log[n]
      /\ \A n \in 1..Len(log) : OutcomesOf(k, n) = OutcomesOf(log, n)
      /\ \A n \in 1..Len(log) : UpdatesOf(k, n) = UpdatesOf(log, n)
      /\ \A n \in 1..Len(log) : Reported(k)[n] = Reported(log)[n]
      /\ OutcomesOf(log, Len(log)) \in Nat /\ UpdatesOf(log, Len(log)) \in Nat
      /\ OutcomesOf(k, Len(k)) = OutcomesOf(log, Len(log))
      /\ UpdatesOf(k, Len(k)) = UpdatesOf(log, Len(log))
      /\ Reported(k)[Len(k)] = Reported(log)[Len(log)] + 0
  <2>1. Grows(log, d, k)
    BY <1>2, <1>3, LogGrows
  <2>2. d.type \notin Outcomes /\ d.type # "item_done" /\ Tokens(d) = 0
    BY <1>1 DEF Outcomes, Tokens
  <2>. QED  BY <2>1, <2>2 DEF Grows
<1>6. /\ log' \in Seq(Event) /\ Len(log') = Len(k) + 1 /\ log'[Len(log')] = e
      /\ \A n \in 1..Len(k) : log'[n] = k[n]
      /\ \A n \in 1..Len(k) : OutcomesOf(log', n) = OutcomesOf(k, n)
      /\ \A n \in 1..Len(k) : UpdatesOf(log', n) = UpdatesOf(k, n)
      /\ \A n \in 1..Len(k) : Reported(log')[n] = Reported(k)[n]
      /\ OutcomesOf(k, Len(k)) \in Nat
      /\ OutcomesOf(log', Len(log')) = OutcomesOf(k, Len(k))
  <2>1. Grows(k, e, log')
    BY <1>4, <1>5, LogGrows
  <2>2. e.type \notin Outcomes
    BY <1>1 DEF Outcomes
  <2>. QED  BY <2>1, <2>2 DEF Grows
<1>7. /\ sum.tokens = Reported(log)[Len(log)] /\ sum.updated = UpdatesOf(log, Len(log))
      /\ OutcomesOf(log, Len(log)) + 1 = idx
      /\ sum.tokens \in Nat
  BY <1>2 DEF TellsInv, Typed, FillTypeOK
<1>8. OutcomesOf(log', Len(log')) = Len(ids)
  BY <1>2, <1>5, <1>6, <1>7
<1>9. DOMAIN log = 1..Len(log) /\ DOMAIN log' = 1..(Len(log) + 2)
  BY <1>2, <1>5, <1>6
<1>10. ASSUME NEW n \in DOMAIN log
       PROVE  Tells(n)'
  <2>1. n \in 1..Len(log) /\ n \in 1..Len(k)
    BY <1>5, <1>9
  <2>2. /\ log'[n] = log[n]
        /\ OutcomesOf(log', n) = OutcomesOf(log, n) /\ UpdatesOf(log', n) = UpdatesOf(log, n)
        /\ Reported(log')[n] = Reported(log)[n]
    BY <1>5, <1>6, <2>1
  <2>3. \A m \in DOMAIN log : log'[m] = log[m] /\ m \in DOMAIN log'
    BY <1>5, <1>6, <1>9
  <2>4. Tells(n)
    BY DEF TellsInv
  <2>5. log'[n].type = "done" => log'[n].count = UpdatesOf(log', n) /\ log'[n].tokens = Reported(log')[n]
    BY <2>2, <2>4 DEF Tells
  <2>6. log'[n].type \in Outcomes =>
          OutcomesOf(log', n) \in DOMAIN ids' /\ log'[n].item = ids'[OutcomesOf(log', n)]
    BY <1>2, <2>2, <2>4 DEF Tells
  <2>7. log'[n].type \in {"item_done", "item_error"} =>
          n - 1 \in DOMAIN log' /\ log'[n - 1].type = "item_start" /\ log'[n - 1].item = log'[n].item
    BY <2>2, <2>3, <2>4 DEF Tells
  <2>. QED  BY <2>5, <2>6, <2>7 DEF Tells
<1>11. ASSUME NEW n, n = Len(log) + 1
       PROVE  Tells(n)'
  <2>1. n = Len(k) /\ n \in 1..Len(k)
    BY <1>5, <1>11
  <2>2. log'[n] = d /\ UpdatesOf(log', n) = UpdatesOf(k, n) /\ Reported(log')[n] = Reported(k)[n]
    BY <1>5, <1>6, <2>1
  <2>3. d.count = UpdatesOf(log', n) /\ d.tokens = Reported(log')[n]
    BY <1>1, <1>5, <1>7, <2>1, <2>2
  <2>. QED  BY <1>1, <2>2, <2>3 DEF Tells, Outcomes
<1>12. ASSUME NEW n, n = Len(log) + 2
       PROVE  Tells(n)'
  <2>1. log'[n] = e
    BY <1>5, <1>6, <1>12
  <2>. QED  BY <1>1, <2>1 DEF Tells, Outcomes
<1>13. \A n \in DOMAIN log' : n \in DOMAIN log \/ n = Len(log) + 1 \/ n = Len(log) + 2
  BY <1>5, <1>9
<1>14. \A n \in DOMAIN log' : Tells(n)'
  BY <1>10, <1>11, <1>12, <1>13
<1>. QED  BY <1>2, <1>8, <1>14 DEF TellsInv, AtWork

LEMMA TellsStep ==
  ASSUME Typed, Typed', TellsInv, FillNext
  PROVE  TellsInv'
<1>. USE DEF dbVars, reqVars, itemVars, workerVars, userVars
<1>1. CASE SkipItem
  <2>1. pc \in AtWork /\ Item \in Items
    BY <1>1, TypedPlace DEF SkipItem, AtWork
  <2>2. PICK e \in Event : e = Ev("item_skipped", Item) /\ e.type = "item_skipped" /\ e.item = Item
    <3>1. "item_skipped" \in EventTypes
      BY DEF EventTypes
    <3>. QED  BY <2>1, <3>1, PlainEvent
  <2>3. log' = Append(log, e) /\ Advance /\ UNCHANGED <<ids, job, sum>>
    BY <1>1, <2>2 DEF SkipItem
  <2>. QED  BY <2>1, <2>2, <2>3, TellsAdvance DEF Outcomes
<1>2. CASE BeginItem
  <2>1. Item \in Items /\ pc = "next"
    BY <1>2, TypedPlace DEF BeginItem, AtWork
  <2>2. PICK e \in Event : e = Ev("item_start", Item) /\ e.type = "item_start" /\ e.item = Item
    <3>1. "item_start" \in EventTypes
      BY DEF EventTypes
    <3>. QED  BY <2>1, <3>1, PlainEvent
  <2>3. /\ log' = Append(log, e) /\ pc' = "calling" /\ UNCHANGED <<ids, idx, job, sum>>
        /\ log \in Seq(Event) /\ job # "completed"
    BY <1>2, <2>1, <2>2 DEF BeginItem, Typed, FillTypeOK, PlaceInv, Over
  <2>4. \A n \in DOMAIN log' : Tells(n)'
    BY <2>2, <2>3, TellsAppend DEF Outcomes
  <2>5. /\ OutcomesOf(log', Len(log')) = OutcomesOf(log, Len(log)) + 0 /\ OutcomesOf(log, Len(log)) \in Nat
        /\ UpdatesOf(log', Len(log')) = UpdatesOf(log, Len(log)) + 0 /\ UpdatesOf(log, Len(log)) \in Nat
        /\ Reported(log')[Len(log')] = Reported(log)[Len(log)] + 0
        /\ Len(log') = Len(log) + 1 /\ Len(log) \in Nat /\ log'[Len(log')] = e
    <3>1. Grows(log, e, log')
      BY <2>3, LogGrows
    <3>2. e.type \notin Outcomes /\ e.type # "item_done" /\ Tokens(e) = 0
      BY <2>2 DEF Outcomes, Tokens
    <3>. QED  BY <3>1, <3>2 DEF Grows
  <2>6. /\ OutcomesOf(log, Len(log)) + 1 = idx
        /\ sum.tokens = Reported(log)[Len(log)] /\ sum.updated = UpdatesOf(log, Len(log))
        /\ sum.tokens \in Nat
    BY <2>1 DEF TellsInv, AtWork, Typed, FillTypeOK
  <2>7. /\ OutcomesOf(log', Len(log')) + 1 = idx' /\ Len(log') >= 1
        /\ sum'.tokens = Reported(log')[Len(log')] /\ sum'.updated = UpdatesOf(log', Len(log'))
    BY <2>3, <2>5, <2>6
  <2>8. log'[Len(log')].type = "item_start" /\ log'[Len(log')].item = Item'
    BY <2>2, <2>3, <2>5 DEF Item
  <2>. QED  BY <2>3, <2>4, <2>7, <2>8 DEF TellsInv
<1>3. CASE ClassFailed \/ \E usable \in BOOLEAN, tokens \in Usages : ClassAnswered(usable, tokens)
  <2>1. /\ pc = "calling" /\ pc' \in {"calling", "filled"}
        /\ UNCHANGED <<ids, idx, job, sum, log>>
    BY <1>3, NextClassTyped DEF ClassFailed, ClassAnswered
  <2>2. \A n \in DOMAIN log : Tells(n)'
    BY <2>1 DEF TellsInv, Tells
  <2>. QED  BY <2>1, <2>2 DEF TellsInv, Item, AtWork
<1>4. CASE ItemCrashed
  <2>1. pc \in AtWork /\ Item \in Items /\ pc = "calling"
    BY <1>4, TypedPlace DEF ItemCrashed, AtWork
  <2>2. PICK e \in Event : e = Ev("item_error", Item) /\ e.type = "item_error" /\ e.item = Item
    <3>1. "item_error" \in EventTypes
      BY DEF EventTypes
    <3>. QED  BY <2>1, <3>1, PlainEvent
  <2>3. log' = Append(log, e) /\ Advance /\ UNCHANGED <<ids, job, sum>>
    BY <1>4, <2>2 DEF ItemCrashed
  <2>. QED  BY <2>1, <2>2, <2>3, TellsAdvance DEF Outcomes
<1>5. CASE SaveItem
  <2>1. /\ pc = "filled" /\ pc' = "committed" /\ UNCHANGED <<ids, idx, job, sum, log>>
    BY <1>5 DEF SaveItem
  <2>2. \A n \in DOMAIN log : Tells(n)'
    BY <2>1 DEF TellsInv, Tells
  <2>. QED  BY <2>1, <2>2 DEF TellsInv, Item, AtWork
<1>6. CASE SaveFailed
  BY <1>6, TellsEndJob DEF SaveFailed
<1>7. CASE CancelFill
  BY <1>7, TellsEndJob DEF CancelFill
<1>8. CASE ReportItem
  <2>1. /\ pc \in AtWork /\ Item \in Items /\ pc \in {"committed", "filled"}
        /\ updated \in SUBSET Classes /\ got \in Nat
    BY <1>8, TypedPlace DEF ReportItem, AtWork, Typed, FillTypeOK
  <2>2. PICK e \in Event : /\ e = [Ev("item_done", Item) EXCEPT !.updated = updated, !.tokens = got]
                           /\ e.type = "item_done" /\ e.item = Item /\ e.updated = updated /\ e.tokens = got
    BY <2>1, DoneEvent
  <2>3. log' = Append(log, e) /\ Advance /\ UNCHANGED <<ids, job>>
    BY <1>8, <2>2 DEF ReportItem
  <2>4. /\ sum'.tokens = sum.tokens + e.tokens
        /\ sum'.updated = sum.updated + (IF e.updated # {} THEN 1 ELSE 0)
    BY <1>8, <2>2 DEF ReportItem
  <2>. QED  BY <2>1, <2>2, <2>3, <2>4, TellsAdvance DEF Outcomes
<1>9. CASE Summarise
  BY <1>9, TellsSummary
<1>10. CASE FillStart
  BY <1>10, TellsStart
<1>11. CASE Others
  <2>1. UNCHANGED <<ids, idx, pc, job, sum, log>>
    BY <1>11 DEF Others, Trash, Restore, Purge, CallBegin, CallEnd, Edit
  <2>. QED  BY <2>1, TellsFrame
<1>. QED  BY <1>1, <1>2, <1>3, <1>4, <1>5, <1>6, <1>7, <1>8, <1>9, <1>10, <1>11
          DEF FillNext, FillStep

LEMMA TellsInit == FillInit => TellsInv
<1>. SUFFICES ASSUME FillInit
              PROVE  TellsInv
  OBVIOUS
<1>1. log = <<>> /\ Len(log) = 0 /\ DOMAIN log = {} /\ log \in Seq(Event)
  BY DEF FillInit
<1>2. SumsUp(Reported(log), log, 0)
  BY <1>1, ReportedSums
<1>3. Reported(log)[0] = 0
  BY <1>2 DEF SumsUp
<1>4. UpdatesOf(log, 0) = 0
  <2>1. {m \in 1..0 : log[m].type = "item_done" /\ log[m].updated # {}} = {}
    OBVIOUS
  <2>. QED  BY <2>1, FS_EmptySet DEF UpdatesOf
<1>5. pc = "idle" /\ job = "none" /\ sum.tokens = 0 /\ sum.updated = 0
  BY DEF FillInit
<1>. QED  BY <1>1, <1>3, <1>4, <1>5 DEF TellsInv, AtWork

\* The reader of the log gets an outcome for every record, in the order of the
\* request, and totals that are those of the records.
THEOREM LogTells == Spec => []LogTellsTheRequest
<1>2. TellsInv /\ UNCHANGED fillVars => TellsInv'
  <2>. SUFFICES ASSUME TellsInv, UNCHANGED fillVars
                PROVE  TellsInv'
    OBVIOUS
  <2>1. UNCHANGED <<ids, idx, pc, job, sum, log>>
    BY DEF fillVars, workerVars, reqVars
  <2>. QED  BY <2>1, TellsFrame
<1>3. Typed /\ Typed' /\ TellsInv /\ [FillNext]_fillVars => TellsInv'
  BY <1>2, TellsStep
<1>4. TellsInv => LogTellsTheRequest
  <2>. SUFFICES ASSUME TellsInv
                PROVE  LogTellsTheRequest
    OBVIOUS
  <2>1. \A n \in DOMAIN log : Tells(n)
    BY DEF TellsInv
  <2>2. \A n \in DOMAIN log : OutcomesIn(n) = OutcomesOf(log, n)
    BY DEF OutcomesIn, OutcomesOf
  <2>3. OutcomesIn(Len(log)) = OutcomesOf(log, Len(log))
    BY DEF OutcomesIn, OutcomesOf
  <2>4. SummaryAddsUp
    BY <2>1 DEF Tells, SummaryAddsUp, UpdatesOf
  <2>. QED  BY <2>1, <2>2, <2>3, <2>4 DEF Tells, TellsInv, LogTellsTheRequest
<1>. QED  BY <1>3, <1>4, TellsInit, TypedAlways, PTL DEF Spec

=============================================================================
