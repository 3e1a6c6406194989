---------------------------- MODULE ChapterOrder ----------------------------
(***************************************************************************)
(* The order of a book's chapters: the positions in the database and the   *)
(* handlers that change them (create, fork, delete, reorder in             *)
(* routers/chapters.py), and the list each editor page keeps and sends     *)
(* back as a whole when a chapter is dragged (BookEditor.tsx,              *)
(* ChapterSidebar.tsx).                                                    *)
(*                                                                         *)
(* The handlers run in pool threads: a creation reads the last position    *)
(* in one step and inserts in another.  A page may send a request while    *)
(* an earlier one is on its way, and may receive the answers in any order. *)
(***************************************************************************)
EXTENDS Integers, Sequences, SequencesExt, FiniteSets

CONSTANTS
  Pages,     \* editor pages of one book
  Chapters,  \* ids, each given to one chapter
  First,     \* the chapters the book starts with, in order
  Group,     \* the sidebar's group of a chapter: front, main or back matter
  MaxCalls,  \* bound on the user's requests
  None

ASSUME ChapterOrderAssumption ==
  /\ First \in Seq(Chapters) /\ IsInjective(First)
  /\ MaxCalls \in Nat /\ None \notin Chapters \cup Nat \cup Pages

VARIABLES
  pos,      \* the position of every chapter in the database
  ids,      \* the ids in use or used
  shown,    \* the chapters in each page's book, None before it is loaded
  calls,    \* requests under way
  sent,     \* how many the users made
  rev,      \* history: how many changes the database has seen
  synced,   \* history: the change up to which a page's list is right, if any
  odd       \* history: "partial" once an order was stored that left a chapter
            \* out, "overlap" once a change came between the steps of a creation

dbVars == <<pos, ids>>
past   == <<rev, odd>>
vars   == <<dbVars, shown, calls, sent, past, synced>>

Live == {c \in Chapters : pos[c] # None}

\* What ORDER BY position may return: the order of equal positions is open.
Orders == {q \in SetToSeqs(Live) : \A i, j \in DOMAIN q : i < j => pos[q[i]] <= pos[q[j]]}

\* A call: create (more: how many of a template group are left after this
\* one; order: those made so far; start: the change that made the first),
\* fork, delete, reorder or load.
Call == [id : Nat, page : Pages \cup {None}, op : {"create", "fork", "delete", "reorder", "load"},
         chapter : Chapters \cup {None}, order : Seq(Chapters), more : Nat,
         stage : {"sent", "read", "ok", "refused"}, last : Nat, rev : Nat, start : Nat]

\* What positions, lists and requests may hold.
OrderTypeOK ==
  /\ pos \in [Chapters -> Nat \cup {None}] /\ ids \subseteq Chapters /\ Live \subseteq ids
  /\ shown \in [Pages -> Seq(Chapters) \cup {None}]
  /\ calls \subseteq Call /\ sent \in 0..MaxCalls
  /\ rev \in Nat /\ synced \in [Pages -> Nat \cup {None}] /\ odd \subseteq {"partial", "overlap"}

Init ==
  /\ pos = [c \in Chapters |-> IF Contains(First, c)
                               THEN (CHOOSE n \in DOMAIN First : First[n] = c) - 1 ELSE None]
  /\ ids = ToSet(First)
  /\ shown = [p \in Pages |-> First]
  /\ calls = {} /\ sent = 0
  /\ rev = 0 /\ synced = [p \in Pages |-> 0] /\ odd = {}

-----------------------------------------------------------------------------
(* The page: requests                                                      *)

Ask(p, op, chapter, order, more) ==
  /\ shown[p] # None
  /\ sent < MaxCalls /\ sent' = sent + 1
  /\ calls' = calls \cup
       {[id |-> sent + 1, page |-> p, op |-> op, chapter |-> chapter, order |-> order,
         more |-> more, stage |-> "sent", last |-> 0, rev |-> 0, start |-> 0]}
  /\ UNCHANGED <<dbVars, shown, past, synced>>

\* The menu that adds a chapter.
Menu(p) == shown[p] # None

\* A new chapter, or the chapters of a template group one after the other.
Add(p, more) == Menu(p) /\ Ask(p, "create", None, <<>>, more)

\* A chapter of the list, with its delete button and its menu.
Item(p, c) == shown[p] # None /\ Contains(shown[p], c)

Delete(p, c) == Item(p, c) /\ Ask(p, "delete", c, <<>>, 0)

\* "Save as new chapter" in the conflict dialog.
Fork(p, c) == Item(p, c) /\ Ask(p, "fork", c, <<>>, 0)

\* arrayMove: the element at from goes to position to.
Moved(q, from, to) == InsertAt(RemoveAt(q, from), to, q[from])

\* Mutant of Dragged: the group is put in again wherever one of it stood.
Dragged_EachTime(q, group, moved) ==
  LET at(n) == IF Group[q[n]] = group THEN moved ELSE <<q[n]>>
  IN FlattenSeq([n \in DOMAIN q |-> at(n)])

\* The list with the group in its new order where the first of it stood.
Dragged(q, group, moved) ==
  LET first == CHOOSE n \in DOMAIN q :
                 Group[q[n]] = group /\ \A k \in 1..(n - 1) : Group[q[k]] # group
      Others(s) == SelectSeq(s, LAMBDA c : Group[c] # group)
  IN SubSeq(q, 1, first - 1) \o moved \o Others(SubSeq(q, first, Len(q)))

\* The front matter, the main chapters or the back matter of the list.
Section(p, group) == SelectSeq(shown[p], LAMBDA c : Group[c] = group)

\* A chapter is dragged within its group; the page sends all its chapters.
Drag(p, group, from, to) ==
  LET mine == Section(p, group)
  IN /\ {from, to} \subseteq DOMAIN mine /\ from # to
     /\ Ask(p, "reorder", None, Dragged(shown[p], group, Moved(mine, from, to)), 0)

\* The page is opened again; nobody waits for its earlier requests, and it
\* has no list before the answer.
Reload(p) ==
  /\ sent < MaxCalls /\ sent' = sent + 1
  /\ shown' = [shown EXCEPT ![p] = None]
  /\ calls' = {[k EXCEPT !.page = IF @ = p THEN None ELSE @] : k \in calls} \cup
       {[id |-> sent + 1, page |-> p, op |-> "load", chapter |-> None, order |-> <<>>,
         more |-> 0, stage |-> "sent", last |-> 0, rev |-> 0, start |-> 0]}
  /\ synced' = [synced EXCEPT ![p] = None]
  /\ UNCHANGED <<dbVars, past>>

-----------------------------------------------------------------------------
(* The server                                                              *)

Becomes(k, new) == calls' = (calls \ {k}) \cup {new}

\* A change is committed and k answered.
Done(k, answer) ==
  /\ rev' = rev + 1
  /\ Becomes(k, [answer EXCEPT !.stage = "ok", !.rev = rev + 1,
                               !.start = IF @ = 0 THEN rev + 1 ELSE @])

Refuse(k) == Becomes(k, [k EXCEPT !.stage = "refused"]) /\ UNCHANGED <<dbVars, past>>

\* The position after the last one.
End == IF Live = {} THEN 0 ELSE 1 + (CHOOSE m \in {pos[c] : c \in Live} : \A c \in Live : pos[c] <= m)

\* create_chapter reads the last position ...
CreateRead(k) ==
  /\ k.op = "create" /\ k.stage = "sent"
  /\ Becomes(k, [k EXCEPT !.stage = "read", !.last = End, !.rev = rev])
  /\ UNCHANGED <<dbVars, past>>

\* ... and inserts behind it.
CreateInsert(k, c) ==
  /\ k.op = "create" /\ k.stage = "read"
  /\ c \notin ids
  /\ ids' = ids \cup {c}
  /\ pos' = [pos EXCEPT ![c] = k.last]
  /\ odd' = odd \cup (IF k.rev = rev THEN {} ELSE {"overlap"})
  /\ Done(k, [k EXCEPT !.chapter = c])

\* Mutant of DeleteChapter: whoever stood behind the chapter moves up.
DeleteChapter_Renumber(k) ==
  /\ k.op = "delete" /\ k.stage = "sent"
  /\ IF pos[k.chapter] = None
     THEN Refuse(k)
     ELSE /\ pos' = [c \in Chapters |-> IF c = k.chapter THEN None
                                        ELSE IF pos[c] = None THEN None ELSE pos[c] - 1]
          /\ Done(k, k)
          /\ UNCHANGED <<ids, odd>>

\* delete_chapter leaves a gap.
DeleteChapter(k) ==
  /\ k.op = "delete" /\ k.stage = "sent"
  /\ IF pos[k.chapter] = None
     THEN Refuse(k)
     ELSE /\ pos' = [pos EXCEPT ![k.chapter] = None]
          /\ Done(k, k)
          /\ UNCHANGED <<ids, odd>>

\* Mutant of Bumped: only what is behind the new position makes room.
Bumped_After(at) == [c \in Chapters |-> IF pos[c] # None /\ pos[c] > at THEN pos[c] + 1 ELSE pos[c]]

\* Every chapter from the position on makes room.
Bumped(at) == [c \in Chapters |-> IF pos[c] # None /\ pos[c] >= at THEN pos[c] + 1 ELSE pos[c]]

\* Mutant of ForkChapter: no room is made.
ForkChapter_NoBump(k, c) ==
  /\ k.op = "fork" /\ k.stage = "sent"
  /\ c \notin ids
  /\ IF pos[k.chapter] = None
     THEN Refuse(k)
     ELSE LET at == pos[k.chapter] + 1 IN
          /\ ids' = ids \cup {c}
          /\ pos' = [pos EXCEPT ![c] = at]
          /\ Done(k, [k EXCEPT !.order = <<c>>])
          /\ UNCHANGED odd

\* fork_chapter: the copy goes right behind its source.
ForkChapter(k, c) ==
  /\ k.op = "fork" /\ k.stage = "sent"
  /\ c \notin ids
  /\ IF pos[k.chapter] = None
     THEN Refuse(k)
     ELSE LET at == pos[k.chapter] + 1 IN
          /\ ids' = ids \cup {c}
          /\ pos' = [Bumped(at) EXCEPT ![c] = at]
          /\ Done(k, [k EXCEPT !.order = <<c>>])
          /\ UNCHANGED odd

\* The number each listed chapter gets: the last one, if it is listed twice.
Numbered(q) ==
  [c \in Chapters |->
     IF Contains(q, c)
     THEN (CHOOSE n \in DOMAIN q : q[n] = c /\ \A m \in DOMAIN q : q[m] = c => m <= n) - 1
     ELSE pos[c]]

\* reorder_chapters: the listed chapters are numbered; the answer is the
\* stored order.  A body that is no list of ids, or an unknown id, refuses
\* the whole.
Reorder(k) ==
  /\ k.op = "reorder" /\ k.stage = "sent"
  /\ IF k.order \in Seq(Chapters) /\ ToSet(k.order) \subseteq Live
     THEN /\ pos' = Numbered(k.order)
          /\ odd' = odd \cup (IF Live = ToSet(k.order) THEN {} ELSE {"partial"})
          /\ \E q \in Orders' : Done(k, [k EXCEPT !.order = q])
          /\ UNCHANGED ids
     ELSE Refuse(k)

\* get_book.
LoadBook(k) ==
  /\ k.op = "load" /\ k.stage = "sent"
  /\ \E q \in Orders : Becomes(k, [k EXCEPT !.stage = "ok", !.order = q, !.rev = rev])
  /\ UNCHANGED <<dbVars, past>>

Serve(k) ==
  /\ \/ CreateRead(k) \/ DeleteChapter(k) \/ Reorder(k) \/ LoadBook(k)
     \/ \E c \in Chapters : CreateInsert(k, c) \/ ForkChapter(k, c)
  /\ UNCHANGED <<shown, sent, synced>>

-----------------------------------------------------------------------------
(* The page: answers                                                       *)

\* The page changes its list itself; n changes of the database led to it.
Takes(k, list, n) ==
  /\ shown' = [shown EXCEPT ![k.page] = list]
  /\ synced' = [synced EXCEPT ![k.page] =
                   IF @ # None /\ k.start = @ + 1 /\ k.rev = @ + n THEN k.rev ELSE None]
  /\ calls' = calls \ {k}

\* The page takes over the list of the answer.
TakesOver(k) ==
  /\ shown' = [shown EXCEPT ![k.page] = k.order]
  /\ synced' = [synced EXCEPT ![k.page] = k.rev]
  /\ calls' = calls \ {k}

\* Mutant of Created: the last of a template group comes before the others.
Created_LastFirst(k) ==
  /\ k.op = "create" /\ k.stage = "ok"
  /\ IF k.more > 0
     THEN /\ Becomes(k, [k EXCEPT !.stage = "sent", !.more = @ - 1, !.chapter = None,
                                  !.order = Append(@, k.chapter)])
          /\ UNCHANGED <<shown, synced>>
     ELSE Takes(k, Append(shown[k.page], k.chapter) \o k.order, Len(k.order) + 1)

\* A new chapter goes to the end of the list, a template group when its last
\* chapter is made.
Created(k) ==
  /\ k.op = "create" /\ k.stage = "ok"
  /\ IF k.more > 0
     THEN /\ Becomes(k, [k EXCEPT !.stage = "sent", !.more = @ - 1, !.chapter = None,
                                  !.order = Append(@, k.chapter)])
          /\ UNCHANGED <<shown, synced>>
     ELSE Takes(k, shown[k.page] \o Append(k.order, k.chapter), Len(k.order) + 1)

Deleted(k) ==
  /\ k.op = "delete" /\ k.stage = "ok"
  /\ Takes(k, SelectSeq(shown[k.page], LAMBDA c : c # k.chapter), 1)

\* After the fork the page loads the book.
Forked(k) ==
  /\ k.op = "fork" /\ k.stage = "ok"
  /\ Becomes(k, [k EXCEPT !.op = "load", !.stage = "sent", !.chapter = None, !.order = <<>>])
  /\ UNCHANGED <<shown, synced>>

Listed(k) == k.op \in {"reorder", "load"} /\ k.stage = "ok" /\ TakesOver(k)

\* A refused request changes nothing on the page.
Refused(k) ==
  /\ k.stage = "refused"
  /\ calls' = calls \ {k}
  /\ UNCHANGED <<shown, synced>>

Receive(k) ==
  /\ k.page # None
  /\ Created(k) \/ Deleted(k) \/ Forked(k) \/ Listed(k) \/ Refused(k)
  /\ UNCHANGED <<dbVars, sent, past>>

\* A request or its answer gets lost, or nobody waits for the answer.
Lose(k) ==
  /\ k.stage # "read"
  /\ calls' = calls \ {k}
  /\ UNCHANGED <<dbVars, shown, sent, past, synced>>

-----------------------------------------------------------------------------
Next ==
  \/ \E p \in Pages :
       \/ \E more \in 0..1 : Add(p, more)
       \/ \E c \in Chapters : Delete(p, c) \/ Fork(p, c)
       \/ \E g \in {Group[c] : c \in Chapters}, from, to \in 1..Cardinality(Chapters) :
            shown[p] # None /\ Drag(p, g, from, to)
       \/ Reload(p)
  \/ \E k \in calls : Serve(k) \/ Receive(k) \/ Lose(k)

Spec == Init /\ [][Next]_vars

-----------------------------------------------------------------------------
(* Properties                                                              *)

\* A page that has had the answer to every change, in their order, shows the
\* chapters in the order in which the database returns them, although it
\* never asked for it: the end of the list is the end of the book, deletions
\* leave the rest in place (BookEditor.tsx:198-201, 304-308).  Only a creation
\* that another change overlapped spoils it.
SyncedShowsOrder ==
  "overlap" \notin odd => \A p \in Pages : synced[p] = rev => shown[p] \in Orders

\* Two chapters come to the same position, and so to an open order, only
\* through an order sent by a page that did not know them all, or a creation
\* that overlapped another change ("keep the list gap-free + the insert
\* deterministic", chapters.py:262-264).
TiesNeedPartialOrders ==
  \A c, d \in Live : c # d /\ pos[c] = pos[d] => odd # {}

\* A fork stands right behind its source, whatever positions the others have
\* ("inserted after the source chapter", chapters.py:243-244).
ForkFollowsSource ==
  \A k \in calls, n \in calls' :
    k.id = n.id /\ k.op = "fork" /\ k.stage = "sent" /\ n.stage = "ok"
    => \A c \in Live' \ ToSet(n.order) :
         ~(pos[k.chapter] < pos'[c] /\ pos'[c] <= pos'[n.order[1]])

\* A drag sends every chapter of the page's list once, and changes the order
\* within one group only (ChapterSidebar.tsx:258-271).
DragMovesOneGroup ==
  \A k \in {n \in calls' : n.page # None} :
       LET q == shown[k.page] IN
       k.op = "reorder" /\ k.id > sent /\ IsInjective(q)
       => /\ k.order \in SetToSeqs(ToSet(q))
          /\ \E g \in {Group[c] : c \in ToSet(q)} :
               \A i, j \in DOMAIN q, m, n \in DOMAIN q :
                 /\ q[i] = k.order[m] /\ q[j] = k.order[n]
                 /\ Group[q[i]] = Group[q[j]] /\ Group[q[i]] # g
                 => (i < j <=> m < n)

\* What the user asks for is where the user put it: forks and drags, whatever
\* gaps, ties and stale lists the calls before left behind.
PlacedAsAsked == [][ForkFollowsSource /\ DragMovesOneGroup]_vars

=============================================================================
