------------------------- MODULE ChapterOrderProofs -------------------------
(***************************************************************************)
(* Theorems about ChapterOrder, for any sets of pages and chapters, any    *)
(* first order, any grouping and any number of requests.                   *)
(*                                                                         *)
(* What a page sends and shows comes from the filters of the code          *)
(* (SelectSeq), about which nothing can be proved here; so the invariant   *)
(* leaves the lists of the pages open: the theorems hold for whatever      *)
(* order a page may send.                                                  *)
(***************************************************************************)
EXTENDS ChapterOrder, WellFoundedInduction, TLAPS

Fields == {"id", "page", "op", "chapter", "order", "more", "stage", "last", "rev", "start"}

\* A request is a record with an id of its own, and names what it changes.
Formed(k) ==
  /\ DOMAIN k = Fields
  /\ k.id \in 1..sent /\ k.last \in Nat /\ k.rev \in Nat
  /\ k.op \in {"delete", "fork"} => k.chapter \in Chapters

\* A creation that has read the last position, and that no change overlapped
\* since, still has the position behind all others.
ReadIsEnd(k) ==
  k.stage = "read" =>
    /\ k.rev <= rev
    /\ k.rev = rev => \A c \in Live : pos[c] < k.last

CallsInv ==
  /\ \A k \in calls : Formed(k) /\ ReadIsEnd(k)
  /\ \A k, m \in calls : k.id = m.id => k = m

\* The positions are numbers with a greatest, of chapters whose id is used.
RowsInv ==
  /\ pos \in [Chapters -> Nat \cup {None}]
  /\ ids \subseteq Chapters /\ Live \subseteq ids
  /\ rev \in Nat /\ sent \in Nat
  /\ \E b \in Nat : \A c \in Live : pos[c] <= b

\* The inductive invariant.
OrderInv == RowsInv /\ CallsInv /\ TiesNeedPartialOrders

-----------------------------------------------------------------------------
(* Lemmas on positions and requests                                        *)

\* A bounded set of numbers has a greatest one: the least of its bounds.
LEMMA HasMax ==
  ASSUME NEW S \in SUBSET Nat, S # {}, NEW b \in Nat, \A s \in S : s <= b
  PROVE  \E m \in S : \A s \in S : s <= m
<1>. DEFINE U == {u \in Nat : \A s \in S : s <= u}
<1>1. U \subseteq Nat /\ U # {}
  OBVIOUS
<1>2. IsWellFoundedOn(OpToRel(<, Nat), Nat)
  BY NatLessThanWellFounded
<1>. HIDE DEF U
<1>3. PICK m \in U : \A u \in U : ~(<<u, m>> \in OpToRel(<, Nat))
  BY <1>1, <1>2, WFMin
<1>4. \A u \in U : ~(u < m)
  BY <1>1, <1>3 DEF OpToRel
<1>5. CASE m \in S
  BY <1>5, <1>3 DEF U
<1>6. CASE m \notin S
  <2>1. m \in Nat /\ \A s \in S : s <= m
    BY <1>3 DEF U
  <2>2. PICK s \in S : TRUE
    OBVIOUS
  <2>3. m - 1 \in Nat /\ \A t \in S : t <= m - 1
    <3>1. \A t \in S : t # m /\ t <= m /\ t \in Nat
      BY <2>1, <1>6
    <3>. QED  BY <3>1, <2>1, <2>2
  <2>4. m - 1 \in U
    BY <2>3 DEF U
  <2>. QED  BY <2>4, <2>1, <1>4
<1>. QED  BY <1>5, <1>6

LEMMA LiveIsPlaced ==
  ASSUME RowsInv
  PROVE  \A c \in Live : c \in Chapters /\ c \in ids /\ pos[c] \in Nat
BY DEF RowsInv, Live

\* End is a position behind every chapter.
LEMMA EndIsBehind ==
  ASSUME RowsInv
  PROVE  End \in Nat /\ \A c \in Live : pos[c] < End
<1>1. CASE Live = {}
  BY <1>1 DEF End
<1>2. CASE Live # {}
  <2>. DEFINE S == {pos[c] : c \in Live}
  <2>1. S \in SUBSET Nat /\ S # {}
    BY <1>2, LiveIsPlaced
  <2>2. PICK b \in Nat : \A c \in Live : pos[c] <= b
    BY DEF RowsInv
  <2>3. \A s \in S : s <= b
    BY <2>2
  <2>4. \E m \in S : \A s \in S : s <= m
    <3>. HIDE DEF S
    <3>. QED  BY <2>1, <2>3, HasMax
  <2>5. \E m \in S : \A c \in Live : pos[c] <= m
    BY <2>4
  <2>6. PICK m \in S : /\ m = CHOOSE n \in S : \A c \in Live : pos[c] <= n
                       /\ \A c \in Live : pos[c] <= m
    <3>. HIDE DEF S
    <3>. QED  BY <2>5
  <2>7. End = 1 + m
    BY <1>2, <2>6 DEF End
  <2>8. m \in Nat /\ \A c \in Live : pos[c] \in Nat
    BY <2>1, LiveIsPlaced
  <2>. QED  BY <2>6, <2>7, <2>8
<1>. QED  BY <1>1, <1>2

\* The number of a listed chapter is that of its last place in the list.
LEMMA NumberedPlaces ==
  ASSUME NEW q \in Seq(Chapters), NEW c \in ToSet(q)
  PROVE  \E n \in DOMAIN q : q[n] = c /\ Numbered(q)[c] = n - 1
<1>. DEFINE S == {n \in DOMAIN q : q[n] = c}
<1>1. DOMAIN q = 1..Len(q) /\ Len(q) \in Nat /\ c \in Chapters /\ Contains(q, c)
  BY DEF ToSet, Contains
<1>2. S \in SUBSET Nat /\ S # {} /\ \A s \in S : s <= Len(q)
  BY <1>1 DEF ToSet
<1>3. \E m \in S : \A s \in S : s <= m
  <2>. HIDE DEF S
  <2>. QED  BY <1>1, <1>2, HasMax
<1>4. \E n \in DOMAIN q : q[n] = c /\ \A m \in DOMAIN q : q[m] = c => m <= n
  BY <1>3
<1>5. PICK n \in DOMAIN q :
        /\ n = CHOOSE i \in DOMAIN q : q[i] = c /\ \A m \in DOMAIN q : q[m] = c => m <= i
        /\ q[n] = c
  BY <1>4
<1>6. Numbered(q)[c] = n - 1
  BY <1>1, <1>5 DEF Numbered
<1>. QED  BY <1>5, <1>6

\* A request takes the place of one with the same id, at no less changes.
LEMMA CallReplaced ==
  ASSUME RowsInv, CallsInv, NEW k \in calls, NEW new, Becomes(k, new),
         sent' = sent, rev' \in Nat, (rev' = rev /\ pos' = pos) \/ rev' > rev,
         DOMAIN new = Fields, new.id = k.id, Formed(new)', ReadIsEnd(new)'
  PROVE  CallsInv'
<1>1. \A m \in calls : Formed(m)'
  BY DEF CallsInv, Formed
<1>2. \A m \in calls : ReadIsEnd(m)'
  <2>. TAKE m \in calls
  <2>1. m.rev \in Nat /\ ReadIsEnd(m) /\ rev \in Nat
    BY DEF CallsInv, Formed, RowsInv
  <2>2. CASE rev' = rev /\ pos' = pos
    BY <2>1, <2>2 DEF ReadIsEnd, Live
  <2>3. CASE rev' > rev
    BY <2>1, <2>3 DEF ReadIsEnd
  <2>. QED  BY <2>2, <2>3
<1>3. \A m \in calls' : Formed(m)' /\ ReadIsEnd(m)'
  BY <1>1, <1>2 DEF Becomes
<1>4. \A m, n \in calls' : m.id = n.id => m = n
  BY DEF Becomes, CallsInv
<1>. QED  BY <1>3, <1>4 DEF CallsInv

\* A request goes, and the rows stay.
LEMMA CallGone ==
  ASSUME CallsInv, NEW k, calls' = calls \ {k}, UNCHANGED <<sent, rev, pos>>
  PROVE  CallsInv'
BY DEF CallsInv, Formed, ReadIsEnd, Live

-----------------------------------------------------------------------------
(* The invariant                                                           *)

LEMMA OrderInit == Init => OrderInv
<1>. SUFFICES ASSUME Init
              PROVE  OrderInv
  OBVIOUS
<1>1. First \in Seq(Chapters) /\ IsInjective(First) /\ None \notin Nat
  BY ChapterOrderAssumption
<1>2. DOMAIN First = 1..Len(First) /\ Len(First) \in Nat
  BY <1>1
<1>3. \A c \in Chapters : Contains(First, c) =>
        \E n \in DOMAIN First : First[n] = c /\ pos[c] = n - 1
  <2>. TAKE c \in Chapters
  <2>. HAVE Contains(First, c)
  <2>1. \E n \in DOMAIN First : First[n] = c
    BY <1>2 DEF Contains
  <2>2. PICK n \in DOMAIN First : n = (CHOOSE i \in DOMAIN First : First[i] = c) /\ First[n] = c
    BY <2>1
  <2>3. pos[c] = n - 1
    BY <2>2 DEF Init
  <2>. QED  BY <2>2, <2>3
<1>4. \A c \in Chapters : ~Contains(First, c) => pos[c] = None
  BY DEF Init
<1>5. pos \in [Chapters -> Nat \cup {None}]
  <2>1. \A c \in Chapters : pos[c] \in Nat \cup {None}
    BY <1>2, <1>3, <1>4
  <2>2. pos = [c \in Chapters |-> pos[c]]
    BY DEF Init
  <2>. QED  BY <2>1, <2>2
<1>6. \A c \in Live : c \in Chapters /\ Contains(First, c)
  BY <1>4 DEF Live
<1>7. \A c \in Live : c \in ids /\ pos[c] <= Len(First)
  <2>. TAKE c \in Live
  <2>1. PICK n \in DOMAIN First : First[n] = c /\ pos[c] = n - 1
    BY <1>3, <1>6
  <2>2. c \in ids
    BY <2>1 DEF Init, ToSet
  <2>. QED  BY <2>1, <2>2, <1>2
<1>8. ids \subseteq Chapters
  BY <1>1 DEF Init, ToSet
<1>9. TiesNeedPartialOrders
  <2>. SUFFICES ASSUME NEW c \in Live, NEW d \in Live, c # d, pos[c] = pos[d]
                PROVE  FALSE
    BY DEF TiesNeedPartialOrders
  <2>1. PICK n \in DOMAIN First : First[n] = c /\ pos[c] = n - 1
    BY <1>3, <1>6
  <2>2. PICK m \in DOMAIN First : First[m] = d /\ pos[d] = m - 1
    BY <1>3, <1>6
  <2>3. n \in Nat /\ m \in Nat
    BY <1>2
  <2>4. n - 1 = m - 1
    BY <2>1, <2>2
  <2>5. n = m
    BY <2>3, <2>4
  <2>. QED  BY <2>1, <2>2, <2>5
<1>10. RowsInv
  BY <1>2, <1>5, <1>7, <1>8 DEF RowsInv, Init
<1>11. CallsInv
  BY DEF CallsInv, Init
<1>. QED  BY <1>9, <1>10, <1>11 DEF OrderInv

\* What the pages ask for changes no position.
LEMMA AskKeeps ==
  ASSUME OrderInv, NEW p, NEW op, NEW chapter, NEW order, NEW more, Ask(p, op, chapter, order, more),
         op \in {"delete", "fork"} => chapter \in Chapters
  PROVE  OrderInv'
<1>. DEFINE new == [id |-> sent + 1, page |-> p, op |-> op, chapter |-> chapter, order |-> order,
                    more |-> more, stage |-> "sent", last |-> 0, rev |-> 0, start |-> 0]
<1>1. sent \in Nat /\ sent' = sent + 1 /\ calls' = calls \cup {new} /\ UNCHANGED <<pos, ids, rev, odd>>
  BY DEF Ask, OrderInv, RowsInv, dbVars, past
<1>2. RowsInv' /\ TiesNeedPartialOrders'
  BY <1>1 DEF OrderInv, RowsInv, TiesNeedPartialOrders, Live
<1>3. \A k \in calls : Formed(k)' /\ ReadIsEnd(k)' /\ k.id # sent + 1
  BY <1>1 DEF OrderInv, CallsInv, Formed, ReadIsEnd, Live
<1>4. PICK n : n = new
  OBVIOUS
<1>5. /\ n.id = sent + 1 /\ n.op = op /\ n.chapter = chapter /\ n.stage = "sent"
      /\ n.last = 0 /\ n.rev = 0 /\ DOMAIN n = Fields
  BY <1>4 DEF Fields
<1>. HIDE DEF new
<1>6. Formed(n)' /\ ReadIsEnd(n)'
  BY <1>1, <1>5 DEF Formed, ReadIsEnd
<1>7. CallsInv'
  <2>1. \A k \in calls' : Formed(k)' /\ ReadIsEnd(k)'
    BY <1>1, <1>3, <1>4, <1>6
  <2>2. \A k, m \in calls' : k.id = m.id => k = m
    BY <1>1, <1>3, <1>4, <1>5 DEF OrderInv, CallsInv
  <2>. QED  BY <2>1, <2>2 DEF CallsInv
<1>. QED  BY <1>2, <1>7 DEF OrderInv

LEMMA ReloadKeeps ==
  ASSUME OrderInv, NEW p \in Pages, Reload(p)
  PROVE  OrderInv'
<1>. DEFINE new == [id |-> sent + 1, page |-> p, op |-> "load", chapter |-> None, order |-> <<>>,
                    more |-> 0, stage |-> "sent", last |-> 0, rev |-> 0, start |-> 0]
            left(k) == [k EXCEPT !.page = IF @ = p THEN None ELSE @]
<1>1. /\ sent \in Nat /\ sent' = sent + 1 /\ calls' = {left(k) : k \in calls} \cup {new}
      /\ UNCHANGED <<pos, ids, rev, odd>>
  BY DEF Reload, OrderInv, RowsInv, dbVars, past
<1>2. RowsInv' /\ TiesNeedPartialOrders'
  BY <1>1 DEF OrderInv, RowsInv, TiesNeedPartialOrders, Live
<1>3. \A k \in calls : /\ left(k).id = k.id /\ left(k).op = k.op /\ left(k).chapter = k.chapter
                       /\ left(k).stage = k.stage /\ left(k).last = k.last /\ left(k).rev = k.rev
                       /\ DOMAIN left(k) = Fields
  BY DEF OrderInv, CallsInv, Formed, Fields
<1>. HIDE DEF left
<1>4. \A k \in calls : \A t : t = left(k) => Formed(t)' /\ ReadIsEnd(t)' /\ t.id # sent + 1
  BY <1>1, <1>3 DEF OrderInv, CallsInv, Formed, ReadIsEnd, Live
<1>5. PICK n : n = new
  OBVIOUS
<1>6. /\ n.id = sent + 1 /\ n.op = "load" /\ n.stage = "sent"
      /\ n.last = 0 /\ n.rev = 0 /\ DOMAIN n = Fields
  BY <1>5 DEF Fields
<1>. HIDE DEF new
<1>7. Formed(n)' /\ ReadIsEnd(n)'
  BY <1>1, <1>6 DEF Formed, ReadIsEnd
<1>8. \A t \in calls' : t = n \/ \E k \in calls : t = left(k)
  BY <1>1, <1>5
<1>9. CallsInv'
  <2>1. \A k \in calls' : Formed(k)' /\ ReadIsEnd(k)'
    BY <1>4, <1>7, <1>8
  <2>2. \A k, m \in calls : left(k).id = left(m).id => k = m
    BY <1>3 DEF OrderInv, CallsInv
  <2>3. \A k, m \in calls' : k.id = m.id => k = m
    BY <1>4, <1>6, <1>8, <2>2
  <2>. QED  BY <2>1, <2>3 DEF CallsInv
<1>. QED  BY <1>2, <1>9 DEF OrderInv


\* What the server does with one request.
LEMMA CreateReadKeeps ==
  ASSUME OrderInv, NEW k \in calls, CreateRead(k), UNCHANGED sent
  PROVE  OrderInv'
<1>1. UNCHANGED <<pos, ids, rev, odd, sent>>
  BY DEF CreateRead, dbVars, past
<1>2. PICK new : new = [k EXCEPT !.stage = "read", !.last = End, !.rev = rev]
  OBVIOUS
<1>3. Becomes(k, new)
  BY <1>2 DEF CreateRead
<1>4. /\ DOMAIN new = Fields /\ new.id = k.id /\ new.op = k.op /\ new.chapter = k.chapter
      /\ new.last = End /\ new.rev = rev
  BY <1>2 DEF OrderInv, CallsInv, Formed, Fields
<1>5. End \in Nat /\ \A c \in Live : pos[c] < End
  BY EndIsBehind DEF OrderInv
<1>6. Formed(new)'
  BY <1>1, <1>4, <1>5 DEF Formed, OrderInv, CallsInv, RowsInv
<1>7. ReadIsEnd(new)'
  BY <1>1, <1>4, <1>5 DEF ReadIsEnd, OrderInv, RowsInv, Live
<1>8. CallsInv'
  BY <1>1, <1>3, <1>4, <1>6, <1>7, CallReplaced DEF OrderInv, RowsInv
<1>9. RowsInv' /\ TiesNeedPartialOrders'
  BY <1>1 DEF OrderInv, RowsInv, TiesNeedPartialOrders, Live
<1>. QED  BY <1>8, <1>9 DEF OrderInv

\* A change is committed: the request is answered and no longer reads.
LEMMA DoneKeepsCalls ==
  ASSUME RowsInv, CallsInv, NEW k \in calls, NEW new, Done(k, new), UNCHANGED sent,
         DOMAIN new = Fields, new.id = k.id, new.last \in Nat,
         new.op \in {"delete", "fork"} => new.chapter \in Chapters
  PROVE  CallsInv' /\ rev' = rev + 1 /\ rev' \in Nat
<1>1. rev' = rev + 1 /\ rev \in Nat
  BY DEF Done, RowsInv
<1>2. PICK answer : answer = [new EXCEPT !.stage = "ok", !.rev = rev + 1,
                                         !.start = IF @ = 0 THEN rev + 1 ELSE @]
  OBVIOUS
<1>3. Becomes(k, answer)
  BY <1>2 DEF Done
<1>4. /\ DOMAIN answer = Fields /\ answer.id = k.id /\ answer.op = new.op
      /\ answer.chapter = new.chapter /\ answer.last = new.last
      /\ answer.stage = "ok" /\ answer.rev = rev + 1
  BY <1>2 DEF Fields
<1>5. Formed(answer)'
  BY <1>1, <1>4 DEF Formed, CallsInv
<1>6. ReadIsEnd(answer)'
  BY <1>4 DEF ReadIsEnd
<1>7. CallsInv'
  BY <1>1, <1>3, <1>4, <1>5, <1>6, CallReplaced
<1>. QED  BY <1>1, <1>7

LEMMA CreateInsertKeeps ==
  ASSUME OrderInv, NEW k \in calls, NEW c \in Chapters, CreateInsert(k, c), UNCHANGED sent
  PROVE  OrderInv'
<1>1. /\ c \notin ids /\ ids' = ids \cup {c} /\ pos' = [pos EXCEPT ![c] = k.last]
      /\ odd' = odd \cup (IF k.rev = rev THEN {} ELSE {"overlap"})
      /\ k.stage = "read" /\ k.op = "create"
  BY DEF CreateInsert
<1>2. /\ RowsInv /\ CallsInv /\ Formed(k) /\ ReadIsEnd(k) /\ TiesNeedPartialOrders
      /\ k.last \in Nat /\ k.rev \in Nat
  BY DEF OrderInv, CallsInv, Formed
<1>3. PICK new : new = [k EXCEPT !.chapter = c]
  OBVIOUS
<1>4. DOMAIN new = Fields /\ new.id = k.id /\ new.last = k.last /\ new.op = "create"
  BY <1>1, <1>2, <1>3 DEF Formed, Fields
<1>5. Done(k, new)
  BY <1>3 DEF CreateInsert
<1>6. CallsInv' /\ rev' \in Nat
  BY <1>1, <1>2, <1>4, <1>5, DoneKeepsCalls
<1>7. None \notin Nat
  BY ChapterOrderAssumption
<1>8. pos' \in [Chapters -> Nat \cup {None}] /\ pos'[c] = k.last
      /\ \A d \in Chapters \ {c} : pos'[d] = pos[d]
  BY <1>1, <1>2 DEF RowsInv
<1>9. Live' = Live \cup {c}
  BY <1>2, <1>7, <1>8 DEF Live
<1>10. c \notin Live /\ \A d \in Live : d \in Chapters /\ pos[d] \in Nat /\ pos'[d] = pos[d]
  BY <1>1, <1>2, <1>8, LiveIsPlaced
<1>11. \E b \in Nat : \A d \in Live' : pos'[d] <= b
  <2>1. PICK b \in Nat : \A d \in Live : pos[d] <= b
    BY <1>2 DEF RowsInv
  <2>2. \A d \in Live' : pos'[d] <= b + k.last
    BY <2>1, <1>2, <1>8, <1>9, <1>10
  <2>. QED  BY <2>2, <1>2
<1>12. RowsInv'
  BY <1>1, <1>2, <1>6, <1>8, <1>9, <1>11 DEF RowsInv
<1>13. TiesNeedPartialOrders'
  <2>. SUFFICES ASSUME NEW a \in Live', NEW d \in Live', a # d, pos'[a] = pos'[d], odd' = {}
                PROVE  FALSE
    BY DEF TiesNeedPartialOrders
  <2>1. odd = {} /\ k.rev = rev
    BY <1>1
  <2>2. \A e \in Live : pos[e] < k.last
    BY <2>1, <1>1, <1>2 DEF ReadIsEnd
  <2>3. a \in Live /\ d \in Live
    BY <1>2, <1>8, <1>9, <1>10, <2>2
  <2>. QED  BY <2>1, <2>3, <1>2, <1>10 DEF TiesNeedPartialOrders
<1>. QED  BY <1>6, <1>12, <1>13 DEF OrderInv

LEMMA RefuseKeeps ==
  ASSUME OrderInv, NEW k \in calls, Refuse(k), UNCHANGED sent
  PROVE  OrderInv'
<1>1. UNCHANGED <<pos, ids, rev, odd, sent>>
  BY DEF Refuse, dbVars, past
<1>2. PICK new : new = [k EXCEPT !.stage = "refused"]
  OBVIOUS
<1>3. Becomes(k, new)
  BY <1>2 DEF Refuse
<1>4. Formed(k)
  BY DEF OrderInv, CallsInv
<1>5. /\ DOMAIN new = Fields /\ new.id = k.id /\ new.op = k.op /\ new.chapter = k.chapter
      /\ new.last = k.last /\ new.rev = k.rev /\ new.stage = "refused"
  BY <1>2, <1>4 DEF Formed, Fields
<1>6. Formed(new)' /\ ReadIsEnd(new)'
  BY <1>1, <1>4, <1>5 DEF Formed, ReadIsEnd
<1>7. CallsInv'
  BY <1>1, <1>3, <1>5, <1>6, CallReplaced DEF OrderInv, RowsInv
<1>8. RowsInv' /\ TiesNeedPartialOrders'
  BY <1>1 DEF OrderInv, RowsInv, TiesNeedPartialOrders, Live
<1>. QED  BY <1>7, <1>8 DEF OrderInv

LEMMA DeleteKeeps ==
  ASSUME OrderInv, NEW k \in calls, DeleteChapter(k), UNCHANGED sent
  PROVE  OrderInv'
<1>1. CASE pos[k.chapter] = None
  BY <1>1, RefuseKeeps DEF DeleteChapter
<1>2. CASE pos[k.chapter] # None
  <2>1. /\ pos' = [pos EXCEPT ![k.chapter] = None] /\ Done(k, k)
        /\ UNCHANGED <<ids, odd>> /\ k.op = "delete"
    BY <1>2 DEF DeleteChapter
  <2>2. RowsInv /\ CallsInv /\ Formed(k) /\ TiesNeedPartialOrders
    BY DEF OrderInv, CallsInv
  <2>3. CallsInv' /\ rev' \in Nat
    BY <2>1, <2>2, DoneKeepsCalls DEF Formed
  <2>4. /\ pos' \in [Chapters -> Nat \cup {None}]
        /\ \A d \in Live' : d \in Live /\ pos'[d] = pos[d]
    BY <2>1, <2>2 DEF RowsInv, Live
  <2>5. RowsInv'
    BY <2>1, <2>2, <2>3, <2>4 DEF RowsInv
  <2>6. TiesNeedPartialOrders'
    BY <2>1, <2>2, <2>4 DEF TiesNeedPartialOrders
  <2>. QED  BY <2>3, <2>5, <2>6 DEF OrderInv
<1>. QED  BY <1>1, <1>2


\* Making room keeps distinct positions distinct and leaves the freed one.
LEMMA ForkPlaces ==
  ASSUME RowsInv, NEW k, NEW c \in Chapters, k.chapter \in Chapters, pos[k.chapter] # None,
         c \notin ids, pos' = [Bumped(pos[k.chapter] + 1) EXCEPT ![c] = pos[k.chapter] + 1]
  PROVE  /\ pos' \in [Chapters -> Nat \cup {None}]
         /\ Live' = Live \cup {c} /\ c \notin Live
         /\ pos[k.chapter] \in Nat /\ pos'[c] = pos[k.chapter] + 1
         /\ \A d \in Live : /\ d \in Chapters /\ pos[d] \in Nat
                            /\ pos'[d] = IF pos[d] >= pos[k.chapter] + 1 THEN pos[d] + 1 ELSE pos[d]
<1>. DEFINE at == pos[k.chapter] + 1
<1>1. None \notin Nat
  BY ChapterOrderAssumption
<1>2. pos \in [Chapters -> Nat \cup {None}] /\ c \notin Live
  BY DEF RowsInv
<1>3. at \in Nat /\ pos[k.chapter] \in Nat
  BY <1>2
<1>4. \A d \in Chapters : Bumped(at)[d] = IF pos[d] # None /\ pos[d] >= at THEN pos[d] + 1 ELSE pos[d]
  BY DEF Bumped
<1>5. Bumped(at) = [d \in Chapters |-> Bumped(at)[d]]
  BY DEF Bumped
<1>6. pos'[c] = at /\ \A d \in Chapters \ {c} : pos'[d] = Bumped(at)[d]
  BY <1>5
<1>7. \A d \in Live : /\ d \in Chapters \ {c} /\ pos[d] \in Nat
                      /\ pos'[d] = IF pos[d] >= at THEN pos[d] + 1 ELSE pos[d]
  BY <1>2, <1>4, <1>6 DEF Live
<1>8. \A d \in Chapters \ (Live \cup {c}) : pos'[d] = None
  BY <1>4, <1>6 DEF Live
<1>9. \A d \in Chapters : pos'[d] \in Nat \cup {None}
  BY <1>3, <1>6, <1>7, <1>8
<1>10. pos' \in [Chapters -> Nat \cup {None}]
  BY <1>5, <1>9
<1>11. \A d \in Live : pos'[d] \in Nat
  BY <1>3, <1>7
<1>12. Live' = Live \cup {c}
  BY <1>1, <1>2, <1>3, <1>6, <1>8, <1>11 DEF Live
<1>. QED  BY <1>2, <1>3, <1>6, <1>7, <1>10, <1>12

LEMMA ForkKeeps ==
  ASSUME OrderInv, NEW k \in calls, NEW c \in Chapters, ForkChapter(k, c), UNCHANGED sent
  PROVE  OrderInv'
<1>1. CASE pos[k.chapter] = None
  BY <1>1, RefuseKeeps DEF ForkChapter
<1>2. CASE pos[k.chapter] # None
  <2>. DEFINE at == pos[k.chapter] + 1
  <2>1. /\ pos' = [Bumped(at) EXCEPT ![c] = at] /\ Done(k, [k EXCEPT !.order = <<c>>])
        /\ c \notin ids /\ ids' = ids \cup {c} /\ odd' = odd /\ k.op = "fork"
    BY <1>2 DEF ForkChapter
  <2>2. RowsInv /\ CallsInv /\ Formed(k) /\ TiesNeedPartialOrders /\ k.chapter \in Chapters
    BY <2>1 DEF OrderInv, CallsInv, Formed
  <2>3. PICK new : new = [k EXCEPT !.order = <<c>>]
    OBVIOUS
  <2>4. DOMAIN new = Fields /\ new.id = k.id /\ new.last = k.last /\ new.op = "fork" /\ new.chapter = k.chapter
    BY <2>1, <2>2, <2>3 DEF Formed, Fields
  <2>5. CallsInv' /\ rev' \in Nat
    BY <2>1, <2>2, <2>3, <2>4, DoneKeepsCalls DEF Formed
  <2>6. /\ pos' \in [Chapters -> Nat \cup {None}]
        /\ Live' = Live \cup {c} /\ c \notin Live
        /\ pos[k.chapter] \in Nat /\ pos'[c] = at
        /\ \A d \in Live : /\ d \in Chapters /\ pos[d] \in Nat
                           /\ pos'[d] = IF pos[d] >= at THEN pos[d] + 1 ELSE pos[d]
    BY <1>2, <2>1, <2>2, ForkPlaces
  <2>7. \E b \in Nat : \A d \in Live' : pos'[d] <= b
    <3>1. PICK b \in Nat : \A d \in Live : pos[d] <= b
      BY <2>2 DEF RowsInv
    <3>2. \A d \in Live' : pos'[d] <= b + at
      BY <2>6, <3>1
    <3>. QED  BY <2>6, <3>2
  <2>8. RowsInv'
    BY <2>1, <2>2, <2>5, <2>6, <2>7 DEF RowsInv
  <2>9. TiesNeedPartialOrders'
    <3>. SUFFICES ASSUME NEW a \in Live', NEW d \in Live', a # d, pos'[a] = pos'[d], odd' = {}
                  PROVE  FALSE
      BY DEF TiesNeedPartialOrders
    <3>1. \A e \in Live : pos'[e] # at
      BY <2>6
    <3>2. a \in Live /\ d \in Live
      BY <2>6, <3>1
    <3>3. pos[a] = pos[d]
      BY <2>6, <3>2
    <3>. QED  BY <2>1, <2>2, <3>2, <3>3 DEF TiesNeedPartialOrders
  <2>. QED  BY <2>5, <2>8, <2>9 DEF OrderInv
<1>. QED  BY <1>1, <1>2

LEMMA ReorderKeeps ==
  ASSUME OrderInv, NEW k \in calls, Reorder(k), UNCHANGED sent
  PROVE  OrderInv'
<1>1. CASE ~(k.order \in Seq(Chapters) /\ ToSet(k.order) \subseteq Live)
  BY <1>1, RefuseKeeps DEF Reorder
<1>2. CASE k.order \in Seq(Chapters) /\ ToSet(k.order) \subseteq Live
  <2>1. /\ pos' = Numbered(k.order) /\ ids' = ids /\ k.op = "reorder"
        /\ odd' = odd \cup (IF Live = ToSet(k.order) THEN {} ELSE {"partial"})
    BY <1>2 DEF Reorder
  <2>2. PICK q : Done(k, [k EXCEPT !.order = q])
    BY <1>2 DEF Reorder
  <2>3. RowsInv /\ CallsInv /\ Formed(k) /\ TiesNeedPartialOrders
    BY DEF OrderInv, CallsInv
  <2>4. PICK new : new = [k EXCEPT !.order = q]
    OBVIOUS
  <2>5. DOMAIN new = Fields /\ new.id = k.id /\ new.last = k.last /\ new.op = "reorder"
    BY <2>1, <2>3, <2>4 DEF Formed, Fields
  <2>6. CallsInv' /\ rev' \in Nat
    BY <2>2, <2>3, <2>4, <2>5, DoneKeepsCalls DEF Formed
  <2>7. DOMAIN k.order = 1..Len(k.order) /\ Len(k.order) \in Nat
    BY <1>2
  <2>8. \A c \in ToSet(k.order) : \E n \in DOMAIN k.order : k.order[n] = c /\ pos'[c] = n - 1
    BY <1>2, <2>1, NumberedPlaces
  <2>9. \A c \in Chapters \ ToSet(k.order) : pos'[c] = pos[c]
    BY <2>1, <2>7 DEF Numbered, Contains, ToSet
  <2>10. \A c \in ToSet(k.order) : c \in Live /\ pos'[c] \in Nat /\ pos'[c] <= Len(k.order)
    BY <1>2, <2>7, <2>8
  <2>11. pos' \in [Chapters -> Nat \cup {None}]
    <3>1. \A c \in Chapters : pos'[c] \in Nat \cup {None}
      BY <2>3, <2>9, <2>10 DEF RowsInv
    <3>2. pos' = [c \in Chapters |-> pos'[c]]
      BY <2>1 DEF Numbered
    <3>. QED  BY <3>1, <3>2
  <2>12. None \notin Nat
    BY ChapterOrderAssumption
  <2>13. Live' = Live
    BY <2>9, <2>10, <2>12 DEF Live
  <2>14. \E b \in Nat : \A c \in Live' : pos'[c] <= b
    <3>1. PICK b \in Nat : \A c \in Live : pos[c] <= b
      BY <2>3 DEF RowsInv
    <3>2. \A c \in Live : c \in Chapters /\ pos[c] \in Nat
      BY <2>3, LiveIsPlaced
    <3>3. \A c \in Live' : pos'[c] <= b + Len(k.order)
      <4>. TAKE c \in Live'
      <4>1. CASE c \in ToSet(k.order)
        BY <4>1, <2>7, <2>10
      <4>2. CASE c \notin ToSet(k.order)
        BY <4>2, <2>7, <2>9, <2>13, <3>1, <3>2
      <4>. QED  BY <4>1, <4>2
    <3>. QED  BY <2>7, <3>3
  <2>15. RowsInv'
    BY <2>1, <2>3, <2>6, <2>11, <2>13, <2>14 DEF RowsInv
  <2>16. TiesNeedPartialOrders'
    <3>. SUFFICES ASSUME NEW a \in Live', NEW d \in Live', a # d, pos'[a] = pos'[d], odd' = {}
                  PROVE  FALSE
      BY DEF TiesNeedPartialOrders
    <3>1. a \in ToSet(k.order) /\ d \in ToSet(k.order)
      BY <2>1, <2>13
    <3>2. PICK n \in DOMAIN k.order : k.order[n] = a /\ pos'[a] = n - 1
      BY <2>8, <3>1
    <3>3. PICK m \in DOMAIN k.order : k.order[m] = d /\ pos'[d] = m - 1
      BY <2>8, <3>1
    <3>4. n \in Nat /\ m \in Nat
      BY <2>7
    <3>5. n - 1 = m - 1
      BY <3>2, <3>3
    <3>6. n = m
      BY <3>4, <3>5
    <3>. QED  BY <3>2, <3>3, <3>6
  <2>. QED  BY <2>6, <2>15, <2>16 DEF OrderInv
<1>. QED  BY <1>1, <1>2

\* A request that takes the place of another without a change of the rows.
LEMMA AnsweredKeeps ==
  ASSUME OrderInv, NEW k \in calls, NEW new, Becomes(k, new), UNCHANGED <<pos, ids, rev, odd, sent>>,
         DOMAIN new = Fields, new.id = k.id, new.last \in Nat, new.rev \in Nat, new.stage # "read",
         new.op \in {"delete", "fork"} => new.chapter \in Chapters
  PROVE  OrderInv'
<1>1. Formed(new)' /\ ReadIsEnd(new)'
  BY DEF Formed, ReadIsEnd, OrderInv, CallsInv
<1>2. CallsInv'
  BY <1>1, CallReplaced DEF OrderInv, RowsInv
<1>3. RowsInv' /\ TiesNeedPartialOrders'
  BY DEF OrderInv, RowsInv, TiesNeedPartialOrders, Live
<1>. QED  BY <1>2, <1>3 DEF OrderInv

LEMMA GoneKeeps ==
  ASSUME OrderInv, NEW k, calls' = calls \ {k}, UNCHANGED <<pos, ids, rev, odd, sent>>
  PROVE  OrderInv'
<1>1. CallsInv'
  BY CallGone DEF OrderInv
<1>2. RowsInv' /\ TiesNeedPartialOrders'
  BY DEF OrderInv, RowsInv, TiesNeedPartialOrders, Live
<1>. QED  BY <1>1, <1>2 DEF OrderInv

LEMMA LoadKeeps ==
  ASSUME OrderInv, NEW k \in calls, LoadBook(k), UNCHANGED sent
  PROVE  OrderInv'
<1>1. PICK q : Becomes(k, [k EXCEPT !.stage = "ok", !.order = q, !.rev = rev])
  BY DEF LoadBook
<1>2. UNCHANGED <<pos, ids, rev, odd, sent>> /\ k.op = "load"
  BY DEF LoadBook, dbVars, past
<1>3. Formed(k) /\ rev \in Nat
  BY DEF OrderInv, CallsInv, RowsInv
<1>4. PICK new : new = [k EXCEPT !.stage = "ok", !.order = q, !.rev = rev]
  OBVIOUS
<1>5. /\ DOMAIN new = Fields /\ new.id = k.id /\ new.last = k.last /\ new.rev = rev
      /\ new.stage = "ok" /\ new.op = "load"
  BY <1>2, <1>3, <1>4 DEF Formed, Fields
<1>. QED  BY <1>1, <1>2, <1>3, <1>4, <1>5, AnsweredKeeps DEF Formed

LEMMA ServeKeeps ==
  ASSUME OrderInv, NEW k \in calls, Serve(k)
  PROVE  OrderInv'
<1>1. UNCHANGED sent
  BY DEF Serve
<1>. QED  BY <1>1, CreateReadKeeps, DeleteKeeps, ReorderKeeps, LoadKeeps, CreateInsertKeeps, ForkKeeps
          DEF Serve

LEMMA ReceiveKeeps ==
  ASSUME OrderInv, NEW k \in calls, Receive(k)
  PROVE  OrderInv'
<1>1. UNCHANGED <<pos, ids, rev, odd, sent>>
  BY DEF Receive, dbVars, past
<1>2. Formed(k)
  BY DEF OrderInv, CallsInv
<1>3. CASE Created(k)
  <2>1. CASE k.more > 0
    <3>1. PICK new : new = [k EXCEPT !.stage = "sent", !.more = @ - 1, !.chapter = None,
                                     !.order = Append(@, k.chapter)]
      OBVIOUS
    <3>2. Becomes(k, new) /\ k.op = "create"
      BY <1>3, <2>1, <3>1 DEF Created
    <3>3. /\ DOMAIN new = Fields /\ new.id = k.id /\ new.last = k.last /\ new.rev = k.rev
          /\ new.stage = "sent" /\ new.op = "create"
      BY <1>2, <3>1, <3>2 DEF Formed, Fields
    <3>. QED  BY <1>1, <1>2, <3>2, <3>3, AnsweredKeeps DEF Formed
  <2>2. CASE ~(k.more > 0)
    BY <1>1, <1>3, <2>2, GoneKeeps DEF Created, Takes
  <2>. QED  BY <2>1, <2>2
<1>4. CASE Deleted(k)
  BY <1>1, <1>4, GoneKeeps DEF Deleted, Takes
<1>5. CASE Forked(k)
  <2>1. PICK new : new = [k EXCEPT !.op = "load", !.stage = "sent", !.chapter = None, !.order = <<>>]
    OBVIOUS
  <2>2. Becomes(k, new)
    BY <1>5, <2>1 DEF Forked
  <2>3. /\ DOMAIN new = Fields /\ new.id = k.id /\ new.last = k.last /\ new.rev = k.rev
        /\ new.stage = "sent" /\ new.op = "load"
    BY <1>2, <2>1 DEF Formed, Fields
  <2>. QED  BY <1>1, <1>2, <2>2, <2>3, AnsweredKeeps DEF Formed
<1>6. CASE Listed(k)
  BY <1>1, <1>6, GoneKeeps DEF Listed, TakesOver
<1>7. CASE Refused(k)
  BY <1>1, <1>7, GoneKeeps DEF Refused
<1>. QED  BY <1>3, <1>4, <1>5, <1>6, <1>7 DEF Receive

LEMMA OrderStep == OrderInv /\ [Next]_vars => OrderInv'
<1>. SUFFICES ASSUME OrderInv, [Next]_vars
              PROVE  OrderInv'
  OBVIOUS
<1>1. ASSUME NEW p \in Pages, NEW more, Add(p, more)
      PROVE  OrderInv'
  BY <1>1, AskKeeps DEF Add
<1>2. ASSUME NEW p \in Pages, NEW c \in Chapters, Delete(p, c)
      PROVE  OrderInv'
  BY <1>2, AskKeeps DEF Delete
<1>3. ASSUME NEW p \in Pages, NEW c \in Chapters, Fork(p, c)
      PROVE  OrderInv'
  BY <1>3, AskKeeps DEF Fork
<1>4. ASSUME NEW p \in Pages, NEW g, NEW from, NEW to, Drag(p, g, from, to)
      PROVE  OrderInv'
  <2>1. PICK q : Ask(p, "reorder", None, q, 0)
    BY <1>4 DEF Drag
  <2>. QED  BY <2>1, AskKeeps
<1>5. ASSUME NEW p \in Pages, Reload(p)
      PROVE  OrderInv'
  BY <1>5, ReloadKeeps
<1>6. ASSUME NEW k \in calls, Serve(k)
      PROVE  OrderInv'
  BY <1>6, ServeKeeps
<1>7. ASSUME NEW k \in calls, Receive(k)
      PROVE  OrderInv'
  BY <1>7, ReceiveKeeps
<1>8. ASSUME NEW k \in calls, Lose(k)
      PROVE  OrderInv'
  BY <1>8, GoneKeeps DEF Lose, dbVars, past
<1>9. CASE UNCHANGED vars
  BY <1>9 DEF OrderInv, RowsInv, CallsInv, Formed, ReadIsEnd, TiesNeedPartialOrders, Live,
              vars, dbVars, past
<1>. QED  BY <1>1, <1>2, <1>3, <1>4, <1>5, <1>6, <1>7, <1>8, <1>9 DEF Next

\* The positions stay numbers, and no request reads a position but the last.
LEMMA OrderAlways == Spec => []OrderInv
BY OrderInit, OrderStep, PTL DEF Spec

\* Two chapters share a position only after an order that left one out or a
\* creation that another change overlapped (chapters.py:262-264), whatever
\* the pages send.
THEOREM TiesNeedOddities == Spec => []TiesNeedPartialOrders
<1>1. OrderInv => TiesNeedPartialOrders
  BY DEF OrderInv
<1>. QED  BY <1>1, OrderAlways, PTL


\* A step of the server or of a page on one request leaves the others alone.
LEMMA OthersStay ==
  ASSUME OrderInv, NEW m \in calls, Serve(m) \/ Receive(m), NEW n \in calls'
  PROVE  n \in calls \/ n.id = m.id
<1>1. Formed(m)
  BY DEF OrderInv, CallsInv
<1>2. ASSUME NEW f, n = [f EXCEPT !.stage = "ok", !.rev = rev + 1, !.start = IF @ = 0 THEN rev + 1 ELSE @],
             DOMAIN f = Fields, f.id = m.id
      PROVE  n.id = m.id
  BY <1>2 DEF Fields
<1>3. ASSUME NEW f, Done(m, f), DOMAIN f = Fields, f.id = m.id
      PROVE  n \in calls \/ n.id = m.id
  BY <1>2, <1>3 DEF Done, Becomes
<1>4. ASSUME Refuse(m)
      PROVE  n \in calls \/ n.id = m.id
  BY <1>1, <1>4 DEF Refuse, Becomes, Formed, Fields
<1>5. CASE Serve(m)
  <2>1. CASE CreateRead(m)
    BY <1>1, <2>1 DEF CreateRead, Becomes, Formed, Fields
  <2>2. CASE DeleteChapter(m)
    BY <1>1, <1>3, <1>4, <2>2 DEF DeleteChapter, Formed
  <2>3. CASE Reorder(m)
    <3>1. \A q : DOMAIN [m EXCEPT !.order = q] = Fields /\ [m EXCEPT !.order = q].id = m.id
      BY <1>1 DEF Formed, Fields
    <3>. QED  BY <1>3, <1>4, <2>3, <3>1 DEF Reorder
  <2>4. CASE LoadBook(m)
    BY ZenonT(40), <1>1, <2>4 DEF LoadBook, Becomes, Formed, Fields
  <2>5. ASSUME NEW c \in Chapters, CreateInsert(m, c)
        PROVE  n \in calls \/ n.id = m.id
    <3>1. DOMAIN [m EXCEPT !.chapter = c] = Fields /\ [m EXCEPT !.chapter = c].id = m.id
      BY <1>1 DEF Formed, Fields
    <3>. QED  BY <1>3, <2>5, <3>1 DEF CreateInsert
  <2>6. ASSUME NEW c \in Chapters, ForkChapter(m, c)
        PROVE  n \in calls \/ n.id = m.id
    <3>1. DOMAIN [m EXCEPT !.order = <<c>>] = Fields /\ [m EXCEPT !.order = <<c>>].id = m.id
      BY <1>1 DEF Formed, Fields
    <3>. QED  BY <1>3, <1>4, <2>6, <3>1 DEF ForkChapter
  <2>. QED  BY <1>5, <2>1, <2>2, <2>3, <2>4, <2>5, <2>6 DEF Serve
<1>6. CASE Receive(m)
  <2>1. CASE Created(m)
    BY ZenonT(40), <1>1, <2>1 DEF Created, Takes, Becomes, Formed, Fields
  <2>2. CASE Deleted(m) \/ Listed(m) \/ Refused(m)
    BY <2>2 DEF Deleted, Listed, Refused, Takes, TakesOver
  <2>3. CASE Forked(m)
    BY <1>1, <2>3 DEF Forked, Becomes, Formed, Fields
  <2>. QED  BY <1>6, <2>1, <2>2, <2>3 DEF Receive
<1>. QED  BY <1>5, <1>6

\* Only the step that forks answers a fork that was sent.
LEMMA OnlyForkAnswers ==
  ASSUME OrderInv, Next, NEW k \in calls, NEW n \in calls',
         k.id = n.id, k.op = "fork", k.stage = "sent", n.stage = "ok"
  PROVE  Serve(k)
<1>1. \A m \in calls : m.id = k.id => m = k
  BY DEF OrderInv, CallsInv
<1>2. n \notin calls
  BY <1>1
<1>3. Formed(k) /\ sent \in Nat /\ k.id # sent + 1
  BY DEF OrderInv, CallsInv, Formed, RowsInv
<1>4. ASSUME NEW p, NEW op, NEW chapter, NEW order, NEW more, Ask(p, op, chapter, order, more)
      PROVE  FALSE
  BY <1>2, <1>3, <1>4 DEF Ask
<1>5. ASSUME NEW p \in Pages, Reload(p)
      PROVE  FALSE
  <2>. DEFINE left(m) == [m EXCEPT !.page = IF @ = p THEN None ELSE @]
  <2>1. \A m \in calls : left(m).id = m.id /\ left(m).stage = m.stage
    BY DEF OrderInv, CallsInv, Formed, Fields
  <2>2. n.id = sent + 1 \/ \E m \in calls : n = left(m)
    BY <1>5 DEF Reload
  <2>. HIDE DEF left
  <2>. QED  BY <1>1, <1>3, <2>1, <2>2
<1>6. ASSUME NEW p \in Pages, NEW g, NEW from, NEW to, Drag(p, g, from, to)
      PROVE  FALSE
  <2>1. PICK q : Ask(p, "reorder", None, q, 0)
    BY <1>6 DEF Drag
  <2>. QED  BY <1>4, <2>1
<1>7. ASSUME NEW m \in calls, Serve(m) \/ Receive(m)
      PROVE  m = k
  <2>1. n.id = m.id
    BY <1>2, <1>7, OthersStay
  <2>. QED  BY <1>1, <2>1
<1>8. ASSUME NEW m \in calls, Lose(m)
      PROVE  FALSE
  BY <1>2, <1>8 DEF Lose
<1>9. ~Receive(k)
  BY DEF Receive, Created, Deleted, Forked, Listed, Refused
<1>10. \/ \E p \in Pages : \/ \E more \in 0..1 : Add(p, more)
                           \/ \E c \in Chapters : Delete(p, c) \/ Fork(p, c)
                           \/ \E g, from, to : Drag(p, g, from, to)
                           \/ Reload(p)
       \/ \E m \in calls : Serve(m) \/ Receive(m) \/ Lose(m)
  BY DEF Next
<1>. QED  BY <1>4, <1>5, <1>6, <1>7, <1>8, <1>9, <1>10 DEF Add, Delete, Fork

\* A fork that is answered stands right behind its source, whatever gaps and
\* ties the calls before left behind (chapters.py:243-244): the first half of
\* PlacedAsAsked.
LEMMA ForkStep == OrderInv /\ [Next]_vars => [ForkFollowsSource]_vars
<1>. SUFFICES ASSUME OrderInv, Next, NEW k \in calls, NEW n \in calls',
                     k.id = n.id, k.op = "fork", k.stage = "sent", n.stage = "ok",
                     NEW d \in Live' \ ToSet(n.order)
              PROVE  ~(pos[k.chapter] < pos'[d] /\ pos'[d] <= pos'[n.order[1]])
  BY DEF ForkFollowsSource
<1>1. /\ RowsInv /\ Formed(k) /\ k.chapter \in Chapters
      /\ \A m \in calls : m.id = k.id => m = k
  BY DEF OrderInv, CallsInv, Formed
<1>2. PICK c \in Chapters : ForkChapter(k, c)
  <2>1. Serve(k)
    BY OnlyForkAnswers
  <2>. QED  BY <2>1 DEF Serve, CreateRead, DeleteChapter, Reorder, LoadBook, CreateInsert
<1>3. n # k /\ n \notin calls
  BY <1>1
<1>4. pos[k.chapter] # None
  <2>1. ASSUME Refuse(k)
        PROVE  n.stage = "refused"
    BY <1>1, <1>3, <2>1 DEF Refuse, Becomes, Formed, Fields
  <2>. QED  BY <1>2, <2>1 DEF ForkChapter
<1>5. /\ c \notin ids /\ pos' = [Bumped(pos[k.chapter] + 1) EXCEPT ![c] = pos[k.chapter] + 1]
      /\ Done(k, [k EXCEPT !.order = <<c>>])
  BY <1>2, <1>4 DEF ForkChapter
<1>6. n.order = <<c>>
  <2>1. PICK f : f = [k EXCEPT !.order = <<c>>]
    OBVIOUS
  <2>2. DOMAIN f = Fields /\ f.order = <<c>>
    BY <1>1, <2>1 DEF Formed, Fields
  <2>3. n = [f EXCEPT !.stage = "ok", !.rev = rev + 1, !.start = IF @ = 0 THEN rev + 1 ELSE @]
    BY <1>3, <1>5, <2>1 DEF Done, Becomes
  <2>. QED  BY <2>2, <2>3 DEF Fields
<1>7. /\ Live' = Live \cup {c} /\ pos[k.chapter] \in Nat /\ pos'[c] = pos[k.chapter] + 1
      /\ \A e \in Live : /\ pos[e] \in Nat
                         /\ pos'[e] = IF pos[e] >= pos[k.chapter] + 1 THEN pos[e] + 1 ELSE pos[e]
  BY <1>1, <1>4, <1>5, ForkPlaces
<1>8. n.order[1] = c /\ d # c
  BY <1>6 DEF ToSet
<1>9. d \in Live
  BY <1>7, <1>8
<1>. QED  BY <1>7, <1>8, <1>9

\* In every step that answers a fork, the copy is right behind its source.
THEOREM ForksFollowSource == Spec => [][ForkFollowsSource]_vars
BY OrderAlways, ForkStep, PTL DEF Spec

=============================================================================
