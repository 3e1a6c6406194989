--------------------------- MODULE ChapterSaveProofs ---------------------------
(***************************************************************************)
(* Theorems about ChapterSave, for any sets of pages and edits and any     *)
(* bounds on requests, snapshots and leaves.                               *)
(***************************************************************************)
EXTENDS ChapterSave, SequenceTheorems, TLAPS

Kinds == {"save", "orphan", "keepalive", "keep", "rename", "sync"}
Stages == {"sent", "checked", "stored", "ok", "conflict"}

-----------------------------------------------------------------------------
(* Requests                                                                *)

\* What the fields of a request may hold.
LEMMA RequestFields ==
  ASSUME NEW r \in Request
  PROVE  /\ r.id \in Nat /\ r.page \in Pages /\ r.kind \in Kinds /\ r.text \in Texts
         /\ r.shown \in Texts /\ r.expect \in Nat /\ r.stage \in Stages
         /\ r.read \in Texts /\ r.result \in Nat
  BY DEF Request, Kinds, Stages

\* n is r further on its way.
Same(n, r) ==
  /\ n.id = r.id /\ n.page = r.page /\ n.kind = r.kind /\ n.text = r.text
  /\ n.shown = r.shown /\ n.expect = r.expect

\* What Send adds.
Sending(n, p, kind, t, expect, shown) ==
  /\ n.id = sent + 1 /\ n.page = p /\ n.kind = kind /\ n.text = t /\ n.shown = shown
  /\ n.expect = expect /\ n.stage = "sent"

LEMMA Sends ==
  ASSUME SaveTypeOK, NEW p \in Pages, NEW kind \in Kinds, NEW t \in Texts, NEW expect \in Nat,
         NEW shown \in Texts, Send(p, kind, t, expect, shown), MaxSends \in Nat
  PROVE  /\ sent + 1 \in 0..MaxSends /\ sent' = sent + 1
         /\ \E n \in Request : Sending(n, p, kind, t, expect, shown) /\ requests' = requests \cup {n}
<1>1. sent \in 0..MaxSends /\ sent + 1 \in 0..MaxSends  BY DEF SaveTypeOK, Send
<1>. DEFINE n == [id |-> sent + 1, page |-> p, kind |-> kind, text |-> t, shown |-> shown,
                  expect |-> expect, stage |-> "sent", read |-> {}, result |-> 0]
<1>2. {} \in Texts  BY DEF Texts
<1>3. n \in Request  BY <1>1, <1>2 DEF Request, Kinds
<1>4. Sending(n, p, kind, t, expect, shown)  BY DEF Sending
<1>5. requests' = requests \cup {n} /\ sent' = sent + 1  BY DEF Send
<1>. QED  BY <1>1, <1>3, <1>4, <1>5

\* The edits of two texts make a text.
LEMMA TextUnion ==
  ASSUME NEW a \in Texts, NEW b \in Texts
  PROVE  a \cup b \in Texts
  BY DEF Texts

-----------------------------------------------------------------------------
(* The history                                                             *)

\* The last Retention snapshots are a suffix of the history.
LEMMA TrimProperties ==
  ASSUME ChapterSaveAssumption, NEW S, NEW s \in Seq(S)
  PROVE  /\ Trim(s) \in Seq(S)
         /\ Len(Trim(s)) = IF Len(s) > Retention THEN Retention ELSE Len(s)
         /\ \A i \in 1..Len(Trim(s)) : /\ Trim(s)[i] = s[i + Len(s) - Len(Trim(s))]
                                       /\ i + Len(s) - Len(Trim(s)) \in 1..Len(s)
<1>. DEFINE m == IF Len(s) > Retention THEN Len(s) - Retention + 1 ELSE 1
<1>1. Len(s) \in Nat /\ Retention \in Nat \ {0}
  BY LenProperties DEF ChapterSaveAssumption
<1>2. m \in Nat /\ m >= 1 /\ \A i \in m..Len(s) : s[i] \in S
  BY <1>1, ElementOfSeq
<1>3. Trim(s) = SubSeq(s, m, Len(s))  BY DEF Trim
<1>4. /\ Trim(s) \in Seq(S)
      /\ Len(Trim(s)) = IF m <= Len(s) THEN Len(s) - m + 1 ELSE 0
      /\ \A i \in 1..Len(s) - m + 1 : Trim(s)[i] = s[m + i - 1]
  <2>. HIDE DEF m
  <2>. QED  BY <1>1, <1>2, <1>3, SubSeqProperties
<1>8. m \in 1..Len(s) + 1 /\ Len(s) - m + 1 = IF Len(s) > Retention THEN Retention ELSE Len(s)
  BY <1>1
<1>. HIDE DEF m
<1>6. Len(Trim(s)) = Len(s) - m + 1  BY <1>1, <1>4, <1>8
<1>5. Len(Trim(s)) = IF Len(s) > Retention THEN Retention ELSE Len(s)
  BY <1>6, <1>8
<1>7. ASSUME NEW i \in 1..Len(Trim(s))
      PROVE  /\ Trim(s)[i] = s[i + Len(s) - Len(Trim(s))]
             /\ i + Len(s) - Len(Trim(s)) \in 1..Len(s)
  <2>1. i \in 1..Len(s) - m + 1  BY <1>6
  <2>2. i + Len(s) - Len(Trim(s)) = m + i - 1 /\ m + i - 1 \in 1..Len(s)  BY <1>1, <1>6, <1>8, <2>1
  <2>. QED  BY <1>4, <2>1, <2>2
<1>. QED  BY <1>4, <1>5, <1>7

\* A snapshot goes to the end of the history.
LEMMA AppendSnapshot ==
  ASSUME NEW S, NEW s \in Seq(S), NEW x \in S
  PROVE  /\ Append(s, x) \in Seq(S) /\ Len(Append(s, x)) = Len(s) + 1
         /\ Append(s, x)[Len(s) + 1] = x
         /\ \A i \in 1..Len(s) : Append(s, x)[i] = s[i]
  BY AppendProperties

\* What Store and the trim leave: every snapshot was there or is of the row
\* as it was read; the last one is the new one.
LEMMA StoreKeeps ==
  ASSUME ChapterSaveAssumption, SaveTypeOK, NEW read \in Texts, NEW was \in Nat, NEW new \in Texts,
         NEW trims \in BOOLEAN, Store(read, was, new, trims)
  PROVE  /\ snaps' \in Seq(Snapshot) /\ content' \in Texts /\ version' \in Nat
         /\ committed' \subseteq Snapshot
         /\ content' = new /\ version' = was + 1
         /\ committed' = committed \cup {[version |-> was + 1, text |-> new]}
         /\ Len(snaps') >= 1 /\ Len(snaps') <= Len(snaps) + 1
         /\ trims => Len(snaps') <= Retention
         /\ \A i \in 1..Len(snaps') :
              LET k == i + Len(snaps) + 1 - Len(snaps')
              IN  /\ k \in 1..Len(snaps) + 1
                  /\ snaps'[i] = IF k = Len(snaps) + 1 THEN [version |-> was, text |-> read]
                                                       ELSE snaps[k]
<1>. DEFINE x == [version |-> was, text |-> read]
            s == Append(snaps, x)
<1>1. x \in Snapshot /\ [version |-> was + 1, text |-> new] \in Snapshot  BY DEF Snapshot
<1>2. snaps \in Seq(Snapshot) /\ committed \subseteq Snapshot  BY DEF SaveTypeOK
<1>3. /\ s \in Seq(Snapshot) /\ Len(s) = Len(snaps) + 1 /\ s[Len(snaps) + 1] = x
      /\ \A i \in 1..Len(snaps) : s[i] = snaps[i]
  <2>. HIDE DEF x
  <2>. QED  BY <1>1, <1>2, AppendSnapshot
<1>4. Len(snaps) \in Nat  BY <1>2, LenProperties
<1>5. /\ Trim(s) \in Seq(Snapshot)
      /\ Len(Trim(s)) = IF Len(s) > Retention THEN Retention ELSE Len(s)
      /\ \A i \in 1..Len(Trim(s)) : /\ Trim(s)[i] = s[i + Len(s) - Len(Trim(s))]
                                    /\ i + Len(s) - Len(Trim(s)) \in 1..Len(s)
  <2>. HIDE DEF s
  <2>. QED  BY <1>3, TrimProperties
<1>6. snaps' = (IF trims THEN Trim(s) ELSE s)  BY DEF Store
<1>7. /\ content' = new /\ version' = was + 1
      /\ committed' = committed \cup {[version |-> was + 1, text |-> new]}
  BY DEF Store
<1>8. Retention \in Nat \ {0}  BY DEF ChapterSaveAssumption
<1>9. ASSUME NEW i \in 1..Len(s)
      PROVE  s[i] = IF i = Len(snaps) + 1 THEN x ELSE snaps[i]
  <2>. HIDE DEF s, x
  <2>. QED  BY <1>3, <1>4
<1>10. /\ snaps' \in Seq(Snapshot) /\ Len(snaps') >= 1 /\ Len(snaps') <= Len(snaps) + 1
       /\ trims => Len(snaps') <= Retention
  <2>. HIDE DEF s, x
  <2>. QED  BY <1>3, <1>4, <1>5, <1>6, <1>8
<1>11. ASSUME NEW i \in 1..Len(snaps')
       PROVE  /\ i + Len(snaps) + 1 - Len(snaps') \in 1..Len(snaps) + 1
              /\ snaps'[i] = s[i + Len(snaps) + 1 - Len(snaps')]
  <2>. HIDE DEF s, x
  <2>1. CASE trims
    <3>1. snaps' = Trim(s)  BY <1>6, <2>1
    <3>2. i \in 1..Len(Trim(s))  BY <3>1
    <3>5. Len(snaps') = Len(Trim(s)) /\ Len(Trim(s)) \in Nat  BY <1>5, <3>1, LenProperties
    <3>6. ASSUME NEW a \in Nat, NEW b \in Nat, NEW c \in Nat, NEW d \in Nat, b = c + 1
          PROVE  a + c + 1 - d = a + b - d
      BY <3>6
    <3>3. i + Len(snaps) + 1 - Len(snaps') = i + Len(s) - Len(Trim(s))
      BY <1>3, <1>4, <3>2, <3>5, <3>6
    <3>4. /\ Trim(s)[i] = s[i + Len(s) - Len(Trim(s))]
          /\ i + Len(s) - Len(Trim(s)) \in 1..Len(s)
      BY <1>5, <3>2
    <3>. QED  BY <1>3, <3>1, <3>3, <3>4
  <2>2. CASE ~trims
    <3>1. snaps' = s  BY <1>6, <2>2
    <3>2. i + Len(snaps) + 1 - Len(snaps') = i  BY <1>3, <1>4, <3>1
    <3>. QED  BY <1>3, <1>4, <3>1, <3>2
  <2>. QED  BY <2>1, <2>2
<1>12. ASSUME NEW i \in 1..Len(snaps')
       PROVE  LET k == i + Len(snaps) + 1 - Len(snaps')
              IN  /\ k \in 1..Len(snaps) + 1
                  /\ snaps'[i] = IF k = Len(snaps) + 1 THEN x ELSE snaps[k]
  <2>. HIDE DEF s, x
  <2>. QED  BY <1>3, <1>9, <1>11
<1>. QED  BY <1>1, <1>2, <1>7, <1>10, <1>12

-----------------------------------------------------------------------------
(* What the server does with a request                                     *)

LEMMA RequestIn ==
  ASSUME SaveTypeOK, NEW r \in requests
  PROVE  /\ r \in Request
         /\ r.id \in Nat /\ r.page \in Pages /\ r.kind \in Kinds /\ r.text \in Texts
         /\ r.shown \in Texts /\ r.expect \in Nat /\ r.stage \in Stages
         /\ r.read \in Texts /\ r.result \in Nat
         /\ Written(r) \in Texts
<1>1. r \in Request /\ content \in Texts  BY DEF SaveTypeOK
<1>. QED  BY <1>1, RequestFields DEF Written

LEMMA ConflictSteps ==
  ASSUME SaveTypeOK, NEW r \in requests, Conflict(r)
  PROVE  \E n \in Request : /\ requests' = (requests \ {r}) \cup {n} /\ Same(n, r)
                            /\ n.stage = "conflict" /\ n.read = content /\ n.result = version
<1>1. r \in Request /\ content \in Texts /\ version \in Nat  BY DEF SaveTypeOK
<1>. DEFINE n == [r EXCEPT !.stage = "conflict", !.read = content, !.result = version]
<1>2. n \in Request /\ Same(n, r) /\ n.stage = "conflict" /\ n.read = content /\ n.result = version
  BY <1>1 DEF Request, Same, Stages
<1>3. requests' = (requests \ {r}) \cup {n}  BY DEF Conflict, Becomes
<1>. QED  BY <1>2, <1>3

LEMMA HandleSteps ==
  ASSUME SaveTypeOK, NEW r \in requests, Handle(r)
  PROVE  \E n \in Request :
           /\ requests' = (requests \ {r}) \cup {n} /\ Same(n, r)
           /\ \/ /\ Accepts(r) /\ n.stage = "ok" /\ n.result = version + 1
                 /\ Store(content, version, Written(r), TRUE)
              \/ /\ ~Accepts(r) /\ n.stage = "conflict" /\ n.read = content /\ n.result = version
                 /\ UNCHANGED rowVars
<1>1. r \in Request /\ content \in Texts /\ version \in Nat /\ version + 1 \in Nat
  BY DEF SaveTypeOK
<1>2. CASE Accepts(r)
  <2>. DEFINE n == [r EXCEPT !.stage = "ok", !.read = content, !.result = version + 1]
  <2>1. n \in Request /\ Same(n, r) /\ n.stage = "ok" /\ n.result = version + 1
    BY <1>1 DEF Request, Same, Stages
  <2>2. requests' = (requests \ {r}) \cup {n} /\ Store(content, version, Written(r), TRUE)
    BY <1>2 DEF Handle, Becomes
  <2>. QED  BY <1>2, <2>1, <2>2
<1>3. CASE ~Accepts(r)
  <2>1. Conflict(r) /\ UNCHANGED rowVars  BY <1>3 DEF Handle
  <2>. QED  BY <1>3, <2>1, ConflictSteps
<1>. QED  BY <1>2, <1>3

LEMMA CheckSteps ==
  ASSUME SaveTypeOK, NEW r \in requests, Check(r)
  PROVE  \E n \in Request :
           /\ requests' = (requests \ {r}) \cup {n} /\ Same(n, r)
           /\ \/ Accepts(r) /\ n.stage = "checked" /\ n.read = content
              \/ n.stage = "conflict" /\ n.read = content /\ n.result = version
<1>1. r \in Request /\ content \in Texts  BY DEF SaveTypeOK
<1>2. CASE Accepts(r)
  <2>. DEFINE n == [r EXCEPT !.stage = "checked", !.read = content]
  <2>1. n \in Request /\ Same(n, r) /\ n.stage = "checked" /\ n.read = content
    BY <1>1 DEF Request, Same, Stages
  <2>2. requests' = (requests \ {r}) \cup {n}  BY <1>2 DEF Check, Becomes
  <2>. QED  BY <1>2, <2>1, <2>2
<1>3. CASE ~Accepts(r)
  <2>1. Conflict(r)  BY <1>3 DEF Check
  <2>. QED  BY <2>1, ConflictSteps
<1>. QED  BY <1>2, <1>3

LEMMA CommitSteps ==
  ASSUME SaveTypeOK, NEW r \in requests, Commit(r)
  PROVE  \E n \in Request :
           /\ requests' = (requests \ {r}) \cup {n} /\ Same(n, r)
           /\ n.stage = "stored" /\ n.result = r.expect + 1
<1>1. r \in Request /\ r.expect + 1 \in Nat  BY RequestIn
<1>. DEFINE n == [r EXCEPT !.stage = "stored", !.result = r.expect + 1]
<1>2. n \in Request /\ Same(n, r) /\ n.stage = "stored" /\ n.result = r.expect + 1
  BY <1>1 DEF Request, Same, Stages
<1>3. requests' = (requests \ {r}) \cup {n}  BY DEF Commit, Becomes
<1>. QED  BY <1>2, <1>3

LEMMA TrimSteps ==
  ASSUME SaveTypeOK, NEW r \in requests, TrimVersions(r)
  PROVE  \E n \in Request :
           /\ requests' = (requests \ {r}) \cup {n} /\ Same(n, r)
           /\ n.stage = "ok" /\ n.result = r.result
<1>1. r \in Request  BY RequestIn
<1>. DEFINE n == [r EXCEPT !.stage = "ok"]
<1>2. n \in Request /\ Same(n, r) /\ n.stage = "ok" /\ n.result = r.result
  BY <1>1 DEF Request, Same, Stages
<1>3. requests' = (requests \ {r}) \cup {n}  BY DEF TrimVersions, Becomes
<1>. QED  BY <1>2, <1>3

-----------------------------------------------------------------------------
(* Type correctness                                                        *)

RowTyped ==
  /\ content \in Texts /\ version \in Nat
  /\ snaps \in Seq(Snapshot) /\ committed \subseteq Snapshot

NetTyped == requests \subseteq Request /\ sent \in 0..MaxSends

PagesTyped ==
  /\ page \in [Pages -> {"open", "away", "closed"}]
  /\ text \in [Pages -> Texts] /\ saved \in [Pages -> Texts]
  /\ loaded \in [Pages -> Texts \cup {None}]
  /\ ver \in [Pages -> Nat]
  /\ timer \in [Pages -> Pending \cup {None}]
  /\ draftTimer \in [Pages -> Texts \cup {None}] /\ draft \in [Pages -> Texts \cup {None}]
  /\ flying \in [Pages -> 0..MaxSends]
  /\ dialog \in [Pages -> Refusal \cup {None}]
  /\ failed \in [Pages -> Pending \cup {None}]
  /\ status \in [Pages -> {"idle", "saving", "saved", "error"}]
  /\ flushed \in [Pages -> Texts] /\ forgone \in [Pages -> Texts] /\ leaves \in 0..MaxLeaves

LEMMA TypedInParts == SaveTypeOK <=> RowTyped /\ NetTyped /\ PagesTyped
  BY DEF SaveTypeOK, RowTyped, NetTyped, PagesTyped

\* What a pending save and a dialog hold.
LEMMA PendingFields ==
  ASSUME NEW x \in Pending
  PROVE  x.text \in Texts /\ x.ver \in Nat
  BY DEF Pending

LEMMA RefusalFields ==
  ASSUME NEW x \in Refusal
  PROVE  x.local \in Texts /\ x.server \in Texts /\ x.ver \in Nat
  BY DEF Refusal

\* A save that starts adds at most one request.
LEMMA UpdateType ==
  ASSUME SaveTypeOK, NEW p \in Pages, NEW kind \in Kinds, NEW t \in Texts, NEW expect \in Nat,
         NEW shown \in Texts, Update(p, kind, t, expect, shown), MaxSends \in Nat
  PROVE  NetTyped' /\ flying' \in [Pages -> 0..MaxSends]
<1>1. /\ sent + 1 \in 0..MaxSends /\ sent' = sent + 1
      /\ \E n \in Request : requests' = requests \cup {n}
  BY Sends DEF Update
<1>2. requests \subseteq Request /\ flying \in [Pages -> 0..MaxSends]  BY DEF SaveTypeOK
<1>3. flying' = [flying EXCEPT ![p] = sent + 1]  BY DEF Update
<1>. QED  BY <1>1, <1>2, <1>3 DEF NetTyped

LEMMA PerformSaveType ==
  ASSUME SaveTypeOK, NEW p \in Pages, NEW captured \in Pending, PerformSave(p, captured),
         MaxSends \in Nat
  PROVE  /\ NetTyped' /\ flying' \in [Pages -> 0..MaxSends]
         /\ status' \in [Pages -> {"idle", "saving", "saved", "error"}]
<1>1. captured.text \in Texts /\ captured.ver \in Nat /\ {} \in Texts
  BY PendingFields DEF Texts
<1>2. status \in [Pages -> {"idle", "saving", "saved", "error"}] /\ NetTyped
      /\ flying \in [Pages -> 0..MaxSends]
  BY DEF SaveTypeOK, NetTyped
<1>3. CASE captured.text = saved[p]
  BY <1>2, <1>3 DEF PerformSave, netVars, NetTyped
<1>4. CASE captured.text # saved[p]
  <2>1. Update(p, "save", captured.text, captured.ver, {})  BY <1>4 DEF PerformSave
  <2>2. NetTyped' /\ flying' \in [Pages -> 0..MaxSends]
    BY <1>1, <2>1, UpdateType DEF Kinds
  <2>. QED  BY <1>2, <1>4, <2>2 DEF PerformSave
<1>. QED  BY <1>3, <1>4

\* What Show leaves.
LEMMA ShowType ==
  ASSUME SaveTypeOK, NEW p \in Pages, NEW t \in Texts, Show(p, t)
  PROVE  /\ text' \in [Pages -> Texts] /\ saved' \in [Pages -> Texts]
         /\ loaded' \in [Pages -> Texts \cup {None}]
  BY DEF SaveTypeOK, Show

LEMMA MountType ==
  ASSUME SaveTypeOK, NEW p \in Pages, NEW t \in Texts, Mount(p, t)
  PROVE  /\ page' \in [Pages -> {"open", "away", "closed"}]
         /\ text' \in [Pages -> Texts] /\ saved' \in [Pages -> Texts]
         /\ loaded' \in [Pages -> Texts \cup {None}] /\ draft' \in [Pages -> Texts \cup {None}]
         /\ status' \in [Pages -> {"idle", "saving", "saved", "error"}]
  BY DEF SaveTypeOK, Mount

\* Every step keeps the types.
LEMMA TypeStep ==
  ASSUME ChapterSaveAssumption, SaveTypeOK, [Next]_vars
  PROVE  SaveTypeOK'
<1>. MaxSends \in Nat /\ MaxLeaves \in Nat  BY DEF ChapterSaveAssumption
<1>. RowTyped /\ NetTyped /\ PagesTyped  BY TypedInParts
<1>. {} \in Texts  BY DEF Texts
<1>. USE DEF rowVars, netVars, bookVars, textVars, timers, saveVars, past
<1>. SUFFICES RowTyped' /\ NetTyped' /\ PagesTyped'
  BY DEF SaveTypeOK, RowTyped, NetTyped, PagesTyped
<1>1. ASSUME NEW r \in requests, Handle(r)
       PROVE  RowTyped' /\ NetTyped' /\ PagesTyped'
  <2>0. r \in Request  BY RequestIn
  <2>1. /\ r.page \in Pages /\ r.text \in Texts /\ r.expect \in Nat /\ r.read \in Texts
        /\ r.result \in Nat /\ Written(r) \in Texts /\ r.id \in Nat
    BY RequestIn
  <2>2. NetTyped'
    <3>1. PICK n \in Request : requests' = (requests \ {r}) \cup {n}  BY <1>1, HandleSteps
    <3>. QED  BY <1>1, <3>1 DEF Handle, NetTyped
  <2>3. RowTyped'
    <3>1. content \in Texts /\ version \in Nat  BY DEF RowTyped
    <3>2. CASE Store(content, version, Written(r), TRUE)
      BY <2>1, <3>1, <3>2, StoreKeeps DEF RowTyped
    <3>3. CASE UNCHANGED rowVars
      BY <3>3 DEF RowTyped
    <3>. QED  BY <1>1, <3>2, <3>3 DEF Handle
  <2>4. PagesTyped'  BY <1>1 DEF Handle, PagesTyped
  <2>. QED  BY <2>2, <2>3, <2>4
<1>2. ASSUME NEW r \in requests, Check(r)
       PROVE  RowTyped' /\ NetTyped' /\ PagesTyped'
  <2>0. r \in Request  BY RequestIn
  <2>1. /\ r.page \in Pages /\ r.text \in Texts /\ r.expect \in Nat /\ r.read \in Texts
        /\ r.result \in Nat /\ Written(r) \in Texts /\ r.id \in Nat
    BY RequestIn
  <2>2. NetTyped'
    <3>1. PICK n \in Request : requests' = (requests \ {r}) \cup {n}  BY <1>2, CheckSteps
    <3>. QED  BY <1>2, <3>1 DEF Check, NetTyped
  <2>3. RowTyped'  BY <1>2 DEF Check, RowTyped
  <2>4. PagesTyped'  BY <1>2 DEF Check, PagesTyped
  <2>. QED  BY <2>2, <2>3, <2>4
<1>3. ASSUME NEW r \in requests, Commit(r)
       PROVE  RowTyped' /\ NetTyped' /\ PagesTyped'
  <2>0. r \in Request  BY RequestIn
  <2>1. /\ r.page \in Pages /\ r.text \in Texts /\ r.expect \in Nat /\ r.read \in Texts
        /\ r.result \in Nat /\ Written(r) \in Texts /\ r.id \in Nat
    BY RequestIn
  <2>2. NetTyped'
    <3>1. PICK n \in Request : requests' = (requests \ {r}) \cup {n}  BY <1>3, CommitSteps
    <3>. QED  BY <1>3, <3>1 DEF Commit, NetTyped
  <2>3. RowTyped'
    <3>1. Store(r.read, r.expect, Written(r), FALSE)  BY <1>3 DEF Commit
    <3>. QED  BY <2>1, <3>1, StoreKeeps DEF RowTyped
  <2>4. PagesTyped'  BY <1>3 DEF Commit, PagesTyped
  <2>. QED  BY <2>2, <2>3, <2>4
<1>4. ASSUME NEW r \in requests, TrimVersions(r)
       PROVE  RowTyped' /\ NetTyped' /\ PagesTyped'
  <2>0. r \in Request  BY RequestIn
  <2>1. /\ r.page \in Pages /\ r.text \in Texts /\ r.expect \in Nat /\ r.read \in Texts
        /\ r.result \in Nat /\ Written(r) \in Texts /\ r.id \in Nat
    BY RequestIn
  <2>2. NetTyped'
    <3>1. PICK n \in Request : requests' = (requests \ {r}) \cup {n}  BY <1>4, TrimSteps
    <3>. QED  BY <1>4, <3>1 DEF TrimVersions, NetTyped
  <2>3. RowTyped'
    <3>1. snaps' = Trim(snaps)  BY <1>4 DEF TrimVersions
    <3>2. Trim(snaps) \in Seq(Snapshot)  BY TrimProperties DEF RowTyped
    <3>. QED  BY <1>4, <3>1, <3>2 DEF TrimVersions, RowTyped
  <2>4. PagesTyped'  BY <1>4 DEF TrimVersions, PagesTyped
  <2>. QED  BY <2>2, <2>3, <2>4
<1>5. ASSUME NEW r \in requests, Ignored(r)
       PROVE  RowTyped' /\ NetTyped' /\ PagesTyped'
  <2>0. r \in Request  BY RequestIn
  <2>1. /\ r.page \in Pages /\ r.text \in Texts /\ r.expect \in Nat /\ r.read \in Texts
        /\ r.result \in Nat /\ Written(r) \in Texts /\ r.id \in Nat
    BY RequestIn
  <2>2. NetTyped'  BY <1>5 DEF Ignored, Answered, NetTyped
  <2>3. RowTyped'  BY <1>5 DEF Ignored, RowTyped
  <2>4. PagesTyped'  BY <1>5, <2>1 DEF Ignored, PagesTyped
  <2>. QED  BY <2>2, <2>3, <2>4
<1>6. ASSUME NEW r \in requests, SaveOk(r)
       PROVE  RowTyped' /\ NetTyped' /\ PagesTyped'
  <2>0. r \in Request  BY RequestIn
  <2>1. /\ r.page \in Pages /\ r.text \in Texts /\ r.expect \in Nat /\ r.read \in Texts
        /\ r.result \in Nat /\ Written(r) \in Texts /\ r.id \in Nat
    BY RequestIn
  <2>2. NetTyped'  BY <1>6 DEF SaveOk, Answered, NetTyped
  <2>3. RowTyped'  BY <1>6 DEF SaveOk, RowTyped
  <2>4. PagesTyped'  BY <1>6, <2>1 DEF SaveOk, PagesTyped
  <2>. QED  BY <2>2, <2>3, <2>4
<1>7. ASSUME NEW r \in requests, SaveConflict(r)
       PROVE  RowTyped' /\ NetTyped' /\ PagesTyped'
  <2>0. r \in Request  BY RequestIn
  <2>1. /\ r.page \in Pages /\ r.text \in Texts /\ r.expect \in Nat /\ r.read \in Texts
        /\ r.result \in Nat /\ Written(r) \in Texts /\ r.id \in Nat
    BY RequestIn
  <2>2. NetTyped'  BY <1>7 DEF SaveConflict, Answered, NetTyped
  <2>3. RowTyped'  BY <1>7 DEF SaveConflict, RowTyped
  <2>5. [local |-> r.text, server |-> r.read, ver |-> r.result] \in Refusal  BY <2>1 DEF Refusal
  <2>4. PagesTyped'  BY <1>7, <2>1, <2>5 DEF SaveConflict, PagesTyped
  <2>. QED  BY <2>2, <2>3, <2>4
<1>8. ASSUME NEW r \in requests, Renamed(r)
       PROVE  RowTyped' /\ NetTyped' /\ PagesTyped'
  <2>0. r \in Request  BY RequestIn
  <2>1. /\ r.page \in Pages /\ r.text \in Texts /\ r.expect \in Nat /\ r.read \in Texts
        /\ r.result \in Nat /\ Written(r) \in Texts /\ r.id \in Nat
    BY RequestIn
  <2>2. NetTyped'  BY <1>8 DEF Renamed, Answered, NetTyped
  <2>3. RowTyped'  BY <1>8 DEF Renamed, RowTyped
  <2>4. PagesTyped'  BY <1>8, <2>1 DEF Renamed, PagesTyped
  <2>. QED  BY <2>2, <2>3, <2>4
<1>9. ASSUME NEW r \in requests, Synced(r)
       PROVE  RowTyped' /\ NetTyped' /\ PagesTyped'
  <2>0. r \in Request  BY RequestIn
  <2>1. /\ r.page \in Pages /\ r.text \in Texts /\ r.expect \in Nat /\ r.read \in Texts
        /\ r.result \in Nat /\ Written(r) \in Texts /\ r.id \in Nat
    BY RequestIn
  <2>2. NetTyped'  BY <1>9 DEF Synced, Answered, NetTyped
  <2>3. RowTyped'  BY <1>9 DEF Synced, RowTyped
  <2>4. PagesTyped'  BY <1>9, <2>1 DEF Synced, PagesTyped
  <2>. QED  BY <2>2, <2>3, <2>4
<1>10. ASSUME NEW r \in requests, Kept(r)
       PROVE  RowTyped' /\ NetTyped' /\ PagesTyped'
  <2>0. r \in Request  BY RequestIn
  <2>1. /\ r.page \in Pages /\ r.text \in Texts /\ r.expect \in Nat /\ r.read \in Texts
        /\ r.result \in Nat /\ Written(r) \in Texts /\ r.id \in Nat
    BY RequestIn
  <2>2. NetTyped'  BY <1>10 DEF Kept, Answered, NetTyped
  <2>3. RowTyped'  BY <1>10 DEF Kept, RowTyped
  <2>5. text' \in [Pages -> Texts] /\ saved' \in [Pages -> Texts]
        /\ loaded' \in [Pages -> Texts \cup {None}]
    <3>1. CASE Show(r.page, r.text)  BY <2>1, <3>1, ShowType
    <3>2. CASE UNCHANGED textVars  BY <3>2 DEF PagesTyped
    <3>. QED  BY <1>10, <3>1, <3>2 DEF Kept
  <2>6. ver' \in [Pages -> Nat] /\ dialog' \in [Pages -> Refusal \cup {None}]
    <3>1. CASE r.stage = "ok"
      BY <1>10, <2>1, <3>1 DEF Kept, PagesTyped
    <3>2. CASE r.stage # "ok"
      BY <1>10, <3>2 DEF Kept, PagesTyped
    <3>. QED  BY <3>1, <3>2
  <2>7. /\ flying' = [flying EXCEPT ![r.page] = 0]
        /\ UNCHANGED <<page, timers, draft, failed, status, leaves, flushed>>
    BY <1>10 DEF Kept
  <2>8. forgone' \in [Pages -> Texts]
    <3>1. forgone \in [Pages -> Texts] /\ forgone[r.page] \cup text[r.page] \in Texts
      BY <2>1, TextUnion DEF PagesTyped
    <3>. QED  BY <1>10, <3>1 DEF Kept
  <2>9. flying' \in [Pages -> 0..MaxSends]  BY <2>1, <2>7 DEF PagesTyped
  <2>10. UNCHANGED <<page, timer, draftTimer, draft, failed, status, leaves, flushed>>  BY <2>7
  <2>4. PagesTyped'  BY <2>5, <2>6, <2>8, <2>9, <2>10 DEF PagesTyped
  <2>. QED  BY <2>2, <2>3, <2>4
<1>11. ASSUME NEW r \in requests, Lose(r)
       PROVE  RowTyped' /\ NetTyped' /\ PagesTyped'
  <2>0. r \in Request  BY RequestIn
  <2>1. /\ r.page \in Pages /\ r.text \in Texts /\ r.expect \in Nat /\ r.read \in Texts
        /\ r.result \in Nat /\ Written(r) \in Texts /\ r.id \in Nat
    BY RequestIn
  <2>2. NetTyped'  BY <1>11 DEF Lose, Answered, NetTyped
  <2>3. RowTyped'  BY <1>11 DEF Lose, RowTyped
  <2>5. [text |-> r.text, ver |-> r.expect] \in Pending  BY <2>1 DEF Pending
  <2>4. PagesTyped'  BY <1>11, <2>1, <2>5 DEF Lose, PagesTyped
  <2>. QED  BY <2>2, <2>3, <2>4
<1>12. ASSUME NEW p \in Pages, NEW e \in Edits, Type(p, e)
       PROVE  RowTyped' /\ NetTyped' /\ PagesTyped'
  <2>1. text' \in [Pages -> Texts] /\ text'[p] \in Texts
    <3>1. text[p] \in Texts  BY DEF PagesTyped
    <3>2. text[p] \cup {e} \in Texts  BY <3>1 DEF Texts
    <3>. QED  BY <1>12, <3>2 DEF Type, PagesTyped
  <2>2. [text |-> text'[p], ver |-> ver[p]] \in Pending  BY <2>1 DEF Pending, PagesTyped
  <2>3. PagesTyped'  BY <1>12, <2>1, <2>2 DEF Type, PagesTyped
  <2>. QED  BY <1>12, <2>3 DEF Type, RowTyped, NetTyped
<1>13. ASSUME NEW p \in Pages, SaveDraft(p)
       PROVE  RowTyped' /\ NetTyped' /\ PagesTyped'
  <2>2. NetTyped' /\ RowTyped'  BY <1>13 DEF SaveDraft, RowTyped, NetTyped
  <2>3. PagesTyped'  BY <1>13 DEF SaveDraft, PagesTyped
  <2>. QED  BY <2>2, <2>3
<1>14. ASSUME NEW p \in Pages, Autosave(p)
       PROVE  RowTyped' /\ NetTyped' /\ PagesTyped'
  <2>2. RowTyped'  BY <1>14 DEF Autosave, RowTyped
  <2>3. timer[p] \in Pending  BY <1>14 DEF Autosave, PagesTyped
  <2>4. PerformSave(p, timer[p])  BY <1>14 DEF Autosave
  <2>5. /\ NetTyped' /\ flying' \in [Pages -> 0..MaxSends]
        /\ status' \in [Pages -> {"idle", "saving", "saved", "error"}]
    BY <2>3, <2>4, PerformSaveType
  <2>6. PagesTyped'  BY <1>14, <2>5 DEF Autosave, PagesTyped
  <2>. QED  BY <2>2, <2>5, <2>6
<1>15. ASSUME NEW p \in Pages, Retry(p)
       PROVE  RowTyped' /\ NetTyped' /\ PagesTyped'
  <2>2. RowTyped'  BY <1>15 DEF Retry, RowTyped
  <2>3. failed[p] \in Pending  BY <1>15 DEF Retry, PagesTyped
  <2>4. PerformSave(p, failed[p])  BY <1>15 DEF Retry
  <2>5. /\ NetTyped' /\ flying' \in [Pages -> 0..MaxSends]
        /\ status' \in [Pages -> {"idle", "saving", "saved", "error"}]
    BY <2>3, <2>4, PerformSaveType
  <2>6. PagesTyped'  BY <1>15, <2>5 DEF Retry, PagesTyped
  <2>. QED  BY <2>2, <2>5, <2>6
<1>16. ASSUME NEW p \in Pages, Rename(p)
       PROVE  RowTyped' /\ NetTyped' /\ PagesTyped'
  <2>2. RowTyped'  BY <1>16 DEF Rename, RowTyped
  <2>3. ver[p] \in Nat  BY DEF PagesTyped
  <2>4. Update(p, "rename", {}, ver[p], {})  BY <1>16 DEF Rename
  <2>5. NetTyped' /\ flying' \in [Pages -> 0..MaxSends]
    BY <2>3, <2>4, UpdateType DEF Kinds
  <2>6. PagesTyped'  BY <1>16, <2>5 DEF Rename, PagesTyped
  <2>. QED  BY <2>2, <2>5, <2>6
<1>17. ASSUME NEW p \in Pages, Sync(p)
       PROVE  RowTyped' /\ NetTyped' /\ PagesTyped'
  <2>2. RowTyped'  BY <1>17 DEF Sync, RowTyped
  <2>3. draft[p] \in Texts /\ version \in Nat  BY <1>17 DEF Sync, PagesTyped, RowTyped
  <2>4. Update(p, "sync", draft[p], version, {})  BY <1>17 DEF Sync
  <2>5. NetTyped' /\ flying' \in [Pages -> 0..MaxSends]
    BY <2>3, <2>4, UpdateType DEF Kinds
  <2>6. PagesTyped'  BY <1>17, <2>5 DEF Sync, PagesTyped
  <2>. QED  BY <2>2, <2>5, <2>6
<1>18. ASSUME NEW p \in Pages, Keep(p)
       PROVE  RowTyped' /\ NetTyped' /\ PagesTyped'
  <2>2. RowTyped'  BY <1>18 DEF Keep, RowTyped
  <2>3. dialog[p] \in Refusal  BY <1>18 DEF Keep, PagesTyped
  <2>7. dialog[p].local \in Texts /\ dialog[p].server \in Texts /\ dialog[p].ver \in Nat
    BY <2>3, RefusalFields
  <2>4. Update(p, "keep", dialog[p].local, dialog[p].ver, dialog[p].server)  BY <1>18 DEF Keep
  <2>5. NetTyped' /\ flying' \in [Pages -> 0..MaxSends]
    BY <2>3, <2>7, <2>4, UpdateType DEF Kinds
  <2>6. PagesTyped'  BY <1>18, <2>5 DEF Keep, PagesTyped
  <2>. QED  BY <2>2, <2>5, <2>6
<1>19. ASSUME NEW p \in Pages, Discard(p)
       PROVE  RowTyped' /\ NetTyped' /\ PagesTyped'
  <2>2. NetTyped' /\ RowTyped'  BY <1>19 DEF Discard, RowTyped, NetTyped
  <2>3. dialog[p] \in Refusal  BY <1>19 DEF Discard, PagesTyped
  <2>4. dialog[p].server \in Texts /\ dialog[p].ver \in Nat /\ version \in Nat
    BY <2>3, RefusalFields DEF RowTyped
  <2>5. Show(p, dialog[p].server)  BY <1>19 DEF Discard
  <2>6. /\ text' \in [Pages -> Texts] /\ saved' \in [Pages -> Texts]
        /\ loaded' \in [Pages -> Texts \cup {None}]
    BY <2>4, <2>5, ShowType
  <2>7. forgone[p] \cup text[p] \in Texts  BY TextUnion DEF PagesTyped
  <2>8. PagesTyped'  BY <1>19, <2>4, <2>6, <2>7 DEF Discard, PagesTyped
  <2>. QED  BY <2>2, <2>8
<1>20. ASSUME NEW p \in Pages, SaveAsNew(p)
       PROVE  RowTyped' /\ NetTyped' /\ PagesTyped'
  <2>2. NetTyped' /\ RowTyped'  BY <1>20 DEF SaveAsNew, RowTyped, NetTyped
  <2>3. dialog[p] \in Refusal  BY <1>20 DEF SaveAsNew, PagesTyped
  <2>4. dialog[p].server \in Texts /\ dialog[p].ver \in Nat /\ version \in Nat
    BY <2>3, RefusalFields DEF RowTyped
  <2>5. Show(p, dialog[p].server)  BY <1>20 DEF SaveAsNew
  <2>6. /\ text' \in [Pages -> Texts] /\ saved' \in [Pages -> Texts]
        /\ loaded' \in [Pages -> Texts \cup {None}]
    BY <2>4, <2>5, ShowType
  <2>8. PagesTyped'  BY <1>20, <2>4, <2>6 DEF SaveAsNew, PagesTyped
  <2>. QED  BY <2>2, <2>8
<1>21. ASSUME NEW p \in Pages, RefreshBook(p)
       PROVE  RowTyped' /\ NetTyped' /\ PagesTyped'
  <2>2. NetTyped' /\ RowTyped'  BY <1>21 DEF RefreshBook, RowTyped, NetTyped
  <2>3. PagesTyped'  BY <1>21 DEF RefreshBook, PagesTyped, RowTyped
  <2>. QED  BY <2>2, <2>3
<1>22. ASSUME NEW p \in Pages, Flush(p)
       PROVE  RowTyped' /\ NetTyped' /\ PagesTyped'
  <2>2. RowTyped'  BY <1>22 DEF Flush, RowTyped
  <2>3. text[p] \in Texts /\ ver[p] \in Nat  BY DEF PagesTyped
  <2>4. NetTyped'
    <3>1. CASE UNCHANGED netVars  BY <3>1 DEF NetTyped
    <3>2. CASE Send(p, "keepalive", text[p], ver[p], {})
      <4>1. sent' \in 0..MaxSends /\ \E n \in Request : requests' = requests \cup {n}
        BY <2>3, <3>2, Sends DEF Kinds
      <4>. QED  BY <4>1 DEF NetTyped
    <3>. QED  BY <1>22, <3>1, <3>2 DEF Flush
  <2>5. PagesTyped'  BY <1>22, <2>3 DEF Flush, PagesTyped
  <2>. QED  BY <2>2, <2>4, <2>5
<1>23. ASSUME NEW p \in Pages, Gone(p)
       PROVE  RowTyped' /\ NetTyped' /\ PagesTyped'
  <2>2. NetTyped' /\ RowTyped'  BY <1>23 DEF Gone, RowTyped, NetTyped
  <2>3. PagesTyped'  BY <1>23 DEF Gone, PagesTyped
  <2>. QED  BY <2>2, <2>3
<1>24. ASSUME NEW p \in Pages, Away(p)
       PROVE  RowTyped' /\ NetTyped' /\ PagesTyped'
  <2>2. RowTyped'  BY <1>24 DEF Away, RowTyped
  <2>3. NetTyped'
    <3>1. ASSUME NEW r \in requests
          PROVE  [r EXCEPT !.kind = IF r.page = p /\ @ = "save" THEN "orphan" ELSE @] \in Request
      <4>1. r \in Request  BY RequestIn
      <4>. QED  BY <4>1 DEF Request
    <3>. QED  BY <1>24, <3>1 DEF Away, NetTyped
  <2>4. PagesTyped'  BY <1>24 DEF Away, PagesTyped
  <2>. QED  BY <2>2, <2>3, <2>4
<1>25. ASSUME NEW p \in Pages, Back(p)
       PROVE  RowTyped' /\ NetTyped' /\ PagesTyped'
  <2>2. NetTyped' /\ RowTyped'  BY <1>25 DEF Back, RowTyped, NetTyped
  <2>3. (IF loaded[p] = None THEN content ELSE loaded[p]) \in Texts /\ version \in Nat  BY DEF PagesTyped, RowTyped
  <2>4. Mount(p, (IF loaded[p] = None THEN content ELSE loaded[p]))  BY <1>25 DEF Back
  <2>5. /\ page' \in [Pages -> {"open", "away", "closed"}]
        /\ text' \in [Pages -> Texts] /\ saved' \in [Pages -> Texts]
        /\ loaded' \in [Pages -> Texts \cup {None}] /\ draft' \in [Pages -> Texts \cup {None}]
        /\ status' \in [Pages -> {"idle", "saving", "saved", "error"}]
    BY <2>3, <2>4, MountType
  <2>6. PagesTyped'  BY <1>25, <2>3, <2>5 DEF Back, PagesTyped
  <2>. QED  BY <2>2, <2>6
<1>26. ASSUME NEW p \in Pages, Load(p)
       PROVE  RowTyped' /\ NetTyped' /\ PagesTyped'
  <2>2. NetTyped' /\ RowTyped'  BY <1>26 DEF Load, RowTyped, NetTyped
  <2>3. content \in Texts /\ version \in Nat  BY DEF PagesTyped, RowTyped
  <2>4. Mount(p, content)  BY <1>26 DEF Load
  <2>5. /\ page' \in [Pages -> {"open", "away", "closed"}]
        /\ text' \in [Pages -> Texts] /\ saved' \in [Pages -> Texts]
        /\ loaded' \in [Pages -> Texts \cup {None}] /\ draft' \in [Pages -> Texts \cup {None}]
        /\ status' \in [Pages -> {"idle", "saving", "saved", "error"}]
    BY <2>3, <2>4, MountType
  <2>6. PagesTyped'  BY <1>26, <2>3, <2>5 DEF Load, PagesTyped
  <2>. QED  BY <2>2, <2>6
<1>27. ASSUME NEW p \in Pages, NEW n \in DOMAIN snaps, RestoreVersion(p, snaps[n])
       PROVE  RowTyped' /\ NetTyped' /\ PagesTyped'
  <2>1. snaps[n].text \in Texts /\ content \in Texts /\ version \in Nat
    <3>1. snaps[n] \in Snapshot  BY DEF RowTyped
    <3>. QED  BY <3>1 DEF Snapshot, RowTyped
  <2>2. Store(content, version, snaps[n].text, TRUE) /\ Show(p, snaps[n].text)
    BY <1>27 DEF RestoreVersion
  <2>3. RowTyped'  BY <2>1, <2>2, StoreKeeps DEF RowTyped
  <2>4. /\ text' \in [Pages -> Texts] /\ saved' \in [Pages -> Texts]
        /\ loaded' \in [Pages -> Texts \cup {None}]
    BY <2>1, <2>2, ShowType
  <2>5. NetTyped'  BY <1>27 DEF RestoreVersion, NetTyped
  <2>7. ver' \in [Pages -> Nat]  BY <1>27, <2>1 DEF RestoreVersion, PagesTyped
  <2>6. PagesTyped'  BY <1>27, <2>4, <2>7 DEF RestoreVersion, PagesTyped
  <2>. QED  BY <2>3, <2>5, <2>6
<1>28. CASE UNCHANGED vars
  BY <1>28 DEF vars, RowTyped, NetTyped, PagesTyped
<1>. QED
  BY <1>1, <1>2, <1>3, <1>4, <1>5, <1>6, <1>7, <1>8, <1>9, <1>10, <1>11, <1>12, <1>13, <1>14,
     <1>15, <1>16, <1>17, <1>18, <1>19, <1>20, <1>21, <1>22, <1>23, <1>24, <1>25, <1>26, <1>27,
     <1>28 DEF Next, Serve, Receive

\* Rows, versions, pages and requests hold what they may hold, for any sets of
\* pages and edits and any bounds.
THEOREM TypeCorrect == Spec => []SaveTypeOK
<1>1. Init => SaveTypeOK
  <2>1. {} \in Texts /\ [version |-> 1, text |-> {}] \in Snapshot  BY DEF Texts, Snapshot
  <2>2. 0 \in 0..MaxSends /\ 0 \in 0..MaxLeaves  BY ChapterSaveAssumption DEF ChapterSaveAssumption
  <2>3. <<>> \in Seq(Snapshot)  BY EmptySeq
  <2>. QED  BY <2>1, <2>2, <2>3 DEF Init, SaveTypeOK
<1>2. SaveTypeOK /\ [Next]_vars => SaveTypeOK'
  BY TypeStep, ChapterSaveAssumption
<1>. QED  BY <1>1, <1>2, PTL DEF Spec

-----------------------------------------------------------------------------
(* The history of the chapter                                              *)

\* The row has had this text at this version, or at some version.
Was(v, t) == [version |-> v, text |-> t] \in committed
Had(t) == \E c \in committed : c.text = t

\* What a request carries about the row is true: what it read, and what it is
\* answered.
Truthful(r) ==
  /\ r.stage = "checked" => Was(r.expect, r.read)
  /\ r.stage \in {"stored", "ok"} /\ r.kind # "rename" => Was(r.result, r.text)
  /\ r.stage = "conflict" => Was(r.result, r.read)

\* What a page counts as the server's is: the text it saved or loaded, and
\* what the dialog shows.
Informed(p) ==
  /\ loaded[p] # None => Had(loaded[p])
  /\ Had(saved[p])

Shown(p) == dialog[p] # None => Was(dialog[p].ver, dialog[p].server)

\* The inductive invariant behind SnapshotsAreReal and SavedWasCommitted:
\* every text that travels as the server's, with its version, has been the
\* row's.
RealInv ==
  /\ Was(version, content) /\ SnapshotsAreReal
  /\ \A r \in requests : Truthful(r)
  /\ \A p \in Pages : Informed(p) /\ Shown(p)

\* The snapshots after Store, when what was read had been the row's.
LEMMA StoreReal ==
  ASSUME ChapterSaveAssumption, SaveTypeOK, RealInv,
         NEW read \in Texts, NEW was \in Nat, NEW new \in Texts,
         NEW trims \in BOOLEAN, Store(read, was, new, trims), Was(was, read)
  PROVE  /\ \A n \in DOMAIN snaps' : snaps'[n] \in committed'
         /\ Was(version, content)' /\ committed \subseteq committed'
<1>1. /\ snaps' \in Seq(Snapshot)
      /\ content' = new /\ version' = was + 1
      /\ committed' = committed \cup {[version |-> was + 1, text |-> new]}
      /\ \A i \in 1..Len(snaps') :
           LET k == i + Len(snaps) + 1 - Len(snaps')
           IN  /\ k \in 1..Len(snaps) + 1
               /\ snaps'[i] = IF k = Len(snaps) + 1 THEN [version |-> was, text |-> read]
                                                    ELSE snaps[k]
  BY StoreKeeps
<1>2. \A k \in 1..Len(snaps) : snaps[k] \in committed
  <2>1. snaps \in Seq(Snapshot)  BY DEF SaveTypeOK
  <2>. QED  BY <2>1, LenProperties DEF RealInv, SnapshotsAreReal
<1>3. Len(snaps) \in Nat  BY LenProperties DEF SaveTypeOK
<1>4. ASSUME NEW i \in 1..Len(snaps')
      PROVE  snaps'[i] \in committed
  <2>. DEFINE k == i + Len(snaps) + 1 - Len(snaps')
  <2>1. /\ k \in 1..Len(snaps) + 1
        /\ snaps'[i] = IF k = Len(snaps) + 1 THEN [version |-> was, text |-> read] ELSE snaps[k]
    BY <1>1
  <2>. HIDE DEF k
  <2>2. k = Len(snaps) + 1 \/ k \in 1..Len(snaps)  BY <1>3, <2>1
  <2>. QED  BY <1>2, <2>1, <2>2 DEF Was
<1>5. DOMAIN snaps' = 1..Len(snaps')  BY <1>1, LenProperties
<1>. QED  BY <1>1, <1>4, <1>5 DEF Was

\* Steps that leave the row alone.
LEMMA RowKeepsReal ==
  ASSUME RealInv, UNCHANGED rowVars,
         \A r \in requests : r.stage = "stored" => \E n \in requests' : n.stage = "stored"
  PROVE  (Was(version, content) /\ SnapshotsAreReal)'
<1>. content' = content /\ version' = version /\ snaps' = snaps /\ committed' = committed
  BY DEF rowVars
<1>. QED  BY DEF RealInv, Was, SnapshotsAreReal

\* Requests that stay, and pages that stay as they are.
LEMMA RequestsKeepReal ==
  ASSUME RealInv, committed \subseteq committed',
         \A n \in requests' : n \in requests \/ Truthful(n)'
  PROVE  \A n \in requests' : Truthful(n)'
<1>1. ASSUME NEW n \in requests', n \in requests PROVE Truthful(n)'
  <2>1. Truthful(n)  BY <1>1 DEF RealInv
  <2>. QED  BY <2>1 DEF Truthful, Was
<1>. QED  BY <1>1

LEMMA PageKeepsReal ==
  ASSUME RealInv, committed \subseteq committed', NEW p \in Pages,
         loaded'[p] \in {loaded[p], None}, saved'[p] = saved[p]
  PROVE  Informed(p)'
<1>1. Informed(p)  BY DEF RealInv
<1>. QED  BY <1>1 DEF Informed, Had

LEMMA DialogKeepsReal ==
  ASSUME RealInv, committed \subseteq committed', NEW p \in Pages, dialog'[p] \in {dialog[p], None}
  PROVE  Shown(p)'
<1>1. Shown(p)  BY DEF RealInv
<1>. QED  BY <1>1 DEF Shown, Was

\* The editor takes a text the row has had.
LEMMA ShowReal ==
  ASSUME SaveTypeOK, RealInv, committed \subseteq committed', NEW p \in Pages, NEW t, Had(t)',
         Show(p, t)
  PROVE  \A q \in Pages : Informed(q)'
<1>. TAKE q \in Pages
<1>1. Informed(q)  BY DEF RealInv
<1>2. /\ loaded \in [Pages -> Texts \cup {None}] /\ saved \in [Pages -> Texts]
      /\ text \in [Pages -> Texts]
  BY DEF SaveTypeOK
<1>3. loaded'[q] = (IF q = p THEN t ELSE loaded[q])  BY <1>2 DEF Show
<1>4. saved'[q] = saved[q] \/ (q = p /\ saved'[q] = t)  BY <1>2 DEF Show
<1>5. \A u : Had(u) => Had(u)'  BY DEF Had
<1>. QED  BY <1>1, <1>3, <1>4, <1>5 DEF Informed, Had

LEMMA MountReal ==
  ASSUME SaveTypeOK, RealInv, committed \subseteq committed', NEW p \in Pages, NEW t, Had(t)',
         Mount(p, t)
  PROVE  \A q \in Pages : Informed(q)'
<1>. TAKE q \in Pages
<1>1. Informed(q)  BY DEF RealInv
<1>2. loaded \in [Pages -> Texts \cup {None}] /\ saved \in [Pages -> Texts]
  BY DEF SaveTypeOK
<1>3. loaded'[q] = (IF q = p THEN t ELSE loaded[q]) /\ saved'[q] = (IF q = p THEN t ELSE saved[q])
  BY <1>2 DEF Mount
<1>5. \A u : Had(u) => Had(u)'  BY DEF Had
<1>. QED  BY <1>1, <1>3, <1>5 DEF Informed, Had

\* A page that sends.
LEMMA SendReal ==
  ASSUME ChapterSaveAssumption, SaveTypeOK, RealInv, UNCHANGED rowVars,
         NEW p \in Pages, NEW kind \in Kinds, NEW t \in Texts, NEW expect \in Nat,
         NEW shown \in Texts, Send(p, kind, t, expect, shown)
  PROVE  /\ (Was(version, content) /\ SnapshotsAreReal)'
         /\ \A n \in requests' : Truthful(n)'
<1>1. PICK n \in Request : Sending(n, p, kind, t, expect, shown) /\ requests' = requests \cup {n}
  BY Sends DEF ChapterSaveAssumption
<1>2. Truthful(n)'  BY <1>1 DEF Sending, Truthful
<1>3. \A m \in requests' : m \in requests \/ Truthful(m)'  BY <1>1, <1>2
<1>4. committed' = committed  BY DEF rowVars
<1>. QED  BY <1>1, <1>3, <1>4, RequestsKeepReal, RowKeepsReal

LEMMA PerformSaveReal ==
  ASSUME ChapterSaveAssumption, SaveTypeOK, RealInv, UNCHANGED rowVars,
         NEW p \in Pages, NEW captured \in Pending, PerformSave(p, captured)
  PROVE  /\ (Was(version, content) /\ SnapshotsAreReal)'
         /\ \A n \in requests' : Truthful(n)'
<1>1. captured.text \in Texts /\ captured.ver \in Nat /\ {} \in Texts /\ "save" \in Kinds
  BY PendingFields DEF Texts, Kinds
<1>2. CASE captured.text = saved[p]
  <2>1. requests' = requests /\ committed' = committed  BY <1>2 DEF PerformSave, netVars, rowVars
  <2>. QED  BY <2>1, RowKeepsReal, RequestsKeepReal
<1>3. CASE captured.text # saved[p]
  <2>1. Send(p, "save", captured.text, captured.ver, {})  BY <1>3 DEF PerformSave, Update
  <2>. QED  BY <1>1, <2>1, SendReal
<1>. QED  BY <1>2, <1>3

\* Every step keeps the history real.
LEMMA RealStep ==
  ASSUME ChapterSaveAssumption, SaveTypeOK, RealInv, [Next]_vars
  PROVE  RealInv'
<1>. USE DEF rowVars, netVars, bookVars, textVars, timers, saveVars, past
<1>. DEFINE RowPart == Was(version, content) /\ SnapshotsAreReal
            RequestsPart == \A r \in requests : Truthful(r)
            TextPart == \A p \in Pages : Informed(p)
            DialogPart == \A p \in Pages : Shown(p)
            Good == RowPart' /\ RequestsPart' /\ TextPart' /\ DialogPart'
<1>. SUFFICES Good  BY DEF RealInv
<1>0. /\ loaded \in [Pages -> Texts \cup {None}] /\ saved \in [Pages -> Texts]
      /\ dialog \in [Pages -> Refusal \cup {None}] /\ content \in Texts /\ version \in Nat
      /\ requests \subseteq Request
  BY DEF SaveTypeOK
<1>1. ASSUME NEW r \in requests, Handle(r)
       PROVE  Good
  <2>1. /\ r \in Request /\ r.page \in Pages /\ r.text \in Texts /\ r.expect \in Nat
        /\ r.read \in Texts /\ r.result \in Nat /\ Written(r) \in Texts
    BY RequestIn
  <2>2. Truthful(r)  BY DEF RealInv
  <2>3. PICK n \in Request :
          /\ requests' = (requests \ {r}) \cup {n} /\ Same(n, r)
          /\ \/ /\ Accepts(r) /\ n.stage = "ok" /\ n.result = version + 1
                /\ Store(content, version, Written(r), TRUE)
             \/ /\ ~Accepts(r) /\ n.stage = "conflict" /\ n.read = content /\ n.result = version
                /\ UNCHANGED rowVars
    BY <1>1, HandleSteps
  <2>4. CASE Store(content, version, Written(r), TRUE) /\ n.stage = "ok" /\ n.result = version + 1
    <3>0. Was(version, content)  BY DEF RealInv
    <3>1. /\ \A k \in DOMAIN snaps' : snaps'[k] \in committed'
          /\ Was(version, content)' /\ committed \subseteq committed'
      BY <1>0, <2>1, <2>4, <3>0, StoreReal
    <3>2. Len(snaps') <= Retention  BY <1>0, <2>1, <2>4, StoreKeeps
    <3>3. RowPart'  BY <3>1, <3>2 DEF SnapshotsAreReal
    <3>4. Truthful(n)'
      <4>1. n.kind # "rename" => Written(r) = n.text  BY <2>3 DEF Written, Same
      <4>2. [version |-> version + 1, text |-> Written(r)] \in committed'  BY <2>4 DEF Store
      <4>. QED  BY <2>4, <4>1, <4>2 DEF Truthful, Was
    <3>5. RequestsPart'
      <4>1. \A m \in requests' : m \in requests \/ Truthful(m)'  BY <2>3, <3>4
      <4>. QED  BY <3>1, <4>1, RequestsKeepReal
    <3>6. UNCHANGED <<saved, loaded, dialog>>  BY <1>1 DEF Handle
    <3>7. TextPart'  BY <3>1, <3>6, PageKeepsReal
    <3>8. DialogPart'  BY <3>1, <3>6, DialogKeepsReal
    <3>. QED  BY <3>3, <3>5, <3>7, <3>8
  <2>5. CASE UNCHANGED rowVars /\ n.stage = "conflict" /\ n.read = content /\ n.result = version
    <3>1. Truthful(n)'  BY <2>5 DEF Truthful, Was, RealInv
    <3>2. RequestsPart'
      <4>1. \A m \in requests' : m \in requests \/ Truthful(m)'  BY <2>3, <3>1
      <4>. QED  BY <2>5, <4>1, RequestsKeepReal
    <3>3. RowPart'
      <4>1. r.stage # "stored"  BY <1>1 DEF Handle
      <4>. QED  BY <2>3, <2>5, <4>1, RowKeepsReal
    <3>6. UNCHANGED <<saved, loaded, dialog>>  BY <1>1 DEF Handle
    <3>7. TextPart'  BY <2>5, <3>6, PageKeepsReal
    <3>8. DialogPart'  BY <2>5, <3>6, DialogKeepsReal
    <3>. QED  BY <3>2, <3>3, <3>7, <3>8
  <2>. QED  BY <2>3, <2>4, <2>5
<1>2. ASSUME NEW r \in requests, Check(r)
       PROVE  Good
  <2>1. /\ r \in Request /\ r.page \in Pages /\ r.text \in Texts /\ r.expect \in Nat
        /\ r.read \in Texts /\ r.result \in Nat /\ Written(r) \in Texts
    BY RequestIn
  <2>2. Truthful(r)  BY DEF RealInv
  <2>3. PICK n \in Request :
          /\ requests' = (requests \ {r}) \cup {n} /\ Same(n, r)
          /\ \/ Accepts(r) /\ n.stage = "checked" /\ n.read = content
             \/ n.stage = "conflict" /\ n.read = content /\ n.result = version
    BY <1>2, CheckSteps
  <2>4. UNCHANGED rowVars /\ r.stage # "stored"  BY <1>2 DEF Check
  <2>5. Truthful(n)'  BY <2>3, <2>4 DEF Truthful, Was, RealInv, Accepts, Same
  <2>6. RowPart' /\ RequestsPart'
    <3>1. \A m \in requests' : m \in requests \/ Truthful(m)'  BY <2>3, <2>5
    <3>. QED  BY <2>3, <2>4, <3>1, RequestsKeepReal, RowKeepsReal
  <2>7. TextPart'
    <3>1. UNCHANGED <<saved, loaded, committed>>  BY <1>2 DEF Check
    <3>. QED  BY <3>1, PageKeepsReal
  <2>8. DialogPart'
    <3>1. UNCHANGED <<dialog, committed>>  BY <1>2 DEF Check
    <3>. QED  BY <3>1, DialogKeepsReal
  <2>. QED  BY <2>6, <2>7, <2>8
<1>3. ASSUME NEW r \in requests, Commit(r)
       PROVE  Good
  <2>1. /\ r \in Request /\ r.page \in Pages /\ r.text \in Texts /\ r.expect \in Nat
        /\ r.read \in Texts /\ r.result \in Nat /\ Written(r) \in Texts
    BY RequestIn
  <2>2. Truthful(r)  BY DEF RealInv
  <2>3. PICK n \in Request :
          /\ requests' = (requests \ {r}) \cup {n} /\ Same(n, r)
          /\ n.stage = "stored" /\ n.result = r.expect + 1
    BY <1>3, CommitSteps
  <2>4. Store(r.read, r.expect, Written(r), FALSE) /\ Was(r.expect, r.read)
    BY <1>3, <2>2 DEF Commit, Truthful
  <2>5. /\ \A k \in DOMAIN snaps' : snaps'[k] \in committed'
        /\ Was(version, content)' /\ committed \subseteq committed'
    BY <2>1, <2>4, StoreReal
  <2>6. RowPart' /\ RequestsPart'
    <3>1. \E m \in requests' : m.stage = "stored"  BY <2>3
    <3>2. RowPart'  BY <2>5, <3>1 DEF SnapshotsAreReal
    <3>3. Truthful(n)'
      <4>1. n.kind # "rename" => Written(r) = n.text  BY <2>3 DEF Written, Same
      <4>2. [version |-> r.expect + 1, text |-> Written(r)] \in committed'  BY <2>4 DEF Store
      <4>. QED  BY <2>3, <4>1, <4>2 DEF Truthful, Was
    <3>4. \A m \in requests' : m \in requests \/ Truthful(m)'  BY <2>3, <3>3
    <3>. QED  BY <2>5, <3>2, <3>4, RequestsKeepReal
  <2>9. UNCHANGED <<saved, loaded, dialog>>  BY <1>3 DEF Commit
  <2>7. TextPart'  BY <2>5, <2>9, PageKeepsReal
  <2>8. DialogPart'  BY <2>5, <2>9, DialogKeepsReal
  <2>. QED  BY <2>6, <2>7, <2>8
<1>4. ASSUME NEW r \in requests, TrimVersions(r)
       PROVE  Good
  <2>1. /\ r \in Request /\ r.page \in Pages /\ r.text \in Texts /\ r.expect \in Nat
        /\ r.read \in Texts /\ r.result \in Nat /\ Written(r) \in Texts
    BY RequestIn
  <2>2. Truthful(r)  BY DEF RealInv
  <2>3. PICK n \in Request :
          /\ requests' = (requests \ {r}) \cup {n} /\ Same(n, r)
          /\ n.stage = "ok" /\ n.result = r.result
    BY <1>4, TrimSteps
  <2>4. snaps' = Trim(snaps) /\ UNCHANGED <<content, version, committed>> /\ r.stage = "stored"
    BY <1>4 DEF TrimVersions
  <2>5. /\ \A k \in DOMAIN snaps' : snaps'[k] \in committed
        /\ Len(snaps') <= Retention
    <3>1. snaps \in Seq(Snapshot) /\ Retention \in Nat  BY DEF SaveTypeOK, ChapterSaveAssumption
    <3>2. /\ Trim(snaps) \in Seq(Snapshot)
          /\ Len(Trim(snaps)) = IF Len(snaps) > Retention THEN Retention ELSE Len(snaps)
          /\ \A k \in 1..Len(Trim(snaps)) :
                /\ Trim(snaps)[k] = snaps[k + Len(snaps) - Len(Trim(snaps))]
                /\ k + Len(snaps) - Len(Trim(snaps)) \in 1..Len(snaps)
      BY <3>1, TrimProperties
    <3>3. /\ DOMAIN snaps = 1..Len(snaps) /\ Len(snaps) \in Nat
          /\ DOMAIN Trim(snaps) = 1..Len(Trim(snaps))
      BY <3>1, <3>2, LenProperties
    <3>4. \A k \in DOMAIN snaps : snaps[k] \in committed  BY DEF RealInv, SnapshotsAreReal
    <3>5. Len(Trim(snaps)) <= Retention  BY <3>1, <3>2, <3>3
    <3>. QED  BY <2>4, <3>2, <3>3, <3>4, <3>5
  <2>6. RowPart' /\ RequestsPart'
    <3>1. RowPart'  BY <2>4, <2>5 DEF SnapshotsAreReal, RealInv, Was
    <3>2. Truthful(n)'  BY <2>2, <2>3, <2>4 DEF Truthful, Was, Same
    <3>3. \A m \in requests' : m \in requests \/ Truthful(m)'  BY <2>3, <3>2
    <3>. QED  BY <2>4, <3>1, <3>3, RequestsKeepReal
  <2>7. TextPart'
    <3>1. UNCHANGED <<saved, loaded, committed>>  BY <1>4 DEF TrimVersions
    <3>. QED  BY <3>1, PageKeepsReal
  <2>8. DialogPart'
    <3>1. UNCHANGED <<dialog, committed>>  BY <1>4 DEF TrimVersions
    <3>. QED  BY <3>1, DialogKeepsReal
  <2>. QED  BY <2>6, <2>7, <2>8
<1>5. ASSUME NEW r \in requests, Ignored(r)
       PROVE  Good
  <2>1. /\ r \in Request /\ r.page \in Pages /\ r.text \in Texts /\ r.expect \in Nat
        /\ r.read \in Texts /\ r.result \in Nat /\ Written(r) \in Texts
    BY RequestIn
  <2>2. Truthful(r)  BY DEF RealInv
  <2>3. requests' = requests \ {r} /\ UNCHANGED rowVars /\ r.stage # "stored"
    BY <1>5 DEF Ignored, Answered
  <2>6. RowPart' /\ RequestsPart'
    BY <2>3, RequestsKeepReal, RowKeepsReal
  <2>7. TextPart'
    <3>1. UNCHANGED <<saved, loaded, committed>>  BY <1>5 DEF Ignored
    <3>. QED  BY <3>1, PageKeepsReal
  <2>8. DialogPart'
    <3>1. UNCHANGED <<dialog, committed>>  BY <1>5 DEF Ignored
    <3>. QED  BY <3>1, DialogKeepsReal
  <2>. QED  BY <2>6, <2>7, <2>8
<1>6. ASSUME NEW r \in requests, SaveOk(r)
       PROVE  Good
  <2>1. /\ r \in Request /\ r.page \in Pages /\ r.text \in Texts /\ r.expect \in Nat
        /\ r.read \in Texts /\ r.result \in Nat /\ Written(r) \in Texts
    BY RequestIn
  <2>2. Truthful(r)  BY DEF RealInv
  <2>3. requests' = requests \ {r} /\ UNCHANGED rowVars /\ r.stage # "stored"
    BY <1>6 DEF SaveOk, Answered
  <2>6. RowPart' /\ RequestsPart'
    BY <2>3, RequestsKeepReal, RowKeepsReal
  <2>4. r.kind = "save" => Had(r.text)
    BY <1>6, <2>2 DEF SaveOk, Truthful, Was, Had
  <2>7. TextPart'
    <3>1. ASSUME NEW q \in Pages PROVE Informed(q)'
      <4>1. loaded' = loaded /\ committed' = committed  BY <1>6 DEF SaveOk
      <4>2. saved'[q] = saved[q] \/ (r.kind = "save" /\ saved'[q] = r.text)
        BY <1>0, <1>6 DEF SaveOk
      <4>3. Informed(q)  BY DEF RealInv
      <4>. QED  BY <2>4, <4>1, <4>2, <4>3 DEF Informed, Had
    <3>. QED  BY <3>1
  <2>8. DialogPart'
    <3>1. UNCHANGED <<dialog, committed>>  BY <1>6 DEF SaveOk
    <3>. QED  BY <3>1, DialogKeepsReal
  <2>. QED  BY <2>6, <2>7, <2>8
<1>7. ASSUME NEW r \in requests, SaveConflict(r)
       PROVE  Good
  <2>1. /\ r \in Request /\ r.page \in Pages /\ r.text \in Texts /\ r.expect \in Nat
        /\ r.read \in Texts /\ r.result \in Nat /\ Written(r) \in Texts
    BY RequestIn
  <2>2. Truthful(r)  BY DEF RealInv
  <2>3. requests' = requests \ {r} /\ UNCHANGED rowVars /\ r.stage # "stored"
    BY <1>7 DEF SaveConflict, Answered
  <2>6. RowPart' /\ RequestsPart'
    BY <2>3, RequestsKeepReal, RowKeepsReal
  <2>7. TextPart'
    <3>1. UNCHANGED <<saved, loaded, committed>>  BY <1>7 DEF SaveConflict
    <3>. QED  BY <3>1, PageKeepsReal
  <2>4. Was(r.result, r.read)  BY <1>7, <2>2 DEF SaveConflict, Truthful
  <2>8. DialogPart'
    <3>1. ASSUME NEW q \in Pages PROVE Shown(q)'
      <4>1. committed' = committed  BY <2>3
      <4>2. \/ dialog'[q] = dialog[q]
            \/ dialog'[q] = [local |-> r.text, server |-> r.read, ver |-> r.result]
        BY <1>0, <1>7 DEF SaveConflict
      <4>3. CASE dialog'[q] = dialog[q]
        BY <4>1, <4>3, DialogKeepsReal
      <4>4. CASE dialog'[q] = [local |-> r.text, server |-> r.read, ver |-> r.result]
        <5>1. dialog'[q].ver = r.result /\ dialog'[q].server = r.read  BY <4>4
        <5>. QED  BY <2>4, <4>1, <5>1 DEF Shown, Was
      <4>. QED  BY <4>2, <4>3, <4>4
    <3>. QED  BY <3>1
  <2>. QED  BY <2>6, <2>7, <2>8
<1>8. ASSUME NEW r \in requests, Renamed(r)
       PROVE  Good
  <2>1. /\ r \in Request /\ r.page \in Pages /\ r.text \in Texts /\ r.expect \in Nat
        /\ r.read \in Texts /\ r.result \in Nat /\ Written(r) \in Texts
    BY RequestIn
  <2>2. Truthful(r)  BY DEF RealInv
  <2>3. requests' = requests \ {r} /\ UNCHANGED rowVars /\ r.stage # "stored"
    BY <1>8 DEF Renamed, Answered
  <2>6. RowPart' /\ RequestsPart'
    BY <2>3, RequestsKeepReal, RowKeepsReal
  <2>7. TextPart'
    <3>1. UNCHANGED <<saved, loaded, committed>>  BY <1>8 DEF Renamed
    <3>. QED  BY <3>1, PageKeepsReal
  <2>8. DialogPart'
    <3>1. UNCHANGED <<dialog, committed>>  BY <1>8 DEF Renamed
    <3>. QED  BY <3>1, DialogKeepsReal
  <2>. QED  BY <2>6, <2>7, <2>8
<1>9. ASSUME NEW r \in requests, Synced(r)
       PROVE  Good
  <2>1. /\ r \in Request /\ r.page \in Pages /\ r.text \in Texts /\ r.expect \in Nat
        /\ r.read \in Texts /\ r.result \in Nat /\ Written(r) \in Texts
    BY RequestIn
  <2>2. Truthful(r)  BY DEF RealInv
  <2>3. requests' = requests \ {r} /\ UNCHANGED rowVars /\ r.stage # "stored"
    BY <1>9 DEF Synced, Answered
  <2>6. RowPart' /\ RequestsPart'
    BY <2>3, RequestsKeepReal, RowKeepsReal
  <2>7. TextPart'
    <3>1. UNCHANGED <<saved, loaded, committed>>  BY <1>9 DEF Synced
    <3>. QED  BY <3>1, PageKeepsReal
  <2>8. DialogPart'
    <3>1. UNCHANGED <<dialog, committed>>  BY <1>9 DEF Synced
    <3>. QED  BY <3>1, DialogKeepsReal
  <2>. QED  BY <2>6, <2>7, <2>8
<1>10. ASSUME NEW r \in requests, Kept(r)
       PROVE  Good
  <2>1. /\ r \in Request /\ r.page \in Pages /\ r.text \in Texts /\ r.expect \in Nat
        /\ r.read \in Texts /\ r.result \in Nat /\ Written(r) \in Texts
    BY RequestIn
  <2>2. Truthful(r)  BY DEF RealInv
  <2>3. requests' = requests \ {r} /\ UNCHANGED rowVars /\ r.stage # "stored"
    BY <1>10 DEF Kept, Answered
  <2>6. RowPart' /\ RequestsPart'
    BY <2>3, RequestsKeepReal, RowKeepsReal
  <2>4. r.stage = "ok" => Had(r.text)
    BY <1>10, <2>2 DEF Kept, Truthful, Was, Had
  <2>7. TextPart'
    <3>1. CASE r.stage = "ok"
      <4>1. Show(r.page, r.text) /\ committed' = committed  BY <1>10, <3>1 DEF Kept
      <4>2. Had(r.text)'  BY <2>4, <3>1, <4>1 DEF Had
      <4>. QED  BY <2>1, <4>1, <4>2, ShowReal
    <3>2. CASE r.stage # "ok"
      <4>1. UNCHANGED <<saved, loaded, committed>>  BY <1>10, <3>2 DEF Kept
      <4>. QED  BY <4>1, PageKeepsReal
    <3>. QED  BY <3>1, <3>2
  <2>8. DialogPart'
    <3>1. \A q \in Pages : dialog'[q] \in {dialog[q], None}
      <4>1. CASE r.stage = "ok"  BY <1>0, <1>10, <4>1 DEF Kept
      <4>2. CASE r.stage # "ok"  BY <1>10, <4>2 DEF Kept
      <4>. QED  BY <4>1, <4>2
    <3>. QED  BY <2>3, <3>1, DialogKeepsReal
  <2>. QED  BY <2>6, <2>7, <2>8
<1>11. ASSUME NEW r \in requests, Lose(r)
       PROVE  Good
  <2>1. /\ r \in Request /\ r.page \in Pages /\ r.text \in Texts /\ r.expect \in Nat
        /\ r.read \in Texts /\ r.result \in Nat /\ Written(r) \in Texts
    BY RequestIn
  <2>2. Truthful(r)  BY DEF RealInv
  <2>3. requests' = requests \ {r} /\ UNCHANGED rowVars /\ r.stage # "stored"
    BY <1>11 DEF Lose, Answered
  <2>6. RowPart' /\ RequestsPart'
    BY <2>3, RequestsKeepReal, RowKeepsReal
  <2>7. TextPart'
    <3>1. UNCHANGED <<saved, loaded, committed>>  BY <1>11 DEF Lose
    <3>. QED  BY <3>1, PageKeepsReal
  <2>8. DialogPart'
    <3>1. UNCHANGED <<dialog, committed>>  BY <1>11 DEF Lose
    <3>. QED  BY <3>1, DialogKeepsReal
  <2>. QED  BY <2>6, <2>7, <2>8
<1>12. ASSUME NEW p \in Pages, NEW e \in Edits, Type(p, e)
       PROVE  Good
  <2>6. RowPart' /\ RequestsPart'
    <3>1. UNCHANGED <<requests, rowVars>>  BY <1>12 DEF Type
    <3>. QED  BY <3>1, RowKeepsReal, RequestsKeepReal
  <2>7. TextPart'
    <3>1. UNCHANGED <<saved, loaded, committed>>  BY <1>12 DEF Type
    <3>. QED  BY <3>1, PageKeepsReal
  <2>8. DialogPart'
    <3>1. UNCHANGED <<dialog, committed>>  BY <1>12 DEF Type
    <3>. QED  BY <3>1, DialogKeepsReal
  <2>. QED  BY <2>6, <2>7, <2>8
<1>13. ASSUME NEW p \in Pages, SaveDraft(p)
       PROVE  Good
  <2>6. RowPart' /\ RequestsPart'
    <3>1. UNCHANGED <<requests, rowVars>>  BY <1>13 DEF SaveDraft
    <3>. QED  BY <3>1, RowKeepsReal, RequestsKeepReal
  <2>7. TextPart'
    <3>1. UNCHANGED <<saved, loaded, committed>>  BY <1>13 DEF SaveDraft
    <3>. QED  BY <3>1, PageKeepsReal
  <2>8. DialogPart'
    <3>1. UNCHANGED <<dialog, committed>>  BY <1>13 DEF SaveDraft
    <3>. QED  BY <3>1, DialogKeepsReal
  <2>. QED  BY <2>6, <2>7, <2>8
<1>14. ASSUME NEW p \in Pages, Autosave(p)
       PROVE  Good
  <2>1. timer[p] \in Pending /\ PerformSave(p, timer[p]) /\ UNCHANGED rowVars
    BY <1>14 DEF Autosave, SaveTypeOK
  <2>6. RowPart' /\ RequestsPart'
    <3>. HIDE DEF rowVars
    <3>. QED  BY <2>1, PerformSaveReal
  <2>7. TextPart'
    <3>1. UNCHANGED <<saved, loaded, committed>>  BY <1>14 DEF Autosave
    <3>. QED  BY <3>1, PageKeepsReal
  <2>8. DialogPart'
    <3>1. UNCHANGED <<dialog, committed>>  BY <1>14 DEF Autosave
    <3>. QED  BY <3>1, DialogKeepsReal
  <2>. QED  BY <2>6, <2>7, <2>8
<1>15. ASSUME NEW p \in Pages, Retry(p)
       PROVE  Good
  <2>1. failed[p] \in Pending /\ PerformSave(p, failed[p]) /\ UNCHANGED rowVars
    BY <1>15 DEF Retry, SaveTypeOK
  <2>6. RowPart' /\ RequestsPart'
    <3>. HIDE DEF rowVars
    <3>. QED  BY <2>1, PerformSaveReal
  <2>7. TextPart'
    <3>1. UNCHANGED <<saved, loaded, committed>>  BY <1>15 DEF Retry
    <3>. QED  BY <3>1, PageKeepsReal
  <2>8. DialogPart'
    <3>1. UNCHANGED <<dialog, committed>>  BY <1>15 DEF Retry
    <3>. QED  BY <3>1, DialogKeepsReal
  <2>. QED  BY <2>6, <2>7, <2>8
<1>16. ASSUME NEW p \in Pages, Rename(p)
       PROVE  Good
  <2>1. ver[p] \in Nat /\ {} \in Texts  BY DEF SaveTypeOK, Texts
  <2>2. Send(p, "rename", {}, ver[p], {}) /\ UNCHANGED rowVars
    BY <1>16 DEF Rename, Update
  <2>6. RowPart' /\ RequestsPart'
    <3>. HIDE DEF rowVars
    <3>. QED  BY <2>1, <2>2, SendReal DEF Kinds
  <2>7. TextPart'
    <3>1. UNCHANGED <<saved, loaded, committed>>  BY <1>16 DEF Rename
    <3>. QED  BY <3>1, PageKeepsReal
  <2>8. DialogPart'
    <3>1. UNCHANGED <<dialog, committed>>  BY <1>16 DEF Rename
    <3>. QED  BY <3>1, DialogKeepsReal
  <2>. QED  BY <2>6, <2>7, <2>8
<1>17. ASSUME NEW p \in Pages, Sync(p)
       PROVE  Good
  <2>1. draft[p] \in Texts /\ version \in Nat /\ {} \in Texts  BY <1>17 DEF Sync, SaveTypeOK, Texts
  <2>2. Send(p, "sync", draft[p], version, {}) /\ UNCHANGED rowVars
    BY <1>17 DEF Sync, Update
  <2>6. RowPart' /\ RequestsPart'
    <3>. HIDE DEF rowVars
    <3>. QED  BY <2>1, <2>2, SendReal DEF Kinds
  <2>7. TextPart'
    <3>1. UNCHANGED <<saved, loaded, committed>>  BY <1>17 DEF Sync
    <3>. QED  BY <3>1, PageKeepsReal
  <2>8. DialogPart'
    <3>1. UNCHANGED <<dialog, committed>>  BY <1>17 DEF Sync
    <3>. QED  BY <3>1, DialogKeepsReal
  <2>. QED  BY <2>6, <2>7, <2>8
<1>18. ASSUME NEW p \in Pages, Keep(p)
       PROVE  Good
  <2>0. dialog[p] \in Refusal  BY <1>18 DEF Keep, SaveTypeOK
  <2>1. dialog[p].local \in Texts /\ dialog[p].server \in Texts /\ dialog[p].ver \in Nat
    BY <2>0, RefusalFields
  <2>2. Send(p, "keep", dialog[p].local, dialog[p].ver, dialog[p].server) /\ UNCHANGED rowVars
    BY <1>18 DEF Keep, Update
  <2>6. RowPart' /\ RequestsPart'
    <3>. HIDE DEF rowVars
    <3>. QED  BY <2>1, <2>2, SendReal DEF Kinds
  <2>7. TextPart'
    <3>1. UNCHANGED <<saved, loaded, committed>>  BY <1>18 DEF Keep
    <3>. QED  BY <3>1, PageKeepsReal
  <2>8. DialogPart'
    <3>1. UNCHANGED <<dialog, committed>>  BY <1>18 DEF Keep
    <3>. QED  BY <3>1, DialogKeepsReal
  <2>. QED  BY <2>6, <2>7, <2>8
<1>19. ASSUME NEW p \in Pages, Discard(p)
       PROVE  Good
  <2>6. RowPart' /\ RequestsPart'
    <3>1. UNCHANGED <<requests, rowVars>>  BY <1>19 DEF Discard
    <3>. QED  BY <3>1, RowKeepsReal, RequestsKeepReal
  <2>0. PICK t : t = dialog[p].server  OBVIOUS
  <2>1. Show(p, t) /\ committed' = committed  BY <1>19, <2>0 DEF Discard
  <2>2. Had(t)'
    <3>1. Was(dialog[p].ver, dialog[p].server)  BY <1>19 DEF Discard, RealInv, Shown
    <3>2. Had(t)  BY <2>0, <3>1 DEF Was, Had
    <3>. QED  BY <2>1, <3>2 DEF Had
  <2>7. TextPart'  BY <2>1, <2>2, ShowReal
  <2>8. DialogPart'
    <3>1. \A q \in Pages : dialog'[q] \in {dialog[q], None}  BY <1>0, <1>19 DEF Discard
    <3>. QED  BY <2>1, <3>1, DialogKeepsReal
  <2>. QED  BY <2>6, <2>7, <2>8
<1>20. ASSUME NEW p \in Pages, SaveAsNew(p)
       PROVE  Good
  <2>6. RowPart' /\ RequestsPart'
    <3>1. UNCHANGED <<requests, rowVars>>  BY <1>20 DEF SaveAsNew
    <3>. QED  BY <3>1, RowKeepsReal, RequestsKeepReal
  <2>0. PICK t : t = dialog[p].server  OBVIOUS
  <2>1. Show(p, t) /\ committed' = committed  BY <1>20, <2>0 DEF SaveAsNew
  <2>2. Had(t)'
    <3>1. Was(dialog[p].ver, dialog[p].server)  BY <1>20 DEF SaveAsNew, RealInv, Shown
    <3>2. Had(t)  BY <2>0, <3>1 DEF Was, Had
    <3>. QED  BY <2>1, <3>2 DEF Had
  <2>7. TextPart'  BY <2>1, <2>2, ShowReal
  <2>8. DialogPart'
    <3>1. \A q \in Pages : dialog'[q] \in {dialog[q], None}  BY <1>0, <1>20 DEF SaveAsNew
    <3>. QED  BY <2>1, <3>1, DialogKeepsReal
  <2>. QED  BY <2>6, <2>7, <2>8
<1>21. ASSUME NEW p \in Pages, RefreshBook(p)
       PROVE  Good
  <2>6. RowPart' /\ RequestsPart'
    <3>1. UNCHANGED <<requests, rowVars>>  BY <1>21 DEF RefreshBook
    <3>. QED  BY <3>1, RowKeepsReal, RequestsKeepReal
  <2>7. TextPart'
    <3>1. UNCHANGED <<saved, loaded, committed>>  BY <1>21 DEF RefreshBook
    <3>. QED  BY <3>1, PageKeepsReal
  <2>8. DialogPart'
    <3>1. UNCHANGED <<dialog, committed>>  BY <1>21 DEF RefreshBook
    <3>. QED  BY <3>1, DialogKeepsReal
  <2>. QED  BY <2>6, <2>7, <2>8
<1>22. ASSUME NEW p \in Pages, Flush(p)
       PROVE  Good
  <2>6. RowPart' /\ RequestsPart'
    <3>0. text[p] \in Texts /\ ver[p] \in Nat /\ {} \in Texts  BY DEF SaveTypeOK, Texts
    <3>1. CASE UNCHANGED netVars
      <4>1. UNCHANGED <<requests, rowVars>>  BY <1>22, <3>1 DEF Flush
      <4>. QED  BY <4>1, RowKeepsReal, RequestsKeepReal
    <3>2. CASE Send(p, "keepalive", text[p], ver[p], {})
      <4>1. UNCHANGED rowVars  BY <1>22 DEF Flush
      <4>. HIDE DEF rowVars
      <4>. QED  BY <3>0, <3>2, <4>1, SendReal DEF Kinds
    <3>. QED  BY <1>22, <3>1, <3>2 DEF Flush
  <2>7. TextPart'
    <3>1. UNCHANGED <<saved, loaded, committed>>  BY <1>22 DEF Flush
    <3>. QED  BY <3>1, PageKeepsReal
  <2>8. DialogPart'
    <3>1. UNCHANGED <<dialog, committed>>  BY <1>22 DEF Flush
    <3>. QED  BY <3>1, DialogKeepsReal
  <2>. QED  BY <2>6, <2>7, <2>8
<1>23. ASSUME NEW p \in Pages, Gone(p)
       PROVE  Good
  <2>6. RowPart' /\ RequestsPart'
    <3>1. UNCHANGED <<requests, rowVars>>  BY <1>23 DEF Gone
    <3>. QED  BY <3>1, RowKeepsReal, RequestsKeepReal
  <2>7. TextPart'
    <3>1. UNCHANGED <<saved, loaded, committed>>  BY <1>23 DEF Gone
    <3>. QED  BY <3>1, PageKeepsReal
  <2>8. DialogPart'
    <3>1. (\A q \in Pages : dialog'[q] \in {dialog[q], None}) /\ committed' = committed
      BY <1>0, <1>23 DEF Gone
    <3>. QED  BY <3>1, DialogKeepsReal
  <2>. QED  BY <2>6, <2>7, <2>8
<1>24. ASSUME NEW p \in Pages, Away(p)
       PROVE  Good
  <2>1. /\ UNCHANGED rowVars
        /\ requests' = {[r EXCEPT !.kind = IF r.page = p /\ @ = "save" THEN "orphan" ELSE @] :
                          r \in requests}
    BY <1>24 DEF Away
  <2>2. ASSUME NEW r \in requests
        PROVE  LET n == [r EXCEPT !.kind = IF r.page = p /\ @ = "save" THEN "orphan" ELSE @]
               IN  Truthful(n)' /\ n.stage = r.stage
    <3>. DEFINE n == [r EXCEPT !.kind = IF r.page = p /\ @ = "save" THEN "orphan" ELSE @]
    <3>1. /\ n.stage = r.stage /\ n.expect = r.expect /\ n.read = r.read /\ n.text = r.text
          /\ n.result = r.result /\ (n.kind = "rename" <=> r.kind = "rename")
      <4>1. r \in Request  BY RequestIn
      <4>. QED  BY <4>1 DEF Request
    <3>2. Truthful(r)  BY DEF RealInv
    <3>. HIDE DEF n
    <3>3. Truthful(n)'  BY <2>1, <3>1, <3>2 DEF Truthful, Was
    <3>. QED  BY <3>1, <3>3 DEF n
  <2>6. RowPart' /\ RequestsPart'
    <3>1. \A r \in requests : \E n \in requests' : n.stage = r.stage  BY <2>1, <2>2
    <3>2. RowPart'
      <4>1. \A r \in requests : r.stage = "stored" => \E n \in requests' : n.stage = "stored"
        BY <3>1
      <4>. QED  BY <2>1, <4>1, RowKeepsReal
    <3>. QED  BY <2>1, <2>2, <3>2
  <2>7. TextPart'
    <3>1. /\ \A q \in Pages : loaded'[q] \in {loaded[q], None}
          /\ saved' = saved /\ committed' = committed
      BY <1>0, <1>24 DEF Away
    <3>. QED  BY <3>1, PageKeepsReal
  <2>8. DialogPart'
    <3>1. UNCHANGED <<dialog, committed>>  BY <1>24 DEF Away
    <3>. QED  BY <3>1, DialogKeepsReal
  <2>. QED  BY <2>6, <2>7, <2>8
<1>25. ASSUME NEW p \in Pages, Back(p)
       PROVE  Good
  <2>6. RowPart' /\ RequestsPart'
    <3>1. UNCHANGED <<requests, rowVars>>  BY <1>25 DEF Back
    <3>. QED  BY <3>1, RowKeepsReal, RequestsKeepReal
  <2>1. Mount(p, (IF loaded[p] = None THEN content ELSE loaded[p])) /\ committed' = committed
    BY <1>25 DEF Back
  <2>2. Had((IF loaded[p] = None THEN content ELSE loaded[p]))
    <3>1. Had(content) /\ Informed(p)  BY DEF RealInv, Was, Had
    <3>. QED  BY <3>1 DEF Informed
  <2>3. \A t : Had(t) => Had(t)'  BY <2>1 DEF Had
  <2>7. TextPart'
    <3>1. PICK t : t = (IF loaded[p] = None THEN content ELSE loaded[p])  OBVIOUS
    <3>. QED  BY <2>1, <2>2, <2>3, <3>1, MountReal
  <2>8. DialogPart'
    <3>1. UNCHANGED <<dialog, committed>>  BY <1>25 DEF Back
    <3>. QED  BY <3>1, DialogKeepsReal
  <2>. QED  BY <2>6, <2>7, <2>8
<1>26. ASSUME NEW p \in Pages, Load(p)
       PROVE  Good
  <2>6. RowPart' /\ RequestsPart'
    <3>1. UNCHANGED <<requests, rowVars>>  BY <1>26 DEF Load
    <3>. QED  BY <3>1, RowKeepsReal, RequestsKeepReal
  <2>1. Mount(p, content) /\ committed' = committed
    BY <1>26 DEF Load
  <2>2. Had(content)
    <3>1. Had(content) /\ Informed(p)  BY DEF RealInv, Was, Had
    <3>. QED  BY <3>1 DEF Informed
  <2>3. \A t : Had(t) => Had(t)'  BY <2>1 DEF Had
  <2>7. TextPart'
    <3>1. PICK t : t = content  OBVIOUS
    <3>. QED  BY <2>1, <2>2, <2>3, <3>1, MountReal
  <2>8. DialogPart'
    <3>1. UNCHANGED <<dialog, committed>>  BY <1>26 DEF Load
    <3>. QED  BY <3>1, DialogKeepsReal
  <2>. QED  BY <2>6, <2>7, <2>8
<1>27. ASSUME NEW p \in Pages, NEW k \in DOMAIN snaps, RestoreVersion(p, snaps[k])
       PROVE  Good
  <2>1. snaps[k] \in committed /\ snaps[k].text \in Texts
    <3>1. snaps[k] \in committed  BY DEF RealInv, SnapshotsAreReal
    <3>. QED  BY <3>1 DEF SaveTypeOK, Snapshot
  <2>2. Store(content, version, snaps[k].text, TRUE) /\ Was(version, content)
    BY <1>27 DEF RestoreVersion, RealInv
  <2>3. /\ \A n \in DOMAIN snaps' : snaps'[n] \in committed'
        /\ Was(version, content)' /\ committed \subseteq committed'
    BY <1>0, <2>1, <2>2, StoreReal
  <2>4. Len(snaps') <= Retention  BY <1>0, <2>1, <2>2, StoreKeeps
  <2>6. RowPart' /\ RequestsPart'
    <3>1. RowPart'  BY <2>3, <2>4 DEF SnapshotsAreReal
    <3>2. requests' = requests  BY <1>27 DEF RestoreVersion
    <3>. QED  BY <2>3, <3>1, <3>2, RequestsKeepReal
  <2>7. TextPart'
    <3>1. PICK t : t = snaps[k].text  OBVIOUS
    <3>2. Show(p, t)  BY <1>27, <3>1 DEF RestoreVersion
    <3>3. Had(t)'  BY <2>1, <2>3, <3>1 DEF Had
    <3>. QED  BY <2>3, <3>2, <3>3, ShowReal
  <2>8. DialogPart'
    <3>1. dialog' = dialog  BY <1>27 DEF RestoreVersion
    <3>. QED  BY <2>3, <3>1, DialogKeepsReal
  <2>. QED  BY <2>6, <2>7, <2>8
<1>28. CASE UNCHANGED vars
  <2>1. UNCHANGED <<requests, rowVars, saved, loaded, dialog, committed>>  BY <1>28 DEF vars
  <2>6. RowPart' /\ RequestsPart'  BY <2>1, RowKeepsReal, RequestsKeepReal
  <2>7. TextPart'  BY <2>1, PageKeepsReal
  <2>8. DialogPart'  BY <2>1, DialogKeepsReal
  <2>. QED  BY <2>6, <2>7, <2>8
<1>. HIDE DEF Good
<1>. QED
  BY <1>1, <1>2, <1>3, <1>4, <1>5, <1>6, <1>7, <1>8, <1>9, <1>10, <1>11, <1>12, <1>13, <1>14,
     <1>15, <1>16, <1>17, <1>18, <1>19, <1>20, <1>21, <1>22, <1>23, <1>24, <1>25, <1>26, <1>27,
     <1>28 DEF Next, Serve, Receive

\* The types and the real history hold from the start.
LEMMA RealHolds == Spec => [](SaveTypeOK /\ RealInv)
<1>1. Init => RealInv
  <2>1. 0 <= Retention /\ DOMAIN <<>> = {} /\ Len(<<>>) = 0
    BY ChapterSaveAssumption DEF ChapterSaveAssumption
  <2>2. ASSUME Init PROVE RealInv
    <3>1. Was(version, content) /\ SnapshotsAreReal  BY <2>1, <2>2 DEF Init, Was, SnapshotsAreReal
    <3>2. \A r \in requests : Truthful(r)  BY <2>2 DEF Init
    <3>3. ASSUME NEW p \in Pages PROVE Informed(p) /\ Shown(p)
      <4>1. /\ loaded[p] = {} /\ saved[p] = {} /\ dialog[p] = None
            /\ committed = {[version |-> 1, text |-> {}]}
        BY <2>2 DEF Init
      <4>. QED  BY <4>1 DEF Informed, Shown, Had
    <3>. QED  BY <3>1, <3>2, <3>3 DEF RealInv
  <2>. QED  BY <2>2
<1>2. SaveTypeOK /\ RealInv /\ [Next]_vars => RealInv'
  BY RealStep, ChapterSaveAssumption
<1>. QED  BY <1>1, <1>2, TypeCorrect, PTL DEF Spec

\* Whatever handlers interleave, every snapshot is what the chapter was at its
\* version, and no more than Retention stay once no trim is due.
THEOREM SnapshotsReal == Spec => []SnapshotsAreReal
<1>1. RealInv => SnapshotsAreReal  BY DEF RealInv
<1>. QED  BY <1>1, RealHolds, PTL

\* What the editor counts as saved has been the chapter's text on the server.
THEOREM SavedCommitted == Spec => []SavedWasCommitted
<1>1. RealInv => SavedWasCommitted  BY DEF RealInv, SavedWasCommitted, Informed, Had
<1>. QED  BY <1>1, RealHolds, PTL

-----------------------------------------------------------------------------
(* Handlers that do not interleave                                         *)

\* Without a thread switch no handler is between its read and its commit, or
\* between its commit and its trim.
OneByOne == \A r \in requests : r.stage \notin {"checked", "stored"}

LEMMA SendsOnly ==
  ASSUME ChapterSaveAssumption, SaveTypeOK, NEW p \in Pages, NEW kind \in Kinds, NEW t \in Texts,
         NEW expect \in Nat, NEW shown \in Texts, Send(p, kind, t, expect, shown), OneByOne
  PROVE  OneByOne'
<1>1. PICK n \in Request : Sending(n, p, kind, t, expect, shown) /\ requests' = requests \cup {n}
  BY Sends DEF ChapterSaveAssumption
<1>. QED  BY <1>1 DEF OneByOne, Sending

LEMMA OneByOneStep ==
  ASSUME ChapterSaveAssumption, "threads" \notin Allowed, SaveTypeOK, OneByOne, [Next]_vars
  PROVE  OneByOne'
<1>. USE DEF netVars
<1>1. ASSUME NEW r \in requests, Handle(r) PROVE OneByOne'
  <2>1. PICK n \in Request : requests' = (requests \ {r}) \cup {n} /\ n.stage \in {"ok", "conflict"}
    BY <1>1, HandleSteps
  <2>. QED  BY <2>1 DEF OneByOne
<1>2. ASSUME NEW r \in requests, Check(r) PROVE OneByOne'
  BY <1>2 DEF Check, OneByOne
<1>3. ASSUME NEW r \in requests, Commit(r) PROVE OneByOne'
  BY <1>3 DEF Commit, OneByOne
<1>4. ASSUME NEW r \in requests, TrimVersions(r) PROVE OneByOne'
  BY <1>4 DEF TrimVersions, OneByOne
<1>5. ASSUME NEW r \in requests, Ignored(r) PROVE OneByOne'
  BY <1>5 DEF Ignored, Answered, OneByOne
<1>6. ASSUME NEW r \in requests, SaveOk(r) PROVE OneByOne'
  BY <1>6 DEF SaveOk, Answered, OneByOne
<1>7. ASSUME NEW r \in requests, SaveConflict(r) PROVE OneByOne'
  BY <1>7 DEF SaveConflict, Answered, OneByOne
<1>8. ASSUME NEW r \in requests, Renamed(r) PROVE OneByOne'
  BY <1>8 DEF Renamed, Answered, OneByOne
<1>9. ASSUME NEW r \in requests, Synced(r) PROVE OneByOne'
  BY <1>9 DEF Synced, Answered, OneByOne
<1>10. ASSUME NEW r \in requests, Kept(r) PROVE OneByOne'
  BY <1>10 DEF Kept, Answered, OneByOne
<1>11. ASSUME NEW r \in requests, Lose(r) PROVE OneByOne'
  BY <1>11 DEF Lose, Answered, OneByOne
<1>12. ASSUME NEW p \in Pages, NEW e \in Edits, Type(p, e) PROVE OneByOne'
  BY <1>12 DEF Type, OneByOne
<1>13. ASSUME NEW p \in Pages, SaveDraft(p) PROVE OneByOne'
  BY <1>13 DEF SaveDraft, OneByOne
<1>14. ASSUME NEW p \in Pages, Autosave(p) PROVE OneByOne'
  <2>1. timer[p] \in Pending /\ PerformSave(p, timer[p])  BY <1>14 DEF Autosave, SaveTypeOK
  <2>2. timer[p].text \in Texts /\ timer[p].ver \in Nat /\ {} \in Texts
    BY <2>1, PendingFields DEF Texts
  <2>3. requests' = requests \/ Send(p, "save", timer[p].text, timer[p].ver, {})
    BY <2>1 DEF PerformSave, Update
  <2>. QED  BY <2>2, <2>3, SendsOnly DEF Kinds, OneByOne
<1>15. ASSUME NEW p \in Pages, Retry(p) PROVE OneByOne'
  <2>1. failed[p] \in Pending /\ PerformSave(p, failed[p])  BY <1>15 DEF Retry, SaveTypeOK
  <2>2. failed[p].text \in Texts /\ failed[p].ver \in Nat /\ {} \in Texts
    BY <2>1, PendingFields DEF Texts
  <2>3. requests' = requests \/ Send(p, "save", failed[p].text, failed[p].ver, {})
    BY <2>1 DEF PerformSave, Update
  <2>. QED  BY <2>2, <2>3, SendsOnly DEF Kinds, OneByOne
<1>16. ASSUME NEW p \in Pages, Rename(p) PROVE OneByOne'
  <2>1. ver[p] \in Nat /\ {} \in Texts  BY DEF SaveTypeOK, Texts
  <2>2. Send(p, "rename", {}, ver[p], {})  BY <1>16 DEF Rename, Update
  <2>. QED  BY <2>1, <2>2, SendsOnly DEF Kinds
<1>17. ASSUME NEW p \in Pages, Sync(p) PROVE OneByOne'
  <2>1. draft[p] \in Texts /\ version \in Nat /\ {} \in Texts  BY <1>17 DEF Sync, SaveTypeOK, Texts
  <2>2. Send(p, "sync", draft[p], version, {})  BY <1>17 DEF Sync, Update
  <2>. QED  BY <2>1, <2>2, SendsOnly DEF Kinds
<1>18. ASSUME NEW p \in Pages, Keep(p) PROVE OneByOne'
  <2>0. dialog[p] \in Refusal  BY <1>18 DEF Keep, SaveTypeOK
  <2>1. dialog[p].local \in Texts /\ dialog[p].server \in Texts /\ dialog[p].ver \in Nat
    BY <2>0, RefusalFields
  <2>2. Send(p, "keep", dialog[p].local, dialog[p].ver, dialog[p].server)  BY <1>18 DEF Keep, Update
  <2>. QED  BY <2>1, <2>2, SendsOnly DEF Kinds
<1>19. ASSUME NEW p \in Pages, Discard(p) PROVE OneByOne'
  BY <1>19 DEF Discard, OneByOne
<1>20. ASSUME NEW p \in Pages, SaveAsNew(p) PROVE OneByOne'
  BY <1>20 DEF SaveAsNew, OneByOne
<1>21. ASSUME NEW p \in Pages, RefreshBook(p) PROVE OneByOne'
  BY <1>21 DEF RefreshBook, OneByOne
<1>22. ASSUME NEW p \in Pages, Flush(p) PROVE OneByOne'
  <2>1. text[p] \in Texts /\ ver[p] \in Nat /\ {} \in Texts  BY DEF SaveTypeOK, Texts
  <2>2. requests' = requests \/ Send(p, "keepalive", text[p], ver[p], {})  BY <1>22 DEF Flush
  <2>. QED  BY <2>1, <2>2, SendsOnly DEF Kinds, OneByOne
<1>23. ASSUME NEW p \in Pages, Gone(p) PROVE OneByOne'
  BY <1>23 DEF Gone, OneByOne
<1>24. ASSUME NEW p \in Pages, Away(p) PROVE OneByOne'
  <2>1. requests' = {[r EXCEPT !.kind = IF r.page = p /\ @ = "save" THEN "orphan" ELSE @] :
                       r \in requests}
    BY <1>24 DEF Away
  <2>2. ASSUME NEW r \in requests
        PROVE  [r EXCEPT !.kind = IF r.page = p /\ @ = "save" THEN "orphan" ELSE @].stage = r.stage
    <3>1. r \in Request  BY RequestIn
    <3>. QED  BY <3>1 DEF Request
  <2>. QED  BY <2>1, <2>2 DEF OneByOne
<1>25. ASSUME NEW p \in Pages, Back(p) PROVE OneByOne'
  BY <1>25 DEF Back, OneByOne
<1>26. ASSUME NEW p \in Pages, Load(p) PROVE OneByOne'
  BY <1>26 DEF Load, OneByOne
<1>27. ASSUME NEW p \in Pages, NEW n \in DOMAIN snaps, RestoreVersion(p, snaps[n]) PROVE OneByOne'
  BY <1>27 DEF RestoreVersion, OneByOne
<1>28. CASE UNCHANGED vars  BY <1>28 DEF vars, OneByOne
<1>. QED
  BY <1>1, <1>2, <1>3, <1>4, <1>5, <1>6, <1>7, <1>8, <1>9, <1>10, <1>11, <1>12, <1>13, <1>14,
     <1>15, <1>16, <1>17, <1>18, <1>19, <1>20, <1>21, <1>22, <1>23, <1>24, <1>25, <1>26, <1>27,
     <1>28 DEF Next, Serve, Receive

\* The row and its history change in one step, by the commit of the text of
\* some request, or not at all.
LEMMA RowSteps ==
  ASSUME ChapterSaveAssumption, "threads" \notin Allowed, SaveTypeOK, OneByOne, [Next]_vars
  PROVE  \/ UNCHANGED rowVars
         \/ \E new \in Texts : Store(content, version, new, TRUE)
<1>. USE DEF rowVars
<1>1. ASSUME NEW r \in requests, Serve(r)
      PROVE  UNCHANGED rowVars \/ \E new \in Texts : Store(content, version, new, TRUE)
  <2>1. Handle(r)  BY <1>1 DEF Serve, Check, Commit, TrimVersions, OneByOne
  <2>2. Written(r) \in Texts  BY RequestIn
  <2>. QED  BY <2>1, <2>2 DEF Handle
<1>2. ASSUME NEW r \in requests, Receive(r) \/ Lose(r)
      PROVE  UNCHANGED rowVars
  BY <1>2 DEF Receive, Ignored, SaveOk, SaveConflict, Renamed, Synced, Kept, Lose
<1>3. ASSUME NEW p \in Pages, NEW n \in DOMAIN snaps, RestoreVersion(p, snaps[n])
      PROVE  \E new \in Texts : Store(content, version, new, TRUE)
  <2>1. snaps[n] \in Snapshot  BY DEF SaveTypeOK
  <2>2. snaps[n].text \in Texts  BY <2>1 DEF Snapshot
  <2>. QED  BY <1>3, <2>2 DEF RestoreVersion
<1>4. ASSUME NEW p \in Pages,
             \/ \E e \in Edits : Type(p, e)
             \/ SaveDraft(p) \/ Autosave(p) \/ Retry(p) \/ Rename(p) \/ Sync(p)
             \/ Keep(p) \/ Discard(p) \/ SaveAsNew(p) \/ RefreshBook(p)
             \/ Flush(p) \/ Gone(p) \/ Away(p) \/ Back(p) \/ Load(p)
      PROVE  UNCHANGED rowVars
  BY <1>4 DEF Type, SaveDraft, Autosave, Retry, Rename, Sync, Keep, Discard, SaveAsNew,
              RefreshBook, Flush, Gone, Away, Back, Load
<1>5. CASE UNCHANGED vars  BY <1>5 DEF vars
<1>. QED  BY <1>1, <1>2, <1>3, <1>4, <1>5 DEF Next

\* A snapshot is taken of every version that is replaced.
LEMMA HistoryStep ==
  ASSUME ChapterSaveAssumption, SaveTypeOK, HistoryIsComplete,
         UNCHANGED rowVars \/ \E new \in Texts : Store(content, version, new, TRUE)
  PROVE  HistoryIsComplete'
<1>0. snaps \in Seq(Snapshot) /\ content \in Texts /\ version \in Nat  BY DEF SaveTypeOK
<1>1. CASE UNCHANGED rowVars  BY <1>1 DEF rowVars, HistoryIsComplete
<1>2. ASSUME NEW new \in Texts, Store(content, version, new, TRUE)
      PROVE  HistoryIsComplete'
  <2>1. /\ snaps' \in Seq(Snapshot) /\ version' = version + 1
        /\ \A i \in 1..Len(snaps') :
             LET k == i + Len(snaps) + 1 - Len(snaps')
             IN  /\ k \in 1..Len(snaps) + 1
                 /\ snaps'[i] = IF k = Len(snaps) + 1 THEN [version |-> version, text |-> content]
                                                      ELSE snaps[k]
    BY ZenonT(40), <1>0, <1>2, StoreKeeps
  <2>2. /\ DOMAIN snaps = 1..Len(snaps) /\ Len(snaps) \in Nat
        /\ DOMAIN snaps' = 1..Len(snaps') /\ Len(snaps') \in Nat
    BY <1>0, <2>1, LenProperties
  <2>3. ASSUME NEW i \in 1..Len(snaps')
        PROVE  snaps'[i].version = version' - (Len(snaps') - i + 1)
    <3>. DEFINE k == i + Len(snaps) + 1 - Len(snaps')
    <3>1. /\ k \in 1..Len(snaps) + 1
          /\ snaps'[i] = IF k = Len(snaps) + 1 THEN [version |-> version, text |-> content]
                                               ELSE snaps[k]
      BY <2>1
    <3>2. k = i + Len(snaps) + 1 - Len(snaps')  OBVIOUS
    <3>. HIDE DEF k
    <3>3. snaps'[i].version = version - (Len(snaps) - k + 1)
      <4>1. CASE k = Len(snaps) + 1  BY <1>0, <2>2, <3>1, <4>1
      <4>2. CASE k # Len(snaps) + 1
        <5>1. k \in DOMAIN snaps  BY <2>2, <3>1, <4>2
        <5>. QED  BY <3>1, <4>2, <5>1 DEF HistoryIsComplete
      <4>. QED  BY <4>1, <4>2
    <3>. QED  BY SMTT(30), <1>0, <2>1, <2>2, <3>2, <3>3
  <2>. QED  BY <2>2, <2>3 DEF HistoryIsComplete
<1>. QED  BY <1>1, <1>2

\* While handlers do not interleave, the history has no hole: the snapshots are
\* of the versions just before the current one, one each.
THEOREM HistoryComplete ==
  ASSUME "threads" \notin Allowed
  PROVE  Spec => [](OneByOne /\ HistoryIsComplete)
<1>1. Init => OneByOne /\ HistoryIsComplete
  <2>1. ASSUME Init PROVE OneByOne /\ HistoryIsComplete
    BY <2>1 DEF Init, OneByOne, HistoryIsComplete
  <2>. QED  BY <2>1
<1>2. SaveTypeOK /\ OneByOne /\ HistoryIsComplete /\ [Next]_vars
        => (OneByOne /\ HistoryIsComplete)'
  BY OneByOneStep, RowSteps, HistoryStep, ChapterSaveAssumption
<1>. QED  BY <1>1, <1>2, TypeCorrect, PTL DEF Spec

-----------------------------------------------------------------------------
(* Saves add up                                                            *)

\* A save with version v and text t, if the row still has that version, takes
\* nothing away.
Fits(v, t) == v = version => content \subseteq t

\* What page p shows or may forget.
Seen(p) == text[p] \cup forgone[p]

\* A request would take nothing away, and knows the row when it is answered.
Sound(r) ==
  /\ r.id \in 1..sent /\ r.kind # "orphan" /\ r.stage \in {"sent", "ok", "conflict"}
  /\ r.expect <= version /\ (r.kind # "keep" => r.shown = {})
  /\ r.stage = "sent" /\ r.kind \notin {"rename", "sync"}
       => Fits(r.expect, r.text \cup r.shown \cup forgone[r.page])
  /\ r.stage # "sent" => r.expect < version /\ r.result <= version
  /\ r.stage = "ok" /\ r.kind # "rename" /\ r.result = version => content = r.text
  /\ r.stage = "conflict" /\ r.result = version => content = r.read

Distinct == \A q, r \in requests : q.id = r.id => q = r

\* A pending save x of page p would take nothing away, nor would its text
\* disappear from the screen.
Waiting(x, p) ==
  x # None => /\ x.ver <= version /\ Fits(x.ver, x.text \cup forgone[p])
              /\ x.ver = version => x.text \subseteq Seen(p)

\* A page that has the row's version shows the row's text, and so do its
\* pending saves and its dialog.
PageSound(p) ==
  /\ page[p] # "away" /\ flying[p] <= sent
  /\ page[p] = "closed" =>
       timer[p] = None /\ flying[p] = 0 /\ dialog[p] = None /\ failed[p] = None
  /\ loaded[p] \subseteq text[p]
  /\ ver[p] <= version /\ (page[p] = "open" => Fits(ver[p], Seen(p)))
  /\ Waiting(timer[p], p) /\ Waiting(failed[p], p)
  /\ dialog[p] # None => dialog[p].ver <= version /\ Fits(dialog[p].ver, dialog[p].server)

\* The request was accepted last, or may be the next.
Current(r) ==
  \/ r.stage = "sent" /\ r.expect = version
  \/ r.stage = "ok" /\ r.result = version

Older(x, v) == x # None => x.ver < v

\* What a page waits for: its text is on show, and an accepted Keep is newer
\* than the page's pending saves while its dialog is open.
AwaitSound(r) ==
  Awaited(r) =>
    /\ r.kind = "save" /\ Current(r) => r.text \subseteq Seen(r.page)
    /\ r.kind = "rename" /\ Current(r) => content \subseteq Seen(r.page)
    /\ r.kind = "keep" /\ r.stage = "ok" /\ dialog[r.page] # None
         => Older(timer[r.page], r.result) /\ Older(failed[r.page], r.result)

\* The inductive invariant behind SavesAddUp.
SoundInv ==
  /\ \A r \in requests : Sound(r) /\ AwaitSound(r)
  /\ Distinct
  /\ \A p \in Pages : PageSound(p)

\* No handler interleaves, no page takes over the book alone or leaves the
\* chapter.
Quiet == Allowed \cap {"threads", "refresh", "switch"} = {}

\* The row stays, or moves on to a new version.
RowMoves == (content' = content /\ version' = version) \/ version' = version + 1

\* Page q stays as it is.
SamePage(q) ==
  /\ page'[q] = page[q] /\ text'[q] = text[q] /\ loaded'[q] = loaded[q] /\ ver'[q] = ver[q]
  /\ timer'[q] = timer[q] /\ failed'[q] = failed[q] /\ dialog'[q] = dialog[q]
  /\ flying'[q] = flying[q] /\ forgone'[q] = forgone[q]

\* The types of page q's state.
LEMMA PageType ==
  ASSUME SaveTypeOK, NEW q \in Pages
  PROVE  /\ text[q] \in Texts /\ forgone[q] \in Texts /\ ver[q] \in Nat /\ flying[q] \in Nat
         /\ timer[q] # None => timer[q].text \in Texts /\ timer[q].ver \in Nat
         /\ failed[q] # None => failed[q].text \in Texts /\ failed[q].ver \in Nat
         /\ dialog[q] # None => /\ dialog[q].local \in Texts /\ dialog[q].server \in Texts
                                /\ dialog[q].ver \in Nat
         /\ version \in Nat /\ content \in Texts /\ sent \in Nat
<1>1. /\ timer[q] \in Pending \cup {None} /\ failed[q] \in Pending \cup {None}
      /\ dialog[q] \in Refusal \cup {None}
  BY DEF SaveTypeOK
<1>2. flying[q] \in 0..MaxSends /\ sent \in 0..MaxSends  BY DEF SaveTypeOK
<1>. QED  BY <1>1, <1>2, PendingFields, RefusalFields DEF SaveTypeOK

\* A page that does not change stays sound: its versions only grow older.
LEMMA SamePageSound ==
  ASSUME SaveTypeOK, RowMoves, sent' >= sent, sent' \in Nat,
         NEW q \in Pages, PageSound(q), SamePage(q)
  PROVE  PageSound(q)'
<1>1. /\ ver[q] \in Nat /\ flying[q] \in Nat /\ version \in Nat /\ sent \in Nat
      /\ timer[q] # None => timer[q].ver \in Nat
      /\ failed[q] # None => failed[q].ver \in Nat
      /\ dialog[q] # None => dialog[q].ver \in Nat
  BY PageType
<1>2. Waiting(timer[q], q)'
  BY <1>1 DEF PageSound, SamePage, RowMoves, Waiting, Fits, Seen
<1>3. Waiting(failed[q], q)'
  BY <1>1 DEF PageSound, SamePage, RowMoves, Waiting, Fits, Seen
<1>. QED  BY <1>1, <1>2, <1>3 DEF PageSound, SamePage, RowMoves, Fits, Seen

\* A request that does not change stays sound.
LEMMA SameSound ==
  ASSUME SaveTypeOK, RowMoves, sent' >= sent, sent' \in Nat, NEW r \in requests, Sound(r),
         forgone[r.page] \subseteq forgone'[r.page]
  PROVE  Sound(r)'
<1>1. r.id \in Nat /\ r.expect \in Nat /\ r.result \in Nat /\ r.stage \in Stages  BY RequestIn
<1>2. version \in Nat /\ sent \in Nat  BY DEF SaveTypeOK
<1>3. CASE content' = content /\ version' = version
  BY <1>1, <1>2, <1>3 DEF Sound, Fits
<1>4. CASE version' = version + 1
  BY <1>1, <1>2, <1>4 DEF Sound, Fits
<1>. QED  BY <1>3, <1>4 DEF RowMoves

\* What a page waits for stays so while its screen and its pending saves stay.
LEMMA SameAwait ==
  ASSUME SaveTypeOK, RowMoves, NEW r \in requests, Sound(r), AwaitSound(r),
         \/ ~Awaited(r)'
         \/ /\ flying'[r.page] = flying[r.page]
            /\ Seen(r.page) \subseteq Seen(r.page)'
            /\ \/ dialog'[r.page] = None
               \/ /\ dialog'[r.page] = dialog[r.page] /\ timer'[r.page] \in {timer[r.page], None}
                  /\ failed'[r.page] \in {failed[r.page], None}
  PROVE  AwaitSound(r)'
<1>1. r.id \in Nat /\ r.expect \in Nat /\ r.result \in Nat /\ r.stage \in Stages  BY RequestIn
<1>2. version \in Nat /\ sent \in Nat  BY DEF SaveTypeOK
<1>. SUFFICES ASSUME Awaited(r)' PROVE AwaitSound(r)'
  BY DEF AwaitSound
<1>3. Awaited(r)  BY DEF Awaited
<1>4. Current(r)' => Current(r) /\ content' = content
  BY <1>1, <1>2 DEF Current, RowMoves, Sound
<1>5. r.kind = "save" /\ Current(r)' => r.text \subseteq Seen(r.page)'
  BY <1>3, <1>4 DEF AwaitSound
<1>6. r.kind = "rename" /\ Current(r)' => content' \subseteq Seen(r.page)'
  BY <1>3, <1>4 DEF AwaitSound
<1>7. r.kind = "keep" /\ r.stage = "ok" /\ dialog'[r.page] # None
         => Older(timer[r.page], r.result)' /\ Older(failed[r.page], r.result)'
  BY <1>3 DEF AwaitSound, Older
<1>. QED  BY <1>5, <1>6, <1>7 DEF AwaitSound

\* Requests that are answered or ignored.
LEMMA FewerDistinct ==
  ASSUME Distinct, requests' \subseteq requests
  PROVE  Distinct'
  BY DEF Distinct

\* A page sends a request that would take nothing away.
LEMMA SendSound ==
  ASSUME ChapterSaveAssumption, SaveTypeOK, SoundInv, UNCHANGED rowVars, forgone' = forgone,
         NEW p \in Pages, NEW kind \in Kinds, NEW t \in Texts, NEW expect \in Nat,
         NEW shown \in Texts, Send(p, kind, t, expect, shown),
         kind # "orphan", expect <= version, kind # "keep" => shown = {},
         kind \notin {"rename", "sync"} => Fits(expect, t \cup shown \cup forgone[p])
  PROVE  /\ \A r \in requests' : Sound(r)'
         /\ Distinct'
         /\ \E n \in Request : Sending(n, p, kind, t, expect, shown) /\ requests' = requests \cup {n}
         /\ sent' = sent + 1 /\ sent' \in Nat /\ sent \in Nat
<1>1. sent' = sent + 1 /\ sent \in Nat /\ sent' \in Nat
  <2>1. sent \in 0..MaxSends /\ MaxSends \in Nat  BY DEF SaveTypeOK, ChapterSaveAssumption
  <2>. QED  BY <2>1 DEF Send
<1>2. PICK n \in Request : Sending(n, p, kind, t, expect, shown) /\ requests' = requests \cup {n}
  BY Sends DEF ChapterSaveAssumption
<1>3. content' = content /\ version' = version  BY DEF rowVars
<1>4. Sound(n)'
  <2>1. n.id \in 1..sent'  BY <1>1, <1>2 DEF Sending
  <2>. QED  BY <1>1, <1>2, <1>3, <2>1 DEF Sound, Sending, Fits
<1>5. ASSUME NEW r \in requests PROVE Sound(r)' /\ r.id # n.id
  <2>1. Sound(r)  BY DEF SoundInv
  <2>2. RowMoves /\ sent' >= sent  BY <1>1, <1>3 DEF RowMoves
  <2>3. Sound(r)'  BY <1>1, <2>1, <2>2, SameSound
  <2>4. r.id \in 1..sent  BY <2>1 DEF Sound
  <2>. QED  BY <1>1, <1>2, <2>3, <2>4 DEF Sending
<1>6. Distinct'  BY <1>2, <1>5 DEF Distinct, SoundInv
<1>. QED  BY <1>1, <1>2, <1>4, <1>5, <1>6

\* A page sends a request and waits for it: what it sends is on show.
LEMMA UpdateSound ==
  ASSUME ChapterSaveAssumption, SaveTypeOK, SoundInv, UNCHANGED rowVars,
         UNCHANGED <<forgone, text, dialog>>,
         NEW p \in Pages, NEW kind \in Kinds, NEW t \in Texts, NEW expect \in Nat,
         NEW shown \in Texts, Update(p, kind, t, expect, shown),
         kind # "orphan", expect <= version, kind # "keep" => shown = {},
         kind \notin {"rename", "sync"} => Fits(expect, t \cup shown \cup forgone[p]),
         kind = "save" /\ expect = version => t \subseteq Seen(p),
         kind = "rename" /\ expect = version => content \subseteq Seen(p),
         \A q \in Pages : q # p => timer'[q] = timer[q] /\ failed'[q] = failed[q]
  PROVE  /\ \A r \in requests' : Sound(r)' /\ AwaitSound(r)'
         /\ Distinct'
         /\ sent' = sent + 1 /\ sent' \in Nat /\ sent \in Nat
         /\ flying' = [flying EXCEPT ![p] = sent']
<1>1. Send(p, kind, t, expect, shown) /\ flying' = [flying EXCEPT ![p] = sent + 1]
  BY DEF Update
<1>2. /\ \A r \in requests' : Sound(r)'
      /\ Distinct' /\ sent' = sent + 1 /\ sent' \in Nat /\ sent \in Nat
      /\ \E n \in Request : Sending(n, p, kind, t, expect, shown) /\ requests' = requests \cup {n}
  BY <1>1, SendSound
<1>3. PICK n \in Request : Sending(n, p, kind, t, expect, shown) /\ requests' = requests \cup {n}
  BY <1>2
<1>4. content' = content /\ version' = version /\ RowMoves  BY DEF rowVars, RowMoves
<1>5. AwaitSound(n)'
  BY <1>3, <1>4 DEF AwaitSound, Sending, Current, Seen
<1>6. ASSUME NEW r \in requests PROVE AwaitSound(r)'
  <2>1. Sound(r) /\ AwaitSound(r) /\ r.page \in Pages  BY RequestIn DEF SoundInv
  <2>2. flying \in [Pages -> 0..MaxSends]  BY DEF SaveTypeOK
  <2>3. CASE r.page = p
    <3>1. flying'[r.page] = sent + 1 /\ r.id \in 1..sent  BY <1>1, <2>1, <2>2, <2>3 DEF Sound
    <3>2. ~Awaited(r)'  BY <1>2, <3>1 DEF Awaited
    <3>. QED  BY <1>4, <2>1, <3>2, SameAwait
  <2>4. CASE r.page # p
    <3>1. /\ flying'[r.page] = flying[r.page] /\ dialog'[r.page] = dialog[r.page]
          /\ timer'[r.page] = timer[r.page] /\ failed'[r.page] = failed[r.page]
          /\ Seen(r.page)' = Seen(r.page)
      BY <1>1, <2>1, <2>2, <2>4 DEF Seen
    <3>. QED  BY <1>4, <2>1, <3>1, SameAwait
  <2>. QED  BY <2>3, <2>4
<1>. QED  BY <1>1, <1>2, <1>3, <1>5, <1>6

\* The sound saves stay sound.
LEMMA SoundStep ==
  ASSUME ChapterSaveAssumption, Quiet, SaveTypeOK, OneByOne, SoundInv, [Next]_vars
  PROVE  SoundInv'
<1>. USE DEF rowVars, netVars, bookVars, textVars, timers, saveVars, past
<1>. DEFINE Requested == (\A r \in requests : Sound(r) /\ AwaitSound(r)) /\ Distinct
            Opened == \A p \in Pages : PageSound(p)
            Good == Requested' /\ Opened'
<1>. SUFFICES Good  BY DEF SoundInv
<1>0. /\ page \in [Pages -> {"open", "away", "closed"}] /\ ver \in [Pages -> Nat]
      /\ text \in [Pages -> Texts] /\ loaded \in [Pages -> Texts \cup {None}]
      /\ saved \in [Pages -> Texts]
      /\ timer \in [Pages -> Pending \cup {None}] /\ failed \in [Pages -> Pending \cup {None}]
      /\ dialog \in [Pages -> Refusal \cup {None}] /\ flying \in [Pages -> 0..MaxSends]
      /\ forgone \in [Pages -> Texts] /\ content \in Texts /\ version \in Nat /\ sent \in Nat
  BY DEF SaveTypeOK
<1>q. "threads" \notin Allowed /\ "refresh" \notin Allowed /\ "switch" \notin Allowed
  BY DEF Quiet
<1>. DEFINE Stays == /\ requests' \subseteq requests /\ RowMoves /\ sent' >= sent /\ sent' \in Nat
                     /\ \A q \in Pages : forgone[q] \subseteq forgone'[q]
\* Requests that stay: what is left to show is what their pages wait for.
<1>r. ASSUME Stays, \A r \in requests' : r \in requests => AwaitSound(r)'
      PROVE  Requested'
  <2>1. ASSUME NEW r \in requests' PROVE Sound(r)' /\ AwaitSound(r)'
    <3>1. r \in requests /\ Sound(r) /\ r.page \in Pages  BY <1>r, RequestIn DEF SoundInv
    <3>2. Sound(r)'  BY <1>r, <3>1, SameSound
    <3>. QED  BY <1>r, <3>1, <3>2
  <2>2. Distinct'  BY <1>r, FewerDistinct DEF SoundInv
  <2>. QED  BY <2>1, <2>2
\* One page changes, or none.
<1>p. ASSUME RowMoves, sent' >= sent, sent' \in Nat, NEW p \in Pages,
             \A q \in Pages : q # p => SamePage(q),
             PageSound(p)'
      PROVE  Opened'
  <2>1. ASSUME NEW q \in Pages PROVE PageSound(q)'
    <3>1. CASE q = p  BY <1>p, <3>1
    <3>2. CASE q # p
      <4>1. SamePage(q) /\ PageSound(q)  BY <1>p, <3>2 DEF SoundInv
      <4>. QED  BY <1>p, <4>1, SamePageSound
    <3>. QED  BY <3>1, <3>2
  <2>. QED  BY <2>1
<1>s. ASSUME RowMoves, sent' >= sent, sent' \in Nat, \A q \in Pages : SamePage(q)
      PROVE  Opened'
  <2>1. ASSUME NEW q \in Pages PROVE PageSound(q)'
    <3>1. PageSound(q)  BY DEF SoundInv
    <3>. QED  BY <1>s, <3>1, SamePageSound
  <2>. QED  BY <2>1
<1>a. ASSUME NEW r \in requests PROVE Sound(r) /\ AwaitSound(r)  BY DEF SoundInv
<1>b. ASSUME NEW p \in Pages PROVE PageSound(p)  BY DEF SoundInv
<1>c. ASSUME NEW r \in requests PROVE r.page \in Pages /\ r.id # 0
  <2>1. r.id \in 1..sent  BY <1>a DEF Sound
  <2>2. 0 \notin 1..sent  BY <1>0
  <2>. QED  BY <2>1, <2>2, RequestIn
<1>1. ASSUME NEW r \in requests, Handle(r)
       PROVE  Good
  <2>1. /\ r \in Request /\ r.page \in Pages /\ r.text \in Texts /\ r.expect \in Nat
        /\ r.result \in Nat /\ r.read \in Texts /\ Sound(r) /\ AwaitSound(r) /\ PageSound(r.page)
    BY RequestIn, <1>a, <1>b
  <2>2. PICK n \in Request :
          /\ requests' = (requests \ {r}) \cup {n} /\ Same(n, r)
          /\ \/ /\ Accepts(r) /\ n.stage = "ok" /\ n.result = version + 1
                /\ Store(content, version, Written(r), TRUE)
             \/ /\ ~Accepts(r) /\ n.stage = "conflict" /\ n.read = content /\ n.result = version
                /\ UNCHANGED rowVars
    BY <1>1, HandleSteps
  <2>3. UNCHANGED <<sent, page, text, loaded, ver, timer, failed, dialog, flying, forgone>> /\ r.stage = "sent"
    BY <1>1 DEF Handle
  <2>4. RowMoves  BY <2>2 DEF RowMoves, Store
  <2>5. Opened'
    <3>1. \A q \in Pages : SamePage(q)  BY <2>3 DEF SamePage
    <3>. QED  BY <1>0, <1>s, <2>3, <2>4, <3>1
  <2>6. Sound(n)'
    <3>1. n.id \in 1..sent' /\ n.kind # "orphan" /\ (n.kind # "keep" => n.shown = {})
      BY <2>1, <2>2, <2>3 DEF Sound, Same
    <3>2. CASE Accepts(r) /\ n.stage = "ok" /\ n.result = version + 1
               /\ Store(content, version, Written(r), TRUE)
      <4>1. version' = version + 1 /\ content' = Written(r) /\ n.expect = version
        BY <2>2, <3>2 DEF Accepts, Store, Same
      <4>2. n.kind # "rename" => content' = n.text  BY <2>2, <4>1 DEF Written, Same
      <4>. QED  BY <1>0, <3>1, <3>2, <4>1, <4>2 DEF Sound
    <3>3. CASE ~Accepts(r) /\ n.stage = "conflict" /\ n.read = content /\ n.result = version
               /\ UNCHANGED rowVars
      <4>1. n.expect < version
        BY <1>0, <2>1, <2>2, <3>3 DEF Sound, Accepts, Same
      <4>2. version' = version /\ content' = content  BY <3>3
      <4>3. n.stage # "sent" /\ n.stage # "ok" /\ n.stage \in {"sent", "ok", "conflict"}  BY <3>3
      <4>4. n.result <= version /\ n.expect <= version  BY <1>0, <2>1, <2>2, <3>3, <4>1 DEF Same
      <4>. QED  BY <3>1, <3>3, <4>1, <4>2, <4>3, <4>4 DEF Sound
    <3>. QED  BY <2>2, <3>2, <3>3
  <2>7. AwaitSound(n)'
    <3>. SUFFICES ASSUME Awaited(n)' PROVE AwaitSound(n)'
      BY DEF AwaitSound
    <3>1. Awaited(r)  BY <2>2, <2>3 DEF Awaited, Same
    <3>2. CASE Accepts(r) /\ n.stage = "ok" /\ n.result = version + 1
               /\ Store(content, version, Written(r), TRUE)
      <4>1. Current(r)  BY <2>3, <3>2 DEF Accepts, Current
      <4>2. n.kind = "save" => n.text \subseteq Seen(n.page)'
        BY <2>1, <2>2, <2>3, <3>1, <4>1 DEF AwaitSound, Same, Seen
      <4>3. n.kind = "rename" => content' \subseteq Seen(n.page)'
        BY <2>1, <2>2, <2>3, <3>1, <3>2, <4>1 DEF AwaitSound, Same, Seen, Store, Written
      <4>4. Older(timer[r.page], n.result) /\ Older(failed[r.page], n.result)
        <5>1. /\ timer[r.page] # None => timer[r.page].ver \in Nat /\ timer[r.page].ver <= version
              /\ failed[r.page] # None => failed[r.page].ver \in Nat /\ failed[r.page].ver <= version
          BY <2>1, PageType DEF PageSound, Waiting
        <5>. QED  BY <1>0, <3>2, <5>1 DEF Older
      <4>. QED  BY <2>2, <2>3, <4>2, <4>3, <4>4 DEF AwaitSound, Same, Older
    <3>3. CASE n.stage = "conflict"
      BY <3>3 DEF AwaitSound, Current
    <3>. QED  BY <2>2, <3>2, <3>3
  <2>8. ASSUME NEW q \in requests, q # r PROVE Sound(q)' /\ AwaitSound(q)' /\ q.id # n.id
    <3>1. Sound(q) /\ AwaitSound(q) /\ q.page \in Pages  BY RequestIn, <1>a
    <3>2. Sound(q)'  BY <1>0, <2>3, <2>4, <3>1, SameSound
    <3>3. AwaitSound(q)'
      <4>1. Seen(q.page)' = Seen(q.page)  BY <2>3 DEF Seen
      <4>. QED  BY <2>3, <2>4, <3>1, <4>1, SameAwait
    <3>4. q.id # n.id  BY <2>2, <2>8 DEF SoundInv, Distinct, Same
    <3>. QED  BY <3>2, <3>3, <3>4
  <2>9. Distinct'
    <3>1. ASSUME NEW x \in requests', NEW y \in requests', x.id = y.id PROVE x = y
      <4>1. x = n \/ (x \in requests /\ x # r)  BY <2>2
      <4>2. y = n \/ (y \in requests /\ y # r)  BY <2>2
      <4>. QED  BY <2>8, <3>1, <4>1, <4>2 DEF SoundInv, Distinct
    <3>. QED  BY <3>1 DEF Distinct
  <2>. QED  BY <2>2, <2>5, <2>6, <2>7, <2>8, <2>9
<1>2. ASSUME NEW r \in requests, Check(r)
       PROVE  Good
  BY <1>2, <1>q DEF Check, OneByOne
<1>3. ASSUME NEW r \in requests, Commit(r)
       PROVE  Good
  BY <1>3, <1>q DEF Commit, OneByOne
<1>4. ASSUME NEW r \in requests, TrimVersions(r)
       PROVE  Good
  BY <1>4, <1>q DEF TrimVersions, OneByOne
<1>5. ASSUME NEW r \in requests, Ignored(r)
       PROVE  Good
  <2>1. /\ r \in Request /\ r.page \in Pages /\ r.text \in Texts /\ r.expect \in Nat
        /\ r.result \in Nat /\ r.read \in Texts /\ Sound(r) /\ AwaitSound(r) /\ PageSound(r.page)
    BY RequestIn, <1>a, <1>b
  <2>2. Stays
    <3>1. requests' = requests \ {r} /\ UNCHANGED <<rowVars, sent>>  BY <1>5 DEF Ignored, Answered
    <3>2. \A q \in Pages : forgone[q] \subseteq forgone'[q]  BY <1>0, <1>5, <2>1 DEF Ignored
    <3>. QED  BY <1>0, <3>1, <3>2 DEF RowMoves
  <2>0. UNCHANGED <<rowVars, sent>> /\ r \notin requests'  BY <1>5 DEF Ignored, Answered
  <2>3. UNCHANGED <<page, text, loaded, ver, timer, failed, dialog, flying, forgone>>  BY <1>5 DEF Ignored
  <2>4. Requested'
    <3>1. ASSUME NEW q \in requests', q \in requests PROVE AwaitSound(q)'
      <4>1. Sound(q) /\ AwaitSound(q) /\ Seen(q.page)' = Seen(q.page)  BY <2>3, <3>1, <1>a DEF Seen
      <4>. QED  BY <2>2, <2>3, <3>1, <4>1, SameAwait
    <3>. QED  BY <1>r, <2>2, <3>1
  <2>5. Opened'
    <3>1. \A q \in Pages : SamePage(q)  BY <2>3 DEF SamePage
    <3>. QED  BY <1>s, <2>2, <3>1
  <2>. QED  BY <2>4, <2>5
<1>6. ASSUME NEW r \in requests, SaveOk(r)
       PROVE  Good
  <2>1. /\ r \in Request /\ r.page \in Pages /\ r.text \in Texts /\ r.expect \in Nat
        /\ r.result \in Nat /\ r.read \in Texts /\ Sound(r) /\ AwaitSound(r) /\ PageSound(r.page)
    BY RequestIn, <1>a, <1>b
  <2>2. Stays
    <3>1. requests' = requests \ {r} /\ UNCHANGED <<rowVars, sent>>  BY <1>6 DEF SaveOk, Answered
    <3>2. \A q \in Pages : forgone[q] \subseteq forgone'[q]  BY <1>0, <1>6, <2>1 DEF SaveOk
    <3>. QED  BY <1>0, <3>1, <3>2 DEF RowMoves
  <2>0. UNCHANGED <<rowVars, sent>> /\ r \notin requests'  BY <1>6 DEF SaveOk, Answered
  <2>3. /\ flying' = [flying EXCEPT ![r.page] = 0] /\ Awaited(r)
        /\ UNCHANGED <<page, text, loaded, timer, failed, dialog, forgone>>
    BY <1>6 DEF SaveOk
  <2>4. \A q \in Pages : q # r.page => SamePage(q)
    BY <1>0, <1>6, <2>1, <2>3 DEF SaveOk, SamePage
  <2>5. Requested'
    <3>1. ASSUME NEW q \in requests', q \in requests PROVE AwaitSound(q)'
      <4>1. Sound(q) /\ AwaitSound(q) /\ q.page \in Pages /\ q.id # 0
        BY <3>1, <1>a, <1>c
      <4>2. q.page = r.page => ~Awaited(q)'  BY <1>0, <2>3, <4>1 DEF Awaited
      <4>3. q.page # r.page => SamePage(q.page)  BY <2>4, <4>1
      <4>4. q.page # r.page => Seen(q.page)' = Seen(q.page)  BY <4>3 DEF SamePage, Seen
      <4>. QED  BY <2>2, <3>1, <4>1, <4>2, <4>3, <4>4, SameAwait DEF SamePage
    <3>. QED  BY <1>r, <2>2, <3>1
  <2>6. page[r.page] # "closed"
    <3>1. r.id # 0  BY <2>1 DEF Sound
    <3>. QED  BY <2>1, <2>3, <3>1 DEF PageSound, Awaited
  <2>7. flying'[r.page] = 0  BY <1>0, <2>1, <2>3
  <2>8. ver'[r.page] = r.result  BY <1>0, <1>6, <2>1 DEF SaveOk
  <2>9. r.result <= version /\ Fits(r.result, Seen(r.page))
    <3>1. r.stage = "ok" /\ r.kind = "save"  BY <1>6, <2>1 DEF SaveOk, Sound
    <3>2. r.result = version => content = r.text /\ r.text \subseteq Seen(r.page)
      BY <2>1, <2>3, <3>1 DEF Sound, AwaitSound, Current
    <3>. QED  BY <2>1, <3>1, <3>2 DEF Sound, Fits
  <2>10. PageSound(r.page)'
    BY <1>0, <2>0, <2>1, <2>3, <2>6, <2>7, <2>8, <2>9 DEF PageSound, Fits, Seen, Waiting
  <2>12. Opened'  BY <1>p, <2>1, <2>2, <2>4, <2>10
  <2>. QED  BY <2>5, <2>12
<1>7. ASSUME NEW r \in requests, SaveConflict(r)
       PROVE  Good
  <2>1. /\ r \in Request /\ r.page \in Pages /\ r.text \in Texts /\ r.expect \in Nat
        /\ r.result \in Nat /\ r.read \in Texts /\ Sound(r) /\ AwaitSound(r) /\ PageSound(r.page)
    BY RequestIn, <1>a, <1>b
  <2>2. Stays
    <3>1. requests' = requests \ {r} /\ UNCHANGED <<rowVars, sent>>  BY <1>7 DEF SaveConflict, Answered
    <3>2. \A q \in Pages : forgone[q] \subseteq forgone'[q]  BY <1>0, <1>7, <2>1 DEF SaveConflict
    <3>. QED  BY <1>0, <3>1, <3>2 DEF RowMoves
  <2>0. UNCHANGED <<rowVars, sent>> /\ r \notin requests'  BY <1>7 DEF SaveConflict, Answered
  <2>3. /\ flying' = [flying EXCEPT ![r.page] = 0] /\ Awaited(r)
        /\ UNCHANGED <<page, text, loaded, ver, timer, failed, forgone>>
    BY <1>7 DEF SaveConflict
  <2>4. \A q \in Pages : q # r.page => SamePage(q)
    BY <1>0, <1>7, <2>1, <2>3 DEF SaveConflict, SamePage
  <2>5. Requested'
    <3>1. ASSUME NEW q \in requests', q \in requests PROVE AwaitSound(q)'
      <4>1. Sound(q) /\ AwaitSound(q) /\ q.page \in Pages /\ q.id # 0
        BY <3>1, <1>a, <1>c
      <4>2. q.page = r.page => ~Awaited(q)'  BY <1>0, <2>3, <4>1 DEF Awaited
      <4>3. q.page # r.page => SamePage(q.page)  BY <2>4, <4>1
      <4>4. q.page # r.page => Seen(q.page)' = Seen(q.page)  BY <4>3 DEF SamePage, Seen
      <4>. QED  BY <2>2, <3>1, <4>1, <4>2, <4>3, <4>4, SameAwait DEF SamePage
    <3>. QED  BY <1>r, <2>2, <3>1
  <2>6. page[r.page] # "closed"
    <3>1. r.id # 0  BY <2>1 DEF Sound
    <3>. QED  BY <2>1, <2>3, <3>1 DEF PageSound, Awaited
  <2>7. flying'[r.page] = 0  BY <1>0, <2>1, <2>3
  <2>8. dialog'[r.page] = [local |-> r.text, server |-> r.read, ver |-> r.result]
    BY <1>0, <1>7, <2>1 DEF SaveConflict
  <2>9. dialog'[r.page].ver = r.result /\ dialog'[r.page].server = r.read  BY <2>8
  <2>11. r.result <= version /\ Fits(r.result, r.read)
    <3>1. r.stage = "conflict"  BY <1>7 DEF SaveConflict
    <3>. QED  BY <2>1, <3>1 DEF Sound, Fits
  <2>10. PageSound(r.page)'
    BY <1>0, <2>0, <2>1, <2>3, <2>6, <2>7, <2>9, <2>11 DEF PageSound, Fits, Seen, Waiting
  <2>12. Opened'  BY <1>p, <2>1, <2>2, <2>4, <2>10
  <2>. QED  BY <2>5, <2>12
<1>8. ASSUME NEW r \in requests, Renamed(r)
       PROVE  Good
  <2>1. /\ r \in Request /\ r.page \in Pages /\ r.text \in Texts /\ r.expect \in Nat
        /\ r.result \in Nat /\ r.read \in Texts /\ Sound(r) /\ AwaitSound(r) /\ PageSound(r.page)
    BY RequestIn, <1>a, <1>b
  <2>2. Stays
    <3>1. requests' = requests \ {r} /\ UNCHANGED <<rowVars, sent>>  BY <1>8 DEF Renamed, Answered
    <3>2. \A q \in Pages : forgone[q] \subseteq forgone'[q]  BY <1>0, <1>8, <2>1 DEF Renamed
    <3>. QED  BY <1>0, <3>1, <3>2 DEF RowMoves
  <2>0. UNCHANGED <<rowVars, sent>> /\ r \notin requests'  BY <1>8 DEF Renamed, Answered
  <2>3. /\ flying' = [flying EXCEPT ![r.page] = 0] /\ Awaited(r)
        /\ UNCHANGED <<page, text, loaded, timer, failed, dialog, forgone>>
    BY <1>8 DEF Renamed
  <2>4. \A q \in Pages : q # r.page => SamePage(q)
    BY <1>0, <1>8, <2>1, <2>3 DEF Renamed, SamePage
  <2>5. Requested'
    <3>1. ASSUME NEW q \in requests', q \in requests PROVE AwaitSound(q)'
      <4>1. Sound(q) /\ AwaitSound(q) /\ q.page \in Pages /\ q.id # 0
        BY <3>1, <1>a, <1>c
      <4>2. q.page = r.page => ~Awaited(q)'  BY <1>0, <2>3, <4>1 DEF Awaited
      <4>3. q.page # r.page => SamePage(q.page)  BY <2>4, <4>1
      <4>4. q.page # r.page => Seen(q.page)' = Seen(q.page)  BY <4>3 DEF SamePage, Seen
      <4>. QED  BY <2>2, <3>1, <4>1, <4>2, <4>3, <4>4, SameAwait DEF SamePage
    <3>. QED  BY <1>r, <2>2, <3>1
  <2>6. page[r.page] # "closed"
    <3>1. r.id # 0  BY <2>1 DEF Sound
    <3>. QED  BY <2>1, <2>3, <3>1 DEF PageSound, Awaited
  <2>7. flying'[r.page] = 0  BY <1>0, <2>1, <2>3
  <2>8. ver'[r.page] = (IF r.stage = "ok" THEN r.result ELSE ver[r.page])  BY <1>0, <1>8, <2>1 DEF Renamed
  <2>9. r.stage = "ok" => r.result <= version /\ Fits(r.result, Seen(r.page))
    <3>1. r.kind = "rename"  BY <1>8 DEF Renamed
    <3>2. r.stage = "ok" /\ r.result = version => content \subseteq Seen(r.page)
      BY <2>1, <2>3, <3>1 DEF AwaitSound, Current
    <3>. QED  BY <2>1, <3>1, <3>2 DEF Sound, Fits
  <2>10. PageSound(r.page)'
    BY <1>0, <2>0, <2>1, <2>3, <2>6, <2>7, <2>8, <2>9 DEF PageSound, Fits, Seen, Waiting
  <2>12. Opened'  BY <1>p, <2>1, <2>2, <2>4, <2>10
  <2>. QED  BY <2>5, <2>12
<1>9. ASSUME NEW r \in requests, Synced(r)
       PROVE  Good
  <2>1. /\ r \in Request /\ r.page \in Pages /\ r.text \in Texts /\ r.expect \in Nat
        /\ r.result \in Nat /\ r.read \in Texts /\ Sound(r) /\ AwaitSound(r) /\ PageSound(r.page)
    BY RequestIn, <1>a, <1>b
  <2>2. Stays
    <3>1. requests' = requests \ {r} /\ UNCHANGED <<rowVars, sent>>  BY <1>9 DEF Synced, Answered
    <3>2. \A q \in Pages : forgone[q] \subseteq forgone'[q]  BY <1>0, <1>9, <2>1 DEF Synced
    <3>. QED  BY <1>0, <3>1, <3>2 DEF RowMoves
  <2>0. UNCHANGED <<rowVars, sent>> /\ r \notin requests'  BY <1>9 DEF Synced, Answered
  <2>3. /\ flying' = [flying EXCEPT ![r.page] = 0] /\ Awaited(r)
        /\ UNCHANGED <<page, text, loaded, ver, timer, failed, dialog, forgone>>
    BY <1>9 DEF Synced
  <2>4. \A q \in Pages : q # r.page => SamePage(q)
    BY <1>0, <1>9, <2>1, <2>3 DEF Synced, SamePage
  <2>5. Requested'
    <3>1. ASSUME NEW q \in requests', q \in requests PROVE AwaitSound(q)'
      <4>1. Sound(q) /\ AwaitSound(q) /\ q.page \in Pages /\ q.id # 0
        BY <3>1, <1>a, <1>c
      <4>2. q.page = r.page => ~Awaited(q)'  BY <1>0, <2>3, <4>1 DEF Awaited
      <4>3. q.page # r.page => SamePage(q.page)  BY <2>4, <4>1
      <4>4. q.page # r.page => Seen(q.page)' = Seen(q.page)  BY <4>3 DEF SamePage, Seen
      <4>. QED  BY <2>2, <3>1, <4>1, <4>2, <4>3, <4>4, SameAwait DEF SamePage
    <3>. QED  BY <1>r, <2>2, <3>1
  <2>6. page[r.page] # "closed"
    <3>1. r.id # 0  BY <2>1 DEF Sound
    <3>. QED  BY <2>1, <2>3, <3>1 DEF PageSound, Awaited
  <2>7. flying'[r.page] = 0  BY <1>0, <2>1, <2>3
  <2>10. PageSound(r.page)'
    BY <1>0, <2>0, <2>1, <2>3, <2>6, <2>7 DEF PageSound, Fits, Seen, Waiting
  <2>12. Opened'  BY <1>p, <2>1, <2>2, <2>4, <2>10
  <2>. QED  BY <2>5, <2>12
<1>10. ASSUME NEW r \in requests, Kept(r)
       PROVE  Good
  <2>1. /\ r \in Request /\ r.page \in Pages /\ r.text \in Texts /\ r.expect \in Nat
        /\ r.result \in Nat /\ r.read \in Texts /\ Sound(r) /\ AwaitSound(r) /\ PageSound(r.page)
    BY RequestIn, <1>a, <1>b
  <2>2. Stays
    <3>1. requests' = requests \ {r} /\ UNCHANGED <<rowVars, sent>>  BY <1>10 DEF Kept, Answered
    <3>2. \A q \in Pages : forgone[q] \subseteq forgone'[q]  BY <1>0, <1>10, <2>1 DEF Kept
    <3>. QED  BY <1>0, <3>1, <3>2 DEF RowMoves
  <2>0. UNCHANGED <<rowVars, sent>> /\ r \notin requests'  BY <1>10 DEF Kept, Answered
  <2>3. /\ flying' = [flying EXCEPT ![r.page] = 0] /\ Awaited(r)
        /\ UNCHANGED <<page, timer, failed>>
    BY <1>10 DEF Kept
  <2>4. \A q \in Pages : q # r.page => SamePage(q)
    <3>1. CASE r.stage = "ok"  BY <1>0, <1>10, <2>1, <2>3, <3>1 DEF Kept, Show, SamePage
    <3>2. CASE r.stage # "ok"  BY <1>0, <1>10, <2>1, <2>3, <3>2 DEF Kept, SamePage
    <3>. QED  BY <3>1, <3>2
  <2>5. Requested'
    <3>1. ASSUME NEW q \in requests', q \in requests PROVE AwaitSound(q)'
      <4>1. Sound(q) /\ AwaitSound(q) /\ q.page \in Pages /\ q.id # 0
        BY <3>1, <1>a, <1>c
      <4>2. q.page = r.page => ~Awaited(q)'  BY <1>0, <2>3, <4>1 DEF Awaited
      <4>3. q.page # r.page => SamePage(q.page)  BY <2>4, <4>1
      <4>4. q.page # r.page => Seen(q.page)' = Seen(q.page)  BY <4>3 DEF SamePage, Seen
      <4>. QED  BY <2>2, <3>1, <4>1, <4>2, <4>3, <4>4, SameAwait DEF SamePage
    <3>. QED  BY <1>r, <2>2, <3>1
  <2>6. page[r.page] # "closed"
    <3>1. r.id # 0  BY <2>1 DEF Sound
    <3>. QED  BY <2>1, <2>3, <3>1 DEF PageSound, Awaited
  <2>7. flying'[r.page] = 0  BY <1>0, <2>1, <2>3
  <2>8. CASE r.stage = "ok"
    <3>1. /\ Show(r.page, r.text) /\ ver'[r.page] = r.result /\ dialog'[r.page] = None
          /\ forgone'[r.page] = IF dialog[r.page] = None THEN forgone[r.page] \cup text[r.page]
                                                        ELSE forgone[r.page]
      BY <1>0, <1>10, <2>1, <2>8 DEF Kept
    <3>2. /\ loaded'[r.page] = r.text
          /\ text'[r.page] = IF page[r.page] = "open" /\ r.text # loaded[r.page] /\ r.text # text[r.page]
                             THEN r.text ELSE text[r.page]
      BY <1>0, <2>1, <3>1 DEF Show
    <3>3. page[r.page] = "open"  BY <1>0, <2>1, <2>6 DEF PageSound
    <3>4. r.text \subseteq text'[r.page]  BY <2>1, <3>2, <3>3 DEF PageSound
    <3>5. r.result <= version /\ (r.result = version => content = r.text)
      BY <1>10, <2>1, <2>8 DEF Sound, Kept
    <3>6. Fits(r.result, r.text)  BY <3>5 DEF Fits
    <3>7. \/ Older(timer[r.page], r.result) /\ Older(failed[r.page], r.result)
          \/ Seen(r.page) \subseteq Seen(r.page)'
      <4>1. CASE dialog[r.page] = None  BY <3>1, <4>1 DEF Seen
      <4>2. CASE dialog[r.page] # None
        BY <1>10, <2>1, <2>3, <2>8, <4>2 DEF AwaitSound, Kept
      <4>. QED  BY <4>1, <4>2
    <3>8. forgone[r.page] \subseteq forgone'[r.page]  BY <3>1
    <3>9. ASSUME NEW x, x # None => x.ver \in Nat, Waiting(x, r.page),
                 Older(x, r.result) \/ Seen(r.page) \subseteq Seen(r.page)'
          PROVE  Waiting(x, r.page)'
      <4>1. content' = content /\ version' = version  BY <2>0
      <4>2. Older(x, r.result) => (x # None => x.ver # version)
        BY <1>0, <2>1, <3>5, <3>9 DEF Older
      <4>. QED  BY <3>8, <3>9, <4>1, <4>2 DEF Waiting, Fits
    <3>10. Waiting(timer[r.page], r.page)' /\ Waiting(failed[r.page], r.page)'
      <4>1. PICK x, y : x = timer[r.page] /\ y = failed[r.page]  OBVIOUS
      <4>2. (x # None => x.ver \in Nat) /\ (y # None => y.ver \in Nat)  BY <2>1, <4>1, PageType
      <4>3. Waiting(x, r.page) /\ Waiting(y, r.page)  BY <2>1, <4>1 DEF PageSound
      <4>4. Waiting(x, r.page)' /\ Waiting(y, r.page)'  BY <3>7, <3>9, <4>1, <4>2, <4>3
      <4>5. x = timer'[r.page] /\ y = failed'[r.page]  BY <2>3, <4>1
      <4>. QED  BY <4>4, <4>5
    <3>11. PageSound(r.page)'
      <4>1. page'[r.page] = "open" /\ content' = content /\ version' = version /\ sent' = sent
        BY <2>0, <2>3, <3>3
      <4>2. Fits(ver[r.page], Seen(r.page))'  BY <3>1, <3>4, <3>6, <4>1 DEF Fits, Seen
      <4>. QED  BY <1>0, <2>7, <3>1, <3>2, <3>4, <3>5, <3>10, <4>1, <4>2 DEF PageSound
    <3>. QED  BY <1>p, <2>1, <2>2, <2>4, <2>5, <3>11
  <2>9. CASE r.stage # "ok"
    <3>1. UNCHANGED <<ver, dialog, text, loaded, forgone>>  BY <1>10, <2>9 DEF Kept
    <3>2. PageSound(r.page)'
      BY <1>0, <2>0, <2>1, <2>3, <2>6, <2>7, <3>1 DEF PageSound, Fits, Seen, Waiting
    <3>. QED  BY <1>p, <2>1, <2>2, <2>4, <2>5, <3>2
  <2>. QED  BY <2>8, <2>9
<1>11. ASSUME NEW r \in requests, Lose(r)
       PROVE  Good
  <2>1. /\ r \in Request /\ r.page \in Pages /\ r.text \in Texts /\ r.expect \in Nat
        /\ r.result \in Nat /\ r.read \in Texts /\ Sound(r) /\ AwaitSound(r) /\ PageSound(r.page)
    BY RequestIn, <1>a, <1>b
  <2>2. Stays
    <3>1. requests' = requests \ {r} /\ UNCHANGED <<rowVars, sent>>  BY <1>11 DEF Lose, Answered
    <3>2. \A q \in Pages : forgone[q] \subseteq forgone'[q]  BY <1>0, <1>11, <2>1 DEF Lose
    <3>. QED  BY <1>0, <3>1, <3>2 DEF RowMoves
  <2>0. UNCHANGED <<rowVars, sent>> /\ r \notin requests'  BY <1>11 DEF Lose, Answered
  <2>3. CASE ~Awaited(r)
    <3>0. UNCHANGED <<page, text, loaded, ver, timer, failed, dialog, flying, forgone>>  BY <1>11, <2>3 DEF Lose
    <3>1. ASSUME NEW q \in requests', q \in requests PROVE AwaitSound(q)'
      <4>1. Sound(q) /\ AwaitSound(q) /\ Seen(q.page)' = Seen(q.page)  BY <3>0, <3>1, <1>a DEF Seen
      <4>. QED  BY <2>2, <3>0, <3>1, <4>1, SameAwait
    <3>2. \A q \in Pages : SamePage(q)  BY <3>0 DEF SamePage
    <3>. QED  BY <1>r, <1>s, <2>2, <3>1, <3>2
  <2>4. CASE Awaited(r)
    <3>0. /\ flying' = [flying EXCEPT ![r.page] = 0]
          /\ UNCHANGED <<page, text, loaded, ver, timer, dialog, forgone>>
          /\ \/ failed' = failed
             \/ /\ r.kind = "save"
                /\ failed' = [failed EXCEPT ![r.page] = [text |-> r.text, ver |-> r.expect]]
      BY <1>11, <2>4 DEF Lose
    <3>1. ASSUME NEW q \in requests', q \in requests PROVE AwaitSound(q)'
      <4>1. /\ Sound(q) /\ AwaitSound(q) /\ Seen(q.page)' = Seen(q.page) /\ q.page \in Pages
            /\ q.id # 0
        BY <3>0, <3>1, <1>a, <1>c DEF Seen
      <4>2. q.page = r.page => ~Awaited(q)'  BY <1>0, <3>0, <4>1 DEF Awaited
      <4>3. q.page # r.page => flying'[q.page] = flying[q.page] /\ failed'[q.page] = failed[q.page]
        BY <1>0, <3>0, <4>1
      <4>. QED  BY <2>2, <3>0, <3>1, <4>1, <4>2, <4>3, SameAwait
    <3>2. Requested'  BY <1>r, <2>2, <3>1
    <3>3. \A q \in Pages : q # r.page => SamePage(q)  BY <1>0, <2>1, <3>0 DEF SamePage
    <3>4. PageSound(r.page)'
      <4>1. page[r.page] # "closed"
        <5>1. r.id # 0  BY <2>1 DEF Sound
        <5>. QED  BY <2>1, <2>4, <5>1 DEF PageSound, Awaited
      <4>2. flying'[r.page] = 0  BY <1>0, <2>1, <3>0
      <4>3. Waiting(failed[r.page], r.page)'
        <5>1. CASE failed'[r.page] = failed[r.page]
          BY <2>0, <2>1, <3>0, <5>1 DEF PageSound, Waiting, Fits, Seen
        <5>2. CASE r.kind = "save" /\ failed'[r.page] = [text |-> r.text, ver |-> r.expect]
          <6>1. r.expect <= version  BY <2>1 DEF Sound
          <6>2. r.expect = version => r.stage = "sent"
            BY <1>0, <2>1 DEF Sound
          <6>3. Fits(r.expect, r.text \cup forgone[r.page])
            BY <2>1, <5>2, <6>2 DEF Sound, Fits
          <6>4. r.expect = version => r.text \subseteq Seen(r.page)
            BY <2>1, <2>4, <5>2, <6>2 DEF AwaitSound, Current
          <6>5. failed'[r.page].text = r.text /\ failed'[r.page].ver = r.expect  BY <5>2
          <6>. QED  BY <2>0, <3>0, <6>1, <6>3, <6>4, <6>5 DEF Waiting, Fits, Seen
        <5>. QED  BY <1>0, <2>1, <3>0, <5>1, <5>2
      <4>. QED  BY <1>0, <2>0, <2>1, <3>0, <4>1, <4>2, <4>3 DEF PageSound, Fits, Seen, Waiting
    <3>5. Opened'  BY <1>p, <2>1, <2>2, <3>3, <3>4
    <3>. QED  BY <3>2, <3>5
  <2>. QED  BY <2>3, <2>4
<1>12. ASSUME NEW p \in Pages, NEW e \in Edits, Type(p, e)
       PROVE  Good
  <2>2. Stays /\ UNCHANGED <<rowVars, sent, requests>>
    <3>1. UNCHANGED <<rowVars, sent, requests>>  BY <1>12 DEF Type
    <3>2. \A q \in Pages : forgone[q] \subseteq forgone'[q]  BY <1>0, <1>12 DEF Type
    <3>. QED  BY <1>0, <3>1, <3>2 DEF RowMoves
  <2>3. UNCHANGED <<page, ver, loaded, dialog, failed, flying, forgone>> /\ dialog[p] = None
        /\ page[p] = "open"
    BY <1>12 DEF Type
  <2>4. \A q \in Pages : q # p => SamePage(q)  BY <1>0, <1>12 DEF Type, SamePage
  <2>6. /\ text'[p] = text[p] \cup {e}
        /\ timer'[p].text = text'[p] /\ timer'[p].ver = ver[p]
    BY <1>0, <1>12 DEF Type
  <2>7. Seen(p) \subseteq Seen(p)'  BY <2>3, <2>6 DEF Seen
  <2>5. Requested'
    <3>1. ASSUME NEW q \in requests', q \in requests PROVE AwaitSound(q)'
      <4>1. Sound(q) /\ AwaitSound(q) /\ q.page \in Pages /\ q.id # 0
        BY <3>1, <1>a, <1>c
      <4>2. q.page # p => SamePage(q.page)  BY <2>4, <4>1
      <4>3. q.page # p => Seen(q.page)' = Seen(q.page)  BY <4>2 DEF SamePage, Seen
      <4>4. dialog'[p] = None /\ flying'[p] = flying[p]  BY <2>3
      <4>. QED  BY <2>2, <2>7, <3>1, <4>1, <4>2, <4>3, <4>4, SameAwait DEF SamePage
    <3>. QED  BY <1>r, <2>2, <3>1
  <2>8. PageSound(p)'
    <3>1. PageSound(p)  BY <1>b
    <3>2. Fits(ver[p], Seen(p))  BY <2>3, <3>1 DEF PageSound
    <3>3. Waiting(timer[p], p)'
      BY <2>2, <2>3, <2>6, <3>1, <3>2 DEF Waiting, Fits, Seen, PageSound
    <3>4. Waiting(failed[p], p)'
      BY <2>2, <2>3, <2>6, <3>1 DEF Waiting, Fits, Seen, PageSound
    <3>. QED  BY <2>2, <2>3, <2>6, <3>1, <3>2, <3>3, <3>4 DEF PageSound, Fits, Seen
  <2>. QED  BY <1>p, <2>2, <2>4, <2>5, <2>8
<1>13. ASSUME NEW p \in Pages, SaveDraft(p)
       PROVE  Good
  <2>2. Stays /\ UNCHANGED <<rowVars, sent, requests>>
    <3>1. UNCHANGED <<rowVars, sent, requests>>  BY <1>13 DEF SaveDraft
    <3>2. \A q \in Pages : forgone[q] \subseteq forgone'[q]  BY <1>0, <1>13 DEF SaveDraft
    <3>. QED  BY <1>0, <3>1, <3>2 DEF RowMoves
  <2>3. UNCHANGED <<page, text, loaded, ver, timer, failed, dialog, flying, forgone>>  BY <1>13 DEF SaveDraft
  <2>4. Requested'
    <3>1. ASSUME NEW q \in requests', q \in requests PROVE AwaitSound(q)'
      <4>1. Sound(q) /\ AwaitSound(q) /\ Seen(q.page)' = Seen(q.page)  BY <2>3, <3>1, <1>a DEF Seen
      <4>. QED  BY <2>2, <2>3, <3>1, <4>1, SameAwait
    <3>. QED  BY <1>r, <2>2, <3>1
  <2>5. Opened'
    <3>1. \A q \in Pages : SamePage(q)  BY <2>3 DEF SamePage
    <3>. QED  BY <1>s, <2>2, <3>1
  <2>. QED  BY <2>4, <2>5
<1>14. ASSUME NEW p \in Pages, Autosave(p)
       PROVE  Good
  <2>1. /\ timer[p] # None /\ PerformSave(p, timer[p]) /\ timer' = [timer EXCEPT ![p] = None]
        /\ UNCHANGED <<rowVars, page, text, loaded, ver, dialog, failed, forgone>>
    BY <1>14 DEF Autosave
  <2>2. PageSound(p) /\ timer[p].text \in Texts /\ timer[p].ver \in Nat /\ {} \in Texts
    BY <1>b, <2>1, PageType DEF Texts
  <2>3. page[p] # "closed"  BY <2>1, <2>2 DEF PageSound
  <2>4. timer'[p] = None /\ \A q \in Pages : q # p => timer'[q] = timer[q]  BY <1>0, <2>1
  <2>5. CASE timer[p].text = saved[p]
    <3>1. UNCHANGED <<requests, sent, flying>>  BY <2>1, <2>5 DEF PerformSave
    <3>2. Stays  BY <1>0, <2>1, <3>1 DEF RowMoves
    <3>3. Requested'
      <4>1. ASSUME NEW q \in requests', q \in requests PROVE AwaitSound(q)'
        <5>1. Sound(q) /\ AwaitSound(q) /\ Seen(q.page)' = Seen(q.page) /\ q.page \in Pages
          BY <2>1, <4>1, <1>a, RequestIn DEF Seen
        <5>2. timer'[q.page] \in {timer[q.page], None}  BY <2>4, <5>1
        <5>. QED  BY <2>1, <3>1, <3>2, <4>1, <5>1, <5>2, SameAwait
      <4>. QED  BY <1>r, <3>2, <4>1
    <3>4. PageSound(p)'
      BY <2>1, <2>2, <2>4, <3>1 DEF PageSound, Waiting, Fits, Seen
    <3>5. \A q \in Pages : q # p => SamePage(q)  BY <2>1, <2>4, <3>1 DEF SamePage
    <3>. QED  BY <1>p, <3>2, <3>3, <3>4, <3>5
  <2>6. CASE timer[p].text # saved[p]
    <3>1. Update(p, "save", timer[p].text, timer[p].ver, {})  BY <2>1, <2>6 DEF PerformSave
    <3>2. /\ timer[p].ver <= version /\ Fits(timer[p].ver, timer[p].text \cup {} \cup forgone[p])
          /\ timer[p].ver = version => timer[p].text \subseteq Seen(p)
      BY <2>1, <2>2 DEF PageSound, Waiting, Fits
    <3>3. PICK t, v : t = timer[p].text /\ v = timer[p].ver  OBVIOUS
    <3>4. /\ \A r \in requests' : Sound(r)' /\ AwaitSound(r)'
          /\ Distinct' /\ sent' = sent + 1 /\ sent' \in Nat /\ sent \in Nat
          /\ flying' = [flying EXCEPT ![p] = sent']
      BY <2>1, <2>2, <2>4, <3>1, <3>2, <3>3, UpdateSound DEF Kinds
    <3>5. flying'[p] = sent' /\ \A q \in Pages : q # p => flying'[q] = flying[q]  BY <1>0, <3>4
    <3>6. \A q \in Pages : q # p => SamePage(q)  BY <2>1, <2>4, <3>5 DEF SamePage
    <3>7. PageSound(p)'
      BY <1>0, <2>1, <2>2, <2>3, <2>4, <3>4, <3>5 DEF PageSound, Waiting, Fits, Seen
    <3>8. RowMoves /\ sent' >= sent  BY <2>1, <3>4 DEF RowMoves
    <3>. QED  BY <1>p, <3>4, <3>6, <3>7, <3>8
  <2>. QED  BY <2>5, <2>6
<1>15. ASSUME NEW p \in Pages, Retry(p)
       PROVE  Good
  <2>1. /\ failed[p] # None /\ PerformSave(p, failed[p]) /\ failed' = [failed EXCEPT ![p] = None]
        /\ UNCHANGED <<rowVars, page, text, loaded, ver, dialog, timer, forgone>>
    BY <1>15 DEF Retry
  <2>2. PageSound(p) /\ failed[p].text \in Texts /\ failed[p].ver \in Nat /\ {} \in Texts
    BY <1>b, <2>1, PageType DEF Texts
  <2>3. page[p] # "closed"  BY <2>1, <2>2 DEF PageSound
  <2>4. failed'[p] = None /\ \A q \in Pages : q # p => failed'[q] = failed[q]  BY <1>0, <2>1
  <2>5. CASE failed[p].text = saved[p]
    <3>1. UNCHANGED <<requests, sent, flying>>  BY <2>1, <2>5 DEF PerformSave
    <3>2. Stays  BY <1>0, <2>1, <3>1 DEF RowMoves
    <3>3. Requested'
      <4>1. ASSUME NEW q \in requests', q \in requests PROVE AwaitSound(q)'
        <5>1. Sound(q) /\ AwaitSound(q) /\ Seen(q.page)' = Seen(q.page) /\ q.page \in Pages
          BY <2>1, <4>1, <1>a, RequestIn DEF Seen
        <5>2. failed'[q.page] \in {failed[q.page], None}  BY <2>4, <5>1
        <5>. QED  BY <2>1, <3>1, <3>2, <4>1, <5>1, <5>2, SameAwait
      <4>. QED  BY <1>r, <3>2, <4>1
    <3>4. PageSound(p)'
      BY <2>1, <2>2, <2>4, <3>1 DEF PageSound, Waiting, Fits, Seen
    <3>5. \A q \in Pages : q # p => SamePage(q)  BY <2>1, <2>4, <3>1 DEF SamePage
    <3>. QED  BY <1>p, <3>2, <3>3, <3>4, <3>5
  <2>6. CASE failed[p].text # saved[p]
    <3>1. Update(p, "save", failed[p].text, failed[p].ver, {})  BY <2>1, <2>6 DEF PerformSave
    <3>2. /\ failed[p].ver <= version /\ Fits(failed[p].ver, failed[p].text \cup {} \cup forgone[p])
          /\ failed[p].ver = version => failed[p].text \subseteq Seen(p)
      BY <2>1, <2>2 DEF PageSound, Waiting, Fits
    <3>3. PICK t, v : t = failed[p].text /\ v = failed[p].ver  OBVIOUS
    <3>4. /\ \A r \in requests' : Sound(r)' /\ AwaitSound(r)'
          /\ Distinct' /\ sent' = sent + 1 /\ sent' \in Nat /\ sent \in Nat
          /\ flying' = [flying EXCEPT ![p] = sent']
      BY <2>1, <2>2, <2>4, <3>1, <3>2, <3>3, UpdateSound DEF Kinds
    <3>5. flying'[p] = sent' /\ \A q \in Pages : q # p => flying'[q] = flying[q]  BY <1>0, <3>4
    <3>6. \A q \in Pages : q # p => SamePage(q)  BY <2>1, <2>4, <3>5 DEF SamePage
    <3>7. PageSound(p)'
      BY <1>0, <2>1, <2>2, <2>3, <2>4, <3>4, <3>5 DEF PageSound, Waiting, Fits, Seen
    <3>8. RowMoves /\ sent' >= sent  BY <2>1, <3>4 DEF RowMoves
    <3>. QED  BY <1>p, <3>4, <3>6, <3>7, <3>8
  <2>. QED  BY <2>5, <2>6
<1>16. ASSUME NEW p \in Pages, Rename(p)
       PROVE  Good
  <2>1. /\ Update(p, "rename", {}, ver[p], {})
        /\ UNCHANGED <<rowVars, page, text, loaded, ver, dialog, timer, failed, forgone>>
        /\ page[p] # "closed"
    BY <1>16 DEF Rename
  <2>2. ver[p] \in Nat /\ {} \in Texts  BY <1>0 DEF Texts
  <2>3. ver[p] <= version /\ (ver[p] = version => content \subseteq Seen(p))
    <3>1. PageSound(p) /\ page[p] = "open"  BY <1>b, <1>16 DEF Rename
    <3>. QED  BY <3>1 DEF PageSound, Fits
  <2>4. /\ \A r \in requests' : Sound(r)' /\ AwaitSound(r)'
        /\ Distinct' /\ sent' = sent + 1 /\ sent' \in Nat /\ sent \in Nat
        /\ flying' = [flying EXCEPT ![p] = sent']
    BY <1>0, <2>1, <2>2, <2>3, UpdateSound DEF Kinds
  <2>5. flying'[p] = sent' /\ \A q \in Pages : q # p => flying'[q] = flying[q]  BY <1>0, <2>4
  <2>6. \A q \in Pages : q # p => SamePage(q)  BY <2>1, <2>5 DEF SamePage
  <2>7. PageSound(p)'
    <3>1. PageSound(p)  BY <1>b
    <3>. QED  BY <2>1, <2>4, <2>5, <3>1 DEF PageSound, Waiting, Fits, Seen
  <2>8. RowMoves /\ sent' >= sent  BY <2>1, <2>4 DEF RowMoves
  <2>. QED  BY <1>p, <2>4, <2>6, <2>7, <2>8
<1>17. ASSUME NEW p \in Pages, Sync(p)
       PROVE  Good
  <2>1. /\ Update(p, "sync", draft[p], version, {})
        /\ UNCHANGED <<rowVars, page, text, loaded, ver, dialog, timer, failed, forgone>>
        /\ page[p] # "closed"
    BY <1>17 DEF Sync
  <2>2. draft[p] \in Texts /\ {} \in Texts  BY <1>17 DEF Sync, SaveTypeOK, Texts
  <2>3. version <= version  BY <1>0
  <2>4. /\ \A r \in requests' : Sound(r)' /\ AwaitSound(r)'
        /\ Distinct' /\ sent' = sent + 1 /\ sent' \in Nat /\ sent \in Nat
        /\ flying' = [flying EXCEPT ![p] = sent']
    BY <1>0, <2>1, <2>2, <2>3, UpdateSound DEF Kinds
  <2>5. flying'[p] = sent' /\ \A q \in Pages : q # p => flying'[q] = flying[q]  BY <1>0, <2>4
  <2>6. \A q \in Pages : q # p => SamePage(q)  BY <2>1, <2>5 DEF SamePage
  <2>7. PageSound(p)'
    <3>1. PageSound(p)  BY <1>b
    <3>. QED  BY <2>1, <2>4, <2>5, <3>1 DEF PageSound, Waiting, Fits, Seen
  <2>8. RowMoves /\ sent' >= sent  BY <2>1, <2>4 DEF RowMoves
  <2>. QED  BY <1>p, <2>4, <2>6, <2>7, <2>8
<1>18. ASSUME NEW p \in Pages, Keep(p)
       PROVE  Good
  <2>1. /\ Update(p, "keep", dialog[p].local, dialog[p].ver, dialog[p].server)
        /\ UNCHANGED <<rowVars, page, text, loaded, ver, dialog, timer, failed, forgone>>
        /\ page[p] # "closed"
    BY <1>18 DEF Keep
  <2>2. /\ dialog[p].local \in Texts /\ dialog[p].server \in Texts /\ dialog[p].ver \in Nat
        /\ PageSound(p)
    BY <1>18, <1>b, PageType DEF Keep
  <2>3. dialog[p].ver <= version
        /\ Fits(dialog[p].ver, dialog[p].local \cup dialog[p].server \cup forgone[p])
    BY <1>18, <2>2 DEF PageSound, Fits, Keep
  <2>4. /\ \A r \in requests' : Sound(r)' /\ AwaitSound(r)'
        /\ Distinct' /\ sent' = sent + 1 /\ sent' \in Nat /\ sent \in Nat
        /\ flying' = [flying EXCEPT ![p] = sent']
    BY <1>0, <2>1, <2>2, <2>3, UpdateSound DEF Kinds
  <2>5. flying'[p] = sent' /\ \A q \in Pages : q # p => flying'[q] = flying[q]  BY <1>0, <2>4
  <2>6. \A q \in Pages : q # p => SamePage(q)  BY <2>1, <2>5 DEF SamePage
  <2>7. PageSound(p)'
    <3>1. PageSound(p)  BY <1>b
    <3>. QED  BY <2>1, <2>4, <2>5, <3>1 DEF PageSound, Waiting, Fits, Seen
  <2>8. RowMoves /\ sent' >= sent  BY <2>1, <2>4 DEF RowMoves
  <2>. QED  BY <1>p, <2>4, <2>6, <2>7, <2>8
<1>19. ASSUME NEW p \in Pages, Discard(p)
       PROVE  Good
  <2>2. Stays /\ UNCHANGED <<rowVars, sent, requests>>
    <3>1. UNCHANGED <<rowVars, sent, requests>>  BY <1>19 DEF Discard
    <3>2. \A q \in Pages : forgone[q] \subseteq forgone'[q]  BY <1>0, <1>19 DEF Discard
    <3>. QED  BY <1>0, <3>1, <3>2 DEF RowMoves
  <2>3. UNCHANGED <<page, failed, timer, flying>> /\ dialog[p] # None /\ page[p] # "closed"
    BY <1>19 DEF Discard
  <2>4. \A q \in Pages : q # p => SamePage(q)  BY <1>0, <1>19 DEF Discard, Show, SamePage
  <2>6. /\ ver'[p] = dialog[p].ver /\ dialog'[p] = None /\ loaded'[p] = dialog[p].server
        /\ forgone'[p] = forgone[p] \cup text[p]
        /\ text'[p] = IF page[p] = "open" /\ dialog[p].server # loaded[p] /\ dialog[p].server # text[p]
                      THEN dialog[p].server ELSE text[p]
    BY <1>0, <1>19 DEF Discard, Show
  <2>7. Seen(p) \subseteq Seen(p)'  BY <2>6 DEF Seen
  <2>5. Requested'
    <3>1. ASSUME NEW q \in requests', q \in requests PROVE AwaitSound(q)'
      <4>1. Sound(q) /\ AwaitSound(q) /\ q.page \in Pages /\ q.id # 0
        BY <3>1, <1>a, <1>c
      <4>2. q.page # p => SamePage(q.page)  BY <2>4, <4>1
      <4>3. q.page # p => Seen(q.page)' = Seen(q.page)  BY <4>2 DEF SamePage, Seen
      <4>4. dialog'[p] = None /\ flying'[p] = flying[p]  BY <2>3, <2>6
      <4>. QED  BY <2>2, <2>7, <3>1, <4>1, <4>2, <4>3, <4>4, SameAwait DEF SamePage
    <3>. QED  BY <1>r, <2>2, <3>1
  <2>8. PageSound(p)'
    <3>1. PageSound(p)  BY <1>b
    <3>2. dialog[p].ver <= version /\ Fits(dialog[p].ver, dialog[p].server)
      BY <2>3, <3>1 DEF PageSound
    <3>3. page[p] = "open"  BY <1>0, <2>3, <3>1 DEF PageSound
    <3>4. dialog[p].server \subseteq text'[p]  BY <2>6, <3>1, <3>3 DEF PageSound
    <3>5. Waiting(timer[p], p)'
      BY <2>2, <2>3, <2>6, <2>7, <3>1 DEF Waiting, Fits, PageSound
    <3>6. Waiting(failed[p], p)'
      BY <2>2, <2>3, <2>6, <2>7, <3>1 DEF Waiting, Fits, PageSound
    <3>. QED
      BY <2>2, <2>3, <2>6, <3>1, <3>2, <3>3, <3>4, <3>5, <3>6 DEF PageSound, Fits, Seen
  <2>. QED  BY <1>p, <2>2, <2>4, <2>5, <2>8
<1>20. ASSUME NEW p \in Pages, SaveAsNew(p)
       PROVE  Good
  BY <1>20, <1>q DEF SaveAsNew
<1>21. ASSUME NEW p \in Pages, RefreshBook(p)
       PROVE  Good
  BY <1>21, <1>q DEF RefreshBook
<1>22. ASSUME NEW p \in Pages, Flush(p)
       PROVE  Good
  <2>1. /\ UNCHANGED <<rowVars, page, text, loaded, ver, dialog, failed, flying, forgone>>
        /\ timer' = [timer EXCEPT ![p] = None] /\ page[p] = "open"
    BY <1>22 DEF Flush
  <2>2. timer'[p] = None /\ \A q \in Pages : q # p => timer'[q] = timer[q]  BY <1>0, <2>1
  <2>4. \A q \in Pages : q # p => SamePage(q)  BY <2>1, <2>2 DEF SamePage
  <2>3. PageSound(p)  BY <1>b
  <2>6. (\A r \in requests' : Sound(r)') /\ Distinct' /\ sent' >= sent /\ sent' \in Nat
        /\ \A r \in requests' : r \in requests \/ (r.id = sent + 1 /\ r.page = p)
    <3>1. CASE UNCHANGED netVars
      <4>1. RowMoves  BY <2>1 DEF RowMoves
      <4>2. ASSUME NEW r \in requests PROVE Sound(r)'
        <5>1. Sound(r)  BY <1>a
        <5>. QED  BY <1>0, <2>1, <3>1, <4>1, <5>1, SameSound
      <4>. QED  BY <1>0, <3>1, <4>2 DEF SoundInv, Distinct
    <3>2. CASE Send(p, "keepalive", text[p], ver[p], {})
      <4>1. text[p] \in Texts /\ ver[p] \in Nat /\ {} \in Texts  BY <1>0 DEF Texts
      <4>2. ver[p] <= version /\ Fits(ver[p], text[p] \cup {} \cup forgone[p])
        BY <2>1, <2>3 DEF PageSound, Fits, Seen
      <4>3. /\ \A r \in requests' : Sound(r)'
            /\ Distinct'
            /\ \E n \in Request : /\ Sending(n, p, "keepalive", text[p], ver[p], {})
                                  /\ requests' = requests \cup {n}
            /\ sent' = sent + 1 /\ sent' \in Nat /\ sent \in Nat
        BY <2>1, <3>2, <4>1, <4>2, SendSound DEF Kinds
      <4>. QED  BY <4>3 DEF Sending
    <3>. QED  BY <1>22, <3>1, <3>2 DEF Flush
  <2>7. ASSUME NEW r \in requests' PROVE AwaitSound(r)'
    <3>1. CASE r \in requests
      <4>1. Sound(r) /\ AwaitSound(r) /\ r.page \in Pages  BY <3>1, <1>a, RequestIn
      <4>2. RowMoves /\ Seen(r.page)' = Seen(r.page)  BY <2>1 DEF RowMoves, Seen
      <4>3. timer'[r.page] \in {timer[r.page], None}  BY <2>2, <4>1
      <4>. QED  BY <2>1, <3>1, <4>1, <4>2, <4>3, SameAwait
    <3>2. CASE r.id = sent + 1 /\ r.page = p
      <4>1. flying'[p] <= sent /\ flying[p] \in Nat  BY <2>1, <2>3, PageType DEF PageSound
      <4>2. ~Awaited(r)'  BY <1>0, <2>1, <3>2, <4>1 DEF Awaited
      <4>. QED  BY <4>2 DEF AwaitSound
    <3>. QED  BY <2>6, <3>1, <3>2
  <2>8. PageSound(p)'
    <3>1. flying[p] \in Nat  BY PageType
    <3>. QED  BY <1>0, <2>1, <2>2, <2>3, <2>6, <3>1 DEF PageSound, Waiting, Fits, Seen
  <2>9. RowMoves  BY <2>1 DEF RowMoves
  <2>. QED  BY <1>p, <2>4, <2>6, <2>7, <2>8, <2>9
<1>23. ASSUME NEW p \in Pages, Gone(p)
       PROVE  Good
  <2>2. Stays /\ UNCHANGED <<rowVars, sent, requests>>
    <3>1. UNCHANGED <<rowVars, sent, requests>>  BY <1>23 DEF Gone
    <3>2. \A q \in Pages : forgone[q] \subseteq forgone'[q]  BY <1>0, <1>23 DEF Gone
    <3>. QED  BY <1>0, <3>1, <3>2 DEF RowMoves
  <2>3. /\ page'[p] = "closed" /\ timer'[p] = None /\ flying'[p] = 0 /\ dialog'[p] = None
        /\ failed'[p] = None /\ UNCHANGED <<ver, text, loaded, forgone>>
    BY <1>0, <1>23 DEF Gone
  <2>4. \A q \in Pages : q # p => SamePage(q)  BY <1>0, <1>23 DEF Gone, SamePage
  <2>5. Requested'
    <3>1. ASSUME NEW q \in requests', q \in requests PROVE AwaitSound(q)'
      <4>1. Sound(q) /\ AwaitSound(q) /\ q.page \in Pages /\ q.id # 0
        BY <3>1, <1>a, <1>c
      <4>2. q.page # p => SamePage(q.page)  BY <2>4, <4>1
      <4>3. q.page # p => Seen(q.page)' = Seen(q.page)  BY <4>2 DEF SamePage, Seen
      <4>4. q.page = p => ~Awaited(q)'  BY <2>3, <4>1 DEF Awaited
      <4>. QED  BY <2>2, <3>1, <4>1, <4>2, <4>3, <4>4, SameAwait DEF SamePage
    <3>. QED  BY <1>r, <2>2, <3>1
  <2>8. PageSound(p)'
    <3>1. PageSound(p)  BY <1>b
    <3>. QED  BY <1>0, <2>2, <2>3, <3>1 DEF PageSound, Waiting, Fits, Seen
  <2>. QED  BY <1>p, <2>2, <2>4, <2>5, <2>8
<1>24. ASSUME NEW p \in Pages, Away(p)
       PROVE  Good
  BY <1>24, <1>q DEF Away
<1>25. ASSUME NEW p \in Pages, Back(p)
       PROVE  Good
  BY <1>25, <1>b DEF Back, PageSound
<1>26. ASSUME NEW p \in Pages, Load(p)
       PROVE  Good
  <2>2. Stays /\ UNCHANGED <<rowVars, sent, requests>>
    <3>1. UNCHANGED <<rowVars, sent, requests>>  BY <1>26 DEF Load
    <3>2. \A q \in Pages : forgone[q] \subseteq forgone'[q]  BY <1>0, <1>26 DEF Load
    <3>. QED  BY <1>0, <3>1, <3>2 DEF RowMoves
  <2>1. PageSound(p) /\ page[p] = "closed"  BY <1>b, <1>26 DEF Load
  <2>3. /\ page'[p] = "open" /\ timer'[p] = None /\ flying'[p] = 0 /\ dialog'[p] = None
        /\ failed'[p] = None /\ ver'[p] = version /\ text'[p] = content /\ loaded'[p] = content
    BY <1>0, <1>26, <2>1 DEF Load, Mount, PageSound
  <2>4. \A q \in Pages : q # p => SamePage(q)  BY <1>0, <1>26 DEF Load, Mount, SamePage
  <2>5. Requested'
    <3>1. ASSUME NEW q \in requests', q \in requests PROVE AwaitSound(q)'
      <4>1. Sound(q) /\ AwaitSound(q) /\ q.page \in Pages /\ q.id # 0
        BY <3>1, <1>a, <1>c
      <4>2. q.page # p => SamePage(q.page)  BY <2>4, <4>1
      <4>3. q.page # p => Seen(q.page)' = Seen(q.page)  BY <4>2 DEF SamePage, Seen
      <4>4. q.page = p => ~Awaited(q)'  BY <2>3, <4>1 DEF Awaited
      <4>. QED  BY <2>2, <3>1, <4>1, <4>2, <4>3, <4>4, SameAwait DEF SamePage
    <3>. QED  BY <1>r, <2>2, <3>1
  <2>8. PageSound(p)'
    <3>1. PageSound(p)  BY <1>b
    <3>. QED  BY <1>0, <2>2, <2>3, <3>1 DEF PageSound, Waiting, Fits, Seen
  <2>. QED  BY <1>p, <2>2, <2>4, <2>5, <2>8
<1>27. ASSUME NEW p \in Pages, NEW k \in DOMAIN snaps, RestoreVersion(p, snaps[k])
       PROVE  Good
  <2>0. PICK t : t = snaps[k].text  OBVIOUS
  <2>1. /\ version' = version + 1 /\ content' = t /\ sent' = sent + 1
        /\ Show(p, t) /\ ver' = [ver EXCEPT ![p] = version + 1]
        /\ UNCHANGED <<requests, page, dialog, timer, failed, flying, forgone>>
        /\ dialog[p] = None /\ page[p] = "open"
    BY <1>27, <2>0 DEF RestoreVersion, Store
  <2>2. Stays  BY <1>0, <2>1 DEF RowMoves
  <2>4. \A q \in Pages : q # p => SamePage(q)  BY <1>0, <2>1 DEF Show, SamePage
  <2>5. Requested'
    <3>1. ASSUME NEW q \in requests', q \in requests PROVE AwaitSound(q)'
      <4>1. /\ Sound(q) /\ AwaitSound(q) /\ q.page \in Pages /\ q.expect \in Nat
            /\ q.result \in Nat
        BY <3>1, <1>a, RequestIn
      <4>2. ~Current(q)'  BY <1>0, <2>1, <4>1 DEF Current, Sound
      <4>3. Awaited(q)' => Awaited(q)  BY <2>1 DEF Awaited
      <4>. QED  BY <2>1, <4>1, <4>2, <4>3 DEF AwaitSound, Older
    <3>. QED  BY <1>r, <2>2, <3>1
  <2>6. /\ ver'[p] = version' /\ loaded'[p] = t
        /\ text'[p] = IF t # loaded[p] /\ t # text[p] THEN t ELSE text[p]
    BY <1>0, <2>1 DEF Show
  <2>7. PageSound(p)  BY <1>b
  <2>8. t \subseteq text'[p]  BY <2>6, <2>7 DEF PageSound
  <2>9. Waiting(timer[p], p)'
    <3>1. timer[p] # None => timer[p].ver \in Nat  BY PageType
    <3>. QED  BY <1>0, <2>1, <2>7, <3>1 DEF PageSound, Waiting, Fits
  <2>10. Waiting(failed[p], p)'
    <3>1. failed[p] # None => failed[p].ver \in Nat  BY PageType
    <3>. QED  BY <1>0, <2>1, <2>7, <3>1 DEF PageSound, Waiting, Fits
  <2>11. flying[p] \in Nat  BY PageType
  <2>12. PageSound(p)'
    BY <1>0, <2>1, <2>6, <2>7, <2>8, <2>9, <2>10, <2>11 DEF PageSound, Fits, Seen
  <2>. QED  BY <1>p, <2>2, <2>4, <2>5, <2>12
<1>28. CASE UNCHANGED vars
  <2>1. UNCHANGED <<rowVars, requests, sent, page, text, loaded, ver, timer, failed, dialog, flying, forgone>>  BY <1>28 DEF vars
  <2>2. Stays  BY <1>0, <2>1 DEF RowMoves
  <2>3. ASSUME NEW q \in requests', q \in requests PROVE AwaitSound(q)'
    <3>1. Sound(q) /\ AwaitSound(q) /\ Seen(q.page)' = Seen(q.page)  BY <2>1, <2>3, <1>a DEF Seen
    <3>. QED  BY <2>1, <2>2, <2>3, <3>1, SameAwait
  <2>4. \A q \in Pages : SamePage(q)  BY <2>1 DEF SamePage
  <2>. QED  BY <1>r, <1>s, <2>2, <2>3, <2>4
<1>. HIDE DEF Good
<1>. QED
  BY <1>1, <1>2, <1>3, <1>4, <1>5, <1>6, <1>7, <1>8, <1>9, <1>10, <1>11, <1>12, <1>13, <1>14,
     <1>15, <1>16, <1>17, <1>18, <1>19, <1>20, <1>21, <1>22, <1>23, <1>24, <1>25, <1>26, <1>27,
     <1>28 DEF Next, Serve, Receive

\* An accepted PATCH is one that the lock lets pass: it would take nothing away.
LEMMA SoundSaves ==
  ASSUME Quiet, SaveTypeOK, OneByOne, SoundInv, [Next]_vars,
         NEW r \in requests, r.stage \in {"sent", "checked"}, r.kind \notin {"rename", "sync"},
         NEW m \in requests', m.id = r.id, m.stage \in {"stored", "ok"}
  PROVE  content \subseteq content' \cup r.shown \cup forgone[r.page]
<1>0. Sound(r) /\ Distinct /\ r.stage = "sent" /\ \A q \in requests : Sound(q)
  BY DEF SoundInv, OneByOne
<1>1. sent \in Nat  BY DEF SaveTypeOK
<1>2. m \notin requests
  BY <1>0 DEF Distinct
<1>3. \A p \in Pages : ~\E kind, t, v, shown : Send(p, kind, t, v, shown)
  <2>1. ASSUME NEW p \in Pages, NEW kind, NEW t, NEW v, NEW shown, Send(p, kind, t, v, shown)
        PROVE  FALSE
    BY <1>0, <1>1, <1>2, <2>1 DEF Send, Sound
  <2>. QED  BY <2>1
<1>4. "threads" \notin Allowed /\ "switch" \notin Allowed  BY DEF Quiet
<1>5. PICK q \in requests : Serve(q) \/ Receive(q) \/ Lose(q)
  <2>1. ASSUME NEW p \in Pages, NEW captured, PerformSave(p, captured) PROVE requests' = requests
    BY <1>3, <2>1 DEF PerformSave, Update, netVars
  <2>2. ASSUME NEW p \in Pages,
               \/ \E e \in Edits : Type(p, e)
               \/ SaveDraft(p) \/ Autosave(p) \/ Retry(p) \/ Rename(p) \/ Sync(p)
               \/ Keep(p) \/ Discard(p) \/ SaveAsNew(p) \/ RefreshBook(p)
               \/ \E n \in DOMAIN snaps : RestoreVersion(p, snaps[n])
               \/ Flush(p) \/ Gone(p) \/ Away(p) \/ Back(p) \/ Load(p)
        PROVE  requests' = requests
    <3>1. ~(Rename(p) \/ Sync(p) \/ Keep(p))  BY <1>3 DEF Rename, Sync, Keep, Update
    <3>2. CASE Autosave(p) \/ Retry(p)  BY <2>1, <3>2 DEF Autosave, Retry
    <3>3. CASE Flush(p)  BY <1>3, <3>3 DEF Flush, netVars
    <3>4. CASE Away(p)  BY <1>4, <3>4 DEF Away
    <3>5. CASE \/ \E e \in Edits : Type(p, e)
               \/ SaveDraft(p) \/ Discard(p) \/ SaveAsNew(p) \/ RefreshBook(p)
               \/ \E n \in DOMAIN snaps : RestoreVersion(p, snaps[n])
               \/ Gone(p) \/ Back(p) \/ Load(p)
      BY <3>5 DEF Type, SaveDraft, Discard, SaveAsNew, RefreshBook, RestoreVersion, Gone, Back,
                  Load, netVars
    <3>. QED  BY <2>2, <3>1, <3>2, <3>3, <3>4, <3>5
  <2>3. CASE UNCHANGED vars  BY <1>2, <2>3 DEF vars, netVars
  <2>. QED  BY <1>2, <2>2, <2>3 DEF Next
<1>6. ~(Receive(q) \/ Lose(q))
  BY <1>2 DEF Receive, Lose, Ignored, SaveOk, SaveConflict, Renamed, Synced, Kept, Answered
<1>7. Handle(q)  BY <1>4, <1>5, <1>6 DEF Serve, Check, Commit, TrimVersions, OneByOne
<1>8. PICK n \in Request :
        /\ requests' = (requests \ {q}) \cup {n} /\ Same(n, q)
        /\ \/ /\ Accepts(q) /\ n.stage = "ok" /\ n.result = version + 1
              /\ Store(content, version, Written(q), TRUE)
           \/ /\ ~Accepts(q) /\ n.stage = "conflict" /\ n.read = content /\ n.result = version
              /\ UNCHANGED rowVars
  BY <1>7, HandleSteps
<1>9. m = n /\ q = r
  BY <1>0, <1>2, <1>8 DEF Same, Distinct
<1>10. Accepts(r) /\ content' = r.text  BY <1>8, <1>9 DEF Store, Written
<1>. QED  BY <1>0, <1>10 DEF Sound, Fits, Accepts

\* While handlers do not interleave and the page takes over no version without
\* its text, no accepted save takes an edit away that its author had neither in
\* the text nor before the eyes, but what a discard took off the screen.
THEOREM SavesSum ==
  ASSUME Quiet
  PROVE  Spec => SavesAddUp
<1>1. Init => SoundInv
  <2>1. ASSUME Init PROVE SoundInv
    <3>1. ASSUME NEW p \in Pages PROVE PageSound(p)
      BY <2>1 DEF Init, PageSound, Waiting, Fits, Seen
    <3>. QED  BY <2>1, <3>1 DEF Init, SoundInv, Distinct
  <2>. QED  BY <2>1
<1>2. SaveTypeOK /\ OneByOne /\ SoundInv /\ [Next]_vars => SoundInv'
  BY SoundStep, ChapterSaveAssumption
<1>3. SaveTypeOK /\ OneByOne /\ SoundInv /\ [Next]_vars =>
        [\A r \in requests :
           (/\ r.stage \in {"sent", "checked"} /\ r.kind \notin {"rename", "sync"}
            /\ \E n \in requests' : n.id = r.id /\ n.stage \in {"stored", "ok"})
           => content \subseteq content' \cup r.shown \cup forgone[r.page]]_vars
  BY SoundSaves
<1>4. Spec => [](OneByOne /\ HistoryIsComplete)
  BY HistoryComplete DEF Quiet
<1>. QED  BY <1>1, <1>2, <1>3, <1>4, TypeCorrect, PTL DEF Spec, SavesAddUp


=============================================================================
