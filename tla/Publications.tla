---------------------------- MODULE Publications ----------------------------
(***************************************************************************)
(* Where an article was published: the rows and handlers of                *)
(* publications.py and the panel in the article's sidebar                  *)
(* (PublicationsPanel.tsx).  Marking a publication takes a snapshot of the *)
(* article as the server has it; whether a publication is out of sync is   *)
(* found out, and stored, when it is listed.  The document beside the      *)
(* panel saves itself (ArticleEditor) and does not tell the panel.         *)
(***************************************************************************)
EXTENDS Naturals, FiniteSets

CONSTANTS
  Pubs,    \* ids of publications
  Texts,   \* documents
  t0,      \* the document at first
  MaxPubCalls, \* bound on the requests of the panel
  MaxSaves,    \* bound on the saves of the document
  None

VARIABLES
  content, \* the document as saved
  saves,   \* number of saves so far
  text,    \* the document in the editor
  pub,     \* publication rows
  panel,   \* the panel: the publications it lists and the add dialog
  pCalls,  \* its requests
  pSent,
  seen,    \* history: per publication the document the user saw when it was
           \* last marked or verified
  raced    \* history: those whose document was not saved then, or was saved
           \* again before the request was handled

pubVars == <<content, saves, text, pub, panel, pCalls, pSent, seen, raced>>

NoPub == [st |-> "none", snap |-> None]
Listed == {"none", "planned", "published", "out_of_sync"}

PubCall == [id : Nat, kind : {"list", "create", "mark", "verify", "delete"}, pub : Pubs \cup {None},
            stage : {"sent", "ok", "invalid", "failed"}, shown : [Pubs -> Listed], at : 0..MaxSaves]

PubTypeOK ==
  /\ {content, text} \subseteq Texts /\ saves \in 0..MaxSaves
  /\ pub \in [Pubs -> [st : Listed, snap : Texts \cup {None}]]
  /\ panel.shown \in [Pubs -> Listed] /\ panel.at \in 0..MaxSaves
  /\ {panel.adding, panel.errors} \subseteq BOOLEAN /\ panel.submitting \in 0..MaxPubCalls
  /\ pCalls \subseteq PubCall /\ pSent \in 0..MaxPubCalls

Nothing == [p \in Pubs |-> "none"]

PubInit ==
  /\ content = t0 /\ text = t0 /\ saves = 0
  /\ pub \in [Pubs -> {NoPub, [NoPub EXCEPT !.st = "planned"]}]
  /\ panel = [shown |-> Nothing, at |-> 0, adding |-> FALSE, submitting |-> 0, errors |-> FALSE]
  /\ pCalls = {} /\ pSent = 0
  /\ seen = [p \in Pubs |-> None] /\ raced = {}

-----------------------------------------------------------------------------
(* The server                                                              *)

\* Mutant of CheckDrift: nothing is compared.
CheckDrift_Never(rows) == rows

\* _check_drift on every row listed: what differs from its snapshot is out of
\* sync from then on.
CheckDrift(rows) ==
  [p \in Pubs |-> IF rows[p].st = "published" /\ rows[p].snap # content
                  THEN [rows[p] EXCEPT !.st = "out_of_sync"] ELSE rows[p]]

StatusOf(rows) == [p \in Pubs |-> rows[p].st]

\* Mutant of Snapshot: a verified publication keeps its snapshot.
Snapshot_OfMarkOnly(p, kind) ==
  [st |-> "published", snap |-> IF kind = "mark" THEN content ELSE pub[p].snap]

\* mark_as_published and verify_live_matches; the panel verifies what is
\* published or out of sync only.
Snapshot(p, kind) == [st |-> IF kind = "mark" \/ pub[p].st = "out_of_sync" THEN "published" ELSE pub[p].st,
                      snap |-> content]

Answer(c, new) == pCalls' = (pCalls \ {c}) \cup {new}

\* A row that is gone is a 404; the metadata of a new one may be invalid.
HandlePub(c) ==
  /\ c.stage = "sent"
  /\ CASE c.kind = "list" ->
            /\ pub' = CheckDrift(pub)
            /\ Answer(c, [c EXCEPT !.stage = "ok", !.shown = StatusOf(pub'), !.at = saves])
       [] c.kind = "create" ->
            \/ \E p \in Pubs : /\ pub[p].st = "none" /\ seen[p] = None
                               /\ pub' = [pub EXCEPT ![p].st = "planned"]
                               /\ Answer(c, [c EXCEPT !.stage = "ok"])
            \/ UNCHANGED pub /\ Answer(c, [c EXCEPT !.stage = "invalid"])
       [] pub[c.pub].st = "none" -> UNCHANGED pub /\ Answer(c, [c EXCEPT !.stage = "failed"])
       [] c.kind = "delete" ->
            pub' = [pub EXCEPT ![c.pub] = NoPub] /\ Answer(c, [c EXCEPT !.stage = "ok"])
       [] OTHER ->
            pub' = [pub EXCEPT ![c.pub] = Snapshot(c.pub, c.kind)] /\ Answer(c, [c EXCEPT !.stage = "ok"])
  /\ UNCHANGED <<content, saves, text, panel, pSent, seen, raced>>

\* The request or its answer is lost.
LosePub(c) ==
  /\ c.stage \in {"sent", "ok"} /\ Answer(c, [c EXCEPT !.stage = "failed"])
  /\ pSent < MaxPubCalls /\ pSent' = pSent + 1
  /\ raced' = raced \cup ({c.pub} \ {None})
  /\ UNCHANGED <<content, saves, text, pub, panel, seen>>

-----------------------------------------------------------------------------
(* The document                                                            *)

Write(t) ==
  /\ text' = t /\ t # text
  /\ UNCHANGED <<content, saves, pub, panel, pCalls, pSent, seen, raced>>

\* What was asked for and not yet handled gets another document than the one
\* the user saw.
Save ==
  /\ text # content /\ saves < MaxSaves
  /\ content' = text /\ saves' = saves + 1
  /\ raced' = raced \cup {c.pub : c \in {k \in pCalls : k.kind \in {"mark", "verify"} /\ k.stage = "sent"}}
  /\ UNCHANGED <<text, pub, panel, pCalls, pSent, seen>>

-----------------------------------------------------------------------------
(* The panel                                                               *)

PubAsk(kind, p) == [id |-> pSent + 1, kind |-> kind, pub |-> p, stage |-> "sent", shown |-> Nothing, at |-> 0]
PubIssue(C, c) == pSent < MaxPubCalls /\ pSent' = pSent + 1 /\ pCalls' = C \cup {c}

\* The panel is mounted.
Refresh ==
  /\ pSent = 0 /\ PubIssue({}, PubAsk("list", None))
  /\ UNCHANGED <<content, saves, text, pub, panel, seen, raced>>

Refreshed(c) ==
  /\ c.kind = "list" /\ c.stage # "sent" /\ pCalls' = pCalls \ {c}
  /\ panel' = IF c.stage = "ok" THEN [panel EXCEPT !.shown = c.shown, !.at = c.at] ELSE panel
  /\ UNCHANGED <<content, saves, text, pub, pSent, seen, raced>>

CanMark(p)   == panel.shown[p] \notin {"none", "published", "out_of_sync"}
CanVerify(p) == panel.shown[p] \in {"published", "out_of_sync"}

\* The user marks or verifies what the document beside the panel shows.
Affirm(p, kind) ==
  /\ IF kind = "mark" THEN CanMark(p) ELSE CanVerify(p)
  /\ PubIssue(pCalls, PubAsk(kind, p))
  /\ seen' = [seen EXCEPT ![p] = text]
  /\ raced' = IF text # content \/ \E c \in pCalls : c.pub = p THEN raced \cup {p} ELSE raced \ {p}
  /\ UNCHANGED <<content, saves, text, pub, panel>>

DeletePub(p) ==
  /\ panel.shown[p] # "none" /\ PubIssue(pCalls, PubAsk("delete", p))
  /\ UNCHANGED <<content, saves, text, pub, panel, seen, raced>>

\* Done: the list is fetched again.  A failure leaves the panel as it is.
Changed(c) ==
  /\ c.kind \in {"mark", "verify", "delete"} /\ c.stage # "sent"
  /\ IF c.stage = "ok" THEN PubIssue(pCalls \ {c}, PubAsk("list", None))
     ELSE pCalls' = pCalls \ {c} /\ UNCHANGED pSent
  /\ UNCHANGED <<content, saves, text, pub, panel, seen, raced>>

AddDialog(open) ==
  /\ panel.adding # open
  /\ panel' = [panel EXCEPT !.adding = open, !.submitting = 0, !.errors = FALSE]
  /\ UNCHANGED <<content, saves, text, pub, pCalls, pSent, seen, raced>>

\* The dialog's button is off while its own request is under way.
CanSubmit == panel.adding /\ panel.submitting = 0

SubmitPub ==
  /\ CanSubmit
  /\ panel' = [panel EXCEPT !.submitting = pSent + 1, !.errors = FALSE]
  /\ PubIssue(pCalls, PubAsk("create", None))
  /\ UNCHANGED <<content, saves, text, pub, seen, raced>>

\* The dialog closes, also one that was opened meanwhile; errors are shown in
\* the one that sent the request.
Created(c) ==
  /\ c.kind = "create" /\ c.stage # "sent"
  /\ IF c.stage = "ok"
     THEN /\ PubIssue(pCalls \ {c}, PubAsk("list", None))
          /\ panel' = [panel EXCEPT !.adding = FALSE, !.submitting = 0, !.errors = FALSE]
     ELSE /\ pCalls' = pCalls \ {c} /\ UNCHANGED pSent
          /\ panel' = IF panel.submitting # c.id THEN panel
                      ELSE [panel EXCEPT !.submitting = 0, !.errors = c.stage = "invalid"]
  /\ UNCHANGED <<content, saves, text, pub, seen, raced>>

PubNext ==
  \/ Refresh \/ Save \/ SubmitPub
  \/ \E t \in Texts : Write(t)
  \/ \E p \in Pubs : DeletePub(p) \/ \E kind \in {"mark", "verify"} : Affirm(p, kind)
  \/ \E open \in BOOLEAN : AddDialog(open)
  \/ \E c \in pCalls : HandlePub(c) \/ LosePub(c) \/ Refreshed(c) \/ Changed(c) \/ Created(c)

PubSpec == PubInit /\ [][PubNext]_pubVars

-----------------------------------------------------------------------------

\* What the panel shows as published is what the article holds, as long as
\* the article was not saved again after the list was made.
PublishedIsCurrent ==
  panel.at = saves =>
    \A p \in Pubs : panel.shown[p] = "published" /\ pub[p].st # "none" => pub[p].snap = content

\* A publication's snapshot is the document the user saw when it was marked
\* or verified, unless that was not saved yet or was saved again before the
\* request was handled.
SnapshotIsWhatWasSeen ==
  \A p \in Pubs :
    /\ pub[p].st \in {"published", "out_of_sync"} /\ p \notin raced
    /\ ~\E c \in pCalls : c.pub = p /\ c.stage = "sent"
    => pub[p].snap = seen[p]
=============================================================================
