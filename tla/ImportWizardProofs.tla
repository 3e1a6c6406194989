-------------------------- MODULE ImportWizardProofs --------------------------
(***************************************************************************)
(* Theorems about ImportWizard, for any sets of wizards, sources and       *)
(* books, any number of requests, and any mishaps.                         *)
(***************************************************************************)
EXTENDS ImportWizard, FiniteSetTheorems, TLAPS

Refs == 1..MaxCalls \cup {None}

Wizard == [st : States, open : BOOLEAN, input : Sources \cup {None}, heard : Refs, ref : Refs,
           detected : Sources \cup {None}, dup : Books \cup {None}, replace : BOOLEAN,
           agreed : Books \cup {None}, got : Refs]

\* A request: it is about a source, only imports are committed, and what it
\* overwrites is what was confirmed, unless the choice came over a retry; a
\* detection that is waited for is of the input chosen.
CallOK(k) ==
  /\ k \in Call /\ k.id \in 1..sent /\ k.ref \in 1..MaxCalls /\ k.src \in Sources
  /\ k.kind = "detect" => k.stage # "committed" /\ ~k.replace
  /\ "retry" \notin odd /\ k.replace => k.dup = k.agreed
  /\ k.kind = "detect" /\ k.wiz # None /\ wizard[k.wiz].heard = k.id => k.src = wizard[k.wiz].input

\* A machine: the upload step has forgotten the last import, only a detection
\* is waited for, what is shown was detected and is what was chosen, and a
\* choice to overwrite is for the book shown.
MachineOK(z) ==
  /\ z.st = "upload" => ~z.replace
  /\ z.heard # None => z.st = "detecting" /\ z.heard <= sent
  /\ z.st # "upload" => z.input # None
  /\ z.st \in {"summary", "preview", "executing", "success"} => z.ref # None /\ z.detected # None
  /\ z.st \in {"summary", "preview", "executing"} => z.detected = z.input
  /\ "retry" \notin odd /\ z.replace =>
       z.agreed = z.dup /\ z.st \in {"preview", "executing", "error", "success"}

\* The database and the staged files.
StoreOK ==
  /\ book \in [Books -> {"none", "live", "trashed"}]
  /\ origin \subseteq [book : {b \in Books : book[b] # "none"}, src : Sources]
  /\ files \in [1..MaxCalls -> Sources \cup {None}]

\* The types, with what they need to know of the requests and machines.
Typed ==
  /\ StoreOK
  /\ sent \in 0..MaxCalls
  /\ wizard \in [Wizards -> Wizard]
  /\ \A k \in calls : CallOK(k)
  /\ \A k, n \in calls : k.id = n.id => k = n
  /\ \A w \in Wizards : MachineOK(wizard[w])

-----------------------------------------------------------------------------
(* What the actions do to requests and machines                            *)

\* A request that has gone on is still the same one.
SameCall(k, n) ==
  /\ n.id = k.id /\ n.kind = k.kind /\ n.wiz = k.wiz /\ n.src = k.src /\ n.ref = k.ref
  /\ n.replace = k.replace /\ n.agreed = k.agreed

\* The wizard w becomes y and sends k.
Asks(w, y, k) ==
  /\ y \in Wizard /\ k \in Call
  /\ wizard' = [wizard EXCEPT ![w] = y] /\ calls' = calls \cup {k}
  /\ sent' = sent + 1 /\ sent < MaxCalls
  /\ k.id = sent + 1 /\ k.wiz = w /\ k.ref \in 1..MaxCalls /\ k.stage = "sent" /\ k.made = None
  /\ odd \subseteq odd' /\ odd' \subseteq odd \cup {"again", "retry"}
  /\ UNCHANGED <<dbVars, files, mishaps>>

LEMMA PlainCall ==
  ASSUME NEW w \in Wizards, NEW kind \in {"detect", "execute"}, sent \in Nat
  PROVE  \E p \in Call : /\ p = Plain(w, kind) /\ p.id = sent + 1 /\ p.wiz = w /\ p.kind = kind
                         /\ p.ref = sent + 1 /\ p.stage = "sent" /\ p.dup = None /\ ~p.replace
                         /\ p.agreed = None /\ p.made = None
<1>1. PICK p : p = Plain(w, kind)
  OBVIOUS
<1>2. p = [id |-> sent + 1, wiz |-> w, kind |-> kind, src |-> None, ref |-> sent + 1,
           stage |-> "sent", dup |-> None, replace |-> FALSE, agreed |-> None, made |-> None]
  BY <1>1 DEF Plain
<1>3. p \in Call
  BY <1>2 DEF Call
<1>. QED  BY <1>1, <1>2, <1>3

LEMMA BlankWizard ==
  /\ Blank \in Wizard /\ Blank.st = "upload" /\ ~Blank.open /\ ~Blank.replace /\ Blank.heard = None
  /\ MachineOK(Blank)
<1>1. /\ Blank \in Wizard /\ Blank.st = "upload" /\ ~Blank.open /\ ~Blank.replace
      /\ Blank.heard = None
  BY DEF Blank, Wizard, States, Refs
<1>. QED  BY <1>1 DEF MachineOK

LEMMA BackWizard ==
  ASSUME NEW z \in Wizard
  PROVE  \E y \in Wizard : /\ y = Back(z) /\ y.st = "upload" /\ y.open = z.open /\ ~y.replace
                           /\ y.heard = None /\ MachineOK(y)
<1>1. PICK b \in Wizard : b = Blank /\ b.st = "upload" /\ ~b.replace /\ b.heard = None
  BY BlankWizard
<1>2. PICK y : y = [b EXCEPT !.open = z.open]
  OBVIOUS
<1>3. y \in Wizard /\ y.st = "upload" /\ y.open = z.open /\ ~y.replace /\ y.heard = None
  BY <1>1, <1>2 DEF Wizard
<1>. QED  BY <1>1, <1>2, <1>3 DEF Back, MachineOK

\* A detection is sent, for the input that is chosen.
DetectAsk(w, y, k) ==
  /\ Asks(w, y, k)
  /\ k.kind = "detect" /\ k.src = y.input /\ y.input \in Sources /\ ~k.replace
  /\ y.st = "detecting" /\ y.open /\ y.heard = sent + 1
  /\ "retry" \notin odd' => ~y.replace
  /\ wizard[w].st \in {"upload", "detecting", "error"}
  /\ odd' \subseteq odd \cup {"retry"}

LEMMA DetectSends ==
  ASSUME Typed, NEW w \in Wizards, NEW z \in Wizard, z.input \in Sources, z.open, Detects(w, z),
         UNCHANGED <<dbVars, files, mishaps>>, odd \subseteq odd', odd' \subseteq odd \cup {"retry"},
         "retry" \notin odd' => ~z.replace,
         wizard[w].st \in {"upload", "detecting", "error"}
  PROVE  \E y, k : DetectAsk(w, y, k)
<1>1. sent \in Nat /\ sent < MaxCalls /\ sent + 1 \in Refs /\ sent + 1 \in 1..MaxCalls
  BY ImportAssumption DEF Typed, Detects, Send, Refs
<1>2. PICK p \in Call : /\ p = Plain(w, "detect") /\ p.id = sent + 1 /\ p.wiz = w /\ p.kind = "detect"
                        /\ p.ref = sent + 1 /\ p.stage = "sent" /\ ~p.replace /\ p.made = None
  BY <1>1, PlainCall
<1>3. PICK k : k = [p EXCEPT !.src = z.input]
  OBVIOUS
<1>4. /\ k \in Call /\ k.id = sent + 1 /\ k.wiz = w /\ k.kind = "detect" /\ k.stage = "sent"
      /\ ~k.replace /\ k.made = None /\ k.src = z.input /\ k.ref = sent + 1
  BY <1>2, <1>3 DEF Call
<1>5. PICK y : y = [z EXCEPT !.st = "detecting", !.heard = sent + 1]
  OBVIOUS
<1>6. /\ y \in Wizard /\ y.st = "detecting" /\ y.heard = sent + 1 /\ y.input = z.input
      /\ y.open = z.open /\ y.replace = z.replace
  BY <1>1, <1>5 DEF Wizard, States
<1>7. wizard' = [wizard EXCEPT ![w] = y] /\ calls' = calls \cup {k} /\ sent' = sent + 1
  BY <1>2, <1>3, <1>5 DEF Detects, Sets, Send
<1>8. Asks(w, y, k)
  BY <1>1, <1>4, <1>6, <1>7 DEF Asks
<1>. QED  BY <1>4, <1>6, <1>8 DEF DetectAsk

\* The upload is chosen, the page renders anew, a retry, a reopened dialog.
LEMMA DetectSteps ==
  ASSUME Typed, NEW w \in Wizards,
         \/ \E s \in Sources : Select(w, s)
         \/ Rerender(w) \/ Retry(w)
         \/ Open(w) /\ wizard[w].st = "detecting"
  PROVE  \E y, k : DetectAsk(w, y, k)
<1>1. wizard[w] \in Wizard /\ MachineOK(wizard[w])
  BY DEF Typed
<1>2. ASSUME NEW s \in Sources, Select(w, s)
      PROVE  \E y, k : DetectAsk(w, y, k)
  <2>1. PICK z : z = Chosen(wizard[w], s)
    OBVIOUS
  <2>2. /\ z \in Wizard /\ z.input = s /\ z.st = wizard[w].st /\ z.open = wizard[w].open
        /\ z.replace = wizard[w].replace
    BY <1>1, <2>1 DEF Chosen, Wizard
  <2>3. wizard[w].open /\ wizard[w].st = "upload" /\ Detects(w, z) /\ odd' = odd /\ UNCHANGED <<dbVars, files, mishaps>>
    BY <1>2, <2>1 DEF Select, UploadShown, On
  <2>. QED  BY <1>1, <2>2, <2>3, DetectSends DEF MachineOK
<1>3. CASE Rerender(w)
  <2>1. /\ wizard[w].open /\ wizard[w].st = "detecting" /\ Detects(w, wizard[w]) /\ odd' = odd
        /\ UNCHANGED <<dbVars, files, mishaps>>
    BY <1>3 DEF Rerender, On
  <2>2. wizard[w].input \in Sources /\ ("retry" \notin odd' => ~wizard[w].replace)
    BY <1>1, <2>1 DEF MachineOK, Wizard
  <2>. QED  BY <1>1, <2>1, <2>2, DetectSends
<1>4. CASE Retry(w)
  <2>1. /\ wizard[w].open /\ wizard[w].st = "error" /\ Detects(w, wizard[w])
        /\ odd' = odd \cup (IF wizard[w].replace THEN {"retry"} ELSE {})
        /\ UNCHANGED <<dbVars, files, mishaps>>
    BY <1>4 DEF Retry, ErrorShown, On
  <2>2. wizard[w].input \in Sources
    BY <1>1, <2>1 DEF MachineOK, Wizard
  <2>3. odd \subseteq odd' /\ odd' \subseteq odd \cup {"retry"} /\ ("retry" \notin odd' => ~wizard[w].replace)
    BY <2>1
  <2>. QED  BY <1>1, <2>1, <2>2, <2>3, DetectSends
<1>5. CASE Open(w) /\ wizard[w].st = "detecting"
  <2>1. PICK z : z = [wizard[w] EXCEPT !.open = TRUE]
    OBVIOUS
  <2>2. /\ z \in Wizard /\ z.open /\ z.input = wizard[w].input /\ z.replace = wizard[w].replace
    BY <1>1, <2>1 DEF Wizard
  <2>3. Detects(w, z) /\ odd' = odd /\ UNCHANGED <<dbVars, files, mishaps>>
    BY <1>5, <2>1 DEF Open
  <2>4. z.input \in Sources /\ ("retry" \notin odd' => ~z.replace)
    BY <1>1, <1>5, <2>2, <2>3 DEF MachineOK, Wizard
  <2>. QED  BY <1>5, <2>2, <2>3, <2>4, DetectSends
<1>. QED  BY <1>2, <1>3, <1>4, <1>5

\* An import is sent, as the wizard shows it.
ImportAsk(w, y, k) ==
  /\ Asks(w, y, k)
  /\ k.kind = "execute" /\ k.src = y.detected /\ k.src \in Sources /\ k.ref = y.ref
  /\ k.replace = y.replace /\ k.dup = y.dup /\ k.agreed = y.agreed
  /\ y.st = "executing" /\ y.heard = None /\ y.ref # None
  /\ y.input = wizard[w].input /\ y.detected = wizard[w].detected /\ y.ref = wizard[w].ref
  /\ y.dup = wizard[w].dup /\ y.agreed = wizard[w].agreed /\ y.replace = wizard[w].replace
  /\ wizard[w].st \in {"preview", "executing"}
  /\ IF wizard[w].st = "executing" THEN odd' = odd \cup {"again"} ELSE odd' = odd

LEMMA ImportSteps ==
  ASSUME Typed, NEW w \in Wizards, Import(w) \/ (Open(w) /\ wizard[w].st = "executing")
  PROVE  \E y, k : ImportAsk(w, y, k)
<1>1. /\ Executes(w) /\ UNCHANGED <<dbVars, files, mishaps>>
      /\ wizard[w].st \in {"preview", "executing"}
      /\ IF wizard[w].st = "executing" THEN odd' = odd \cup {"again"} ELSE odd' = odd
  BY DEF Import, Open, On
<1>2. PICK z \in Wizard : z = wizard[w] /\ MachineOK(z)
  BY DEF Typed
<1>3. /\ z.detected \in Sources /\ z.ref \in 1..MaxCalls /\ z.ref \in Nat /\ z.ref # None /\ z.dup \in Books \cup {None}
      /\ z.agreed \in Books \cup {None} /\ z.replace \in BOOLEAN /\ z.heard = None
  BY <1>1, <1>2 DEF MachineOK, Wizard, Refs
<1>4. sent \in Nat /\ sent < MaxCalls
  BY <1>1, ImportAssumption DEF Typed, Executes, Send
<1>5. PICK p \in Call : /\ p = Plain(w, "execute") /\ p.id = sent + 1 /\ p.wiz = w /\ p.kind = "execute"
                        /\ p.stage = "sent" /\ p.made = None
  BY <1>4, PlainCall
<1>6. PICK k : k = [p EXCEPT !.src = z.detected, !.ref = z.ref, !.dup = z.dup,
                             !.replace = z.replace, !.agreed = z.agreed]
  OBVIOUS
<1>7. /\ k \in Call /\ k.id = sent + 1 /\ k.wiz = w /\ k.kind = "execute" /\ k.stage = "sent"
      /\ k.made = None /\ k.src = z.detected /\ k.ref = z.ref /\ k.dup = z.dup
      /\ k.replace = z.replace /\ k.agreed = z.agreed
  BY <1>3, <1>5, <1>6 DEF Call
<1>8. PICK y : y = [z EXCEPT !.st = "executing", !.open = TRUE]
  OBVIOUS
<1>9. /\ y \in Wizard /\ y.st = "executing" /\ y.heard = z.heard /\ y.ref = z.ref
      /\ y.input = z.input /\ y.detected = z.detected /\ y.dup = z.dup
      /\ y.agreed = z.agreed /\ y.replace = z.replace
  BY <1>8 DEF Wizard, States
<1>10. wizard' = [wizard EXCEPT ![w] = y] /\ calls' = calls \cup {k} /\ sent' = sent + 1
  BY <1>1, <1>2, <1>5, <1>6, <1>8 DEF Executes, Sets, Send
<1>11. odd \subseteq odd' /\ odd' \subseteq odd \cup {"again", "retry"}
  BY <1>1
<1>12. Asks(w, y, k)
  BY <1>1, <1>3, <1>4, <1>7, <1>9, <1>10, <1>11 DEF Asks
<1>. QED  BY <1>1, <1>2, <1>3, <1>7, <1>9, <1>12 DEF ImportAsk

\* What the server does with a request: it looks for a duplicate, writes, fails
\* (after writing, because the book is gone by then), or records.
Found(k, n) ==
  /\ k.kind = "detect" /\ k.stage = "sent" /\ n.stage \in {"ok", "refused"}
  /\ n.stage = "ok" /\ n.dup = None => Duplicates(k.src) = {}
  /\ odd' = odd \cup (IF Overlaps(k) THEN {"overlap"} ELSE {})
  /\ UNCHANGED dbVars

Written(k, n) ==
  /\ k.kind = "execute" /\ k.stage = "sent" /\ n.stage = "committed"
  /\ Writes(k, n.made) /\ odd' = odd
  /\ IF k.src \in Texts THEN n.made \in Unused ELSE n.made \in {Carries[k.src], None}

Failed(k, n) ==
  /\ k.kind = "execute" /\ n.stage = "refused"
  /\ k.stage = "committed" => k.made # None /\ book[k.made] = "none"
  /\ UNCHANGED <<dbVars, odd>>

Rowed(k, n) ==
  /\ k.stage = "committed" /\ n.stage = "ok" /\ origin' \in Recorded(k)
  /\ UNCHANGED <<book, copyOf, odd>>

\* The server takes a request one step further.
ServeEffect(k, n) ==
  /\ n \in Call /\ SameCall(k, n) /\ Becomes(k, n)
  /\ k.kind = "execute" => n.dup = k.dup
  /\ k.stage \in {"sent", "committed"}
  /\ n.stage = "committed" => k.kind = "execute"
  /\ odd \subseteq odd' /\ odd' \subseteq odd \cup {"overlap"}
  /\ UNCHANGED <<wizard, sent, mishaps>>
  /\ Found(k, n) \/ Written(k, n) \/ Failed(k, n) \/ Rowed(k, n)

LEMMA CallStage ==
  ASSUME NEW k \in Call, NEW stage \in {"sent", "committed", "ok", "refused"}, NEW n,
         n = [k EXCEPT !.stage = stage]
  PROVE  n \in Call /\ SameCall(k, n) /\ n.dup = k.dup /\ n.made = k.made /\ n.stage = stage
BY DEF Call, SameCall

LEMMA ServeSteps ==
  ASSUME Typed, NEW k \in calls, Serve(k)
  PROVE  \E n : ServeEffect(k, n)
<1>1. k \in Call /\ UNCHANGED <<wizard, sent, mishaps>> /\ CallOK(k)
  BY DEF Serve, Typed, CallOK
<1>2. CASE DetectImport(k)
  <2>1. /\ odd' = odd \cup (IF Overlaps(k) THEN {"overlap"} ELSE {}) /\ UNCHANGED dbVars
        /\ k.kind = "detect" /\ k.stage = "sent"
        /\ odd \subseteq odd' /\ odd' \subseteq odd \cup {"overlap"}
    BY <1>2 DEF DetectImport
  <2>2. \/ Refuse(k)
        \/ \E d \in IF Duplicates(k.src) = {} THEN {None} ELSE Duplicates(k.src) :
             Becomes(k, [k EXCEPT !.stage = "ok", !.dup = d])
    BY <1>2 DEF DetectImport
  <2>3. CASE Refuse(k)
    <3>1. PICK n : n = [k EXCEPT !.stage = "refused"]
      OBVIOUS
    <3>2. n \in Call /\ SameCall(k, n) /\ n.stage = "refused"
      BY <1>1, <3>1, CallStage
    <3>3. Becomes(k, n)
      BY <2>3, <3>1 DEF Refuse
    <3>4. Found(k, n)
      BY <2>1, <3>2 DEF Found
    <3>. QED  BY <1>1, <2>1, <3>2, <3>3, <3>4 DEF ServeEffect
  <2>4. ASSUME NEW d \in IF Duplicates(k.src) = {} THEN {None} ELSE Duplicates(k.src),
               Becomes(k, [k EXCEPT !.stage = "ok", !.dup = d])
        PROVE  \E n : ServeEffect(k, n)
    <3>1. Duplicates(k.src) \subseteq Books
      BY DEF Duplicates, Typed, StoreOK
    <3>2. d \in Books \cup {None} /\ (d = None => Duplicates(k.src) = {})
      BY <3>1, ImportAssumption
    <3>3. PICK n : n = [k EXCEPT !.stage = "ok", !.dup = d]
      OBVIOUS
    <3>4. n \in Call /\ SameCall(k, n) /\ n.stage = "ok" /\ n.dup = d
      BY <1>1, <3>2, <3>3 DEF Call, SameCall
    <3>5. Found(k, n)
      BY <2>1, <3>2, <3>4 DEF Found
    <3>. QED  BY <1>1, <2>1, <2>4, <3>3, <3>4, <3>5 DEF ServeEffect
  <2>. QED  BY <2>2, <2>3, <2>4
<1>3. CASE Execute(k)
  <2>1. k.kind = "execute" /\ k.stage = "sent" /\ odd' = odd
    BY <1>3 DEF Execute
  <2>2. PICK made \in Books \cup {None} :
          /\ Writes(k, made)
          /\ IF k.src \in Texts THEN made \in Unused ELSE made \in {Carries[k.src], None}
    <3>1. Carries[k.src] \in Books \cup {None}
      BY <1>1, ImportAssumption DEF CallOK
    <3>2. Unused # {} => (CHOOSE n \in Unused : TRUE) \in Unused
      OBVIOUS
    <3>3. Unused \subseteq Books
      BY DEF Unused
    <3>4. CASE k.src \in Texts
      BY <1>3, <3>2, <3>3, <3>4, ImportAssumption DEF Execute, Texts
    <3>5. CASE k.src \notin Texts
      BY <1>3, <3>1, <3>5 DEF Execute
    <3>. QED  BY <3>4, <3>5
  <2>3. PICK n : n = [k EXCEPT !.stage = "committed", !.made = made]
    OBVIOUS
  <2>4. n \in Call /\ SameCall(k, n) /\ n.dup = k.dup /\ n.stage = "committed" /\ n.made = made
    BY <1>1, <2>3 DEF Call, SameCall
  <2>5. Becomes(k, n)
    BY <2>2, <2>3 DEF Writes
  <2>6. Written(k, n)
    BY <2>1, <2>2, <2>4 DEF Written
  <2>. QED  BY <1>1, <2>1, <2>4, <2>5, <2>6 DEF ServeEffect
<1>4. ASSUME k.kind = "execute", Refuse(k), UNCHANGED <<dbVars, odd>>, k.stage \in {"sent", "committed"},
             k.stage = "committed" => k.made # None /\ book[k.made] = "none"
      PROVE  \E n : ServeEffect(k, n)
  <2>1. PICK n : n = [k EXCEPT !.stage = "refused"]
    OBVIOUS
  <2>2. n \in Call /\ SameCall(k, n) /\ n.dup = k.dup /\ n.stage = "refused"
    BY <1>1, <2>1, CallStage
  <2>3. Becomes(k, n)
    BY <1>4, <2>1 DEF Refuse
  <2>4. Failed(k, n)
    BY <1>4, <2>2 DEF Failed
  <2>. QED  BY <1>1, <1>4, <2>2, <2>3, <2>4 DEF ServeEffect
<1>5. CASE ExecuteFails(k)
  BY <1>4, <1>5 DEF ExecuteFails
<1>6. CASE Record(k)
  <2>1. k.stage = "committed" /\ UNCHANGED <<book, copyOf, odd>> /\ k.kind = "execute"
    BY <1>1, <1>6 DEF Record, CallOK, Call
  <2>2. CASE ~(k.made = None \/ book[k.made] # "none")
    BY <1>4, <1>6, <2>1, <2>2 DEF Record, dbVars
  <2>3. CASE k.made = None \/ book[k.made] # "none"
    <3>1. PICK n : n = [k EXCEPT !.stage = "ok"]
      OBVIOUS
    <3>2. n \in Call /\ SameCall(k, n) /\ n.dup = k.dup /\ n.stage = "ok"
      BY <1>1, <3>1, CallStage
    <3>3. Becomes(k, n) /\ origin' \in Recorded(k)
      BY <1>6, <2>3, <3>1 DEF Record
    <3>4. Rowed(k, n)
      BY <2>1, <3>2, <3>3 DEF Rowed
    <3>. QED  BY <1>1, <2>1, <3>2, <3>3, <3>4 DEF ServeEffect
  <2>. QED  BY <2>2, <2>3
<1>. QED  BY <1>2, <1>3, <1>5, <1>6 DEF Serve

\* A step of the wizard w alone.
Quiet(w, y) ==
  /\ y \in Wizard /\ wizard' = [wizard EXCEPT ![w] = y]
  /\ UNCHANGED <<dbVars, files, calls, sent, mishaps, odd>>
  /\ MachineOK(y)
  /\ y.heard # None => y.heard = wizard[w].heard /\ y.input = wizard[w].input
  /\ y.st = "detecting" => /\ wizard[w].st = "detecting"
                           /\ y.open => wizard[w].open /\ y.heard = wizard[w].heard
  /\ y.st = "executing" <=> wizard[w].st = "executing"
  /\ y.st \in {"executing", "success"} => y.st = wizard[w].st /\ y.ref = wizard[w].ref /\ y.got = wizard[w].got
  /\ y.st \in {"summary", "preview"} =>
       /\ wizard[w].st \in {"summary", "preview"}
       /\ y.detected = wizard[w].detected /\ y.dup = wizard[w].dup

LEMMA QuietSteps ==
  ASSUME Typed, NEW w \in Wizards,
         \/ \E replace \in BOOLEAN : ChooseAction(w, replace)
         \/ Cancel(w) \/ Advance(w) \/ Close(w) \/ Another(w)
         \/ Open(w) /\ wizard[w].st \notin {"detecting", "executing"}
  PROVE  \E y : Quiet(w, y)
<1>1. PICK z \in Wizard : z = wizard[w] /\ MachineOK(z)
  BY DEF Typed
<1>2. CASE Cancel(w) \/ Another(w)
  <2>1. /\ wizard' = [wizard EXCEPT ![w] = Back(z)] /\ z.st # "executing"
        /\ UNCHANGED <<dbVars, files, calls, sent, mishaps, odd>>
    BY <1>1, <1>2 DEF Cancel, Another, Sets, SuccessShown, On
  <2>2. PICK y \in Wizard : y = Back(z) /\ y.st = "upload" /\ y.heard = None /\ MachineOK(y)
    BY BackWizard
  <2>. QED  BY <1>1, <2>1, <2>2 DEF Quiet
<1>3. CASE Advance(w)
  <2>1. PICK y : y = [z EXCEPT !.st = "preview"]
    OBVIOUS
  <2>2. /\ y \in Wizard /\ y.st = "preview" /\ y.heard = z.heard /\ y.input = z.input /\ y.ref = z.ref
        /\ y.detected = z.detected /\ y.dup = z.dup /\ y.replace = z.replace /\ y.agreed = z.agreed
    BY <2>1 DEF Wizard, States
  <2>3. /\ wizard' = [wizard EXCEPT ![w] = y] /\ z.st = "summary"
        /\ UNCHANGED <<dbVars, files, calls, sent, mishaps, odd>>
    BY <1>1, <1>3, <2>1 DEF Advance, Sets, On
  <2>4. MachineOK(y) /\ y.heard = None
    BY <1>1, <2>2, <2>3 DEF MachineOK
  <2>. QED  BY <1>1, <2>2, <2>3, <2>4 DEF Quiet
<1>4. ASSUME NEW replace \in BOOLEAN, ChooseAction(w, replace)
      PROVE  \E y : Quiet(w, y)
  <2>1. PICK a : a = IF replace THEN z.dup ELSE None
    OBVIOUS
  <2>2. PICK y : y = [z EXCEPT !.replace = replace, !.agreed = a]
    OBVIOUS
  <2>3. a \in Books \cup {None}
    BY <2>1 DEF Wizard
  <2>4. /\ y \in Wizard /\ y.st = z.st /\ y.heard = z.heard /\ y.input = z.input /\ y.ref = z.ref
        /\ y.detected = z.detected /\ y.dup = z.dup /\ y.replace = replace /\ y.agreed = a
    BY <2>2, <2>3 DEF Wizard
  <2>5. /\ wizard' = [wizard EXCEPT ![w] = y] /\ z.st = "preview"
        /\ UNCHANGED <<dbVars, files, calls, sent, mishaps, odd>>
    BY <1>1, <1>4, <2>1, <2>2 DEF ChooseAction, Sets, On
  <2>6. MachineOK(y) /\ y.heard = None
    BY <1>1, <2>1, <2>4, <2>5 DEF MachineOK
  <2>. QED  BY <1>1, <2>4, <2>5, <2>6 DEF Quiet
<1>5. CASE Close(w) /\ z.st \in {"success", "error"}
  <2>1. /\ wizard' = [wizard EXCEPT ![w] = Blank]
        /\ UNCHANGED <<dbVars, files, calls, sent, mishaps, odd>>
    BY <1>1, <1>5 DEF Close, Sets
  <2>. QED  BY <1>1, <1>5, <2>1, BlankWizard DEF Quiet
<1>6. CASE Close(w) /\ z.st \notin {"success", "error"}
  <2>1. PICK y : y = [z EXCEPT !.open = FALSE, !.heard = None]
    OBVIOUS
  <2>2. /\ y \in Wizard /\ y.st = z.st /\ y.heard = None /\ ~y.open /\ y.input = z.input /\ y.ref = z.ref
        /\ y.detected = z.detected /\ y.dup = z.dup /\ y.replace = z.replace /\ y.agreed = z.agreed
        /\ y.got = z.got
    BY <2>1 DEF Wizard, Refs
  <2>3. /\ wizard' = [wizard EXCEPT ![w] = y]
        /\ UNCHANGED <<dbVars, files, calls, sent, mishaps, odd>>
    BY <1>1, <1>6, <2>1 DEF Close, Sets
  <2>4. MachineOK(y)
    BY <1>1, <2>2 DEF MachineOK
  <2>. QED  BY <1>1, <2>2, <2>3, <2>4 DEF Quiet
<1>7. CASE Open(w) /\ wizard[w].st \notin {"detecting", "executing"}
  <2>1. PICK y : y = [z EXCEPT !.open = TRUE]
    OBVIOUS
  <2>2. /\ y \in Wizard /\ y.st = z.st /\ y.heard = z.heard /\ y.input = z.input /\ y.ref = z.ref
        /\ y.detected = z.detected /\ y.dup = z.dup /\ y.replace = z.replace /\ y.agreed = z.agreed
        /\ y.got = z.got
    BY <2>1 DEF Wizard
  <2>3. /\ wizard' = [wizard EXCEPT ![w] = y]
        /\ UNCHANGED <<dbVars, files, calls, sent, mishaps, odd>>
    BY <1>1, <1>7, <2>1 DEF Open, Sets
  <2>4. MachineOK(y)
    BY <1>1, <2>2 DEF MachineOK
  <2>. QED  BY <1>1, <1>7, <2>2, <2>3, <2>4 DEF Quiet
<1>. QED  BY <1>1, <1>2, <1>3, <1>4, <1>5, <1>6, <1>7

\* An answer is heard: the wizard shows what was found, the success, or the
\* error.
Answer(w, y, k) ==
  /\ y \in Wizard /\ wizard' = [wizard EXCEPT ![w] = y]
  /\ k.wiz = w /\ w \in Wizards /\ Heard(k)
  /\ MachineOK(y) /\ y.heard = None /\ y.st \in {"summary", "success", "error"}
  /\ y.st = "summary" => k.kind = "detect" /\ k.stage = "ok" /\ y.detected = k.src /\ y.dup = k.dup
  /\ y.st = "success" => k.kind = "execute" /\ y.got = k.ref /\ y.ref = wizard[w].ref

LEMMA AnswerFails ==
  ASSUME Typed, NEW k \in calls, Heard(k), Fails(k)
  PROVE  \E y : Answer(k.wiz, y, k)
<1>1. k \in Call /\ k.wiz \in Wizards
  BY DEF Heard, Typed, CallOK, Call
<1>2. PICK w \in Wizards, z \in Wizard : w = k.wiz /\ z = wizard[w] /\ MachineOK(z)
  BY <1>1 DEF Typed
<1>3. z.st \in {"detecting", "executing"}
  BY <1>1, <1>2, ImportAssumption DEF Heard, MachineOK, Call
<1>4. PICK y : y = [z EXCEPT !.st = "error", !.heard = None]
  OBVIOUS
<1>5. /\ y \in Wizard /\ y.st = "error" /\ y.heard = None /\ y.input = z.input
      /\ y.replace = z.replace /\ y.dup = z.dup /\ y.agreed = z.agreed
  BY <1>4 DEF Wizard, States, Refs
<1>6. MachineOK(y)
  BY <1>2, <1>3, <1>5 DEF MachineOK
<1>7. wizard' = [wizard EXCEPT ![w] = y]
  BY <1>2, <1>4 DEF Fails, Sets
<1>. QED  BY <1>2, <1>5, <1>6, <1>7 DEF Answer

LEMMA AnswerSucceeds ==
  ASSUME Typed, NEW k \in calls, Heard(k), k.stage = "ok", Succeeds(k)
  PROVE  \E y : Answer(k.wiz, y, k)
<1>1. /\ k \in Call /\ k.wiz \in Wizards /\ k.src \in Sources /\ k.dup \in Books \cup {None}
      /\ k.id \in 1..sent /\ sent \in 0..MaxCalls
  BY DEF Heard, Typed, CallOK, Call
<1>2. PICK w \in Wizards, z \in Wizard : w = k.wiz /\ z = wizard[w] /\ MachineOK(z)
  BY <1>1 DEF Typed
<1>3. k.id \in Refs /\ k.id # None
  BY <1>1, ImportAssumption DEF Refs
<1>4. CASE k.kind = "detect"
  <2>1. z.heard = k.id /\ z.st = "detecting" /\ k.src = z.input
    BY <1>2, <1>3, <1>4, ImportAssumption DEF Heard, MachineOK, Typed, CallOK
  <2>2. PICK y : y = [z EXCEPT !.st = "summary", !.heard = None, !.ref = k.id, !.detected = k.src,
                               !.dup = k.dup]
    OBVIOUS
  <2>3. /\ y \in Wizard /\ y.st = "summary" /\ y.heard = None /\ y.ref = k.id /\ y.detected = k.src
        /\ y.dup = k.dup /\ y.input = z.input /\ y.replace = z.replace
    BY <1>1, <1>3, <2>2 DEF Wizard, States, Refs
  <2>4. MachineOK(y)
    BY <1>1, <1>2, <1>3, <2>1, <2>3 DEF MachineOK
  <2>5. wizard' = [wizard EXCEPT ![w] = y]
    BY <1>2, <1>4, <2>2 DEF Succeeds, Sets
  <2>. QED  BY <1>2, <1>4, <2>3, <2>4, <2>5 DEF Answer
<1>5. CASE k.kind = "execute"
  <2>1. z.st = "executing"
    BY <1>2, <1>5 DEF Heard
  <2>2. PICK y : y = [z EXCEPT !.st = "success", !.got = k.ref]
    OBVIOUS
  <2>3. k.ref \in Refs
    BY <1>1 DEF Typed, CallOK, Refs
  <2>4. /\ y \in Wizard /\ y.st = "success" /\ y.heard = z.heard /\ y.ref = z.ref /\ y.detected = z.detected
        /\ y.dup = z.dup /\ y.input = z.input /\ y.replace = z.replace /\ y.agreed = z.agreed
        /\ y.got = k.ref
    BY <2>2, <2>3 DEF Wizard, States
  <2>5. MachineOK(y) /\ y.heard = None
    BY <1>2, <2>1, <2>4 DEF MachineOK
  <2>6. wizard' = [wizard EXCEPT ![w] = y]
    BY <1>2, <1>5, <2>2 DEF Succeeds, Sets
  <2>. QED  BY <1>2, <1>5, <2>4, <2>5, <2>6 DEF Answer
<1>. QED  BY <1>1, <1>4, <1>5 DEF Call

\* What Receive and BreakOff do to the wizard that hears them.
LEMMA AnswerSteps ==
  ASSUME Typed, NEW k \in calls, Receive(k) \/ BreakOff(k)
  PROVE  \/ ~Heard(k) /\ wizard' = wizard /\ Receive(k)
         \/ \E y : Answer(k.wiz, y, k)
<1>1. CASE Receive(k) /\ ~Heard(k)
  BY <1>1 DEF Receive
<1>2. CASE Receive(k) /\ Heard(k)
  BY <1>2, AnswerFails, AnswerSucceeds DEF Receive
<1>3. CASE BreakOff(k)
  BY <1>3, AnswerFails DEF BreakOff
<1>. QED  BY <1>1, <1>2, <1>3

-----------------------------------------------------------------------------
(* Types                                                                   *)

\* What a step must respect for the requests and machines it leaves alone.
Forward ==
  /\ sent' \in 0..MaxCalls /\ sent <= sent' /\ odd \subseteq odd'
  /\ \A u \in Wizards :
       \/ wizard'[u].heard \in {None, sent + 1}
       \/ wizard'[u].heard = wizard[u].heard /\ wizard'[u].input = wizard[u].input

\* The same request, gone on, or nobody's any more.
GoesOn(k, n) ==
  /\ n \in Call /\ n.id = k.id /\ n.kind = k.kind /\ n.src = k.src /\ n.ref = k.ref
  /\ n.replace = k.replace /\ n.agreed = k.agreed
  /\ k.kind = "execute" => n.dup = k.dup
  /\ n.wiz \in {k.wiz, None}
  /\ n.stage = "committed" => k.kind = "execute"

LEMMA CallKept ==
  ASSUME Typed, Forward, NEW k \in calls, NEW n, GoesOn(k, n)
  PROVE  CallOK(n)'
<1>1. CallOK(k) /\ sent \in 0..MaxCalls /\ MaxCalls \in Nat
  BY ImportAssumption DEF Typed
<1>2. n \in Call /\ n.id \in 1..sent' /\ n.ref \in 1..MaxCalls /\ n.src \in Sources
  BY <1>1 DEF CallOK, GoesOn, Forward
<1>3. n.kind = "detect" => n.stage # "committed" /\ ~n.replace
  BY <1>1 DEF CallOK, GoesOn
<1>4. "retry" \notin odd' /\ n.replace => n.dup = n.agreed
  BY <1>1 DEF CallOK, GoesOn, Forward, Call
<1>5. n.kind = "detect" /\ n.wiz # None /\ wizard'[n.wiz].heard = n.id => n.src = wizard'[n.wiz].input
  <2>. SUFFICES ASSUME n.kind = "detect", n.wiz # None, wizard'[n.wiz].heard = n.id
                PROVE  n.src = wizard'[n.wiz].input
    OBVIOUS
  <2>1. n.wiz = k.wiz /\ n.wiz \in Wizards
    BY DEF GoesOn, Call
  <2>2. n.id # None /\ n.id # sent + 1
    BY <1>1, ImportAssumption DEF CallOK, GoesOn
  <2>. QED  BY <1>1, <2>1, <2>2 DEF CallOK, GoesOn, Forward
<1>. QED  BY <1>2, <1>3, <1>4, <1>5 DEF CallOK

LEMMA MachineKept ==
  ASSUME Typed, sent' \in 0..MaxCalls, sent <= sent', odd \subseteq odd', NEW z \in Wizard, MachineOK(z)
  PROVE  MachineOK(z)'
<1>1. sent \in Nat /\ sent' \in Nat
  BY ImportAssumption DEF Typed
<1>2. z.heard # None => z.heard \in Nat
  BY ImportAssumption DEF Wizard, Refs
<1>. QED  BY <1>1, <1>2 DEF MachineOK

\* One wizard becomes y.
LEMMA MachinesSet ==
  ASSUME Typed, sent' \in 0..MaxCalls, sent <= sent', odd \subseteq odd',
         NEW w \in Wizards, NEW y \in Wizard, wizard' = [wizard EXCEPT ![w] = y], MachineOK(y)'
  PROVE  wizard' \in [Wizards -> Wizard] /\ \A u \in Wizards : MachineOK(wizard[u])'
<1>1. wizard \in [Wizards -> Wizard] /\ \A u \in Wizards : MachineOK(wizard[u])
  BY DEF Typed
<1>2. wizard' \in [Wizards -> Wizard] /\ \A u \in Wizards : wizard'[u] = IF u = w THEN y ELSE wizard[u]
  BY <1>1
<1>3. ASSUME NEW u \in Wizards
      PROVE  MachineOK(wizard[u])'
  <2>1. PICK z \in Wizard : z = wizard'[u]
    BY <1>2
  <2>2. MachineOK(z)'
    <3>1. CASE u = w
      BY <1>2, <2>1, <3>1
    <3>2. CASE u # w
      <4>1. MachineOK(z)
        BY <1>1, <1>2, <2>1, <3>2
      <4>. QED  BY <4>1, MachineKept
    <3>. QED  BY <3>1, <3>2
  <2>. QED  BY <2>1, <2>2 DEF MachineOK
<1>. QED  BY <1>2, <1>3

LEMMA MachinesKept ==
  ASSUME Typed, sent' \in 0..MaxCalls, sent <= sent', odd \subseteq odd', wizard' = wizard
  PROVE  wizard' \in [Wizards -> Wizard] /\ \A u \in Wizards : MachineOK(wizard[u])'
<1>1. ASSUME NEW u \in Wizards
      PROVE  MachineOK(wizard[u])'
  <2>1. PICK z \in Wizard : z = wizard[u] /\ MachineOK(z)
    BY DEF Typed
  <2>2. MachineOK(z)'
    BY <2>1, MachineKept
  <2>. QED  BY <2>1, <2>2 DEF MachineOK
<1>. QED  BY <1>1 DEF Typed

\* A wizard asks.
LEMMA TypedAsks ==
  ASSUME Typed, NEW w \in Wizards, NEW y, NEW k, Asks(w, y, k), MachineOK(y)',
         y.heard \in {None, sent + 1}, k.src \in Sources, k.kind = "detect" => ~k.replace,
         "retry" \notin odd' /\ k.replace => k.dup = k.agreed,
         k.kind = "detect" => k.src = y.input
  PROVE  Typed'
<1>1. /\ sent \in Nat /\ sent' = sent + 1 /\ sent' \in 0..MaxCalls /\ MaxCalls \in Nat
      /\ sent <= sent'
  BY ImportAssumption DEF Typed, Asks
<1>2. wizard' = [wizard EXCEPT ![w] = y] /\ y \in Wizard /\ odd \subseteq odd' /\ calls' = calls \cup {k}
  BY DEF Asks
<1>3. wizard' \in [Wizards -> Wizard] /\ \A u \in Wizards : MachineOK(wizard[u])'
  BY <1>1, <1>2, MachinesSet
<1>4. \A u \in Wizards : wizard'[u] = IF u = w THEN y ELSE wizard[u]
  BY <1>2 DEF Typed
<1>5. Forward
  BY <1>1, <1>2, <1>4 DEF Forward
<1>6. CallOK(k)'
  BY <1>1, <1>4 DEF Asks, CallOK
<1>7. \A n \in calls : CallOK(n)'
  <2>1. \A n \in calls : GoesOn(n, n)
    BY DEF GoesOn, Typed, CallOK, Call
  <2>. QED  BY <1>5, <2>1, CallKept
<1>8. \A m, n \in calls' : m.id = n.id => m = n
  <2>1. \A n \in calls : n.id # k.id
    BY <1>1 DEF Asks, Typed, CallOK
  <2>. QED  BY <1>2, <2>1 DEF Typed
<1>9. StoreOK'
  BY DEF Asks, dbVars, StoreOK, Typed
<1>. QED  BY <1>1, <1>2, <1>3, <1>6, <1>7, <1>8, <1>9 DEF Typed

LEMMA TypedDetect ==
  ASSUME Typed, NEW w \in Wizards, NEW y, NEW k, DetectAsk(w, y, k)
  PROVE  Typed'
<1>1. /\ Asks(w, y, k) /\ y.heard = sent + 1 /\ k.src \in Sources /\ ~k.replace /\ k.src = y.input
      /\ y.st = "detecting" /\ y.input # None /\ sent' = sent + 1
      /\ sent \in Nat
  BY ImportAssumption DEF DetectAsk, Asks, Typed
<1>2. MachineOK(y)'
  BY <1>1 DEF MachineOK, DetectAsk
<1>. QED  BY <1>1, <1>2, TypedAsks

LEMMA TypedImport ==
  ASSUME Typed, NEW w \in Wizards, NEW y, NEW k, ImportAsk(w, y, k)
  PROVE  Typed'
<1>1. PICK z \in Wizard : z = wizard[w] /\ MachineOK(z)
  BY DEF Typed
<1>2. Asks(w, y, k) /\ k.kind = "execute" /\ k.src \in Sources /\ y.heard = None /\ odd \subseteq odd'
  BY DEF ImportAsk, Asks
<1>3. MachineOK(y)'
  BY <1>1, <1>2 DEF MachineOK, ImportAsk
<1>4. "retry" \notin odd' /\ k.replace => k.dup = k.agreed
  BY <1>1, <1>2 DEF MachineOK, ImportAsk
<1>. QED  BY <1>2, <1>3, <1>4, TypedAsks

\* A wizard changes, and no request.
LEMMA TypedQuiet ==
  ASSUME Typed, NEW w \in Wizards, NEW y, Quiet(w, y)
  PROVE  Typed'
<1>1. /\ y \in Wizard /\ wizard' = [wizard EXCEPT ![w] = y] /\ MachineOK(y)
      /\ UNCHANGED <<dbVars, files, calls, sent, mishaps, odd>>
      /\ sent' \in 0..MaxCalls /\ sent <= sent' /\ odd \subseteq odd'
  BY ImportAssumption DEF Quiet, Typed
<1>2. MachineOK(y)'
  BY <1>1, MachineKept
<1>3. wizard' \in [Wizards -> Wizard] /\ \A u \in Wizards : MachineOK(wizard[u])'
  BY <1>1, <1>2, MachinesSet
<1>4. \A u \in Wizards : wizard'[u] = IF u = w THEN y ELSE wizard[u]
  BY <1>1 DEF Typed
<1>5. Forward
  BY <1>1, <1>4 DEF Forward, Quiet
<1>6. \A n \in calls : CallOK(n)'
  <2>1. \A n \in calls : GoesOn(n, n)
    BY DEF GoesOn, Typed, CallOK, Call
  <2>. QED  BY <1>5, <2>1, CallKept
<1>7. StoreOK'
  BY <1>1 DEF dbVars, StoreOK, Typed
<1>. QED  BY <1>1, <1>3, <1>6, <1>7 DEF Typed

\* Requests go on, end, or lose their wizard; every one that is left was there.
LEMMA TypedCalls ==
  ASSUME Typed, Forward, wizard' \in [Wizards -> Wizard], \A u \in Wizards : MachineOK(wizard[u])',
         StoreOK', \A n \in calls' : \E k \in calls : GoesOn(k, n),
         \A m, n \in calls' : m.id = n.id => m = n
  PROVE  Typed'
<1>1. \A n \in calls' : CallOK(n)'
  BY CallKept
<1>. QED  BY <1>1 DEF Typed, Forward

LEMMA TypedReceive ==
  ASSUME Typed, NEW k \in calls, Receive(k) \/ BreakOff(k)
  PROVE  Typed'
<1>1. /\ UNCHANGED <<dbVars, files, sent, odd>>
      /\ sent' \in 0..MaxCalls /\ sent <= sent' /\ odd \subseteq odd'
  BY ImportAssumption DEF Receive, BreakOff, Typed
<1>2. PICK n : n = [k EXCEPT !.wiz = None]
  OBVIOUS
<1>3. k \in Call /\ n \in Call /\ GoesOn(k, n)
  BY <1>2 DEF Typed, CallOK, GoesOn, Call
<1>4. calls' \subseteq (calls \ {k}) \cup {n}
  BY <1>2 DEF Receive, BreakOff, Becomes
<1>5. /\ wizard' \in [Wizards -> Wizard] /\ \A u \in Wizards : MachineOK(wizard[u])'
      /\ Forward
  <2>1. CASE wizard' = wizard
    BY <1>1, <2>1, MachinesKept DEF Forward
  <2>2. ASSUME NEW y, Answer(k.wiz, y, k)
        PROVE  /\ wizard' \in [Wizards -> Wizard] /\ \A u \in Wizards : MachineOK(wizard[u])'
               /\ Forward
    <3>1. PICK w \in Wizards : w = k.wiz
      BY <2>2 DEF Answer
    <3>2. y \in Wizard /\ wizard' = [wizard EXCEPT ![w] = y] /\ MachineOK(y) /\ y.heard = None
      BY <2>2, <3>1 DEF Answer
    <3>3. MachineOK(y)'
      BY <1>1, <3>2, MachineKept
    <3>4. \A u \in Wizards : wizard'[u] = IF u = w THEN y ELSE wizard[u]
      BY <3>2 DEF Typed
    <3>5. Forward
      BY <1>1, <3>2, <3>4 DEF Forward
    <3>. QED  BY <1>1, <3>2, <3>3, <3>5, MachinesSet
  <2>. QED  BY <2>1, <2>2, AnswerSteps
<1>6. StoreOK'
  BY <1>1 DEF dbVars, StoreOK, Typed
<1>7. \A m \in calls' : \E c \in calls : GoesOn(c, m)
  <2>1. \A m \in calls : GoesOn(m, m)
    BY DEF GoesOn, Typed, CallOK, Call
  <2>. QED  BY <1>3, <1>4, <2>1
<1>8. \A l, m \in calls' : l.id = m.id => l = m
  BY <1>3, <1>4 DEF GoesOn, Typed
<1>. QED  BY <1>5, <1>6, <1>7, <1>8, TypedCalls

LEMMA TypedLeave ==
  ASSUME Typed, NEW w \in Wizards, Leave(w)
  PROVE  Typed'
<1>1. /\ UNCHANGED <<dbVars, files, sent, odd>> /\ wizard' = [wizard EXCEPT ![w] = Blank]
      /\ sent' \in 0..MaxCalls /\ sent <= sent' /\ odd \subseteq odd'
  BY ImportAssumption DEF Leave, Typed, Sets
<1>2. MachineOK(Blank)'
  BY <1>1, BlankWizard, MachineKept
<1>3. wizard' \in [Wizards -> Wizard] /\ \A u \in Wizards : MachineOK(wizard[u])'
  BY <1>1, <1>2, BlankWizard, MachinesSet
<1>4. Forward
  <2>1. \A u \in Wizards : wizard'[u] = IF u = w THEN Blank ELSE wizard[u]
    BY <1>1 DEF Typed
  <2>. QED  BY <1>1, <2>1, BlankWizard DEF Forward
<1>5. \A m \in calls' : \E c \in calls : m = [c EXCEPT !.wiz = IF c.wiz = w THEN None ELSE c.wiz]
  BY DEF Leave
<1>6. \A c \in calls : \A m : m = [c EXCEPT !.wiz = IF c.wiz = w THEN None ELSE c.wiz] => GoesOn(c, m)
  <2>. SUFFICES ASSUME NEW c \in calls, NEW m, m = [c EXCEPT !.wiz = IF c.wiz = w THEN None ELSE c.wiz]
                PROVE  GoesOn(c, m)
    OBVIOUS
  <2>1. c \in Call /\ (c.stage = "committed" => c.kind = "execute")
    BY DEF Typed, CallOK, Call
  <2>. QED  BY <2>1 DEF GoesOn, Call
<1>7. \A l, m \in calls' : l.id = m.id => l = m
  <2>. SUFFICES ASSUME NEW l \in calls', NEW m \in calls', l.id = m.id
                PROVE  l = m
    OBVIOUS
  <2>1. PICK c \in calls : l = [c EXCEPT !.wiz = IF c.wiz = w THEN None ELSE c.wiz]
    BY <1>5
  <2>2. PICK d \in calls : m = [d EXCEPT !.wiz = IF d.wiz = w THEN None ELSE d.wiz]
    BY <1>5
  <2>3. c.id = d.id
    BY <1>6, <2>1, <2>2 DEF GoesOn
  <2>4. c = d
    BY <2>3 DEF Typed
  <2>. QED  BY <2>1, <2>2, <2>4
<1>8. StoreOK'
  BY <1>1 DEF dbVars, StoreOK, Typed
<1>9. \A m \in calls' : \E c \in calls : GoesOn(c, m)
  BY <1>5, <1>6
<1>. QED  BY <1>3, <1>4, <1>7, <1>8, <1>9, TypedCalls

LEMMA TypedRestart ==
  ASSUME Typed, ServerRestart
  PROVE  Typed'
<1>1. /\ UNCHANGED <<dbVars, files, sent, wizard>>
      /\ sent' \in 0..MaxCalls /\ sent <= sent' /\ odd \subseteq odd'
  BY ImportAssumption DEF ServerRestart, Typed
<1>2. wizard' \in [Wizards -> Wizard] /\ \A u \in Wizards : MachineOK(wizard[u])'
  BY <1>1, MachinesKept
<1>3. Forward
  BY <1>1 DEF Forward
<1>4. \A m \in calls' : \E c \in calls : m = [c EXCEPT !.stage = IF c.stage = "ok" THEN c.stage ELSE "refused"]
  BY DEF ServerRestart
<1>5. \A c \in calls : \A m : m = [c EXCEPT !.stage = IF c.stage = "ok" THEN c.stage ELSE "refused"] => GoesOn(c, m)
  <2>. SUFFICES ASSUME NEW c \in calls, NEW m, m = [c EXCEPT !.stage = IF c.stage = "ok" THEN c.stage ELSE "refused"]
                PROVE  GoesOn(c, m)
    OBVIOUS
  <2>1. c \in Call
    BY DEF Typed, CallOK
  <2>. QED  BY <2>1 DEF GoesOn, Call
<1>6. \A l, m \in calls' : l.id = m.id => l = m
  <2>. SUFFICES ASSUME NEW l \in calls', NEW m \in calls', l.id = m.id
                PROVE  l = m
    OBVIOUS
  <2>1. PICK c \in calls : l = [c EXCEPT !.stage = IF c.stage = "ok" THEN c.stage ELSE "refused"]
    BY <1>4
  <2>2. PICK d \in calls : m = [d EXCEPT !.stage = IF d.stage = "ok" THEN d.stage ELSE "refused"]
    BY <1>4
  <2>3. c.id = d.id
    BY <1>5, <2>1, <2>2 DEF GoesOn
  <2>4. c = d
    BY <2>3 DEF Typed
  <2>. QED  BY <2>1, <2>2, <2>4
<1>7. StoreOK'
  BY <1>1 DEF dbVars, StoreOK, Typed
<1>8. \A m \in calls' : \E c \in calls : GoesOn(c, m)
  BY <1>4, <1>5
<1>. QED  BY <1>2, <1>3, <1>6, <1>7, <1>8, TypedCalls

\* The server's steps keep the database and the staged files typed.
LEMMA StoreServed ==
  ASSUME Typed, NEW k \in calls, Serve(k)
  PROVE  StoreOK'
<1>1. k.src \in Sources /\ k.id \in 1..MaxCalls /\ k.ref \in 1..MaxCalls /\ k \in Call /\ StoreOK
  BY ImportAssumption DEF Typed, CallOK
<1>2. CASE DetectImport(k)
  <2>1. PICK old \in {0} \cup {r \in 1..(k.id - 1) : files[r] # None} :
          \/ files' = [[r \in 1..MaxCalls |-> IF r <= old THEN None ELSE files[r]] EXCEPT ![k.id] = k.src]
          \/ files' = [r \in 1..MaxCalls |-> IF r <= old THEN None ELSE files[r]]
    BY <1>2 DEF DetectImport
  <2>2. files' \in [1..MaxCalls -> Sources \cup {None}]
    <3>1. [r \in 1..MaxCalls |-> IF r <= old THEN None ELSE files[r]] \in [1..MaxCalls -> Sources \cup {None}]
      BY <1>1 DEF StoreOK
    <3>. QED  BY <1>1, <2>1, <3>1
  <2>. QED  BY <1>1, <1>2, <2>2 DEF DetectImport, StoreOK, dbVars
<1>3. CASE Execute(k)
  <2>1. \E made \in Books \cup {None} : Writes(k, made)
    <3>1. Carries[k.src] \in Books \cup {None} /\ (k.src \notin Texts => Carries[k.src] \in Books)
      BY <1>1, ImportAssumption DEF Texts
    <3>2. Unused # {} => (CHOOSE n \in Unused : TRUE) \in Books
      BY DEF Unused
    <3>. QED  BY <1>3, <3>1, <3>2 DEF Execute
  <2>2. PICK made \in Books \cup {None} : Writes(k, made)
    BY <2>1
  <2>3. /\ book' \in [Books -> {"none", "live", "trashed"}]
        /\ \A o \in origin' : o \in origin /\ (book'[o.book] = book[o.book] \/ book'[o.book] = "live")
    BY <1>1, <2>2 DEF Writes, StoreOK
  <2>4. files' = files
    BY <1>3 DEF Execute
  <2>. QED  BY <1>1, <2>3, <2>4 DEF StoreOK
<1>4. CASE ExecuteFails(k)
  BY <1>1, <1>4 DEF ExecuteFails, Dropped, StoreOK, dbVars
<1>5. CASE Record(k)
  <2>1. UNCHANGED book /\ files' \in [1..MaxCalls -> Sources \cup {None}]
    BY <1>1, <1>5 DEF Record, Dropped, StoreOK
  <2>2. origin' \subseteq [book : {b \in Books : book[b] # "none"}, src : Sources]
    <3>1. CASE origin' = origin
      BY <1>1, <3>1 DEF StoreOK
    <3>2. CASE k.made # None /\ book[k.made] # "none" /\ origin' \in Recorded(k)
      <4>1. k.made \in Books
        BY <1>1, <3>2 DEF Call
      <4>2. [book |-> k.made, src |-> k.src] \in [book : {b \in Books : book[b] # "none"}, src : Sources]
        BY <1>1, <3>2, <4>1
      <4>3. origin' \subseteq origin \cup {[book |-> k.made, src |-> k.src]}
        BY <3>2 DEF Recorded
      <4>. QED  BY <1>1, <4>2, <4>3 DEF StoreOK
    <3>. QED  BY <1>5, <3>1, <3>2 DEF Record, Recorded
  <2>. QED  BY <1>1, <2>1, <2>2 DEF StoreOK
<1>. QED  BY <1>2, <1>3, <1>4, <1>5 DEF Serve

LEMMA TypedServe ==
  ASSUME Typed, NEW k \in calls, Serve(k)
  PROVE  Typed'
<1>1. PICK n : ServeEffect(k, n)
  BY ServeSteps
<1>2. /\ wizard' = wizard /\ sent' = sent /\ odd \subseteq odd'
      /\ sent' \in 0..MaxCalls /\ sent <= sent' /\ calls' \subseteq (calls \ {k}) \cup {n}
  BY <1>1, ImportAssumption DEF ServeEffect, Becomes, Typed
<1>3. GoesOn(k, n)
  BY <1>1 DEF ServeEffect, SameCall, GoesOn
<1>4. wizard' \in [Wizards -> Wizard] /\ \A u \in Wizards : MachineOK(wizard[u])'
  BY <1>2, MachinesKept
<1>5. Forward
  BY <1>2 DEF Forward
<1>6. \A m \in calls' : \E c \in calls : GoesOn(c, m)
  <2>1. \A m \in calls : GoesOn(m, m)
    BY DEF GoesOn, Typed, CallOK, Call
  <2>. QED  BY <1>2, <1>3, <2>1
<1>7. \A l, m \in calls' : l.id = m.id => l = m
  BY <1>2, <1>3 DEF GoesOn, Typed
<1>. QED  BY <1>4, <1>5, <1>6, <1>7, StoreServed, TypedCalls

LEMMA TypedEdit ==
  ASSUME Typed, NEW b \in Books, EditBook(b)
  PROVE  Typed'
<1>1. /\ UNCHANGED <<files, calls, wizard, sent, odd>> /\ sent' \in 0..MaxCalls /\ sent <= sent'
      /\ StoreOK
  BY ImportAssumption DEF EditBook, Typed
<1>2. book' \in [Books -> {"none", "live", "trashed"}]
  BY <1>1 DEF EditBook, StoreOK
<1>3. origin' \subseteq [book : {c \in Books : book'[c] # "none"}, src : Sources]
  BY <1>1 DEF EditBook, StoreOK
<1>4. StoreOK'
  BY <1>1, <1>2, <1>3 DEF StoreOK
<1>5. wizard' \in [Wizards -> Wizard] /\ \A u \in Wizards : MachineOK(wizard[u])'
  BY <1>1, MachinesKept
<1>6. Forward
  BY <1>1 DEF Forward
<1>7. \A m \in calls : GoesOn(m, m)
  BY DEF GoesOn, Typed, CallOK, Call
<1>. QED  BY <1>1, <1>4, <1>5, <1>6, <1>7, TypedCalls DEF Typed

LEMMA TypedStep ==
  ASSUME Typed, Next
  PROVE  Typed'
<1>1. ASSUME NEW w \in Wizards,
             \/ \E s \in Sources : Select(w, s)
             \/ Rerender(w) \/ Retry(w)
             \/ Open(w) /\ wizard[w].st = "detecting"
      PROVE  Typed'
  BY <1>1, DetectSteps, TypedDetect
<1>2. ASSUME NEW w \in Wizards, Import(w) \/ (Open(w) /\ wizard[w].st = "executing")
      PROVE  Typed'
  BY <1>2, ImportSteps, TypedImport
<1>3. ASSUME NEW w \in Wizards,
             \/ \E replace \in BOOLEAN : ChooseAction(w, replace)
             \/ Cancel(w) \/ Advance(w) \/ Close(w) \/ Another(w)
             \/ Open(w) /\ wizard[w].st \notin {"detecting", "executing"}
      PROVE  Typed'
  BY <1>3, QuietSteps, TypedQuiet
<1>4. ASSUME NEW w \in Wizards, Leave(w)
      PROVE  Typed'
  BY <1>4, TypedLeave
<1>5. CASE WizardStep
  BY <1>1, <1>2, <1>3, <1>4, <1>5 DEF WizardStep
<1>. QED  BY <1>5, TypedServe, TypedReceive, TypedRestart, TypedEdit DEF Next

LEMMA TypedInit == Init => Typed
<1>. SUFFICES ASSUME Init
              PROVE  Typed
  OBVIOUS
<1>1. MaxCalls \in Nat /\ sent = 0 /\ calls = {}
  BY ImportAssumption DEF Init
<1>2. StoreOK
  <2>1. book \in [Books -> {"none", "live", "trashed"}] /\ files \in [1..MaxCalls -> Sources \cup {None}]
    BY DEF Init
  <2>2. \A b \in Books : Earlier[b] # None => Earlier[b] \in Sources /\ book[b] = "live"
    BY ImportAssumption DEF Init
  <2>3. origin \subseteq [book : {b \in Books : book[b] # "none"}, src : Sources]
    BY <2>2 DEF Init
  <2>. QED  BY <2>1, <2>3 DEF StoreOK
<1>3. wizard \in [Wizards -> Wizard] /\ \A w \in Wizards : wizard[w] = Blank
  BY BlankWizard DEF Init
<1>. QED  BY <1>1, <1>2, <1>3, BlankWizard DEF Typed

LEMMA TypedStutter ==
  ASSUME Typed, UNCHANGED vars
  PROVE  Typed'
BY DEF Typed, vars, dbVars, StoreOK, CallOK, MachineOK

LEMMA TypedAlways == Spec => []Typed
BY TypedInit, TypedStep, TypedStutter, PTL DEF Spec

\* Uploads, books, wizards and requests keep their types.
THEOREM ImportTyped == Spec => []ImportTypeOK
<1>1. Typed => ImportTypeOK
  <2>. SUFFICES ASSUME Typed
                PROVE  ImportTypeOK
    OBVIOUS
  <2>1. ASSUME NEW z \in Wizard
        PROVE  /\ DOMAIN z = DOMAIN Blank /\ z.st \in States /\ {z.open, z.replace} \subseteq BOOLEAN
               /\ {z.input, z.detected} \subseteq Sources \cup {None}
               /\ {z.heard, z.ref, z.got} \subseteq 1..MaxCalls \cup {None}
               /\ {z.dup, z.agreed} \subseteq Books \cup {None}
    BY DEF Wizard, Blank, Refs
  <2>2. \A w \in Wizards : wizard[w] \in Wizard
    BY DEF Typed
  <2>3. calls \subseteq Call
    BY DEF Typed, CallOK
  <2>. QED  BY <2>1, <2>2, <2>3 DEF Typed, StoreOK, ImportTypeOK
<1>. QED  BY <1>1, TypedAlways, PTL

\* An import overwrites what its user confirmed: the choice goes from the
\* preview into the request, and no answer, restart or reopening puts another
\* book under it.
THEOREM OverwriteConfirmed == Spec => OverwriteWasConfirmed
<1>1. Typed => \A k \in calls : "retry" \notin odd /\ k.replace => k.dup = k.agreed
  BY DEF Typed, CallOK
<1>2. Typed => [\A k \in calls, n \in calls' :
                  k.id = n.id /\ n.stage = "committed" /\ k.stage = "sent" /\ k.replace /\ "retry" \notin odd
                  => k.dup = k.agreed]_vars
  BY <1>1
<1>. QED  BY <1>2, TypedAlways, PTL DEF OverwriteWasConfirmed

-----------------------------------------------------------------------------
(* What a wizard waits for and what it is told                             *)

\* A spinner has its request.
Waits(w) ==
  /\ wizard[w].st = "detecting" /\ wizard[w].open =>
       \E k \in calls : k.kind = "detect" /\ k.wiz = w /\ k.id = wizard[w].heard
  /\ wizard[w].st = "executing" => \E k \in calls : k.kind = "execute" /\ k.wiz = w

\* A wizard that has not sent its import again waits for one import, of the
\* upload it shows.
Once(w) ==
  "again" \notin odd =>
    /\ wizard[w].st = "success" => wizard[w].got = wizard[w].ref
    /\ \A k \in calls : k.kind = "execute" /\ k.wiz = w =>
         wizard[w].st = "executing" /\ k.ref = wizard[w].ref
    /\ \A k, n \in calls :
         k.kind = "execute" /\ k.wiz = w /\ n.kind = "execute" /\ n.wiz = w => k.id = n.id

\* Neither the wizard nor its requests change, except that they go on.
Keeps(w) ==
  /\ wizard'[w] = wizard[w] /\ odd \subseteq odd'
  /\ \A k \in calls : k.wiz = w => \E n \in calls' : SameCall(k, n)
  /\ \A n \in calls' : n.wiz = w => \E k \in calls : SameCall(k, n)

LEMMA KeepsWaits ==
  ASSUME NEW w \in Wizards, Keeps(w), Waits(w), Once(w)
  PROVE  Waits(w)' /\ Once(w)'
<1>1. Waits(w)'
  BY DEF Keeps, Waits, SameCall
<1>2. Once(w)'
  <2>. SUFFICES ASSUME "again" \notin odd'
                PROVE  /\ wizard'[w].st = "success" => wizard'[w].got = wizard'[w].ref
                       /\ \A k \in calls' : k.kind = "execute" /\ k.wiz = w =>
                            wizard'[w].st = "executing" /\ k.ref = wizard'[w].ref
                       /\ \A k, n \in calls' :
                            k.kind = "execute" /\ k.wiz = w /\ n.kind = "execute" /\ n.wiz = w
                            => k.id = n.id
    BY DEF Once
  <2>1. wizard'[w].st = "success" => wizard'[w].got = wizard'[w].ref
    BY DEF Keeps, Once
  <2>2. \A k \in calls' : k.kind = "execute" /\ k.wiz = w =>
          wizard'[w].st = "executing" /\ k.ref = wizard'[w].ref
    BY DEF Keeps, Once, SameCall
  <2>3. ASSUME NEW k \in calls', NEW n \in calls', k.kind = "execute", k.wiz = w,
               n.kind = "execute", n.wiz = w
        PROVE  k.id = n.id
    <3>1. PICK c \in calls : SameCall(c, k)
      BY <2>3 DEF Keeps
    <3>2. PICK d \in calls : SameCall(d, n)
      BY <2>3 DEF Keeps
    <3>. QED  BY <2>3, <3>1, <3>2 DEF Keeps, Once, SameCall
  <2>. QED  BY <2>1, <2>2, <2>3
<1>. QED  BY <1>1, <1>2

\* Steps of one wizard that leave the requests under way alone.
LEMMA OthersKeep ==
  ASSUME Typed, NEW w \in Wizards, NEW y, wizard' = [wizard EXCEPT ![w] = y], odd \subseteq odd',
         NEW u \in Wizards, u # w, calls \subseteq calls', \A n \in calls' : n \in calls \/ n.wiz # u
  PROVE  Keeps(u)
BY DEF Keeps, SameCall, Typed

Watched == \A w \in Wizards : Waits(w) /\ Once(w)

LEMMA WatchedDetect ==
  ASSUME Typed, Watched, NEW w \in Wizards, NEW y, NEW k, DetectAsk(w, y, k)
  PROVE  Watched'
<1>1. /\ wizard' = [wizard EXCEPT ![w] = y] /\ calls' = calls \cup {k} /\ odd \subseteq odd'
      /\ k.wiz = w /\ k.id = sent + 1 /\ k.kind = "detect"
      /\ y.st = "detecting" /\ y.heard = sent + 1 /\ wizard[w].st \in {"upload", "detecting", "error"}
      /\ wizard'[w] = y
  BY DEF DetectAsk, Asks, Typed
<1>2. ASSUME NEW u \in Wizards, u # w
      PROVE  Waits(u)' /\ Once(u)'
  BY <1>1, <1>2, OthersKeep, KeepsWaits DEF Watched
<1>3. Waits(w)'
  BY <1>1 DEF Waits
<1>4. Once(w)'
  BY <1>1 DEF Once, Watched
<1>. QED  BY <1>2, <1>3, <1>4 DEF Watched

LEMMA WatchedImport ==
  ASSUME Typed, Watched, NEW w \in Wizards, NEW y, NEW k, ImportAsk(w, y, k)
  PROVE  Watched'
<1>1. /\ wizard' = [wizard EXCEPT ![w] = y] /\ calls' = calls \cup {k} /\ odd \subseteq odd'
      /\ k.wiz = w /\ k.kind = "execute" /\ k.ref = y.ref
      /\ y.st = "executing" /\ wizard'[w] = y
      /\ "again" \notin odd' => wizard[w].st = "preview"
  BY DEF ImportAsk, Asks, Typed
<1>2. ASSUME NEW u \in Wizards, u # w
      PROVE  Waits(u)' /\ Once(u)'
  BY <1>1, <1>2, OthersKeep, KeepsWaits DEF Watched
<1>3. Waits(w)'
  BY <1>1 DEF Waits
<1>4. Once(w)'
  <2>. SUFFICES ASSUME "again" \notin odd'
                PROVE  Once(w)'
    BY DEF Once
  <2>1. \A n \in calls : n.kind = "execute" => n.wiz # w
    BY <1>1 DEF Once, Watched
  <2>. QED  BY <1>1, <2>1 DEF Once
<1>. QED  BY <1>2, <1>3, <1>4 DEF Watched

LEMMA WatchedQuiet ==
  ASSUME Typed, Watched, NEW w \in Wizards, NEW y, Quiet(w, y)
  PROVE  Watched'
<1>1. /\ wizard' = [wizard EXCEPT ![w] = y] /\ calls' = calls /\ odd' = odd /\ wizard'[w] = y
  BY DEF Quiet, Typed
<1>2. ASSUME NEW u \in Wizards, u # w
      PROVE  Waits(u)' /\ Once(u)'
  BY <1>1, <1>2, OthersKeep, KeepsWaits DEF Watched
<1>3. Waits(w)'
  BY <1>1 DEF Quiet, Waits, Watched
<1>4. Once(w)'
  BY <1>1 DEF Quiet, Once, Watched
<1>. QED  BY <1>2, <1>3, <1>4 DEF Watched

LEMMA WatchedLeave ==
  ASSUME Typed, Watched, NEW w \in Wizards, Leave(w)
  PROVE  Watched'
<1>1. wizard' = [wizard EXCEPT ![w] = Blank] /\ odd' = odd /\ wizard'[w] = Blank
  BY DEF Leave, Sets, Typed
<1>2. \A m \in calls' : \E c \in calls : m = [c EXCEPT !.wiz = IF c.wiz = w THEN None ELSE c.wiz]
  BY DEF Leave
<1>3. ASSUME NEW c \in calls, c.wiz # w
      PROVE  c \in calls'
  <2>1. c = [c EXCEPT !.wiz = IF c.wiz = w THEN None ELSE c.wiz]
    BY <1>3 DEF Typed, CallOK, Call
  <2>. QED  BY <1>3, <2>1 DEF Leave
<1>4. ASSUME NEW m \in calls'
      PROVE  m.wiz # w /\ (m.wiz # None => m \in calls)
  <2>1. PICK c \in calls : m = [c EXCEPT !.wiz = IF c.wiz = w THEN None ELSE c.wiz]
    BY <1>2
  <2>. QED  BY <2>1, ImportAssumption DEF Typed, CallOK, Call
<1>5. ASSUME NEW u \in Wizards, u # w
      PROVE  Waits(u)' /\ Once(u)'
  <2>1. wizard'[u] = wizard[u] /\ u # None
    BY <1>1, <1>5, ImportAssumption DEF Typed
  <2>2. Keeps(u)
    BY <1>1, <1>3, <1>4, <1>5, <2>1 DEF Keeps, SameCall
  <2>. QED  BY <2>2, KeepsWaits DEF Watched
<1>6. Waits(w)' /\ Once(w)'
  BY <1>1, <1>4, BlankWizard DEF Waits, Once
<1>. QED  BY <1>5, <1>6 DEF Watched

LEMMA WatchedReceive ==
  ASSUME Typed, Watched, NEW k \in calls, Receive(k) \/ BreakOff(k)
  PROVE  Watched'
<1>1. odd' = odd
  BY DEF Receive, BreakOff
<1>2. calls \ {k} \subseteq calls' /\ \A n \in calls' : n \in calls \ {k} \/ n.wiz = None
  BY DEF Receive, BreakOff, Becomes, Typed, CallOK, Call
<1>3. ASSUME NEW u \in Wizards, wizard'[u] = wizard[u], k.wiz # u
      PROVE  Waits(u)' /\ Once(u)'
  <2>1. u # None
    BY ImportAssumption
  <2>2. Keeps(u)
    BY <1>1, <1>2, <1>3, <2>1 DEF Keeps, SameCall
  <2>. QED  BY <2>2, KeepsWaits DEF Watched
<1>4. ASSUME ~Heard(k), wizard' = wizard, Receive(k)
      PROVE  Watched'
  <2>1. calls' = calls \ {k}
    BY <1>4 DEF Receive
  <2>2. ASSUME NEW u \in Wizards, k.wiz = u
        PROVE  Waits(u)' /\ Once(u)'
    <3>1. u # None /\ k.kind \in {"detect", "execute"}
      BY ImportAssumption DEF Typed, CallOK, Call
    <3>2. Waits(u)'
      BY <1>4, <2>1, <2>2, <3>1 DEF Waits, Watched, Heard
    <3>3. Once(u)'
      BY <1>1, <1>4, <2>1 DEF Once, Watched
    <3>. QED  BY <3>2, <3>3
  <2>. QED  BY <1>3, <1>4, <2>2 DEF Watched
<1>5. ASSUME NEW y, Answer(k.wiz, y, k)
      PROVE  Watched'
  <2>1. PICK w \in Wizards : w = k.wiz
    BY <1>5 DEF Answer
  <2>2. /\ wizard' = [wizard EXCEPT ![w] = y] /\ wizard'[w] = y /\ y.st \in {"summary", "success", "error"}
        /\ w # None
    BY <1>5, <2>1, ImportAssumption DEF Answer, Typed
  <2>3. ASSUME NEW u \in Wizards, u # w
        PROVE  Waits(u)' /\ Once(u)'
    BY <1>3, <2>1, <2>2, <2>3 DEF Typed
  <2>4. Waits(w)'
    BY <2>2 DEF Waits
  <2>5. Once(w)'
    <3>. SUFFICES ASSUME "again" \notin odd
                  PROVE  Once(w)'
      BY <1>1 DEF Once
    <3>1. \A n \in calls' : n.wiz = w => n \in calls \ {k} /\ n.id # k.id
      BY <1>2, <2>2 DEF Typed
    <3>2. \A n \in calls' : n.kind = "execute" => n.wiz # w
      <4>1. CASE k.kind = "execute"
        BY <2>1, <3>1, <4>1 DEF Once, Watched
      <4>2. CASE k.kind = "detect"
        <5>1. wizard[w].heard # None
          BY <1>5, <2>1, <4>2, ImportAssumption DEF Answer, Heard, Typed, CallOK
        <5>2. wizard[w].st = "detecting"
          BY <5>1 DEF Typed, MachineOK
        <5>. QED  BY <3>1, <5>2 DEF Once, Watched
      <4>. QED  BY <4>1, <4>2 DEF Typed, CallOK, Call
    <3>3. y.st = "success" => y.got = y.ref
      BY <1>5, <2>1 DEF Answer, Once, Watched
    <3>. QED  BY <2>2, <3>2, <3>3 DEF Once
  <2>. QED  BY <2>3, <2>4, <2>5 DEF Watched
<1>. QED  BY <1>4, <1>5, AnswerSteps

LEMMA WatchedServe ==
  ASSUME Typed, Watched, NEW k \in calls, Serve(k)
  PROVE  Watched'
<1>1. PICK n : ServeEffect(k, n)
  BY ServeSteps
<1>2. /\ wizard' = wizard /\ odd \subseteq odd' /\ SameCall(k, n) /\ n.wiz = k.wiz
      /\ calls \ {k} \subseteq calls' /\ calls' \subseteq (calls \ {k}) \cup {n}
      /\ n.wiz # None => n \in calls'
  BY <1>1 DEF ServeEffect, Becomes, SameCall
<1>3. ASSUME NEW u \in Wizards
      PROVE  Waits(u)' /\ Once(u)'
  <2>1. u # None
    BY ImportAssumption
  <2>2. Keeps(u)
    <3>1. \A c \in calls : SameCall(c, c)
      BY DEF SameCall
    <3>. QED  BY <1>2, <2>1, <3>1 DEF Keeps
  <2>. QED  BY <2>2, KeepsWaits DEF Watched
<1>. QED  BY <1>3 DEF Watched

LEMMA WatchedRestart ==
  ASSUME Typed, Watched, ServerRestart
  PROVE  Watched'
<1>1. ASSUME NEW c \in calls, NEW m,
             m = [c EXCEPT !.stage = IF c.stage = "ok" THEN c.stage ELSE "refused"]
      PROVE  SameCall(c, m) /\ (c.wiz # None => m \in calls')
  BY <1>1 DEF SameCall, Typed, CallOK, Call, ServerRestart
<1>2. \A m \in calls' : \E c \in calls : m = [c EXCEPT !.stage = IF c.stage = "ok" THEN c.stage ELSE "refused"]
  BY DEF ServerRestart
<1>3. ASSUME NEW u \in Wizards
      PROVE  Waits(u)' /\ Once(u)'
  <2>1. u # None
    BY ImportAssumption
  <2>2. Keeps(u)
    BY <1>1, <1>2, <2>1 DEF Keeps, ServerRestart
  <2>. QED  BY <2>2, KeepsWaits DEF Watched
<1>. QED  BY <1>3 DEF Watched

LEMMA WatchedStep ==
  ASSUME Typed, Watched, Next
  PROVE  Watched'
<1>1. ASSUME NEW w \in Wizards,
             \/ \E s \in Sources : Select(w, s)
             \/ Rerender(w) \/ Retry(w)
             \/ Open(w) /\ wizard[w].st = "detecting"
      PROVE  Watched'
  BY <1>1, DetectSteps, WatchedDetect
<1>2. ASSUME NEW w \in Wizards, Import(w) \/ (Open(w) /\ wizard[w].st = "executing")
      PROVE  Watched'
  BY <1>2, ImportSteps, WatchedImport
<1>3. ASSUME NEW w \in Wizards,
             \/ \E replace \in BOOLEAN : ChooseAction(w, replace)
             \/ Cancel(w) \/ Advance(w) \/ Close(w) \/ Another(w)
             \/ Open(w) /\ wizard[w].st \notin {"detecting", "executing"}
      PROVE  Watched'
  BY <1>3, QuietSteps, WatchedQuiet
<1>4. ASSUME NEW w \in Wizards, Leave(w)
      PROVE  Watched'
  BY <1>4, WatchedLeave
<1>5. CASE WizardStep
  BY <1>1, <1>2, <1>3, <1>4, <1>5 DEF WizardStep
<1>6. ASSUME NEW b \in Books, EditBook(b)
      PROVE  Watched'
  BY <1>6 DEF EditBook, Watched, Waits, Once
<1>. QED  BY <1>5, <1>6, WatchedServe, WatchedReceive, WatchedRestart DEF Next

LEMMA WatchedAlways == Spec => [](Typed /\ Watched)
<1>1. Init => Watched
  <2>. SUFFICES ASSUME Init, NEW w \in Wizards
                PROVE  Waits(w) /\ Once(w)
    BY DEF Watched
  <2>1. wizard[w] = Blank /\ calls = {}
    BY DEF Init
  <2>. QED  BY <2>1, BlankWizard DEF Waits, Once
<1>2. Typed /\ Watched /\ [Next]_vars => Watched'
  <2>1. Typed /\ Watched /\ UNCHANGED vars => Watched'
    BY DEF vars, Watched, Waits, Once
  <2>. QED  BY <2>1, WatchedStep
<1>3. Spec => []Watched
  BY <1>1, <1>2, TypedAlways, PTL DEF Spec
<1>. QED  BY <1>3, TypedAlways, PTL

\* A spinner waits for an answer that will come, whatever is closed, opened
\* again, retried, restarted or cut off.
THEOREM SpinnersEnd == Spec => []NoStuckSpinner
<1>1. Watched => NoStuckSpinner
  BY DEF Watched, Waits, NoStuckSpinner
<1>. QED  BY <1>1, WatchedAlways, PTL

\* The preview is of the input chosen last and a reported success of the
\* upload shown, however late the answers to other requests are.
THEOREM WizardTruthful == Spec => []WizardTellsTheTruth
<1>1. Typed => PreviewIsOfTheInput
  BY DEF Typed, MachineOK, PreviewIsOfTheInput
<1>2. Watched => SuccessIsOfTheUpload
  BY DEF Watched, Once, SuccessIsOfTheUpload
<1>. QED  BY <1>1, <1>2, WatchedAlways, PTL DEF WizardTellsTheTruth

-----------------------------------------------------------------------------
(* Imports are remembered                                                  *)

Carried == {Carries[s] : s \in Sources}

\* What a committed import has written: a text a book of its own, which no
\* archive holds, an archive its book.
WrittenOK(k) ==
  k.stage = "committed" /\ k.made # None =>
    IF k.src \in Texts
    THEN copyOf[k.made] # None /\ copyOf[k.made].src = k.src /\ k.made \notin Carried
    ELSE copyOf[k.made] = None /\ k.made \in Carried

Known ==
  /\ copyOf \in [Books -> [src : Sources, shown : BOOLEAN] \cup {None}]
  /\ \A b \in Books : copyOf[b] # None => copyOf[b].src \in Texts
  /\ \A k \in calls : WrittenOK(k)
  /\ ImportedIsKnown

\* An import that is recorded, or about to be.
Remembered(b, s) == b \in Duplicates(s) \/ \E k \in calls : k.stage = "committed" /\ b = k.made

LEMMA KnownByAll ==
  ASSUME Known, "unrecorded" \notin odd, NEW s \in Texts, NEW b \in Copies(s)
  PROVE  Remembered(b, s)
BY DEF Known, ImportedIsKnown, Remembered

\* No book is written, and every import under way is still under way.
LEMMA KnownKept ==
  ASSUME Known, UNCHANGED copyOf, odd \subseteq odd',
         \A b \in Books : book'[b] # "none" => book[b] # "none",
         \A n \in calls' : n.stage = "committed" =>
           \E k \in calls : k.stage = "committed" /\ k.made = n.made /\ k.src = n.src,
         \A s \in Texts, b \in Books :
           /\ "unrecorded" \notin odd' /\ b \in Copies(s) /\ book'[b] # "none" /\ Remembered(b, s)
           => Remembered(b, s)'
  PROVE  Known'
<1>1. ASSUME NEW n \in calls'
      PROVE  WrittenOK(n)'
  BY DEF Known, WrittenOK
<1>2. ImportedIsKnown'
  <2>. SUFFICES ASSUME "unrecorded" \notin odd', NEW s \in Texts, NEW b \in Copies(s)'
                PROVE  Remembered(b, s)'
    BY DEF ImportedIsKnown, Remembered
  <2>1. b \in Books /\ b \in Copies(s) /\ book'[b] # "none"
    BY DEF Copies
  <2>2. Remembered(b, s)
    BY <2>1, KnownByAll
  <2>. QED  BY <2>1, <2>2
<1>. QED  BY <1>1, <1>2 DEF Known

\* Neither the database nor what is committed changes.
LEMMA KnownStays ==
  ASSUME Known, UNCHANGED dbVars, odd \subseteq odd',
         \A n \in calls' : n.stage = "committed" =>
           \E k \in calls : k.stage = "committed" /\ k.made = n.made /\ k.src = n.src,
         \A k \in calls : k.stage = "committed" =>
           \/ \E n \in calls' : n.stage = "committed" /\ n.made = k.made
           \/ k.made # None /\ book[k.made] = "none"
           \/ "unrecorded" \in odd'
  PROVE  Known'
<1>1. ASSUME NEW s \in Texts, NEW b \in Books, "unrecorded" \notin odd', b \in Copies(s), Remembered(b, s)
      PROVE  Remembered(b, s)'
  <2>1. CASE b \in Duplicates(s)
    BY <2>1 DEF Remembered, Duplicates, dbVars
  <2>2. CASE b \notin Duplicates(s)
    <3>1. PICK k \in calls : k.stage = "committed" /\ b = k.made
      BY <1>1, <2>2 DEF Remembered
    <3>. QED  BY <1>1, <3>1 DEF Remembered, Copies
  <2>. QED  BY <2>1, <2>2
<1>. QED  BY <1>1, KnownKept DEF dbVars

LEMMA KnownWritten ==
  ASSUME Typed, Known, NEW k \in calls, NEW n, ServeEffect(k, n), Written(k, n)
  PROVE  Known'
<1>1. /\ k.kind = "execute" /\ k.stage = "sent" /\ n.stage = "committed" /\ odd' = odd
      /\ n.src = k.src /\ k.src \in Sources /\ n.made \in Books \cup {None}
      /\ calls' = (calls \ {k}) \cup {n} /\ n \in Call
  BY DEF Written, ServeEffect, SameCall, Becomes, Typed, CallOK, Call
<1>2. PICK made \in Books \cup {None} : made = n.made
  BY <1>1
<1>3. /\ \A b \in Books : /\ b = made => book'[b] = "live"
                          /\ b # made /\ book'[b] # "none" => book[b] # "none"
                          /\ b # made => copyOf'[b] = copyOf[b]
      /\ \A o \in origin : o.book # made /\ book'[o.book] # "none" => o \in origin'
  <2>1. origin \subseteq [book : Books, src : Sources]
    BY DEF Typed, StoreOK
  <2>. QED  BY <1>2, <2>1 DEF Written, Writes, Typed, StoreOK
<1>4. PICK c : c = IF k.src \in Texts THEN [src |-> k.src, shown |-> k.dup # None] ELSE None
  OBVIOUS
<1>5. /\ c \in [src : Sources, shown : BOOLEAN] \cup {None}
      /\ k.src \in Texts => c # None /\ c.src = k.src
      /\ k.src \notin Texts => c = None
  <2>1. CASE k.src \in Texts
    <3>1. c = [src |-> k.src, shown |-> k.dup # None]
      BY <1>4, <2>1
    <3>2. c \in [src : Sources, shown : BOOLEAN] /\ c.src = k.src
      BY <1>1, <3>1
    <3>. QED  BY <2>1, <3>2, ImportAssumption
  <2>2. CASE k.src \notin Texts
    BY <1>4, <2>2
  <2>. QED  BY <2>1, <2>2
<1>6. copyOf' = [b \in Books |-> IF b # made THEN copyOf[b] ELSE c]
  BY <1>2, <1>4 DEF Written, Writes
<1>7. copyOf' \in [Books -> [src : Sources, shown : BOOLEAN] \cup {None}]
  BY <1>5, <1>6 DEF Known
<1>8. \A b \in Books : copyOf'[b] # None => copyOf'[b].src \in Texts
  BY <1>5, <1>6 DEF Known
<1>9. /\ k.src \in Texts => made \in Books /\ made \notin Carried /\ copyOf[made] = None
      /\ k.src \notin Texts /\ made # None => made \in Carried
  <2>1. k.src \in Texts => made \in Unused
    BY <1>2 DEF Written
  <2>2. k.src \notin Texts => made \in {Carries[k.src], None}
    BY <1>2 DEF Written
  <2>. QED  BY <1>1, <2>1, <2>2 DEF Unused, Carried
<1>10. ASSUME NEW m \in calls'
       PROVE  WrittenOK(m)'
  <2>. SUFFICES ASSUME m.stage = "committed", m.made # None
                PROVE  IF m.src \in Texts
                       THEN copyOf'[m.made] # None /\ copyOf'[m.made].src = m.src /\ m.made \notin Carried
                       ELSE copyOf'[m.made] = None /\ m.made \in Carried
    BY DEF WrittenOK
  <2>1. CASE m = n
    BY <1>1, <1>2, <1>5, <1>6, <1>9, <2>1
  <2>2. CASE m # n
    <3>1. WrittenOK(m) /\ m \in Call
      BY <1>1, <2>2 DEF Known, Typed, CallOK
    <3>2. m.made \in Books
      BY <3>1 DEF Call
    <3>. QED  BY <1>5, <1>6, <1>9, <3>1, <3>2 DEF WrittenOK
  <2>. QED  BY <2>1, <2>2
<1>11. ImportedIsKnown'
  <2>. SUFFICES ASSUME "unrecorded" \notin odd', NEW s \in Texts, NEW b \in Copies(s)'
                PROVE  b \in Duplicates(s)' \/ \E m \in calls' : m.stage = "committed" /\ b = m.made
    BY DEF ImportedIsKnown
  <2>1. b \in Books /\ book'[b] # "none" /\ copyOf'[b] # None /\ copyOf'[b].src = s
    BY DEF Copies
  <2>2. CASE b = made
    BY <1>1, <1>2, <2>2
  <2>3. CASE b # made
    <3>1. b \in Copies(s)
      BY <1>3, <2>1, <2>3 DEF Copies
    <3>2. Remembered(b, s)
      BY <1>1, <3>1, KnownByAll
    <3>3. CASE b \in Duplicates(s)
      BY <1>3, <2>1, <2>3, <3>3 DEF Duplicates
    <3>4. CASE \E m \in calls : m.stage = "committed" /\ b = m.made
      BY <1>1, <3>4
    <3>. QED  BY <3>2, <3>3, <3>4 DEF Remembered
  <2>. QED  BY <2>2, <2>3
<1>. QED  BY <1>7, <1>8, <1>10, <1>11 DEF Known

LEMMA KnownRowed ==
  ASSUME Typed, Known, NEW k \in calls, NEW n, ServeEffect(k, n), Rowed(k, n)
  PROVE  Known'
<1>1. /\ k.stage = "committed" /\ n.stage = "ok" /\ origin' \in Recorded(k)
      /\ UNCHANGED <<book, copyOf, odd>> /\ k.src \in Sources /\ k.made \in Books \cup {None}
      /\ calls \ {k} \subseteq calls' /\ calls' \subseteq (calls \ {k}) \cup {n}
  BY DEF Rowed, ServeEffect, Becomes, Typed, CallOK, Call
<1>2. PICK row : row = [book |-> k.made, src |-> k.src]
  OBVIOUS
<1>3. /\ k.made = None => origin' = origin
      /\ k.made # None => row \in origin' /\ \A o \in origin : o.book # k.made => o \in origin'
  BY <1>1, <1>2 DEF Recorded
<1>4. ASSUME NEW s \in Texts, NEW b \in Books, b \in Copies(s), Remembered(b, s)
      PROVE  Remembered(b, s)'
  <2>1. CASE b = k.made
    <3>1. k.made # None /\ WrittenOK(k)
      BY <2>1, ImportAssumption DEF Known
    <3>2. k.src = s
      BY <1>1, <1>4, <2>1, <3>1 DEF WrittenOK, Copies
    <3>. QED  BY <1>2, <1>3, <2>1, <3>1, <3>2 DEF Remembered, Duplicates
  <2>2. CASE b # k.made
    <3>1. CASE b \in Duplicates(s)
      BY <1>3, <2>2, <3>1 DEF Remembered, Duplicates
    <3>2. CASE \E m \in calls : m.stage = "committed" /\ b = m.made
      BY <1>1, <2>2, <3>2 DEF Remembered
    <3>. QED  BY <1>4, <3>1, <3>2 DEF Remembered
  <2>. QED  BY <2>1, <2>2
<1>5. \A m \in calls' : m.stage = "committed" =>
        \E c \in calls : c.stage = "committed" /\ c.made = m.made /\ c.src = m.src
  BY <1>1
<1>. QED  BY <1>1, <1>4, <1>5, KnownKept

LEMMA KnownServe ==
  ASSUME Typed, Known, NEW k \in calls, Serve(k)
  PROVE  Known'
<1>1. PICK n : ServeEffect(k, n)
  BY ServeSteps
<1>2. calls \ {k} \subseteq calls' /\ calls' \subseteq (calls \ {k}) \cup {n} /\ odd \subseteq odd'
  BY <1>1 DEF ServeEffect, Becomes
<1>3. CASE Found(k, n)
  <2>1. k.stage = "sent" /\ n.stage # "committed" /\ UNCHANGED dbVars
    BY <1>3 DEF Found
  <2>. QED  BY <1>2, <2>1, KnownStays
<1>4. CASE Failed(k, n)
  <2>1. /\ n.stage # "committed" /\ UNCHANGED dbVars
        /\ k.stage = "committed" => k.made # None /\ book[k.made] = "none"
    BY <1>4 DEF Failed
  <2>. QED  BY <1>2, <2>1, KnownStays
<1>. QED  BY <1>1, <1>3, <1>4, KnownWritten, KnownRowed DEF ServeEffect

LEMMA KnownReceive ==
  ASSUME Typed, Known, NEW k \in calls, Receive(k) \/ BreakOff(k)
  PROVE  Known'
<1>1. UNCHANGED dbVars /\ odd' = odd
  BY DEF Receive, BreakOff
<1>2. PICK n : n = [k EXCEPT !.wiz = None]
  OBVIOUS
<1>3. n.stage = k.stage /\ n.made = k.made /\ n.src = k.src
  BY <1>2 DEF Typed, CallOK, Call
<1>4. /\ calls \ {k} \subseteq calls' /\ calls' \subseteq (calls \ {k}) \cup {n}
      /\ k.stage = "committed" => n \in calls'
  BY <1>2, <1>3 DEF Receive, BreakOff, Becomes
<1>. QED  BY <1>1, <1>3, <1>4, KnownStays

LEMMA KnownLeave ==
  ASSUME Typed, Known, NEW w \in Wizards, Leave(w)
  PROVE  Known'
<1>1. UNCHANGED dbVars /\ odd' = odd
  BY DEF Leave
<1>2. ASSUME NEW c \in calls, NEW m, m = [c EXCEPT !.wiz = IF c.wiz = w THEN None ELSE c.wiz]
      PROVE  /\ m.stage = c.stage /\ m.made = c.made /\ m.src = c.src
             /\ c.stage = "committed" => m \in calls'
  BY <1>2 DEF Leave, Typed, CallOK, Call
<1>3. \A m \in calls' : \E c \in calls : m = [c EXCEPT !.wiz = IF c.wiz = w THEN None ELSE c.wiz]
  BY DEF Leave
<1>4. \A n \in calls' : n.stage = "committed" =>
        \E k \in calls : k.stage = "committed" /\ k.made = n.made /\ k.src = n.src
  BY <1>2, <1>3
<1>5. \A k \in calls : k.stage = "committed" => \E n \in calls' : n.stage = "committed" /\ n.made = k.made
  BY <1>2
<1>. QED  BY <1>1, <1>4, <1>5, KnownStays

LEMMA KnownRestart ==
  ASSUME Typed, Known, ServerRestart
  PROVE  Known'
<1>1. /\ UNCHANGED dbVars /\ odd \subseteq odd'
      /\ \A k \in calls : k.stage = "committed" => "unrecorded" \in odd'
  BY DEF ServerRestart
<1>2. \A m \in calls' : m.stage # "committed"
  BY DEF ServerRestart, Typed, CallOK, Call
<1>. QED  BY <1>1, <1>2, KnownStays

LEMMA KnownEdit ==
  ASSUME Typed, Known, NEW b \in Books, EditBook(b)
  PROVE  Known'
<1>1. UNCHANGED <<copyOf, calls, odd>>
  BY DEF EditBook
<1>2. \A c \in Books : book'[c] # "none" => book[c] # "none"
  BY DEF EditBook, Typed, StoreOK
<1>3. origin' = {o \in origin : book'[o.book] # "none"}
  BY DEF EditBook
<1>4. ASSUME NEW s \in Texts, NEW c \in Books, book'[c] # "none", Remembered(c, s)
      PROVE  Remembered(c, s)'
  BY <1>1, <1>3, <1>4 DEF Remembered, Duplicates
<1>. QED  BY <1>1, <1>2, <1>4, KnownKept

LEMMA KnownStep ==
  ASSUME Typed, Known, Next
  PROVE  Known'
<1>1. ASSUME NEW w \in Wizards, NEW y, NEW k, Asks(w, y, k)
      PROVE  Known'
  BY <1>1, KnownStays DEF Asks
<1>2. ASSUME NEW w \in Wizards,
             \/ \E s \in Sources : Select(w, s)
             \/ Rerender(w) \/ Retry(w)
             \/ Open(w) /\ wizard[w].st = "detecting"
      PROVE  Known'
  BY <1>1, <1>2, DetectSteps DEF DetectAsk
<1>3. ASSUME NEW w \in Wizards, Import(w) \/ (Open(w) /\ wizard[w].st = "executing")
      PROVE  Known'
  BY <1>1, <1>3, ImportSteps DEF ImportAsk
<1>4. ASSUME NEW w \in Wizards,
             \/ \E replace \in BOOLEAN : ChooseAction(w, replace)
             \/ Cancel(w) \/ Advance(w) \/ Close(w) \/ Another(w)
             \/ Open(w) /\ wizard[w].st \notin {"detecting", "executing"}
      PROVE  Known'
  <2>1. UNCHANGED <<dbVars, calls, odd>>
    BY <1>4, QuietSteps DEF Quiet
  <2>. QED  BY <2>1, KnownStays
<1>5. ASSUME NEW w \in Wizards, Leave(w)
      PROVE  Known'
  BY <1>5, KnownLeave
<1>6. CASE WizardStep
  BY <1>2, <1>3, <1>4, <1>5, <1>6 DEF WizardStep
<1>. QED  BY <1>6, KnownServe, KnownReceive, KnownRestart, KnownEdit DEF Next

LEMMA KnownInit == Init => Known
<1>. SUFFICES ASSUME Init
              PROVE  Known
  OBVIOUS
<1>1. ASSUME NEW b \in Books
      PROVE  /\ copyOf[b] \in [src : Sources, shown : BOOLEAN] \cup {None}
             /\ copyOf[b] # None => Earlier[b] \in Texts /\ copyOf[b].src = Earlier[b]
  BY DEF Init, Texts
<1>2. copyOf \in [Books -> [src : Sources, shown : BOOLEAN] \cup {None}]
  BY <1>1 DEF Init
<1>3. ASSUME NEW s \in Texts, NEW b \in Copies(s)
      PROVE  b \in Duplicates(s)
  <2>1. b \in Books /\ Earlier[b] = s /\ s # None
    BY <1>1, ImportAssumption DEF Copies, Texts
  <2>2. [book |-> b, src |-> s] \in origin
    BY <2>1 DEF Init
  <2>. QED  BY <2>2 DEF Duplicates
<1>4. calls = {}
  BY DEF Init
<1>. QED  BY <1>1, <1>2, <1>3, <1>4 DEF Known, ImportedIsKnown

-----------------------------------------------------------------------------
(* Re-imports are noticed                                                  *)

\* Nothing has happened that the promise excepts.
Plainly == odd \cap {"overlap", "again", "unrecorded"} = {}

\* A request with which a source is on its way to being imported: the import,
\* or the answer of a detection that is waited for.
Active(z, k, s) ==
  /\ k.src = s
  /\ \/ k.kind = "execute" /\ k.stage \in {"sent", "committed"}
     \/ k.kind = "detect" /\ k.stage = "ok" /\ k.wiz # None /\ z[k.wiz].heard = k.id

\* A wizard that shows what was found out about the source.
Looking(z, w, s) == z[w].st \in {"summary", "preview"} /\ z[w].detected = s

\* One at a time: a source is in one request or on one wizard's screen.
Alone(s) ==
  /\ \A k, n \in calls : Active(wizard, k, s) /\ Active(wizard, n, s) => k = n
  /\ \A w, u \in Wizards : Looking(wizard, w, s) /\ Looking(wizard, u, s) => w = u
  /\ \A k \in calls, w \in Wizards : ~(Active(wizard, k, s) /\ Looking(wizard, w, s))

\* Somebody has been told that there is no duplicate, and has not imported yet.
Fresh(k) == k.stage # "committed" /\ k.dup = None
Unaware(s) ==
  \/ \E k \in calls : Active(wizard, k, s) /\ Fresh(k)
  \/ \E w \in Wizards : Looking(wizard, w, s) /\ wizard[w].dup = None

Session(s) ==
  /\ Alone(s)
  /\ Unaware(s) => Copies(s) = {}
  /\ \A b, c \in Copies(s) : ~copyOf[b].shown /\ ~copyOf[c].shown => b = c

Sessions == Plainly => \A s \in Texts : Session(s)

\* Nobody new is on the way to importing the source.
Fewer(s) ==
  /\ \A n \in calls' : Active(wizard', n, s) =>
       \E k \in calls : Active(wizard, k, s) /\ k.id = n.id /\ (Fresh(n) => Fresh(k))
  /\ \A w \in Wizards : Looking(wizard', w, s) => Looking(wizard, w, s) /\ wizard'[w].dup = wizard[w].dup

\* Nor is there a copy more.
NoCopies(s) == \A b \in Copies(s)' : b \in Copies(s) /\ copyOf'[b] = copyOf[b]

LEMMA SameCopies ==
  ASSUME UNCHANGED dbVars, NEW s
  PROVE  NoCopies(s)
BY DEF NoCopies, Copies, dbVars

LEMMA FewerSession ==
  ASSUME Typed', NEW s, Session(s), Fewer(s), NoCopies(s)
  PROVE  Session(s)'
<1>1. Alone(s)'
  <2>1. ASSUME NEW k \in calls', NEW n \in calls', Active(wizard', k, s), Active(wizard', n, s)
        PROVE  k = n
    <3>1. k.id = n.id
      BY <2>1 DEF Fewer, Session, Alone
    <3>. QED  BY <3>1 DEF Typed
  <2>2. \A w, u \in Wizards : Looking(wizard', w, s) /\ Looking(wizard', u, s) => w = u
    BY DEF Fewer, Session, Alone
  <2>3. \A k \in calls', w \in Wizards : ~(Active(wizard', k, s) /\ Looking(wizard', w, s))
    BY DEF Fewer, Session, Alone
  <2>. QED  BY <2>1, <2>2, <2>3 DEF Alone
<1>2. Unaware(s)' => Unaware(s)
  <2>1. ASSUME NEW n \in calls', Active(wizard', n, s), Fresh(n)
        PROVE  Unaware(s)
    BY <2>1 DEF Fewer, Unaware
  <2>2. ASSUME NEW w \in Wizards, Looking(wizard', w, s), wizard'[w].dup = None
        PROVE  Unaware(s)
    BY <2>2 DEF Fewer, Unaware
  <2>. QED  BY <2>1, <2>2 DEF Unaware
<1>3. Unaware(s)' => Copies(s)' = {}
  BY <1>2 DEF Session, NoCopies
<1>4. \A b, c \in Copies(s)' : ~copyOf'[b].shown /\ ~copyOf'[c].shown => b = c
  BY DEF Session, NoCopies
<1>. QED  BY <1>1, <1>3, <1>4 DEF Session

\* A request that goes on without coming nearer to its end.
Fades(k, n) ==
  /\ n.id = k.id /\ n.kind = k.kind /\ n.src = k.src /\ n.dup = k.dup /\ n.wiz \in {k.wiz, None}
  /\ \/ n.stage \in {k.stage, "refused"}
     \/ n.stage = "ok" /\ n.kind = "execute"

LEMMA FadesFewer ==
  ASSUME Typed, NEW s,
         \A n \in calls' : ~Active(wizard', n, s) \/ \E k \in calls : Fades(k, n),
         \A u \in Wizards : wizard'[u].heard \in {None, wizard[u].heard, sent + 1},
         \A w \in Wizards : Looking(wizard', w, s) =>
           Looking(wizard, w, s) /\ wizard'[w].dup = wizard[w].dup
  PROVE  Fewer(s)
<1>1. ASSUME NEW n \in calls', Active(wizard', n, s)
      PROVE  \E k \in calls : Active(wizard, k, s) /\ k.id = n.id /\ (Fresh(n) => Fresh(k))
  <2>1. PICK k \in calls : Fades(k, n)
    BY <1>1
  <2>2. k \in Call /\ k.id \in 1..sent /\ sent \in Nat
    BY ImportAssumption DEF Typed, CallOK
  <2>3. k.id # None /\ k.id # sent + 1
    BY <2>2, ImportAssumption
  <2>4. CASE k.kind = "execute"
    BY <1>1, <2>1, <2>2, <2>4 DEF Active, Fades, Fresh, Call
  <2>5. CASE k.kind = "detect"
    <3>1. n.wiz # None /\ n.wiz = k.wiz /\ k.wiz \in Wizards /\ wizard'[k.wiz].heard = k.id /\ n.stage = "ok"
      BY <1>1, <2>1, <2>2, <2>5 DEF Active, Fades, Call
    <3>2. wizard[k.wiz].heard = k.id /\ k.stage = "ok"
      BY <2>1, <2>3, <2>5, <3>1 DEF Fades
    <3>. QED  BY <1>1, <2>1, <2>5, <3>1, <3>2 DEF Active, Fades, Fresh
  <2>. QED  BY <2>2, <2>4, <2>5 DEF Call
<1>. QED  BY <1>1 DEF Fewer

LEMMA FadesSession ==
  ASSUME Typed, Typed', NEW s, Session(s), NoCopies(s),
         \A n \in calls' : ~Active(wizard', n, s) \/ \E k \in calls : Fades(k, n),
         \A u \in Wizards : wizard'[u].heard \in {None, wizard[u].heard, sent + 1},
         \A w \in Wizards : Looking(wizard', w, s) =>
           Looking(wizard, w, s) /\ wizard'[w].dup = wizard[w].dup
  PROVE  Session(s)'
BY FadesFewer, FewerSession

LEMMA FadesSelf ==
  ASSUME NEW k
  PROVE  Fades(k, k)
BY DEF Fades

LEMMA SessionDetect ==
  ASSUME Typed, Typed', NEW s \in Texts, Session(s), NEW w \in Wizards, NEW y, NEW k, DetectAsk(w, y, k)
  PROVE  Session(s)'
<1>1. /\ wizard' = [wizard EXCEPT ![w] = y] /\ calls' = calls \cup {k} /\ k.kind = "detect"
      /\ k.stage = "sent" /\ y.st = "detecting" /\ y.heard = sent + 1 /\ UNCHANGED dbVars
  BY DEF DetectAsk, Asks
<1>2. \A u \in Wizards : wizard'[u] = IF u = w THEN y ELSE wizard[u]
  BY <1>1 DEF Typed
<1>3. \A n \in calls' : ~Active(wizard', n, s) \/ \E c \in calls : Fades(c, n)
  BY <1>1, FadesSelf DEF Active
<1>4. \A u \in Wizards : wizard'[u].heard \in {None, wizard[u].heard, sent + 1}
  BY <1>1, <1>2
<1>5. \A u \in Wizards : Looking(wizard', u, s) => Looking(wizard, u, s) /\ wizard'[u].dup = wizard[u].dup
  BY <1>1, <1>2 DEF Looking
<1>6. NoCopies(s)
  BY <1>1, SameCopies
<1>. QED  BY <1>3, <1>4, <1>5, <1>6, FadesSession

LEMMA SessionImport ==
  ASSUME Typed, Typed', NEW s \in Texts, Session(s), Plainly',
         NEW w \in Wizards, NEW y, NEW k, ImportAsk(w, y, k)
  PROVE  Session(s)'
<1>1. /\ wizard' = [wizard EXCEPT ![w] = y] /\ calls' = calls \cup {k} /\ k.kind = "execute"
      /\ k.stage = "sent" /\ k.src = wizard[w].detected /\ k.dup = wizard[w].dup
      /\ y.st = "executing" /\ y.heard = None /\ UNCHANGED dbVars
      /\ wizard[w].st = "preview"
  BY DEF ImportAsk, Asks, Plainly
<1>2. \A u \in Wizards : wizard'[u] = IF u = w THEN y ELSE wizard[u]
  BY <1>1 DEF Typed
<1>3. \A u \in Wizards : wizard'[u].heard \in {None, wizard[u].heard, sent + 1}
  BY <1>1, <1>2
<1>4. \A u \in Wizards : Looking(wizard', u, s) => u # w /\ Looking(wizard, u, s) /\ wizard'[u].dup = wizard[u].dup
  BY <1>1, <1>2 DEF Looking
<1>5. NoCopies(s)
  BY <1>1, SameCopies
<1>6. CASE k.src # s
  <2>1. \A n \in calls' : ~Active(wizard', n, s) \/ \E c \in calls : Fades(c, n)
    BY <1>1, <1>6, FadesSelf DEF Active
  <2>. QED  BY <1>3, <1>4, <1>5, <2>1, FadesSession
<1>7. CASE k.src = s
  <2>1. Looking(wizard, w, s)
    BY <1>1, <1>7 DEF Looking
  <2>2. /\ \A n \in calls : ~Active(wizard, n, s)
        /\ \A u \in Wizards : Looking(wizard, u, s) => u = w
    BY <2>1 DEF Session, Alone
  <2>3. ASSUME NEW n \in calls
        PROVE  ~Active(wizard', n, s)
    <3>1. n \in Call /\ n.id # None
      BY ImportAssumption DEF Typed, CallOK
    <3>2. n.wiz # None => n.wiz \in Wizards
      BY <3>1 DEF Call
    <3>3. ~Active(wizard, n, s)
      BY <2>2
    <3>. QED  BY <1>1, <1>2, <3>1, <3>2, <3>3 DEF Active
  <2>4. \A n \in calls' : Active(wizard', n, s) => n = k
    BY <1>1, <2>3
  <2>5. \A u \in Wizards : ~Looking(wizard', u, s)
    BY <1>4, <2>2
  <2>6. Alone(s)'
    BY <2>4, <2>5 DEF Alone
  <2>7. Unaware(s)' => Unaware(s)
    BY <1>1, <2>1, <2>4, <2>5 DEF Unaware, Fresh
  <2>. QED  BY <1>5, <2>6, <2>7 DEF Session, NoCopies
<1>. QED  BY <1>6, <1>7

LEMMA SessionQuiet ==
  ASSUME Typed, Typed', NEW s \in Texts, Session(s), NEW w \in Wizards, NEW y, Quiet(w, y)
  PROVE  Session(s)'
<1>1. wizard' = [wizard EXCEPT ![w] = y] /\ calls' = calls /\ UNCHANGED dbVars
  BY DEF Quiet
<1>2. \A u \in Wizards : wizard'[u] = IF u = w THEN y ELSE wizard[u]
  BY <1>1 DEF Typed
<1>3. \A u \in Wizards : wizard'[u].heard \in {None, wizard[u].heard, sent + 1}
  BY <1>2 DEF Quiet
<1>4. \A u \in Wizards : Looking(wizard', u, s) => Looking(wizard, u, s) /\ wizard'[u].dup = wizard[u].dup
  BY <1>2 DEF Looking, Quiet
<1>5. NoCopies(s)
  BY <1>1, SameCopies
<1>6. \A n \in calls' : ~Active(wizard', n, s) \/ \E c \in calls : Fades(c, n)
  BY <1>1, FadesSelf
<1>. QED  BY <1>3, <1>4, <1>5, <1>6, FadesSession

LEMMA SessionLeave ==
  ASSUME Typed, Typed', NEW s \in Texts, Session(s), NEW w \in Wizards, Leave(w)
  PROVE  Session(s)'
<1>1. wizard' = [wizard EXCEPT ![w] = Blank] /\ UNCHANGED dbVars
  BY DEF Leave, Sets
<1>2. \A u \in Wizards : wizard'[u] = IF u = w THEN Blank ELSE wizard[u]
  BY <1>1 DEF Typed
<1>3. \A u \in Wizards : wizard'[u].heard \in {None, wizard[u].heard, sent + 1}
  BY <1>2, BlankWizard
<1>4. \A u \in Wizards : Looking(wizard', u, s) => Looking(wizard, u, s) /\ wizard'[u].dup = wizard[u].dup
  BY <1>2, BlankWizard DEF Looking
<1>5. NoCopies(s)
  BY <1>1, SameCopies
<1>6. ASSUME NEW n \in calls'
      PROVE  \E c \in calls : Fades(c, n)
  <2>1. PICK c \in calls : n = [c EXCEPT !.wiz = IF c.wiz = w THEN None ELSE c.wiz]
    BY DEF Leave
  <2>. QED  BY <2>1 DEF Typed, CallOK, Call, Fades
<1>. QED  BY <1>3, <1>4, <1>5, <1>6, FadesSession

LEMMA SessionRestart ==
  ASSUME Typed, Typed', NEW s \in Texts, Session(s), ServerRestart
  PROVE  Session(s)'
<1>1. wizard' = wizard /\ UNCHANGED dbVars
  BY DEF ServerRestart
<1>2. NoCopies(s)
  BY <1>1, SameCopies
<1>3. ASSUME NEW n \in calls'
      PROVE  \E c \in calls : Fades(c, n)
  <2>1. PICK c \in calls : n = [c EXCEPT !.stage = IF c.stage = "ok" THEN c.stage ELSE "refused"]
    BY DEF ServerRestart
  <2>. QED  BY <2>1 DEF Typed, CallOK, Call, Fades
<1>. QED  BY <1>1, <1>2, <1>3, FadesSession DEF Looking

LEMMA SessionEdit ==
  ASSUME Typed, Typed', NEW s \in Texts, Session(s), NEW b \in Books, EditBook(b)
  PROVE  Session(s)'
<1>1. wizard' = wizard /\ calls' = calls /\ copyOf' = copyOf
  BY DEF EditBook
<1>2. \A c \in Books : book'[c] # "none" => book[c] # "none"
  BY DEF EditBook, Typed, StoreOK
<1>3. NoCopies(s)
  BY <1>1, <1>2 DEF NoCopies, Copies
<1>4. \A n \in calls' : \E c \in calls : Fades(c, n)
  BY <1>1, FadesSelf
<1>. QED  BY <1>1, <1>3, <1>4, FadesSession DEF Looking

LEMMA SessionReceive ==
  ASSUME Typed, Typed', NEW s \in Texts, Session(s), NEW k \in calls, Receive(k) \/ BreakOff(k)
  PROVE  Session(s)'
<1>1. UNCHANGED dbVars
  BY DEF Receive, BreakOff
<1>2. PICK n : n = [k EXCEPT !.wiz = None]
  OBVIOUS
<1>3. k \in Call /\ Fades(k, n) /\ n.wiz = None
  BY <1>2 DEF Typed, CallOK, Call, Fades
<1>4. calls' \subseteq (calls \ {k}) \cup {n} /\ (Receive(k) => calls' = calls \ {k})
  BY <1>2 DEF Receive, BreakOff, Becomes
<1>5. \A m \in calls' : \E c \in calls : Fades(c, m)
  BY <1>3, <1>4, FadesSelf
<1>6. NoCopies(s)
  BY <1>1, SameCopies
<1>7. CASE wizard' = wizard
  BY <1>5, <1>6, <1>7, FadesSession DEF Looking
<1>8. ASSUME NEW y, Answer(k.wiz, y, k)
      PROVE  Session(s)'
  <2>1. PICK w \in Wizards : w = k.wiz
    BY <1>8 DEF Answer
  <2>2. /\ wizard' = [wizard EXCEPT ![w] = y] /\ y.heard = None /\ y.st \in {"summary", "success", "error"}
        /\ y.st = "summary" => k.kind = "detect" /\ k.stage = "ok" /\ y.detected = k.src /\ y.dup = k.dup
        /\ k.wiz = w /\ w # None
    BY <1>8, <2>1, ImportAssumption DEF Answer
  <2>3. \A u \in Wizards : wizard'[u] = IF u = w THEN y ELSE wizard[u]
    BY <2>2 DEF Typed
  <2>4. \A u \in Wizards : wizard'[u].heard \in {None, wizard[u].heard, sent + 1}
    BY <2>2, <2>3
  <2>5. CASE ~Looking(wizard', w, s)
    <3>1. \A u \in Wizards : Looking(wizard', u, s) => Looking(wizard, u, s) /\ wizard'[u].dup = wizard[u].dup
      BY <2>3, <2>5 DEF Looking
    <3>. QED  BY <1>5, <1>6, <2>4, <3>1, FadesSession
  <2>6. CASE Looking(wizard', w, s)
    <3>1. k.kind = "detect" /\ k.stage = "ok" /\ k.src = s /\ y.dup = k.dup
      BY <2>2, <2>3, <2>6 DEF Looking
    <3>2. Active(wizard, k, s)
      BY <1>8, <2>1, <2>2, <3>1 DEF Active, Answer, Heard
    <3>3. /\ \A m \in calls : Active(wizard, m, s) => m = k
          /\ \A u \in Wizards : ~Looking(wizard, u, s)
      BY <3>2 DEF Session, Alone
    <3>4. ASSUME NEW m \in calls'
          PROVE  ~Active(wizard', m, s)
      <4>1. CASE m = n
        BY <1>2, <1>3, <3>1, <4>1 DEF Active, Fades
      <4>2. CASE m # n
        <5>1. m \in calls /\ m # k /\ ~Active(wizard, m, s)
          BY <1>4, <3>3, <4>2
        <5>2. m \in Call /\ m.id # None
          BY <5>1, ImportAssumption DEF Typed, CallOK
        <5>3. m.wiz # None => m.wiz \in Wizards
          BY <5>2 DEF Call
        <5>. QED  BY <2>2, <2>3, <5>1, <5>2, <5>3 DEF Active
      <4>. QED  BY <4>1, <4>2
    <3>5. \A u \in Wizards : Looking(wizard', u, s) => u = w
      BY <2>3, <3>3 DEF Looking
    <3>6. Alone(s)'
      BY <3>4, <3>5 DEF Alone
    <3>7. Unaware(s)' => k.dup = None
      BY <2>3, <3>1, <3>4, <3>5 DEF Unaware
    <3>8. k.dup = None => Unaware(s)
      BY <3>1, <3>2 DEF Unaware, Fresh
    <3>. QED  BY <1>6, <3>6, <3>7, <3>8 DEF Session, NoCopies
  <2>. QED  BY <2>5, <2>6
<1>. QED  BY <1>7, <1>8, AnswerSteps

\* A detection that overlaps no other and finds nothing: there is nothing.
LEMMA NothingFound ==
  ASSUME Typed, Known, Plainly, NEW k \in calls, k.kind = "detect", ~Overlaps(k), k.src \in Texts,
         Duplicates(k.src) = {}
  PROVE  Copies(k.src) = {}
<1>. SUFFICES ASSUME NEW b \in Copies(k.src)
              PROVE  FALSE
  OBVIOUS
<1>1. b \in Books /\ copyOf[b] # None /\ copyOf[b].src = k.src
  BY DEF Copies
<1>2. Remembered(b, k.src)
  BY KnownByAll DEF Plainly
<1>3. PICK c \in calls : c.stage = "committed" /\ b = c.made
  BY <1>2 DEF Remembered
<1>4. c.made # None /\ c.kind = "execute"
  BY <1>1, <1>3, ImportAssumption DEF Typed, CallOK, Call
<1>5. c.src = k.src
  BY <1>1, <1>3, <1>4 DEF Known, WrittenOK
<1>. QED  BY <1>3, <1>4, <1>5 DEF Overlaps

LEMMA SessionFound ==
  ASSUME Typed, Typed', Known, Plainly, Plainly', NEW s \in Texts, Session(s),
         NEW k \in calls, NEW n, ServeEffect(k, n), Found(k, n)
  PROVE  Session(s)'
<1>1. /\ wizard' = wizard /\ calls' \subseteq (calls \ {k}) \cup {n} /\ UNCHANGED dbVars
      /\ k.kind = "detect" /\ n.id = k.id /\ n.kind = k.kind /\ n.wiz = k.wiz /\ n.src = k.src
      /\ n.stage = "ok" /\ n.dup = None => Duplicates(k.src) = {}
      /\ ~Overlaps(k)
  BY DEF ServeEffect, Becomes, Found, SameCall, Plainly
<1>2. NoCopies(s)
  BY <1>1, SameCopies
<1>3. CASE ~Active(wizard, n, s)
  <2>1. \A m \in calls' : ~Active(wizard', m, s) \/ \E c \in calls : Fades(c, m)
    BY <1>1, <1>3, FadesSelf
  <2>. QED  BY <1>1, <1>2, <2>1, FadesSession DEF Looking
<1>4. CASE Active(wizard, n, s)
  <2>1. n.stage = "ok" /\ k.src = s /\ n.wiz # None /\ wizard[n.wiz].heard = n.id
    BY <1>1, <1>4 DEF Active
  <2>2. k \in Call /\ k.wiz \in Wizards /\ k.id # None /\ MachineOK(wizard[k.wiz])
    BY <1>1, <2>1, ImportAssumption DEF Typed, CallOK, Call
  <2>3. ASSUME NEW m \in calls, m # k
        PROVE  ~Active(wizard, m, s)
    <3>1. ~(m.kind = "execute" /\ m.stage \in {"sent", "committed"} /\ m.src = s)
      BY <1>1, <2>1, <2>3 DEF Overlaps
    <3>2. ~(m.kind = "detect" /\ m.stage = "ok" /\ m.src = s /\ m.wiz # k.wiz /\ Heard(m))
      BY <1>1, <2>1, <2>3 DEF Overlaps
    <3>3. m.id # k.id
      BY <2>3 DEF Typed
    <3>. QED  BY <1>1, <2>1, <3>1, <3>2, <3>3 DEF Active, Heard
  <2>4. ASSUME NEW u \in Wizards
        PROVE  ~Looking(wizard, u, s)
    <3>1. CASE u = k.wiz
      BY <1>1, <2>1, <2>2, <3>1 DEF MachineOK, Looking
    <3>2. CASE u # k.wiz
      BY <1>1, <2>1, <3>2 DEF Overlaps, Looking
    <3>. QED  BY <3>1, <3>2
  <2>5. \A m \in calls' : Active(wizard', m, s) => m = n
    BY <1>1, <2>3
  <2>6. \A u \in Wizards : ~Looking(wizard', u, s)
    BY <1>1, <2>4
  <2>7. Alone(s)'
    BY <2>5, <2>6 DEF Alone
  <2>8. Unaware(s)' => Copies(s) = {}
    <3>1. Unaware(s)' => n.dup = None
      BY <2>5, <2>6 DEF Unaware, Fresh
    <3>. QED  BY <1>1, <2>1, <3>1, NothingFound
  <2>. QED  BY <1>2, <2>7, <2>8 DEF Session, NoCopies
<1>. QED  BY <1>3, <1>4

LEMMA SessionWritten ==
  ASSUME Typed, Typed', NEW s \in Texts, Session(s),
         NEW k \in calls, NEW n, ServeEffect(k, n), Written(k, n)
  PROVE  Session(s)'
<1>1. /\ wizard' = wizard /\ calls' = (calls \ {k}) \cup {n}
      /\ k.kind = "execute" /\ k.stage = "sent" /\ n.kind = k.kind /\ n.src = k.src
      /\ n.stage = "committed" /\ k.src \in Sources
  BY DEF ServeEffect, Becomes, Written, SameCall, Typed, CallOK
<1>2. PICK made : made = n.made
  OBVIOUS
<1>3. \A b \in Books : b # made => copyOf'[b] = copyOf[b] /\ (book'[b] # "none" => book[b] # "none")
  BY <1>2 DEF Written, Writes
<1>4. CASE k.src # s
  <2>1. NoCopies(s)
    <3>1. ASSUME NEW b \in Copies(s)'
          PROVE  b # made
      <4>1. b \in Books /\ copyOf'[b] # None /\ copyOf'[b].src = s
        BY DEF Copies
      <4>2. b = made => copyOf'[b] = IF k.src \in Texts THEN [src |-> k.src, shown |-> k.dup # None] ELSE None
        BY <1>2, <4>1 DEF Written, Writes
      <4>. QED  BY <1>4, <4>1, <4>2
    <3>. QED  BY <1>3, <3>1 DEF NoCopies, Copies
  <2>2. \A m \in calls' : ~Active(wizard', m, s) \/ \E c \in calls : Fades(c, m)
    BY <1>1, <1>4, FadesSelf DEF Active
  <2>. QED  BY <1>1, <2>1, <2>2, FadesSession DEF Looking
<1>5. CASE k.src = s
  <2>1. Active(wizard, k, s)
    BY <1>1, <1>5 DEF Active
  <2>2. /\ \A m \in calls : Active(wizard, m, s) => m = k
        /\ \A u \in Wizards : ~Looking(wizard, u, s)
    BY <2>1 DEF Session, Alone
  <2>3. \A m \in calls' : Active(wizard', m, s) => m = n
    BY <1>1, <2>2
  <2>4. \A u \in Wizards : ~Looking(wizard', u, s)
    BY <1>1, <2>2
  <2>5. Alone(s)'
    BY <2>3, <2>4 DEF Alone
  <2>6. ~Unaware(s)'
    BY <1>1, <2>3, <2>4 DEF Unaware, Fresh
  <2>7. made \in Books => copyOf'[made].shown = (k.dup # None)
    <3>1. made \in Books => copyOf'[made] = [src |-> k.src, shown |-> k.dup # None]
      BY <1>2, <1>5 DEF Written, Writes
    <3>. QED  BY <3>1
  <2>8. \A b \in Copies(s)' : b # made => b \in Copies(s) /\ copyOf'[b] = copyOf[b]
    BY <1>3 DEF Copies
  <2>9. \A b \in Copies(s)' : b \in Books
    BY DEF Copies
  <2>10. \A b, c \in Copies(s)' : ~copyOf'[b].shown /\ ~copyOf'[c].shown => b = c
    <3>1. CASE k.dup = None
      <4>1. Copies(s) = {}
        BY <1>1, <2>1, <3>1 DEF Session, Unaware, Fresh
      <4>. QED  BY <2>8, <4>1
    <3>2. CASE k.dup # None
      <4>1. \A b \in Copies(s)' : ~copyOf'[b].shown => b # made
        BY <2>7, <2>9, <3>2
      <4>. QED  BY <2>8, <4>1 DEF Session
    <3>. QED  BY <3>1, <3>2
  <2>. QED  BY <2>5, <2>6, <2>10 DEF Session
<1>. QED  BY <1>4, <1>5

LEMMA SessionServe ==
  ASSUME Typed, Typed', Known, Plainly, Plainly', NEW s \in Texts, Session(s), NEW k \in calls, Serve(k)
  PROVE  Session(s)'
<1>1. PICK n : ServeEffect(k, n)
  BY ServeSteps
<1>2. CASE Failed(k, n) \/ Rowed(k, n)
  <2>1. /\ wizard' = wizard /\ calls' \subseteq (calls \ {k}) \cup {n} /\ UNCHANGED <<book, copyOf>>
        /\ Fades(k, n)
    BY <1>1, <1>2 DEF ServeEffect, Becomes, Failed, Rowed, SameCall, Fades, dbVars, Typed, CallOK, Call
  <2>2. NoCopies(s)
    BY <2>1 DEF NoCopies, Copies
  <2>3. \A m \in calls' : \E c \in calls : Fades(c, m)
    BY <2>1, FadesSelf
  <2>. QED  BY <2>1, <2>2, <2>3, FadesSession DEF Looking
<1>. QED  BY <1>1, <1>2, SessionFound, SessionWritten DEF ServeEffect

LEMMA SessionStep ==
  ASSUME Typed, Typed', Known, Plainly, Plainly', NEW s \in Texts, Session(s), Next
  PROVE  Session(s)'
<1>1. ASSUME NEW w \in Wizards,
             \/ \E t \in Sources : Select(w, t)
             \/ Rerender(w) \/ Retry(w)
             \/ Open(w) /\ wizard[w].st = "detecting"
      PROVE  Session(s)'
  BY <1>1, DetectSteps, SessionDetect
<1>2. ASSUME NEW w \in Wizards, Import(w) \/ (Open(w) /\ wizard[w].st = "executing")
      PROVE  Session(s)'
  BY <1>2, ImportSteps, SessionImport
<1>3. ASSUME NEW w \in Wizards,
             \/ \E replace \in BOOLEAN : ChooseAction(w, replace)
             \/ Cancel(w) \/ Advance(w) \/ Close(w) \/ Another(w)
             \/ Open(w) /\ wizard[w].st \notin {"detecting", "executing"}
      PROVE  Session(s)'
  BY <1>3, QuietSteps, SessionQuiet
<1>4. ASSUME NEW w \in Wizards, Leave(w)
      PROVE  Session(s)'
  BY <1>4, SessionLeave
<1>5. CASE WizardStep
  BY <1>1, <1>2, <1>3, <1>4, <1>5 DEF WizardStep
<1>. QED  BY <1>5, SessionServe, SessionReceive, SessionRestart, SessionEdit DEF Next

\* What is excepted once stays so.
LEMMA OddGrows ==
  ASSUME Typed, Next
  PROVE  odd \subseteq odd'
<1>1. ASSUME NEW w \in Wizards,
             \/ \E s \in Sources : Select(w, s)
             \/ Rerender(w) \/ Retry(w)
             \/ Open(w) /\ wizard[w].st = "detecting"
      PROVE  odd \subseteq odd'
  BY <1>1, DetectSteps DEF DetectAsk, Asks
<1>2. ASSUME NEW w \in Wizards, Import(w) \/ (Open(w) /\ wizard[w].st = "executing")
      PROVE  odd \subseteq odd'
  BY <1>2, ImportSteps DEF ImportAsk, Asks
<1>3. ASSUME NEW w \in Wizards,
             \/ \E replace \in BOOLEAN : ChooseAction(w, replace)
             \/ Cancel(w) \/ Advance(w) \/ Close(w) \/ Another(w)
             \/ Open(w) /\ wizard[w].st \notin {"detecting", "executing"}
      PROVE  odd \subseteq odd'
  BY <1>3, QuietSteps DEF Quiet
<1>4. CASE WizardStep
  BY <1>1, <1>2, <1>3, <1>4 DEF WizardStep, Leave
<1>5. ASSUME NEW k \in calls, Serve(k)
      PROVE  odd \subseteq odd'
  BY <1>5, ServeSteps DEF ServeEffect
<1>. QED  BY <1>4, <1>5 DEF Next, Receive, BreakOff, ServerRestart, EditBook

LEMMA SessionInit == Init => Sessions
<1>. SUFFICES ASSUME Init, NEW s \in Texts
              PROVE  Session(s)
  BY DEF Sessions
<1>1. calls = {} /\ \A w \in Wizards : ~Looking(wizard, w, s)
  BY BlankWizard DEF Init, Looking
<1>2. PICK first : first = CHOOSE c \in Books : Earlier[c] = s
  OBVIOUS
<1>3. ASSUME NEW b \in Copies(s), ~copyOf[b].shown
      PROVE  b = first
  <2>1. b \in Books /\ Earlier[b] \in Texts /\ copyOf[b].src = s
    BY DEF Copies, Init, Texts
  <2>2. copyOf[b] = [src |-> Earlier[b], shown |-> b # CHOOSE c \in Books : Earlier[c] = Earlier[b]]
    BY <2>1 DEF Init
  <2>3. Earlier[b] = s /\ b = CHOOSE c \in Books : Earlier[c] = Earlier[b]
    BY <1>3, <2>1, <2>2
  <2>. QED  BY <1>2, <2>3
<1>. QED  BY <1>1, <1>3 DEF Session, Alone, Unaware

LEMMA SessionsAlways == Spec => [](Typed /\ Known /\ Sessions)
<1>1. Typed /\ Known /\ UNCHANGED vars => Known'
  BY DEF vars, dbVars, Known, WrittenOK, ImportedIsKnown, Copies, Duplicates
<1>2. Spec => []Known
  BY <1>1, KnownInit, KnownStep, TypedAlways, PTL DEF Spec
<1>3. Typed /\ Typed' /\ Known /\ Sessions /\ [Next]_vars => Sessions'
  <2>1. ASSUME Typed, Typed', Known, Sessions, Next
        PROVE  Sessions'
    <3>. SUFFICES ASSUME Plainly', NEW s \in Texts
                  PROVE  Session(s)'
      BY DEF Sessions
    <3>1. Plainly
      BY <2>1, OddGrows DEF Plainly
    <3>. QED  BY <2>1, <3>1, SessionStep DEF Sessions
  <2>2. Typed /\ Typed' /\ Sessions /\ UNCHANGED vars => Sessions'
    BY DEF vars, dbVars, Sessions, Plainly, Session, Alone, Unaware, Copies, Active, Looking
  <2>. QED  BY <2>1, <2>2
<1>. QED  BY <1>2, <1>3, SessionInit, TypedAlways, PTL DEF Spec

\* Imports are remembered: each is known to the next detection, or about to
\* be, and no text is imported twice without its user having been told.
THEOREM ReimportsNoticed == Spec => []ReimportsAreNoticed
<1>1. Known => ImportedIsKnown
  BY DEF Known
<1>2. ASSUME Sessions
      PROVE  NoSilentDuplicate
  <2>. SUFFICES ASSUME Plainly, NEW s \in Texts
                PROVE  Cardinality({b \in Copies(s) : ~copyOf[b].shown}) <= 1
    BY DEF NoSilentDuplicate, Plainly
  <2>1. PICK C : C = {b \in Copies(s) : ~copyOf[b].shown}
    OBVIOUS
  <2>2. \A b, c \in C : b = c
    BY <1>2, <2>1 DEF Sessions, Session
  <2>3. CASE C = {}
    <3>1. Cardinality(C) = 0
      BY <2>3, FS_EmptySet
    <3>. QED  BY <2>1, <3>1
  <2>4. CASE C # {}
    <3>1. PICK b : C = {b}
      BY <2>2, <2>4
    <3>2. Cardinality(C) = 1
      BY <3>1, FS_Singleton
    <3>. QED  BY <2>1, <3>2
  <2>. QED  BY <2>3, <2>4
<1>. QED  BY <1>1, <1>2, SessionsAlways, PTL DEF ReimportsAreNoticed

=============================================================================
