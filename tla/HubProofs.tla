------------------------------- MODULE HubProofs -------------------------------
(***************************************************************************)
(* Theorems about WebSocketHub, and about it as a part of MCShell, for any *)
(* sets of topics, connections, hooks and broadcasting coroutines, any     *)
(* number of retries and any bound.                                        *)
(***************************************************************************)
EXTENDS MCShell, FiniteSetTheorems, TLAPS

\* Whoever has a handler named its topic; a hook that has a connection or
\* waits for the next attempt has a topic, and it never has both.
NamedTopics ==
  /\ \A s \in Sockets : sock[s].srv # "none" => sock[s].topic \in Topics
  /\ \A h \in Hooks : /\ hook[h].ws # None \/ hook[h].timer => hook[h].topic \in Topics
                      /\ hook[h].timer => hook[h].ws = None

\* A broadcast at work has started with a listener.
CastInv ==
  \A b \in Senders : cast[b].st = "sending" =>
    cast[b].topic \in Topics /\ cast[b].at \in Sockets /\ cast[b].start # {}

\* What it takes away at its end is down and has not been used again since.
DeadAreDown == \A b \in Senders : cast[b].st = "sending" => \A s \in cast[b].dead : ~sock[s].up

\* The inductive invariant of the hub.
HubInv == HubTypeOK /\ NamedTopics /\ CastInv /\ NoGhosts /\ OneConnection

-----------------------------------------------------------------------------
(* Lemmas on the helpers                                                   *)

\* A new connection is one that no handler, hook or broadcast still holds.
LEMMA FreshIsUnused ==
  ASSUME CanConnect
  PROVE  Fresh \in Sockets /\ ~Busy(Fresh)
BY DEF CanConnect, Fresh

\* A broadcast that goes on to its end has the live set of its topic before it:
\* from a detached set it raises.
LEMMA FinishesAttached ==
  ASSUME HubTypeOK, NEW b \in Senders, CastInv, cast[b].st = "sending", ~Disturbed(b)
  PROVE  cast[b].attached /\ Conns(b) = subs[cast[b].topic]
<1>1. cast[b].start \in SUBSET Sockets /\ cast[b].start # {}
  BY DEF HubTypeOK, Broadcast, CastInv
<1>2. IsFiniteSet(cast[b].start) /\ Cardinality(cast[b].start) # 0
  BY <1>1, HubAssumption, FS_Subset, FS_EmptySet
<1>3. Conns(b) # {}
  BY <1>2, FS_EmptySet DEF Disturbed
<1>4. cast[b].attached
  BY <1>3 DEF Conns
<1>. QED  BY <1>4 DEF Conns

\* The ways a send may end: the broadcast raises, goes on with a member of the
\* set, or ends and removes its dead connections from its topic.
LEMMA SentCases ==
  ASSUME HubTypeOK, CastInv, NEW b \in Senders, NEW ok \in BOOLEAN, Sent(b, ok)
  PROVE  LET c    == cast[b]
             sent == IF ok THEN c.sent \cup {c.at} ELSE c.sent
             dead == IF ok THEN c.dead ELSE c.dead \cup {c.at}
         IN /\ c.st = "sending" /\ UNCHANGED <<sock, hook, hSteps>>
            /\ ~ok => SendFails(c.at)
            /\ \/ /\ subs' = subs
                  /\ cast' = [cast EXCEPT ![b] = [NoCast EXCEPT !.st = "raised"]]
               \/ /\ subs' = subs
                  /\ \E s \in Sockets :
                       cast' = [cast EXCEPT ![b] = [cast[b] EXCEPT !.at = s, !.sent = sent, !.dead = dead]]
               \/ /\ subs' = [subs EXCEPT ![c.topic] = @ \ dead]
                  /\ cast' = [Casts(subs') EXCEPT ![b] = NoCast]
<1>. DEFINE sent == IF ok THEN cast[b].sent \cup {cast[b].at} ELSE cast[b].sent
            dead == IF ok THEN cast[b].dead ELSE cast[b].dead \cup {cast[b].at}
            raises == /\ subs' = subs
                      /\ cast' = [cast EXCEPT ![b] = [NoCast EXCEPT !.st = "raised"]]
            goesOn(s) == /\ subs' = subs
                         /\ cast' = [cast EXCEPT ![b].at = s, ![b].sent = sent, ![b].dead = dead]
<1>0. \A s : [cast EXCEPT ![b].at = s, ![b].sent = sent, ![b].dead = dead]
              = [cast EXCEPT ![b] = [cast[b] EXCEPT !.at = s, !.sent = sent, !.dead = dead]]
  BY DEF HubTypeOK
<1>1. /\ cast[b].st = "sending" /\ UNCHANGED <<sock, hook, hSteps>>
      /\ ~ok => SendFails(cast[b].at)
  BY DEF Sent
<1>2. PICK next \in Nexts(b, sent \cup dead) :
        CASE next = None -> Finishes(b, dead)
          [] next = "raised" -> raises
          [] OTHER -> goesOn(next)
  BY DEF Sent
<1>3. CASE Disturbed(b)
  <2>1. next = "raised"  BY <1>2, <1>3 DEF Nexts
  <2>2. raises  BY <1>2, <2>1, HubAssumption
  <2>. QED  BY <1>1, <2>2
<1>4. CASE ~Disturbed(b)
  <2>1. Conns(b) = subs[cast[b].topic] /\ cast[b].topic \in Topics
    BY <1>1, <1>4, FinishesAttached DEF CastInv
  <2>2. next \in Conns(b) \cup {None}
    BY <1>2, <1>4 DEF Nexts
  <2>3. CASE next = None
    <3>1. Finishes(b, dead)  BY <1>2, <2>3, HubAssumption
    <3>2. subs' = [subs EXCEPT ![cast[b].topic] = @ \ dead]
      BY <2>1, <3>1 DEF Finishes, HubTypeOK
    <3>. QED  BY <1>1, <3>1, <3>2 DEF Finishes
  <2>4. CASE next # None
    <3>1. next \in Sockets  BY <2>1, <2>2, <2>4 DEF HubTypeOK
    <3>2. raises \/ goesOn(next)  BY <1>2, <2>4
    <3>. QED  BY ZenonT(40), <1>0, <1>1, <3>1, <3>2
  <2>. QED  BY <2>3, <2>4
<1>. QED  BY <1>3, <1>4
\* Detaching changes nothing of a broadcast but that.
LEMMA CastsDetach ==
  ASSUME HubTypeOK, NEW new
  PROVE  /\ Casts(new) \in [Senders -> Broadcast]
         /\ \A b \in Senders : /\ Casts(new)[b].st = cast[b].st /\ Casts(new)[b].topic = cast[b].topic
                               /\ Casts(new)[b].at = cast[b].at /\ Casts(new)[b].start = cast[b].start
                               /\ Casts(new)[b].dead = cast[b].dead
<1>1. \A b \in Senders : [cast[b] EXCEPT !.attached = FALSE] \in Broadcast
  BY DEF HubTypeOK, Broadcast
<1>2. Casts(new) \in [Senders -> Broadcast]
  BY <1>1 DEF Casts, HubTypeOK
<1>. QED  BY <1>2 DEF HubTypeOK, Casts, Broadcast

\* A step of a handler is one of its connection only, and of its progress.
LEMMA ServesOne ==
  ASSUME HubTypeOK, NEW s \in Sockets, NEW v \in {"none", "asked", "accepted", "in"}, Serves(s, v)
  PROVE  /\ sock' \in [Sockets -> Connection]
         /\ \A k \in Sockets : /\ sock'[k].up = sock[k].up /\ sock'[k].topic = sock[k].topic
                               /\ sock'[k].srv = IF k = s THEN v ELSE sock[k].srv
<1>1. \A c \in Connection : /\ [c EXCEPT !.srv = v] \in Connection /\ [c EXCEPT !.srv = v].srv = v
                            /\ [c EXCEPT !.srv = v].up = c.up /\ [c EXCEPT !.srv = v].topic = c.topic
  BY DEF Connection
<1>. QED  BY <1>1 DEF HubTypeOK, Serves

\* A new connection changes no other.
LEMMA AsksAnew ==
  ASSUME NEW f \in [Sockets -> Connection], NEW s \in Sockets, NEW t \in Topics
  PROVE  LET g == [f EXCEPT ![s] = Asked(t)] IN
         /\ g \in [Sockets -> Connection]
         /\ g[s].srv = "asked" /\ g[s].up /\ g[s].topic = t /\ \A k \in Sockets \ {s} : g[k] = f[k]
<1>1. Asked(t) \in Connection /\ Asked(t).srv = "asked" /\ Asked(t).up /\ Asked(t).topic = t
  BY DEF Asked, Connection
<1>. QED  BY <1>1

\* A connection goes down, and nothing else.
LEMMA GoesDown ==
  ASSUME NEW c \in Connection
  PROVE  LET d == [c EXCEPT !.up = FALSE] IN d \in Connection /\ ~d.up /\ d.srv = c.srv /\ d.topic = c.topic
BY DEF Connection

\* A clean-up takes down the hook's own connection.
LEMMA ClosesOwn ==
  ASSUME HubTypeOK, NEW h \in Hooks
  PROVE  /\ Closes(h) \in [Sockets -> Connection]
         /\ \A s \in Sockets : /\ Closes(h)[s].srv = sock[s].srv /\ Closes(h)[s].topic = sock[s].topic
                               /\ Closes(h)[s].up => sock[s].up /\ s # hook[h].ws
<1>. sock \in [Sockets -> Connection]  BY DEF HubTypeOK
<1>. QED  BY GoesDown DEF Closes

\* What the bound counts.
LEMMA CountsInBound == HubTypeOK /\ HubCounts => hSteps' \in 0..MaxHubSteps
BY HubAssumption DEF HubTypeOK, HubCounts

-----------------------------------------------------------------------------
(* The invariant                                                           *)

\* The steps of a connection's handler keep the invariant.
LEMMA HandlerKeepsHub ==
  ASSUME HubInv, NEW s \in Sockets, Accept(s) \/ Subscribe(s) \/ Leave(s)
  PROVE  HubInv'
<1>. USE DEF HubInv
<1>1. CASE Accept(s)
  <2>1. PICK v \in {"none", "accepted"} : Serves(s, v) /\ UNCHANGED <<subs, cast, hook, hSteps>>
                                         /\ sock[s].srv = "asked"
    BY <1>1 DEF Accept
  <2>2. HubTypeOK'  BY <2>1, ServesOne DEF HubTypeOK
  <2>3. NamedTopics' /\ CastInv' /\ NoGhosts' /\ OneConnection'
    BY SMTT(30), <2>1, ServesOne DEF NamedTopics, CastInv, NoGhosts, OneConnection, HubTypeOK
  <2>. QED  BY <2>2, <2>3
<1>2. CASE Subscribe(s)
  <2>1. Serves(s, "in") /\ sock[s].topic \in Topics  BY <1>2 DEF Subscribe, NamedTopics
  <2>2. HubTypeOK'  BY <1>2, <2>1, ServesOne DEF Subscribe, HubTypeOK
  <2>3. NamedTopics' /\ CastInv' /\ NoGhosts' /\ OneConnection'
    BY <1>2, <2>1, ServesOne DEF Subscribe, NamedTopics, CastInv, NoGhosts, OneConnection, HubTypeOK
  <2>. QED  BY <2>2, <2>3
<1>3. CASE Leave(s)
  <2>1. Serves(s, "none") /\ sock[s].topic \in Topics  BY <1>3 DEF Leave, NamedTopics
  <2>2. HubTypeOK'
    BY <1>3, <2>1, ServesOne, CastsDetach DEF Leave, Disconnect, HubTypeOK
  <2>3. NamedTopics' /\ OneConnection'
    BY <1>3, <2>1, ServesOne DEF Leave, NamedTopics, OneConnection
  <2>4. CastInv'  BY <1>3, CastsDetach DEF Leave, CastInv
  <2>5. NoGhosts'
    BY <1>3, <2>1, ServesOne DEF Leave, Disconnect, NoGhosts, HubTypeOK
  <2>. QED  BY <2>2, <2>3, <2>4, <2>5
<1>. QED  BY <1>1, <1>2, <1>3

\* So do those of a broadcast.
LEMMA BroadcastKeepsHub ==
  ASSUME HubInv, NEW b \in Senders,
         \/ \E t \in Topics, s \in Sockets : Begin(b, t, s)
         \/ \E ok \in BOOLEAN : Sent(b, ok)
  PROVE  HubInv'
<1>. USE DEF HubInv
<1>. cast \in [Senders -> Broadcast]  BY DEF HubTypeOK
<1>0. /\ NoCast \in Broadcast /\ NoCast.st = "idle"
      /\ [NoCast EXCEPT !.st = "raised"] \in Broadcast /\ [NoCast EXCEPT !.st = "raised"].st = "raised"
  BY DEF NoCast, Broadcast
<1>1. ASSUME NEW t \in Topics, NEW s \in Sockets, Begin(b, t, s) PROVE HubInv'
  <2>. DEFINE c == [NoCast EXCEPT !.st = "sending", !.topic = t, !.at = s, !.start = subs[t], !.attached = TRUE]
  <2>1. /\ cast' = [cast EXCEPT ![b] = c] /\ UNCHANGED <<subs, sock, hook>> /\ s \in subs[t]
        /\ hSteps' \in 0..MaxHubSteps
    BY <1>1, CountsInBound DEF Begin
  <2>2. /\ c \in Broadcast /\ c.topic = t /\ c.at = s /\ c.start = subs[t]
    BY DEF NoCast, HubTypeOK, Broadcast
  <2>. HIDE DEF c
  <2>3. HubTypeOK'  BY <2>1, <2>2 DEF HubTypeOK
  <2>4. NamedTopics' /\ OneConnection' /\ NoGhosts'
    BY <2>1 DEF NamedTopics, OneConnection, NoGhosts
  <2>5. CastInv'  BY <2>1, <2>2 DEF CastInv
  <2>. QED  BY <2>3, <2>4, <2>5
<1>2. ASSUME NEW ok \in BOOLEAN, Sent(b, ok) PROVE HubInv'
  <2>. DEFINE sent == IF ok THEN cast[b].sent \cup {cast[b].at} ELSE cast[b].sent
              dead == IF ok THEN cast[b].dead ELSE cast[b].dead \cup {cast[b].at}
              on(s) == [cast[b] EXCEPT !.at = s, !.sent = sent, !.dead = dead]
              raises == /\ subs' = subs
                        /\ cast' = [cast EXCEPT ![b] = [NoCast EXCEPT !.st = "raised"]]
              goesOn(s) == subs' = subs /\ cast' = [cast EXCEPT ![b] = on(s)]
              ends == /\ subs' = [subs EXCEPT ![cast[b].topic] = @ \ dead]
                      /\ cast' = [Casts(subs') EXCEPT ![b] = NoCast]
  <2>0. cast[b].st = "sending" /\ UNCHANGED <<sock, hook, hSteps>>
    BY <1>2, SentCases
  <2>1. raises \/ (\E s \in Sockets : goesOn(s)) \/ ends
    BY ZenonT(40), <1>2, SentCases
  <2>2. NamedTopics' /\ OneConnection'
    BY <2>0 DEF NamedTopics, OneConnection
  <2>3. CASE raises
    BY <1>0, <2>0, <2>2, <2>3 DEF HubTypeOK, CastInv, NoGhosts
  <2>4. ASSUME NEW s \in Sockets, goesOn(s) PROVE HubInv'
    <3>1. /\ cast[b].at \in Sockets /\ cast[b].sent \subseteq Sockets /\ cast[b].dead \subseteq Sockets
      BY <2>0 DEF CastInv, Broadcast
    <3>2. /\ on(s) \in Broadcast /\ on(s).topic = cast[b].topic /\ on(s).at = s
          /\ on(s).start = cast[b].start
      BY <3>1 DEF Broadcast
    <3>. HIDE DEF on
    <3>3. HubTypeOK'  BY <2>0, <2>4, <3>2 DEF HubTypeOK
    <3>4. CastInv' /\ NoGhosts'  BY <2>0, <2>4, <3>2 DEF CastInv, NoGhosts
    <3>. QED  BY <2>2, <3>3, <3>4
  <2>5. CASE ends
    <3>. HIDE DEF dead
    <3>1. HubTypeOK'  BY <1>0, <2>0, <2>5, CastsDetach DEF HubTypeOK
    <3>2. CastInv'
      <4>1. cast'[b] = NoCast /\ \A k \in Senders \ {b} : cast'[k] = Casts(subs')[k]
        BY <2>5, CastsDetach
      <4>2. \A k \in Senders \ {b} : /\ cast'[k].st = cast[k].st /\ cast'[k].topic = cast[k].topic
                                    /\ cast'[k].at = cast[k].at /\ cast'[k].start = cast[k].start
        BY <4>1, CastsDetach
      <4>. QED  BY <1>0, <4>1, <4>2 DEF CastInv
    <3>3. NoGhosts'  BY <2>0, <2>5 DEF HubTypeOK, NoGhosts
    <3>. QED  BY <2>2, <3>1, <3>2, <3>3
  <2>. QED  BY <2>1, <2>3, <2>4, <2>5
<1>. QED  BY <1>1, <1>2

\* And those of a hook.
LEMMA HookKeepsHub ==
  ASSUME HubInv, NEW h \in Hooks,
         OnOpen(h) \/ OnClose(h) \/ ReconnectTimer(h) \/ \E t \in Topics \cup {None} : Uses(h, t)
  PROVE  HubInv'
<1>. USE DEF HubInv
<1>. hook \in [Hooks -> HookState] /\ sock \in [Sockets -> Connection]  BY DEF HubTypeOK
<1>1. CASE OnOpen(h)
  <2>. DEFINE new == [hook[h] EXCEPT !.open = TRUE, !.retries = 0, !.failures = 0]
  <2>0. 0 \in 0..MAX_RETRIES /\ 0 \in Nat  BY HubAssumption
  <2>1. new \in HookState /\ new.topic = hook[h].topic /\ new.ws = hook[h].ws /\ new.timer = hook[h].timer
    BY <2>0 DEF HookState
  <2>2. hook' = [hook EXCEPT ![h] = new] /\ UNCHANGED <<subs, sock, cast, hSteps>>
    BY <1>1 DEF OnOpen
  <2>. HIDE DEF new
  <2>3. HubTypeOK' /\ CastInv' /\ NoGhosts'  BY <2>1, <2>2 DEF HubTypeOK, CastInv, NoGhosts
  <2>4. NamedTopics' /\ OneConnection'  BY <2>1, <2>2 DEF NamedTopics, OneConnection
  <2>. QED  BY <2>3, <2>4
<1>2. CASE OnClose(h)
  <2>. DEFINE h1 == [hook[h] EXCEPT !.ws = None, !.open = FALSE, !.failures = @ + 1]
              new == IF Retries(h) THEN [h1 EXCEPT !.timer = TRUE, !.retries = @ + 1] ELSE h1
  <2>0. Retries(h) => hook[h].retries + 1 \in 0..MAX_RETRIES
    <3>1. hook[h].retries \in 0..MAX_RETRIES  BY DEF HookState
    <3>. QED  BY <3>1, HubAssumption DEF Retries
  <2>1. h1 \in HookState /\ h1.topic = hook[h].topic /\ h1.ws = None /\ h1.retries = hook[h].retries
    <3>1. hook[h].failures + 1 \in Nat  BY DEF HookState
    <3>. QED  BY <3>1 DEF HookState
  <2>. HIDE DEF h1
  <2>2. new \in HookState /\ new.topic = hook[h].topic /\ new.ws = None
    BY <2>0, <2>1 DEF HookState
  <2>. HIDE DEF new
  <2>3. /\ hook' = [hook EXCEPT ![h] = new] /\ UNCHANGED <<subs, sock, cast, hSteps>>
        /\ hook[h].ws # None /\ ~sock[hook[h].ws].up
    BY <1>2 DEF OnClose, new, h1
  <2>4. HubTypeOK' /\ CastInv' /\ NoGhosts'  BY <2>2, <2>3 DEF HubTypeOK, CastInv, NoGhosts
  <2>5. NamedTopics' /\ OneConnection'  BY <2>2, <2>3 DEF NamedTopics, OneConnection
  <2>. QED  BY <2>4, <2>5
<1>3. CASE ReconnectTimer(h)
  <2>. DEFINE new == [hook[h] EXCEPT !.timer = FALSE, !.ws = Fresh]
              t   == hook[h].topic
  <2>1. Fresh \in Sockets /\ ~Busy(Fresh) /\ t \in Topics /\ hook[h].ws = None
    BY <1>3, FreshIsUnused DEF ReconnectTimer, NamedTopics
  <2>2. new \in HookState /\ new.topic = t /\ new.ws = Fresh /\ ~new.timer
    BY <2>1 DEF HookState
  <2>3. /\ hook' = [hook EXCEPT ![h] = new] /\ sock' = [sock EXCEPT ![Fresh] = Asked(t)]
        /\ UNCHANGED <<subs, cast, hSteps>>
    BY <1>3 DEF ReconnectTimer
  <2>. HIDE DEF new, t
  <2>4. HubTypeOK' /\ CastInv'  BY <2>1, <2>2, <2>3, AsksAnew DEF HubTypeOK, CastInv
  <2>5. NamedTopics'  BY <2>1, <2>2, <2>3, AsksAnew DEF NamedTopics
  <2>6. NoGhosts'  BY <2>1, <2>3, AsksAnew DEF NoGhosts, Busy, HubTypeOK
  <2>7. OneConnection'
    BY <2>1, <2>2, <2>3, AsksAnew, HubAssumption DEF OneConnection, Busy
  <2>. QED  BY <2>4, <2>5, <2>6, <2>7
<1>4. ASSUME NEW t \in Topics \cup {None}, Uses(h, t) PROVE HubInv'
  <2>. DEFINE h1  == [hook[h] EXCEPT !.topic = t, !.open = FALSE, !.timer = FALSE, !.failures = 0]
              new == [h1 EXCEPT !.ws = IF t = None THEN None ELSE Fresh]
  <2>1. Fresh \in Sockets /\ ~Busy(Fresh) /\ hSteps' \in 0..MaxHubSteps
    BY <1>4, FreshIsUnused, CountsInBound DEF Uses
  <2>2. h1 \in HookState /\ h1.topic = t /\ ~h1.timer  BY DEF HookState
  <2>3. hook' = [hook EXCEPT ![h] = new] /\ UNCHANGED <<subs, cast>>
    BY <1>4 DEF Uses
  <2>4. IF t = None THEN sock' = Closes(h) ELSE sock' = [Closes(h) EXCEPT ![Fresh] = Asked(t)]
    BY <1>4 DEF Uses
  <2>. HIDE DEF h1
  <2>5. new \in HookState /\ new.topic = t /\ new.ws = (IF t = None THEN None ELSE Fresh) /\ ~new.timer
    BY <2>1, <2>2 DEF HookState
  <2>. HIDE DEF new
  <2>6. /\ sock' \in [Sockets -> Connection]
        /\ \A s \in Sockets :
             IF t # None /\ s = Fresh THEN sock'[s].srv = "asked" /\ sock'[s].topic = t
             ELSE /\ sock'[s].srv = sock[s].srv /\ sock'[s].topic = sock[s].topic
                  /\ sock'[s].up => sock[s].up /\ s # hook[h].ws
    BY <2>1, <2>4, ClosesOwn, AsksAnew
  <2>7. HubTypeOK' /\ CastInv'  BY <2>1, <2>3, <2>5, <2>6 DEF HubTypeOK, CastInv
  <2>8. NamedTopics'  BY <2>3, <2>5, <2>6, HubAssumption DEF NamedTopics
  <2>9. NoGhosts'  BY <2>1, <2>3, <2>6 DEF NoGhosts, Busy, HubTypeOK
  <2>10. OneConnection'
    BY <2>1, <2>3, <2>5, <2>6 DEF OneConnection, Busy
  <2>. QED  BY <2>7, <2>8, <2>9, <2>10
<1>. QED  BY <1>1, <1>2, <1>3, <1>4

\* And a connection that breaks, and the hub that starts anew.
LEMMA FailuresKeepHub ==
  ASSUME HubInv, ServerRestarts \/ \E s \in Sockets : Breaks(s)
  PROVE  HubInv'
<1>. USE DEF HubInv
<1>. sock \in [Sockets -> Connection]  BY DEF HubTypeOK
<1>1. CASE ServerRestarts
  <2>1. NoCast \in Broadcast /\ NoCast.st # "sending"  BY DEF NoCast, Broadcast
  <2>2. \A c \in Connection : /\ [c EXCEPT !.srv = "none", !.up = FALSE] \in Connection
                              /\ [c EXCEPT !.srv = "none", !.up = FALSE].srv = "none"
                              /\ ~[c EXCEPT !.srv = "none", !.up = FALSE].up
    BY DEF Connection
  <2>3. HubTypeOK'  BY <1>1, <2>1, <2>2, CountsInBound DEF ServerRestarts, HubTypeOK
  <2>4. NamedTopics' /\ OneConnection' /\ CastInv' /\ NoGhosts'
    BY <1>1, <2>1, <2>2 DEF ServerRestarts, NamedTopics, OneConnection, CastInv, NoGhosts
  <2>. QED  BY <2>3, <2>4
<1>2. ASSUME NEW s \in Sockets, Breaks(s) PROVE HubInv'
  <2>1. HubTypeOK'  BY <1>2, GoesDown, CountsInBound DEF Breaks, HubTypeOK
  <2>2. NamedTopics' /\ OneConnection' /\ CastInv' /\ NoGhosts'
    BY <1>2, GoesDown DEF Breaks, NamedTopics, OneConnection, CastInv, NoGhosts, HubTypeOK
  <2>. QED  BY <2>1, <2>2
<1>. QED  BY <1>1, <1>2

LEMMA HubInvInit == HubInit => HubInv
<1>. SUFFICES ASSUME HubInit PROVE HubInv  OBVIOUS
<1>. DEFINE h0 == [topic |-> None, ws |-> None, open |-> FALSE, retries |-> 0, timer |-> FALSE, failures |-> 0]
<1>0. 0 \in 0..MAX_RETRIES /\ 0 \in 0..MaxHubSteps  BY HubAssumption
<1>1. h0 \in HookState /\ h0.ws = None /\ ~h0.timer  BY <1>0 DEF HookState
<1>2. NoCast \in Broadcast /\ NoCast.st # "sending"  BY DEF NoCast, Broadcast
<1>3. NoSocket \in Connection /\ NoSocket.srv = "none" /\ ~NoSocket.up  BY DEF NoSocket, Connection
<1>. HIDE DEF h0
<1>4. HubTypeOK  BY <1>0, <1>1, <1>2, <1>3 DEF HubInit, HubTypeOK, h0
<1>5. NamedTopics
  <2>1. \A s \in Sockets : sock[s].srv = "none"  BY <1>3 DEF HubInit
  <2>2. hook = [h \in Hooks |-> h0]  BY DEF HubInit, h0
  <2>. QED  BY <1>1, <2>1, <2>2 DEF NamedTopics
<1>6. OneConnection /\ CastInv /\ NoGhosts
  BY <1>2, <1>3 DEF HubInit, OneConnection, CastInv, NoGhosts
<1>. QED  BY <1>4, <1>5, <1>6 DEF HubInv

LEMMA HubInvStep == HubInv /\ [HubNext]_hubVars => HubInv'
<1>1. ASSUME HubInv, HubNext PROVE HubInv'
  BY <1>1, HandlerKeepsHub, BroadcastKeepsHub, HookKeepsHub, FailuresKeepHub DEF HubNext, HubWork
<1>2. ASSUME HubInv, UNCHANGED hubVars PROVE HubInv'
  BY <1>2 DEF hubVars, HubInv, HubTypeOK, NamedTopics, CastInv, NoGhosts, OneConnection
<1>. QED  BY <1>1, <1>2

-----------------------------------------------------------------------------
(* Nobody is lost                                                          *)

Unlost == DeadAreDown /\ NobodyIsLost

\* If every message can be written as JSON, a broadcast takes away only what is
\* down; no new connection is one that a broadcast is about to take away.
LEMMA UnlostStep ==
  ASSUME ~Unserialisable, HubInv, Unlost, [HubNext]_hubVars
  PROVE  Unlost'
<1>. USE DEF Unlost
<1>. HubTypeOK /\ sock \in [Sockets -> Connection] /\ cast \in [Senders -> Broadcast]
  BY DEF HubInv, HubTypeOK
<1>1. ASSUME NEW s \in Sockets, Accept(s) PROVE Unlost'
  <2>1. PICK v \in {"none", "accepted"} : Serves(s, v) /\ UNCHANGED <<subs, cast>>
    BY <1>1 DEF Accept
  <2>. QED  BY <2>1, ServesOne DEF DeadAreDown, NobodyIsLost, Broadcast
<1>2. ASSUME NEW s \in Sockets, Subscribe(s) PROVE Unlost'
  <2>1. Serves(s, "in") /\ sock[s].topic \in Topics
    BY <1>2 DEF Subscribe, HubInv, NamedTopics
  <2>2. NobodyIsLost'
    BY <1>2, <2>1, ServesOne DEF Subscribe, NobodyIsLost, HubTypeOK
  <2>3. DeadAreDown'
    BY <1>2, <2>1, ServesOne DEF Subscribe, DeadAreDown, Broadcast
  <2>. QED  BY <2>2, <2>3
<1>3. ASSUME NEW s \in Sockets, Leave(s) PROVE Unlost'
  <2>1. Serves(s, "none") /\ sock[s].topic \in Topics
    BY <1>3 DEF Leave, HubInv, NamedTopics
  <2>2. NobodyIsLost'
    <3>1. subs' = [subs EXCEPT ![sock[s].topic] = @ \ {s}]  BY <1>3 DEF Leave, Disconnect
    <3>. QED  BY <2>1, <3>1, ServesOne DEF NobodyIsLost, HubTypeOK
  <2>3. DeadAreDown'
    <3>1. \A b \in Senders : cast'[b].st = cast[b].st /\ cast'[b].dead = cast[b].dead
      BY <1>3, CastsDetach DEF Leave
    <3>. QED  BY <2>1, <3>1, ServesOne DEF DeadAreDown, Broadcast
  <2>. QED  BY <2>2, <2>3
<1>4. ASSUME NEW b \in Senders, NEW t \in Topics, NEW s \in Sockets, Begin(b, t, s) PROVE Unlost'
  <2>. DEFINE c == [NoCast EXCEPT !.st = "sending", !.topic = t, !.at = s, !.start = subs[t], !.attached = TRUE]
  <2>1. cast' = [cast EXCEPT ![b] = c] /\ UNCHANGED <<subs, sock>>  BY <1>4 DEF Begin
  <2>2. c.dead = {}  BY DEF NoCast
  <2>. HIDE DEF c
  <2>. QED  BY <2>1, <2>2 DEF DeadAreDown, NobodyIsLost
<1>5. ASSUME NEW b \in Senders, NEW ok \in BOOLEAN, Sent(b, ok) PROVE Unlost'
  <2>. DEFINE sent == IF ok THEN cast[b].sent \cup {cast[b].at} ELSE cast[b].sent
              dead == IF ok THEN cast[b].dead ELSE cast[b].dead \cup {cast[b].at}
              on(s) == [cast[b] EXCEPT !.at = s, !.sent = sent, !.dead = dead]
              ends == /\ subs' = [subs EXCEPT ![cast[b].topic] = @ \ dead]
                      /\ cast' = [Casts(subs') EXCEPT ![b] = NoCast]
  <2>1. cast[b].st = "sending" /\ sock' = sock /\ (~ok => SendFails(cast[b].at)) /\ CastInv
    BY <1>5, SentCases DEF HubInv
  <2>2. /\ cast[b].at \in Sockets /\ cast[b].topic \in Topics /\ \A s \in dead : ~sock[s].up
    BY <2>1 DEF CastInv, SendFails, DeadAreDown
  <2>3. \/ subs' = subs /\ cast' = [cast EXCEPT ![b] = [NoCast EXCEPT !.st = "raised"]]
        \/ \E s \in Sockets : subs' = subs /\ cast' = [cast EXCEPT ![b] = on(s)]
        \/ ends
    BY ZenonT(40), <1>5, SentCases DEF HubInv
  <2>4. CASE subs' = subs /\ cast' = [cast EXCEPT ![b] = [NoCast EXCEPT !.st = "raised"]]
    <3>1. [NoCast EXCEPT !.st = "raised"].st = "raised"  BY DEF NoCast
    <3>. QED  BY <2>1, <2>4, <3>1 DEF DeadAreDown, NobodyIsLost
  <2>5. ASSUME NEW s \in Sockets, subs' = subs /\ cast' = [cast EXCEPT ![b] = on(s)] PROVE Unlost'
    <3>1. on(s).dead = dead  BY DEF Broadcast
    <3>. HIDE DEF on, dead
    <3>. QED  BY <2>1, <2>2, <2>5, <3>1 DEF DeadAreDown, NobodyIsLost
  <2>6. CASE ends
    <3>. HIDE DEF dead
    <3>1. NobodyIsLost'  BY <2>1, <2>2, <2>6 DEF NobodyIsLost, HubTypeOK
    <3>2. NoCast.st = "idle"  BY DEF NoCast
    <3>3. cast'[b] = NoCast /\ \A k \in Senders \ {b} : cast'[k] = Casts(subs')[k]
      BY <2>6, CastsDetach
    <3>4. \A k \in Senders \ {b} : cast'[k].st = cast[k].st /\ cast'[k].dead = cast[k].dead
      BY <3>3, CastsDetach
    <3>5. DeadAreDown'  BY <2>1, <3>2, <3>3, <3>4 DEF DeadAreDown
    <3>. QED  BY <3>1, <3>5
  <2>. QED  BY <2>3, <2>4, <2>5, <2>6
<1>6. ASSUME NEW h \in Hooks, OnOpen(h) \/ OnClose(h) PROVE Unlost'
  BY <1>6 DEF OnOpen, OnClose, DeadAreDown, NobodyIsLost
<1>7. ASSUME NEW h \in Hooks, ReconnectTimer(h) PROVE Unlost'
  <2>1. Fresh \in Sockets /\ ~Busy(Fresh) /\ hook[h].topic \in Topics
    BY <1>7, FreshIsUnused DEF ReconnectTimer, HubInv, NamedTopics
  <2>2. sock' = [sock EXCEPT ![Fresh] = Asked(hook[h].topic)] /\ UNCHANGED <<subs, cast>>
    BY <1>7 DEF ReconnectTimer
  <2>. QED  BY <2>1, <2>2, AsksAnew DEF DeadAreDown, NobodyIsLost, Busy, Broadcast
<1>8. ASSUME NEW h \in Hooks, NEW t \in Topics \cup {None}, Uses(h, t) PROVE Unlost'
  <2>1. Fresh \in Sockets /\ ~Busy(Fresh) /\ UNCHANGED <<subs, cast>>
    BY <1>8, FreshIsUnused DEF Uses
  <2>2. IF t = None THEN sock' = Closes(h) ELSE sock' = [Closes(h) EXCEPT ![Fresh] = Asked(t)]
    BY <1>8 DEF Uses
  <2>3. \A s \in Sockets :
          IF t # None /\ s = Fresh THEN sock'[s].srv = "asked"
          ELSE /\ sock'[s].srv = sock[s].srv /\ sock'[s].topic = sock[s].topic
               /\ sock'[s].up => sock[s].up
    BY <2>1, <2>2, ClosesOwn, AsksAnew
  <2>. QED  BY <2>1, <2>3 DEF DeadAreDown, NobodyIsLost, Busy, Broadcast
<1>9. ASSUME NEW s \in Sockets, Breaks(s) PROVE Unlost'
  BY <1>9, GoesDown DEF Breaks, DeadAreDown, NobodyIsLost, Broadcast
<1>10. CASE ServerRestarts
  <2>1. NoCast.st = "idle"  BY DEF NoCast
  <2>2. \A c \in Connection : ~[c EXCEPT !.srv = "none", !.up = FALSE].up  BY DEF Connection
  <2>. QED  BY <1>10, <2>1, <2>2 DEF ServerRestarts, DeadAreDown, NobodyIsLost
<1>11. CASE UNCHANGED hubVars
  BY <1>11 DEF hubVars, DeadAreDown, NobodyIsLost
<1>. QED
  BY <1>1, <1>2, <1>3, <1>4, <1>5, <1>6, <1>7, <1>8, <1>9, <1>10, <1>11 DEF HubNext, HubWork

LEMMA UnlostInit == HubInit => Unlost
BY DEF HubInit, Unlost, DeadAreDown, NobodyIsLost, NoCast, NoSocket

-----------------------------------------------------------------------------
(* Theorems                                                                *)

\* Whatever order connections, disconnections, restarts and overlapping
\* broadcasts come in, even of messages that cannot be serialised: whoever is in
\* the hub's sets has a handler that will take it out again, and a browser keeps
\* no connection open that no hook listens to (websocket.py:52-56,
\* useWebSocket.ts:89-96).
THEOREM NoGhostsAndOneConnection == HubSpec => [](NoGhosts /\ OneConnection)
<1>1. HubInv => NoGhosts /\ OneConnection  BY DEF HubInv
<1>. QED  BY <1>1, HubInvInit, HubInvStep, PTL DEF HubSpec

\* The hub's part of the composition keeps its invariant.
LEMMA ShellHubInv == ShellSpec => [](at = "hub" => HubInv)
<1>1. ShellInit => (at = "hub" => HubInv)
  BY HubInvInit DEF ShellInit
<1>2. (at = "hub" => HubInv) /\ [ShellNext]_shellVars => (at = "hub" => HubInv)'
  <2>. SUFFICES ASSUME at = "hub" => HubInv, [ShellNext]_shellVars, at' = "hub"
                PROVE  HubInv'
    OBVIOUS
  <2>1. at = "hub" /\ [HubNext]_hubVars
    BY DEF ShellNext, ByHub, ByLauncher, shellVars
  <2>. QED  BY <2>1, HubInvStep
<1>. QED  BY <1>1, <1>2, PTL DEF ShellSpec

\* If every message can be written as JSON, the hub knows who listens, and nobody
\* else, whatever overlapping broadcasts remove, and a browser keeps no connection
\* but those its hooks listen to (websocket.py:58-76, useWebSocket.ts:89-96).
THEOREM ConnectionsListenedTo ==
  ASSUME ~Unserialisable
  PROVE  ShellSpec => []ConnectionsAreListenedTo
<1>1. ShellInit => (at = "hub" => Unlost)
  BY UnlostInit DEF ShellInit
<1>2. (at = "hub" => HubInv) /\ (at = "hub" => Unlost) /\ [ShellNext]_shellVars => (at = "hub" => Unlost)'
  <2>. SUFFICES ASSUME at = "hub" => HubInv, at = "hub" => Unlost, [ShellNext]_shellVars, at' = "hub"
                PROVE  Unlost'
    OBVIOUS
  <2>1. at = "hub" /\ [HubNext]_hubVars
    BY DEF ShellNext, ByHub, ByLauncher, shellVars
  <2>. QED  BY <2>1, UnlostStep
<1>3. (at = "hub" => HubInv) /\ (at = "hub" => Unlost) => ConnectionsAreListenedTo
  BY DEF HubInv, Unlost, ConnectionsAreListenedTo, SubscribersListen
<1>. QED  BY <1>1, <1>2, <1>3, ShellHubInv, PTL DEF ShellSpec

================================================================================
