----------------------------- MODULE WebSocketHub -----------------------------
(***************************************************************************)
(* The hub that pushes events to browsers (routers/websocket.py) and the   *)
(* hook that listens to it (useWebSocket.ts).  The hub runs on the event   *)
(* loop: a step goes from one await to the next, and handlers of other     *)
(* connections run in between.  A broadcast iterates over the live set of  *)
(* a topic across its awaits.  A message is sent and not stored: who is    *)
(* not subscribed then misses it.                                          *)
(***************************************************************************)
EXTENDS Naturals, FiniteSets

CONSTANTS
  Topics,          \* what the handlers' paths name
  Sockets,         \* connections, used again once both ends are done with them
  Hooks,           \* mounted components that call useWebSocket
  Senders,         \* coroutines that broadcast
  MAX_RETRIES,     \* 10 in the code
  Unserialisable,  \* messages that cannot be written as JSON occur
  MaxHubSteps,     \* bound on broadcasts, breaks, restarts and changes of topic
  None

ASSUME HubAssumption ==
  /\ IsFiniteSet(Sockets) /\ MAX_RETRIES \in Nat /\ MaxHubSteps \in Nat
  /\ Unserialisable \in BOOLEAN /\ None \notin Topics \cup Sockets \cup {"raised"}

VARIABLES
  subs,   \* _subscriptions; a topic that has no set is {}
  sock,   \* the connections: the handler's progress, whether the browser is there
  cast,   \* the broadcasts
  hook,   \* the hooks
  hSteps  \* number of steps that count against the bound

hubVars == <<subs, sock, cast, hook, hSteps>>

NoSocket == [srv |-> "none", up |-> FALSE, topic |-> None]
NoCast == [st |-> "idle", topic |-> None, at |-> None, start |-> {}, sent |-> {}, dead |-> {},
           attached |-> FALSE]

Connection == [srv : {"none", "asked", "accepted", "in"}, up : BOOLEAN, topic : Topics \cup {None}]
Broadcast == [st : {"idle", "sending", "raised"}, topic : Topics \cup {None}, at : Sockets \cup {None},
              start : SUBSET Sockets, sent : SUBSET Sockets, dead : SUBSET Sockets, attached : BOOLEAN]
HookState == [topic : Topics \cup {None}, ws : Sockets \cup {None}, open : BOOLEAN,
              retries : 0..MAX_RETRIES, timer : BOOLEAN, failures : Nat]

HubTypeOK ==
  /\ subs \in [Topics -> SUBSET Sockets]
  /\ sock \in [Sockets -> Connection]
  /\ cast \in [Senders -> Broadcast]
  /\ hook \in [Hooks -> HookState]
  /\ hSteps \in 0..MaxHubSteps

HubInit ==
  /\ subs = [t \in Topics |-> {}] /\ sock = [s \in Sockets |-> NoSocket]
  /\ cast = [b \in Senders |-> NoCast]
  /\ hook = [h \in Hooks |-> [topic |-> None, ws |-> None, open |-> FALSE, retries |-> 0,
                              timer |-> FALSE, failures |-> 0]]
  /\ hSteps = 0

HubCounts == hSteps < MaxHubSteps /\ hSteps' = hSteps + 1

-----------------------------------------------------------------------------
(* The handler of a connection                                             *)

\* A set that becomes empty is deleted from the dictionary; a broadcast that
\* iterates over it keeps it, and nobody is added to it any more.
Casts(new) ==
  [b \in Senders |-> IF cast[b].st = "sending" /\ new[cast[b].topic] = {}
                     THEN [cast[b] EXCEPT !.attached = FALSE] ELSE cast[b]]

Serves(s, srv) == sock' = [sock EXCEPT ![s].srv = srv]

\* A browser that is gone already makes accept() raise.
Accept(s) ==
  /\ sock[s].srv = "asked" /\ Serves(s, IF sock[s].up THEN "accepted" ELSE "none")
  /\ UNCHANGED <<subs, cast, hook, hSteps>>

\* After the await of accept().
Subscribe(s) ==
  /\ sock[s].srv = "accepted" /\ Serves(s, "in")
  /\ subs' = [subs EXCEPT ![sock[s].topic] = @ \cup {s}]
  /\ UNCHANGED <<cast, hook, hSteps>>

\* Mutant of Disconnect: only a topic's last connection is removed.
Disconnect_Last(s) == [subs EXCEPT ![sock[s].topic] = IF @ = {s} THEN {} ELSE @]

Disconnect(s) == [subs EXCEPT ![sock[s].topic] = @ \ {s}]

\* receive_text() raises once the browser is gone.
Leave(s) ==
  /\ sock[s].srv = "in" /\ ~sock[s].up
  /\ subs' = Disconnect(s) /\ cast' = Casts(subs') /\ Serves(s, "none")
  /\ UNCHANGED <<hook, hSteps>>

-----------------------------------------------------------------------------
(* A broadcast                                                             *)

Begin(b, t, s) ==
  /\ cast[b].st = "idle" /\ s \in subs[t] /\ HubCounts
  /\ cast' = [cast EXCEPT ![b] = [NoCast EXCEPT !.st = "sending", !.topic = t, !.at = s,
                                               !.start = subs[t], !.attached = TRUE]]
  /\ UNCHANGED <<subs, sock, hook>>

\* The set it iterates over.
Conns(b) == IF cast[b].attached THEN subs[cast[b].topic] ELSE {}

\* Mutant of Disturbed: the loop is over a copy of the set.
Disturbed_Copied(b) == FALSE

\* Python refuses to go on with a set whose size has changed.
Disturbed(b) == Cardinality(Conns(b)) # Cardinality(cast[b].start)

\* A connection that is down may take the message, until its handler has
\* noticed.
SendOk(s) == sock[s].up \/ sock[s].srv = "in"
SendFails(s) == ~sock[s].up \/ Unserialisable

\* The awaited send is over.  A set that lost one member and gained another
\* is not noticed: its table may be another, with any member next, or none.
\* Next: "raised" or a member, or None at the end of the loop.
Nexts(b, visited) ==
  LET now == Conns(b) IN
  IF Disturbed(b) THEN {"raised"}
  ELSE IF now # cast[b].start THEN now \cup {None}
  ELSE IF now \subseteq visited THEN {None} ELSE now \ visited

Finishes(b, dead) ==
  LET left == Conns(b) \ dead
      t == cast[b].topic
      new == [subs EXCEPT ![t] = IF left = {} THEN {} ELSE left]
  IN /\ subs' = new
     /\ cast' = [Casts(new) EXCEPT ![b] = NoCast]

Sent(b, ok) ==
  LET c == cast[b]
      sent == IF ok THEN c.sent \cup {c.at} ELSE c.sent
      dead == IF ok THEN c.dead ELSE c.dead \cup {c.at}
  IN /\ c.st = "sending" /\ IF ok THEN SendOk(c.at) ELSE SendFails(c.at)
     /\ \E next \in Nexts(b, sent \cup dead) :
          CASE next = None -> Finishes(b, dead)
            [] next = "raised" -> cast' = [cast EXCEPT ![b] = [NoCast EXCEPT !.st = "raised"]] /\ UNCHANGED subs
            [] OTHER -> /\ cast' = [cast EXCEPT ![b].at = next, ![b].sent = sent, ![b].dead = dead]
                        /\ UNCHANGED subs
     /\ UNCHANGED <<sock, hook, hSteps>>

-----------------------------------------------------------------------------
(* The hook                                                                *)

Busy(s) == \/ sock[s].srv # "none" \/ \E h \in Hooks : hook[h].ws = s
           \/ \E b \in Senders : cast[b].st = "sending" /\ s \in {cast[b].at} \cup cast[b].start \cup cast[b].dead

\* A new WebSocket is another object than any before.
Fresh == CHOOSE s \in Sockets : ~Busy(s)
CanConnect == \E s \in Sockets : ~Busy(s)
Asked(t) == [srv |-> "asked", up |-> TRUE, topic |-> t]

OnOpen(h) ==
  LET s == hook[h].ws IN
  /\ s # None /\ ~hook[h].open /\ sock[s].up /\ sock[s].srv \in {"accepted", "in"}
  /\ hook' = [hook EXCEPT ![h].open = TRUE, ![h].retries = 0, ![h].failures = 0]
  /\ UNCHANGED <<subs, sock, cast, hSteps>>

\* Mutant of Retries: a connection that was never open is not tried again.
Retries_Opened(h) == hook[h].open

\* Mutant of Retries: one try too many.
Retries_OneMore(h) == hook[h].retries <= MAX_RETRIES

Retries(h) == hook[h].retries < MAX_RETRIES

OnClose(h) ==
  LET s == hook[h].ws
      h1 == [hook[h] EXCEPT !.ws = None, !.open = FALSE, !.failures = @ + 1]
  IN /\ s # None /\ ~sock[s].up
     /\ hook' = [hook EXCEPT ![h] = IF Retries(h) THEN [h1 EXCEPT !.timer = TRUE, !.retries = @ + 1] ELSE h1]
     /\ UNCHANGED <<subs, sock, cast, hSteps>>

ReconnectTimer(h) ==
  /\ hook[h].timer /\ CanConnect
  /\ hook' = [hook EXCEPT ![h].timer = FALSE, ![h].ws = Fresh]
  /\ sock' = [sock EXCEPT ![Fresh] = Asked(hook[h].topic)]
  /\ UNCHANGED <<subs, cast, hSteps>>

\* Mutant of Closes: the old connection is left to the browser.
Closes_Not(h) == sock

\* ws.close(1000): nobody reconnects.
Closes(h) == [s \in Sockets |-> IF s = hook[h].ws THEN [sock[s] EXCEPT !.up = FALSE] ELSE sock[s]]

\* The component mounts, unmounts or gets another topic; None: not enabled.
\* The count of the retries is not part of the effect.
Uses(h, t) ==
  LET closed == Closes(h)
      h1 == [hook[h] EXCEPT !.topic = t, !.open = FALSE, !.timer = FALSE, !.failures = 0]
  IN /\ t # hook[h].topic /\ HubCounts /\ CanConnect
     /\ IF t = None
        THEN hook' = [hook EXCEPT ![h] = [h1 EXCEPT !.ws = None]] /\ sock' = closed
        ELSE hook' = [hook EXCEPT ![h] = [h1 EXCEPT !.ws = Fresh]] /\ sock' = [closed EXCEPT ![Fresh] = Asked(t)]
     /\ UNCHANGED <<subs, cast>>

\* A connection breaks, or could not be made.
Breaks(s) ==
  /\ sock[s].up /\ HubCounts /\ sock' = [sock EXCEPT ![s].up = FALSE]
  /\ UNCHANGED <<subs, cast, hook>>

ServerRestarts ==
  /\ HubCounts
  /\ sock' = [s \in Sockets |-> [sock[s] EXCEPT !.srv = "none", !.up = FALSE]]
  /\ subs' = [t \in Topics |-> {}] /\ cast' = [b \in Senders |-> NoCast]
  /\ UNCHANGED hook

-----------------------------------------------------------------------------
HubWork ==
  \/ \E s \in Sockets : Accept(s) \/ Subscribe(s) \/ Leave(s)
  \/ \E b \in Senders, ok \in BOOLEAN : Sent(b, ok)
  \/ \E h \in Hooks : OnOpen(h) \/ OnClose(h) \/ ReconnectTimer(h)

HubNext ==
  \/ HubWork
  \/ \E b \in Senders, t \in Topics, s \in Sockets : Begin(b, t, s)
  \/ \E h \in Hooks, t \in Topics \cup {None} : Uses(h, t)
  \/ \E s \in Sockets : Breaks(s)
  \/ ServerRestarts

HubSpec == HubInit /\ [][HubNext]_hubVars

\* The loop goes on, and a browser's timers and events fire.
FairHubSpec ==
  /\ HubSpec
  /\ \A s \in Sockets : WF_hubVars(Accept(s)) /\ WF_hubVars(Subscribe(s)) /\ WF_hubVars(Leave(s))
  /\ \A b \in Senders : WF_hubVars(\E ok \in BOOLEAN : Sent(b, ok))
  /\ \A h \in Hooks : WF_hubVars(OnClose(h)) /\ WF_hubVars(ReconnectTimer(h))

-----------------------------------------------------------------------------
(* Properties                                                              *)

\* A connection that is alive and has been subscribed stays subscribed: no
\* order of connections, disconnections and overlapping broadcasts, not even
\* the deletion of an emptied set under a broadcast that still iterates over
\* it, takes a listener away from the hub (websocket.py:58-76).
NobodyIsLost ==
  \A s \in Sockets : sock[s].srv = "in" /\ sock[s].up => s \in subs[sock[s].topic]

\* Whoever is subscribed has a handler that will take it away, and is in the
\* set of the topic it asked for only.
NoGhosts ==
  \A t \in Topics : \A s \in subs[t] : sock[s].srv = "in" /\ sock[s].topic = t

\* The hub knows who listens, and nobody else.
SubscribersListen == NobodyIsLost /\ NoGhosts

\* A browser keeps no connection open but the one a hook listens to, of the
\* topic the hook has now (useWebSocket.ts, clean-up of the effect).
OneConnection ==
  \A s \in Sockets : sock[s].up => \E h \in Hooks : hook[h].ws = s /\ hook[h].topic = sock[s].topic

\* A component that listens is connected to the hub in the end, unless it has
\* given up.
Listening(h) == hook[h].ws # None /\ sock[hook[h].ws].srv = "in" /\ sock[hook[h].ws].up
GaveUp(h) == hook[h].ws = None /\ ~hook[h].timer /\ hook[h].retries >= MAX_RETRIES
Settled(h) == hook[h].topic = None \/ Listening(h) \/ GaveUp(h)
HeardInTheEnd == \A h \in Hooks : <>[]Settled(h)

\* What the code does not keep.

\* "Dead connections are silently removed.  Never raises" (websocket.py:59-62).
NeverRaises == \A b \in Senders : cast[b].st # "raised"

\* "Gives up after 10 failures" (useWebSocket.ts:7), that is of the topic it
\* listens to, and none of them after a success.
GivesUpAfterAll ==
  \A h \in Hooks : hook[h].topic # None /\ GaveUp(h) => hook[h].failures > MAX_RETRIES
=============================================================================
