------------------------------- MODULE MCShell -------------------------------
(***************************************************************************)
(* Instances, for TLC, of what runs around the pages: the launcher that    *)
(* starts and stops the application, and the hub that pushes to its pages. *)
(* They share no state, so that one of them is observed per behaviour.     *)
(***************************************************************************)
EXTENDS WebSocketHub, Launcher

VARIABLE at  \* "hub" or "launcher"

HubOff      == subs = 0 /\ sock = 0 /\ cast = 0 /\ hook = 0 /\ hSteps = 0
LauncherOff == /\ lock = 0 /\ manifest = 0 /\ legacy = 0 /\ pending = 0 /\ disk = 0
               /\ up = 0 /\ data = 0 /\ run = 0 /\ agreed = 0 /\ lSteps = 0 /\ lOdd = 0

ShellInit ==
  \/ at = "hub"      /\ HubInit      /\ LauncherOff
  \/ at = "launcher" /\ LauncherInit /\ HubOff

ByHub      == at = "hub"      /\ UNCHANGED <<at, launcherVars>>
ByLauncher == at = "launcher" /\ UNCHANGED <<at, hubVars>>

ShellNext == (ByHub /\ HubNext) \/ (ByLauncher /\ LauncherNext)

shellVars == <<at, hubVars, launcherVars>>
ShellSpec == ShellInit /\ [][ShellNext]_shellVars

\* The fairness of FairHubSpec; the launcher is checked for safety.
FairShellSpec ==
  /\ ShellSpec
  /\ \A s \in Sockets : /\ WF_shellVars(ByHub /\ Accept(s)) /\ WF_shellVars(ByHub /\ Subscribe(s))
                        /\ WF_shellVars(ByHub /\ Leave(s))
  /\ \A b \in Senders : WF_shellVars(ByHub /\ \E ok \in BOOLEAN : Sent(b, ok))
  /\ \A h \in Hooks : WF_shellVars(ByHub /\ OnClose(h)) /\ WF_shellVars(ByHub /\ ReconnectTimer(h))

-----------------------------------------------------------------------------
(* Properties: those of the two modules                                    *)

\* What the hub, its hooks, the launcher and its files may hold.
ShellTypeOK ==
  /\ at = "hub"      => HubTypeOK
  /\ at = "launcher" => LauncherTypeOK

\* The hub knows who listens, and nobody else; a browser keeps no connection
\* that no component listens to (websocket.py:58-76, useWebSocket.ts:89-96).
ConnectionsAreListenedTo == at = "hub" => SubscribersListen /\ OneConnection

\* A component that listens is connected in the end, or has given up.
ListenersHear == \A h \in Hooks : <>[](at = "hub" => Settled(h))

\* One launcher is at work at a time, and when none is no containers run,
\* whatever way the last one ended (__main__.py:56-75, :749-754).
OneLauncherOrNone == at = "launcher" => OneLauncher /\ StoppedIsDown

\* Whatever installation or removal is broken off, a manifest does not name half
\* a release, and what was to be removed is gone in the end (__main__.py:316-368).
InstallsAreWholeOrGone == at = "launcher" => ManifestIsWhole /\ CarriedThrough

\* No step removes a folder or a volume that the user did not agree to lose
\* (__main__.py:566-580).
OnlyAgreedIsRemoved == [][at = "launcher" => RemovalWasAgreed]_shellVars

=============================================================================
