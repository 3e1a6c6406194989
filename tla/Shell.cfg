SPECIFICATION FairShellSpec
CONSTANTS
  Topics = {t1, t2}
  Sockets = {s1, s2, s3}
  Hooks = {h1, h2}
  Senders = {b1, b2}
  MAX_RETRIES = 1
  Unserialisable = FALSE
  MaxHubSteps = 4
  None = None
  Launchers = {l1, l2}
  Dirs = {d1, d2}
  Default = d1
  Stale = Stale
  MaxLauncherSteps = 4
  Absent = Absent
INVARIANTS ShellTypeOK ConnectionsAreListenedTo OneLauncherOrNone InstallsAreWholeOrGone
PROPERTIES OnlyAgreedIsRemoved ListenersHear
CHECK_DEADLOCK FALSE
