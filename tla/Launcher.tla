------------------------------- MODULE Launcher -------------------------------
(***************************************************************************)
(* The desktop launcher (launcher/myapp_launcher): the lock of the running *)
(* instance, the installation with its manifest, the containers, and the   *)
(* uninstallation, whose progress is kept in a file and retried at the     *)
(* next start.  A launcher has a main thread, which shows dialogs and a    *)
(* window, and a worker thread, which dies with the process.  A process    *)
(* may be killed anywhere; the user may close the window at any time.      *)
(* Nothing in the program calls _run_uninstall_flow yet: here the user     *)
(* finds it in the window of a running application.  Images are left out.  *)
(***************************************************************************)
EXTENDS Naturals, FiniteSets

CONSTANTS
  Launchers,  \* processes, started again and again
  Dirs,       \* folders
  Default,    \* the folder that is assumed when none is remembered
  Stale,      \* in the lock: the pid of a process that is gone
  MaxLauncherSteps, \* bound on starts, crashes, failures and what users do besides
  Absent

\* CLEANUP_STEPS, in their order; what cleanup.json holds.
CLEANUP_STEPS == <<"compose_down", "remove_volumes", "remove_images", "rmtree", "delete_manifest">>
StepNames == {CLEANUP_STEPS[n] : n \in DOMAIN CLEANUP_STEPS}
Cleanup == [dir : Dirs, done : SUBSET StepNames]

ASSUME LauncherAssumption ==
  /\ Default \in Dirs /\ MaxLauncherSteps \in Nat /\ Absent \notin Dirs \cup Launchers \cup Cleanup
  /\ Stale \notin Launchers \cup {Absent}

VARIABLES
  lock,     \* launcher.lock
  manifest, \* install.json: the folder, or Absent
  legacy,   \* launcher.json: whether there is one, the folder in it
  pending,  \* cleanup.json: Absent, or the folder and the steps done
  disk,     \* what is in the folders
  up, data, \* folders whose containers run; which have a volume
  run,      \* the launchers
  agreed,   \* history: folders and volumes the user agreed to lose; whether
            \* any was put there anew while a removal was pending
  lSteps,   \* number of steps that count against the bound
  lOdd      \* history: what went wrong

files == <<manifest, legacy, pending>>
docker == <<up, data>>
launcherVars == <<lock, files, disk, docker, run, agreed, lSteps, lOdd>>

\* A folder holds all of a release, or a part with or without the file that
\* makes it a valid one (is_valid_repo).
Valid(d) == disk[d] \in {"part", "whole"}

\* What may go wrong, or come from outside.
Odds == {"raced", "failed", "closed", "broken", "crashed", "moved", "pulled", "replaced"}

Off == [pc |-> "off", w |-> "none", dir |-> Absent, todo |-> {}, res |-> "none"]

\* A launcher: where its main thread is, what its worker does and ended with.
Pcs == {"off", "check", "free", "locked", "retry", "docker", "locate", "picker", "prompt", "installing",
        "env", "running", "uninstalling", "removing", "tidy", "legacy", "last"}
Works == {"none", "get", "unpack", "manifest", "legacy", "build", "up", "health", "ended",
          "compose_down", "remove_volumes", "remove_images"}
Results == {"none", "ok", "error"}
Process == [pc : Pcs, w : Works, dir : Dirs \cup {Absent}, todo : SUBSET StepNames, res : Results]

LauncherTypeOK ==
  /\ lock \in Launchers \cup {Stale, Absent} /\ manifest \in Dirs \cup {Absent}
  /\ legacy \in [file : BOOLEAN, repo : Dirs \cup {Absent}]
  /\ pending \in {Absent} \cup Cleanup
  /\ disk \in [Dirs -> {"none", "stub", "part", "whole"}]
  /\ up \subseteq Dirs /\ data \subseteq Dirs
  /\ run \in [Launchers -> Process]
  /\ agreed \in [dirs : SUBSET Dirs, data : SUBSET Dirs, late : BOOLEAN]
  /\ lSteps \in 0..MaxLauncherSteps /\ lOdd \subseteq Odds

LauncherInit ==
  /\ lock = Absent /\ manifest = Absent /\ legacy = [file |-> FALSE, repo |-> Absent] /\ pending = Absent
  /\ disk = [d \in Dirs |-> "none"] /\ up = {} /\ data = {}
  /\ run = [l \in Launchers |-> Off]
  /\ agreed = [dirs |-> {}, data |-> {}, late |-> FALSE] /\ lSteps = 0 /\ lOdd = {}

-----------------------------------------------------------------------------
(* Helpers                                                                 *)

Spends == lSteps < MaxLauncherSteps /\ lSteps' = lSteps + 1

\* What fails counts.
Outcome(ok, why) ==
  IF ok THEN UNCHANGED <<lSteps, lOdd>> ELSE Spends /\ lOdd' = lOdd \cup {why}

At(l, pc) == run[l].pc = pc
Working(l, pc, w) == run[l].pc = pc /\ run[l].w = w
Goes(l, pc) == run' = [run EXCEPT ![l].pc = pc]
WorkerGoes(l, w) == run' = [run EXCEPT ![l].w = w]

\* main's finally clause: the file goes, whoever wrote it.
Exits(l) == run' = [run EXCEPT ![l] = Off] /\ lock' = Absent

\* What is put into a folder, or into a volume, is not what the user agreed to
\* lose before.
Anew(dirs, vols) ==
  agreed' = [dirs |-> agreed.dirs \ dirs, data |-> agreed.data \ vols,
             late |-> agreed.late \/ (pending # Absent /\ dirs \cup vols # {})]

\* docker compose up in folder d.
Upped(d, ok) ==
  /\ ok => Valid(d)
  /\ up' = IF ok THEN up \cup {d} ELSE up
  /\ data' = IF ok THEN data \cup {d} ELSE data

\* What there may be if the release is not unpacked to its end; a folder that
\* lost some of its files.
Unfinished(d) == IF disk[d] = "whole" THEN {"whole"} ELSE {disk[d], "stub", "part"}
Torn(d) == CASE disk[d] = "none" -> {"none"} [] disk[d] = "stub" -> {"stub"} [] OTHER -> {disk[d], "stub", "part"}

\* What l was doing is broken off; a command docker already has goes on.
BrokenOff(l) ==
  LET r == run[l]
      unpacks == r.w = "unpack"
      removes == r.pc = "removing" \/ (r.pc = "retry" /\ "rmtree" \in r.todo)
  IN IF r.dir = Absent THEN UNCHANGED <<disk, docker, agreed>>
     ELSE \E x \in IF unpacks THEN Unfinished(r.dir) ELSE IF removes THEN Torn(r.dir) \cup {"none"} ELSE {disk[r.dir]},
             ok \in BOOLEAN :
            /\ ok => r.w \in {"build", "up"}
            /\ disk' = [disk EXCEPT ![r.dir] = x] /\ Upped(r.dir, ok)
            /\ Anew(IF unpacks THEN {r.dir} ELSE {}, IF ok THEN {r.dir} ELSE {})

-----------------------------------------------------------------------------
(* Start and lock                                                          *)

Start(l) ==
  /\ At(l, "off") /\ Spends /\ Goes(l, "check")
  /\ UNCHANGED <<lock, files, disk, docker, agreed, lOdd>>

\* The pid of a process that is gone may be another's by now.
Alive(l) ==
  IF lock = Stale THEN BOOLEAN ELSE {lock # Absent /\ lock # l /\ run[lock].pc # "off"}

\* Mutant of AlreadyRunning: the finally clause covers this return, too.
AlreadyRunning_Clears(l) == Exits(l)

\* _handle_already_running only opens the browser.
AlreadyRunning(l) == run' = [run EXCEPT ![l] = Off] /\ UNCHANGED lock

CheckLock(l) ==
  /\ At(l, "check")
  /\ \E alive \in Alive(l) :
       IF alive THEN AlreadyRunning(l) /\ UNCHANGED lOdd
       ELSE /\ Goes(l, "free") /\ UNCHANGED lock
            /\ lOdd' = IF \E k \in Launchers : At(k, "free") THEN lOdd \cup {"raced"} ELSE lOdd
  /\ UNCHANGED <<files, disk, docker, agreed, lSteps>>

WriteLock(l) ==
  /\ At(l, "free") /\ lock' = l /\ Goes(l, "locked")
  /\ UNCHANGED <<files, disk, docker, agreed, lSteps, lOdd>>

-----------------------------------------------------------------------------
(* The steps of a removal                                                  *)

\* Mutant of Updated: what was tried is done.
Updated_Tried(s, ok) == IF pending = Absent THEN Absent ELSE [pending EXCEPT !.done = @ \cup {s}]

\* update_cleanup_step: a failure is written, too.
Updated(s, ok) ==
  IF pending = Absent THEN Absent ELSE [pending EXCEPT !.done = IF ok THEN @ \cup {s} ELSE @ \ {s}]

\* The steps, in folder d.  How one ends: "done"; "skipped", if docker is not
\* there or keeps what is in use, which is taken for done; "failed".
Downed(d, how) ==
  /\ how # "skipped" /\ (how = "done" => Valid(d))
  /\ up' = IF how = "done" THEN up \ {d} ELSE up

DockerStep(s, d, how) ==
  \/ s = "compose_down" /\ Downed(d, how) /\ UNCHANGED data
  \/ /\ s = "remove_volumes" /\ (how = "done" => data \cap up = {}) /\ UNCHANGED up
     /\ data' \in IF how = "done" THEN {{}} ELSE {data, data \cap up}
  \/ s = "remove_images" /\ UNCHANGED docker

RemovesTree(d, how) ==
  /\ how # "skipped" /\ (how = "failed" => disk[d] # "none")
  /\ \E x \in IF how = "done" THEN {"none"} ELSE Torn(d) : disk' = [disk EXCEPT ![d] = x]

Performs(s, d, how) ==
  \/ DockerStep(s, d, how) /\ UNCHANGED <<manifest, disk>>
  \/ s = "rmtree" /\ RemovesTree(d, how) /\ UNCHANGED <<manifest, docker>>
  \/ s = "delete_manifest" /\ how = "done" /\ manifest' = Absent /\ UNCHANGED <<disk, docker>>

Hows == {"done", "skipped", "failed"}
Recorded(s, how) == pending' = Updated(s, how # "failed") /\ Outcome(how = "done", "failed")

\* _retry_pending_cleanup: reads the file once, at the beginning.
ReadPending(l) ==
  /\ At(l, "locked")
  /\ run' = IF pending = Absent THEN [run EXCEPT ![l].pc = "docker"]
            ELSE [run EXCEPT ![l].pc = "retry", ![l].dir = pending.dir, ![l].todo = StepNames \ pending.done]
  /\ UNCHANGED <<lock, files, disk, docker, agreed, lSteps, lOdd>>

First(todo) == CLEANUP_STEPS[CHOOSE n \in DOMAIN CLEANUP_STEPS :
                 /\ CLEANUP_STEPS[n] \in todo
                 /\ \A m \in DOMAIN CLEANUP_STEPS : CLEANUP_STEPS[m] \in todo => n <= m]

Retry(l, how) ==
  LET s == First(run[l].todo) IN
  /\ At(l, "retry") /\ run[l].todo # {}
  /\ Performs(s, run[l].dir, how) /\ Recorded(s, how)
  /\ run' = [run EXCEPT ![l].todo = @ \ {s}]
  /\ UNCHANGED <<lock, legacy, agreed>>

\* Docker has done a step, and it is not written down.
Unrecorded(l) ==
  LET r == run[l] IN
  /\ IF r.pc = "retry" THEN r.todo # {} /\ DockerStep(First(r.todo), r.dir, "done")
     ELSE DockerStep(r.w, r.dir, "done")
  /\ UNCHANGED <<disk, agreed>>

\* The process is killed, or the computer goes down.
Crash(l) ==
  /\ ~At(l, "off") /\ Spends /\ (BrokenOff(l) \/ Unrecorded(l))
  /\ lOdd' = lOdd \cup {"crashed"} \cup (IF run[l].w = "unpack" THEN {"broken"} ELSE {})
  /\ run' = [run EXCEPT ![l] = Off] /\ lock' = IF lock = l THEN Stale ELSE lock
  /\ UNCHANGED files

RetryEnds(l) ==
  /\ At(l, "retry") /\ run[l].todo = {}
  /\ pending' = IF pending # Absent /\ pending.done = StepNames THEN Absent ELSE pending
  /\ run' = [run EXCEPT ![l] = [Off EXCEPT !.pc = "docker"]]
  /\ UNCHANGED <<lock, manifest, legacy, disk, docker, agreed, lSteps, lOdd>>

-----------------------------------------------------------------------------
(* From docker to a folder                                                 *)

\* Not installed, or its daemon does not answer after three attempts.
CheckDocker(l) ==
  /\ At(l, "docker")
  /\ \/ Goes(l, "locate") /\ UNCHANGED <<lock, lSteps>>
     \/ Exits(l) /\ Spends
  /\ UNCHANGED <<files, disk, docker, agreed, lOdd>>

Remembered == IF legacy.repo # Absent THEN legacy.repo ELSE Default

\* The manifest; else the folder of launcher.json or the default, which then
\* gets a manifest; else the user is asked.
Locate(l) ==
  /\ At(l, "locate")
  /\ IF manifest # Absent /\ Valid(manifest)
     THEN run' = [run EXCEPT ![l].pc = "env", ![l].dir = manifest] /\ UNCHANGED manifest
     ELSE IF Valid(Remembered)
     THEN run' = [run EXCEPT ![l].pc = "env", ![l].dir = Remembered] /\ manifest' = Remembered
     ELSE Goes(l, IF legacy.file THEN "picker" ELSE "prompt") /\ UNCHANGED manifest
  /\ UNCHANGED <<lock, legacy, pending, disk, docker, agreed, lSteps, lOdd>>

\* _installation_moved_picker: any valid folder.
Pick(l, d) ==
  /\ At(l, "picker") /\ Valid(d)
  /\ legacy' = [file |-> TRUE, repo |-> d]
  /\ run' = [run EXCEPT ![l].pc = "env", ![l].dir = d]
  /\ UNCHANGED <<lock, manifest, pending, disk, docker, agreed, lSteps, lOdd>>

\* The launcher is too old, or the user cancels or reads the guide.
Declines(l) ==
  /\ run[l].pc \in {"picker", "prompt"} /\ Exits(l)
  /\ UNCHANGED <<files, disk, docker, agreed, lSteps, lOdd>>

-----------------------------------------------------------------------------
(* Installation                                                            *)

Install(l, d) ==
  /\ At(l, "prompt") /\ run' = [run EXCEPT ![l].pc = "installing", ![l].w = "get", ![l].dir = d]
  /\ UNCHANGED <<lock, files, disk, docker, agreed, lSteps, lOdd>>

\* window.destroy does not exist: the thread that schedules it ends there, and
\* the window stays.
Ended(l, res) == run' = [run EXCEPT ![l].w = "ended", ![l].res = res]

Download(l, ok) ==
  /\ Working(l, "installing", "get") /\ Outcome(ok, "failed")
  /\ IF ok THEN WorkerGoes(l, "unpack") ELSE Ended(l, "error")
  /\ UNCHANGED <<lock, files, disk, docker, agreed>>

\* An error in the middle ends the thread with nothing told.
Unpack(l, ok) ==
  LET d == run[l].dir IN
  /\ Working(l, "installing", "unpack") /\ Outcome(ok, "broken")
  /\ \E x \in IF ok THEN {"whole"} ELSE Unfinished(d) : disk' = [disk EXCEPT ![d] = x]
  /\ IF ok THEN WorkerGoes(l, "manifest") ELSE Ended(l, "none")
  /\ Anew({d}, {})
  /\ UNCHANGED <<lock, files, docker>>

WriteManifest(l) ==
  /\ Working(l, "installing", "manifest") /\ manifest' = run[l].dir /\ WorkerGoes(l, "legacy")
  /\ UNCHANGED <<lock, legacy, pending, disk, docker, agreed, lSteps, lOdd>>

WriteLegacy(l) ==
  /\ Working(l, "installing", "legacy") /\ WorkerGoes(l, "build")
  /\ legacy' = [file |-> TRUE, repo |-> run[l].dir]
  /\ UNCHANGED <<lock, manifest, pending, disk, docker, agreed, lSteps, lOdd>>

\* The wait for the application may time out; that is no error.
Build(l, ok) ==
  LET d == run[l].dir IN
  /\ Working(l, "installing", "build") /\ Outcome(ok, "failed")
  /\ Upped(d, ok) /\ Anew({}, IF ok THEN {d} ELSE {}) /\ Ended(l, IF ok THEN "ok" ELSE "error")
  /\ UNCHANGED <<lock, files, disk>>

\* Only the user closes the window.
CloseInstall(l) ==
  LET r == run[l] IN
  /\ At(l, "installing")
  /\ IF r.res = "ok" THEN Goes(l, "env") /\ UNCHANGED <<lock, disk, docker, agreed, lSteps, lOdd>>
     ELSE Exits(l) /\ BrokenOff(l) /\ Outcome(r.w = "ended", IF r.w = "unpack" THEN "broken" ELSE "closed")
  /\ UNCHANGED files

-----------------------------------------------------------------------------
(* Running                                                                 *)

\* .env is copied from its template if it is not there.
EnsureEnv(l) ==
  LET d == run[l].dir IN
  /\ At(l, "env")
  /\ \/ /\ disk[d] # "none" /\ UNCHANGED lock
        /\ run' = [run EXCEPT ![l].pc = "running", ![l].w = "up", ![l].res = "none"]
     \/ disk[d] # "whole" /\ Exits(l)
  /\ UNCHANGED <<files, disk, docker, agreed, lSteps, lOdd>>

\* A failure is told, and the launcher ends.
ComposeUp(l, ok) ==
  LET d == run[l].dir IN
  /\ Working(l, "running", "up") /\ Outcome(ok, "failed")
  /\ Upped(d, ok) /\ Anew({}, IF ok THEN {d} ELSE {})
  /\ IF ok THEN WorkerGoes(l, "health") /\ UNCHANGED lock ELSE Exits(l)
  /\ UNCHANGED <<files, disk>>

Healthy(l) ==
  /\ Working(l, "running", "health") /\ WorkerGoes(l, "none")
  /\ UNCHANGED <<lock, files, disk, docker, agreed, lSteps, lOdd>>

\* Mutant of ShutsDown: the window is closed, and that is all.
ShutsDown_Closes(d, ok) == Outcome(ok, "failed") /\ UNCHANGED up

\* A failure is only logged.
ShutsDown(d, ok) == Downed(d, IF ok THEN "done" ELSE "failed") /\ Outcome(ok, "failed")

\* The Stop button, or Cancel after a minute without a healthy answer.
Stop(l, ok) ==
  /\ At(l, "running") /\ run[l].w \in {"none", "health"}
  /\ ShutsDown(run[l].dir, ok) /\ Exits(l)
  /\ UNCHANGED <<files, disk, data, agreed>>

\* The window's own button only closes it; containers go on, or even start.
CloseWindow(l) ==
  /\ At(l, "running") /\ Exits(l) /\ BrokenOff(l) /\ Outcome(FALSE, "closed")
  /\ UNCHANGED files

-----------------------------------------------------------------------------
(* Uninstallation                                                          *)

\* Mutant of Uninstall: the file is written before the user is asked.
Uninstall_Unasked(l) ==
  /\ Working(l, "running", "none") /\ Spends
  /\ pending' = [dir |-> run[l].dir, done |-> {}]
  /\ UNCHANGED <<lock, manifest, legacy, disk, docker, run, agreed, lOdd>>

\* The user agrees to lose the folder and every volume.  A removal that is still
\* pending, of another folder, is forgotten for it.
Uninstall(l) ==
  LET d == run[l].dir IN
  /\ Working(l, "running", "none") /\ Spends
  /\ pending' = [dir |-> d, done |-> {}]
  /\ agreed' = [agreed EXCEPT !.dirs = @ \cup {d}, !.data = data]
  /\ run' = [run EXCEPT ![l].pc = "uninstalling", ![l].w = "compose_down"]
  /\ lOdd' = lOdd \cup IF pending # Absent /\ pending.dir # d THEN {"replaced"} ELSE {}
  /\ UNCHANGED <<lock, manifest, legacy, disk, docker>>

\* Mutant of AfterStep: the thread goes on with the folder.
AfterStep_On(s) == CASE s = "compose_down" -> "remove_volumes" [] s = "remove_volumes" -> "remove_images"
                     [] s = "remove_images" -> "rmtree"

AfterStep(s) == CASE s = "compose_down" -> "remove_volumes" [] s = "remove_volumes" -> "remove_images"
                  [] s = "remove_images" -> "ended"

\* The thread asks the window to show the next step, which raises once the
\* window is closed.
UninstallStep(l, how) ==
  LET s == run[l].w IN
  /\ run[l].pc \in {"uninstalling", "removing", "tidy", "legacy", "last"}
  /\ DockerStep(s, run[l].dir, how) /\ Recorded(s, how)
  /\ WorkerGoes(l, IF At(l, "uninstalling") THEN AfterStep(s) ELSE "ended")
  /\ UNCHANGED <<lock, manifest, legacy, disk, agreed>>

\* Nobody else closes it, as after an installation.
CloseUninstall(l) ==
  /\ At(l, "uninstalling") /\ Goes(l, "removing") /\ Outcome(run[l].w = "ended", "closed")
  /\ UNCHANGED <<lock, files, disk, docker, agreed>>

\* Mutant of RemoveInstall: cleanup.json goes before the manifest.
RemoveInstall_Forgets(l, how) ==
  /\ At(l, "removing") /\ RemovesTree(run[l].dir, how) /\ Outcome(how = "done", "failed")
  /\ IF how = "done" THEN Goes(l, "tidy") /\ UNCHANGED lock /\ pending' = Absent
     ELSE Exits(l) /\ pending' = Updated("rmtree", how # "failed")
  /\ UNCHANGED <<manifest, legacy, docker, agreed>>

RemoveInstall(l, how) ==
  /\ At(l, "removing") /\ RemovesTree(run[l].dir, how) /\ Recorded("rmtree", how)
  /\ IF how = "done" THEN Goes(l, "tidy") /\ UNCHANGED lock ELSE Exits(l)
  /\ UNCHANGED <<manifest, legacy, docker, agreed>>

DeleteManifest(l) ==
  /\ At(l, "tidy") /\ manifest' = Absent /\ Recorded("delete_manifest", "done") /\ Goes(l, "legacy")
  /\ UNCHANGED <<lock, legacy, disk, docker, agreed>>

\* The file stays, without the folder.
ForgetFolder(l) ==
  /\ At(l, "legacy") /\ legacy' = [file |-> TRUE, repo |-> Absent] /\ Goes(l, "last")
  /\ UNCHANGED <<lock, manifest, pending, disk, docker, agreed, lSteps, lOdd>>

DeletePending(l) ==
  /\ At(l, "last") /\ pending' = Absent /\ Exits(l)
  /\ UNCHANGED <<manifest, legacy, disk, docker, agreed, lSteps, lOdd>>

-----------------------------------------------------------------------------
\* The user unpacks a release by hand, or moves a folder, from under a launcher
\* perhaps.
UserUnpacks(d) ==
  /\ disk[d] # "whole" /\ Spends /\ disk' = [disk EXCEPT ![d] = "whole"] /\ Anew({d}, {})
  /\ UNCHANGED <<lock, files, docker, run, lOdd>>

UserMoves(d, e) ==
  /\ disk[d] # "none" /\ disk[e] = "none" /\ d \notin up /\ Spends
  /\ disk' = [disk EXCEPT ![d] = "none", ![e] = disk[d]] /\ Anew({e}, {})
  /\ lOdd' = lOdd \cup {IF \A l \in Launchers : At(l, "off") THEN "moved" ELSE "pulled"}
  /\ UNCHANGED <<lock, files, docker, run>>

LauncherStep(l) ==
  \/ CheckLock(l) \/ WriteLock(l) \/ ReadPending(l) \/ RetryEnds(l) \/ CheckDocker(l)
  \/ Locate(l) \/ Declines(l) \/ WriteManifest(l) \/ WriteLegacy(l) \/ EnsureEnv(l) \/ Healthy(l)
  \/ DeleteManifest(l) \/ ForgetFolder(l) \/ DeletePending(l)
  \/ \E d \in Dirs : Pick(l, d) \/ Install(l, d)
  \/ \E ok \in BOOLEAN : Download(l, ok) \/ Unpack(l, ok) \/ Build(l, ok) \/ ComposeUp(l, ok)
  \/ \E how \in Hows : Retry(l, how) \/ UninstallStep(l, how) \/ RemoveInstall(l, how)

LauncherNext ==
  \/ \E l \in Launchers :
       \/ LauncherStep(l) \/ Start(l) \/ Crash(l) \/ CloseInstall(l) \/ CloseWindow(l)
       \/ Uninstall(l) \/ CloseUninstall(l)
       \/ \E ok \in BOOLEAN : Stop(l, ok)
  \/ \E d \in Dirs : UserUnpacks(d) \/ \E e \in Dirs : UserMoves(d, e)

LauncherSpec == LauncherInit /\ [][LauncherNext]_launcherVars

\* The program goes on and the user answers its dialogs; nobody needs to close a
\* window.
FairLauncherSpec == LauncherSpec /\ \A l \in Launchers : WF_launcherVars(LauncherStep(l))

-----------------------------------------------------------------------------
(* Properties                                                              *)

\* Only launchers that were both between check and write of the lock, at once,
\* get past it together: no other order of starts, ends and crashes lets a
\* second one in (__main__.py:56-75, lockfile.py:86-93).
PastLock == {l \in Launchers : run[l].pc \notin {"off", "check", "free"}}
OneLauncher == "raced" \in lOdd \/ \A l, k \in PastLock : l = k

\* A removal that was agreed to is carried through, by this launcher or a later
\* one, whenever a process is killed in the middle: once cleanup.json is gone,
\* so are the folder, its containers, its manifest and the volumes.
Gone ==
  /\ \A d \in agreed.dirs : disk[d] = "none" /\ d \notin up /\ manifest # d
  /\ agreed.data \cap data = {}
Removed(odd) == pending = Absent /\ ~agreed.late /\ lOdd \cap odd = {} => Gone
CarriedThrough == Removed({"raced", "failed", "closed"})

\* No folder and no volume is removed but what the user agreed to lose
\* (__main__.py:566-580), unless it was put there while the removal was pending,
\* or two launchers are at work.
UserActs == \E d, e \in Dirs : UserMoves(d, e)
OnlyAgreed ==
  /\ \A d \in Dirs : disk[d] # "none" /\ disk'[d] = "none" => d \in agreed.dirs
  /\ data \ data' \subseteq agreed.data
RemovalWasAgreed == UserActs \/ agreed.late \/ "raced" \in lOdd \/ OnlyAgreed

\* The manifest names a folder with half a release in it only while a removal is
\* pending, or if it is the default or remembered folder and an installation was
\* broken off.  Excepted are folders that were moved, a removal that was replaced
\* by another one, what was put there while one was pending, and two launchers at
\* work.
HalfManifest == manifest # Absent /\ disk[manifest] \in {"stub", "part"} /\ pending = Absent
ManifestIsWhole ==
  HalfManifest => \/ lOdd \cap {"raced", "moved", "pulled", "replaced"} # {} \/ agreed.late
                  \/ "broken" \in lOdd /\ manifest \in {Default, legacy.repo}

\* No launcher, no containers: whatever way a launcher ends by itself or by its
\* Stop button, it leaves none running (__main__.py:745, :749-754), if its folder
\* stays where it is.
NoneRuns(odd) == lOdd \cap odd = {} /\ (\A l \in Launchers : At(l, "off")) => up = {}
StoppedIsDown == NoneRuns({"failed", "crashed", "raced", "closed", "pulled"})

-----------------------------------------------------------------------------
(* What the code does not keep, though it says so                          *)

\* "Close this window or click Stop to shut down" (ui.py:674).
ClosedIsDown == NoneRuns({"failed", "crashed", "raced", "pulled"})

\* "Written by the launcher after a successful install" (manifest.py:10).
ManifestIsOfAnInstall == ~HalfManifest

\* "All steps done: remove cleanup state file" (__main__.py:632).
AllStepsDone == Removed({"raced"})

\* "Silently retry any incomplete uninstall from a previous session"
\* (__main__.py:317): not what was installed since.
Retrying == \E l \in Launchers : At(l, "retry")
OnlyTheOldIsRemoved == [][Retrying /\ ~UserActs /\ "raced" \notin lOdd => OnlyAgreed]_launcherVars

\* "Each step has a concrete error dialog on failure" (__main__.py:4): an
\* installation that ended is told to the user.
InstallIsTold == \A l \in Launchers : Working(l, "installing", "ended") ~> ~At(l, "installing")
=============================================================================
