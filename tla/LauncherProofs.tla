---------------------------- MODULE LauncherProofs ----------------------------
(***************************************************************************)
(* Theorems about Launcher, and about MCShell as a whole, for any set of   *)
(* launchers and of folders and any bound.                                 *)
(***************************************************************************)
EXTENDS HubProofs

\* Who has something in hand has it in a folder; a worker that stops and removes
\* containers is one of an uninstallation; an installation is told to be done
\* when it is.
Handling == {"retry", "installing", "env", "running", "uninstalling", "removing", "tidy", "legacy", "last"}
Uninstalling == {"uninstalling", "removing", "tidy", "legacy", "last"}
Sound(pc, w, dir, res) ==
  /\ pc \in Handling => dir \in Dirs
  /\ w \in StepNames => pc \in Uninstalling
  /\ res = "ok" => pc = "env" \/ (pc = "installing" /\ w = "ended")
Housed == \A l \in Launchers : Sound(run[l].pc, run[l].w, run[l].dir, run[l].res)

\* What launcher l does, or has happen to it.
ActsOf(l) ==
  \/ LauncherStep(l) \/ Start(l) \/ Crash(l) \/ CloseInstall(l) \/ CloseWindow(l)
  \/ Uninstall(l) \/ CloseUninstall(l) \/ \E ok \in BOOLEAN : Stop(l, ok)

\* What becomes of launcher l; the others go on as they are.
Turns(l, pc, w, dir, todo, res) ==
  /\ run' \in [Launchers -> Process] /\ \A k \in Launchers \ {l} : run'[k] = run[k]
  /\ run'[l].pc = pc /\ run'[l].w = w /\ run'[l].dir = dir /\ run'[l].todo = todo /\ run'[l].res = res

MainTo(l, pc) == Turns(l, pc, run[l].w, run[l].dir, run[l].todo, run[l].res)
WorkerTo(l, w) == Turns(l, run[l].pc, w, run[l].dir, run[l].todo, run[l].res)
WorkerEnds(l, res) == Turns(l, run[l].pc, "ended", run[l].dir, run[l].todo, res)
Ends(l) == Turns(l, "off", "none", Absent, {}, "none")

-----------------------------------------------------------------------------
(* Lemmas on the helpers                                                   *)

\* A launcher and its fields.
Like(q, pc, w, dir, todo, res) ==
  q \in Process /\ q.pc = pc /\ q.w = w /\ q.dir = dir /\ q.todo = todo /\ q.res = res

\* The fields of a launcher, and what it is after some of them changed.
LEMMA Fields ==
  ASSUME NEW r \in Process
  PROVE  /\ r.pc \in Pcs /\ r.w \in Works /\ r.dir \in Dirs \cup {Absent} /\ r.todo \in SUBSET StepNames
         /\ r.res \in Results
         /\ \A pc \in Pcs : Like([r EXCEPT !.pc = pc], pc, r.w, r.dir, r.todo, r.res)
         /\ \A w \in Works : Like([r EXCEPT !.w = w], r.pc, w, r.dir, r.todo, r.res)
         /\ \A todo \in SUBSET StepNames : Like([r EXCEPT !.todo = todo], r.pc, r.w, r.dir, todo, r.res)
         /\ \A w \in Works, res \in Results : Like([r EXCEPT !.w = w, !.res = res], r.pc, w, r.dir, r.todo, res)
         /\ \A pc \in Pcs, d \in Dirs : Like([r EXCEPT !.pc = pc, !.dir = d], pc, r.w, d, r.todo, r.res)
         /\ \A pc \in Pcs, w \in Works : Like([r EXCEPT !.pc = pc, !.w = w], pc, w, r.dir, r.todo, r.res)
         /\ \A pc \in Pcs, d \in Dirs, todo \in SUBSET StepNames : Like([r EXCEPT !.pc = pc, !.dir = d, !.todo = todo], pc, r.w, d, todo, r.res)
         /\ \A pc \in Pcs, w \in Works, d \in Dirs : Like([r EXCEPT !.pc = pc, !.w = w, !.dir = d], pc, w, d, r.todo, r.res)
         /\ \A pc \in Pcs, w \in Works, res \in Results : Like([r EXCEPT !.pc = pc, !.w = w, !.res = res], pc, w, r.dir, r.todo, res)
<1>1. \A pc \in Pcs : Like([r EXCEPT !.pc = pc], pc, r.w, r.dir, r.todo, r.res)
  BY DEF Process, Like
<1>2. \A w \in Works : Like([r EXCEPT !.w = w], r.pc, w, r.dir, r.todo, r.res)
  BY DEF Process, Like
<1>3. \A todo \in SUBSET StepNames : Like([r EXCEPT !.todo = todo], r.pc, r.w, r.dir, todo, r.res)
  BY DEF Process, Like
<1>4. \A w \in Works, res \in Results : Like([r EXCEPT !.w = w, !.res = res], r.pc, w, r.dir, r.todo, res)
  BY DEF Process, Like
<1>5. \A pc \in Pcs, d \in Dirs : Like([r EXCEPT !.pc = pc, !.dir = d], pc, r.w, d, r.todo, r.res)
  BY DEF Process, Like
<1>6. \A pc \in Pcs, w \in Works : Like([r EXCEPT !.pc = pc, !.w = w], pc, w, r.dir, r.todo, r.res)
  BY DEF Process, Like
<1>7. \A pc \in Pcs, d \in Dirs, todo \in SUBSET StepNames : Like([r EXCEPT !.pc = pc, !.dir = d, !.todo = todo], pc, r.w, d, todo, r.res)
  BY DEF Process, Like
<1>8. \A pc \in Pcs, w \in Works, d \in Dirs : Like([r EXCEPT !.pc = pc, !.w = w, !.dir = d], pc, w, d, r.todo, r.res)
  BY DEF Process, Like
<1>9. \A pc \in Pcs, w \in Works, res \in Results : Like([r EXCEPT !.pc = pc, !.w = w, !.res = res], pc, w, r.dir, r.todo, res)
  BY DEF Process, Like
<1>10. /\ r.pc \in Pcs /\ r.w \in Works /\ r.dir \in Dirs \cup {Absent} /\ r.todo \in SUBSET StepNames
       /\ r.res \in Results
  BY DEF Process
<1>. QED  BY <1>1, <1>2, <1>3, <1>4, <1>5, <1>6, <1>7, <1>8, <1>9, <1>10

\* What becomes of it.
LEMMA TurnsTo ==
  ASSUME LauncherTypeOK, NEW l \in Launchers
  PROVE  LET r == run[l] IN
         /\ \A pc \in Pcs : Goes(l, pc) => Turns(l, pc, r.w, r.dir, r.todo, r.res)
         /\ \A w \in Works : WorkerGoes(l, w) => Turns(l, r.pc, w, r.dir, r.todo, r.res)
         /\ \A res \in Results : Ended(l, res) => Turns(l, r.pc, "ended", r.dir, r.todo, res)
         /\ \A pc \in Pcs : run' = [run EXCEPT ![l] = [Off EXCEPT !.pc = pc]] => Turns(l, pc, "none", Absent, {}, "none")
         /\ run' = [run EXCEPT ![l] = Off] => Turns(l, "off", "none", Absent, {}, "none")
         /\ \A pc \in Pcs, d \in Dirs :
              run' = [run EXCEPT ![l].pc = pc, ![l].dir = d] => Turns(l, pc, r.w, d, r.todo, r.res)
         /\ \A d \in Dirs, todo \in SUBSET StepNames :
              run' = [run EXCEPT ![l].pc = "retry", ![l].dir = d, ![l].todo = todo] => Turns(l, "retry", r.w, d, todo, r.res)
         /\ \A d \in Dirs :
              run' = [run EXCEPT ![l].pc = "installing", ![l].w = "get", ![l].dir = d]
                => Turns(l, "installing", "get", d, r.todo, r.res)
         /\ \A pc \in Pcs, w \in Works :
              run' = [run EXCEPT ![l].pc = pc, ![l].w = w] => Turns(l, pc, w, r.dir, r.todo, r.res)
         /\ \A pc \in Pcs, w \in Works :
              run' = [run EXCEPT ![l].pc = pc, ![l].w = w, ![l].res = "none"] => Turns(l, pc, w, r.dir, r.todo, "none")
         /\ \A todo \in SUBSET StepNames :
              run' = [run EXCEPT ![l].todo = todo] => Turns(l, r.pc, r.w, r.dir, todo, r.res)
<1>. DEFINE r == run[l]
<1>0. run \in [Launchers -> Process] /\ r \in Process  BY DEF LauncherTypeOK
<1>1. "retry" \in Pcs /\ "installing" \in Pcs /\ "off" \in Pcs /\ "get" \in Works /\ "ended" \in Works /\ "none" \in Works
      /\ {} \in SUBSET StepNames /\ "none" \in Results
  BY DEF Pcs, Works, Results
<1>2. /\ r.pc \in Pcs /\ r.w \in Works /\ r.dir \in Dirs \cup {Absent} /\ r.todo \in SUBSET StepNames
      /\ r.res \in Results
  BY <1>0, Fields
<1>3. ASSUME NEW q, NEW pc, NEW w, NEW dir, NEW todo, NEW res,
             Like(q, pc, w, dir, todo, res), run' = [run EXCEPT ![l] = q]
      PROVE  Turns(l, pc, w, dir, todo, res)
  BY <1>0, <1>3 DEF Turns, Like
<1>4. ASSUME NEW pc \in Pcs, Goes(l, pc)  PROVE Turns(l, pc, r.w, r.dir, r.todo, r.res)
  BY <1>0, <1>2, <1>3, <1>4, Fields DEF Goes
<1>5. ASSUME NEW w \in Works, WorkerGoes(l, w)  PROVE Turns(l, r.pc, w, r.dir, r.todo, r.res)
  BY <1>0, <1>2, <1>3, <1>5, Fields DEF WorkerGoes
<1>6. ASSUME NEW res \in Results, Ended(l, res)  PROVE Turns(l, r.pc, "ended", r.dir, r.todo, res)
  <2>1. run' = [run EXCEPT ![l] = [r EXCEPT !.w = "ended", !.res = res]]  BY <1>0, <1>6 DEF Ended
  <2>2. Like([r EXCEPT !.w = "ended", !.res = res], r.pc, "ended", r.dir, r.todo, res)  BY <1>0, <1>1, Fields
  <2>. QED  BY <1>3, <2>1, <2>2
<1>7. ASSUME NEW pc \in Pcs, run' = [run EXCEPT ![l] = [Off EXCEPT !.pc = pc]]  PROVE Turns(l, pc, "none", Absent, {}, "none")
  <2>1. Like([Off EXCEPT !.pc = pc], pc, "none", Absent, {}, "none")
    BY <1>1 DEF Off, Like, Process
  <2>. QED  BY <1>3, <1>7, <2>1
<1>8. ASSUME run' = [run EXCEPT ![l] = Off]  PROVE Turns(l, "off", "none", Absent, {}, "none")
  <2>1. Like(Off, "off", "none", Absent, {}, "none")
    BY <1>1 DEF Off, Like, Process
  <2>. QED  BY <1>3, <1>8, <2>1
<1>9. ASSUME NEW pc \in Pcs, NEW d \in Dirs, run' = [run EXCEPT ![l].pc = pc, ![l].dir = d]
      PROVE  Turns(l, pc, r.w, d, r.todo, r.res)
  <2>1. run' = [run EXCEPT ![l] = [r EXCEPT !.pc = pc, !.dir = d]]  BY <1>0, <1>9
  <2>2. Like([r EXCEPT !.pc = pc, !.dir = d], pc, r.w, d, r.todo, r.res)  BY <1>0, <1>1, Fields
  <2>. QED  BY <1>3, <2>1, <2>2
<1>10. ASSUME NEW d \in Dirs, NEW todo \in SUBSET StepNames,
              run' = [run EXCEPT ![l].pc = "retry", ![l].dir = d, ![l].todo = todo]
       PROVE  Turns(l, "retry", r.w, d, todo, r.res)
  <2>1. run' = [run EXCEPT ![l] = [r EXCEPT !.pc = "retry", !.dir = d, !.todo = todo]]  BY <1>0, <1>10
  <2>2. Like([r EXCEPT !.pc = "retry", !.dir = d, !.todo = todo], "retry", r.w, d, todo, r.res)  BY <1>0, <1>1, Fields
  <2>. QED  BY <1>3, <2>1, <2>2
<1>11. ASSUME NEW d \in Dirs, run' = [run EXCEPT ![l].pc = "installing", ![l].w = "get", ![l].dir = d]
       PROVE  Turns(l, "installing", "get", d, r.todo, r.res)
  <2>1. run' = [run EXCEPT ![l] = [r EXCEPT !.pc = "installing", !.w = "get", !.dir = d]]  BY <1>0, <1>11
  <2>2. Like([r EXCEPT !.pc = "installing", !.w = "get", !.dir = d], "installing", "get", d, r.todo, r.res)  BY <1>0, <1>1, Fields
  <2>. QED  BY <1>3, <2>1, <2>2
<1>12. ASSUME NEW pc \in Pcs, NEW w \in Works, run' = [run EXCEPT ![l].pc = pc, ![l].w = w]
       PROVE  Turns(l, pc, w, r.dir, r.todo, r.res)
  <2>1. run' = [run EXCEPT ![l] = [r EXCEPT !.pc = pc, !.w = w]]  BY <1>0, <1>12
  <2>2. Like([r EXCEPT !.pc = pc, !.w = w], pc, w, r.dir, r.todo, r.res)  BY <1>0, <1>1, Fields
  <2>. QED  BY <1>3, <2>1, <2>2
<1>13. ASSUME NEW pc \in Pcs, NEW w \in Works, run' = [run EXCEPT ![l].pc = pc, ![l].w = w, ![l].res = "none"]
       PROVE  Turns(l, pc, w, r.dir, r.todo, "none")
  <2>1. run' = [run EXCEPT ![l] = [r EXCEPT !.pc = pc, !.w = w, !.res = "none"]]  BY <1>0, <1>13
  <2>2. Like([r EXCEPT !.pc = pc, !.w = w, !.res = "none"], pc, w, r.dir, r.todo, "none")  BY <1>0, <1>1, Fields
  <2>. QED  BY <1>3, <2>1, <2>2
<1>14. ASSUME NEW todo \in SUBSET StepNames, run' = [run EXCEPT ![l].todo = todo]
       PROVE  Turns(l, r.pc, r.w, r.dir, todo, r.res)
  BY <1>0, <1>2, <1>3, <1>14, Fields
<1>. QED  BY <1>4, <1>5, <1>6, <1>7, <1>8, <1>9, <1>10, <1>11, <1>12, <1>13, <1>14

\* First of a non-empty set of steps is one of them.
LEMMA FirstIsOne ==
  ASSUME NEW todo \in SUBSET StepNames, todo # {}
  PROVE  First(todo) \in todo
<1>. DEFINE S == CLEANUP_STEPS
            Is(n) == S[n] \in todo
<1>1. DOMAIN S = 1..5 /\ S[1] = "compose_down" /\ S[2] = "remove_volumes" /\ S[3] = "remove_images"
      /\ S[4] = "rmtree" /\ S[5] = "delete_manifest"
  BY DEF CLEANUP_STEPS
<1>2. Is(1) \/ Is(2) \/ Is(3) \/ Is(4) \/ Is(5)
  <2>1. PICK s \in StepNames : s \in todo  OBVIOUS
  <2>2. PICK n \in 1..5 : s = S[n]  BY <1>1, <2>1 DEF StepNames
  <2>. QED  BY <2>1, <2>2
<1>. HIDE DEF S
<1>3. \E n \in 1..5 : Is(n) /\ \A m \in 1..5 : Is(m) => n <= m
  <2>1. CASE Is(1)  BY <2>1
  <2>2. CASE ~Is(1) /\ Is(2)  BY <2>2
  <2>3. CASE ~Is(1) /\ ~Is(2) /\ Is(3)  BY <2>3
  <2>4. CASE ~Is(1) /\ ~Is(2) /\ ~Is(3) /\ Is(4)  BY <2>4
  <2>5. CASE ~Is(1) /\ ~Is(2) /\ ~Is(3) /\ ~Is(4) /\ Is(5)  BY <2>5
  <2>. QED  BY <1>2, <2>1, <2>2, <2>3, <2>4, <2>5
<1>4. First(todo) = S[CHOOSE n \in DOMAIN S : Is(n) /\ \A m \in DOMAIN S : Is(m) => n <= m]
  BY DEF First, S
<1>. QED  BY <1>1, <1>3, <1>4

\* Where each action takes its launcher.
LEMMA Courses ==
  ASSUME LauncherTypeOK, NEW l \in Launchers
  PROVE  LET r == run[l] IN
         /\ Start(l) => MainTo(l, "check")
         /\ CheckLock(l) => Ends(l) \/ MainTo(l, "free")
         /\ WriteLock(l) => MainTo(l, "locked")
         /\ ReadPending(l) => \/ pending = Absent /\ MainTo(l, "docker")
                              \/ pending # Absent /\ Turns(l, "retry", r.w, pending.dir, StepNames \ pending.done, r.res)
         /\ \A how \in Hows : Retry(l, how) => Turns(l, "retry", r.w, r.dir, r.todo \ {First(r.todo)}, r.res)
         /\ RetryEnds(l) => Turns(l, "docker", "none", Absent, {}, "none")
         /\ CheckDocker(l) => Ends(l) \/ MainTo(l, "locate")
         /\ Locate(l) => \/ MainTo(l, "picker") \/ MainTo(l, "prompt")
                         \/ \E d \in Dirs : Valid(d) /\ manifest' = d /\ Turns(l, "env", r.w, d, r.todo, r.res)
         /\ \A d \in Dirs : Pick(l, d) => Turns(l, "env", r.w, d, r.todo, r.res)
         /\ Declines(l) => Ends(l)
         /\ \A d \in Dirs : Install(l, d) => Turns(l, "installing", "get", d, r.todo, r.res)
         /\ \A ok \in BOOLEAN : Download(l, ok) => IF ok THEN WorkerTo(l, "unpack") ELSE WorkerEnds(l, "error")
         /\ \A ok \in BOOLEAN : Unpack(l, ok) => IF ok THEN WorkerTo(l, "manifest") ELSE WorkerEnds(l, "none")
         /\ WriteManifest(l) => WorkerTo(l, "legacy")
         /\ WriteLegacy(l) => WorkerTo(l, "build")
         /\ \A ok \in BOOLEAN : Build(l, ok) => WorkerEnds(l, IF ok THEN "ok" ELSE "error")
         /\ CloseInstall(l) => IF r.res = "ok" THEN MainTo(l, "env") ELSE Ends(l)
         /\ EnsureEnv(l) => Ends(l) \/ Turns(l, "running", "up", r.dir, r.todo, "none")
         /\ \A ok \in BOOLEAN : ComposeUp(l, ok) => IF ok THEN WorkerTo(l, "health") ELSE Ends(l)
         /\ Healthy(l) => WorkerTo(l, "none")
         /\ \A ok \in BOOLEAN : Stop(l, ok) => Ends(l)
         /\ CloseWindow(l) => Ends(l)
         /\ Uninstall(l) => Turns(l, "uninstalling", "compose_down", r.dir, r.todo, r.res)
         /\ \A how \in Hows : UninstallStep(l, how) => WorkerTo(l, IF At(l, "uninstalling") THEN AfterStep(r.w) ELSE "ended")
         /\ CloseUninstall(l) => MainTo(l, "removing")
         /\ \A how \in Hows : RemoveInstall(l, how) => IF how = "done" THEN MainTo(l, "tidy") ELSE Ends(l)
         /\ DeleteManifest(l) => MainTo(l, "legacy")
         /\ ForgetFolder(l) => MainTo(l, "last")
         /\ DeletePending(l) => Ends(l)
         /\ Crash(l) => Ends(l)
<1>. DEFINE r == run[l]
<1>0. Pcs = {"off", "check", "free", "locked", "retry", "docker", "locate", "picker", "prompt", "installing",
             "env", "running", "uninstalling", "removing", "tidy", "legacy", "last"} /\ Results = {"none", "ok", "error"}
      /\ Works = {"none", "get", "unpack", "manifest", "legacy", "build", "up", "health", "ended",
                  "compose_down", "remove_volumes", "remove_images"}
  BY DEF Pcs, Works, Results
<1>1. ASSUME Start(l)
      PROVE  MainTo(l, "check")
  BY <1>0, <1>1, TurnsTo DEF Start, MainTo, WorkerTo, WorkerEnds, Ends
<1>2. ASSUME CheckLock(l)
      PROVE  Ends(l) \/ MainTo(l, "free")
  BY <1>0, <1>2, TurnsTo DEF CheckLock, AlreadyRunning, MainTo, WorkerTo, WorkerEnds, Ends
<1>3. ASSUME WriteLock(l)
      PROVE  MainTo(l, "locked")
  BY <1>0, <1>3, TurnsTo DEF WriteLock, MainTo, WorkerTo, WorkerEnds, Ends
<1>4. ASSUME ReadPending(l)
      PROVE  \/ pending = Absent /\ MainTo(l, "docker")
             \/ pending # Absent /\ Turns(l, "retry", r.w, pending.dir, StepNames \ pending.done, r.res)
  <2>1. CASE pending = Absent
    <3>1. Goes(l, "docker")  BY <1>4, <2>1 DEF ReadPending, Goes
    <3>. QED  BY <1>0, <2>1, <3>1, TurnsTo DEF MainTo
  <2>2. CASE pending # Absent
    <3>1. pending.dir \in Dirs /\ StepNames \ pending.done \in SUBSET StepNames
      BY <2>2 DEF LauncherTypeOK, Cleanup
    <3>2. run' = [run EXCEPT ![l].pc = "retry", ![l].dir = pending.dir, ![l].todo = StepNames \ pending.done]
      BY <1>4, <2>2 DEF ReadPending
    <3>. QED  BY <2>2, <3>1, <3>2, TurnsTo
  <2>. QED  BY <2>1, <2>2
<1>5. ASSUME NEW how \in Hows, Retry(l, how)
      PROVE  Turns(l, "retry", r.w, r.dir, r.todo \ {First(r.todo)}, r.res)
  <2>1. r.pc = "retry" /\ run' = [run EXCEPT ![l].todo = @ \ {First(r.todo)}]
    BY <1>5 DEF Retry, At
  <2>2. r.todo \ {First(r.todo)} \in SUBSET StepNames
    BY Fields DEF LauncherTypeOK
  <2>. QED  BY <2>1, <2>2, TurnsTo
<1>6. ASSUME RetryEnds(l)
      PROVE  Turns(l, "docker", "none", Absent, {}, "none")
  BY <1>0, <1>6, TurnsTo DEF RetryEnds, MainTo, WorkerTo, WorkerEnds, Ends
<1>7. ASSUME CheckDocker(l)
      PROVE  Ends(l) \/ MainTo(l, "locate")
  BY <1>0, <1>7, TurnsTo DEF CheckDocker, Exits, MainTo, WorkerTo, WorkerEnds, Ends
<1>8. ASSUME Locate(l)
      PROVE  \/ MainTo(l, "picker") \/ MainTo(l, "prompt")
             \/ \E d \in Dirs : Valid(d) /\ manifest' = d /\ Turns(l, "env", r.w, d, r.todo, r.res)
  <2>. USE DEF MainTo
  <2>1. CASE manifest # Absent /\ Valid(manifest)
    <3>1. manifest \in Dirs  BY <2>1 DEF LauncherTypeOK
    <3>2. run' = [run EXCEPT ![l].pc = "env", ![l].dir = manifest] /\ manifest' = manifest
      BY <1>8, <2>1 DEF Locate
    <3>. QED  BY <1>0, <2>1, <3>1, <3>2, TurnsTo
  <2>2. CASE ~(manifest # Absent /\ Valid(manifest)) /\ Valid(Remembered)
    <3>1. Remembered \in Dirs  BY LauncherAssumption DEF Remembered, LauncherTypeOK
    <3>2. run' = [run EXCEPT ![l].pc = "env", ![l].dir = Remembered] /\ manifest' = Remembered
      BY <1>8, <2>2 DEF Locate
    <3>. QED  BY <1>0, <2>2, <3>1, <3>2, TurnsTo
  <2>3. CASE ~(manifest # Absent /\ Valid(manifest)) /\ ~Valid(Remembered)
    <3>1. Goes(l, "picker") \/ Goes(l, "prompt")  BY <1>8, <2>3 DEF Locate
    <3>. QED  BY <1>0, <3>1, TurnsTo
  <2>. QED  BY <2>1, <2>2, <2>3
<1>9. ASSUME NEW d \in Dirs, Pick(l, d)
      PROVE  Turns(l, "env", r.w, d, r.todo, r.res)
  BY <1>0, <1>9, TurnsTo DEF Pick, MainTo, WorkerTo, WorkerEnds, Ends
<1>10. ASSUME Declines(l)
      PROVE  Ends(l)
  BY <1>0, <1>10, TurnsTo DEF Declines, Exits, MainTo, WorkerTo, WorkerEnds, Ends
<1>11. ASSUME NEW d \in Dirs, Install(l, d)
      PROVE  Turns(l, "installing", "get", d, r.todo, r.res)
  BY <1>0, <1>11, TurnsTo DEF Install, MainTo, WorkerTo, WorkerEnds, Ends
<1>12. ASSUME NEW ok \in BOOLEAN, Download(l, ok)
      PROVE  IF ok THEN WorkerTo(l, "unpack") ELSE WorkerEnds(l, "error")
  BY <1>0, <1>12, TurnsTo DEF Download, MainTo, WorkerTo, WorkerEnds, Ends
<1>13. ASSUME NEW ok \in BOOLEAN, Unpack(l, ok)
      PROVE  IF ok THEN WorkerTo(l, "manifest") ELSE WorkerEnds(l, "none")
  BY <1>0, <1>13, TurnsTo DEF Unpack, MainTo, WorkerTo, WorkerEnds, Ends
<1>14. ASSUME WriteManifest(l)
      PROVE  WorkerTo(l, "legacy")
  BY <1>0, <1>14, TurnsTo DEF WriteManifest, MainTo, WorkerTo, WorkerEnds, Ends
<1>15. ASSUME WriteLegacy(l)
      PROVE  WorkerTo(l, "build")
  BY <1>0, <1>15, TurnsTo DEF WriteLegacy, MainTo, WorkerTo, WorkerEnds, Ends
<1>16. ASSUME NEW ok \in BOOLEAN, Build(l, ok)
      PROVE  WorkerEnds(l, IF ok THEN "ok" ELSE "error")
  BY <1>0, <1>16, TurnsTo DEF Build, MainTo, WorkerTo, WorkerEnds, Ends
<1>17. ASSUME CloseInstall(l)
      PROVE  IF r.res = "ok" THEN MainTo(l, "env") ELSE Ends(l)
  BY <1>0, <1>17, TurnsTo DEF CloseInstall, Exits, MainTo, WorkerTo, WorkerEnds, Ends
<1>18. ASSUME EnsureEnv(l)
      PROVE  Ends(l) \/ Turns(l, "running", "up", r.dir, r.todo, "none")
  BY <1>0, <1>18, TurnsTo DEF EnsureEnv, Exits, MainTo, WorkerTo, WorkerEnds, Ends
<1>19. ASSUME NEW ok \in BOOLEAN, ComposeUp(l, ok)
      PROVE  IF ok THEN WorkerTo(l, "health") ELSE Ends(l)
  BY <1>0, <1>19, TurnsTo DEF ComposeUp, Exits, MainTo, WorkerTo, WorkerEnds, Ends
<1>20. ASSUME Healthy(l)
      PROVE  WorkerTo(l, "none")
  BY <1>0, <1>20, TurnsTo DEF Healthy, MainTo, WorkerTo, WorkerEnds, Ends
<1>21. ASSUME NEW ok \in BOOLEAN, Stop(l, ok)
      PROVE  Ends(l)
  BY <1>0, <1>21, TurnsTo DEF Stop, Exits, MainTo, WorkerTo, WorkerEnds, Ends
<1>22. ASSUME CloseWindow(l)
      PROVE  Ends(l)
  BY <1>0, <1>22, TurnsTo DEF CloseWindow, Exits, MainTo, WorkerTo, WorkerEnds, Ends
<1>23. ASSUME Uninstall(l)
      PROVE  Turns(l, "uninstalling", "compose_down", r.dir, r.todo, r.res)
  BY <1>0, <1>23, TurnsTo DEF Uninstall, MainTo, WorkerTo, WorkerEnds, Ends
<1>24. ASSUME NEW how \in Hows, UninstallStep(l, how)
      PROVE  WorkerTo(l, IF At(l, "uninstalling") THEN AfterStep(r.w) ELSE "ended")
  <2>1. r.w \in {"compose_down", "remove_volumes", "remove_images"}  BY <1>24 DEF UninstallStep, DockerStep
  <2>2. (IF At(l, "uninstalling") THEN AfterStep(r.w) ELSE "ended") \in Works  BY <1>0, <2>1 DEF AfterStep
  <2>3. WorkerGoes(l, IF At(l, "uninstalling") THEN AfterStep(r.w) ELSE "ended")  BY <1>24 DEF UninstallStep
  <2>. QED  BY <2>2, <2>3, TurnsTo DEF WorkerTo
<1>25. ASSUME CloseUninstall(l)
      PROVE  MainTo(l, "removing")
  BY <1>0, <1>25, TurnsTo DEF CloseUninstall, MainTo, WorkerTo, WorkerEnds, Ends
<1>26. ASSUME NEW how \in Hows, RemoveInstall(l, how)
      PROVE  IF how = "done" THEN MainTo(l, "tidy") ELSE Ends(l)
  BY <1>0, <1>26, TurnsTo DEF RemoveInstall, Exits, MainTo, WorkerTo, WorkerEnds, Ends
<1>27. ASSUME DeleteManifest(l)
      PROVE  MainTo(l, "legacy")
  BY <1>0, <1>27, TurnsTo DEF DeleteManifest, MainTo, WorkerTo, WorkerEnds, Ends
<1>28. ASSUME ForgetFolder(l)
      PROVE  MainTo(l, "last")
  BY <1>0, <1>28, TurnsTo DEF ForgetFolder, MainTo, WorkerTo, WorkerEnds, Ends
<1>29. ASSUME DeletePending(l)
      PROVE  Ends(l)
  BY <1>0, <1>29, TurnsTo DEF DeletePending, Exits, MainTo, WorkerTo, WorkerEnds, Ends
<1>30. ASSUME Crash(l)
      PROVE  Ends(l)
  BY <1>0, <1>30, TurnsTo DEF Crash, MainTo, WorkerTo, WorkerEnds, Ends
<1>. QED
  BY <1>1, <1>2, <1>3, <1>4, <1>5, <1>6, <1>7, <1>8, <1>9, <1>10, <1>11, <1>12, <1>13, <1>14, <1>15, <1>16, <1>17, <1>18, <1>19, <1>20, <1>21, <1>22, <1>23, <1>24, <1>25, <1>26, <1>27, <1>28, <1>29, <1>30

\* What the small helpers do.
LEMMA Counted ==
  ASSUME LauncherTypeOK
  PROVE  /\ Spends => lSteps' \in 0..MaxLauncherSteps
         /\ \A ok \in BOOLEAN, why \in Odds : Outcome(ok, why) =>
              /\ lSteps' \in 0..MaxLauncherSteps /\ lOdd' \subseteq Odds
              /\ lOdd' = IF ok THEN lOdd ELSE lOdd \cup {why}
<1>1. Spends => lSteps' \in 0..MaxLauncherSteps
  BY LauncherAssumption DEF LauncherTypeOK, Spends
<1>. QED  BY <1>1 DEF LauncherTypeOK, Outcome

LEMMA PutAnew ==
  ASSUME LauncherTypeOK, NEW dirs \in SUBSET Dirs, NEW vols \in SUBSET Dirs, Anew(dirs, vols)
  PROVE  /\ agreed' \in [dirs : SUBSET Dirs, data : SUBSET Dirs, late : BOOLEAN]
         /\ agreed'.dirs = agreed.dirs \ dirs /\ agreed'.data = agreed.data \ vols
         /\ agreed'.late <=> agreed.late \/ (pending # Absent /\ dirs \cup vols # {})
BY DEF LauncherTypeOK, Anew

LEMMA UpIs ==
  ASSUME LauncherTypeOK, NEW d \in Dirs, NEW ok \in BOOLEAN, Upped(d, ok)
  PROVE  /\ up' \subseteq Dirs /\ data' \subseteq Dirs /\ up \subseteq up' /\ data \subseteq data'
         /\ up' = IF ok THEN up \cup {d} ELSE up
         /\ ~ok => data' = data
BY DEF LauncherTypeOK, Upped

LEMMA UpdatedIs ==
  ASSUME LauncherTypeOK, NEW s \in StepNames, NEW ok \in BOOLEAN
  PROVE  /\ Updated(s, ok) \in {Absent} \cup Cleanup
         /\ pending = Absent => Updated(s, ok) = Absent
         /\ pending # Absent => /\ Updated(s, ok) # Absent /\ Updated(s, ok).dir = pending.dir
                                /\ Updated(s, ok).done = IF ok THEN pending.done \cup {s} ELSE pending.done \ {s}
<1>1. CASE pending = Absent  BY <1>1 DEF Updated
<1>2. CASE pending # Absent
  <2>1. pending \in Cleanup  BY <1>2 DEF LauncherTypeOK
  <2>2. \A D \in SUBSET StepNames : /\ [pending EXCEPT !.done = D] \in Cleanup
                                   /\ [pending EXCEPT !.done = D].dir = pending.dir
                                   /\ [pending EXCEPT !.done = D].done = D
    BY <2>1 DEF Cleanup
  <2>3. pending.done \cup {s} \in SUBSET StepNames /\ pending.done \ {s} \in SUBSET StepNames
    BY <2>1 DEF Cleanup
  <2>. QED  BY <1>2, <2>2, <2>3, LauncherAssumption DEF Updated
<1>. QED  BY <1>1, <1>2

LEMMA DockerDoes ==
  ASSUME LauncherTypeOK, NEW s, NEW d, NEW how, DockerStep(s, d, how)
  PROVE  /\ s \in {"compose_down", "remove_volumes", "remove_images"}
         /\ up' \subseteq up /\ data' \subseteq data /\ (s # "remove_volumes" => data' = data)
         /\ s = "compose_down" => how # "skipped" /\ (how = "done" => d \notin up')
<1>1. CASE s = "compose_down" /\ Downed(d, how) /\ UNCHANGED data  BY <1>1 DEF Downed
<1>2. CASE /\ s = "remove_volumes" /\ UNCHANGED up /\ data' \in IF how = "done" THEN {{}} ELSE {data, data \cap up}
  <2>1. data' = {} \/ data' = data \/ data' = data \cap up  BY <1>2
  <2>. QED  BY <1>2, <2>1
<1>3. CASE s = "remove_images" /\ UNCHANGED docker  BY <1>3 DEF docker
<1>. QED  BY <1>1, <1>2, <1>3 DEF DockerStep

LEMMA TreeIs ==
  ASSUME LauncherTypeOK, NEW d, NEW how, RemovesTree(d, how)
  PROVE  /\ disk' \in [Dirs -> {"none", "stub", "part", "whole"}] /\ \A e \in Dirs \ {d} : disk'[e] = disk[e]
         /\ how # "skipped"
<1>1. d \in Dirs => Torn(d) \subseteq {"none", "stub", "part", "whole"}
  BY DEF LauncherTypeOK, Torn
<1>2. PICK x : /\ disk' = [disk EXCEPT ![d] = x] /\ how # "skipped"
               /\ x \in IF how = "done" THEN {"none"} ELSE Torn(d)
  BY DEF RemovesTree
<1>3. disk \in [Dirs -> {"none", "stub", "part", "whole"}]  BY DEF LauncherTypeOK
<1>4. CASE d \in Dirs
  <2>1. x \in {"none", "stub", "part", "whole"}  BY <1>1, <1>2, <1>4
  <2>. QED  BY <1>2, <1>3, <1>4, <2>1
<1>5. CASE d \notin Dirs
  <2>1. disk' = disk  BY <1>2, <1>3, <1>5
  <2>. QED  BY <1>2, <1>3, <2>1
<1>. QED  BY <1>4, <1>5

\* What is broken off changes one folder at most, and removes none but where a
\* tree is being removed.
LEMMA BrokenOffIs ==
  ASSUME LauncherTypeOK, NEW l \in Launchers, BrokenOff(l)
  PROVE  /\ disk' \in [Dirs -> {"none", "stub", "part", "whole"}] /\ up' \subseteq Dirs /\ data' \subseteq Dirs
         /\ agreed' \in [dirs : SUBSET Dirs, data : SUBSET Dirs, late : BOOLEAN]
         /\ \A d \in Dirs : disk[d] # "none" /\ disk'[d] = "none" => d = run[l].dir /\ run[l].pc \in {"removing", "retry"}
         /\ up \subseteq up' /\ data \subseteq data' /\ (run[l].w \notin {"build", "up"} => up' = up /\ data' = data)
         /\ agreed.late => agreed'.late
         /\ pending # Absent /\ ~agreed'.late =>
              agreed'.dirs = agreed.dirs /\ agreed'.data = agreed.data /\ data' = data
<1>. DEFINE r == run[l]
            unpacks == r.w = "unpack"
            removes == r.pc = "removing" \/ (r.pc = "retry" /\ "rmtree" \in r.todo)
<1>1. CASE r.dir = Absent  BY <1>1 DEF BrokenOff, docker, LauncherTypeOK
<1>2. CASE r.dir # Absent
  <2>1. r.dir \in Dirs  BY <1>2, Fields DEF LauncherTypeOK
  <2>2. PICK x \in IF unpacks THEN Unfinished(r.dir) ELSE IF removes THEN Torn(r.dir) \cup {"none"} ELSE {disk[r.dir]},
             ok \in BOOLEAN :
               /\ ok => r.w \in {"build", "up"}
               /\ disk' = [disk EXCEPT ![r.dir] = x] /\ Upped(r.dir, ok)
               /\ Anew(IF unpacks THEN {r.dir} ELSE {}, IF ok THEN {r.dir} ELSE {})
    BY <1>2 DEF BrokenOff
  <2>3. x \in {"none", "stub", "part", "whole"} /\ (disk[r.dir] # "none" /\ x = "none" => removes)
    <3>1. disk[r.dir] \in {"none", "stub", "part", "whole"}  BY <2>1 DEF LauncherTypeOK
    <3>2. CASE unpacks  BY <2>2, <3>1, <3>2 DEF Unfinished
    <3>3. CASE ~unpacks /\ removes  BY <2>2, <3>1, <3>3 DEF Torn
    <3>4. CASE ~unpacks /\ ~removes  BY <2>2, <3>1, <3>4
    <3>. QED  BY <3>2, <3>3, <3>4
  <2>4. /\ disk' \in [Dirs -> {"none", "stub", "part", "whole"}] /\ \A d \in Dirs \ {r.dir} : disk'[d] = disk[d]
        /\ disk'[r.dir] = x
    BY <2>1, <2>2, <2>3 DEF LauncherTypeOK
  <2>5. ok \in BOOLEAN /\ (ok => r.w \in {"build", "up"})  BY <2>2
  <2>6. /\ up' \subseteq Dirs /\ data' \subseteq Dirs /\ up \subseteq up' /\ data \subseteq data'
        /\ ~ok => up' = up /\ data' = data
    BY <2>1, <2>2, <2>5, UpIs
  <2>. DEFINE dirs == IF unpacks THEN {r.dir} ELSE {}
              vols == IF ok THEN {r.dir} ELSE {}
  <2>7. /\ agreed' \in [dirs : SUBSET Dirs, data : SUBSET Dirs, late : BOOLEAN]
        /\ agreed'.dirs = agreed.dirs \ dirs /\ agreed'.data = agreed.data \ vols
        /\ agreed'.late <=> agreed.late \/ (pending # Absent /\ dirs \cup vols # {})
    <3>1. dirs \in SUBSET Dirs /\ vols \in SUBSET Dirs  BY <2>1
    <3>2. Anew(dirs, vols)  BY <2>2
    <3>. HIDE DEF dirs, vols
    <3>. QED  BY <3>1, <3>2, PutAnew
  <2>8. pending # Absent /\ ~agreed'.late => ~ok /\ ~unpacks  BY <2>7
  <2>9. ~ok /\ ~unpacks => agreed'.dirs = agreed.dirs /\ agreed'.data = agreed.data  BY <2>7
  <2>. HIDE DEF unpacks, removes, dirs, vols
  <2>10. \A d \in Dirs : disk[d] # "none" /\ disk'[d] = "none" => d = r.dir /\ removes  BY <2>3, <2>4
  <2>. QED  BY <2>4, <2>5, <2>6, <2>7, <2>8, <2>9, <2>10 DEF removes
<1>. QED  BY <1>1, <1>2

-----------------------------------------------------------------------------
(* What may be held, and where what is in hand is                          *)

\* The launcher that moves stays sound, and no other moves.
LEMMA SoundMove ==
  ASSUME Housed, NEW l \in Launchers, NEW pc, NEW w, NEW dir, NEW todo, NEW res,
         Turns(l, pc, w, dir, todo, res), Sound(pc, w, dir, res)
  PROVE  run' \in [Launchers -> Process] /\ Housed'
BY DEF Housed, Turns

LEMMA NamesOfSteps == StepNames = {"compose_down", "remove_volumes", "remove_images", "rmtree", "delete_manifest"}
<1>1. DOMAIN CLEANUP_STEPS = 1..5 /\ CLEANUP_STEPS[1] = "compose_down" /\ CLEANUP_STEPS[2] = "remove_volumes"
      /\ CLEANUP_STEPS[3] = "remove_images" /\ CLEANUP_STEPS[4] = "rmtree" /\ CLEANUP_STEPS[5] = "delete_manifest"
  BY DEF CLEANUP_STEPS
<1>2. StepNames = {CLEANUP_STEPS[n] : n \in 1..5}  BY <1>1 DEF StepNames
<1>. QED  BY <1>1, <1>2

\* In every step of a launcher it stays sound.
LEMMA LauncherStaysHoused ==
  ASSUME LauncherTypeOK, Housed, NEW l \in Launchers, ActsOf(l)
  PROVE  run' \in [Launchers -> Process] /\ Housed'
<1>. DEFINE r == run[l]
            Good == run' \in [Launchers -> Process] /\ Housed'
<1>0. Sound(r.pc, r.w, r.dir, r.res)  BY DEF Housed
<1>a. Sound("off", "none", Absent, "none") /\ Sound("docker", "none", Absent, "none")
  BY NamesOfSteps DEF Sound, Handling, Uninstalling
<1>b. ASSUME Ends(l)  PROVE Good
  BY <1>a, <1>b, SoundMove DEF Ends
<1>1. ASSUME Start(l)  PROVE Good
  <2>1. At(l, "off")  BY <1>1 DEF Start, Uninstalling
  <2>2. MainTo(l, "check")
    BY <1>1, Courses
  <2>. QED  BY <1>0, <1>b, <2>1, <2>2, SoundMove, NamesOfSteps DEF Sound, Handling, Uninstalling, At, Working, MainTo, WorkerTo, WorkerEnds
<1>2. ASSUME CheckLock(l)  PROVE Good
  <2>1. At(l, "check")  BY <1>2 DEF CheckLock, Uninstalling
  <2>2. Ends(l) \/ MainTo(l, "free")
    BY <1>2, Courses
  <2>. QED  BY <1>0, <1>b, <2>1, <2>2, SoundMove, NamesOfSteps DEF Sound, Handling, Uninstalling, At, Working, MainTo, WorkerTo, WorkerEnds
<1>3. ASSUME WriteLock(l)  PROVE Good
  <2>1. At(l, "free")  BY <1>3 DEF WriteLock, Uninstalling
  <2>2. MainTo(l, "locked")
    BY <1>3, Courses
  <2>. QED  BY <1>0, <1>b, <2>1, <2>2, SoundMove, NamesOfSteps DEF Sound, Handling, Uninstalling, At, Working, MainTo, WorkerTo, WorkerEnds
<1>4. ASSUME ReadPending(l)  PROVE Good
  <2>1. CASE pending = Absent
    <3>1. At(l, "locked") /\ MainTo(l, "docker")  BY <1>4, <2>1, Courses DEF ReadPending
    <3>. QED  BY <1>0, <3>1, SoundMove DEF Sound, Handling, Uninstalling, At, MainTo
  <2>2. CASE pending # Absent
    <3>1. At(l, "locked") /\ Turns(l, "retry", r.w, pending.dir, StepNames \ pending.done, r.res)
      BY <1>4, <2>2, Courses DEF ReadPending
    <3>2. pending.dir \in Dirs  BY <2>2 DEF LauncherTypeOK, Cleanup
    <3>. QED  BY <1>0, <3>1, <3>2, SoundMove DEF Sound, Handling, Uninstalling, At
  <2>. QED  BY <2>1, <2>2
<1>5. ASSUME RetryEnds(l)  PROVE Good
  <2>1. At(l, "retry")  BY <1>5 DEF RetryEnds, Uninstalling
  <2>2. Turns(l, "docker", "none", Absent, {}, "none")
    BY <1>5, Courses
  <2>. QED  BY <1>0, <1>b, <2>1, <2>2, SoundMove, NamesOfSteps DEF Sound, Handling, Uninstalling, At, Working, MainTo, WorkerTo, WorkerEnds
<1>6. ASSUME CheckDocker(l)  PROVE Good
  <2>1. At(l, "docker")  BY <1>6 DEF CheckDocker, Uninstalling
  <2>2. Ends(l) \/ MainTo(l, "locate")
    BY <1>6, Courses
  <2>. QED  BY <1>0, <1>b, <2>1, <2>2, SoundMove, NamesOfSteps DEF Sound, Handling, Uninstalling, At, Working, MainTo, WorkerTo, WorkerEnds
<1>7. ASSUME Locate(l)  PROVE Good
  <2>1. At(l, "locate")  BY <1>7 DEF Locate, Uninstalling
  <2>2. \/ MainTo(l, "picker") \/ MainTo(l, "prompt")
         \/ \E d \in Dirs : Turns(l, "env", r.w, d, r.todo, r.res)
    BY <1>7, Courses
  <2>. QED  BY <1>0, <1>b, <2>1, <2>2, SoundMove, NamesOfSteps DEF Sound, Handling, Uninstalling, At, Working, MainTo, WorkerTo, WorkerEnds
<1>8. ASSUME Declines(l)  PROVE Good
  BY <1>b, <1>8, Courses
<1>9. ASSUME WriteManifest(l)  PROVE Good
  <2>1. Working(l, "installing", "manifest")  BY <1>9 DEF WriteManifest, Uninstalling
  <2>2. WorkerTo(l, "legacy")
    BY <1>9, Courses
  <2>. QED  BY <1>0, <1>b, <2>1, <2>2, SoundMove, NamesOfSteps DEF Sound, Handling, Uninstalling, At, Working, MainTo, WorkerTo, WorkerEnds
<1>10. ASSUME WriteLegacy(l)  PROVE Good
  <2>1. Working(l, "installing", "legacy")  BY <1>10 DEF WriteLegacy, Uninstalling
  <2>2. WorkerTo(l, "build")
    BY <1>10, Courses
  <2>. QED  BY <1>0, <1>b, <2>1, <2>2, SoundMove, NamesOfSteps DEF Sound, Handling, Uninstalling, At, Working, MainTo, WorkerTo, WorkerEnds
<1>11. ASSUME EnsureEnv(l)  PROVE Good
  <2>1. At(l, "env")  BY <1>11 DEF EnsureEnv, Uninstalling
  <2>2. Ends(l) \/ Turns(l, "running", "up", r.dir, r.todo, "none")
    BY <1>11, Courses
  <2>. QED  BY <1>0, <1>b, <2>1, <2>2, SoundMove, NamesOfSteps DEF Sound, Handling, Uninstalling, At, Working, MainTo, WorkerTo, WorkerEnds
<1>12. ASSUME Healthy(l)  PROVE Good
  <2>1. Working(l, "running", "health")  BY <1>12 DEF Healthy, Uninstalling
  <2>2. WorkerTo(l, "none")
    BY <1>12, Courses
  <2>. QED  BY <1>0, <1>b, <2>1, <2>2, SoundMove, NamesOfSteps DEF Sound, Handling, Uninstalling, At, Working, MainTo, WorkerTo, WorkerEnds
<1>13. ASSUME DeleteManifest(l)  PROVE Good
  <2>1. At(l, "tidy")  BY <1>13 DEF DeleteManifest, Uninstalling
  <2>2. MainTo(l, "legacy")
    BY <1>13, Courses
  <2>. QED  BY <1>0, <1>b, <2>1, <2>2, SoundMove, NamesOfSteps DEF Sound, Handling, Uninstalling, At, Working, MainTo, WorkerTo, WorkerEnds
<1>14. ASSUME ForgetFolder(l)  PROVE Good
  <2>1. At(l, "legacy")  BY <1>14 DEF ForgetFolder, Uninstalling
  <2>2. MainTo(l, "last")
    BY <1>14, Courses
  <2>. QED  BY <1>0, <1>b, <2>1, <2>2, SoundMove, NamesOfSteps DEF Sound, Handling, Uninstalling, At, Working, MainTo, WorkerTo, WorkerEnds
<1>15. ASSUME DeletePending(l)  PROVE Good
  BY <1>b, <1>15, Courses
<1>16. ASSUME NEW d \in Dirs, Pick(l, d)  PROVE Good
  <2>1. At(l, "picker")  BY <1>16 DEF Pick, Uninstalling
  <2>2. Turns(l, "env", r.w, d, r.todo, r.res)
    BY <1>16, Courses
  <2>. QED  BY <1>0, <1>b, <2>1, <2>2, SoundMove, NamesOfSteps DEF Sound, Handling, Uninstalling, At, Working, MainTo, WorkerTo, WorkerEnds
<1>17. ASSUME NEW d \in Dirs, Install(l, d)  PROVE Good
  <2>1. At(l, "prompt")  BY <1>17 DEF Install, Uninstalling
  <2>2. Turns(l, "installing", "get", d, r.todo, r.res)
    BY <1>17, Courses
  <2>. QED  BY <1>0, <1>b, <2>1, <2>2, SoundMove, NamesOfSteps DEF Sound, Handling, Uninstalling, At, Working, MainTo, WorkerTo, WorkerEnds
<1>18. ASSUME NEW ok \in BOOLEAN, Download(l, ok)  PROVE Good
  <2>1. Working(l, "installing", "get")  BY <1>18 DEF Download, Uninstalling
  <2>2. IF ok THEN WorkerTo(l, "unpack") ELSE WorkerEnds(l, "error")
    BY <1>18, Courses
  <2>. QED  BY <1>0, <1>b, <2>1, <2>2, SoundMove, NamesOfSteps DEF Sound, Handling, Uninstalling, At, Working, MainTo, WorkerTo, WorkerEnds
<1>19. ASSUME NEW ok \in BOOLEAN, Unpack(l, ok)  PROVE Good
  <2>1. Working(l, "installing", "unpack")  BY <1>19 DEF Unpack, Uninstalling
  <2>2. IF ok THEN WorkerTo(l, "manifest") ELSE WorkerEnds(l, "none")
    BY <1>19, Courses
  <2>. QED  BY <1>0, <1>b, <2>1, <2>2, SoundMove, NamesOfSteps DEF Sound, Handling, Uninstalling, At, Working, MainTo, WorkerTo, WorkerEnds
<1>20. ASSUME NEW ok \in BOOLEAN, Build(l, ok)  PROVE Good
  <2>1. Working(l, "installing", "build")  BY <1>20 DEF Build, Uninstalling
  <2>2. WorkerEnds(l, IF ok THEN "ok" ELSE "error")
    BY <1>20, Courses
  <2>. QED  BY <1>0, <1>b, <2>1, <2>2, SoundMove, NamesOfSteps DEF Sound, Handling, Uninstalling, At, Working, MainTo, WorkerTo, WorkerEnds
<1>21. ASSUME NEW ok \in BOOLEAN, ComposeUp(l, ok)  PROVE Good
  <2>1. Working(l, "running", "up")  BY <1>21 DEF ComposeUp, Uninstalling
  <2>2. IF ok THEN WorkerTo(l, "health") ELSE Ends(l)
    BY <1>21, Courses
  <2>. QED  BY <1>0, <1>b, <2>1, <2>2, SoundMove, NamesOfSteps DEF Sound, Handling, Uninstalling, At, Working, MainTo, WorkerTo, WorkerEnds
<1>22. ASSUME NEW how \in Hows, Retry(l, how)  PROVE Good
  <2>1. At(l, "retry")  BY <1>22 DEF Retry, Uninstalling
  <2>2. Turns(l, "retry", r.w, r.dir, r.todo \ {First(r.todo)}, r.res)
    BY <1>22, Courses
  <2>. QED  BY <1>0, <1>b, <2>1, <2>2, SoundMove, NamesOfSteps DEF Sound, Handling, Uninstalling, At, Working, MainTo, WorkerTo, WorkerEnds
<1>23. ASSUME NEW how \in Hows, UninstallStep(l, how)  PROVE Good
  <2>1. r.pc \in Uninstalling  BY <1>23 DEF UninstallStep, Uninstalling
  <2>2. WorkerTo(l, IF At(l, "uninstalling") THEN AfterStep(r.w) ELSE "ended")
    BY <1>23, Courses
  <2>. QED  BY <1>0, <1>b, <2>1, <2>2, SoundMove, NamesOfSteps DEF Sound, Handling, Uninstalling, At, Working, MainTo, WorkerTo, WorkerEnds
<1>24. ASSUME NEW how \in Hows, RemoveInstall(l, how)  PROVE Good
  <2>1. At(l, "removing")  BY <1>24 DEF RemoveInstall, Uninstalling
  <2>2. IF how = "done" THEN MainTo(l, "tidy") ELSE Ends(l)
    BY <1>24, Courses
  <2>. QED  BY <1>0, <1>b, <2>1, <2>2, SoundMove, NamesOfSteps DEF Sound, Handling, Uninstalling, At, Working, MainTo, WorkerTo, WorkerEnds
<1>25. ASSUME Crash(l)  PROVE Good
  BY <1>b, <1>25, Courses
<1>26. ASSUME CloseInstall(l)  PROVE Good
  <2>1. At(l, "installing")  BY <1>26 DEF CloseInstall, Uninstalling
  <2>2. IF r.res = "ok" THEN MainTo(l, "env") ELSE Ends(l)
    BY <1>26, Courses
  <2>. QED  BY <1>0, <1>b, <2>1, <2>2, SoundMove, NamesOfSteps DEF Sound, Handling, Uninstalling, At, Working, MainTo, WorkerTo, WorkerEnds
<1>27. ASSUME CloseWindow(l)  PROVE Good
  BY <1>b, <1>27, Courses
<1>28. ASSUME Uninstall(l)  PROVE Good
  <2>1. Working(l, "running", "none")  BY <1>28 DEF Uninstall, Uninstalling
  <2>2. Turns(l, "uninstalling", "compose_down", r.dir, r.todo, r.res)
    BY <1>28, Courses
  <2>. QED  BY <1>0, <1>b, <2>1, <2>2, SoundMove, NamesOfSteps DEF Sound, Handling, Uninstalling, At, Working, MainTo, WorkerTo, WorkerEnds
<1>29. ASSUME CloseUninstall(l)  PROVE Good
  <2>1. At(l, "uninstalling")  BY <1>29 DEF CloseUninstall, Uninstalling
  <2>2. MainTo(l, "removing")
    BY <1>29, Courses
  <2>. QED  BY <1>0, <1>b, <2>1, <2>2, SoundMove, NamesOfSteps DEF Sound, Handling, Uninstalling, At, Working, MainTo, WorkerTo, WorkerEnds
<1>30. ASSUME NEW ok \in BOOLEAN, Stop(l, ok)  PROVE Good
  BY <1>b, <1>30, Courses
<1>. QED
  BY <1>1, <1>2, <1>3, <1>4, <1>5, <1>6, <1>7, <1>8, <1>9, <1>10, <1>11, <1>12, <1>13, <1>14, <1>15, <1>16, <1>17, <1>18, <1>19, <1>20, <1>21, <1>22, <1>23, <1>24, <1>25, <1>26, <1>27, <1>28, <1>29, <1>30 DEF ActsOf, LauncherStep

\* Every step of a launcher keeps the types of what it shares with others.
LEMMA LauncherStaysTyped ==
  ASSUME LauncherTypeOK, Housed, NEW l \in Launchers, ActsOf(l)
  PROVE  LauncherTypeOK'
<1>. DEFINE r == run[l]
            Fine(lo, ma, le, pe, di, u, da, ag, ls, od) ==
              /\ lo \in Launchers \cup {Stale, Absent} /\ ma \in Dirs \cup {Absent}
              /\ le \in [file : BOOLEAN, repo : Dirs \cup {Absent}]
              /\ pe \in {Absent} \cup Cleanup
              /\ di \in [Dirs -> {"none", "stub", "part", "whole"}]
              /\ u \subseteq Dirs /\ da \subseteq Dirs
              /\ ag \in [dirs : SUBSET Dirs, data : SUBSET Dirs, late : BOOLEAN]
              /\ ls \in 0..MaxLauncherSteps /\ od \subseteq Odds
            Good == Fine(lock', manifest', legacy', pending', disk', up', data', agreed', lSteps', lOdd')
<1>0. Fine(lock, manifest, legacy, pending, disk, up, data, agreed, lSteps, lOdd)  BY DEF LauncherTypeOK
<1>a. r.dir \in Dirs \cup {Absent} /\ (r.pc \in Handling => r.dir \in Dirs)
      /\ (r.w \in StepNames => r.pc \in Uninstalling)
  BY Fields DEF LauncherTypeOK, Housed, Sound
<1>1. ASSUME Start(l)  PROVE Good
  BY <1>0, <1>a, <1>1, NamesOfSteps, Counted DEF Start, At, Working, Handling, files, docker
<1>2. ASSUME CheckLock(l)  PROVE Good
  BY <1>0, <1>a, <1>2, NamesOfSteps DEF CheckLock, AlreadyRunning, Odds, At, Working, Handling, files, docker
<1>3. ASSUME WriteLock(l)  PROVE Good
  BY <1>0, <1>a, <1>3, NamesOfSteps DEF WriteLock, At, Working, Handling, files, docker
<1>4. ASSUME ReadPending(l)  PROVE Good
  BY <1>0, <1>a, <1>4, NamesOfSteps DEF ReadPending, At, Working, Handling, files, docker
<1>5. ASSUME RetryEnds(l)  PROVE Good
  BY <1>0, <1>a, <1>5, NamesOfSteps DEF RetryEnds, At, Working, Handling, files, docker
<1>6. ASSUME CheckDocker(l)  PROVE Good
  BY <1>0, <1>a, <1>6, NamesOfSteps, Counted DEF CheckDocker, Exits, At, Working, Handling, files, docker
<1>7. ASSUME Locate(l)  PROVE Good
  <2>1. Remembered \in Dirs  BY <1>0, LauncherAssumption DEF Remembered
  <2>2. manifest' \in {manifest, Remembered}  BY <1>7 DEF Locate
  <2>. QED  BY <1>0, <1>7, <2>1, <2>2 DEF Locate, docker
<1>8. ASSUME Declines(l)  PROVE Good
  BY <1>0, <1>a, <1>8, NamesOfSteps DEF Declines, Exits, At, Working, Handling, files, docker
<1>9. ASSUME WriteManifest(l)  PROVE Good
  BY <1>0, <1>a, <1>9, NamesOfSteps DEF WriteManifest, At, Working, Handling, files, docker
<1>10. ASSUME WriteLegacy(l)  PROVE Good
  BY <1>0, <1>a, <1>10, NamesOfSteps DEF WriteLegacy, At, Working, Handling, files, docker
<1>11. ASSUME EnsureEnv(l)  PROVE Good
  BY <1>0, <1>a, <1>11, NamesOfSteps DEF EnsureEnv, Exits, At, Working, Handling, files, docker
<1>12. ASSUME Healthy(l)  PROVE Good
  BY <1>0, <1>a, <1>12, NamesOfSteps DEF Healthy, At, Working, Handling, files, docker
<1>13. ASSUME DeleteManifest(l)  PROVE Good
  BY <1>0, <1>a, <1>13, NamesOfSteps, UpdatedIs, Counted DEF DeleteManifest, Recorded, Odds, At, Working, Handling, files, docker
<1>14. ASSUME ForgetFolder(l)  PROVE Good
  BY <1>0, <1>a, <1>14, NamesOfSteps DEF ForgetFolder, At, Working, Handling, files, docker
<1>15. ASSUME DeletePending(l)  PROVE Good
  BY <1>0, <1>a, <1>15, NamesOfSteps DEF DeletePending, Exits, At, Working, Handling, files, docker
<1>16. ASSUME NEW d \in Dirs, Pick(l, d)  PROVE Good
  BY <1>0, <1>a, <1>16, NamesOfSteps DEF Pick, At, Working, Handling, files, docker
<1>17. ASSUME NEW d \in Dirs, Install(l, d)  PROVE Good
  BY <1>0, <1>a, <1>17, NamesOfSteps DEF Install, At, Working, Handling, files, docker
<1>18. ASSUME NEW ok \in BOOLEAN, Download(l, ok)  PROVE Good
  BY <1>0, <1>a, <1>18, NamesOfSteps, Counted DEF Download, Odds, At, Working, Handling, files, docker
<1>19. ASSUME NEW ok \in BOOLEAN, Unpack(l, ok)  PROVE Good
  <2>1. r.dir \in Dirs  BY <1>a, <1>19 DEF Unpack, Working, Handling
  <2>2. PICK x \in IF ok THEN {"whole"} ELSE Unfinished(r.dir) : disk' = [disk EXCEPT ![r.dir] = x]
    BY <1>19 DEF Unpack
  <2>3. x \in {"none", "stub", "part", "whole"}  BY <1>0, <2>1, <2>2 DEF Unfinished
  <2>4. "broken" \in Odds /\ {r.dir} \in SUBSET Dirs /\ {} \in SUBSET Dirs  BY <2>1 DEF Odds
  <2>5. Outcome(ok, "broken") /\ Anew({r.dir}, {}) /\ UNCHANGED <<lock, manifest, legacy, pending, up, data>>
    BY <1>19 DEF Unpack, files, docker
  <2>. QED  BY <1>0, <2>2, <2>3, <2>4, <2>5, Counted, PutAnew
<1>20. ASSUME NEW ok \in BOOLEAN, Build(l, ok)  PROVE Good
  BY SMTT(30), <1>0, <1>a, <1>20, NamesOfSteps, Counted, PutAnew, UpIs DEF Build, Odds, At, Working, Handling, files, docker
<1>21. ASSUME NEW ok \in BOOLEAN, ComposeUp(l, ok)  PROVE Good
  BY <1>0, <1>a, <1>21, NamesOfSteps, Counted, PutAnew, UpIs DEF ComposeUp, Exits, Odds, At, Working, Handling, files, docker
<1>22. ASSUME NEW how \in Hows, Retry(l, how)  PROVE Good
  <2>. DEFINE s == First(r.todo)
  <2>1. s \in StepNames /\ Performs(s, r.dir, how) /\ Recorded(s, how) /\ UNCHANGED <<lock, legacy, agreed>>
    BY <1>22, FirstIsOne, Fields DEF Retry, LauncherTypeOK
  <2>. HIDE DEF s
  <2>2. lSteps' \in 0..MaxLauncherSteps /\ lOdd' \subseteq Odds
    BY <2>1, Counted DEF Recorded, Odds
  <2>3. pending' \in {Absent} \cup Cleanup  BY <2>1, UpdatedIs DEF Recorded
  <2>4. up' \subseteq Dirs /\ data' \subseteq Dirs /\ manifest' \in {manifest, Absent}
        /\ disk' \in [Dirs -> {"none", "stub", "part", "whole"}]
    <3>1. CASE DockerStep(s, r.dir, how) /\ UNCHANGED <<manifest, disk>>  BY <1>0, <3>1, DockerDoes
    <3>2. CASE RemovesTree(r.dir, how) /\ UNCHANGED <<manifest, docker>>  BY <1>0, <3>2, TreeIs DEF docker
    <3>3. CASE manifest' = Absent /\ UNCHANGED <<disk, docker>>  BY <1>0, <3>3 DEF docker
    <3>. QED  BY <2>1, <3>1, <3>2, <3>3 DEF Performs
  <2>. QED  BY <1>0, <2>1, <2>2, <2>3, <2>4
<1>23. ASSUME NEW how \in Hows, UninstallStep(l, how)  PROVE Good
  <2>1. DockerStep(r.w, r.dir, how) /\ Recorded(r.w, how) /\ UNCHANGED <<lock, manifest, legacy, disk, agreed>>
    BY <1>23 DEF UninstallStep
  <2>2. r.w \in StepNames /\ up' \subseteq up /\ data' \subseteq data  BY <2>1, DockerDoes, NamesOfSteps
  <2>3. lSteps' \in 0..MaxLauncherSteps /\ lOdd' \subseteq Odds  BY <2>1, Counted DEF Recorded, Odds
  <2>4. pending' \in {Absent} \cup Cleanup  BY <2>1, <2>2, UpdatedIs DEF Recorded
  <2>. QED  BY <1>0, <2>1, <2>2, <2>3, <2>4
<1>24. ASSUME NEW how \in Hows, RemoveInstall(l, how)  PROVE Good
  <2>1. /\ RemovesTree(r.dir, how) /\ Recorded("rmtree", how) /\ "rmtree" \in StepNames
        /\ UNCHANGED <<manifest, legacy, docker, agreed>>
    BY <1>24, NamesOfSteps DEF RemoveInstall
  <2>2. lock' \in {lock, Absent}  BY <1>24 DEF RemoveInstall, Exits
  <2>3. lSteps' \in 0..MaxLauncherSteps /\ lOdd' \subseteq Odds  BY <2>1, Counted DEF Recorded, Odds
  <2>4. pending' \in {Absent} \cup Cleanup  BY <2>1, UpdatedIs DEF Recorded
  <2>5. disk' \in [Dirs -> {"none", "stub", "part", "whole"}]  BY <2>1, TreeIs
  <2>. QED  BY <1>0, <2>1, <2>2, <2>3, <2>4, <2>5 DEF docker
<1>25. ASSUME Crash(l)  PROVE Good
  <2>1. /\ lock' \in {lock, Stale} /\ Spends /\ UNCHANGED <<manifest, legacy, pending>>
        /\ lOdd' \subseteq lOdd \cup {"crashed", "broken"}
    BY <1>25 DEF Crash, files
  <2>2. CASE BrokenOff(l)  BY <1>0, <2>1, <2>2, BrokenOffIs, Counted DEF Odds
  <2>3. CASE Unrecorded(l)
    <3>1. up' \subseteq up /\ data' \subseteq data  BY <2>3, DockerDoes DEF Unrecorded
    <3>2. UNCHANGED <<disk, agreed>>  BY <2>3 DEF Unrecorded
    <3>. QED  BY <1>0, <2>1, <3>1, <3>2, Counted DEF Odds
  <2>. QED  BY <1>25, <2>2, <2>3 DEF Crash
<1>26. ASSUME CloseInstall(l)  PROVE Good
  BY ZenonT(40), <1>0, <1>a, <1>26, NamesOfSteps, Counted, BrokenOffIs DEF CloseInstall, Exits, Odds, Working, At, Working, Handling, files, docker
<1>27. ASSUME CloseWindow(l)  PROVE Good
  BY <1>0, <1>a, <1>27, NamesOfSteps, Counted, BrokenOffIs DEF CloseWindow, Exits, Odds, At, Working, Handling, files, docker
<1>28. ASSUME Uninstall(l)  PROVE Good
  <2>1. r.dir \in Dirs  BY <1>a, <1>28 DEF Uninstall, Working, At, Handling
  <2>2. /\ pending' = [dir |-> r.dir, done |-> {}] /\ Spends
        /\ agreed' = [agreed EXCEPT !.dirs = @ \cup {r.dir}, !.data = data]
        /\ lOdd' \subseteq lOdd \cup {"replaced"}
        /\ UNCHANGED <<lock, manifest, legacy, disk, up, data>>
    BY <1>28 DEF Uninstall, docker
  <2>3. pending' \in Cleanup  BY <2>1, <2>2 DEF Cleanup
  <2>4. agreed' \in [dirs : SUBSET Dirs, data : SUBSET Dirs, late : BOOLEAN]  BY <1>0, <2>1, <2>2
  <2>. QED  BY <1>0, <2>2, <2>3, <2>4, Counted DEF Odds
<1>29. ASSUME CloseUninstall(l)  PROVE Good
  BY <1>0, <1>a, <1>29, NamesOfSteps, Counted DEF CloseUninstall, Odds, At, Working, Handling, files, docker
<1>30. ASSUME NEW ok \in BOOLEAN, Stop(l, ok)  PROVE Good
  BY <1>0, <1>a, <1>30, NamesOfSteps, Counted DEF Stop, Exits, ShutsDown, Downed, Odds, At, Working, Handling, files, docker
<1>h. Good
  BY <1>1, <1>2, <1>3, <1>4, <1>5, <1>6, <1>7, <1>8, <1>9, <1>10, <1>11, <1>12, <1>13, <1>14, <1>15, <1>16, <1>17, <1>18, <1>19, <1>20, <1>21, <1>22, <1>23, <1>24, <1>25, <1>26, <1>27, <1>28, <1>29, <1>30 DEF ActsOf, LauncherStep
<1>. QED  BY <1>h, LauncherStaysHoused DEF LauncherTypeOK

\* What went wrong is not forgotten.
LEMMA OddsStay ==
  ASSUME LauncherTypeOK, NEW l \in Launchers, ActsOf(l)
  PROVE  lOdd \subseteq lOdd'
<1>1. \A ok \in BOOLEAN, why \in Odds : Outcome(ok, why) => lOdd \subseteq lOdd'  BY DEF Outcome
<1>2. LauncherStep(l) => lOdd \subseteq lOdd'
  BY <1>1 DEF LauncherStep, Odds, CheckLock, WriteLock, ReadPending, RetryEnds, CheckDocker, Locate, Declines, WriteManifest, WriteLegacy, EnsureEnv, Healthy, DeleteManifest, ForgetFolder, DeletePending, Pick, Install, Download, Unpack, Build, ComposeUp, Retry, UninstallStep, RemoveInstall, Recorded
<1>3. Start(l) \/ Crash(l) \/ CloseInstall(l) \/ CloseWindow(l) \/ Uninstall(l) \/ CloseUninstall(l)
        \/ (\E ok \in BOOLEAN : Stop(l, ok)) => lOdd \subseteq lOdd'
  BY <1>1 DEF Odds, Start, Crash, CloseInstall, CloseWindow, Uninstall, CloseUninstall, Stop, ShutsDown
<1>. QED  BY <1>2, <1>3 DEF ActsOf

\* Past the lock, a launcher goes on or ends.
Past(l) == run[l].pc \notin {"off", "check", "free"}
OthersStay(l) == run' \in [Launchers -> Process] /\ \A k \in Launchers \ {l} : run'[k] = run[k]
GoesOn(l) == OthersStay(l) /\ Past(l) /\ Past(l)' /\ UNCHANGED lock

LEMMA OnOrOut ==
  ASSUME LauncherTypeOK, NEW l \in Launchers, ActsOf(l)
  PROVE  Start(l) \/ CheckLock(l) \/ WriteLock(l) \/ Crash(l) \/ GoesOn(l) \/ (Past(l) /\ Ends(l))
<1>. DEFINE r == run[l]
            Good == GoesOn(l) \/ (Past(l) /\ Ends(l))
<1>1. ASSUME ReadPending(l)  PROVE Good
  <2>0. Past(l) /\ UNCHANGED lock  BY <1>1 DEF ReadPending, Past, At
  <2>1. CASE pending = Absent
    <3>1. MainTo(l, "docker")  BY <1>1, <2>1, Courses
    <3>. QED  BY <2>0, <3>1 DEF GoesOn, OthersStay, Past, Turns, MainTo
  <2>2. CASE pending # Absent
    <3>1. Turns(l, "retry", r.w, pending.dir, StepNames \ pending.done, r.res)  BY <1>1, <2>2, Courses
    <3>. QED  BY <2>0, <3>1 DEF GoesOn, OthersStay, Past, Turns
  <2>. QED  BY <2>1, <2>2
<1>2. ASSUME RetryEnds(l)  PROVE Good
  <2>1. Turns(l, "docker", "none", Absent, {}, "none")
    BY <1>2, Courses
  <2>2. Past(l) /\ (UNCHANGED lock \/ Ends(l))  BY <1>2, <2>1 DEF RetryEnds, Exits, Past, At, Working
  <2>. QED  BY <2>1, <2>2 DEF GoesOn, OthersStay, Past, Turns, MainTo, WorkerTo, WorkerEnds
<1>3. ASSUME CheckDocker(l)  PROVE Good
  <2>1. Ends(l) \/ MainTo(l, "locate")  BY <1>3, Courses
  <2>2. Past(l)  BY <1>3 DEF CheckDocker, Past, At
  <2>3. UNCHANGED lock \/ Exits(l)  BY <1>3 DEF CheckDocker
  <2>4. Exits(l) => Ends(l)  BY TurnsTo DEF Exits, Ends
  <2>. QED  BY <2>1, <2>2, <2>3, <2>4 DEF GoesOn, OthersStay, Past, Turns, MainTo
<1>4. ASSUME Locate(l)  PROVE Good
  <2>1. \/ MainTo(l, "picker") \/ MainTo(l, "prompt")
         \/ \E d \in Dirs : Turns(l, "env", r.w, d, r.todo, r.res)
    BY <1>4, Courses
  <2>2. Past(l) /\ (UNCHANGED lock \/ Ends(l))  BY <1>4, <2>1 DEF Locate, Exits, Past, At, Working
  <2>. QED  BY <2>1, <2>2 DEF GoesOn, OthersStay, Past, Turns, MainTo, WorkerTo, WorkerEnds
<1>5. ASSUME Declines(l)  PROVE Good
  <2>1. Ends(l)
    BY <1>5, Courses
  <2>2. Past(l) /\ (UNCHANGED lock \/ Ends(l))  BY <1>5, <2>1 DEF Declines, Exits, Past, At, Working
  <2>. QED  BY <2>1, <2>2 DEF GoesOn, OthersStay, Past, Turns, MainTo, WorkerTo, WorkerEnds
<1>6. ASSUME WriteManifest(l)  PROVE Good
  <2>1. WorkerTo(l, "legacy")
    BY <1>6, Courses
  <2>2. Past(l) /\ (UNCHANGED lock \/ Ends(l))  BY <1>6, <2>1 DEF WriteManifest, Exits, Past, At, Working
  <2>. QED  BY <2>1, <2>2 DEF GoesOn, OthersStay, Past, Turns, MainTo, WorkerTo, WorkerEnds
<1>7. ASSUME WriteLegacy(l)  PROVE Good
  <2>1. WorkerTo(l, "build")
    BY <1>7, Courses
  <2>2. Past(l) /\ (UNCHANGED lock \/ Ends(l))  BY <1>7, <2>1 DEF WriteLegacy, Exits, Past, At, Working
  <2>. QED  BY <2>1, <2>2 DEF GoesOn, OthersStay, Past, Turns, MainTo, WorkerTo, WorkerEnds
<1>8. ASSUME EnsureEnv(l)  PROVE Good
  <2>1. Ends(l) \/ Turns(l, "running", "up", r.dir, r.todo, "none")  BY <1>8, Courses
  <2>2. Past(l)  BY <1>8 DEF EnsureEnv, Past, At
  <2>3. UNCHANGED lock \/ Exits(l)  BY <1>8 DEF EnsureEnv
  <2>4. Exits(l) => Ends(l)  BY TurnsTo DEF Exits, Ends
  <2>. QED  BY <2>1, <2>2, <2>3, <2>4 DEF GoesOn, OthersStay, Past, Turns, MainTo
<1>9. ASSUME Healthy(l)  PROVE Good
  <2>1. WorkerTo(l, "none")
    BY <1>9, Courses
  <2>2. Past(l) /\ (UNCHANGED lock \/ Ends(l))  BY <1>9, <2>1 DEF Healthy, Exits, Past, At, Working
  <2>. QED  BY <2>1, <2>2 DEF GoesOn, OthersStay, Past, Turns, MainTo, WorkerTo, WorkerEnds
<1>10. ASSUME DeleteManifest(l)  PROVE Good
  <2>1. MainTo(l, "legacy")
    BY <1>10, Courses
  <2>2. Past(l) /\ (UNCHANGED lock \/ Ends(l))  BY <1>10, <2>1 DEF DeleteManifest, Exits, Past, At, Working
  <2>. QED  BY <2>1, <2>2 DEF GoesOn, OthersStay, Past, Turns, MainTo, WorkerTo, WorkerEnds
<1>11. ASSUME ForgetFolder(l)  PROVE Good
  <2>1. MainTo(l, "last")
    BY <1>11, Courses
  <2>2. Past(l) /\ (UNCHANGED lock \/ Ends(l))  BY <1>11, <2>1 DEF ForgetFolder, Exits, Past, At, Working
  <2>. QED  BY <2>1, <2>2 DEF GoesOn, OthersStay, Past, Turns, MainTo, WorkerTo, WorkerEnds
<1>12. ASSUME DeletePending(l)  PROVE Good
  <2>1. Ends(l)
    BY <1>12, Courses
  <2>2. Past(l) /\ (UNCHANGED lock \/ Ends(l))  BY <1>12, <2>1 DEF DeletePending, Exits, Past, At, Working
  <2>. QED  BY <2>1, <2>2 DEF GoesOn, OthersStay, Past, Turns, MainTo, WorkerTo, WorkerEnds
<1>13. ASSUME NEW d \in Dirs, Pick(l, d)  PROVE Good
  <2>1. Turns(l, "env", r.w, d, r.todo, r.res)
    BY <1>13, Courses
  <2>2. Past(l) /\ (UNCHANGED lock \/ Ends(l))  BY <1>13, <2>1 DEF Pick, Exits, Past, At, Working
  <2>. QED  BY <2>1, <2>2 DEF GoesOn, OthersStay, Past, Turns, MainTo, WorkerTo, WorkerEnds
<1>14. ASSUME NEW d \in Dirs, Install(l, d)  PROVE Good
  <2>1. Turns(l, "installing", "get", d, r.todo, r.res)
    BY <1>14, Courses
  <2>2. Past(l) /\ (UNCHANGED lock \/ Ends(l))  BY <1>14, <2>1 DEF Install, Exits, Past, At, Working
  <2>. QED  BY <2>1, <2>2 DEF GoesOn, OthersStay, Past, Turns, MainTo, WorkerTo, WorkerEnds
<1>15. ASSUME NEW ok \in BOOLEAN, Download(l, ok)  PROVE Good
  <2>1. IF ok THEN WorkerTo(l, "unpack") ELSE WorkerEnds(l, "error")
    BY <1>15, Courses
  <2>2. Past(l) /\ (UNCHANGED lock \/ Ends(l))  BY <1>15, <2>1 DEF Download, Exits, Past, At, Working
  <2>. QED  BY <2>1, <2>2 DEF GoesOn, OthersStay, Past, Turns, MainTo, WorkerTo, WorkerEnds
<1>16. ASSUME NEW ok \in BOOLEAN, Unpack(l, ok)  PROVE Good
  <2>1. IF ok THEN WorkerTo(l, "manifest") ELSE WorkerEnds(l, "none")
    BY <1>16, Courses
  <2>2. Past(l) /\ (UNCHANGED lock \/ Ends(l))  BY <1>16, <2>1 DEF Unpack, Exits, Past, At, Working
  <2>. QED  BY <2>1, <2>2 DEF GoesOn, OthersStay, Past, Turns, MainTo, WorkerTo, WorkerEnds
<1>17. ASSUME NEW ok \in BOOLEAN, Build(l, ok)  PROVE Good
  <2>1. WorkerEnds(l, IF ok THEN "ok" ELSE "error")
    BY <1>17, Courses
  <2>2. Past(l) /\ (UNCHANGED lock \/ Ends(l))  BY <1>17, <2>1 DEF Build, Exits, Past, At, Working
  <2>. QED  BY <2>1, <2>2 DEF GoesOn, OthersStay, Past, Turns, MainTo, WorkerTo, WorkerEnds
<1>18. ASSUME NEW ok \in BOOLEAN, ComposeUp(l, ok)  PROVE Good
  <2>1. IF ok THEN WorkerTo(l, "health") ELSE Ends(l)
    BY <1>18, Courses
  <2>2. Past(l) /\ (UNCHANGED lock \/ Ends(l))  BY <1>18, <2>1 DEF ComposeUp, Exits, Past, At, Working
  <2>. QED  BY <2>1, <2>2 DEF GoesOn, OthersStay, Past, Turns, MainTo, WorkerTo, WorkerEnds
<1>19. ASSUME NEW how \in Hows, Retry(l, how)  PROVE Good
  <2>1. Turns(l, "retry", r.w, r.dir, r.todo \ {First(r.todo)}, r.res)
    BY <1>19, Courses
  <2>2. Past(l) /\ (UNCHANGED lock \/ Ends(l))  BY <1>19, <2>1 DEF Retry, Exits, Past, At, Working
  <2>. QED  BY <2>1, <2>2 DEF GoesOn, OthersStay, Past, Turns, MainTo, WorkerTo, WorkerEnds
<1>20. ASSUME NEW how \in Hows, UninstallStep(l, how)  PROVE Good
  <2>1. WorkerTo(l, IF At(l, "uninstalling") THEN AfterStep(r.w) ELSE "ended")
    BY <1>20, Courses
  <2>2. Past(l) /\ (UNCHANGED lock \/ Ends(l))  BY <1>20, <2>1 DEF UninstallStep, Exits, Past, At, Working
  <2>. QED  BY <2>1, <2>2 DEF GoesOn, OthersStay, Past, Turns, MainTo, WorkerTo, WorkerEnds
<1>21. ASSUME NEW how \in Hows, RemoveInstall(l, how)  PROVE Good
  <2>1. IF how = "done" THEN MainTo(l, "tidy") ELSE Ends(l)
    BY <1>21, Courses
  <2>2. Past(l) /\ (UNCHANGED lock \/ Ends(l))  BY <1>21, <2>1 DEF RemoveInstall, Exits, Past, At, Working
  <2>. QED  BY <2>1, <2>2 DEF GoesOn, OthersStay, Past, Turns, MainTo, WorkerTo, WorkerEnds
<1>22. ASSUME CloseInstall(l)  PROVE Good
  <2>1. IF r.res = "ok" THEN MainTo(l, "env") ELSE Ends(l)
    BY <1>22, Courses
  <2>2. Past(l) /\ (UNCHANGED lock \/ Ends(l))  BY <1>22, <2>1 DEF CloseInstall, Exits, Past, At, Working
  <2>. QED  BY <2>1, <2>2 DEF GoesOn, OthersStay, Past, Turns, MainTo, WorkerTo, WorkerEnds
<1>23. ASSUME CloseWindow(l)  PROVE Good
  <2>1. Ends(l)
    BY <1>23, Courses
  <2>2. Past(l) /\ (UNCHANGED lock \/ Ends(l))  BY <1>23, <2>1 DEF CloseWindow, Exits, Past, At, Working
  <2>. QED  BY <2>1, <2>2 DEF GoesOn, OthersStay, Past, Turns, MainTo, WorkerTo, WorkerEnds
<1>24. ASSUME Uninstall(l)  PROVE Good
  <2>1. Turns(l, "uninstalling", "compose_down", r.dir, r.todo, r.res)
    BY <1>24, Courses
  <2>2. Past(l) /\ (UNCHANGED lock \/ Ends(l))  BY <1>24, <2>1 DEF Uninstall, Exits, Past, At, Working
  <2>. QED  BY <2>1, <2>2 DEF GoesOn, OthersStay, Past, Turns, MainTo, WorkerTo, WorkerEnds
<1>25. ASSUME CloseUninstall(l)  PROVE Good
  <2>1. MainTo(l, "removing")
    BY <1>25, Courses
  <2>2. Past(l) /\ (UNCHANGED lock \/ Ends(l))  BY <1>25, <2>1 DEF CloseUninstall, Exits, Past, At, Working
  <2>. QED  BY <2>1, <2>2 DEF GoesOn, OthersStay, Past, Turns, MainTo, WorkerTo, WorkerEnds
<1>26. ASSUME NEW ok \in BOOLEAN, Stop(l, ok)  PROVE Good
  <2>1. Ends(l)
    BY <1>26, Courses
  <2>2. Past(l) /\ (UNCHANGED lock \/ Ends(l))  BY <1>26, <2>1 DEF Stop, Exits, Past, At, Working
  <2>. QED  BY <2>1, <2>2 DEF GoesOn, OthersStay, Past, Turns, MainTo, WorkerTo, WorkerEnds
<1>. QED
  BY <1>1, <1>2, <1>3, <1>4, <1>5, <1>6, <1>7, <1>8, <1>9, <1>10, <1>11, <1>12, <1>13, <1>14, <1>15, <1>16, <1>17, <1>18, <1>19, <1>20, <1>21, <1>22, <1>23, <1>24, <1>25, <1>26 DEF ActsOf, LauncherStep

-----------------------------------------------------------------------------
(* One launcher at a time                                                  *)

\* The lock names the launcher that is past it, and only one comes so far: two
\* that found it free together are a race.
LockInv ==
  \/ "raced" \in lOdd
  \/ /\ \A l \in Launchers : Past(l) => lock = l
     /\ \A l, k \in Launchers : run[l].pc \notin {"off", "check"} /\ run[k].pc \notin {"off", "check"} => l = k

LEMMA LockStays ==
  ASSUME LauncherTypeOK, LockInv, NEW l \in Launchers, ActsOf(l)
  PROVE  LockInv'
<1>. SUFFICES ASSUME "raced" \notin lOdd'  PROVE LockInv'  BY DEF LockInv
<1>0. /\ \A k \in Launchers : Past(k) => lock = k
      /\ \A j, k \in Launchers : run[j].pc \notin {"off", "check"} /\ run[k].pc \notin {"off", "check"} => j = k
  BY OddsStay DEF LockInv
<1>1. CASE Start(l)
  <2>1. MainTo(l, "check") /\ UNCHANGED lock /\ At(l, "off")  BY <1>1, Courses DEF Start
  <2>. QED  BY <1>0, <2>1 DEF LockInv, Past, Turns, MainTo, At
<1>2. CASE CheckLock(l)
  <2>1. At(l, "check") /\ UNCHANGED lock  BY <1>2 DEF CheckLock, AlreadyRunning
  <2>2. CASE Ends(l)  BY <1>0, <2>1, <2>2 DEF LockInv, Past, Turns, Ends, At
  <2>3. CASE MainTo(l, "free")
    <3>1. /\ ~\E k \in Launchers : At(k, "free") 
          /\ FALSE \in Alive(l)
      <4>1. PICK alive \in Alive(l) :
              IF alive THEN AlreadyRunning(l) /\ UNCHANGED lOdd
              ELSE lOdd' = IF \E k \in Launchers : At(k, "free") THEN lOdd \cup {"raced"} ELSE lOdd
        BY <1>2 DEF CheckLock
      <4>2. ~alive
        <5>1. run'[l].pc = "free"  BY <2>3 DEF MainTo, Turns
        <5>2. AlreadyRunning(l) => Ends(l)  BY TurnsTo DEF AlreadyRunning, Ends
        <5>. QED  BY <4>1, <5>1, <5>2 DEF Ends, Turns
      <4>3. ~\E k \in Launchers : At(k, "free")  BY <4>1, <4>2
      <4>4. alive \in BOOLEAN  BY DEF Alive
      <4>. QED  BY <4>2, <4>3, <4>4
    <3>2. \A k \in Launchers : ~Past(k)
      <4>1. ASSUME NEW k \in Launchers, Past(k)  PROVE FALSE
        <5>1. lock = k /\ k # l  BY <1>0, <2>1, <4>1 DEF Past, At
        <5>2. lock # Absent /\ lock # Stale  BY <5>1, LauncherAssumption
        <5>. QED  BY <3>1, <4>1, <5>1, <5>2 DEF Alive, Past
      <4>. QED  BY <4>1
    <3>. QED  BY <2>1, <2>3, <3>1, <3>2 DEF LockInv, Past, Turns, MainTo, At
  <2>. QED  BY <1>2, <2>2, <2>3, Courses
<1>3. CASE WriteLock(l)
  <2>1. MainTo(l, "locked") /\ lock' = l /\ At(l, "free")  BY <1>3, Courses DEF WriteLock
  <2>. QED  BY <1>0, <2>1 DEF LockInv, Past, Turns, MainTo, At
<1>4. CASE Crash(l)
  <2>1. Ends(l) /\ lock' = IF lock = l THEN Stale ELSE lock  BY <1>4, Courses DEF Crash
  <2>. QED  BY <1>0, <2>1 DEF LockInv, Past, Turns, Ends
<1>5. CASE GoesOn(l)  BY <1>0, <1>5 DEF LockInv, GoesOn, OthersStay, Past
<1>6. CASE Past(l) /\ Ends(l)  BY <1>0, <1>6 DEF LockInv, Past, Turns, Ends
<1>. QED  BY <1>1, <1>2, <1>3, <1>4, <1>5, <1>6, OnOrOut

-----------------------------------------------------------------------------
(* Nothing is removed but what the user agreed to lose                     *)

\* Who removes does it for the removal that is pending, the user agreed to it,
\* and every volume there is existed then.
Removing == Uninstalling \cup {"retry"}
AgreedInv ==
  \/ "raced" \in lOdd \/ agreed.late
  \/ /\ pending # Absent => pending.dir \in agreed.dirs /\ data \subseteq agreed.data
     /\ \A l \in Launchers : run[l].pc \in Removing => pending # Absent /\ run[l].dir = pending.dir

\* A step that neither puts anything anywhere nor removes anything.
Quiet(l) ==
  /\ OthersStay(l) /\ UNCHANGED <<pending, agreed, disk, data>>
  /\ run'[l].pc \in Removing => run[l].pc \in Removing /\ run'[l].dir = run[l].dir

\* One that may put something into a folder or a volume.
PutsIn(l) ==
  /\ OthersStay(l) /\ UNCHANGED pending /\ run'[l].pc \notin Removing
  /\ agreed.late => agreed'.late
  /\ pending # Absent /\ ~agreed'.late => agreed'.dirs = agreed.dirs /\ agreed'.data = agreed.data /\ data' = data
  /\ data \subseteq data'
  /\ \A d \in Dirs : disk[d] # "none" /\ disk'[d] = "none" => d = run[l].dir /\ run[l].pc \in Removing

\* One of a removal.
TakesOut(l) ==
  /\ OthersStay(l) /\ run[l].pc \in Removing /\ UNCHANGED agreed /\ data' \subseteq data
  /\ \A d \in Dirs \ {run[l].dir} : disk'[d] = disk[d]
  /\ pending # Absent => pending' # Absent /\ pending'.dir = pending.dir
  /\ run'[l].pc \in Removing => run'[l].dir = run[l].dir

LEMMA InOrOut ==
  ASSUME LauncherTypeOK, Housed, NEW l \in Launchers, ActsOf(l)
  PROVE  \/ ReadPending(l) \/ RetryEnds(l) \/ Uninstall(l) \/ DeletePending(l)
         \/ Quiet(l) \/ PutsIn(l) \/ TakesOut(l)
<1>. DEFINE r == run[l]
<1>. USE DEF Removing, Uninstalling
<1>a. disk \in [Dirs -> {"none", "stub", "part", "whole"}]  BY DEF LauncherTypeOK
<1>b. r.pc \in Handling => r.dir \in Dirs  BY DEF Housed, Sound
<1>1. ASSUME Start(l)  PROVE Quiet(l)
  <2>1. MainTo(l, "check")
    BY <1>1, Courses
  <2>2. UNCHANGED <<pending, agreed, disk, data>> /\ At(l, "off")  BY <1>1 DEF Start, files, docker, At, Working
  <2>. QED  BY <2>1, <2>2 DEF Quiet, OthersStay, Turns, MainTo, WorkerTo, WorkerEnds, Ends, At, Working
<1>2. ASSUME CheckLock(l)  PROVE Quiet(l)
  <2>1. Ends(l) \/ MainTo(l, "free")
    BY <1>2, Courses
  <2>2. UNCHANGED <<pending, agreed, disk, data>> /\ At(l, "check")  BY <1>2 DEF CheckLock, AlreadyRunning, Odds, files, docker, At, Working
  <2>. QED  BY <2>1, <2>2 DEF Quiet, OthersStay, Turns, MainTo, WorkerTo, WorkerEnds, Ends, At, Working
<1>3. ASSUME WriteLock(l)  PROVE Quiet(l)
  <2>1. MainTo(l, "locked")
    BY <1>3, Courses
  <2>2. UNCHANGED <<pending, agreed, disk, data>> /\ At(l, "free")  BY <1>3 DEF WriteLock, files, docker, At, Working
  <2>. QED  BY <2>1, <2>2 DEF Quiet, OthersStay, Turns, MainTo, WorkerTo, WorkerEnds, Ends, At, Working
<1>4. ASSUME CheckDocker(l)  PROVE Quiet(l)
  <2>1. Ends(l) \/ MainTo(l, "locate")
    BY <1>4, Courses
  <2>2. UNCHANGED <<pending, agreed, disk, data>> /\ At(l, "docker")  BY <1>4 DEF CheckDocker, Exits, files, docker, At, Working
  <2>. QED  BY <2>1, <2>2 DEF Quiet, OthersStay, Turns, MainTo, WorkerTo, WorkerEnds, Ends, At, Working
<1>5. ASSUME Locate(l)  PROVE Quiet(l)
  <2>1. \/ MainTo(l, "picker") \/ MainTo(l, "prompt")
         \/ \E d \in Dirs : Turns(l, "env", r.w, d, r.todo, r.res)
    BY <1>5, Courses
  <2>2. UNCHANGED <<pending, agreed, disk, data>> /\ At(l, "locate")  BY <1>5 DEF Locate, Remembered, files, docker, At, Working
  <2>. QED  BY <2>1, <2>2 DEF Quiet, OthersStay, Turns, MainTo, WorkerTo, WorkerEnds, Ends, At, Working
<1>6. ASSUME Declines(l)  PROVE Quiet(l)
  <2>1. Ends(l)
    BY <1>6, Courses
  <2>2. UNCHANGED <<pending, agreed, disk, data>>  BY <1>6 DEF Declines, Exits, files, docker, At, Working
  <2>. QED  BY <2>1, <2>2 DEF Quiet, OthersStay, Turns, MainTo, WorkerTo, WorkerEnds, Ends, At, Working
<1>7. ASSUME WriteManifest(l)  PROVE Quiet(l)
  <2>1. WorkerTo(l, "legacy")
    BY <1>7, Courses
  <2>2. UNCHANGED <<pending, agreed, disk, data>> /\ Working(l, "installing", "manifest")  BY <1>7 DEF WriteManifest, files, docker, At, Working
  <2>. QED  BY <2>1, <2>2 DEF Quiet, OthersStay, Turns, MainTo, WorkerTo, WorkerEnds, Ends, At, Working
<1>8. ASSUME WriteLegacy(l)  PROVE Quiet(l)
  <2>1. WorkerTo(l, "build")
    BY <1>8, Courses
  <2>2. UNCHANGED <<pending, agreed, disk, data>> /\ Working(l, "installing", "legacy")  BY <1>8 DEF WriteLegacy, files, docker, At, Working
  <2>. QED  BY <2>1, <2>2 DEF Quiet, OthersStay, Turns, MainTo, WorkerTo, WorkerEnds, Ends, At, Working
<1>9. ASSUME EnsureEnv(l)  PROVE Quiet(l)
  <2>1. Ends(l) \/ Turns(l, "running", "up", r.dir, r.todo, "none")
    BY <1>9, Courses
  <2>2. UNCHANGED <<pending, agreed, disk, data>> /\ At(l, "env")  BY <1>9 DEF EnsureEnv, Exits, files, docker, At, Working
  <2>. QED  BY <2>1, <2>2 DEF Quiet, OthersStay, Turns, MainTo, WorkerTo, WorkerEnds, Ends, At, Working
<1>10. ASSUME Healthy(l)  PROVE Quiet(l)
  <2>1. WorkerTo(l, "none")
    BY <1>10, Courses
  <2>2. UNCHANGED <<pending, agreed, disk, data>> /\ Working(l, "running", "health")  BY <1>10 DEF Healthy, files, docker, At, Working
  <2>. QED  BY <2>1, <2>2 DEF Quiet, OthersStay, Turns, MainTo, WorkerTo, WorkerEnds, Ends, At, Working
<1>11. ASSUME ForgetFolder(l)  PROVE Quiet(l)
  <2>1. MainTo(l, "last")
    BY <1>11, Courses
  <2>2. UNCHANGED <<pending, agreed, disk, data>> /\ At(l, "legacy")  BY <1>11 DEF ForgetFolder, files, docker, At, Working
  <2>. QED  BY <2>1, <2>2 DEF Quiet, OthersStay, Turns, MainTo, WorkerTo, WorkerEnds, Ends, At, Working
<1>12. ASSUME NEW d \in Dirs, Pick(l, d)  PROVE Quiet(l)
  <2>1. Turns(l, "env", r.w, d, r.todo, r.res)
    BY <1>12, Courses
  <2>2. UNCHANGED <<pending, agreed, disk, data>> /\ At(l, "picker")  BY <1>12 DEF Pick, files, docker, At, Working
  <2>. QED  BY <2>1, <2>2 DEF Quiet, OthersStay, Turns, MainTo, WorkerTo, WorkerEnds, Ends, At, Working
<1>13. ASSUME NEW d \in Dirs, Install(l, d)  PROVE Quiet(l)
  <2>1. Turns(l, "installing", "get", d, r.todo, r.res)
    BY <1>13, Courses
  <2>2. UNCHANGED <<pending, agreed, disk, data>> /\ At(l, "prompt")  BY <1>13 DEF Install, files, docker, At, Working
  <2>. QED  BY <2>1, <2>2 DEF Quiet, OthersStay, Turns, MainTo, WorkerTo, WorkerEnds, Ends, At, Working
<1>14. ASSUME NEW ok \in BOOLEAN, Download(l, ok)  PROVE Quiet(l)
  <2>1. IF ok THEN WorkerTo(l, "unpack") ELSE WorkerEnds(l, "error")
    BY <1>14, Courses
  <2>2. UNCHANGED <<pending, agreed, disk, data>> /\ Working(l, "installing", "get")  BY <1>14 DEF Download, Odds, files, docker, At, Working
  <2>. QED  BY <2>1, <2>2 DEF Quiet, OthersStay, Turns, MainTo, WorkerTo, WorkerEnds, Ends, At, Working
<1>15. ASSUME CloseUninstall(l)  PROVE Quiet(l)
  <2>1. MainTo(l, "removing")
    BY <1>15, Courses
  <2>2. UNCHANGED <<pending, agreed, disk, data>> /\ At(l, "uninstalling")  BY <1>15 DEF CloseUninstall, Odds, files, docker, At, Working
  <2>. QED  BY <2>1, <2>2 DEF Quiet, OthersStay, Turns, MainTo, WorkerTo, WorkerEnds, Ends, At, Working
<1>16. ASSUME NEW ok \in BOOLEAN, Stop(l, ok)  PROVE Quiet(l)
  <2>1. Ends(l)
    BY <1>16, Courses
  <2>2. UNCHANGED <<pending, agreed, disk, data>>  BY <1>16 DEF Stop, Exits, ShutsDown, Downed, Odds, files, docker, At, Working
  <2>. QED  BY <2>1, <2>2 DEF Quiet, OthersStay, Turns, MainTo, WorkerTo, WorkerEnds, Ends, At, Working
<1>17. ASSUME NEW ok \in BOOLEAN, Unpack(l, ok)  PROVE PutsIn(l)
  <2>1. IF ok THEN WorkerTo(l, "manifest") ELSE WorkerEnds(l, "none")
    BY <1>17, Courses
  <2>2. Working(l, "installing", "unpack") /\ r.dir \in Dirs  BY <1>17, <1>b DEF Unpack, Working, Handling
  <2>3. /\ Anew({r.dir}, {}) /\ UNCHANGED <<pending, data>>
        /\ \A d \in Dirs : disk[d] # "none" => disk'[d] # "none"
    BY <1>a, <1>17 DEF Unpack, Unfinished, files, docker
  <2>4. {r.dir} \in SUBSET Dirs /\ {} \in SUBSET Dirs  BY <2>2
  <2>5. (agreed.late => agreed'.late) /\ ~(pending # Absent /\ ~agreed'.late)  BY SMTT(30), <2>3, <2>4, PutAnew
  <2>. QED  BY <2>1, <2>2, <2>3, <2>5 DEF PutsIn, OthersStay, Turns, WorkerTo, WorkerEnds, Working
<1>18. ASSUME NEW ok \in BOOLEAN, Build(l, ok)  PROVE PutsIn(l)
  <2>1. WorkerEnds(l, IF ok THEN "ok" ELSE "error")
    BY <1>18, Courses
  <2>2. Working(l, "installing", "build") /\ r.dir \in Dirs  BY <1>18, <1>b DEF Build, Working, Handling
  <2>. DEFINE vols == IF ok THEN {r.dir} ELSE {}
  <2>3. Anew({}, vols) /\ UNCHANGED <<pending, disk>> /\ Upped(r.dir, ok)
    BY <1>18 DEF Build, files
  <2>4. vols \in SUBSET Dirs /\ {} \in SUBSET Dirs /\ (vols = {} <=> ~ok)  BY <2>2
  <2>5. data \subseteq data' /\ (~ok => data' = data)  BY <2>2, <2>3, UpIs
  <2>6. /\ agreed.late => agreed'.late
        /\ pending # Absent /\ ~agreed'.late => ~ok /\ agreed'.dirs = agreed.dirs /\ agreed'.data = agreed.data
    <3>. HIDE DEF vols
    <3>1. /\ agreed'.dirs = agreed.dirs \ {} /\ agreed'.data = agreed.data \ vols
          /\ agreed'.late <=> agreed.late \/ (pending # Absent /\ {} \cup vols # {})
      BY <2>3, <2>4, PutAnew
    <3>. QED  BY <2>4, <3>1
  <2>. QED  BY <2>1, <2>2, <2>3, <2>5, <2>6 DEF PutsIn, OthersStay, Turns, WorkerTo, WorkerEnds, Ends, Working
<1>19. ASSUME NEW ok \in BOOLEAN, ComposeUp(l, ok)  PROVE PutsIn(l)
  <2>1. IF ok THEN WorkerTo(l, "health") ELSE Ends(l)
    BY <1>19, Courses
  <2>2. Working(l, "running", "up") /\ r.dir \in Dirs  BY <1>19, <1>b DEF ComposeUp, Working, Handling
  <2>. DEFINE vols == IF ok THEN {r.dir} ELSE {}
  <2>3. Anew({}, vols) /\ UNCHANGED <<pending, disk>> /\ Upped(r.dir, ok)
    BY <1>19 DEF ComposeUp, files
  <2>4. vols \in SUBSET Dirs /\ {} \in SUBSET Dirs /\ (vols = {} <=> ~ok)  BY <2>2
  <2>5. data \subseteq data' /\ (~ok => data' = data)  BY <2>2, <2>3, UpIs
  <2>6. /\ agreed.late => agreed'.late
        /\ pending # Absent /\ ~agreed'.late => ~ok /\ agreed'.dirs = agreed.dirs /\ agreed'.data = agreed.data
    <3>. HIDE DEF vols
    <3>1. /\ agreed'.dirs = agreed.dirs \ {} /\ agreed'.data = agreed.data \ vols
          /\ agreed'.late <=> agreed.late \/ (pending # Absent /\ {} \cup vols # {})
      BY <2>3, <2>4, PutAnew
    <3>. QED  BY <2>4, <3>1
  <2>. QED  BY <2>1, <2>2, <2>3, <2>5, <2>6 DEF PutsIn, OthersStay, Turns, WorkerTo, WorkerEnds, Ends, Working
<1>c. BrokenOff(l) => /\ agreed.late => agreed'.late
                      /\ pending # Absent /\ ~agreed'.late =>
                           agreed'.dirs = agreed.dirs /\ agreed'.data = agreed.data /\ data' = data
                      /\ data \subseteq data'
                      /\ \A d \in Dirs : disk[d] # "none" /\ disk'[d] = "none" => d = r.dir /\ r.pc \in Removing
  BY BrokenOffIs
<1>d. BrokenOff(l) /\ UNCHANGED pending /\ Ends(l) => PutsIn(l)
  BY <1>c DEF PutsIn, OthersStay, Turns, Ends
<1>20. ASSUME CloseInstall(l)  PROVE PutsIn(l) \/ Quiet(l)
  <2>1. At(l, "installing") /\ UNCHANGED pending  BY <1>20 DEF CloseInstall, files
  <2>2. IF r.res = "ok" THEN MainTo(l, "env") ELSE Ends(l)  BY <1>20, Courses
  <2>3. CASE r.res = "ok"
    <3>1. UNCHANGED <<agreed, disk, data>>  BY <1>20, <2>3 DEF CloseInstall, docker
    <3>. QED  BY <2>1, <2>2, <2>3, <3>1 DEF Quiet, OthersStay, Turns, MainTo
  <2>4. CASE r.res # "ok"
    <3>1. BrokenOff(l)  BY <1>20, <2>4 DEF CloseInstall
    <3>. QED  BY <1>d, <2>1, <2>2, <2>4, <3>1
  <2>. QED  BY <2>3, <2>4
<1>21. ASSUME CloseWindow(l)  PROVE PutsIn(l)
  BY <1>d, <1>21, Courses DEF CloseWindow, files
<1>22. ASSUME Crash(l)  PROVE PutsIn(l) \/ TakesOut(l)
  <2>1. Ends(l) /\ UNCHANGED pending  BY <1>22, Courses DEF Crash, files
  <2>2. CASE BrokenOff(l)  BY <1>d, <2>1, <2>2
  <2>3. CASE Unrecorded(l)
    <3>1. UNCHANGED <<disk, agreed>> /\ \E s : DockerStep(s, r.dir, "done") /\ (r.pc = "retry" \/ s = r.w)
      BY <2>3 DEF Unrecorded
    <3>2. data' \subseteq data /\ r.pc \in Removing
      BY <3>1, DockerDoes, NamesOfSteps DEF Housed, Sound
    <3>. QED  BY <2>1, <3>1, <3>2 DEF TakesOut, OthersStay, Turns, Ends
  <2>. QED  BY <1>22, <2>2, <2>3 DEF Crash
<1>23. ASSUME NEW how \in Hows, Retry(l, how)  PROVE TakesOut(l)
  <2>. DEFINE s == First(r.todo)
  <2>1. s \in StepNames /\ Performs(s, r.dir, how) /\ Recorded(s, how) /\ UNCHANGED agreed /\ r.pc = "retry"
    BY <1>23, FirstIsOne, Fields DEF Retry, LauncherTypeOK, At
  <2>2. Turns(l, "retry", r.w, r.dir, r.todo \ {s}, r.res)  BY <1>23, Courses
  <2>. HIDE DEF s
  <2>3. pending # Absent => pending' # Absent /\ pending'.dir = pending.dir  BY <2>1, UpdatedIs DEF Recorded
  <2>4. data' \subseteq data /\ \A d \in Dirs \ {r.dir} : disk'[d] = disk[d]
    <3>1. CASE DockerStep(s, r.dir, how) /\ UNCHANGED <<manifest, disk>>  BY <3>1, DockerDoes
    <3>2. CASE RemovesTree(r.dir, how) /\ UNCHANGED <<manifest, docker>>  BY <3>2, TreeIs DEF docker
    <3>3. CASE manifest' = Absent /\ UNCHANGED <<disk, docker>>  BY <3>3 DEF docker
    <3>. QED  BY <2>1, <3>1, <3>2, <3>3 DEF Performs
  <2>. QED  BY <2>1, <2>2, <2>3, <2>4 DEF TakesOut, OthersStay, Turns
<1>24. ASSUME NEW how \in Hows, UninstallStep(l, how)  PROVE TakesOut(l)
  <2>1. DockerStep(r.w, r.dir, how) /\ Recorded(r.w, how) /\ UNCHANGED <<disk, agreed>> /\ r.pc \in Uninstalling
    BY <1>24 DEF UninstallStep
  <2>2. r.w \in StepNames /\ data' \subseteq data  BY <2>1, DockerDoes, NamesOfSteps
  <2>3. pending # Absent => pending' # Absent /\ pending'.dir = pending.dir  BY <2>1, <2>2, UpdatedIs DEF Recorded
  <2>4. run' \in [Launchers -> Process] /\ (\A k \in Launchers \ {l} : run'[k] = run[k]) /\ run'[l].dir = r.dir
    BY <1>24, Courses DEF WorkerTo, Turns
  <2>. QED  BY <2>1, <2>2, <2>3, <2>4 DEF TakesOut, OthersStay
<1>25. ASSUME NEW how \in Hows, RemoveInstall(l, how)  PROVE TakesOut(l)
  <2>1. RemovesTree(r.dir, how) /\ Recorded("rmtree", how) /\ UNCHANGED <<data, agreed>> /\ r.pc = "removing"
    BY <1>25 DEF RemoveInstall, At, docker
  <2>2. pending # Absent => pending' # Absent /\ pending'.dir = pending.dir
    BY <2>1, UpdatedIs, NamesOfSteps DEF Recorded
  <2>3. IF how = "done" THEN MainTo(l, "tidy") ELSE Ends(l)  BY <1>25, Courses
  <2>4. \A d \in Dirs \ {r.dir} : disk'[d] = disk[d]  BY <2>1, TreeIs
  <2>. QED  BY <2>1, <2>2, <2>3, <2>4 DEF TakesOut, OthersStay, Turns, MainTo, Ends
<1>26. ASSUME DeleteManifest(l)  PROVE TakesOut(l)
  <2>1. Recorded("delete_manifest", "done") /\ UNCHANGED <<disk, data, agreed>> /\ r.pc = "tidy"
    BY <1>26 DEF DeleteManifest, At, docker
  <2>2. pending # Absent => pending' # Absent /\ pending'.dir = pending.dir
    BY <2>1, UpdatedIs, NamesOfSteps DEF Recorded
  <2>3. MainTo(l, "legacy")  BY <1>26, Courses
  <2>. QED  BY <2>1, <2>2, <2>3 DEF TakesOut, OthersStay, Turns, MainTo
<1>. QED
  BY <1>1, <1>2, <1>3, <1>4, <1>5, <1>6, <1>7, <1>8, <1>9, <1>10, <1>11, <1>12, <1>13, <1>14, <1>15, <1>16, <1>17, <1>18, <1>19, <1>20, <1>21, <1>22, <1>23, <1>24, <1>25, <1>26 DEF ActsOf, LauncherStep

\* What is agreed to stays so, and no step of a launcher removes anything else.
LEMMA AgreedStays ==
  ASSUME LauncherTypeOK, Housed, LockInv, AgreedInv, NEW l \in Launchers, ActsOf(l)
  PROVE  AgreedInv' /\ ("raced" \in lOdd \/ agreed.late \/ OnlyAgreed)
<1>. SUFFICES ASSUME "raced" \notin lOdd, ~agreed.late
              PROVE  ("raced" \in lOdd' \/ agreed'.late \/ AgreedInv') /\ OnlyAgreed
  <2>1. "raced" \in lOdd => "raced" \in lOdd'  BY OddsStay
  <2>2. agreed.late => agreed'.late
    BY InOrOut DEF ReadPending, RetryEnds, Uninstall, DeletePending, Quiet, PutsIn, TakesOut, LauncherTypeOK
  <2>. QED  BY <2>1, <2>2 DEF AgreedInv
<1>. USE DEF Removing, Uninstalling
<1>0. /\ pending # Absent => pending.dir \in agreed.dirs /\ data \subseteq agreed.data
      /\ \A k \in Launchers : run[k].pc \in Removing => pending # Absent /\ run[k].dir = pending.dir
  BY DEF AgreedInv
<1>1. \A k \in Launchers \ {l} : run[l].pc \notin {"off", "check"} => run[k].pc \in {"off", "check"}
  BY DEF LockInv
<1>2. CASE ReadPending(l)
  <2>1. UNCHANGED <<pending, agreed, disk, data>>  BY <1>2 DEF ReadPending, files, docker
  <2>2. CASE pending = Absent
    <3>1. MainTo(l, "docker")  BY <1>2, <2>2, Courses
    <3>. QED  BY <1>0, <2>1, <3>1 DEF AgreedInv, OnlyAgreed, MainTo, Turns
  <2>3. CASE pending # Absent
    <3>1. Turns(l, "retry", run[l].w, pending.dir, StepNames \ pending.done, run[l].res)  BY <1>2, <2>3, Courses
    <3>. QED  BY <1>0, <2>1, <2>3, <3>1 DEF AgreedInv, OnlyAgreed, Turns
  <2>. QED  BY <2>2, <2>3
<1>3. CASE RetryEnds(l)
  <2>1. /\ UNCHANGED <<agreed, disk, data>> /\ pending' \in {pending, Absent} /\ run[l].pc = "retry"
        /\ Turns(l, "docker", "none", Absent, {}, "none")
    BY <1>3, Courses DEF RetryEnds, docker, At
  <2>. QED  BY <1>0, <1>1, <2>1 DEF AgreedInv, OnlyAgreed, Turns
<1>4. CASE Uninstall(l)
  <2>. DEFINE d == run[l].dir
  <2>1. /\ UNCHANGED <<disk, data>> /\ pending' = [dir |-> d, done |-> {}] /\ run[l].pc = "running"
        /\ Turns(l, "uninstalling", "compose_down", d, run[l].todo, run[l].res)
    BY <1>4, Courses DEF Uninstall, docker, Working
  <2>2. agreed'.dirs = agreed.dirs \cup {d} /\ agreed'.data = data
    BY <1>4 DEF Uninstall, LauncherTypeOK
  <2>3. d \in Dirs  BY <2>1 DEF Housed, Sound, Handling
  <2>4. pending' # Absent /\ pending'.dir = d
    <3>1. pending' \in Cleanup  BY <2>1, <2>3 DEF Cleanup
    <3>. QED  BY <2>1, <3>1, LauncherAssumption
  <2>. QED  BY <1>0, <1>1, <2>1, <2>2, <2>4 DEF AgreedInv, OnlyAgreed, Turns
<1>5. CASE DeletePending(l)
  <2>1. UNCHANGED <<agreed, disk, data>> /\ pending' = Absent /\ run[l].pc = "last" /\ Ends(l)
    BY <1>5, Courses DEF DeletePending, docker, At
  <2>. QED  BY <1>0, <1>1, <2>1 DEF AgreedInv, OnlyAgreed, Turns, Ends
<1>6. CASE Quiet(l)  BY <1>0, <1>6 DEF AgreedInv, OnlyAgreed, Quiet, OthersStay
<1>7. CASE PutsIn(l)  BY <1>0, <1>7 DEF AgreedInv, OnlyAgreed, PutsIn, OthersStay
<1>8. CASE TakesOut(l)  BY <1>0, <1>8 DEF AgreedInv, OnlyAgreed, TakesOut, OthersStay
<1>. QED  BY <1>2, <1>3, <1>4, <1>5, <1>6, <1>7, <1>8, InOrOut

-----------------------------------------------------------------------------
(* No launcher, no containers                                              *)

\* Containers run in the folder of a launcher that goes on to a state in which
\* it, or its user, takes them down.
Keeps(pc, w, res) ==
  \/ pc \in {"env", "running"} \/ (pc = "uninstalling" /\ w = "compose_down")
  \/ (pc = "installing" /\ res = "ok")
Holds(l) == Keeps(run[l].pc, run[l].w, run[l].res)

\* From its unpacking to the window with its address the folder is whole, so
\* that no launcher leaves behind what its installation has started.
Built(l) ==
  \/ run[l].pc = "installing" /\ (run[l].w \in {"manifest", "legacy", "build"} \/ run[l].res = "ok")
  \/ run[l].pc = "env" /\ run[l].dir \in up

Mishaps == {"failed", "crashed", "raced", "closed", "pulled"}
DownInv ==
  \/ lOdd \cap Mishaps # {}
  \/ /\ \A d \in up : \E l \in Launchers : Holds(l) /\ run[l].dir = d
     /\ \A l \in Launchers : Built(l) => disk[run[l].dir] = "whole"

LEMMA DownStays ==
  ASSUME LauncherTypeOK, Housed, LockInv, DownInv, NEW l \in Launchers, ActsOf(l)
  PROVE  DownInv'
<1>. SUFFICES ASSUME lOdd' \cap Mishaps = {}  PROVE DownInv'  BY DEF DownInv
<1>. DEFINE r == run[l]
            Safe == /\ \A d \in up' : Holds(l)' /\ run'[l].dir = d
                    /\ Built(l)' => disk'[run'[l].dir] = "whole"
<1>. USE DEF Keeps
<1>0. /\ lOdd \cap Mishaps = {} /\ "raced" \notin lOdd
      /\ \A d \in up : \E k \in Launchers : Holds(k) /\ run[k].dir = d
      /\ \A k \in Launchers : Built(k) => disk[run[k].dir] = "whole"
  BY OddsStay DEF DownInv, Mishaps
<1>a. \A why \in Mishaps, ok \in BOOLEAN : Outcome(ok, why) => ok
  BY DEF Outcome, Mishaps
<1>b. "failed" \in Mishaps /\ "closed" \in Mishaps /\ "crashed" \in Mishaps  BY DEF Mishaps
<1>c. Sound(r.pc, r.w, r.dir, r.res)  BY DEF Housed
\* A launcher that has not come to the lock has nothing to do with containers.
<1>1. CASE Start(l) \/ CheckLock(l) \/ WriteLock(l)
  <2>1. UNCHANGED <<up, disk>> /\ OthersStay(l) /\ r.pc \in {"off", "check", "free"} /\ r.res # "ok"
    BY <1>1, <1>c, Courses DEF Start, CheckLock, WriteLock, At, OthersStay, MainTo, Ends, Turns, docker, Sound
  <2>2. run'[l].pc \in {"off", "check", "free", "locked"}
    BY <1>1, Courses DEF MainTo, Ends, Turns
  <2>. QED  BY <1>0, <2>1, <2>2 DEF DownInv, Holds, Built, OthersStay
\* All others are of the only launcher that is at work.
<1>2. ASSUME Past(l), OthersStay(l), Safe  PROVE DownInv'
  <2>1. \A k \in Launchers \ {l} : run'[k].pc \in {"off", "check"}
    BY <1>0, <1>2 DEF LockInv, Past, OthersStay
  <2>. QED  BY <1>2, <2>1 DEF DownInv, Built
<1>3. Past(l) => \A d \in up : Holds(l) /\ r.dir = d
  BY <1>0 DEF LockInv, Past, Holds
<1>4. ASSUME ReadPending(l)  PROVE DownInv'
  <2>1. UNCHANGED <<up, disk>> /\ r.pc = "locked"  BY <1>4 DEF ReadPending, docker, At
  <2>2. up = {}  BY <1>3, <1>c, <2>1 DEF Past, Holds, Sound
  <2>3. OthersStay(l) /\ run'[l].pc \in {"docker", "retry"}
    <3>1. CASE pending = Absent  BY <1>4, <3>1, Courses DEF MainTo, Turns, OthersStay
    <3>2. CASE pending # Absent
      <4>1. Turns(l, "retry", r.w, pending.dir, StepNames \ pending.done, r.res)  BY <1>4, <3>2, Courses
      <4>. QED  BY <4>1 DEF Turns, OthersStay
    <3>. QED  BY <3>1, <3>2
  <2>. QED  BY <1>2, <2>1, <2>2, <2>3 DEF Built, Past
<1>5. ASSUME RetryEnds(l)  PROVE DownInv'
  <2>1. Turns(l, "docker", "none", Absent, {}, "none")
    BY <1>5, Courses
  <2>2. UNCHANGED <<up, disk>> /\ At(l, "retry")  BY <1>5 DEF RetryEnds, docker, At, Working
  <2>3. up = {}  BY <1>3, <1>c, <2>2 DEF Past, Holds, At, Working, Sound
  <2>. QED  BY <1>0, <1>2, <1>c, <2>1, <2>2, <2>3 DEF Built, Past, OthersStay, Turns, MainTo, WorkerTo, WorkerEnds, Ends, At, Working, Sound
<1>6. ASSUME CheckDocker(l)  PROVE DownInv'
  <2>1. Ends(l) \/ MainTo(l, "locate")
    BY <1>6, Courses
  <2>2. UNCHANGED <<up, disk>> /\ At(l, "docker")  BY <1>6 DEF CheckDocker, docker, At, Working
  <2>3. up = {}  BY <1>3, <1>c, <2>2 DEF Past, Holds, At, Working, Sound
  <2>. QED  BY <1>0, <1>2, <1>c, <2>1, <2>2, <2>3 DEF Built, Past, OthersStay, Turns, MainTo, WorkerTo, WorkerEnds, Ends, At, Working, Sound
<1>7. ASSUME Locate(l)  PROVE DownInv'
  <2>1. \/ MainTo(l, "picker") \/ MainTo(l, "prompt")
         \/ \E d \in Dirs : Turns(l, "env", r.w, d, r.todo, r.res)
    BY <1>7, Courses
  <2>2. UNCHANGED <<up, disk>> /\ At(l, "locate")  BY <1>7 DEF Locate, docker, At, Working
  <2>3. up = {}  BY <1>3, <1>c, <2>2 DEF Past, Holds, At, Working, Sound
  <2>. QED  BY <1>0, <1>2, <1>c, <2>1, <2>2, <2>3 DEF Built, Past, OthersStay, Turns, MainTo, WorkerTo, WorkerEnds, Ends, At, Working, Sound
<1>8. ASSUME Declines(l)  PROVE DownInv'
  <2>1. Ends(l)
    BY <1>8, Courses
  <2>2. UNCHANGED <<up, disk>> /\ r.pc \in {"picker", "prompt"}  BY <1>8 DEF Declines, docker, At, Working
  <2>3. up = {}  BY <1>3, <1>c, <2>2 DEF Past, Holds, At, Working, Sound
  <2>. QED  BY <1>0, <1>2, <1>c, <2>1, <2>2, <2>3 DEF Built, Past, OthersStay, Turns, MainTo, WorkerTo, WorkerEnds, Ends, At, Working, Sound
<1>9. ASSUME WriteManifest(l)  PROVE DownInv'
  <2>1. WorkerTo(l, "legacy")
    BY <1>9, Courses
  <2>2. UNCHANGED <<up, disk>> /\ Working(l, "installing", "manifest")  BY <1>9 DEF WriteManifest, docker, At, Working
  <2>3. up = {}  BY <1>3, <1>c, <2>2 DEF Past, Holds, At, Working, Sound
  <2>. QED  BY <1>0, <1>2, <1>c, <2>1, <2>2, <2>3 DEF Built, Past, OthersStay, Turns, MainTo, WorkerTo, WorkerEnds, Ends, At, Working, Sound
<1>10. ASSUME WriteLegacy(l)  PROVE DownInv'
  <2>1. WorkerTo(l, "build")
    BY <1>10, Courses
  <2>2. UNCHANGED <<up, disk>> /\ Working(l, "installing", "legacy")  BY <1>10 DEF WriteLegacy, docker, At, Working
  <2>3. up = {}  BY <1>3, <1>c, <2>2 DEF Past, Holds, At, Working, Sound
  <2>. QED  BY <1>0, <1>2, <1>c, <2>1, <2>2, <2>3 DEF Built, Past, OthersStay, Turns, MainTo, WorkerTo, WorkerEnds, Ends, At, Working, Sound
<1>11. ASSUME NEW d \in Dirs, Pick(l, d)  PROVE DownInv'
  <2>1. Turns(l, "env", r.w, d, r.todo, r.res)
    BY <1>11, Courses
  <2>2. UNCHANGED <<up, disk>> /\ At(l, "picker")  BY <1>11 DEF Pick, docker, At, Working
  <2>3. up = {}  BY <1>3, <1>c, <2>2 DEF Past, Holds, At, Working, Sound
  <2>. QED  BY <1>0, <1>2, <1>c, <2>1, <2>2, <2>3 DEF Built, Past, OthersStay, Turns, MainTo, WorkerTo, WorkerEnds, Ends, At, Working, Sound
<1>12. ASSUME NEW d \in Dirs, Install(l, d)  PROVE DownInv'
  <2>1. Turns(l, "installing", "get", d, r.todo, r.res)
    BY <1>12, Courses
  <2>2. UNCHANGED <<up, disk>> /\ At(l, "prompt")  BY <1>12 DEF Install, docker, At, Working
  <2>3. up = {}  BY <1>3, <1>c, <2>2 DEF Past, Holds, At, Working, Sound
  <2>. QED  BY <1>0, <1>2, <1>c, <2>1, <2>2, <2>3 DEF Built, Past, OthersStay, Turns, MainTo, WorkerTo, WorkerEnds, Ends, At, Working, Sound
<1>13. ASSUME NEW ok \in BOOLEAN, Download(l, ok)  PROVE DownInv'
  <2>1. IF ok THEN WorkerTo(l, "unpack") ELSE WorkerEnds(l, "error")
    BY <1>13, Courses
  <2>2. UNCHANGED <<up, disk>> /\ Working(l, "installing", "get")  BY <1>13 DEF Download, docker, At, Working
  <2>3. up = {}  BY <1>3, <1>c, <2>2 DEF Past, Holds, At, Working, Sound
  <2>. QED  BY <1>0, <1>2, <1>c, <2>1, <2>2, <2>3 DEF Built, Past, OthersStay, Turns, MainTo, WorkerTo, WorkerEnds, Ends, At, Working, Sound
<1>14. ASSUME DeleteManifest(l)  PROVE DownInv'
  <2>1. MainTo(l, "legacy")
    BY <1>14, Courses
  <2>2. UNCHANGED <<up, disk>> /\ At(l, "tidy")  BY <1>14 DEF DeleteManifest, docker, At, Working
  <2>3. up = {}  BY <1>3, <1>c, <2>2 DEF Past, Holds, At, Working, Sound
  <2>. QED  BY <1>0, <1>2, <1>c, <2>1, <2>2, <2>3 DEF Built, Past, OthersStay, Turns, MainTo, WorkerTo, WorkerEnds, Ends, At, Working, Sound
<1>15. ASSUME ForgetFolder(l)  PROVE DownInv'
  <2>1. MainTo(l, "last")
    BY <1>15, Courses
  <2>2. UNCHANGED <<up, disk>> /\ At(l, "legacy")  BY <1>15 DEF ForgetFolder, docker, At, Working
  <2>3. up = {}  BY <1>3, <1>c, <2>2 DEF Past, Holds, At, Working, Sound
  <2>. QED  BY <1>0, <1>2, <1>c, <2>1, <2>2, <2>3 DEF Built, Past, OthersStay, Turns, MainTo, WorkerTo, WorkerEnds, Ends, At, Working, Sound
<1>16. ASSUME DeletePending(l)  PROVE DownInv'
  <2>1. Ends(l)
    BY <1>16, Courses
  <2>2. UNCHANGED <<up, disk>> /\ At(l, "last")  BY <1>16 DEF DeletePending, docker, At, Working
  <2>3. up = {}  BY <1>3, <1>c, <2>2 DEF Past, Holds, At, Working, Sound
  <2>. QED  BY <1>0, <1>2, <1>c, <2>1, <2>2, <2>3 DEF Built, Past, OthersStay, Turns, MainTo, WorkerTo, WorkerEnds, Ends, At, Working, Sound
<1>17. ASSUME NEW how \in Hows, Retry(l, how)  PROVE DownInv'
  <2>. DEFINE s == First(r.todo)
  <2>1. Performs(s, r.dir, how) /\ r.pc = "retry"  BY <1>17 DEF Retry, At
  <2>2. Turns(l, "retry", r.w, r.dir, r.todo \ {s}, r.res)  BY <1>17, Courses
  <2>. HIDE DEF s
  <2>3. up' \subseteq up  BY <2>1, DockerDoes DEF Performs, docker
  <2>4. up = {}  BY <1>3, <1>c, <2>1 DEF Past, Holds, Sound
  <2>. QED  BY <1>2, <2>1, <2>2, <2>3, <2>4 DEF Built, Past, OthersStay, Turns
<1>18. ASSUME NEW how \in Hows, RemoveInstall(l, how)  PROVE DownInv'
  <2>1. r.pc = "removing" /\ UNCHANGED up  BY <1>18 DEF RemoveInstall, At, docker
  <2>2. IF how = "done" THEN MainTo(l, "tidy") ELSE Ends(l)  BY <1>18, Courses
  <2>3. up = {}  BY <1>3, <1>c, <2>1 DEF Past, Holds, Sound
  <2>. QED  BY <1>2, <2>1, <2>2, <2>3 DEF Built, Past, OthersStay, Turns, MainTo, Ends
<1>19. ASSUME NEW ok \in BOOLEAN, Unpack(l, ok)  PROVE DownInv'
  <2>1. IF ok THEN WorkerTo(l, "manifest") ELSE WorkerEnds(l, "none")  BY <1>19, Courses
  <2>2. Working(l, "installing", "unpack") /\ UNCHANGED up  BY <1>19 DEF Unpack, docker
  <2>3. up = {} /\ r.res # "ok" /\ r.dir \in Dirs
    BY <1>3, <1>c, <2>2 DEF Past, Holds, Working, Sound, Handling
  <2>4. ok => disk'[r.dir] = "whole"  BY <1>19, <2>3 DEF Unpack, LauncherTypeOK
  <2>. QED  BY <1>2, <2>1, <2>2, <2>3, <2>4 DEF Built, Past, OthersStay, Turns, WorkerTo, WorkerEnds, Working
<1>20. ASSUME NEW ok \in BOOLEAN, Build(l, ok)  PROVE DownInv'
  <2>1. WorkerEnds(l, IF ok THEN "ok" ELSE "error")  BY <1>20, Courses
  <2>2. Working(l, "installing", "build") /\ UNCHANGED disk /\ Outcome(ok, "failed") /\ Upped(r.dir, ok)
    BY <1>20 DEF Build
  <2>3. ok /\ up' = up \cup {r.dir}  BY <1>a, <1>b, <2>2 DEF Upped
  <2>4. up = {} /\ disk[r.dir] = "whole"
    BY <1>0, <1>3, <1>c, <2>2 DEF Past, Holds, Built, Working, Sound
  <2>. QED  BY <1>2, <2>1, <2>2, <2>3, <2>4 DEF Built, Holds, Past, OthersStay, Turns, WorkerEnds, Working
<1>21. ASSUME CloseInstall(l)  PROVE DownInv'
  <2>1. At(l, "installing") /\ IF r.res = "ok" THEN MainTo(l, "env") ELSE Ends(l)
    BY <1>21, Courses DEF CloseInstall
  <2>2. CASE r.res = "ok"
    <3>1. UNCHANGED <<up, disk>>  BY <1>21, <2>2 DEF CloseInstall, docker
    <3>. QED  BY <1>0, <1>2, <1>3, <2>1, <2>2, <3>1 DEF Built, Holds, Past, OthersStay, Turns, MainTo, At
  <2>3. CASE r.res # "ok"
    <3>1. BrokenOff(l) /\ Outcome(r.w = "ended", IF r.w = "unpack" THEN "broken" ELSE "closed")
      BY <1>21, <2>3 DEF CloseInstall
    <3>2. r.w \in {"ended", "unpack"}  BY <1>a, <1>b, <3>1
    <3>3. up' = up  BY <3>1, <3>2, BrokenOffIs
    <3>4. up = {}  BY <1>3, <2>1, <2>3 DEF Past, Holds, At
    <3>. QED  BY <1>2, <2>1, <2>3, <3>3, <3>4 DEF Built, Past, OthersStay, Turns, Ends, At
  <2>. QED  BY <2>2, <2>3
<1>22. ASSUME EnsureEnv(l)  PROVE DownInv'
  <2>1. UNCHANGED <<up, disk>> /\ r.pc = "env"  BY <1>22 DEF EnsureEnv, docker, At
  <2>2. CASE disk[r.dir] = "whole"
    <3>1. Turns(l, "running", "up", r.dir, r.todo, "none")
      <4>1. run' = [run EXCEPT ![l].pc = "running", ![l].w = "up", ![l].res = "none"]
        BY <1>22, <2>2 DEF EnsureEnv
      <4>. QED  BY <4>1, TurnsTo DEF Pcs, Works
    <3>. QED  BY <1>2, <1>3, <2>1, <3>1 DEF Built, Holds, Past, OthersStay, Turns
  <2>3. CASE disk[r.dir] # "whole"
    <3>1. up = {}  BY <1>0, <1>3, <2>1, <2>3 DEF Built, Past
    <3>2. Ends(l) \/ Turns(l, "running", "up", r.dir, r.todo, "none")  BY <1>22, Courses
    <3>. QED  BY <1>2, <2>1, <3>1, <3>2 DEF Built, Past, OthersStay, Turns, Ends
  <2>. QED  BY <2>2, <2>3
<1>23. ASSUME NEW ok \in BOOLEAN, ComposeUp(l, ok)  PROVE DownInv'
  <2>1. Working(l, "running", "up") /\ Outcome(ok, "failed") /\ Upped(r.dir, ok)  BY <1>23 DEF ComposeUp
  <2>2. ok /\ up' = up \cup {r.dir}  BY <1>a, <1>b, <2>1 DEF Upped
  <2>3. WorkerTo(l, "health")  BY <1>23, <2>2, Courses
  <2>. QED  BY <1>2, <1>3, <2>1, <2>2, <2>3 DEF Built, Holds, Past, OthersStay, Turns, WorkerTo, Working
<1>24. ASSUME Healthy(l)  PROVE DownInv'
  <2>1. Working(l, "running", "health") /\ UNCHANGED up /\ WorkerTo(l, "none")  BY <1>24, Courses DEF Healthy, docker
  <2>. QED  BY <1>2, <1>3, <2>1 DEF Built, Holds, Past, OthersStay, Turns, WorkerTo, Working
<1>25. ASSUME NEW ok \in BOOLEAN, Stop(l, ok)  PROVE DownInv'
  <2>1. At(l, "running") /\ Outcome(ok, "failed") /\ Downed(r.dir, IF ok THEN "done" ELSE "failed") /\ Ends(l)
    BY <1>25, Courses DEF Stop, ShutsDown
  <2>2. ok /\ up' = up \ {r.dir}  BY <1>a, <1>b, <2>1 DEF Downed
  <2>. QED  BY <1>2, <1>3, <2>1, <2>2 DEF Built, Past, OthersStay, Turns, Ends, At
<1>26. ASSUME CloseWindow(l)  PROVE DownInv'
  <2>1. Outcome(FALSE, "closed")  BY <1>26 DEF CloseWindow
  <2>. QED  BY <1>a, <1>b, <2>1
<1>27. ASSUME Uninstall(l)  PROVE DownInv'
  <2>1. /\ Working(l, "running", "none") /\ UNCHANGED up
        /\ Turns(l, "uninstalling", "compose_down", r.dir, r.todo, r.res)
    BY <1>27, Courses DEF Uninstall, docker
  <2>. QED  BY <1>2, <1>3, <2>1 DEF Built, Holds, Past, OthersStay, Turns, Working
<1>28. ASSUME NEW how \in Hows, UninstallStep(l, how)  PROVE DownInv'
  <2>1. DockerStep(r.w, r.dir, how) /\ Outcome(how = "done", "failed") /\ r.pc \in Uninstalling
    BY <1>28 DEF UninstallStep, Recorded, Uninstalling
  <2>2. how = "done"  BY <1>a, <1>b, <2>1
  <2>3. up' \subseteq up /\ (r.w = "compose_down" => r.dir \notin up')  BY <2>1, <2>2, DockerDoes
  <2>4. up' = {}  BY <1>3, <1>c, <2>1, <2>3 DEF Holds, Past, Uninstalling, Sound
  <2>5. WorkerTo(l, IF At(l, "uninstalling") THEN AfterStep(r.w) ELSE "ended")  BY <1>28, Courses
  <2>. QED  BY <1>2, <2>1, <2>4, <2>5 DEF Built, Past, OthersStay, Turns, WorkerTo, Uninstalling
<1>29. ASSUME CloseUninstall(l)  PROVE DownInv'
  <2>1. /\ r.pc = "uninstalling" /\ UNCHANGED up /\ Outcome(r.w = "ended", "closed")
        /\ MainTo(l, "removing")
    BY <1>29, Courses DEF CloseUninstall, docker, At
  <2>2. r.w = "ended"  BY <1>a, <1>b, <2>1
  <2>3. up = {}  BY <1>3, <1>c, <2>1, <2>2 DEF Past, Holds, Sound
  <2>. QED  BY <1>2, <2>1, <2>3 DEF Built, Past, OthersStay, Turns, MainTo
<1>30. ASSUME Crash(l)  PROVE DownInv'
  BY <1>30, <1>b DEF Crash
<1>. QED
  BY <1>1, <1>4, <1>5, <1>6, <1>7, <1>8, <1>9, <1>10, <1>11, <1>12, <1>13, <1>14, <1>15, <1>16, <1>17, <1>18, <1>19, <1>20, <1>21, <1>22, <1>23, <1>24, <1>25, <1>26, <1>27, <1>28, <1>29, <1>30 DEF ActsOf, LauncherStep

-----------------------------------------------------------------------------
(* What users do besides, and the theorems                                 *)

\* The inductive invariant of the launcher.
LauncherInv == LauncherTypeOK /\ Housed /\ LockInv /\ AgreedInv /\ DownInv

LEMMA LauncherInvInit == LauncherInit => LauncherInv
<1>. SUFFICES ASSUME LauncherInit  PROVE LauncherInv  OBVIOUS
<1>1. run \in [Launchers -> Process] /\ \A l \in Launchers : run[l] = Off
  BY DEF LauncherInit, Off, Process, Pcs, Works, Results
<1>2. LauncherTypeOK  BY <1>1, LauncherAssumption DEF LauncherInit, LauncherTypeOK
<1>3. Housed  BY <1>1, NamesOfSteps DEF Housed, Sound, Off, Handling
<1>4. LockInv  BY <1>1 DEF LockInv, Past, Off
<1>5. AgreedInv  BY <1>1 DEF LauncherInit, AgreedInv, Removing, Uninstalling, Off
<1>6. DownInv  BY <1>1 DEF LauncherInit, DownInv, Built, Off
<1>. QED  BY <1>2, <1>3, <1>4, <1>5, <1>6 DEF LauncherInv

\* A user who puts a folder somewhere ends what was agreed to lose there.
LEMMA UserKeepsInv ==
  ASSUME LauncherInv, NEW d \in Dirs, NEW e \in Dirs, UserUnpacks(d) \/ UserMoves(d, e)
  PROVE  LauncherInv' /\ (UserActs \/ OnlyAgreed)
<1>. USE DEF LauncherInv
<1>1. /\ UNCHANGED <<lock, files, docker, run>> /\ Spends
      /\ lOdd' \subseteq lOdd \cup {"moved", "pulled"} /\ lOdd \subseteq lOdd'
      /\ \E x \in Dirs : Anew({x}, {})
  BY DEF UserUnpacks, UserMoves
<1>2. disk' \in [Dirs -> {"none", "stub", "part", "whole"}]
  BY DEF UserUnpacks, UserMoves, LauncherTypeOK
<1>3. /\ agreed' \in [dirs : SUBSET Dirs, data : SUBSET Dirs, late : BOOLEAN]
      /\ agreed'.data = agreed.data /\ (agreed'.late <=> agreed.late \/ pending # Absent)
  <2>1. PICK x \in Dirs : Anew({x}, {})  BY <1>1
  <2>2. {x} \in SUBSET Dirs /\ {} \in SUBSET Dirs  OBVIOUS
  <2>3. /\ agreed' \in [dirs : SUBSET Dirs, data : SUBSET Dirs, late : BOOLEAN]
        /\ agreed'.data = agreed.data \ {}
        /\ agreed'.late <=> agreed.late \/ (pending # Absent /\ {x} \cup {} # {})
    BY <2>1, <2>2, PutAnew
  <2>. QED  BY <2>3
<1>4. LauncherTypeOK'  BY <1>1, <1>2, <1>3, Counted DEF LauncherTypeOK, files, docker, Odds
<1>5. Housed' /\ LockInv'  BY <1>1 DEF Housed, LockInv, Past
<1>6. AgreedInv'  BY <1>1, <1>3 DEF AgreedInv, files, docker
<1>7. DownInv'
  <2>1. CASE UserUnpacks(d)
    <3>1. \A x \in Dirs : disk[x] = "whole" => disk'[x] = "whole"  BY <2>1 DEF UserUnpacks, LauncherTypeOK
    <3>2. \A l \in Launchers : Built(l) => run[l].dir \in Dirs  BY DEF Built, Housed, Sound, Handling
    <3>. QED  BY <1>1, <3>1, <3>2 DEF DownInv, Built, Holds, docker, Mishaps
  <2>2. CASE UserMoves(d, e) /\ \A l \in Launchers : At(l, "off")
    BY <1>1, <2>2 DEF DownInv, Built, Holds, Keeps, docker, At, Mishaps, Housed, Sound
  <2>3. CASE UserMoves(d, e) /\ ~\A l \in Launchers : At(l, "off")
    BY <2>3 DEF UserMoves, DownInv, Mishaps
  <2>. QED  BY <2>1, <2>2, <2>3
<1>8. UserActs \/ OnlyAgreed
  <2>1. CASE UserUnpacks(d)  BY <2>1 DEF UserUnpacks, OnlyAgreed, LauncherTypeOK, docker
  <2>2. CASE UserMoves(d, e)  BY <2>2 DEF UserActs
  <2>. QED  BY <2>1, <2>2
<1>. QED  BY <1>4, <1>5, <1>6, <1>7, <1>8

LEMMA LauncherInvStep ==
  ASSUME LauncherInv, [LauncherNext]_launcherVars
  PROVE  LauncherInv' /\ [RemovalWasAgreed]_launcherVars
<1>1. CASE \E l \in Launchers : ActsOf(l)
  <2>1. PICK l \in Launchers : ActsOf(l)  BY <1>1
  <2>2. LauncherTypeOK' /\ Housed'  BY <2>1, LauncherStaysTyped, LauncherStaysHoused DEF LauncherInv
  <2>3. LockInv'  BY <2>1, LockStays DEF LauncherInv
  <2>4. AgreedInv' /\ RemovalWasAgreed  BY <2>1, AgreedStays DEF LauncherInv, RemovalWasAgreed
  <2>5. DownInv'  BY <2>1, DownStays DEF LauncherInv
  <2>. QED  BY <2>2, <2>3, <2>4, <2>5 DEF LauncherInv
<1>2. CASE \E d \in Dirs : UserUnpacks(d) \/ \E e \in Dirs : UserMoves(d, e)
  <2>1. PICK d \in Dirs, e \in Dirs : UserUnpacks(d) \/ UserMoves(d, e)  BY <1>2
  <2>. QED  BY <2>1, UserKeepsInv DEF RemovalWasAgreed
<1>3. CASE UNCHANGED launcherVars
  BY <1>3 DEF launcherVars, files, docker, LauncherInv, LauncherTypeOK, Housed, LockInv, Past, AgreedInv, DownInv,
              Holds, Built
<1>. QED  BY <1>1, <1>2, <1>3 DEF LauncherNext, ActsOf

\* What the invariant says when no launcher is at work, and of those past the
\* lock.
LEMMA LauncherInvSays ==
  ASSUME LauncherInv
  PROVE  OneLauncher /\ StoppedIsDown
<1>1. OneLauncher  BY DEF LauncherInv, LockInv, OneLauncher, PastLock, Past
<1>2. StoppedIsDown
  BY DEF LauncherInv, DownInv, Mishaps, StoppedIsDown, NoneRuns, Holds, Keeps, At, Housed, Sound
<1>. QED  BY <1>1, <1>2

\* The launcher of MCShell keeps its invariant, whoever is observed.
LEMMA ShellLauncherStep ==
  ASSUME at = "launcher" => LauncherInv, [ShellNext]_shellVars
  PROVE  /\ at' = "launcher" => LauncherInv'
         /\ [at = "launcher" => RemovalWasAgreed]_shellVars
<1>1. CASE ByHub /\ HubNext  BY <1>1 DEF ByHub
<1>2. CASE ByLauncher /\ LauncherNext
  <2>1. LauncherInv' /\ [RemovalWasAgreed]_launcherVars  BY <1>2, LauncherInvStep DEF ByLauncher
  <2>2. launcherVars' = launcherVars => shellVars' = shellVars  BY <1>2 DEF ByLauncher, shellVars
  <2>. QED  BY <2>1, <2>2
<1>3. CASE UNCHANGED shellVars
  <2>1. at' = at /\ UNCHANGED launcherVars  BY <1>3 DEF shellVars
  <2>. QED  BY <1>3, <2>1, LauncherInvStep
<1>. QED  BY <1>1, <1>2, <1>3 DEF ShellNext

LEMMA ShellLauncherInit == ShellInit => (at = "launcher" => LauncherInv)
BY LauncherInvInit DEF ShellInit

LEMMA ShellLauncherInv == ShellSpec => [](at = "launcher" => LauncherInv)
<1>1. (at = "launcher" => LauncherInv) /\ [ShellNext]_shellVars => (at = "launcher" => LauncherInv)'
  BY ShellLauncherStep
<1>. QED  BY <1>1, ShellLauncherInit, PTL DEF ShellSpec

\* What the launcher, its files, the hub and its hooks hold is always of its
\* type (__main__.py, lockfile.py, manifest.py; websocket.py, useWebSocket.ts).
THEOREM ShellTyped == ShellSpec => []ShellTypeOK
<1>1. (at = "hub" => HubInv) /\ (at = "launcher" => LauncherInv) => ShellTypeOK
  BY DEF HubInv, LauncherInv, ShellTypeOK
<1>. QED  BY <1>1, ShellHubInv, ShellLauncherInv, PTL

\* At most one launcher gets past the lock unless two found it free together;
\* and whatever way the last one ended by itself or by its Stop button, it left
\* no containers running (__main__.py:56-75, :749-754).
THEOREM OneAtATime == ShellSpec => []OneLauncherOrNone
<1>1. (at = "launcher" => LauncherInv) => OneLauncherOrNone
  BY LauncherInvSays DEF OneLauncherOrNone
<1>. QED  BY <1>1, ShellLauncherInv, PTL

\* No step of any launcher, and no crash in the middle of one, removes a folder or
\* a volume that the user did not agree to lose (__main__.py:566-580).
THEOREM RemovesOnlyAgreed == ShellSpec => OnlyAgreedIsRemoved
<1>1. (at = "launcher" => LauncherInv) /\ [ShellNext]_shellVars => [at = "launcher" => RemovalWasAgreed]_shellVars
  BY ShellLauncherStep
<1>. QED  BY <1>1, ShellLauncherInv, PTL DEF ShellSpec, OnlyAgreedIsRemoved

-----------------------------------------------------------------------------
(* What becomes of a removal and of an installation that is broken off     *)

\* What is gone of what the user agreed to lose, but for the folders of D.
GoneBut(D) == \A d \in agreed.dirs \ D : disk[d] = "none" /\ d \notin up /\ manifest # d

\* The steps that a launcher has behind it, by where it is.
DockerSteps == {"compose_down", "remove_volumes", "remove_images"}
ByWorker(w) ==
  CASE w = "compose_down"   -> {}
    [] w = "remove_volumes" -> {"compose_down"}
    [] w = "remove_images"  -> {"compose_down", "remove_volumes"}
    [] OTHER                -> DockerSteps
Behind(pc, w, todo) ==
  CASE pc = "uninstalling"       -> ByWorker(w)
    [] pc = "removing"           -> DockerSteps
    [] pc = "tidy"               -> DockerSteps \cup {"rmtree"}
    [] pc \in {"legacy", "last"} -> StepNames
    [] pc = "retry"              -> StepNames \ todo
    [] OTHER                     -> {}

\* A step that is written down has had its effect, and still has it.
HasEffect(s) ==
  CASE s = "compose_down"    -> pending.dir \notin up
    [] s = "remove_volumes"  -> agreed.data \cap data = {}
    [] s = "rmtree"          -> disk[pending.dir] = "none"
    [] s = "delete_manifest" -> manifest # pending.dir
    [] OTHER                 -> TRUE

\* Before a removal and after it nothing is left of what was agreed to lose, and
\* nobody is about to give such a folder a manifest.
NothingLeft ==
  /\ GoneBut({}) /\ agreed.data \cap data = {}
  /\ \A l \in Launchers : Working(l, "installing", "manifest") => run[l].dir \notin agreed.dirs

\* While one is pending only it, or its retry, is at work, and what it has behind
\* it is written down.
Before == {"off", "check", "free", "locked"}
Underway ==
  /\ GoneBut({pending.dir}) /\ \A s \in pending.done : HasEffect(s)
  /\ \A l \in Launchers :
       /\ run[l].pc \in Before \cup Removing
       /\ Behind(run[l].pc, run[l].w, run[l].todo) \subseteq pending.done
       /\ run[l].pc \in Uninstalling =>
            IF run[l].pc = "uninstalling" THEN run[l].w \in DockerSteps \cup {"ended"} ELSE run[l].w = "ended"

Lapses == {"raced", "failed", "closed"}
CarriedInv ==
  lOdd \cap Lapses = {} /\ ~agreed.late =>
    /\ pending = Absent => NothingLeft
    /\ pending # Absent => Underway

-----------------------------------------------------------------------------
(* Lemmas                                                                  *)

\* Something is put into folders dirs, volumes vols appear, folders torn lose
\* something, and what is whole stays so else.
Puts(dirs, vols, torn) ==
  /\ agreed'.dirs = agreed.dirs \ dirs /\ agreed'.data = agreed.data \ vols
  /\ agreed'.late <=> agreed.late \/ (pending # Absent /\ dirs \cup vols # {})
  /\ \A d \in Dirs \ (dirs \cup torn) : disk'[d] = disk[d]
  /\ \A d \in Dirs \ dirs : disk[d] = "none" => disk'[d] = "none"
  /\ \A d \in Dirs \ torn : disk[d] = "whole" => disk'[d] = "whole"
  /\ up \subseteq up' /\ up' \subseteq up \cup vols /\ data' \subseteq data \cup vols
  /\ \A d \in vols : disk[d] # "none"

LEMMA UpPuts ==
  ASSUME LauncherTypeOK, NEW d \in Dirs, NEW ok \in BOOLEAN, NEW dirs \in SUBSET Dirs, NEW torn \in SUBSET Dirs,
         Upped(d, ok), Anew(dirs, IF ok THEN {d} ELSE {}),
         \A e \in Dirs \ (dirs \cup torn) : disk'[e] = disk[e],
         \A e \in Dirs \ dirs : disk[e] = "none" => disk'[e] = "none",
         \A e \in Dirs \ torn : disk[e] = "whole" => disk'[e] = "whole"
  PROVE  Puts(dirs, IF ok THEN {d} ELSE {}, torn)
<1>. DEFINE vols == IF ok THEN {d} ELSE {}
<1>1. vols \in SUBSET Dirs /\ Anew(dirs, vols)  OBVIOUS
<1>2. \A e \in vols : disk[e] # "none"  BY DEF Upped, Valid
<1>3. up \subseteq up' /\ up' \subseteq up \cup vols /\ data' \subseteq data \cup vols  BY DEF Upped
<1>. HIDE DEF vols
<1>4. Puts(dirs, vols, torn)  BY <1>1, <1>2, <1>3, PutAnew DEF Puts
<1>. QED  BY <1>4 DEF vols

\* What may be put somewhere, or lost, if a launcher is broken off.
LEMMA BrokenOffPuts ==
  ASSUME LauncherTypeOK, Housed, NEW l \in Launchers, BrokenOff(l)
  PROVE  \E dirs, vols, torn \in SUBSET Dirs :
           /\ Puts(dirs, vols, torn) /\ dirs \cup vols \cup torn \subseteq {run[l].dir}
           /\ dirs # {} => run[l].w = "unpack"
           /\ vols # {} => run[l].w \in {"build", "up"}
           /\ torn # {} => run[l].pc \in {"removing", "retry"}
<1>. DEFINE r == run[l]
            unpacks == r.w = "unpack"
            removes == r.pc = "removing" \/ (r.pc = "retry" /\ "rmtree" \in r.todo)
<1>1. CASE r.dir = Absent
  <2>1. UNCHANGED <<disk, up, data, agreed>>  BY <1>1 DEF BrokenOff, docker
  <2>2. Puts({}, {}, {})  BY <2>1 DEF Puts, LauncherTypeOK
  <2>3. {} \in SUBSET Dirs /\ {} \cup {} \cup {} \subseteq {r.dir}  OBVIOUS
  <2>. QED  BY <2>2, <2>3
<1>2. CASE r.dir # Absent
  <2>1. r.dir \in Dirs  BY <1>2, Fields DEF LauncherTypeOK
  <2>2. PICK x \in IF unpacks THEN Unfinished(r.dir) ELSE IF removes THEN Torn(r.dir) \cup {"none"} ELSE {disk[r.dir]},
             ok \in BOOLEAN :
               /\ ok => r.w \in {"build", "up"}
               /\ disk' = [disk EXCEPT ![r.dir] = x] /\ Upped(r.dir, ok)
               /\ Anew(IF unpacks THEN {r.dir} ELSE {}, IF ok THEN {r.dir} ELSE {})
    BY <1>2 DEF BrokenOff
  <2>. DEFINE dirs == IF unpacks THEN {r.dir} ELSE {}
              vols == IF ok THEN {r.dir} ELSE {}
              torn == IF ~unpacks /\ removes THEN {r.dir} ELSE {}
  <2>3. /\ ~unpacks /\ ~removes => x = disk[r.dir]
        /\ ~unpacks /\ disk[r.dir] = "none" => x = "none"
        /\ ~(~unpacks /\ removes) /\ disk[r.dir] = "whole" => x = "whole"
    BY <2>2 DEF Unfinished, Torn
  <2>4. dirs \in SUBSET Dirs /\ vols \in SUBSET Dirs /\ torn \in SUBSET Dirs
        /\ dirs \cup vols \cup torn \subseteq {r.dir}
    BY <2>1
  <2>5. /\ \A e \in Dirs \ (dirs \cup torn) : disk'[e] = disk[e]
        /\ \A e \in Dirs \ dirs : disk[e] = "none" => disk'[e] = "none"
        /\ \A e \in Dirs \ torn : disk[e] = "whole" => disk'[e] = "whole"
    BY <2>1, <2>2, <2>3 DEF LauncherTypeOK
  <2>6. Upped(r.dir, ok) /\ Anew(dirs, IF ok THEN {r.dir} ELSE {})  BY <2>2
  <2>7. (dirs # {} => unpacks) /\ (vols # {} => ok) /\ (torn # {} => removes)  OBVIOUS
  <2>. HIDE DEF dirs, torn, unpacks, removes
  <2>8. Puts(dirs, IF ok THEN {r.dir} ELSE {}, torn)  BY <2>1, <2>4, <2>5, <2>6, UpPuts
  <2>9. vols # {} => r.w \in {"build", "up"}  BY <2>2, <2>7
  <2>10. Puts(dirs, vols, torn)  BY <2>8
  <2>. HIDE DEF vols
  <2>. QED  BY <2>4, <2>7, <2>9, <2>10 DEF removes, unpacks
<1>. QED  BY <1>1, <1>2

\* Nothing comes back of what is gone, if what is put somewhere is no longer what
\* was agreed to lose.
Kept ==
  /\ agreed'.dirs \subseteq agreed.dirs
  /\ \A d \in agreed'.dirs : disk[d] = "none" /\ d \notin up => disk'[d] = "none" /\ d \notin up'
  /\ agreed.data \cap data = {} => agreed'.data \cap data' = {}

LEMMA PutsKeeps ==
  ASSUME LauncherTypeOK, NEW dirs, NEW vols, NEW torn, Puts(dirs, vols, torn)
  PROVE  Kept
BY DEF Kept, Puts, LauncherTypeOK

-----------------------------------------------------------------------------
(* What was agreed to lose                                                 *)

\* With no removal pending.
LEMMA NothingComesBack ==
  ASSUME LauncherTypeOK, Housed, LockInv, AgreedInv, "raced" \notin lOdd, ~agreed.late, lOdd' \cap Lapses = {},
         pending = Absent, NothingLeft, NEW l \in Launchers, ActsOf(l), ~Uninstall(l)
  PROVE  NothingLeft' /\ pending' = Absent
<1>. DEFINE r == run[l]
            Named == manifest' \in Dirs => manifest' = manifest \/ disk[manifest'] # "none" \/ manifest' \notin agreed.dirs
            Waits == run'[l].pc = "installing" /\ run'[l].w = "manifest" => run'[l].dir \notin agreed'.dirs
<1>0. run \in [Launchers -> Process] /\ Sound(r.pc, r.w, r.dir, r.res) /\ agreed.dirs \subseteq Dirs
  BY DEF Housed, LauncherTypeOK
<1>1. r.pc \notin Removing  BY DEF AgreedInv
<1>2. SUFFICES Kept /\ OthersStay(l) /\ pending' = Absent /\ Named /\ Waits
  BY DEF NothingLeft, GoneBut, Kept, OthersStay, Working, LauncherTypeOK
<1>a. \A why \in Lapses, ok \in BOOLEAN : Outcome(ok, why) => ok  BY DEF Outcome, Lapses
<1>b. "failed" \in Lapses /\ "closed" \in Lapses  BY DEF Lapses
<1>c. UNCHANGED <<disk, up, data, agreed>> => Kept  BY DEF Kept
<1>3. ASSUME Start(l)  PROVE Kept /\ OthersStay(l) /\ pending' = Absent /\ Named /\ Waits
  <2>1. MainTo(l, "check")
    BY <1>3, Courses
  <2>2. UNCHANGED <<pending, disk, up, data, agreed, manifest>> /\ At(l, "off")  BY <1>3 DEF Start, files, docker, At, Working
  <2>. QED  BY <1>0, <1>c, <2>1, <2>2 DEF OthersStay, Turns, MainTo, WorkerTo, WorkerEnds, Ends, At, Working, Sound
<1>4. ASSUME CheckLock(l)  PROVE Kept /\ OthersStay(l) /\ pending' = Absent /\ Named /\ Waits
  <2>1. Ends(l) \/ MainTo(l, "free")
    BY <1>4, Courses
  <2>2. UNCHANGED <<pending, disk, up, data, agreed, manifest>> /\ At(l, "check")  BY <1>4 DEF CheckLock, AlreadyRunning, Odds, files, docker, At, Working
  <2>. QED  BY <1>0, <1>c, <2>1, <2>2 DEF OthersStay, Turns, MainTo, WorkerTo, WorkerEnds, Ends, At, Working, Sound
<1>5. ASSUME WriteLock(l)  PROVE Kept /\ OthersStay(l) /\ pending' = Absent /\ Named /\ Waits
  <2>1. MainTo(l, "locked")
    BY <1>5, Courses
  <2>2. UNCHANGED <<pending, disk, up, data, agreed, manifest>> /\ At(l, "free")  BY <1>5 DEF WriteLock, files, docker, At, Working
  <2>. QED  BY <1>0, <1>c, <2>1, <2>2 DEF OthersStay, Turns, MainTo, WorkerTo, WorkerEnds, Ends, At, Working, Sound
<1>6. ASSUME CheckDocker(l)  PROVE Kept /\ OthersStay(l) /\ pending' = Absent /\ Named /\ Waits
  <2>1. Ends(l) \/ MainTo(l, "locate")
    BY <1>6, Courses
  <2>2. UNCHANGED <<pending, disk, up, data, agreed, manifest>> /\ At(l, "docker")  BY <1>6 DEF CheckDocker, Exits, files, docker, At, Working
  <2>. QED  BY <1>0, <1>c, <2>1, <2>2 DEF OthersStay, Turns, MainTo, WorkerTo, WorkerEnds, Ends, At, Working, Sound
<1>7. ASSUME NEW d \in Dirs, Pick(l, d)  PROVE Kept /\ OthersStay(l) /\ pending' = Absent /\ Named /\ Waits
  <2>1. Turns(l, "env", r.w, d, r.todo, r.res)
    BY <1>7, Courses
  <2>2. UNCHANGED <<pending, disk, up, data, agreed, manifest>> /\ At(l, "picker")  BY <1>7 DEF Pick, files, docker, At, Working
  <2>. QED  BY <1>0, <1>c, <2>1, <2>2 DEF OthersStay, Turns, MainTo, WorkerTo, WorkerEnds, Ends, At, Working, Sound
<1>8. ASSUME Declines(l)  PROVE Kept /\ OthersStay(l) /\ pending' = Absent /\ Named /\ Waits
  <2>1. Ends(l)
    BY <1>8, Courses
  <2>2. UNCHANGED <<pending, disk, up, data, agreed, manifest>>  BY <1>8 DEF Declines, Exits, files, docker, At, Working
  <2>. QED  BY <1>0, <1>c, <2>1, <2>2 DEF OthersStay, Turns, MainTo, WorkerTo, WorkerEnds, Ends, At, Working, Sound
<1>9. ASSUME NEW d \in Dirs, Install(l, d)  PROVE Kept /\ OthersStay(l) /\ pending' = Absent /\ Named /\ Waits
  <2>1. Turns(l, "installing", "get", d, r.todo, r.res)
    BY <1>9, Courses
  <2>2. UNCHANGED <<pending, disk, up, data, agreed, manifest>> /\ At(l, "prompt")  BY <1>9 DEF Install, files, docker, At, Working
  <2>. QED  BY <1>0, <1>c, <2>1, <2>2 DEF OthersStay, Turns, MainTo, WorkerTo, WorkerEnds, Ends, At, Working, Sound
<1>10. ASSUME NEW ok \in BOOLEAN, Download(l, ok)  PROVE Kept /\ OthersStay(l) /\ pending' = Absent /\ Named /\ Waits
  <2>1. IF ok THEN WorkerTo(l, "unpack") ELSE WorkerEnds(l, "error")
    BY <1>10, Courses
  <2>2. UNCHANGED <<pending, disk, up, data, agreed, manifest>> /\ Working(l, "installing", "get")  BY <1>10 DEF Download, Odds, files, docker, At, Working
  <2>. QED  BY <1>0, <1>c, <2>1, <2>2 DEF OthersStay, Turns, MainTo, WorkerTo, WorkerEnds, Ends, At, Working, Sound
<1>11. ASSUME WriteLegacy(l)  PROVE Kept /\ OthersStay(l) /\ pending' = Absent /\ Named /\ Waits
  <2>1. WorkerTo(l, "build")
    BY <1>11, Courses
  <2>2. UNCHANGED <<pending, disk, up, data, agreed, manifest>> /\ Working(l, "installing", "legacy")  BY <1>11 DEF WriteLegacy, files, docker, At, Working
  <2>. QED  BY <1>0, <1>c, <2>1, <2>2 DEF OthersStay, Turns, MainTo, WorkerTo, WorkerEnds, Ends, At, Working, Sound
<1>12. ASSUME EnsureEnv(l)  PROVE Kept /\ OthersStay(l) /\ pending' = Absent /\ Named /\ Waits
  <2>1. Ends(l) \/ Turns(l, "running", "up", r.dir, r.todo, "none")
    BY <1>12, Courses
  <2>2. UNCHANGED <<pending, disk, up, data, agreed, manifest>> /\ At(l, "env")  BY <1>12 DEF EnsureEnv, Exits, files, docker, At, Working
  <2>. QED  BY <1>0, <1>c, <2>1, <2>2 DEF OthersStay, Turns, MainTo, WorkerTo, WorkerEnds, Ends, At, Working, Sound
<1>13. ASSUME Healthy(l)  PROVE Kept /\ OthersStay(l) /\ pending' = Absent /\ Named /\ Waits
  <2>1. WorkerTo(l, "none")
    BY <1>13, Courses
  <2>2. UNCHANGED <<pending, disk, up, data, agreed, manifest>> /\ Working(l, "running", "health")  BY <1>13 DEF Healthy, files, docker, At, Working
  <2>. QED  BY <1>0, <1>c, <2>1, <2>2 DEF OthersStay, Turns, MainTo, WorkerTo, WorkerEnds, Ends, At, Working, Sound
<1>14. ASSUME ReadPending(l)  PROVE Kept /\ OthersStay(l) /\ pending' = Absent /\ Named /\ Waits
  <2>1. MainTo(l, "docker")  BY <1>14, Courses
  <2>2. UNCHANGED <<pending, disk, up, data, agreed, manifest>>  BY <1>14 DEF ReadPending, files, docker
  <2>. QED  BY <1>0, <1>c, <2>1, <2>2 DEF OthersStay, Turns, MainTo
<1>15. ASSUME Locate(l)  PROVE Kept /\ OthersStay(l) /\ pending' = Absent /\ Named /\ Waits
  <2>1. UNCHANGED <<pending, disk, up, data, agreed>> /\ r.pc = "locate"  BY <1>15 DEF Locate, docker, At
  <2>2. CASE manifest' = manifest
    <3>1. \/ MainTo(l, "picker") \/ MainTo(l, "prompt")
          \/ \E d \in Dirs : Turns(l, "env", r.w, d, r.todo, r.res)
      BY <1>15, Courses
    <3>. QED  BY <1>c, <2>1, <2>2, <3>1 DEF OthersStay, Turns, MainTo
  <2>3. CASE manifest' # manifest
    <3>1. \E d \in Dirs : Valid(d) /\ manifest' = d /\ Turns(l, "env", r.w, d, r.todo, r.res)
      <4>1. manifest' = Remembered /\ Valid(Remembered) /\ run' = [run EXCEPT ![l].pc = "env", ![l].dir = Remembered]
        BY <1>15, <2>3 DEF Locate
      <4>2. Remembered \in Dirs  BY LauncherAssumption DEF Remembered, LauncherTypeOK
      <4>3. Turns(l, "env", r.w, Remembered, r.todo, r.res)  BY <4>1, <4>2, TurnsTo DEF Pcs
      <4>. QED  BY <4>1, <4>2, <4>3
    <3>. QED  BY <1>c, <2>1, <3>1 DEF OthersStay, Turns, Valid
  <2>. QED  BY <2>2, <2>3
<1>16. ASSUME WriteManifest(l)  PROVE Kept /\ OthersStay(l) /\ pending' = Absent /\ Named /\ Waits
  <2>1. WorkerTo(l, "legacy")  BY <1>16, Courses
  <2>2. /\ UNCHANGED <<pending, disk, up, data, agreed>> /\ Working(l, "installing", "manifest")
        /\ manifest' = r.dir
    BY <1>16 DEF WriteManifest, docker
  <2>3. manifest' \notin agreed.dirs  BY <2>2 DEF NothingLeft
  <2>. QED  BY <1>c, <2>1, <2>2, <2>3 DEF OthersStay, Turns, WorkerTo
<1>17. ASSUME NEW ok \in BOOLEAN, Unpack(l, ok)  PROVE Kept /\ OthersStay(l) /\ pending' = Absent /\ Named /\ Waits
  <2>1. IF ok THEN WorkerTo(l, "manifest") ELSE WorkerEnds(l, "none")  BY <1>17, Courses
  <2>2. UNCHANGED <<pending, up, data, manifest>> /\ Working(l, "installing", "unpack") /\ Anew({r.dir}, {})
    BY <1>17 DEF Unpack, files, docker
  <2>3. r.dir \in Dirs  BY <1>0, <2>2 DEF Working, Sound, Handling
  <2>4. agreed'.dirs = agreed.dirs \ {r.dir} /\ agreed'.data = agreed.data
    <3>1. {r.dir} \in SUBSET Dirs /\ {} \in SUBSET Dirs  BY <2>3
    <3>2. agreed'.dirs = agreed.dirs \ {r.dir} /\ agreed'.data = agreed.data \ {}  BY <2>2, <3>1, PutAnew
    <3>. QED  BY <3>2
  <2>5. \A d \in Dirs \ {r.dir} : disk'[d] = disk[d]  BY <1>17, <2>3 DEF Unpack, LauncherTypeOK
  <2>6. Kept  BY <1>0, <2>2, <2>4, <2>5 DEF Kept
  <2>. QED  BY <2>1, <2>2, <2>4, <2>6 DEF OthersStay, Turns, WorkerTo, WorkerEnds
<1>18. ASSUME NEW ok \in BOOLEAN, Build(l, ok)  PROVE Kept /\ OthersStay(l) /\ pending' = Absent /\ Named /\ Waits
  <2>1. WorkerEnds(l, IF ok THEN "ok" ELSE "error")
    BY <1>18, Courses
  <2>2. UNCHANGED <<pending, disk, manifest>> /\ Working(l, "installing", "build") /\ Upped(r.dir, ok) /\ Anew({}, IF ok THEN {r.dir} ELSE {})
    BY <1>18 DEF Build, files
  <2>3. r.dir \in Dirs  BY <1>0, <2>2 DEF Working, Sound, Handling
  <2>4. Kept
    <3>1. {} \in SUBSET Dirs  OBVIOUS
    <3>2. Puts({}, IF ok THEN {r.dir} ELSE {}, {})  BY <2>2, <2>3, <3>1, UpPuts
    <3>. QED  BY <3>2, PutsKeeps
  <2>. QED  BY <2>1, <2>2, <2>4 DEF OthersStay, Turns, WorkerTo, WorkerEnds, Ends, Working
<1>19. ASSUME NEW ok \in BOOLEAN, ComposeUp(l, ok)  PROVE Kept /\ OthersStay(l) /\ pending' = Absent /\ Named /\ Waits
  <2>1. IF ok THEN WorkerTo(l, "health") ELSE Ends(l)
    BY <1>19, Courses
  <2>2. UNCHANGED <<pending, disk, manifest>> /\ Working(l, "running", "up") /\ Upped(r.dir, ok) /\ Anew({}, IF ok THEN {r.dir} ELSE {})
    BY <1>19 DEF ComposeUp, files
  <2>3. r.dir \in Dirs  BY <1>0, <2>2 DEF Working, Sound, Handling
  <2>4. Kept
    <3>1. {} \in SUBSET Dirs  OBVIOUS
    <3>2. Puts({}, IF ok THEN {r.dir} ELSE {}, {})  BY <2>2, <2>3, <3>1, UpPuts
    <3>. QED  BY <3>2, PutsKeeps
  <2>. QED  BY <2>1, <2>2, <2>4 DEF OthersStay, Turns, WorkerTo, WorkerEnds, Ends, Working
<1>20. ASSUME NEW ok \in BOOLEAN, Stop(l, ok)  PROVE Kept /\ OthersStay(l) /\ pending' = Absent /\ Named /\ Waits
  <2>1. Ends(l) /\ UNCHANGED <<pending, disk, data, agreed, manifest>> /\ up' \subseteq up
    BY <1>20, Courses DEF Stop, ShutsDown, Downed, files
  <2>. QED  BY <2>1 DEF Kept, OthersStay, Turns, Ends
<1>21. ASSUME CloseInstall(l)  PROVE Kept /\ OthersStay(l) /\ pending' = Absent /\ Named /\ Waits
  <2>1. UNCHANGED <<pending, manifest>> /\ IF r.res = "ok" THEN MainTo(l, "env") ELSE Ends(l)
    BY <1>21, Courses DEF CloseInstall, files
  <2>2. Kept
    <3>1. CASE r.res = "ok"  BY <1>21, <1>c, <3>1 DEF CloseInstall, docker
    <3>2. CASE r.res # "ok"
      <4>1. BrokenOff(l)  BY <1>21, <3>2 DEF CloseInstall
      <4>. QED  BY <4>1, BrokenOffPuts, PutsKeeps
    <3>. QED  BY <3>1, <3>2
  <2>. QED  BY <2>1, <2>2 DEF OthersStay, Turns, MainTo, Ends
<1>22. ASSUME CloseWindow(l)  PROVE Kept /\ OthersStay(l) /\ pending' = Absent /\ Named /\ Waits
  BY <1>22, <1>a, <1>b DEF CloseWindow
<1>23. ASSUME Crash(l)  PROVE Kept /\ OthersStay(l) /\ pending' = Absent /\ Named /\ Waits
  <2>1. UNCHANGED <<pending, manifest>> /\ Ends(l) /\ (BrokenOff(l) \/ Unrecorded(l))
    BY <1>23, Courses DEF Crash, files
  <2>2. CASE BrokenOff(l)
    <3>1. Kept  BY <2>2, BrokenOffPuts, PutsKeeps
    <3>. QED  BY <2>1, <3>1 DEF OthersStay, Turns, Ends
  <2>3. CASE Unrecorded(l)
    <3>1. r.w \in {"compose_down", "remove_volumes", "remove_images"}
      BY <1>1, <2>3, DockerDoes DEF Unrecorded, Removing
    <3>2. r.pc \in Uninstalling  BY <1>0, <3>1, NamesOfSteps DEF Sound
    <3>. QED  BY <1>1, <3>2 DEF Removing
  <2>. QED  BY <2>1, <2>2, <2>3
<1>24. ~RetryEnds(l) /\ ~DeleteManifest(l) /\ ~ForgetFolder(l) /\ ~DeletePending(l) /\ ~CloseUninstall(l)
  BY <1>1 DEF Removing, Uninstalling, At, RetryEnds, DeleteManifest, ForgetFolder, DeletePending, CloseUninstall
<1>25. \A how \in Hows : ~Retry(l, how) /\ ~RemoveInstall(l, how)
  BY <1>1 DEF Removing, Uninstalling, At, Retry, RemoveInstall
<1>26. \A how \in Hows : ~UninstallStep(l, how)
  BY <1>1 DEF Removing, Uninstalling, UninstallStep
<1>. QED
  BY <1>3, <1>4, <1>5, <1>6, <1>7, <1>8, <1>9, <1>10, <1>11, <1>12, <1>13, <1>14, <1>15, <1>16, <1>17, <1>18, <1>19, <1>20, <1>21, <1>22, <1>23, <1>24, <1>25, <1>26 DEF ActsOf, LauncherStep

\* What is taken away leaves everything that had an effect as it is.
Less ==
  /\ agreed'.dirs = agreed.dirs /\ agreed'.data = agreed.data
  /\ up' \subseteq up /\ data' \subseteq data /\ manifest' \in {manifest, Absent}
  /\ \A d \in Dirs : disk[d] = "none" => disk'[d] = "none"

LEMMA EffectsStay ==
  ASSUME LauncherTypeOK, pending # Absent, Less, pending' # Absent => pending'.dir = pending.dir
  PROVE  /\ \A D : GoneBut(D) => (\A d \in agreed'.dirs \ D : disk'[d] = "none" /\ d \notin up' /\ manifest' # d)
         /\ pending' # Absent => \A s \in StepNames : HasEffect(s) => HasEffect(s)'
<1>1. pending.dir \in Dirs /\ pending.dir # Absent /\ agreed.dirs \subseteq Dirs
  BY LauncherAssumption DEF LauncherTypeOK, Cleanup
<1>2. \A D : GoneBut(D) => (\A d \in agreed'.dirs \ D : disk'[d] = "none" /\ d \notin up' /\ manifest' # d)
  BY <1>1, LauncherAssumption DEF GoneBut, Less
<1>3. ASSUME pending' # Absent, NEW s \in StepNames, HasEffect(s)  PROVE HasEffect(s)'
  BY <1>1, <1>3, NamesOfSteps DEF HasEffect, Less
<1>. QED  BY <1>2, <1>3

\* A step that is done takes away, and has its effect.
LEMMA Performed ==
  ASSUME LauncherTypeOK, pending # Absent, NEW s, Performs(s, pending.dir, "done"), UNCHANGED agreed
  PROVE  Less /\ (pending' # Absent /\ pending'.dir = pending.dir => HasEffect(s)')
<1>0. pending.dir \in Dirs /\ pending.dir # Absent  BY LauncherAssumption DEF LauncherTypeOK, Cleanup
<1>1. CASE DockerStep(s, pending.dir, "done") /\ UNCHANGED <<manifest, disk>>
  BY <1>1 DEF Less, HasEffect, DockerStep, Downed, docker, LauncherTypeOK
<1>2. CASE s = "rmtree" /\ RemovesTree(pending.dir, "done") /\ UNCHANGED <<manifest, docker>>
  BY <1>0, <1>2 DEF Less, HasEffect, RemovesTree, docker, LauncherTypeOK
<1>3. CASE s = "delete_manifest" /\ manifest' = Absent /\ UNCHANGED <<disk, docker>>
  BY <1>0, <1>3 DEF Less, HasEffect, docker
<1>. QED  BY <1>1, <1>2, <1>3 DEF Performs

\* With one pending.
LEMMA GoesOnToItsEnd ==
  ASSUME LauncherTypeOK, Housed, LockInv, AgreedInv, "raced" \notin lOdd, ~agreed.late,
         lOdd' \cap Lapses = {}, ~agreed'.late,
         pending # Absent, Underway, NEW l \in Launchers, ActsOf(l)
  PROVE  CarriedInv'
<1>. DEFINE r == run[l]
            q == run'[l]
            Placed == /\ q.pc \in Before \cup Removing
                      /\ Behind(q.pc, q.w, q.todo) \subseteq pending'.done
                      /\ q.pc \in Uninstalling =>
                           IF q.pc = "uninstalling" THEN q.w \in DockerSteps \cup {"ended"} ELSE q.w = "ended"
<1>0. /\ run \in [Launchers -> Process] /\ Sound(r.pc, r.w, r.dir, r.res) /\ pending \in Cleanup
      /\ pending.dir \in Dirs /\ pending.done \in SUBSET StepNames /\ r.todo \in SUBSET StepNames
  BY Fields DEF Housed, LauncherTypeOK, Cleanup
<1>1. r.pc \in Removing => r.dir = pending.dir  BY DEF AgreedInv
<1>2. /\ r.pc \in Before \cup Removing /\ Behind(r.pc, r.w, r.todo) \subseteq pending.done
      /\ r.pc \in Uninstalling => IF r.pc = "uninstalling" THEN r.w \in DockerSteps \cup {"ended"} ELSE r.w = "ended"
      /\ GoneBut({pending.dir}) /\ \A s \in pending.done : HasEffect(s)
  BY DEF Underway
<1>a. \A why \in Lapses, ok \in BOOLEAN : Outcome(ok, why) => ok  BY DEF Outcome, Lapses
<1>b. "failed" \in Lapses /\ "closed" \in Lapses  BY DEF Lapses
<1>c. UNCHANGED <<disk, up, data, agreed, manifest>> => Less  BY DEF Less
\* The removal goes on.
<1>3. ASSUME OthersStay(l), Less, Placed, pending' # Absent, pending'.dir = pending.dir,
             pending.done \subseteq pending'.done,
             \A s \in pending'.done \ pending.done : s \in StepNames /\ HasEffect(s)'
      PROVE  CarriedInv'
  <2>1. /\ \A d \in agreed'.dirs \ {pending'.dir} : disk'[d] = "none" /\ d \notin up' /\ manifest' # d
        /\ \A s \in StepNames : HasEffect(s) => HasEffect(s)'
    BY <1>2, <1>3, EffectsStay
  <2>2. \A s \in pending'.done : HasEffect(s)'  BY <1>0, <1>2, <1>3, <2>1
  <2>3. \A k \in Launchers \ {l} : /\ run'[k].pc \in Before \cup Removing
                                   /\ Behind(run'[k].pc, run'[k].w, run'[k].todo) \subseteq pending'.done
                                   /\ run'[k].pc \in Uninstalling =>
                                        IF run'[k].pc = "uninstalling" THEN run'[k].w \in DockerSteps \cup {"ended"}
                                                                       ELSE run'[k].w = "ended"
    BY <1>3 DEF Underway, OthersStay
  <2>4. Underway'  BY <1>3, <2>1, <2>2, <2>3 DEF Underway, GoneBut
  <2>. QED  BY <1>3, <2>4 DEF CarriedInv
\* It is over.
<1>4. ASSUME OthersStay(l), Less, StepNames \subseteq pending.done, pending' = Absent, q.pc \notin {"installing"}
      PROVE  CarriedInv'
  <2>1. \A d \in agreed'.dirs \ {pending.dir} : disk'[d] = "none" /\ d \notin up' /\ manifest' # d
    BY <1>2, <1>4, EffectsStay
  <2>2. disk[pending.dir] = "none" /\ pending.dir \notin up /\ manifest # pending.dir /\ agreed.data \cap data = {}
    BY <1>2, <1>4, NamesOfSteps DEF HasEffect
  <2>3. disk'[pending.dir] = "none" /\ pending.dir \notin up' /\ manifest' # pending.dir /\ agreed'.data \cap data' = {}
    BY <1>0, <1>4, <2>2, LauncherAssumption DEF Less
  <2>4. \A k \in Launchers : run'[k].pc # "installing"
    BY <1>4 DEF Underway, OthersStay, Before, Removing, Uninstalling
  <2>5. NothingLeft'  BY <2>1, <2>3, <2>4 DEF NothingLeft, GoneBut, Working
  <2>. QED  BY <1>4, <2>5 DEF CarriedInv
<1>5. ASSUME Start(l)  PROVE CarriedInv'
  <2>1. MainTo(l, "check")
    BY <1>5, Courses
  <2>2. UNCHANGED <<pending, disk, up, data, agreed, manifest>>  BY <1>5 DEF Start, files, docker
  <2>. QED  BY <1>0, <1>3, <1>c, <2>1, <2>2 DEF OthersStay, Turns, MainTo, Ends, Behind, ByWorker, Before, Uninstalling
<1>6. ASSUME CheckLock(l)  PROVE CarriedInv'
  <2>1. Ends(l) \/ MainTo(l, "free")
    BY <1>6, Courses
  <2>2. UNCHANGED <<pending, disk, up, data, agreed, manifest>>  BY <1>6 DEF CheckLock, files, docker
  <2>. QED  BY <1>0, <1>3, <1>c, <2>1, <2>2 DEF OthersStay, Turns, MainTo, Ends, Behind, ByWorker, Before, Uninstalling
<1>7. ASSUME WriteLock(l)  PROVE CarriedInv'
  <2>1. MainTo(l, "locked")
    BY <1>7, Courses
  <2>2. UNCHANGED <<pending, disk, up, data, agreed, manifest>>  BY <1>7 DEF WriteLock, files, docker
  <2>. QED  BY <1>0, <1>3, <1>c, <2>1, <2>2 DEF OthersStay, Turns, MainTo, Ends, Behind, ByWorker, Before, Uninstalling
<1>8. ASSUME ReadPending(l)  PROVE CarriedInv'
  <2>1. Turns(l, "retry", r.w, pending.dir, StepNames \ pending.done, r.res)  BY <1>8, Courses
  <2>2. UNCHANGED <<pending, disk, up, data, agreed, manifest>>  BY <1>8 DEF ReadPending, files, docker
  <2>3. StepNames \ (StepNames \ pending.done) \subseteq pending.done  OBVIOUS
  <2>. QED  BY <1>0, <1>3, <1>c, <2>1, <2>2, <2>3 DEF OthersStay, Turns, Behind, ByWorker, Removing, Uninstalling
<1>9. ASSUME NEW how \in Hows, Retry(l, how)  PROVE CarriedInv'
  <2>. PICK s : s = First(r.todo)  OBVIOUS
  <2>1. /\ r.pc = "retry" /\ r.todo # {} /\ Performs(s, r.dir, how) /\ pending' = Updated(s, how # "failed")
        /\ Outcome(how = "done", "failed") /\ UNCHANGED agreed
    BY <1>9 DEF Retry, At, Recorded
  <2>2. s \in r.todo /\ s \in StepNames  BY <1>0, <2>1, FirstIsOne
  <2>3. Turns(l, "retry", r.w, r.dir, r.todo \ {s}, r.res)  BY <1>9, Courses
  <2>4. how = "done"  BY <1>a, <1>b, <2>1
  <2>5. Less /\ r.dir = pending.dir  BY <1>1, <2>1, <2>4, Performed DEF Removing
  <2>6. pending' # Absent /\ pending'.dir = pending.dir /\ pending'.done = pending.done \cup {s}
    BY <2>1, <2>2, <2>4, UpdatedIs
  <2>7. HasEffect(s)'  BY <2>1, <2>4, <2>5, <2>6, Performed
  <2>8. StepNames \ (r.todo \ {s}) \subseteq pending'.done  BY <1>2, <2>1, <2>6 DEF Behind, ByWorker
  <2>. QED  BY <1>3, <2>2, <2>3, <2>5, <2>6, <2>7, <2>8 DEF OthersStay, Turns, Behind, ByWorker, Removing, Uninstalling
<1>10. ASSUME RetryEnds(l)  PROVE CarriedInv'
  <2>1. Turns(l, "docker", "none", Absent, {}, "none") /\ UNCHANGED <<disk, up, data, agreed, manifest>>
    BY <1>10, Courses DEF RetryEnds, docker
  <2>2. r.pc = "retry" /\ r.todo = {}  BY <1>10 DEF RetryEnds, At
  <2>3. StepNames \subseteq pending.done  BY <1>2, <2>2 DEF Behind, ByWorker
  <2>4. pending.done = StepNames  BY <1>0, <2>3
  <2>5. pending' = Absent  BY <1>10, <2>4 DEF RetryEnds
  <2>. QED  BY <1>4, <1>c, <2>1, <2>3, <2>5 DEF OthersStay, Turns
<1>11. ASSUME NEW how \in Hows, UninstallStep(l, how)  PROVE CarriedInv'
  <2>. PICK w : w = r.w  OBVIOUS
  <2>1. /\ r.pc \in Uninstalling /\ DockerStep(w, r.dir, how) /\ pending' = Updated(w, how # "failed")
        /\ Outcome(how = "done", "failed") /\ UNCHANGED <<manifest, disk, agreed>>
    BY <1>11 DEF UninstallStep, Recorded, Uninstalling
  <2>2. how = "done"  BY <1>a, <1>b, <2>1
  <2>3. w \in DockerSteps  BY <2>1, DockerDoes DEF DockerSteps
  <2>4. r.pc = "uninstalling" /\ w \in StepNames  BY <1>2, <2>1, <2>3, NamesOfSteps DEF DockerSteps
  <2>5. WorkerTo(l, AfterStep(w))  BY <1>11, <2>4, Courses DEF At
  <2>6. Less /\ r.dir = pending.dir
    BY <1>1, <2>1, <2>2, <2>4, Performed DEF Removing, Uninstalling, Performs
  <2>7. pending' # Absent /\ pending'.dir = pending.dir /\ pending'.done = pending.done \cup {w}
    BY <2>1, <2>2, <2>4, UpdatedIs
  <2>8. HasEffect(w)'  BY <2>1, <2>2, <2>6, <2>7, Performed DEF Performs
  <2>9. /\ AfterStep(w) \in DockerSteps \cup {"ended"}
        /\ Behind("uninstalling", AfterStep(w), r.todo) \subseteq pending'.done
    BY <1>2, <2>3, <2>4, <2>7 DEF AfterStep, Behind, ByWorker, DockerSteps
  <2>. QED  BY <1>3, <2>4, <2>5, <2>6, <2>7, <2>8, <2>9 DEF OthersStay, Turns, WorkerTo, Removing, Uninstalling
<1>12. ASSUME CloseUninstall(l)  PROVE CarriedInv'
  <2>1. /\ r.pc = "uninstalling" /\ UNCHANGED <<pending, disk, up, data, agreed, manifest>>
        /\ Outcome(r.w = "ended", "closed") /\ MainTo(l, "removing")
    BY <1>12, Courses DEF CloseUninstall, files, docker, At
  <2>2. r.w = "ended"  BY <1>a, <1>b, <2>1
  <2>. QED  BY <1>0, <1>2, <1>3, <1>c, <2>1, <2>2 DEF OthersStay, Turns, MainTo, Behind, ByWorker, Removing, Uninstalling
<1>13. ASSUME NEW how \in Hows, RemoveInstall(l, how)  PROVE CarriedInv'
  <2>1. /\ r.pc = "removing" /\ RemovesTree(r.dir, how) /\ pending' = Updated("rmtree", how # "failed")
        /\ Outcome(how = "done", "failed") /\ UNCHANGED <<manifest, up, data, agreed>>
    BY <1>13 DEF RemoveInstall, Recorded, At, docker
  <2>2. how = "done"  BY <1>a, <1>b, <2>1
  <2>3. MainTo(l, "tidy")  BY <1>13, <2>2, Courses
  <2>4. Less /\ r.dir = pending.dir
    BY <1>1, <2>1, <2>2, Performed DEF Removing, Uninstalling, Performs, docker
  <2>5. pending' # Absent /\ pending'.dir = pending.dir /\ pending'.done = pending.done \cup {"rmtree"}
    BY <2>1, <2>2, UpdatedIs, NamesOfSteps
  <2>6. HasEffect("rmtree")'  BY <2>1, <2>2, <2>4, <2>5, Performed DEF Performs, docker
  <2>7. Behind("tidy", r.w, r.todo) \subseteq pending'.done  BY <1>2, <2>1, <2>5 DEF Behind, ByWorker
  <2>. QED
    BY <1>2, <1>3, <2>1, <2>3, <2>4, <2>5, <2>6, <2>7, NamesOfSteps
    DEF OthersStay, Turns, MainTo, Removing, Uninstalling
<1>14. ASSUME DeleteManifest(l)  PROVE CarriedInv'
  <2>1. /\ r.pc = "tidy" /\ manifest' = Absent /\ pending' = Updated("delete_manifest", TRUE)
        /\ UNCHANGED <<disk, up, data, agreed>> /\ MainTo(l, "legacy")
    BY <1>14, Courses DEF DeleteManifest, Recorded, At, docker
  <2>2. pending' # Absent /\ pending'.dir = pending.dir /\ pending'.done = pending.done \cup {"delete_manifest"}
    BY <2>1, UpdatedIs, NamesOfSteps
  <2>3. Less /\ HasEffect("delete_manifest")'  BY <1>0, <2>1, <2>2, LauncherAssumption DEF Less, HasEffect
  <2>4. Behind("legacy", r.w, r.todo) \subseteq pending'.done
    BY <1>2, <2>1, <2>2, NamesOfSteps DEF Behind, ByWorker, DockerSteps
  <2>. QED
    BY <1>2, <1>3, <2>1, <2>2, <2>3, <2>4, NamesOfSteps DEF OthersStay, Turns, MainTo, Removing, Uninstalling
<1>15. ASSUME ForgetFolder(l)  PROVE CarriedInv'
  <2>1. r.pc = "legacy" /\ UNCHANGED <<pending, disk, up, data, agreed, manifest>> /\ MainTo(l, "last")
    BY <1>15, Courses DEF ForgetFolder, docker, At
  <2>. QED  BY <1>0, <1>2, <1>3, <1>c, <2>1 DEF OthersStay, Turns, MainTo, Behind, ByWorker, Removing, Uninstalling
<1>16. ASSUME DeletePending(l)  PROVE CarriedInv'
  <2>1. r.pc = "last" /\ UNCHANGED <<disk, up, data, agreed, manifest>> /\ pending' = Absent /\ Ends(l)
    BY <1>16, Courses DEF DeletePending, docker, At
  <2>2. StepNames \subseteq pending.done  BY <1>2, <2>1 DEF Behind, ByWorker
  <2>. QED  BY <1>4, <1>c, <2>1, <2>2 DEF OthersStay, Turns, Ends
<1>17. ASSUME Crash(l)  PROVE CarriedInv'
  <2>1. UNCHANGED <<pending, manifest>> /\ Ends(l) /\ (BrokenOff(l) \/ Unrecorded(l))
    BY <1>17, Courses DEF Crash, files
  <2>2. CASE BrokenOff(l)
    <3>1. PICK dirs \in SUBSET Dirs, vols \in SUBSET Dirs, torn \in SUBSET Dirs : Puts(dirs, vols, torn)
      BY <2>2, BrokenOffPuts
    <3>2. dirs = {} /\ vols = {}  BY <3>1 DEF Puts
    <3>3. Less  BY <2>1, <3>1, <3>2 DEF Puts, Less
    <3>. QED  BY <1>0, <1>3, <2>1, <3>3 DEF OthersStay, Turns, Ends, Behind, ByWorker, Before, Uninstalling
  <2>3. CASE Unrecorded(l)
    <3>1. UNCHANGED <<disk, agreed>> /\ up' \subseteq up /\ data' \subseteq data
      BY <2>3, DockerDoes DEF Unrecorded
    <3>2. Less  BY <2>1, <3>1 DEF Less
    <3>. QED  BY <1>0, <1>3, <2>1, <3>2 DEF OthersStay, Turns, Ends, Behind, ByWorker, Before, Uninstalling
  <2>. QED  BY <2>1, <2>2, <2>3
<1>18. ~CheckDocker(l) /\ ~Locate(l) /\ ~Declines(l) /\ ~WriteManifest(l) /\ ~WriteLegacy(l) /\ ~EnsureEnv(l) /\ ~Healthy(l) /\ ~CloseInstall(l) /\ ~CloseWindow(l) /\ ~Uninstall(l)
  BY <1>2 DEF Before, Removing, Uninstalling, At, Working, CheckDocker, Locate, Declines, WriteManifest, WriteLegacy, EnsureEnv, Healthy, CloseInstall, CloseWindow, Uninstall
<1>19. \A ok \in BOOLEAN : ~Download(l, ok) /\ ~Unpack(l, ok) /\ ~Build(l, ok) /\ ~ComposeUp(l, ok) /\ ~Stop(l, ok)
  BY <1>2 DEF Before, Removing, Uninstalling, At, Working, Download, Unpack, Build, ComposeUp, Stop
<1>20. \A d \in Dirs : ~Pick(l, d) /\ ~Install(l, d)
  BY <1>2 DEF Before, Removing, Uninstalling, At, Working, Pick, Install
<1>. QED
  BY <1>5, <1>6, <1>7, <1>8, <1>9, <1>10, <1>11, <1>12, <1>13, <1>14, <1>15, <1>16, <1>17, <1>18, <1>19, <1>20 DEF ActsOf, LauncherStep

LEMMA LateStays ==
  ASSUME LauncherTypeOK, Housed, NEW l \in Launchers, ActsOf(l), agreed.late
  PROVE  agreed'.late
BY InOrOut DEF ReadPending, RetryEnds, Uninstall, DeletePending, Quiet, PutsIn, TakesOut, LauncherTypeOK

LEMMA CarriedStays ==
  ASSUME LauncherTypeOK, Housed, LockInv, AgreedInv, CarriedInv, NEW l \in Launchers, ActsOf(l)
  PROVE  CarriedInv'
<1>. SUFFICES ASSUME lOdd' \cap Lapses = {}, ~agreed'.late  PROVE CarriedInv'  BY DEF CarriedInv
<1>1. lOdd \cap Lapses = {} /\ "raced" \notin lOdd /\ ~agreed.late  BY OddsStay, LateStays DEF Lapses
<1>2. CASE pending = Absent /\ Uninstall(l)
  <2>. DEFINE d == run[l].dir
  <2>1. /\ UNCHANGED <<manifest, disk, up, data>> /\ pending' = [dir |-> d, done |-> {}] /\ run[l].pc = "running"
        /\ Turns(l, "uninstalling", "compose_down", d, run[l].todo, run[l].res)
    BY <1>2, Courses DEF Uninstall, docker, Working
  <2>2. agreed'.dirs = agreed.dirs \cup {d} /\ agreed'.data = data  BY <1>2 DEF Uninstall, LauncherTypeOK
  <2>3. pending' # Absent /\ pending'.dir = d /\ pending'.done = {}
    <3>1. d \in Dirs  BY <2>1 DEF Housed, Sound, Handling
    <3>2. pending' \in Cleanup  BY <2>1, <3>1 DEF Cleanup
    <3>. QED  BY <2>1, <3>2, LauncherAssumption
  <2>4. GoneBut({})  BY <1>1, <1>2 DEF CarriedInv, NothingLeft
  <2>5. \A k \in Launchers \ {l} : run'[k].pc \in {"off", "check"}  BY <1>1, <2>1 DEF LockInv, Turns
  <2>6. GoneBut({pending.dir})' /\ \A s \in pending'.done : HasEffect(s)'  BY <2>1, <2>2, <2>3, <2>4 DEF GoneBut
  <2>7. \A k \in Launchers :
          /\ run'[k].pc \in Before \cup Removing
          /\ Behind(run'[k].pc, run'[k].w, run'[k].todo) \subseteq {}
          /\ run'[k].pc \in Uninstalling => run'[k].pc = "uninstalling" /\ run'[k].w \in DockerSteps
    <3>1. ASSUME NEW k \in Launchers \ {l}
          PROVE  /\ run'[k].pc \in Before /\ run'[k].pc \notin Uninstalling
                 /\ Behind(run'[k].pc, run'[k].w, run'[k].todo) = {}
      BY <2>5 DEF Behind, ByWorker, Before, Uninstalling
    <3>2. /\ run'[l].pc = "uninstalling" /\ run'[l].w = "compose_down"
          /\ Behind(run'[l].pc, run'[l].w, run'[l].todo) = {}
      BY <2>1 DEF Turns, Behind, ByWorker
    <3>. QED  BY <3>1, <3>2 DEF Removing, Uninstalling, DockerSteps
  <2>8. Underway'  BY <2>3, <2>6, <2>7 DEF Underway
  <2>. QED  BY <2>3, <2>8 DEF CarriedInv
<1>3. CASE pending = Absent /\ ~Uninstall(l)
  <2>1. NothingLeft' /\ pending' = Absent  BY <1>1, <1>3, NothingComesBack DEF CarriedInv
  <2>. QED  BY <2>1 DEF CarriedInv
<1>4. CASE pending # Absent  BY <1>1, <1>4, GoesOnToItsEnd DEF CarriedInv
<1>. QED  BY <1>2, <1>3, <1>4

LEMMA UserKeepsCarried ==
  ASSUME LauncherTypeOK, CarriedInv, NEW d \in Dirs, NEW e \in Dirs, UserUnpacks(d) \/ UserMoves(d, e)
  PROVE  CarriedInv'
<1>1. PICK x \in Dirs : /\ Anew({x}, {}) /\ UNCHANGED <<files, docker, run>> /\ lOdd \subseteq lOdd'
                        /\ \A y \in Dirs \ {x} : disk[y] = "none" => disk'[y] = "none"
  BY DEF UserUnpacks, UserMoves, LauncherTypeOK
<1>2. /\ agreed'.dirs = agreed.dirs \ {x} /\ agreed'.data = agreed.data \ {}
      /\ agreed'.late <=> agreed.late \/ (pending # Absent /\ {x} \cup {} # {})
  <2>1. {x} \in SUBSET Dirs /\ {} \in SUBSET Dirs  OBVIOUS
  <2>. QED  BY <1>1, <2>1, PutAnew
<1>3. agreed.dirs \subseteq Dirs  BY DEF LauncherTypeOK
<1>4. CASE pending = Absent
  <2>1. NothingLeft => NothingLeft'  BY <1>1, <1>2, <1>3 DEF NothingLeft, GoneBut, Working, files, docker
  <2>2. pending' = Absent  BY <1>1, <1>4 DEF files
  <2>. QED  BY <1>1, <1>2, <1>4, <2>1, <2>2 DEF CarriedInv
<1>5. CASE pending # Absent  BY <1>2, <1>5 DEF CarriedInv
<1>. QED  BY <1>4, <1>5

-----------------------------------------------------------------------------
(* Folders that hold half a release                                        *)

Half(d) == disk[d] \in {"stub", "part"}
Doomed(d) == pending # Absent /\ pending.dir = d
Excused == lOdd \cap {"raced", "moved", "pulled", "replaced"} # {} \/ agreed.late

\* A folder is half there because it is being removed, or something was broken
\* off; the manifest names one only if it was found where one was expected.
FoldersOK ==
  /\ \A d \in Dirs : Half(d) => Doomed(d) \/ "broken" \in lOdd
  /\ (manifest # Absent /\ Half(manifest)) => manifest \in {Default, legacy.repo} \/ Doomed(manifest)
  /\ legacy.repo # Absent => legacy.file /\ (disk[legacy.repo] = "stub" => Doomed(legacy.repo))
  /\ (~legacy.file /\ manifest \notin {Absent, Default}) => disk[manifest] = "whole" \/ Doomed(manifest)
  /\ pending # Absent =>
       /\ "rmtree" \in pending.done => disk[pending.dir] = "none"
       /\ ("delete_manifest" \in pending.done /\ ~legacy.file) => manifest \in {Absent, Default} \/ manifest # pending.dir

\* What a launcher relies on: nobody is asked where to install if there was an
\* installation, and each step of an installation or a removal finds what the one
\* before it left.
Relies(pc, w, dir) ==
  /\ w = "unpack" => pc = "installing"
  /\ pc = "prompt" => ~legacy.file
  /\ (pc = "installing" /\ w \in {"get", "unpack", "manifest", "legacy"}) => ~legacy.file
  /\ (pc = "installing" /\ w \in {"manifest", "legacy"}) => disk[dir] = "whole" /\ pending = Absent
  /\ (pc = "installing" /\ w = "legacy") => manifest = dir
  /\ (pc = "picker" /\ manifest # Absent) => disk[manifest] # "part"
  /\ pc \in {"tidy", "legacy", "last"} => disk[dir] = "none"
  /\ pc = "legacy" => manifest = Absent
  /\ pc = "last" => legacy.file

WholeInv == ~Excused => FoldersOK /\ \A l \in Launchers : Relies(run[l].pc, run[l].w, run[l].dir)

\* Only the folder that is being removed loses something, and what is written
\* down of it is true.
Ruined(d) ==
  /\ pending # Absent /\ pending.dir = d /\ pending' # Absent /\ pending'.dir = d
  /\ \A e \in Dirs \ {d} : disk'[e] = disk[e]
  /\ "rmtree" \in pending'.done => disk'[d] = "none"
  /\ manifest' \in {manifest, Absent} /\ UNCHANGED legacy
  /\ "delete_manifest" \in pending'.done => "delete_manifest" \in pending.done \/ manifest' = Absent

LEMMA RuinedFolders ==
  ASSUME LauncherTypeOK, FoldersOK, lOdd \subseteq lOdd', NEW d \in Dirs, Ruined(d)
  PROVE  FoldersOK'
<1>1. legacy.repo \in Dirs \cup {Absent} /\ manifest \in Dirs \cup {Absent}  BY DEF LauncherTypeOK
<1>2. \A e \in Dirs : Half(e)' => Doomed(e)' \/ "broken" \in lOdd'  BY DEF FoldersOK, Ruined, Half, Doomed
<1>3. (manifest' # Absent /\ Half(manifest)') => manifest' \in {Default, legacy'.repo} \/ Doomed(manifest)'
  BY <1>1 DEF FoldersOK, Ruined, Half, Doomed
<1>4. legacy'.repo # Absent => legacy'.file /\ (disk'[legacy'.repo] = "stub" => Doomed(legacy.repo)')
  BY <1>1 DEF FoldersOK, Ruined, Doomed
<1>5. (~legacy'.file /\ manifest' \notin {Absent, Default}) => disk'[manifest'] = "whole" \/ Doomed(manifest)'
  BY <1>1 DEF FoldersOK, Ruined, Doomed
<1>6. /\ "rmtree" \in pending'.done => disk'[pending'.dir] = "none"
      /\ ("delete_manifest" \in pending'.done /\ ~legacy'.file)
           => manifest' \in {Absent, Default} \/ manifest' # pending'.dir
  BY <1>1, LauncherAssumption DEF FoldersOK, Ruined, Doomed
<1>. QED  BY <1>2, <1>3, <1>4, <1>5, <1>6 DEF FoldersOK

\* An unpacking that is broken off, with no removal pending and no installation
\* before it.
LEMMA BrokenFolders ==
  ASSUME LauncherTypeOK, FoldersOK, "broken" \in lOdd', pending = Absent, ~legacy.file, NEW d \in Dirs,
         NEW x \in Unfinished(d), disk' = [disk EXCEPT ![d] = x], UNCHANGED files
  PROVE  FoldersOK'
<1>1. legacy.repo = Absent /\ manifest \in Dirs \cup {Absent} /\ Default \in Dirs
  BY LauncherAssumption DEF FoldersOK, LauncherTypeOK
<1>2. \A e \in Dirs : disk[e] = "whole" => disk'[e] = "whole"  BY DEF Unfinished, LauncherTypeOK
<1>3. UNCHANGED <<manifest, legacy, pending>>  BY DEF files
<1>4. (manifest # Absent /\ manifest # Default) => disk[manifest] = "whole"  BY DEF FoldersOK, Doomed
<1>. QED  BY <1>1, <1>2, <1>3, <1>4 DEF FoldersOK, Half, Doomed

\* Whatever is broken off.
LEMMA BrokenOffFolders ==
  ASSUME LauncherTypeOK, FoldersOK, lOdd \subseteq lOdd', ~agreed'.late, NEW l \in Launchers, BrokenOff(l),
         UNCHANGED files, Sound(run[l].pc, run[l].w, run[l].dir, run[l].res),
         Relies(run[l].pc, run[l].w, run[l].dir), run[l].pc \in Removing => Doomed(run[l].dir) /\ run[l].dir \in Dirs,
         run[l].w = "unpack" => "broken" \in lOdd'
  PROVE  FoldersOK'
<1>. DEFINE r == run[l]
            removes == r.pc = "removing" \/ (r.pc = "retry" /\ "rmtree" \in r.todo)
<1>0. UNCHANGED <<manifest, legacy, pending>>  BY DEF files
<1>1. CASE r.dir = Absent
  <2>1. UNCHANGED disk  BY <1>1 DEF BrokenOff
  <2>. QED  BY <1>0, <2>1 DEF FoldersOK, Half, Doomed
<1>2. CASE r.dir # Absent
  <2>1. r.dir \in Dirs  BY <1>2, Fields DEF LauncherTypeOK
  <2>2. PICK x \in IF r.w = "unpack" THEN Unfinished(r.dir) ELSE IF removes THEN Torn(r.dir) \cup {"none"} ELSE {disk[r.dir]} :
             disk' = [disk EXCEPT ![r.dir] = x] /\ \E ok \in BOOLEAN : Anew(IF r.w = "unpack" THEN {r.dir} ELSE {}, IF ok THEN {r.dir} ELSE {})
    BY <1>2 DEF BrokenOff
  <2>3. CASE r.w = "unpack"
    <3>1. PICK vols : Anew({r.dir}, vols)  BY <2>2, <2>3
    <3>a. pending = Absent  BY <3>1 DEF Anew
    <3>2. ~legacy.file  BY <2>3 DEF Sound, Relies
    <3>. QED  BY <2>1, <2>2, <2>3, <3>a, <3>2, BrokenFolders
  <2>4. CASE r.w # "unpack" /\ removes
    <3>1. Doomed(r.dir)  BY <2>4 DEF Removing, Uninstalling
    <3>2. disk[r.dir] = "none" => disk'[r.dir] = "none"  BY <2>1, <2>2, <2>4 DEF Torn, LauncherTypeOK
    <3>3. Ruined(r.dir)
      BY <1>0, <2>1, <2>2, <3>1, <3>2 DEF Ruined, Doomed, FoldersOK, LauncherTypeOK
    <3>. QED  BY <2>1, <3>3, RuinedFolders
  <2>5. CASE r.w # "unpack" /\ ~removes
    <3>1. disk' = disk  BY <2>1, <2>2, <2>5 DEF LauncherTypeOK
    <3>. QED  BY <1>0, <3>1 DEF FoldersOK, Half, Doomed
  <2>. QED  BY <2>3, <2>4, <2>5
<1>. QED  BY <1>1, <1>2

LEMMA WholeStays ==
  ASSUME LauncherTypeOK, Housed, LockInv, AgreedInv, WholeInv, NEW l \in Launchers, ActsOf(l)
  PROVE  WholeInv'
<1>. SUFFICES ASSUME ~Excused'  PROVE WholeInv'  BY DEF WholeInv
<1>. DEFINE r == run[l]
<1>0. lOdd \subseteq lOdd' /\ ~Excused /\ "raced" \notin lOdd /\ ~agreed.late /\ ~agreed'.late
  BY OddsStay, LateStays DEF Excused
<1>1. /\ FoldersOK /\ Sound(r.pc, r.w, r.dir, r.res) /\ Relies(r.pc, r.w, r.dir)
      /\ r.pc \in Removing => Doomed(r.dir) /\ r.dir \in Dirs /\ pending \in Cleanup
  BY <1>0, LauncherAssumption DEF WholeInv, Housed, AgreedInv, Doomed, LauncherTypeOK, Cleanup
<1>2. UNCHANGED <<disk, manifest, legacy, pending>> => FoldersOK'  BY <1>0, <1>1 DEF FoldersOK, Half, Doomed
<1>3. ASSUME OthersStay(l), r.pc \notin {"off", "check"} \/ UNCHANGED <<disk, manifest, legacy, pending>>,
             FoldersOK', Relies(run[l].pc, run[l].w, run[l].dir)'
      PROVE  WholeInv'
  <2>1. r.pc \notin {"off", "check"} => \A k \in Launchers \ {l} : run'[k].pc \in {"off", "check"}
    BY <1>0, <1>3 DEF LockInv, OthersStay
  <2>2. \A k \in Launchers \ {l} : Relies(run[k].pc, run[k].w, run[k].dir)'
    BY <1>0, <1>3, <2>1 DEF WholeInv, Relies, OthersStay
  <2>. QED  BY <1>3, <2>2 DEF WholeInv
<1>4. ASSUME Start(l)  PROVE WholeInv'
  <2>1. MainTo(l, "check")
    BY <1>4, Courses
  <2>2. UNCHANGED <<disk, manifest, legacy, pending>> /\ At(l, "off")
    BY <1>4 DEF Start, files, docker, At, Working
  <2>. QED  BY <1>1, <1>2, <1>3, <2>1, <2>2 DEF Relies, OthersStay, Turns, MainTo, WorkerTo, WorkerEnds, Ends, At, Working, Sound
<1>5. ASSUME CheckLock(l)  PROVE WholeInv'
  <2>1. Ends(l) \/ MainTo(l, "free")
    BY <1>5, Courses
  <2>2. UNCHANGED <<disk, manifest, legacy, pending>> /\ At(l, "check")
    BY <1>5 DEF CheckLock, AlreadyRunning, Odds, files, docker, At, Working
  <2>. QED  BY <1>1, <1>2, <1>3, <2>1, <2>2 DEF Relies, OthersStay, Turns, MainTo, WorkerTo, WorkerEnds, Ends, At, Working, Sound
<1>6. ASSUME WriteLock(l)  PROVE WholeInv'
  <2>1. MainTo(l, "locked")
    BY <1>6, Courses
  <2>2. UNCHANGED <<disk, manifest, legacy, pending>> /\ At(l, "free")
    BY <1>6 DEF WriteLock, files, docker, At, Working
  <2>. QED  BY <1>1, <1>2, <1>3, <2>1, <2>2 DEF Relies, OthersStay, Turns, MainTo, WorkerTo, WorkerEnds, Ends, At, Working, Sound
<1>7. ASSUME CheckDocker(l)  PROVE WholeInv'
  <2>1. Ends(l) \/ MainTo(l, "locate")
    BY <1>7, Courses
  <2>2. UNCHANGED <<disk, manifest, legacy, pending>> /\ At(l, "docker")
    BY <1>7 DEF CheckDocker, Exits, files, docker, At, Working
  <2>. QED  BY <1>1, <1>2, <1>3, <2>1, <2>2 DEF Relies, OthersStay, Turns, MainTo, WorkerTo, WorkerEnds, Ends, At, Working, Sound
<1>8. ASSUME Declines(l)  PROVE WholeInv'
  <2>1. Ends(l)
    BY <1>8, Courses
  <2>2. UNCHANGED <<disk, manifest, legacy, pending>>
    BY <1>8 DEF Declines, Exits, files, docker, At, Working
  <2>. QED  BY <1>1, <1>2, <1>3, <2>1, <2>2 DEF Relies, OthersStay, Turns, MainTo, WorkerTo, WorkerEnds, Ends, At, Working, Sound
<1>9. ASSUME NEW d \in Dirs, Install(l, d)  PROVE WholeInv'
  <2>1. Turns(l, "installing", "get", d, r.todo, r.res)
    BY <1>9, Courses
  <2>2. UNCHANGED <<disk, manifest, legacy, pending>> /\ At(l, "prompt")
    BY <1>9 DEF Install, files, docker, At, Working
  <2>. QED  BY <1>1, <1>2, <1>3, <2>1, <2>2 DEF Relies, OthersStay, Turns, MainTo, WorkerTo, WorkerEnds, Ends, At, Working, Sound
<1>10. ASSUME NEW ok \in BOOLEAN, Download(l, ok)  PROVE WholeInv'
  <2>1. IF ok THEN WorkerTo(l, "unpack") ELSE WorkerEnds(l, "error")
    BY <1>10, Courses
  <2>2. UNCHANGED <<disk, manifest, legacy, pending>> /\ Working(l, "installing", "get")
    BY <1>10 DEF Download, Odds, files, docker, At, Working
  <2>. QED  BY <1>1, <1>2, <1>3, <2>1, <2>2 DEF Relies, OthersStay, Turns, MainTo, WorkerTo, WorkerEnds, Ends, At, Working, Sound
<1>11. ASSUME NEW ok \in BOOLEAN, Build(l, ok)  PROVE WholeInv'
  <2>1. WorkerEnds(l, IF ok THEN "ok" ELSE "error")
    BY <1>11, Courses
  <2>2. UNCHANGED <<disk, manifest, legacy, pending>> /\ Working(l, "installing", "build")
    BY <1>11 DEF Build, Odds, files, docker, At, Working
  <2>. QED  BY <1>1, <1>2, <1>3, <2>1, <2>2 DEF Relies, OthersStay, Turns, MainTo, WorkerTo, WorkerEnds, Ends, At, Working, Sound
<1>12. ASSUME EnsureEnv(l)  PROVE WholeInv'
  <2>1. Ends(l) \/ Turns(l, "running", "up", r.dir, r.todo, "none")
    BY <1>12, Courses
  <2>2. UNCHANGED <<disk, manifest, legacy, pending>> /\ At(l, "env")
    BY <1>12 DEF EnsureEnv, Exits, files, docker, At, Working
  <2>. QED  BY <1>1, <1>2, <1>3, <2>1, <2>2 DEF Relies, OthersStay, Turns, MainTo, WorkerTo, WorkerEnds, Ends, At, Working, Sound
<1>13. ASSUME NEW ok \in BOOLEAN, ComposeUp(l, ok)  PROVE WholeInv'
  <2>1. IF ok THEN WorkerTo(l, "health") ELSE Ends(l)
    BY <1>13, Courses
  <2>2. UNCHANGED <<disk, manifest, legacy, pending>> /\ Working(l, "running", "up")
    BY <1>13 DEF ComposeUp, Exits, Odds, files, docker, At, Working
  <2>. QED  BY <1>1, <1>2, <1>3, <2>1, <2>2 DEF Relies, OthersStay, Turns, MainTo, WorkerTo, WorkerEnds, Ends, At, Working, Sound
<1>14. ASSUME Healthy(l)  PROVE WholeInv'
  <2>1. WorkerTo(l, "none")
    BY <1>14, Courses
  <2>2. UNCHANGED <<disk, manifest, legacy, pending>> /\ Working(l, "running", "health")
    BY <1>14 DEF Healthy, files, docker, At, Working
  <2>. QED  BY <1>1, <1>2, <1>3, <2>1, <2>2 DEF Relies, OthersStay, Turns, MainTo, WorkerTo, WorkerEnds, Ends, At, Working, Sound
<1>15. ASSUME NEW ok \in BOOLEAN, Stop(l, ok)  PROVE WholeInv'
  <2>1. Ends(l)
    BY <1>15, Courses
  <2>2. UNCHANGED <<disk, manifest, legacy, pending>>
    BY <1>15 DEF Stop, Exits, ShutsDown, Downed, Odds, files, docker, At, Working
  <2>. QED  BY <1>1, <1>2, <1>3, <2>1, <2>2 DEF Relies, OthersStay, Turns, MainTo, WorkerTo, WorkerEnds, Ends, At, Working, Sound
<1>16. ASSUME CloseUninstall(l)  PROVE WholeInv'
  <2>1. MainTo(l, "removing")
    BY <1>16, Courses
  <2>2. UNCHANGED <<disk, manifest, legacy, pending>> /\ At(l, "uninstalling")
    BY <1>16 DEF CloseUninstall, Odds, files, docker, At, Working
  <2>. QED  BY <1>1, <1>2, <1>3, <2>1, <2>2 DEF Relies, OthersStay, Turns, MainTo, WorkerTo, WorkerEnds, Ends, At, Working, Sound
<1>17. ASSUME ReadPending(l)  PROVE WholeInv'
  <2>1. UNCHANGED <<disk, manifest, legacy, pending>> /\ r.pc = "locked"  BY <1>17 DEF ReadPending, files, docker, At
  <2>2. OthersStay(l) /\ run'[l].pc \in {"docker", "retry"} /\ run'[l].w = r.w
    <3>1. CASE pending = Absent  BY <1>17, <3>1, Courses DEF OthersStay, Turns, MainTo
    <3>2. CASE pending # Absent  BY <1>17, <3>2, Courses DEF OthersStay, Turns
    <3>. QED  BY <3>1, <3>2
  <2>. QED  BY <1>2, <1>1, <1>3, <2>1, <2>2 DEF Relies, Sound
<1>18. ASSUME Locate(l)  PROVE WholeInv'
  <2>1. UNCHANGED <<disk, legacy, pending>> /\ r.pc = "locate"  BY <1>18 DEF Locate, At
  <2>2. CASE (manifest # Absent /\ Valid(manifest)) \/ Valid(Remembered)
    <3>1. /\ manifest' = IF manifest # Absent /\ Valid(manifest) THEN manifest ELSE Remembered
          /\ run' = [run EXCEPT ![l].pc = "env", ![l].dir = manifest']
      BY <1>18, <2>2 DEF Locate
    <3>2. manifest' \in Dirs  BY <3>1, LauncherAssumption DEF Remembered, LauncherTypeOK
    <3>3. Turns(l, "env", r.w, manifest', r.todo, r.res)  BY <3>1, <3>2, TurnsTo DEF Pcs
    <3>4. FoldersOK'
      <4>1. CASE manifest' = manifest  BY <1>2, <2>1, <4>1
      <4>2. CASE manifest' # manifest
        <5>1. manifest' = Remembered /\ (legacy.repo = Absent => manifest' = Default)
              /\ (legacy.repo # Absent => manifest' = legacy.repo)
          BY <3>1, <4>2 DEF Remembered
        <5>2. legacy.repo # Absent => legacy.file  BY <1>1 DEF FoldersOK
        <5>. QED  BY <1>0, <1>1, <2>1, <5>1, <5>2 DEF FoldersOK, Half, Doomed
      <4>. QED  BY <4>1, <4>2
    <3>. QED  BY <1>1, <1>3, <2>1, <3>3, <3>4 DEF Relies, OthersStay, Turns, Sound
  <2>3. CASE ~((manifest # Absent /\ Valid(manifest)) \/ Valid(Remembered))
    <3>1. Goes(l, IF legacy.file THEN "picker" ELSE "prompt") /\ manifest' = manifest  BY <1>18, <2>3 DEF Locate
    <3>2. MainTo(l, IF legacy.file THEN "picker" ELSE "prompt")  BY <3>1, TurnsTo DEF Pcs, MainTo
    <3>. QED  BY <1>2, <1>1, <1>3, <2>1, <2>3, <3>1, <3>2 DEF Relies, OthersStay, Turns, MainTo, Valid, Sound
  <2>. QED  BY <2>2, <2>3
<1>19. ASSUME NEW d \in Dirs, Pick(l, d)  PROVE WholeInv'
  <2>1. /\ r.pc = "picker" /\ Valid(d) /\ legacy' = [file |-> TRUE, repo |-> d] /\ UNCHANGED <<disk, manifest, pending>>
        /\ Turns(l, "env", r.w, d, r.todo, r.res)
    BY <1>19, Courses DEF Pick, At
  <2>2. manifest # Absent => disk[manifest] # "part"  BY <1>1, <2>1 DEF Relies
  <2>3. FoldersOK'  BY <1>0, <1>1, <2>1, <2>2 DEF FoldersOK, Half, Doomed, Valid
  <2>. QED  BY <1>1, <1>3, <2>1, <2>3 DEF Relies, OthersStay, Turns, Sound
<1>20. ASSUME NEW ok \in BOOLEAN, Unpack(l, ok)  PROVE WholeInv'
  <2>1. IF ok THEN WorkerTo(l, "manifest") ELSE WorkerEnds(l, "none")  BY <1>20, Courses
  <2>2. /\ UNCHANGED files /\ r.pc = "installing" /\ r.w = "unpack" /\ Anew({r.dir}, {}) /\ Outcome(ok, "broken")
        /\ \E x \in IF ok THEN {"whole"} ELSE Unfinished(r.dir) : disk' = [disk EXCEPT ![r.dir] = x]
    BY <1>20 DEF Unpack, Working
  <2>3. r.dir \in Dirs /\ ~legacy.file  BY <1>1, <2>2 DEF Sound, Handling, Relies
  <2>4. pending = Absent  BY <1>0, <2>2 DEF Anew
  <2>5. CASE ok
    <3>1. disk'[r.dir] = "whole" /\ \A e \in Dirs \ {r.dir} : disk'[e] = disk[e]
      BY <2>2, <2>3, <2>5 DEF LauncherTypeOK
    <3>2. UNCHANGED <<manifest, legacy, pending>> /\ legacy.repo = Absent /\ manifest \in Dirs \cup {Absent}
      BY <1>1, <2>2, <2>3 DEF files, FoldersOK, LauncherTypeOK
    <3>3. FoldersOK'  BY <1>0, <1>1, <2>4, <3>1, <3>2 DEF FoldersOK, Half, Doomed
    <3>. QED
      BY <1>1, <1>3, <2>1, <2>2, <2>3, <2>4, <2>5, <3>1, <3>2, <3>3 DEF Relies, OthersStay, Turns, WorkerTo, Sound
  <2>6. CASE ~ok
    <3>1. "broken" \in lOdd'  BY <2>2, <2>6 DEF Outcome
    <3>2. FoldersOK'  BY <1>1, <2>2, <2>3, <2>4, <2>6, <3>1, BrokenFolders
    <3>. QED  BY <1>1, <1>3, <2>1, <2>2, <2>6, <3>2 DEF Relies, OthersStay, Turns, WorkerEnds, Sound
  <2>. QED  BY <2>5, <2>6
<1>21. ASSUME WriteManifest(l)  PROVE WholeInv'
  <2>1. /\ r.pc = "installing" /\ r.w = "manifest" /\ manifest' = r.dir /\ UNCHANGED <<disk, legacy, pending>>
        /\ WorkerTo(l, "legacy")
    BY <1>21, Courses DEF WriteManifest, Working
  <2>2. disk[r.dir] = "whole" /\ pending = Absent /\ ~legacy.file  BY <1>1, <2>1 DEF Relies
  <2>3. FoldersOK'  BY <1>0, <1>1, <2>1, <2>2 DEF FoldersOK, Half, Doomed
  <2>. QED  BY <1>1, <1>3, <2>1, <2>2, <2>3 DEF Relies, OthersStay, Turns, WorkerTo, Sound
<1>22. ASSUME WriteLegacy(l)  PROVE WholeInv'
  <2>1. /\ r.pc = "installing" /\ r.w = "legacy" /\ legacy' = [file |-> TRUE, repo |-> r.dir]
        /\ UNCHANGED <<disk, manifest, pending>> /\ WorkerTo(l, "build")
    BY <1>22, Courses DEF WriteLegacy, Working
  <2>2. disk[r.dir] = "whole" /\ pending = Absent /\ manifest = r.dir  BY <1>1, <2>1 DEF Relies
  <2>3. FoldersOK'  BY <1>0, <1>1, <2>1, <2>2 DEF FoldersOK, Half, Doomed
  <2>. QED  BY <1>1, <1>3, <2>1, <2>3 DEF Relies, OthersStay, Turns, WorkerTo, Sound
<1>23. ASSUME CloseInstall(l)  PROVE WholeInv'
  <2>1. r.pc = "installing" /\ UNCHANGED files /\ IF r.res = "ok" THEN MainTo(l, "env") ELSE Ends(l)
    BY <1>23, Courses DEF CloseInstall, At
  <2>2. FoldersOK'
    <3>1. CASE r.res = "ok"  BY <1>23, <1>2, <2>1, <3>1 DEF CloseInstall, files
    <3>2. CASE r.res # "ok"
      <4>1. BrokenOff(l) /\ (r.w = "unpack" => "broken" \in lOdd')  BY <1>23, <3>2 DEF CloseInstall, Outcome
      <4>. QED  BY <1>0, <1>1, <2>1, <4>1, BrokenOffFolders
    <3>. QED  BY <3>1, <3>2
  <2>. QED  BY <1>1, <1>3, <2>1, <2>2 DEF Relies, OthersStay, Turns, MainTo, Ends, Sound
<1>24. ASSUME CloseWindow(l)  PROVE WholeInv'
  <2>1. r.pc = "running" /\ UNCHANGED files /\ BrokenOff(l) /\ Ends(l)  BY <1>24, Courses DEF CloseWindow, At
  <2>2. r.w # "unpack"  BY <1>1, <2>1 DEF Relies
  <2>3. FoldersOK'  BY <1>0, <1>1, <2>1, <2>2, BrokenOffFolders
  <2>. QED  BY <1>1, <1>3, <2>1, <2>3 DEF Relies, OthersStay, Turns, Ends, Sound
<1>25. ASSUME Crash(l)  PROVE WholeInv'
  <2>1. r.pc # "off" /\ UNCHANGED files /\ (BrokenOff(l) \/ Unrecorded(l)) /\ Ends(l)
    BY <1>25, Courses DEF Crash, At
  <2>2. CASE Unrecorded(l)
    <3>1. UNCHANGED <<disk, manifest, legacy, pending>>  BY <2>1, <2>2 DEF Unrecorded, files
    <3>. QED  BY <1>2, <1>1, <1>3, <2>1, <3>1 DEF Relies, OthersStay, Turns, Ends, Sound
  <2>3. CASE BrokenOff(l) /\ r.pc = "check"
    <3>1. r.w # "unpack"  BY <1>1, <2>3 DEF Relies
    <3>2. UNCHANGED <<disk, manifest, legacy, pending>>  BY <2>1, <2>3, <3>1 DEF BrokenOff, files, LauncherTypeOK
    <3>. QED  BY <1>2, <1>1, <1>3, <2>1, <3>2 DEF Relies, OthersStay, Turns, Ends, Sound
  <2>4. CASE BrokenOff(l) /\ r.pc # "check"
    <3>1. r.w = "unpack" => "broken" \in lOdd'  BY <1>25 DEF Crash
    <3>2. FoldersOK'  BY <1>0, <1>1, <2>1, <2>4, <3>1, BrokenOffFolders
    <3>. QED  BY <1>1, <1>3, <2>1, <2>4, <3>2 DEF Relies, OthersStay, Turns, Ends, Sound
  <2>. QED  BY <2>1, <2>2, <2>3, <2>4
<1>26. ASSUME Uninstall(l)  PROVE WholeInv'
  <2>1. /\ r.pc = "running" /\ UNCHANGED <<disk, manifest, legacy>> /\ pending' = [dir |-> r.dir, done |-> {}]
        /\ lOdd' = lOdd \cup IF pending # Absent /\ pending.dir # r.dir THEN {"replaced"} ELSE {}
        /\ Turns(l, "uninstalling", "compose_down", r.dir, r.todo, r.res)
    BY <1>26, Courses DEF Uninstall, Working
  <2>2. pending # Absent => pending.dir = r.dir  BY <2>1 DEF Excused
  <2>3. pending' # Absent
    <3>1. r.dir \in Dirs  BY <1>1, <2>1 DEF Sound, Handling
    <3>2. pending' \in Cleanup  BY <2>1, <3>1 DEF Cleanup
    <3>. QED  BY <2>1, <3>2, LauncherAssumption
  <2>4. FoldersOK'  BY <1>0, <1>1, <2>1, <2>2, <2>3 DEF FoldersOK, Half, Doomed
  <2>. QED  BY <1>1, <1>3, <2>1, <2>4 DEF Relies, OthersStay, Turns, Sound
<1>27. ASSUME NEW how \in Hows, Retry(l, how)  PROVE WholeInv'
  <2>. PICK s : s = First(r.todo)  OBVIOUS
  <2>1. /\ r.pc = "retry" /\ r.todo # {} /\ Performs(s, r.dir, how) /\ pending' = Updated(s, how # "failed")
        /\ UNCHANGED legacy /\ Turns(l, "retry", r.w, r.dir, r.todo \ {s}, r.res)
    BY <1>27, Courses DEF Retry, At, Recorded
  <2>2. s \in StepNames  BY <2>1, Fields, FirstIsOne DEF LauncherTypeOK
  <2>3. Doomed(r.dir) /\ r.dir \in Dirs  BY <1>1, <2>1 DEF Removing
  <2>4. /\ pending' # Absent /\ pending'.dir = pending.dir
        /\ pending'.done = IF how # "failed" THEN pending.done \cup {s} ELSE pending.done \ {s}
    BY <2>1, <2>2, <2>3, UpdatedIs DEF Doomed
  <2>5. Ruined(r.dir)
    <3>1. CASE s = "rmtree"
      <4>1. RemovesTree(r.dir, how) /\ manifest' = manifest  BY <2>1, <3>1 DEF Performs, DockerStep
      <4>2. \A e \in Dirs \ {r.dir} : disk'[e] = disk[e]  BY <4>1, TreeIs
      <4>3. how # "failed" => disk'[r.dir] = "none"  BY <2>3, <4>1 DEF RemovesTree, LauncherTypeOK, Hows
      <4>. QED  BY <2>1, <2>3, <2>4, <3>1, <4>1, <4>2, <4>3 DEF Ruined, Doomed
    <3>2. CASE s # "rmtree"
      <4>1. disk' = disk /\ (manifest' = manifest \/ manifest' = Absent) /\ (s = "delete_manifest" => manifest' = Absent)
        BY <2>1, <3>2 DEF Performs, DockerStep
      <4>. QED  BY <1>1, <2>1, <2>3, <2>4, <3>2, <4>1 DEF Ruined, Doomed, FoldersOK
    <3>. QED  BY <3>1, <3>2
  <2>6. FoldersOK'  BY <1>0, <1>1, <2>3, <2>5, RuinedFolders
  <2>. QED  BY <1>1, <1>3, <2>1, <2>6 DEF Relies, OthersStay, Turns, Sound
<1>28. ASSUME RetryEnds(l)  PROVE WholeInv'
  <2>1. /\ r.pc = "retry" /\ UNCHANGED <<disk, manifest, legacy>> /\ Turns(l, "docker", "none", Absent, {}, "none")
        /\ pending' = IF pending # Absent /\ pending.done = StepNames THEN Absent ELSE pending
    BY <1>28, Courses DEF RetryEnds, At
  <2>2. CASE pending' = pending  BY <1>2, <1>3, <2>1, <2>2 DEF Relies, OthersStay, Turns
  <2>3. CASE pending' # pending
    <3>1. pending # Absent /\ pending.done = StepNames /\ pending' = Absent  BY <2>1, <2>3
    <3>2. "rmtree" \in pending.done /\ "delete_manifest" \in pending.done  BY <3>1, NamesOfSteps
    <3>3. FoldersOK'  BY <1>0, <1>1, <2>1, <3>1, <3>2 DEF FoldersOK, Half, Doomed
    <3>. QED  BY <1>1, <1>3, <2>1, <3>3 DEF Relies, OthersStay, Turns, Sound
  <2>. QED  BY <2>2, <2>3
<1>29. ASSUME NEW how \in Hows, UninstallStep(l, how)  PROVE WholeInv'
  <2>. PICK w : w = r.w  OBVIOUS
  <2>1. /\ r.pc \in Uninstalling /\ DockerStep(w, r.dir, how) /\ pending' = Updated(w, how # "failed")
        /\ UNCHANGED <<manifest, legacy, disk>>
    BY <1>29 DEF UninstallStep, Recorded, Uninstalling
  <2>2. WorkerTo(l, IF At(l, "uninstalling") THEN AfterStep(w) ELSE "ended")  BY <1>29, Courses
  <2>3. w \in {"compose_down", "remove_volumes", "remove_images"}  BY <2>1, DockerDoes
  <2>4. Doomed(r.dir) /\ r.dir \in Dirs  BY <1>1, <2>1 DEF Removing
  <2>5. /\ pending' # Absent /\ pending'.dir = pending.dir
        /\ pending'.done = IF how # "failed" THEN pending.done \cup {w} ELSE pending.done \ {w}
    BY <2>1, <2>3, <2>4, UpdatedIs, NamesOfSteps DEF Doomed
  <2>6. Ruined(r.dir)  BY <1>1, <2>1, <2>3, <2>4, <2>5 DEF Ruined, Doomed, FoldersOK
  <2>7. FoldersOK'  BY <1>0, <1>1, <2>4, <2>6, RuinedFolders
  <2>8. AfterStep(w) # "unpack"  BY <2>3 DEF AfterStep
  <2>. QED  BY <1>1, <1>3, <2>1, <2>2, <2>7, <2>8 DEF Relies, OthersStay, Turns, WorkerTo, Uninstalling
<1>30. ASSUME NEW how \in Hows, RemoveInstall(l, how)  PROVE WholeInv'
  <2>1. /\ r.pc = "removing" /\ RemovesTree(r.dir, how) /\ pending' = Updated("rmtree", how # "failed")
        /\ UNCHANGED <<manifest, legacy>>
    BY <1>30 DEF RemoveInstall, Recorded, At
  <2>2. IF how = "done" THEN MainTo(l, "tidy") ELSE Ends(l)  BY <1>30, Courses
  <2>3. Doomed(r.dir) /\ r.dir \in Dirs  BY <1>1, <2>1 DEF Removing, Uninstalling
  <2>4. /\ pending' # Absent /\ pending'.dir = pending.dir
        /\ pending'.done = IF how # "failed" THEN pending.done \cup {"rmtree"} ELSE pending.done \ {"rmtree"}
    BY <2>1, <2>3, UpdatedIs, NamesOfSteps DEF Doomed
  <2>5. \A e \in Dirs \ {r.dir} : disk'[e] = disk[e]  BY <2>1, TreeIs
  <2>6. how # "failed" => how = "done" /\ disk'[r.dir] = "none"  BY <2>1, <2>3 DEF RemovesTree, LauncherTypeOK, Hows
  <2>7. Ruined(r.dir)  BY <2>1, <2>3, <2>4, <2>5, <2>6 DEF Ruined, Doomed
  <2>8. FoldersOK'  BY <1>0, <1>1, <2>3, <2>7, RuinedFolders
  <2>. QED  BY <1>1, <1>3, <2>1, <2>2, <2>6, <2>8 DEF Relies, OthersStay, Turns, MainTo, Ends, Sound
<1>31. ASSUME DeleteManifest(l)  PROVE WholeInv'
  <2>1. /\ r.pc = "tidy" /\ manifest' = Absent /\ pending' = Updated("delete_manifest", TRUE)
        /\ UNCHANGED <<disk, legacy>> /\ MainTo(l, "legacy")
    BY <1>31, Courses DEF DeleteManifest, Recorded, At
  <2>2. Doomed(r.dir) /\ r.dir \in Dirs /\ disk[r.dir] = "none"  BY <1>1, <2>1 DEF Removing, Uninstalling, Relies
  <2>3. pending' # Absent /\ pending'.dir = pending.dir  BY <2>1, <2>2, UpdatedIs, NamesOfSteps DEF Doomed
  <2>4. Ruined(r.dir)  BY <2>1, <2>2, <2>3 DEF Ruined, Doomed
  <2>5. FoldersOK'  BY <1>0, <1>1, <2>2, <2>4, RuinedFolders
  <2>. QED  BY <1>1, <1>3, <2>1, <2>2, <2>5 DEF Relies, OthersStay, Turns, MainTo, Sound
<1>32. ASSUME ForgetFolder(l)  PROVE WholeInv'
  <2>1. /\ r.pc = "legacy" /\ legacy' = [file |-> TRUE, repo |-> Absent] /\ UNCHANGED <<disk, manifest, pending>>
        /\ MainTo(l, "last")
    BY <1>32, Courses DEF ForgetFolder, At
  <2>2. manifest = Absent /\ disk[r.dir] = "none"  BY <1>1, <2>1 DEF Relies
  <2>3. FoldersOK'  BY <1>0, <1>1, <2>1, <2>2 DEF FoldersOK, Half, Doomed
  <2>. QED  BY <1>1, <1>3, <2>1, <2>2, <2>3 DEF Relies, OthersStay, Turns, MainTo, Sound
<1>33. ASSUME DeletePending(l)  PROVE WholeInv'
  <2>1. r.pc = "last" /\ UNCHANGED <<disk, manifest, legacy>> /\ pending' = Absent /\ Ends(l)
    BY <1>33, Courses DEF DeletePending, At
  <2>2. disk[r.dir] = "none" /\ legacy.file /\ Doomed(r.dir)  BY <1>1, <2>1 DEF Relies, Removing, Uninstalling
  <2>3. FoldersOK'  BY <1>0, <1>1, <2>1, <2>2 DEF FoldersOK, Half, Doomed
  <2>. QED  BY <1>1, <1>3, <2>1, <2>3 DEF Relies, OthersStay, Turns, Ends, Sound
<1>. QED
  BY <1>4, <1>5, <1>6, <1>7, <1>8, <1>9, <1>10, <1>11, <1>12, <1>13, <1>14, <1>15, <1>16, <1>17, <1>18, <1>19, <1>20, <1>21, <1>22, <1>23, <1>24, <1>25, <1>26, <1>27, <1>28, <1>29, <1>30, <1>31, <1>32, <1>33 DEF ActsOf, LauncherStep

LEMMA UserKeepsWhole ==
  ASSUME LauncherTypeOK, Housed, AgreedInv, WholeInv, NEW d \in Dirs, NEW e \in Dirs, UserUnpacks(d) \/ UserMoves(d, e)
  PROVE  WholeInv'
<1>1. CASE UserMoves(d, e)  BY <1>1 DEF UserMoves, WholeInv, Excused
<1>2. CASE UserUnpacks(d)
  <2>. SUFFICES ASSUME ~Excused'  PROVE WholeInv'  BY DEF WholeInv
  <2>1. UNCHANGED <<manifest, legacy, pending, run, lOdd>> /\ Anew({d}, {})  BY <1>2 DEF UserUnpacks, files
  <2>2. pending = Absent /\ ~agreed.late /\ ~Excused  BY <2>1 DEF Anew, Excused
  <2>3. disk'[d] = "whole" /\ \A x \in Dirs \ {d} : disk'[x] = disk[x]  BY <1>2 DEF UserUnpacks, LauncherTypeOK
  <2>4. FoldersOK /\ \A l \in Launchers : Relies(run[l].pc, run[l].w, run[l].dir)  BY <2>2 DEF WholeInv
  <2>5. /\ manifest \in Dirs \cup {Absent} /\ legacy.repo \in Dirs \cup {Absent}
        /\ \A l \in Launchers : run[l].pc \in Handling => run[l].dir \in Dirs
    BY DEF LauncherTypeOK, Housed, Sound
  <2>6. FoldersOK'  BY <2>1, <2>2, <2>3, <2>4, <2>5 DEF FoldersOK, Half, Doomed
  <2>7. \A l \in Launchers : run[l].pc \notin Removing  BY <2>2 DEF AgreedInv, Excused
  <2>8. \A l \in Launchers : Relies(run[l].pc, run[l].w, run[l].dir)'
    BY <2>1, <2>3, <2>4, <2>5, <2>7 DEF Relies, Removing, Uninstalling, Handling
  <2>. QED  BY <2>6, <2>8 DEF WholeInv
<1>. QED  BY <1>1, <1>2

-----------------------------------------------------------------------------
(* The theorem                                                             *)

InstallInv == LauncherInv /\ CarriedInv /\ WholeInv

LEMMA InstallInvInit == LauncherInit => InstallInv
<1>. SUFFICES ASSUME LauncherInit  PROVE InstallInv  OBVIOUS
<1>1. LauncherInv  BY LauncherInvInit
<1>2. \A l \in Launchers : run[l].pc = "off" /\ run[l].w = "none"  BY DEF LauncherInit, Off
<1>3. CarriedInv  BY <1>2 DEF LauncherInit, CarriedInv, NothingLeft, GoneBut, Working
<1>4. WholeInv  BY <1>2, LauncherAssumption DEF LauncherInit, WholeInv, FoldersOK, Half, Relies
<1>. QED  BY <1>1, <1>3, <1>4 DEF InstallInv

LEMMA InstallInvStep ==
  ASSUME InstallInv, [LauncherNext]_launcherVars
  PROVE  InstallInv'
<1>. USE DEF InstallInv
<1>1. LauncherInv'  BY LauncherInvStep
<1>2. CASE \E l \in Launchers : ActsOf(l)
  <2>1. CarriedInv' /\ WholeInv'  BY <1>2, CarriedStays, WholeStays DEF LauncherInv
  <2>. QED  BY <1>1, <2>1
<1>3. CASE \E d \in Dirs : UserUnpacks(d) \/ \E e \in Dirs : UserMoves(d, e)
  <2>1. PICK d \in Dirs, e \in Dirs : UserUnpacks(d) \/ UserMoves(d, e)  BY <1>3
  <2>2. CarriedInv' /\ WholeInv'  BY <2>1, UserKeepsCarried, UserKeepsWhole DEF LauncherInv
  <2>. QED  BY <1>1, <2>2
<1>4. CASE UNCHANGED launcherVars
  <2>1. UNCHANGED <<manifest, legacy, pending, disk, up, data, run, agreed, lOdd>>
    BY <1>4 DEF launcherVars, files, docker
  <2>2. CarriedInv'
    BY <2>1 DEF CarriedInv, NothingLeft, GoneBut, Working, Underway, HasEffect
  <2>3. WholeInv'  BY <2>1 DEF WholeInv, Excused, FoldersOK, Half, Doomed, Relies
  <2>. QED  BY <1>1, <2>2, <2>3
<1>. QED  BY <1>2, <1>3, <1>4 DEF LauncherNext, ActsOf

LEMMA InstallInvSays ==
  ASSUME InstallInv
  PROVE  ManifestIsWhole /\ CarriedThrough
<1>1. ManifestIsWhole
  BY LauncherAssumption
  DEF InstallInv, LauncherInv, LauncherTypeOK, WholeInv, Excused, FoldersOK, ManifestIsWhole, HalfManifest, Half, Doomed
<1>2. CarriedThrough
  BY DEF InstallInv, CarriedInv, NothingLeft, GoneBut, Lapses, CarriedThrough, Removed, Gone
<1>. QED  BY <1>1, <1>2

LEMMA ShellInstallStep ==
  ASSUME at = "launcher" => InstallInv, [ShellNext]_shellVars
  PROVE  at' = "launcher" => InstallInv'
<1>1. CASE ByHub /\ HubNext  BY <1>1 DEF ByHub
<1>2. CASE ByLauncher /\ LauncherNext  BY <1>2, InstallInvStep DEF ByLauncher
<1>3. CASE UNCHANGED shellVars
  <2>1. at' = at /\ UNCHANGED launcherVars  BY <1>3 DEF shellVars
  <2>. QED  BY <1>3, <2>1, InstallInvStep
<1>. QED  BY <1>1, <1>2, <1>3 DEF ShellNext

\* Whatever installation or removal is broken off, and wherever, a manifest names
\* half a release only as the default or remembered folder of an installation that
\* was broken off, and what was agreed to be removed is gone once no removal is
\* pending (__main__.py:316-368, :566-641, installer.py:102-133).
THEOREM InstallsWholeOrGone == ShellSpec => []InstallsAreWholeOrGone
<1>1. ShellInit => (at = "launcher" => InstallInv)  BY InstallInvInit DEF ShellInit
<1>2. (at = "launcher" => InstallInv) /\ [ShellNext]_shellVars => (at = "launcher" => InstallInv)'
  BY ShellInstallStep
<1>3. (at = "launcher" => InstallInv) => InstallsAreWholeOrGone  BY InstallInvSays DEF InstallsAreWholeOrGone
<1>. QED  BY <1>1, <1>2, <1>3, PTL DEF ShellSpec

=============================================================================
