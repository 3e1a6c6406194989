------------------------------ MODULE PagesProofs ------------------------------
(***************************************************************************)
(* Theorems about the bulk fill's dialogs, dock and view, as parts of      *)
(* MCPages: for any finite sets of records and classes, any request, and   *)
(* any number of lost connections, reloads, jobs and failed requests.      *)
(***************************************************************************)
EXTENDS MCPages, BulkFillProofs

-----------------------------------------------------------------------------
(* The dialogs and the dock                                                *)

\* A request under way is one of the second dialog, the job it made is the
\* last, and no earlier job that was answered is of this dialog.
AskInv ==
  /\ asked.busy # "no" => asked.step = "confirm"
  /\ asked.step = "confirm" =>
       /\ asks >= 1
       /\ \A j \in DOMAIN jobs : jobs[j].fate # "unheard" => jobs[j].ask < asks
  /\ asked.busy = "handled" =>
       /\ Len(jobs) >= 1 /\ jobs[Len(jobs)].ask = asks
       /\ jobs[Len(jobs)].fate = "unheard"
  /\ \A j \in DOMAIN jobs : jobs[j].ask <= asks

\* The dock follows a job it was told of, and shows its end only after it.
FollowInv ==
  /\ dock.job = 0 <=> dock.phase = "idle"
  /\ dock.job # 0 => jobs[dock.job].fate = "followed"
  /\ dock.phase = "over" => jobs[dock.job].state = "over"

\* The inductive invariant of the dialogs and the dock.
DialogInv == DialogTypeOK /\ AskInv /\ FollowInv /\ RunningIsOnTheDock

-----------------------------------------------------------------------------
(* Lemmas on the dialogs                                                   *)

\* The types of the dialogs, of the jobs made, and of the dock's phase.
Dialogs == [step : {"none", "classes", "confirm"}, picked : SUBSET FillClasses,
            busy : {"no", "estimate", "start", "handled"}, shown : BOOLEAN]
JobsMade == [ask : 1..MaxJobs, state : {"running", "over"}, fate : {"unheard", "followed", "dismissed"}]
DockPhases == {"idle", "connecting", "running", "failed", "over"}

\* A job with another state or fate is still a job.
LEMMA JobMade ==
  ASSUME NEW d \in JobsMade
  PROVE  /\ d.ask \in 1..MaxJobs
         /\ \A f \in {"unheard", "followed", "dismissed"} :
              \E e \in JobsMade : /\ e = [d EXCEPT !.fate = f]
                                  /\ e.fate = f /\ e.ask = d.ask /\ e.state = d.state
         /\ \A t \in {"running", "over"} :
              \E e \in JobsMade : /\ e = [d EXCEPT !.state = t]
                                  /\ e.state = t /\ e.ask = d.ask /\ e.fate = d.fate
<1>1. d.ask \in 1..MaxJobs
  BY DEF JobsMade
<1>2. ASSUME NEW f \in {"unheard", "followed", "dismissed"}
      PROVE  \E e \in JobsMade : /\ e = [d EXCEPT !.fate = f]
                                 /\ e.fate = f /\ e.ask = d.ask /\ e.state = d.state
  <2>1. PICK e : e = [d EXCEPT !.fate = f]
    OBVIOUS
  <2>2. e \in JobsMade /\ e.fate = f /\ e.ask = d.ask /\ e.state = d.state
    BY <2>1 DEF JobsMade
  <2>. QED  BY <2>1, <2>2
<1>3. ASSUME NEW t \in {"running", "over"}
      PROVE  \E e \in JobsMade : /\ e = [d EXCEPT !.state = t]
                                 /\ e.state = t /\ e.ask = d.ask /\ e.fate = d.fate
  <2>1. PICK e : e = [d EXCEPT !.state = t]
    OBVIOUS
  <2>2. e \in JobsMade /\ e.state = t /\ e.ask = d.ask /\ e.fate = d.fate
    BY <2>1 DEF JobsMade
  <2>. QED  BY <2>1, <2>2
<1>. QED  BY <1>1, <1>2, <1>3

\* No dialog is open and no job made.
LEMMA DialogInitInv == DialogInit => DialogInv
<1>. SUFFICES ASSUME DialogInit
              PROVE  DialogInv
  OBVIOUS
<1>1. /\ asked.step = "none" /\ asked.busy = "no" /\ asked.picked = {} /\ asked.shown = FALSE
      /\ dock.job = 0 /\ dock.phase = "idle" /\ dock.modal = FALSE
      /\ jobs = <<>> /\ Len(jobs) = 0 /\ DOMAIN jobs = {}
  BY DEF DialogInit, NoDialog, NoDock
<1>2. DialogTypeOK
  BY <1>1, FillDialogsAssumption DEF DialogInit, DialogTypeOK, NoDialog, NoDock
<1>. QED  BY <1>1, <1>2 DEF DialogInv, AskInv, FollowInv, RunningIsOnTheDock

\* A step of the two dialogs alone.
LEMMA AskStep ==
  ASSUME DialogInv, UNCHANGED <<jobs, dock>>, mishaps' \in 0..MaxMishaps, asks' \in 0..MaxJobs, asks' >= asks,
         asked' \in Dialogs, asked'.busy # "no" => asked'.step = "confirm", asked'.busy # "handled",
         asked'.step = "confirm" => asks' > asks \/ (asks' = asks /\ asked.step = "confirm")
  PROVE  DialogInv'
<1>1. /\ asks \in 0..MaxJobs /\ MaxJobs \in Nat
      /\ \A j \in DOMAIN jobs : jobs[j].ask \in Nat /\ jobs[j].ask <= asks
  <2>1. jobs \in Seq(JobsMade) /\ MaxJobs \in Nat
    BY FillDialogsAssumption DEF DialogInv, DialogTypeOK, JobsMade
  <2>2. \A j \in DOMAIN jobs : jobs[j] \in JobsMade /\ jobs[j].ask \in 1..MaxJobs
    BY <2>1, JobMade
  <2>. QED  BY <2>1, <2>2 DEF DialogInv, DialogTypeOK, AskInv
<1>2. asked'.step = "confirm" => /\ asks' >= 1
                                 /\ \A j \in DOMAIN jobs : jobs[j].fate # "unheard" => jobs[j].ask < asks'
  BY <1>1 DEF DialogInv, AskInv
<1>3. AskInv'
  BY <1>1, <1>2 DEF AskInv
<1>4. DialogTypeOK' /\ FollowInv' /\ RunningIsOnTheDock'
  BY DEF DialogInv, DialogTypeOK, FollowInv, RunningIsOnTheDock, Dialogs
<1>. QED  BY <1>3, <1>4 DEF DialogInv

\* The dialogs, up to the answer of a start and what becomes of it.
LEMMA AskSteps ==
  ASSUME DialogInv,
         \/ OpenClasses \/ LeaveClasses \/ (\E c \in FillClasses : Toggle(c))
         \/ (\E recs \in SUBSET Records : SubmitClasses(recs))
         \/ Estimated \/ LeaveConfirm \/ Confirm \/ StartFails
  PROVE  DialogInv'
<1>1. /\ asked \in Dialogs /\ asks \in 0..MaxJobs /\ MaxJobs \in Nat
      /\ mishaps \in 0..MaxMishaps /\ MaxMishaps \in Nat
      /\ asked.busy # "no" => asked.step = "confirm"
  BY FillDialogsAssumption DEF DialogInv, DialogTypeOK, AskInv, Dialogs
<1>2. NoDialog \in Dialogs /\ NoDialog.step = "none" /\ NoDialog.busy = "no"
  BY DEF NoDialog, Dialogs
<1>3. Mishap => mishaps' \in 0..MaxMishaps
  BY <1>1 DEF Mishap
<1>4. CASE OpenClasses
  <2>1. asked' \in Dialogs /\ asked'.busy = "no" /\ asked'.step = "classes"
    BY <1>4 DEF OpenClasses, NoDialog, Dialogs
  <2>. QED  BY <1>1, <1>4, <2>1, AskStep DEF OpenClasses
<1>5. CASE LeaveClasses \/ LeaveConfirm
  BY <1>1, <1>2, <1>5, AskStep DEF LeaveClasses, LeaveConfirm
<1>6. ASSUME NEW c \in FillClasses, Toggle(c)
      PROVE  DialogInv'
  <2>1. PICK p \in SUBSET FillClasses : asked' = [asked EXCEPT !.picked = p]
    <3>1. asked' = [asked EXCEPT !.picked = IF c \in asked.picked THEN asked.picked \ {c}
                                                                 ELSE asked.picked \cup {c}]
      BY <1>6 DEF Toggle
    <3>2. (IF c \in asked.picked THEN asked.picked \ {c} ELSE asked.picked \cup {c}) \in SUBSET FillClasses
      BY <1>1 DEF Dialogs
    <3>. QED  BY <3>1, <3>2
  <2>2. asked' \in Dialogs /\ asked'.busy = asked.busy /\ asked'.step = asked.step /\ asked.step = "classes"
    BY <1>1, <1>6, <2>1 DEF Toggle, ClassOffered, Dialogs
  <2>. QED  BY <1>1, <1>6, <2>2, AskStep DEF Toggle
<1>7. ASSUME NEW recs \in SUBSET Records, SubmitClasses(recs)
      PROVE  DialogInv'
  <2>1. CASE recs = {}
    BY <1>1, <1>2, <1>7, <2>1, AskStep DEF SubmitClasses
  <2>2. CASE recs # {}
    <3>1. asked' \in Dialogs /\ asked'.busy = "estimate" /\ asked'.step = "confirm"
      BY <1>1, <1>7, <2>2 DEF SubmitClasses, Dialogs
    <3>2. asks' = asks + 1 /\ asks' \in 0..MaxJobs
      BY <1>1, <1>7, <2>2 DEF SubmitClasses
    <3>. QED  BY <1>1, <1>7, <3>1, <3>2, AskStep DEF SubmitClasses
  <2>. QED  BY <2>1, <2>2
<1>8. CASE Estimated
  <2>1. /\ asked' \in Dialogs /\ asked'.busy = "no" /\ asked'.step = asked.step
        /\ asked.step = "confirm"
    BY <1>1, <1>8 DEF Estimated, Dialogs
  <2>. QED  BY <1>1, <1>3, <1>8, <2>1, AskStep DEF Estimated
<1>9. CASE Confirm
  <2>1. /\ asked' \in Dialogs /\ asked'.busy = "start" /\ asked'.step = asked.step
        /\ asked.step = "confirm"
    BY <1>1, <1>9 DEF Confirm, CanConfirm, EstimateShown, Dialogs
  <2>. QED  BY <1>1, <1>9, <2>1, AskStep DEF Confirm
<1>10. CASE StartFails
  <2>1. /\ asked' \in Dialogs /\ asked'.busy = "no" /\ asked'.step = asked.step
        /\ asked.step = "confirm"
    BY <1>1, <1>10 DEF StartFails, Starting, Dialogs
  <2>. QED  BY <1>1, <1>3, <1>10, <2>1, AskStep DEF StartFails
<1>. QED  BY <1>4, <1>5, <1>6, <1>7, <1>8, <1>9, <1>10

\* A job is made: nobody follows it yet.
LEMMA StartHandledStep ==
  ASSUME DialogInv, StartHandled
  PROVE  DialogInv'
<1>1. /\ asked \in Dialogs /\ asks \in 0..MaxJobs /\ MaxJobs \in Nat /\ jobs \in Seq(JobsMade)
      /\ asked.step = "confirm" /\ asks >= 1 /\ Len(jobs) \in Nat /\ DOMAIN jobs = 1..Len(jobs)
  BY FillDialogsAssumption DEF DialogInv, DialogTypeOK, AskInv, Dialogs, JobsMade, StartHandled
<1>2. /\ [ask |-> asks, state |-> "running", fate |-> "unheard"] \in JobsMade
      /\ jobs' = Append(jobs, [ask |-> asks, state |-> "running", fate |-> "unheard"])
  BY <1>1 DEF JobsMade, StartHandled
<1>3. PICK new \in JobsMade : /\ jobs' = Append(jobs, new)
                              /\ new.ask = asks /\ new.state = "running" /\ new.fate = "unheard"
  BY <1>2
<1>4. /\ jobs' \in Seq(JobsMade) /\ Len(jobs') = Len(jobs) + 1 /\ jobs'[Len(jobs')] = new
      /\ DOMAIN jobs' = DOMAIN jobs \cup {Len(jobs')} /\ \A j \in DOMAIN jobs : jobs'[j] = jobs[j]
  BY <1>1, <1>3
<1>5. asked' \in Dialogs /\ asked'.busy = "handled" /\ asked'.step = asked.step
  BY <1>1 DEF StartHandled, Dialogs
<1>6. UNCHANGED <<asks, dock, mishaps>>
  BY DEF StartHandled
<1>7. dock.job \in 0..Len(jobs)
  BY DEF DialogInv, DialogTypeOK
<1>8. DialogTypeOK'
  <2>1. dock \in [job : 0..Len(jobs'), phase : DockPhases, modal : BOOLEAN]
    BY <1>1, <1>4, <1>7 DEF DialogInv, DialogTypeOK, DockPhases
  <2>2. mishaps \in 0..MaxMishaps
    BY DEF DialogInv, DialogTypeOK
  <2>. QED  BY <1>1, <1>4, <1>5, <1>6, <2>1, <2>2 DEF DialogTypeOK, Dialogs, JobsMade, DockPhases
<1>9. AskInv'
  <2>1. \A j \in DOMAIN jobs' : /\ jobs'[j].ask <= asks
                                /\ jobs'[j].fate # "unheard" => jobs'[j].ask < asks
    BY <1>1, <1>3, <1>4 DEF DialogInv, AskInv
  <2>2. Len(jobs') >= 1 /\ jobs'[Len(jobs')].ask = asks /\ jobs'[Len(jobs')].fate = "unheard"
    BY <1>1, <1>3, <1>4
  <2>. QED  BY <1>1, <1>5, <1>6, <2>1, <2>2 DEF AskInv
<1>10. FollowInv'
  <2>1. dock.job # 0 => jobs'[dock.job] = jobs[dock.job]
    BY <1>1, <1>4, <1>7
  <2>2. dock.phase = "over" => dock.job # 0
    BY DEF DialogInv, FollowInv
  <2>. QED  BY <1>6, <2>1, <2>2 DEF DialogInv, FollowInv
<1>11. RunningIsOnTheDock'
  <2>. SUFFICES ASSUME NEW j \in DOMAIN jobs', jobs'[j].state = "running", jobs'[j].fate = "followed",
                       dock'.job # j
                PROVE  \E k \in DOMAIN jobs' : jobs'[k].fate # "unheard" /\ jobs'[k].ask > jobs'[j].ask
    BY DEF RunningIsOnTheDock
  <2>1. j \in DOMAIN jobs /\ jobs'[j] = jobs[j]
    BY <1>3, <1>4
  <2>2. PICK k \in DOMAIN jobs : jobs[k].fate # "unheard" /\ jobs[k].ask > jobs[j].ask
    BY <1>6, <2>1 DEF DialogInv, RunningIsOnTheDock
  <2>. QED  BY <1>4, <2>1, <2>2
<1>. QED  BY <1>8, <1>9, <1>10, <1>11 DEF DialogInv

\* The dock follows the new job, which is of a later dialog than all before.
LEMMA StartAnsweredStep ==
  ASSUME DialogInv, StartAnswered
  PROVE  DialogInv'
<1>1. /\ asks \in 0..MaxJobs /\ jobs \in Seq(JobsMade)
      /\ asked.step = "confirm" /\ Len(jobs) \in Nat /\ DOMAIN jobs = 1..Len(jobs)
      /\ Len(jobs) >= 1 /\ jobs[Len(jobs)].ask = asks
  BY DEF DialogInv, DialogTypeOK, AskInv, JobsMade, StartAnswered
<1>0. PICK d \in JobsMade : d = jobs[Len(jobs)]
  BY <1>1
<1>2. PICK last \in JobsMade : /\ last = [jobs[Len(jobs)] EXCEPT !.fate = "followed"]
                               /\ last.ask = asks /\ last.fate = "followed"
  <2>1. \E e \in JobsMade : /\ e = [d EXCEPT !.fate = "followed"]
                            /\ e.fate = "followed" /\ e.ask = d.ask /\ e.state = d.state
    BY JobMade
  <2>. QED  BY <1>0, <1>1, <2>1
<1>3. jobs' = [jobs EXCEPT ![Len(jobs)] = last]
  BY <1>2 DEF StartAnswered
<1>4. /\ jobs' \in Seq(JobsMade) /\ Len(jobs') = Len(jobs) /\ jobs'[Len(jobs)] = last
      /\ DOMAIN jobs' = DOMAIN jobs /\ Len(jobs) \in DOMAIN jobs
      /\ \A j \in DOMAIN jobs : j # Len(jobs) => jobs'[j] = jobs[j]
  BY <1>1, <1>3
<1>5. /\ asked' = NoDialog /\ NoDialog.step = "none" /\ NoDialog.busy = "no" /\ NoDialog \in Dialogs
      /\ UNCHANGED <<asks, mishaps>>
  BY DEF StartAnswered, NoDialog, Dialogs
<1>6. /\ dock'.job = Len(jobs) /\ dock'.phase = "connecting"
      /\ dock' \in [job : 0..Len(jobs), phase : DockPhases, modal : BOOLEAN]
  BY <1>1 DEF StartAnswered, DockPhases
<1>7. DialogTypeOK'
  <2>1. mishaps \in 0..MaxMishaps
    BY DEF DialogInv, DialogTypeOK
  <2>. QED  BY <1>1, <1>4, <1>5, <1>6, <2>1 DEF DialogTypeOK, Dialogs, JobsMade, DockPhases
<1>8. AskInv'
  <2>1. \A j \in DOMAIN jobs' : jobs'[j].ask <= asks
    BY <1>1, <1>2, <1>4 DEF DialogInv, AskInv
  <2>. QED  BY <1>5, <2>1 DEF AskInv
<1>9. FollowInv'
  <2>1. dock'.job # 0 /\ dock'.phase \notin {"idle", "over"}
    BY <1>1, <1>6
  <2>2. jobs'[dock'.job].fate = "followed"
    BY <1>2, <1>4, <1>6
  <2>. QED  BY <2>1, <2>2 DEF FollowInv
<1>10. RunningIsOnTheDock'
  <2>. SUFFICES ASSUME NEW j \in DOMAIN jobs', jobs'[j].fate = "followed", dock'.job # j
                PROVE  \E k \in DOMAIN jobs' : jobs'[k].fate # "unheard" /\ jobs'[k].ask > jobs'[j].ask
    BY DEF RunningIsOnTheDock
  <2>1. j \in DOMAIN jobs /\ jobs'[j] = jobs[j]
    BY <1>4, <1>6
  <2>2. jobs[j].ask < asks
    BY <1>1, <2>1 DEF DialogInv, AskInv
  <2>3. jobs'[Len(jobs)].fate # "unheard" /\ jobs'[Len(jobs)].ask = asks
    BY <1>2, <1>4
  <2>4. asks > jobs'[j].ask
    BY <1>1, <2>1, <2>2 DEF JobsMade
  <2>. QED  BY <1>4, <2>3, <2>4
<1>. QED  BY <1>7, <1>8, <1>9, <1>10 DEF DialogInv

\* A step of the dock that follows no other job.
LEMMA DockStep ==
  ASSUME DialogInv, UNCHANGED <<asked, asks, jobs>>, mishaps' \in 0..MaxMishaps,
         dock' \in [job : 0..Len(jobs), phase : DockPhases, modal : BOOLEAN],
         dock'.job = dock.job, dock'.phase = "idle" <=> dock.phase = "idle",
         dock'.phase = "over" => jobs[dock.job].state = "over"
  PROVE  DialogInv'
<1>1. DialogTypeOK'
  BY DEF DialogInv, DialogTypeOK, DockPhases
<1>. QED  BY <1>1 DEF DialogInv, AskInv, FollowInv, RunningIsOnTheDock

\* The dock lets go of a job that is over or was dismissed.
LEMMA DockFreed ==
  ASSUME DialogInv, UNCHANGED asks, asked' = asked \/ asked' = NoDialog, mishaps' \in 0..MaxMishaps, dock' = NoDock,
         \/ jobs' = jobs /\ (dock.job # 0 => jobs[dock.job].state = "over")
         \/ jobs' = [jobs EXCEPT ![dock.job].fate = "dismissed"] /\ dock.job # 0 /\ asked' = asked
  PROVE  DialogInv'
<1>1. /\ asks \in 0..MaxJobs /\ jobs \in Seq(JobsMade) /\ Len(jobs) \in Nat /\ DOMAIN jobs = 1..Len(jobs)
      /\ dock.job \in 0..Len(jobs) /\ (dock.job # 0 => jobs[dock.job].fate = "followed" /\ dock.job \in DOMAIN jobs)
  BY DEF DialogInv, DialogTypeOK, JobsMade, FollowInv
<1>2. /\ jobs' \in Seq(JobsMade) /\ Len(jobs') = Len(jobs) /\ DOMAIN jobs' = DOMAIN jobs
      /\ \A j \in DOMAIN jobs : /\ jobs'[j].ask = jobs[j].ask
                                /\ jobs'[j].fate = "unheard" <=> jobs[j].fate = "unheard"
                                /\ jobs'[j].fate = "followed" => jobs[j].fate = "followed"
                                /\ jobs'[j].state = jobs[j].state
                                /\ j = dock.job => jobs'[j].state = "over" \/ jobs'[j].fate = "dismissed"
  <2>1. CASE jobs' = jobs /\ (dock.job # 0 => jobs[dock.job].state = "over")
    BY <1>1, <2>1
  <2>2. CASE jobs' = [jobs EXCEPT ![dock.job].fate = "dismissed"] /\ dock.job # 0
    <3>0. jobs[dock.job] \in JobsMade
      BY <1>1, <2>2
    <3>1. PICK d \in JobsMade : /\ d = [jobs[dock.job] EXCEPT !.fate = "dismissed"]
                                /\ d.fate = "dismissed" /\ d.ask = jobs[dock.job].ask
                                /\ d.state = jobs[dock.job].state
      BY <3>0, JobMade
    <3>2. jobs' = [jobs EXCEPT ![dock.job] = d]
      BY <2>2, <3>1
    <3>. QED  BY <1>1, <2>2, <3>1, <3>2
  <2>. QED  BY <2>1, <2>2
<1>3. NoDock.job = 0 /\ NoDock.phase = "idle" /\ NoDock \in [job : 0..Len(jobs), phase : DockPhases, modal : BOOLEAN]
  BY <1>1 DEF NoDock, DockPhases
<1>4. NoDialog.step = "none" /\ NoDialog.busy = "no" /\ NoDialog \in Dialogs /\ asked \in Dialogs
  BY DEF NoDialog, Dialogs, DialogInv, DialogTypeOK
<1>5. DialogTypeOK'
  BY <1>1, <1>2, <1>3, <1>4 DEF DialogTypeOK, Dialogs, JobsMade, DockPhases
<1>6. AskInv'
  BY <1>1, <1>2, <1>4 DEF DialogInv, AskInv
<1>7. FollowInv'
  BY <1>3 DEF FollowInv
<1>8. RunningIsOnTheDock'
  BY <1>2 DEF DialogInv, RunningIsOnTheDock
<1>. QED  BY <1>5, <1>6, <1>7, <1>8 DEF DialogInv

\* The dock: what it hears, and what its user does.
LEMMA DockSteps ==
  ASSUME DialogInv, DockHears \/ DockFails \/ DockEnds \/ Expand \/ Minimise \/ Dismiss \/ ReloadPage
  PROVE  DialogInv'
<1>1. /\ dock \in [job : 0..Len(jobs), phase : DockPhases, modal : BOOLEAN]
      /\ mishaps \in 0..MaxMishaps /\ MaxMishaps \in Nat
      /\ dock.job = 0 <=> dock.phase = "idle"
      /\ dock.phase = "over" => jobs[dock.job].state = "over"
  BY FillDialogsAssumption DEF DialogInv, DialogTypeOK, FollowInv, DockPhases
<1>2. Mishap => mishaps' \in 0..MaxMishaps
  BY <1>1 DEF Mishap
<1>3. CASE DockHears \/ DockFails \/ DockEnds \/ Expand \/ Minimise
  <2>1. PICK p \in DockPhases, m \in BOOLEAN :
          /\ dock' = [dock EXCEPT !.phase = p, !.modal = m]
          /\ p = "idle" <=> dock.phase = "idle"
          /\ p = "over" => jobs[dock.job].state = "over"
    <3>1. CASE DockHears
      BY <1>1, <3>1 DEF DockHears, DockPhases
    <3>2. CASE DockFails
      BY <1>1, <3>2 DEF DockFails, DockPhases
    <3>3. CASE DockEnds
      BY <1>1, <3>3 DEF DockEnds, DockPhases
    <3>4. CASE Expand \/ Minimise
      BY ZenonT(40), <1>1, <3>4 DEF Expand, Minimise, DockPhases
    <3>. QED  BY <1>3, <3>1, <3>2, <3>3, <3>4
  <2>2. UNCHANGED <<asked, asks, jobs>> /\ mishaps' \in 0..MaxMishaps
    BY <1>1, <1>2, <1>3 DEF DockHears, DockFails, DockEnds, Expand, Minimise
  <2>. QED  BY <1>1, <2>1, <2>2, DockStep
<1>4. CASE Dismiss
  BY <1>1, <1>4, DockFreed DEF Dismiss, CanDismiss, Modal
<1>5. CASE ReloadPage
  <2>1. mishaps' \in 0..MaxMishaps /\ asked' = NoDialog /\ UNCHANGED <<asks, jobs>>
    BY <1>2, <1>5 DEF ReloadPage
  <2>2. CASE dock.job # 0 /\ dock.phase # "over"
    <3>1. dock' = [dock EXCEPT !.phase = "connecting", !.modal = FALSE]
      BY <1>5, <2>2 DEF ReloadPage
    <3>2. dock' \in [job : 0..Len(jobs), phase : DockPhases, modal : BOOLEAN]
          /\ dock'.job = dock.job /\ dock'.phase = "connecting"
      BY <1>1, <3>1 DEF DockPhases
    <3>3. NoDialog.step = "none" /\ NoDialog.busy = "no" /\ NoDialog \in Dialogs
      BY DEF NoDialog, Dialogs
    <3>4. DialogTypeOK'
      BY <2>1, <3>2, <3>3 DEF DialogInv, DialogTypeOK, DockPhases, Dialogs
    <3>. QED  BY <2>1, <2>2, <3>2, <3>3, <3>4 DEF DialogInv, AskInv, FollowInv, RunningIsOnTheDock
  <2>3. CASE ~(dock.job # 0 /\ dock.phase # "over")
    BY <1>1, <1>5, <2>1, <2>3, DockFreed DEF ReloadPage
  <2>. QED  BY <2>2, <2>3
<1>. QED  BY <1>3, <1>4, <1>5

\* A job ends.
LEMMA JobOverStep ==
  ASSUME DialogInv, NEW j \in DOMAIN jobs, JobOver(j)
  PROVE  DialogInv'
<1>1. /\ jobs \in Seq(JobsMade) /\ Len(jobs) \in Nat /\ DOMAIN jobs = 1..Len(jobs) /\ dock.job \in 0..Len(jobs)
  BY DEF DialogInv, DialogTypeOK, JobsMade
<1>2. PICK d \in JobsMade : /\ d = [jobs[j] EXCEPT !.state = "over"]
                            /\ d.state = "over" /\ d.ask = jobs[j].ask /\ d.fate = jobs[j].fate
  BY <1>1, JobMade
<1>3. jobs' = [jobs EXCEPT ![j] = d]
  BY <1>2 DEF JobOver
<1>4. /\ jobs' \in Seq(JobsMade) /\ Len(jobs') = Len(jobs) /\ DOMAIN jobs' = DOMAIN jobs
      /\ \A k \in DOMAIN jobs : /\ jobs'[k].ask = jobs[k].ask /\ jobs'[k].fate = jobs[k].fate
                                /\ jobs'[k].state = "running" => jobs[k].state = "running"
                                /\ jobs[k].state = "over" => jobs'[k].state = "over"
  BY <1>1, <1>2, <1>3
<1>5. UNCHANGED <<asked, asks, dock, mishaps>>
  BY DEF JobOver
<1>6. DialogTypeOK'
  BY <1>4, <1>5 DEF DialogInv, DialogTypeOK, JobsMade
<1>7. AskInv'
  BY SMTT(30), <1>1, <1>4, <1>5 DEF DialogInv, AskInv
<1>8. FollowInv'
  <2>1. dock.job # 0 => dock.job \in DOMAIN jobs
    BY <1>1
  <2>. QED  BY <1>4, <1>5, <2>1 DEF DialogInv, FollowInv
<1>9. RunningIsOnTheDock'
  BY <1>4, <1>5 DEF DialogInv, RunningIsOnTheDock
<1>. QED  BY <1>6, <1>7, <1>8, <1>9 DEF DialogInv

\* No step of the dialogs' page breaks the invariant.
LEMMA DialogInvStep ==
  ASSUME DialogInv, [DialogNext]_dialogVars
  PROVE  DialogInv'
<1>1. CASE UNCHANGED dialogVars
  BY <1>1 DEF dialogVars, DialogInv, DialogTypeOK, AskInv, FollowInv, RunningIsOnTheDock
<1>. QED  BY <1>1, AskSteps, StartHandledStep, StartAnsweredStep, DockSteps, JobOverStep DEF DialogNext

-----------------------------------------------------------------------------
(* The log that the view reads                                             *)

\* The server has gone down with the job: the worker is no more, and no one
\* writes the status.
GoneDown == pc = "ended" /\ job = "running"

\* The events about one record.
ItemEvents == Outcomes \cup {"item_start"}

\* The shape of a log: start first, the end of the job last, the totals right
\* before the end of a job that completed, no record begun twice.
EventShape(n) ==
  /\ log[n].type = "start" <=> n = 1
  /\ log[n].type = "start" => log[n].count = Len(ids)
  /\ log[n].type \in ItemEvents => log[n].item \in Items
  /\ log[n].type \in Over => n = Len(log) /\ job = log[n].type
  /\ log[n].type = "done" =>
       /\ job = "completed" /\ n + 1 = Len(log)
       /\ log[n].tokens = sum.tokens /\ log[n].count = sum.updated

\* The log as a whole: empty before the job, closed by its end.
ShapeInv ==
  /\ job = "none" <=> Len(log) = 0
  /\ \A n \in DOMAIN log : EventShape(n)
  /\ job \in Over => log[Len(log)].type = job
  /\ job = "completed" => Len(log) >= 2 /\ log[Len(log) - 1].type = "done"
  /\ \A m, n \in DOMAIN log :
       m < n /\ log[m].type \in Outcomes /\ log[n].type \in ItemEvents =>
         log[m].item # log[n].item

\* The records with an outcome are behind the worker.
PastInv == \A n \in DOMAIN log : log[n].type \in Outcomes => Past(log[n].item)

\* What holds while the worker is there.
WorkInv == PlaceInv /\ TellsInv /\ PastInv

\* The worker and its log, or what is left of them.
JobInv ==
  /\ FillTypeOK /\ ShapeInv
  /\ IF GoneDown THEN ~known /\ conn # "open" ELSE WorkInv

-----------------------------------------------------------------------------
(* Lemmas on the log                                                       *)

\* What a step of the worker, or of anybody else, does to the log.
Rests  == UNCHANGED <<log, job, ids, idx, sum>>
Starts ==
  /\ job = "none" /\ job' = "running" /\ Len(ids') \in Nat /\ idx' = 1
  /\ \E e \in Event : log' = <<e>> /\ e.type = "start" /\ e.count = Len(ids')
Goes(e) ==
  /\ job = "running" /\ pc \in AtWork /\ UNCHANGED <<job, ids>>
  /\ log' = Append(log, e) /\ e.type \in ItemEvents /\ e.item = Item
  /\ IF e.type \in Outcomes THEN Advance ELSE idx' = idx
Ends(e) ==
  /\ job = "running" /\ UNCHANGED <<ids, idx>>
  /\ job' \in {"failed", "cancelled"} /\ e.type = job' /\ log' = Append(log, e)
Sums(d, e) ==
  /\ job = "running" /\ job' = "completed" /\ UNCHANGED <<ids, idx, sum>>
  /\ d.type = "done" /\ d.tokens = sum.tokens /\ d.count = sum.updated
  /\ e.type = "completed" /\ log' = log \o <<d, e>>

\* There are no other steps: each step of the worker or of others is one of these.
LEMMA FillMoves ==
  ASSUME Typed, FillNext
  PROVE  \/ Rests \/ Starts
         \/ \E e \in Event : Goes(e) \/ Ends(e)
         \/ \E d \in Event, e \in Event : Sums(d, e)
<1>. USE DEF dbVars, reqVars, itemVars, workerVars, userVars
<1>1. pc \in AtWork \cup {"summary"} => job = "running"
  BY DEF Typed, FillTypeOK, PlaceInv, AtWork, Over
<1>2. pc \in AtWork => Item \in Items \cup {None}
  BY TypedPlace
<1>3. CASE SkipItem
  <2>1. "item_skipped" \in EventTypes /\ pc \in AtWork
    BY <1>3 DEF EventTypes, SkipItem, AtWork
  <2>2. PICK e \in Event : e = Ev("item_skipped", Item) /\ e.type = "item_skipped" /\ e.item = Item
    BY <1>2, <2>1, PlainEvent
  <2>3. Goes(e)
    BY <1>1, <1>3, <2>1, <2>2 DEF SkipItem, Goes, ItemEvents, Outcomes
  <2>. QED  BY <2>3
<1>4. CASE BeginItem
  <2>1. "item_start" \in EventTypes /\ pc \in AtWork
    BY <1>4 DEF EventTypes, BeginItem, AtWork
  <2>2. PICK e \in Event : e = Ev("item_start", Item) /\ e.type = "item_start" /\ e.item = Item
    BY <1>2, <2>1, PlainEvent
  <2>3. Goes(e)
    BY <1>1, <1>4, <2>1, <2>2 DEF BeginItem, Goes, ItemEvents, Outcomes
  <2>. QED  BY <2>3
<1>5. CASE ItemCrashed
  <2>1. "item_error" \in EventTypes /\ pc \in AtWork
    BY <1>5 DEF EventTypes, ItemCrashed, AtWork
  <2>2. PICK e \in Event : e = Ev("item_error", Item) /\ e.type = "item_error" /\ e.item = Item
    BY <1>2, <2>1, PlainEvent
  <2>3. Goes(e)
    BY <1>1, <1>5, <2>1, <2>2 DEF ItemCrashed, Goes, ItemEvents, Outcomes
  <2>. QED  BY <2>3
<1>6. CASE ReportItem
  <2>1. pc \in AtWork /\ Item \in Items /\ updated \in SUBSET Classes /\ got \in Nat
    BY <1>6, TypedPlace DEF ReportItem, AtWork, Typed, FillTypeOK
  <2>2. PICK e \in Event : /\ e = [Ev("item_done", Item) EXCEPT !.updated = updated, !.tokens = got]
                           /\ e.type = "item_done" /\ e.item = Item
    BY <2>1, DoneEvent
  <2>3. Goes(e)
    BY <1>1, <1>6, <2>1, <2>2 DEF ReportItem, Goes, ItemEvents, Outcomes
  <2>. QED  BY <2>3
<1>7. CASE SaveFailed \/ CancelFill
  <2>1. PICK status \in {"failed", "cancelled"} : EndJob(status) /\ UNCHANGED <<ids, idx>>
    BY <1>7 DEF SaveFailed, CancelFill
  <2>2. status \in Over
    BY DEF Over
  <2>3. PICK e \in Event : e = Ev(status, None) /\ e.type = status
    BY <2>2, EndEvent
  <2>4. job = "running"
    BY <1>1, <1>7 DEF SaveFailed, CancelFill, AtWork
  <2>5. Ends(e)
    BY <2>1, <2>3, <2>4 DEF EndJob, Ends
  <2>. QED  BY <2>5
<1>8. CASE Summarise
  <2>1. PICK d \in Event, e \in Event :
          /\ log' = log \o <<d, e>>
          /\ d.type = "done" /\ d.tokens = sum.tokens /\ d.count = sum.updated
          /\ e.type = "completed"
    BY <1>8, SummaryEvents
  <2>2. Sums(d, e)
    BY <1>1, <1>8, <2>1 DEF Summarise, Sums
  <2>. QED  BY <2>2
<1>9. CASE FillStart
  <2>1. PICK request \in Lists(Items), wanted \in Lists(Classes), overwrite \in BOOLEAN :
          StartFill(request, wanted, overwrite)
    BY <1>9 DEF FillStart
  <2>2. Len(request) \in Nat
    BY ListsAreLists, BulkFillAssumption
  <2>3. PICK e \in Event : /\ e = [Ev("start", None) EXCEPT !.count = Len(request)]
                           /\ e.type = "start" /\ e.count = Len(request)
    BY <2>2, StartEvent
  <2>4. Starts
    BY <2>1, <2>2, <2>3 DEF StartFill, Starts
  <2>. QED  BY <2>4
<1>10. CASE ClassFailed \/ SaveItem \/ Others \/ \E usable \in BOOLEAN, tokens \in Usages : ClassAnswered(usable, tokens)
  BY <1>10 DEF Rests, ClassFailed, ClassAnswered, SaveItem, Others, Trash, Restore, Purge,
               CallBegin, CallEnd, Edit
<1>. QED  BY <1>3, <1>4, <1>5, <1>6, <1>7, <1>8, <1>9, <1>10 DEF FillNext, FillStep

\* One more event.
LEMMA ShapeAppend ==
  ASSUME log \in Seq(Event), ShapeInv, job = "running", NEW e \in Event, log' = Append(log, e), ids' = ids,
         e.type \notin {"start", "done"}, job' \in {"running", "failed", "cancelled"},
         job' \in Over <=> e.type \in Over, e.type \in Over => job' = e.type,
         e.type \in ItemEvents => e.item \in Items,
         e.type \in ItemEvents => \A m \in DOMAIN log : log[m].type \in Outcomes => log[m].item # e.item
  PROVE  ShapeInv'
<1>1. /\ Len(log) \in Nat /\ Len(log') = Len(log) + 1 /\ log'[Len(log) + 1] = e
      /\ DOMAIN log = 1..Len(log) /\ DOMAIN log' = 1..(Len(log) + 1)
      /\ \A n \in 1..Len(log) : log'[n] = log[n]
  OBVIOUS
<1>2. Len(log) # 0 /\ job' # "none" /\ job' # "completed"
  BY DEF ShapeInv
<1>3. ASSUME NEW n \in DOMAIN log'
      PROVE  EventShape(n)'
  <2>1. CASE n \in 1..Len(log)
    <3>1. EventShape(n) /\ log'[n] = log[n]
      BY <1>1, <2>1 DEF ShapeInv
    <3>2. log[n].type \notin Over /\ log[n].type # "done"
      BY <3>1 DEF EventShape, Over
    <3>. QED  BY <3>1, <3>2 DEF EventShape
  <2>2. CASE n = Len(log) + 1
    <3>1. log'[n] = e /\ n # 1 /\ n = Len(log')
      BY <1>1, <1>2, <2>2
    <3>. QED  BY <3>1 DEF EventShape, ItemEvents, Outcomes, Over
  <2>. QED  BY <1>1, <2>1, <2>2
<1>4. ASSUME NEW m \in DOMAIN log', NEW n \in DOMAIN log', m < n,
             log'[m].type \in Outcomes, log'[n].type \in ItemEvents
      PROVE  log'[m].item # log'[n].item
  <2>1. m \in DOMAIN log /\ log'[m] = log[m]
    BY <1>1, <1>4
  <2>2. CASE n \in 1..Len(log)
    BY <1>1, <1>4, <2>1, <2>2 DEF ShapeInv
  <2>3. CASE n = Len(log) + 1
    BY <1>1, <1>4, <2>1, <2>3
  <2>. QED  BY <1>1, <2>2, <2>3
<1>5. job' \in Over => log'[Len(log')].type = job'
  BY <1>1
<1>6. \A n \in DOMAIN log' : EventShape(n)'
  BY <1>3
<1>7. \A m, n \in DOMAIN log' :
        m < n /\ log'[m].type \in Outcomes /\ log'[n].type \in ItemEvents => log'[m].item # log'[n].item
  BY <1>4
<1>8. job' # "none" /\ job' # "completed" /\ Len(log') # 0
  BY <1>1, <1>2
<1>. QED  BY <1>5, <1>6, <1>7, <1>8 DEF ShapeInv

\* The totals and the end keep the shape.
LEMMA ShapeSums ==
  ASSUME log \in Seq(Event), ShapeInv, NEW d \in Event, NEW e \in Event, Sums(d, e)
  PROVE  ShapeInv'
<1>1. /\ Len(log) \in Nat /\ Len(log') = Len(log) + 2
      /\ log'[Len(log) + 1] = d /\ log'[Len(log) + 2] = e
      /\ DOMAIN log = 1..Len(log) /\ DOMAIN log' = 1..(Len(log) + 2)
      /\ \A n \in 1..Len(log) : log'[n] = log[n]
  <2>1. <<d, e>> \in Seq(Event) /\ Len(<<d, e>>) = 2
    OBVIOUS
  <2>. QED  BY <2>1 DEF Sums
<1>2. Len(log) # 0 /\ job = "running" /\ job' = "completed" /\ ids' = ids /\ sum' = sum
  BY DEF ShapeInv, Sums
<1>3. ASSUME NEW n \in DOMAIN log'
      PROVE  /\ EventShape(n)'
             /\ n \notin 1..Len(log) => log'[n].type \notin ItemEvents
  <2>1. CASE n \in 1..Len(log)
    <3>1. EventShape(n) /\ log'[n] = log[n]
      BY <1>1, <2>1 DEF ShapeInv
    <3>2. log[n].type \notin Over /\ log[n].type # "done"
      BY <1>2, <3>1 DEF EventShape, Over
    <3>. QED  BY <1>2, <2>1, <3>1, <3>2 DEF EventShape
  <2>2. CASE n = Len(log) + 1
    <3>1. log'[n] = d /\ n # 1 /\ n + 1 = Len(log')
      BY <1>1, <1>2, <2>2
    <3>. QED  BY <1>2, <3>1 DEF EventShape, Sums, Over, ItemEvents, Outcomes
  <2>3. CASE n = Len(log) + 2
    <3>1. log'[n] = e /\ n # 1 /\ n = Len(log')
      BY <1>1, <1>2, <2>3
    <3>. QED  BY <1>2, <3>1 DEF EventShape, Sums, Over, ItemEvents, Outcomes
  <2>. QED  BY <1>1, <2>1, <2>2, <2>3
<1>4. ASSUME NEW m \in DOMAIN log', NEW n \in DOMAIN log', m < n,
             log'[m].type \in Outcomes, log'[n].type \in ItemEvents
      PROVE  log'[m].item # log'[n].item
  <2>1. m \in 1..Len(log) /\ n \in 1..Len(log)
    BY <1>3, <1>4 DEF ItemEvents
  <2>. QED  BY <1>1, <1>4, <2>1 DEF ShapeInv
<1>5. /\ Len(log') # 0 /\ Len(log') >= 2 /\ Len(log') - 1 = Len(log) + 1
      /\ log'[Len(log')].type = "completed" /\ log'[Len(log') - 1].type = "done"
  BY <1>1 DEF Sums
<1>6. \A n \in DOMAIN log' : EventShape(n)'
  BY <1>3
<1>7. \A m, n \in DOMAIN log' :
        m < n /\ log'[m].type \in Outcomes /\ log'[n].type \in ItemEvents => log'[m].item # log'[n].item
  BY <1>4
<1>8. job' # "none" /\ log'[Len(log')].type = job'
  BY <1>2, <1>5
<1>. QED  BY <1>5, <1>6, <1>7, <1>8 DEF ShapeInv

\* So does the start.
LEMMA ShapeStarts ==
  ASSUME Starts
  PROVE  ShapeInv'
<1>1. PICK e \in Event : log' = <<e>> /\ e.type = "start" /\ e.count = Len(ids')
  BY DEF Starts
<1>2. Len(log') = 1 /\ DOMAIN log' = {1} /\ log'[1] = e /\ job' = "running"
  BY <1>1 DEF Starts
<1>3. EventShape(1)'
  BY <1>1, <1>2 DEF EventShape, Over, ItemEvents, Outcomes
<1>4. \A n \in DOMAIN log' : EventShape(n)'
  BY <1>2, <1>3
<1>. QED  BY <1>2, <1>4 DEF ShapeInv, Over

\* So does a step that leaves the log and its job alone.
LEMMA ShapeFrame ==
  ASSUME ShapeInv, UNCHANGED <<log, job, ids, sum>>
  PROVE  ShapeInv'
BY DEF ShapeInv, EventShape

\* The worker and everybody else, as long as the server is up.
LEMMA WorkStep ==
  ASSUME FillTypeOK, ShapeInv, WorkInv, FillNext
  PROVE  FillTypeOK' /\ ShapeInv' /\ WorkInv' /\ ~GoneDown'
<1>1. Typed /\ TellsInv /\ PastInv
  BY DEF Typed, WorkInv
<1>2. Typed'
  BY <1>1, TypedStep
<1>3. TellsInv'
  BY <1>1, <1>2, TellsStep
<1>4. ~GoneDown'
  BY <1>2 DEF GoneDown, Typed, PlaceInv, Over
<1>5. log \in Seq(Event) /\ DOMAIN log = 1..Len(log) /\ Len(log) \in Nat
  BY DEF FillTypeOK
<1>6. CASE Rests
  <2>1. PastInv'
    BY <1>1, <1>6 DEF Rests, PastInv, Past
  <2>2. ShapeInv'
    BY <1>6, ShapeFrame DEF Rests
  <2>. QED  BY <1>2, <1>3, <1>4, <2>1, <2>2 DEF Typed, WorkInv
<1>7. CASE Starts
  <2>1. PastInv'
    BY <1>7 DEF Starts, PastInv, Outcomes
  <2>2. ShapeInv'
    BY <1>7, ShapeStarts
  <2>. QED  BY <1>2, <1>3, <1>4, <2>1, <2>2 DEF Typed, WorkInv
<1>8. ASSUME NEW e \in Event, Goes(e)
      PROVE  PastInv' /\ ShapeInv'
  <2>1. ~Past(Item) /\ Item \in Items /\ e.item = Item
    BY <1>1, <1>8, ItemIsAhead DEF Goes
  <2>2. \A n \in DOMAIN log' : log'[n] = e \/ (n \in DOMAIN log /\ log'[n] = log[n])
    BY <1>1, <1>8, Appended DEF Goes
  <2>3. /\ \A i : Past(i) => Past(i)'
        /\ e.type \in Outcomes => Past(e.item)'
    <3>1. CASE e.type \in Outcomes
      <4>1. \A i : Past(i)' <=> (Past(i) \/ i = Item)
        BY <1>1, <1>8, <3>1, AdvanceTyped DEF Goes
      <4>. QED  BY <2>1, <4>1
    <3>2. CASE e.type \notin Outcomes
      BY <1>8, <3>2 DEF Goes, Past
    <3>. QED  BY <3>1, <3>2
  <2>4. PastInv'
    <3>1. \A n \in DOMAIN log : log[n].type \in Outcomes => Past(log[n].item)
      BY <1>1 DEF PastInv
    <3>2. \A n \in DOMAIN log' : \A i : log'[n].type \in Outcomes /\ i = log'[n].item => Past(i)'
      BY <2>2, <2>3, <3>1
    <3>. QED  BY <3>2 DEF PastInv
  <2>5. \A m \in DOMAIN log : log[m].type \in Outcomes => log[m].item # e.item
    BY <1>1, <2>1 DEF PastInv
  <2>6. ShapeInv'
    <3>1. e.type \notin Over /\ e.type \notin {"start", "done"} /\ job = "running" /\ job' = "running" /\ job \notin Over
      BY <1>8 DEF Goes, ItemEvents, Outcomes, Over
    <3>. QED  BY <1>5, <1>8, <2>1, <2>5, <3>1, ShapeAppend DEF Goes
  <2>. QED  BY <2>4, <2>6
<1>9. ASSUME NEW e \in Event, Ends(e)
      PROVE  PastInv' /\ ShapeInv'
  <2>1. \A n \in DOMAIN log' : log'[n] = e \/ (n \in DOMAIN log /\ log'[n] = log[n])
    BY <1>1, <1>9, Appended DEF Ends
  <2>2. /\ e.type \in Over /\ e.type \notin ItemEvents /\ e.type \notin Outcomes
        /\ e.type \notin {"start", "done"} /\ job' = e.type /\ job' \in {"failed", "cancelled"}
    BY <1>9 DEF Ends, ItemEvents, Outcomes, Over
  <2>3. \A i : Past(i)' <=> Past(i)
    BY <1>9 DEF Ends, Past
  <2>4. PastInv'
    <3>1. \A n \in DOMAIN log' : \A i : log'[n].type \in Outcomes /\ i = log'[n].item => Past(i)'
      BY <1>1, <2>1, <2>2, <2>3 DEF PastInv
    <3>. QED  BY <3>1 DEF PastInv
  <2>5. ShapeInv'
    BY <1>5, <1>9, <2>2, ShapeAppend DEF Ends
  <2>. QED  BY <2>4, <2>5
<1>10. ASSUME NEW d \in Event, NEW e \in Event, Sums(d, e)
       PROVE  PastInv' /\ ShapeInv'
  <2>1. /\ DOMAIN log' = 1..(Len(log) + 2) /\ \A n \in 1..Len(log) : log'[n] = log[n]
        /\ log'[Len(log) + 1] = d /\ log'[Len(log) + 2] = e
    <3>1. <<d, e>> \in Seq(Event) /\ Len(<<d, e>>) = 2
      OBVIOUS
    <3>. QED  BY <1>5, <1>10, <3>1 DEF Sums
  <2>2. d.type \notin Outcomes /\ e.type \notin Outcomes
    BY <1>10 DEF Sums, Outcomes
  <2>3. \A n \in DOMAIN log' : log'[n].type \in Outcomes => n \in DOMAIN log /\ log'[n] = log[n]
    <3>1. \A n \in DOMAIN log' : n \in 1..Len(log) \/ n = Len(log) + 1 \/ n = Len(log) + 2
      BY <1>5, <2>1
    <3>. QED  BY <1>5, <2>1, <2>2, <3>1
  <2>4. \A i : Past(i)' <=> Past(i)
    BY <1>10 DEF Sums, Past
  <2>5. PastInv'
    <3>1. \A n \in DOMAIN log' : \A i : log'[n].type \in Outcomes /\ i = log'[n].item => Past(i)'
      BY <1>1, <2>3, <2>4 DEF PastInv
    <3>. QED  BY <3>1 DEF PastInv
  <2>. QED  BY <1>5, <1>10, <2>5, ShapeSums
<1>11. PastInv' /\ ShapeInv'
  <2>1. CASE Rests \/ Starts
    BY <1>6, <1>7, <2>1 DEF WorkInv
  <2>. QED  BY <1>1, <1>8, <1>9, <1>10, <2>1, FillMoves
<1>. QED  BY <1>2, <1>3, <1>4, <1>11 DEF Typed, WorkInv

\* After a restart only the rows change.
LEMMA DownStep ==
  ASSUME FillTypeOK, ShapeInv, GoneDown, FillNext
  PROVE  FillTypeOK' /\ ShapeInv' /\ GoneDown' /\ UNCHANGED workerVars
<1>1. Others
  BY DEF GoneDown, FillNext, FillStep, SkipItem, BeginItem, ClassFailed, ItemCrashed, ClassAnswered, SaveItem,
         SaveFailed, ReportItem, Summarise, CancelFill, FillStart, StartFill
<1>2. FillTypeOK' /\ UNCHANGED workerVars
  BY <1>1, TypesOthers
<1>. QED  BY <1>2, ShapeFrame DEF GoneDown, workerVars, reqVars

-----------------------------------------------------------------------------
(* The view                                                                *)

\* The phase of the view and its connection.
PhaseInv ==
  /\ ~told => view = Blank /\ conn = "none" /\ ~persisted
  /\ told => job # "none"
  /\ conn # "none" => persisted
  /\ view.phase = "idle" => conn = "none"
  /\ view.phase = "connecting" => conn # "open"
  /\ view.phase \in {"completed", "cancelled"} => conn = "none" /\ job = view.phase

\* What this connection has delivered is in the view.
HeardInv ==
  conn = "open" =>
    /\ \A n \in 1..pos : log[n].type \in Outcomes => view.items[log[n].item] = log[n].type
    /\ OutcomesIn(pos) <= view.completed
    /\ pos >= 1 =>
         /\ view.total = Len(ids) /\ log[pos].type \notin Over
         /\ log[pos].type = "done" => view.itemsUpdated = sum.updated /\ view.tokens = sum.tokens

\* What holds of the view, whatever the number of processes.
ViewInv ==
  /\ ClientTypeOK /\ PhaseInv /\ HeardInv
  /\ ViewIsOfTheLog /\ CompletedViewIsTrue /\ ReloadResumes

\* With one process.
OneProcessInv == LiveViewCanEnd /\ FailedViewIsTrue

\* The inductive invariant of the view, its job and the server.
DockInv == JobInv /\ ViewInv

-----------------------------------------------------------------------------
(* The log grows under the view                                            *)

\* A log is only added to, and not after its end; a request that was made is
\* not changed.
Onward ==
  /\ log \in Seq(Event) /\ log' \in Seq(Event) /\ Len(log) <= Len(log')
  /\ \A n \in 1..Len(log) : log'[n] = log[n]
  /\ job # "none" => job' # "none" /\ ids' = ids
  /\ job \in Over => UNCHANGED <<log, job, sum>>

\* A log that stays goes on.
LEMMA OnwardFrame ==
  ASSUME log \in Seq(Event), UNCHANGED <<log, job, ids, sum>>
  PROVE  Onward
BY DEF Onward

\* Whatever the worker or others do, the log only grows, and not past its end.
LEMMA FillOnward ==
  ASSUME FillTypeOK, ShapeInv, WorkInv, FillNext
  PROVE  Onward
<1>1. Typed /\ log \in Seq(Event) /\ Len(log) \in Nat
  BY DEF Typed, WorkInv, FillTypeOK
<1>2. log' \in Seq(Event) /\ Len(log') \in Nat
  <2>1. FillTypeOK'
    BY WorkStep
  <2>. QED  BY <2>1 DEF FillTypeOK
<1>3. CASE Rests
  BY <1>1, <1>3, OnwardFrame DEF Rests
<1>4. CASE Starts
  <2>1. Len(log) = 0
    BY <1>4 DEF Starts, ShapeInv
  <2>. QED  BY <1>1, <1>2, <1>4, <2>1 DEF Starts, Onward, Over
<1>5. ASSUME NEW e \in Event, Goes(e) \/ Ends(e)
      PROVE  Onward
  <2>1. log' = Append(log, e) /\ ids' = ids /\ job = "running" /\ job' # "none"
    BY <1>5 DEF Goes, Ends
  <2>2. Len(log') = Len(log) + 1 /\ \A n \in 1..Len(log) : log'[n] = log[n]
    BY <1>1, <2>1
  <2>. QED  BY <1>1, <1>2, <2>1, <2>2 DEF Onward, Over
<1>6. ASSUME NEW d \in Event, NEW e \in Event, Sums(d, e)
      PROVE  Onward
  <2>1. log' = log \o <<d, e>> /\ ids' = ids /\ job = "running" /\ job' # "none"
    BY <1>6 DEF Sums
  <2>2. Len(log') = Len(log) + 2 /\ \A n \in 1..Len(log) : log'[n] = log[n]
    <3>1. <<d, e>> \in Seq(Event) /\ Len(<<d, e>>) = 2
      OBVIOUS
    <3>. QED  BY <1>1, <2>1, <3>1
  <2>. QED  BY <1>1, <1>2, <2>1, <2>2 DEF Onward, Over
<1>. QED  BY <1>1, <1>3, <1>4, <1>5, <1>6, FillMoves

\* More of a log has at least as many outcomes.
LEMMA OutcomesGrow ==
  ASSUME NEW l, NEW k, NEW m \in Nat, NEW n \in Nat, m <= n, \A x \in 1..m : k[x] = l[x]
  PROVE  /\ OutcomesOf(l, m) \in Nat /\ OutcomesOf(k, n) \in Nat
         /\ OutcomesOf(k, m) = OutcomesOf(l, m) /\ OutcomesOf(l, m) <= OutcomesOf(k, n)
<1>. DEFINE S == {x \in 1..m : l[x].type \in Outcomes}
            T == {x \in 1..n : k[x].type \in Outcomes}
<1>1. S \subseteq T /\ S = {x \in 1..m : k[x].type \in Outcomes}
  OBVIOUS
<1>2. IsFiniteSet(T)
  <2>1. IsFiniteSet(1..n) /\ T \subseteq 1..n
    BY FS_Interval
  <2>. QED  BY <2>1, FS_Subset
<1>3. IsFiniteSet(S) /\ Cardinality(S) <= Cardinality(T)
  BY <1>1, <1>2, FS_Subset
<1>4. Cardinality(S) \in Nat /\ Cardinality(T) \in Nat
  BY <1>2, <1>3, FS_CardinalityType
<1>5. /\ OutcomesOf(l, m) = Cardinality(S) /\ OutcomesOf(k, n) = Cardinality(T)
      /\ OutcomesOf(k, m) = Cardinality(S)
  BY <1>1 DEF OutcomesOf
<1>. QED  BY <1>3, <1>4, <1>5

\* The next event, if it is an outcome, is one more.
LEMMA OutcomesNext ==
  ASSUME NEW l, NEW n \in Nat
  PROVE  /\ OutcomesOf(l, n) \in Nat /\ OutcomesOf(l, 0) = 0
         /\ l[n + 1].type \notin Outcomes => OutcomesOf(l, n + 1) = OutcomesOf(l, n)
<1>1. OutcomesOf(l, n) \in Nat
  BY OutcomesGrow
<1>2. OutcomesOf(l, 0) = 0
  <2>1. {x \in 1..0 : l[x].type \in Outcomes} = {}
    OBVIOUS
  <2>. QED  BY <2>1, FS_EmptySet DEF OutcomesOf
<1>3. l[n + 1].type \notin Outcomes => OutcomesOf(l, n + 1) = OutcomesOf(l, n)
  <2>1. l[n + 1].type \notin Outcomes =>
          {x \in 1..(n + 1) : l[x].type \in Outcomes} = {x \in 1..n : l[x].type \in Outcomes}
    <3>1. \A x \in 1..(n + 1) : x \in 1..n \/ x = n + 1
      OBVIOUS
    <3>. QED  BY <3>1
  <2>. QED  BY <2>1 DEF OutcomesOf
<1>. QED  BY <1>1, <1>2, <1>3

\* The modules' names for the number of outcomes so far.
LEMMA OutcomesNames ==
  \A n : OutcomesIn(n) = OutcomesOf(log, n) /\ IndexOf(n) = OutcomesOf(log, n)
BY DEF OutcomesIn, IndexOf, OutcomesOf

\* The view goes on being of the log while the log grows.
LEMMA ViewGrows ==
  ASSUME ViewInv, ShapeInv, Onward, FillTypeOK', UNCHANGED clientVars
  PROVE  ViewInv'
<1>. USE DEF clientVars
<1>1. /\ Len(log) \in Nat /\ Len(log') \in Nat /\ Len(log) <= Len(log')
      /\ DOMAIN log = 1..Len(log) /\ DOMAIN log' = 1..Len(log')
      /\ \A n \in 1..Len(log) : log'[n] = log[n]
      /\ pos \in 0..Len(log)
  BY DEF Onward, ViewInv, ClientTypeOK
<1>2. ClientTypeOK'
  BY <1>1 DEF ViewInv, ClientTypeOK
<1>3. /\ OutcomesOf(log', pos) = OutcomesOf(log, pos)
      /\ OutcomesOf(log, Len(log)) <= OutcomesOf(log', Len(log'))
      /\ OutcomesOf(log, Len(log)) \in Nat /\ OutcomesOf(log', Len(log')) \in Nat
  <2>1. \A x \in 1..pos : log'[x] = log[x]
    BY <1>1
  <2>2. pos \in Nat
    BY <1>1
  <2>3. OutcomesOf(log', pos) = OutcomesOf(log, pos)
    BY <2>1, <2>2, OutcomesGrow
  <2>4. \A x \in 1..Len(log) : log'[x] = log[x]
    BY <1>1
  <2>5. /\ OutcomesOf(log, Len(log)) <= OutcomesOf(log', Len(log'))
        /\ OutcomesOf(log, Len(log)) \in Nat /\ OutcomesOf(log', Len(log')) \in Nat
    BY <1>1, <2>4, OutcomesGrow
  <2>. QED  BY <2>3, <2>5
<1>4. OutcomesIn(Len(log))' = OutcomesOf(log', Len(log')) /\ OutcomesIn(pos)' = OutcomesOf(log', pos)
  BY DEF OutcomesIn, OutcomesOf
<1>5. job \in Over => job' = job /\ log' = log /\ sum' = sum /\ ids' = ids
  BY DEF Onward, Over
<1>6. PhaseInv'
  BY <1>5 DEF Onward, ViewInv, PhaseInv, Over
<1>7. HeardInv'
  <2>. SUFFICES ASSUME conn = "open"
                PROVE  HeardInv'
    BY DEF HeardInv
  <2>1. ids' = ids
    BY DEF ViewInv, PhaseInv, Onward
  <2>2. \A n \in 1..pos : log'[n] = log[n]
    BY <1>1
  <2>3. OutcomesIn(pos)' <= view.completed
    BY <1>3, <1>4, OutcomesNames DEF ViewInv, HeardInv
  <2>4. pos >= 1 => /\ view.total = Len(ids) /\ log[pos].type \notin Over /\ log'[pos] = log[pos]
                    /\ log[pos].type = "done" => view.itemsUpdated = sum'.updated /\ view.tokens = sum'.tokens
    <3>1. pos >= 1 => pos \in DOMAIN log /\ pos \in 1..pos
      BY <1>1
    <3>2. pos >= 1 /\ log[pos].type = "done" => job = "completed"
      BY <3>1 DEF ShapeInv, EventShape
    <3>. QED  BY <1>5, <2>2, <3>1, <3>2 DEF ViewInv, HeardInv, Over
  <2>. QED  BY <2>1, <2>2, <2>3, <2>4 DEF ViewInv, HeardInv
<1>8. ViewIsOfTheLog'
  <2>1. \A n \in DOMAIN log : n \in DOMAIN log' /\ log'[n] = log[n]
    BY <1>1
  <2>2. view.completed \in Nat /\ view.completed <= OutcomesOf(log, Len(log))
    BY OutcomesNames DEF ViewInv, ViewIsOfTheLog, ClientTypeOK
  <2>3. view.completed <= OutcomesIn(Len(log))'
    BY <1>3, <1>4, <2>2
  <2>. QED  BY <2>1, <2>3 DEF ViewInv, ViewIsOfTheLog
<1>9. CompletedViewIsTrue' /\ ReloadResumes'
  BY <1>5 DEF ViewInv, PhaseInv, CompletedViewIsTrue, ReloadResumes, Over
<1>. QED  BY <1>2, <1>6, <1>7, <1>8, <1>9 DEF ViewInv

-----------------------------------------------------------------------------
(* The page's own steps                                                    *)

\* The type of a view.
ViewSet ==
  [phase : {"idle"} \cup Live \cup Over, total : Nat, completed : Nat,
   itemsUpdated : Nat, tokens : Nat, items : [Items -> {"none", "item_start"} \cup Outcomes]]

\* What an empty view shows, and one that connects.
LEMMA BlankType ==
  /\ Blank \in ViewSet /\ Blank.phase = "idle" /\ Blank.completed = 0
  /\ \A i \in Items : Blank.items[i] = "none"
  /\ \E v \in ViewSet : /\ v = [Blank EXCEPT !.phase = "connecting"]
                        /\ v.phase = "connecting" /\ v.completed = 0
                        /\ \A i \in Items : v.items[i] = "none"
<1>1. PICK b : b = Blank
  OBVIOUS
<1>2. b = [phase |-> "idle", total |-> 0, completed |-> 0, itemsUpdated |-> 0, tokens |-> 0,
           items |-> [i \in Items |-> "none"]]
  BY <1>1 DEF Blank
<1>3. b \in ViewSet /\ b.phase = "idle" /\ b.completed = 0 /\ \A i \in Items : b.items[i] = "none"
  BY <1>2 DEF ViewSet, Live, Over, Outcomes
<1>4. PICK v : v = [b EXCEPT !.phase = "connecting"]
  OBVIOUS
<1>5. v \in ViewSet /\ v.phase = "connecting" /\ v.completed = 0 /\ \A i \in Items : v.items[i] = "none"
  BY <1>3, <1>4 DEF ViewSet, Live, Over, Outcomes
<1>. QED  BY <1>1, <1>3, <1>4, <1>5

\* Nothing of the page changes, or only what the server knows.
LEMMA ViewFrame ==
  ASSUME ViewInv, FillTypeOK', known' \in BOOLEAN,
         UNCHANGED <<log, ids, job, sum, told, view, persisted, conn, pos, drops, reloads>>
  PROVE  ViewInv'
<1>1. ClientTypeOK'
  BY DEF ViewInv, ClientTypeOK
<1>2. PhaseInv' /\ HeardInv' /\ ViewIsOfTheLog' /\ CompletedViewIsTrue' /\ ReloadResumes'
  BY DEF ViewInv, PhaseInv, HeardInv, ViewIsOfTheLog, CompletedViewIsTrue, ReloadResumes, OutcomesIn
<1>. QED  BY <1>1, <1>2 DEF ViewInv

\* A page that starts anew.
LEMMA BlankStep ==
  ASSUME ViewInv, UNCHANGED <<jobVars, known>>, told', job # "none",
         \/ view' = Blank /\ conn' = "none"
         \/ view' = [Blank EXCEPT !.phase = "connecting"] /\ conn' = "connecting" /\ persisted',
         persisted' \in BOOLEAN, told' \in BOOLEAN, pos' \in 0..Len(log), drops' \in 0..MaxDrops, reloads' \in 0..MaxReloads
  PROVE  ViewInv'
<1>. USE DEF jobVars, fillVars, dbVars, workerVars, reqVars, itemVars, userVars
<1>1. /\ FillTypeOK /\ known \in BOOLEAN
      /\ OutcomesOf(log, Len(log)) \in Nat
  <2>1. FillTypeOK /\ known \in BOOLEAN
    BY DEF ViewInv, ClientTypeOK
  <2>2. Len(log) \in Nat
    BY <2>1 DEF FillTypeOK
  <2>. QED  BY <2>1, <2>2, OutcomesNext
<1>2. FillTypeOK'
  BY <1>1 DEF FillTypeOK
<1>3. PICK v \in ViewSet : /\ view' = v /\ v.completed = 0 /\ \A i \in Items : v.items[i] = "none"
                           /\ \/ v.phase = "idle" /\ conn' = "none"
                              \/ v.phase = "connecting" /\ conn' = "connecting" /\ persisted'
  BY BlankType
<1>4. ClientTypeOK'
  BY <1>1, <1>2, <1>3 DEF ClientTypeOK, ViewSet
<1>5. PhaseInv' /\ HeardInv' /\ CompletedViewIsTrue' /\ ReloadResumes'
  BY <1>3 DEF PhaseInv, HeardInv, CompletedViewIsTrue, ReloadResumes, Live
<1>6. ViewIsOfTheLog'
  <2>1. OutcomesIn(Len(log))' = OutcomesOf(log, Len(log))
    BY DEF OutcomesIn, OutcomesOf
  <2>. QED  BY <1>1, <1>3, <2>1 DEF ViewIsOfTheLog
<1>. QED  BY <1>4, <1>5, <1>6 DEF ViewInv

\* The connection changes, and of the view at most the phase.
LEMMA PhaseStep ==
  ASSUME ViewInv, UNCHANGED <<log, ids, job, sum, persisted, told, reloads>>, FillTypeOK', known' \in BOOLEAN,
         drops' \in 0..MaxDrops, NEW p \in {"idle"} \cup Live \cup Over, view' = [view EXCEPT !.phase = p],
         conn' \in {"none", "connecting", "open"}, conn' # "none" => conn # "none",
         pos' = 0 \/ (pos' = pos /\ conn' # "open"),
         p = view.phase \/ (p \in {"running", "failed"} /\ view.phase = "connecting"),
         p = "connecting" => conn' # "open"
  PROVE  ViewInv'
<1>1. /\ view \in ViewSet /\ pos \in 0..Len(log) /\ Len(log) \in Nat /\ reloads \in 0..MaxReloads
      /\ persisted \in BOOLEAN /\ told \in BOOLEAN
  <2>1. FillTypeOK
    BY DEF ViewInv, ClientTypeOK
  <2>2. Len(log) \in Nat
    BY <2>1 DEF FillTypeOK
  <2>. QED  BY <2>2 DEF ViewInv, ClientTypeOK, ViewSet
<1>2. PICK v \in ViewSet : /\ view' = v /\ v.phase = p /\ v.completed = view.completed /\ v.total = view.total
                           /\ v.itemsUpdated = view.itemsUpdated /\ v.tokens = view.tokens
                           /\ v.items = view.items
  <2>1. PICK v : v = [view EXCEPT !.phase = p]
    OBVIOUS
  <2>2. /\ v \in ViewSet /\ v.phase = p /\ v.completed = view.completed /\ v.total = view.total
        /\ v.itemsUpdated = view.itemsUpdated /\ v.tokens = view.tokens
        /\ v.items = view.items
    BY <1>1, <2>1 DEF ViewSet
  <2>. QED  BY <2>1, <2>2
<1>3. pos' \in 0..Len(log)
  BY <1>1
<1>4. ClientTypeOK'
  BY <1>1, <1>2, <1>3 DEF ClientTypeOK, ViewSet
<1>5. PhaseInv'
  <2>1. ~told => view' = Blank /\ conn' = "none" /\ ~persisted
    <3>. SUFFICES ASSUME ~told
                  PROVE  view' = Blank /\ conn' = "none" /\ ~persisted
      OBVIOUS
    <3>1. view = Blank /\ conn = "none" /\ ~persisted /\ view.phase = "idle"
      BY BlankType DEF ViewInv, PhaseInv
    <3>2. p = "idle" /\ conn' = "none"
      BY <3>1
    <3>3. [view EXCEPT !.phase = p] = view
      BY <1>1, <3>1, <3>2 DEF ViewSet
    <3>. QED  BY <3>1, <3>2, <3>3
  <2>2. conn' # "none" => persisted
    BY DEF ViewInv, PhaseInv
  <2>3. p = "idle" => conn' = "none"
    BY DEF ViewInv, PhaseInv
  <2>4. p \in {"completed", "cancelled"} => conn' = "none" /\ job = p
    BY DEF ViewInv, PhaseInv
  <2>5. told => job # "none"
    BY DEF ViewInv, PhaseInv
  <2>. QED  BY <1>2, <2>1, <2>2, <2>3, <2>4, <2>5 DEF PhaseInv
<1>6. HeardInv'
  <2>1. OutcomesOf(log, 0) = 0 /\ view.completed \in Nat
    BY <1>1, OutcomesNext DEF ViewSet
  <2>2. pos' = 0 => OutcomesIn(pos)' = 0
    BY <2>1 DEF OutcomesIn, OutcomesOf
  <2>. QED  BY <1>2, <2>1, <2>2 DEF HeardInv
<1>7. ViewIsOfTheLog'
  <2>1. OutcomesIn(Len(log))' = OutcomesIn(Len(log))
    BY DEF OutcomesIn
  <2>. QED  BY <1>2, <2>1 DEF ViewInv, ViewIsOfTheLog
<1>8. CompletedViewIsTrue'
  <2>. SUFFICES ASSUME p = "completed"
                PROVE  CompletedViewIsTrue'
    BY <1>2 DEF CompletedViewIsTrue
  <2>. QED  BY <1>2 DEF ViewInv, CompletedViewIsTrue
<1>9. ReloadResumes'
  BY <1>2 DEF ViewInv, ReloadResumes, Live
<1>. QED  BY <1>4, <1>5, <1>6, <1>7, <1>8, <1>9 DEF ViewInv

\* What the n-th event makes of the view v, given as w.
TurnsInto(v, n, w) ==
  /\ w \in ViewSet
  /\ \A i \in Items :
       w.items[i] = IF log[n].type \in ItemEvents /\ log[n].item = i THEN log[n].type ELSE v.items[i]
  /\ w.completed = IF log[n].type \in Outcomes THEN Reached(v, IndexOf(n)) ELSE v.completed
  /\ w.total = IF log[n].type = "start" THEN log[n].count ELSE v.total
  /\ w.phase = IF log[n].type = "start" THEN "running"
               ELSE IF log[n].type \in Over THEN log[n].type ELSE v.phase
  /\ log[n].type = "done" => w.itemsUpdated = log[n].count /\ w.tokens = log[n].tokens
  /\ log[n].type \in Over => w.itemsUpdated = v.itemsUpdated /\ w.tokens = v.tokens

\* An event turns the view into what TurnsInto says.
LEMMA AfterShows ==
  ASSUME FillTypeOK, ShapeInv, NEW n \in DOMAIN log, NEW v \in ViewSet
  PROVE  TurnsInto(v, n, After(v, n))
<1>1. PICK e \in Event : e = log[n]
  BY DEF FillTypeOK
<1>2. /\ e.type \in EventTypes /\ e.tokens \in Nat /\ e.count \in Nat
      /\ e.type \in ItemEvents => e.item \in Items
  BY <1>1, EventSet DEF ShapeInv, EventShape
<1>3. PICK w : w = After(v, n)
  OBVIOUS
<1>4. /\ v.phase \in {"idle"} \cup Live \cup Over /\ v.total \in Nat /\ v.completed \in Nat
      /\ v.itemsUpdated \in Nat /\ v.tokens \in Nat
      /\ v.items \in [Items -> {"none", "item_start"} \cup Outcomes]
  BY DEF ViewSet
<1>5. CASE e.type = "start"
  <2>1. w = [v EXCEPT !.total = e.count, !.phase = "running"]
    BY <1>1, <1>3, <1>5 DEF After, Outcomes, Over
  <2>2. w \in ViewSet
    BY <1>2, <2>1 DEF ViewSet, Live
  <2>3. w.items = v.items /\ w.completed = v.completed /\ w.total = e.count /\ w.phase = "running"
    BY <2>1 DEF ViewSet
  <2>. QED  BY <1>1, <1>3, <1>5, <2>2, <2>3 DEF TurnsInto, ItemEvents, Outcomes, Over
<1>6. CASE e.type = "item_start"
  <2>1. w = [v EXCEPT !.items[e.item] = "item_start"]
    BY <1>1, <1>3, <1>6 DEF After, Outcomes, Over
  <2>2. PICK f : f = [v.items EXCEPT ![e.item] = "item_start"]
    OBVIOUS
  <2>3. /\ f \in [Items -> {"none", "item_start"} \cup Outcomes]
        /\ \A i \in Items : f[i] = IF i = e.item THEN "item_start" ELSE v.items[i]
    BY <1>2, <1>4, <1>6, <2>2 DEF ItemEvents
  <2>4. w = [v EXCEPT !.items = f]
    BY <2>1, <2>2
  <2>5. w \in ViewSet /\ w.items = f /\ w.completed = v.completed /\ w.total = v.total /\ w.phase = v.phase
    BY <2>3, <2>4 DEF ViewSet
  <2>. QED  BY <1>1, <1>3, <1>6, <2>3, <2>5 DEF TurnsInto, ItemEvents, Outcomes, Over
<1>7. CASE e.type \in Outcomes
  <2>1. w = AfterOutcome(v, n)
    BY <1>1, <1>3, <1>7 DEF After, Outcomes, Over
  <2>2. PICK c \in Nat : c = Reached(v, IndexOf(n))
    <3>1. n \in Nat
      BY DEF FillTypeOK
    <3>2. IndexOf(n) \in Nat
      BY <3>1, OutcomesNext, OutcomesNames
    <3>. QED  BY <1>4, <3>2 DEF Reached
  <2>3. PICK u \in Nat : u = IF e.updated # {} THEN v.itemsUpdated + 1 ELSE v.itemsUpdated
    BY <1>4
  <2>4. PICK t \in Nat : t = v.tokens + e.tokens
    BY <1>2, <1>4
  <2>5. PICK f : f = [v.items EXCEPT ![e.item] = e.type]
    OBVIOUS
  <2>6. /\ f \in [Items -> {"none", "item_start"} \cup Outcomes]
        /\ \A i \in Items : f[i] = IF i = e.item THEN e.type ELSE v.items[i]
    BY <1>2, <1>4, <1>7, <2>5 DEF ItemEvents
  <2>7. w = [v EXCEPT !.completed = c, !.itemsUpdated = u, !.tokens = t, !.items = f]
    BY <1>1, <2>1, <2>2, <2>3, <2>4, <2>5 DEF AfterOutcome
  <2>8. w \in ViewSet /\ w.items = f /\ w.completed = c /\ w.total = v.total /\ w.phase = v.phase
    BY <2>6, <2>7 DEF ViewSet
  <2>. QED  BY <1>1, <1>3, <1>7, <2>2, <2>6, <2>8 DEF TurnsInto, ItemEvents, Outcomes, Over
<1>8. CASE e.type = "done"
  <2>1. w = [v EXCEPT !.tokens = e.tokens, !.itemsUpdated = e.count]
    BY <1>1, <1>3, <1>8 DEF After, AfterDone, Outcomes, Over
  <2>2. /\ w \in ViewSet /\ w.items = v.items /\ w.completed = v.completed /\ w.total = v.total
        /\ w.phase = v.phase /\ w.itemsUpdated = e.count /\ w.tokens = e.tokens
    BY <1>2, <2>1 DEF ViewSet
  <2>. QED  BY <1>1, <1>3, <1>8, <2>2 DEF TurnsInto, ItemEvents, Outcomes, Over
<1>9. CASE e.type \in Over
  <2>1. w = [v EXCEPT !.phase = e.type]
    BY <1>1, <1>3, <1>9 DEF After, Outcomes, Over
  <2>2. /\ w \in ViewSet /\ w.items = v.items /\ w.completed = v.completed /\ w.total = v.total
        /\ w.phase = e.type /\ w.itemsUpdated = v.itemsUpdated /\ w.tokens = v.tokens
    BY <1>9, <2>1 DEF ViewSet
  <2>. QED  BY <1>1, <1>3, <1>9, <2>2 DEF TurnsInto, ItemEvents, Outcomes, Over
<1>. QED  BY <1>2, <1>5, <1>6, <1>7, <1>8, <1>9 DEF EventTypes, Outcomes

\* onmessage.  The part of JobInv it takes is the shape of the log, and what a
\* completed log has.
LEMMA ReceiveStep ==
  ASSUME ViewInv, ShapeInv, job = "completed" => OutcomesOf(log, Len(log)) = Len(ids), Receive
  PROVE  ViewInv'
<1>. USE DEF jobVars, fillVars, dbVars, workerVars, reqVars, itemVars, userVars
<1>1. /\ UNCHANGED <<log, ids, job, sum, known, told, drops, reloads>>
      /\ conn = "open" /\ pos' = pos + 1
  BY DEF Receive
<1>2. FillTypeOK /\ FillTypeOK'
  BY DEF Receive, ViewInv, ClientTypeOK, FillTypeOK
<1>3. /\ Len(log) \in Nat /\ DOMAIN log = 1..Len(log) /\ pos \in Nat /\ pos < Len(log)
      /\ pos + 1 \in DOMAIN log
  <2>1. Len(log) \in Nat /\ DOMAIN log = 1..Len(log)
    BY <1>2 DEF FillTypeOK
  <2>2. pos \in 0..Len(log) /\ pos < Len(log)
    BY DEF ViewInv, ClientTypeOK, Receive
  <2>. QED  BY <2>1, <2>2
<1>4. PICK n \in DOMAIN log : n = pos + 1
  BY <1>3
<1>5. view \in ViewSet /\ persisted \in BOOLEAN /\ told \in BOOLEAN /\ known \in BOOLEAN
  BY DEF ViewInv, ClientTypeOK, ViewSet
<1>6. PICK w : view' = w /\ TurnsInto(view, n, w)
  BY <1>2, <1>4, <1>5, AfterShows DEF Receive
<1>7. PICK e \in Event : e = log[n] /\ e.type \in EventTypes
  <2>1. log \in Seq(Event)
    BY <1>2 DEF FillTypeOK
  <2>2. log[n] \in Event
    BY <2>1
  <2>. QED  BY <2>2, EventSet
<1>8. /\ e.type \in Over => conn' = "none" /\ persisted' = FALSE
      /\ e.type \notin Over => conn' = "open" /\ persisted' = persisted
  BY <1>1, <1>4, <1>7 DEF Receive
<1>9. told /\ persisted /\ job # "none" /\ view.phase \notin {"idle", "connecting", "completed", "cancelled"}
  BY <1>1 DEF ViewInv, PhaseInv
<1>10. EventShape(n)
  BY DEF ShapeInv
<1>11. /\ w.phase \notin {"idle", "connecting"}
       /\ w.phase \in {"completed", "cancelled"} => e.type = w.phase
       /\ e.type \in Over => w.phase = e.type
  BY <1>6, <1>7, <1>9 DEF TurnsInto, Over
<1>12. ClientTypeOK'
  <2>1. w \in ViewSet /\ pos' \in 0..Len(log)
    BY <1>3, <1>1, <1>6 DEF TurnsInto
  <2>2. persisted' \in BOOLEAN /\ conn' \in {"none", "connecting", "open"}
    BY <1>5, <1>8
  <2>. QED  BY <1>1, <1>2, <1>5, <1>6, <2>1, <2>2 DEF ViewInv, ClientTypeOK, ViewSet
<1>13. PhaseInv'
  <2>1. e.type \in Over => job = e.type
    BY <1>7, <1>10 DEF EventShape
  <2>2. w.phase \in {"completed", "cancelled"} => conn' = "none" /\ job = w.phase
    BY <1>8, <1>11, <2>1 DEF Over
  <2>3. conn' # "none" => persisted'
    BY <1>8, <1>9
  <2>. QED  BY <1>1, <1>6, <1>9, <1>11, <2>2, <2>3 DEF PhaseInv
<1>14. /\ OutcomesOf(log, n) \in Nat /\ OutcomesOf(log, Len(log)) \in Nat
       /\ OutcomesOf(log, n) <= OutcomesOf(log, Len(log))
       /\ OutcomesOf(log, pos) \in Nat
       /\ e.type \notin Outcomes => OutcomesOf(log, n) = OutcomesOf(log, pos)
  <2>1. n \in Nat /\ n <= Len(log)
    BY <1>3
  <2>. QED  BY <1>3, <1>4, <1>7, <2>1, OutcomesGrow, OutcomesNext
<1>15. /\ w.completed \in Nat /\ view.completed \in Nat
       /\ w.completed <= OutcomesOf(log, Len(log)) /\ OutcomesOf(log, n) <= w.completed
  <2>1. w.completed \in Nat /\ view.completed \in Nat
    BY <1>5, <1>6 DEF TurnsInto, ViewSet
  <2>2. /\ view.completed <= OutcomesOf(log, Len(log))
        /\ OutcomesOf(log, pos) <= view.completed
    BY <1>1, OutcomesNames DEF ViewInv, ViewIsOfTheLog, HeardInv
  <2>3. w.completed = IF e.type \in Outcomes
                      THEN (IF view.completed < OutcomesOf(log, n) THEN OutcomesOf(log, n) ELSE view.completed)
                      ELSE view.completed
    BY <1>6, <1>7, OutcomesNames DEF TurnsInto, Reached
  <2>. QED  BY <1>14, <2>1, <2>2, <2>3
<1>16. \A m \in 1..n : log[m].type \in Outcomes => w.items[log[m].item] = log[m].type
  <2>. SUFFICES ASSUME NEW m \in 1..n, log[m].type \in Outcomes
                PROVE  w.items[log[m].item] = log[m].type
    OBVIOUS
  <2>1. m \in DOMAIN log
    BY <1>3
  <2>2. log[m].item \in Items
    BY <2>1 DEF ShapeInv, EventShape, ItemEvents
  <2>3. CASE m = n
    BY <1>6, <2>2, <2>3 DEF TurnsInto, ItemEvents
  <2>4. CASE m # n
    <3>1. m \in 1..pos /\ m < n
      BY <1>3, <1>4, <2>4
    <3>2. view.items[log[m].item] = log[m].type
      BY <1>1, <3>1 DEF ViewInv, HeardInv
    <3>3. log[n].type \in ItemEvents => log[m].item # log[n].item
      BY <2>1, <3>1 DEF ShapeInv
    <3>. QED  BY <1>6, <2>2, <3>2, <3>3 DEF TurnsInto
  <2>. QED  BY <2>3, <2>4
<1>17. w.total = Len(ids)
  <2>1. CASE n = 1
    <3>1. log[n].type = "start" /\ log[n].count = Len(ids)
      BY <1>10, <2>1 DEF EventShape
    <3>. QED  BY <1>6, <3>1 DEF TurnsInto
  <2>2. CASE n # 1
    <3>1. log[n].type # "start" /\ pos >= 1
      BY <1>3, <1>4, <1>10, <2>2 DEF EventShape
    <3>. QED  BY <1>1, <1>6, <3>1 DEF TurnsInto, ViewInv, HeardInv
  <2>. QED  BY <2>1, <2>2
<1>18. e.type = "done" => w.itemsUpdated = sum.updated /\ w.tokens = sum.tokens
  BY <1>6, <1>7, <1>10 DEF TurnsInto, EventShape
<1>19. HeardInv'
  <2>. SUFFICES ASSUME conn' = "open"
                PROVE  HeardInv'
    BY DEF HeardInv
  <2>1. OutcomesIn(pos)' <= w.completed
    <3>1. OutcomesIn(pos)' = OutcomesOf(log, n)
      BY <1>1, <1>4 DEF OutcomesIn, OutcomesOf
    <3>. QED  BY <1>15, <3>1
  <2>2. e.type \notin Over
    BY <1>8
  <2>. QED  BY <1>1, <1>4, <1>6, <1>7, <1>16, <1>17, <1>18, <2>1, <2>2 DEF HeardInv
<1>20. ViewIsOfTheLog'
  <2>1. w.completed <= OutcomesIn(Len(log))'
    <3>1. OutcomesIn(Len(log))' = OutcomesOf(log, Len(log))
      BY <1>1 DEF OutcomesIn, OutcomesOf
    <3>. QED  BY <1>15, <3>1
  <2>2. ASSUME NEW i \in Items, w.items[i] # "none"
        PROVE  \E m \in DOMAIN log : log[m].item = i /\ log[m].type = w.items[i]
    <3>1. CASE log[n].type \in ItemEvents /\ log[n].item = i
      BY <1>6, <3>1 DEF TurnsInto
    <3>2. CASE ~(log[n].type \in ItemEvents /\ log[n].item = i)
      <4>1. w.items[i] = view.items[i]
        BY <1>6, <3>2 DEF TurnsInto
      <4>. QED  BY <2>2, <4>1 DEF ViewInv, ViewIsOfTheLog
    <3>. QED  BY <3>1, <3>2
  <2>. QED  BY <1>1, <1>6, <2>1, <2>2 DEF ViewIsOfTheLog
<1>21. CompletedViewIsTrue'
  <2>. SUFFICES ASSUME w.phase = "completed"
                PROVE  CompletedViewIsTrue'
    BY <1>6 DEF CompletedViewIsTrue
  <2>1. e.type = "completed" /\ e.type \in Over /\ e.type \notin Outcomes
    BY <1>11 DEF Over, Outcomes
  <2>2. n = Len(log) /\ job = "completed"
    BY <1>7, <1>10, <2>1 DEF EventShape
  <2>3. Len(log) >= 2 /\ log[Len(log) - 1].type = "done" /\ OutcomesOf(log, Len(log)) = Len(ids)
    BY <2>2 DEF ShapeInv
  <2>4. pos >= 1 /\ log[pos].type = "done"
    BY <1>3, <1>4, <2>2, <2>3
  <2>5. view.itemsUpdated = sum.updated /\ view.tokens = sum.tokens
    BY <1>1, <2>4 DEF ViewInv, HeardInv
  <2>6. w.itemsUpdated = view.itemsUpdated /\ w.tokens = view.tokens
    BY <1>6, <1>7, <2>1 DEF TurnsInto
  <2>7. w.completed = Len(ids)
    BY <1>14, <1>15, <2>2, <2>3
  <2>8. \A m \in DOMAIN log : log[m].type \in Outcomes => w.items[log[m].item] = log[m].type
    BY <1>3, <1>16, <2>2
  <2>. QED  BY <1>1, <1>6, <1>17, <2>5, <2>6, <2>7, <2>8 DEF CompletedViewIsTrue
<1>22. ReloadResumes'
  <2>1. w.phase \in Live => persisted'
    BY <1>8, <1>9, <1>11 DEF Live, Over
  <2>2. w.phase \in {"completed", "cancelled"} => ~persisted'
    BY <1>8, <1>11 DEF Over
  <2>. QED  BY <1>6, <2>1, <2>2 DEF ReloadResumes
<1>. QED  BY <1>12, <1>13, <1>19, <1>20, <1>21, <1>22 DEF ViewInv

-----------------------------------------------------------------------------
(* The view, its job and the server together                               *)

\* No job, an empty view.
LEMMA DockInit == ClientInit => DockInv /\ OneProcessInv
<1>. SUFFICES ASSUME ClientInit
              PROVE  DockInv /\ OneProcessInv
  OBVIOUS
<1>1. FillInit /\ log = <<>> /\ Len(log) = 0 /\ DOMAIN log = {} /\ job = "none" /\ pc = "idle"
  BY DEF ClientInit, FillInit
<1>2. Typed /\ TellsInv
  BY <1>1, TypedInit, TellsInit
<1>3. JobInv
  <2>1. ShapeInv
    BY <1>1 DEF ShapeInv, Over
  <2>2. WorkInv /\ ~GoneDown
    BY <1>1, <1>2 DEF Typed, WorkInv, PastInv, GoneDown
  <2>. QED  BY <1>2, <2>1, <2>2 DEF Typed, JobInv
<1>4. view = Blank /\ conn = "none" /\ ~persisted /\ ~told /\ pos = 0
  BY DEF ClientInit
<1>5. ViewInv
  <2>1. PICK v \in ViewSet : /\ view = v /\ v.phase = "idle" /\ v.completed = 0
                             /\ \A i \in Items : v.items[i] = "none"
    BY <1>4, BlankType
  <2>2. ClientTypeOK
    <3>1. FillTypeOK
      BY <1>2 DEF Typed
    <3>2. /\ known = TRUE /\ told = FALSE /\ persisted = FALSE
          /\ conn = "none" /\ pos = 0 /\ drops = 0 /\ reloads = 0
      BY DEF ClientInit
    <3>3. pos \in 0..Len(log) /\ drops \in 0..MaxDrops /\ reloads \in 0..MaxReloads
      BY <1>1, <3>2, BulkFillClientAssumption
    <3>. QED  BY <2>1, <3>1, <3>2, <3>3 DEF ClientTypeOK, ViewSet
  <2>3. PhaseInv /\ HeardInv /\ CompletedViewIsTrue /\ ReloadResumes
    BY <1>4, <2>1 DEF PhaseInv, HeardInv, CompletedViewIsTrue, ReloadResumes, Live
  <2>4. ViewIsOfTheLog
    <3>1. OutcomesIn(Len(log)) = 0
      BY <1>1, OutcomesNext, OutcomesNames
    <3>. QED  BY <2>1, <3>1 DEF ViewIsOfTheLog
  <2>. QED  BY <2>2, <2>3, <2>4 DEF ViewInv
<1>6. OneProcessInv
  BY <1>4, BlankType DEF OneProcessInv, LiveViewCanEnd, FailedViewIsTrue, Live
<1>. QED  BY <1>3, <1>5, <1>6 DEF DockInv

\* The worker, the users, and time: the page is as it was.
LEMMA FillDockStep ==
  ASSUME DockInv, FillNext, UNCHANGED clientVars
  PROVE  DockInv'
<1>1. FillTypeOK /\ ShapeInv /\ log \in Seq(Event)
  BY DEF DockInv, JobInv, FillTypeOK
<1>2. CASE GoneDown
  <2>1. FillTypeOK' /\ ShapeInv' /\ GoneDown' /\ UNCHANGED <<log, job, ids, sum>>
    BY <1>1, <1>2, DownStep DEF workerVars, reqVars
  <2>2. JobInv'
    BY <1>2, <2>1 DEF DockInv, JobInv, clientVars
  <2>3. ViewInv'
    BY <1>1, <2>1, OnwardFrame, ViewGrows DEF DockInv
  <2>. QED  BY <2>2, <2>3 DEF DockInv
<1>3. CASE ~GoneDown
  <2>1. WorkInv
    BY <1>3 DEF DockInv, JobInv
  <2>2. FillTypeOK' /\ ShapeInv' /\ WorkInv' /\ ~GoneDown' /\ Onward
    BY <1>1, <2>1, WorkStep, FillOnward
  <2>3. JobInv'
    BY <2>2 DEF JobInv
  <2>4. ViewInv'
    BY <1>1, <2>2, ViewGrows DEF DockInv
  <2>. QED  BY <2>3, <2>4 DEF DockInv
<1>. QED  BY <1>2, <1>3

\* A step of the page, its connection or the job store that leaves the job alone.
LEMMA JobFrame ==
  ASSUME JobInv, UNCHANGED jobVars, known' => known, conn' = "open" => conn = "open" \/ known
  PROVE  JobInv'
<1>. USE DEF jobVars, fillVars, dbVars, workerVars, reqVars, itemVars, userVars
<1>1. FillTypeOK' /\ ShapeInv'
  <2>1. FillTypeOK'
    BY DEF JobInv, FillTypeOK
  <2>2. ShapeInv'
    BY ShapeFrame DEF JobInv
  <2>. QED  BY <2>1, <2>2
<1>2. CASE GoneDown
  <2>1. GoneDown' /\ ~known' /\ conn' # "open"
    BY <1>2 DEF JobInv, GoneDown
  <2>. QED  BY <1>1, <2>1 DEF JobInv
<1>3. CASE ~GoneDown
  <2>1. ~GoneDown' /\ PlaceInv' /\ PastInv'
    BY <1>3, PlaceFrame DEF JobInv, WorkInv, GoneDown, PastInv, Past
  <2>2. TellsInv'
    BY <1>3, TellsFrame DEF JobInv, WorkInv
  <2>. QED  BY <1>1, <2>1, <2>2 DEF JobInv, WorkInv
<1>. QED  BY <1>2, <1>3

\* What onerror and onopen leave.
LEMMA PhaseValues ==
  ASSUME view \in ViewSet
  PROVE  /\ \E p \in {"idle"} \cup Live \cup Over :
              /\ OnError(view) = [view EXCEPT !.phase = p]
              /\ p = IF view.phase = "connecting" THEN "failed" ELSE view.phase
         /\ \E p \in {"idle"} \cup Live \cup Over :
              /\ (IF view.phase = "connecting" THEN [view EXCEPT !.phase = "running"] ELSE view)
                   = [view EXCEPT !.phase = p]
              /\ p = IF view.phase = "connecting" THEN "running" ELSE view.phase
<1>1. view.phase \in {"idle"} \cup Live \cup Over /\ view = [view EXCEPT !.phase = view.phase]
  BY DEF ViewSet
<1>. QED  BY <1>1 DEF OnError, Live, Over

\* The steps of the page, its connection and the store keep the invariant.
LEMMA PageDockStep ==
  ASSUME DockInv, \/ ClientStart \/ Connected \/ Refused \/ Receive \/ Lost \/ Reload \/ Clear \/ JobExpires
  PROVE  DockInv'
<1>1. JobInv /\ ViewInv
  BY DEF DockInv
<1>2. /\ FillTypeOK /\ view \in ViewSet /\ pos \in 0..Len(log)
      /\ conn \in {"none", "connecting", "open"}
      /\ drops \in 0..MaxDrops /\ reloads \in 0..MaxReloads /\ MaxDrops \in Nat /\ MaxReloads \in Nat
      /\ known \in BOOLEAN /\ told \in BOOLEAN /\ persisted \in BOOLEAN
  BY <1>1, BulkFillClientAssumption DEF ViewInv, ClientTypeOK, ViewSet
<1>3. 0 \in 0..Len(log)
  <2>1. Len(log) \in Nat
    BY <1>2 DEF FillTypeOK
  <2>. QED  BY <2>1
<1>4. UNCHANGED jobVars
  BY DEF ClientStart, Connected, Refused, Receive, Lost, Reload, Clear, JobExpires
<1>5. FillTypeOK' /\ UNCHANGED <<log, ids, job, sum>>
  BY <1>2, <1>4 DEF FillTypeOK, jobVars, fillVars, dbVars, workerVars, reqVars, itemVars, userVars
<1>6. JobInv'
  <2>1. known' => known
    BY DEF ClientStart, Connected, Refused, Receive, Lost, Reload, Clear, JobExpires
  <2>2. conn' = "open" => conn = "open" \/ known
    BY DEF ClientStart, Connected, Refused, Receive, Lost, Reload, Clear, JobExpires
  <2>. QED  BY <1>1, <1>4, <2>1, <2>2, JobFrame
<1>7. told => job # "none"
  BY <1>1 DEF ViewInv, PhaseInv
<1>8. ASSUME ClientStart
      PROVE  ViewInv'
  <2>1. /\ UNCHANGED known /\ told' = TRUE /\ job # "none" /\ persisted' = TRUE
        /\ view' = [Blank EXCEPT !.phase = "connecting"] /\ conn' = "connecting"
        /\ pos' = 0 /\ UNCHANGED <<drops, reloads>>
    BY <1>8 DEF ClientStart
  <2>2. /\ UNCHANGED <<jobVars, known>> /\ persisted' \in BOOLEAN /\ told' \in BOOLEAN
        /\ pos' \in 0..Len(log) /\ drops' \in 0..MaxDrops /\ reloads' \in 0..MaxReloads
    BY <1>2, <1>3, <1>4, <2>1
  <2>. QED  BY <1>1, <2>1, <2>2, BlankStep
<1>9. ASSUME Reload
      PROVE  ViewInv'
  <2>1. /\ told /\ reloads < MaxReloads /\ reloads' = reloads + 1
        /\ pos' = 0 /\ UNCHANGED known /\ UNCHANGED told /\ UNCHANGED persisted /\ UNCHANGED drops
    BY <1>9 DEF Reload
  <2>2. \/ view' = Blank /\ conn' = "none"
        \/ view' = [Blank EXCEPT !.phase = "connecting"] /\ conn' = "connecting" /\ persisted'
    BY <1>9 DEF Reload
  <2>3. /\ UNCHANGED <<jobVars, known>> /\ persisted' \in BOOLEAN /\ told' \in BOOLEAN /\ told'
        /\ pos' \in 0..Len(log) /\ drops' \in 0..MaxDrops /\ reloads' \in 0..MaxReloads
    BY <1>2, <1>3, <1>4, <2>1
  <2>. QED  BY <1>1, <1>7, <2>1, <2>2, <2>3, BlankStep
<1>10. ASSUME Clear
       PROVE  ViewInv'
  <2>1. /\ view' = Blank /\ persisted' = FALSE /\ conn' = "none" /\ pos' = 0
        /\ UNCHANGED known /\ UNCHANGED told /\ UNCHANGED drops /\ UNCHANGED reloads
        /\ view.phase \in {"completed", "failed", "cancelled"}
    BY <1>10 DEF Clear, Dismissable
  <2>2. told
    <3>1. view # Blank
      BY <2>1, BlankType
    <3>. QED  BY <1>1, <3>1 DEF ViewInv, PhaseInv
  <2>3. /\ UNCHANGED <<jobVars, known>> /\ persisted' \in BOOLEAN /\ told' \in BOOLEAN /\ told'
        /\ pos' \in 0..Len(log) /\ drops' \in 0..MaxDrops /\ reloads' \in 0..MaxReloads
    BY <1>2, <1>3, <1>4, <2>1, <2>2
  <2>. QED  BY <1>1, <1>7, <2>1, <2>2, <2>3, BlankStep
<1>11. ASSUME Connected
       PROVE  ViewInv'
  <2>1. PICK p \in {"idle"} \cup Live \cup Over :
          /\ view' = [view EXCEPT !.phase = p]
          /\ p = IF view.phase = "connecting" THEN "running" ELSE view.phase
    BY <1>2, <1>11, PhaseValues DEF Connected
  <2>2. /\ conn = "connecting" /\ conn' = "open" /\ pos' = 0
        /\ UNCHANGED known /\ UNCHANGED told /\ UNCHANGED persisted /\ UNCHANGED drops /\ UNCHANGED reloads
    BY <1>11 DEF Connected
  <2>3. p # "connecting" /\ (p = view.phase \/ (p \in {"running", "failed"} /\ view.phase = "connecting"))
    BY <2>1
  <2>4. /\ UNCHANGED <<log, ids, job, sum, persisted, told, reloads>>
        /\ known' \in BOOLEAN /\ drops' \in 0..MaxDrops
        /\ conn' \in {"none", "connecting", "open"} /\ (conn' # "none" => conn # "none")
    BY <1>2, <1>5, <2>2
  <2>. QED  BY <1>1, <1>5, <2>1, <2>2, <2>3, <2>4, PhaseStep
<1>12. ASSUME Refused \/ Lost
       PROVE  ViewInv'
  <2>1. PICK p \in {"idle"} \cup Live \cup Over :
          /\ view' = [view EXCEPT !.phase = p]
          /\ p = IF view.phase = "connecting" THEN "failed" ELSE view.phase
    BY <1>2, <1>12, PhaseValues DEF Refused, Lost
  <2>2. /\ conn # "none" /\ conn' \in {"none", "connecting"} /\ (pos' = 0 \/ pos' = pos)
        /\ UNCHANGED known /\ UNCHANGED told /\ UNCHANGED persisted /\ UNCHANGED reloads
        /\ (drops' = drops \/ (drops < MaxDrops /\ drops' = drops + 1))
    BY <1>12 DEF Refused, Lost
  <2>3. p # "connecting" /\ (p = view.phase \/ (p \in {"running", "failed"} /\ view.phase = "connecting"))
    BY <2>1
  <2>4. /\ UNCHANGED <<log, ids, job, sum, persisted, told, reloads>>
        /\ known' \in BOOLEAN /\ drops' \in 0..MaxDrops
        /\ conn' \in {"none", "connecting", "open"} /\ (conn' # "none" => conn # "none")
        /\ (pos' = 0 \/ (pos' = pos /\ conn' # "open"))
    BY <1>2, <1>5, <2>2
  <2>. QED  BY <1>1, <1>5, <2>1, <2>3, <2>4, PhaseStep
<1>13. ASSUME JobExpires
       PROVE  ViewInv'
  <2>1. /\ known' = FALSE /\ UNCHANGED told /\ UNCHANGED view /\ UNCHANGED persisted /\ UNCHANGED conn
        /\ UNCHANGED pos /\ UNCHANGED drops /\ UNCHANGED reloads
    BY <1>13 DEF JobExpires
  <2>2. known' \in BOOLEAN /\ UNCHANGED <<log, ids, job, sum, told, view, persisted, conn, pos, drops, reloads>>
    BY <1>5, <2>1
  <2>. QED  BY <1>1, <1>5, <2>2, ViewFrame
<1>14. ASSUME Receive
       PROVE  ViewInv'
  <2>1. job = "completed" => OutcomesOf(log, Len(log)) = Len(ids)
    BY <1>1 DEF JobInv, WorkInv, TellsInv, GoneDown
  <2>. QED  BY <1>1, <1>14, <2>1, ReceiveStep DEF JobInv
<1>. QED  BY <1>6, <1>8, <1>9, <1>10, <1>11, <1>12, <1>13, <1>14 DEF DockInv

\* So does a restart of the server, which takes the worker with it.
LEMMA RestartDockStep ==
  ASSUME DockInv, ServerRestart
  PROVE  DockInv'
<1>. USE DEF dbVars, reqVars, userVars
<1>1. /\ FillTypeOK /\ view \in ViewSet /\ pos \in 0..Len(log) /\ ShapeInv
      /\ conn \in {"none", "connecting", "open"} /\ drops \in 0..MaxDrops
  BY DEF DockInv, ViewInv, ClientTypeOK, ViewSet, JobInv
<1>2. /\ UNCHANGED <<row, body, field, spent, job, ids, classes, force, idx, cls, loaded, base, got, updated, sum,
                     log, billed, call, edits, calls, told, persisted, drops, reloads>>
      /\ pc' = "ended" /\ dirty' = [i \in Items |-> {}] /\ job = "running" /\ known' = FALSE
      /\ conn' = IF conn = "none" THEN "none" ELSE "connecting"
      /\ pos' = 0 /\ view' = OnError(view)
  BY DEF ServerRestart
<1>3. FillTypeOK'
  BY <1>1, <1>2, DirtyEmpty DEF FillTypeOK
<1>4. GoneDown' /\ ~known' /\ conn' # "open"
  BY <1>2 DEF GoneDown
<1>5. JobInv'
  BY <1>1, <1>2, <1>3, <1>4, ShapeFrame DEF JobInv
<1>6. PICK p \in {"idle"} \cup Live \cup Over :
        /\ view' = [view EXCEPT !.phase = p]
        /\ p = IF view.phase = "connecting" THEN "failed" ELSE view.phase
  BY <1>1, <1>2, PhaseValues
<1>7. ViewInv'
  <2>1. /\ p # "connecting" /\ conn' \in {"none", "connecting"}
        /\ conn' # "none" => conn # "none"
    BY <1>1, <1>2, <1>6
  <2>. QED  BY <1>1, <1>2, <1>3, <1>6, <2>1, PhaseStep DEF DockInv
<1>. QED  BY <1>5, <1>7 DEF DockInv

\* No step of this page breaks the invariant.
LEMMA DockStepInv ==
  ASSUME DockInv, [ClientNext]_allVars
  PROVE  DockInv'
<1>1. CASE UNCHANGED allVars
  <2>1. UNCHANGED jobVars /\ UNCHANGED clientVars
    BY <1>1 DEF allVars
  <2>2. JobInv'
    BY <2>1, JobFrame DEF DockInv, clientVars
  <2>3. ViewInv'
    <3>1. FillTypeOK' /\ ShapeInv
      BY <2>2 DEF DockInv, JobInv
    <3>2. UNCHANGED <<log, ids, job, sum>>
      BY <2>1 DEF jobVars, fillVars, workerVars, reqVars
    <3>. QED  BY <2>1, <3>1, <3>2, ViewFrame DEF DockInv, clientVars, ViewInv, ClientTypeOK
  <2>. QED  BY <2>2, <2>3 DEF DockInv
<1>. QED  BY <1>1, FillDockStep, PageDockStep, RestartDockStep DEF ClientNext

\* With one process a stream is refused only when the job is gone.
LEMMA OneProcessStep ==
  ASSUME Workers = 1, DockInv, DockInv', OneProcessInv, [ClientNext]_allVars
  PROVE  OneProcessInv'
<1>1. view \in ViewSet /\ view' \in ViewSet /\ drops \in Nat /\ drops' \in Nat /\ conn' \in {"none", "connecting", "open"}
  BY BulkFillClientAssumption DEF DockInv, ViewInv, ClientTypeOK, ViewSet
<1>2. conn' = "open" /\ pos' = Len(log') => job' = "running"
  <2>. SUFFICES ASSUME conn' = "open", pos' = Len(log'), job' # "running"
                PROVE  FALSE
    OBVIOUS
  <2>1. job' # "none" /\ ShapeInv' /\ FillTypeOK' /\ HeardInv'
    BY DEF DockInv, ViewInv, PhaseInv, JobInv
  <2>2. job' \in Over /\ Len(log') \in Nat
    BY <2>1 DEF FillTypeOK
  <2>3. Len(log') # 0 /\ log'[Len(log')].type = job'
    BY <2>1, <2>2 DEF ShapeInv
  <2>4. pos' >= 1 /\ log'[pos'].type \in Over
    BY <2>2, <2>3
  <2>. QED  BY <2>1, <2>4 DEF HeardInv
<1>3. /\ view'.phase \in Live /\ known' => conn' # "none"
      /\ FailedViewIsTrue'
  <2>1. CASE FillNext /\ UNCHANGED clientVars
    <3>1. job = "failed" => job' = "failed"
      <4>1. CASE GoneDown
        BY <4>1 DEF GoneDown
      <4>2. CASE ~GoneDown
        <5>1. FillTypeOK /\ ShapeInv /\ WorkInv
          BY <4>2 DEF DockInv, JobInv
        <5>. QED  BY <2>1, <5>1, FillOnward DEF Onward, Over
      <4>. QED  BY <4>1, <4>2
    <3>. QED  BY <2>1, <3>1 DEF clientVars, OneProcessInv, LiveViewCanEnd, FailedViewIsTrue
  <2>2. CASE ClientStart \/ Reload \/ Clear
    <3>1. /\ \/ view' = Blank
             \/ view' = [Blank EXCEPT !.phase = "connecting"] /\ conn' = "connecting"
      BY <2>2 DEF ClientStart, Reload, Clear
    <3>2. view'.phase = "idle" \/ (view'.phase = "connecting" /\ conn' = "connecting")
      BY <3>1, BlankType
    <3>. QED  BY <3>2 DEF FailedViewIsTrue, Live
  <2>3. CASE Connected
    <3>1. view'.phase = view.phase \/ view'.phase = "running"
      BY <1>1, <2>3 DEF Connected, ViewSet
    <3>2. conn' = "open" /\ UNCHANGED <<known, drops, job>>
      BY <2>3 DEF Connected, jobVars, fillVars, workerVars
    <3>. QED  BY <3>1, <3>2 DEF OneProcessInv, FailedViewIsTrue
  <2>4. CASE Refused
    <3>1. ~known /\ known' = known
      BY <2>4 DEF Refused
    <3>. QED  BY <3>1 DEF FailedViewIsTrue
  <2>5. CASE Lost
    <3>1. drops' > 0 /\ conn' = "connecting"
      BY <1>1, <2>5 DEF Lost
    <3>. QED  BY <3>1 DEF FailedViewIsTrue
  <2>6. CASE Receive
    <3>1. PICK n \in DOMAIN log : n = pos + 1 /\ view' = After(view, n) /\ EventShape(n)
      <4>1. pos + 1 \in DOMAIN log
        <5>1. Len(log) \in Nat /\ DOMAIN log = 1..Len(log) /\ pos \in 0..Len(log)
          <6>1. FillTypeOK /\ pos \in 0..Len(log)
            BY DEF DockInv, ViewInv, ClientTypeOK
          <6>. QED  BY <6>1 DEF FillTypeOK
        <5>. QED  BY <2>6, <5>1 DEF Receive
      <4>. QED  BY <2>6, <4>1 DEF Receive, DockInv, JobInv, ShapeInv
    <3>2. /\ UNCHANGED <<known, drops, job>>
          /\ log[n].type \in Over => conn' = "none"
          /\ log[n].type \notin Over => conn' = "open"
      BY <2>6, <3>1 DEF Receive, jobVars, fillVars, workerVars
    <3>3. TurnsInto(view, n, view')
      BY <1>1, <3>1, AfterShows DEF DockInv, JobInv
    <3>4. view'.phase \in Live => log[n].type \notin Over
      BY <3>3 DEF TurnsInto, Live, Over
    <3>5. view'.phase = "failed" => view.phase = "failed" \/ (log[n].type = "failed" /\ log[n].type \in Over)
      BY <3>3 DEF TurnsInto, Over
    <3>6. view'.phase = "failed" => view.phase = "failed" \/ job = "failed"
      BY <3>1, <3>5 DEF EventShape
    <3>. QED  BY <3>2, <3>4, <3>6 DEF OneProcessInv, FailedViewIsTrue
  <2>7. CASE JobExpires \/ ServerRestart
    <3>1. known' = FALSE
      BY <2>7 DEF JobExpires, ServerRestart
    <3>. QED  BY <3>1 DEF FailedViewIsTrue
  <2>8. CASE UNCHANGED allVars
    BY <2>8 DEF allVars, jobVars, fillVars, workerVars, clientVars, OneProcessInv, LiveViewCanEnd, FailedViewIsTrue
  <2>. QED  BY <2>1, <2>2, <2>3, <2>4, <2>5, <2>6, <2>7, <2>8 DEF ClientNext
<1>4. LiveViewCanEnd'
  BY <1>2, <1>3 DEF LiveViewCanEnd
<1>. QED  BY <1>3, <1>4 DEF OneProcessInv

-----------------------------------------------------------------------------
(* As pages of MCPages                                                     *)

\* A step of a page is one of that page's own.
LEMMA PageStep ==
  ASSUME [Next]_pageVars
  PROVE  /\ UNCHANGED at
         /\ at = "dialogs" => [DialogNext]_dialogVars
         /\ at = "dock" => [ClientNext]_allVars
BY DEF Next, Alone, pageVars

\* At first every page holds what its invariant says.
LEMMA PagesInit == Init => (at = "dialogs" => DialogInv) /\ (at = "dock" => DockInv /\ OneProcessInv)
BY DialogInitInv, DockInit DEF Init

\* The dialogs and the dock.
LEMMA DialogsAlways == PagesSpec => [](at = "dialogs" => DialogInv)
<1>1. (at = "dialogs" => DialogInv) /\ [Next]_pageVars => (at = "dialogs" => DialogInv)'
  BY PageStep, DialogInvStep
<1>. QED  BY <1>1, PagesInit, PTL DEF PagesSpec

\* The view, with as many processes as one likes.
LEMMA DockAlways == PagesSpec => [](at = "dock" => DockInv)
<1>1. (at = "dock" => DockInv) /\ [Next]_pageVars => (at = "dock" => DockInv)'
  BY PageStep, DockStepInv
<1>. QED  BY <1>1, PagesInit, PTL DEF PagesSpec

\* However many processes the backend has: no job that runs is out of sight; a
\* view shows of each record what the job reported and no more progress than it
\* made, and, when it shows a completed job, all of it, after any reconnects,
\* replays and reloads; a job that is shown as live is resumed after a reload
\* (BulkAiFillJobContext.tsx, BulkAiFillDock.tsx).
THEOREM ViewsShow ==
  PagesSpec => [](/\ at = "dialogs" => RunningIsOnTheDock
                  /\ at = "dock" => ViewIsOfTheLog /\ CompletedViewIsTrue /\ ReloadResumes)
<1>1. (at = "dialogs" => DialogInv) /\ (at = "dock" => DockInv)
        => /\ at = "dialogs" => RunningIsOnTheDock
           /\ at = "dock" => ViewIsOfTheLog /\ CompletedViewIsTrue /\ ReloadResumes
  BY DEF DialogInv, DockInv, ViewInv
<1>. QED  BY <1>1, DialogsAlways, DockAlways, PTL

\* With one process of the backend the dock tells the truth: all of the above,
\* and a live view will hear the end, and a job is shown as failed only if it
\* is, or was lost.  With two this is not so: a stream is refused by the process
\* that does not have the job.
THEOREM DockTells ==
  ASSUME Workers = 1
  PROVE  PagesSpec => []DockTellsTheTruth
<1>1. (at = "dock" => OneProcessInv) /\ (at = "dock" => DockInv) /\ (at = "dock" => DockInv)' /\ [Next]_pageVars
        => (at = "dock" => OneProcessInv)'
  BY PageStep, OneProcessStep
<1>2. PagesSpec => [](at = "dock" => OneProcessInv)
  BY <1>1, PagesInit, DockAlways, PTL DEF PagesSpec
<1>3. (at = "dialogs" => DialogInv) /\ (at = "dock" => DockInv) /\ (at = "dock" => OneProcessInv)
        => DockTellsTheTruth
  BY DEF DialogInv, DockInv, ViewInv, OneProcessInv, DockTellsTheTruth
<1>. QED  BY <1>2, <1>3, DialogsAlways, DockAlways, PTL

=============================================================================
