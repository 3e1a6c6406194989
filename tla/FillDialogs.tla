----------------------------- MODULE FillDialogs -----------------------------
(***************************************************************************)
(* What surrounds the view of BulkFillClient on the pages of articles and  *)
(* books: the choice of field classes (FieldClassDialog.tsx), the estimate *)
(* that has to be confirmed (BulkAiFillConfirmDialog.tsx) and the dock     *)
(* that follows one job (BulkAiFillDock.tsx).  A job is here only running  *)
(* or over, and the view of it as coarse.                                  *)
(***************************************************************************)
EXTENDS Naturals, FiniteSets, Sequences

CONSTANTS
  Records,     \* what can be selected in the list
  FillClasses, \* field classes
  MaxJobs,     \* bound on the jobs
  MaxMishaps   \* bound on failed requests and reloads

ASSUME FillDialogsAssumption == MaxJobs \in Nat /\ MaxMishaps \in Nat

VARIABLES
  asked,   \* the two dialogs: step, picked classes, what is under way, the estimate
  asks,    \* number of confirm dialogs so far
  jobs,    \* the jobs started: the confirm dialog they come from, state and fate
  dock,    \* the job the dock follows, 0 for none, its phase and whether the modal is open
  mishaps

dialogVars == <<asked, asks, jobs, dock, mishaps>>

NoDialog == [step |-> "none", picked |-> {}, busy |-> "no", shown |-> FALSE]
NoDock   == [job |-> 0, phase |-> "idle", modal |-> FALSE]

DialogInit ==
  /\ asked = NoDialog /\ asks = 0
  /\ jobs = <<>>
  /\ dock = NoDock
  /\ mishaps = 0

Mishap == mishaps < MaxMishaps /\ mishaps' = mishaps + 1

-----------------------------------------------------------------------------
(* The choice of classes                                                   *)

\* The menu item of the bulk bar; the dialog starts empty.
OpenClasses ==
  /\ asked.step = "none"
  /\ asked' = [NoDialog EXCEPT !.step = "classes"]
  /\ UNCHANGED <<asks, jobs, dock, mishaps>>

\* One checkbox per class.
ClassOffered == asked.step = "classes"

Toggle(c) ==
  /\ ClassOffered
  /\ asked' = [asked EXCEPT !.picked = IF c \in @ THEN @ \ {c} ELSE @ \cup {c}]
  /\ UNCHANGED <<asks, jobs, dock, mishaps>>

\* What the dialog offers: it can be left, and submitted once a class is picked.
CanSubmit == asked.step = "classes" /\ asked.picked # {}

\* The records are those selected and shown now; without any both dialogs are closed.
SubmitClasses(ids) ==
  /\ CanSubmit
  /\ IF ids = {}
     THEN asked' = NoDialog /\ UNCHANGED asks
     ELSE /\ asked' = [asked EXCEPT !.step = "confirm", !.busy = "estimate"]
          /\ asks < MaxJobs /\ asks' = asks + 1
  /\ UNCHANGED <<jobs, dock, mishaps>>

\* Cancel, Escape or a click beside the dialog.
LeaveClasses ==
  /\ asked.step = "classes"
  /\ asked' = NoDialog
  /\ UNCHANGED <<asks, jobs, dock, mishaps>>

-----------------------------------------------------------------------------
(* The estimate                                                            *)

\* An error leaves a dialog that can only be left.
Estimated ==
  /\ asked.busy = "estimate"
  /\ \/ asked' = [asked EXCEPT !.busy = "no", !.shown = TRUE] /\ UNCHANGED mishaps
     \/ asked' = [asked EXCEPT !.busy = "no"] /\ Mishap
  /\ UNCHANGED <<asks, jobs, dock>>

Starting == asked.busy \in {"start", "handled"}

\* The dialog shows the estimate, its error, or that it is still computed.
EstimateShown == asked.step = "confirm" /\ asked.shown

\* The button is there from the start and enabled between estimate and request.
CanConfirm == EstimateShown /\ ~Starting

\* Leaving is held back while the request is under way.
LeaveConfirm ==
  /\ asked.step = "confirm" /\ ~Starting
  /\ asked' = NoDialog
  /\ UNCHANGED <<asks, jobs, dock, mishaps>>

\* handleConfirm.
Confirm ==
  /\ CanConfirm
  /\ asked' = [asked EXCEPT !.busy = "start"]
  /\ UNCHANGED <<asks, jobs, dock, mishaps>>

\* POST .../start submits a job.
StartHandled ==
  /\ asked.busy = "start"
  /\ Len(jobs) < MaxJobs
  /\ asked' = [asked EXCEPT !.busy = "handled"]
  /\ jobs' = Append(jobs, [ask |-> asks, state |-> "running", fate |-> "unheard"])
  /\ UNCHANGED <<asks, dock, mishaps>>

\* The answer: the context takes the job, whichever it followed so far.
StartAnswered ==
  /\ asked.busy = "handled"
  /\ asked' = NoDialog
  /\ dock' = [job |-> Len(jobs), phase |-> "connecting", modal |-> TRUE]
  /\ jobs' = [jobs EXCEPT ![Len(jobs)].fate = "followed"]
  /\ UNCHANGED <<asks, mishaps>>

\* The request is refused (a record was trashed, no AI) or it or its answer is
\* lost: a toast, and the dialog stays.
StartFails ==
  /\ Starting /\ Mishap
  /\ asked' = [asked EXCEPT !.busy = "no"]
  /\ UNCHANGED <<asks, jobs, dock>>

-----------------------------------------------------------------------------
(* The jobs and the dock                                                   *)

JobOver(j) ==
  /\ jobs[j].state = "running"
  /\ jobs' = [jobs EXCEPT ![j].state = "over"]
  /\ UNCHANGED <<asked, asks, dock, mishaps>>

\* onopen, and the first event of the log.
DockHears ==
  /\ dock.job # 0 /\ dock.phase \in {"connecting", "failed"}
  /\ dock' = [dock EXCEPT !.phase = "running"]
  /\ UNCHANGED <<asked, asks, jobs, mishaps>>

\* onerror before the first contact.
DockFails ==
  /\ dock.phase = "connecting" /\ Mishap
  /\ dock' = [dock EXCEPT !.phase = "failed"]
  /\ UNCHANGED <<asked, asks, jobs>>

\* stream_end: the dock shows the outcome, and the job leaves localStorage.
DockEnds ==
  /\ dock.phase = "running" /\ jobs[dock.job].state = "over"
  /\ dock' = [dock EXCEPT !.phase = "over"]
  /\ UNCHANGED <<asked, asks, jobs, mishaps>>

Badge == dock.job # 0 /\ ~dock.modal
Modal == dock.job # 0 /\ dock.modal

Expand   == Badge /\ dock' = [dock EXCEPT !.modal = TRUE]  /\ UNCHANGED <<asked, asks, jobs, mishaps>>
Minimise == Modal /\ dock' = [dock EXCEPT !.modal = FALSE] /\ UNCHANGED <<asked, asks, jobs, mishaps>>

\* Mutant of CanDismiss: a running job can be dismissed like one that is over.
CanDismiss_Any == Modal

CanDismiss == Modal /\ dock.phase \in {"failed", "over"}

Dismiss ==
  /\ CanDismiss
  /\ jobs' = IF dock.phase = "failed" THEN [jobs EXCEPT ![dock.job].fate = "dismissed"] ELSE jobs
  /\ dock' = NoDock
  /\ UNCHANGED <<asked, asks, mishaps>>

\* F5: the dialogs are gone with the answer they wait for; a job not seen to
\* its end is followed again, as a badge.
ReloadPage ==
  /\ Mishap
  /\ asked' = NoDialog
  /\ dock' = IF dock.job # 0 /\ dock.phase # "over"
             THEN [dock EXCEPT !.phase = "connecting", !.modal = FALSE] ELSE NoDock
  /\ UNCHANGED <<asks, jobs>>

-----------------------------------------------------------------------------
DialogNext ==
  \/ OpenClasses \/ LeaveClasses
  \/ \E c \in FillClasses : Toggle(c)
  \/ \E ids \in SUBSET Records : SubmitClasses(ids)
  \/ Estimated \/ LeaveConfirm \/ Confirm
  \/ StartHandled \/ StartAnswered \/ StartFails
  \/ \E j \in DOMAIN jobs : JobOver(j)
  \/ DockHears \/ DockFails \/ DockEnds \/ Expand \/ Minimise \/ Dismiss \/ ReloadPage

DialogSpec == DialogInit /\ [][DialogNext]_dialogVars

-----------------------------------------------------------------------------
(* Properties                                                              *)

DialogTypeOK ==
  /\ asked \in [step : {"none", "classes", "confirm"}, picked : SUBSET FillClasses,
                busy : {"no", "estimate", "start", "handled"}, shown : BOOLEAN]
  /\ asks \in 0..MaxJobs
  /\ jobs \in Seq([ask : 1..MaxJobs, state : {"running", "over"},
                   fate : {"unheard", "followed", "dismissed"}])
  /\ dock \in [job : 0..Len(jobs), phase : {"idle", "connecting", "running", "failed", "over"},
               modal : BOOLEAN]
  /\ mishaps \in 0..MaxMishaps

\* A job that runs is on the dock, where its cost can be watched (there is no
\* other page for it, BulkAiFillDock.tsx:10-18), unless its answer never came,
\* the user dismissed it after a failure of the connection, or confirmed
\* another estimate since: one confirmation leaves no second job behind.
RunningIsOnTheDock ==
  \A j \in DOMAIN jobs :
    jobs[j].state = "running" /\ jobs[j].fate = "followed" =>
      \/ dock.job = j
      \/ \E k \in DOMAIN jobs : jobs[k].fate # "unheard" /\ jobs[k].ask > jobs[j].ask

=============================================================================
