------------------------------ MODULE JobStream ------------------------------
(***************************************************************************)
(* What the job store promises, free of event loop, listeners and threads: *)
(* a job runs to one final state, its log is closed by that state, and a   *)
(* reader gets the log from its beginning, event by event, up to the end.  *)
(***************************************************************************)
EXTENDS Naturals, Sequences

CONSTANTS Jobs, Readers, NoJob

VARIABLES
  state,    \* per job: "absent", "pending", "running" or one of Final
  history,  \* per job: its events, the final state being the last
  reading,  \* per reader: the job it reads, NoJob when it reads none
  cursor    \* per reader: how many events it got

vars == <<state, history, reading, cursor>>

Final == {"completed", "failed", "cancelled"}

Init ==
  /\ state = [j \in Jobs |-> "absent"]
  /\ history = [j \in Jobs |-> <<>>]
  /\ reading = [r \in Readers |-> NoJob]
  /\ cursor = [r \in Readers |-> 0]

Create(j) ==
  /\ state[j] = "absent"
  /\ state' = [state EXCEPT ![j] = "pending"]
  /\ UNCHANGED <<history, reading, cursor>>

Start(j) ==
  /\ state[j] = "pending"
  /\ state' = [state EXCEPT ![j] = "running"]
  /\ UNCHANGED <<history, reading, cursor>>

Emit(j) ==
  /\ state[j] = "running"
  /\ history' = [history EXCEPT ![j] = Append(@, "progress")]
  /\ UNCHANGED <<state, reading, cursor>>

End(j, final) ==
  /\ state[j] = "running"
  /\ state' = [state EXCEPT ![j] = final]
  /\ history' = [history EXCEPT ![j] = Append(@, final)]
  /\ UNCHANGED <<reading, cursor>>

Attach(r, j) ==
  /\ reading[r] = NoJob
  /\ state[j] \notin {"absent", "pending"}
  /\ reading' = [reading EXCEPT ![r] = j]
  /\ cursor' = [cursor EXCEPT ![r] = 0]
  /\ UNCHANGED <<state, history>>

Read(r) ==
  /\ reading[r] # NoJob
  /\ cursor[r] < Len(history[reading[r]])
  /\ cursor' = [cursor EXCEPT ![r] = @ + 1]
  /\ UNCHANGED <<state, history, reading>>

\* A reader is released once it got the final state.
Release(r) ==
  /\ reading[r] # NoJob
  /\ state[reading[r]] \in Final
  /\ cursor[r] = Len(history[reading[r]])
  /\ reading' = [reading EXCEPT ![r] = NoJob]
  /\ UNCHANGED <<state, history, cursor>>

HangUp(r) ==
  /\ reading[r] # NoJob
  /\ reading' = [reading EXCEPT ![r] = NoJob]
  /\ UNCHANGED <<state, history, cursor>>

Next ==
  \/ \E j \in Jobs : Create(j) \/ Start(j) \/ Emit(j) \/ \E f \in Final : End(j, f)
  \/ \E r \in Readers : Read(r) \/ Release(r) \/ HangUp(r) \/ \E j \in Jobs : Attach(r, j)

\* A started job ends, and a reader gets what is there to read.
Fairness ==
  /\ \A j \in Jobs : /\ WF_vars(Start(j))
                     /\ SF_vars(\E f \in Final : End(j, f))
  /\ \A r \in Readers : WF_vars(Read(r) \/ Release(r))

Spec == Init /\ [][Next]_vars
FairSpec == Spec /\ Fairness

=============================================================================
