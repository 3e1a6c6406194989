-------------------------- MODULE JobStoreRefinement --------------------------
(***************************************************************************)
(* The job store implements JobStream as long as no thread switch falls    *)
(* into a DELETE handler.  A job whose terminal status is written but whose *)
(* stream_end is not in the log yet still counts as running; a stream reads *)
(* from its registration to its removal from the listener list.            *)
(***************************************************************************)
EXTENDS JobStore

Promised == INSTANCE JobStream WITH
  Readers <- Streams,
  NoJob   <- NoOne,
  state   <- [j \in Jobs |->
                IF task[j] = "none" THEN "absent"
                ELSE IF status[j] \in Terminal /\ ~EndLogged(j) THEN "running"
                ELSE status[j]],
  history <- log,
  reading <- [s \in Streams |-> IF pc[s] \in Registered THEN on[s] ELSE NoOne],
  cursor  <- seen

\* Every behaviour of the store, its fairness included, is one JobStream
\* allows: submit, the workers, cancel and subscribe keep its promises.
KeepsPromise == Promised!FairSpec

=============================================================================
