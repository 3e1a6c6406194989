----------------------------- MODULE MCJobStore -----------------------------
(***************************************************************************)
(* Instances of JobStore for TLC.                                          *)
(***************************************************************************)
EXTENDS JobStore, TLC

\* Job ids, connections and pool threads are interchangeable (safety runs only).
Interchangeable ==
  Permutations(Jobs) \cup Permutations(Streams) \cup Permutations(Threads)

=============================================================================
