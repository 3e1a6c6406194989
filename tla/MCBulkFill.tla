----------------------------- MODULE MCBulkFill -----------------------------
(***************************************************************************)
(* Instances of BulkFill for TLC.                                          *)
(***************************************************************************)
EXTENDS BulkFill

CONSTANTS a1, a2, c1, c2

\* One class for both records, or both classes for one, with edits and another
\* AI call; or both classes for the first record and one for the second, with
\* neither.  What the request does not name stays as it is.
Fits ==
  \/ ids = <<>>
  \/ classes = <<c1>> /\ \A i \in Items : field[i][c2] = "empty"
  \/ /\ ids = <<a1>>
     /\ row[a2] = "live" /\ ~body[a2] /\ \A c \in Classes : field[a2][c] = "empty"
  \/ /\ ids = <<a1, a2>> /\ classes = <<c1, c2>> /\ ~force
     /\ edits = 0 /\ calls = 0 /\ body[a2] /\ field[a2][c2] # "empty"

SmallNext == FillNext /\ Fits'

SmallSpec == FillInit /\ [][SmallNext]_fillVars /\ WF_fillVars(FillStep)

=============================================================================
