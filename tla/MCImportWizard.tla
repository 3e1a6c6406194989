--------------------------- MODULE MCImportWizard ---------------------------
(***************************************************************************)
(* Instances of ImportWizard for TLC.                                      *)
(***************************************************************************)
EXTENDS ImportWizard, TLC

CONSTANTS text, archive, b1, n1, n2, n3

\* A text and an archive with the book b1.
Contents == text :> None @@ archive :> b1

\* The text was imported before.
Imported == [b \in Books |-> IF b = n1 THEN text ELSE None]

=============================================================================
