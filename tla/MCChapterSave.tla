--------------------------- MODULE MCChapterSave ----------------------------
(***************************************************************************)
(* Instances of ChapterSave for TLC.                                       *)
(***************************************************************************)
EXTENDS ChapterSave

\* Pages and edits are interchangeable (safety runs only).
Interchangeable == Permutations(Pages) \cup Permutations(Edits)

=============================================================================
