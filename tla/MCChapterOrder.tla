--------------------------- MODULE MCChapterOrder ---------------------------
(***************************************************************************)
(* Instances of ChapterOrder for TLC.                                      *)
(***************************************************************************)
EXTENDS ChapterOrder

CONSTANTS c1, c2, c3, c4

Started == <<c1, c2>>
Groups == [c \in Chapters |-> IF c \in {c1, c3} THEN "front" ELSE "main"]

\* Pages are interchangeable.
Interchangeable == Permutations(Pages)

=============================================================================
