-------------------------- MODULE MCChapterGeneration -------------------------
(* ChapterGeneration on small instances. *)
EXTENDS ChapterGeneration, TLC

Symmetry == Permutations(Pages) \cup Permutations(Callers) \cup Permutations(Runs) \cup Permutations(Keys)
                \cup Permutations(Workers)
===============================================================================
