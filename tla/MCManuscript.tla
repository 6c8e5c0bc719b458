----------------------------- MODULE MCManuscript -----------------------------
(* Manuscript on a small instance: two chapters of one work, two pages. *)
EXTENDS Manuscript, TLC

Symmetry == Permutations(Pages) \cup Permutations(Chapters)
===============================================================================
