---------------------------- MODULE MCWorkSettings -----------------------------
(* WorkSettings on a small instance: two pages and two chapter creations. *)
EXTENDS WorkSettings, TLC

Symmetry == Permutations(Pages) \cup Permutations(Creators)
===============================================================================
