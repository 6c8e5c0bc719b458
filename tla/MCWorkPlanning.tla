---------------------------- MODULE MCWorkPlanning -----------------------------
(* WorkPlanning on a small instance: two tabs, two runs, two workers. *)
EXTENDS WorkPlanning
===============================================================================
