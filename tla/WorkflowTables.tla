---------------------------- MODULE WorkflowTables -----------------------------
(***************************************************************************)
(* The transition tables of domain/workflows.py.                           *)
(***************************************************************************)

WorkflowStatuses ==
    {"PLANNED", "RUNNING", "AWAITING_REVIEW", "COMPLETED", "FAILED", "CANCELLED"}

WorkflowTransitions == [s \in WorkflowStatuses |->
    CASE s = "PLANNED" -> {"RUNNING", "CANCELLED"}
      [] s = "RUNNING" -> {"AWAITING_REVIEW", "COMPLETED", "FAILED", "CANCELLED"}
      [] s = "AWAITING_REVIEW" -> {"RUNNING", "COMPLETED", "CANCELLED"}
      [] s = "FAILED" -> {"RUNNING", "CANCELLED"}
      [] OTHER -> {}]

(* transition_workflow raises for every other target. *)
MayBecome(current, target) == target \in WorkflowTransitions[current]
===============================================================================
