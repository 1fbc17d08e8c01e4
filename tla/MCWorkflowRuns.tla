--------------------------- MODULE MCWorkflowRuns ---------------------------
(* Instances of WorkflowRuns for TLC. *)
EXTENDS WorkflowRuns, TLC

\* Deliveries are interchangeable, and so are reviewers.
Symmetry == Permutations(Deliveries) \cup Permutations(Reviewers)
=============================================================================
