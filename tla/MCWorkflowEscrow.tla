-------------------------- MODULE MCWorkflowEscrow --------------------------
(***************************************************************************)
(* Two tasks with two nodes each, shares of 1 and 2 out of 3 of a budget of 10,  *)
(* so that plans are under-assigned, exactly assigned (with dust) or over  *)
(* the limit; every account may publish, plan, work and trade receipts.    *)
(***************************************************************************)
EXTENDS WorkflowEscrow, TLC

\* Tasks, references and nodes are interchangeable.
Symmetry == Permutations(Tasks) \cup Permutations(Refs) \cup Permutations(Nodes)
=============================================================================
