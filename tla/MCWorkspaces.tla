---------------------------- MODULE MCWorkspaces ----------------------------
(* Model values and symmetry for the runs of Workspaces. *)
EXTENDS Workspaces, TLC

Symmetry == Permutations(People) \cup Permutations(Requests)
=============================================================================
