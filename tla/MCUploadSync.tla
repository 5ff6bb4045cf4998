---------------------------- MODULE MCUploadSync ----------------------------
(* Model values and symmetry for the runs of UploadSync. *)
EXTENDS UploadSync, TLC

Symmetry == Permutations(Passes)
=============================================================================
