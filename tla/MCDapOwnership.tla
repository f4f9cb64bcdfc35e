-------------------------- MODULE MCDapOwnership --------------------------
(* TLC instance of DapOwnership. *)
EXTENDS DapOwnership, TLC

\* Tasks differ only by name, so permuting them changes nothing.
TaskSymmetry == Permutations(Tasks)
=============================================================================
