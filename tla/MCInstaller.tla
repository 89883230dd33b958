---------------------------- MODULE MCInstaller ----------------------------
(* Two commands at a time, each as often as wanted. *)
EXTENDS Installer, TLC

Symmetry == Permutations(Procs)
=============================================================================
