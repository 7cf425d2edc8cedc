-------------------------- MODULE RegistryScanMC --------------------------
(* Small instances of RegistryScan.                                         *)
EXTENDS RegistryScan, TLC

Symmetry == Permutations(Proc) \cup Permutations(Name \ DotName)
              \cup Permutations(Inode)
=============================================================================
