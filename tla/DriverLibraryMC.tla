-------------------------- MODULE DriverLibraryMC --------------------------
(* Small instances of DriverLibrary.                                        *)
EXTENDS DriverLibrary, TLC

Symmetry == Permutations(Thread) \cup Permutations(Obj)
=============================================================================
