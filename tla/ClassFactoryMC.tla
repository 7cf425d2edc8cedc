--------------------------- MODULE ClassFactoryMC ---------------------------
(* Small instances of ClassFactory.                                          *)
EXTENDS ClassFactory, TLC

Symmetry == Permutations(Thread) \cup Permutations(Obj)

\* cwASIOdriver.c:156-158 gives two cases in which the DLL is not to be unloaded:
\* somebody has a pointer to one of its objects, or has it locked.  When neither
\* is so, the use count should allow it.
UnloadableWhenUnused == Unused => dllUseCount <= 0
=============================================================================
