---------------------------- MODULE RegistryMC ----------------------------
(* Small instances of Registry, and what the comments in the source say of  *)
(* its functions where they return.                                         *)
EXTENDS Registry, TLC

\* Processes, names and inodes are interchangeable in the safety runs.
Symmetry == Permutations(Proc) \cup Permutations(Name \ DotName)
              \cup Permutations(Inode)

\* cwASIOdriver.c:313-314 says that unregisterDriver removes what registerDriver
\* has added.  With a single process, ENOENT is what unregisterDriver returns
\* when it has found the directory and no file `driver` in it: the directory,
\* where nobody else has put anything, should be gone.
UnregisterRemoves ==
  \A p \in Proc : ret[p] = "ENOENT" /\ extra[name[p]] = {} => name[p] \notin dir
=============================================================================
