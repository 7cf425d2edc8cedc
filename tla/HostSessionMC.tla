--------------------------- MODULE HostSessionMC ---------------------------
(* A small instance of HostSession: an instance for each owner there can be. *)
EXTENDS HostSession, TLC

\* Devices are interchangeable, and so are the addresses of instances.
Symmetry == Permutations(Devices) \cup Permutations(Instances)
=============================================================================
