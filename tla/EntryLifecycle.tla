--------------------------- MODULE EntryLifecycle ---------------------------
(* What the Linux driver registry promises about one entry of /etc/cwASIO.   *)
(* An entry is free (no directory), claimed (the directory exists and the    *)
(* one process that made it has yet to create the file `driver`), listed     *)
(* (`driver` is there), retired (`driver` is gone and the one process that   *)
(* removed it has yet to remove the directory) or stranded (the directory is *)
(* there, `driver` is not, and no call is under way that would change that). *)
EXTENDS Naturals

CONSTANT Name        \* the names an entry can have

VARIABLE stage       \* the stage of each name's entry

Stages == {"free", "claimed", "listed", "retired", "stranded"}

Init == stage = [n \in Name |-> "free"]

Move(n, from, to) == /\ stage[n] = from
                     /\ stage' = [stage EXCEPT ![n] = to]

\* registerDriver: mkdir, then creat; an error or a death in between strands.
Claim(n)   == Move(n, "free", "claimed")
List(n)    == Move(n, "claimed", "listed")
Abandon(n) == Move(n, "claimed", "stranded")

\* unregisterDriver: unlink, then rmdir; the same holds for it.
Retire(n)  == Move(n, "listed", "retired")
Remove(n)  == Move(n, "retired", "free")
Leave(n)   == Move(n, "retired", "stranded")

Next == \E n \in Name : \/ Claim(n)  \/ List(n)   \/ Abandon(n)
                        \/ Retire(n) \/ Remove(n) \/ Leave(n)

Spec == Init /\ [][Next]_stage
=============================================================================
