---------------------------- MODULE RegistryScan ----------------------------
(* What cwASIOenumerate tells its caller.  Two history variables observe the *)
(* steps of Registry and influence none of them.                             *)
EXTENDS Registry

VARIABLES
  quiet,     \* names that were completely registered ever since p's opendir
  heard      \* what p's callback has been told of each name in this scan

scanVars == <<vars, quiet, heard>>

\* The entry is there with the whole path of a driver library.
Complete(n) == n \in dir /\ driver[n] # NoInode /\ content[driver[n]] \in Proc

ScanInit == /\ Init
            /\ quiet = [p \in Proc |-> {}]
            /\ heard = [p \in Proc |-> [n \in Name |-> "never"]]

\* The callback is told of name[p].
Hear(p) ==
  [heard[p] EXCEPT ![name[p]] =
     IF /\ @ = "never"
        /\ driver[name[p]] # NoInode
        /\ val[p] = content[driver[name[p]]]
     THEN "right" ELSE "wrong"]

Observe ==
  /\ quiet' = [p \in Proc |->
       {n \in Name : /\ scanning'[p]
                     /\ scanning[p] => n \in quiet[p]
                     /\ Complete(n)'}]
  /\ heard' = [p \in Proc |->
       IF ~scanning'[p] THEN [n \in Name |-> "never"]
       ELSE IF pc[p] = "callback" /\ pc'[p] = "scan" THEN Hear(p) ELSE heard[p]]

ScanNext == Next /\ Observe

ScanSpec == ScanInit /\ [][ScanNext]_scanVars

\* However the directory changes under a scan, an entry that is completely
\* registered from opendir on is told to the callback exactly once, with its
\* path: not before readdir has returned it, and for certain when it has
\* (cwASIO.c:280-298; cwASIO.h:73 "once for every entry found").  Only names
\* that start with a dot are left out.
ScanHonest ==
  \A p \in Proc : scanning[p] => \A n \in quiet[p] :
    heard[p][n] = IF \/ n \in due[p] \/ n \in DotName
                     \/ name[p] = n /\ pc[p] # "scan"
                  THEN "never" ELSE "right"

\* A process returns from a scan that its callback did not stop.
ScanEnds(p) == pc[p] = "scan" /\ pc'[p] = "idle" /\ ret'[p] = "ok"

\* A scan that reports success and was not stopped by its callback has told it
\* of every entry that was there all along (cwASIO.c:281-286, 301).
ScanComplete ==
  [][\A p \in Proc : ScanEnds(p) =>
       \A n \in quiet[p] \ DotName : heard[p][n] = "right"]_scanVars
=============================================================================
