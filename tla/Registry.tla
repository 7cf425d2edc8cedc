------------------------------ MODULE Registry ------------------------------
(* The driver registry on Linux: the directory /etc/cwASIO, changed by       *)
(* registerDriver and unregisterDriver (src/src/cwASIOdriver.c) and read by  *)
(* cwASIOgetParameter and cwASIOenumerate (src/src/cwASIO.c).  Nothing locks *)
(* the directory, so the installers and hosts of several processes           *)
(* interleave: one system call is one step, and every call can fail.         *)
EXTENDS Naturals, FiniteSets

CONSTANTS
  Proc,      \* the processes; each is also the library path it would register
  Name,      \* the names under which drivers can be registered
  DotName,   \* those of them that start with a dot
  Extra,     \* the files an installer puts beside `driver` (e.g. description)
  Inode,     \* the inodes regular files can have
  NoInode,   \* stands for an absent file or descriptor
  Fault      \* what can go wrong in this instance, see Faults

Faults == {"stat", "mkdir", "creat", "write", "short", "unlink", "rmdir",
           "open", "read", "opendir", "readdir", "crash"}

ASSUME RegistryAssumption ==
  /\ DotName \subseteq Name
  /\ NoInode \notin Inode
  /\ Proc \cap {"empty", "cut", "null"} = {}
  /\ Fault \subseteq Faults

VARIABLES
  dir,       \* the subdirectories of /etc/cwASIO
  driver,    \* the inode of the file `driver` in each of them
  content,   \* what a regular file holds: nothing, part of a path, or a path
  extra,     \* the other files in each subdirectory
  pc,        \* the next system call of each process
  name,      \* the name the call of each process works on
  fd,        \* the file the process has open
  sized,     \* whether fstat found the open file not to be empty
  val,       \* what cwASIOreadConfig has for the callback: "null" or a content
  scanning,  \* whether it has a directory stream open, in cwASIOenumerate
  due,       \* entries an open directory stream has still to return
  loose,     \* entries made or removed since opendir: it may return them
  ret        \* the result of the call a process has returned from last

disk == <<dir, driver, content, extra>>
vars == <<dir, driver, content, extra, pc, name, fd, sized, val,
          scanning, due, loose, ret>>

Contents == {"empty", "cut"} \cup Proc
PCs == {"idle", "mkdir", "creat", "write", "unlink", "rmdir",
        "scan", "open", "fstat", "read", "callback"}
Results == {"none", "ok", "EEXIST", "ENOENT", "ENODEV", "ENOTEMPTY",
            "error", "died"} \cup Contents

Init == /\ dir = {}
        /\ driver = [n \in Name |-> NoInode]
        /\ content = [i \in Inode |-> "empty"]
        /\ extra = [n \in Name |-> {}]
        /\ pc = [p \in Proc |-> "idle"]
        /\ name \in [Proc -> Name]
        /\ fd = [p \in Proc |-> NoInode]
        /\ sized = [p \in Proc |-> FALSE]
        /\ val = [p \in Proc |-> "null"]
        /\ scanning = [p \in Proc |-> FALSE]
        /\ due = [p \in Proc |-> {}]
        /\ loose = [p \in Proc |-> {}]
        /\ ret = [p \in Proc |-> "none"]

-----------------------------------------------------------------------------
(* Steps of a process.                                                       *)

Fails(what) == what \in Fault

Goto(p, label) == /\ pc' = [pc EXCEPT ![p] = label]
                  /\ ret' = [ret EXCEPT ![p] = "none"]

Return(p, res) == /\ pc' = [pc EXCEPT ![p] = "idle"]
                  /\ ret' = [ret EXCEPT ![p] = res]

Call(p, n) == /\ pc[p] = "idle"
              /\ name' = [name EXCEPT ![p] = n]

\* An inode can be given to a new file when nothing links it and nobody has it
\* open.
FreeInode == {i \in Inode : /\ \A n \in Name : driver[n] # i
                            /\ \A p \in Proc : fd[p] # i}

\* The streams that are open see an entry n come or go: whether they still
\* return it is unspecified.
Unsettle(n) ==
  /\ due' = [p \in Proc |-> due[p] \ {n}]
  /\ loose' = [p \in Proc |-> IF scanning[p]
                                THEN loose[p] \cup {n} ELSE loose[p]]

reading == <<sized, val>>
streams == <<scanning, due, loose>>

-----------------------------------------------------------------------------
(* registerDriver(name)                                                      *)

\* cwASIOgetParameter(name, NULL, NULL, 0) is one stat of the directory; when it
\* fails, for whatever reason, the directory counts as absent.
RegisterStat(p, n) ==
  /\ Call(p, n)
  /\ \/ n \in dir /\ Return(p, "EEXIST")
     \/ (n \notin dir \/ Fails("stat")) /\ Goto(p, "mkdir")
  /\ UNCHANGED <<disk, fd, reading, streams>>

\* Mutant: the result of mkdir is not looked at.
RegisterMkdirUnchecked(p) ==
  /\ pc[p] = "mkdir"
  /\ dir' = dir \cup {name[p]}
  /\ Unsettle(name[p])
  /\ Goto(p, "creat")
  /\ UNCHANGED <<driver, content, extra, name, fd, reading, scanning>>

RegisterMkdir(p) ==
  /\ pc[p] = "mkdir"
  /\ \/ /\ name[p] \notin dir
        /\ dir' = dir \cup {name[p]}
        /\ Unsettle(name[p])
        /\ Goto(p, "creat")
     \/ /\ \/ name[p] \in dir /\ Return(p, "EEXIST")
           \/ Fails("mkdir") /\ Return(p, "error")
        /\ UNCHANGED <<dir, due, loose>>
  /\ UNCHANGED <<driver, content, extra, name, fd, reading, scanning>>

\* creat truncates a file that is already there.
CreatTarget(n) == IF driver[n] = NoInode THEN FreeInode ELSE {driver[n]}

\* Failing here leaves the new directory behind, without `driver`.
RegisterCreat(p) ==
  /\ pc[p] = "creat"
  /\ \/ /\ name[p] \in dir
        /\ \E i \in CreatTarget(name[p]) :
             /\ driver' = [driver EXCEPT ![name[p]] = i]
             /\ content' = [content EXCEPT ![i] = "empty"]
             /\ fd' = [fd EXCEPT ![p] = i]
        /\ Goto(p, "write")
     \/ /\ name[p] \notin dir \/ Fails("creat")
        /\ Return(p, "error")
        /\ UNCHANGED <<driver, content, fd>>
  /\ UNCHANGED <<dir, extra, name, reading, streams>>

\* A short count from write is taken for success; close follows either way.
RegisterWrite(p) ==
  /\ pc[p] = "write"
  /\ \/ /\ \E c \in {p} \cup {x \in {"cut"} : Fails("short")} :
             content' = [content EXCEPT ![fd[p]] = c]
        /\ Return(p, "ok")
     \/ /\ Fails("write")
        /\ Return(p, "error")
        /\ UNCHANGED content
  /\ fd' = [fd EXCEPT ![p] = NoInode]
  /\ UNCHANGED <<dir, driver, extra, name, reading, streams>>

-----------------------------------------------------------------------------
(* unregisterDriver(name)                                                    *)

UnregisterStat(p, n) ==
  /\ Call(p, n)
  /\ \/ n \in dir /\ Goto(p, "unlink")
     \/ (n \notin dir \/ Fails("stat")) /\ Return(p, "ENODEV")
  /\ UNCHANGED <<disk, fd, reading, streams>>

\* Mutant: the result of unlink is not looked at.
UnregisterUnlinkUnchecked(p) ==
  /\ pc[p] = "unlink"
  /\ driver' = [driver EXCEPT ![name[p]] = NoInode]
  /\ Goto(p, "rmdir")
  /\ UNCHANGED <<dir, content, extra, name, fd, reading, streams>>

UnregisterUnlink(p) ==
  /\ pc[p] = "unlink"
  /\ \/ /\ driver[name[p]] # NoInode
        /\ driver' = [driver EXCEPT ![name[p]] = NoInode]
        /\ Goto(p, "rmdir")
     \/ /\ \/ driver[name[p]] = NoInode /\ Return(p, "ENOENT")
           \/ Fails("unlink") /\ Return(p, "error")
        /\ UNCHANGED driver
  /\ UNCHANGED <<dir, content, extra, name, fd, reading, streams>>

DirEmpty(n) == driver[n] = NoInode /\ extra[n] = {}

UnregisterRmdir(p) ==
  /\ pc[p] = "rmdir"
  /\ \/ /\ name[p] \in dir /\ DirEmpty(name[p])
        /\ dir' = dir \ {name[p]}
        /\ Unsettle(name[p])
        /\ Return(p, "ok")
     \/ /\ \/ ~DirEmpty(name[p]) /\ Return(p, "ENOTEMPTY")
           \/ Fails("rmdir") /\ Return(p, "error")
        /\ UNCHANGED <<dir, due, loose>>
  /\ UNCHANGED <<driver, content, extra, name, fd, reading, scanning>>

-----------------------------------------------------------------------------
(* cwASIOgetParameter(name, "driver", buffer, size)                          *)

GetParameter(p, n) ==
  /\ Call(p, n)
  /\ Goto(p, "open")
  /\ UNCHANGED <<disk, fd, reading, streams>>

\* cwASIOreadConfig hands its result to cwASIOgetParameter, which returns it,
\* or to cwASIOenumerate, which passes it to the callback.
ReadResult(p, v) ==
  IF scanning[p] THEN Goto(p, "callback") /\ val' = [val EXCEPT ![p] = v]
  ELSE /\ Return(p, IF v = "null" THEN "error" ELSE v)
       /\ UNCHANGED val

\* Mutant: the result of open is not looked at.
ConfigOpenUnchecked(p) ==
  /\ pc[p] = "open"
  /\ fd' = [fd EXCEPT ![p] = driver[name[p]]]
  /\ Goto(p, "fstat")
  /\ UNCHANGED <<disk, name, sized, val, streams>>

ConfigOpen(p) ==
  /\ pc[p] = "open"
  /\ \/ /\ driver[name[p]] # NoInode
        /\ fd' = [fd EXCEPT ![p] = driver[name[p]]]
        /\ Goto(p, "fstat")
        /\ UNCHANGED val
     \/ /\ driver[name[p]] = NoInode \/ Fails("open")
        /\ ReadResult(p, "null")
        /\ UNCHANGED fd
  /\ UNCHANGED <<disk, name, sized, streams>>

\* Mutant: the size is not taken from st_size.
ConfigFstatUnset(p) ==
  /\ pc[p] = "fstat"
  /\ Goto(p, "read")
  /\ UNCHANGED <<disk, name, fd, sized, val, streams>>

ConfigFstat(p) ==
  /\ pc[p] = "fstat"
  /\ sized' = [sized EXCEPT ![p] = content[fd[p]] # "empty"]
  /\ Goto(p, "read")
  /\ UNCHANGED <<disk, name, fd, val, streams>>

\* read asks for as many bytes as fstat counted; close follows either way.
ConfigRead(p) ==
  /\ pc[p] = "read"
  /\ \/ ReadResult(p, IF sized[p] THEN content[fd[p]] ELSE "empty")
     \/ Fails("read") /\ ReadResult(p, "null")
  /\ fd' = [fd EXCEPT ![p] = NoInode]
  /\ sized' = [sized EXCEPT ![p] = FALSE]
  /\ UNCHANGED <<disk, name, streams>>

-----------------------------------------------------------------------------
(* cwASIOenumerate(cb, context)                                              *)

EnumerateOpen(p) ==
  /\ pc[p] = "idle"
  /\ \/ /\ Goto(p, "scan")
        /\ scanning' = [scanning EXCEPT ![p] = TRUE]
        /\ due' = [due EXCEPT ![p] = dir]
     \/ /\ Fails("opendir")
        /\ Return(p, "error")
        /\ UNCHANGED <<scanning, due>>
  /\ UNCHANGED <<disk, name, fd, reading, loose>>

\* readdir returns the entry n; one that starts with a dot is passed over.
EnumerateNext(p, n) ==
  /\ pc[p] = "scan"
  /\ n \in due[p] \cup loose[p]
  /\ due' = [due EXCEPT ![p] = @ \ {n}]
  /\ loose' = [loose EXCEPT ![p] = @ \ {n}]
  /\ \/ /\ n \in DotName
        /\ UNCHANGED <<pc, ret, name>>
     \/ /\ n \notin DotName
        /\ name' = [name EXCEPT ![p] = n]
        /\ Goto(p, "open")
  /\ UNCHANGED <<disk, fd, reading, scanning>>

Closedir(p) == /\ scanning' = [scanning EXCEPT ![p] = FALSE]
               /\ due' = [due EXCEPT ![p] = {}]
               /\ loose' = [loose EXCEPT ![p] = {}]

\* The callback gets the name, val[p] as the id, and the description.  It asks
\* for the next entry or ends the enumeration.
EnumerateCallback(p) ==
  /\ pc[p] = "callback"
  /\ \/ Goto(p, "scan") /\ UNCHANGED streams
     \/ Return(p, "ok") /\ Closedir(p)
  /\ val' = [val EXCEPT ![p] = "null"]
  /\ UNCHANGED <<disk, name, fd, sized>>

\* Mutant: errno is not looked at when readdir returns NULL.
EnumerateEndUnchecked(p) ==
  /\ pc[p] = "scan"
  /\ due[p] = {} \/ Fails("readdir")
  /\ Return(p, "ok")
  /\ Closedir(p)
  /\ UNCHANGED <<disk, name, fd, reading>>

\* readdir has nothing more, or fails: the two differ in errno only.
EnumerateEnd(p) ==
  /\ pc[p] = "scan"
  /\ \/ due[p] = {} /\ Return(p, "ok")
     \/ Fails("readdir") /\ Return(p, "error")
  /\ Closedir(p)
  /\ UNCHANGED <<disk, name, fd, reading>>

-----------------------------------------------------------------------------
(* A process that dies loses its descriptors and nothing else.               *)

Crash(p) ==
  /\ Fails("crash")
  /\ pc[p] # "idle"
  /\ Return(p, "died")
  /\ fd' = [fd EXCEPT ![p] = NoInode]
  /\ Closedir(p)
  /\ val' = [val EXCEPT ![p] = "null"]
  /\ sized' = [sized EXCEPT ![p] = FALSE]
  /\ UNCHANGED <<disk, name>>

\* Outside the repository: an installer puts its own files into a directory it
\* finds, and deletes them again.
AddExtra(n, f) ==
  /\ n \in dir
  /\ f \notin extra[n]
  /\ extra' = [extra EXCEPT ![n] = @ \cup {f}]
  /\ UNCHANGED <<dir, driver, content, pc, name, fd, reading, streams, ret>>

RemoveExtra(n, f) ==
  /\ f \in extra[n]
  /\ extra' = [extra EXCEPT ![n] = @ \ {f}]
  /\ UNCHANGED <<dir, driver, content, pc, name, fd, reading, streams, ret>>

-----------------------------------------------------------------------------
Register(p) == \/ \E n \in Name : RegisterStat(p, n)
               \/ RegisterMkdir(p) \/ RegisterCreat(p) \/ RegisterWrite(p)

Unregister(p) == \/ \E n \in Name : UnregisterStat(p, n)
                 \/ UnregisterUnlink(p) \/ UnregisterRmdir(p)

ReadConfig(p) == \/ \E n \in Name : GetParameter(p, n)
                 \/ ConfigOpen(p) \/ ConfigFstat(p) \/ ConfigRead(p)

Enumerate(p) == \/ EnumerateOpen(p)
                \/ \E n \in Name : EnumerateNext(p, n)
                \/ EnumerateCallback(p) \/ EnumerateEnd(p)

Installer == \E n \in Name, f \in Extra : AddExtra(n, f) \/ RemoveExtra(n, f)

Next == \/ \E p \in Proc : \/ Register(p)  \/ Unregister(p) \/ ReadConfig(p)
                           \/ Enumerate(p) \/ Crash(p)
        \/ Installer

Spec == Init /\ [][Next]_vars

-----------------------------------------------------------------------------
TypeOK ==
  /\ dir \subseteq Name
  /\ driver \in [Name -> Inode \cup {NoInode}]
  /\ content \in [Inode -> Contents]
  /\ extra \in [Name -> SUBSET Extra]
  /\ pc \in [Proc -> PCs]
  /\ name \in [Proc -> Name]
  /\ fd \in [Proc -> Inode \cup {NoInode}]
  /\ sized \in [Proc -> BOOLEAN]
  /\ val \in [Proc -> Contents \cup {"null"}]
  /\ scanning \in [Proc -> BOOLEAN]
  /\ due \in [Proc -> SUBSET Name]
  /\ loose \in [Proc -> SUBSET Name]
  /\ ret \in [Proc -> Results]
  /\ \A p \in Proc : pc[p] \in {"write", "fstat", "read"} => fd[p] \in Inode

\* A process is between the two calls that change the directory n.
Holds(p, n) == pc[p] \in {"creat", "rmdir"} /\ name[p] = n

\* Without any lock, a directory without `driver` belongs to the one process
\* that has just made it or is about to remove it: no registrar is ever
\* overtaken between its mkdir and its creat, no two processes remove the same
\* entry, and `driver` exists in directories only
\* (cwASIOdriver.c:294-304, 333-338).
Custody ==
  \A n \in Name :
    /\ n \notin dir => driver[n] = NoInode /\ extra[n] = {}
    /\ \A p \in Proc : Holds(p, n) => n \in dir /\ driver[n] = NoInode
    /\ \A p, q \in Proc : Holds(p, n) /\ Holds(q, n) => p = q

\* The file a registrar writes is its own until it has closed it: no second
\* registrar has it open, it is still empty, no reader has found bytes in it,
\* and when it is still linked then as the `driver` of the name being
\* registered - also when that entry was unregistered and registered anew
\* meanwhile (cwASIOdriver.c:302-307).
SoleWriter ==
  \A p \in Proc : pc[p] = "write" =>
    /\ content[fd[p]] = "empty"
    /\ \A q \in Proc : q # p /\ fd[q] = fd[p] =>
         pc[q] \in {"fstat", "read"} /\ (pc[q] = "read" => ~sized[q])
    /\ \A n \in Name : driver[n] = fd[p] => n = name[p]

\* The step leaves a path that has been written as it is, or unlinks it.
ListedKept ==
  \A n \in Name : driver[n] # NoInode /\ content[driver[n]] # "empty"
    => \/ driver'[n] = NoInode
       \/ driver'[n] = driver[n] /\ content'[driver[n]] = content[driver[n]]

\* A path, once written, stays until it is unlinked as a whole: what a host
\* reads under a name is never rewritten in place (cwASIOdriver.c:295, 302).
ListedStable == [][ListedKept]_vars

\* The stage of an entry, as EntryLifecycle tells it.
Stage(n) ==
  IF n \notin dir THEN "free"
  ELSE IF driver[n] # NoInode THEN "listed"
  ELSE IF \E p \in Proc : pc[p] = "creat" /\ name[p] = n THEN "claimed"
  ELSE IF \E p \in Proc : pc[p] = "rmdir" /\ name[p] = n THEN "retired"
  ELSE "stranded"

Lifecycle == INSTANCE EntryLifecycle WITH stage <- [n \in Name |-> Stage(n)]

\* The calls of all processes together take every entry through the stages of
\* EntryLifecycle and no other way: no entry loses its `driver` to any but one
\* unregisterDriver, and none gains it but from the one registerDriver that
\* made the directory (cwASIOdriver.c:286-340).
EntriesLive == Lifecycle!Spec
=============================================================================
