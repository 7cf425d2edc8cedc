--------------------------- MODULE RegistryProofs ---------------------------
(* Proofs about Registry and RegistryScan, for any number of processes,      *)
(* names and inodes; those about Registry for any set of faults.             *)
EXTENDS RegistryScan, TLAPS

-----------------------------------------------------------------------------
(* Type correctness, one lemma per group of actions.                         *)

\* The steps of registerDriver keep the types.
LEMMA RegisterType ==
  ASSUME TypeOK, NEW p \in Proc, Register(p) PROVE TypeOK'
<1>1. ASSUME NEW n \in Name, RegisterStat(p, n) PROVE TypeOK'
  BY <1>1 DEF TypeOK, RegisterStat, Call, Goto, Return, disk, reading, streams,
              PCs, Results
<1>2. ASSUME RegisterMkdir(p) PROVE TypeOK'
  BY <1>2 DEF TypeOK, RegisterMkdir, Unsettle, Goto, Return, reading, PCs, Results
<1>3. ASSUME RegisterCreat(p) PROVE TypeOK'
  <2>1. \A i \in CreatTarget(name[p]) : i \in Inode
    BY DEF TypeOK, CreatTarget, FreeInode
  <2>. QED
    BY <1>3, <2>1 DEF TypeOK, RegisterCreat, Goto, Return, reading, streams,
                      Contents, PCs, Results
<1>4. ASSUME RegisterWrite(p) PROVE TypeOK'
  BY <1>4 DEF TypeOK, RegisterWrite, Return, reading, streams,
              Contents, PCs, Results
<1>. QED  BY <1>1, <1>2, <1>3, <1>4 DEF Register

\* The steps of unregisterDriver keep the types.
LEMMA UnregisterType ==
  ASSUME TypeOK, NEW p \in Proc, Unregister(p) PROVE TypeOK'
<1>1. ASSUME NEW n \in Name, UnregisterStat(p, n) PROVE TypeOK'
  BY <1>1 DEF TypeOK, UnregisterStat, Call, Goto, Return, disk, reading, streams,
              PCs, Results
<1>2. ASSUME UnregisterUnlink(p) PROVE TypeOK'
  BY <1>2 DEF TypeOK, UnregisterUnlink, Goto, Return, reading, streams, PCs, Results
<1>3. ASSUME UnregisterRmdir(p) PROVE TypeOK'
  BY <1>3 DEF TypeOK, UnregisterRmdir, Unsettle, Return, reading, PCs, Results
<1>. QED  BY <1>1, <1>2, <1>3 DEF Unregister

\* The steps that read a `driver` file keep the types.
LEMMA ReadType ==
  ASSUME TypeOK, NEW p \in Proc, ReadConfig(p) PROVE TypeOK'
<1>1. ASSUME NEW n \in Name, GetParameter(p, n) PROVE TypeOK'
  BY <1>1 DEF TypeOK, GetParameter, Call, Goto, disk, reading, streams, PCs, Results
<1>2. ASSUME ConfigOpen(p) PROVE TypeOK'
  BY <1>2 DEF TypeOK, ConfigOpen, ReadResult, Goto, Return, disk, streams,
              PCs, Results
<1>3. ASSUME ConfigFstat(p) PROVE TypeOK'
  BY <1>3 DEF TypeOK, ConfigFstat, Goto, disk, streams, PCs, Results
<1>4. ASSUME ConfigRead(p) PROVE TypeOK'
  <2>1. content[fd[p]] \in Contents
    BY <1>4 DEF TypeOK, ConfigRead
  <2>2. (IF sized[p] THEN content[fd[p]] ELSE "empty") \in Contents
    BY <2>1 DEF Contents
  <2>. QED
    BY <1>4, <2>2, SMTT(30) DEF TypeOK, ConfigRead, ReadResult, Goto, Return, disk, streams,
                      PCs, Results
<1>. QED  BY <1>1, <1>2, <1>3, <1>4 DEF ReadConfig

\* The steps of cwASIOenumerate keep the types.
LEMMA EnumerateType ==
  ASSUME TypeOK, NEW p \in Proc, Enumerate(p) PROVE TypeOK'
<1>1. ASSUME EnumerateOpen(p) PROVE TypeOK'
  BY <1>1 DEF TypeOK, EnumerateOpen, Goto, Return, disk, reading, PCs, Results
<1>2. ASSUME NEW n \in Name, EnumerateNext(p, n) PROVE TypeOK'
  BY <1>2 DEF TypeOK, EnumerateNext, Goto, disk, reading, PCs, Results
<1>3. ASSUME EnumerateCallback(p) PROVE TypeOK'
  BY <1>3 DEF TypeOK, EnumerateCallback, Goto, Return, Closedir, disk, streams,
              PCs, Results
<1>4. ASSUME EnumerateEnd(p) PROVE TypeOK'
  BY <1>4 DEF TypeOK, EnumerateEnd, Return, Closedir, disk, reading, PCs, Results
<1>. QED  BY <1>1, <1>2, <1>3, <1>4 DEF Enumerate

\* The initial state has the types, and every step keeps them.
LEMMA TypeStep ==
  /\ Init => TypeOK
  /\ TypeOK /\ [Next]_vars => TypeOK'
<1>1. ASSUME Init PROVE TypeOK
  BY <1>1 DEF Init, TypeOK, Contents, PCs, Results
<1>2. ASSUME TypeOK, [Next]_vars PROVE TypeOK'
  <2>1. ASSUME NEW p \in Proc, Crash(p) PROVE TypeOK'
    BY <1>2, <2>1 DEF TypeOK, Crash, Return, Closedir, disk, PCs, Results
  <2>2. ASSUME Installer PROVE TypeOK'
    BY <1>2, <2>2 DEF TypeOK, Installer, AddExtra, RemoveExtra, reading, streams
  <2>3. ASSUME UNCHANGED vars PROVE TypeOK'
    BY <1>2, <2>3 DEF TypeOK, vars
  <2>. QED
    BY <1>2, <2>1, <2>2, <2>3, RegisterType, UnregisterType, ReadType,
       EnumerateType DEF Next
<1>. QED  BY <1>1, <1>2

\* Every variable of the registry, its files and its callers keeps its type,
\* whatever the processes do and whichever calls fail.
THEOREM TypeCorrect == Spec => []TypeOK
BY TypeStep, PTL DEF Spec

-----------------------------------------------------------------------------
(* Custody of a directory.  Custody is inductive over the types.             *)

\* A step that changes no directory entry and brings no process between mkdir
\* and creat or between unlink and rmdir cannot disturb Custody.
LEMMA CustodyFrame ==
  ASSUME Custody, UNCHANGED <<dir, driver, extra>>,
         \A p \in Proc, n \in Name : Holds(p, n)' => Holds(p, n)
  PROVE  Custody'
BY DEF Custody

\* mkdir succeeds only on a name nobody holds; creat and rmdir are the steps of
\* the one holder; unlink makes a holder where `driver` shows there is none.
LEMMA CustodyStep ==
  ASSUME TypeOK, Custody, [Next]_vars PROVE Custody'
<1>1. ASSUME NEW p \in Proc, Register(p) PROVE Custody'
  <2>1. ASSUME NEW n \in Name, RegisterStat(p, n) PROVE Custody'
    <3>. UNCHANGED <<dir, driver, extra>>
      BY <2>1 DEF RegisterStat, disk
    <3>. \A q \in Proc, m \in Name : Holds(q, m)' => Holds(q, m)
      BY <2>1 DEF TypeOK, RegisterStat, Call, Goto, Return, Holds
    <3>. QED  BY CustodyFrame
  <2>2. ASSUME RegisterMkdir(p) PROVE Custody'
    BY <2>2 DEF TypeOK, Custody, Holds, RegisterMkdir, Goto, Return
  <2>3. ASSUME RegisterCreat(p) PROVE Custody'
    <3>1. /\ name' = name /\ dir' = dir /\ extra' = extra
          /\ \A m \in Name \ {name[p]} : driver'[m] = driver[m]
          /\ \A q \in Proc : Holds(q, name[p]) => q = p
      BY <2>3 DEF TypeOK, Custody, Holds, RegisterCreat
    <3>2. /\ \A q \in Proc \ {p} : pc'[q] = pc[q]
          /\ pc'[p] \notin {"creat", "rmdir"}
      BY <2>3 DEF TypeOK, RegisterCreat, Goto, Return
    <3>3. name[p] \in dir
      BY <2>3 DEF TypeOK, Custody, Holds, RegisterCreat
    <3>. QED  BY <3>1, <3>2, <3>3 DEF TypeOK, Custody, Holds
  <2>4. ASSUME RegisterWrite(p) PROVE Custody'
    <3>. UNCHANGED <<dir, driver, extra>>
      BY <2>4 DEF RegisterWrite
    <3>. \A q \in Proc, m \in Name : Holds(q, m)' => Holds(q, m)
      BY <2>4 DEF TypeOK, RegisterWrite, Return, Holds
    <3>. QED  BY CustodyFrame
  <2>. QED  BY <1>1, <2>1, <2>2, <2>3, <2>4 DEF Register
<1>2. ASSUME NEW p \in Proc, Unregister(p) PROVE Custody'
  <2>1. ASSUME NEW n \in Name, UnregisterStat(p, n) PROVE Custody'
    <3>. UNCHANGED <<dir, driver, extra>>
      BY <2>1 DEF UnregisterStat, disk
    <3>. \A q \in Proc, m \in Name : Holds(q, m)' => Holds(q, m)
      BY <2>1 DEF TypeOK, UnregisterStat, Call, Goto, Return, Holds
    <3>. QED  BY CustodyFrame
  <2>2. ASSUME UnregisterUnlink(p) PROVE Custody'
    BY <2>2 DEF TypeOK, Custody, Holds, UnregisterUnlink, Goto, Return
  <2>3. ASSUME UnregisterRmdir(p) PROVE Custody'
    BY <2>3 DEF TypeOK, Custody, Holds, UnregisterRmdir, DirEmpty, Return
  <2>. QED  BY <1>2, <2>1, <2>2, <2>3 DEF Unregister
<1>3. ASSUME NEW p \in Proc, ReadConfig(p) \/ Enumerate(p) \/ Crash(p)
      PROVE  Custody'
  <2>1. UNCHANGED <<dir, driver, extra>>
    BY <1>3 DEF ReadConfig, GetParameter, ConfigOpen, ConfigFstat, ConfigRead,
                Enumerate, EnumerateOpen, EnumerateNext, EnumerateCallback,
                EnumerateEnd, Crash, disk
  <2>2. /\ \A q \in Proc \ {p} : pc'[q] = pc[q] /\ name'[q] = name[q]
        /\ pc'[p] \notin {"creat", "rmdir"}
    <3>1. CASE ReadConfig(p)
      BY <3>1 DEF TypeOK, ReadConfig, GetParameter, ConfigOpen, ConfigFstat,
                  ConfigRead, ReadResult, Call, Goto, Return
    <3>2. CASE Enumerate(p)
      BY <3>2 DEF TypeOK, Enumerate, EnumerateOpen, EnumerateNext,
                  EnumerateCallback, EnumerateEnd, Goto, Return
    <3>3. CASE Crash(p)
      BY <3>3 DEF TypeOK, Crash, Return
    <3>. QED  BY <1>3, <3>1, <3>2, <3>3
  <2>3. \A q \in Proc, m \in Name : Holds(q, m)' => Holds(q, m)
    BY <2>2 DEF TypeOK, Holds
  <2>. QED  BY <2>1, <2>3, CustodyFrame
<1>4. ASSUME Installer PROVE Custody'
  BY <1>4 DEF TypeOK, Custody, Holds, Installer, AddExtra, RemoveExtra
<1>5. ASSUME UNCHANGED vars PROVE Custody'
  BY <1>5 DEF Custody, Holds, vars
<1>. QED  BY <1>1, <1>2, <1>3, <1>4, <1>5 DEF Next

\* No interleaving of registerDriver and unregisterDriver calls, and no fault or
\* death among them, lets two processes work inside one directory.
THEOREM CustodyHolds == Spec => []Custody
<1>1. Init => Custody
  BY DEF Init, Custody, Holds
<1>. QED  BY <1>1, TypeStep, CustodyStep, PTL DEF Spec

-----------------------------------------------------------------------------
(* The file being written.                                                   *)

\* A step that writes no file, links none and makes no writer leaves SoleWriter
\* true if it opens only files to read, and finds them empty where they are.
LEMMA WriterFrame ==
  ASSUME TypeOK, SoleWriter, NEW p \in Proc,
         content' = content,
         \A n \in Name : driver'[n] \in {driver[n], NoInode},
         \A q \in Proc \ {p} : /\ pc'[q] = pc[q] /\ name'[q] = name[q]
                               /\ fd'[q] = fd[q] /\ sized'[q] = sized[q],
         pc'[p] # "write",
         \/ fd'[p] = NoInode
         \/ fd'[p] = fd[p] /\ pc[p] \notin {"write", "fstat", "read"}
         \/ pc'[p] = "fstat"
         \/ /\ pc[p] = "fstat" /\ pc'[p] = "read" /\ fd'[p] = fd[p]
            /\ sized'[p] = (content[fd[p]] # "empty")
  PROVE  SoleWriter'
<1>. SUFFICES ASSUME NEW w \in Proc, pc'[w] = "write"
              PROVE  /\ content'[fd'[w]] = "empty"
                     /\ \A q \in Proc : q # w /\ fd'[q] = fd'[w] =>
                          /\ pc'[q] \in {"fstat", "read"}
                          /\ pc'[q] = "read" => ~sized'[q]
                     /\ \A n \in Name : driver'[n] = fd'[w] => n = name'[w]
  BY DEF SoleWriter
<1>1. /\ w # p /\ pc[w] = "write" /\ fd'[w] = fd[w] /\ name'[w] = name[w]
      /\ fd[w] \in Inode /\ fd[w] # NoInode
  BY RegistryAssumption DEF TypeOK
<1>2. content'[fd'[w]] = "empty"
  BY <1>1 DEF SoleWriter
<1>3. \A n \in Name : driver'[n] = fd'[w] => n = name'[w]
  BY <1>1 DEF SoleWriter
<1>4. ASSUME NEW q \in Proc, q # w, fd'[q] = fd'[w]
      PROVE  pc'[q] \in {"fstat", "read"} /\ (pc'[q] = "read" => ~sized'[q])
  <2>1. CASE q # p
    BY <1>1, <1>4, <2>1 DEF SoleWriter
  <2>2. CASE q = p
    <3>1. fd[p] = fd[w] => pc[p] \in {"fstat", "read"}
      BY <1>1, <2>2 DEF SoleWriter
    <3>2. \/ pc'[p] = "fstat"
          \/ pc'[p] = "read" /\ sized'[p] = (content[fd[p]] # "empty") /\ fd[p] = fd[w]
      BY <1>1, <1>4, <2>2, <3>1
    <3>3. pc'[p] \in {"fstat", "read"}
      BY <3>2
    <3>4. content[fd[w]] = "empty"
      BY <1>1 DEF SoleWriter
    <3>. QED  BY <2>2, <3>2, <3>3, <3>4
  <2>. QED  BY <2>1, <2>2
<1>. QED  BY <1>2, <1>3, <1>4

\* creat gives its caller an inode nobody has, because by Custody there was no
\* `driver`; write reaches no file but the caller's.
LEMMA WriterStep ==
  ASSUME TypeOK, Custody, SoleWriter, [Next]_vars PROVE SoleWriter'
<1>1. ASSUME NEW p \in Proc, RegisterCreat(p) PROVE SoleWriter'
  <2>1. CASE Return(p, "error") /\ UNCHANGED <<driver, content, fd>>
    BY <1>1, <2>1 DEF TypeOK, RegisterCreat, SoleWriter, Return, reading
  <2>2. ASSUME NEW i \in CreatTarget(name[p]),
               driver' = [driver EXCEPT ![name[p]] = i],
               content' = [content EXCEPT ![i] = "empty"],
               fd' = [fd EXCEPT ![p] = i],
               Goto(p, "write")
        PROVE  SoleWriter'
    <3>1. driver[name[p]] = NoInode
      BY <1>1 DEF TypeOK, Custody, Holds, RegisterCreat
    <3>2. i \in FreeInode /\ i \in Inode
      BY <3>1 DEF CreatTarget, FreeInode
    <3>3. name' = name /\ sized' = sized
      BY <1>1 DEF RegisterCreat, reading
    <3>. SUFFICES ASSUME NEW w \in Proc, pc'[w] = "write"
                  PROVE  /\ content'[fd'[w]] = "empty"
                         /\ \A q \in Proc : q # w /\ fd'[q] = fd'[w] =>
                              /\ pc'[q] \in {"fstat", "read"}
                              /\ pc'[q] = "read" => ~sized'[q]
                         /\ \A n \in Name : driver'[n] = fd'[w] => n = name'[w]
      BY DEF SoleWriter
    <3>4. CASE w = p
      BY <2>2, <3>2, <3>3, <3>4 DEF TypeOK, FreeInode
    <3>5. CASE w # p
      <4>1. pc[w] = "write" /\ fd'[w] = fd[w] /\ fd[w] # i /\ fd[w] \in Inode
        BY <2>2, <3>2, <3>5 DEF TypeOK, Goto, FreeInode
      <4>2. content'[fd'[w]] = "empty"
        BY <2>2, <4>1 DEF TypeOK, SoleWriter
      <4>3. \A n \in Name : driver'[n] = fd'[w] => n = name'[w]
        BY <2>2, <3>2, <3>3, <4>1 DEF TypeOK, SoleWriter
      <4>4. \A q \in Proc : q # w /\ fd'[q] = fd'[w] =>
              pc'[q] \in {"fstat", "read"} /\ (pc'[q] = "read" => ~sized'[q])
        BY <2>2, <3>2, <3>3, <4>1 DEF TypeOK, SoleWriter, Goto, FreeInode
      <4>. QED  BY <4>2, <4>3, <4>4
    <3>. QED  BY <3>4, <3>5
  <2>. QED  BY <1>1, <2>1, <2>2 DEF RegisterCreat
<1>2. ASSUME NEW p \in Proc, RegisterWrite(p) PROVE SoleWriter'
  <2>1. \A w \in Proc \ {p} : pc[w] = "write" => fd[w] # fd[p]
    BY <1>2 DEF RegisterWrite, SoleWriter
  <2>2. /\ pc' = [pc EXCEPT ![p] = "idle"] /\ fd' = [fd EXCEPT ![p] = NoInode]
        /\ name' = name /\ sized' = sized /\ driver' = driver
        /\ \A i \in Inode : i # fd[p] => content'[i] = content[i]
    BY <1>2 DEF TypeOK, RegisterWrite, Return, reading
  <2>. QED  BY <2>1, <2>2, RegistryAssumption DEF TypeOK, SoleWriter
<1>3. ASSUME NEW p \in Proc, (\E n \in Name : RegisterStat(p, n)) \/ RegisterMkdir(p)
                             \/ Unregister(p) \/ Crash(p)
      PROVE  SoleWriter'
  <2>1. /\ content' = content
        /\ \A n \in Name : driver'[n] \in {driver[n], NoInode}
        /\ \A q \in Proc \ {p} : /\ pc'[q] = pc[q] /\ name'[q] = name[q]
                                 /\ fd'[q] = fd[q] /\ sized'[q] = sized[q]
        /\ pc'[p] # "write"
        /\ \/ fd'[p] = NoInode
           \/ fd'[p] = fd[p] /\ pc[p] \notin {"write", "fstat", "read"}
    BY <1>3 DEF TypeOK, RegisterStat, RegisterMkdir, Unregister, UnregisterStat,
                UnregisterUnlink, UnregisterRmdir, Crash, Call, Goto, Return,
                disk, reading
  <2>. QED  BY <2>1, WriterFrame
<1>4. ASSUME NEW p \in Proc, ReadConfig(p) \/ Enumerate(p) PROVE SoleWriter'
  <2>1. /\ content' = content
        /\ driver' = driver
        /\ \A q \in Proc \ {p} : /\ pc'[q] = pc[q] /\ name'[q] = name[q]
                                 /\ fd'[q] = fd[q] /\ sized'[q] = sized[q]
        /\ pc'[p] # "write"
        /\ \/ fd'[p] = NoInode
           \/ fd'[p] = fd[p] /\ pc[p] \notin {"write", "fstat", "read"}
           \/ pc'[p] = "fstat"
           \/ /\ pc[p] = "fstat" /\ pc'[p] = "read" /\ fd'[p] = fd[p]
              /\ sized'[p] = (content[fd[p]] # "empty")
    <3>1. CASE ReadConfig(p)
      BY <3>1 DEF TypeOK, ReadConfig, GetParameter, ConfigOpen, ConfigFstat,
                  ConfigRead, ReadResult, Call, Goto, Return, disk, reading
    <3>2. CASE Enumerate(p)
      BY <3>2 DEF TypeOK, Enumerate, EnumerateOpen, EnumerateNext,
                  EnumerateCallback, EnumerateEnd, Goto, Return, disk, reading
    <3>. QED  BY <1>4, <3>1, <3>2
  <2>. QED  BY <2>1, WriterFrame
<1>5. ASSUME Installer \/ UNCHANGED vars PROVE SoleWriter'
  BY <1>5 DEF SoleWriter, Installer, AddExtra, RemoveExtra, reading, vars
<1>. QED  BY <1>1, <1>2, <1>3, <1>4, <1>5 DEF Next, Register

\* The conjunction that is inductive: Custody makes creat safe for SoleWriter.
LEMMA RegistryInductive == Spec => [](TypeOK /\ Custody /\ SoleWriter)
<1>1. Init => Custody /\ SoleWriter
  BY DEF Init, Custody, Holds, SoleWriter
<1>. QED  BY <1>1, TypeStep, CustodyStep, WriterStep, PTL DEF Spec

\* What a registrar writes lands in the file it has just created and in no
\* other, even when its entry is removed and made anew before it writes.
THEOREM SoleWriterHolds == Spec => []SoleWriter
BY RegistryInductive, PTL

-----------------------------------------------------------------------------
(* A listed path is stable.                                                  *)

\* One step leaves a path that has been written alone or unlinks it.
LEMMA ListedStep ==
  ASSUME TypeOK, Custody, SoleWriter, [Next]_vars, NEW n \in Name,
         driver[n] # NoInode, content[driver[n]] # "empty"
  PROVE  \/ driver'[n] = NoInode
         \/ driver'[n] = driver[n] /\ content'[driver[n]] = content[driver[n]]
<1>1. ASSUME NEW p \in Proc, RegisterCreat(p)
      PROVE  driver'[n] = driver[n] /\ content'[driver[n]] = content[driver[n]]
  <2>1. driver[name[p]] = NoInode
    BY <1>1 DEF TypeOK, Custody, Holds, RegisterCreat
  <2>2. \A i \in CreatTarget(name[p]) : i # driver[n]
    BY <2>1 DEF CreatTarget, FreeInode
  <2>. QED  BY <1>1, <2>1, <2>2 DEF TypeOK, RegisterCreat
<1>2. ASSUME NEW p \in Proc, RegisterWrite(p)
      PROVE  driver'[n] = driver[n] /\ content'[driver[n]] = content[driver[n]]
  BY <1>2 DEF TypeOK, SoleWriter, RegisterWrite
<1>3. ASSUME NEW p \in Proc, UnregisterUnlink(p)
      PROVE  driver'[n] \in {driver[n], NoInode} /\ content' = content
  BY <1>3 DEF TypeOK, UnregisterUnlink
<1>4. ASSUME NEW p \in Proc,
             \/ \E m \in Name : RegisterStat(p, m) \/ UnregisterStat(p, m)
             \/ RegisterMkdir(p) \/ UnregisterRmdir(p)
             \/ ReadConfig(p) \/ Enumerate(p) \/ Crash(p)
      PROVE  UNCHANGED <<driver, content>>
  BY <1>4 DEF RegisterStat, UnregisterStat, RegisterMkdir, UnregisterRmdir, Crash,
              ReadConfig, GetParameter, ConfigOpen, ConfigFstat, ConfigRead,
              Enumerate, EnumerateOpen, EnumerateNext, EnumerateCallback,
              EnumerateEnd, disk
<1>5. ASSUME Installer \/ UNCHANGED vars PROVE UNCHANGED <<driver, content>>
  BY <1>5 DEF Installer, AddExtra, RemoveExtra, vars
<1>. QED
  BY <1>1, <1>2, <1>3, <1>4, <1>5 DEF Next, Register, Unregister

\* The path a host finds under a name is never rewritten in place.
THEOREM ListedStableHolds == Spec => ListedStable
<1>1. TypeOK /\ Custody /\ SoleWriter /\ [Next]_vars => [ListedKept]_vars
  BY ListedStep DEF ListedKept
<1>. QED  BY <1>1, RegistryInductive, PTL DEF Spec, ListedStable

-----------------------------------------------------------------------------
(* The registry implements EntryLifecycle.                                   *)

\* The holder of a directory tells its stage.
LEMMA StageOfHeld ==
  ASSUME Custody, NEW n \in Name, NEW p \in Proc, Holds(p, n)
  PROVE  Stage(n) = IF pc[p] = "creat" THEN "claimed" ELSE "retired"
BY DEF Custody, Holds, Stage

\* A step of p on one name does not change the stage of another.
LEMMA StageElsewhere ==
  ASSUME TypeOK, NEW p \in Proc, NEW m \in Name, m # name[p], name' = name,
         \A q \in Proc \ {p} : pc'[q] = pc[q],
         m \in dir' <=> m \in dir, driver'[m] = driver[m]
  PROVE  Stage(m)' = Stage(m)
BY DEF Stage

\* A step that leaves directories and files alone and has p neither take nor
\* give up a directory changes no stage.
LEMMA StageFrame ==
  ASSUME TypeOK, NEW p \in Proc, UNCHANGED <<dir, driver>>,
         \A q \in Proc \ {p} : pc'[q] = pc[q] /\ name'[q] = name[q],
         pc[p] \notin {"creat", "rmdir"}, pc'[p] \notin {"creat", "rmdir"}
  PROVE  \A n \in Name : Stage(n)' = Stage(n)
BY DEF Stage

\* If a step moves the stage of one name and of no other, it is a step of
\* EntryLifecycle.
LEMMA StageMove ==
  ASSUME NEW n \in Name, \A m \in Name \ {n} : Stage(m)' = Stage(m),
         \/ Stage(n) = "free"    /\ Stage(n)' = "claimed"
         \/ Stage(n) = "claimed" /\ Stage(n)' \in {"listed", "stranded"}
         \/ Stage(n) = "listed"  /\ Stage(n)' = "retired"
         \/ Stage(n) = "retired" /\ Stage(n)' \in {"free", "stranded"}
  PROVE  Lifecycle!Next
<1>. DEFINE st == [m \in Name |-> Stage(m)]
<1>1. ASSUME NEW from, NEW to, Stage(n) = from, Stage(n)' = to
      PROVE  Lifecycle!Move(n, from, to)
  <2>1. st' = [st EXCEPT ![n] = to]
    BY <1>1
  <2>. QED  BY <1>1, <2>1 DEF Lifecycle!Move
<1>2. Lifecycle!Claim(n) \/ Lifecycle!List(n) \/ Lifecycle!Abandon(n)
      \/ Lifecycle!Retire(n) \/ Lifecycle!Remove(n) \/ Lifecycle!Leave(n)
  BY <1>1 DEF Lifecycle!Claim, Lifecycle!List, Lifecycle!Abandon,
              Lifecycle!Retire, Lifecycle!Remove, Lifecycle!Leave
<1>. QED  BY <1>2 DEF Lifecycle!Next

\* mkdir claims, creat lists or strands.
LEMMA RegisterImplements ==
  ASSUME TypeOK, Custody, NEW p \in Proc, Register(p)
  PROVE  Lifecycle!Next \/ \A n \in Name : Stage(n)' = Stage(n)
<1>1. ASSUME NEW n \in Name, RegisterStat(p, n)
      PROVE  \A m \in Name : Stage(m)' = Stage(m)
  <2>1. /\ UNCHANGED <<dir, driver>>
        /\ \A q \in Proc \ {p} : pc'[q] = pc[q] /\ name'[q] = name[q]
        /\ pc[p] \notin {"creat", "rmdir"} /\ pc'[p] \notin {"creat", "rmdir"}
    BY <1>1 DEF TypeOK, RegisterStat, Call, Goto, Return, disk
  <2>. QED  BY <2>1, StageFrame
<1>2. ASSUME RegisterMkdir(p)
      PROVE  Lifecycle!Next \/ \A m \in Name : Stage(m)' = Stage(m)
  <2>1. /\ pc[p] = "mkdir" /\ name' = name /\ driver' = driver
        /\ name[p] \in Name
        /\ \A q \in Proc \ {p} : pc'[q] = pc[q]
    BY <1>2 DEF TypeOK, RegisterMkdir, Goto, Return
  <2>2. CASE dir' = dir /\ pc'[p] = "idle"
    BY <2>1, <2>2, StageFrame
  <2>3. CASE /\ name[p] \notin dir /\ dir' = dir \cup {name[p]}
             /\ pc'[p] = "creat"
    <3>1. \A m \in Name \ {name[p]} : Stage(m)' = Stage(m)
      BY <2>1, <2>3, StageElsewhere
    <3>2. Stage(name[p]) = "free"
      BY <2>3 DEF Stage
    <3>3. Stage(name[p])' = "claimed"
      BY <2>1, <2>3 DEF Custody, Stage
    <3>. QED  BY <2>1, <3>1, <3>2, <3>3, StageMove
  <2>. QED
    BY <1>2, <2>2, <2>3 DEF TypeOK, RegisterMkdir, Goto, Return
<1>3. ASSUME RegisterCreat(p)
      PROVE  Lifecycle!Next
  <2>1. /\ pc[p] = "creat" /\ name' = name /\ dir' = dir /\ name[p] \in Name
        /\ \A q \in Proc \ {p} : pc'[q] = pc[q]
        /\ \A m \in Name \ {name[p]} : driver'[m] = driver[m]
        /\ pc'[p] \in {"idle", "write"}
    BY <1>3 DEF TypeOK, RegisterCreat, Goto, Return
  <2>2. /\ Stage(name[p]) = "claimed" /\ name[p] \in dir
        /\ driver[name[p]] = NoInode
        /\ \A q \in Proc \ {p} : ~Holds(q, name[p])
    BY <2>1, StageOfHeld DEF Custody, Holds
  <2>3. \A m \in Name \ {name[p]} : Stage(m)' = Stage(m)
    BY <2>1, StageElsewhere
  <2>4. Stage(name[p])' \in {"listed", "stranded"}
    BY <2>1, <2>2 DEF Stage, Holds
  <2>. QED  BY <2>1, <2>2, <2>3, <2>4, StageMove
<1>4. ASSUME RegisterWrite(p)
      PROVE  \A m \in Name : Stage(m)' = Stage(m)
  <2>1. /\ UNCHANGED <<dir, driver, name>>
        /\ \A q \in Proc \ {p} : pc'[q] = pc[q]
        /\ pc[p] \notin {"creat", "rmdir"} /\ pc'[p] \notin {"creat", "rmdir"}
    BY <1>4 DEF TypeOK, RegisterWrite, Return
  <2>. QED  BY <2>1, StageFrame
<1>. QED  BY <1>1, <1>2, <1>3, <1>4 DEF Register

\* unlink retires, rmdir removes or strands.
LEMMA UnregisterImplements ==
  ASSUME TypeOK, Custody, NEW p \in Proc, Unregister(p)
  PROVE  Lifecycle!Next \/ \A n \in Name : Stage(n)' = Stage(n)
<1>1. ASSUME NEW n \in Name, UnregisterStat(p, n)
      PROVE  \A m \in Name : Stage(m)' = Stage(m)
  <2>1. /\ UNCHANGED <<dir, driver>>
        /\ \A q \in Proc \ {p} : pc'[q] = pc[q] /\ name'[q] = name[q]
        /\ pc[p] \notin {"creat", "rmdir"} /\ pc'[p] \notin {"creat", "rmdir"}
    BY <1>1 DEF TypeOK, UnregisterStat, Call, Goto, Return, disk
  <2>. QED  BY <2>1, StageFrame
<1>2. ASSUME UnregisterUnlink(p)
      PROVE  Lifecycle!Next \/ \A m \in Name : Stage(m)' = Stage(m)
  <2>1. /\ pc[p] = "unlink" /\ name' = name /\ dir' = dir
        /\ name[p] \in Name
        /\ \A q \in Proc \ {p} : pc'[q] = pc[q]
    BY <1>2 DEF TypeOK, UnregisterUnlink, Goto, Return
  <2>2. CASE driver' = driver /\ pc'[p] = "idle"
    BY <2>1, <2>2, StageFrame
  <2>3. CASE /\ driver[name[p]] # NoInode /\ pc'[p] = "rmdir"
             /\ driver' = [driver EXCEPT ![name[p]] = NoInode]
    <3>1. \A m \in Name \ {name[p]} : Stage(m)' = Stage(m)
      BY <2>1, <2>3, StageElsewhere DEF TypeOK
    <3>2. Stage(name[p]) = "listed"
      BY <2>1, <2>3 DEF Custody, Stage
    <3>3. Stage(name[p])' = "retired"
      BY <2>1, <2>3 DEF TypeOK, Custody, Holds, Stage
    <3>. QED  BY <2>1, <3>1, <3>2, <3>3, StageMove
  <2>. QED
    BY <1>2, <2>2, <2>3 DEF TypeOK, UnregisterUnlink, Goto, Return
<1>3. ASSUME UnregisterRmdir(p)
      PROVE  Lifecycle!Next
  <2>1. /\ pc[p] = "rmdir" /\ name' = name /\ driver' = driver
        /\ name[p] \in Name
        /\ \A q \in Proc \ {p} : pc'[q] = pc[q]
        /\ dir' = dir \/ dir' = dir \ {name[p]}
        /\ pc'[p] = "idle"
    BY <1>3 DEF TypeOK, UnregisterRmdir, Return
  <2>2. /\ Stage(name[p]) = "retired"
        /\ driver[name[p]] = NoInode
        /\ \A q \in Proc \ {p} : ~Holds(q, name[p])
    BY <2>1, StageOfHeld DEF Custody, Holds
  <2>3. \A m \in Name \ {name[p]} : Stage(m)' = Stage(m)
    BY <2>1, StageElsewhere
  <2>4. Stage(name[p])' \in {"free", "stranded"}
    BY <2>1, <2>2 DEF Stage, Holds
  <2>. QED  BY <2>1, <2>2, <2>3, <2>4, StageMove
<1>. QED  BY <1>1, <1>2, <1>3 DEF Unregister

\* A process that dies strands the directory it holds; the readers and the
\* installer move no entry.
LEMMA OthersImplement ==
  ASSUME TypeOK, Custody,
         \/ \E p \in Proc : ReadConfig(p) \/ Enumerate(p) \/ Crash(p)
         \/ Installer \/ UNCHANGED vars
  PROVE  Lifecycle!Next \/ \A n \in Name : Stage(n)' = Stage(n)
<1>1. ASSUME NEW p \in Proc, ReadConfig(p) \/ Enumerate(p)
      PROVE  \A n \in Name : Stage(n)' = Stage(n)
  <2>1. /\ UNCHANGED <<dir, driver>>
        /\ \A q \in Proc \ {p} : pc'[q] = pc[q] /\ name'[q] = name[q]
        /\ pc[p] \notin {"creat", "rmdir"} /\ pc'[p] \notin {"creat", "rmdir"}
    <3>1. CASE ReadConfig(p)
      BY <3>1 DEF TypeOK, ReadConfig, GetParameter, ConfigOpen, ConfigFstat,
                  ConfigRead, ReadResult, Call, Goto, Return, disk
    <3>2. CASE Enumerate(p)
      BY <3>2 DEF TypeOK, Enumerate, EnumerateOpen, EnumerateNext,
                  EnumerateCallback, EnumerateEnd, Goto, Return, disk
    <3>. QED  BY <1>1, <3>1, <3>2
  <2>. QED  BY <2>1, StageFrame
<1>2. ASSUME NEW p \in Proc, Crash(p)
      PROVE  Lifecycle!Next \/ \A n \in Name : Stage(n)' = Stage(n)
  <2>1. /\ UNCHANGED <<dir, driver, name>> /\ name[p] \in Name
        /\ \A q \in Proc \ {p} : pc'[q] = pc[q]
        /\ pc'[p] = "idle"
    BY <1>2 DEF TypeOK, Crash, Return, disk
  <2>2. CASE pc[p] \notin {"creat", "rmdir"}
    BY <2>1, <2>2, StageFrame
  <2>3. CASE pc[p] \in {"creat", "rmdir"}
    <3>1. /\ Stage(name[p]) \in {"claimed", "retired"} /\ name[p] \in dir
          /\ driver[name[p]] = NoInode
          /\ \A q \in Proc \ {p} : ~Holds(q, name[p])
      BY <2>1, <2>3, StageOfHeld DEF Custody, Holds
    <3>2. \A m \in Name \ {name[p]} : Stage(m)' = Stage(m)
      BY <2>1, StageElsewhere
    <3>3. Stage(name[p])' = "stranded"
      BY <2>1, <3>1 DEF Stage, Holds
    <3>. QED  BY <2>1, <3>1, <3>2, <3>3, StageMove
  <2>. QED  BY <2>2, <2>3
<1>3. ASSUME Installer \/ UNCHANGED vars
      PROVE  \A n \in Name : Stage(n)' = Stage(n)
  BY <1>3 DEF Stage, Installer, AddExtra, RemoveExtra, vars
<1>. QED  BY <1>1, <1>2, <1>3

\* The registry, with its system calls interleaved in any way, implements the
\* life cycle of its entries.
THEOREM RegistryImplements == Spec => EntriesLive
<1>1. Init => Lifecycle!Init
  BY DEF Init, Lifecycle!Init, Stage
<1>2. TypeOK /\ Custody /\ [Next]_vars
        => [Lifecycle!Next]_([n \in Name |-> Stage(n)])
  <2>. SUFFICES ASSUME TypeOK, Custody, [Next]_vars
                PROVE  Lifecycle!Next \/ \A n \in Name : Stage(n)' = Stage(n)
    OBVIOUS
  <2>. QED
    BY RegisterImplements, UnregisterImplements, OthersImplement DEF Next
<1>. QED
  BY <1>1, <1>2, RegistryInductive, PTL DEF Spec, EntriesLive, Lifecycle!Spec
-----------------------------------------------------------------------------
(* What a scan tells, when no `driver` file that is there fails to open or   *)
(* to read.                                                                  *)

\* p works on the entry n, which readdir has returned to its scan.
Telling(p, n) == name[p] = n /\ pc[p] # "scan"

\* What p has of the entry n is what the directory has.
Current(p, n) == /\ pc[p] \in {"fstat", "read"} => fd[p] = driver[n]
                 /\ pc[p] = "read" => sized[p]
                 /\ pc[p] = "callback" => val[p] = content[driver[n]]

\* The history of p's scan; while there is none it is empty.
Scan(p) == /\ pc[p] \in {"scan", "callback"} => scanning[p]
           /\ scanning[p] => pc[p] \in {"scan", "open", "fstat", "read", "callback"}
           /\ scanning[p] /\ pc[p] # "scan" => name[p] \notin DotName
           /\ ~scanning[p] => /\ quiet[p] = {} /\ loose[p] = {}
                              /\ heard[p] = [n \in Name |-> "never"]

\* An entry that has been there all along: readdir will return it or has, and p
\* tells of it what it is.
Quiet(p, n) == /\ Complete(n)
               /\ n \notin loose[p]
               /\ Telling(p, n) => n \notin due[p] /\ Current(p, n)
               /\ heard[p][n] = IF n \in due[p] \/ n \in DotName \/ Telling(p, n)
                                THEN "never" ELSE "right"

Follows(p) == Scan(p) /\ \A n \in quiet[p] : Quiet(p, n)

HistoryType == /\ quiet \in [Proc -> SUBSET Name]
               /\ heard \in [Proc -> [Name -> {"never", "right", "wrong"}]]

Safe == TypeOK /\ Custody /\ SoleWriter

ScanInv == HistoryType /\ \A p \in Proc : Follows(p)

-----------------------------------------------------------------------------
\* Observe makes the history of every process anew.
LEMMA HistoryStep ==
  ASSUME HistoryType, Observe, TypeOK
  PROVE  HistoryType'
<1>1. quiet' \in [Proc -> SUBSET Name]
  BY DEF Observe
<1>2. \A p \in Proc : Hear(p) \in [Name -> {"never", "right", "wrong"}]
  BY DEF Hear, HistoryType, TypeOK
<1>3. heard' \in [Proc -> [Name -> {"never", "right", "wrong"}]]
  BY <1>2 DEF Observe, HistoryType
<1> QED BY <1>1, <1>3 DEF HistoryType

\* An entry that stays in the history of a scan keeps its file and its path.
LEMMA Stays ==
  ASSUME Safe, ScanInv, Next, Observe, NEW p \in Proc, scanning[p], NEW n \in quiet'[p]
  PROVE  /\ n \in Name /\ n \in quiet[p] /\ Quiet(p, n) /\ Complete(n)'
         /\ driver'[n] = driver[n] /\ content'[driver[n]] = content[driver[n]]
<1>1. n \in Name /\ n \in quiet[p] /\ Complete(n)'
  BY DEF Observe
<1>2. Quiet(p, n) /\ Complete(n)
  BY <1>1 DEF ScanInv, Follows, Quiet
<1>3. driver[n] # NoInode /\ content[driver[n]] # "empty" /\ driver'[n] # NoInode
  BY <1>1, <1>2, RegistryAssumption DEF Complete
<1>4. driver'[n] = driver[n] /\ content'[driver[n]] = content[driver[n]]
  BY <1>1, <1>3, ListedStep DEF Safe
<1> QED BY <1>1, <1>2, <1>4

\* A process that is not scanning, before and after.
LEMMA NotScanning ==
  ASSUME Observe, NEW p \in Proc, ~scanning'[p], loose'[p] = {},
         pc'[p] \notin {"scan", "callback"}
  PROVE  Follows(p)'
<1>1. quiet'[p] = {} /\ heard'[p] = [n \in Name |-> "never"]
  BY DEF Observe
<1> QED BY <1>1 DEF Follows, Scan

\* A step that leaves p where it is, and changes no entries under its scan but
\* those that are not there all along.
Aside(p) == /\ UNCHANGED <<pc[p], name[p], fd[p], sized[p], val[p], scanning[p]>>
            /\ due'[p] \subseteq due[p]
            /\ ~scanning[p] => loose'[p] = loose[p]
            /\ \A n \in quiet'[p] : /\ n \in due[p] => n \in due'[p]
                                    /\ n \in loose'[p] => n \in loose[p]

LEMMA AsideKeeps ==
  ASSUME Safe, ScanInv, Next, Observe, NEW p \in Proc, Aside(p)
  PROVE  Follows(p)'
<1>1. CASE ~scanning[p]
  BY <1>1, NotScanning DEF Aside, ScanInv, Follows, Scan
<1>2. CASE scanning[p]
  <2>1. heard'[p] = heard[p]
    BY <1>2 DEF Observe, Aside
  <2>2. Scan(p)'
    BY <1>2 DEF Scan, Aside, ScanInv, Follows
  <2>3. ASSUME NEW n \in quiet'[p] PROVE Quiet(p, n)'
    <3>1. /\ Quiet(p, n) /\ Complete(n)'
          /\ driver'[n] = driver[n] /\ content'[driver[n]] = content[driver[n]]
      BY <1>2, <2>3, Stays
    <3>2. Telling(p, n)' <=> Telling(p, n)
      BY DEF Telling, Aside
    <3>3. n \in due'[p] <=> n \in due[p]
      BY <2>3 DEF Aside
    <3>4. Current(p, n) => Current(p, n)'
      BY <3>1 DEF Current, Aside
    <3>5. n \notin loose'[p]
      BY <2>3, <3>1 DEF Aside, Quiet
    <3> QED BY <2>1, <3>1, <3>2, <3>3, <3>4, <3>5 DEF Quiet
  <2> QED BY <2>2, <2>3 DEF Follows
<1> QED BY <1>1, <1>2

\* An entry that comes or goes has not been there all along.
LEMMA ComesOrGoes ==
  ASSUME Safe, ScanInv, Observe, NEW q \in Proc, RegisterMkdir(q) \/ UnregisterRmdir(q),
         NEW p \in Proc, q # p
  PROVE  Aside(p)
<1>1. UNCHANGED <<pc[p], name[p], fd[p], sized[p], val[p], scanning[p]>>
  BY DEF RegisterMkdir, UnregisterRmdir, Goto, Return, reading, Safe, TypeOK
<1>2. CASE due' = due /\ loose' = loose
  BY <1>1, <1>2 DEF Aside
<1>3. ASSUME NEW m \in Name, Unsettle(m), m \notin dir \/ m \notin dir'
      PROVE  Aside(p)
  <2>1. ~Complete(m) \/ ~Complete(m)'
    BY <1>3 DEF Complete
  <2>2. scanning[p] => m \notin quiet'[p]
    BY <2>1 DEF Observe, ScanInv, Follows, Quiet
  <2>3. ~scanning[p] => quiet'[p] = {}
    BY <1>1 DEF Observe
  <2> QED BY <1>1, <1>3, <2>2, <2>3 DEF Unsettle, Aside
<1> QED BY <1>2, <1>3 DEF RegisterMkdir, UnregisterRmdir, Safe, TypeOK

\* The steps of another process.
LEMMA OtherAside ==
  ASSUME Safe, ScanInv, Observe, NEW q \in Proc, NEW p \in Proc, q # p,
         Register(q) \/ Unregister(q) \/ ReadConfig(q) \/ Enumerate(q) \/ Crash(q)
  PROVE  Aside(p)
<1> DEFINE Still == UNCHANGED <<pc[p], name[p], fd[p], sized[p], val[p], scanning[p],
                                due[p], loose[p]>>
<1> USE DEF Safe, TypeOK
<1>1. Still => Aside(p)
  BY DEF Aside
<1>2. CASE Register(q)
  <2>1. ASSUME NEW n \in Name, RegisterStat(q, n) PROVE Still
    BY <2>1 DEF RegisterStat, Call, Goto, Return, disk, reading, streams
  <2>2. CASE RegisterMkdir(q)
    BY <2>2, ComesOrGoes
  <2>3. ASSUME RegisterCreat(q) PROVE Still
    BY <2>3 DEF RegisterCreat, Goto, Return, reading, streams
  <2>4. ASSUME RegisterWrite(q) PROVE Still
    BY <2>4 DEF RegisterWrite, Goto, Return, reading, streams
  <2> QED BY <1>1, <1>2, <2>1, <2>2, <2>3, <2>4 DEF Register
<1>3. CASE Unregister(q)
  <2>1. ASSUME NEW n \in Name, UnregisterStat(q, n) PROVE Still
    BY <2>1 DEF UnregisterStat, Call, Goto, Return, disk, reading, streams
  <2>2. ASSUME UnregisterUnlink(q) PROVE Still
    BY <2>2 DEF UnregisterUnlink, Goto, Return, reading, streams
  <2>3. CASE UnregisterRmdir(q)
    BY <2>3, ComesOrGoes
  <2> QED BY <1>1, <1>3, <2>1, <2>2, <2>3 DEF Unregister
<1>4. CASE ReadConfig(q)
  <2>1. ASSUME NEW n \in Name, GetParameter(q, n) PROVE Still
    BY <2>1 DEF GetParameter, Call, Goto, Return, disk, reading, streams
  <2>2. ASSUME ConfigOpen(q) PROVE Still
    BY <2>2 DEF ConfigOpen, ReadResult, Goto, Return, disk, streams
  <2>3. ASSUME ConfigFstat(q) PROVE Still
    BY <2>3 DEF ConfigFstat, Goto, disk, streams
  <2>4. ASSUME ConfigRead(q) PROVE Still
    BY <2>4 DEF ConfigRead, ReadResult, Goto, Return, disk, streams
  <2> QED BY <1>1, <1>4, <2>1, <2>2, <2>3, <2>4 DEF ReadConfig
<1>5. CASE Enumerate(q)
  <2>1. ASSUME EnumerateOpen(q) PROVE Still
    BY <2>1 DEF EnumerateOpen, Goto, Return, disk, reading
  <2>2. ASSUME NEW n \in Name, EnumerateNext(q, n) PROVE Still
    BY <2>2 DEF EnumerateNext, Goto, disk, reading
  <2>3. ASSUME EnumerateCallback(q) PROVE Still
    BY <2>3 DEF EnumerateCallback, Closedir, Goto, Return, disk, streams
  <2>4. ASSUME EnumerateEnd(q) PROVE Still
    BY <2>4 DEF EnumerateEnd, Closedir, Return, disk, reading
  <2> QED BY <1>1, <1>5, <2>1, <2>2, <2>3, <2>4 DEF Enumerate
<1>6. CASE Crash(q)
  BY <1>1, <1>6 DEF Crash, Return, Closedir, disk
<1> QED BY <1>2, <1>3, <1>4, <1>5, <1>6

-----------------------------------------------------------------------------
(* The steps of the scan itself.                                             *)

LEMMA OpenStep ==
  ASSUME Safe, ScanInv, Next, Observe, NEW p \in Proc, EnumerateOpen(p)
  PROVE  Follows(p)'
<1> USE DEF Safe, TypeOK
<1>1. ~scanning[p] /\ loose[p] = {} /\ heard[p] = [n \in Name |-> "never"]
  BY DEF EnumerateOpen, ScanInv, Follows, Scan
<1>2. CASE scanning'[p]
  <2>1. /\ pc'[p] = "scan" /\ due'[p] = dir /\ loose'[p] = {} /\ dir' = dir
        /\ pc[p] = "idle"
    BY <1>1, <1>2 DEF EnumerateOpen, Goto, Return, disk
  <2>2. heard'[p] = [n \in Name |-> "never"]
    BY <1>1, <1>2, <2>1 DEF Observe
  <2>3. \A n \in quiet'[p] : Quiet(p, n)'
    BY <2>1, <2>2 DEF Observe, Quiet, Telling, Complete
  <2> QED BY <1>2, <2>1, <2>3 DEF Follows, Scan
<1>3. CASE ~scanning'[p]
  <2>1. pc'[p] = "idle" /\ loose'[p] = {}
    BY <1>1, <1>3 DEF EnumerateOpen, Goto, Return
  <2> QED BY <1>3, <2>1, NotScanning
<1> QED BY <1>2, <1>3

LEMMA NextStep ==
  ASSUME Safe, ScanInv, Next, Observe, NEW p \in Proc, NEW m \in Name, EnumerateNext(p, m)
  PROVE  Follows(p)'
<1> USE DEF Safe, TypeOK
<1>1. /\ scanning[p] /\ scanning'[p] /\ pc[p] = "scan" /\ m \in due[p] \cup loose[p]
      /\ due'[p] = due[p] \ {m} /\ loose'[p] = loose[p] \ {m}
      /\ \/ m \in DotName /\ pc'[p] = "scan" /\ name'[p] = name[p]
         \/ m \notin DotName /\ pc'[p] = "open" /\ name'[p] = m
  BY DEF EnumerateNext, Goto, ScanInv, Follows, Scan, reading
<1>2. heard'[p] = heard[p]
  BY <1>1 DEF Observe
<1>3. Scan(p)'
  BY <1>1 DEF Scan
<1>4. ASSUME NEW n \in quiet'[p] PROVE Quiet(p, n)'
  <2>1. Quiet(p, n) /\ Complete(n)'
    BY <1>1, <1>4, Stays
  <2>2. n = m => n \in due[p]
    BY <1>1, <2>1 DEF Quiet
  <2> QED BY <1>1, <1>2, <2>1, <2>2 DEF Quiet, Telling, Current
<1> QED BY <1>3, <1>4 DEF Follows

\* The steps of cwASIOreadConfig in a scan.
LEMMA ReadStep ==
  ASSUME Safe, ScanInv, Next, Observe, NEW p \in Proc, scanning[p],
         ConfigOpen(p) \/ ConfigFstat(p) \/ ConfigRead(p),
         "open" \notin Fault, "read" \notin Fault
  PROVE  Follows(p)'
<1> USE DEF Safe, TypeOK
<1>1. /\ scanning'[p] /\ pc[p] \in {"open", "fstat", "read"} /\ name'[p] = name[p]
      /\ pc'[p] \in {"fstat", "read", "callback"}
      /\ due'[p] = due[p] /\ loose'[p] = loose[p]
  BY DEF ConfigOpen, ConfigFstat, ConfigRead, ReadResult, Goto, streams
<1>2. heard'[p] = heard[p]
  BY <1>1 DEF Observe
<1>3. Scan(p)'
  BY <1>1 DEF Scan, ScanInv, Follows
<1>4. ASSUME NEW n \in quiet'[p] PROVE Quiet(p, n)'
  <2>1. /\ n \in Name /\ Quiet(p, n) /\ Complete(n)'
        /\ driver'[n] = driver[n] /\ content'[driver[n]] = content[driver[n]]
    BY <1>4, Stays
  <2>2. Telling(p, n)' <=> Telling(p, n)
    BY <1>1 DEF Telling
  <2>3. ASSUME Telling(p, n) PROVE Current(p, n)'
    <3>1. name[p] = n /\ Current(p, n) /\ driver[n] # NoInode /\ content[driver[n]] # "empty"
      BY <2>1, <2>3, RegistryAssumption DEF Telling, Quiet, Complete
    <3>2. CASE ConfigOpen(p)
      BY <2>1, <3>1, <3>2 DEF ConfigOpen, Goto, Fails, Current
    <3>3. CASE ConfigFstat(p)
      BY <2>1, <3>1, <3>3 DEF ConfigFstat, Goto, Current
    <3>4. CASE ConfigRead(p)
      BY <2>1, <3>1, <3>4 DEF ConfigRead, ReadResult, Goto, Fails, Current
    <3> QED BY <3>2, <3>3, <3>4
  <2> QED BY <1>1, <1>2, <2>1, <2>2, <2>3 DEF Quiet
<1> QED BY <1>3, <1>4 DEF Follows

LEMMA CallbackStep ==
  ASSUME Safe, ScanInv, Next, Observe, NEW p \in Proc, EnumerateCallback(p)
  PROVE  Follows(p)'
<1> USE DEF Safe, TypeOK
<1>1. scanning[p] /\ pc[p] = "callback" /\ name[p] \in Name
  BY DEF EnumerateCallback, ScanInv, Follows, Scan
<1>2. CASE pc'[p] = "scan"
  <2>1. scanning'[p] /\ due'[p] = due[p] /\ loose'[p] = loose[p] /\ name' = name
    BY <1>1, <1>2 DEF EnumerateCallback, Goto, Return, streams
  <2>2. heard'[p] = Hear(p)
    BY <1>1, <1>2, <2>1 DEF Observe
  <2>3. ASSUME NEW n \in quiet'[p] PROVE Quiet(p, n)'
    <3>1. n \in Name /\ Quiet(p, n) /\ Complete(n)'
      BY <1>1, <2>3, Stays
    <3>2. ~Telling(p, n)'
      BY <1>2 DEF Telling
    <3>3. CASE name[p] = n
      <4>1. n \notin due[p] /\ n \notin DotName
        BY <1>1, <3>1, <3>3 DEF Quiet, Telling, ScanInv, Follows, Scan
      <4>2. heard[p][n] = "never" /\ val[p] = content[driver[n]] /\ driver[n] # NoInode
        BY <1>1, <3>1, <3>3 DEF Quiet, Telling, Current, Complete
      <4>3. heard'[p][n] = "right"
        BY <2>2, <3>1, <3>3, <4>2 DEF Hear, ScanInv, HistoryType
      <4> QED BY <2>1, <3>1, <3>2, <4>1, <4>3 DEF Quiet
    <3>4. CASE name[p] # n
      <4>1. heard'[p][n] = heard[p][n]
        BY <2>2, <3>1, <3>4 DEF Hear, ScanInv, HistoryType
      <4> QED BY <2>1, <3>1, <3>2, <3>4, <4>1 DEF Quiet, Telling
    <3> QED BY <3>3, <3>4
  <2> QED BY <1>2, <2>1, <2>3 DEF Follows, Scan
<1>3. CASE pc'[p] # "scan"
  <2>1. pc'[p] = "idle" /\ ~scanning'[p] /\ loose'[p] = {}
    BY <1>1, <1>3 DEF EnumerateCallback, Goto, Return, Closedir
  <2> QED BY <2>1, NotScanning
<1> QED BY <1>2, <1>3

\* All the steps of p that leave it without a scan.
LEMMA OutsideStep ==
  ASSUME Safe, ScanInv, Observe, NEW p \in Proc,
         \/ EnumerateEnd(p) \/ Crash(p)
         \/ ~scanning[p] /\ (Register(p) \/ Unregister(p) \/ ReadConfig(p))
  PROVE  Follows(p)'
<1> USE DEF Safe, TypeOK
<1> SUFFICES ~scanning'[p] /\ loose'[p] = {} /\ pc'[p] \notin {"scan", "callback"}
  BY NotScanning
<1>1. CASE EnumerateEnd(p) \/ Crash(p)
  BY <1>1 DEF EnumerateEnd, Crash, Return, Closedir
<1>2. CASE ~scanning[p] /\ Register(p)
  <2>1. loose[p] = {}
    BY <1>2 DEF ScanInv, Follows, Scan
  <2>2. ASSUME NEW n \in Name, RegisterStat(p, n)
        PROVE ~scanning'[p] /\ loose'[p] = {} /\ pc'[p] \notin {"scan", "callback"}
    BY <1>2, <2>1, <2>2 DEF RegisterStat, Call, Goto, Return, streams
  <2>3. CASE RegisterMkdir(p)
    BY <1>2, <2>1, <2>3 DEF RegisterMkdir, Unsettle, Goto, Return
  <2>4. CASE RegisterCreat(p)
    BY <1>2, <2>1, <2>4 DEF RegisterCreat, Goto, Return, streams
  <2>5. CASE RegisterWrite(p)
    BY <1>2, <2>1, <2>5 DEF RegisterWrite, Goto, Return, streams
  <2> QED BY <1>2, <2>2, <2>3, <2>4, <2>5 DEF Register
<1>3. CASE ~scanning[p] /\ Unregister(p)
  <2>1. loose[p] = {}
    BY <1>3 DEF ScanInv, Follows, Scan
  <2>2. ASSUME NEW n \in Name, UnregisterStat(p, n)
        PROVE ~scanning'[p] /\ loose'[p] = {} /\ pc'[p] \notin {"scan", "callback"}
    BY <1>3, <2>1, <2>2 DEF UnregisterStat, Call, Goto, Return, streams
  <2>3. CASE UnregisterUnlink(p)
    BY <1>3, <2>1, <2>3 DEF UnregisterUnlink, Goto, Return, streams
  <2>4. CASE UnregisterRmdir(p)
    BY <1>3, <2>1, <2>4 DEF UnregisterRmdir, Unsettle, Return
  <2> QED BY <1>3, <2>2, <2>3, <2>4 DEF Unregister
<1>4. CASE ~scanning[p] /\ ReadConfig(p)
  <2>1. loose[p] = {}
    BY <1>4 DEF ScanInv, Follows, Scan
  <2>2. ASSUME NEW n \in Name, GetParameter(p, n)
        PROVE ~scanning'[p] /\ loose'[p] = {} /\ pc'[p] \notin {"scan", "callback"}
    BY <1>4, <2>1, <2>2 DEF GetParameter, Call, Goto, streams
  <2>3. CASE ConfigOpen(p)
    BY <1>4, <2>1, <2>3 DEF ConfigOpen, ReadResult, Goto, Return, streams
  <2>4. CASE ConfigFstat(p)
    BY <1>4, <2>1, <2>4 DEF ConfigFstat, Goto, streams
  <2>5. CASE ConfigRead(p)
    BY <1>4, <2>1, <2>5 DEF ConfigRead, ReadResult, Goto, Return, streams
  <2> QED BY <1>4, <2>2, <2>3, <2>4, <2>5 DEF ReadConfig
<1> QED BY <1>1, <1>2, <1>3, <1>4

\* In a scan p has only the steps of the scan.
LEMMA InScan ==
  ASSUME Safe, ScanInv, NEW p \in Proc, scanning[p],
         Register(p) \/ Unregister(p) \/ ReadConfig(p)
  PROVE  ConfigOpen(p) \/ ConfigFstat(p) \/ ConfigRead(p)
<1>1. pc[p] \in {"scan", "open", "fstat", "read", "callback"}
  BY DEF ScanInv, Follows, Scan
<1> QED BY <1>1 DEF Register, RegisterStat, RegisterMkdir, RegisterCreat, RegisterWrite,
             Unregister, UnregisterStat, UnregisterUnlink, UnregisterRmdir,
             ReadConfig, GetParameter, Call

\* Only readdir takes a process from its scan to success.
LEMMA EndsBy ==
  ASSUME Safe, ScanInv, Next, Observe, NEW p \in Proc, ScanEnds(p)
  PROVE  EnumerateEnd(p)
<1> USE DEF Safe, TypeOK
<1>1. pc[p] = "scan" /\ pc'[p] = "idle" /\ ret'[p] = "ok" /\ scanning[p]
  BY DEF ScanEnds, ScanInv, Follows, Scan
<1>2. CASE Installer
  BY <1>1, <1>2 DEF Installer, AddExtra, RemoveExtra
<1>3. ASSUME NEW q \in Proc, q # p,
             Register(q) \/ Unregister(q) \/ ReadConfig(q) \/ Enumerate(q) \/ Crash(q)
      PROVE  FALSE
  BY <1>1, <1>3, OtherAside DEF Aside
<1>4. CASE Register(p) \/ Unregister(p) \/ ReadConfig(p)
  BY <1>1, <1>4, InScan DEF ConfigOpen, ConfigFstat, ConfigRead
<1>5. CASE Enumerate(p)
  BY <1>1, <1>5 DEF Enumerate, EnumerateOpen, EnumerateNext, EnumerateCallback, Goto
<1>6. CASE Crash(p)
  BY <1>1, <1>6 DEF Crash, Return
<1> QED BY <1>2, <1>3, <1>4, <1>5, <1>6 DEF Next

LEMMA ScanStart == ScanInit => ScanInv
BY DEF ScanInit, Init, ScanInv, HistoryType, Follows, Scan

LEMMA ScanStep ==
  ASSUME "open" \notin Fault, "read" \notin Fault, Safe, ScanInv, [ScanNext]_scanVars
  PROVE  ScanInv'
<1>1. CASE UNCHANGED scanVars
  BY <1>1 DEF scanVars, vars, ScanInv, HistoryType, Follows, Scan, Quiet, Telling,
              Current, Complete
<1>2. CASE ScanNext
  <2>1. Next /\ Observe
    BY <1>2 DEF ScanNext
  <2>2. HistoryType'
    BY <2>1, HistoryStep DEF ScanInv, Safe
  <2>3. ASSUME NEW p \in Proc PROVE Follows(p)'
    <3>1. CASE Installer
      <4>1. Aside(p)
        BY <3>1 DEF Installer, AddExtra, RemoveExtra, reading, streams, Aside
      <4> QED BY <2>1, <4>1, AsideKeeps
    <3>2. ASSUME NEW q \in Proc, q # p,
                 Register(q) \/ Unregister(q) \/ ReadConfig(q) \/ Enumerate(q) \/ Crash(q)
          PROVE Follows(p)'
      BY <2>1, <3>2, OtherAside, AsideKeeps
    <3>3. CASE Register(p) \/ Unregister(p) \/ ReadConfig(p)
      BY <2>1, <3>3, InScan, ReadStep, OutsideStep
    <3>4. CASE Enumerate(p) \/ Crash(p)
      BY <2>1, <3>4, OpenStep, NextStep, CallbackStep, OutsideStep DEF Enumerate
    <3> QED BY <2>1, <3>1, <3>2, <3>3, <3>4 DEF Next
  <2> QED BY <2>2, <2>3 DEF ScanInv
<1> QED BY <1>1, <1>2

\* The history takes nothing from Registry.
LEMMA ScanRefines == ScanSpec => Spec
<1>1. ScanInit => Init
  BY DEF ScanInit
<1>2. [ScanNext]_scanVars => [Next]_vars
  BY DEF ScanNext, scanVars
<1> QED BY <1>1, <1>2, PTL DEF ScanSpec, Spec

LEMMA ScanInvariant ==
  ASSUME "open" \notin Fault, "read" \notin Fault
  PROVE  ScanSpec => [](Safe /\ ScanInv)
<1>1. ScanSpec => []Safe
  BY ScanRefines, RegistryInductive, PTL DEF Safe
<1>2. ScanInit => ScanInv
  BY ScanStart
<1>3. Safe /\ ScanInv /\ [ScanNext]_scanVars => ScanInv'
  BY ScanStep
<1> QED BY <1>1, <1>2, <1>3, PTL DEF ScanSpec

-----------------------------------------------------------------------------
\* However many processes change the directory under a scan, an entry that is
\* there all along is told to the callback once, with its path (cwASIO.c:280-298).
THEOREM ScanHonestHolds ==
  ASSUME "open" \notin Fault, "read" \notin Fault
  PROVE  ScanSpec => []ScanHonest
<1>1. ScanInv => ScanHonest
  BY DEF ScanInv, Follows, Quiet, Telling, ScanHonest
<1> QED BY <1>1, ScanInvariant, PTL

\* A scan that has not been stopped has told of all of them when it reports
\* success (cwASIO.c:281-286, 301).
THEOREM ScanCompleteHolds ==
  ASSUME "open" \notin Fault, "read" \notin Fault
  PROVE  ScanSpec => ScanComplete
<1> DEFINE Told == \A p \in Proc : ScanEnds(p) =>
                     \A n \in quiet[p] \ DotName : heard[p][n] = "right"
<1>1. ASSUME Safe, ScanInv, [ScanNext]_scanVars PROVE [Told]_scanVars
  <2> SUFFICES ASSUME ScanNext, NEW p \in Proc, ScanEnds(p), NEW n \in quiet[p] \ DotName
               PROVE  heard[p][n] = "right"
    BY <1>1
  <2>1. Quiet(p, n)
    BY <1>1 DEF ScanInv, Follows
  <2>2. EnumerateEnd(p)
    BY <1>1, EndsBy DEF ScanNext
  <2>3. due[p] = {}
    BY <1>1, <2>2 DEF EnumerateEnd, Return, ScanEnds, Safe, TypeOK
  <2> QED BY <2>1, <2>3 DEF Quiet, Telling, ScanEnds
<1>2. Safe /\ ScanInv /\ [ScanNext]_scanVars => [Told]_scanVars
  BY <1>1
<1> HIDE DEF Told
<1>3. ScanSpec => [][Told]_scanVars
  BY <1>2, ScanInvariant, PTL DEF ScanSpec
<1> QED BY <1>3 DEF Told, ScanComplete
=============================================================================
