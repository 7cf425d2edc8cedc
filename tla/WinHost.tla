------------------------------- MODULE WinHost -------------------------------
(* Hosts on Windows, and the part of the driver that runs in them, beside    *)
(* the installers of WinRegistry: cwASIOenumerate, cwASIOload, cwASIOunload  *)
(* (src/src/cwASIO.c), cwASIOfindName (src/src/cwASIOdriver.c), by which the *)
(* queryInterface of the skeletons looks for the CLSID it is made for.       *)
(* Each of these calls the registry many times, and installers work in       *)
(* between.  A thread unloads what it has loaded itself.                     *)
EXTENDS WinRegistry, Naturals, FiniteSets

CONSTANTS
  Host,      \* the threads of host programs
  Length,    \* the length of each name
  MaxLoads   \* bound on the loads of a thread that are not undone

\* The registry keeps its keys in order: a name is its place in it.
ASSUME WinHostAssumption == /\ Name \subseteq Nat /\ IsFiniteSet(Name)
                            /\ Length \in [Name -> Nat]
                            /\ MaxLoads \in Nat

VARIABLES
  hpc,      \* where each thread is
  loading,  \* who has called cwASIOload: a C program, or the constructor of a Device
  want,     \* the CLSID it looks for; Nothing in a scan for an application
  room,     \* the buffer for names: the longest one when the scan began
  index,    \* of the key to ask for next
  current,  \* the name of the key that RegEnumKeyEx returned last
  com,      \* how often COM is initialised on the thread
  drivers,  \* the instances it has loaded, and not unloaded
  nulls,    \* loads of C that returned zero and a null pointer, and not unloaded
  lost,     \* those of Devices, which threw: nobody can unload them
  ret       \* what the last call returned

\* What has happened since a thread's call, or its scan, began.
VARIABLES
  quiet,    \* the entries that have been there, unchanged, during the call
  firm,     \* those of them before which none has been deleted under the scan
  still,    \* and those before which none has been added
  told      \* how often the scan has told its callback of them and their ids

call == <<loading, want>>
scan == <<room, index, current>>
loads == <<com, drivers, nulls, lost>>
history == <<quiet, firm, still, told>>
threads == <<hpc, call, scan, loads, ret, history>>
hostVars == <<registry, installers, threads>>

HostInit == /\ Init
            /\ hpc = [h \in Host |-> "idle"]
            /\ loading = [h \in Host |-> "none"]
            /\ want = [h \in Host |-> Nothing]
            /\ room = [h \in Host |-> 0]
            /\ index = [h \in Host |-> 0]
            /\ current = [h \in Host |-> Nothing]
            /\ com = [h \in Host |-> 0]
            /\ drivers = [h \in Host |-> 0]
            /\ nulls = [h \in Host |-> 0]
            /\ lost = [h \in Host |-> 0]
            /\ ret = [h \in Host |-> "none"]
            /\ quiet = [h \in Host |-> {}]
            /\ firm = [h \in Host |-> {}]
            /\ still = [h \in Host |-> {}]
            /\ told = [h \in Host |-> [n \in Name |-> 0]]

-----------------------------------------------------------------------------
HostGoto(h, label) == /\ hpc' = [hpc EXCEPT ![h] = label]
                      /\ ret' = [ret EXCEPT ![h] = "none"]
                      /\ UNCHANGED call

HostReturn(h, res) == /\ hpc' = [hpc EXCEPT ![h] = "idle"]
                      /\ ret' = [ret EXCEPT ![h] = res]
                      /\ loading' = [loading EXCEPT ![h] = "none"]
                      /\ want' = [want EXCEPT ![h] = Nothing]
                      /\ room' = [room EXCEPT ![h] = 0]
                      /\ index' = [index EXCEPT ![h] = 0]
                      /\ current' = [current EXCEPT ![h] = Nothing]

Listed == {n \in Name : entry[n] # Nothing}

Below(n) == {m \in Listed : m < n}

\* Mutant: there is no room for the terminating null character.
MaxLengthShort == (CHOOSE l \in {Length[n] : n \in Listed} \cup {0} :
                     \A n \in Listed : Length[n] <= l) - 1

MaxLength == CHOOSE l \in {Length[n] : n \in Listed} \cup {0} :
               \A n \in Listed : Length[n] <= l

\* A thread begins a call for the CLSID c.
Begin(h, label, loader, c) ==
  /\ hpc[h] = "idle"
  /\ hpc' = [hpc EXCEPT ![h] = label]
  /\ ret' = [ret EXCEPT ![h] = "none"]
  /\ loading' = [loading EXCEPT ![h] = loader]
  /\ want' = [want EXCEPT ![h] = c]

-----------------------------------------------------------------------------
(* cwASIOenumerate(cb, context)                                              *)

\* An application lists the drivers, or a driver calls cwASIOfindName.
Enumerate(h, c) == Begin(h, "open", "none", c) /\ UNCHANGED <<scan, loads>>

\* cwASIOfindName turns an error, and a CLSID that was not found, into a negative
\* number; queryInterface inverts that, and a positive number is no failure to COM:
\* cwASIOload returns zero, and no instance.  The constructor of a Device throws
\* then, and does not call cwASIOunload; a C program may.
QueryInterface(h, res) ==
  \/ /\ res = "found"
     /\ HostReturn(h, "loaded")
     /\ drivers' = [drivers EXCEPT ![h] = @ + 1]
     /\ UNCHANGED <<com, nulls, lost>>
  \/ /\ res # "found"
     /\ HostReturn(h, "null")
     /\ \/ /\ loading[h] = "load"
           /\ nulls' = [nulls EXCEPT ![h] = @ + 1] /\ UNCHANGED lost
        \/ /\ loading[h] = "device"
           /\ lost' = [lost EXCEPT ![h] = @ + 1] /\ UNCHANGED nulls
     /\ UNCHANGED <<com, drivers>>

\* The scan is over, for an application, or for cwASIOfindName in a load.
EndScan(h, res) ==
  \/ loading[h] = "none" /\ HostReturn(h, res) /\ UNCHANGED loads
  \/ loading[h] # "none" /\ QueryInterface(h, res)

\* RegOpenKeyEx, and RegQueryInfoKey for the length of the longest name.  Without
\* memory for the buffers the scan ends here, as if no key were there.
OpenKey(h) ==
  /\ hpc[h] = "open"
  /\ \/ /\ room' = [room EXCEPT ![h] = MaxLength]
        /\ index' = [index EXCEPT ![h] = 0]
        /\ HostGoto(h, "key")
        /\ UNCHANGED <<current, loads>>
     \/ EndScan(h, "error")
     \/ EndScan(h, "end")

\* Mutant: a name that does not fit ends the scan.
EnumKeyStops(h) ==
  /\ hpc[h] = "key"
  /\ \/ \E n \in Listed :
          /\ Cardinality(Below(n)) = index[h]
          /\ \/ /\ Length[n] <= room[h]
                /\ current' = [current EXCEPT ![h] = n]
                /\ HostGoto(h, "value")
                /\ UNCHANGED <<room, index, loads>>
             \/ Length[n] > room[h] /\ EndScan(h, "end")
     \/ index[h] >= Cardinality(Listed) /\ EndScan(h, "end")

\* RegEnumKeyEx for the next index.  A name that does not fit is passed over.
EnumKey(h) ==
  /\ hpc[h] = "key"
  /\ \/ \E n \in Listed :
          /\ Cardinality(Below(n)) = index[h]
          /\ IF Length[n] <= room[h]
             THEN /\ current' = [current EXCEPT ![h] = n]
                  /\ HostGoto(h, "value")
                  /\ UNCHANGED index
             ELSE /\ index' = [index EXCEPT ![h] = @ + 1]
                  /\ UNCHANGED <<current, hpc, ret, call>>
          /\ UNCHANGED <<room, loads>>
     \/ index[h] >= Cardinality(Listed) /\ EndScan(h, "end")

\* getValue reads the CLSID of the current key: nothing, when there is none, or the
\* key has gone meanwhile.
Id(h) == entry[current[h]]

\* findCallback compares the CLSID, and ends the enumeration when it is the one.
Matches(h) == want[h] # Nothing /\ Id(h) = want[h]

\* The callback is told.  That of an application goes on or ends the scan.
Callback(h) ==
  /\ hpc[h] = "value"
  /\ \/ Matches(h) /\ EndScan(h, "found")
     \/ want[h] = Nothing /\ EndScan(h, "stopped")
     \/ /\ ~Matches(h)
        /\ index' = [index EXCEPT ![h] = @ + 1]
        /\ HostGoto(h, "key")
        /\ UNCHANGED <<room, current, loads>>

-----------------------------------------------------------------------------
(* cwASIOload(key, drv)                                                      *)

Load(h, loader, c) ==
  /\ Begin(h, "load", loader, c)
  /\ drivers[h] + nulls[h] + lost[h] < MaxLoads
  /\ UNCHANGED <<scan, loads>>

\* cwASIOgetParameter(n, "CLSID", id, size), one call to the registry.
GetParameter(n) == IF entry[n] = Nothing THEN "ASE_NotPresent" ELSE entry[n]

\* The constructor of cwASIO::Device reads the CLSID and loads by it, or throws.
Device(h, n) ==
  \/ GetParameter(n) # "ASE_NotPresent" /\ Load(h, "device", GetParameter(n))
  \/ /\ hpc[h] = "idle" /\ GetParameter(n) = "ASE_NotPresent"
     /\ HostReturn(h, "none")
     /\ UNCHANGED loads

\* CoInitializeEx may fail.
CoInitialize(h) ==
  /\ hpc[h] = "load"
  /\ \/ /\ com' = [com EXCEPT ![h] = @ + 1]
        /\ HostGoto(h, "create")
        /\ UNCHANGED scan
     \/ HostReturn(h, "error") /\ UNCHANGED com
  /\ UNCHANGED <<drivers, nulls, lost>>

\* COM loads the DLL by its path, and its factory makes an instance, whose
\* queryInterface calls cwASIOfindName.  COM's own errors are failures, and so is
\* the factory's when there is no memory for an instance.
Served(c) == "path" \in class[c]

\* Mutant: COM stays initialised when the class cannot be loaded.
CoCreateInstanceLeaky(h) ==
  /\ hpc[h] = "create"
  /\ \/ Served(want[h]) /\ HostGoto(h, "open") /\ UNCHANGED scan
     \/ ~Served(want[h]) /\ HostReturn(h, "error")
  /\ UNCHANGED loads

CoCreateInstance(h) ==
  /\ hpc[h] = "create"
  /\ \/ /\ Served(want[h])
        /\ HostGoto(h, "open")
        /\ UNCHANGED <<com, scan>>
     \/ /\ com' = [com EXCEPT ![h] = @ - 1]
        /\ HostReturn(h, IF Served(want[h]) THEN "exhausted" ELSE "error")
  /\ UNCHANGED <<drivers, nulls, lost>>

\* cwASIOunload, of what cwASIOload returned with zero, an instance or a null
\* pointer: the caller is to pass what was initialized by it (cwASIO.h:113-116).
Unload(h) ==
  /\ hpc[h] = "idle"
  /\ \/ drivers[h] > 0 /\ drivers' = [drivers EXCEPT ![h] = @ - 1] /\ UNCHANGED <<nulls, lost>>
     \/ nulls[h] > 0 /\ nulls' = [nulls EXCEPT ![h] = @ - 1] /\ UNCHANGED <<drivers, lost>>
  /\ com' = [com EXCEPT ![h] = @ - 1]
  /\ HostReturn(h, "none")

-----------------------------------------------------------------------------
HostStep(h) == \/ \E c \in Clsid \cup {Nothing} : Enumerate(h, c)
               \/ (\E c \in Clsid : Load(h, "load", c)) \/ \E n \in Name : Device(h, n)
               \/ OpenKey(h) \/ EnumKey(h) \/ Callback(h)
               \/ CoInitialize(h) \/ CoCreateInstance(h) \/ Unload(h)

HostNext == \/ Next /\ UNCHANGED <<hpc, call, scan, loads, ret>>
            \/ \E h \in Host : HostStep(h) /\ UNCHANGED <<registry, installers>>

Scanning(h) == hpc[h] \in {"key", "value"}

\* The callback is told of the current entry, and the id is that of the entry.
Tells(h, n) == hpc[h] = "value" /\ hpc'[h] # "value" /\ n = current[h]

Observe ==
  /\ quiet' = [h \in Host |-> {n \in Listed' :
       \/ hpc[h] = "idle"
       \/ n \in quiet[h] /\ entry'[n] = entry[n]}]
  /\ firm' = [h \in Host |-> {n \in quiet'[h] : Scanning(h) =>
       n \in firm[h] /\ Below(n) \subseteq Listed'}]
  /\ still' = [h \in Host |-> {n \in quiet'[h] : Scanning(h) =>
       n \in still[h] /\ Below(n)' \subseteq Listed}]
  /\ told' = [h \in Host |-> [n \in Name |->
       IF ~Scanning(h) \/ n \notin quiet'[h] THEN 0
       ELSE told[h][n] + IF Tells(h, n) THEN 1 ELSE 0]]

HostSpec == HostInit /\ [][HostNext /\ Observe]_hostVars

-----------------------------------------------------------------------------
Answers == {"none", "error", "end", "stopped", "found", "loaded", "null",
            "exhausted"}

HostTypeOK ==
  /\ TypeOK
  /\ hpc \in [Host -> {"idle", "load", "create", "open", "key", "value"}]
  /\ loading \in [Host -> {"none", "load", "device"}]
  /\ want \in [Host -> Clsid \cup {Nothing}]
  /\ room \in [Host -> Nat] /\ index \in [Host -> Nat]
  /\ current \in [Host -> Name \cup {Nothing}]
  /\ com \in [Host -> Nat] /\ drivers \in [Host -> Nat] /\ nulls \in [Host -> Nat]
  /\ lost \in [Host -> Nat]
  /\ ret \in [Host -> Answers]
  /\ quiet \in [Host -> SUBSET Name]
  /\ firm \in [Host -> SUBSET Name] /\ still \in [Host -> SUBSET Name]
  /\ told \in [Host -> [Name -> Nat]]

\* COM is initialised on a thread once for each load that can still be unloaded,
\* hence as long as an instance lives, and once for the load under way: a load that
\* fails leaves it as it was (cwASIO.c:64-83).  It stays initialised for good once
\* for each Device whose constructor got a null pointer and threw (cwASIO.cpp:48-54).
ComExact ==
  \A h \in Host : com[h] = drivers[h] + nulls[h] + lost[h]
     + IF loading[h] # "none" /\ hpc[h] \notin {"idle", "load"} THEN 1 ELSE 0

\* What a scan by index tells of an entry that stays (cwASIO.c:117-138; cwASIO.h:72
\* "once for every entry found"): it is not passed over unless one before it has
\* been deleted under the scan, and not told twice, or before its turn, unless
\* one before it has been added.
ScanHonest ==
  \A h \in Host : Scanning(h) => \A n \in quiet[h] :
    LET passed == Cardinality(Below(n)) < index[h]
    IN /\ n \in firm[h] /\ passed => told[h][n] > 0
       /\ n \in still[h] => told[h][n] <= IF passed THEN 1 ELSE 0

\* A call that looks for the CLSID of an entry that stays finds it, and makes an
\* instance in a load, unless an entry before it is deleted under the scan:
\* no half-made or half-removed registration of another driver makes it fail
\* (cwASIO.c:64-76, cwASIOdriver.c:203-262, 407-433).  What else may be the reason
\* of a failure: CoInitializeEx, memory, or a registry that cannot be opened.
QuietFound ==
  [][\A h \in Host :
       /\ want[h] # Nothing /\ ret'[h] \in {"error", "end", "null"}
       /\ hpc[h] \in {"create", "key", "value"} /\ hpc'[h] = "idle"
       => \A n \in firm[h] : entry[n] # want[h]]_hostVars
=============================================================================
