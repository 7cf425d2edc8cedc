---------------------------- MODULE HostSession ----------------------------
(* An application's use of drivers: the objects cwASIO::Device of the C++    *)
(* wrapper and the one driver behind the C functions of asio.c, with the     *)
(* naming of instances that the driver skeletons do, on Linux.  Every call   *)
(* into the library is a step, and other processes register and unregister   *)
(* names between any two.  A driver instance is here a single object that    *)
(* cwASIOunload ends; DriverLibrary shows what is behind that.               *)
CONSTANTS
  Devices,     \* the Device objects of the program, each constructed many times
  Instances,   \* the addresses driver instances may have
  Names,       \* the names a program may ask for
  Long,        \* those of more than 32 characters
  Full,        \* those of exactly 32 characters
  Fault,       \* what a driver may do: "load" fails, "future" fails otherwise
  NULL,        \* no instance
  NoName,      \* no name, or an empty one
  Garbled      \* a name of 32 characters with what follows it in memory

ASSUME HostSessionAssumption ==
  /\ Long \subseteq Names /\ Full \subseteq Names
  /\ NULL \notin Instances /\ NoName \notin Names
  /\ Garbled \notin Names \cup {NoName}

VARIABLES
  registered,      \* the names with an entry in the registry
  instance,        \* for each address what lives there
  drv_,            \* for each Device the instance it owns
  theAsioDriver,   \* the instance behind the C functions
  pc,              \* where the constructor of each Device is
  pcC,             \* where the thread that calls the C functions is
  asked,           \* the name each Device was constructed with, or took since
  askedC,          \* the name given to ASIOLoad, or taken by ASIOFuture since
  answer           \* what the last C function returned

wrapper == <<drv_, pc, asked>>
capi == <<theAsioDriver, pcC, askedC, answer>>
vars == <<registered, instance, wrapper, capi>>

\* A legacy driver has one instance and a name of its own, and does not know
\* the selector that sets it.
Kinds == {"multi", "legacy"}
Nobody == [live |-> FALSE, kind |-> "multi", name |-> NoName, ready |-> FALSE]

Fresh == {o \in Instances : ~instance[o].live}

Init == /\ registered \in SUBSET Names
        /\ instance = [o \in Instances |-> Nobody]
        /\ drv_ = [d \in Devices |-> NULL]
        /\ theAsioDriver = NULL
        /\ pc = [d \in Devices |-> "none"]
        /\ pcC = "idle"
        /\ asked = [d \in Devices |-> NoName]
        /\ askedC = NoName
        /\ answer = "none"

-----------------------------------------------------------------------------
(* The registry and the driver.                                              *)

\* Another process adds or removes entries.
Register(n) == /\ n \notin registered
               /\ registered' = registered \cup {n}
               /\ UNCHANGED <<instance, wrapper, capi>>

Unregister(n) == /\ n \in registered
                 /\ registered' = registered \ {n}
                 /\ UNCHANGED <<instance, wrapper, capi>>

\* cwASIOload, given the id of a driver that is there: an instance without a name.
Loaded(o, kind) ==
  instance' = [instance EXCEPT ![o] = [Nobody EXCEPT !.live = TRUE, !.kind = kind]]

\* cwASIOunload
Unloaded(o) == [instance EXCEPT ![o] = Nobody]

\* What future(kcwASIOsetInstanceName, n) can return.  The driver looks only
\* whether the entry is there.
FutureResult(o, n) ==
  IF instance[o].kind = "legacy" THEN {"ASE_InvalidParameter"}
  ELSE (CASE n = NoName -> {"ASE_SUCCESS"}
          [] n # NoName /\ (n \in Long \/ n \notin registered) -> {"ASE_NotPresent"}
          [] OTHER -> {"ASE_SUCCESS"})
       \cup (IF "future" \in Fault THEN {"ASE_HWMalfunction"} ELSE {})

\* Whether the driver has taken a name.
Taken(o, n, err) == err = "ASE_SUCCESS" /\ instance[o].kind = "multi" /\ n # NoName

\* The names a driver that took n may have.  The skeleton in C copies 32
\* characters into an array that malloc has not cleared, so nothing ends a name
\* of that length unless a zero was there; the skeleton in C++ keeps it whole.
Stored(n) == IF n \in Full THEN {n, Garbled} ELSE {n}

\* What future(kcwASIOsetInstanceName, n) does to the instance it is called for.
Renamed(o, n, err) ==
  IF Taken(o, n, err)
  THEN \E name \in Stored(n) : instance' = [instance EXCEPT ![o].name = name]
  ELSE UNCHANGED instance

\* Mutant: an instance without a name is accepted.
InitUnnamed(o) == TRUE

\* init returns whether the instance can be used: the skeletons refuse one
\* that has no name.
InitResult(o) == instance[o].kind = "legacy" \/ instance[o].name # NoName

\* Both ways to call init; an instance that has been refused may be asked again.
Initialised(o) == instance' = [instance EXCEPT ![o].ready = InitResult(o)]

-----------------------------------------------------------------------------
(* cwASIO::Device                                                            *)

\* The constructor reads the id under the name, and throws when it is not there.
GetParameter(d, n) ==
  /\ pc[d] = "none"
  /\ n \in registered
  /\ asked' = [asked EXCEPT ![d] = n]
  /\ pc' = [pc EXCEPT ![d] = "load"]
  /\ UNCHANGED <<registered, instance, drv_, capi>>

\* When nothing can be loaded it throws.
Load(d) ==
  /\ pc[d] = "load"
  /\ \/ \E o \in Fresh, kind \in Kinds :
          /\ Loaded(o, kind)
          /\ drv_' = [drv_ EXCEPT ![d] = o]
          /\ pc' = [pc EXCEPT ![d] = "future"]
     \/ /\ "load" \in Fault
        /\ pc' = [pc EXCEPT ![d] = "none"]
        /\ UNCHANGED <<instance, drv_>>
  /\ UNCHANGED <<registered, asked, capi>>

\* Mutant: the instance becomes the object's own only when all went well.
SetNameOwnLate(d) ==
  /\ pc[d] = "future"
  /\ \E err \in FutureResult(drv_[d], asked[d]) :
       \/ /\ err \in {"ASE_SUCCESS", "ASE_InvalidParameter"}
          /\ Renamed(drv_[d], asked[d], err)
          /\ pc' = [pc EXCEPT ![d] = "made"]
          /\ UNCHANGED drv_
       \/ /\ err \notin {"ASE_SUCCESS", "ASE_InvalidParameter"}
          /\ drv_' = [drv_ EXCEPT ![d] = NULL]
          /\ pc' = [pc EXCEPT ![d] = "none"]
          /\ UNCHANGED instance
  /\ UNCHANGED <<registered, asked, capi>>

\* Mutant: the error of a name that is no longer registered is let pass.
SetNameTolerant(d) ==
  /\ pc[d] = "future"
  /\ \E err \in FutureResult(drv_[d], asked[d]) \ {"ASE_HWMalfunction"} :
       Renamed(drv_[d], asked[d], err)
  /\ pc' = [pc EXCEPT ![d] = "made"]
  /\ UNCHANGED <<registered, drv_, asked, capi>>

\* Any error but that of a legacy driver throws.  The delegated constructor has
\* ended by then, so the destructor runs and unloads.
SetName(d) ==
  /\ pc[d] = "future"
  /\ \E err \in FutureResult(drv_[d], asked[d]) :
       \/ /\ err \in {"ASE_SUCCESS", "ASE_InvalidParameter"}
          /\ Renamed(drv_[d], asked[d], err)
          /\ pc' = [pc EXCEPT ![d] = "made"]
          /\ UNCHANGED drv_
       \/ /\ err \notin {"ASE_SUCCESS", "ASE_InvalidParameter"}
          /\ instance' = Unloaded(drv_[d])
          /\ drv_' = [drv_ EXCEPT ![d] = NULL]
          /\ pc' = [pc EXCEPT ![d] = "none"]
  /\ UNCHANGED <<registered, asked, capi>>

\* Device::init
InitDevice(d) ==
  /\ pc[d] = "made" /\ drv_[d] # NULL
  /\ Initialised(drv_[d])
  /\ UNCHANGED <<registered, wrapper, capi>>

\* Device::future, with which a program gives a name after the constructor has:
\* the player does, and reads any result but zero as a driver with one instance.
DeviceFuture(d, n) ==
  /\ pc[d] = "made" /\ drv_[d] # NULL
  /\ \E err \in FutureResult(drv_[d], n) :
       /\ Renamed(drv_[d], n, err)
       /\ asked' = IF Taken(drv_[d], n, err) THEN [asked EXCEPT ![d] = n] ELSE asked
  /\ UNCHANGED <<registered, drv_, pc, capi>>

\* Move assignment of the Device s to d: what d had is unloaded, s has nothing.
Move(d, s) ==
  /\ d # s
  /\ pc[d] = "made" /\ pc[s] = "made" /\ drv_[s] # NULL
  /\ instance' = IF drv_[d] = NULL THEN instance ELSE Unloaded(drv_[d])
  /\ drv_' = [drv_ EXCEPT ![d] = drv_[s], ![s] = NULL]
  /\ asked' = [asked EXCEPT ![d] = asked[s]]
  /\ UNCHANGED <<registered, pc, capi>>

\* The destructor; nothing is unloaded when the object has been moved from.
Destroy(d) ==
  /\ pc[d] = "made"
  /\ instance' = IF drv_[d] = NULL THEN instance ELSE Unloaded(drv_[d])
  /\ drv_' = [drv_ EXCEPT ![d] = NULL]
  /\ pc' = [pc EXCEPT ![d] = "none"]
  /\ UNCHANGED <<registered, asked, capi>>

-----------------------------------------------------------------------------
(* The C functions, called by one thread.                                    *)

ASIOLoad(n) ==
  /\ pcC = "idle"
  /\ \/ /\ theAsioDriver # NULL
        /\ answer' = "ASE_NoMemory"
        /\ UNCHANGED <<instance, theAsioDriver, askedC, pcC>>
     \/ /\ theAsioDriver = NULL
        /\ "load" \in Fault
        /\ answer' = "ASE_NotPresent"
        /\ UNCHANGED <<instance, theAsioDriver, askedC, pcC>>
     \/ /\ theAsioDriver = NULL
        /\ \E o \in Fresh, kind \in Kinds : Loaded(o, kind) /\ theAsioDriver' = o
        /\ askedC' = n
        /\ pcC' = "future"
        /\ UNCHANGED answer
  /\ UNCHANGED <<registered, wrapper>>

\* Mutant: every error of future is taken for that of a legacy driver.
ASIOLoadFutureTolerant ==
  /\ pcC = "future"
  /\ \E err \in FutureResult(theAsioDriver, askedC) :
       Renamed(theAsioDriver, askedC, err)
  /\ answer' = "ASE_OK"
  /\ pcC' = "idle"
  /\ UNCHANGED <<registered, theAsioDriver, askedC, wrapper>>

\* The second call of ASIOLoad.  The driver stays loaded whatever it returns.
ASIOLoadFuture ==
  /\ pcC = "future"
  /\ \E err \in FutureResult(theAsioDriver, askedC) :
       /\ Renamed(theAsioDriver, askedC, err)
       /\ answer' = IF err \in {"ASE_SUCCESS", "ASE_InvalidParameter"}
                    THEN "ASE_OK" ELSE err
  /\ pcC' = "idle"
  /\ UNCHANGED <<registered, theAsioDriver, askedC, wrapper>>

ASIOUnload ==
  /\ pcC = "idle"
  /\ \/ /\ theAsioDriver = NULL
        /\ answer' = "ASE_InvalidParameter"
        /\ UNCHANGED <<instance, theAsioDriver>>
     \/ /\ theAsioDriver # NULL
        /\ instance' = Unloaded(theAsioDriver)
        /\ theAsioDriver' = NULL
        /\ answer' = "ASE_OK"
  /\ UNCHANGED <<registered, pcC, askedC, wrapper>>

ASIOInit ==
  /\ pcC = "idle"
  /\ \/ theAsioDriver = NULL /\ answer' = "ASE_NotPresent" /\ UNCHANGED instance
     \/ /\ theAsioDriver # NULL
        /\ Initialised(theAsioDriver)
        /\ answer' = IF InitResult(theAsioDriver) THEN "ASE_OK" ELSE "ASE_NotPresent"
  /\ UNCHANGED <<registered, theAsioDriver, pcC, askedC, wrapper>>

\* ASIOFuture may name the driver that ASIOLoad left without a name, and rename it.
ASIOFuture(n) ==
  /\ pcC = "idle"
  /\ \/ /\ theAsioDriver = NULL
        /\ answer' = "ASE_NotPresent"
        /\ UNCHANGED <<instance, askedC>>
     \/ /\ theAsioDriver # NULL
        /\ \E err \in FutureResult(theAsioDriver, n) :
             /\ Renamed(theAsioDriver, n, err)
             /\ askedC' = IF Taken(theAsioDriver, n, err) THEN n ELSE askedC
             /\ answer' = err
  /\ UNCHANGED <<registered, theAsioDriver, pcC, wrapper>>

\* The other functions from ASIOStart to ASIOOutputReady, and ASIOFuture with
\* other selectors, pass on what the driver answers.
Call ==
  /\ pcC = "idle"
  /\ answer' = IF theAsioDriver = NULL THEN "ASE_NotPresent" ELSE "driver"
  /\ UNCHANGED <<registered, instance, theAsioDriver, pcC, askedC, wrapper>>

-----------------------------------------------------------------------------
Next == \/ \E n \in Names : Register(n) \/ Unregister(n)
        \/ \E d \in Devices, n \in Names : GetParameter(d, n)
        \/ \E d \in Devices : Load(d) \/ SetName(d) \/ InitDevice(d) \/ Destroy(d)
                              \/ \E s \in Devices : Move(d, s)
        \/ \E n \in Names \cup {NoName} :
             ASIOLoad(n) \/ ASIOFuture(n) \/ \E d \in Devices : DeviceFuture(d, n)
        \/ ASIOLoadFuture \/ ASIOUnload \/ ASIOInit \/ Call

Spec == Init /\ [][Next]_vars

-----------------------------------------------------------------------------
TypeOK ==
  /\ registered \subseteq Names
  /\ instance \in [Instances -> [live : BOOLEAN, kind : Kinds,
                                 name : Names \cup {NoName, Garbled}, ready : BOOLEAN]]
  /\ drv_ \in [Devices -> Instances \cup {NULL}]
  /\ theAsioDriver \in Instances \cup {NULL}
  /\ pc \in [Devices -> {"none", "load", "future", "made"}]
  /\ pcC \in {"idle", "future"}
  /\ asked \in [Devices -> Names \cup {NoName}]
  /\ askedC \in Names \cup {NoName}
  /\ answer \in {"none", "driver", "ASE_OK", "ASE_SUCCESS", "ASE_NoMemory", "ASE_NotPresent",
                 "ASE_InvalidParameter", "ASE_HWMalfunction"}

\* Every living instance has exactly one owner and no one owns one that is gone:
\* nothing leaks from a constructor that throws, a move or an ASIOLoad that is
\* refused, and nothing is unloaded twice (cwASIO.cpp:57-69, asio.c:18-36).
Owned ==
  \A o \in Instances :
    /\ instance[o].live <=> theAsioDriver = o \/ \E d \in Devices : drv_[d] = o
    /\ theAsioDriver = o => \A d \in Devices : drv_[d] # o
    /\ \A d, e \in Devices : drv_[d] = o /\ drv_[e] = o => d = e

\* An instance is as the program wants it when the name n is given: it stores n,
\* or what the skeleton in C makes of a name of 32 characters, or has no use for one.
NamedFor(i, n) == i.kind = "legacy" \/ i.name = n \/ (n \in Full /\ i.name = Garbled)

\* A Device that has been constructed has an instance with the name it was asked
\* for or took by Device::future since, or a legacy one, though the entry may go
\* away while it is constructed (cwASIO.cpp:43, 59-69).  For names of less than 32
\* characters this is what recorder.cpp:151 and player.cpp:124 assert.
NamedAsAsked ==
  \A d \in Devices : pc[d] = "made" /\ drv_[d] # NULL =>
     NamedFor(instance[drv_[d]], asked[d])

\* What is made ready for use has the name its owner gave last: the C functions'
\* driver that of ASIOLoad, also when the program goes on after an ASIOLoad that
\* returned an error, or the one ASIOFuture was taken with; it is never ready
\* without a name (asio.c:26, 41, 149, cwASIOdriver_skeleton.c:53, 175).
ReadyAsAsked ==
  \A o \in Instances : instance[o].live /\ instance[o].ready =>
     \/ theAsioDriver = o /\ NamedFor(instance[o], askedC)
     \/ \E d \in Devices : drv_[d] = o /\ NamedFor(instance[o], asked[d])

\* An ASIOLoad that returns success has left an instance that a name was given
\* to, a legacy one, or one that was not to have a name (asio.c:26-27).
LoadedAsAsked ==
  [][ASIOLoadFuture /\ answer' = "ASE_OK" => NamedFor(instance'[theAsioDriver], askedC)]_vars
=============================================================================
