--------------------------- MODULE DriverLibrary ---------------------------
(* One driver library in one Linux host process: cwASIOload and cwASIOunload *)
(* on the host's side (src/src/cwASIO.c), instantiateDriver, releaseDriver   *)
(* and the use count inside the library (src/src/cwASIOdriver.c), and the    *)
(* reference count of the instances (src/src/cwASIOdriver_skeleton.c, .cpp). *)
(* Host threads call all of these at any time; each access to a shared       *)
(* counter is a step.  dlopen and dlclose count; the library's statics start *)
(* anew when it is mapped anew.                                              *)
EXTENDS Integers, FiniteSets

CONSTANTS
  Thread,       \* the host's threads
  Obj,          \* the instances that will ever be made; addresses are not reused
  NoObj,        \* stands for no instance
  Fault,        \* what can fail: "malloc", "query", "dlinfo"
  MaxHandles,   \* bound on the number of dlopen calls not matched by dlclose
  MaxRefs,      \* bound on the references a host takes to one instance
  UintRange     \* the number of values of an unsigned, as activeInstances is

ASSUME DriverLibraryAssumption ==
  /\ NoObj \notin Obj
  /\ IsFiniteSet(Thread) /\ IsFiniteSet(Obj)
  /\ MaxHandles \in Nat /\ MaxRefs \in Nat \ {0} /\ UintRange \in Nat \ {0}

VARIABLES
  handles,          \* how often the library is open; 0 when it is not mapped
  libUseCount,      \* static in cwASIOdriver.c
  activeInstances,  \* static in the driver skeleton, unsigned
  life,             \* what has become of each instance
  refs,             \* the reference count of each instance
  host,             \* how many of the references hosts have in their hands
  pc,               \* where each thread is
  obj,              \* the instance it is working on
  hr                \* result of queryInterface; "none" outside instantiateDriver

statics == <<libUseCount, activeInstances>>
vars == <<handles, libUseCount, activeInstances, life, refs, host, pc, obj, hr>>

PCs == {"idle", "make", "query", "release", "free", "deactivate", "count",
        "decrement", "dlclose", "leave"}

\* unborn, made by makeAsioDriver, out in a host's hands, freed by its last
\* release, released by releaseDriver; or failed in instantiateDriver.
Lives == {"unborn", "made", "out", "freed", "released", "failed"}

Init == /\ handles = 0
        /\ libUseCount = 0
        /\ activeInstances = 0
        /\ life = [o \in Obj |-> "unborn"]
        /\ refs = [o \in Obj |-> 0]
        /\ host = [o \in Obj |-> 0]
        /\ pc = [t \in Thread |-> "idle"]
        /\ obj = [t \in Thread |-> NoObj]
        /\ hr = [t \in Thread |-> "none"]

-----------------------------------------------------------------------------
Fails(what) == what \in Fault

Goto(t, label) == pc' = [pc EXCEPT ![t] = label]

\* The thread is back in the host, with nothing of the library on its stack.
Return(t) == /\ Goto(t, "idle")
             /\ obj' = [obj EXCEPT ![t] = NoObj]
             /\ hr' = [hr EXCEPT ![t] = "none"]

-----------------------------------------------------------------------------
(* cwASIOload(id, drv), which calls instantiateDriver in the library         *)

\* Mutant: a library that is mapped already is not opened once more.
DlopenOnce(t) ==
  /\ pc[t] = "idle"
  /\ handles < MaxHandles
  /\ IF handles = 0 THEN handles' = 1 /\ libUseCount' = 0 /\ activeInstances' = 0
     ELSE UNCHANGED <<handles, statics>>
  /\ Goto(t, "make")
  /\ UNCHANGED <<life, refs, host, obj, hr>>

Dlopen(t) ==
  /\ pc[t] = "idle"
  /\ handles < MaxHandles
  /\ handles' = handles + 1
  /\ IF handles = 0 THEN libUseCount' = 0 /\ activeInstances' = 0
     ELSE UNCHANGED statics
  /\ Goto(t, "make")
  /\ UNCHANGED <<life, refs, host, obj, hr>>

\* Mutant: the result of makeAsioDriver is not looked at.
MakeAsioDriverUnchecked(t) ==
  /\ pc[t] = "make"
  /\ \E o \in {x \in Obj : life[x] = "unborn"} \cup {NoObj} :
       /\ obj' = [obj EXCEPT ![t] = o]
       /\ life' = [x \in Obj |-> IF x = o THEN "made" ELSE life[x]]
       /\ refs' = [x \in Obj |-> IF x = o THEN 1 ELSE refs[x]]
  /\ Goto(t, "query")
  /\ UNCHANGED <<handles, statics, host, hr>>

\* Without memory instantiateDriver returns NULL and cwASIOload fails; it does
\* not give its handle back.
MakeAsioDriver(t) ==
  /\ pc[t] = "make"
  /\ \/ /\ \E o \in Obj : /\ life[o] = "unborn"
                          /\ life' = [life EXCEPT ![o] = "made"]
                          /\ refs' = [refs EXCEPT ![o] = 1]
                          /\ obj' = [obj EXCEPT ![t] = o]
        /\ Goto(t, "query")
        /\ UNCHANGED hr
     \/ /\ Fails("malloc") \/ \A o \in Obj : life[o] # "unborn"
        /\ Return(t)
        /\ UNCHANGED <<life, refs>>
  /\ UNCHANGED <<handles, statics, host>>

\* Mutant: queryInterface forgets to add the reference.
QueryInterfaceNoAddRef(t) ==
  /\ pc[t] = "query"
  /\ hr' = [hr EXCEPT ![t] = "ok"]
  /\ Goto(t, "release")
  /\ UNCHANGED <<handles, statics, life, refs, host, obj>>

\* A driver that takes the GUID adds a reference for its caller.
QueryInterface(t) ==
  /\ pc[t] = "query"
  /\ \/ /\ refs' = [refs EXCEPT ![obj[t]] = @ + 1]
        /\ hr' = [hr EXCEPT ![t] = "ok"]
     \/ /\ Fails("query")
        /\ hr' = [hr EXCEPT ![t] = "failed"]
        /\ UNCHANGED refs
  /\ Goto(t, "release")
  /\ UNCHANGED <<handles, statics, life, host, obj>>

\* What the caller of release does next: instantiateDriver goes on to count the
\* instance or gives up; a host is done.
AfterRelease(t) ==
  Goto(t, IF hr[t] = "ok" THEN "count" ELSE "leave")

\* Mutant: the count before the decrement is compared with zero.
ReleaseOldCount(t) ==
  /\ pc[t] = "release"
  /\ refs' = [refs EXCEPT ![obj[t]] = @ - 1]
  /\ IF refs[obj[t]] = 0 THEN Goto(t, "free") ELSE AfterRelease(t)
  /\ UNCHANGED <<handles, statics, life, host, obj, hr>>

Release(t) ==
  /\ pc[t] = "release"
  /\ refs' = [refs EXCEPT ![obj[t]] = @ - 1]
  /\ IF refs[obj[t]] = 1 THEN Goto(t, "free") ELSE AfterRelease(t)
  /\ UNCHANGED <<handles, statics, life, host, obj, hr>>

Free(t) ==
  /\ pc[t] = "free"
  /\ life' = [life EXCEPT ![obj[t]] = IF @ = "made" THEN "failed" ELSE "freed"]
  /\ Goto(t, "deactivate")
  /\ UNCHANGED <<handles, statics, refs, host, obj, hr>>

\* Mutant: release gives up a use of the library instead of an active instance.
DeactivateUse(t) ==
  /\ pc[t] = "deactivate"
  /\ libUseCount' = libUseCount - 1
  /\ AfterRelease(t)
  /\ UNCHANGED <<handles, activeInstances, life, refs, host, obj, hr>>

\* release touches a static of the library after it has freed the instance.
\* Nothing increments activeInstances.
Deactivate(t) ==
  /\ pc[t] = "deactivate"
  /\ activeInstances' = (activeInstances - 1) % UintRange
  /\ AfterRelease(t)
  /\ UNCHANGED <<handles, libUseCount, life, refs, host, obj, hr>>

\* updateUseCount(true)
Count(t) ==
  /\ pc[t] = "count"
  /\ libUseCount' = libUseCount + 1
  /\ life' = [life EXCEPT ![obj[t]] = "out"]
  /\ Goto(t, "leave")
  /\ UNCHANGED <<handles, activeInstances, refs, host, obj, hr>>

\* The call returns to the host.  What instantiateDriver returns is the host's.
Leave(t) ==
  /\ pc[t] = "leave"
  /\ host' = IF hr[t] = "ok" THEN [host EXCEPT ![obj[t]] = @ + 1] ELSE host
  /\ Return(t)
  /\ UNCHANGED <<handles, statics, life, refs>>

-----------------------------------------------------------------------------
(* Calls of the host on an instance in its hands.                            *)

AddRef(t, o) ==
  /\ pc[t] = "idle"
  /\ host[o] \in 1 .. MaxRefs - 1
  /\ refs' = [refs EXCEPT ![o] = @ + 1]
  /\ host' = [host EXCEPT ![o] = @ + 1]
  /\ UNCHANGED <<handles, statics, life, pc, obj, hr>>

\* cwASIOunload(drv) calls release and does nothing else.
Unload(t, o) ==
  /\ pc[t] = "idle"
  /\ host[o] > 0
  /\ host' = [host EXCEPT ![o] = @ - 1]
  /\ obj' = [obj EXCEPT ![t] = o]
  /\ Goto(t, "release")
  /\ UNCHANGED <<handles, statics, life, refs, hr>>

\* releaseDriver(drv) is exported and has no caller in the repository.  Its
\* user is taken to call it once for an instance, when the instance is gone and
\* no thread is in a call on it any more.
ReleaseDriver(t, o) ==
  /\ pc[t] = "idle"
  /\ life[o] = "freed"
  /\ \A u \in Thread : obj[u] # o
  /\ obj' = [obj EXCEPT ![t] = o]
  /\ Goto(t, "decrement")
  /\ UNCHANGED <<handles, statics, life, refs, host, hr>>

\* updateUseCount(false)
Decrement(t) ==
  /\ pc[t] = "decrement"
  /\ libUseCount' = libUseCount - 1
  /\ life' = [life EXCEPT ![obj[t]] = "released"]
  /\ Goto(t, IF libUseCount = 1 THEN "dlclose" ELSE "leave")
  /\ UNCHANGED <<handles, activeInstances, refs, host, obj, hr>>

\* The library looks for its own handle; dlclose of what is not found does nothing.
Dlclose(t) ==
  /\ pc[t] = "dlclose"
  /\ \/ handles' = handles - 1
     \/ Fails("dlinfo") /\ UNCHANGED handles
  /\ Goto(t, "leave")
  /\ UNCHANGED <<statics, life, refs, host, obj, hr>>

-----------------------------------------------------------------------------
Load(t) == \/ Dlopen(t) \/ MakeAsioDriver(t) \/ QueryInterface(t) \/ Count(t)
           \/ Leave(t)

Drop(t) == Release(t) \/ Free(t) \/ Deactivate(t)

HostCall(t) == \E o \in Obj : AddRef(t, o) \/ Unload(t, o) \/ ReleaseDriver(t, o)

Close(t) == Decrement(t) \/ Dlclose(t)

Next == \E t \in Thread : Load(t) \/ Drop(t) \/ HostCall(t) \/ Close(t)

Spec == Init /\ [][Next]_vars

-----------------------------------------------------------------------------
TypeOK ==
  /\ handles \in Nat
  /\ libUseCount \in Int
  /\ activeInstances \in 0 .. UintRange - 1
  /\ life \in [Obj -> Lives]
  /\ refs \in [Obj -> Int]
  /\ host \in [Obj -> Nat]
  /\ pc \in [Thread -> PCs]
  /\ obj \in [Thread -> Obj \cup {NoObj}]
  /\ hr \in [Thread -> {"none", "ok", "failed"}]
  /\ \A t \in Thread : obj[t] = NoObj <=> pc[t] \in {"idle", "make"}

\* How many references the code that t is executing has in its hands.
InHand(t) == CASE pc[t] = "query" -> 1
               [] pc[t] = "release" -> IF hr[t] = "ok" THEN 2 ELSE 1
               [] pc[t] = "count" -> 1
               [] pc[t] = "leave" -> IF hr[t] = "ok" THEN 1 ELSE 0
               [] OTHER -> 0

\* The references to o that threads have in their hands.
Tokens(o) == {tk \in Thread \X {1, 2} : obj[tk[1]] = o /\ tk[2] <= InHand(tk[1])}

\* The reference count of an instance is the number of references that hosts and
\* running calls hold, whatever they interleave: none is lost, so the last
\* release frees the instance, and none is forged, so no earlier one does
\* (cwASIOdriver.c:368-390, cwASIOdriver_skeleton.c:36-49).
RefsExact == \A o \in Obj : refs[o] = host[o] + Cardinality(Tokens(o))

\* An instance that somebody holds a reference to has not been freed; one that
\* nobody holds is being freed by exactly one thread, or has been: also the one
\* whose queryInterface failed (the comment at cwASIOdriver.c:379-382).
AliveWhileHeld ==
  \A o \in Obj :
    /\ refs[o] > 0 => life[o] \in {"made", "out"}
    /\ life[o] \in {"made", "out"} /\ refs[o] <= 0 =>
         \E t \in Thread : obj[t] = o /\ pc[t] = "free"
    /\ \A t, u \in Thread :
         obj[t] = o /\ pc[t] = "free" /\ obj[u] = o /\ pc[u] = "free" => t = u

\* What InstanceLifecycle sees: the references that are really held, whatever the
\* counter says, and no releaseDriver.
Stage(o) == IF life[o] = "released" THEN "freed" ELSE life[o]
Held(o) == host[o] + Cardinality(Tokens(o))

Lifecycle == INSTANCE InstanceLifecycle WITH stage <- [o \in Obj |-> Stage(o)],
                                             held <- [o \in Obj |-> Held(o)]

\* However threads interleave, an instance is handed out while its maker holds
\* it, only who holds one takes a reference, and it is freed once, with none left
\* (cwASIOdriver.c:368-390, cwASIOdriver_skeleton.c:36-49).
InstancesLive == Lifecycle!Spec

\* The instances handed out and not yet given to releaseDriver.
Counted == {o \in Obj : life[o] \in {"out", "freed"}}

\* The use count is exact, also across an unmapping that resets it
\* (cwASIOdriver.c:344-350, 388, 393).
UseCountExact == libUseCount = Cardinality(Counted)

\* The thread is on its way out of releaseDriver, which may have closed the
\* library it runs in.
Leaving(t) == pc[t] = "leave" /\ obj[t] # NoObj /\ life[obj[t]] = "released"

\* The thread is executing any other code of the library.
Inside(t) == pc[t] # "idle" /\ ~Leaving(t)

\* While the library is not mapped none of its code runs, the return from
\* releaseDriver apart, and no instance is waiting to be released - even when
\* one thread finds the use count zero and closes the library while another is
\* loading it
\* (cwASIOdriver.c:388, 393-395; cwASIO.c:186-194).
LibMapped ==
  (\E t \in Thread : Inside(t)) \/ Counted # {} => handles > 0
=============================================================================
