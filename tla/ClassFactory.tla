---------------------------- MODULE ClassFactory ----------------------------
(* The COM side of a driver DLL in one Windows process: the class factory,   *)
(* whose reference count is the use count of the whole DLL, the instances it *)
(* makes, and DllCanUnloadNow (src/src/cwASIOdriver.c).  The threading model *)
(* is "Both": clients call from any thread.  An interlocked operation on     *)
(* dllUseCount and an atomic one on a reference count is a step each.        *)
EXTENDS Integers, FiniteSets

CONSTANTS
  Thread,       \* the client's threads
  Obj,          \* the instances that will ever be made; addresses are not reused
  NoObj,        \* stands for no instance
  Fault,        \* what can fail: "malloc", "query"
  MaxFactory,   \* bound on the references clients take to the factory
  MaxLocks,     \* bound on the locks they place on the server
  MaxRefs       \* bound on the references they take to one instance

ASSUME ClassFactoryAssumption ==
  /\ NoObj \notin Obj
  /\ IsFiniteSet(Thread) /\ IsFiniteSet(Obj)
  /\ MaxFactory \in Nat /\ MaxLocks \in Nat /\ MaxRefs \in Nat

VARIABLES
  mapped,        \* whether the DLL is in the process
  dllUseCount,   \* static in cwASIOdriver.c
  factory,       \* the references to the factory in clients' hands
  locks,         \* lockServer(true) without its lockServer(false)
  life,          \* what has become of each instance
  refs,          \* the reference count of each instance
  host,          \* how many of these references clients have in their hands
  pc,            \* where each thread is
  obj,           \* the instance it is working on
  hr             \* result of queryInterface; "none" outside createInstance

vars == <<mapped, dllUseCount, factory, locks, life, refs, host, pc, obj, hr>>

PCs == {"idle", "make", "query", "release", "free", "count"}

Init == /\ mapped = FALSE
        /\ dllUseCount = 0
        /\ factory = 0
        /\ locks = 0
        /\ life = [o \in Obj |-> "unborn"]
        /\ refs = [o \in Obj |-> 0]
        /\ host = [o \in Obj |-> 0]
        /\ pc = [t \in Thread |-> "idle"]
        /\ obj = [t \in Thread |-> NoObj]
        /\ hr = [t \in Thread |-> "none"]

-----------------------------------------------------------------------------
Fails(what) == what \in Fault

Goto(t, label) == pc' = [pc EXCEPT ![t] = label]

Return(t) == /\ Goto(t, "idle")
             /\ obj' = [obj EXCEPT ![t] = NoObj]
             /\ hr' = [hr EXCEPT ![t] = "none"]

updateDllUseCount(increase) ==
  dllUseCount' = IF increase THEN dllUseCount + 1 ELSE dllUseCount - 1

instances == <<life, refs, host>>
threads == <<pc, obj, hr>>

-----------------------------------------------------------------------------
(* The factory.                                                              *)

\* COM maps the DLL if it is not there, and calls DllGetClassObject.  Another
\* interface than IUnknown or IClassFactory gets an error and no reference.
DllGetClassObject(t) ==
  /\ pc[t] = "idle"
  /\ factory < MaxFactory
  /\ mapped' = TRUE
  /\ \/ factory' = factory + 1 /\ updateDllUseCount(TRUE)
     \/ UNCHANGED <<factory, dllUseCount>>
  /\ UNCHANGED <<locks, instances, threads>>

addRef(t) ==
  /\ pc[t] = "idle"
  /\ factory \in 1 .. MaxFactory - 1
  /\ factory' = factory + 1
  /\ updateDllUseCount(TRUE)
  /\ UNCHANGED <<mapped, locks, instances, threads>>

\* The threads in createInstance.
Creating == {t \in Thread : hr[t] # "none" \/ pc[t] \in {"make", "query"}}

\* The code releases whatever it is told to.  COM's rule for clients is that one
\* does not release the last reference to an object during a call on it.
release(t) ==
  /\ pc[t] = "idle"
  /\ factory > (IF Creating = {} THEN 0 ELSE 1)
  /\ factory' = factory - 1
  /\ updateDllUseCount(FALSE)
  /\ UNCHANGED <<mapped, locks, instances, threads>>

\* Mutant: unlocking counts like locking.
lockServerUp(t, flock) ==
  /\ pc[t] = "idle"
  /\ factory > 0
  /\ IF flock THEN locks < MaxLocks /\ locks' = locks + 1
     ELSE locks > 0 /\ locks' = locks - 1
  /\ updateDllUseCount(TRUE)
  /\ UNCHANGED <<mapped, factory, instances, threads>>

lockServer(t, flock) ==
  /\ pc[t] = "idle"
  /\ factory > 0
  /\ IF flock THEN locks < MaxLocks /\ locks' = locks + 1
     ELSE locks > 0 /\ locks' = locks - 1
  /\ updateDllUseCount(flock)
  /\ UNCHANGED <<mapped, factory, instances, threads>>

-----------------------------------------------------------------------------
(* createInstance(outer, guid, ppv)                                          *)

\* An outer object is refused, which changes nothing.
CreateInstance(t) ==
  /\ pc[t] = "idle"
  /\ factory > 0
  /\ Goto(t, "make")
  /\ UNCHANGED <<mapped, dllUseCount, factory, locks, instances, obj, hr>>

MakeAsioDriver(t) ==
  /\ pc[t] = "make"
  /\ \/ /\ \E o \in Obj : /\ life[o] = "unborn"
                          /\ life' = [life EXCEPT ![o] = "made"]
                          /\ refs' = [refs EXCEPT ![o] = 1]
                          /\ obj' = [obj EXCEPT ![t] = o]
        /\ Goto(t, "query")
        /\ UNCHANGED hr
     \/ /\ Fails("malloc") \/ \A o \in Obj : life[o] # "unborn"
        /\ Return(t)
        /\ UNCHANGED <<life, refs>>
  /\ UNCHANGED <<mapped, dllUseCount, factory, locks, host>>

\* Mutant: createInstance takes a failure for a success and keeps no reference.
QueryInterfaceUnchecked(t) ==
  /\ pc[t] = "query"
  /\ \/ refs' = [refs EXCEPT ![obj[t]] = @ + 1]
     \/ Fails("query") /\ UNCHANGED refs
  /\ hr' = [hr EXCEPT ![t] = "ok"]
  /\ Goto(t, "release")
  /\ UNCHANGED <<mapped, dllUseCount, factory, locks, life, host, obj>>

\* The GUID is looked up in the registry; a match adds the client's reference.
QueryInterface(t) ==
  /\ pc[t] = "query"
  /\ \/ /\ refs' = [refs EXCEPT ![obj[t]] = @ + 1]
        /\ hr' = [hr EXCEPT ![t] = "ok"]
     \/ /\ Fails("query")
        /\ hr' = [hr EXCEPT ![t] = "failed"]
        /\ UNCHANGED refs
  /\ Goto(t, "release")
  /\ UNCHANGED <<mapped, dllUseCount, factory, locks, life, host, obj>>

\* createInstance counts the instance or hands the error on; a client is done.
AfterRelease(t) ==
  IF hr[t] = "ok" THEN Goto(t, "count") /\ UNCHANGED <<obj, hr>> ELSE Return(t)

\* Mutant: the count after the decrement is compared with one.
InstanceReleaseEarly(t) ==
  /\ pc[t] = "release"
  /\ refs' = [refs EXCEPT ![obj[t]] = @ - 1]
  /\ IF refs'[obj[t]] = 1 THEN Goto(t, "free") /\ UNCHANGED <<obj, hr>>
     ELSE AfterRelease(t)
  /\ UNCHANGED <<mapped, dllUseCount, factory, locks, life, host>>

\* The release of an instance; the one in createInstance comes here, too.
InstanceRelease(t) ==
  /\ pc[t] = "release"
  /\ refs' = [refs EXCEPT ![obj[t]] = @ - 1]
  /\ IF refs[obj[t]] = 1 THEN Goto(t, "free") /\ UNCHANGED <<obj, hr>>
     ELSE AfterRelease(t)
  /\ UNCHANGED <<mapped, dllUseCount, factory, locks, life, host>>

\* Mutant: the last release of an instance gives back a use of the DLL, also
\* when createInstance has not counted the instance.
InstanceFreeUncounted(t) ==
  /\ pc[t] = "free"
  /\ life' = [life EXCEPT ![obj[t]] = IF @ = "made" THEN "failed" ELSE "freed"]
  /\ updateDllUseCount(FALSE)
  /\ AfterRelease(t)
  /\ UNCHANGED <<mapped, factory, locks, refs, host>>

\* Mutant: an instance that createInstance has not handed out is left as it is.
InstanceFreeOut(t) ==
  /\ pc[t] = "free"
  /\ life' = [life EXCEPT ![obj[t]] = IF @ = "out" THEN "freed" ELSE @]
  /\ AfterRelease(t)
  /\ UNCHANGED <<mapped, dllUseCount, factory, locks, refs, host>>

\* dllUseCount stays as it is.
InstanceFree(t) ==
  /\ pc[t] = "free"
  /\ life' = [life EXCEPT ![obj[t]] = IF @ = "made" THEN "failed" ELSE "freed"]
  /\ AfterRelease(t)
  /\ UNCHANGED <<mapped, dllUseCount, factory, locks, refs, host>>

\* Mutant: the instance is handed out without being counted.
CountInstanceNot(t) ==
  /\ pc[t] = "count"
  /\ life' = [life EXCEPT ![obj[t]] = "out"]
  /\ host' = [host EXCEPT ![obj[t]] = @ + 1]
  /\ Return(t)
  /\ UNCHANGED <<mapped, dllUseCount, factory, locks, refs>>

CountInstance(t) ==
  /\ pc[t] = "count"
  /\ updateDllUseCount(TRUE)
  /\ life' = [life EXCEPT ![obj[t]] = "out"]
  /\ host' = [host EXCEPT ![obj[t]] = @ + 1]
  /\ Return(t)
  /\ UNCHANGED <<mapped, factory, locks, refs>>

-----------------------------------------------------------------------------
(* Clients on an instance, and COM on the DLL.                               *)

InstanceAddRef(t, o) ==
  /\ pc[t] = "idle"
  /\ host[o] \in 1 .. MaxRefs - 1
  /\ refs' = [refs EXCEPT ![o] = @ + 1]
  /\ host' = [host EXCEPT ![o] = @ + 1]
  /\ UNCHANGED <<mapped, dllUseCount, factory, locks, life, threads>>

Drop(t, o) ==
  /\ pc[t] = "idle"
  /\ host[o] > 0
  /\ host' = [host EXCEPT ![o] = @ - 1]
  /\ obj' = [obj EXCEPT ![t] = o]
  /\ Goto(t, "release")
  /\ UNCHANGED <<mapped, dllUseCount, factory, locks, life, refs, hr>>

\* COM asks, and unmaps the DLL on S_OK.
DllCanUnloadNow ==
  /\ mapped
  /\ dllUseCount <= 0
  /\ mapped' = FALSE
  /\ UNCHANGED <<dllUseCount, factory, locks, instances, threads>>

Factory(t) == \/ DllGetClassObject(t) \/ addRef(t) \/ release(t)
              \/ \E flock \in BOOLEAN : lockServer(t, flock)

createInstance(t) == \/ CreateInstance(t)  \/ MakeAsioDriver(t)
                     \/ QueryInterface(t)  \/ CountInstance(t)

Instance(t) == \/ InstanceRelease(t) \/ InstanceFree(t)
               \/ \E o \in Obj : InstanceAddRef(t, o) \/ Drop(t, o)

Next == \/ \E t \in Thread : Factory(t) \/ createInstance(t) \/ Instance(t)
        \/ DllCanUnloadNow

Spec == Init /\ [][Next]_vars

-----------------------------------------------------------------------------
TypeOK ==
  /\ mapped \in BOOLEAN
  /\ dllUseCount \in Nat      \* as the assertions in lines 89, 95 and 159 have it
  /\ factory \in 0 .. MaxFactory
  /\ locks \in 0 .. MaxLocks
  /\ life \in [Obj -> {"unborn", "made", "out", "freed", "failed"}]
  /\ refs \in [Obj -> Int]
  /\ host \in [Obj -> Nat]
  /\ pc \in [Thread -> PCs]
  /\ obj \in [Thread -> Obj \cup {NoObj}]
  /\ hr \in [Thread -> {"none", "ok", "failed"}]

\* How many references the code that t is executing has in its hands.
InHand(t) == CASE pc[t] = "query"   -> 1
               [] pc[t] = "release" -> IF hr[t] = "ok" THEN 2 ELSE 1
               [] pc[t] = "count"   -> 1
               [] OTHER             -> 0

\* The references to o that threads have in their hands.
Tokens(o) == {tk \in Thread \X {1, 2} : obj[tk[1]] = o /\ tk[2] <= InHand(tk[1])}

Held(o) == host[o] + Cardinality(Tokens(o))

\* Clients that add and release references from any thread, and createInstance
\* with its two releases, lose no reference and forge none
\* (cwASIOdriver.c:99-121, cwASIOdriver_skeleton.c:36-49).
RefsExact == \A o \in Obj : refs[o] = Held(o)

\* An instance that nobody holds any more is being freed, by one thread, or has
\* been: also the one for which createInstance fails after it was made
\* (cwASIOdriver.c:112-117).
FreedAtLast ==
  \A o \in Obj : life[o] \in {"made", "out"} /\ Held(o) = 0 =>
    \E t \in Thread : /\ obj[t] = o /\ pc[t] = "free"
                      /\ \A u \in Thread \ {t} : obj[u] = o => pc[u] # "free"

Lifecycle == INSTANCE InstanceLifecycle WITH stage <- life,
                                             held <- [o \in Obj |-> Held(o)]

\* An instance is handed out while createInstance holds it, only who holds one
\* takes a reference, and it is freed once, with none left
\* (cwASIOdriver.c:99-121, cwASIOdriver_skeleton.c:36-49).
InstancesLive == Lifecycle!Spec

\* Nobody has a lock on the DLL or a pointer to one of its objects, and no
\* thread is about to get one or executes its code.
Unused == /\ factory = 0
          /\ locks = 0
          /\ \A o \in Obj : host[o] = 0
          /\ \A t \in Thread : pc[t] = "idle"

\* The use count is the number of factory references, locks, and instances ever
\* handed out, however threads interleave and whatever fails in createInstance
\* (cwASIOdriver.c:87-131).
UseCountExact ==
  dllUseCount = factory + locks + Cardinality({o \in Obj : life[o] \in {"out", "freed"}})

\* COM never unmaps the DLL under somebody who has retrieved a pointer to one of
\* its objects and not released it, or has it locked (cwASIOdriver.c:156-160).
NotUnderUse == ~mapped => Unused
=============================================================================
