------------------------- MODULE ClassFactoryProofs -------------------------
(* Proofs about ClassFactory, for any finite sets of threads and instances.  *)
EXTENDS ClassFactory, FiniteSetTheorems, TLAPS

\* The instances that createInstance has handed out.
HandedOut == {o \in Obj : life[o] \in {"out", "freed"}}

\* What can have become of the instance that a thread at some place works on.
LifeAt(label, res) ==
  CASE label = "query"   -> IF res = "none" THEN {"made"} ELSE {}
    [] label = "release" -> IF res = "none" THEN {"out"} ELSE {"made"}
    [] label = "free"    -> IF res = "none" THEN {"out"}
                            ELSE IF res = "failed" THEN {"made"} ELSE {}
    [] label = "count"   -> IF res = "ok" THEN {"made"} ELSE {}
    [] OTHER             -> {}

Places ==
  \A t \in Thread :
    /\ pc[t] \in {"idle", "make"} => obj[t] = NoObj /\ hr[t] = "none"
    /\ pc[t] \notin {"idle", "make"} =>
         obj[t] \in Obj /\ life[obj[t]] \in LifeAt(pc[t], hr[t])

\* An instance that is being made is known to one thread only.
Alone ==
  \A t, u \in Thread :
    obj[t] # NoObj /\ obj[t] = obj[u] /\ life[obj[t]] = "made" => t = u

\* Clients get their references with an instance that has been counted.
HostOut == \A o \in Obj : host[o] > 0 => life[o] = "out"

\* The thread that frees an instance has taken its last reference.
FreeAtZero == \A t \in Thread : pc[t] = "free" =>
                /\ refs[obj[t]] = 0
                /\ \A u \in Thread : pc[u] = "free" /\ obj[u] = obj[t] => u = t

\* An instance nobody has a reference to is being freed.
Dying == \A o \in Obj : life[o] \in {"made", "out"} /\ refs[o] <= 0 =>
           \E t \in Thread : obj[t] = o /\ pc[t] = "free"

\* There is a reference to the factory while a thread is in createInstance.
CreatorsCounted == Creating # {} => factory > 0

\* What the instances need; the factory and the DLL come on top of it.
Holding == Places /\ Alone /\ HostOut /\ FreeAtZero /\ Dying /\ RefsExact

IInv == TypeOK /\ Holding /\ CreatorsCounted /\ UseCountExact /\ NotUnderUse

-----------------------------------------------------------------------------
(* Counting references.                                                      *)

Toks(h) == {tk \in Thread \X {1, 2} : tk[2] <= h[tk[1]]}

\* What one thread holds is counted apart from what the others hold.
LEMMA TokenCount ==
  ASSUME NEW h \in [Thread -> 0..2], NEW t \in Thread
  PROVE  LET rest == {tk \in Toks(h) : tk[1] # t}
         IN  /\ IsFiniteSet(rest)
             /\ Cardinality(Toks(h)) = Cardinality(rest) + h[t]
<1> DEFINE rest == {tk \in Toks(h) : tk[1] # t}
<1>1. IsFiniteSet({1, 2})
  <2>1. IsFiniteSet({1} \cup {2})
    BY FS_Singleton, FS_AddElement
  <2>2. {1, 2} = {1} \cup {2}
    OBVIOUS
  <2> QED BY <2>1, <2>2
<1>2. IsFiniteSet(Thread \X {1, 2})
  BY <1>1, FS_Product, ClassFactoryAssumption
<1>3. IsFiniteSet(rest) /\ Cardinality(rest) \in Nat
  <2>1. rest \subseteq Thread \X {1, 2}
    BY DEF Toks
  <2> QED BY <2>1, <1>2, FS_Subset, FS_CardinalityType
<1>4. CASE h[t] = 0
  <2>1. Toks(h) = rest
    BY <1>4 DEF Toks
  <2>2. Cardinality(Toks(h)) = Cardinality(rest)
    BY <2>1
  <2> QED BY <2>2, <1>3, <1>4
<1>5. CASE h[t] = 1
  <2>1. Toks(h) = rest \cup {<<t, 1>>} /\ <<t, 1>> \notin rest
    BY <1>5 DEF Toks
  <2> QED BY <2>1, <1>3, <1>5, FS_AddElement
<1>6. CASE h[t] = 2
  <2>1. Toks(h) = (rest \cup {<<t, 1>>}) \cup {<<t, 2>>} /\ <<t, 1>> \notin rest
    BY <1>6 DEF Toks
  <2>2. <<t, 2>> \notin rest \cup {<<t, 1>>}
    BY DEF Toks
  <2>3. /\ IsFiniteSet(rest \cup {<<t, 1>>})
        /\ Cardinality(rest \cup {<<t, 1>>}) = Cardinality(rest) + 1
    BY <2>1, <1>3, FS_AddElement
  <2>4. Cardinality(Toks(h)) = Cardinality(rest \cup {<<t, 1>>}) + 1
    BY <2>1, <2>2, <2>3, FS_AddElement
  <2> QED BY <2>3, <2>4, <1>3, <1>6
<1> QED BY <1>3, <1>4, <1>5, <1>6

\* When one thread takes or drops references, the total goes with it.
LEMMA TokenMove ==
  ASSUME NEW g \in [Thread -> 0..2], NEW h \in [Thread -> 0..2], NEW t \in Thread,
         \A u \in Thread \ {t} : g[u] = h[u]
  PROVE  /\ Cardinality(Toks(g)) \in Nat /\ Cardinality(Toks(g)) >= g[t]
         /\ Cardinality(Toks(h)) = Cardinality(Toks(g)) + h[t] - g[t]
<1> DEFINE rest(f) == {tk \in Toks(f) : tk[1] # t}
<1>1. rest(g) = rest(h)
  BY DEF Toks
<1>2. Cardinality(rest(g)) \in Nat
  BY TokenCount, FS_CardinalityType
<1>3. /\ Cardinality(Toks(g)) = Cardinality(rest(g)) + g[t]
      /\ Cardinality(Toks(h)) = Cardinality(rest(h)) + h[t]
  BY TokenCount
<1> HIDE DEF rest
<1> QED BY <1>1, <1>2, <1>3

\* How many of the references to o the thread has in its hands.
Hand(t, o) == IF obj[t] = o THEN InHand(t) ELSE 0

\* A step of one thread, seen by the references to o.
LEMMA TokensStep ==
  ASSUME TypeOK, TypeOK', NEW t \in Thread, NEW o \in Obj,
         \A u \in Thread \ {t} : pc'[u] = pc[u] /\ obj'[u] = obj[u] /\ hr'[u] = hr[u]
  PROVE  /\ Cardinality(Tokens(o)) \in Nat
         /\ Cardinality(Tokens(o)) >= Hand(t, o)
         /\ Cardinality(Tokens(o)') = Cardinality(Tokens(o)) + Hand(t, o)' - Hand(t, o)
<1> DEFINE g == [u \in Thread |-> Hand(u, o)]
           h == [u \in Thread |-> Hand(u, o)']
<1>1. g \in [Thread -> 0..2]
  BY DEF TypeOK, Hand, InHand
<1>2. h \in [Thread -> 0..2]
  BY DEF TypeOK, Hand, InHand
<1>3. Tokens(o) = Toks(g)
  BY <1>1 DEF Tokens, Toks, Hand
<1>4. Tokens(o)' = Toks(h)
  BY <1>2 DEF Tokens, Toks, Hand
<1>5. \A u \in Thread \ {t} : g[u] = h[u]
  BY DEF Hand, InHand
<1>6. g[t] = Hand(t, o) /\ h[t] = Hand(t, o)'
  OBVIOUS
<1> HIDE DEF g, h
<1> QED BY <1>1, <1>2, <1>3, <1>4, <1>5, <1>6, TokenMove

-----------------------------------------------------------------------------
(* The invariant at first, and what steps leave as it is.                    *)

\* The invariant holds at first.
LEMMA Initially == Init => IInv
<1> SUFFICES ASSUME Init PROVE IInv
  OBVIOUS
<1> USE ClassFactoryAssumption DEF Init
<1>0. 0 \in 0..MaxFactory /\ 0 \in 0..MaxLocks
  OBVIOUS
<1>1. TypeOK
  <2>1. /\ mapped \in BOOLEAN /\ dllUseCount \in Nat
        /\ factory \in 0..MaxFactory /\ locks \in 0..MaxLocks
    BY <1>0
  <2>2. refs \in [Obj -> Int] /\ host \in [Obj -> Nat]
    OBVIOUS
  <2>3. /\ life \in [Obj -> {"unborn", "made", "out", "freed", "failed"}]
        /\ pc \in [Thread -> PCs]
        /\ obj \in [Thread -> Obj \cup {NoObj}]
        /\ hr \in [Thread -> {"none", "ok", "failed"}]
    BY DEF PCs
  <2> QED BY <2>1, <2>2, <2>3 DEF TypeOK
<1>5. Alone /\ HostOut /\ FreeAtZero /\ Dying /\ NotUnderUse
  BY DEF Alone, HostOut, FreeAtZero, Dying, NotUnderUse, Unused
<1>2. Places
  BY DEF Places
<1>6. RefsExact
  <2> SUFFICES ASSUME NEW o \in Obj PROVE refs[o] = host[o] + Cardinality(Tokens(o))
    BY DEF RefsExact, Held
  <2>1. Tokens(o) = {}
    BY DEF Tokens
  <2> QED BY <2>1, FS_EmptySet
<1>3. Creating = {} /\ HandedOut = {}
  BY DEF Creating, HandedOut
<1>4. CreatorsCounted /\ UseCountExact
  BY <1>3, FS_EmptySet DEF CreatorsCounted, UseCountExact, HandedOut
<1> QED BY <1>1, <1>2, <1>4, <1>5, <1>6 DEF IInv, Holding

LEMMA Finite ==
  ASSUME TypeOK
  PROVE  IsFiniteSet(HandedOut) /\ Cardinality(HandedOut) \in Nat
<1>1. HandedOut \subseteq Obj
  BY DEF HandedOut
<1> QED BY <1>1, FS_Subset, FS_CardinalityType, ClassFactoryAssumption

Step(t) == Factory(t) \/ createInstance(t) \/ Instance(t)

\* A thread leaves the others where they are.
LEMMA Others ==
  ASSUME TypeOK, NEW t \in Thread, Step(t)
  PROVE  /\ \A u \in Thread \ {t} :
              pc'[u] = pc[u] /\ obj'[u] = obj[u] /\ hr'[u] = hr[u]
         /\ \A u \in Thread \ {t} : u \in Creating' <=> u \in Creating
<1>1. \A u \in Thread \ {t} : pc'[u] = pc[u] /\ obj'[u] = obj[u] /\ hr'[u] = hr[u]
  BY DEF TypeOK, Step, Factory, createInstance, Instance, DllGetClassObject, addRef,
     release, lockServer, CreateInstance, MakeAsioDriver, QueryInterface, CountInstance,
     InstanceRelease, InstanceFree, InstanceAddRef, Drop, Goto, Return, AfterRelease,
     threads
<1> QED BY <1>1 DEF Creating

\* The steps that change neither an instance nor a thread.
Outside(t) == \/ Factory(t)
              \/ \E o \in Obj : InstanceAddRef(t, o)

LEMMA OutsideFrame ==
  ASSUME TypeOK, NEW t \in Thread, Outside(t)
  PROVE  /\ UNCHANGED <<life, pc, obj, hr>>
         /\ \A o \in Obj : host'[o] > 0 <=> host[o] > 0
<1>1. CASE Factory(t)
  BY <1>1 DEF Factory, DllGetClassObject, addRef, release, lockServer, instances, threads
<1>2. ASSUME NEW p \in Obj, InstanceAddRef(t, p)
      PROVE  /\ UNCHANGED <<life, pc, obj, hr>>
             /\ \A o \in Obj : host'[o] > 0 <=> host[o] > 0
  <2>1. host[p] \in Nat /\ host[p] > 0 /\ host' = [host EXCEPT ![p] = @ + 1]
    BY <1>2 DEF InstanceAddRef, TypeOK
  <2>2. UNCHANGED <<life, pc, obj, hr>>
    BY <1>2 DEF InstanceAddRef, threads
  <2> QED BY <2>1, <2>2 DEF TypeOK
<1> QED BY <1>1, <1>2 DEF Outside

\* createInstance is entered with a reference to the factory to spare.
LEMMA CreatingStep ==
  ASSUME IInv, NEW t \in Thread, Step(t)
  PROVE  \/ Creating' \subseteq Creating /\ ~CreateInstance(t)
         \/ CreateInstance(t) /\ Creating' = Creating \cup {t}
<1> USE DEF Goto, Return
<1>1. /\ TypeOK /\ Places
      /\ \A u \in Thread \ {t} : u \in Creating' <=> u \in Creating
      /\ Creating \subseteq Thread /\ Creating' \subseteq Thread
      /\ t \in Creating <=> hr[t] # "none" \/ pc[t] \in {"make", "query"}
      /\ t \in Creating' <=> hr'[t] # "none" \/ pc'[t] \in {"make", "query"}
  BY Others DEF IInv, Holding, Creating
<1> USE <1>1 DEF TypeOK
<1>2. CASE CreateInstance(t)
  BY <1>2 DEF CreateInstance, Places
<1>3. CASE MakeAsioDriver(t) \/ QueryInterface(t) \/ CountInstance(t)
  BY <1>3 DEF MakeAsioDriver, QueryInterface, CountInstance, CreateInstance
<1>4. CASE InstanceRelease(t) \/ InstanceFree(t)
  BY <1>4 DEF InstanceRelease, InstanceFree, AfterRelease, CreateInstance
<1>5. ASSUME NEW o \in Obj, Drop(t, o)
      PROVE  Creating' \subseteq Creating /\ ~CreateInstance(t)
  BY <1>5 DEF Drop, CreateInstance
<1>6. CASE Outside(t)
  <2>1. Creating' = Creating /\ UNCHANGED pc
    BY <1>6, OutsideFrame DEF Creating
  <2> QED BY <1>2, <2>1
<1> QED
  BY <1>2, <1>3, <1>4, <1>5, <1>6 DEF Step, createInstance, Instance, Outside

LEMMA TypeStep ==
  ASSUME IInv, NEW t \in Thread, Step(t)
  PROVE  /\ factory' \in 0..MaxFactory /\ locks' \in 0..MaxLocks /\ mapped' \in BOOLEAN
         /\ dllUseCount' \in Int
         /\ life' \in [Obj -> {"unborn", "made", "out", "freed", "failed"}]
         /\ refs' \in [Obj -> Int] /\ host' \in [Obj -> Nat]
         /\ pc' \in [Thread -> PCs] /\ obj' \in [Thread -> Obj \cup {NoObj}]
         /\ hr' \in [Thread -> {"none", "ok", "failed"}]
<1> USE ClassFactoryAssumption DEF TypeOK, PCs, Goto, Return, AfterRelease, updateDllUseCount,
                                   instances, threads
<1>1. TypeOK /\ Places
  BY DEF IInv, Holding
<1>2. CASE DllGetClassObject(t)
  <2>1. factory' \in {factory, factory + 1} /\ factory < MaxFactory
    BY <1>2 DEF DllGetClassObject
  <2>2. dllUseCount' \in {dllUseCount, dllUseCount + 1} /\ mapped' \in BOOLEAN
    BY <1>2 DEF DllGetClassObject
  <2>3. UNCHANGED <<locks, instances, threads>>
    BY <1>2 DEF DllGetClassObject
  <2> QED BY <1>1, <2>1, <2>2, <2>3
<1>11. CASE addRef(t)
  BY <1>1, <1>11 DEF addRef
<1>3. CASE release(t)
  BY <1>1, <1>3 DEF release
<1>4. ASSUME NEW f \in BOOLEAN, lockServer(t, f)
      PROVE  /\ factory' \in 0..MaxFactory /\ locks' \in 0..MaxLocks
             /\ dllUseCount' \in Int
  BY <1>1, <1>4 DEF lockServer
<1>5. ASSUME NEW f \in BOOLEAN, lockServer(t, f)
      PROVE  UNCHANGED <<mapped, instances, threads>>
  BY <1>5 DEF lockServer
<1>6. CASE CreateInstance(t) \/ QueryInterface(t)
  BY <1>1, <1>6 DEF CreateInstance, QueryInterface, Places
<1>7. CASE MakeAsioDriver(t)
  BY <1>1, <1>7 DEF MakeAsioDriver
<1>8. CASE CountInstance(t)
  BY <1>1, <1>8 DEF CountInstance, Places
<1>9. CASE InstanceRelease(t) \/ InstanceFree(t)
  BY <1>1, <1>9 DEF InstanceRelease, InstanceFree, Places
<1>10. ASSUME NEW o \in Obj, InstanceAddRef(t, o) \/ Drop(t, o)
       PROVE  /\ UNCHANGED <<mapped, dllUseCount, factory, locks, life>>
              /\ refs' \in [Obj -> Int] /\ host' \in [Obj -> Nat]
              /\ pc' \in [Thread -> PCs] /\ obj' \in [Thread -> Obj \cup {NoObj}]
              /\ hr' \in [Thread -> {"none", "ok", "failed"}]
  BY <1>1, <1>10 DEF InstanceAddRef, Drop
<1> QED
  BY <1>1, <1>2, <1>3, <1>4, <1>5, <1>6, <1>7, <1>8, <1>9, <1>10, <1>11
  DEF Step, Factory, createInstance, Instance

-----------------------------------------------------------------------------
(* References and places.                                                    *)

\* What the places say of a thread, and of the instance it works on.
LEMMA AtPlace ==
  ASSUME IInv, NEW t \in Thread
  PROVE  /\ TypeOK /\ pc[t] \in PCs /\ hr[t] \in {"none", "ok", "failed"}
         /\ pc[t] \in {"idle", "make"} <=> obj[t] = NoObj
         /\ obj[t] = NoObj => hr[t] = "none"
         /\ obj[t] # NoObj => obj[t] \in Obj /\ life[obj[t]] \in LifeAt(pc[t], hr[t])
         /\ obj[t] # NoObj => life[obj[t]] \in {"made", "out"}
<1>1. /\ TypeOK /\ pc[t] \in PCs /\ hr[t] \in {"none", "ok", "failed"}
      /\ pc[t] \in {"idle", "make"} => obj[t] = NoObj /\ hr[t] = "none"
      /\ pc[t] \notin {"idle", "make"} =>
           obj[t] \in Obj /\ life[obj[t]] \in LifeAt(pc[t], hr[t])
  BY DEF IInv, Holding, TypeOK, Places
<1>2. pc[t] \in {"idle", "make"} <=> obj[t] = NoObj
  BY <1>1, ClassFactoryAssumption
<1> QED BY <1>1, <1>2 DEF LifeAt, PCs

\* Nobody holds more references than there are.
LEMMA Holds ==
  ASSUME IInv, NEW o \in Obj, NEW t \in Thread
  PROVE  refs[o] >= host[o] + Hand(t, o) /\ host[o] \in Nat /\ Hand(t, o) \in 0..2
<1> DEFINE g == [u \in Thread |-> Hand(u, o)]
<1>1. g \in [Thread -> 0..2]
  BY DEF IInv, TypeOK, Hand, InHand
<1>2. Tokens(o) = Toks(g)
  BY <1>1 DEF Tokens, Toks, Hand
<1>3. g[t] = Hand(t, o)
  OBVIOUS
<1> HIDE DEF g
<1>4. Cardinality(Tokens(o)) \in Nat /\ Cardinality(Tokens(o)) >= Hand(t, o)
  BY <1>1, <1>2, <1>3, TokenMove
<1> QED BY <1>4, <1>1, <1>3 DEF IInv, Holding, TypeOK, RefsExact, Held

\* The references to an instance that is being made are its maker's.
LEMMA MakersRefs ==
  ASSUME IInv, NEW t \in Thread, obj[t] # NoObj, life[obj[t]] = "made"
  PROVE  refs[obj[t]] = InHand(t)
<1> DEFINE o == obj[t]
           g == [u \in Thread |-> Hand(u, o)]
           z == [u \in Thread |-> 0]
<1>0. o \in Obj
  BY AtPlace
<1>1. g \in [Thread -> 0..2] /\ z \in [Thread -> 0..2]
  BY DEF IInv, TypeOK, Hand, InHand
<1>2. Tokens(o) = Toks(g)
  BY <1>1 DEF Tokens, Toks, Hand
<1>3. \A u \in Thread \ {t} : z[u] = g[u]
  BY DEF IInv, Holding, Alone, Hand
<1>4. Toks(z) = {}
  BY DEF Toks
<1>5. z[t] = 0 /\ g[t] = InHand(t)
  BY DEF Hand
<1>6. Cardinality(Toks(z)) = 0
  BY <1>4, FS_EmptySet
<1>7. Cardinality(Toks(g)) = Cardinality(Toks(z)) + g[t] - z[t]
  <2> HIDE DEF g, z
  <2> QED BY <1>1, <1>3, TokenMove
<1>8. Cardinality(Tokens(o)) = InHand(t) /\ InHand(t) \in 0..2
  <2> HIDE DEF g, z
  <2> QED BY <1>1, <1>2, <1>5, <1>6, <1>7
<1>9. host[o] = 0
  BY <1>0 DEF IInv, TypeOK, Holding, HostOut
<1> HIDE DEF o
<1>10. refs[o] = InHand(t)
  BY <1>0, <1>8, <1>9 DEF IInv, TypeOK, Holding, RefsExact, Held
<1> QED BY <1>10 DEF o

\* A thread that is about to give up a reference has it.
LEMMA ReleaseHolds ==
  ASSUME IInv, NEW t \in Thread, pc[t] = "release"
  PROVE  /\ obj[t] \in Obj /\ refs[obj[t]] >= 1
         /\ hr[t] # "none" => refs[obj[t]] = IF hr[t] = "ok" THEN 2 ELSE 1
<1>1. obj[t] # NoObj /\ obj[t] \in Obj /\ life[obj[t]] \in LifeAt("release", hr[t])
  BY AtPlace
<1>2. Hand(t, obj[t]) = IF hr[t] = "ok" THEN 2 ELSE 1
  BY DEF Hand, InHand
<1>3. refs[obj[t]] >= 1
  BY <1>1, <1>2, Holds DEF IInv, TypeOK
<1>4. ASSUME hr[t] # "none" PROVE refs[obj[t]] = IF hr[t] = "ok" THEN 2 ELSE 1
  <2>1. life[obj[t]] = "made"
    BY <1>1, <1>4 DEF LifeAt
  <2> QED BY <2>1, <1>1, MakersRefs DEF InHand
<1> QED BY <1>1, <1>3, <1>4

\* When an instance is freed, no other thread works on it.
LEMMA FreedUnheld ==
  ASSUME IInv, NEW t \in Thread, pc[t] = "free", NEW u \in Thread, obj[u] = obj[t]
  PROVE  u = t
<1>1. obj[t] \in Obj /\ obj[t] # NoObj /\ refs[obj[t]] = 0
  BY AtPlace DEF IInv, Holding, FreeAtZero
<1>2. InHand(u) = 0
  BY <1>1, Holds DEF Hand
<1>3. pc[u] = "free"
  BY <1>1, <1>2, AtPlace DEF InHand, PCs
<1> QED BY <1>3 DEF IInv, Holding, FreeAtZero

LEMMA PlacesStep ==
  ASSUME IInv, NEW t \in Thread, Step(t)
  PROVE  Places'
<1> SUFFICES ASSUME NEW u \in Thread
             PROVE  /\ pc'[u] \in {"idle", "make"} => obj'[u] = NoObj /\ hr'[u] = "none"
                    /\ pc'[u] \notin {"idle", "make"} =>
                         obj'[u] \in Obj /\ life'[obj'[u]] \in LifeAt(pc'[u], hr'[u])
  BY DEF Places
<1> USE ClassFactoryAssumption DEF Goto, Return
<1>1. TypeOK /\ Places /\ Alone /\ HostOut
  BY DEF IInv, Holding
<1>2. CASE u # t
  <2>1. pc'[u] = pc[u] /\ obj'[u] = obj[u] /\ hr'[u] = hr[u]
    BY <1>1, <1>2, Others
  <2>2. CASE obj[u] = NoObj
    BY <2>1, <2>2, AtPlace
  <2>3. CASE obj[u] # NoObj
    <3>1. /\ obj[u] \in Obj /\ life[obj[u]] \in LifeAt(pc[u], hr[u])
          /\ life[obj[u]] # "unborn" /\ pc[u] \notin {"idle", "make"}
      BY <2>3, AtPlace
    <3>2. life'[obj[u]] = life[obj[u]]
      <4>1. CASE MakeAsioDriver(t)
        BY <1>1, <3>1, <4>1 DEF MakeAsioDriver, TypeOK
      <4>2. CASE InstanceFree(t)
        <5>1. obj[u] # obj[t]
          BY <1>2, <4>2, FreedUnheld DEF InstanceFree
        <5> QED BY <1>1, <3>1, <4>2, <5>1 DEF InstanceFree, TypeOK
      <4>3. CASE CountInstance(t)
        <5>1. obj[t] # NoObj /\ life[obj[t]] = "made"
          BY <4>3, AtPlace DEF CountInstance, LifeAt
        <5>2. obj[u] # obj[t]
          BY <1>1, <1>2, <5>1 DEF Alone
        <5> QED BY <1>1, <3>1, <4>3, <5>2 DEF CountInstance, TypeOK
      <4>4. CASE UNCHANGED life
        BY <4>4
      <4> QED
        BY <4>1, <4>2, <4>3, <4>4 DEF Step, Factory, createInstance, Instance,
           DllGetClassObject, addRef, release, lockServer, CreateInstance, QueryInterface,
           InstanceRelease, InstanceAddRef, Drop, instances
    <3> QED BY <2>1, <3>1, <3>2
  <2> QED BY <2>2, <2>3
<1>3. CASE u = t
  <2> USE <1>1, <1>3 DEF TypeOK, LifeAt, Places, AfterRelease
  <2>1. CASE Outside(t)
    BY <2>1, OutsideFrame
  <2>2. CASE CreateInstance(t)
    BY <2>2 DEF CreateInstance
  <2>3. CASE MakeAsioDriver(t)
    BY <2>3 DEF MakeAsioDriver
  <2>4. CASE QueryInterface(t)
    BY <2>4 DEF QueryInterface
  <2>5. CASE CountInstance(t)
    BY <2>5 DEF CountInstance
  <2>6. CASE InstanceRelease(t)
    <3>1. hr[t] # "none" => refs[obj[t]] = IF hr[t] = "ok" THEN 2 ELSE 1
      BY <2>6, ReleaseHolds DEF InstanceRelease
    <3> QED BY <2>6, <3>1 DEF InstanceRelease
  <2>7. CASE InstanceFree(t)
    BY <2>7 DEF InstanceFree
  <2>8. ASSUME NEW o \in Obj, Drop(t, o)
        PROVE  /\ pc'[u] = "release" /\ obj'[u] = o
               /\ life'[o] \in LifeAt("release", hr'[u])
    BY <2>8 DEF Drop, HostOut
  <2> QED
    BY <2>1, <2>2, <2>3, <2>4, <2>5, <2>6, <2>7, <2>8
    DEF Step, createInstance, Instance, Outside
<1> QED BY <1>2, <1>3

-----------------------------------------------------------------------------
(* Who works on what.                                                        *)

LEMMA AloneStep ==
  ASSUME IInv, NEW t \in Thread, Step(t)
  PROVE  Alone'
<1> SUFFICES ASSUME NEW a \in Thread, NEW b \in Thread, a # b,
                    obj'[a] # NoObj, obj'[a] = obj'[b], life'[obj'[a]] = "made"
             PROVE  FALSE
  BY DEF Alone
<1> USE ClassFactoryAssumption DEF Goto, Return
<1>1. TypeOK /\ Alone /\ HostOut
  BY DEF IInv, Holding
<1>2. \A u \in Thread \ {t} : pc'[u] = pc[u] /\ obj'[u] = obj[u] /\ hr'[u] = hr[u]
  BY <1>1, Others
<1>3. \A u \in Thread : obj[u] # NoObj => obj[u] \in Obj /\ life[obj[u]] # "unborn"
  BY AtPlace
<1>4. CASE MakeAsioDriver(t)
  BY <1>1, <1>2, <1>3, <1>4 DEF MakeAsioDriver, TypeOK, Alone
<1>5. ASSUME NEW o \in Obj, Drop(t, o) PROVE FALSE
  <2>1. life[o] = "out" /\ UNCHANGED life
    BY <1>1, <1>5 DEF Drop, HostOut
  <2> QED BY <1>1, <1>2, <1>5, <2>1 DEF Drop, TypeOK, Alone
<1>6. CASE InstanceRelease(t)
  BY <1>1, <1>2, <1>6 DEF InstanceRelease, AfterRelease, TypeOK, Alone
<1>7. CASE CreateInstance(t) \/ QueryInterface(t)
  BY <1>1, <1>2, <1>7 DEF CreateInstance, QueryInterface, TypeOK, Alone, instances
<1>8. CASE InstanceFree(t)
  BY <1>1, <1>2, <1>8 DEF InstanceFree, AfterRelease, TypeOK, Alone
<1>9. CASE CountInstance(t)
  BY <1>1, <1>2, <1>9 DEF CountInstance, TypeOK, Alone
<1>10. CASE Outside(t)
  BY <1>1, <1>10, OutsideFrame DEF Alone
<1> QED
  BY <1>4, <1>5, <1>6, <1>7, <1>8, <1>9, <1>10 DEF Step, createInstance, Instance, Outside

LEMMA HostOutStep ==
  ASSUME IInv, NEW t \in Thread, Step(t)
  PROVE  HostOut'
<1> SUFFICES ASSUME NEW o \in Obj, host'[o] > 0 PROVE life'[o] = "out"
  BY DEF HostOut
<1> USE DEF TypeOK
<1>1. TypeOK /\ HostOut
  BY DEF IInv, Holding
<1>2. CASE CountInstance(t)
  BY <1>1, <1>2 DEF CountInstance, HostOut
<1>3. CASE InstanceFree(t)
  <2>1. obj[t] \in Obj /\ refs[obj[t]] = 0
    BY <1>3, AtPlace DEF InstanceFree, IInv, Holding, FreeAtZero
  <2>2. host[obj[t]] = 0
    BY <2>1, <1>1, Holds
  <2>3. o # obj[t]
    BY <1>3, <2>1, <2>2 DEF InstanceFree
  <2> QED BY <1>1, <1>3, <2>3 DEF InstanceFree, HostOut
<1>4. CASE MakeAsioDriver(t)
  BY <1>1, <1>4 DEF MakeAsioDriver, HostOut
<1>5. ASSUME NEW p \in Obj, Drop(t, p) PROVE life'[o] = "out"
  BY <1>1, <1>5 DEF Drop, HostOut
<1>6. CASE Outside(t)
  BY <1>1, <1>6, OutsideFrame DEF HostOut
<1>7. CASE UNCHANGED <<life, host>>
  BY <1>1, <1>7 DEF HostOut
<1> QED
  BY <1>2, <1>3, <1>4, <1>5, <1>6, <1>7 DEF Step, createInstance, Instance, Outside,
     CreateInstance, QueryInterface, InstanceRelease, instances

LEMMA FreeAtZeroStep ==
  ASSUME IInv, NEW t \in Thread, Step(t)
  PROVE  FreeAtZero'
<1> USE ClassFactoryAssumption DEF Goto, Return
<1>1. TypeOK /\ FreeAtZero
  BY DEF IInv, Holding
<1>2. \A u \in Thread \ {t} : pc'[u] = pc[u] /\ obj'[u] = obj[u] /\ hr'[u] = hr[u]
  BY <1>1, Others
<1>3. \A u \in Thread : pc[u] = "free" =>
        obj[u] \in Obj /\ host[obj[u]] = 0 /\ life[obj[u]] # "unborn"
  <2> SUFFICES ASSUME NEW u \in Thread, pc[u] = "free"
               PROVE  obj[u] \in Obj /\ host[obj[u]] = 0 /\ life[obj[u]] # "unborn"
    OBVIOUS
  <2>1. obj[u] \in Obj /\ life[obj[u]] # "unborn"
    BY AtPlace
  <2> QED BY <1>1, <2>1, Holds DEF FreeAtZero
<1>4. CASE InstanceRelease(t)
  <2>1. obj[t] \in Obj /\ refs[obj[t]] >= 1
    BY <1>4, ReleaseHolds DEF InstanceRelease
  <2>2. \A u \in Thread : pc[u] = "free" => obj[u] # obj[t]
    BY <1>1, <2>1 DEF FreeAtZero
  <2> QED
    BY <1>1, <1>2, <1>3, <1>4, <2>1, <2>2
    DEF InstanceRelease, AfterRelease, FreeAtZero, TypeOK
<1>5. CASE MakeAsioDriver(t)
  BY <1>1, <1>2, <1>3, <1>5 DEF MakeAsioDriver, FreeAtZero, TypeOK
<1>6. CASE QueryInterface(t)
  <2>1. obj[t] \in Obj /\ Hand(t, obj[t]) = 1
    BY <1>6, AtPlace DEF QueryInterface, Hand, InHand
  <2>2. refs[obj[t]] >= 1
    BY <2>1, <1>1, Holds DEF TypeOK
  <2>3. \A u \in Thread : pc[u] = "free" => obj[u] # obj[t]
    BY <1>1, <2>2 DEF FreeAtZero
  <2> QED BY <1>1, <1>2, <1>3, <1>6, <2>1, <2>3 DEF QueryInterface, FreeAtZero, TypeOK
<1>7. ASSUME NEW o \in Obj, InstanceAddRef(t, o) PROVE FreeAtZero'
  BY <1>1, <1>3, <1>7 DEF InstanceAddRef, FreeAtZero, TypeOK, threads
<1>8. CASE InstanceFree(t)
  BY <1>1, <1>2, <1>8 DEF InstanceFree, AfterRelease, FreeAtZero, TypeOK
<1>9. CASE CreateInstance(t) \/ CountInstance(t)
  <2>1. UNCHANGED refs /\ pc'[t] # "free"
    BY <1>1, <1>9 DEF CreateInstance, CountInstance, TypeOK, instances
  <2> QED BY <1>1, <1>2, <2>1 DEF FreeAtZero
<1>10. ASSUME NEW o \in Obj, Drop(t, o) PROVE FreeAtZero'
  BY <1>1, <1>2, <1>10 DEF Drop, FreeAtZero, TypeOK
<1>11. CASE Factory(t)
  <2>1. UNCHANGED <<refs, pc, obj>>
    BY <1>11 DEF Factory, DllGetClassObject, addRef, release, lockServer, instances, threads
  <2> QED BY <1>1, <2>1 DEF FreeAtZero
<1> QED
  BY <1>4, <1>5, <1>6, <1>7, <1>8, <1>9, <1>10, <1>11 DEF Step, createInstance, Instance

LEMMA DyingStep ==
  ASSUME IInv, NEW t \in Thread, Step(t)
  PROVE  Dying'
<1> SUFFICES ASSUME NEW o \in Obj, life'[o] \in {"made", "out"}, refs'[o] <= 0
             PROVE  \E u \in Thread : obj'[u] = o /\ pc'[u] = "free"
  BY DEF Dying
<1> USE ClassFactoryAssumption DEF Goto, Return
<1>1. TypeOK /\ Dying
  BY DEF IInv, Holding
<1>2. \A u \in Thread \ {t} : pc'[u] = pc[u] /\ obj'[u] = obj[u] /\ hr'[u] = hr[u]
  BY <1>1, Others
<1>3. ASSUME life[o] \in {"made", "out"}, refs[o] <= 0, pc[t] # "free" \/ obj[t] # o
      PROVE  \E u \in Thread : obj'[u] = o /\ pc'[u] = "free"
  BY <1>1, <1>2, <1>3 DEF Dying
<1>4. CASE InstanceRelease(t)
  <2>1. CASE o # obj[t]
    BY <1>1, <1>3, <1>4, <2>1 DEF InstanceRelease, TypeOK
  <2>2. CASE o = obj[t]
    <3>1. refs[o] = 1
      BY <1>1, <1>4, <2>2, ReleaseHolds DEF InstanceRelease, TypeOK
    <3> QED BY <1>1, <1>4, <2>2, <3>1 DEF InstanceRelease, TypeOK
  <2> QED BY <2>1, <2>2
<1>5. CASE MakeAsioDriver(t)
  BY <1>1, <1>3, <1>5 DEF MakeAsioDriver, TypeOK
<1>6. CASE QueryInterface(t)
  BY <1>1, <1>3, <1>6 DEF QueryInterface, TypeOK
<1>7. ASSUME NEW p \in Obj, InstanceAddRef(t, p)
      PROVE  \E u \in Thread : obj'[u] = o /\ pc'[u] = "free"
  BY <1>1, <1>3, <1>7 DEF InstanceAddRef, TypeOK
<1>8. CASE InstanceFree(t)
  <2>1. o # obj[t]
    BY <1>1, <1>8 DEF InstanceFree, TypeOK
  <2> QED BY <1>1, <1>3, <1>8, <2>1 DEF InstanceFree, TypeOK
<1>9. CASE CountInstance(t)
  <2>1. obj[t] \in Obj /\ life[obj[t]] = "made"
    BY <1>9, AtPlace DEF CountInstance, LifeAt
  <2> QED BY <1>1, <1>3, <1>9, <2>1 DEF CountInstance, TypeOK
<1>10. CASE Factory(t) \/ CreateInstance(t)
  <2>1. UNCHANGED <<life, refs>> /\ pc[t] = "idle"
    BY <1>10 DEF Factory, DllGetClassObject, addRef, release, lockServer, CreateInstance,
       instances
  <2> QED BY <1>3, <2>1
<1>11. ASSUME NEW p \in Obj, Drop(t, p)
       PROVE  \E u \in Thread : obj'[u] = o /\ pc'[u] = "free"
  BY <1>3, <1>11 DEF Drop
<1> QED
  BY <1>4, <1>5, <1>6, <1>7, <1>8, <1>9, <1>10, <1>11 DEF Step, createInstance, Instance

LEMMA RefsStep ==
  ASSUME IInv, TypeOK', NEW t \in Thread, Step(t)
  PROVE  RefsExact'
<1> SUFFICES ASSUME NEW o \in Obj
             PROVE  refs'[o] = host'[o] + Cardinality(Tokens(o)')
  BY DEF RefsExact, Held
<1> USE ClassFactoryAssumption DEF Goto, Return
<1>1. TypeOK /\ refs[o] = host[o] + Cardinality(Tokens(o))
  BY DEF IInv, Holding, RefsExact, Held
<1>2. /\ Cardinality(Tokens(o)) \in Nat
      /\ Cardinality(Tokens(o)') = Cardinality(Tokens(o)) + Hand(t, o)' - Hand(t, o)
  BY <1>1, Others, TokensStep
<1>3. SUFFICES /\ refs'[o] - host'[o] = refs[o] - host[o] + Hand(t, o)' - Hand(t, o)
               /\ Hand(t, o) \in Int /\ Hand(t, o)' \in Int
  BY <1>1, <1>2 DEF TypeOK
<1>4. Hand(t, o) \in Int /\ Hand(t, o)' \in Int
  BY <1>1 DEF Hand, InHand
<1>5. /\ pc[t] \in {"idle", "make"} <=> obj[t] = NoObj
      /\ obj[t] = NoObj => hr[t] = "none"
      /\ hr[t] \in {"none", "ok", "failed"}
      /\ obj[t] # NoObj => /\ obj[t] \in Obj /\ life[obj[t]] \in LifeAt(pc[t], hr[t])
                           /\ life[obj[t]] # "unborn"
  BY AtPlace
<1> DEFINE Goal == refs'[o] - host'[o] = refs[o] - host[o] + Hand(t, o)' - Hand(t, o)
<1> USE <1>1 DEF TypeOK, Hand, InHand
<1>6. CASE Factory(t) \/ CreateInstance(t)
  <2>1. CASE Factory(t)
    <3>1. UNCHANGED <<refs, host, pc, obj, hr>>
      BY <2>1 DEF Factory, DllGetClassObject, addRef, release, lockServer, instances, threads
    <3> QED BY <3>1
  <2>2. CASE CreateInstance(t)
    BY <2>2 DEF CreateInstance, instances
  <2> QED BY <1>6, <2>1, <2>2
<1>7. CASE MakeAsioDriver(t)
  <2>1. ASSUME life[o] = "unborn" PROVE refs[o] = 0 /\ host[o] = 0
    <3>1. \A u \in Thread : obj[u] # o
      BY <2>1, AtPlace
    <3>2. Tokens(o) = {}
      BY <3>1 DEF Tokens
    <3>3. host[o] = 0
      BY <2>1 DEF IInv, Holding, HostOut
    <3> QED BY <3>2, <3>3, FS_EmptySet
  <2> QED BY <1>5, <1>7, <2>1 DEF MakeAsioDriver
<1>8. CASE QueryInterface(t)
  BY <1>5, <1>8 DEF QueryInterface
<1>9. CASE CountInstance(t)
  BY <1>5, <1>9 DEF CountInstance, LifeAt
<1>10. CASE InstanceRelease(t)
  <2>1. hr[t] # "none" => refs[obj[t]] = IF hr[t] = "ok" THEN 2 ELSE 1
    BY <1>10, ReleaseHolds DEF InstanceRelease
  <2> QED BY <1>5, <1>10, <2>1 DEF InstanceRelease, AfterRelease
<1>11. CASE InstanceFree(t)
  BY <1>5, <1>11 DEF InstanceFree, AfterRelease, LifeAt
<1>12. ASSUME NEW p \in Obj, InstanceAddRef(t, p) PROVE Goal
  BY <1>12 DEF InstanceAddRef, threads
<1>13. ASSUME NEW p \in Obj, Drop(t, p) PROVE Goal
  BY <1>5, <1>13 DEF Drop
<1> QED
  BY <1>4, <1>6, <1>7, <1>8, <1>9, <1>10, <1>11, <1>12, <1>13
  DEF Step, createInstance, Instance

-----------------------------------------------------------------------------
(* The factory, and the DLL.                                                 *)

LEMMA CreatorsStep ==
  ASSUME IInv, NEW t \in Thread, Step(t)
  PROVE  CreatorsCounted'
<1>1. factory \in Nat /\ (Creating # {} => factory > 0)
  BY ClassFactoryAssumption DEF IInv, TypeOK, CreatorsCounted
<1>2. CASE CreateInstance(t)
  BY <1>1, <1>2 DEF CreateInstance, CreatorsCounted
<1>3. CASE release(t)
  <2>1. Creating' = Creating
    BY <1>3 DEF release, threads, Creating
  <2> QED BY <1>1, <1>3, <2>1 DEF release, CreatorsCounted
<1>4. CASE ~CreateInstance(t) /\ ~release(t)
  <2>1. Creating' \subseteq Creating
    BY <1>4, CreatingStep
  <2>2. factory' = factory \/ factory' = factory + 1
    BY <1>4 DEF Step, Factory, createInstance, Instance, DllGetClassObject, addRef,
       lockServer, MakeAsioDriver, QueryInterface, CountInstance, InstanceRelease,
       InstanceFree, InstanceAddRef, Drop
  <2> QED BY <1>1, <2>1, <2>2 DEF CreatorsCounted
<1> QED BY <1>2, <1>3, <1>4

\* An instance is handed out by one step, and then stays so.
LEMMA HandedOutStep ==
  ASSUME IInv, NEW t \in Thread, Step(t)
  PROVE  IF CountInstance(t)
         THEN HandedOut' = HandedOut \cup {obj[t]} /\ obj[t] \notin HandedOut
         ELSE HandedOut' = HandedOut
<1> USE DEF HandedOut
<1>1. /\ TypeOK
      /\ pc[t] = "count" => obj[t] \in Obj /\ life[obj[t]] = "made"
      /\ pc[t] = "free" => obj[t] \in Obj /\ life[obj[t]] \in {"made", "out"}
  BY AtPlace DEF LifeAt
<1> USE <1>1 DEF TypeOK
<1>2. CASE CountInstance(t)
  BY <1>2 DEF CountInstance
<1>3. CASE MakeAsioDriver(t)
  BY <1>3 DEF MakeAsioDriver, CountInstance
<1>4. CASE InstanceFree(t)
  BY <1>4 DEF InstanceFree, CountInstance
<1>5. CASE UNCHANGED life /\ ~CountInstance(t)
  BY <1>5
<1> QED
  BY <1>2, <1>3, <1>4, <1>5 DEF Step, Factory, createInstance, Instance, DllGetClassObject,
     addRef, release, lockServer, CreateInstance, QueryInterface, CountInstance,
     InstanceRelease, InstanceAddRef, Drop, instances

LEMMA UseCountStep ==
  ASSUME IInv, NEW t \in Thread, Step(t)
  PROVE  UseCountExact'
<1> USE DEF updateDllUseCount
<1>1. /\ factory \in Int /\ locks \in Int /\ dllUseCount \in Int
      /\ IsFiniteSet(HandedOut) /\ Cardinality(HandedOut) \in Nat
      /\ dllUseCount = factory + locks + Cardinality(HandedOut)
  BY Finite DEF IInv, TypeOK, UseCountExact, HandedOut
<1>2. SUFFICES dllUseCount' = factory' + locks' + Cardinality(HandedOut')
  BY DEF UseCountExact, HandedOut
<1>3. CASE CountInstance(t)
  <2>1. Cardinality(HandedOut') = Cardinality(HandedOut) + 1
    BY <1>1, <1>3, HandedOutStep, FS_AddElement
  <2> QED BY <1>1, <1>3, <2>1 DEF CountInstance
<1>4. CASE ~CountInstance(t)
  <2>1. HandedOut' = HandedOut
    BY <1>4, HandedOutStep
  <2>2. dllUseCount' - dllUseCount = (factory' - factory) + (locks' - locks)
        /\ factory' \in Int /\ locks' \in Int /\ dllUseCount' \in Int
    <3>1. factory' \in Int /\ locks' \in Int /\ dllUseCount' \in Int
      BY TypeStep
    <3>2. CASE DllGetClassObject(t)
      BY <1>1, <3>1, <3>2 DEF DllGetClassObject
    <3>3. CASE addRef(t) \/ release(t)
      BY <1>1, <3>1, <3>3 DEF addRef, release
    <3>4. ASSUME NEW f \in BOOLEAN, lockServer(t, f)
          PROVE  dllUseCount' - dllUseCount = (factory' - factory) + (locks' - locks)
      BY <1>1, <3>1, <3>4 DEF lockServer
    <3>5. CASE UNCHANGED <<dllUseCount, factory, locks>>
      BY <1>1, <3>1, <3>5
    <3> QED
      BY <1>4, <3>1, <3>2, <3>3, <3>4, <3>5 DEF Step, Factory, createInstance, Instance,
         CreateInstance, MakeAsioDriver, QueryInterface, InstanceRelease, InstanceFree,
         InstanceAddRef, Drop
  <2> QED BY <1>1, <2>1, <2>2
<1> QED BY <1>3, <1>4

\* What is not in the process is not entered but through DllGetClassObject.
LEMMA NotUnderUseStep ==
  ASSUME IInv, NEW t \in Thread, Step(t)
  PROVE  NotUnderUse'
<1> SUFFICES ASSUME ~mapped' PROVE Unused'
  BY DEF NotUnderUse
<1>1. ~mapped
  BY DEF Step, Factory, createInstance, Instance, DllGetClassObject, addRef, release,
     lockServer, CreateInstance, MakeAsioDriver, QueryInterface, CountInstance,
     InstanceRelease, InstanceFree, InstanceAddRef, Drop
<1>2. Unused
  BY <1>1 DEF IInv, NotUnderUse
<1>3. pc[t] = "idle" /\ factory = 0 /\ \A o \in Obj : host[o] = 0
  BY <1>2 DEF Unused
<1>4. ~Factory(t)
  <2>1. ~DllGetClassObject(t)
    BY DEF DllGetClassObject
  <2>2. ~addRef(t) /\ ~release(t)
    <3>1. MaxFactory \in Nat => 0 \notin 1 .. MaxFactory - 1
      OBVIOUS
    <3> QED BY <1>3, <3>1, ClassFactoryAssumption DEF addRef, release
  <2>3. \A f \in BOOLEAN : ~lockServer(t, f)
    BY <1>3 DEF lockServer
  <2> QED BY <2>1, <2>2, <2>3 DEF Factory
<1>5. ~createInstance(t)
  BY <1>2, <1>3 DEF createInstance, CreateInstance, MakeAsioDriver, QueryInterface,
     CountInstance
<1>6. ~Instance(t)
  BY <1>3 DEF Instance, InstanceRelease, InstanceFree, InstanceAddRef, Drop
<1> QED BY <1>4, <1>5, <1>6 DEF Step

\* At a use count of zero nobody is there.
LEMMA ZeroIsUnused ==
  ASSUME IInv, dllUseCount <= 0
  PROVE  Unused
<1>1. /\ factory \in Nat /\ locks \in Nat
      /\ IsFiniteSet(HandedOut) /\ Cardinality(HandedOut) \in Nat
      /\ dllUseCount = factory + locks + Cardinality(HandedOut)
      /\ Creating # {} => factory > 0
  BY Finite, ClassFactoryAssumption
  DEF IInv, TypeOK, UseCountExact, HandedOut, CreatorsCounted
<1>2. factory = 0 /\ locks = 0 /\ HandedOut = {} /\ Creating = {}
  BY <1>1, FS_EmptySet
<1>3. \A o \in Obj : host[o] = 0
  BY <1>2 DEF IInv, Holding, TypeOK, HostOut, HandedOut
<1>4. \A t \in Thread : pc[t] = "idle"
  BY <1>2 DEF IInv, Holding, TypeOK, PCs, Places, LifeAt, HandedOut, Creating
<1> QED BY <1>2, <1>3, <1>4 DEF Unused

-----------------------------------------------------------------------------
LEMMA Inductive == IInv /\ [Next]_vars => IInv'
<1>1. ASSUME IInv, UNCHANGED vars PROVE IInv'
  BY <1>1 DEF vars, IInv, TypeOK, Holding, Places, Alone, HostOut, FreeAtZero, Dying,
     RefsExact, Held, Tokens, InHand, CreatorsCounted, Creating, UseCountExact,
     NotUnderUse, Unused
<1>2. ASSUME IInv, NEW t \in Thread, Step(t) PROVE IInv'
  <2>1. UseCountExact'
    BY <1>2, UseCountStep
  <2>2. TypeOK'
    <3>1. dllUseCount' = factory' + locks' + Cardinality(HandedOut')
      BY <2>1 DEF UseCountExact, HandedOut
    <3>2. /\ factory' \in Nat /\ locks' \in Nat
          /\ HandedOut' \subseteq Obj
      BY <1>2, TypeStep, ClassFactoryAssumption DEF HandedOut
    <3>3. Cardinality(HandedOut') \in Nat
      BY <3>2, FS_Subset, FS_CardinalityType, ClassFactoryAssumption
    <3>4. dllUseCount' \in Nat
      BY <3>1, <3>2, <3>3
    <3> QED BY <1>2, <3>4, TypeStep DEF TypeOK
  <2> QED
    BY <1>2, <2>1, <2>2, PlacesStep, AloneStep, HostOutStep, FreeAtZeroStep, DyingStep,
       RefsStep, CreatorsStep, NotUnderUseStep DEF IInv, Holding
<1>3. ASSUME IInv, DllCanUnloadNow PROVE IInv'
  <2>1. Unused
    BY <1>3, ZeroIsUnused DEF DllCanUnloadNow
  <2>2. UNCHANGED <<dllUseCount, factory, locks, life, refs, host, pc, obj, hr>>
        /\ mapped' = FALSE
    BY <1>3 DEF DllCanUnloadNow, instances, threads
  <2>3. TypeOK' /\ UseCountExact'
    BY <1>3, <2>2 DEF IInv, TypeOK, UseCountExact
  <2>4. Creating' = Creating
    BY <2>2 DEF Creating
  <2>5. Holding' /\ CreatorsCounted'
    BY <1>3, <2>2, <2>4 DEF IInv, Holding, Places, Alone, HostOut, FreeAtZero, Dying,
       RefsExact, Held, Tokens, InHand, CreatorsCounted
  <2>6. NotUnderUse'
    BY <2>1, <2>2 DEF NotUnderUse, Unused
  <2> QED BY <2>3, <2>5, <2>6 DEF IInv
<1> QED BY <1>1, <1>2, <1>3 DEF Next, Step

LEMMA Invariant == Spec => []IInv
BY Initially, Inductive, PTL DEF Spec

\* Every variable keeps its type; the use count is never below zero, as the
\* assertions of cwASIOdriver.c:89, 95 and 159 have it.
THEOREM TypeCorrect == Spec => []TypeOK
<1>1. IInv => TypeOK
  BY DEF IInv
<1> QED BY <1>1, Invariant, PTL

\* dllUseCount is the number of factory references, locks and instances ever
\* handed out, for any number of threads (cwASIOdriver.c:87-131).
THEOREM UseCountExactHolds == Spec => []UseCountExact
<1>1. IInv => UseCountExact
  BY DEF IInv
<1> QED BY <1>1, Invariant, PTL

\* COM never unmaps the DLL under a client (cwASIOdriver.c:156-160).
THEOREM NotUnderUseHolds == Spec => []NotUnderUse
<1>1. IInv => NotUnderUse
  BY DEF IInv
<1> QED BY <1>1, Invariant, PTL

\* The reference count of an instance is the number of references held, for any
\* number of threads and instances (cwASIOdriver.c:99-121,
\* cwASIOdriver_skeleton.c:36-49).
THEOREM RefsExactHolds == Spec => []RefsExact
<1>1. IInv => RefsExact
  BY DEF IInv, Holding
<1> QED BY <1>1, Invariant, PTL

\* What nobody holds is freed by one thread, also when createInstance fails
\* (cwASIOdriver.c:112-117).
THEOREM FreedAtLastHolds == Spec => []FreedAtLast
<1>1. ASSUME IInv PROVE FreedAtLast
  <2> SUFFICES ASSUME NEW o \in Obj, life[o] \in {"made", "out"}, Held(o) = 0
               PROVE  \E t \in Thread :
                        /\ obj[t] = o /\ pc[t] = "free"
                        /\ \A u \in Thread \ {t} : obj[u] = o => pc[u] # "free"
    BY DEF FreedAtLast
  <2>1. refs[o] <= 0
    BY <1>1 DEF IInv, Holding, RefsExact
  <2>2. PICK t \in Thread : obj[t] = o /\ pc[t] = "free"
    BY <1>1, <2>1 DEF IInv, Holding, Dying
  <2>3. \A u \in Thread \ {t} : obj[u] = o => pc[u] # "free"
    BY <1>1, <2>2 DEF IInv, Holding, FreeAtZero
  <2> QED BY <2>2, <2>3
<1> QED BY <1>1, Invariant, PTL

-----------------------------------------------------------------------------
(* ClassFactory implements InstanceLifecycle.                                *)

\* What InstanceLifecycle counts is the reference count.
LEMMA HeldIsRefs ==
  ASSUME IInv
  PROVE  [o \in Obj |-> Held(o)] = refs
BY DEF IInv, Holding, TypeOK, RefsExact

LEMMA LifecycleStep ==
  ASSUME IInv, IInv', NEW t \in Thread, Step(t)
  PROVE  [Lifecycle!Next]_<<life, [o \in Obj |-> Held(o)]>>
<1> DEFINE Helds == [o \in Obj |-> Held(o)]
           Goal == [Lifecycle!Next]_<<life, Helds>>
<1>1. Helds = refs /\ Helds' = refs' /\ TypeOK
  <2>1. Helds' = refs'
    BY DEF IInv, Holding, TypeOK, RefsExact
  <2> QED BY <2>1, HeldIsRefs DEF IInv
<1>2. obj[t] # NoObj => obj[t] \in Obj /\ life[obj[t]] \in LifeAt(pc[t], hr[t])
  BY AtPlace
<1>3. pc[t] \notin {"idle", "make"} => obj[t] # NoObj
  BY AtPlace
<1>4. ASSUME UNCHANGED <<life, refs>> PROVE Goal
  BY <1>1, <1>4
<1>5. ASSUME NEW o \in Obj,
             \/ Lifecycle!Make(o) \/ Lifecycle!HandOut(o) \/ Lifecycle!Share(o)
             \/ Lifecycle!GiveUp(o) \/ Lifecycle!Free(o)
      PROVE  Goal
  BY <1>5 DEF Lifecycle!Next
<1>6. CASE MakeAsioDriver(t)
  <2>1. ASSUME NEW o \in Obj, life[o] = "unborn", life' = [life EXCEPT ![o] = "made"],
               refs' = [refs EXCEPT ![o] = 1]
        PROVE  Goal
    <3>1. Lifecycle!Make(o)
      BY <1>1, <2>1 DEF Lifecycle!Make, Lifecycle!Become, Lifecycle!Hold
    <3> QED BY <1>5, <3>1
  <2> QED BY <1>4, <1>6, <2>1 DEF MakeAsioDriver
<1>7. CASE QueryInterface(t)
  <2>1. obj[t] \in Obj /\ UNCHANGED life
    BY <1>2, <1>3, <1>7 DEF QueryInterface
  <2>2. refs[obj[t]] > 0
    BY <2>1, <1>1, <1>7, Holds DEF QueryInterface, Hand, InHand, TypeOK
  <2>3. CASE refs' = [refs EXCEPT ![obj[t]] = @ + 1]
    <3>1. Lifecycle!Share(obj[t])
      BY <1>1, <2>1, <2>2, <2>3 DEF Lifecycle!Share, Lifecycle!Hold
    <3> QED BY <1>5, <2>1, <3>1
  <2> QED BY <1>4, <1>7, <2>1, <2>3 DEF QueryInterface
<1>8. CASE InstanceRelease(t)
  <2>1. obj[t] \in Obj /\ refs[obj[t]] >= 1
    BY <1>8, ReleaseHolds DEF InstanceRelease
  <2>2. UNCHANGED life /\ refs' = [refs EXCEPT ![obj[t]] = @ - 1]
    BY <1>8 DEF InstanceRelease
  <2>3. Lifecycle!GiveUp(obj[t])
    BY <1>1, <2>1, <2>2 DEF Lifecycle!GiveUp, Lifecycle!Hold, TypeOK
  <2> QED BY <1>5, <2>1, <2>3
<1>9. CASE InstanceFree(t)
  <2>1. obj[t] \in Obj /\ refs[obj[t]] = 0 /\ life[obj[t]] \in {"made", "out"}
    BY <1>3, <1>9, AtPlace DEF InstanceFree, IInv, Holding, FreeAtZero
  <2>2. /\ life' = [life EXCEPT ![obj[t]] = IF life[obj[t]] = "made" THEN "failed" ELSE "freed"]
        /\ UNCHANGED refs
    BY <1>9 DEF InstanceFree
  <2>3. Lifecycle!Free(obj[t])
    BY <1>1, <2>1, <2>2 DEF Lifecycle!Free, Lifecycle!Become
  <2> QED BY <1>5, <2>1, <2>3
<1>10. CASE CountInstance(t)
  <2>1. obj[t] # NoObj /\ obj[t] \in Obj /\ life[obj[t]] = "made"
    BY <1>2, <1>3, <1>10 DEF CountInstance, LifeAt
  <2>2. refs[obj[t]] = 1
    BY <1>10, <2>1, MakersRefs DEF CountInstance, InHand
  <2>3. life' = [life EXCEPT ![obj[t]] = "out"] /\ UNCHANGED refs
    BY <1>10 DEF CountInstance
  <2>4. Lifecycle!HandOut(obj[t])
    BY <1>1, <2>1, <2>2, <2>3 DEF Lifecycle!HandOut, Lifecycle!Become
  <2> QED BY <1>5, <2>1, <2>4
<1>11. ASSUME NEW o \in Obj, InstanceAddRef(t, o) PROVE Goal
  <2>1. refs[o] > 0 /\ UNCHANGED life /\ refs' = [refs EXCEPT ![o] = @ + 1]
    BY <1>1, <1>11, Holds DEF InstanceAddRef, TypeOK
  <2>2. Lifecycle!Share(o)
    BY <1>1, <2>1 DEF Lifecycle!Share, Lifecycle!Hold
  <2> QED BY <1>5, <2>2
<1>12. CASE Factory(t) \/ CreateInstance(t)
  BY <1>4, <1>12 DEF Factory, DllGetClassObject, addRef, release, lockServer,
     CreateInstance, instances
<1>13. ASSUME NEW o \in Obj, Drop(t, o) PROVE Goal
  BY <1>4, <1>13 DEF Drop
<1> QED
  BY <1>6, <1>7, <1>8, <1>9, <1>10, <1>11, <1>12, <1>13
  DEF Step, createInstance, Instance

\* An instance is handed out while createInstance holds it, shared by who holds
\* one, and freed once, with no reference left, for any number of threads
\* (cwASIOdriver.c:99-121, cwASIOdriver_skeleton.c:36-49).
THEOREM InstancesLiveHolds == Spec => InstancesLive
<1>1. Init => Lifecycle!Init
  <2> SUFFICES ASSUME Init PROVE Lifecycle!Init
    OBVIOUS
  <2>1. [o \in Obj |-> Held(o)] = refs
    BY Initially, HeldIsRefs
  <2> QED BY <2>1 DEF Init, Lifecycle!Init
<1>2. IInv /\ IInv' /\ [Next]_vars => [Lifecycle!Next]_<<life, [o \in Obj |-> Held(o)]>>
  <2>1. ASSUME IInv, IInv', UNCHANGED <<life, refs>>
        PROVE  UNCHANGED <<life, [o \in Obj |-> Held(o)]>>
    <3>1. [o \in Obj |-> Held(o)] = refs
      BY <2>1, HeldIsRefs
    <3>2. [o \in Obj |-> Held(o)]' = refs'
      BY <2>1 DEF IInv, Holding, TypeOK, RefsExact
    <3> QED BY <2>1, <3>1, <3>2
  <2>2. ASSUME IInv, IInv', NEW t \in Thread, Step(t)
        PROVE  [Lifecycle!Next]_<<life, [o \in Obj |-> Held(o)]>>
    BY <2>2, LifecycleStep
  <2> QED BY <2>1, <2>2 DEF Next, Step, DllCanUnloadNow, instances, vars
<1> QED BY <1>1, <1>2, Invariant, PTL DEF Spec, InstancesLive, Lifecycle!Spec
=============================================================================
