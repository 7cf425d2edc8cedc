------------------------ MODULE DriverLibraryProofs ------------------------
(* Proofs about DriverLibrary, for any finite sets of threads and instances. *)
EXTENDS DriverLibrary, FiniteSetTheorems, TLAPS

\* What can have become of the instance that a thread at some place works on.
LifeAt(label, res) ==
  CASE label = "query"      -> IF res = "none" THEN {"made"} ELSE {}
    [] label = "release"    -> IF res = "none" THEN {"out"} ELSE {"made"}
    [] label = "free"       -> IF res = "none" THEN {"out"}
                               ELSE IF res = "failed" THEN {"made"} ELSE {}
    [] label = "deactivate" -> IF res = "none" THEN {"freed"}
                               ELSE IF res = "failed" THEN {"failed"} ELSE {}
    [] label = "count"      -> IF res = "ok" THEN {"made"} ELSE {}
    [] label = "decrement"  -> IF res = "none" THEN {"freed"} ELSE {}
    [] label = "dlclose"    -> IF res = "none" THEN {"released"} ELSE {}
    [] label = "leave"      -> IF res = "none" THEN {"out", "freed", "released"}
                               ELSE IF res = "failed" THEN {"failed"} ELSE {"out"}
    [] OTHER                -> {}

Places ==
  \A t \in Thread : /\ obj[t] = NoObj => hr[t] = "none"
                    /\ obj[t] # NoObj => life[obj[t]] \in LifeAt(pc[t], hr[t])

\* An instance that is being made, or released, is known to one thread only.
Alone == \A t, u \in Thread :
  /\ obj[t] # NoObj /\ obj[t] = obj[u]
  /\ life[obj[t]] = "made" \/ pc[t] = "decrement"
  => t = u

\* A host gets its references with an instance that has been counted.
HostOut == \A o \in Obj : host[o] > 0 => life[o] = "out"

\* The thread that frees an instance has taken its last reference.
FreeAtZero == \A t \in Thread : pc[t] = "free" =>
                /\ refs[obj[t]] = 0
                /\ \A u \in Thread : pc[u] = "free" /\ obj[u] = obj[t] => u = t

\* An instance nobody has a reference to is being freed.
Dying == \A o \in Obj : life[o] \in {"made", "out"} /\ refs[o] <= 0 =>
           \E t \in Thread : obj[t] = o /\ pc[t] = "free"

\* The threads in cwASIOload before the instance is counted, and those about to
\* call dlclose: each of them has a handle of its own.
Owing(t) == \/ pc[t] \in {"make", "query", "dlclose"}
            \/ hr[t] = "failed"
            \/ hr[t] = "ok" /\ pc[t] # "leave"

Owed == {t \in Thread : Owing(t)}

HandlesSuffice ==
  handles >= Cardinality(Owed) + IF Counted = {} THEN 0 ELSE 1

Holding == Alone /\ HostOut /\ FreeAtZero /\ Dying

IInv == TypeOK /\ Places /\ Holding /\ RefsExact /\ UseCountExact /\ HandlesSuffice

-----------------------------------------------------------------------------
(* Counting references.                                                      *)

Toks(h) == {tk \in Thread \X {1, 2} : tk[2] <= h[tk[1]]}

\* What one thread holds is counted apart from what the others hold.
LEMMA TokenCount ==
  ASSUME NEW h \in [Thread -> 0..2], NEW t \in Thread
  PROVE  LET rest == {tk \in Toks(h) : tk[1] # t}
         IN  /\ IsFiniteSet(rest)
             /\ Cardinality(Toks(h)) = Cardinality(rest) + h[t]
<1> DEFINE rest == {tk \in Toks(h) : tk[1] # t}
<1>1. IsFiniteSet({1, 2})
  <2>1. IsFiniteSet({1} \cup {2})
    BY FS_Singleton, FS_AddElement
  <2>2. {1, 2} = {1} \cup {2}
    OBVIOUS
  <2> QED BY <2>1, <2>2
<1>2. IsFiniteSet(Thread \X {1, 2})
  BY <1>1, FS_Product, DriverLibraryAssumption
<1>3. IsFiniteSet(rest) /\ Cardinality(rest) \in Nat
  <2>1. rest \subseteq Thread \X {1, 2}
    BY DEF Toks
  <2> QED BY <2>1, <1>2, FS_Subset, FS_CardinalityType
<1>4. CASE h[t] = 0
  <2>1. Toks(h) = rest
    BY <1>4 DEF Toks
  <2>2. Cardinality(Toks(h)) = Cardinality(rest)
    BY <2>1
  <2> QED BY <2>2, <1>3, <1>4
<1>5. CASE h[t] = 1
  <2>1. Toks(h) = rest \cup {<<t, 1>>} /\ <<t, 1>> \notin rest
    BY <1>5 DEF Toks
  <2> QED BY <2>1, <1>3, <1>5, FS_AddElement
<1>6. CASE h[t] = 2
  <2>1. Toks(h) = (rest \cup {<<t, 1>>}) \cup {<<t, 2>>} /\ <<t, 1>> \notin rest
    BY <1>6 DEF Toks
  <2>2. <<t, 2>> \notin rest \cup {<<t, 1>>}
    BY DEF Toks
  <2>3. /\ IsFiniteSet(rest \cup {<<t, 1>>})
        /\ Cardinality(rest \cup {<<t, 1>>}) = Cardinality(rest) + 1
    BY <2>1, <1>3, FS_AddElement
  <2>4. Cardinality(Toks(h)) = Cardinality(rest \cup {<<t, 1>>}) + 1
    BY <2>1, <2>2, <2>3, FS_AddElement
  <2> QED BY <2>3, <2>4, <1>3, <1>6
<1> QED BY <1>3, <1>4, <1>5, <1>6

\* When one thread takes or drops references, the total goes with it.
LEMMA TokenMove ==
  ASSUME NEW g \in [Thread -> 0..2], NEW h \in [Thread -> 0..2], NEW t \in Thread,
         \A u \in Thread \ {t} : g[u] = h[u]
  PROVE  /\ Cardinality(Toks(g)) \in Nat /\ Cardinality(Toks(g)) >= g[t]
         /\ Cardinality(Toks(h)) = Cardinality(Toks(g)) + h[t] - g[t]
<1> DEFINE rest(f) == {tk \in Toks(f) : tk[1] # t}
<1>1. rest(g) = rest(h)
  BY DEF Toks
<1>2. Cardinality(rest(g)) \in Nat
  BY TokenCount, FS_CardinalityType
<1>3. /\ Cardinality(Toks(g)) = Cardinality(rest(g)) + g[t]
      /\ Cardinality(Toks(h)) = Cardinality(rest(h)) + h[t]
  BY TokenCount
<1> HIDE DEF rest
<1> QED BY <1>1, <1>2, <1>3

\* How many of the references to o the thread has in its hands.
Hand(t, o) == IF obj[t] = o THEN InHand(t) ELSE 0

\* A step of one thread, seen by the references to o.
LEMMA TokensStep ==
  ASSUME TypeOK, TypeOK', NEW t \in Thread, NEW o \in Obj,
         \A u \in Thread \ {t} : pc'[u] = pc[u] /\ obj'[u] = obj[u] /\ hr'[u] = hr[u]
  PROVE  /\ Cardinality(Tokens(o)) \in Nat
         /\ Cardinality(Tokens(o)) >= Hand(t, o)
         /\ Cardinality(Tokens(o)') = Cardinality(Tokens(o)) + Hand(t, o)' - Hand(t, o)
<1> DEFINE g == [u \in Thread |-> Hand(u, o)]
           h == [u \in Thread |-> Hand(u, o)']
<1>1. g \in [Thread -> 0..2]
  BY DEF TypeOK, Hand, InHand
<1>2. h \in [Thread -> 0..2]
  BY DEF TypeOK, Hand, InHand
<1>3. Tokens(o) = Toks(g)
  BY <1>1 DEF Tokens, Toks, Hand
<1>4. Tokens(o)' = Toks(h)
  BY <1>2 DEF Tokens, Toks, Hand
<1>5. \A u \in Thread \ {t} : g[u] = h[u]
  BY DEF Hand, InHand
<1>6. g[t] = Hand(t, o) /\ h[t] = Hand(t, o)'
  OBVIOUS
<1> HIDE DEF g, h
<1> QED BY <1>1, <1>2, <1>3, <1>4, <1>5, <1>6, TokenMove

-----------------------------------------------------------------------------
(* The invariant, one part after the other.                                  *)

\* The invariant holds at first.
LEMMA Initially == Init => IInv
<1> SUFFICES ASSUME Init PROVE IInv
  OBVIOUS
<1> USE DriverLibraryAssumption
<1>1. TypeOK
  BY DEF Init, TypeOK, PCs, Lives
<1>2. Places /\ Holding
  BY DEF Init, Places, Holding, Alone, HostOut, FreeAtZero, Dying
<1>3. RefsExact
  <2> SUFFICES ASSUME NEW o \in Obj PROVE refs[o] = host[o] + Cardinality(Tokens(o))
    BY DEF RefsExact
  <2>1. Tokens(o) = {}
    BY DEF Init, Tokens
  <2> QED BY <2>1, FS_EmptySet DEF Init
<1>4. Counted = {}
  BY DEF Init, Counted
<1>5. UseCountExact
  BY <1>4, FS_EmptySet DEF Init, UseCountExact
<1>6. Owed = {}
  BY DEF Init, Owed, Owing
<1>7. HandlesSuffice
  BY <1>4, <1>6, FS_EmptySet DEF Init, HandlesSuffice
<1> QED BY <1>1, <1>2, <1>3, <1>5, <1>7 DEF IInv

\* A handle is open when somebody needs the library.
LEMMA Finite ==
  ASSUME TypeOK
  PROVE  /\ IsFiniteSet(Owed) /\ Cardinality(Owed) \in Nat
         /\ IsFiniteSet(Counted) /\ Cardinality(Counted) \in Nat
<1>1. Owed \subseteq Thread /\ Counted \subseteq Obj
  BY DEF Owed, Counted
<1> QED BY <1>1, FS_Subset, FS_CardinalityType, DriverLibraryAssumption

LEMMA Needed ==
  ASSUME IInv
  PROVE  /\ Counted # {} => handles > 0
         /\ Owed # {} => handles > 0
<1>1. Cardinality(Owed) \in Nat /\ (Owed # {} => Cardinality(Owed) > 0)
  BY Finite, FS_EmptySet DEF IInv
<1> QED BY <1>1 DEF IInv, HandlesSuffice, TypeOK

\* Every step is one thread's, and leaves the others where they are.
Step(t) == Load(t) \/ Drop(t) \/ HostCall(t) \/ Close(t)

LEMMA Others ==
  ASSUME TypeOK, NEW t \in Thread, Step(t)
  PROVE  \A u \in Thread \ {t} : pc'[u] = pc[u] /\ obj'[u] = obj[u] /\ hr'[u] = hr[u]
BY DEF TypeOK, Step, Load, Drop, HostCall, Close, Dlopen, MakeAsioDriver,
       QueryInterface, Count, Leave, Release, Free, Deactivate, AddRef, Unload,
       ReleaseDriver, Decrement, Dlclose, Goto, Return, AfterRelease

LEMMA TypeStep ==
  ASSUME IInv, NEW t \in Thread, Step(t)
  PROVE  TypeOK'
<1> USE DriverLibraryAssumption DEF TypeOK, PCs, Lives, Goto, Return, AfterRelease, IInv
<1>1. CASE Dlopen(t)
  BY <1>1 DEF Dlopen, statics
<1>2. CASE MakeAsioDriver(t)
  BY <1>2 DEF MakeAsioDriver, statics
<1>3. CASE QueryInterface(t)
  BY <1>3 DEF QueryInterface, statics
<1>4. CASE Count(t)
  BY <1>4 DEF Count
<1>5. CASE Leave(t)
  BY <1>5 DEF Leave, statics
<1>6. CASE Release(t)
  BY <1>6 DEF Release, statics
<1>7. CASE Free(t)
  BY <1>7 DEF Free, statics
<1>8. CASE Deactivate(t)
  BY <1>8 DEF Deactivate
<1>9. ASSUME NEW o \in Obj, AddRef(t, o) PROVE TypeOK'
  BY <1>9 DEF AddRef, statics
<1>10. ASSUME NEW o \in Obj, Unload(t, o) PROVE TypeOK'
  BY <1>10 DEF Unload, statics
<1>11. ASSUME NEW o \in Obj, ReleaseDriver(t, o) PROVE TypeOK'
  BY <1>11 DEF ReleaseDriver, statics
<1>12. CASE Decrement(t)
  BY <1>12 DEF Decrement
<1>13. CASE Dlclose(t)
  <2>1. t \in Owed
    BY <1>13 DEF Dlclose, Owed, Owing
  <2>2. handles > 0
    BY <2>1, Needed
  <2> QED BY <1>13, <2>2 DEF Dlclose, statics
<1> QED
  BY <1>1, <1>2, <1>3, <1>4, <1>5, <1>6, <1>7, <1>8, <1>9, <1>10, <1>11, <1>12, <1>13
  DEF Step, Load, Drop, HostCall, Close

-----------------------------------------------------------------------------
(* References and places.                                                    *)

\* Nobody holds more references than there are.
LEMMA Holds ==
  ASSUME IInv, NEW o \in Obj, NEW t \in Thread
  PROVE  refs[o] >= host[o] + Hand(t, o) /\ host[o] \in Nat /\ Hand(t, o) \in 0..2
<1> DEFINE g == [u \in Thread |-> Hand(u, o)]
<1>1. g \in [Thread -> 0..2]
  BY DEF IInv, TypeOK, Hand, InHand
<1>2. Tokens(o) = Toks(g)
  BY <1>1 DEF Tokens, Toks, Hand
<1>3. g[t] = Hand(t, o)
  OBVIOUS
<1> HIDE DEF g
<1>4. Cardinality(Tokens(o)) \in Nat /\ Cardinality(Tokens(o)) >= Hand(t, o)
  BY <1>1, <1>2, <1>3, TokenMove
<1> QED BY <1>4, <1>1, <1>3 DEF IInv, TypeOK, RefsExact

\* The references to an instance that is being made are its maker's.
LEMMA MakersRefs ==
  ASSUME IInv, NEW t \in Thread, obj[t] # NoObj, life[obj[t]] = "made"
  PROVE  refs[obj[t]] = InHand(t) /\ host[obj[t]] = 0
<1> DEFINE o == obj[t]
           g == [u \in Thread |-> Hand(u, o)]
           z == [u \in Thread |-> 0]
<1>0. o \in Obj
  BY DEF IInv, TypeOK
<1>1. g \in [Thread -> 0..2] /\ z \in [Thread -> 0..2]
  BY DEF IInv, TypeOK, Hand, InHand
<1>2. Tokens(o) = Toks(g)
  BY <1>1 DEF Tokens, Toks, Hand
<1>3. \A u \in Thread \ {t} : z[u] = g[u]
  BY DEF IInv, Holding, Alone, Hand
<1>4. Toks(z) = {}
  BY DEF Toks
<1>5. z[t] = 0 /\ g[t] = InHand(t)
  BY DEF Hand
<1>6. Cardinality(Toks(z)) = 0
  BY <1>4, FS_EmptySet
<1>7. Cardinality(Toks(g)) = Cardinality(Toks(z)) + g[t] - z[t]
  <2> HIDE DEF g, z
  <2> QED BY <1>1, <1>3, TokenMove
<1>8. Cardinality(Tokens(o)) = InHand(t) /\ InHand(t) \in 0..2
  <2> HIDE DEF g, z
  <2> QED BY <1>1, <1>2, <1>5, <1>6, <1>7
<1>9. host[o] = 0
  BY <1>0 DEF IInv, TypeOK, Holding, HostOut
<1> HIDE DEF o
<1>10. refs[o] = InHand(t)
  BY <1>0, <1>8, <1>9 DEF IInv, TypeOK, RefsExact
<1> QED BY <1>9, <1>10 DEF o

\* A thread that is about to give up a reference has it.
LEMMA ReleaseHolds ==
  ASSUME IInv, NEW t \in Thread, pc[t] = "release"
  PROVE  /\ obj[t] \in Obj /\ refs[obj[t]] >= 1
         /\ hr[t] # "none" => refs[obj[t]] = IF hr[t] = "ok" THEN 2 ELSE 1
<1>1. obj[t] \in Obj
  BY DEF IInv, TypeOK
<1>2. life[obj[t]] \in LifeAt("release", hr[t]) /\ hr[t] \in {"none", "ok", "failed"}
  BY <1>1, DriverLibraryAssumption DEF IInv, TypeOK, Places
<1>3. Hand(t, obj[t]) = IF hr[t] = "ok" THEN 2 ELSE 1
  BY DEF Hand, InHand
<1>4. refs[obj[t]] >= 1
  BY <1>1, <1>3, Holds DEF IInv, TypeOK
<1>5. ASSUME hr[t] # "none" PROVE refs[obj[t]] = IF hr[t] = "ok" THEN 2 ELSE 1
  <2>1. life[obj[t]] = "made"
    BY <1>2, <1>5 DEF LifeAt
  <2> QED BY <2>1, <1>1, MakersRefs, DriverLibraryAssumption DEF InHand
<1> QED BY <1>1, <1>4, <1>5

\* When an instance is freed, the others that have worked on it are on their way
\* back to the host.
LEMMA FreedUnheld ==
  ASSUME IInv, NEW t \in Thread, pc[t] = "free",
         NEW u \in Thread, u # t, obj[u] = obj[t]
  PROVE  pc[u] = "leave" /\ hr[u] = "none" /\ life[obj[t]] = "out"
<1>1. obj[t] \in Obj /\ refs[obj[t]] = 0
  BY DEF IInv, TypeOK, Holding, FreeAtZero
<1>2. Hand(u, obj[t]) = 0
  BY <1>1, Holds
<1>3. InHand(u) = 0
  BY <1>2 DEF Hand
<1>4. life[obj[t]] = "out"
  BY <1>1, DriverLibraryAssumption DEF IInv, Places, Holding, Alone, LifeAt
<1>5. life[obj[u]] \in LifeAt(pc[u], hr[u]) /\ pc[u] # "free"
  BY <1>1, DriverLibraryAssumption DEF IInv, Places, Holding, FreeAtZero
<1> QED BY <1>3, <1>4, <1>5 DEF LifeAt, InHand, IInv, TypeOK, PCs

LEMMA PlacesStep ==
  ASSUME IInv, NEW t \in Thread, Step(t)
  PROVE  Places'
<1> SUFFICES ASSUME NEW u \in Thread
             PROVE  /\ obj'[u] = NoObj => hr'[u] = "none"
                    /\ obj'[u] # NoObj => life'[obj'[u]] \in LifeAt(pc'[u], hr'[u])
  BY DEF Places
<1> USE DriverLibraryAssumption DEF Goto, Return
<1>1. /\ TypeOK /\ Places /\ Alone /\ HostOut
      /\ obj[u] # NoObj => obj[u] \in Obj
      /\ obj[t] # NoObj => obj[t] \in Obj
      /\ obj[t] = NoObj <=> pc[t] \in {"idle", "make"}
      /\ obj[u] = NoObj <=> pc[u] \in {"idle", "make"}
  BY DEF IInv, TypeOK, Holding
<1>2. CASE u # t
  <2>1. pc'[u] = pc[u] /\ obj'[u] = obj[u] /\ hr'[u] = hr[u]
    BY <1>1, <1>2, Others
  <2>2. SUFFICES ASSUME obj[u] # NoObj PROVE life'[obj[u]] \in LifeAt(pc[u], hr[u])
    BY <1>1, <2>1 DEF Places
  <2>3. life[obj[u]] \in LifeAt(pc[u], hr[u]) /\ life[obj[u]] # "unborn"
    BY <1>1, <2>2 DEF Places, LifeAt, TypeOK, PCs
  <2>4. CASE MakeAsioDriver(t)
    BY <1>1, <2>2, <2>3, <2>4 DEF MakeAsioDriver, TypeOK
  <2>5. CASE Free(t)
    <3>1. CASE obj[u] = obj[t]
      <4>1. pc[u] = "leave" /\ hr[u] = "none" /\ life[obj[t]] = "out"
        BY <1>2, <2>5, <3>1, FreedUnheld DEF Free
      <4>2. life'[obj[t]] = "freed"
        BY <1>1, <2>2, <2>5, <3>1, <4>1 DEF Free, TypeOK
      <4> QED BY <3>1, <4>1, <4>2 DEF LifeAt
    <3>2. CASE obj[u] # obj[t]
      BY <1>1, <2>2, <2>3, <2>5, <3>2 DEF Free, TypeOK
    <3> QED BY <3>1, <3>2
  <2>6. CASE Count(t)
    <3>1. pc[t] = "count" /\ obj[t] \in Obj /\ life[obj[t]] = "made"
      BY <1>1, <2>6 DEF Count, Places, LifeAt
    <3>2. obj[u] # obj[t]
      BY <1>1, <1>2, <3>1 DEF Alone
    <3> QED BY <1>1, <2>2, <2>3, <2>6, <3>2 DEF Count, TypeOK
  <2>7. CASE Decrement(t)
    <3>1. obj[u] # obj[t]
      BY <1>1, <1>2, <2>2, <2>7 DEF Decrement, Alone
    <3> QED BY <1>1, <2>2, <2>3, <2>7, <3>1 DEF Decrement, TypeOK
  <2>8. CASE UNCHANGED life
    BY <2>3, <2>8
  <2> QED
    BY <2>4, <2>5, <2>6, <2>7, <2>8 DEF Step, Load, Drop, HostCall, Close, Dlopen,
       QueryInterface, Leave, Release, Deactivate, AddRef, Unload, ReleaseDriver, Dlclose
<1>3. CASE u = t
  <2> USE <1>1, <1>3 DEF TypeOK, LifeAt, Places, AfterRelease
  <2>1. CASE Dlopen(t)
    BY <2>1 DEF Dlopen
  <2>2. CASE MakeAsioDriver(t)
    BY <2>2 DEF MakeAsioDriver
  <2>3. CASE QueryInterface(t)
    BY <2>3 DEF QueryInterface
  <2>4. CASE Count(t)
    BY <2>4 DEF Count
  <2>5. CASE Leave(t)
    BY <2>5 DEF Leave
  <2>6. CASE Release(t)
    <3>1. hr[t] # "none" => refs[obj[t]] = IF hr[t] = "ok" THEN 2 ELSE 1
      BY <2>6, ReleaseHolds DEF Release
    <3> QED BY <2>6, <3>1 DEF Release
  <2>7. CASE Free(t)
    BY <2>7 DEF Free
  <2>8. CASE Deactivate(t)
    BY <2>8 DEF Deactivate
  <2>9. ASSUME NEW o \in Obj, AddRef(t, o) \/ Unload(t, o) \/ ReleaseDriver(t, o)
        PROVE  /\ obj'[u] = NoObj => hr'[u] = "none"
               /\ obj'[u] # NoObj => life'[obj'[u]] \in LifeAt(pc'[u], hr'[u])
    BY <2>9 DEF AddRef, Unload, ReleaseDriver, HostOut
  <2>10. CASE Decrement(t)
    BY <2>10 DEF Decrement
  <2>11. CASE Dlclose(t)
    BY <2>11 DEF Dlclose
  <2> QED
    BY <2>1, <2>2, <2>3, <2>4, <2>5, <2>6, <2>7, <2>8, <2>9, <2>10, <2>11
    DEF Step, Load, Drop, HostCall, Close
<1> QED BY <1>2, <1>3

-----------------------------------------------------------------------------
(* Who works on what.                                                        *)

\* What the places say of the instance a thread works on.
LEMMA AtPlace ==
  ASSUME IInv, NEW t \in Thread, obj[t] # NoObj
  PROVE  /\ obj[t] \in Obj /\ hr[t] \in {"none", "ok", "failed"}
         /\ pc[t] \notin {"idle", "make"}
         /\ life[obj[t]] \in LifeAt(pc[t], hr[t]) /\ life[obj[t]] # "unborn"
<1>1. obj[t] \in Obj /\ hr[t] \in {"none", "ok", "failed"} /\ pc[t] \notin {"idle", "make"}
  BY DEF IInv, TypeOK
<1>2. life[obj[t]] \in LifeAt(pc[t], hr[t])
  BY DEF IInv, Places
<1> QED BY <1>1, <1>2 DEF LifeAt, IInv, TypeOK, PCs

LEMMA AloneStep ==
  ASSUME IInv, NEW t \in Thread, Step(t)
  PROVE  Alone'
<1> SUFFICES ASSUME NEW a \in Thread, NEW b \in Thread, a # b,
                    obj'[a] # NoObj, obj'[a] = obj'[b],
                    life'[obj'[a]] = "made" \/ pc'[a] = "decrement"
             PROVE  FALSE
  BY DEF Alone
<1> USE DriverLibraryAssumption DEF Goto, Return
<1>1. /\ TypeOK /\ Alone /\ HostOut
      /\ \A u \in Thread : obj[u] = NoObj <=> pc[u] \in {"idle", "make"}
      /\ \A u \in Thread : obj[u] # NoObj => obj[u] \in Obj /\ life[obj[u]] # "unborn"
  BY AtPlace DEF IInv, TypeOK, Holding
<1>2. \A u \in Thread \ {t} : pc'[u] = pc[u] /\ obj'[u] = obj[u] /\ hr'[u] = hr[u]
  BY <1>1, Others
<1>3. CASE MakeAsioDriver(t)
  BY <1>1, <1>2, <1>3 DEF MakeAsioDriver, TypeOK, Alone
<1>4. ASSUME NEW o \in Obj, Unload(t, o) PROVE FALSE
  <2>1. life[o] = "out"
    BY <1>1, <1>4 DEF Unload, HostOut
  <2>2. \A u \in Thread : pc[u] = "decrement" => life[obj[u]] = "freed"
    BY <1>1, AtPlace DEF LifeAt
  <2> QED BY <1>1, <1>2, <1>4, <2>1, <2>2 DEF Unload, TypeOK, Alone
<1>5. ASSUME NEW o \in Obj, ReleaseDriver(t, o) PROVE FALSE
  BY <1>1, <1>2, <1>5 DEF ReleaseDriver, TypeOK, Alone
<1>6. CASE Release(t) \/ Deactivate(t)
  BY <1>1, <1>2, <1>6 DEF Release, Deactivate, AfterRelease, TypeOK, Alone
<1>7. CASE Dlopen(t) \/ QueryInterface(t) \/ Leave(t) \/ Dlclose(t)
  BY <1>1, <1>2, <1>7 DEF Dlopen, QueryInterface, Leave, Dlclose, TypeOK, Alone
<1>8. CASE Free(t) \/ Count(t) \/ Decrement(t)
  BY <1>1, <1>2, <1>8 DEF Free, Count, Decrement, TypeOK, Alone
<1>9. ASSUME NEW o \in Obj, AddRef(t, o) PROVE FALSE
  BY <1>1, <1>2, <1>9 DEF AddRef, TypeOK, Alone
<1> QED BY <1>3, <1>4, <1>5, <1>6, <1>7, <1>8, <1>9 DEF Step, Load, Drop, HostCall, Close

LEMMA HostOutStep ==
  ASSUME IInv, NEW t \in Thread, Step(t)
  PROVE  HostOut'
<1> SUFFICES ASSUME NEW o \in Obj, host'[o] > 0 PROVE life'[o] = "out"
  BY DEF HostOut
<1> USE DriverLibraryAssumption DEF TypeOK
<1>1. TypeOK /\ HostOut
  BY DEF IInv, Holding
<1>2. CASE Leave(t)
  <2>1. hr[t] = "ok" => life[obj[t]] = "out"
    BY <1>2, AtPlace, <1>1 DEF Leave, LifeAt
  <2> QED BY <1>1, <1>2, <2>1 DEF Leave, HostOut
<1>3. CASE Free(t)
  <2>1. obj[t] \in Obj /\ refs[obj[t]] = 0
    BY <1>1, <1>3 DEF Free, IInv, Holding, FreeAtZero
  <2>2. host[obj[t]] = 0
    BY <2>1, <1>1, Holds
  <2>3. o # obj[t]
    BY <1>3, <2>1, <2>2 DEF Free
  <2> QED BY <1>1, <1>3, <2>3 DEF Free, HostOut
<1>4. CASE Decrement(t)
  <2>1. obj[t] \in Obj /\ life[obj[t]] = "freed"
    BY <1>1, <1>4, AtPlace DEF Decrement, LifeAt
  <2> QED BY <1>1, <1>4, <2>1 DEF Decrement, HostOut
<1>5. CASE MakeAsioDriver(t)
  BY <1>1, <1>5 DEF MakeAsioDriver, HostOut
<1>6. CASE Count(t)
  BY <1>1, <1>6 DEF Count, HostOut
<1>7. ASSUME NEW p \in Obj, AddRef(t, p) \/ Unload(t, p) PROVE life'[o] = "out"
  BY <1>1, <1>7 DEF AddRef, Unload, HostOut
<1>8. CASE UNCHANGED <<life, host>>
  BY <1>1, <1>8 DEF HostOut
<1> QED
  BY <1>2, <1>3, <1>4, <1>5, <1>6, <1>7, <1>8 DEF Step, Load, Drop, HostCall, Close,
     Dlopen, QueryInterface, Release, Deactivate, ReleaseDriver, Dlclose

LEMMA FreeAtZeroStep ==
  ASSUME IInv, NEW t \in Thread, Step(t)
  PROVE  FreeAtZero'
<1> USE DriverLibraryAssumption DEF Goto, Return
<1>1. /\ TypeOK /\ FreeAtZero
      /\ \A u \in Thread : pc[u] = "free" => obj[u] \in Obj
  BY DEF IInv, TypeOK, Holding
<1>2. \A u \in Thread \ {t} : pc'[u] = pc[u] /\ obj'[u] = obj[u] /\ hr'[u] = hr[u]
  BY <1>1, Others
<1>3. \A u \in Thread : pc[u] = "free" => host[obj[u]] = 0
  <2> SUFFICES ASSUME NEW u \in Thread, pc[u] = "free" PROVE host[obj[u]] = 0
    OBVIOUS
  <2> QED BY <1>1, Holds DEF FreeAtZero
<1>4. CASE Release(t)
  <2>1. obj[t] \in Obj /\ refs[obj[t]] >= 1
    BY <1>4, ReleaseHolds DEF Release
  <2>2. \A u \in Thread : pc[u] = "free" => obj[u] # obj[t]
    BY <1>1, <2>1 DEF FreeAtZero
  <2> QED
    BY <1>1, <1>2, <1>4, <2>1, <2>2 DEF Release, AfterRelease, FreeAtZero, TypeOK
<1>5. CASE MakeAsioDriver(t)
  <2>1. \A u \in Thread : pc[u] = "free" => life[obj[u]] # "unborn"
    BY <1>1, AtPlace
  <2> QED BY <1>1, <1>2, <1>5, <2>1 DEF MakeAsioDriver, FreeAtZero, TypeOK
<1>6. CASE QueryInterface(t)
  <2>1. obj[t] \in Obj /\ Hand(t, obj[t]) = 1
    BY <1>1, <1>6 DEF QueryInterface, Hand, InHand, TypeOK
  <2>2. refs[obj[t]] >= 1
    BY <2>1, <1>1, Holds DEF TypeOK
  <2>3. \A u \in Thread : pc[u] = "free" => obj[u] # obj[t]
    BY <1>1, <2>2 DEF FreeAtZero
  <2> QED BY <1>1, <1>2, <1>6, <2>1, <2>3 DEF QueryInterface, FreeAtZero, TypeOK
<1>7. ASSUME NEW o \in Obj, AddRef(t, o) PROVE FreeAtZero'
  BY <1>1, <1>3, <1>7 DEF AddRef, FreeAtZero, TypeOK
<1>8. CASE Free(t) \/ Deactivate(t)
  BY <1>1, <1>2, <1>8 DEF Free, Deactivate, AfterRelease, FreeAtZero, TypeOK
<1>9. CASE Dlopen(t) \/ Count(t) \/ Leave(t) \/ Decrement(t) \/ Dlclose(t)
  BY <1>1, <1>2, <1>9 DEF Dlopen, Count, Leave, Decrement, Dlclose, FreeAtZero, TypeOK
<1>10. ASSUME NEW o \in Obj, Unload(t, o) \/ ReleaseDriver(t, o) PROVE FreeAtZero'
  BY <1>1, <1>2, <1>10 DEF Unload, ReleaseDriver, FreeAtZero, TypeOK
<1> QED
  BY <1>4, <1>5, <1>6, <1>7, <1>8, <1>9, <1>10 DEF Step, Load, Drop, HostCall, Close

LEMMA DyingStep ==
  ASSUME IInv, NEW t \in Thread, Step(t)
  PROVE  Dying'
<1> SUFFICES ASSUME NEW o \in Obj, life'[o] \in {"made", "out"}, refs'[o] <= 0
             PROVE  \E u \in Thread : obj'[u] = o /\ pc'[u] = "free"
  BY DEF Dying
<1> USE DriverLibraryAssumption DEF Goto, Return
<1>1. TypeOK /\ Dying /\ \A u \in Thread : obj[u] = NoObj <=> pc[u] \in {"idle", "make"}
  BY DEF IInv, TypeOK, Holding
<1>2. \A u \in Thread \ {t} : pc'[u] = pc[u] /\ obj'[u] = obj[u] /\ hr'[u] = hr[u]
  BY <1>1, Others
<1>3. ASSUME life[o] \in {"made", "out"}, refs[o] <= 0,
             pc[t] # "free" \/ obj[t] # o
      PROVE  \E u \in Thread : obj'[u] = o /\ pc'[u] = "free"
  BY <1>1, <1>2, <1>3 DEF Dying
<1>4. CASE Release(t)
  <2>1. CASE o # obj[t]
    BY <1>1, <1>3, <1>4, <2>1 DEF Release, TypeOK
  <2>2. CASE o = obj[t]
    <3>1. refs[o] = 1
      BY <1>1, <1>4, <2>2, ReleaseHolds DEF Release, TypeOK
    <3> QED BY <1>1, <1>4, <2>2, <3>1 DEF Release, TypeOK
  <2> QED BY <2>1, <2>2
<1>5. CASE MakeAsioDriver(t)
  BY <1>1, <1>3, <1>5 DEF MakeAsioDriver, TypeOK
<1>6. CASE QueryInterface(t)
  BY <1>1, <1>3, <1>6 DEF QueryInterface, TypeOK
<1>7. ASSUME NEW p \in Obj, AddRef(t, p) PROVE \E u \in Thread : obj'[u] = o /\ pc'[u] = "free"
  BY <1>1, <1>3, <1>7 DEF AddRef, TypeOK
<1>8. CASE Free(t)
  <2>1. o # obj[t]
    BY <1>1, <1>8 DEF Free, TypeOK
  <2> QED BY <1>1, <1>3, <1>8, <2>1 DEF Free, TypeOK
<1>9. CASE Count(t)
  <2>1. obj[t] \in Obj /\ life[obj[t]] = "made"
    BY <1>1, <1>9, AtPlace DEF Count, LifeAt, TypeOK
  <2> QED BY <1>1, <1>3, <1>9, <2>1 DEF Count, TypeOK
<1>10. CASE Decrement(t)
  BY <1>1, <1>3, <1>10 DEF Decrement, TypeOK
<1>11. CASE Dlopen(t) \/ Leave(t) \/ Deactivate(t) \/ Dlclose(t)
  BY <1>3, <1>11 DEF Dlopen, Leave, Deactivate, Dlclose
<1>12. ASSUME NEW p \in Obj, Unload(t, p) \/ ReleaseDriver(t, p)
       PROVE  \E u \in Thread : obj'[u] = o /\ pc'[u] = "free"
  BY <1>3, <1>12 DEF Unload, ReleaseDriver
<1> QED
  BY <1>4, <1>5, <1>6, <1>7, <1>8, <1>9, <1>10, <1>11, <1>12
  DEF Step, Load, Drop, HostCall, Close

-----------------------------------------------------------------------------
(* The two counters, and the handles.                                        *)

LEMMA RefsStep ==
  ASSUME IInv, TypeOK', NEW t \in Thread, Step(t)
  PROVE  RefsExact'
<1> SUFFICES ASSUME NEW o \in Obj
             PROVE  refs'[o] = host'[o] + Cardinality(Tokens(o)')
  BY DEF RefsExact
<1> USE DriverLibraryAssumption DEF Goto, Return
<1>1. TypeOK /\ refs[o] = host[o] + Cardinality(Tokens(o))
  BY DEF IInv, RefsExact
<1>2. /\ Cardinality(Tokens(o)) \in Nat
      /\ Cardinality(Tokens(o)') = Cardinality(Tokens(o)) + Hand(t, o)' - Hand(t, o)
  BY <1>1, Others, TokensStep
<1>3. SUFFICES /\ refs'[o] - host'[o] = refs[o] - host[o] + Hand(t, o)' - Hand(t, o)
               /\ Hand(t, o) \in Int /\ Hand(t, o)' \in Int
  BY <1>1, <1>2 DEF TypeOK
<1>4. Hand(t, o) \in Int /\ Hand(t, o)' \in Int
  BY <1>1 DEF Hand, InHand
<1>5. obj[t] # NoObj => /\ obj[t] \in Obj /\ hr[t] \in {"none", "ok", "failed"}
                        /\ life[obj[t]] \in LifeAt(pc[t], hr[t])
                        /\ life[obj[t]] # "unborn"
  BY AtPlace
<1> DEFINE Goal == refs'[o] - host'[o] = refs[o] - host[o] + Hand(t, o)' - Hand(t, o)
<1> USE <1>1 DEF TypeOK, Hand, InHand
<1>6. CASE Dlopen(t)
  BY <1>6 DEF Dlopen
<1>7. CASE MakeAsioDriver(t)
  <2>1. ASSUME life[o] = "unborn" PROVE refs[o] = 0 /\ host[o] = 0
    <3>1. \A u \in Thread : obj[u] # o
      BY <2>1, AtPlace
    <3>2. Tokens(o) = {}
      BY <3>1 DEF Tokens
    <3>3. host[o] = 0
      BY <2>1 DEF IInv, Holding, HostOut
    <3> QED BY <3>2, <3>3, FS_EmptySet
  <2> QED BY <1>7, <2>1 DEF MakeAsioDriver
<1>8. CASE QueryInterface(t)
  BY <1>5, <1>8 DEF QueryInterface
<1>9. CASE Count(t)
  BY <1>5, <1>9 DEF Count, LifeAt
<1>10. CASE Leave(t)
  BY <1>5, <1>10 DEF Leave
<1>11. CASE Release(t)
  <2>1. hr[t] # "none" => refs[obj[t]] = IF hr[t] = "ok" THEN 2 ELSE 1
    BY <1>11, ReleaseHolds DEF Release
  <2> QED BY <1>5, <1>11, <2>1 DEF Release, AfterRelease
<1>12. CASE Free(t)
  BY <1>5, <1>12 DEF Free
<1>13. CASE Deactivate(t)
  BY <1>5, <1>13 DEF Deactivate, AfterRelease, LifeAt
<1>14. ASSUME NEW p \in Obj, AddRef(t, p) PROVE Goal
  BY <1>14 DEF AddRef
<1>15. ASSUME NEW p \in Obj, Unload(t, p) PROVE Goal
  <2>1. hr[t] = "none"
    BY <1>15 DEF Unload, IInv, Places
  <2> QED BY <1>15, <2>1 DEF Unload
<1>16. ASSUME NEW p \in Obj, ReleaseDriver(t, p) PROVE Goal
  BY <1>16 DEF ReleaseDriver
<1>17. CASE Decrement(t)
  BY <1>5, <1>17 DEF Decrement, LifeAt
<1>18. CASE Dlclose(t)
  BY <1>5, <1>18 DEF Dlclose, LifeAt
<1> QED
  BY <1>4, <1>6, <1>7, <1>8, <1>9, <1>10, <1>11, <1>12, <1>13, <1>14, <1>15, <1>16,
     <1>17, <1>18 DEF Step, Load, Drop, HostCall, Close

\* Instances are counted and given up one at a time.
LEMMA CountedStep ==
  ASSUME IInv, NEW t \in Thread, Step(t)
  PROVE  \/ /\ pc[t] = "count" /\ Counted' = Counted \cup {obj[t]}
            /\ obj[t] \notin Counted /\ Count(t)
         \/ /\ pc[t] = "decrement" /\ Counted' = Counted \ {obj[t]}
            /\ obj[t] \in Counted /\ Decrement(t)
         \/ Counted' = Counted /\ ~Count(t) /\ ~Decrement(t)
<1> USE DriverLibraryAssumption DEF Goto, Return
<1>1. /\ TypeOK
      /\ obj[t] # NoObj => /\ obj[t] \in Obj
                           /\ life[obj[t]] \in LifeAt(pc[t], hr[t])
  BY AtPlace DEF IInv
<1> USE <1>1 DEF TypeOK, LifeAt, Counted
<1>2. CASE Count(t)
  BY <1>2 DEF Count
<1>3. CASE Decrement(t)
  BY <1>3 DEF Decrement
<1>4. CASE Free(t)
  BY <1>4 DEF Free, Count, Decrement
<1>5. CASE MakeAsioDriver(t)
  BY <1>5 DEF MakeAsioDriver, Count, Decrement
<1>6. CASE UNCHANGED life /\ ~Count(t) /\ ~Decrement(t)
  BY <1>6
<1> QED
  BY <1>2, <1>3, <1>4, <1>5, <1>6 DEF Step, Load, Drop, HostCall, Close, Dlopen,
     QueryInterface, Leave, Release, Deactivate, AddRef, Unload, ReleaseDriver, Dlclose,
     Count, Decrement

LEMMA UseCountStep ==
  ASSUME IInv, NEW t \in Thread, Step(t)
  PROVE  UseCountExact'
<1>1. libUseCount = Cardinality(Counted) /\ IsFiniteSet(Counted) /\ libUseCount \in Nat
  BY Finite DEF IInv, UseCountExact
<1>2. CASE Count(t)
  <2>1. Cardinality(Counted') = Cardinality(Counted) + 1
    BY <1>1, <1>2, CountedStep, FS_AddElement DEF Count, Decrement
  <2> QED BY <1>1, <1>2, <2>1 DEF Count, UseCountExact
<1>3. CASE Decrement(t)
  <2>1. Cardinality(Counted') = Cardinality(Counted) - 1
    BY <1>1, <1>3, CountedStep, FS_RemoveElement DEF Count, Decrement
  <2> QED BY <1>1, <1>3, <2>1 DEF Decrement, UseCountExact
<1>4. CASE Dlopen(t)
  <2>1. Counted' = Counted
    BY <1>4, CountedStep DEF Dlopen, Count, Decrement
  <2>2. handles = 0 => Counted = {}
    BY Needed DEF IInv, TypeOK
  <2> QED BY <1>1, <1>4, <2>1, <2>2, FS_EmptySet DEF Dlopen, UseCountExact, statics
<1>5. CASE UNCHANGED libUseCount /\ ~Count(t) /\ ~Decrement(t)
  BY <1>1, <1>5, CountedStep DEF UseCountExact
<1> QED
  BY <1>2, <1>3, <1>4, <1>5 DEF Step, Load, Drop, HostCall, Close, MakeAsioDriver,
     QueryInterface, Leave, Release, Free, Deactivate, AddRef, Unload, ReleaseDriver,
     Dlclose, statics, Count, Decrement

\* A thread comes to owe a handle with dlopen, or by taking the use count to zero.
LEMMA OwedStep ==
  ASSUME IInv, NEW t \in Thread, Step(t)
  PROVE  \/ Dlopen(t) /\ t \notin Owed /\ Owed' = Owed \cup {t}
         \/ Decrement(t) /\ libUseCount = 1 /\ t \notin Owed /\ Owed' = Owed \cup {t}
         \/ (Count(t) \/ Dlclose(t)) /\ t \in Owed /\ Owed' = Owed \ {t}
         \/ ~Dlopen(t) /\ ~Count(t) /\ ~Dlclose(t) /\ Owed' \subseteq Owed
            /\ (Decrement(t) => libUseCount # 1)
<1> USE DriverLibraryAssumption DEF Goto, Return
<1>1. /\ TypeOK
      /\ obj[t] = NoObj => hr[t] = "none"
      /\ obj[t] # NoObj => life[obj[t]] \in LifeAt(pc[t], hr[t])
  BY AtPlace DEF IInv, Places
<1>2. \A u \in Thread \ {t} : pc'[u] = pc[u] /\ obj'[u] = obj[u] /\ hr'[u] = hr[u]
  BY <1>1, Others
<1>3. /\ \A u \in Thread \ {t} : u \in Owed' <=> u \in Owed
      /\ t \in Owed <=> Owing(t)
      /\ t \in Owed' <=> Owing(t)'
      /\ Owed \subseteq Thread /\ Owed' \subseteq Thread
  BY <1>2 DEF Owed, Owing
<1> USE <1>1, <1>3 DEF TypeOK, LifeAt, Owing
<1>4. CASE Dlopen(t)
  BY <1>4 DEF Dlopen
<1>5. CASE MakeAsioDriver(t)
  BY <1>5 DEF MakeAsioDriver, Dlopen, Count, Dlclose, Decrement
<1>6. CASE QueryInterface(t)
  BY <1>6 DEF QueryInterface, Dlopen, Count, Dlclose, Decrement
<1>7. CASE Count(t)
  BY <1>7 DEF Count
<1>8. CASE Leave(t)
  BY <1>8 DEF Leave, Dlopen, Count, Dlclose, Decrement
<1>9. CASE Release(t) \/ Free(t) \/ Deactivate(t)
  BY <1>9 DEF Release, Free, Deactivate, AfterRelease, Dlopen, Count, Dlclose, Decrement
<1>10. CASE Decrement(t)
  BY <1>10 DEF Decrement, Dlopen, Count, Dlclose
<1>11. CASE Dlclose(t)
  BY <1>11 DEF Dlclose
<1>12. ASSUME NEW o \in Obj, AddRef(t, o) \/ Unload(t, o) \/ ReleaseDriver(t, o)
       PROVE  ~Dlopen(t) /\ ~Count(t) /\ ~Dlclose(t) /\ Owed' \subseteq Owed /\ ~Decrement(t)
  BY <1>12 DEF AddRef, Unload, ReleaseDriver, Dlopen, Count, Dlclose, Decrement
<1> QED
  BY <1>4, <1>5, <1>6, <1>7, <1>8, <1>9, <1>10, <1>11, <1>12
  DEF Step, Load, Drop, HostCall, Close

LEMMA HandlesStep ==
  ASSUME IInv, NEW t \in Thread, Step(t)
  PROVE  HandlesSuffice'
<1>1. /\ handles \in Nat /\ HandlesSuffice /\ libUseCount = Cardinality(Counted)
      /\ IsFiniteSet(Owed) /\ Cardinality(Owed) \in Nat
      /\ IsFiniteSet(Counted) /\ Cardinality(Counted) \in Nat
  BY Finite DEF IInv, TypeOK, UseCountExact
<1>2. CASE Dlopen(t) /\ t \notin Owed /\ Owed' = Owed \cup {t}
  <2>1. Cardinality(Owed') = Cardinality(Owed) + 1
    BY <1>1, <1>2, FS_AddElement
  <2>2. Counted' = Counted
    BY <1>2, CountedStep DEF Dlopen, Count, Decrement
  <2> QED BY <1>1, <1>2, <2>1, <2>2 DEF Dlopen, HandlesSuffice
<1>3. CASE Decrement(t) /\ libUseCount = 1 /\ t \notin Owed /\ Owed' = Owed \cup {t}
  <2>1. Cardinality(Owed') = Cardinality(Owed) + 1
    BY <1>1, <1>3, FS_AddElement
  <2>2. Counted' = Counted \ {obj[t]} /\ obj[t] \in Counted
    BY <1>3, CountedStep DEF Count, Decrement
  <2>3. IsFiniteSet(Counted') /\ Cardinality(Counted') = 0
    <3>1. /\ IsFiniteSet(Counted \ {obj[t]})
          /\ Cardinality(Counted \ {obj[t]}) = Cardinality(Counted) - 1
      BY <1>1, <2>2, FS_RemoveElement
    <3>2. Cardinality(Counted) = 1
      BY <1>1, <1>3
    <3> QED BY <2>2, <3>1, <3>2
  <2>4. Counted' = {}
    BY <2>3, FS_EmptySet
  <2> QED BY <1>1, <1>3, <2>1, <2>2, <2>4 DEF Decrement, HandlesSuffice
<1>4. CASE (Count(t) \/ Dlclose(t)) /\ t \in Owed /\ Owed' = Owed \ {t}
  <2>1. Cardinality(Owed') = Cardinality(Owed) - 1
    BY <1>1, <1>4, FS_RemoveElement
  <2>2. Dlclose(t) => Counted' = Counted
    BY CountedStep DEF Dlclose, Count, Decrement
  <2> QED BY <1>1, <1>4, <2>1, <2>2 DEF Count, Dlclose, HandlesSuffice
<1>5. CASE /\ ~Dlopen(t) /\ ~Count(t) /\ ~Dlclose(t) /\ Owed' \subseteq Owed
           /\ (Decrement(t) => libUseCount # 1)
  <2>1. Cardinality(Owed') \in Nat /\ Cardinality(Owed') <= Cardinality(Owed)
    BY <1>1, <1>5, FS_Subset, FS_CardinalityType
  <2>2. UNCHANGED handles
    BY <1>5 DEF Step, Load, Drop, HostCall, Close, MakeAsioDriver, QueryInterface, Leave,
       Release, Free, Deactivate, AddRef, Unload, ReleaseDriver, Decrement
  <2>3. Counted' # {} => Counted # {}
    BY <1>5, CountedStep
  <2> QED BY <1>1, <2>1, <2>2, <2>3 DEF HandlesSuffice
<1> QED BY <1>2, <1>3, <1>4, <1>5, OwedStep

-----------------------------------------------------------------------------
(* The theorems.                                                             *)

LEMMA Inductive == IInv /\ [Next]_vars => IInv'
<1>1. ASSUME IInv, UNCHANGED vars PROVE IInv'
  BY <1>1 DEF vars, IInv, TypeOK, Places, Holding, Alone, HostOut, FreeAtZero, Dying,
     RefsExact, Tokens, InHand, UseCountExact, Counted, HandlesSuffice, Owed, Owing
<1>2. ASSUME IInv, NEW t \in Thread, Step(t) PROVE IInv'
  BY <1>2, TypeStep, PlacesStep, AloneStep, HostOutStep, FreeAtZeroStep, DyingStep,
     RefsStep, UseCountStep, HandlesStep DEF IInv, Holding
<1> QED BY <1>1, <1>2 DEF Next, Step

LEMMA Invariant == Spec => []IInv
BY Initially, Inductive, PTL DEF Spec

\* Every variable keeps its type, and neither the handles nor the use count ever
\* go below zero (cwASIOdriver.c:342-350, 392-398).
THEOREM TypeCorrect == Spec => [](TypeOK /\ libUseCount \in Nat)
<1>1. IInv => TypeOK /\ libUseCount \in Nat
  BY Finite DEF IInv, UseCountExact
<1> QED BY <1>1, Invariant, PTL

\* The reference count of an instance is the number of references held, for any
\* number of threads and instances (cwASIOdriver.c:368-390,
\* cwASIOdriver_skeleton.c:36-49).
THEOREM RefsExactHolds == Spec => []RefsExact
<1>1. IInv => RefsExact
  BY DEF IInv
<1> QED BY <1>1, Invariant, PTL

\* An instance is not freed while somebody has a reference to it, and freed by
\* one thread when nobody has (cwASIOdriver.c:379-382).
THEOREM AliveWhileHeldHolds == Spec => []AliveWhileHeld
<1>1. ASSUME IInv PROVE AliveWhileHeld
  <2> SUFFICES ASSUME NEW o \in Obj
               PROVE  /\ refs[o] > 0 => life[o] \in {"made", "out"}
                      /\ life[o] \in {"made", "out"} /\ refs[o] <= 0 =>
                           \E t \in Thread : obj[t] = o /\ pc[t] = "free"
                      /\ \A t, u \in Thread : obj[t] = o /\ pc[t] = "free"
                           /\ obj[u] = o /\ pc[u] = "free" => t = u
    BY DEF AliveWhileHeld
  <2>1. ASSUME refs[o] > 0 PROVE life[o] \in {"made", "out"}
    <3>1. CASE host[o] > 0
      BY <1>1, <3>1 DEF IInv, Holding, HostOut
    <3>2. CASE Tokens(o) # {}
      <4>1. PICK t \in Thread : obj[t] = o /\ InHand(t) >= 1
        BY <1>1, <3>2 DEF Tokens, InHand
      <4>2. life[o] \in LifeAt(pc[t], hr[t]) /\ hr[t] \in {"none", "ok", "failed"}
        BY <1>1, <4>1, AtPlace, DriverLibraryAssumption
      <4> QED BY <4>1, <4>2 DEF InHand, LifeAt
    <3>3. CASE host[o] = 0 /\ Tokens(o) = {}
      BY <1>1, <2>1, <3>3, FS_EmptySet DEF IInv, RefsExact
    <3> QED BY <1>1, <3>1, <3>2, <3>3 DEF IInv, TypeOK
  <2> QED BY <1>1, <2>1 DEF IInv, Holding, Dying, FreeAtZero
<1> QED BY <1>1, Invariant, PTL

\* The use count is the number of instances handed out and not given up, across
\* any unmapping of the library (cwASIOdriver.c:344-350, 388, 393).
THEOREM UseCountExactHolds == Spec => []UseCountExact
<1>1. IInv => UseCountExact
  BY DEF IInv
<1> QED BY <1>1, Invariant, PTL

\* The library is mapped while its code runs or one of its instances waits to be
\* released (cwASIOdriver.c:388, 393-395; cwASIO.c:186-194).
THEOREM LibMappedHolds == Spec => []LibMapped
<1>1. ASSUME IInv PROVE LibMapped
  <2>1. ASSUME NEW t \in Thread, Inside(t) PROVE Owed # {} \/ Counted # {}
    <3>1. CASE obj[t] = NoObj
      BY <1>1, <2>1, <3>1 DEF IInv, TypeOK, Inside, Owed, Owing
    <3>2. CASE obj[t] # NoObj
      <4>1. life[obj[t]] \in {"out", "freed"} => Counted # {}
        BY <1>1, <3>2, AtPlace DEF Counted
      <4>2. Owing(t) => Owed # {}
        BY DEF Owed
      <4>3. /\ hr[t] \in {"none", "ok", "failed"} /\ pc[t] \in PCs
            /\ pc[t] \notin {"idle", "make"}
            /\ life[obj[t]] \in LifeAt(pc[t], hr[t])
        BY <1>1, <3>2, AtPlace DEF IInv, TypeOK
      <4>4. Owing(t) \/ life[obj[t]] \in {"out", "freed"}
        BY <2>1, <3>2, <4>3 DEF Inside, Leaving, Owing, LifeAt, PCs
      <4> QED BY <4>1, <4>2, <4>4
    <3> QED BY <3>1, <3>2
  <2> QED BY <1>1, <2>1, Needed DEF LibMapped
<1> QED BY <1>1, Invariant, PTL

-----------------------------------------------------------------------------
(* DriverLibrary implements InstanceLifecycle.                               *)

\* What InstanceLifecycle counts is the reference count.
LEMMA HeldIsRefs ==
  ASSUME IInv
  PROVE  [o \in Obj |-> Held(o)] = refs
BY DEF IInv, TypeOK, RefsExact, Held

\* A step that changes one instance's life, or none.
LEMMA StageMove ==
  ASSUME TypeOK, NEW p \in Obj, NEW next \in Lives, life' = [life EXCEPT ![p] = next]
  PROVE  [o \in Obj |-> Stage(o)'] =
           [[o \in Obj |-> Stage(o)] EXCEPT ![p] = IF next = "released" THEN "freed" ELSE next]
BY DEF TypeOK, Stage

LEMMA StageFrame ==
  ASSUME UNCHANGED life
  PROVE  [o \in Obj |-> Stage(o)'] = [o \in Obj |-> Stage(o)]
BY DEF Stage

LEMMA LifecycleStep ==
  ASSUME IInv, IInv', NEW t \in Thread, Step(t)
  PROVE  [Lifecycle!Next]_<<[o \in Obj |-> Stage(o)], [o \in Obj |-> Held(o)]>>
<1> USE DriverLibraryAssumption DEF Goto, Return
<1> DEFINE Stages == [o \in Obj |-> Stage(o)]
           Helds == [o \in Obj |-> Held(o)]
           Goal == [Lifecycle!Next]_<<Stages, Helds>>
<1>1. Helds = refs /\ Helds' = refs' /\ TypeOK
  <2>1. Helds' = refs'
    BY DEF IInv, TypeOK, RefsExact, Held
  <2> QED BY <2>1, HeldIsRefs DEF IInv
<1>2. obj[t] # NoObj => /\ obj[t] \in Obj /\ life[obj[t]] \in LifeAt(pc[t], hr[t])
                        /\ hr[t] \in {"none", "ok", "failed"}
  BY AtPlace
<1>3. \A o \in Obj : Stages[o] = IF life[o] = "released" THEN "freed" ELSE life[o]
  BY DEF Stage
<1>4. ASSUME UNCHANGED <<Stages, Helds>> PROVE Goal
  BY <1>4
<1>5. ASSUME NEW o \in Obj,
             \/ Lifecycle!Make(o) \/ Lifecycle!HandOut(o) \/ Lifecycle!Share(o)
             \/ Lifecycle!GiveUp(o) \/ Lifecycle!Free(o)
      PROVE  Goal
  BY <1>5 DEF Lifecycle!Next
<1>6. UNCHANGED life => Stages' = Stages
  BY StageFrame
<1>7. CASE MakeAsioDriver(t)
  <2>1. ASSUME NEW o \in Obj, life[o] = "unborn", life' = [life EXCEPT ![o] = "made"],
               refs' = [refs EXCEPT ![o] = 1]
        PROVE  Goal
    <3>1. Stages' = [Stages EXCEPT ![o] = "made"]
      BY <1>1, <2>1, StageMove DEF Lives
    <3>2. Lifecycle!Make(o)
      BY <1>1, <1>3, <2>1, <3>1 DEF Lifecycle!Make, Lifecycle!Become, Lifecycle!Hold
    <3> QED BY <1>5, <3>2
  <2>2. CASE UNCHANGED <<life, refs>>
    BY <1>1, <1>4, <1>6, <2>2
  <2> QED BY <1>7, <2>1, <2>2 DEF MakeAsioDriver
<1>8. CASE QueryInterface(t)
  <2>1. obj[t] \in Obj /\ UNCHANGED life
    BY <1>1, <1>8 DEF QueryInterface, TypeOK
  <2>2. refs[obj[t]] > 0
    BY <2>1, <1>1, <1>8, Holds DEF QueryInterface, Hand, InHand, TypeOK
  <2>3. CASE refs' = [refs EXCEPT ![obj[t]] = @ + 1]
    <3>1. Lifecycle!Share(obj[t])
      BY <1>1, <1>6, <2>1, <2>2, <2>3 DEF Lifecycle!Share, Lifecycle!Hold
    <3> QED BY <1>5, <2>1, <3>1
  <2>4. CASE UNCHANGED refs
    BY <1>1, <1>4, <1>6, <2>1, <2>4
  <2> QED BY <1>8, <2>3, <2>4 DEF QueryInterface
<1>9. CASE Release(t)
  <2>1. obj[t] \in Obj /\ refs[obj[t]] >= 1
    BY <1>9, ReleaseHolds DEF Release
  <2>2. UNCHANGED life /\ refs' = [refs EXCEPT ![obj[t]] = @ - 1]
    BY <1>9 DEF Release
  <2>3. Lifecycle!GiveUp(obj[t])
    BY <1>1, <1>6, <2>1, <2>2 DEF Lifecycle!GiveUp, Lifecycle!Hold, TypeOK
  <2> QED BY <1>5, <2>1, <2>3
<1>10. CASE Free(t)
  <2>1. obj[t] \in Obj /\ refs[obj[t]] = 0 /\ life[obj[t]] \in {"made", "out"}
    BY <1>1, <1>2, <1>10 DEF Free, IInv, Holding, FreeAtZero, LifeAt, TypeOK
  <2>2. /\ life' = [life EXCEPT ![obj[t]] = IF life[obj[t]] = "made" THEN "failed" ELSE "freed"]
        /\ UNCHANGED refs
    BY <1>10 DEF Free
  <2>3. Stages' = [Stages EXCEPT ![obj[t]] = IF life[obj[t]] = "made" THEN "failed" ELSE "freed"]
    BY <1>1, <2>1, <2>2, StageMove DEF Lives
  <2>4. Lifecycle!Free(obj[t])
    BY <1>1, <1>3, <2>1, <2>2, <2>3 DEF Lifecycle!Free, Lifecycle!Become
  <2> QED BY <1>5, <2>1, <2>4
<1>11. CASE Count(t)
  <2>1. obj[t] \in Obj /\ life[obj[t]] = "made"
    BY <1>1, <1>2, <1>11 DEF Count, LifeAt, TypeOK
  <2>2. refs[obj[t]] = 1
    BY <1>11, <2>1, MakersRefs DEF Count, InHand
  <2>3. life' = [life EXCEPT ![obj[t]] = "out"] /\ UNCHANGED refs
    BY <1>11 DEF Count
  <2>4. Stages' = [Stages EXCEPT ![obj[t]] = "out"]
    BY <1>1, <2>1, <2>3, StageMove DEF Lives
  <2>5. Lifecycle!HandOut(obj[t])
    BY <1>1, <1>3, <2>1, <2>2, <2>3, <2>4 DEF Lifecycle!HandOut, Lifecycle!Become
  <2> QED BY <1>5, <2>1, <2>5
<1>12. ASSUME NEW o \in Obj, AddRef(t, o) PROVE Goal
  <2>1. refs[o] > 0 /\ UNCHANGED life /\ refs' = [refs EXCEPT ![o] = @ + 1]
    BY <1>1, <1>12, Holds DEF AddRef, TypeOK
  <2>2. Lifecycle!Share(o)
    BY <1>1, <1>6, <2>1 DEF Lifecycle!Share, Lifecycle!Hold
  <2> QED BY <1>5, <2>2
<1>13. CASE Decrement(t)
  <2>1. obj[t] \in Obj /\ life[obj[t]] = "freed"
    BY <1>1, <1>2, <1>13 DEF Decrement, LifeAt, TypeOK
  <2>2. life' = [life EXCEPT ![obj[t]] = "released"] /\ UNCHANGED refs
    BY <1>13 DEF Decrement
  <2>3. Stages' = [Stages EXCEPT ![obj[t]] = "freed"]
    BY <1>1, <2>1, <2>2, StageMove DEF Lives
  <2>4. Stages' = Stages
    BY <1>3, <2>1, <2>3
  <2> QED BY <1>1, <1>4, <2>2, <2>4
<1>14. CASE Dlopen(t) \/ Leave(t) \/ Deactivate(t) \/ Dlclose(t)
  <2>1. UNCHANGED <<life, refs>>
    BY <1>14 DEF Dlopen, Leave, Deactivate, Dlclose
  <2> QED BY <1>1, <1>4, <1>6, <2>1
<1>15. ASSUME NEW o \in Obj, Unload(t, o) \/ ReleaseDriver(t, o) PROVE Goal
  <2>1. UNCHANGED <<life, refs>>
    BY <1>15 DEF Unload, ReleaseDriver
  <2> QED BY <1>1, <1>4, <1>6, <2>1
<1> QED
  BY <1>7, <1>8, <1>9, <1>10, <1>11, <1>12, <1>13, <1>14, <1>15
  DEF Step, Load, Drop, HostCall, Close

\* An instance is handed out while its maker holds it, shared by who holds one,
\* and freed once, with no reference left, for any number of threads
\* (cwASIOdriver.c:368-390, cwASIOdriver_skeleton.c:36-49).
THEOREM InstancesLiveHolds == Spec => InstancesLive
<1>1. Init => Lifecycle!Init
  <2> SUFFICES ASSUME Init PROVE Lifecycle!Init
    OBVIOUS
  <2>1. [o \in Obj |-> Held(o)] = refs
    BY Initially, HeldIsRefs
  <2>2. [o \in Obj |-> Stage(o)] = [o \in Obj |-> "unborn"]
    BY DEF Init, Stage
  <2> QED BY <2>1, <2>2 DEF Init, Lifecycle!Init
<1>2. IInv /\ IInv' /\ [Next]_vars
      => [Lifecycle!Next]_<<[o \in Obj |-> Stage(o)], [o \in Obj |-> Held(o)]>>
  <2>1. ASSUME IInv, IInv', UNCHANGED vars
        PROVE  UNCHANGED <<[o \in Obj |-> Stage(o)], [o \in Obj |-> Held(o)]>>
    BY <2>1 DEF vars, Stage, Held, Tokens, InHand
  <2>2. ASSUME IInv, IInv', NEW t \in Thread, Step(t)
        PROVE  [Lifecycle!Next]_<<[o \in Obj |-> Stage(o)], [o \in Obj |-> Held(o)]>>
    BY <2>2, LifecycleStep
  <2> QED BY <2>1, <2>2 DEF Next, Step
<1> QED BY <1>1, <1>2, Invariant, PTL DEF Spec, InstancesLive, Lifecycle!Spec
=============================================================================
