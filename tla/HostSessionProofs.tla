------------------------- MODULE HostSessionProofs -------------------------
(* Proofs about HostSession, for any sets of Devices, instances and names. *)
EXTENDS HostSession, TLAPS

\* Where the constructor and ASIOLoad are tells who has an instance.
Places ==
  /\ \A d \in Devices : /\ pc[d] \in {"none", "load"} => drv_[d] = NULL
                        /\ pc[d] = "future" => drv_[d] # NULL
                        /\ pc[d] \in {"load", "future"} => asked[d] \in Names
  /\ pcC = "future" => theAsioDriver # NULL

\* An instance is ready only with a name, or none is needed, and once its
\* constructor is done; the C functions' instance has no name but the one given.
NamesKnown ==
  /\ \A o \in Instances : instance[o].live /\ instance[o].ready =>
       instance[o].kind = "legacy" \/ instance[o].name # NoName
  /\ \A d \in Devices : pc[d] = "future" => ~instance[drv_[d]].ready
  /\ theAsioDriver # NULL =>
       \/ NamedFor(instance[theAsioDriver], askedC)
       \/ instance[theAsioDriver].name = NoName

IInv == TypeOK /\ Places /\ Owned /\ NamedAsAsked /\ NamesKnown

-----------------------------------------------------------------------------
(* What a name that is given, or refused, does to the instances.             *)

\* future() changes the name of the one instance it is called for, if anything,
\* and what it leaves there is what the name is for.
LEMMA RenamedFrame ==
  ASSUME TypeOK, NEW o \in Instances, NEW n \in Names \cup {NoName}, NEW err,
         Renamed(o, n, err)
  PROVE  /\ instance' \in [Instances -> [live : BOOLEAN, kind : Kinds,
                                  name : Names \cup {NoName, Garbled}, ready : BOOLEAN]]
         /\ \A p \in Instances : p # o => instance'[p] = instance[p]
         /\ instance'[o].live = instance[o].live
         /\ instance'[o].kind = instance[o].kind
         /\ instance'[o].ready = instance[o].ready
         /\ IF Taken(o, n, err)
            THEN n \in Names /\ instance'[o].name # NoName /\ NamedFor(instance'[o], n)
            ELSE instance'[o] = instance[o]
<1>1. CASE Taken(o, n, err)
  <2>1. PICK name \in Stored(n) : instance' = [instance EXCEPT ![o].name = name]
    BY <1>1 DEF Renamed
  <2>2. /\ n \in Names
        /\ name = n \/ (n \in Full /\ name = Garbled)
    BY <1>1, <2>1 DEF Taken, Stored
  <2> QED BY <1>1, <2>1, <2>2, HostSessionAssumption DEF TypeOK, NamedFor
<1>2. CASE ~Taken(o, n, err)
  BY <1>2 DEF Renamed, TypeOK
<1> QED BY <1>1, <1>2

\* The end of an instance leaves the others as they are.
LEMMA UnloadedFrame ==
  ASSUME TypeOK, NEW o \in Instances
  PROVE  /\ Unloaded(o) \in [Instances -> [live : BOOLEAN, kind : Kinds,
                                  name : Names \cup {NoName, Garbled}, ready : BOOLEAN]]
         /\ \A p \in Instances : p # o => Unloaded(o)[p] = instance[p]
         /\ ~Unloaded(o)[o].live
BY DEF Unloaded, TypeOK, Nobody, Kinds

\* A fresh instance, likewise.
LEMMA LoadedFrame ==
  ASSUME TypeOK, NEW o \in Fresh, NEW kind \in Kinds, Loaded(o, kind)
  PROVE  /\ instance' \in [Instances -> [live : BOOLEAN, kind : Kinds,
                                  name : Names \cup {NoName, Garbled}, ready : BOOLEAN]]
         /\ \A p \in Instances : p # o => instance'[p] = instance[p]
         /\ instance'[o].live
         /\ o \in Instances /\ ~instance[o].live
BY DEF Loaded, TypeOK, Nobody, Kinds, Fresh

\* init changes whether an instance is ready and nothing else.
LEMMA InitialisedFrame ==
  ASSUME TypeOK, NEW o \in Instances, Initialised(o)
  PROVE  /\ instance' \in [Instances -> [live : BOOLEAN, kind : Kinds,
                                  name : Names \cup {NoName, Garbled}, ready : BOOLEAN]]
         /\ \A p \in Instances : /\ instance'[p].live = instance[p].live
                                 /\ instance'[p].kind = instance[p].kind
                                 /\ instance'[p].name = instance[p].name
BY ZenonT(30) DEF Initialised, InitResult, TypeOK

\* What future() can return.
LEMMA FutureResults ==
  ASSUME NEW o \in Instances, NEW n \in Names \cup {NoName}, NEW err \in FutureResult(o, n)
  PROVE  /\ err \in {"ASE_SUCCESS", "ASE_InvalidParameter", "ASE_NotPresent",
                     "ASE_HWMalfunction"}
         /\ err = "ASE_InvalidParameter" => instance[o].kind = "legacy"
BY DEF FutureResult

-----------------------------------------------------------------------------
\* The program starts without instances.
THEOREM Initially == Init => IInv
BY HostSessionAssumption
   DEF Init, IInv, TypeOK, Places, Owned, NamedAsAsked, NamesKnown, Nobody, Kinds

\* A step that leaves the instances and all owners alone.
LEMMA RegistryStep ==
  ASSUME IInv, registered' \subseteq Names, UNCHANGED <<instance, wrapper, capi>>
  PROVE  IInv'
BY DEF IInv, TypeOK, Places, Owned, NamedAsAsked, NamesKnown, wrapper, capi

\* The constructor asks for a name that is registered; nothing is owned yet.
LEMMA GetParameterStep ==
  ASSUME IInv, NEW d \in Devices, NEW n \in Names, GetParameter(d, n)
  PROVE  IInv'
BY DEF GetParameter, IInv, TypeOK, Places, Owned, NamedAsAsked, NamesKnown, wrapper, capi

\* A fresh instance gets the Device as its one owner, and has no name.
LEMMA LoadStep ==
  ASSUME IInv, NEW d \in Devices, Load(d)
  PROVE  IInv'
<1>1. CASE \E o \in Fresh, kind \in Kinds :
             /\ Loaded(o, kind)
             /\ drv_' = [drv_ EXCEPT ![d] = o]
             /\ pc' = [pc EXCEPT ![d] = "future"]
  <2>1. PICK o \in Fresh, kind \in Kinds :
             /\ Loaded(o, kind)
             /\ drv_' = [drv_ EXCEPT ![d] = o]
             /\ pc' = [pc EXCEPT ![d] = "future"]
    BY <1>1
  <2>2. TypeOK BY DEF IInv
  <2>3. /\ instance' \in [Instances -> [live : BOOLEAN, kind : Kinds,
                                  name : Names \cup {NoName, Garbled}, ready : BOOLEAN]]
        /\ \A p \in Instances : p # o => instance'[p] = instance[p]
        /\ instance'[o].live
        /\ o \in Instances /\ ~instance[o].live
    BY <2>1, <2>2, LoadedFrame
  <2>4. ~instance'[o].ready
    BY <2>1, <2>3, <2>2 DEF Loaded, Nobody, TypeOK
  <2>5. UNCHANGED <<registered, asked, theAsioDriver, pcC, askedC, answer>>
    BY DEF Load, capi
  <2>6. pc[d] = "load" BY DEF Load
  <2>7. TypeOK'
    BY <2>1, <2>2, <2>3, <2>5 DEF TypeOK
  <2>8. Places'
    BY <2>1, <2>2, <2>3, <2>5, <2>6, HostSessionAssumption DEF IInv, Places, TypeOK
  <2>9. /\ \A e \in Devices : drv_'[e] = IF e = d THEN o ELSE drv_[e]
        /\ \A e \in Devices : pc'[e] = IF e = d THEN "future" ELSE pc[e]
    BY <2>1, <2>2 DEF TypeOK
  <2>12. /\ theAsioDriver # o
         /\ \A e \in Devices : drv_[e] # o
    BY <2>3 DEF IInv, Owned
  <2>13. Owned'
    <3>1. drv_[d] = NULL
      BY <2>6 DEF IInv, Places
    <3>2. \A p \in Instances : p # o => (instance'[p].live <=> instance[p].live)
      BY <2>3
    <3> QED BY <3>1, <3>2, <2>3, <2>5, <2>9, <2>12, HostSessionAssumption DEF IInv, Owned
  <2>10. NamedAsAsked'
    BY <2>1, <2>2, <2>3, <2>5, <2>6 DEF IInv, Owned, NamedAsAsked, TypeOK
  <2>11. NamesKnown'
    <3>1. \A p \in Instances : instance'[p].live /\ instance'[p].ready =>
            instance'[p].kind = "legacy" \/ instance'[p].name # NoName
      BY <2>3, <2>4 DEF IInv, NamesKnown
    <3>2. \A e \in Devices : pc'[e] = "future" => ~instance'[drv_'[e]].ready
      BY <2>2, <2>3, <2>4, <2>9, <2>12 DEF IInv, NamesKnown, Places, TypeOK
    <3>3. theAsioDriver' # NULL =>
            \/ NamedFor(instance'[theAsioDriver'], askedC')
            \/ instance'[theAsioDriver'].name = NoName
      BY <2>2, <2>3, <2>5, <2>12 DEF IInv, NamesKnown, TypeOK
    <3> QED BY <3>1, <3>2, <3>3 DEF NamesKnown
  <2> QED BY <2>7, <2>8, <2>10, <2>11, <2>13 DEF IInv
<1>2. CASE /\ pc' = [pc EXCEPT ![d] = "none"]
           /\ UNCHANGED <<instance, drv_>>
  BY <1>2 DEF Load, IInv, TypeOK, Places, Owned, NamedAsAsked, NamesKnown, capi
<1> QED BY <1>1, <1>2 DEF Load

\* Renaming one instance to the name its owner asked for.
LEMMA SetNameStep ==
  ASSUME IInv, NEW d \in Devices, SetName(d)
  PROVE  IInv'
<1> DEFINE o == drv_[d]
<1>1. /\ TypeOK /\ Places /\ Owned /\ NamedAsAsked /\ NamesKnown
      /\ pc[d] = "future"
      /\ o \in Instances /\ asked[d] \in Names
      /\ UNCHANGED <<registered, asked, theAsioDriver, pcC, askedC, answer>>
  BY DEF IInv, SetName, Places, TypeOK, capi
<1>2. \A e \in Devices : e # d => drv_[e] # o
  BY <1>1 DEF Owned
<1>3. theAsioDriver # o
  BY <1>1 DEF Owned
<1>4. PICK err \in FutureResult(o, asked[d]) :
       \/ /\ err \in {"ASE_SUCCESS", "ASE_InvalidParameter"}
          /\ Renamed(o, asked[d], err)
          /\ pc' = [pc EXCEPT ![d] = "made"]
          /\ UNCHANGED drv_
       \/ /\ err \notin {"ASE_SUCCESS", "ASE_InvalidParameter"}
          /\ instance' = Unloaded(o)
          /\ drv_' = [drv_ EXCEPT ![d] = NULL]
          /\ pc' = [pc EXCEPT ![d] = "none"]
  BY DEF SetName
<1>5. CASE /\ err \in {"ASE_SUCCESS", "ASE_InvalidParameter"}
           /\ Renamed(o, asked[d], err)
           /\ pc' = [pc EXCEPT ![d] = "made"]
           /\ UNCHANGED drv_
  <2>1. /\ instance' \in [Instances -> [live : BOOLEAN, kind : Kinds,
                                  name : Names \cup {NoName, Garbled}, ready : BOOLEAN]]
        /\ \A p \in Instances : p # o => instance'[p] = instance[p]
        /\ instance'[o].live = instance[o].live
        /\ instance'[o].kind = instance[o].kind
        /\ instance'[o].ready = instance[o].ready
        /\ IF Taken(o, asked[d], err)
           THEN NamedFor(instance'[o], asked[d])
           ELSE instance'[o] = instance[o]
    BY <1>1, <1>5, RenamedFrame
  <2>2. NamedFor(instance'[o], asked[d])
    <3>1. CASE err = "ASE_InvalidParameter"
      BY <1>1, <1>4, <2>1, <3>1, FutureResults DEF NamedFor
    <3>2. CASE err = "ASE_SUCCESS"
      BY <1>1, <2>1, <3>2, HostSessionAssumption DEF Taken, NamedFor, TypeOK, Kinds
    <3> QED BY <1>5, <3>1, <3>2
  <2>3. \A e \in Devices : pc'[e] = IF e = d THEN "made" ELSE pc[e]
    BY <1>1, <1>5 DEF TypeOK
  <2>4. TypeOK'
    BY <1>1, <1>5, <2>1 DEF TypeOK
  <2>5. Places'
    BY <1>1, <1>5, <2>3 DEF Places
  <2>6. Owned'
    BY <1>1, <1>5, <2>1 DEF Owned
  <2>7. NamedAsAsked'
    BY <1>1, <1>2, <1>5, <2>1, <2>2, <2>3 DEF NamedAsAsked, TypeOK
  <2>8. NamesKnown'
    BY <1>1, <1>2, <1>3, <1>5, <2>1, <2>3 DEF NamesKnown, TypeOK, Places
  <2> QED BY <2>4, <2>5, <2>6, <2>7, <2>8 DEF IInv
<1>6. CASE /\ instance' = Unloaded(o)
           /\ drv_' = [drv_ EXCEPT ![d] = NULL]
           /\ pc' = [pc EXCEPT ![d] = "none"]
  <2>1. /\ instance' \in [Instances -> [live : BOOLEAN, kind : Kinds,
                                  name : Names \cup {NoName, Garbled}, ready : BOOLEAN]]
        /\ \A p \in Instances : p # o => instance'[p] = instance[p]
        /\ ~instance'[o].live
    BY <1>1, <1>6, UnloadedFrame
  <2>2. /\ \A e \in Devices : pc'[e] = IF e = d THEN "none" ELSE pc[e]
        /\ \A e \in Devices : drv_'[e] = IF e = d THEN NULL ELSE drv_[e]
    BY <1>1, <1>6 DEF TypeOK
  <2>3. TypeOK'
    BY <1>1, <1>6, <2>1 DEF TypeOK
  <2>4. Places'
    BY <1>1, <2>2 DEF Places
  <2>5. Owned'
    BY <1>1, <1>2, <1>3, <2>1, <2>2, HostSessionAssumption DEF Owned
  <2>6. NamedAsAsked'
    BY <1>1, <1>2, <2>1, <2>2 DEF NamedAsAsked, TypeOK
  <2>7. NamesKnown'
    BY <1>1, <1>2, <1>3, <2>1, <2>2 DEF NamesKnown, TypeOK, Places
  <2> QED BY <2>3, <2>4, <2>5, <2>6, <2>7 DEF IInv
<1> QED BY <1>4, <1>5, <1>6

\* A name given to a Device later, which the driver takes or not.
LEMMA DeviceFutureStep ==
  ASSUME IInv, NEW d \in Devices, NEW n \in Names \cup {NoName}, DeviceFuture(d, n)
  PROVE  IInv'
<1> DEFINE o == drv_[d]
<1>1. /\ TypeOK /\ Places /\ Owned /\ NamedAsAsked /\ NamesKnown
      /\ pc[d] = "made"
      /\ o \in Instances
      /\ UNCHANGED <<registered, drv_, pc, theAsioDriver, pcC, askedC, answer>>
  BY DEF IInv, DeviceFuture, TypeOK, capi
<1>2. /\ \A e \in Devices : e # d => drv_[e] # o
      /\ theAsioDriver # o
  BY <1>1 DEF Owned
<1>3. PICK err \in FutureResult(o, n) :
         /\ Renamed(o, n, err)
         /\ asked' = IF Taken(o, n, err) THEN [asked EXCEPT ![d] = n] ELSE asked
  BY DEF DeviceFuture
<1>4. /\ instance' \in [Instances -> [live : BOOLEAN, kind : Kinds,
                                  name : Names \cup {NoName, Garbled}, ready : BOOLEAN]]
      /\ \A p \in Instances : p # o => instance'[p] = instance[p]
      /\ instance'[o].live = instance[o].live
      /\ instance'[o].kind = instance[o].kind
      /\ instance'[o].ready = instance[o].ready
      /\ IF Taken(o, n, err)
         THEN n \in Names /\ instance'[o].name # NoName /\ NamedFor(instance'[o], n)
         ELSE instance'[o] = instance[o]
  BY <1>1, <1>3, RenamedFrame
<1>5. \A e \in Devices : asked'[e] = IF e = d /\ Taken(o, n, err) THEN n ELSE asked[e]
  BY <1>1, <1>3 DEF TypeOK
<1>6. TypeOK'
  BY <1>1, <1>3, <1>4 DEF TypeOK
<1>7. Places'
  BY <1>1, <1>4, <1>5 DEF Places
<1>8. Owned'
  BY <1>1, <1>4 DEF Owned
<1>9. NamedAsAsked'
  BY <1>1, <1>2, <1>4, <1>5 DEF NamedAsAsked, TypeOK
<1>10. NamesKnown'
  BY <1>1, <1>2, <1>4 DEF NamesKnown, TypeOK, Places
<1> QED BY <1>6, <1>7, <1>8, <1>9, <1>10 DEF IInv

\* init of either owner.
LEMMA InitialisedStep ==
  ASSUME IInv, NEW o \in Instances, Initialised(o),
         \A d \in Devices : pc[d] = "future" => drv_[d] # o,
         UNCHANGED <<registered, drv_, pc, asked, theAsioDriver, pcC, askedC>>,
         answer' \in {"none", "driver", "ASE_OK", "ASE_SUCCESS", "ASE_NoMemory", "ASE_NotPresent",
                      "ASE_InvalidParameter", "ASE_HWMalfunction"}
  PROVE  IInv'
<1>1. TypeOK /\ Places /\ Owned /\ NamedAsAsked /\ NamesKnown
  BY DEF IInv
<1>2. /\ instance' \in [Instances -> [live : BOOLEAN, kind : Kinds,
                                  name : Names \cup {NoName, Garbled}, ready : BOOLEAN]]
      /\ \A p \in Instances : /\ instance'[p].live = instance[p].live
                              /\ instance'[p].kind = instance[p].kind
                              /\ instance'[p].name = instance[p].name
  BY <1>1, InitialisedFrame
<1>3. /\ \A p \in Instances : p # o => instance'[p].ready = instance[p].ready
      /\ instance'[o].ready = InitResult(o)
  BY <1>1 DEF Initialised, TypeOK
<1>4. TypeOK'
  BY <1>1, <1>2 DEF TypeOK
<1>5. Places'
  BY <1>1 DEF Places
<1>6. Owned'
  BY <1>1, <1>2 DEF Owned
<1>7. NamedAsAsked'
  BY <1>1, <1>2 DEF NamedAsAsked, NamedFor, TypeOK
<1>8. NamesKnown'
  BY <1>1, <1>2, <1>3, SMTT(30) DEF NamesKnown, NamedFor, TypeOK, Places, InitResult
<1> QED BY <1>4, <1>5, <1>6, <1>7, <1>8 DEF IInv

\* Device::init
LEMMA InitDeviceStep ==
  ASSUME IInv, NEW d \in Devices, InitDevice(d)
  PROVE  IInv'
<1>1. /\ TypeOK /\ Places /\ Owned
      /\ drv_[d] \in Instances
      /\ Initialised(drv_[d])
      /\ UNCHANGED <<registered, drv_, pc, asked, theAsioDriver, pcC, askedC, answer>>
  BY DEF IInv, InitDevice, TypeOK, wrapper, capi
<1>2. \A e \in Devices : pc[e] = "future" => drv_[e] # drv_[d]
  BY <1>1 DEF InitDevice, Owned
<1>3. answer' \in {"none", "driver", "ASE_OK", "ASE_SUCCESS", "ASE_NoMemory", "ASE_NotPresent",
                   "ASE_InvalidParameter", "ASE_HWMalfunction"}
  BY <1>1 DEF TypeOK
<1> QED BY <1>1, <1>2, <1>3, InitialisedStep

\* The destructor ends the one instance that has no other owner.
LEMMA DestroyStep ==
  ASSUME IInv, NEW d \in Devices, Destroy(d)
  PROVE  IInv'
<1>1. /\ TypeOK /\ Places /\ Owned /\ NamedAsAsked /\ NamesKnown
      /\ pc[d] = "made"
      /\ instance' = IF drv_[d] = NULL THEN instance ELSE Unloaded(drv_[d])
      /\ UNCHANGED <<registered, asked, theAsioDriver, pcC, askedC, answer>>
  BY DEF IInv, Destroy, capi
<1>2. /\ \A e \in Devices : pc'[e] = IF e = d THEN "none" ELSE pc[e]
      /\ \A e \in Devices : drv_'[e] = IF e = d THEN NULL ELSE drv_[e]
  BY <1>1 DEF Destroy, TypeOK
<1>3. /\ instance' \in [Instances -> [live : BOOLEAN, kind : Kinds,
                                  name : Names \cup {NoName, Garbled}, ready : BOOLEAN]]
      /\ \A p \in Instances : p # drv_[d] => instance'[p] = instance[p]
      /\ drv_[d] \in Instances => ~instance'[drv_[d]].live
  BY <1>1, UnloadedFrame, HostSessionAssumption DEF TypeOK
<1>4. drv_[d] \in Instances =>
         /\ theAsioDriver # drv_[d]
         /\ \A e \in Devices : e # d => drv_[e] # drv_[d]
  BY <1>1 DEF Owned
<1>5. TypeOK'
  BY <1>1, <1>3 DEF TypeOK, Destroy
<1>6. Places'
  BY <1>1, <1>2 DEF Places
<1>7. Owned'
  BY <1>1, <1>2, <1>3, <1>4, HostSessionAssumption DEF Owned
<1>8. NamedAsAsked'
  BY <1>1, <1>2, <1>3, <1>4 DEF NamedAsAsked, TypeOK
<1>9. NamesKnown'
  <2>1. \A o \in Instances : instance'[o].live /\ instance'[o].ready =>
          instance'[o].kind = "legacy" \/ instance'[o].name # NoName
    BY <1>1, <1>3 DEF NamesKnown
  <2>2. \A e \in Devices : pc'[e] = "future" => ~instance'[drv_'[e]].ready
    BY <1>1, <1>2, <1>3, <1>4 DEF NamesKnown, Places, TypeOK
  <2>3. theAsioDriver' # NULL =>
          \/ NamedFor(instance'[theAsioDriver'], askedC')
          \/ instance'[theAsioDriver'].name = NoName
    BY <1>1, <1>3, <1>4 DEF NamesKnown, TypeOK
  <2> QED BY <2>1, <2>2, <2>3 DEF NamesKnown
<1> QED BY <1>5, <1>6, <1>7, <1>8, <1>9 DEF IInv

\* What the target had ends, what the source had changes hands.
LEMMA MoveStep ==
  ASSUME IInv, NEW d \in Devices, NEW s \in Devices, Move(d, s)
  PROVE  IInv'
<1>1. /\ TypeOK /\ Places /\ Owned /\ NamedAsAsked /\ NamesKnown
      /\ d # s /\ pc[d] = "made" /\ pc[s] = "made" /\ drv_[s] \in Instances
      /\ instance' = IF drv_[d] = NULL THEN instance ELSE Unloaded(drv_[d])
      /\ UNCHANGED <<registered, pc, theAsioDriver, pcC, askedC, answer>>
  BY DEF IInv, Move, capi, TypeOK
<1>2. /\ \A e \in Devices :
           drv_'[e] = IF e = s THEN NULL ELSE IF e = d THEN drv_[s] ELSE drv_[e]
      /\ \A e \in Devices : asked'[e] = IF e = d THEN asked[s] ELSE asked[e]
  BY <1>1 DEF Move, TypeOK
<1>3. /\ instance' \in [Instances -> [live : BOOLEAN, kind : Kinds,
                                  name : Names \cup {NoName, Garbled}, ready : BOOLEAN]]
      /\ \A p \in Instances : p # drv_[d] => instance'[p] = instance[p]
      /\ drv_[d] \in Instances => ~instance'[drv_[d]].live
  BY <1>1, UnloadedFrame, HostSessionAssumption DEF TypeOK
<1>4. /\ drv_[d] \in Instances =>
           /\ theAsioDriver # drv_[d]
           /\ \A e \in Devices : e # d => drv_[e] # drv_[d]
      /\ theAsioDriver # drv_[s]
      /\ \A e \in Devices : e # s => drv_[e] # drv_[s]
  BY <1>1 DEF Owned
<1>5. TypeOK'
  BY <1>1, <1>3 DEF TypeOK, Move
<1>6. Places'
  BY <1>1, <1>2 DEF Places
<1>7. Owned'
  BY <1>1, <1>2, <1>3, <1>4, HostSessionAssumption DEF Owned
<1>8. NamedAsAsked'
  BY <1>1, <1>2, <1>3, <1>4 DEF NamedAsAsked, TypeOK
<1>9. NamesKnown'
  <2>1. \A o \in Instances : instance'[o].live /\ instance'[o].ready =>
          instance'[o].kind = "legacy" \/ instance'[o].name # NoName
    BY <1>1, <1>3 DEF NamesKnown
  <2>2. \A e \in Devices : pc'[e] = "future" => ~instance'[drv_'[e]].ready
    BY <1>1, <1>2, <1>3, <1>4 DEF NamesKnown, Places, TypeOK
  <2>3. theAsioDriver' # NULL =>
          \/ NamedFor(instance'[theAsioDriver'], askedC')
          \/ instance'[theAsioDriver'].name = NoName
    BY <1>1, <1>3, <1>4 DEF NamesKnown, TypeOK
  <2> QED BY <2>1, <2>2, <2>3 DEF NamesKnown
<1> QED BY <1>5, <1>6, <1>7, <1>8, <1>9 DEF IInv

\* ASIOLoad takes an instance only when the global has none.
LEMMA ASIOLoadStep ==
  ASSUME IInv, NEW n \in Names \cup {NoName}, ASIOLoad(n)
  PROVE  IInv'
<1>1. /\ TypeOK /\ Places /\ Owned /\ NamedAsAsked /\ NamesKnown
      /\ UNCHANGED <<registered, drv_, pc, asked>>
  BY DEF IInv, ASIOLoad, wrapper
<1>2. CASE /\ answer' \in {"ASE_NoMemory", "ASE_NotPresent"}
           /\ UNCHANGED <<instance, theAsioDriver, askedC, pcC>>
  BY <1>1, <1>2 DEF IInv, TypeOK, Places, Owned, NamedAsAsked, NamesKnown
<1>3. CASE /\ theAsioDriver = NULL
           /\ \E o \in Fresh, kind \in Kinds : Loaded(o, kind) /\ theAsioDriver' = o
           /\ askedC' = n
           /\ pcC' = "future"
           /\ UNCHANGED answer
  <2>1. PICK o \in Fresh, kind \in Kinds : Loaded(o, kind) /\ theAsioDriver' = o
    BY <1>3
  <2>2. /\ instance' \in [Instances -> [live : BOOLEAN, kind : Kinds,
                                  name : Names \cup {NoName, Garbled}, ready : BOOLEAN]]
        /\ \A p \in Instances : p # o => instance'[p] = instance[p]
        /\ instance'[o].live
        /\ o \in Instances /\ ~instance[o].live
    BY <1>1, <2>1, LoadedFrame
  <2>3. instance'[o].name = NoName /\ ~instance'[o].ready
    BY <1>1, <2>1, <2>2 DEF Loaded, Nobody, TypeOK
  <2>4. \A d \in Devices : drv_[d] # o
    BY <1>1, <2>2 DEF Owned
  <2>5. TypeOK'
    BY <1>1, <1>3, <2>1, <2>2 DEF TypeOK
  <2>6. Places'
    BY <1>1, <2>1, <2>2, HostSessionAssumption DEF Places
  <2>7. Owned'
    BY <1>1, <1>3, <2>1, <2>2, <2>4, HostSessionAssumption DEF Owned
  <2>8. NamedAsAsked'
    BY <1>1, <2>2, <2>4 DEF NamedAsAsked, TypeOK
  <2>9. NamesKnown'
    BY <1>1, <1>3, <2>1, <2>2, <2>3, <2>4, SMTT(30) DEF NamesKnown, TypeOK, Places
  <2> QED BY <2>5, <2>6, <2>7, <2>8, <2>9 DEF IInv
<1> QED BY <1>2, <1>3 DEF ASIOLoad

\* The name that ASIOLoad was given, or none.
LEMMA ASIOLoadFutureStep ==
  ASSUME IInv, ASIOLoadFuture
  PROVE  IInv'
<1> DEFINE o == theAsioDriver
<1>1. /\ TypeOK /\ Places /\ Owned /\ NamedAsAsked /\ NamesKnown
      /\ o \in Instances /\ askedC \in Names \cup {NoName}
      /\ pcC' = "idle"
      /\ UNCHANGED <<registered, drv_, pc, asked, theAsioDriver, askedC>>
  BY DEF IInv, ASIOLoadFuture, Places, TypeOK, wrapper
<1>2. PICK err \in FutureResult(o, askedC) :
         /\ Renamed(o, askedC, err)
         /\ answer' = IF err \in {"ASE_SUCCESS", "ASE_InvalidParameter"}
                      THEN "ASE_OK" ELSE err
  BY DEF ASIOLoadFuture
<1>3. /\ instance' \in [Instances -> [live : BOOLEAN, kind : Kinds,
                                  name : Names \cup {NoName, Garbled}, ready : BOOLEAN]]
      /\ \A p \in Instances : p # o => instance'[p] = instance[p]
      /\ instance'[o].live = instance[o].live
      /\ instance'[o].kind = instance[o].kind
      /\ instance'[o].ready = instance[o].ready
      /\ IF Taken(o, askedC, err)
         THEN instance'[o].name # NoName /\ NamedFor(instance'[o], askedC)
         ELSE instance'[o] = instance[o]
  BY <1>1, <1>2, RenamedFrame
<1>4. \A d \in Devices : drv_[d] # o
  BY <1>1 DEF Owned
<1>5. answer' \in {"ASE_OK", "ASE_NotPresent", "ASE_HWMalfunction"}
  BY <1>1, <1>2, FutureResults
<1>6. TypeOK'
  BY <1>1, <1>3, <1>5 DEF TypeOK
<1>7. Places'
  BY <1>1 DEF Places
<1>8. Owned'
  BY <1>1, <1>3 DEF Owned
<1>9. NamedAsAsked'
  BY <1>1, <1>3, <1>4 DEF NamedAsAsked, TypeOK
<1>10. NamesKnown'
  BY <1>1, <1>3, <1>4 DEF NamesKnown, TypeOK, Places
<1> QED BY <1>6, <1>7, <1>8, <1>9, <1>10 DEF IInv

\* ASIOUnload ends the instance and clears the global.
LEMMA ASIOUnloadStep ==
  ASSUME IInv, ASIOUnload
  PROVE  IInv'
<1>1. /\ TypeOK /\ Places /\ Owned /\ NamedAsAsked /\ NamesKnown
      /\ pcC = "idle"
      /\ UNCHANGED <<registered, drv_, pc, asked, pcC, askedC>>
  BY DEF IInv, ASIOUnload, wrapper
<1>2. CASE /\ answer' = "ASE_InvalidParameter"
           /\ UNCHANGED <<instance, theAsioDriver>>
  BY <1>1, <1>2 DEF IInv, TypeOK, Places, Owned, NamedAsAsked, NamesKnown
<1>3. CASE /\ theAsioDriver # NULL
           /\ instance' = Unloaded(theAsioDriver)
           /\ theAsioDriver' = NULL
           /\ answer' = "ASE_OK"
  <2>1. /\ instance' \in [Instances -> [live : BOOLEAN, kind : Kinds,
                                  name : Names \cup {NoName, Garbled}, ready : BOOLEAN]]
        /\ \A p \in Instances : p # theAsioDriver => instance'[p] = instance[p]
        /\ ~instance'[theAsioDriver].live
        /\ theAsioDriver \in Instances
    BY <1>1, <1>3, UnloadedFrame DEF TypeOK
  <2>2. \A d \in Devices : drv_[d] # theAsioDriver
    BY <1>1, <2>1 DEF Owned
  <2>3. TypeOK'
    BY <1>1, <1>3, <2>1 DEF TypeOK
  <2>4. Places'
    BY <1>1 DEF Places
  <2>5. Owned'
    BY <1>1, <1>3, <2>1, <2>2, HostSessionAssumption DEF Owned
  <2>6. NamedAsAsked'
    BY <1>1, <2>1, <2>2 DEF NamedAsAsked, TypeOK
  <2>7. NamesKnown'
    BY <1>1, <1>3, <2>1, <2>2 DEF NamesKnown, TypeOK, Places
  <2> QED BY <2>3, <2>4, <2>5, <2>6, <2>7 DEF IInv
<1> QED BY <1>2, <1>3 DEF ASIOUnload

\* ASIOInit
LEMMA ASIOInitStep ==
  ASSUME IInv, ASIOInit
  PROVE  IInv'
<1>1. /\ TypeOK /\ Owned
      /\ UNCHANGED <<registered, drv_, pc, asked, theAsioDriver, pcC, askedC>>
  BY DEF IInv, ASIOInit, wrapper
<1>2. CASE theAsioDriver = NULL /\ answer' = "ASE_NotPresent" /\ UNCHANGED instance
  BY <1>1, <1>2 DEF IInv, TypeOK, Places, Owned, NamedAsAsked, NamesKnown
<1>3. CASE /\ theAsioDriver # NULL
           /\ Initialised(theAsioDriver)
           /\ answer' = IF InitResult(theAsioDriver) THEN "ASE_OK" ELSE "ASE_NotPresent"
  <2>1. theAsioDriver \in Instances
    BY <1>1, <1>3 DEF TypeOK
  <2>2. \A d \in Devices : pc[d] = "future" => drv_[d] # theAsioDriver
    BY <1>1, <2>1 DEF Owned
  <2>3. answer' \in {"none", "driver", "ASE_OK", "ASE_SUCCESS", "ASE_NoMemory", "ASE_NotPresent",
                     "ASE_InvalidParameter", "ASE_HWMalfunction"}
    BY <1>3
  <2> QED BY <1>1, <1>3, <2>1, <2>2, <2>3, InitialisedStep
<1> QED BY <1>2, <1>3 DEF ASIOInit

\* A name given to the C functions' driver later, which it takes or not.
LEMMA ASIOFutureStep ==
  ASSUME IInv, NEW n \in Names \cup {NoName}, ASIOFuture(n)
  PROVE  IInv'
<1> DEFINE o == theAsioDriver
<1>1. /\ TypeOK /\ Places /\ Owned /\ NamedAsAsked /\ NamesKnown
      /\ pcC = "idle"
      /\ UNCHANGED <<registered, drv_, pc, asked, theAsioDriver, pcC>>
  BY DEF IInv, ASIOFuture, wrapper
<1>2. CASE answer' = "ASE_NotPresent" /\ UNCHANGED <<instance, askedC>>
  BY <1>1, <1>2 DEF IInv, TypeOK, Places, Owned, NamedAsAsked, NamesKnown
<1>3. CASE /\ o # NULL
           /\ \E err \in FutureResult(o, n) :
                /\ Renamed(o, n, err)
                /\ askedC' = IF Taken(o, n, err) THEN n ELSE askedC
                /\ answer' = err
  <2>1. PICK err \in FutureResult(o, n) :
           /\ Renamed(o, n, err)
           /\ askedC' = IF Taken(o, n, err) THEN n ELSE askedC
           /\ answer' = err
    BY <1>3
  <2>2. o \in Instances
    BY <1>1, <1>3 DEF TypeOK
  <2>3. /\ instance' \in [Instances -> [live : BOOLEAN, kind : Kinds,
                                  name : Names \cup {NoName, Garbled}, ready : BOOLEAN]]
        /\ \A p \in Instances : p # o => instance'[p] = instance[p]
        /\ instance'[o].live = instance[o].live
        /\ instance'[o].kind = instance[o].kind
        /\ instance'[o].ready = instance[o].ready
        /\ IF Taken(o, n, err)
           THEN n \in Names /\ instance'[o].name # NoName /\ NamedFor(instance'[o], n)
           ELSE instance'[o] = instance[o]
    BY <1>1, <2>1, <2>2, RenamedFrame
  <2>4. \A d \in Devices : drv_[d] # o
    BY <1>1, <2>2 DEF Owned
  <2>5. answer' \in {"ASE_SUCCESS", "ASE_InvalidParameter", "ASE_NotPresent",
                     "ASE_HWMalfunction"}
    BY <2>1, <2>2, FutureResults
  <2>6. TypeOK'
    BY <1>1, <2>1, <2>3, <2>5 DEF TypeOK
  <2>7. Places'
    BY <1>1 DEF Places
  <2>8. Owned'
    BY <1>1, <2>3 DEF Owned
  <2>9. NamedAsAsked'
    BY <1>1, <2>3, <2>4 DEF NamedAsAsked, TypeOK
  <2>10. NamesKnown'
    BY <1>1, <2>1, <2>2, <2>3, <2>4 DEF NamesKnown, TypeOK, Places
  <2> QED BY <2>6, <2>7, <2>8, <2>9, <2>10 DEF IInv
<1> QED BY <1>2, <1>3 DEF ASIOFuture

\* The functions that pass a call on change nothing here.
LEMMA CallStep ==
  ASSUME IInv, Call
  PROVE  IInv'
BY DEF Call, IInv, TypeOK, Places, Owned, NamedAsAsked, NamesKnown, wrapper

-----------------------------------------------------------------------------
\* Every step keeps the invariant, one lemma for each action.
THEOREM Inductive == IInv /\ [Next]_vars => IInv'
<1> SUFFICES ASSUME IInv, [Next]_vars PROVE IInv'
  OBVIOUS
<1>1. ASSUME NEW n \in Names, Register(n) \/ Unregister(n) PROVE IInv'
  BY <1>1, RegistryStep DEF Register, Unregister, IInv, TypeOK
<1>2. ASSUME NEW d \in Devices, NEW n \in Names, GetParameter(d, n) PROVE IInv'
  BY <1>2, GetParameterStep
<1>3. ASSUME NEW d \in Devices,
             Load(d) \/ SetName(d) \/ InitDevice(d) \/ Destroy(d)
      PROVE  IInv'
  BY <1>3, LoadStep, SetNameStep, InitDeviceStep, DestroyStep
<1>4. ASSUME NEW d \in Devices, NEW s \in Devices, Move(d, s) PROVE IInv'
  BY <1>4, MoveStep
<1>5. ASSUME NEW n \in Names \cup {NoName},
             ASIOLoad(n) \/ ASIOFuture(n) \/ \E d \in Devices : DeviceFuture(d, n)
      PROVE  IInv'
  BY <1>5, ASIOLoadStep, ASIOFutureStep, DeviceFutureStep
<1>6. CASE ASIOLoadFuture \/ ASIOUnload \/ ASIOInit \/ Call
  BY <1>6, ASIOLoadFutureStep, ASIOUnloadStep, ASIOInitStep, CallStep
<1>7. CASE UNCHANGED vars
  <2>1. registered' \subseteq Names /\ UNCHANGED <<instance, wrapper, capi>>
    BY <1>7 DEF vars, IInv, TypeOK
  <2> QED BY <2>1, RegistryStep
<1> QED BY <1>1, <1>2, <1>3, <1>4, <1>5, <1>6, <1>7 DEF Next

\* The invariant holds in every behaviour.
THEOREM InvariantHolds == Spec => []IInv
BY Initially, Inductive, PTL DEF Spec

\* Every variable keeps its type in every behaviour.
THEOREM TypeCorrect == Spec => []TypeOK
<1>1. IInv => TypeOK
  BY DEF IInv
<1> QED BY <1>1, InvariantHolds, PTL

\* However constructors throw, objects are moved and loads are refused, an
\* instance has one owner for as long as it lives (cwASIO.cpp:34-70, asio.c:18-36).
THEOREM OwnedHolds == Spec => []Owned
<1>1. IInv => Owned
  BY DEF IInv
<1> QED BY <1>1, InvariantHolds, PTL

\* A Device that has been constructed has the name it was asked for or took since,
\* whatever happens to the registry meanwhile (cwASIO.cpp:59-69, cwASIO.hpp:169-172).
THEOREM NamedAsAskedHolds == Spec => []NamedAsAsked
<1>1. IInv => NamedAsAsked
  BY DEF IInv
<1> QED BY <1>1, InvariantHolds, PTL

\* What is ready for use has the name its owner gave last, by ASIOLoad, the
\* constructor or future(), and has one: by Owned it has an owner, and a Device
\* whose constructor is under way has no ready instance (asio.c:41, 149,
\* cwASIOdriver_skeleton.c:53).
THEOREM ReadyAsAskedHolds == Spec => []ReadyAsAsked
<1>1. IInv => ReadyAsAsked
  <2> SUFFICES ASSUME IInv, NEW o \in Instances, instance[o].live, instance[o].ready
               PROVE  \/ theAsioDriver = o /\ NamedFor(instance[o], askedC)
                      \/ \E d \in Devices : drv_[d] = o /\ NamedFor(instance[o], asked[d])
    BY DEF ReadyAsAsked
  <2>1. instance[o].kind = "legacy" \/ instance[o].name # NoName
    BY DEF IInv, NamesKnown
  <2>2. CASE theAsioDriver = o
    BY <2>1, <2>2, HostSessionAssumption DEF IInv, NamesKnown, NamedFor
  <2>3. CASE \E d \in Devices : drv_[d] = o
    <3>1. PICK d \in Devices : drv_[d] = o
      BY <2>3
    <3>2. pc[d] = "made" /\ drv_[d] # NULL
      BY <3>1, HostSessionAssumption DEF IInv, TypeOK, Places, NamesKnown
    <3> QED BY <3>1, <3>2 DEF IInv, NamedAsAsked
  <2> QED BY <2>2, <2>3 DEF IInv, Owned
<1> QED BY <1>1, InvariantHolds, PTL

\* When ASIOLoad returns success the instance has the name given, or needs none
\* (asio.c:26-27).  When none was given it has none, for nobody has named it yet.
THEOREM LoadedAsAskedHolds == Spec => LoadedAsAsked
<1> DEFINE Good == ASIOLoadFuture /\ answer' = "ASE_OK" =>
                     NamedFor(instance'[theAsioDriver], askedC)
<1>1. IInv /\ [Next]_vars => [Good]_vars
  <2> DEFINE o == theAsioDriver
  <2> SUFFICES ASSUME IInv, ASIOLoadFuture, answer' = "ASE_OK"
               PROVE  NamedFor(instance'[o], askedC)
    OBVIOUS
  <2>1. /\ TypeOK
        /\ o \in Instances /\ askedC \in Names \cup {NoName}
        /\ NamedFor(instance[o], askedC) \/ instance[o].name = NoName
    BY DEF IInv, ASIOLoadFuture, Places, NamesKnown, TypeOK
  <2>2. PICK err \in FutureResult(o, askedC) :
           /\ Renamed(o, askedC, err)
           /\ answer' = IF err \in {"ASE_SUCCESS", "ASE_InvalidParameter"}
                        THEN "ASE_OK" ELSE err
    BY DEF ASIOLoadFuture
  <2>3. err = "ASE_SUCCESS" \/ instance[o].kind = "legacy"
    BY <2>1, <2>2, FutureResults
  <2>4. /\ instance'[o].kind = instance[o].kind
        /\ IF Taken(o, askedC, err)
           THEN NamedFor(instance'[o], askedC)
           ELSE instance'[o] = instance[o]
    BY <2>1, <2>2, RenamedFrame
  <2> QED BY <2>1, <2>3, <2>4 DEF Taken, NamedFor, TypeOK, Kinds
<1> QED BY <1>1, InvariantHolds, PTL DEF Spec, LoadedAsAsked
=============================================================================
