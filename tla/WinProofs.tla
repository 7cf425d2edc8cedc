------------------------------ MODULE WinProofs ------------------------------
(* Proofs about WinRegistry and WinHost, for any sets of installers, threads, *)
(* names and classes.                                                         *)
EXTENDS WinHost, FiniteSetTheorems, WellFoundedInduction, TLAPS

-----------------------------------------------------------------------------
(* WinRegistry                                                               *)

\* The name is one that i works with; the pair is somebody's.
Ours(i, n) == \E c \in Clsid : <<n, c>> \in Duty[i]
Known(n, c) == \E i \in Installer : <<n, c>> \in Duty[i]

\* What an installer is busy with is its own duty; what it has read in an entry,
\* and is to remove the class of, is somebody's.
Assigned ==
  \A i \in Installer :
    /\ pc[i] \in Registering => <<name[i], clsid[i]>> \in Duty[i]
    /\ pc[i] \in {"read", "unlist", "declass"} => Ours(i, name[i])
    /\ pc[i] \in {"unlist", "declass"} /\ clsid[i] # Nothing => Known(name[i], clsid[i])

EntriesKnown == \A n \in Name : entry[n] # Nothing => Known(n, entry[n])

\* The class is made value by value before the entry, and goes after it.
InOrder ==
  \A i \in Installer :
    /\ pc[i] = "path" => "title" \in class[clsid[i]]
    /\ pc[i] = "ThreadingModel" => {"title", "path"} \subseteq class[clsid[i]]
    /\ pc[i] = "entry" => class[clsid[i]] = Values
    /\ pc[i] = "declass" => entry[name[i]] = Nothing

RInv == TypeOK /\ Assigned /\ EntriesKnown /\ InOrder /\ Loadable

LEMMA TypeInit == Init => TypeOK
BY DEF Init, TypeOK, PCs, Registering, Values

LEMMA TypeStep == TypeOK /\ [Next]_<<registry, installers>> => TypeOK'
<1> SUFFICES ASSUME TypeOK, [Next]_<<registry, installers>>
             PROVE  TypeOK'
  OBVIOUS
<1> USE DEF TypeOK, Registering, PCs, Values, registry, installers
<1>1. CASE UNCHANGED <<registry, installers>>
  BY <1>1
<1>2. ASSUME NEW i \in Installer, NEW n \in Name, NEW c \in Clsid, RegisterServer(i, n, c)
      PROVE  TypeOK'
  BY <1>2 DEF RegisterServer, Call
<1>3. ASSUME NEW i \in Installer, SetClassValue(i)
      PROVE  TypeOK'
  <2>1. /\ After(pc[i]) \in {"path", "ThreadingModel", "entry"}
        /\ pc[i] \in Values /\ clsid[i] \in Clsid
    BY <1>3 DEF SetClassValue, After
  <2>2. class' \in [Clsid -> SUBSET Values]
    BY <1>3, <2>1 DEF SetClassValue
  <2> QED BY <1>3, <2>1, <2>2 DEF SetClassValue, Goto
<1>4. ASSUME NEW i \in Installer, SetEntryClsid(i)
      PROVE  TypeOK'
  BY <1>4 DEF SetEntryClsid, Return
<1>5. ASSUME NEW i \in Installer, NEW n \in Name, UnregisterServer(i, n)
      PROVE  TypeOK'
  BY <1>5 DEF UnregisterServer, Call
<1>6. ASSUME NEW i \in Installer, GetEntryClsid(i)
      PROVE  TypeOK'
  BY <1>6 DEF GetEntryClsid
<1>7. ASSUME NEW i \in Installer, DeleteEntry(i)
      PROVE  TypeOK'
  <2>1. entry' \in [Name -> Clsid \cup {Nothing}] /\ UNCHANGED class
    BY <1>7 DEF DeleteEntry
  <2>2. CASE clsid[i] = Nothing
    BY <1>7, <2>1, <2>2 DEF DeleteEntry, Return
  <2>3. CASE clsid[i] # Nothing
    BY <1>7, <2>1, <2>3 DEF DeleteEntry, Goto
  <2> QED BY <2>2, <2>3
<1>8. ASSUME NEW i \in Installer, DeleteClass(i)
      PROVE  TypeOK'
  BY <1>8 DEF DeleteClass, Return
<1>9. ASSUME NEW i \in Installer, GiveUp(i)
      PROVE  TypeOK'
  BY <1>9 DEF GiveUp, Return
<1> QED BY <1>1, <1>2, <1>3, <1>4, <1>5, <1>6, <1>7, <1>8, <1>9
        DEF Next, Install, Uninstall

\* The values in the registry are class ids or nothing, and every installer that
\* is busy has a name (cwASIOdriver.c:188-264).
THEOREM TypeCorrect == Spec => []TypeOK
BY TypeInit, TypeStep, PTL DEF Spec

LEMMA RInit == Init => RInv
BY TypeInit DEF Init, RInv, Assigned, EntriesKnown, InOrder, Loadable, Registering

\* Two installers never have to do with the same class, under Apart.
LEMMA OneEntryPerClass ==
  ASSUME Apart, NEW i \in Installer, NEW j \in Installer, NEW m, NEW n, NEW c, NEW d,
         <<m, c>> \in Duty[i], <<n, d>> \in Duty[j]
  PROVE  (c = d => m = n) /\ (m = n => i = j)
<1> DEFINE x == <<m, c>>
           y == <<n, d>>
<1>1. /\ x[2] = y[2] => x[1] = y[1]
      /\ x[1] = y[1] => i = j
  BY DEF Apart
<1> QED BY <1>1

LEMMA RStep == ASSUME Apart PROVE RInv /\ [Next]_<<registry, installers>> => RInv'
<1> SUFFICES ASSUME RInv, [Next]_<<registry, installers>>
             PROVE  Assigned' /\ EntriesKnown' /\ InOrder' /\ Loadable'
  BY TypeStep DEF RInv
<1>t. TypeOK /\ TypeOK' /\ Assigned /\ EntriesKnown /\ InOrder /\ Loadable
  BY TypeStep DEF RInv
<1> USE <1>t, WinRegistryAssumption DEF Registering, Values
<1>1. CASE UNCHANGED <<registry, installers>>
  BY <1>1 DEF registry, installers, Assigned, EntriesKnown, InOrder, Loadable
<1>2. ASSUME NEW i \in Installer, NEW n \in Name, NEW c \in Clsid, RegisterServer(i, n, c)
      PROVE  Assigned' /\ EntriesKnown' /\ InOrder' /\ Loadable'
  BY <1>2 DEF RegisterServer, Call, registry, Ours, TypeOK, Assigned, EntriesKnown, InOrder, Loadable
<1>3. ASSUME NEW i \in Installer, SetClassValue(i)
      PROVE  Assigned' /\ EntriesKnown' /\ InOrder' /\ Loadable'
  <2>1. /\ pc[i] \in Values /\ clsid[i] \in Clsid
        /\ class' = [class EXCEPT ![clsid[i]] = @ \cup {pc[i]}]
        /\ pc' = [pc EXCEPT ![i] = After(pc[i])]
        /\ UNCHANGED <<entry, name, clsid>>
    BY <1>3 DEF SetClassValue, Goto, TypeOK
  <2>2. \A c \in Clsid : class[c] \subseteq class'[c] /\ class'[c] \subseteq Values
    BY <2>1 DEF TypeOK
  <2>3. Assigned' /\ EntriesKnown'
    BY <2>1 DEF After, TypeOK, Assigned, EntriesKnown
  <2>4. Loadable'
    BY <2>1, <2>2 DEF TypeOK, Loadable
  <2>5. ASSUME NEW j \in Installer
        PROVE  /\ pc'[j] = "path" => "title" \in class'[clsid[j]]
               /\ pc'[j] = "ThreadingModel" => {"title", "path"} \subseteq class'[clsid[j]]
               /\ pc'[j] = "entry" => class'[clsid[j]] = Values
               /\ pc'[j] = "declass" => entry[name[j]] = Nothing
    <3>1. CASE j = i
      BY <2>1, <3>1 DEF After, TypeOK, InOrder
    <3>2. CASE j # i
      BY <2>1, <2>2, <3>2 DEF TypeOK, InOrder
    <3> QED BY <3>1, <3>2
  <2> QED BY <2>1, <2>3, <2>4, <2>5 DEF InOrder
<1>4. ASSUME NEW i \in Installer, SetEntryClsid(i)
      PROVE  Assigned' /\ EntriesKnown' /\ InOrder' /\ Loadable'
  <2>1. /\ pc[i] = "entry" /\ name[i] \in Name /\ clsid[i] \in Clsid
        /\ entry' = [entry EXCEPT ![name[i]] = clsid[i]]
        /\ pc' = [pc EXCEPT ![i] = "idle"]
        /\ \A j \in Installer : j # i => name'[j] = name[j] /\ clsid'[j] = clsid[j]
        /\ UNCHANGED class
    BY <1>4 DEF SetEntryClsid, Return, TypeOK
  <2>2. Assigned' /\ EntriesKnown'
    <3>1. Known(name[i], clsid[i])
      BY <2>1 DEF Assigned, Known
    <3> QED BY <2>1, <3>1 DEF TypeOK, Assigned, EntriesKnown
  <2>3. Loadable'
    BY <2>1 DEF TypeOK, Loadable, InOrder
  <2>4. ASSUME NEW j \in Installer, pc'[j] = "declass"
        PROVE  entry'[name'[j]] = Nothing
    <3>1. j # i /\ pc[j] = "declass" /\ name'[j] = name[j] /\ name[j] \in Name
      BY <2>1, <2>4 DEF TypeOK
    <3>2. name[j] # name[i]
      BY <2>1, <3>1, OneEntryPerClass, ZenonT(30) DEF Assigned, Ours
    <3> QED BY <2>1, <3>1, <3>2 DEF InOrder, TypeOK
  <2> QED BY <2>1, <2>2, <2>3, <2>4 DEF InOrder, TypeOK
<1>5. ASSUME NEW i \in Installer, NEW n \in Name, UnregisterServer(i, n)
      PROVE  Assigned' /\ EntriesKnown' /\ InOrder' /\ Loadable'
  BY <1>5 DEF UnregisterServer, Call, registry, Ours, TypeOK, Assigned, EntriesKnown, InOrder, Loadable
<1>6. ASSUME NEW i \in Installer, GetEntryClsid(i)
      PROVE  Assigned' /\ EntriesKnown' /\ InOrder' /\ Loadable'
  BY <1>6 DEF GetEntryClsid, registry, TypeOK, Assigned, EntriesKnown, InOrder, Loadable
<1>7. ASSUME NEW i \in Installer, DeleteEntry(i)
      PROVE  Assigned' /\ EntriesKnown' /\ InOrder' /\ Loadable'
  <2>1. /\ pc[i] = "unlist" /\ name[i] \in Name
        /\ entry' = [entry EXCEPT ![name[i]] = Nothing]
        /\ UNCHANGED class
        /\ \/ pc' = [pc EXCEPT ![i] = "idle"]
           \/ clsid[i] # Nothing /\ pc' = [pc EXCEPT ![i] = "declass"]
              /\ name'[i] = name[i] /\ clsid'[i] = clsid[i]
        /\ \A j \in Installer : j # i => name'[j] = name[j] /\ clsid'[j] = clsid[j]
    BY <1>7 DEF DeleteEntry, Goto, Return, TypeOK
  <2> QED BY <2>1, SMTT(30) DEF TypeOK, Assigned, EntriesKnown, InOrder, Loadable
<1>8. ASSUME NEW i \in Installer, DeleteClass(i)
      PROVE  Assigned' /\ EntriesKnown' /\ InOrder' /\ Loadable'
  <2>1. /\ pc[i] = "declass" /\ name[i] \in Name /\ clsid[i] \in Clsid
        /\ pc' = [pc EXCEPT ![i] = "idle"]
        /\ \A c \in Clsid : c # clsid[i] => class'[c] = class[c]
        /\ \A j \in Installer : j # i => name'[j] = name[j] /\ clsid'[j] = clsid[j]
        /\ UNCHANGED entry
    BY <1>8 DEF DeleteClass, Return, TypeOK
  <2>2. PICK k \in Installer : <<name[i], clsid[i]>> \in Duty[k]
    BY <2>1 DEF Assigned, Known
  <2>3. Assigned' /\ EntriesKnown'
    BY <2>1 DEF TypeOK, Assigned, EntriesKnown
  <2>4. Loadable'
    <3> SUFFICES ASSUME NEW n \in Name, entry[n] # Nothing
                 PROVE  entry[n] # clsid[i]
      BY <2>1 DEF Loadable, TypeOK
    <3>1. PICK j \in Installer : <<n, entry[n]>> \in Duty[j]
      BY DEF EntriesKnown, Known
    <3> QED BY <2>1, <2>2, <3>1, OneEntryPerClass DEF InOrder
  <2>5. ASSUME NEW j \in Installer, pc'[j] \in Registering
        PROVE  clsid[j] # clsid[i] /\ j # i /\ pc'[j] = pc[j]
    <3>1. j # i /\ pc'[j] = pc[j]
      BY <2>1, <2>5 DEF TypeOK
    <3>2. <<name[j], clsid[j]>> \in Duty[j]
      BY <2>5, <3>1 DEF Assigned
    <3>3. PICK c \in Clsid : <<name[i], c>> \in Duty[i]
      BY <2>1 DEF Assigned, Ours
    <3> QED BY <2>2, <3>1, <3>2, <3>3, OneEntryPerClass
  <2>6. InOrder'
    BY <2>1, <2>5 DEF TypeOK, InOrder
  <2> QED BY <2>3, <2>4, <2>6
<1>9. ASSUME NEW i \in Installer, GiveUp(i)
      PROVE  Assigned' /\ EntriesKnown' /\ InOrder' /\ Loadable'
  BY <1>9 DEF GiveUp, Return, registry, TypeOK, Assigned, EntriesKnown, InOrder, Loadable
<1> QED BY <1>1, <1>2, <1>3, <1>4, <1>5, <1>6, <1>7, <1>8, <1>9
        DEF Next, Install, Uninstall

\* For any number of installers that fail or die anywhere: the class of a driver
\* that is listed is complete, if no two entries share a class and an entry is one
\* installer's business (cwASIOdriver.c:203-232, 254-262).
THEOREM LoadableHolds == ASSUME Apart PROVE Spec => []Loadable
<1>1. RInv => Loadable
  BY DEF RInv
<1> QED BY <1>1, RInit, RStep, PTL DEF Spec

-----------------------------------------------------------------------------
(* Sets of names                                                             *)

Under(S, n) == {m \in S : m < n}

\* How many of a set come before a name: the more of them are in it the more, and
\* fewer than before a later one, or than there are.
LEMMA Places ==
  ASSUME NEW S \in SUBSET Name, NEW T \in SUBSET Name, NEW m \in Name, NEW n \in Name
  PROVE  /\ IsFiniteSet(S) /\ Cardinality(S) \in Nat
         /\ Cardinality(Under(S, n)) \in Nat
         /\ Under(S, n) \subseteq T => Cardinality(Under(S, n)) <= Cardinality(Under(T, n))
         /\ n \in S => Cardinality(Under(S, n)) < Cardinality(S)
         /\ m \in S /\ m < n => Cardinality(Under(S, m)) < Cardinality(Under(S, n))
<1>1. IsFiniteSet(S) /\ IsFiniteSet(Under(S, n)) /\ IsFiniteSet(Under(S, m))
      /\ IsFiniteSet(Under(T, n))
  <2>1. /\ Under(S, n) \in SUBSET Name /\ Under(S, m) \in SUBSET Name
        /\ Under(T, n) \in SUBSET Name
    BY DEF Under
  <2> QED BY <2>1, FS_Subset, WinHostAssumption
<1>2. /\ Cardinality(S) \in Nat /\ Cardinality(Under(S, n)) \in Nat
      /\ Cardinality(Under(S, m)) \in Nat /\ Cardinality(Under(T, n)) \in Nat
  BY <1>1, FS_CardinalityType
<1>3. ASSUME Under(S, n) \subseteq T
      PROVE  Cardinality(Under(S, n)) <= Cardinality(Under(T, n))
  <2>1. Under(S, n) \in SUBSET Under(T, n)
    BY <1>3 DEF Under
  <2> QED BY <2>1, <1>1, FS_Subset
<1>4. ASSUME n \in S
      PROVE  Cardinality(Under(S, n)) < Cardinality(S)
  <2>1. Under(S, n) \in SUBSET S /\ n \notin Under(S, n)
    BY WinHostAssumption DEF Under
  <2>2. /\ Cardinality(Under(S, n)) <= Cardinality(S)
        /\ Cardinality(Under(S, n)) # Cardinality(S)
    BY <2>1, <1>1, <1>4, FS_Subset
  <2> QED BY <2>2, <1>2
<1>5. ASSUME m \in S, m < n
      PROVE  Cardinality(Under(S, m)) < Cardinality(Under(S, n))
  <2>0. m \in Nat /\ n \in Nat /\ \A z \in S : z \in Nat
    BY WinHostAssumption
  <2>1. Under(S, m) \in SUBSET Under(S, n) /\ m \in Under(S, n) /\ m \notin Under(S, m)
    <3>1. \A z \in Under(S, m) : z \in Under(S, n)
      BY <1>5, <2>0 DEF Under
    <3>2. m \in Under(S, n) /\ m \notin Under(S, m)
      BY <1>5, <2>0 DEF Under
    <3> QED BY <3>1, <3>2
  <2>2. /\ Cardinality(Under(S, m)) <= Cardinality(Under(S, n))
        /\ Cardinality(Under(S, m)) # Cardinality(Under(S, n))
    BY <2>1, <1>1, FS_Subset
  <2> QED BY <2>2, <1>2
<1> QED BY <1>1, <1>2, <1>3, <1>4, <1>5

LessThan == {p \in Nat \X Nat : p[1] < p[2]}

LEMMA LessThanWellFounded == IsWellFoundedOn(LessThan, Nat)
BY NatLessThanWellFounded DEF OpToRel, LessThan

\* A finite set of numbers has a greatest one: that above which there are fewest.
LEMMA MaxExists ==
  ASSUME NEW S \in SUBSET Nat, IsFiniteSet(S), S # {}
  PROVE  \E x \in S : \A y \in S : y <= x
<1> DEFINE Above(x) == {y \in S : y > x}
           Counts == {Cardinality(Above(x)) : x \in S}
<1>1. \A x \in S : IsFiniteSet(Above(x)) /\ Cardinality(Above(x)) \in Nat
  BY FS_Subset, FS_CardinalityType
<1>2. Counts \subseteq Nat /\ Counts # {}
  BY <1>1
<1>3. \E c \in Counts : \A d \in Counts : ~(<<d, c>> \in LessThan)
  <2> HIDE DEF Counts
  <2> QED BY <1>2, LessThanWellFounded, WFMin
<1>4. PICK x \in S : \A y \in S : ~(Cardinality(Above(y)) < Cardinality(Above(x)))
  BY <1>1, <1>3 DEF LessThan
<1>5. ASSUME NEW y \in S, ~(y <= x)
      PROVE  FALSE
  <2>1. y \in Above(x) /\ y \notin Above(y)
    BY <1>5
  <2>2. \A z \in Above(y) : z \in Above(x)
    BY <1>5
  <2>3. Above(y) \in SUBSET Above(x) /\ Above(y) # Above(x)
    BY <2>1, <2>2
  <2>4. /\ Cardinality(Above(y)) <= Cardinality(Above(x))
        /\ Cardinality(Above(y)) # Cardinality(Above(x))
    <3> HIDE DEF Above
    <3> QED BY <2>3, <1>1, FS_Subset
  <2> QED BY <2>4, <1>1, <1>4
<1> QED BY <1>5

\* MaxLength is what RegQueryInfoKey promises.
LEMMA MaxLengthFits ==
  MaxLength \in Nat /\ \A n \in Listed : Length[n] <= MaxLength
<1> DEFINE Lengths == {Length[n] : n \in Listed} \cup {0}
<1>1. Listed \in SUBSET Name /\ IsFiniteSet(Listed)
  BY FS_Subset, WinHostAssumption DEF Listed
<1>2. IsFiniteSet({Length[n] : n \in Listed})
  <2>1. [n \in Listed |-> Length[n]] \in Surjection(Listed, {Length[n] : n \in Listed})
    BY DEF Surjection
  <2> QED BY <2>1, <1>1, FS_Surjection
<1>3. IsFiniteSet(Lengths) /\ Lengths \in SUBSET Nat /\ Lengths # {}
  BY <1>1, <1>2, FS_AddElement, WinHostAssumption
<1>4. \E l \in Lengths : \A k \in Lengths : k <= l
  <2> HIDE DEF Lengths
  <2> QED BY <1>3, MaxExists
<1>5. \E l \in Lengths : \A n \in Listed : Length[n] <= l
  BY <1>4
<1> QED BY <1>3, <1>5 DEF MaxLength

-----------------------------------------------------------------------------
(* WinHost: the threads, and COM                                             *)

\* To the registry and the installers a host changes nothing.
LEMMA HostRuns == HostSpec => Spec
<1>1. HostInit => Init
  BY DEF HostInit
<1>2. [HostNext /\ Observe]_hostVars => [Next]_<<registry, installers>>
  BY DEF HostNext, hostVars
<1> QED BY <1>1, <1>2, PTL DEF HostSpec, Spec

\* The same in the company of hosts.
THEOREM LoadableInHosts == ASSUME Apart PROVE HostSpec => []Loadable
BY HostRuns, LoadableHolds

LEMMA AnswersAre ==
  /\ "none" \in Answers /\ "error" \in Answers /\ "end" \in Answers /\ "stopped" \in Answers
  /\ "found" \in Answers /\ "loaded" \in Answers /\ "null" \in Answers
  /\ "exhausted" \in Answers
BY DEF Answers

\* A thread that is in CoInitializeEx or CoCreateInstance is in cwASIOload.
InLoad == \A h \in Host : hpc[h] \in {"load", "create"} => loading[h] # "none"

ThreadsOK ==
  /\ hpc \in [Host -> {"idle", "load", "create", "open", "key", "value"}]
  /\ loading \in [Host -> {"none", "load", "device"}]
  /\ want \in [Host -> Clsid \cup {Nothing}]
  /\ room \in [Host -> Nat] /\ index \in [Host -> Nat]
  /\ current \in [Host -> Name \cup {Nothing}]
  /\ com \in [Host -> Nat] /\ drivers \in [Host -> Nat] /\ nulls \in [Host -> Nat]
  /\ lost \in [Host -> Nat]
  /\ ret \in [Host -> Answers]

HistoryOK ==
  /\ quiet \in [Host -> SUBSET Name]
  /\ firm \in [Host -> SUBSET Name] /\ still \in [Host -> SUBSET Name]
  /\ told \in [Host -> [Name -> Nat]]
  /\ \A h \in Host : /\ quiet[h] \subseteq Listed
                     /\ firm[h] \subseteq quiet[h] /\ still[h] \subseteq quiet[h]

CInv == ThreadsOK /\ InLoad /\ ComExact

\* A constructor of a Device loads by the CLSID it has read, or returns.
LEMMA DeviceLoads ==
  ASSUME TypeOK, NEW h \in Host, NEW n \in Name, Device(h, n)
  PROVE  \/ \E c \in Clsid : Load(h, "device", c)
         \/ hpc[h] = "idle" /\ HostReturn(h, "none") /\ UNCHANGED loads
<1>1. GetParameter(n) # "ASE_NotPresent" => GetParameter(n) \in Clsid
  BY DEF GetParameter, TypeOK
<1> QED BY <1>1 DEF Device

LEMMA CInit == HostInit => CInv
BY AnswersAre DEF HostInit, CInv, ThreadsOK, InLoad, ComExact

\* A call returns: the thread is idle, the others are as they were.
LEMMA Returned ==
  ASSUME ThreadsOK, NEW h \in Host, NEW res \in Answers, HostReturn(h, res)
  PROVE  /\ hpc' \in [Host -> {"idle", "load", "create", "open", "key", "value"}]
         /\ loading' \in [Host -> {"none", "load", "device"}]
         /\ want' \in [Host -> Clsid \cup {Nothing}]
         /\ room' \in [Host -> Nat] /\ index' \in [Host -> Nat]
         /\ current' \in [Host -> Name \cup {Nothing}]
         /\ ret' \in [Host -> Answers] /\ ret'[h] = res
         /\ hpc'[h] = "idle" /\ loading'[h] = "none"
         /\ \A g \in Host : g # h => hpc'[g] = hpc[g] /\ loading'[g] = loading[g]
BY DEF HostReturn, ThreadsOK

\* After a call that returns it is for the thread's own counts to agree.
LEMMA ReturnedExact ==
  ASSUME CInv, NEW h \in Host, NEW res \in Answers, HostReturn(h, res),
         com' \in [Host -> Nat], drivers' \in [Host -> Nat], nulls' \in [Host -> Nat],
         lost' \in [Host -> Nat],
         com'[h] = drivers'[h] + nulls'[h] + lost'[h],
         \A g \in Host : g # h => /\ com'[g] = com[g] /\ drivers'[g] = drivers[g]
                                 /\ nulls'[g] = nulls[g] /\ lost'[g] = lost[g]
  PROVE  CInv'
<1>1. ThreadsOK' /\ InLoad'
  BY Returned DEF CInv, InLoad, ThreadsOK
<1>2. ASSUME NEW g \in Host
      PROVE  com'[g] = drivers'[g] + nulls'[g] + lost'[g]
               + IF loading'[g] # "none" /\ hpc'[g] \notin {"idle", "load"} THEN 1 ELSE 0
  <2>1. CASE g = h
    BY <2>1, Returned DEF CInv, ThreadsOK
  <2>2. CASE g # h
    BY <2>2, Returned DEF CInv, ComExact
  <2> QED BY <2>1, <2>2
<1> QED BY <1>1, <1>2 DEF CInv, ComExact

\* The end of a scan: in a load COM stays initialised for what it gives.
LEMMA EndScanKeeps ==
  ASSUME CInv, NEW h \in Host, NEW res \in Answers, EndScan(h, res), hpc[h] \in {"open", "key", "value"}
  PROVE  CInv'
<1>1. /\ com[h] \in Nat /\ drivers[h] \in Nat /\ nulls[h] \in Nat /\ lost[h] \in Nat
      /\ com[h] = drivers[h] + nulls[h] + lost[h] + IF loading[h] # "none" THEN 1 ELSE 0
  BY DEF CInv, ThreadsOK, ComExact
<1>2. CASE loading[h] = "none"
  <2>1. HostReturn(h, res) /\ UNCHANGED <<com, drivers, nulls, lost>>
    BY <1>2 DEF EndScan, loads
  <2> QED BY <1>1, <1>2, <2>1, ReturnedExact DEF CInv, ThreadsOK
<1>3. CASE loading[h] # "none" /\ res = "found"
  <2>1. HostReturn(h, "loaded") /\ drivers' = [drivers EXCEPT ![h] = @ + 1]
        /\ UNCHANGED <<com, nulls, lost>>
    BY <1>3 DEF EndScan, QueryInterface
  <2> QED BY <1>1, <1>3, <2>1, AnswersAre, ReturnedExact DEF CInv, ThreadsOK
<1>4. CASE loading[h] # "none" /\ res # "found"
  <2>1. /\ HostReturn(h, "null")
        /\ \/ nulls' = [nulls EXCEPT ![h] = @ + 1] /\ UNCHANGED lost
           \/ lost' = [lost EXCEPT ![h] = @ + 1] /\ UNCHANGED nulls
        /\ UNCHANGED <<com, drivers>>
    BY <1>4 DEF EndScan, QueryInterface
  <2> QED BY <1>1, <1>4, <2>1, AnswersAre, ReturnedExact DEF CInv, ThreadsOK
<1> QED BY <1>2, <1>3, <1>4 DEF CInv, ThreadsOK

LEMMA CStep == CInv /\ TypeOK /\ [HostNext /\ Observe]_hostVars => CInv'
<1> SUFFICES ASSUME CInv, TypeOK, [HostNext /\ Observe]_hostVars
             PROVE  CInv'
  OBVIOUS
<1> USE AnswersAre DEF CInv, ThreadsOK, InLoad, ComExact, call, scan, loads
<1>1. CASE UNCHANGED <<hpc, call, scan, loads, ret>>
  BY <1>1
<1>2. ASSUME NEW h \in Host, NEW c \in Clsid \cup {Nothing}, Enumerate(h, c)
      PROVE  CInv'
  BY <1>2 DEF Enumerate, Begin
<1>3. ASSUME NEW h \in Host, NEW loader \in {"load", "device"}, NEW c \in Clsid,
             Load(h, loader, c)
      PROVE  CInv'
  BY <1>3 DEF Load, Begin
<1>4. ASSUME NEW h \in Host, NEW n \in Name, Device(h, n)
      PROVE  CInv'
  <2>1. CASE hpc[h] = "idle" /\ HostReturn(h, "none") /\ UNCHANGED loads
    BY <2>1 DEF HostReturn
  <2> QED BY <1>3, <1>4, <2>1, DeviceLoads
<1>5. ASSUME NEW h \in Host, OpenKey(h)
      PROVE  CInv'
  <2>1. CASE EndScan(h, "error") \/ EndScan(h, "end")
    <3> HIDE DEF CInv
    <3> QED BY <1>5, <2>1, EndScanKeeps DEF OpenKey
  <2>2. CASE ~(EndScan(h, "error") \/ EndScan(h, "end"))
    BY <1>5, <2>2, MaxLengthFits DEF OpenKey, HostGoto
  <2> QED BY <2>1, <2>2
<1>6. ASSUME NEW h \in Host, EnumKey(h)
      PROVE  CInv'
  <2>1. CASE EndScan(h, "end")
    <3> HIDE DEF CInv
    <3> QED BY <1>6, <2>1, EndScanKeeps DEF EnumKey
  <2>2. CASE ~EndScan(h, "end")
    <3>1. PICK n \in Listed :
            /\ IF Length[n] <= room[h]
               THEN /\ current' = [current EXCEPT ![h] = n]
                    /\ HostGoto(h, "value")
                    /\ UNCHANGED index
               ELSE /\ index' = [index EXCEPT ![h] = @ + 1]
                    /\ UNCHANGED <<current, hpc, ret, call>>
            /\ UNCHANGED <<room, loads>>
      BY <1>6, <2>2 DEF EnumKey
    <3>2. n \in Name
      BY DEF Listed
    <3>3. CASE Length[n] <= room[h]
      BY <1>6, <3>1, <3>2, <3>3 DEF EnumKey, HostGoto
    <3>4. CASE ~(Length[n] <= room[h])
      BY <1>6, <3>1, <3>4 DEF EnumKey
    <3> QED BY <3>3, <3>4
  <2> QED BY <2>1, <2>2
<1>7. ASSUME NEW h \in Host, Callback(h)
      PROVE  CInv'
  <2>1. CASE EndScan(h, "found") \/ EndScan(h, "stopped")
    <3> HIDE DEF CInv
    <3> QED BY <1>7, <2>1, EndScanKeeps DEF Callback
  <2>2. CASE ~(EndScan(h, "found") \/ EndScan(h, "stopped"))
    <3>1. /\ hpc[h] = "value" /\ index' = [index EXCEPT ![h] = @ + 1]
          /\ HostGoto(h, "key")
          /\ UNCHANGED <<room, current, com, drivers, nulls, lost>>
      BY <1>7, <2>2 DEF Callback
    <3> QED BY <3>1 DEF HostGoto
  <2> QED BY <2>1, <2>2
<1>8. ASSUME NEW h \in Host, CoInitialize(h)
      PROVE  CInv'
  <2>1. CASE HostReturn(h, "error")
    <3>1. hpc'[h] = "idle" /\ hpc[h] = "load"
      BY <1>8, <2>1, Returned DEF CoInitialize
    <3>2. ~HostGoto(h, "create")
      BY <3>1 DEF HostGoto
    <3>3. UNCHANGED <<com, drivers, nulls, lost>>
      BY <1>8, <3>2 DEF CoInitialize
    <3>4. com[h] = drivers[h] + nulls[h] + lost[h]
      BY <3>1
    <3> QED BY <2>1, <3>3, <3>4, ReturnedExact
  <2>2. CASE ~HostReturn(h, "error")
    BY <1>8, <2>2 DEF CoInitialize, HostGoto
  <2> QED BY <2>1, <2>2
<1>9. ASSUME NEW h \in Host, CoCreateInstance(h)
      PROVE  CInv'
  <2>1. CASE HostGoto(h, "open")
    <3>1. hpc'[h] = "open" /\ hpc[h] = "create"
      BY <1>9, <2>1 DEF CoCreateInstance, HostGoto
    <3>2. ~HostReturn(h, "exhausted") /\ ~HostReturn(h, "error")
      BY <3>1 DEF HostReturn
    <3>3. UNCHANGED <<com, drivers, nulls, lost, scan>>
      BY <1>9, <3>2 DEF CoCreateInstance
    <3> QED BY <2>1, <3>1, <3>3 DEF HostGoto
  <2>2. CASE ~HostGoto(h, "open")
    <3>1. /\ HostReturn(h, "exhausted") \/ HostReturn(h, "error")
          /\ com' = [com EXCEPT ![h] = @ - 1]
          /\ UNCHANGED <<drivers, nulls, lost>>
          /\ com[h] = drivers[h] + nulls[h] + lost[h] + 1
      BY <1>9, <2>2 DEF CoCreateInstance
    <3>2. com' \in [Host -> Nat] /\ com'[h] = drivers'[h] + nulls'[h] + lost'[h]
      BY <3>1
    <3> QED BY <3>1, <3>2, ReturnedExact
  <2> QED BY <2>1, <2>2
<1>10. ASSUME NEW h \in Host, Unload(h)
       PROVE  CInv'
  <2>1. CASE drivers[h] > 0 /\ drivers' = [drivers EXCEPT ![h] = @ - 1] /\ UNCHANGED <<nulls, lost>>
    BY <1>10, <2>1 DEF Unload, HostReturn
  <2>2. CASE nulls[h] > 0 /\ nulls' = [nulls EXCEPT ![h] = @ - 1] /\ UNCHANGED <<drivers, lost>>
    BY <1>10, <2>2 DEF Unload, HostReturn
  <2> QED BY <1>10, <2>1, <2>2 DEF Unload
<1> HIDE DEF CInv
<1> QED BY <1>1, <1>2, <1>3, <1>4, <1>5, <1>6, <1>7, <1>8, <1>9, <1>10
        DEF HostNext, HostStep, hostVars, threads

\* COM is initialised on a thread exactly once for each load that can be undone, for
\* the one under way and for each Device that threw on a null pointer
\* (cwASIO.c:64-83, cwASIO.cpp:48-54).
THEOREM ComExactHolds == HostSpec => []ComExact
<1>1. CInv => ComExact
  BY DEF CInv
<1>2. HostSpec => []TypeOK
  BY HostRuns, TypeCorrect
<1>3. HostSpec => []CInv
  BY <1>2, CInit, CStep, PTL DEF HostSpec
<1> QED BY <1>1, <1>3, PTL

-----------------------------------------------------------------------------
(* WinHost: what a scan tells                                                *)

LEMMA HistoryInit == HostInit => HistoryOK
BY DEF HostInit, HistoryOK

LEMMA HistoryStep == HistoryOK /\ [HostNext /\ Observe]_hostVars => HistoryOK'
<1> SUFFICES ASSUME HistoryOK, [HostNext /\ Observe]_hostVars
             PROVE  HistoryOK'
  OBVIOUS
<1>1. CASE UNCHANGED hostVars
  BY <1>1 DEF hostVars, threads, history, registry, HistoryOK, Listed
<1>2. CASE Observe
  <2>1. Listed' \subseteq Name
    BY DEF Listed
  <2>2. /\ quiet' \in [Host -> SUBSET Name]
        /\ \A h \in Host : quiet'[h] \subseteq Listed'
    BY <1>2, <2>1 DEF Observe
  <2>3. /\ firm' \in [Host -> SUBSET Name]
        /\ \A h \in Host : firm'[h] \subseteq quiet'[h]
    BY <1>2, <2>2 DEF Observe
  <2>4. /\ still' \in [Host -> SUBSET Name]
        /\ \A h \in Host : still'[h] \subseteq quiet'[h]
    BY <1>2, <2>2 DEF Observe
  <2>5. told' \in [Host -> [Name -> Nat]]
    BY <1>2 DEF Observe, HistoryOK
  <2> QED BY <2>2, <2>3, <2>4, <2>5 DEF HistoryOK
<1> QED BY <1>1, <1>2

\* Every variable of a host keeps its type; that com does is ComExact's merit
\* (cwASIO.c:64-83).
THEOREM HostTypeCorrect == HostSpec => []HostTypeOK
<1>1. TypeOK /\ CInv /\ HistoryOK => HostTypeOK
  BY DEF CInv, ThreadsOK, HistoryOK, HostTypeOK
<1>2. HostSpec => []TypeOK
  BY HostRuns, TypeCorrect
<1>3. HostSpec => []CInv
  BY <1>2, CInit, CStep, PTL DEF HostSpec
<1>4. HostSpec => []HistoryOK
  BY HistoryInit, HistoryStep, PTL DEF HostSpec
<1> QED BY <1>1, <1>2, <1>3, <1>4, PTL

\* How many keys come before that of n.
Place(n) == Cardinality(Under(Listed, n))

Current(h, n) == hpc[h] = "value" /\ n = current[h]

\* The scan has asked for n already, and told of it.
Passed(h, n) == IF hpc[h] = "value" THEN n # current[h] /\ Place(n) <= index[h]
                ELSE Place(n) < index[h]

ScanOK(h) ==
  /\ \A n \in quiet[h] : Length[n] <= room[h]
  /\ \A n \in firm[h] :
       /\ Passed(h, n) => told[h][n] > 0 /\ (want[h] # Nothing => entry[n] # want[h])
       /\ Current(h, n) => Place(n) >= index[h]
  /\ \A n \in still[h] :
       /\ told[h][n] <= IF Place(n) < index[h] THEN 1 ELSE 0
       /\ Current(h, n) => told[h][n] = 0 /\ Place(n) <= index[h]

ScanInv == \A h \in Host : Scanning(h) => ScanOK(h)

\* While a scan is under way the sets of its history shrink, and places before a
\* firm name do not come free, before a still one are not taken.
LEMMA Observed ==
  ASSUME HistoryOK, HistoryOK', ThreadsOK, Observe, NEW h \in Host, Scanning(h)
  PROVE  /\ \A n \in quiet'[h] : /\ n \in quiet[h] /\ n \in Name /\ entry'[n] = entry[n]
                                 /\ told'[h][n] = told[h][n] + IF Tells(h, n) THEN 1 ELSE 0
                                 /\ told[h][n] \in Nat /\ Place(n) \in Nat /\ Place(n)' \in Nat
         /\ \A n \in firm'[h] : n \in quiet'[h] /\ n \in firm[h] /\ Place(n) <= Place(n)'
         /\ \A n \in still'[h] : n \in quiet'[h] /\ n \in still[h] /\ Place(n)' <= Place(n)
<1>0. /\ Listed \in SUBSET Name /\ Listed' \in SUBSET Name
      /\ hpc[h] # "idle"
      /\ quiet[h] \subseteq Name /\ quiet'[h] \subseteq Name
      /\ firm'[h] \subseteq quiet'[h] /\ still'[h] \subseteq quiet'[h]
  BY DEF Listed, Scanning, HistoryOK
<1>1. ASSUME NEW n \in Name
      PROVE  /\ Place(n) \in Nat /\ Place(n)' \in Nat
             /\ Below(n) \subseteq Listed' => Place(n) <= Place(n)'
             /\ Below(n)' \subseteq Listed => Place(n)' <= Place(n)
  <2>1. Below(n) = Under(Listed, n) /\ Below(n)' = Under(Listed', n)
    BY DEF Below, Under
  <2> QED BY <1>0, <2>1, Places DEF Place
<1>2. \A n \in quiet'[h] : /\ n \in quiet[h] /\ n \in Name /\ entry'[n] = entry[n]
                           /\ told'[h][n] = told[h][n] + IF Tells(h, n) THEN 1 ELSE 0
                           /\ told[h][n] \in Nat /\ Place(n) \in Nat /\ Place(n)' \in Nat
  <2> TAKE n \in quiet'[h]
  <2>1. n \in quiet[h] /\ n \in Name /\ entry'[n] = entry[n]
    BY <1>0 DEF Observe
  <2>2. told'[h][n] = told[h][n] + IF Tells(h, n) THEN 1 ELSE 0
    BY <2>1 DEF Observe
  <2>3. told[h][n] \in Nat
    BY <2>1 DEF HistoryOK
  <2> QED BY <1>1, <2>1, <2>2, <2>3
<1>3. \A n \in firm'[h] : n \in quiet'[h] /\ n \in firm[h] /\ Place(n) <= Place(n)'
  <2> TAKE n \in firm'[h]
  <2>1. n \in firm[h] /\ Below(n) \subseteq Listed'
    BY DEF Observe
  <2> QED BY <1>0, <1>1, <2>1
<1>4. \A n \in still'[h] : n \in quiet'[h] /\ n \in still[h] /\ Place(n)' <= Place(n)
  <2> TAKE n \in still'[h]
  <2>1. n \in still[h] /\ Below(n)' \subseteq Listed
    BY DEF Observe
  <2> QED BY <1>0, <1>1, <2>1
<1> QED BY <1>2, <1>3, <1>4

\* Whatever the installers and the other threads do meanwhile, a scan keeps what it
\* has told.
LEMMA ScanKept ==
  ASSUME HistoryOK, HistoryOK', ThreadsOK, Observe, NEW h \in Host, Scanning(h), ScanOK(h),
         hpc'[h] = hpc[h], want'[h] = want[h], room'[h] = room[h], index'[h] = index[h],
         current'[h] = current[h]
  PROVE  ScanOK(h)'
<1>0. /\ \A n \in quiet'[h] : told'[h][n] = told[h][n]
      /\ index[h] \in Nat
  BY Observed DEF Tells, Scanning, ThreadsOK
<1>1. \A n \in quiet'[h] : Length[n] <= room'[h]
  BY Observed DEF ScanOK
<1>2. ASSUME NEW n \in firm'[h]
      PROVE  /\ Passed(h, n)' => told'[h][n] > 0 /\ (want'[h] # Nothing => entry'[n] # want'[h])
             /\ Current(h, n)' => Place(n)' >= index'[h]
  <2>1. /\ n \in firm[h] /\ n \in quiet'[h] /\ entry'[n] = entry[n]
        /\ Place(n) <= Place(n)' /\ Place(n) \in Nat /\ Place(n)' \in Nat
    BY Observed
  <2>2. Passed(h, n)' => Passed(h, n)
    BY <1>0, <2>1 DEF Passed
  <2>3. Current(h, n)' => Current(h, n)
    BY DEF Current
  <2> QED BY <1>0, <2>1, <2>2, <2>3 DEF ScanOK
<1>3. ASSUME NEW n \in still'[h]
      PROVE  /\ told'[h][n] <= IF Place(n)' < index'[h] THEN 1 ELSE 0
             /\ Current(h, n)' => told'[h][n] = 0 /\ Place(n)' <= index'[h]
  <2>1. /\ n \in still[h] /\ n \in quiet'[h] /\ told[h][n] \in Nat
        /\ Place(n)' <= Place(n) /\ Place(n) \in Nat /\ Place(n)' \in Nat
    BY Observed
  <2>2. /\ told[h][n] <= IF Place(n) < index[h] THEN 1 ELSE 0
        /\ Current(h, n) => told[h][n] = 0 /\ Place(n) <= index[h]
    BY <2>1 DEF ScanOK
  <2>3. Current(h, n)' => Current(h, n)
    BY DEF Current
  <2> QED BY <1>0, <2>1, <2>2, <2>3
<1> QED BY <1>1, <1>2, <1>3 DEF ScanOK

\* The scan of a thread that takes a step itself: nothing moves in the registry.
LEMMA Unmoved ==
  ASSUME HistoryOK, Observe, UNCHANGED registry, NEW h \in Host
  PROVE  /\ Listed' = Listed /\ \A n : Place(n)' = Place(n)
         /\ quiet'[h] \subseteq Listed
         /\ Scanning(h) => /\ quiet'[h] = quiet[h] /\ firm'[h] = firm[h]
                           /\ still'[h] = still[h]
<1>1. Listed' = Listed /\ UNCHANGED entry
  BY DEF registry, Listed
<1>2. \A n : Place(n)' = Place(n) /\ Below(n)' = Below(n)
  BY <1>1 DEF Place, Below
<1>3. quiet'[h] \subseteq Listed
  BY <1>1 DEF Observe
<1>4. ASSUME Scanning(h)
      PROVE  quiet'[h] = quiet[h] /\ firm'[h] = firm[h] /\ still'[h] = still[h]
  <2>1. quiet'[h] = quiet[h]
    BY <1>1, <1>4 DEF Observe, Scanning, HistoryOK
  <2>2. firm'[h] = firm[h]
    BY <1>1, <1>4, <2>1 DEF Observe, HistoryOK, Below
  <2>3. still'[h] = still[h]
    BY <1>1, <1>2, <1>4, <2>1 DEF Observe, HistoryOK, Below
  <2> QED BY <2>1, <2>2, <2>3
<1> QED BY <1>1, <1>2, <1>3, <1>4

\* A step of one thread is nothing to another's scan.
LEMMA OthersStay ==
  ASSUME TypeOK, ThreadsOK, NEW g \in Host, NEW h \in Host, h # g, HostStep(g)
  PROVE  /\ hpc'[h] = hpc[h] /\ want'[h] = want[h] /\ room'[h] = room[h]
         /\ index'[h] = index[h] /\ current'[h] = current[h]
<1> USE DEF ThreadsOK, call, scan, Begin, HostGoto, HostReturn
<1>1. CASE \E c \in Clsid \cup {Nothing} : Enumerate(g, c)
  BY <1>1 DEF Enumerate
<1>2. CASE \E loader \in {"load", "device"}, c \in Clsid : Load(g, loader, c)
  BY <1>2 DEF Load
<1>3. CASE \E n \in Name : Device(g, n)
  BY <1>2, <1>3, DeviceLoads DEF Load
<1>4. CASE OpenKey(g)
  BY <1>4 DEF OpenKey, EndScan, QueryInterface
<1>5. CASE EnumKey(g)
  BY <1>5 DEF EnumKey, EndScan, QueryInterface
<1>6. CASE Callback(g)
  BY <1>6 DEF Callback, EndScan, QueryInterface
<1>7. CASE CoInitialize(g)
  BY <1>7 DEF CoInitialize
<1>8. CASE CoCreateInstance(g)
  BY <1>8 DEF CoCreateInstance
<1>9. CASE Unload(g)
  BY <1>9 DEF Unload
<1> QED BY <1>1, <1>2, <1>3, <1>4, <1>5, <1>6, <1>7, <1>8, <1>9 DEF HostStep

LEMMA ScanEnds ==
  ASSUME ThreadsOK, NEW h \in Host, NEW res \in Answers, EndScan(h, res)
  PROVE  hpc'[h] = "idle"
BY AnswersAre, Returned DEF EndScan, QueryInterface

\* A scan starts with a buffer for every name, and has told of nothing.
LEMMA OpenKeyScans ==
  ASSUME HistoryOK, HistoryOK', ThreadsOK, Observe, UNCHANGED registry, NEW h \in Host,
         OpenKey(h), Scanning(h)'
  PROVE  ScanOK(h)'
<1>1. /\ room'[h] = MaxLength /\ index'[h] = 0
      /\ hpc[h] = "open" /\ hpc'[h] = "key"
  BY AnswersAre, ScanEnds DEF OpenKey, HostGoto, ThreadsOK, Scanning
<1>2. \A n \in quiet'[h] : Length[n] <= room'[h]
  BY <1>1, Unmoved, MaxLengthFits
<1>3. \A n \in quiet'[h] : told'[h][n] = 0 /\ Place(n)' \in Nat
  <2> TAKE n \in quiet'[h]
  <2>1. n \in Name /\ Listed' \in SUBSET Name
    BY DEF HistoryOK, Listed
  <2>2. told'[h][n] = 0
    BY <1>1, <2>1 DEF Observe, Scanning
  <2> QED BY <2>1, <2>2, Places DEF Place
<1>4. firm'[h] \subseteq quiet'[h] /\ still'[h] \subseteq quiet'[h]
  BY DEF HistoryOK
<1> QED BY <1>1, <1>2, <1>3, <1>4 DEF ScanOK, Passed, Current

\* Two keys have not the same place.
LEMMA PlacesDiffer ==
  ASSUME NEW m \in Listed, NEW n \in Listed, Place(m) = Place(n)
  PROVE  m = n
<1>1. Listed \in SUBSET Name /\ m \in Nat /\ n \in Nat
  BY WinHostAssumption DEF Listed
<1>2. /\ m < n => Cardinality(Under(Listed, m)) < Cardinality(Under(Listed, n))
      /\ n < m => Cardinality(Under(Listed, n)) < Cardinality(Under(Listed, m))
      /\ Place(m) \in Nat /\ Place(n) \in Nat
  BY <1>1, Places DEF Place
<1> QED BY <1>1, <1>2 DEF Place

\* The key that RegEnumKeyEx returns is the one at its place; it is passed over only
\* if its name is longer than any was at the start.
LEMMA EnumKeyScans ==
  ASSUME HistoryOK, HistoryOK', ThreadsOK, Observe, UNCHANGED registry, NEW h \in Host,
         ScanOK(h), EnumKey(h), Scanning(h)'
  PROVE  ScanOK(h)'
<1>1. PICK m \in Listed :
        /\ Cardinality(Below(m)) = index[h]
        /\ IF Length[m] <= room[h]
           THEN /\ current' = [current EXCEPT ![h] = m]
                /\ HostGoto(h, "value")
                /\ UNCHANGED index
           ELSE /\ index' = [index EXCEPT ![h] = @ + 1]
                /\ UNCHANGED <<current, hpc, ret, call>>
        /\ UNCHANGED <<room, loads>>
  BY AnswersAre, ScanEnds DEF EnumKey, Scanning
<1>2. /\ hpc[h] = "key" /\ Scanning(h) /\ index[h] \in Nat /\ room[h] \in Nat
      /\ Place(m) = index[h] /\ UNCHANGED <<room, want, entry>>
  <2>1. Below(m) = Under(Listed, m)
    BY DEF Below, Under
  <2> QED BY <1>1, <2>1 DEF EnumKey, Scanning, ThreadsOK, Place, HostGoto, call, registry
<1>3. /\ quiet'[h] = quiet[h] /\ firm'[h] = firm[h] /\ still'[h] = still[h]
      /\ \A n : Place(n)' = Place(n)
  BY <1>2, Unmoved
<1>4. \A n \in quiet[h] : /\ told'[h][n] = told[h][n] /\ told[h][n] \in Nat
                         /\ Place(n) \in Nat /\ n \in Listed
  <2>1. quiet[h] \subseteq Listed
    BY DEF HistoryOK
  <2>2. \A n \in quiet[h] : ~Tells(h, n)
    BY <1>2 DEF Tells
  <2> QED BY <1>2, <1>3, <2>1, <2>2, Observed
<1>5. firm[h] \subseteq quiet[h] /\ still[h] \subseteq quiet[h]
  BY DEF HistoryOK
<1>6. \A n \in quiet[h] : Place(n) = index[h] => n = m
  BY <1>2, <1>4, PlacesDiffer
<1>7. CASE Length[m] <= room[h]
  <2>1. hpc'[h] = "value" /\ current'[h] = m /\ index'[h] = index[h]
    BY <1>1, <1>7 DEF HostGoto, ThreadsOK
  <2> QED BY <1>2, <1>3, <1>4, <1>5, <1>6, <2>1 DEF ScanOK, Passed, Current
<1>8. CASE ~(Length[m] <= room[h])
  <2>1. hpc'[h] = "key" /\ index'[h] = index[h] + 1
    BY <1>1, <1>2, <1>8 DEF ThreadsOK
  <2>2. m \notin quiet[h]
    BY <1>8 DEF ScanOK
  <2> QED BY <1>2, <1>3, <1>4, <1>5, <1>6, <2>1, <2>2 DEF ScanOK, Passed, Current
<1> QED BY <1>7, <1>8

\* The callback is told of the current key, which is not the one it looks for.
LEMMA CallbackScans ==
  ASSUME HistoryOK, HistoryOK', ThreadsOK, Observe, UNCHANGED registry, NEW h \in Host,
         ScanOK(h), Callback(h), Scanning(h)'
  PROVE  ScanOK(h)'
<1>1. /\ hpc[h] = "value" /\ Scanning(h) /\ index[h] \in Nat
      /\ ~Matches(h)
      /\ hpc'[h] = "key" /\ index'[h] = index[h] + 1
      /\ UNCHANGED <<room, current, want, entry>>
  BY AnswersAre, ScanEnds DEF Callback, Scanning, HostGoto, ThreadsOK, call, registry
<1>2. /\ quiet'[h] = quiet[h] /\ firm'[h] = firm[h] /\ still'[h] = still[h]
      /\ \A n : Place(n)' = Place(n)
  BY <1>1, Unmoved
<1>3. \A n \in quiet[h] : /\ told'[h][n] = told[h][n] + IF n = current[h] THEN 1 ELSE 0
                         /\ told[h][n] \in Nat /\ Place(n) \in Nat
  BY <1>1, <1>2, Observed DEF Tells
<1>4. firm[h] \subseteq quiet[h] /\ still[h] \subseteq quiet[h]
  BY DEF HistoryOK
<1>5. want[h] # Nothing => entry[current[h]] # want[h]
  BY <1>1 DEF Matches, Id
<1> QED BY <1>1, <1>2, <1>3, <1>4, <1>5 DEF ScanOK, Passed, Current

LEMMA ScanStep ==
  /\ HistoryOK /\ HistoryOK' /\ TypeOK /\ ThreadsOK /\ ScanInv
  /\ [HostNext /\ Observe]_hostVars
  => ScanInv'
<1> SUFFICES ASSUME HistoryOK, HistoryOK', TypeOK, ThreadsOK, ScanInv,
                    [HostNext /\ Observe]_hostVars, NEW h \in Host, Scanning(h)'
             PROVE  ScanOK(h)'
  BY DEF ScanInv
<1>1. CASE UNCHANGED hostVars
  <2>1. Scanning(h) /\ ScanOK(h)
    BY <1>1 DEF ScanInv, Scanning, hostVars, threads
  <2> QED BY <1>1, <2>1 DEF hostVars, threads, history, call, scan, registry, ScanOK,
                          Passed, Current, Place, Listed
<1>2. CASE Observe /\ Next /\ UNCHANGED <<hpc, call, scan, loads, ret>>
  <2>1. Scanning(h) /\ ScanOK(h)
    BY <1>2 DEF ScanInv, Scanning
  <2> QED BY <1>2, <2>1, ScanKept DEF call, scan
<1>3. ASSUME Observe, NEW g \in Host, HostStep(g), UNCHANGED <<registry, installers>>
      PROVE  ScanOK(h)'
  <2>1. CASE g # h
    <3>1. Scanning(h) /\ ScanOK(h)
      BY <1>3, <2>1, OthersStay DEF ScanInv, Scanning
    <3> QED BY <1>3, <2>1, <3>1, OthersStay, ScanKept
  <2>2. CASE g = h
    <3>1. OpenKey(h) \/ EnumKey(h) \/ Callback(h)
      BY <1>3, <2>2, AnswersAre, DeviceLoads, Returned
         DEF HostStep, Scanning, Enumerate, Load, Begin, CoInitialize, CoCreateInstance,
             Unload, HostGoto, ThreadsOK
    <3>2. EnumKey(h) \/ Callback(h) => ScanOK(h)
      BY DEF ScanInv, Scanning, EnumKey, Callback
    <3> QED BY <1>3, <3>1, <3>2, OpenKeyScans, EnumKeyScans, CallbackScans
  <2> QED BY <2>1, <2>2
<1> QED BY <1>1, <1>2, <1>3 DEF HostNext

LEMMA ScanHolds == HostSpec => [](TypeOK /\ CInv /\ HistoryOK /\ ScanInv)
<1>1. HostSpec => []TypeOK
  BY HostRuns, TypeCorrect
<1>2. HostSpec => []CInv
  BY <1>1, CInit, CStep, PTL DEF HostSpec
<1>3. HostSpec => []HistoryOK
  BY HistoryInit, HistoryStep, PTL DEF HostSpec
<1>4. HostInit => ScanInv
  BY DEF HostInit, ScanInv, Scanning
<1>5. CInv => ThreadsOK
  BY DEF CInv
<1> QED BY <1>1, <1>2, <1>3, <1>4, <1>5, ScanStep, PTL DEF HostSpec

\* A scan by index tells of an entry that stays unless one before it has been deleted
\* under it, and only once unless one before it has been added (cwASIO.c:117-138).
THEOREM ScanHonestHolds == HostSpec => []ScanHonest
<1>1. CInv /\ HistoryOK /\ ScanInv => ScanHonest
  <2> SUFFICES ASSUME CInv, HistoryOK, ScanInv, NEW h \in Host, Scanning(h), NEW n \in quiet[h]
               PROVE  LET passed == Cardinality(Below(n)) < index[h]
                      IN /\ n \in firm[h] /\ passed => told[h][n] > 0
                         /\ n \in still[h] => told[h][n] <= IF passed THEN 1 ELSE 0
    BY DEF ScanHonest
  <2>1. Below(n) = Under(Listed, n)
    BY DEF Below, Under
  <2>2. Place(n) \in Nat /\ index[h] \in Nat
    <3>1. Listed \in SUBSET Name /\ n \in Name
      BY DEF Listed, HistoryOK
    <3> QED BY <3>1, Places DEF Place, CInv, ThreadsOK
  <2>3. n \in firm[h] /\ Place(n) < index[h] => Passed(h, n)
    BY <2>2 DEF ScanInv, ScanOK, Passed, Current
  <2> QED BY <2>1, <2>2, <2>3 DEF ScanInv, ScanOK, Place
<1> QED BY <1>1, ScanHolds, PTL

\* A call that looks for the CLSID of an entry that stays finds it, unless an entry
\* before it is deleted under the scan, CoInitializeEx fails, memory runs out or the
\* registry cannot be opened, for any number of threads and installers, whatever
\* these leave half-done (cwASIO.c:64-76,
\* cwASIOdriver.c:203-262, 407-433).
THEOREM QuietFoundHolds == ASSUME Apart PROVE HostSpec => QuietFound
<1> DEFINE Missed(h) == /\ want[h] # Nothing /\ ret'[h] \in {"error", "end", "null"}
                        /\ hpc[h] \in {"create", "key", "value"} /\ hpc'[h] = "idle"
           Honest == \A h \in Host : Missed(h) => \A n \in firm[h] : entry[n] # want[h]
           Inv == TypeOK /\ Loadable /\ CInv /\ HistoryOK /\ ScanInv
<1>1. Inv /\ [HostNext /\ Observe]_hostVars => [Honest]_hostVars
  <2> SUFFICES ASSUME Inv, HostNext, UNCHANGED <<registry, installers>> \/ Next,
                      NEW h \in Host, Missed(h), NEW n \in firm[h], entry[n] = want[h]
               PROVE  FALSE
    BY DEF HostNext
  <2> USE DEF CInv
  <2>1. n \in Name /\ n \in Listed
    BY DEF HistoryOK, Listed
  <2>2. PICK g \in Host : HostStep(g)
    BY DEF HostNext
  <2>3. g = h
    BY <2>2, OthersStay
  <2>4. \/ CoCreateInstance(h) /\ hpc[h] = "create"
        \/ EnumKey(h) /\ hpc[h] = "key"
        \/ Callback(h) /\ hpc[h] = "value"
    BY <2>2, <2>3, DeviceLoads DEF HostStep, Enumerate, Load, Begin, OpenKey, EnumKey,
       Callback, CoInitialize, CoCreateInstance, Unload
  <2>5. CASE CoCreateInstance(h) /\ hpc[h] = "create"
    <3>1. class[want[h]] = Values
      BY <2>1 DEF Loadable, Listed
    <3>2. HostGoto(h, "open") \/ HostReturn(h, "exhausted")
      BY <2>5, <3>1 DEF CoCreateInstance, Served, Values
    <3>3. hpc'[h] = "open" \/ ret'[h] = "exhausted"
      BY <3>2, AnswersAre, Returned DEF HostGoto, ThreadsOK
    <3> QED BY <3>3
  <2>6. CASE EnumKey(h) /\ hpc[h] = "key"
    <3>1. index[h] >= Cardinality(Listed)
      BY <2>6 DEF EnumKey, HostGoto, ThreadsOK
    <3>2. Place(n) < index[h]
      <4>1. Listed \in SUBSET Name
        BY DEF Listed
      <4>2. /\ Place(n) \in Nat /\ Cardinality(Listed) \in Nat
            /\ Place(n) < Cardinality(Listed)
        BY <2>1, <4>1, Places DEF Place
      <4> QED BY <3>1, <4>2 DEF ThreadsOK
    <3> QED BY <2>6, <3>2 DEF ScanInv, ScanOK, Scanning, Passed
  <2>7. CASE Callback(h) /\ hpc[h] = "value"
    <3>1. EndScan(h, "found")
      BY <2>7 DEF Callback, HostGoto, ThreadsOK
    <3>2. ret'[h] \in {"found", "loaded"}
      BY <3>1, AnswersAre, Returned DEF EndScan, QueryInterface
    <3> QED BY <3>2
  <2> QED BY <2>4, <2>5, <2>6, <2>7
<1>2. HostSpec => []Inv
  BY LoadableInHosts, ScanHolds, PTL
<1> QED BY <1>1, <1>2, PTL DEF HostSpec, QuietFound

=============================================================================
