----------------------------- MODULE WinRegistry -----------------------------
(* The driver registry on Windows: DllRegisterServer and DllUnregisterServer *)
(* of driver DLLs (src/src/cwASIOdriver.c), run by installers in processes   *)
(* of their own.  A driver has a class, the tree HKCR\CLSID\{id} that COM    *)
(* loads it by, and an entry HKLM\SOFTWARE\ASIO\<name> that hosts find it    *)
(* by.  One call to the registry is one step.  Every call may fail and a     *)
(* process may die between two calls; nothing locks the registry.            *)
CONSTANTS
  Installer,   \* the processes that install and uninstall
  Name,        \* the names of entries
  Clsid,       \* the class ids
  Nothing,     \* stands for an absent entry or CLSID value
  Duty         \* the <<name, clsid>> pairs each installer may be run with

ASSUME WinRegistryAssumption ==
  /\ Nothing \notin Clsid \cup Name
  /\ Duty \in [Installer -> SUBSET (Name \X Clsid)]

VARIABLES
  class,   \* the values that are there in the tree of each class
  entry,   \* the CLSID value of each entry
  pc,      \* the next registry call of each installer
  name,    \* CWASIO_INSTALL_NAME in its environment
  clsid    \* CWASIO_INSTALL_CLSID, or what DllUnregisterServer has read

registry == <<class, entry>>
installers == <<pc, name, clsid>>

\* The default value of the class, and two of its subkey InprocServer32.
Values == {"title", "path", "ThreadingModel"}

Registering == {"title", "path", "ThreadingModel", "entry"}
PCs == Registering \cup {"idle", "read", "unlist", "declass"}

Init == /\ class = [c \in Clsid |-> {}]
        /\ entry = [n \in Name |-> Nothing]
        /\ pc = [i \in Installer |-> "idle"]
        /\ name = [i \in Installer |-> Nothing]
        /\ clsid = [i \in Installer |-> Nothing]

Goto(i, label) == pc' = [pc EXCEPT ![i] = label] /\ UNCHANGED <<name, clsid>>

Return(i) == /\ pc' = [pc EXCEPT ![i] = "idle"]
             /\ name' = [name EXCEPT ![i] = Nothing]
             /\ clsid' = [clsid EXCEPT ![i] = Nothing]

Call(i, label, n, c) == /\ pc[i] = "idle"
                        /\ pc' = [pc EXCEPT ![i] = label]
                        /\ name' = [name EXCEPT ![i] = n]
                        /\ clsid' = [clsid EXCEPT ![i] = c]

-----------------------------------------------------------------------------
(* DllRegisterServer                                                         *)

\* Without both environment variables it returns at once.
RegisterServer(i, n, c) ==
  /\ <<n, c>> \in Duty[i]
  /\ Call(i, "title", n, c)
  /\ UNCHANGED registry

\* Mutant: the threading model is forgotten.
AfterForgetful(v) == IF v = "title" THEN "path" ELSE "entry"

\* The call that follows the one for the value v.
After(v) == CASE v = "title" -> "path"
              [] v = "path" -> "ThreadingModel"
              [] OTHER -> "entry"

\* The three values of the class, one RegSetKeyValue after the other.
SetClassValue(i) ==
  /\ pc[i] \in Values
  /\ class' = [class EXCEPT ![clsid[i]] = @ \cup {pc[i]}]
  /\ Goto(i, After(pc[i]))
  /\ UNCHANGED entry

\* The last one is the CLSID value of the entry.
SetEntryClsid(i) ==
  /\ pc[i] = "entry"
  /\ entry' = [entry EXCEPT ![name[i]] = clsid[i]]
  /\ Return(i)
  /\ UNCHANGED class

-----------------------------------------------------------------------------
(* DllUnregisterServer                                                       *)

UnregisterServer(i, n) ==
  /\ \E c \in Clsid : <<n, c>> \in Duty[i]
  /\ Call(i, "read", n, Nothing)
  /\ UNCHANGED registry

\* The CLSID is read from the entry.  An error is taken for an entry without.
GetEntryClsid(i) ==
  /\ pc[i] = "read"
  /\ \E c \in {entry[name[i]], Nothing} : clsid' = [clsid EXCEPT ![i] = c]
  /\ pc' = [pc EXCEPT ![i] = "unlist"]
  /\ UNCHANGED <<registry, name>>

\* An entry that is not there is an error, which GiveUp returns.
DeleteEntry(i) ==
  /\ pc[i] = "unlist"
  /\ entry[name[i]] # Nothing
  /\ entry' = [entry EXCEPT ![name[i]] = Nothing]
  /\ IF clsid[i] = Nothing THEN Return(i) ELSE Goto(i, "declass")
  /\ UNCHANGED class

\* RegDeleteTree removes the subkeys first, and may get no further.
DeleteClass(i) ==
  /\ pc[i] = "declass"
  /\ \E rest \in {{}, class[clsid[i]] \cap {"title"}} :
       class' = [class EXCEPT ![clsid[i]] = rest]
  /\ Return(i)
  /\ UNCHANGED entry

-----------------------------------------------------------------------------
\* A call fails, and the function returns the error; or the process dies.
GiveUp(i) == /\ pc[i] # "idle"
             /\ Return(i)
             /\ UNCHANGED registry

Install(i) == \/ \E n \in Name, c \in Clsid : RegisterServer(i, n, c)
              \/ SetClassValue(i) \/ SetEntryClsid(i)

Uninstall(i) == \/ \E n \in Name : UnregisterServer(i, n)
                \/ GetEntryClsid(i) \/ DeleteEntry(i) \/ DeleteClass(i)

Next == \E i \in Installer : Install(i) \/ Uninstall(i) \/ GiveUp(i)

Spec == Init /\ [][Next]_<<registry, installers>>

-----------------------------------------------------------------------------
TypeOK ==
  /\ class \in [Clsid -> SUBSET Values]
  /\ entry \in [Name -> Clsid \cup {Nothing}]
  /\ pc \in [Installer -> PCs]
  /\ name \in [Installer -> Name \cup {Nothing}]
  /\ clsid \in [Installer -> Clsid \cup {Nothing}]
  /\ \A i \in Installer : pc[i] # "idle" => name[i] \in Name
  /\ \A i \in Installer : pc[i] \in Registering \cup {"declass"} => clsid[i] \in Clsid

\* Entries do not share a class, and an entry is one installer's business.
Apart ==
  \A i, j \in Installer : \A x \in Duty[i], y \in Duty[j] :
    /\ x[2] = y[2] => x[1] = y[1]
    /\ x[1] = y[1] => i = j

\* Wherever installations fail or installers die: a driver that is listed can be
\* loaded, its class is complete.  The class is written before the entry and
\* removed after it (cwASIOdriver.c:203-232, 254-262), and the one that is
\* removed is that of the entry.
Loadable == \A n \in Name : entry[n] # Nothing => class[entry[n]] = Values
=============================================================================
