# A verification of cwASIO in TLA+

cwASIO is a C/C++ implementation of the ASIO audio driver interface for Linux
and Windows. It finds drivers that are registered with the system, loads them
into a host application, counts references to their instances, and gives driver
writers the scaffolding for the other side of all this. This directory holds TLA+ models of
that code, the TLC configurations that check them, and machine-checked proofs.
Paths below are relative to the repository; `src/src/...` in `PROJECT.json` is
`src/...` there.

## 1. The system and its parts

| Component | Source | State it keeps | Operations | Talks to |
|---|---|---|---|---|
| Linux driver registry | `src/cwASIOdriver.c` 268-340, `src/cwASIO.c` 204-302 | the directory `/etc/cwASIO`: one subdirectory per driver, in it the file `driver` with the path of the library, and other files | `registerDriver`, `unregisterDriver`, `cwASIOgetParameter`, `cwASIOenumerate` | other processes, through the file system only |
| Loading and instances (Linux) | `src/cwASIO.c` 185-202, `src/cwASIOdriver.c` 342-397, skeletons | the dynamic linker's open count, `libUseCount`, `activeInstances`, the reference count of each instance | `cwASIOload`, `cwASIOunload`, `instantiateDriver`, `releaseDriver`, `addRef`, `release` | the threads of one host |
| Recorder | `test/recorder.cpp` | a queue of blocks under a mutex, the file, a 32-bit byte counter, the signal flag | `bufferSwitch`, `getNext`, `WAVfile`, `main` | the driver's thread, the signal handler |
| ASIO SDK API | `src/asio/asio.c` | one global driver pointer | `ASIOLoad`, `ASIOUnload`, 20 forwarding calls | the loader, the driver |
| C++ wrapper | `src/cwASIO.hpp`, `src/cwASIO.cpp` | a `unique_ptr` to the driver | constructor, `init`, forwarding calls | registry, loader, driver |
| Driver naming | skeletons | the name of an instance | `queryInterface`, `future`, `init`, `getDriverName` | registry |
| Finding a name by GUID | `src/cwASIOdriver.c` 401-433, `src/cwASIO.c` 306-318 | a search context | `cwASIOfindName`, `cwASIOtoGUID` | enumeration |
| Windows class factory | `src/cwASIOdriver.c` 40-161 | `dllUseCount` | `createInstance`, `lockServer`, `DllCanUnloadNow` | COM |
| Windows registry | `src/cwASIOdriver.c` 163-264, `src/cwASIO.c` 64-179 | keys under `HKCR\CLSID` and `HKLM\SOFTWARE\ASIO` | `DllRegisterServer`, `DllUnregisterServer`, enumeration | the registry, COM |
| Player | `test/player.cpp` | the file buffer and an index into it, `stopStatus` | `bufferSwitch`, `main` | the driver's thread |
| Wave file library | `test/wavefile/` | the file, position and length | `open`, `close`, `read`, `write`, `setPosition` | the player |
| Probe | `test/probe.c` | none | prints what a driver answers | loader |

What makes each of them hard, and what makes it correct:

- **Registry.** No lock: the calls of several processes interleave between any
  two system calls, each of which can fail, and a process may die in the middle.
  Correct means that at any time an entry is free, being made by one registrar,
  listed, being removed by one unregistrar, or left over by a failure; that what a host
  reads as the path of a library is a path somebody registered; and that a scan
  tells the host of what is there.
- **Loading.** Threads load, share and unload instances at the same time, and the
  library may be unmapped and mapped anew. Correct means that both counters are
  exact, that an instance is freed by the last release and by no other, and that no code runs
  in an unmapped library.
- **Recorder.** Two threads and a signal. Correct means that blocks are
  conserved in order, the counter does not wrap, the file's header tells its
  size, and the program ends on a signal.
- **SDK API, wrapper, naming.** Errors in the middle of a sequence, and names that
  go away between two of its calls. Correct means that every instance has one
  owner, and the name its owner asked for.
- **Windows parts.** Counters that decide whether a DLL can be unloaded, a
  registration of four writes that can stop after each, and COM calls that must
  balance.
- **Player, wave file.** Unsigned and 32-bit arithmetic at the ends of the data,
  and errors that leave an object half closed.

`PROJECT.json` lists the single hazards with their lines, and the properties that
speak about each.

## 2. Modules

| Module | Role |
|---|---|
| `EntryLifecycle` | abstract specification: the stages one entry of the registry goes through |
| `Registry` | `registerDriver`, `unregisterDriver`, `cwASIOgetParameter`, `cwASIOenumerate` on Linux, one system call per step; implements `EntryLifecycle` for every name |
| `RegistryScan` | `Registry` with two history variables that record what a scan tells its callback |
| `RegistryProofs` | proofs about `Registry` and `RegistryScan` |
| `RegistryMC`, `RegistryScanMC` | instances for TLC, and what the documentation says of return values |
| `InstanceLifecycle` | abstract specification: an instance of a driver from its making to its end, and the references to it |
| `DriverLibrary`, `DriverLibraryMC`, `DriverLibraryProofs` | loading, reference counts, use count, unloading; implements `InstanceLifecycle` |
| `HostSession`, `HostSessionMC`, `HostSessionProofs` | an application's instances: `asio.c`, `cwASIO::Device`, the names of instances |
| `WinRegistry` | `DllRegisterServer` and `DllUnregisterServer`, one call to the registry per step |
| `WinHost`, `WinHostMC` | hosts beside the installers of `WinRegistry`: enumeration, `cwASIOload`, `cwASIOunload`, and `cwASIOfindName` in a load |
| `WinProofs` | proofs about `WinRegistry` and `WinHost` |
| `ClassFactory`, `ClassFactoryMC`, `ClassFactoryProofs` | the class factory of Windows and `dllUseCount`; implements `InstanceLifecycle` |
| `Recorder`, `RecorderMC`, `RecorderProofs` | the recorder's two threads, its file and the signal |
| `Player`, `PlayerMC`, `PlayerProofs` | the player's callback, the two halves of its buffers, and main |
| `WaveFile`, `WaveFileMC`, `WaveFileProofs` | the class `WaveFile`: header, position and length of one file |

`RegistryScan` extends `Registry`, which instantiates `EntryLifecycle`, and `WinHost`
extends `WinRegistry`; `DriverLibrary` and `ClassFactory` instantiate `InstanceLifecycle`, which
says for both systems what a driver promises about its instances; the others stand alone. `HostSession` takes from `DriverLibrary` that an instance lives until it is
released, and from `Registry` that names come and go.

### Registry

The disk is `dir` (the subdirectories), `driver` (the inode of the file `driver`
in each), `content` (what an inode holds) and `extra` (other files). Inodes are
there because a file that is unlinked while somebody has it open lives on, which is what
makes the race of a registrar with an unregistrar and another registrar interesting. Each
process has a program counter naming its next system call, and the variables of
the function it runs (`name`, `fd`, `sized`, `val`, `scanning`).

| Action | Code |
|---|---|
| `RegisterStat`, `RegisterMkdir`, `RegisterCreat`, `RegisterWrite` | the four system calls of `registerDriver`, with every early return; a `stat` that fails counts as absence |
| `UnregisterStat`, `UnregisterUnlink`, `UnregisterRmdir` | the three of `unregisterDriver` |
| `GetParameter`, `ConfigOpen`, `ConfigFstat`, `ConfigRead` | `cwASIOgetParameter` and `cwASIOreadConfig`; `ReadResult` is where the latter returns |
| `EnumerateOpen`, `EnumerateNext`, `EnumerateCallback`, `EnumerateEnd` | `cwASIOenumerate`; `due` and `loose` are the entries `readdir` must and may still return |
| `Crash` | a process dies and loses its descriptors |
| `AddExtra`, `RemoveExtra` | external: an installer's own files |

Abstractions: a path is the name of the process whose library it is; a content is
empty, cut short, or a path. A name is given and short enough, so the `EINVAL`
returns of `snprintf` do not occur. A failing `dladdr` acts like a failing `creat`,
which it precedes, and a failing `fstat` like a failing `read`. The
read of `description` is part of the callback's step: it changes nothing and its
result is only passed on. `strncpy` into the caller's buffer and the cut at a
newline are left out, a path has neither 2 kB nor a newline.

### DriverLibrary

`handles` counts `dlopen` minus `dlclose`; when it returns to zero the library is
unmapped and its statics start anew at the next `Dlopen`. `life` follows an
instance from `makeAsioDriver` to `releaseDriver`, `refs` is its counter, `host`
the number of references in the host's hands. Each access to a shared counter
(`refs`, `libUseCount`, `activeInstances`) is one step. `Dlopen`,
`MakeAsioDriver`, `QueryInterface`, `Release`, `Free`, `Deactivate`, `Count` and
`Leave` are `cwASIOload` in this order; `Unload` enters `Release` from
`cwASIOunload`; `ReleaseDriver`, `Decrement`, `Dlclose` are `releaseDriver`.
`releaseDriver` is exported and nothing in the repository calls it. Its user is
taken to call it once for an instance, after the last `cwASIOunload` of it.
`getLibraryHandle` may find no handle, and `dlclose` then does nothing (`Dlclose`).
`UintRange` scales the unsigned `activeInstances` down, `MaxHandles` and `MaxRefs`
bound what a host does.

### HostSession

Each call into the library or the driver is a step: `GetParameter`, `Load` and
`SetName` are the constructor of `cwASIO::Device`, `ASIOLoad` and
`ASIOLoadFuture` the two halves of `ASIOLoad`, and other processes register and
unregister names between any two. `FutureResult`, `Renamed` and `InitResult` are
`future()` and `init()` of the skeletons on Linux. `Move` and `Destroy` are what
the `unique_ptr` does; the wrapper declares neither. `ASIOFuture` and
`DeviceFuture` are the forwarding `future()` with the selector for names, which a
program may call at any time to name or rename what it has; `asked` and `askedC`
hold the name given last. `Call` stands for the functions of
`asio.c` that only pass on. A name in `Long` has more than 32 characters and is
refused; one in `Full` has exactly 32, and the skeleton in C copies it with
`strncpy(name, par, 32)` into memory from `malloc`: whether a zero follows is
a choice, and without one the name is `Garbled`. A program calls these functions from one
thread, since nothing in `asio.c` protects the global. A legacy driver stands for
any driver that does not know the selector for names; it has a name of its own.
Other errors of `future()` are those of a driver that is not the skeleton.

### ClassFactory

Each access to `dllUseCount` or a reference count is a step, with
`createInstance` split at each of them. `Drop` and `InstanceAddRef` are a client's. COM asks
`DllCanUnloadNow` at any time and unmaps the DLL when told it may. The code
releases the factory whenever it is told to; that no client releases the last
reference to an object while a call on it is under way is COM's rule, and a guard of
`release`. Without it the DLL could go between the entry of `createInstance` and line
122, where it counts: no code in the DLL can prevent that.

### WinRegistry and WinHost

`class` has the values of each tree `HKCR\CLSID\{id}`, `entry` the CLSID value of
each key under `HKLM\SOFTWARE\ASIO`. An installer has a name and a CLSID in its
environment, from `Duty`.

| Action | Code |
|---|---|
| `RegisterServer`, `SetClassValue`, `SetEntryClsid` | `DllRegisterServer`: the environment, three values of the class, the entry |
| `UnregisterServer`, `GetEntryClsid`, `DeleteEntry`, `DeleteClass` | `DllUnregisterServer`: the environment, the CLSID read from the entry, the two trees deleted; `RegDeleteTree` may stop half way |
| `GiveUp` | a call fails and its error is returned, or the installer dies |
| `Enumerate`, `OpenKey`, `EnumKey`, `Callback`, `EndScan` | `cwASIOenumerate`: the key and the length of its longest name, then one key by its index and its value after the other |
| `Matches`, `QueryInterface` | `findCallback`, and what the skeletons make of the result of `cwASIOfindName` |
| `Load`, `CoInitialize`, `CoCreateInstance`, `Unload` | `cwASIOload` and `cwASIOunload` |
| `GetParameter`, `Device` | `cwASIOgetParameter` for the CLSID, and the constructor of `cwASIO::Device` that loads by it |
| `Observe` | history: which entries have been there during a call, and how often a scan has told of them |

The registry keeps its keys in order, so a name is a number and the key at an
index is the one with so many below it. A key that comes or goes moves all
that follow. `loading` tells a load of the C function from one of
`cwASIO::Device`: the constructor throws when it gets a null pointer and nobody
undoes its `CoInitializeEx`, which `lost` counts. `cwASIOunload` is called once for
what a `cwASIOload` returned with zero, as `cwASIO.h:115` has it ("initialized by
`cwASIOload()`"); after a load that failed it would leave COM once too often
(`cwASIO.c:82`). A class that is served may fail to be created, for lack of memory
(`"exhausted"`), and so may the buffer of a scan. Left out are the conversions between UTF-8 and UTF-16,
`malloc` failing in `getValue`, and errors of `RegEnumKeyEx` other than the end of the keys and a name
that does not fit. The read of the description is part of the read of the CLSID. The
class factory between COM and `queryInterface` is in `ClassFactory`. A thread
unloads what it has loaded itself, as COM asks.

`README.md:313-315` says that drivers "must be registered several times under
different CLSIDs"; `Apart` is that entries do not share a class, and that one
installer looks after an entry. Without it `DllUnregisterServer` of one entry
takes the class from under another.

### Player

`SetUp` is main up to `driver.start()`, `Signal` the handler, `Leave` the loop
that polls `signalStatus` and `stopStatus`. `Switch` is the driver (external): it
has played one half, goes on with the other and calls `bufferSwitch` for the
first. `Fill` is one turn of the loop in `bufferSwitch`, so main may find
`stopStatus` set in the middle of a half. The samples of the file are 1, 2, 3 and so
on; a frame in the file without a sample that should be there, or on the wrong
channel, is seen in `played`. `UintRange` scales down the unsigned index, which is
compared with a `size_t`; `Fits` says that it can count the file. The program
computes a limit and does not use it (`player.cpp:196`), so other files are
played, too.

### WaveFile

One object and one file, written, closed and read again. The header on disk is
the format and lengths it declares, the data is a number of bytes, and the
position counts from the start of the data. `close` flushes the stream; the
destructor corrects the headers and leaves them in the buffer of a stream that
nobody has any more (`unflushed`), until `Exit`, the end of the program, where the C library writes
them if it can. The program is taken not to write the same file anew
before. `write` has the number of its bytes in an `int` (`IntRange` scales it down): what does not
fit is not written but counted. A number of samples so large that the `int` is
negative, for which `fwrite` would read beyond any buffer, is left out. A `write` or `fclose` may fail and an
input file may be cut; a failing `fseek` or `ftell`, which leaves the
object as it was, is left out, and so are the sample rate and chunks of
other kinds. `setPosition` refuses distances below zero whatever they are relative to (the
comparison in line 427 is unsigned) and does nothing for zero, so
`SetPosition` has only positive ones. A stream is not opened twice without a
close, as in the player.

### Recorder

The driver's thread runs `BufferSwitch` (copy), `BufferLock`, `BufferPush`; main
runs `Start`, `TestSignal`, `GetNextLock`, `GetNextPop`, `Write` and, leaving the
loop, the destructors in `FixFileSize`, `FixDataSize`, `ReleaseDevice`. A block is
a number, in the order of capture. `Terminate` is the end of a program whose
destructor throws, or throws while an exception is under way. In the destructor
a seek, a write or the close may fail: the stream throws at the seek or the
close that notices. Printing and
sleeping are left out, and the set-up of the device before the loop, which is a
sequence of calls without other threads.

## 3. What TLC checks

| Run | Properties | Bounds and what they let happen |
|---|---|---|
| `registry_faults` | `TypeOK`, `SoleWriter`, `Custody`, `ListedStable`, `EntriesLive` | 2 processes, 2 names, one starting with a dot, 2 inodes, an extra file, every fault. Two processes are enough for one to be overtaken at every system call; a name is unregistered and registered anew under a stuck registrar. That more processes change nothing is proved |
| `registry_scan` | `ScanHonest`, `ScanComplete` | 2 processes, 2 names: one can stay while the other comes and goes under the scan; `creat` and `readdir` fail |
| `library_threads` | `TypeOK`, `RefsExact`, `AliveWhileHeld`, `UseCountExact`, `LibMapped`, `InstancesLive` | 3 threads, 4 instances, 2 host references to each, 5 open handles, `malloc`, `queryInterface` and `getLibraryHandle` fail: the library is unmapped and mapped anew, and the last instance is released while another is loaded |
| `recorder` | `Conserved`, `WrittenExact`, `HeaderTells`, `Recorded`, `SignalEnds` | 256 values for the 32-bit counter, a header of 44 bytes, blocks of 24 that do not divide the limit, 9 blocks where the limit lets 7 in; writes, seeks and the close fail |
| `host_session` | `Owned`, `NamedAsAsked`, `ReadyAsAsked`, `LoadedAsAsked` | 2 `Device` objects and the C functions, an instance for each, 3 names, one too long for the skeletons and one that just fills their array, failing loads and `future()`: a `Device` is moved over another, a driver is named or renamed between load and `init`, and a name goes away between its id being read and `future()` |
| `class_factory` | `TypeOK`, `RefsExact`, `FreedAtLast`, `UseCountExact`, `NotUnderUse`, `InstancesLive` | 3 threads, 3 instances: one thread drops the last reference to the factory, another is in `createInstance`, a third releases; `queryInterface` fails for an instance that is then freed |
| `wave_file` | `TypeOK`, `WithinFile`, `PositionExact`, `DeclaresItsData` | 8, 12, 16 and 20 bits, mono and stereo, 5 samples, every fault; the largest `uint32_t` is 86, so that a RIFF file holds 10 bytes of data and three to five samples go over it; an `int` has 24 values, so that samples of 6 bytes come to more than it holds |
| `win_host` | `Loadable`, `ComExact`, `ScanHonest`, `QuietFound` | one installer with three drivers, the second with a longer name, and one thread of a host, with one instance at a time: a key before and one behind the current one come and go, the one in the middle is too long for the buffer when it is added late, and the installer stops after any call. More of each are left to the proofs |
| `player` | `PlayedInOrder`, `CutShort`, `ToldInTime`, `PlaybackEnds` | files of 0 to 10 frames, blocks of 1 to 4, 16 values for the index, SIGINT: every remainder of the file's length by the block's, a file shorter than a block, and files of 8 frames or more, which the index cannot count |

The type invariants of `Recorder`, `HostSession`, `WinHost` and `Player`, which say no more than
the sets the variables come from, are in no run: they are proved (section 5).

`Custody` says that a directory without `driver` belongs to one process;
`SoleWriter` that a file under construction has one writer and shows up under no other
name; `ListedStable` that a path once written is removed as a whole or stays;
`EntriesLive` that the calls implement `EntryLifecycle`; `ScanHonest` and
`ScanComplete` that an entry registered from `opendir` on is told once, with its
path, and not missed by a scan that reports success. `RefsExact` and `UseCountExact`
are the two counters, `AliveWhileHeld` and `LibMapped` what they are for. `InstancesLive` says
that the calls implement `InstanceLifecycle`, whatever the counter says: what the abstraction sees is
`Held`, the references in the hands of hosts and running calls. In `ClassFactory` `RefsExact` says
that the counter agrees, and `FreedAtLast` that no instance is forgotten, nor freed by two.
`Owned` says that an instance has exactly one owner, `NamedAsAsked`,
`ReadyAsAsked` and `LoadedAsAsked` that nothing is used under a name nobody asked
for. `NotUnderUse` says that the DLL is never unmapped under a client, and
`UseCountExact` why. `Loadable` says that what is listed has a complete class,
`ComExact` that COM is entered and left in pairs, but for the `Device`s that
throw on a null pointer, `ScanHonest` of `WinHost` for which two
reasons a scan by index may pass an entry over or tell of it twice, and
`QuietFound` that a load fails for the first of these reasons only, or since
`CoInitializeEx` or memory fails or the registry cannot be opened. `PlayedInOrder` says what comes out of the driver, `CutShort` how much
may be missing when main ends by itself, `ToldInTime` that main is told before the driver goes on with
silence for a whole block, `PlaybackEnds` that main ends by itself when the file
fits the index; the first and the third also say what becomes of one that does not: it is played over and over. `PositionExact` and `WithinFile` tie what `WaveFile` counts to
where the stream is, and `DeclaresItsData` the header to the data, across the change
to RF64, when the file has been closed or the program has ended; it says openly that this is so for
sizes in whole bytes and 20 bits, and that files of others, 12 bits among them, declare less. `Conserved` puts every captured block in exactly one place, `WrittenExact` ties
the counter to the file, `HeaderTells` the header to the file, wherever a failure leaves it, `Recorded` and `SignalEnds` are the liveness of main.

Deadlock is checked in the registry runs of both systems. A host that has made its last instance
and released everything stops, and so do a recorder and a player that have ended, so their
runs do not look for deadlock; nor does that of `WaveFile`, which ends at a
closed stream that the code would go on using.

Three runs check what a comment says and find it violated:

| Run | Statement | What happens |
|---|---|---|
| `registry_stranded` | `cwASIOdriver.c:313`: `unregisterDriver` removes what `registerDriver` has added | after a failed `creat` the directory stays: `registerDriver` says `EEXIST`, `unregisterDriver` says `ENOENT`, for good |
| `class_factory_unload` | `cwASIOdriver.c:156-158`: no unloading while somebody has an object or a lock | instances are counted when made and never given back: it is no for good |
| `win_load` | `cwASIO.h:109-111`: `cwASIOload` returns an error code when unsuccessful, and a pointer to the instance with zero | `queryInterface` inverts the negative result of `cwASIOfindName`, COM takes the positive number for a success, and the host gets zero and a null pointer for a CLSID without an entry |

Where else code and comments disagree, without a run:

- `cwASIO.h:115`: "Unload the driver"; `cwASIOunload` only releases the instance
  (`cwASIO.c:199-202`). `releaseDriver` closes one handle when the use count is
  zero (`cwASIOdriver.c:393-395`), so that two loads that overlap, or one that
  fails after `dlopen`, leave a handle open (`Dlclose`).
- `recorder.cpp:86, 97`: the overall size minus 8 bytes, and the size of the data;
  the size minus 4 and minus 40 are written, four bytes more each (113-119; `HeaderTells`
  states what is written).
- `cwASIO.h:73-74`: the callback is called "once for every entry found"; under
  changes an index can name an entry twice or pass it over (`ScanHonest`).
- `cwASIOdriver.c:236`: `DllUnregisterServer` "removes what `DllRegisterServer` has
  added"; a class that was made without its entry, or one whose entry has got
  another CLSID since, stays (`GetEntryClsid`).
- `cwASIOdriver.h:43-48`: `cwASIOfindName` returns the length of the name, or the
  size given when the buffer is too small; `cwASIOdriver.c:416-419` shortens the
  length when the name has filled the buffer, and returns the size when it fits.
- `cwASIO.h:104` counts the terminating NUL in what `cwASIOgetParameter` returns; the one
  of Linux does not, and that of Windows passes a number of bytes as one of
  characters (`cwASIO.c:168-174`).
- `cwASIO.h:128`: a CLSID must include its braces; `cwASIOtoGUID` does not see whether
  the second is there (`cwASIO.c:313-317`).
- `README.md:555` has `unregisterDriver` delete `description`; it deletes `driver` only.
- `cwASIOdriver.c:284`: `registerDriver` returns 0 "on success"; a short count of
  `write` returns 0 too (`RegisterWrite`, the content `"cut"`).
- `README.md:331-332`: without `future()` "the driver has to use a default name"; the
  skeletons' `init` refuses an instance without a name (`InitResult`).
- `player.cpp:116` takes every result but zero for a driver without multiple
  instances; `ASE_SUCCESS` is not zero (`DeviceFuture`).
- `wavefile.hpp:34` has 12 bits among the sizes of samples; `writeHeaders` counts
  12 bits as one byte and `getBytesPerSample` as two (`Headers`, `getBytesPerSample`;
  `DeclaresItsData` states it).
- `cwASIOdriver_skeleton.c:174-176` lets names of 32 characters through and does not end
  them with a zero; `recorder.cpp:151` and `player.cpp:124` assert that the driver
  has the name it was given (`Stored`).
- `wavefile.cpp:267, 380` take `fp_ == NULL` for a file that is not open; a `close`
  that fails keeps the closed stream in `fp_` (`Close`, `"shut"`).

Limits of the code that no document speaks of: the queue of the recorder grows as
long as main lags behind (`recorder.cpp:61`); the loop of the enumeration goes on
while `RegEnumKeyEx` fails with other errors (`cwASIO.c:124`); a name too long for its
key is not refused when unregistering (`cwASIOdriver.c:250`); the constructor of
`cwASIO::Device` leaves COM initialised when it throws for a null pointer (`lost`
in `WinHost`); a file of 2^31 frames or more is played over and over, since the index is an
`unsigned` and the limit of `player.cpp:196` is not used; `~WaveFile` does not
close its stream (`wavefile.cpp:32-38`).

Every property of a passing run has a mutant in `PROJECT.json`: an operator next
to the action it replaces, with a plausible bug, under which TLC finds the
property violated.

## 4. Fairness

`Recorder` and `Player` need it. In `Recorder`, `WF(Main)` says that main runs: its steps wait for
nothing but the mutex, and its loop polls every 10 ms. `SF(GetNextLock)`
and `SF(BufferLock)` say that a thread that asks for the mutex again and again is let in:
the callback holds it once per period of the device for the time of a push, and
main for a pop and then writes or sleeps, so the mutex is free most of the time. `WF(BufferPush)`
says that the callback, once it has the mutex, gives it back. Nothing is assumed
of the device: it may stop calling `bufferSwitch` at any time.

In `Player`, `WF(SetUp)` and `WF(Leave)` say that main runs, `WF(Fill)` that the
callback returns, and `WF(Switch)` that a driver that streams goes on calling:
without that playback cannot end, since only the callback sets `stopStatus`.

## 5. What is proved

`RegistryProofs` proves, for any finite or infinite sets of processes, names and
inodes and any set of faults, under `RegistryAssumption` only (dot names are
names; the value for an absent file is not an inode; no process is called
"empty", "cut" or "null"; faults are among those listed):

- `TypeCorrect`: `Spec => []TypeOK`;
- `CustodyHolds`: `Spec => []Custody`;
- `SoleWriterHolds`: `Spec => []SoleWriter`;
- `ListedStableHolds`: `Spec => ListedStable`;
- `RegistryImplements`: `Spec => EntriesLive`, the refinement of `EntryLifecycle`.

The inductive invariant is `TypeOK /\ Custody /\ SoleWriter`, the same formulas
the runs check. `TypeOK` is inductive alone; it carries that a process in `write`,
`fstat` or `read` has a file open. `Custody` needs `TypeOK` only: the one way to
become the owner of a directory is an `mkdir` that succeeds (nobody owned it, it
was not there) or an `unlink` that succeeds (nobody owned it, `driver` was
there). `SoleWriter` needs `Custody`: a registrar comes to `write` by a `creat`
in a directory it owns, where there is no `driver`, so `creat` makes a new
inode that nobody has open, and `FreeInode` keeps it from being given away. `ListedStable` follows because the two steps that change contents are
`creat`, which by `Custody` never truncates, and `write`, which by `SoleWriter`
finds the file empty. For the refinement, `Stage` depends on a directory, its
`driver` and its owner only (`StageFrame`), and each system call that changes one
of these moves one name (`StageMove`).

It also proves `[]ScanHonest` and `ScanComplete` of `RegistryScan` for any number of
processes, names and inodes, under the assumption that `open` and `read` of a
`driver` that is there do not fail (with them the callback is told no id, as
the code has it). The invariant `Follows` says of every entry that has been there
all along that `readdir` has still to return it, or has, and what the process
has of it in each step is what the directory has (`Current`). An entry in the history
keeps its file and its path by `ListedStep`; a step of somebody else that makes or
removes an entry concerns none in the history (`ComesOrGoes`), by `Custody`.

`HostSessionProofs` proves, for any sets of `Device` objects, instances and names,
under `HostSessionAssumption` only (`NULL` is no instance, `NoName` and `Garbled`
are no names, `Long` and `Full` have names only),
`Spec => []TypeOK`, `[]Owned`, `[]NamedAsAsked`, `[]ReadyAsAsked` and
`LoadedAsAsked`. The inductive invariant adds two parts to `TypeOK`, `Owned` and
`NamedAsAsked`: `Places` says which stages of a constructor have an instance, and
`NamesKnown` what name an instance can have at each of them. `Owned` is what
makes the rest inductive: a step on the instance of one owner is a step
on nobody else's, so the `...Frame` lemmas say what a call does to one
instance and each `...Step` lemma what that means to its owner. What a name
given stands for is `NamedFor`, since a name of 32 characters may be stored garbled.

`DriverLibraryProofs` proves the five invariants of `DriverLibrary` and `InstancesLive`, for any finite
sets of threads and instances, and that the use count is never below zero, since it is the number of
instances counted. The invariant adds: `Places`, the life of the instance a thread
works on; `Holding`, that an instance being made or released is known to one
thread, and an instance without references is being freed by one thread; and
`HandlesSuffice`, that there is a handle for each thread in `cwASIOload` before
its instance is counted, one for each about to call `dlclose`, and one more if
anything is counted. The counters are cardinalities: `TokenCount` and its like split what
one thread holds from what the others do.
`InstancesLiveHolds` is the refinement of `InstanceLifecycle`: by `RefsExact` what is held is what the
counter says, so that the number a call reads from `refs` is the number the abstraction has. `StageMove`
and `StageFrame` say which steps move an instance on, and `LifecycleStep` that each step is one
abstract action on one instance or leaves all of them alone. `HostOut` gives the guard of a
sharing `addRef`, `FreeAtZero` that of freeing. `releaseDriver`, which counts an instance
that is gone, is a stutter there: "released" is seen as "freed".

`ClassFactoryProofs` proves `TypeOK`, `RefsExact`, `FreedAtLast`, `UseCountExact`, `NotUnderUse`
and `InstancesLive`, for any finite sets of threads and instances. The invariant has two parts. For the
DLL, `CreatorsCounted`: while a thread is in `createInstance` there is a reference to the factory, which is
what keeps the DLL in place before the instance is counted. For the instances, `Holding`: `Places` says what has become of
the instance at each place of `createInstance` and with each of its results; `Alone`, that one being made is known to one
thread; `HostOut`, that clients have references to counted ones only; `FreeAtZero`
and `Dying`, that an instance without references has one thread freeing it. They rest on each
other: that only one thread sees a counter reach zero needs
`RefsExact`, which needs that nobody has a reference to an instance that was freed, which needs
`FreeAtZero`. `FreedAtLast` and the refinement follow from `Holding`.

`WinProofs` proves `[]TypeOK` and `[]Loadable` of `WinRegistry`, and `[]HostTypeOK`,
`[]ComExact`, `[]Loadable`, `[]ScanHonest` and `QuietFound` of `WinHost`, under
`WinRegistryAssumption` and `WinHostAssumption` (names are numbers, finitely many), those of `Loadable`
and `QuietFound` under `Apart` as well. `RInv` follows the order of the writes: how
much of a class there is at each call, and that the class an installer is about to delete is that of an
entry that is no longer listed. For the scan, `ScanInv` compares the number of
keys below an entry with the index: a deletion lowers it and an addition raises
it, and `firm` and `still` are the entries that neither has happened to. `QuietFound`
follows since a matching entry that stays `firm` cannot be passed over untold.

`PlayerProofs` proves `TypeOK`, `PlayedInOrder`, `CutShort` and `ToldInTime` for files and blocks of any
size, those included that the index cannot count. `Remainder` and the lemmas after it say how the index goes on
where it wraps. `Out(k)` is what is to come out in the k-th place;
`Halves` says that both halves hold what comes out next, the one being filled
as far as it is, and `Index` that the index is that of the frames asked for. `ToldInTime` needs
`Running`: while `stopStatus` is not set, no frame has been asked for that is not in the file. It is not
inductive itself, since it speaks of what has been heard and the flag is set by what is
asked for, up to a block ahead.

`RecorderProofs` proves `TypeOK`, `Conserved`, `WrittenExact` and `HeaderTells` for any number of
blocks of any size, if the counter has room for the header and two blocks. `DriverHolds`
and `MainHolds` say when a thread has a block, and `Room` that the counter has not passed the
limit inside the loop. The lemmas `Delivered`, `Queued`, `Taken` and
`Stored` are the four moves of a block in terms of sequences. For `HeaderTells`, `Fixing` says what
the two fields can be at each place of the destructor, failed or not.

`WaveFileProofs` proves `TypeOK`, `WithinFile`, `PositionExact` and `DeclaresItsData` for any sets of sample sizes and
channels, any width of an `int` and files of any length, under `WaveFileAssumption` (a sample has 8 bits or more, there is a channel, and
the largest length has room for the headers). The first three are one invariant, `FileInv`: `read` takes no more samples
than are left, which is a number only if the position is within the file, and the
stream stays at the sample that is counted only if whole samples are taken. For the last, `Faithful` says, of a file nothing has
gone wrong with, that its data end where the stream is while it is being written, and that
its header declares them afterwards, or will when what is in the buffers (`unflushed`) gets to the disk. `SizesOf` tells the sizes that
`writeHeaders` and `getBytesPerSample` agree on from the others, and `FewerBytes` that these have fewer bytes in the header. The products and quotients of sizes are dealt with in
lemmas of their own (`TimesGrows`, `DivAtMost`, `SamplesOf`), since the provers do not
find them inside a step.

Every invariant and action property of the passing runs is proved, and the three refinements of
`EntryLifecycle` and `InstanceLifecycle`. Only model-checked are the liveness properties `Recorded`, `SignalEnds` and
`PlaybackEnds`: fairness speaks of `ENABLED`, which is out of the provers' reach. The three
violations of section 3 are counterexamples of TLC.

## 6. Not modelled, and what is left

- The characters of a GUID and of the name that goes with it (`cwASIOtoGUID`,
  `strncpy` in `findCallback`): their results are in `WinHost`, section 3 says what the text
  functions do at their edges.
- The set-up of the recorder's device, and the forwarding functions of
  `cwASIO::Device`: calls without state.
- The parts of the skeletons that a driver writer is to fill in, the type and
  interface headers (declarations), build files and exports, and `test/probe.c`,
  which prints answers and keeps no state.
