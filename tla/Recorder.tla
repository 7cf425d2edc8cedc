------------------------------ MODULE Recorder ------------------------------
(* The recording application, src/test/recorder.cpp.  The driver's thread    *)
(* calls bufferSwitch with one block after the other; main takes the blocks  *)
(* from a queue under a mutex, appends them to a WAV file, and stops on      *)
(* SIGINT or when the size it counts in an unsigned integer nears its limit. *)
(* A block stands for the samples of one half of the double buffers.         *)
EXTENDS Integers, Sequences

CONSTANTS
  HeaderBytes,   \* sizeof(Header)
  BlockBytes,    \* 8 * blocksize: the bytes of one block
  Modulus,       \* the number of values of uint32_t, scaled down
  MaxBlocks,     \* bound on the blocks the driver delivers
  Fault          \* {"disk"} if a write to the file can fail, else {}

ASSUME RecorderAssumption ==
  /\ HeaderBytes \in Nat /\ HeaderBytes >= 44   \* the fields at 4 and 40 are in it
  /\ BlockBytes \in Nat \ {0} /\ Modulus \in Nat
  /\ MaxBlocks \in Nat
  /\ HeaderBytes + 2 * BlockBytes <= Modulus

VARIABLES
  captured,      \* how many blocks the driver has delivered; they count from 1
  dpc,           \* where the driver's thread is in bufferSwitch
  dbuf,          \* the block bufferSwitch has copied into buf; 0 for none
  mutex,         \* who has bufferMutex: "free", "driver" or "main"
  bufferQueue,   \* the blocks queued
  signalStatus,  \* whether SIGINT has arrived
  pc,            \* where main is
  buf,           \* the block main has taken from the queue; 0 for none
  file,          \* the blocks in the file
  written,       \* written_
  header,        \* the two size fields in the file's header
  bad            \* whether the stream has failed

driverVars == <<captured, dpc, dbuf>>
fileVars == <<file, written, header, bad>>
vars == <<captured, dpc, dbuf, mutex, bufferQueue, signalStatus, pc, buf,
          file, written, header, bad>>

\* uint32_t arithmetic wraps.
Uint(n) == n % Modulus

\* Mutant: the samples of two blocks are taken for their bytes.
limitInSamples == Uint(0 - 2 * (BlockBytes \div 8))

\* uint32_t limit = uint32_t(uint32_t(0) - 2 * blocksize * 8)
limit == Uint(0 - 2 * BlockBytes)

\* main has constructed file, which wrote the header, and driver.start() is next.
Init == /\ captured = 0
        /\ dpc = "off"
        /\ dbuf = 0
        /\ mutex = "free"
        /\ bufferQueue = <<>>
        /\ signalStatus = FALSE
        /\ pc = "start"
        /\ buf = 0
        /\ file = <<>>
        /\ written = Uint(HeaderBytes)
        /\ header = [fileSize |-> 36, dataSize |-> 0]
        /\ bad = FALSE

-----------------------------------------------------------------------------
(* The driver's thread.                                                      *)

\* Outside the repository: the driver has filled one half of the buffers and
\* calls bufferSwitch, which copies it before it asks for the mutex.  It starts
\* no call once it is being released.
BufferSwitch ==
  /\ dpc = "idle"
  /\ pc # "closed"
  /\ captured < MaxBlocks
  /\ captured' = captured + 1
  /\ dbuf' = captured + 1
  /\ dpc' = "lock"
  /\ UNCHANGED <<mutex, bufferQueue, signalStatus, pc, buf, fileVars>>

BufferLock ==
  /\ dpc = "lock"
  /\ mutex = "free"
  /\ mutex' = "driver"
  /\ dpc' = "push"
  /\ UNCHANGED <<captured, dbuf, bufferQueue, signalStatus, pc, buf, fileVars>>

\* Mutant: a block is put where the next one is taken.
BufferPushFront ==
  /\ dpc = "push"
  /\ bufferQueue' = <<dbuf>> \o bufferQueue
  /\ dbuf' = 0
  /\ mutex' = "free"
  /\ dpc' = "idle"
  /\ UNCHANGED <<captured, signalStatus, pc, buf, fileVars>>

BufferPush ==
  /\ dpc = "push"
  /\ bufferQueue' = Append(bufferQueue, dbuf)
  /\ dbuf' = 0
  /\ mutex' = "free"
  /\ dpc' = "idle"
  /\ UNCHANGED <<captured, signalStatus, pc, buf, fileVars>>

-----------------------------------------------------------------------------
(* main                                                                      *)

\* driver.start(): an error is thrown past the loop, and the file is closed.
Start ==
  /\ pc = "start"
  /\ \/ dpc' = "idle" /\ pc' = "test"
     \/ pc' = "fixSize" /\ UNCHANGED dpc
  /\ UNCHANGED <<captured, dbuf, mutex, bufferQueue, signalStatus, buf, fileVars>>

\* The handler is installed before start() and may run at any time.
Signal ==
  /\ pc # "exited"
  /\ ~signalStatus
  /\ signalStatus' = TRUE
  /\ UNCHANGED <<driverVars, mutex, bufferQueue, pc, buf, fileVars>>

TestSignal ==
  /\ pc = "test"
  /\ pc' = IF signalStatus THEN "fixSize" ELSE "lock"
  /\ UNCHANGED <<driverVars, mutex, bufferQueue, signalStatus, buf, fileVars>>

GetNextLock ==
  /\ pc = "lock"
  /\ mutex = "free"
  /\ mutex' = "main"
  /\ pc' = "pop"
  /\ UNCHANGED <<driverVars, bufferQueue, signalStatus, buf, fileVars>>

\* Mutant: an empty queue is left without unlocking.
GetNextPopLocked ==
  /\ pc = "pop"
  /\ \/ /\ bufferQueue = <<>>
        /\ pc' = "test"
        /\ UNCHANGED <<buf, bufferQueue, mutex>>
     \/ /\ bufferQueue # <<>>
        /\ buf' = Head(bufferQueue)
        /\ bufferQueue' = Tail(bufferQueue)
        /\ pc' = "write"
        /\ mutex' = "free"
  /\ UNCHANGED <<driverVars, signalStatus, fileVars>>

\* An empty queue sends main to sleep and then round the loop.
GetNextPop ==
  /\ pc = "pop"
  /\ \/ /\ bufferQueue = <<>>
        /\ pc' = "test"
        /\ UNCHANGED <<buf, bufferQueue>>
     \/ /\ bufferQueue # <<>>
        /\ buf' = Head(bufferQueue)
        /\ bufferQueue' = Tail(bufferQueue)
        /\ pc' = "write"
  /\ mutex' = "free"
  /\ UNCHANGED <<driverVars, signalStatus, fileVars>>

\* The stream throws on failbit only: a write that fails sets badbit and goes
\* unnoticed, and the next use of the stream throws.
Write ==
  /\ pc = "write"
  /\ ~bad
  /\ \/ file' = Append(file, buf) /\ UNCHANGED bad
     \/ "disk" \in Fault /\ bad' = TRUE /\ UNCHANGED file
  /\ written' = Uint(written + BlockBytes)
  /\ pc' = IF written' >= limit THEN "fixSize" ELSE "test"
  /\ buf' = 0
  /\ UNCHANGED <<driverVars, mutex, bufferQueue, signalStatus, header>>

\* Mutant: the stream does not throw, and the destructor goes on with a bad one.
FixFileSizeQuiet ==
  /\ pc = "fixSize"
  /\ header' = [header EXCEPT !.fileSize = Uint(written - 4)]
  /\ pc' = "fixData"
  /\ UNCHANGED <<driverVars, mutex, bufferQueue, signalStatus, buf, file, written, bad>>

\* ~WAVfile goes to the size fields in turn.  A seek that fails throws; a write
\* that fails, or is not flushed by the next seek, is noticed there.
FixFileSize ==
  /\ pc = "fixSize"
  /\ ~bad
  /\ \/ /\ header' = [header EXCEPT !.fileSize = Uint(written - 4)]
        /\ UNCHANGED bad
     \/ "disk" \in Fault /\ bad' = TRUE /\ UNCHANGED header
  /\ pc' = "fixData"
  /\ UNCHANGED <<driverVars, mutex, bufferQueue, signalStatus, buf, file, written>>

\* offsetof(Header, dataSize) is 40; written_ is not restored after it.  close
\* throws if it cannot flush the field, not if the write has already failed.
FixDataSize ==
  /\ pc = "fixData"
  /\ ~bad
  /\ \/ /\ header' = [header EXCEPT !.dataSize = Uint(written - 40)]
        /\ pc' = "closed"
        /\ UNCHANGED bad
     \/ /\ "disk" \in Fault
        /\ bad' = TRUE
        /\ pc' \in {"fixData", "closed"}
        /\ UNCHANGED header
  /\ written' = IF pc' = "closed" THEN Uint(written - 40) ELSE written
  /\ UNCHANGED <<driverVars, mutex, bufferQueue, signalStatus, buf, file>>

\* A throw from ~WAVfile, or one that finds it on the way out, ends the program.
Terminate ==
  /\ pc \in {"write", "fixSize", "fixData"}
  /\ bad
  /\ pc' = "aborted"
  /\ dpc' = "off"
  /\ UNCHANGED <<captured, dbuf, mutex, bufferQueue, signalStatus, buf, fileVars>>

\* ~Device releases the driver, which stops calling; main has never called stop.
ReleaseDevice ==
  /\ pc = "closed"
  /\ dpc \in {"off", "idle"}
  /\ dpc' = "off"
  /\ pc' = "exited"
  /\ UNCHANGED <<captured, dbuf, mutex, bufferQueue, signalStatus, buf, fileVars>>

-----------------------------------------------------------------------------
Driver == BufferSwitch \/ BufferLock \/ BufferPush

Main == \/ Start \/ TestSignal \/ GetNextLock \/ GetNextPop \/ Write
        \/ FixFileSize \/ FixDataSize \/ Terminate \/ ReleaseDevice

Next == Driver \/ Main \/ Signal

Spec == Init /\ [][Next]_vars

\* The operating system runs both threads again and again.  The driver's thread
\* has the mutex for one push in every period of the device, so main, which asks
\* for it again and again, is let in; and the other way round.
FairSpec == /\ Spec
            /\ WF_vars(Main) /\ SF_vars(GetNextLock)
            /\ WF_vars(BufferPush) /\ SF_vars(BufferLock)

-----------------------------------------------------------------------------
Blocks == 1 .. MaxBlocks

TypeOK ==
  /\ captured \in 0 .. MaxBlocks
  /\ dpc \in {"off", "idle", "lock", "push"}
  /\ dbuf \in {0} \cup Blocks
  /\ mutex \in {"free", "driver", "main"}
  /\ bufferQueue \in Seq(Blocks)
  /\ signalStatus \in BOOLEAN
  /\ pc \in {"start", "test", "lock", "pop", "write", "fixSize", "fixData",
             "closed", "exited", "aborted"}
  /\ buf \in {0} \cup Blocks
  /\ file \in Seq(Blocks)
  /\ written \in 0 .. Modulus - 1
  /\ header \in [fileSize : 0 .. Modulus - 1, dataSize : 0 .. Modulus - 1]
  /\ bad \in BOOLEAN

Held(b) == IF b = 0 THEN <<>> ELSE <<b>>

\* As long as no write has failed, every block the driver has delivered is in
\* exactly one place, and in the order of delivery: in the file, with main, in
\* the queue, or with bufferSwitch (recorder.cpp:42-62, 124-128, 197-202).
Conserved ==
  ~bad => file \o Held(buf) \o bufferQueue \o Held(dbuf)
            = [i \in 1 .. captured |-> i]

\* written_ is the size of the file until the destructor has used it up: main
\* leaves the loop before the counter wraps, whatever part of the limit the last
\* block overshoots (recorder.cpp:124-127, 195, 201).
WrittenExact ==
  pc \notin {"closed", "exited", "aborted"} /\ ~bad =>
    written = HeaderBytes + BlockBytes * Len(file)

\* The header never counts a block that is not in the file, though written_ counts
\* the one whose write has failed: a size field is as the constructor has written
\* it until the destructor has found the stream good, and then the size of the
\* file less the place of the field.  The size of the data is the last to change,
\* and both are right when the file is closed without an error (recorder.cpp:83-84,
\* 104, 109-127; the comments on the fields, in 86 and 97, have other sizes).
HeaderTells ==
  LET size  == HeaderBytes + BlockBytes * Len(file)
      whole == [fileSize |-> size - 4, dataSize |-> size - 40]
  IN /\ header.fileSize \in {36, whole.fileSize}
     /\ header.dataSize # 0 => header = whole
     /\ pc \in {"closed", "exited"} /\ ~bad => header = whole

\* A delivered block gets into the file unless the recording is being ended: the
\* queue is drained however the two threads interleave (recorder.cpp:197-207).
Recorded ==
  \A b \in Blocks :
    captured >= b ~> \/ Len(file) >= b \/ signalStatus \/ bad
                     \/ pc \in {"fixSize", "fixData", "closed", "exited"}

\* SIGINT ends the program, with a header or, when the disk failed, without
\* (recorder.cpp:35-40, 197).
SignalEnds == signalStatus ~> pc \in {"exited", "aborted"}
=============================================================================
