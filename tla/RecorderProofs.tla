--------------------------- MODULE RecorderProofs ---------------------------
(* Proofs about Recorder, for any number of blocks of any size and a counter *)
(* of any width that has room for the header and two blocks.                 *)
EXTENDS Recorder, SequenceTheorems, TLAPS

\* What bufferSwitch has copied is in dbuf, until it is in the queue.
DriverHolds == /\ pc = "start" => dpc = "off"
               /\ dpc \in {"lock", "push"} => dbuf # 0
               /\ ~bad /\ dpc \in {"off", "idle"} => dbuf = 0

\* What main has taken is in buf, until it is in the file.
MainHolds == /\ pc = "write" => buf # 0
             /\ ~bad /\ pc # "write" => buf = 0

\* There is room for another block, and one more, before the counter wraps.
Room == pc \in {"start", "test", "lock", "pop", "write"} => written <= limit

\* The header is the constructor's until the destructor runs, and the first size
\* is there when the second is written.
Fixing ==
  /\ pc \in {"start", "test", "lock", "pop", "write", "fixSize"} =>
       header = [fileSize |-> 36, dataSize |-> 0]
  /\ pc = "fixData" =>
       /\ header.dataSize = 0
       /\ ~bad => header.fileSize = HeaderBytes + BlockBytes * Len(file) - 4

IInv == /\ TypeOK /\ DriverHolds /\ MainHolds /\ Room /\ WrittenExact /\ Conserved
        /\ Fixing /\ HeaderTells

-----------------------------------------------------------------------------
(* The counter                                                               *)

LEMMA UintInRange == \A n \in Int : Uint(n) \in 0 .. Modulus - 1
BY RecorderAssumption DEF Uint

LEMMA UintExact == \A n \in Nat : n < Modulus => Uint(n) = n
BY RecorderAssumption DEF Uint

LEMMA LimitIs == limit = Modulus - 2 * BlockBytes
<1>1. \A m, n \in Nat : 0 < n /\ n < m => (0 - n) % m = m - n
  OBVIOUS
<1>2. 2 * BlockBytes \in Nat /\ 0 < 2 * BlockBytes /\ 2 * BlockBytes < Modulus
  BY RecorderAssumption
<1> QED BY <1>1, <1>2, RecorderAssumption DEF limit, Uint

-----------------------------------------------------------------------------
(* The way of a block through the four places                                *)

UpTo(n) == [i \in 1 .. n |-> i]

\* The driver delivers the next block.
LEMMA Delivered ==
  ASSUME NEW n \in Nat
  PROVE  UpTo(n) \o <<n + 1>> = UpTo(n + 1)
<1>1. UpTo(n) \in Seq(Nat) /\ Len(UpTo(n)) = n /\ \A i \in 1 .. n : UpTo(n)[i] = i
  BY DEF UpTo
<1>2. UpTo(n + 1) \in Seq(Nat) /\ Len(UpTo(n + 1)) = n + 1 /\ \A i \in 1 .. n + 1 : UpTo(n + 1)[i] = i
  BY DEF UpTo
<1>3. <<n + 1>> \in Seq(Nat) /\ Len(<<n + 1>>) = 1 /\ <<n + 1>>[1] = n + 1
  OBVIOUS
<1> DEFINE s == UpTo(n) \o <<n + 1>>
<1>4. /\ s \in Seq(Nat) /\ Len(s) = n + 1
      /\ \A i \in 1 .. n + 1 : s[i] = IF i <= n THEN UpTo(n)[i] ELSE <<n + 1>>[i - n]
  BY <1>1, <1>3, ConcatProperties
<1> HIDE DEF s
<1>5. \A i \in 1 .. Len(s) : s[i] = UpTo(n + 1)[i]
  BY <1>1, <1>2, <1>3, <1>4
<1>6. s = UpTo(n + 1)
  BY <1>2, <1>4, <1>5, SeqEqual
<1> QED BY <1>6 DEF s

\* bufferSwitch queues its block.
LEMMA Queued ==
  ASSUME NEW S, NEW s \in Seq(S), NEW q \in Seq(S), NEW b \in S
  PROVE  (s \o Append(q, b)) \o <<>> = (s \o q) \o <<b>>
<1>1. <<b>> \in Seq(S) /\ Append(q, b) = q \o <<b>> /\ Append(q, b) \in Seq(S)
  BY AppendIsConcat, AppendProperties
<1>2. (s \o q) \o <<b>> = s \o (q \o <<b>>)
  BY <1>1, ConcatAssociative
<1>3. s \o Append(q, b) \in Seq(S)
  BY <1>1, ConcatProperties
<1> QED BY <1>1, <1>2, <1>3, ConcatEmptySeq

\* main takes the first block of the queue.
LEMMA Taken ==
  ASSUME NEW S, NEW f \in Seq(S), NEW q \in Seq(S), q # <<>>
  PROVE  (f \o <<Head(q)>>) \o Tail(q) = (f \o <<>>) \o q
<1>1. Head(q) \in S /\ Tail(q) \in Seq(S) /\ Len(Tail(q)) = Len(q) - 1
      /\ \A i \in 1 .. Len(Tail(q)) : Tail(q)[i] = q[i + 1]
  BY HeadTailProperties
<1>2. <<Head(q)>> \in Seq(S) /\ Len(<<Head(q)>>) = 1 /\ <<Head(q)>>[1] = q[1] /\ Len(q) \in Nat
  BY <1>1
<1> DEFINE t == <<Head(q)>> \o Tail(q)
<1>3. /\ t \in Seq(S) /\ Len(t) = Len(q)
      /\ \A i \in 1 .. Len(q) : t[i] = IF i <= 1 THEN q[1] ELSE Tail(q)[i - 1]
  BY <1>1, <1>2, ConcatProperties
<1> HIDE DEF t
<1>4. \A i \in 1 .. Len(t) : t[i] = q[i]
  BY <1>1, <1>2, <1>3
<1>5. t = q
  BY <1>3, <1>4, SeqEqual
<1>6. (f \o <<Head(q)>>) \o Tail(q) = f \o t
  BY <1>1, <1>2, ConcatAssociative DEF t
<1> QED BY <1>5, <1>6, ConcatEmptySeq

\* main appends its block to the file.
LEMMA Stored ==
  ASSUME NEW S, NEW f \in Seq(S), NEW b \in S
  PROVE  Append(f, b) \o <<>> = f \o <<b>>
BY AppendIsConcat, AppendProperties, ConcatEmptySeq

-----------------------------------------------------------------------------
\* The invariant holds at first.
LEMMA Initially == Init => IInv
<1> SUFFICES ASSUME Init PROVE IInv
  OBVIOUS
<1> USE RecorderAssumption DEF Init
<1>1. written = HeaderBytes
  BY UintExact
<1>2. TypeOK
  <2>1. bufferQueue \in Seq(Blocks) /\ file \in Seq(Blocks)
    BY EmptySeq
  <2>2. header \in [fileSize : 0 .. Modulus - 1, dataSize : 0 .. Modulus - 1]
    OBVIOUS
  <2>3. written \in 0 .. Modulus - 1
    BY <1>1
  <2>4. captured \in 0 .. MaxBlocks
    OBVIOUS
  <2> QED BY <2>1, <2>2, <2>3, <2>4 DEF TypeOK
<1>3. DriverHolds /\ MainHolds /\ Fixing /\ HeaderTells
  BY DEF DriverHolds, MainHolds, Fixing, HeaderTells
<1>4. Room
  BY <1>1, LimitIs DEF Room
<1>5. WrittenExact
  BY <1>1 DEF WrittenExact
<1>6. Conserved
  <2>1. file \o Held(buf) \o bufferQueue \o Held(dbuf) = <<>>
    BY EmptySeq, ConcatEmptySeq DEF Held
  <2>2. [i \in 1 .. captured |-> i] = <<>>
    OBVIOUS
  <2> QED BY <2>1, <2>2 DEF Conserved
<1> QED BY <1>2, <1>3, <1>4, <1>5, <1>6 DEF IInv

\* What IInv says of the sequences that a step starts from.
LEMMA Sequences ==
  ASSUME IInv
  PROVE  /\ file \in Seq(Blocks) /\ bufferQueue \in Seq(Blocks)
         /\ Held(buf) \in Seq(Blocks) /\ Held(dbuf) \in Seq(Blocks)
         /\ file \o Held(buf) \in Seq(Blocks)
         /\ file \o Held(buf) \o bufferQueue \in Seq(Blocks)
<1>1. file \in Seq(Blocks) /\ bufferQueue \in Seq(Blocks)
  BY DEF IInv, TypeOK
<1>2. \A b \in {0} \cup Blocks : Held(b) \in Seq(Blocks)
  BY EmptySeq DEF Held
<1>3. Held(buf) \in Seq(Blocks) /\ Held(dbuf) \in Seq(Blocks)
  BY <1>2 DEF IInv, TypeOK
<1>4. file \o Held(buf) \in Seq(Blocks)
  BY <1>1, <1>3, ConcatProperties
<1> QED BY <1>1, <1>3, <1>4, ConcatProperties

LEMMA BufferSwitchStep ==
  ASSUME IInv, BufferSwitch
  PROVE  IInv'
<1> USE RecorderAssumption DEF BufferSwitch, fileVars
<1>1. captured \in Nat /\ captured + 1 \in Blocks
  BY DEF IInv, TypeOK, Blocks
<1>2. TypeOK'
  BY <1>1 DEF IInv, TypeOK, Blocks
<1>3. DriverHolds' /\ MainHolds' /\ Room' /\ WrittenExact'
  BY <1>1, LimitIs DEF IInv, DriverHolds, MainHolds, Room, WrittenExact, limit, Uint
<1>5. Fixing' /\ HeaderTells'
  BY DEF IInv, Fixing, HeaderTells
<1>4. Conserved'
  <2> SUFFICES ASSUME ~bad
               PROVE  file \o Held(buf) \o bufferQueue \o Held(dbuf') = UpTo(captured')
    BY DEF Conserved, UpTo, Held
  <2>1. dbuf = 0 /\ Held(dbuf) = <<>> /\ Held(dbuf') = <<captured + 1>>
    BY <1>1 DEF IInv, DriverHolds, Held
  <2>2. file \o Held(buf) \o bufferQueue = UpTo(captured)
    BY <2>1, Sequences, ConcatEmptySeq DEF IInv, Conserved, UpTo
  <2> QED BY <1>1, <2>1, <2>2, Delivered
<1> QED BY <1>2, <1>3, <1>4, <1>5 DEF IInv

LEMMA BufferPushStep ==
  ASSUME IInv, BufferPush
  PROVE  IInv'
<1> USE RecorderAssumption DEF BufferPush, fileVars
<1>1. dbuf \in Blocks /\ dbuf # 0
  BY DEF IInv, TypeOK, DriverHolds, Blocks
<1>2. bufferQueue' \in Seq(Blocks)
  BY <1>1, Sequences, AppendProperties
<1>3. TypeOK'
  BY <1>2 DEF IInv, TypeOK, Blocks
<1>4. DriverHolds' /\ MainHolds' /\ Room' /\ WrittenExact'
  BY LimitIs DEF IInv, DriverHolds, MainHolds, Room, WrittenExact, limit, Uint
<1>6. Fixing' /\ HeaderTells'
  BY DEF IInv, Fixing, HeaderTells
<1>5. Conserved'
  <2> SUFFICES ASSUME ~bad
               PROVE  file \o Held(buf) \o bufferQueue' \o Held(dbuf') = UpTo(captured)
    BY DEF Conserved, UpTo, Held
  <2>1. Held(dbuf) = <<dbuf>> /\ Held(dbuf') = <<>>
    BY <1>1 DEF Held
  <2>2. (file \o Held(buf) \o Append(bufferQueue, dbuf)) \o <<>>
          = (file \o Held(buf) \o bufferQueue) \o <<dbuf>>
    <3>1. file \o Held(buf) \in Seq(Blocks) /\ bufferQueue \in Seq(Blocks)
      BY Sequences
    <3>2. dbuf \in Blocks
      BY <1>1
    <3> QED BY ONLY <3>1, <3>2, Queued
  <2> QED BY <2>1, <2>2 DEF IInv, Conserved, UpTo
<1> QED BY <1>3, <1>4, <1>5, <1>6 DEF IInv

LEMMA GetNextPopStep ==
  ASSUME IInv, GetNextPop
  PROVE  IInv'
<1> USE RecorderAssumption DEF GetNextPop, fileVars, driverVars
<1>3. Fixing' /\ HeaderTells'
  BY DEF IInv, Fixing, HeaderTells
<1>1. CASE bufferQueue = <<>>
  <2>1. UNCHANGED <<buf, bufferQueue>> /\ pc' = "test"
    BY <1>1
  <2>2. TypeOK'
    BY <2>1 DEF IInv, TypeOK, Blocks
  <2>3. DriverHolds' /\ MainHolds' /\ Room' /\ WrittenExact'
    BY <2>1, LimitIs DEF IInv, DriverHolds, MainHolds, Room, WrittenExact, limit, Uint
  <2>4. Conserved'
    BY <2>1 DEF IInv, Conserved, Held
  <2> QED BY <1>3, <2>2, <2>3, <2>4 DEF IInv
<1>2. CASE bufferQueue # <<>>
  <2>1. buf' = Head(bufferQueue) /\ bufferQueue' = Tail(bufferQueue) /\ pc' = "write"
    BY <1>2
  <2>2. buf' \in Blocks /\ bufferQueue' \in Seq(Blocks)
    BY <1>2, <2>1, Sequences, HeadTailProperties
  <2>3. buf' # 0
    BY <2>2 DEF Blocks
  <2>4. TypeOK'
    BY <2>1, <2>2 DEF IInv, TypeOK, Blocks
  <2>5. DriverHolds' /\ MainHolds' /\ Room' /\ WrittenExact'
    BY <2>1, <2>3, LimitIs DEF IInv, DriverHolds, MainHolds, Room, WrittenExact, limit, Uint
  <2>6. Conserved'
    <3> SUFFICES ASSUME ~bad
                 PROVE  file \o Held(buf') \o bufferQueue' \o Held(dbuf) = UpTo(captured)
      BY DEF Conserved, UpTo, Held
    <3>1. Held(buf) = <<>> /\ Held(buf') = <<Head(bufferQueue)>>
      BY <2>1, <2>3 DEF IInv, MainHolds, Held
    <3>2. file \o <<Head(bufferQueue)>> \o Tail(bufferQueue) = file \o <<>> \o bufferQueue
      BY <1>2, Sequences, Taken
    <3> QED BY <2>1, <3>1, <3>2 DEF IInv, Conserved, UpTo
  <2> QED BY <1>3, <2>4, <2>5, <2>6 DEF IInv
<1> QED BY <1>1, <1>2

\* The counter does not wrap, and main leaves the loop when it is past the limit.
LEMMA WriteStep ==
  ASSUME IInv, Write
  PROVE  IInv'
<1> USE RecorderAssumption DEF Write, fileVars, driverVars
<1>1. buf \in Blocks /\ buf # 0 /\ written \in Nat /\ Len(file) \in Nat
  BY Sequences DEF IInv, TypeOK, MainHolds, Blocks
<1>2. written' = written + BlockBytes /\ written' \in 0 .. Modulus - 1
  <2>1. written <= limit
    BY DEF IInv, Room
  <2>2. written + BlockBytes \in Nat /\ written + BlockBytes < Modulus
    BY <1>1, <2>1, LimitIs
  <2> QED BY <2>2, UintExact
<1>3. file' \in Seq(Blocks) /\ (~bad' => file' = Append(file, buf) /\ Len(file') = Len(file) + 1)
  <2>1. Append(file, buf) \in Seq(Blocks) /\ Len(Append(file, buf)) = Len(file) + 1
    BY <1>1, Sequences, AppendProperties
  <2> QED BY <2>1, Sequences
<1>4. TypeOK'
  BY <1>2, <1>3 DEF IInv, TypeOK, Blocks
<1>5. DriverHolds' /\ MainHolds'
  BY DEF IInv, DriverHolds, MainHolds
<1>6. Room'
  BY <1>2, LimitIs DEF Room, limit, Uint
<1>7. WrittenExact'
  <2> SUFFICES ASSUME ~bad' PROVE written' = HeaderBytes + BlockBytes * Len(file')
    BY DEF WrittenExact
  <2>1. written = HeaderBytes + BlockBytes * Len(file)
    BY DEF IInv, WrittenExact
  <2>2. BlockBytes * (Len(file) + 1) = BlockBytes * Len(file) + BlockBytes
    BY <1>1
  <2>3. BlockBytes * Len(file) \in Int
    BY <1>1
  <2>4. Len(file') = Len(file) + 1
    BY <1>3
  <2>5. BlockBytes * Len(file') = BlockBytes * Len(file) + BlockBytes
    BY <2>2, <2>4
  <2>6. written' = HeaderBytes + BlockBytes * Len(file) + BlockBytes
    BY <1>2, <2>1
  <2>7. \A h, b, m, n \in Int : n = m + b => h + m + b = h + n
    OBVIOUS
  <2>8. HeaderBytes \in Int /\ BlockBytes \in Int
    OBVIOUS
  <2> HIDE RecorderAssumption DEF Write
  <2>9. BlockBytes * Len(file') \in Int
    BY <2>3, <2>5, <2>8
  <2> QED BY <2>3, <2>5, <2>6, <2>7, <2>8, <2>9
<1>8. Conserved'
  <2> SUFFICES ASSUME ~bad'
               PROVE  file' \o Held(buf') \o bufferQueue \o Held(dbuf) = UpTo(captured)
    BY DEF Conserved, UpTo, Held
  <2>1. Held(buf) = <<buf>> /\ Held(buf') = <<>>
    BY <1>1 DEF Held
  <2>2. file' \o <<>> = file \o <<buf>>
    BY <1>1, <1>3, Sequences, Stored
  <2> QED BY <2>1, <2>2 DEF IInv, Conserved, UpTo
<1>9. Fixing' /\ HeaderTells'
  BY DEF IInv, Fixing, HeaderTells
<1> QED BY <1>4, <1>5, <1>6, <1>7, <1>8, <1>9 DEF IInv

LEMMA FixStep ==
  ASSUME IInv, FixFileSize \/ FixDataSize
  PROVE  IInv'
<1> USE RecorderAssumption DEF FixFileSize, FixDataSize, fileVars, driverVars
<1>1. Uint(written - 4) \in 0 .. Modulus - 1 /\ Uint(written - 40) \in 0 .. Modulus - 1
  <2>1. written \in Int
    BY DEF IInv, TypeOK
  <2>2. written - 4 \in Int /\ written - 40 \in Int
    BY <2>1
  <2> QED BY <2>2, UintInRange
<1>2. TypeOK'
  BY <1>1 DEF IInv, TypeOK, Blocks
<1>3. DriverHolds' /\ MainHolds' /\ Room' /\ WrittenExact'
  BY DEF IInv, DriverHolds, MainHolds, Room, WrittenExact
<1>4. Conserved'
  BY DEF IInv, Conserved, Held
<1>5. Fixing' /\ HeaderTells'
  <2> DEFINE n == HeaderBytes + BlockBytes * Len(file)
  <2>1. written = n /\ ~bad
    BY DEF IInv, WrittenExact
  <2>2. written \in Nat /\ written < Modulus
    BY DEF IInv, TypeOK
  <2>3. n >= 44
    <3>1. Len(file) \in Nat
      BY Sequences
    <3>2. BlockBytes * Len(file) >= 0
      BY <3>1
    <3> QED BY <3>2
  <2>4. Uint(written - 4) = n - 4 /\ Uint(written - 40) = n - 40
    <3> HIDE DEF n
    <3>1. n - 4 \in Nat /\ n - 4 < Modulus /\ n - 40 \in Nat /\ n - 40 < Modulus
      BY <2>1, <2>2, <2>3
    <3>2. Uint(n - 4) = n - 4 /\ Uint(n - 40) = n - 40
      BY <3>1, UintExact
    <3> QED BY <2>1, <3>2
  <2>5. file' = file
    OBVIOUS
  <2>6. header \in [fileSize : 0 .. Modulus - 1, dataSize : 0 .. Modulus - 1]
    BY DEF IInv, TypeOK
  <2>7. CASE FixFileSize
    <3>1. pc' = "fixData" /\ header = [fileSize |-> 36, dataSize |-> 0]
      BY <2>7 DEF IInv, Fixing
    <3>2. \/ header' = [fileSize |-> n - 4, dataSize |-> 0]
          \/ header' = [fileSize |-> 36, dataSize |-> 0] /\ bad'
      BY <2>4, <2>7, <3>1
    <3> HIDE DEF FixFileSize, FixDataSize, n
    <3> QED BY <2>5, <3>1, <3>2 DEF Fixing, HeaderTells, n
  <2>8. CASE FixDataSize
    <3>1. header.dataSize = 0 /\ header.fileSize = n - 4
      BY <2>1, <2>8 DEF IInv, Fixing
    <3>2. CASE header' = [header EXCEPT !.dataSize = Uint(written - 40)] /\ pc' = "closed"
      <4>1. header' = [fileSize |-> n - 4, dataSize |-> n - 40]
        BY <2>4, <2>6, <3>1, <3>2
      <4> QED BY <2>5, <3>2, <4>1 DEF Fixing, HeaderTells
    <3>3. CASE header' = header /\ bad' /\ pc' \in {"fixData", "closed"}
      <4> HIDE DEF FixFileSize, FixDataSize
      <4> QED BY <2>5, <3>1, <3>3 DEF Fixing, HeaderTells
    <3> QED BY <2>8, <3>2, <3>3
  <2> QED BY <2>7, <2>8
<1> QED BY <1>2, <1>3, <1>4, <1>5 DEF IInv

\* The other steps move no block and count no bytes.
LEMMA OtherStep ==
  ASSUME IInv,
         \/ BufferLock \/ Start \/ TestSignal \/ GetNextLock \/ Terminate
         \/ ReleaseDevice \/ Signal \/ UNCHANGED vars
  PROVE  IInv'
<1> USE DEF BufferLock, Start, TestSignal, GetNextLock, Terminate, ReleaseDevice, Signal,
            vars, fileVars, driverVars
<1>1. TypeOK'
  <2>1. UNCHANGED <<captured, dbuf, bufferQueue, buf, file, written, header, bad>>
    OBVIOUS
  <2>2. /\ dpc' \in {"off", "idle", "lock", "push"} /\ mutex' \in {"free", "driver", "main"}
        /\ signalStatus' \in BOOLEAN
    BY DEF IInv, TypeOK
  <2>3. pc' \in {"start", "test", "lock", "pop", "write", "fixSize", "fixData",
                "closed", "exited", "aborted"}
    BY DEF IInv, TypeOK
  <2> HIDE DEF BufferLock, Start, TestSignal, GetNextLock, Terminate, ReleaseDevice, Signal, vars
  <2> QED BY <2>1, <2>2, <2>3 DEF IInv, TypeOK
<1>2. DriverHolds'
  BY DEF IInv, DriverHolds, TypeOK
<1>3. MainHolds'
  BY DEF IInv, MainHolds
<1>4. Room'
  BY DEF IInv, Room, limit, Uint
<1>5. WrittenExact'
  BY DEF IInv, WrittenExact
<1>6. Conserved'
  BY DEF IInv, Conserved, Held
<1>7. Fixing' /\ HeaderTells'
  BY DEF IInv, Fixing, HeaderTells
<1> QED BY <1>1, <1>2, <1>3, <1>4, <1>5, <1>6, <1>7 DEF IInv

LEMMA Inductive == IInv /\ [Next]_vars => IInv'
BY BufferSwitchStep, BufferPushStep, GetNextPopStep, WriteStep, FixStep, OtherStep
   DEF Next, Driver, Main

LEMMA Invariant == Spec => []IInv
BY Initially, Inductive, PTL DEF Spec

-----------------------------------------------------------------------------
\* Every variable keeps its type: no block is queued or written that the driver
\* has not delivered.
THEOREM TypeCorrect == Spec => []TypeOK
<1>1. IInv => TypeOK
  BY DEF IInv
<1> QED BY <1>1, Invariant, PTL

\* Until a write fails no delivered block is lost, doubled or out of order,
\* however the two threads interleave (recorder.cpp:42-62, 124-128, 197-202).
THEOREM ConservedHolds == Spec => []Conserved
<1>1. IInv => Conserved
  BY DEF IInv
<1> QED BY <1>1, Invariant, PTL

\* The counter does not wrap while it counts, for blocks of any size that the
\* counter has room for (recorder.cpp:124-127, 195, 201).
THEOREM WrittenExactHolds == Spec => []WrittenExact
<1>1. IInv => WrittenExact
  BY DEF IInv
<1> QED BY <1>1, Invariant, PTL

\* The header never counts a block that is not in the file, for blocks of any
\* size, whichever write or seek fails (recorder.cpp:83-84, 104, 109-127).
THEOREM HeaderTellsHolds == Spec => []HeaderTells
<1>1. IInv => HeaderTells
  BY DEF IInv
<1> QED BY <1>1, Invariant, PTL
=============================================================================
