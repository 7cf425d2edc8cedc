---------------------------- MODULE PlayerProofs ----------------------------
(* Proofs about Player, for files and blocks of any size, whether or not the *)
(* index can count the samples of the file.                                  *)
EXTENDS Player, SequenceTheorems, TLAPS

\* How many frames the index can count.
UintFrames == UintRange \div 2

\* What comes out of the driver in the k-th place: two silent halves, the file,
\* and silence, or the file once more.
Out(k) == FrameAt(k - 2 * blocksize)

\* The frames that bufferSwitch has asked for; the index is theirs, up to the end.
Asked == Len(played) + filled - blocksize

Over == Fits /\ Asked >= frames

Index == /\ Asked >= 0
         /\ fileBufferIndex = 2 * IF Over THEN frames ELSE Asked % UintFrames

\* The halves hold what is to come out next: one as a whole, the other as far as
\* it is filled.
Halves ==
  /\ \A i \in 1..blocksize : buffers[1 - half][i] = Out(Len(played) + i)
  /\ \A i \in 1..filled : buffers[half][i] = Out(Len(played) + blocksize + i)

Heard == \A k \in 1..Len(played) : played[k] = Out(k)

\* stopStatus is set in a half that begins before the end of the file or at it.
Stopping == stopStatus => Fits /\ Len(played) > frames

\* Until then no frame has been asked for that is not in the file, if it fits.
Running == ~stopStatus /\ Fits => Asked <= frames

Ending == pc = "ended" => signalStatus \/ stopStatus

IInv == TypeOK /\ Index /\ Halves /\ Heard /\ Stopping /\ Running /\ Ending

-----------------------------------------------------------------------------
\* A remainder is the one number below the divisor that leaves a multiple of it.
LEMMA Remainder ==
  ASSUME NEW m \in Nat, m > 0, NEW n \in Nat, NEW a \in Int, NEW b \in 0..(m - 1),
         n = m * a + b
  PROVE  n % m = b
<1> DEFINE q == n \div m
           z == n % m
           d == a - q
<1>1. q \in Int /\ z \in 0..(m - 1) /\ n = m * q + z
  OBVIOUS
<1> HIDE DEF q, z
<1>2. d \in Int /\ m * d = z - b
  <2>1. m * (a - q) = m * a - m * q
    BY <1>1
  <2> QED BY <1>1, <2>1
<1> HIDE DEF d
<1>3. d >= 1 => m * d >= m
  BY <1>2
<1>4. d <= -1 => m * d <= -m
  BY <1>2
<1>5. d = 0
  BY <1>1, <1>2, <1>3, <1>4
<1>6. z = b
  BY <1>1, <1>2, <1>5
<1> QED BY <1>6 DEF z

\* It goes up by one, and starts over.
LEMMA NextRemainder ==
  ASSUME NEW m \in Nat, m > 0, NEW n \in Nat
  PROVE  /\ n % m \in 0..(m - 1)
         /\ n < m => n % m = n
         /\ (n + 1) % m = IF (n % m) + 1 = m THEN 0 ELSE (n % m) + 1
<1> DEFINE q == n \div m
           z == n % m
<1>1. q \in Int /\ z \in 0..(m - 1) /\ n = m * q + z
  OBVIOUS
<1> HIDE DEF q, z
<1>2. n < m => z = n
  BY DEF z
<1>3. CASE z + 1 = m
  <2>1. n + 1 = m * (q + 1) + 0
    BY <1>1, <1>3
  <2>2. (n + 1) % m = 0
    BY <2>1, <1>1, Remainder
  <2> QED BY <1>1, <1>2, <1>3, <2>2 DEF z
<1>4. CASE z + 1 # m
  <2>1. n + 1 = m * q + (z + 1) /\ z + 1 \in 0..(m - 1)
    BY <1>1, <1>4
  <2>2. (n + 1) % m = z + 1
    BY <2>1, <1>1, Remainder
  <2> QED BY <1>1, <1>2, <1>4, <2>2 DEF z
<1> QED BY <1>3, <1>4

LEMMA UintFramesCount ==
  /\ UintFrames \in Nat /\ UintFrames > 0 /\ UintRange = 2 * UintFrames
  /\ TypeOK => (Fits <=> frames < UintFrames)
<1>1. /\ UintFrames \in Nat /\ UintFrames > 0 /\ UintRange = 2 * UintFrames
  BY PlayerAssumption DEF UintFrames
<1>2. TypeOK => (Fits <=> frames < UintFrames)
  BY <1>1, PlayerAssumption DEF UintFrames, Fits, TypeOK
<1> QED BY <1>1, <1>2

\* The index is that of a frame, and wraps to that of the first one.
LEMMA AdvanceExact ==
  ASSUME NEW c \in Nat, c < UintFrames
  PROVE  Advance(2 * c) = 2 * IF c + 1 = UintFrames THEN 0 ELSE c + 1
<1>1. CASE c + 1 = UintFrames
  <2>1. 2 * c + 2 = UintRange * 1 + 0 /\ UintRange \in Nat /\ UintRange > 0
    BY <1>1, UintFramesCount
  <2>2. (2 * c + 2) % UintRange = 0
    BY <2>1, Remainder
  <2> QED BY <1>1, <2>2 DEF Advance
<1>2. CASE c + 1 # UintFrames
  <2>1. /\ 2 * c + 2 = UintRange * 0 + (2 * c + 2) /\ UintRange \in Nat /\ UintRange > 0
        /\ 2 * c + 2 \in 0..(UintRange - 1)
    BY <1>2, UintFramesCount
  <2>2. (2 * c + 2) % UintRange = 2 * c + 2
    BY <2>1, Remainder
  <2> QED BY <1>2, <2>2 DEF Advance
<1> QED BY <1>1, <1>2

\* The invariant holds at first.
LEMMA Initially == Init => IInv
<1> SUFFICES ASSUME Init PROVE IInv
  OBVIOUS
<1> USE PlayerAssumption DEF Init
<1>1. frames \in Nat /\ blocksize \in Nat /\ blocksize > 0
  OBVIOUS
<1>2. Len(played) = 0
  OBVIOUS
<1>3. buffers \in [{0, 1} -> [1..blocksize -> (0..size) \X (0..size)]]
  BY <1>1 DEF Silence, size
<1>4. TypeOK
  <2>1. played \in Seq((0..size) \X (0..size))
    BY EmptySeq
  <2>2. /\ frames \in 0..MaxFrames /\ blocksize \in 1..MaxBlock
        /\ fileBufferIndex \in 0..size /\ filled \in 0..blocksize
    BY <1>1 DEF size
  <2> QED BY <1>3, <2>1, <2>2 DEF TypeOK
<1>5. Index
  <2>1. Asked = 0 /\ 0 % UintFrames = 0
    BY <1>1, <1>2, UintFramesCount, NextRemainder DEF Asked
  <2>2. Over => frames = 0
    BY <1>1, <2>1 DEF Over
  <2> QED BY <2>1, <2>2 DEF Index
<1>6. Halves
  <2>1. \A i \in 1..blocksize : Out(i) = Silence /\ Out(blocksize + i) = Silence
    BY <1>1 DEF Out, FrameAt
  <2>2. \A i \in 1..blocksize : buffers[1 - half][i] = Silence /\ buffers[half][i] = Silence
    OBVIOUS
  <2>3. \A i \in 1..blocksize : /\ Len(played) + i = i
                                /\ Len(played) + blocksize + i = blocksize + i
    BY <1>1, <1>2
  <2>4. filled = blocksize
    OBVIOUS
  <2> QED BY <2>1, <2>2, <2>3, <2>4, Zenon DEF Halves
<1>7. Heard /\ Stopping /\ Running /\ Ending
  BY <1>1, <1>2 DEF Heard, Stopping, Running, Ending, Asked
<1> QED BY <1>4, <1>5, <1>6, <1>7 DEF IInv

\* Playing a half appends it to what has been heard, and the rest moves up.
LEMMA SwitchStep ==
  ASSUME IInv, Switch
  PROVE  IInv'
<1> USE PlayerAssumption
<1> DEFINE T == (0..size) \X (0..size)
<1>1. /\ frames \in Nat /\ blocksize \in Nat /\ blocksize > 0 /\ filled = blocksize
      /\ half \in {0, 1} /\ played \in Seq(T) /\ Len(played) \in Nat
      /\ buffers[1 - half] \in [1..blocksize -> T]
  <2>1. TypeOK /\ filled = blocksize
    BY DEF IInv, Switch
  <2>2. half \in {0, 1} /\ 1 - half \in {0, 1} /\ played \in Seq(T)
    BY <2>1 DEF TypeOK
  <2>3. buffers[1 - half] \in [1..blocksize -> T]
    BY <2>1, <2>2 DEF TypeOK
  <2>4. frames \in Nat /\ blocksize \in Nat /\ blocksize > 0
    BY <2>1 DEF TypeOK
  <2>5. Len(played) \in Nat
    BY <2>2
  <2> QED BY <2>1, <2>2, <2>3, <2>4, <2>5
<1>2. buffers[1 - half] \in Seq(T) /\ Len(buffers[1 - half]) = blocksize
  <2> HIDE DEF T
  <2> QED BY <1>1
<1>3. /\ played' = played \o buffers[1 - half] /\ half' = 1 - half /\ filled' = 0
      /\ UNCHANGED <<pc, frames, blocksize, fileBufferIndex, stopStatus, signalStatus, buffers>>
  BY DEF Switch
<1>4. /\ played' \in Seq(T) /\ Len(played') = Len(played) + blocksize
      /\ \A k \in 1..Len(played') : played'[k] =
           IF k <= Len(played) THEN played[k] ELSE buffers[1 - half][k - Len(played)]
  <2> HIDE DEF T
  <2>1. /\ played \o buffers[1 - half] \in Seq(T)
        /\ Len(played \o buffers[1 - half]) = Len(played) + Len(buffers[1 - half])
        /\ \A k \in 1..Len(played) + Len(buffers[1 - half]) :
              (played \o buffers[1 - half])[k] =
                IF k <= Len(played) THEN played[k] ELSE buffers[1 - half][k - Len(played)]
    BY <1>1, <1>2, ConcatProperties
  <2> QED BY <1>2, <1>3, <2>1
<1>5. TypeOK'
  <2>1. size' = size
    BY <1>3 DEF size
  <2>2. played' \in Seq((0..size') \X (0..size'))
    BY <1>4, <2>1
  <2>3. half' \in {0, 1} /\ filled' \in 0..blocksize'
    BY <1>1, <1>3
  <2> QED BY <1>3, <2>1, <2>2, <2>3 DEF IInv, TypeOK
<1>6. Index'
  <2>1. Asked' = Asked /\ Over' = Over
    BY <1>1, <1>3, <1>4 DEF Asked, Over, Fits
  <2> QED BY <1>3, <2>1 DEF IInv, Index
<1>7. \A k \in Nat : Out(k)' = Out(k)
  BY <1>3 DEF Out, FrameAt, Fits
<1>8. Heard'
  <2> SUFFICES ASSUME NEW k \in 1..Len(played') PROVE played'[k] = Out(k)
    BY <1>7 DEF Heard
  <2>1. CASE k <= Len(played)
    <3>1. k \in 1..Len(played)
      BY <1>1, <1>4, <2>1
    <3>2. played[k] = Out(k)
      BY <3>1 DEF IInv, Heard
    <3> QED BY <1>4, <2>1, <3>2
  <2>2. CASE k > Len(played)
    <3>1. k - Len(played) \in 1..blocksize /\ Len(played) + (k - Len(played)) = k
      BY <1>1, <1>4, <2>2
    <3>2. buffers[1 - half][k - Len(played)] = Out(k)
      BY <3>1 DEF IInv, Halves
    <3>3. ~(k <= Len(played))
      BY <1>1, <2>2
    <3>4. played'[k] = buffers[1 - half][k - Len(played)]
      BY <1>4, <3>3
    <3> QED BY <3>2, <3>4
  <2> QED BY <1>1, <1>4, <2>1, <2>2
<1>9. Halves'
  <2>1. 1 - half' = half
    BY <1>1, <1>3
  <2>2. ASSUME NEW i \in 1..blocksize PROVE buffers[half][i] = Out(Len(played) + blocksize + i)
    BY <1>1 DEF IInv, Halves
  <2>3. ASSUME NEW i \in 1..blocksize PROVE (buffers[1 - half][i] = Out(Len(played) + i))'
    <3>1. Len(played') + i = Len(played) + blocksize + i /\ Len(played') + i \in Nat
      BY <1>1, <1>4
    <3>2. Out(Len(played) + i)' = Out(Len(played) + blocksize + i)
      BY <1>7, <3>1, <1>3 DEF Out, FrameAt, Fits
    <3> QED BY <1>3, <2>1, <2>2, <3>2
  <2>4. blocksize' = blocksize /\ 1..filled' = {}
    BY <1>3
  <2> QED BY <2>3, <2>4 DEF Halves
<1>10. Stopping' /\ Running' /\ Ending'
  BY <1>1, <1>3, <1>4 DEF IInv, Stopping, Running, Asked, Ending, Fits
<1> QED BY <1>5, <1>6, <1>8, <1>9, <1>10 DEF IInv

\* A frame of the file, or silence, goes where it will come out in its turn.
LEMMA FillStep ==
  ASSUME IInv, Fill
  PROVE  IInv'
<1> USE PlayerAssumption
<1>1. /\ frames \in Nat /\ blocksize \in Nat /\ blocksize > 0 /\ filled \in Nat
      /\ filled < blocksize /\ filled' = filled + 1 /\ half \in {0, 1}
      /\ Len(played) \in Nat
      /\ UNCHANGED <<pc, frames, blocksize, signalStatus, half, played>>
  BY DEF IInv, TypeOK, Fill
<1>2. /\ buffers \in [{0, 1} -> [1..blocksize -> (0..size) \X (0..size)]]
      /\ fileBufferIndex \in 0..size /\ size = 2 * frames /\ size' = size
  BY <1>1 DEF IInv, TypeOK, size
<1>3. /\ Asked \in Nat /\ Asked' = Asked + 1
      /\ fileBufferIndex = 2 * IF Over THEN frames ELSE Asked % UintFrames
      /\ (Fits' <=> Fits) /\ (Fits <=> frames < UintFrames)
  BY <1>1, UintFramesCount DEF IInv, Index, Asked, Fits
<1>4. \A k \in Nat : Out(k)' = Out(k)
  BY <1>1 DEF Out, FrameAt, Fits
<1>0. /\ UintFrames \in Nat /\ UintFrames > 0
      /\ Asked % UintFrames \in 0..(UintFrames - 1)
      /\ Asked < UintFrames => Asked % UintFrames = Asked
      /\ (Asked + 1) % UintFrames =
           IF (Asked % UintFrames) + 1 = UintFrames THEN 0 ELSE (Asked % UintFrames) + 1
  BY <1>3, UintFramesCount, NextRemainder
<1>e. AtEnd(fileBufferIndex) <=> Over
  <2>1. CASE Over
    BY <1>1, <1>2, <1>3, <2>1 DEF AtEnd
  <2>2. CASE ~Over
    <3>1. Asked % UintFrames < frames
      BY <1>0, <1>1, <1>3, <2>2 DEF Over
    <3> QED BY <1>0, <1>1, <1>2, <1>3, <2>2, <3>1 DEF AtEnd
  <2> QED BY <2>1, <2>2
<1> DEFINE x == IF AtEnd(fileBufferIndex) THEN Silence
                ELSE <<fileBufferIndex + 1, fileBufferIndex + 2>>
<1>5. buffers' = [buffers EXCEPT ![half][filled + 1] = x]
  BY DEF Fill, Pad
<1>6. x = Out(Len(played) + blocksize + (filled + 1)) /\ x \in (0..size) \X (0..size)
  <2>1. Out(Len(played) + blocksize + (filled + 1)) = FrameAt(Asked + 1)
    <3>1. (Len(played) + blocksize + (filled + 1)) - 2 * blocksize = Asked + 1
      BY <1>1 DEF Asked
    <3>2. \A k : k - 2 * blocksize = Asked + 1 => Out(k) = FrameAt(Asked + 1)
      BY DEF Out
    <3> QED BY <3>1, <3>2
  <2>2. (Asked + 1) - 1 = Asked /\ ~(Asked + 1 < 1)
    BY <1>3
  <2>3. CASE Over
    <3>1. Asked + 1 > frames /\ Fits
      BY <1>1, <1>3, <2>3 DEF Over
    <3>2. FrameAt(Asked + 1) = Silence
      BY <3>1 DEF FrameAt
    <3>3. x = Silence
      BY <1>e, <2>3
    <3>4. Silence \in (0..size) \X (0..size)
      BY <1>1, <1>2 DEF Silence
    <3> QED BY <2>1, <3>2, <3>3, <3>4
  <2>4. CASE ~Over
    <3>1. FrameAt(Asked + 1) =
            <<2 * (Asked % UintFrames) + 1, 2 * (Asked % UintFrames) + 2>>
      <4>1. ~(Fits /\ Asked + 1 > frames)
        BY <1>1, <1>3, <2>4 DEF Over
      <4> QED BY <2>2, <4>1 DEF FrameAt, UintFrames
    <3>2. Asked % UintFrames < frames
      BY <1>0, <1>1, <1>3, <2>4 DEF Over
    <3>3. /\ fileBufferIndex = 2 * (Asked % UintFrames)
          /\ fileBufferIndex + 1 \in 0..size /\ fileBufferIndex + 2 \in 0..size
      BY <1>0, <1>1, <1>2, <1>3, <2>4, <3>2
    <3> QED BY <1>e, <2>1, <2>4, <3>1, <3>3
  <2> QED BY <2>3, <2>4
<1> HIDE DEF x
<1>7. /\ buffers' \in [{0, 1} -> [1..blocksize -> (0..size) \X (0..size)]]
      /\ buffers'[1 - half] = buffers[1 - half]
      /\ buffers'[half][filled + 1] = x
      /\ \A i \in 1..blocksize : i # filled + 1 => buffers'[half][i] = buffers[half][i]
  <2> DEFINE T == (0..size) \X (0..size)
  <2>1. filled + 1 \in 1..blocksize /\ 1 - half \in {0, 1} /\ 1 - half # half /\ x \in T
    BY <1>1, <1>6
  <2>2. buffers \in [{0, 1} -> [1..blocksize -> T]]
    BY <1>2
  <2> HIDE DEF T
  <2>3. /\ buffers' \in [{0, 1} -> [1..blocksize -> T]]
        /\ buffers'[1 - half] = buffers[1 - half]
        /\ buffers'[half][filled + 1] = x
        /\ \A i \in 1..blocksize : i # filled + 1 => buffers'[half][i] = buffers[half][i]
    BY <1>1, <1>5, <2>1, <2>2
  <2> QED BY <2>3 DEF T
<1>8. Halves'
  <2>1. \A i \in 1..blocksize : buffers'[1 - half][i] = Out(Len(played) + i)
    BY <1>7 DEF IInv, Halves
  <2>2. ASSUME NEW i \in 1..(filled + 1)
        PROVE  buffers'[half][i] = Out(Len(played) + blocksize + i)
    <3>1. CASE i = filled + 1
      BY <1>6, <1>7, <3>1
    <3>2. CASE i # filled + 1
      <4>1. i \in 1..filled /\ i \in 1..blocksize
        BY <1>1, <3>2
      <4>2. buffers[half][i] = Out(Len(played) + blocksize + i)
        BY <4>1 DEF IInv, Halves
      <4>3. buffers'[half][i] = buffers[half][i]
        BY <1>7, <3>2, <4>1
      <4> QED BY <4>2, <4>3
    <3> QED BY <3>1, <3>2
  <2>3. \A i \in 1..blocksize : Out(Len(played) + i)' = Out(Len(played) + i)
    BY <1>1 DEF Out, FrameAt, Fits
  <2>4. \A i \in 1..(filled + 1) :
          Out(Len(played) + blocksize + i)' = Out(Len(played) + blocksize + i)
    BY <1>1 DEF Out, FrameAt, Fits
  <2>5. UNCHANGED <<half, blocksize, played>> /\ filled' = filled + 1
    BY <1>1
  <2> QED BY <2>1, <2>2, <2>3, <2>4, <2>5 DEF Halves
<1>9. /\ fileBufferIndex' = 2 * IF Over' THEN frames ELSE Asked' % UintFrames
      /\ stopStatus' => stopStatus \/ Over
      /\ stopStatus' \in BOOLEAN
  <2>1. CASE Over
    <3>1. stopStatus' = TRUE /\ UNCHANGED fileBufferIndex
      BY <1>e, <2>1 DEF Fill
    <3>2. Over'
      BY <1>1, <1>3, <2>1 DEF Over
    <3> QED BY <1>3, <2>1, <3>1, <3>2
  <2>2. CASE ~Over
    <3> DEFINE c == Asked % UintFrames
    <3>1. fileBufferIndex = 2 * c /\ c \in Nat /\ c < UintFrames
      BY <1>0, <1>3, <2>2
    <3>2. fileBufferIndex' = 2 * (IF c + 1 = UintFrames THEN 0 ELSE c + 1) /\ UNCHANGED stopStatus
      <4> HIDE DEF c
      <4> QED BY <1>e, <2>2, <3>1, AdvanceExact DEF Fill
    <3>3. fileBufferIndex' = 2 * ((Asked + 1) % UintFrames)
      BY <1>0, <3>2
    <3>4. Over' => (Asked + 1) % UintFrames = frames
      <4>1. Over' => Asked + 1 = frames /\ frames < UintFrames
        BY <1>1, <1>3, <2>2 DEF Over
      <4> QED BY <1>0, <1>1, <1>3, <4>1
    <3> QED BY <1>3, <3>2, <3>3, <3>4 DEF IInv, TypeOK
  <2> QED BY <2>1, <2>2
<1>10. TypeOK'
  <2>1. fileBufferIndex' \in 0..size'
    <3>1. CASE Over'
      BY <1>1, <1>2, <1>9, <3>1
    <3>2. CASE ~Over'
      <4>1. ~Over
        BY <1>1, <1>3, <3>2 DEF Over
      <4>2. (Asked + 1) % UintFrames \in 0..frames
        BY <1>0, <1>1, <1>3, <4>1 DEF Over
      <4>3. fileBufferIndex' = 2 * ((Asked + 1) % UintFrames)
        BY <1>3, <1>9, <3>2
      <4>4. frames \in Nat /\ size' = 2 * frames
        BY <1>1, <1>2
      <4>5. \A n \in 0..frames : 2 * n \in 0..(2 * frames)
        BY <4>4
      <4> QED BY <4>2, <4>3, <4>4, <4>5, Zenon
    <3> QED BY <3>1, <3>2
  <2>2. filled' \in 0..blocksize'
    BY <1>1
  <2> QED BY <1>1, <1>2, <1>7, <1>9, <2>1, <2>2 DEF IInv, TypeOK
<1>11. Index'
  BY <1>1, <1>3, <1>9 DEF Index
<1>12. Heard'
  BY <1>1, <1>4 DEF IInv, Heard
<1>13. Stopping' /\ Ending'
  <2>1. Over => Fits /\ Len(played) > frames
    BY <1>1 DEF Over, Asked
  <2>2. stopStatus => Fits /\ Len(played) > frames
    BY DEF IInv, Stopping
  <2>3. Stopping'
    BY <1>1, <1>3, <1>9, <2>1, <2>2 DEF Stopping
  <2>4. Ending'
    BY <1>1 DEF Fill, Ending
  <2> QED BY <2>3, <2>4
<1>14. Running'
  <2>1. CASE AtEnd(fileBufferIndex)
    BY <2>1 DEF Fill, Running
  <2>2. CASE ~AtEnd(fileBufferIndex)
    <3>1. Fits => Asked < frames
      BY <1>1, <1>3, <1>e, <2>2 DEF Over
    <3> QED BY <1>1, <1>3, <3>1 DEF Running
  <2> QED BY <2>1, <2>2
<1> QED BY <1>8, <1>10, <1>11, <1>12, <1>13, <1>14 DEF IInv

LEMMA Inductive == IInv /\ [Next]_vars => IInv'
<1> SUFFICES ASSUME IInv, [Next]_vars PROVE IInv'
  OBVIOUS
<1> USE DEF IInv, TypeOK, Index, Asked, Over, Fits, Halves, Out, FrameAt, Heard, Stopping,
            Running, Ending, driver, size
<1>1. CASE SetUp
  BY <1>1 DEF SetUp
<1>2. CASE Signal
  BY <1>2 DEF Signal
<1>3. CASE Leave
  BY <1>3 DEF Leave
<1>4. CASE Switch
  BY <1>4, SwitchStep
<1>5. CASE Fill
  BY <1>5, FillStep
<1>6. CASE UNCHANGED vars
  BY <1>6 DEF vars
<1> QED BY <1>1, <1>2, <1>3, <1>4, <1>5, <1>6 DEF Next

LEMMA Invariant == FairSpec => []IInv
BY Initially, Inductive, PTL DEF FairSpec

-----------------------------------------------------------------------------
\* Every variable keeps its type: the index stays within the file.
THEOREM TypeCorrect == FairSpec => []TypeOK
<1>1. IInv => TypeOK
  BY DEF IInv
<1> QED BY <1>1, Invariant, PTL

\* Files of any length come out in order and on their channels, after two silent
\* halves of any size, and before silence; one that the index cannot count starts
\* over (player.cpp:24, 46-74).
THEOREM PlayedInOrderHolds == FairSpec => []PlayedInOrder
<1>1. IInv => PlayedInOrder
  BY DEF IInv, Heard, PlayedInOrder, Out
<1> QED BY <1>1, Invariant, PTL

\* When main ends by itself less than two blocks have not been heard
\* (player.cpp:55, 198-199).
THEOREM CutShortHolds == FairSpec => []CutShort
<1>1. IInv => CutShort
  BY DEF IInv, TypeOK, Stopping, Ending, CutShort
<1> QED BY <1>1, Invariant, PTL

\* main is told before less than a block of a file that fits is left to be heard,
\* and of the end of any other never (player.cpp:51-57).
THEOREM ToldInTimeHolds == FairSpec => []ToldInTime
<1>1. ASSUME IInv PROVE ToldInTime
  <2>1. /\ frames \in Int /\ blocksize \in Int /\ filled \in Nat /\ Len(played) \in Nat
    BY <1>1, PlayerAssumption DEF IInv, TypeOK
  <2> QED BY <1>1, <2>1 DEF IInv, Running, Stopping, Asked, ToldInTime
<1> QED BY <1>1, Invariant, PTL
=============================================================================
