------------------------------- MODULE Player -------------------------------
(* The playback application, src/test/player.cpp.  main reads the file into  *)
(* memory, starts the driver and waits for stopStatus or a signal; the       *)
(* driver's thread plays one half of the double buffers while bufferSwitch   *)
(* fills the other from the file, frame by frame.                            *)
EXTENDS Integers, Sequences

CONSTANTS
  MaxFrames,   \* bound on the stereo frames of the file
  MaxBlock,    \* bound on the frames of a buffer half
  UintRange,   \* the number of values of `unsigned`, scaled down
  MaxPlayed    \* bound on the frames the driver plays

ASSUME PlayerAssumption ==
  /\ MaxFrames \in Nat /\ MaxBlock \in Nat \ {0}
  /\ UintRange \in Nat \ {0} /\ UintRange % 2 = 0
  /\ MaxPlayed >= MaxFrames + 4 * MaxBlock   \* the file is played to its end

VARIABLES
  pc,               \* where main is
  frames,           \* totalSamples: frames in the file
  blocksize,        \* frames in a buffer half
  fileBufferIndex,  \* of the next sample, two of them a frame
  stopStatus,
  signalStatus,     \* whether SIGINT has arrived
  buffers,          \* the frames in the two halves
  half,             \* doubleBufferIndex, the half that bufferSwitch fills
  filled,           \* how many frames of it bufferSwitch has filled
  played            \* the frames the driver has played, in order

driver == <<buffers, half, filled, played>>
vars == <<pc, frames, blocksize, fileBufferIndex, stopStatus, signalStatus, driver>>

Silence == <<0, 0>>

\* The vector the file is read to has its samples, 1, 2, 3 and so on; its size
\* is not an unsigned but a size_t.
size == 2 * frames

\* An unsigned can count the samples, two a frame.  The program does not look: it
\* computes a limit, player.cpp:196, and never uses it.
Fits == frames \in 0..(UintRange \div 2 - 1)

Init == /\ pc = "setup"
        /\ frames \in 0..MaxFrames
        /\ blocksize \in 1..MaxBlock
        /\ fileBufferIndex = 0
        /\ stopStatus = FALSE
        /\ signalStatus = FALSE
        /\ buffers = [h \in {0, 1} |-> [i \in 1..blocksize |-> Silence]]
        /\ half = 0
        /\ filled = blocksize
        /\ played = <<>>

-----------------------------------------------------------------------------
(* main                                                                      *)

\* Any call of the set-up may throw, and main returns 2.
SetUp == /\ pc = "setup"
         /\ pc' \in {"playing", "failed"}
         /\ UNCHANGED <<frames, blocksize, fileBufferIndex, stopStatus, signalStatus, driver>>

\* SIGINT, once a handler is there.
Signal == /\ pc = "playing"
          /\ ~signalStatus
          /\ signalStatus' = TRUE
          /\ UNCHANGED <<pc, frames, blocksize, fileBufferIndex, stopStatus, driver>>

\* It looks every ten milliseconds.  The Device goes away, which ends streaming.
Leave == /\ pc = "playing"
         /\ signalStatus \/ stopStatus
         /\ pc' = "ended"
         /\ UNCHANGED <<frames, blocksize, fileBufferIndex, stopStatus, signalStatus, driver>>

-----------------------------------------------------------------------------
(* The driver's thread                                                       *)

\* The driver has played the other half; it goes on with the one that has been
\* filled, and calls bufferSwitch for the other.  The first two calls find both
\* halves silent.
Switch == /\ pc = "playing"
          /\ filled = blocksize
          /\ Len(played) < MaxPlayed
          /\ played' = played \o buffers[1 - half]
          /\ half' = 1 - half
          /\ filled' = 0
          /\ UNCHANGED <<pc, frames, blocksize, fileBufferIndex, stopStatus, signalStatus, buffers>>

\* Mutant: the index has half the range.
AdvanceNarrow(i) == (i + 2) % (UintRange \div 2)

\* The index goes on by one after each of the two samples, and wraps.
Advance(i) == (i + 2) % UintRange

\* Mutant: the index is compared with the last sample.
AtEndLate(i) == i > size

\* Mutant: the file is over when its last block begins.
AtEndEarly(i) == i + 2 * blocksize >= size

AtEnd(i) == i >= size

\* Mutant: the callback stops with the file, and leaves the rest as it was.
PadStale(h, i) == buffers[h][i]

\* After the end of the file, silence.
Pad(h, i) == Silence

\* One turn of the loop in bufferSwitch.
Fill == /\ pc = "playing"
        /\ filled < blocksize
        /\ filled' = filled + 1
        /\ IF AtEnd(fileBufferIndex)
           THEN /\ stopStatus' = TRUE
                /\ buffers' = [buffers EXCEPT ![half][filled + 1] = Pad(half, filled + 1)]
                /\ UNCHANGED fileBufferIndex
           ELSE /\ buffers' = [buffers EXCEPT ![half][filled + 1] =
                                 <<fileBufferIndex + 1, fileBufferIndex + 2>>]
                /\ fileBufferIndex' = Advance(fileBufferIndex)
                /\ UNCHANGED stopStatus
        /\ UNCHANGED <<pc, frames, blocksize, signalStatus, half, played>>

-----------------------------------------------------------------------------
Next == SetUp \/ Signal \/ Leave \/ Switch \/ Fill

\* The threads get to run, and the driver calls back as long as it streams.
FairSpec == Init /\ [][Next]_vars /\ WF_vars(SetUp) /\ WF_vars(Leave)
                 /\ WF_vars(Switch) /\ WF_vars(Fill)

-----------------------------------------------------------------------------
TypeOK ==
  /\ pc \in {"setup", "playing", "ended", "failed"}
  /\ frames \in 0..MaxFrames /\ blocksize \in 1..MaxBlock
  /\ fileBufferIndex \in 0..size
  /\ stopStatus \in BOOLEAN /\ signalStatus \in BOOLEAN
  /\ buffers \in [{0, 1} -> [1..blocksize -> (0..size) \X (0..size)]]
  /\ half \in {0, 1} /\ filled \in 0..blocksize
  /\ played \in Seq((0..size) \X (0..size))

\* What is to be heard in the place f.  Of a file that does not fit, the first
\* frames, those an unsigned can count, come out over and over.
FrameAt(f) ==
  LET next == (f - 1) % (UintRange \div 2)
  IN IF f < 1 \/ (Fits /\ f > frames) THEN Silence ELSE <<2 * next + 1, 2 * next + 2>>

\* The file goes out through the two halves in order, none of its samples lost,
\* doubled or on the wrong channel, and after it nothing but silence, whether or
\* not its last block fills a half; one that does not fit starts over where the
\* index wraps (player.cpp:24, 46-74).
PlayedInOrder ==
  \A k \in 1..Len(played) : played[k] = FrameAt(k - 2 * blocksize)   \* after two halves

\* stopStatus is set while the last block is being filled, so main may end before
\* it is heard, and the one before it: but what is not heard of the file when main
\* ends by itself is less than two blocks (player.cpp:55, 198-199).
CutShort ==
  LET heard == Len(played) - 2 * blocksize
  IN pc = "ended" /\ ~signalStatus => frames - heard < 2 * blocksize

\* main is told in time: while stopStatus is not set a block of the file, or more,
\* is still to be heard, so the driver does not go on playing silence; also when
\* the file is empty, or ends on the edge of a block.  Of the end of a file that
\* does not fit main is never told (player.cpp:51-57).
ToldInTime ==
  LET heard == Len(played) - 2 * blocksize
  IN IF Fits THEN ~stopStatus => frames - heard >= blocksize ELSE ~stopStatus

\* The program ends by itself when a file that fits is over (player.cpp:198).
PlaybackEnds == Fits ~> (pc \in {"ended", "failed"})
=============================================================================
