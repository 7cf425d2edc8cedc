------------------------------ MODULE WaveFile ------------------------------
(* The class WaveFile of the player (src/test/wavefile): one object and one  *)
(* file, which is written, closed and read again, by any sequence of calls   *)
(* that opens the object only when it is not open.  Samples are counted, not *)
(* looked at; the header is the lengths and the format it declares.          *)
EXTENDS Integers

CONSTANTS
  Bits,         \* the sample sizes files are opened with, in bits
  Channels,     \* the numbers of channels
  MaxSamples,   \* bound on the samples of a call and of a file
  Largest,      \* the largest uint32_t, scaled down
  IntRange,     \* the number of values of int, scaled down
  Fault         \* what can fail: "write", "fclose", "truncated" (an input file)

ASSUME WaveFileAssumption ==
  /\ Bits \subseteq Nat \ (0 .. 7)
  /\ Channels \subseteq Nat \ {0}
  /\ MaxSamples \in Nat /\ Largest \in Nat \ (0 .. 75)
  /\ IntRange \in Nat \ {0}

VARIABLES
  fp_,             \* "null", "open", or "shut": set, but its stream is closed
  readNotWrite_, bitsPerSample_, channels_, samples_, dataLength_,
  pos,             \* the stream's position, in bytes from startOfData_
  header,          \* what the header on disk declares
  body,            \* the bytes of data on disk
  unflushed,       \* the headers in the buffer of a stream whose object is gone, if any
  made,            \* history: samples written since the file was opened to write
  whole,           \* history: it was opened to write, without error or seek since
  broken           \* history: a call has stopped within a sample or written less than it
                   \* counts, and no absolute seek since

format == <<bitsPerSample_, channels_>>
object == <<fp_, readNotWrite_, format, samples_, dataLength_>>
disk == <<header, body, unflushed>>
history == <<made, whole, broken>>
vars == <<object, pos, disk, history>>

Lesser(a, b) == IF a < b THEN a ELSE b
Greater(a, b) == IF a < b THEN b ELSE a

\* sizeof(main_length), the fmt chunk, the header of the data chunk, the ds64 chunk
Overhead == 4 + 24 + 8 + 40

\* Mutant: the length of the data alone decides for RF64.
HeadersDataOnly(bits, channels, n) ==
  LET dataLength == (IF bits = 20 THEN 3 ELSE bits \div 8) * channels * n
      makeRf64   == dataLength > Largest
  IN [valid |-> TRUE, bits |-> bits, channels |-> channels,
      rf64 |-> makeRf64, dataLength |-> dataLength,
      mainLength |-> IF makeRf64 THEN Largest
                     ELSE (Overhead + dataLength) % (Largest + 1)]

\* Mutant: every file is a RIFF file.
HeadersAlwaysRiff(bits, channels, n) ==
  LET dataLength == (IF bits = 20 THEN 3 ELSE bits \div 8) * channels * n
  IN [valid |-> TRUE, bits |-> bits, channels |-> channels,
      rf64 |-> FALSE, dataLength |-> dataLength,
      mainLength |-> Overhead + dataLength]

\* What writeHeaders writes for n samples.  An RF64 file has -1 in the 32-bit
\* fields and the length of the data in the ds64 chunk.
Headers(bits, channels, n) ==
  LET dataLength == (IF bits = 20 THEN 3 ELSE bits \div 8) * channels * n
      makeRf64   == Overhead + dataLength > Largest
  IN [valid |-> TRUE, bits |-> bits, channels |-> channels,
      rf64 |-> makeRf64, dataLength |-> dataLength,
      mainLength |-> IF makeRf64 THEN Largest ELSE Overhead + dataLength]

getBytesPerSample == bitsPerSample_ \div 8 + (IF bitsPerSample_ % 8 # 0 THEN 1 ELSE 0)
blocksize == getBytesPerSample * channels_
getTotalSamples == (dataLength_ \div getBytesPerSample) \div channels_

\* An input file has what its header declares, or more, or it has been cut.
Init == /\ fp_ = "null"
        /\ readNotWrite_ = TRUE
        /\ bitsPerSample_ = 0
        /\ channels_ = 0
        /\ samples_ = 0
        /\ dataLength_ = 0
        /\ pos = 0
        /\ \E b \in Bits, c \in Channels, n \in 0 .. MaxSamples :
             /\ header = Headers(b, c, n)
             /\ body \in {header.dataLength, header.dataLength + 1} \cup
                  {k \in {header.dataLength - 1} : "truncated" \in Fault /\ k >= 0}
        /\ unflushed = {}
        /\ made = 0
        /\ whole = FALSE
        /\ broken = FALSE

-----------------------------------------------------------------------------
(* open                                                                      *)

\* When the headers cannot be written the object stays as it was.  The program
\* does not write a file anew while a stream that was left behind has headers for it.
OpenToWrite(bits, channels) ==
  /\ fp_ = "null"
  /\ unflushed = {}
  /\ \/ /\ fp_' = "open"
        /\ readNotWrite_' = FALSE
        /\ bitsPerSample_' = bits
        /\ channels_' = channels
        /\ samples_' = 0
        /\ dataLength_' = 0
        /\ header' = Headers(bits, channels, 0)
        /\ whole' = TRUE
     \/ /\ "write" \in Fault
        /\ header' = [header EXCEPT !.valid = FALSE]
        /\ whole' = FALSE
        /\ UNCHANGED object
  /\ body' = 0
  /\ pos' = 0
  /\ made' = 0
  /\ broken' = FALSE
  /\ UNCHANGED unflushed

\* A header whose chunks are not found, or not those of a PCM file, is refused.
ReadHeaders ==
  /\ header.valid
  /\ bitsPerSample_' = header.bits
  /\ channels_' = header.channels
  /\ dataLength_' = header.dataLength
  /\ pos' = 0

\* When the headers are refused the object stays as it was.
OpenToRead ==
  /\ fp_ = "null"
  /\ ReadHeaders
  /\ fp_' = "open"
  /\ samples_' = 0
  /\ readNotWrite_' = TRUE
  /\ broken' = FALSE
  /\ UNCHANGED <<disk, made, whole>>

-----------------------------------------------------------------------------
(* close, ~WaveFile                                                          *)

Reset == /\ fp_' = "null"
         /\ readNotWrite_' = TRUE
         /\ bitsPerSample_' = 0
         /\ channels_' = 0
         /\ samples_' = 0
         /\ dataLength_' = 0

FinalHeaders == IF readNotWrite_ THEN header
                ELSE Headers(bitsPerSample_, channels_, samples_)

\* What a write that fails leaves: the header on disk is new up to some chunk.
\* An RF64 file whose ds64 chunk is not yet written cannot be read.
Torn(new) ==
  {header, new, [new EXCEPT !.dataLength = header.dataLength, !.valid = ~new.rf64]}

\* writeHeaders closes the stream when a write fails, and fclose closes it
\* whatever it returns: fp_ and the rest stay as they are then.
Close ==
  /\ fp_ = "open"
  /\ \/ header' = FinalHeaders /\ Reset /\ UNCHANGED whole
     \/ /\ \/ "fclose" \in Fault /\ header' = FinalHeaders
           \/ "write" \in Fault /\ ~readNotWrite_ /\ header' \in Torn(FinalHeaders)
        /\ fp_' = "shut"
        /\ whole' = FALSE
        /\ UNCHANGED <<readNotWrite_, format, samples_, dataLength_>>
  /\ UNCHANGED <<pos, body, unflushed, made, broken>>

\* The destructor does not close the stream: its seek to the headers has written
\* the data, the headers it puts into the buffer stay there.  Only when one of
\* them cannot be written is the stream closed.
Destroy ==
  /\ fp_ = "open"
  /\ \/ readNotWrite_ /\ UNCHANGED <<disk, whole>>
     \/ /\ ~readNotWrite_
        /\ unflushed' = {FinalHeaders}
        /\ UNCHANGED <<header, body, whole>>
     \/ /\ "write" \in Fault /\ ~readNotWrite_
        /\ header' \in Torn(FinalHeaders)
        /\ whole' = FALSE
        /\ UNCHANGED <<body, unflushed>>
  /\ Reset
  /\ UNCHANGED <<pos, made, broken>>

\* Outside the repository: the C library writes what is left in the buffers when
\* the program ends, if the program is not killed.
Exit ==
  /\ fp_ = "null"
  /\ \E new \in unflushed :
       \/ header' = new /\ UNCHANGED whole
       \/ "write" \in Fault /\ header' \in Torn(new) /\ whole' = FALSE
  /\ unflushed' = {}
  /\ UNCHANGED <<object, pos, body, made, broken>>

-----------------------------------------------------------------------------
(* write, read, setPosition                                                  *)

\* fwrite is asked for as many bytes as an int holds of those of the samples, and
\* writes none for zero.  For a number that is negative then it would take data
\* without end: no call has so many samples.  Writing to a stream that is opened to
\* read, and writing nothing, return an error and change nothing.  Bounds:
\* MaxSamples, and no failure after one within a sample.
Write(n) ==
  LET bytes == n * blocksize
      int   == bytes % IntRange
  IN /\ fp_ = "open" /\ ~readNotWrite_
     /\ n > 0 /\ int < IntRange \div 2
     /\ Greater(samples_, made) + n <= MaxSamples
     /\ \/ /\ int > 0
           /\ pos' = pos + int
           /\ samples_' = samples_ + n
           /\ dataLength_' = samples_' * blocksize
           /\ made' = made + n
           /\ whole' = (whole /\ int = bytes)
           /\ broken' = (broken \/ int # bytes)
        \/ /\ ~broken
           /\ \/ "write" \in Fault /\ pos' \in {pos, pos + 1}
              \/ int = 0 /\ pos' = pos
           /\ whole' = FALSE
           /\ broken' = (pos' # pos)
           /\ UNCHANGED <<samples_, dataLength_, made>>
     /\ body' = Greater(body, pos')
     /\ UNCHANGED <<fp_, readNotWrite_, format, header, unflushed>>

\* The bytes that fread gets for so many samples.
Bytes(samples) == Lesser(samples * blocksize, Greater(body - pos, 0))

\* Mutant: the samples asked for are counted, not those read.
ReadAsked(n) ==
  /\ fp_ = "open" /\ readNotWrite_
  /\ LET samplesToRead == Lesser(n, getTotalSamples - samples_)
     IN /\ pos' = pos + Bytes(samplesToRead)
        /\ samples_' = samples_ + samplesToRead
        /\ broken' = (broken \/ Bytes(samplesToRead) % blocksize # 0)
  /\ UNCHANGED <<fp_, readNotWrite_, format, dataLength_, disk, made, whole>>

\* fread counts whole blocks, and takes a part of one at the end of a file that
\* has been cut.  A stream that is opened to write gives nothing.
Read(n) ==
  /\ fp_ = "open" /\ readNotWrite_
  /\ LET samplesToRead == Lesser(n, getTotalSamples - samples_)
     IN /\ pos' = pos + Bytes(samplesToRead)
        /\ samples_' = samples_ + Bytes(samplesToRead) \div blocksize
        /\ broken' = (broken \/ Bytes(samplesToRead) % blocksize # 0)
  /\ UNCHANGED <<fp_, readNotWrite_, format, dataLength_, disk, made, whole>>

\* Mutant: a distance from the current position is compared with the whole file.
PositionRelativeUnchecked(n) ==
  /\ pos' = pos + blocksize * n
  /\ samples_' = samples_ + n
  /\ UNCHANGED broken

\* A distance from the current position.  Beyond the end it returns false.
PositionRelative(n) ==
  /\ n <= getTotalSamples - samples_
  /\ pos' = pos + blocksize * n
  /\ samples_' = samples_ + n
  /\ UNCHANGED broken

PositionAbsolute(n) ==
  /\ pos' = blocksize * n
  /\ samples_' = n
  /\ broken' = FALSE

\* A negative number, as an unsigned one, is larger than any file: the only
\* distances that get past the first test are from 0 to the file's length, and
\* from the end of the file 0 alone.  0 changes nothing whatever it is relative to.
SetPosition(n) ==
  /\ fp_ = "open"
  /\ n > 0 /\ n <= getTotalSamples
  /\ PositionRelative(n) \/ PositionAbsolute(n)
  /\ whole' = (whole /\ readNotWrite_)
  /\ UNCHANGED <<fp_, readNotWrite_, format, dataLength_, disk, made>>

-----------------------------------------------------------------------------
Next == \/ \E b \in Bits, c \in Channels : OpenToWrite(b, c)
        \/ OpenToRead \/ Close \/ Destroy \/ Exit
        \/ \E n \in 0 .. MaxSamples : Write(n) \/ Read(n) \/ SetPosition(n)

Spec == Init /\ [][Next]_vars

-----------------------------------------------------------------------------
TypeOK ==
  /\ fp_ \in {"null", "open", "shut"}
  /\ readNotWrite_ \in BOOLEAN
  /\ bitsPerSample_ \in Nat /\ channels_ \in Nat
  /\ samples_ \in Nat /\ dataLength_ \in Nat
  /\ pos \in Nat /\ body \in Nat
  /\ {header} \cup unflushed \subseteq
       [valid : BOOLEAN, bits : Nat, channels : Nat, rf64 : BOOLEAN,
        dataLength : Nat, mainLength : 0 .. Largest]
  /\ made \in Nat /\ whole \in BOOLEAN /\ broken \in BOOLEAN

\* The position is never beyond the samples of the file, as the assertion in read
\* has it, also in a file that is being written and after any seeks
\* (wavefile.cpp:403-404).
WithinFile == fp_ = "open" => samples_ <= getTotalSamples

\* The stream is at the sample the object counts, through reads that end early,
\* writes and seeks, unless a call has stopped within a sample or its bytes have
\* not fitted an int (wavefile.cpp:384-391, 410-415, 473-477, 500-504).
PositionExact == fp_ = "open" /\ ~broken => pos = samples_ * blocksize

\* A file that has been written without errors or seeks, and closed, or left to
\* the destructor and the end of the program, has all its samples.  It declares
\* the data that it has, also past the largest RIFF file, when the size of a sample
\* is one that writeHeaders and getBytesPerSample agree on: whole bytes or 20 bits.
\* Of other sizes, like the 12 bits of wavefile.hpp:34, it declares less
\* (wavefile.cpp:32-158, 254, 354; wavefile.hpp:72).
DeclaresItsData ==
  fp_ = "null" /\ unflushed = {} /\ whole =>
    /\ made * ((header.bits + 7) \div 8) * header.channels = body
    /\ IF header.bits % 8 = 0 \/ header.bits = 20
       THEN /\ header.dataLength = body
            /\ header.rf64 \/ header.mainLength = Overhead + body
       ELSE header.dataLength < body \/ made = 0
=============================================================================
