--------------------------- MODULE WaveFileProofs ---------------------------
(* Proofs about WaveFile, for any sets of sample sizes and channels and for  *)
(* files of any length.                                                      *)
EXTENDS WaveFile, TLAPS

-----------------------------------------------------------------------------
(* Sizes.                                                                    *)

\* Products of sizes are sizes.
LEMMA NatTimes ==
  ASSUME NEW m \in Nat, NEW n \in Nat PROVE m * n \in Nat
OBVIOUS

LEMMA PosTimes ==
  ASSUME NEW m \in Nat \ {0}, NEW n \in Nat \ {0} PROVE m * n \in Nat \ {0}
OBVIOUS

\* Quotients are sizes, and their whole blocks no more than what is divided.
LEMMA DivNat ==
  ASSUME NEW x \in Nat, NEW b \in Nat \ {0}
  PROVE  x \div b \in Nat /\ b * (x \div b) <= x
<1>1. x \div b \in Nat
  OBVIOUS
<1>2. b * (x \div b) <= x
  OBVIOUS
<1> QED BY <1>1, <1>2

\* When nothing is left over they are all of it.
LEMMA DivExact ==
  ASSUME NEW x \in Nat, NEW b \in Nat \ {0}, x % b = 0
  PROVE  b * (x \div b) = x
OBVIOUS

\* A product grows with its factor.
LEMMA TimesGrows ==
  ASSUME NEW b \in Nat, NEW m \in Int, NEW n \in Int, m <= n
  PROVE  b * m <= b * n
<1>1. PICK d \in Nat : n = m + d
  <2>1. n - m \in Nat /\ n = m + (n - m)
    OBVIOUS
  <2> QED BY <2>1
<1>2. b * (m + d) = b * m + b * d
  OBVIOUS
<1>3. b * d \in Nat /\ b * m \in Int
  BY NatTimes
<1> QED BY <1>1, <1>2, <1>3

\* The quotient of a multiple.
LEMMA TimesDiv ==
  ASSUME NEW n \in Nat, NEW b \in Nat \ {0}
  PROVE  (b * n) \div b = n
OBVIOUS

\* So many whole blocks are not more than the bytes they are taken from.
LEMMA DivAtMost ==
  ASSUME NEW x \in Nat, NEW m \in Nat, NEW b \in Nat \ {0}, x <= b * m
  PROVE  x \div b <= m
<1>1. x \div b \in Nat /\ b * (x \div b) <= x
  BY DivNat
<1>2. SUFFICES ASSUME m + 1 <= x \div b PROVE FALSE
  BY <1>1
<1>3. b * (m + 1) <= b * (x \div b)
  BY <1>1, <1>2, TimesGrows
<1>4. b * (m + 1) = b * m + b
  OBVIOUS
<1> QED BY <1>1, <1>3, <1>4, NatTimes

\* The samples of so many blocks.
LEMMA SamplesOf ==
  ASSUME NEW n \in Nat, NEW a \in Nat \ {0}, NEW c \in Nat \ {0}
  PROVE  ((n * (a * c)) \div a) \div c = n
<1>1. n * (a * c) = a * (c * n)
  OBVIOUS
<1>2. (a * (c * n)) \div a = c * n
  BY TimesDiv, NatTimes
<1>3. (c * n) \div c = n
  BY TimesDiv
<1> QED BY <1>1, <1>2, <1>3

-----------------------------------------------------------------------------
(* Formats and headers.                                                      *)

\* A file that is open, and what the file on disk declares or will, have a format.
Sizes == /\ \A h \in {header} \cup unflushed : h.bits \in Bits /\ h.channels \in Channels
         /\ fp_ = "open" => bitsPerSample_ \in Bits /\ channels_ \in Channels

HeaderType == [valid : BOOLEAN, bits : Nat, channels : Nat, rf64 : BOOLEAN,
               dataLength : Nat, mainLength : 0 .. Largest]

\* A sample has at least a byte.
LEMMA SampleSize ==
  ASSUME NEW b \in Bits
  PROVE  b \div 8 + (IF b % 8 # 0 THEN 1 ELSE 0) \in Nat \ {0}
<1>1. b \in Nat /\ b >= 8
  BY WaveFileAssumption
<1>2. b \div 8 \in Nat \ {0}
  BY <1>1
<1> QED BY <1>2

\* The sizes of an open file.
LEMMA OpenSizes ==
  ASSUME TypeOK, Sizes, fp_ = "open"
  PROVE  /\ getBytesPerSample \in Nat \ {0}
         /\ channels_ \in Nat \ {0}
         /\ blocksize \in Nat \ {0}
         /\ getTotalSamples \in Nat
<1>1. getBytesPerSample \in Nat \ {0}
  BY SampleSize DEF Sizes, getBytesPerSample
<1>2. channels_ \in Nat \ {0}
  BY WaveFileAssumption DEF Sizes
<1>3. blocksize \in Nat \ {0}
  BY <1>1, <1>2, PosTimes DEF blocksize
<1>4. dataLength_ \div getBytesPerSample \in Nat
  BY <1>1, DivNat DEF TypeOK
<1>5. getTotalSamples \in Nat
  BY <1>2, <1>4, DivNat DEF getTotalSamples
<1> QED BY <1>1, <1>2, <1>3, <1>5

\* What writeHeaders writes is a header, of the format it is given, and a RIFF
\* header only when the length it has to declare fits.
LEMMA HeadersAre ==
  ASSUME NEW b \in Bits, NEW c \in Channels, NEW n \in Nat
  PROVE  /\ Headers(b, c, n) \in HeaderType
         /\ Headers(b, c, n).bits = b
         /\ Headers(b, c, n).channels = c
         /\ Headers(b, c, n).valid
         /\ Headers(b, c, n).dataLength = (IF b = 20 THEN 3 ELSE b \div 8) * c * n
         /\ \/ Headers(b, c, n).rf64
            \/ Headers(b, c, n).mainLength = Overhead + Headers(b, c, n).dataLength
<1> DEFINE length == (IF b = 20 THEN 3 ELSE b \div 8) * c * n
           size == IF b = 20 THEN 3 ELSE b \div 8
<1>1. b \in Nat /\ c \in Nat /\ Largest \in Nat
  BY WaveFileAssumption
<1>2. size \in Nat
  <2>1. b \div 8 \in Nat
    BY <1>1
  <2> QED BY <2>1
<1>3. length \in Nat
  <2>1. size * c \in Nat
    BY <1>1, <1>2, NatTimes
  <2> QED BY <2>1, NatTimes
<1>4. Headers(b, c, n) =
        [valid |-> TRUE, bits |-> b, channels |-> c, rf64 |-> Overhead + length > Largest,
         dataLength |-> length,
         mainLength |-> IF Overhead + length > Largest THEN Largest ELSE Overhead + length]
  BY DEF Headers
<1>5. Overhead + length \in Nat
  BY <1>3 DEF Overhead
<1> HIDE DEF length, size
<1>6. (IF Overhead + length > Largest THEN Largest ELSE Overhead + length) \in 0 .. Largest
  BY <1>1, <1>5
<1>7. Headers(b, c, n) \in HeaderType
  BY <1>1, <1>3, <1>4, <1>6 DEF HeaderType
<1>8. Headers(b, c, n).dataLength = (IF b = 20 THEN 3 ELSE b \div 8) * c * n
  BY <1>4 DEF length
<1>9. /\ Headers(b, c, n).bits = b
      /\ Headers(b, c, n).channels = c
      /\ Headers(b, c, n).valid
  BY <1>4
<1>10. \/ Headers(b, c, n).rf64
       \/ Headers(b, c, n).mainLength = Overhead + Headers(b, c, n).dataLength
  <2>1. CASE Overhead + length > Largest
    <3>1. Headers(b, c, n).rf64 = (Overhead + length > Largest)
      BY <1>4
    <3> QED BY <2>1, <3>1, Zenon
  <2>2. CASE ~(Overhead + length > Largest)
    BY <1>4, <2>2
  <2> QED BY <2>1, <2>2
<1> QED BY <1>7, <1>8, <1>9, <1>10

-----------------------------------------------------------------------------
(* Types, the position and the length, together: a read takes no more        *)
(* samples than are left, and that is a number only within the file.         *)

FileInv == TypeOK /\ Sizes /\ WithinFile /\ PositionExact

LEMMA FileInit == Init => FileInv
<1> SUFFICES ASSUME Init PROVE FileInv
  OBVIOUS
<1>1. PICK b \in Bits, c \in Channels, n \in 0 .. MaxSamples :
        /\ header = Headers(b, c, n)
        /\ body \in {header.dataLength, header.dataLength + 1} \cup
                  {k \in {header.dataLength - 1} : "truncated" \in Fault /\ k >= 0}
  BY DEF Init
<1>2. n \in Nat
  BY WaveFileAssumption
<1>3. header \in HeaderType /\ header.bits = b /\ header.channels = c
  BY <1>1, <1>2, HeadersAre
<1>4. header.dataLength \in Nat
  BY <1>3 DEF HeaderType
<1>5. body \in Nat
  BY <1>1, <1>4
<1>6. TypeOK
  BY <1>3, <1>5 DEF Init, TypeOK, HeaderType
<1> QED BY <1>3, <1>6 DEF FileInv, Sizes, WithinFile, PositionExact, Init

\* A file that has just been opened: no sample is counted, of as many as there are.
LEMMA AtStart ==
  ASSUME TypeOK', fp_' = "open", samples_' = 0, pos' = 0,
         NEW b \in Bits, bitsPerSample_' = b, NEW c \in Channels, channels_' = c
  PROVE  WithinFile' /\ PositionExact'
<1> DEFINE size == b \div 8 + (IF b % 8 # 0 THEN 1 ELSE 0)
<1>1. size \in Nat \ {0} /\ c \in Nat \ {0}
  BY SampleSize, WaveFileAssumption
<1>2. getBytesPerSample' = size
  BY DEF getBytesPerSample
<1> HIDE DEF size
<1>3. dataLength_' \div size \in Nat
  BY <1>1, DivNat DEF TypeOK
<1>4. getTotalSamples' \in Nat
  BY <1>1, <1>2, <1>3, DivNat DEF getTotalSamples
<1>5. blocksize' \in Nat
  BY <1>1, <1>2, NatTimes DEF blocksize
<1>6. 0 <= getTotalSamples'
  BY <1>4
<1>7. 0 = 0 * blocksize'
  <2>1. \A k \in Nat : 0 = 0 * k
    OBVIOUS
  <2> QED BY <1>5, <2>1, Zenon
<1> QED BY <1>6, <1>7 DEF WithinFile, PositionExact

\* open.
LEMMA OpenStep ==
  ASSUME FileInv,
         OpenToRead \/ \E b \in Bits, c \in Channels : OpenToWrite(b, c)
  PROVE  FileInv'
<1>1. TypeOK /\ Sizes
  BY DEF FileInv
<1>2. CASE OpenToRead
  <2>1. TypeOK'
    BY <1>1, <1>2 DEF OpenToRead, ReadHeaders, TypeOK, disk
  <2>2. Sizes'
    BY <1>1, <1>2 DEF OpenToRead, ReadHeaders, Sizes, disk
  <2>3. /\ pos' = 0 /\ samples_' = 0 /\ fp_' = "open"
        /\ bitsPerSample_' = header.bits /\ channels_' = header.channels
    BY <1>2 DEF OpenToRead, ReadHeaders
  <2>4. WithinFile' /\ PositionExact'
    BY <1>1, <2>1, <2>3, AtStart DEF Sizes
  <2> QED BY <2>1, <2>2, <2>4 DEF FileInv
<1>3. ASSUME NEW b \in Bits, NEW c \in Channels, OpenToWrite(b, c) PROVE FileInv'
  <2>1. /\ Headers(b, c, 0) \in HeaderType
        /\ Headers(b, c, 0).bits = b /\ Headers(b, c, 0).channels = c
    BY HeadersAre
  <2>2. b \in Nat /\ c \in Nat
    BY WaveFileAssumption
  <2>3. /\ pos' = 0 /\ body' = 0 /\ made' = 0 /\ broken' = FALSE
    BY <1>3 DEF OpenToWrite
  <2>6. unflushed = {} /\ UNCHANGED unflushed /\ header \in HeaderType
    BY <1>1, <1>3 DEF OpenToWrite, TypeOK, HeaderType
  <2>4. CASE /\ header' = [header EXCEPT !.valid = FALSE]
             /\ whole' = FALSE
             /\ UNCHANGED object
    <3>1. TypeOK'
      <4>1. header' \in HeaderType
        BY <2>4, <2>6 DEF HeaderType
      <4> QED BY <1>1, <2>3, <2>4, <2>6, <4>1 DEF TypeOK, HeaderType, object, format
    <3>2. Sizes' /\ fp_' = "null"
      <4>1. fp_' = "null" /\ unflushed' = {}
        BY <1>3, <2>4, <2>6 DEF OpenToWrite, object
      <4>2. header'.bits = header.bits /\ header'.channels = header.channels
        BY <2>4, <2>6 DEF HeaderType
      <4> QED BY <1>1, <4>1, <4>2 DEF Sizes
    <3> QED BY <3>1, <3>2 DEF FileInv, WithinFile, PositionExact
  <2>5. CASE /\ fp_' = "open" /\ readNotWrite_' = FALSE
             /\ bitsPerSample_' = b /\ channels_' = c
             /\ samples_' = 0 /\ dataLength_' = 0
             /\ header' = Headers(b, c, 0) /\ whole' = TRUE
    <3>1. TypeOK'
      BY <2>1, <2>2, <2>3, <2>5, <2>6 DEF TypeOK, HeaderType
    <3>2. Sizes'
      BY <2>1, <2>5, <2>6 DEF Sizes
    <3>3. WithinFile' /\ PositionExact'
      BY <2>3, <2>5, <3>1, AtStart
    <3> QED BY <3>1, <3>2, <3>3 DEF FileInv
  <2> QED BY <1>3, <2>4, <2>5 DEF OpenToWrite
<1> QED BY <1>2, <1>3

\* The headers that close and the destructor write.
LEMMA FinalAre ==
  ASSUME FileInv, fp_ = "open"
  PROVE  FinalHeaders \in HeaderType /\ FinalHeaders.bits \in Bits /\ FinalHeaders.channels \in Channels
<1>1. /\ header \in HeaderType /\ header.bits \in Bits /\ header.channels \in Channels
      /\ bitsPerSample_ \in Bits /\ channels_ \in Channels /\ samples_ \in Nat
  BY DEF FileInv, TypeOK, HeaderType, Sizes
<1> DEFINE final == Headers(bitsPerSample_, channels_, samples_)
<1>2. final \in HeaderType /\ final.bits \in Bits /\ final.channels \in Channels
  BY <1>1, HeadersAre
<1> QED BY <1>1, <1>2 DEF FinalHeaders

\* The headers on disk when some of them have been written.
LEMMA TornAre ==
  ASSUME FileInv, NEW new \in HeaderType, new.bits \in Bits, new.channels \in Channels,
         NEW h \in {new} \cup Torn(new)
  PROVE  h \in HeaderType /\ h.bits \in Bits /\ h.channels \in Channels
<1>1. header \in HeaderType /\ header.bits \in Bits /\ header.channels \in Channels
  BY DEF FileInv, TypeOK, HeaderType, Sizes
<1>2. CASE h \in {new, header}
  BY <1>1, <1>2
<1>3. CASE h = [new EXCEPT !.dataLength = header.dataLength, !.valid = ~new.rf64]
  <2>1. header.dataLength \in Nat
    BY <1>1 DEF HeaderType
  <2> QED BY <1>3, <2>1 DEF HeaderType
<1> QED BY <1>2, <1>3 DEF Torn

\* close, the destructor and the end of the program.
LEMMA CloseStep ==
  ASSUME FileInv, Close \/ Destroy \/ Exit PROVE FileInv'
<1>1. TypeOK /\ Sizes
  BY DEF FileInv
<1>2. \A h \in {header} \cup unflushed :
        h \in HeaderType /\ h.bits \in Bits /\ h.channels \in Channels
  BY <1>1 DEF TypeOK, Sizes, HeaderType
<1>3. \A h \in {header'} \cup unflushed' :
        h \in HeaderType /\ h.bits \in Bits /\ h.channels \in Channels
  <2>1. CASE Close
    <3>1. fp_ = "open" /\ header' \in {FinalHeaders} \cup Torn(FinalHeaders) /\ unflushed' = unflushed
      BY <2>1 DEF Close
    <3>2. header' \in HeaderType /\ header'.bits \in Bits /\ header'.channels \in Channels
      BY <3>1, FinalAre, TornAre
    <3> QED BY <1>2, <3>1, <3>2
  <2>2. CASE Destroy
    <3>1. /\ fp_ = "open"
          /\ header' = header \/ header' \in {FinalHeaders} \cup Torn(FinalHeaders)
          /\ unflushed' = unflushed \/ unflushed' = {FinalHeaders}
      BY <2>2 DEF Destroy, disk
    <3>2. header' = header \/
            (header' \in HeaderType /\ header'.bits \in Bits /\ header'.channels \in Channels)
      BY <3>1, FinalAre, TornAre
    <3> QED BY <1>2, <3>1, <3>2, FinalAre
  <2>3. CASE Exit
    <3>1. PICK new \in unflushed : header' \in {new} \cup Torn(new)
      BY <2>3 DEF Exit
    <3>2. header' \in HeaderType /\ header'.bits \in Bits /\ header'.channels \in Channels
      BY <1>2, <3>1, TornAre
    <3>3. unflushed' = {}
      BY <2>3 DEF Exit
    <3> QED BY <3>2, <3>3
  <2> QED BY <2>1, <2>2, <2>3
<1>4. {header'} \cup unflushed' \subseteq HeaderType
  BY <1>3
<1>5. fp_' \in {"null", "shut"} /\ pos' = pos /\ body' = body /\ made' = made /\ broken' = broken
  BY DEF Close, Destroy, Exit, Reset, object, disk
<1>6. whole' \in BOOLEAN
  BY <1>1 DEF Close, Destroy, Exit, TypeOK
<1>7. /\ readNotWrite_' \in BOOLEAN
      /\ bitsPerSample_' \in Nat /\ channels_' \in Nat
      /\ samples_' \in Nat /\ dataLength_' \in Nat
  <2>1. CASE Reset
    BY <2>1 DEF Reset
  <2>2. CASE UNCHANGED <<readNotWrite_, format, samples_, dataLength_>>
    BY <1>1, <2>2 DEF TypeOK, format
  <2> QED BY <2>1, <2>2 DEF Close, Destroy, Exit, object
<1>8. TypeOK'
  <2>1. pos' \in Nat /\ body' \in Nat /\ made' \in Nat /\ broken' \in BOOLEAN
    BY <1>1, <1>5 DEF TypeOK
  <2> QED BY <1>4, <1>5, <1>6, <1>7, <2>1 DEF TypeOK, HeaderType
<1> QED BY <1>3, <1>5, <1>8 DEF FileInv, Sizes, WithinFile, PositionExact

\* What a call on an open stream knows: its format, and where it is.
LEMMA Known ==
  ASSUME FileInv, fp_ = "open"
  PROVE  /\ TypeOK /\ Sizes
         /\ getBytesPerSample \in Nat \ {0} /\ channels_ \in Nat \ {0}
         /\ blocksize \in Nat \ {0}
         /\ getTotalSamples \in Nat /\ samples_ \in 0 .. getTotalSamples
         /\ ~broken => pos = samples_ * blocksize
<1>1. TypeOK /\ Sizes /\ samples_ <= getTotalSamples
  BY DEF FileInv, WithinFile
<1>2. ~broken => pos = samples_ * blocksize
  BY DEF FileInv, PositionExact
<1>3. samples_ \in Nat
  BY <1>1 DEF TypeOK
<1> QED BY <1>1, <1>2, <1>3, OpenSizes

\* The format of the stream stays, and what it says of sizes.
LEMMA FormatStays ==
  ASSUME UNCHANGED format
  PROVE  getBytesPerSample' = getBytesPerSample /\ blocksize' = blocksize
BY DEF format, getBytesPerSample, blocksize

\* More of a sample are more bytes.
LEMMA BlocksAdd ==
  ASSUME NEW m \in Nat, NEW n \in Nat, NEW b \in Nat
  PROVE  m * b + n * b = (m + n) * b
OBVIOUS

\* write.  After a write that succeeds the file has the samples up to the position.
LEMMA WriteStep ==
  ASSUME FileInv, NEW n \in 0 .. MaxSamples, Write(n) PROVE FileInv'
<1>1. n \in Nat /\ n > 0
  BY WaveFileAssumption DEF Write
<1>2. /\ TypeOK /\ Sizes /\ samples_ \in Nat /\ pos \in Nat
      /\ getBytesPerSample \in Nat \ {0} /\ channels_ \in Nat \ {0}
      /\ blocksize \in Nat \ {0}
      /\ getTotalSamples \in Nat /\ samples_ \in 0 .. getTotalSamples
      /\ ~broken => pos = samples_ * blocksize
  BY Known DEF Write, TypeOK
<1> DEFINE int == (n * blocksize) % IntRange
<1>3. /\ fp_ = "open" /\ fp_' = "open"
      /\ UNCHANGED <<readNotWrite_, format, header, unflushed>>
      /\ body' = Greater(body, pos')
  BY DEF Write
<1>4. /\ blocksize' = blocksize /\ getBytesPerSample' = getBytesPerSample
      /\ channels_' = channels_
  BY <1>3, FormatStays DEF format
<1>5. Sizes'
  BY <1>2, <1>3 DEF Sizes, format
<1>8. n * blocksize \in Nat /\ int \in Nat
  <2>1. n * blocksize \in Nat
    BY <1>1, <1>2, NatTimes
  <2> QED BY <2>1, WaveFileAssumption
<1>6. CASE /\ pos' = pos + int
           /\ samples_' = samples_ + n
           /\ dataLength_' = samples_' * blocksize
           /\ made' = made + n
           /\ whole' = (whole /\ int = n * blocksize)
           /\ broken' = (broken \/ int # n * blocksize)
  <2> HIDE DEF int
  <2>1. pos' \in Nat /\ samples_' \in Nat /\ dataLength_' \in Nat
    BY <1>1, <1>2, <1>6, <1>8, NatTimes
  <2>2. TypeOK'
    <3>1. body' \in Nat /\ made' \in Nat
      BY <1>1, <1>2, <1>3, <1>6, <2>1 DEF TypeOK, Greater
    <3>2. whole' \in BOOLEAN /\ broken' \in BOOLEAN
      BY <1>2, <1>6 DEF TypeOK
    <3> QED BY <1>2, <1>3, <2>1, <3>1, <3>2 DEF TypeOK, format
  <2>3. WithinFile'
    <3>1. getTotalSamples' = samples_'
      <4>1. dataLength_' = samples_' * (getBytesPerSample * channels_)
        BY <1>6 DEF blocksize
      <4>2. getTotalSamples' = (dataLength_' \div getBytesPerSample) \div channels_
        BY <1>4 DEF getTotalSamples
      <4> QED BY <1>2, <2>1, <4>1, <4>2, SamplesOf
    <3> QED BY <2>1, <3>1 DEF WithinFile
  <2>4. PositionExact'
    <3>1. ASSUME ~broken, int = n * blocksize PROVE pos' = samples_' * blocksize'
      BY <1>1, <1>2, <1>4, <1>6, <3>1, BlocksAdd
    <3> QED BY <1>6, <3>1 DEF PositionExact
  <2> QED BY <1>5, <2>2, <2>3, <2>4 DEF FileInv
<1>7. CASE /\ ~broken
           /\ pos' \in {pos, pos + 1}
           /\ whole' = FALSE /\ broken' = (pos' # pos)
           /\ UNCHANGED <<samples_, dataLength_, made>>
  <2>1. TypeOK'
    <3>1. pos' \in Nat /\ body \in Nat
      BY <1>2, <1>7 DEF TypeOK
    <3>2. body' \in Nat
      BY <1>3, <3>1 DEF Greater
    <3>3. whole' \in BOOLEAN /\ broken' \in BOOLEAN
      BY <1>7
    <3> QED BY <1>2, <1>3, <1>7, <3>1, <3>2, <3>3 DEF TypeOK, format
  <2>2. WithinFile'
    <3>1. getTotalSamples' = getTotalSamples
      BY <1>4, <1>7 DEF getTotalSamples
    <3> QED BY <1>2, <1>7, <3>1 DEF WithinFile
  <2>3. PositionExact'
    BY <1>2, <1>4, <1>7 DEF PositionExact
  <2> QED BY <1>5, <2>1, <2>2, <2>3 DEF FileInv
<1> QED BY <1>6, <1>7 DEF Write

\* fread takes no more than it is asked for.
LEMMA BytesAtMost ==
  ASSUME TypeOK, NEW k \in Nat, blocksize \in Nat \ {0}
  PROVE  Bytes(k) \in Nat /\ Bytes(k) <= blocksize * k
<1>1. body \in Nat /\ pos \in Nat
  BY DEF TypeOK
<1>2. blocksize * k \in Nat /\ k * blocksize = blocksize * k
  BY NatTimes
<1>3. Greater(body - pos, 0) \in Nat
  BY <1>1 DEF Greater
<1> QED BY <1>2, <1>3 DEF Bytes, Lesser

\* read.  It counts the whole blocks of what it gets.
LEMMA ReadStep ==
  ASSUME FileInv, NEW n \in 0 .. MaxSamples, Read(n) PROVE FileInv'
<1> DEFINE asked == Lesser(n, getTotalSamples - samples_)
           taken == Bytes(asked) \div blocksize
<1>1. n \in Nat
  BY WaveFileAssumption
<1>2. /\ TypeOK /\ Sizes /\ samples_ \in Nat /\ pos \in Nat
      /\ blocksize \in Nat \ {0}
      /\ getTotalSamples \in Nat /\ samples_ \in 0 .. getTotalSamples
      /\ ~broken => pos = samples_ * blocksize
  BY Known DEF Read, TypeOK
<1>3. /\ fp_ = "open" /\ fp_' = "open"
      /\ UNCHANGED <<readNotWrite_, format, dataLength_, disk, made, whole>>
      /\ pos' = pos + Bytes(asked)
      /\ samples_' = samples_ + taken
      /\ broken' = (broken \/ Bytes(asked) % blocksize # 0)
  BY DEF Read
<1>4. blocksize' = blocksize /\ getTotalSamples' = getTotalSamples
  BY <1>3, FormatStays DEF format, getTotalSamples
<1>5. asked \in Nat /\ asked <= getTotalSamples - samples_
  BY <1>1, <1>2 DEF Lesser
<1> HIDE DEF asked
<1>6. Bytes(asked) \in Nat /\ Bytes(asked) <= blocksize * asked
  BY <1>2, <1>5, BytesAtMost
<1>7. taken \in Nat /\ taken <= asked
  BY <1>2, <1>5, <1>6, DivNat, DivAtMost
<1>8. Bytes(asked) % blocksize = 0 => blocksize * taken = Bytes(asked)
  BY <1>2, <1>6, DivExact
<1> HIDE DEF taken
<1>9. TypeOK'
  <2>1. broken' \in BOOLEAN
    BY <1>2, <1>3 DEF TypeOK
  <2>2. pos' \in Nat /\ samples_' \in Nat
    BY <1>2, <1>3, <1>6, <1>7
  <2> QED BY <1>2, <1>3, <2>1, <2>2 DEF TypeOK, format, disk
<1>10. Sizes'
  BY <1>2, <1>3 DEF Sizes, format, disk
<1>11. WithinFile'
  BY <1>2, <1>3, <1>4, <1>5, <1>7 DEF WithinFile
<1>12. PositionExact'
  <2>1. ASSUME ~broken, Bytes(asked) % blocksize = 0 PROVE pos' = samples_' * blocksize'
    <3>1. taken * blocksize = blocksize * taken
      BY <1>2, <1>7
    <3> QED BY <1>2, <1>3, <1>4, <1>7, <1>8, <2>1, <3>1, BlocksAdd
  <2> QED BY <1>3, <2>1 DEF PositionExact
<1> QED BY <1>9, <1>10, <1>11, <1>12 DEF FileInv

\* setPosition.
LEMMA SeekStep ==
  ASSUME FileInv, NEW n \in 0 .. MaxSamples, SetPosition(n) PROVE FileInv'
<1>1. n \in Nat /\ n <= getTotalSamples
  BY WaveFileAssumption DEF SetPosition
<1>2. /\ TypeOK /\ Sizes /\ samples_ \in Nat /\ pos \in Nat
      /\ blocksize \in Nat \ {0}
      /\ getTotalSamples \in Nat /\ samples_ \in 0 .. getTotalSamples
      /\ ~broken => pos = samples_ * blocksize
  BY Known DEF SetPosition, TypeOK
<1>3. /\ fp_ = "open" /\ fp_' = "open"
      /\ PositionRelative(n) \/ PositionAbsolute(n)
      /\ whole' = (whole /\ readNotWrite_)
      /\ UNCHANGED <<readNotWrite_, format, dataLength_, disk, made>>
  BY DEF SetPosition
<1>4. blocksize' = blocksize /\ getTotalSamples' = getTotalSamples
  BY <1>3, FormatStays DEF format, getTotalSamples
<1>5. blocksize * n \in Nat /\ blocksize * n = n * blocksize
  BY <1>1, <1>2, NatTimes
<1>6. /\ pos' \in Nat /\ samples_' \in 0 .. getTotalSamples
      /\ broken' \in BOOLEAN
      /\ ~broken' => pos' = samples_' * blocksize
  <2>1. CASE PositionRelative(n)
    <3>1. pos' = pos + blocksize * n /\ samples_' = samples_ + n /\ broken' = broken
          /\ n <= getTotalSamples - samples_
      BY <2>1 DEF PositionRelative
    <3>2. pos' \in Nat /\ samples_' \in 0 .. getTotalSamples
      BY <1>1, <1>2, <1>5, <3>1
    <3>3. ASSUME ~broken PROVE pos' = samples_' * blocksize
      BY <1>1, <1>2, <1>5, <3>1, <3>3, BlocksAdd
    <3> QED BY <1>2, <3>1, <3>2, <3>3 DEF TypeOK
  <2>2. CASE PositionAbsolute(n)
    <3>1. pos' = blocksize * n /\ samples_' = n /\ broken' = FALSE
      BY <2>2 DEF PositionAbsolute
    <3>2. samples_' \in 0 .. getTotalSamples
      BY <1>1, <1>2, <3>1
    <3> QED BY <1>5, <3>1, <3>2
  <2> QED BY <1>3, <2>1, <2>2
<1>7. TypeOK'
  <2>1. whole' \in BOOLEAN
    BY <1>2, <1>3 DEF TypeOK
  <2>2. samples_' \in Nat
    BY <1>2, <1>6
  <2> QED BY <1>2, <1>3, <1>6, <2>1, <2>2 DEF TypeOK, format, disk
<1>8. Sizes'
  BY <1>2, <1>3 DEF Sizes, format, disk
<1>9. WithinFile'
  BY <1>2, <1>4, <1>6 DEF WithinFile
<1>10. PositionExact'
  <2>1. ASSUME ~broken' PROVE pos' = samples_' * blocksize'
    BY <1>4, <1>6, <2>1
  <2> QED BY <2>1 DEF PositionExact
<1> QED BY <1>7, <1>8, <1>9, <1>10 DEF FileInv

LEMMA FileStep == FileInv /\ [Next]_vars => FileInv'
<1> SUFFICES ASSUME FileInv, [Next]_vars PROVE FileInv'
  OBVIOUS
<1>1. CASE UNCHANGED vars
  <2>1. TypeOK' /\ Sizes'
    BY <1>1 DEF FileInv, TypeOK, Sizes, vars, object, format, disk, history
  <2>2. /\ UNCHANGED <<fp_, samples_, pos, broken>>
        /\ blocksize' = blocksize /\ getTotalSamples' = getTotalSamples
    BY <1>1, FormatStays DEF vars, object, format, history, getTotalSamples
  <2>3. WithinFile' /\ PositionExact'
    BY <2>2 DEF FileInv, WithinFile, PositionExact
  <2> QED BY <2>1, <2>3 DEF FileInv
<1>2. CASE Next
  BY <1>2, OpenStep, CloseStep, WriteStep, ReadStep, SeekStep DEF Next
<1> QED BY <1>1, <1>2

LEMMA FileInvariant == Spec => []FileInv
BY FileInit, FileStep, PTL DEF Spec

\* Every variable keeps its type: what is left to read is a number.
THEOREM TypeCorrect == Spec => []TypeOK
<1>1. FileInv => TypeOK
  BY DEF FileInv
<1> QED BY <1>1, FileInvariant, PTL

\* The position is never beyond the samples of the file, as the assertion in
\* read has it, for any sequence of calls (wavefile.cpp:403-404).
THEOREM WithinFileHolds == Spec => []WithinFile
<1>1. FileInv => WithinFile
  BY DEF FileInv
<1> QED BY <1>1, FileInvariant, PTL

\* The stream is at the sample that the object counts, unless a call has stopped
\* within a sample (wavefile.cpp:386-391, 410-415, 473-477, 500-504).
THEOREM PositionExactHolds == Spec => []PositionExact
<1>1. FileInv => PositionExact
  BY DEF FileInv
<1> QED BY <1>1, FileInvariant, PTL

-----------------------------------------------------------------------------
(* What a file that has been written declares.                               *)

\* A header declares the bytes on disk, if the sizes of a sample agree, and they
\* are those of the samples written (wavefile.cpp:45, wavefile.hpp:72).
Declares(h) ==
  /\ made * ((h.bits + 7) \div 8) * h.channels = body
  /\ IF h.bits % 8 = 0 \/ h.bits = 20
     THEN /\ h.dataLength = body
          /\ h.rf64 \/ h.mainLength = Overhead + body
     ELSE h.dataLength < body \/ made = 0

\* The header that the file has, or will have when the program ends.
Lasting == IF unflushed = {} THEN {header} ELSE unflushed

\* As long as nothing has gone wrong, the data end where a stream that is being
\* written is, with all the samples; otherwise the header declares them.
Faithful ==
  whole => IF fp_ = "open" /\ ~readNotWrite_
           THEN unflushed = {} /\ ~broken /\ made = samples_ /\ body = pos
           ELSE fp_ # "shut" /\ \A h \in Lasting : Declares(h)

LEMMA FaithfulInit == Init => Faithful
BY DEF Init, Faithful

\* getBytesPerSample rounds up; writeHeaders has the same for whole bytes and 20
\* bits, and less for other sizes.
LEMMA SizesOf ==
  ASSUME NEW b \in Bits
  PROVE  LET size == IF b = 20 THEN 3 ELSE b \div 8
             bytes == b \div 8 + (IF b % 8 # 0 THEN 1 ELSE 0)
         IN /\ (b + 7) \div 8 = bytes
            /\ size \in Nat
            /\ IF b % 8 = 0 \/ b = 20 THEN size = bytes ELSE bytes = size + 1
<1>1. b \in Nat
  BY WaveFileAssumption
<1>2. CASE b = 20
  BY <1>2
<1>3. CASE b % 8 = 0 /\ b # 20
  <2>1. (b + 7) \div 8 = b \div 8 /\ b \div 8 \in Nat
    BY <1>1, <1>3
  <2> QED BY <1>1, <1>3, <2>1
<1>4. CASE b % 8 # 0 /\ b # 20
  <2>1. (b + 7) \div 8 = b \div 8 + 1 /\ b \div 8 \in Nat
    BY <1>1, <1>4
  <2> QED BY <1>1, <1>4, <2>1
<1> QED BY <1>2, <1>3, <1>4

\* A byte less a sample is less data, unless there is none.
LEMMA FewerBytes ==
  ASSUME NEW m \in Nat, NEW c \in Nat \ {0}, NEW n \in Nat \ {0}
  PROVE  m * c * n < n * ((m + 1) * c)
<1>1. n * ((m + 1) * c) = m * c * n + c * n
  OBVIOUS
<1>2. c * n \in Nat \ {0}
  BY PosTimes
<1>3. m * c * n \in Nat
  <2>1. m * c \in Nat
    BY NatTimes
  <2> QED BY <2>1, NatTimes
<1> QED BY <1>1, <1>2, <1>3

\* The headers of a file with the samples counted declare them.
LEMMA FinalDeclares ==
  ASSUME FileInv, fp_ = "open", ~readNotWrite_,
         ~broken, made = samples_, body = pos
  PROVE  Declares(FinalHeaders)
<1>1. /\ TypeOK /\ Sizes /\ samples_ \in Nat
      /\ getBytesPerSample \in Nat \ {0} /\ channels_ \in Nat \ {0}
      /\ pos = samples_ * blocksize
  BY Known DEF TypeOK
<1>2. bitsPerSample_ \in Bits /\ channels_ \in Channels
  BY <1>1 DEF Sizes
<1> DEFINE h == FinalHeaders
           size == IF bitsPerSample_ = 20 THEN 3 ELSE bitsPerSample_ \div 8
           agree == bitsPerSample_ % 8 = 0 \/ bitsPerSample_ = 20
<1>3. h = Headers(bitsPerSample_, channels_, samples_)
  BY DEF FinalHeaders
<1>4. /\ h.bits = bitsPerSample_ /\ h.channels = channels_
      /\ h.dataLength = size * channels_ * samples_
      /\ h.rf64 \/ h.mainLength = Overhead + h.dataLength
  BY <1>1, <1>2, <1>3, HeadersAre
<1> HIDE DEF h
<1>5. /\ (bitsPerSample_ + 7) \div 8 = getBytesPerSample
      /\ size \in Nat
      /\ IF agree THEN size = getBytesPerSample ELSE getBytesPerSample = size + 1
  BY <1>2, SizesOf DEF getBytesPerSample
<1>6. body = samples_ * (getBytesPerSample * channels_)
  BY <1>1 DEF blocksize
<1>7. made * ((h.bits + 7) \div 8) * h.channels = body
  <2>1. made * ((h.bits + 7) \div 8) * h.channels = samples_ * getBytesPerSample * channels_
    BY <1>4, <1>5
  <2>2. samples_ * getBytesPerSample * channels_ = samples_ * (getBytesPerSample * channels_)
    BY <1>1
  <2> QED BY <1>6, <2>1, <2>2
<1> HIDE DEF size
<1>8. agree => h.dataLength = body /\ (h.rf64 \/ h.mainLength = Overhead + body)
  <2> SUFFICES ASSUME agree PROVE h.dataLength = body
    BY <1>4
  <2>1. h.dataLength = getBytesPerSample * channels_ * samples_
    BY <1>4, <1>5
  <2>2. getBytesPerSample * channels_ * samples_ = samples_ * (getBytesPerSample * channels_)
    BY <1>1
  <2> QED BY <1>6, <2>1, <2>2
<1>9. ~agree => h.dataLength < body \/ made = 0
  <2> SUFFICES ASSUME ~agree, samples_ # 0 PROVE h.dataLength < body
    OBVIOUS
  <2>1. getBytesPerSample = size + 1
    BY <1>5
  <2>2. size * channels_ * samples_ < samples_ * ((size + 1) * channels_)
    BY <1>1, <1>5, FewerBytes
  <2> QED BY <1>4, <1>6, <2>1, <2>2
<1>10. Declares(h)
  BY <1>4, <1>7, <1>8, <1>9 DEF Declares
<1> QED BY <1>10 DEF h

\* A header and data that stay as they are declare what they did.
LEMMA DeclaresStays ==
  ASSUME \A h \in Lasting : Declares(h), UNCHANGED <<disk, made>>
  PROVE  \A h \in Lasting' : Declares(h)'
<1>1. Lasting' = Lasting /\ UNCHANGED <<body, made>>
  BY DEF Lasting, disk
<1> QED BY <1>1 DEF Declares

\* close, the destructor and the end of the program.
LEMMA FaithfulClose ==
  ASSUME FileInv, Faithful, whole', Close \/ Destroy \/ Exit
  PROVE  Faithful'
<1>1. CASE Exit
  <2>1. /\ fp_ = "null" /\ fp_' = "null" /\ UNCHANGED <<body, made, whole>>
        /\ unflushed' = {}
        /\ \E new \in unflushed : header' = new
    BY <1>1 DEF Exit, object
  <2>2. header' \in Lasting /\ Lasting' = {header'}
    BY <2>1 DEF Lasting
  <2>3. \A h \in Lasting : Declares(h)
    BY <2>1 DEF Faithful
  <2>4. \A h \in Lasting' : Declares(h)'
    BY <2>1, <2>2, <2>3 DEF Declares
  <2> QED BY <2>1, <2>4 DEF Faithful
<1>2. CASE Close \/ Destroy
  <2>1. /\ fp_ = "open" /\ fp_' = "null" /\ UNCHANGED <<body, made, whole>>
        /\ \/ header' = FinalHeaders /\ UNCHANGED unflushed
           \/ readNotWrite_ /\ UNCHANGED disk
           \/ ~readNotWrite_ /\ unflushed' = {FinalHeaders}
    BY <1>2 DEF Close, Destroy, Reset, disk
  <2>2. CASE readNotWrite_
    <3>1. UNCHANGED <<disk, made>>
      BY <2>1, <2>2 DEF FinalHeaders, disk
    <3>2. \A h \in Lasting : Declares(h)
      BY <2>1, <2>2 DEF Faithful
    <3>3. \A h \in Lasting' : Declares(h)'
      BY <3>1, <3>2, DeclaresStays
    <3> QED BY <2>1, <3>3 DEF Faithful
  <2>3. CASE ~readNotWrite_
    <3>1. unflushed = {} /\ ~broken /\ made = samples_ /\ body = pos
      BY <2>1, <2>3 DEF Faithful
    <3>2. Declares(FinalHeaders)
      BY <2>1, <2>3, <3>1, FinalDeclares
    <3>3. Lasting' = {FinalHeaders}
      BY <2>1, <2>3, <3>1 DEF Lasting
    <3>4. \A h \in Lasting' : Declares(h)'
      BY <2>1, <3>2, <3>3 DEF Declares
    <3> QED BY <2>1, <3>4 DEF Faithful
  <2> QED BY <2>2, <2>3
<1> QED BY <1>1, <1>2

LEMMA FaithfulStep ==
  ASSUME FileInv, Faithful, [Next]_vars PROVE Faithful'
<1> SUFFICES ASSUME whole' PROVE Faithful'
  BY DEF Faithful
<1> TypeOK
  BY DEF FileInv
<1>1. ASSUME NEW b \in Bits, NEW c \in Channels, OpenToWrite(b, c) PROVE Faithful'
  <2>1. /\ pos' = 0 /\ body' = 0 /\ made' = 0 /\ broken' = FALSE /\ unflushed' = {}
        /\ fp_' = "open" /\ readNotWrite_' = FALSE /\ samples_' = 0
    BY <1>1 DEF OpenToWrite
  <2> QED BY <2>1 DEF Faithful
<1>2. ASSUME \/ OpenToRead
             \/ \E n \in 0 .. MaxSamples : Read(n) \/ SetPosition(n)
             \/ UNCHANGED vars /\ ~(fp_ = "open" /\ ~readNotWrite_)
      PROVE  Faithful'
  <2>1. /\ ~(fp_ = "open" /\ ~readNotWrite_) /\ ~(fp_' = "open" /\ ~readNotWrite_')
        /\ fp_ # "shut" => fp_' # "shut"
        /\ UNCHANGED <<disk, made>> /\ whole
    <3>1. CASE OpenToRead
      BY <3>1 DEF OpenToRead
    <3>2. CASE \E n \in 0 .. MaxSamples : Read(n)
      BY <3>2 DEF Read
    <3>3. CASE \E n \in 0 .. MaxSamples : SetPosition(n)
      <4>1. /\ fp_ = "open" /\ fp_' = "open" /\ whole' = (whole /\ readNotWrite_)
            /\ UNCHANGED <<readNotWrite_, disk, made>>
        BY <3>3 DEF SetPosition
      <4>2. whole /\ readNotWrite_
        BY <4>1, Zenon
      <4> QED BY <4>1, <4>2
    <3>4. CASE UNCHANGED vars /\ ~(fp_ = "open" /\ ~readNotWrite_)
      BY <3>4 DEF vars, object, history
    <3> QED BY <1>2, <3>1, <3>2, <3>3, <3>4
  <2>2. fp_ # "shut" /\ \A h \in Lasting : Declares(h)
    BY <2>1 DEF Faithful
  <2>3. \A h \in Lasting' : Declares(h)'
    BY <2>1, <2>2, DeclaresStays
  <2> QED BY <2>1, <2>2, <2>3 DEF Faithful
<1>3. CASE Close \/ Destroy \/ Exit
  BY <1>3, FaithfulClose
<1>4. ASSUME NEW n \in 0 .. MaxSamples, Write(n) PROVE Faithful'
  <2>1. /\ fp_ = "open" /\ ~readNotWrite_ /\ fp_' = "open" /\ ~readNotWrite_'
        /\ body' = Greater(body, pos') /\ UNCHANGED unflushed
        /\ pos' = pos + n * blocksize /\ samples_' = samples_ + n /\ made' = made + n
        /\ whole /\ broken' = broken
    <3> DEFINE int == (n * blocksize) % IntRange
    <3>1. /\ fp_ = "open" /\ ~readNotWrite_ /\ fp_' = "open" /\ ~readNotWrite_'
          /\ body' = Greater(body, pos') /\ UNCHANGED unflushed
      BY <1>4 DEF Write
    <3>2. /\ pos' = pos + int /\ samples_' = samples_ + n /\ made' = made + n
          /\ whole' = (whole /\ int = n * blocksize)
          /\ broken' = (broken \/ int # n * blocksize)
      BY <1>4 DEF Write
    <3>3. whole /\ int = n * blocksize
      BY <3>2, Zenon
    <3>4. broken \in BOOLEAN
      BY DEF TypeOK
    <3> QED BY <3>1, <3>2, <3>3, <3>4
  <2>2. unflushed = {} /\ ~broken /\ made = samples_ /\ body = pos
    BY <2>1 DEF Faithful
  <2>3. n * blocksize \in Nat /\ pos \in Nat
    BY <2>1, Known, NatTimes, WaveFileAssumption DEF TypeOK
  <2>4. body' = pos'
    BY <2>1, <2>2, <2>3 DEF Greater
  <2> QED BY <2>1, <2>2, <2>4 DEF Faithful
<1>5. CASE UNCHANGED vars /\ fp_ = "open" /\ ~readNotWrite_
  <2>1. UNCHANGED <<fp_, readNotWrite_, samples_, pos, body, unflushed, made, whole, broken>>
    BY <1>5 DEF vars, object, disk, history
  <2> QED BY <1>5, <2>1 DEF Faithful
<1> QED BY <1>1, <1>2, <1>3, <1>4, <1>5 DEF Next

\* A file that has been written without errors or seeks, and closed, or left to the
\* destructor and the end of the program, has all its samples, and declares the
\* data that it has if the size of a sample is a whole number of bytes or 20 bits;
\* for any other size it declares less (wavefile.cpp:32-158, 254, 354).
THEOREM DeclaresItsDataHolds == Spec => []DeclaresItsData
<1>1. FileInv /\ Faithful /\ [Next]_vars => Faithful'
  BY FaithfulStep
<1>2. Spec => []Faithful
  BY <1>1, FaithfulInit, FileInvariant, PTL DEF Spec
<1>3. Faithful => DeclaresItsData
  BY DEF Faithful, Lasting, Declares, DeclaresItsData
<1> QED BY <1>2, <1>3, PTL
=============================================================================
