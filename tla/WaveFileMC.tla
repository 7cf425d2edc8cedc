----------------------------- MODULE WaveFileMC -----------------------------
(* A small instance of WaveFile.  Ten bytes of data fill the largest RIFF    *)
(* file: less than four samples of most formats, in files of up to five.     *)
EXTENDS WaveFile

\* One byte, two bytes, and the sizes that fill no whole number of bytes.
SampleSizes == {8, 12, 16, 20}

LargestUint32 == 76 + 10
=============================================================================
