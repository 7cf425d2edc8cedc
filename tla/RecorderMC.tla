---------------------------- MODULE RecorderMC ----------------------------
(* Small instances of Recorder: eight bits for uint32_t, blocks of three    *)
(* frames, so that a block of 24 bytes does not divide the limit.           *)
EXTENDS Recorder
=============================================================================
