------------------------------ MODULE PlayerMC ------------------------------
(* A small instance of Player: files of up to ten frames in blocks of up to  *)
(* four, and an unsigned of four bits: files of eight frames or more do not  *)
(* fit.                                                                      *)
EXTENDS Player
=============================================================================
