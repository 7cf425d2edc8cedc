------------------------------ MODULE WinHostMC ------------------------------
(* A small instance of WinHost: an installer with three drivers, the name of    *)
(* the second longer than the others.                                           *)
EXTENDS WinHost

CONSTANTS c1, c2, c3

DutyMC == [i \in Installer |-> {<<1, c1>>, <<2, c2>>, <<3, c3>>}]
LengthMC == [n \in Name |-> IF n = 2 THEN 2 ELSE 1]

\* cwASIO.h:111 has cwASIOload return "an error code when unsuccessful, zero on
\* success", and receive "a pointer to the driver instance".
LoadHonest == \A h \in Host : ret[h] # "null"
=============================================================================
