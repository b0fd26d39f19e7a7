------------------------------- MODULE MCHub -------------------------------
(* Instance of Hub for TLC: clients of one daemon.                          *)
EXTENDS Hub, TLC

CONSTANTS c1, c2

Symmetric == Permutations(Clients)
=============================================================================
