---------------------------- MODULE MCInputQueue ----------------------------
(***************************************************************************)
(* Instance of InputQueue for TLC: the queue alone, under any caller.      *)
(***************************************************************************)
EXTENDS InputQueue, TLC

Symmetric == Permutations(Ids)
=============================================================================
