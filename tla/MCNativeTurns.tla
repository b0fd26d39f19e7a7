---------------------------- MODULE MCNativeTurns ---------------------------
(***************************************************************************)
(* Instance of NativeTurns for TLC: the native engine alone, with the      *)
(* operations that reserve it without leaving a promise.                   *)
(***************************************************************************)
EXTENDS NativeTurns
=============================================================================
