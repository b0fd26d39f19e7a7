----------------------------- MODULE MCToolTurn -----------------------------
(* An instance of ToolTurn for TLC by itself.                              *)
EXTENDS ToolTurn
=============================================================================
