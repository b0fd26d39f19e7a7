--------------------------- MODULE MCCodexSession ---------------------------
(***************************************************************************)
(* An instance of CodexQueuedTurns with four kinds of surroundings: inputs *)
(* that are edited while files change, exports run and the connection is   *)
(* lost; a queue that is cleared; a process that crashes or closes and is  *)
(* started again, over turns of their own and with steering.               *)
(***************************************************************************)
EXTENDS MCCodexQueuedTurns

Disturbed ==
  {"follow-up", "steering", "interject", "file",
   "interrupt", "recovery", "remove", "move", "edit", "disconnect"}
Cleared == {"follow-up", "steering", "plain", "interrupt", "remove", "clear"}
Restarted ==
  {"follow-up", "plain", "crash", "reopen", "retry", "pause", "resume", "send", "close"}
Crashed == {"steering", "plain", "crash", "reopen", "retry", "resume"}

MCSurroundings == {Disturbed, Cleared, Restarted, Crashed}
=============================================================================
