----------------------------- MODULE MCSession -----------------------------
(***************************************************************************)
(* What a session keeps on disk, on small instances and side by side: a    *)
(* behaviour runs the queue of inputs or the history of the conversation,  *)
(* as their modules share no state.                                        *)
(***************************************************************************)
EXTENDS InputQueue, SessionHistory, TLC

CONSTANTS d1, d2

Symmetric == Permutations(Ids)

VARIABLE part
sessionParts == <<qvars, historyVars, part>>

\* The directories are alike: the session starts in the first.
MCInit ==
  /\ Init /\ HistoryInit /\ location.directory = d1
  /\ part \in {"queue", "history"}
  /\ part = "queue" => transcript = <<>>
HistoryAtRest == At("closed") /\ tally.opens = MaxOpens /\ UNCHANGED historyVars
MCNext ==
  /\ part' = part
  /\ \/ part = "queue" /\ Next /\ UNCHANGED historyVars
     \/ part = "history" /\ (HistoryNext \/ HistoryAtRest) /\ UNCHANGED qvars
MCSpec == MCInit /\ [][MCNext]_sessionParts
=============================================================================
