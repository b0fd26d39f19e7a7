------------------------- MODULE MCCodexQueuedTurns -------------------------
(***************************************************************************)
(* Instances of CodexQueuedTurns for TLC.                                  *)
(***************************************************************************)
EXTENDS CodexQueuedTurns, TLC

Symmetric == Permutations(Ids)

\* A run with liveness properties cannot use SYMMETRY.  Of two behaviours that
\* differ in the names of the inputs only, it keeps the one where a given input
\* comes first; no property and no fairness condition tells inputs apart.
Leader == CHOOSE id \in Ids : TRUE
LeaderFirst == (\E id \in Ids : minted[id] # 0) => minted[Leader] # 0
=============================================================================
