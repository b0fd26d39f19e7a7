------------------------------ MODULE MCNative ------------------------------
(***************************************************************************)
(* The native engine, its turns and the claims its tools make, on small    *)
(* instances and side by side: a behaviour runs one of them, as their      *)
(* modules share no state.                                                 *)
(***************************************************************************)
EXTENDS MutationClaims, ToolTurn, NativeTurns, TLC

CONSTANTS a, b, c, p1, p2

\* A call of one process and two of another: b overlaps both others.
MCHostOf == (a :> p1) @@ (b :> p2) @@ (c :> p2)
MCPathsOf == (a :> {"x"}) @@ (b :> {"x/y"}) @@ (c :> {"x/y", "z"})
MCWithin == {<<"x", "x">>, <<"x/y", "x/y">>, <<"z", "z">>, <<"x", "x/y">>}

VARIABLE part
nativeParts == <<claimVars, toolVars, nativeVars, part>>

\* Of two behaviours that differ in the names of the inputs only, keep the one
\* where a given input comes first: no property and no fairness condition of
\* the queue tells inputs apart.
Leader == CHOOSE id \in Ids : TRUE
LeaderFirst == (\E id \in Ids : minted[id] # 0) => minted[Leader] # 0

MCInit ==
  /\ ClaimInit /\ ToolInit /\ NativeInit
  /\ part \in {"claims", "turn", "queue"}
MCNext ==
  /\ part' = part
  /\ \/ part = "claims" /\ ClaimNext /\ UNCHANGED <<toolVars, nativeVars>>
     \/ part = "turn" /\ ToolNext /\ UNCHANGED <<claimVars, nativeVars>>
     \/ part = "queue" /\ NativeNext /\ LeaderFirst' /\ UNCHANGED <<claimVars, toolVars>>
\* No action that fairness is about is enabled in a part that does not run.
MCSpec ==
  MCInit /\ [][MCNext]_nativeParts /\ ClaimFairness /\ ToolFairness /\ NativeFairness
=============================================================================
