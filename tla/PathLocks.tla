------------------------------ MODULE PathLocks ------------------------------
(***************************************************************************)
(* What the mutation coordinator promises to the operations that use it:   *)
(* two operations on overlapping paths are never under way together, and   *)
(* an operation is not let in before another that overlaps it and came     *)
(* first.                                                                  *)
(***************************************************************************)
CONSTANTS Calls, Conflicts(_, _)

VARIABLES
  waiting,  \* the calls that wait
  ahead,    \* the pairs of them of which the first came first
  inside    \* the calls whose operation is under way

locks == <<waiting, ahead, inside>>

LocksInit == waiting = {} /\ ahead = {} /\ inside = {}

Join(i) ==
  /\ i \notin waiting \cup inside
  /\ waiting' = waiting \cup {i}
  /\ ahead' = ahead \cup (waiting \X {i})
  /\ inside' = inside

WaitsNoMore(gone) ==
  /\ waiting' = waiting \ gone
  /\ ahead' = ahead \cap ((waiting \ gone) \X (waiting \ gone))

LetIn(i) ==
  /\ i \in waiting
  /\ \A j \in waiting : <<j, i>> \in ahead => ~Conflicts(j, i)
  /\ \A j \in inside : ~Conflicts(i, j)
  /\ WaitsNoMore({i})
  /\ inside' = inside \cup {i}

\* Calls settle, give up, fail or die with their process, several at once.
Leave(gone) ==
  /\ gone \subseteq waiting \cup inside
  /\ WaitsNoMore(gone)
  /\ inside' = inside \ gone

LocksNext ==
  \/ \E i \in Calls : Join(i) \/ LetIn(i)
  \/ \E gone \in (SUBSET Calls) \ {{}} : Leave(gone)

LocksSpec == LocksInit /\ [][LocksNext]_locks
=============================================================================
