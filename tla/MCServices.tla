----------------------------- MODULE MCServices -----------------------------
(***************************************************************************)
(* Components that share no state, on small instances and side by side: a  *)
(* behaviour runs the restore of a checkpoint, the schedules of several    *)
(* sessions, the turns of the native engine's loop or the daemon.          *)
(***************************************************************************)
EXTENDS FileRestore, Schedules, ToolTurn, Hub, TLC

CONSTANTS e1, e2, s1, w1, w2, c1, c2

\* Two sessions that differ in their workspace; the third occurrence of a
\* schedule is over its tokens.
MCIdentity == (w1 :> "i1") @@ (w2 :> "i2")
MCTokens == [s \in Schedules |-> 1]
MCTotal == [s \in Schedules |-> 2]
MCOccurrences == [s \in Schedules |-> 3]
MCLifetime == [s \in Schedules |-> 3]

\* Of two behaviours that differ in the names of the edits or clients only,
\* keep the one where a given name comes first: no property tells them apart.
FirstFirst(names, Used(_)) == \A x \in names : Used(x) => Used(CHOOSE first \in names : TRUE)

VARIABLE part
parts == <<fvars, scheduleVars, toolVars, hubVars, part>>

\* Where a component does not run, one of its initial states is enough.
MCInit ==
  /\ FInit /\ ScheduleInit /\ ToolInit /\ HubInit
  /\ part \in {"restore", "schedules", "loop", "daemon"}
  /\ part # "restore" => target = [i \in Rows |-> "after"] /\ expected = [i \in Rows |-> "before"]
  /\ part # "daemon" => session = Unopened
RestoreAtRest == run = Idle /\ UNCHANGED fvars
MCNext ==
  /\ part' = part
  /\ \/ /\ part = "restore" /\ UNCHANGED <<scheduleVars, toolVars, hubVars>>
        /\ (FNext \/ RestoreAtRest) /\ FirstFirst(Edits, LAMBDA e : e \in written')
     \/ part = "schedules" /\ ScheduleNext /\ UNCHANGED <<fvars, toolVars, hubVars>>
     \/ part = "loop" /\ ToolNext /\ UNCHANGED <<fvars, scheduleVars, hubVars>>
     \/ /\ part = "daemon" /\ UNCHANGED <<fvars, scheduleVars, toolVars>>
        /\ HubNext /\ FirstFirst(Clients, LAMBDA c : used'[c] # 0)
MCSpec == MCInit /\ [][MCNext]_parts
=============================================================================
