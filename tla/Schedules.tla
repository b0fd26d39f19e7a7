------------------------------ MODULE Schedules ------------------------------
(***************************************************************************)
(* Recurring prompts: the manifest of core/orchestration/scheduler.ts and  *)
(* the workers of engines/codesplash/orchestration/scheduler.ts.  Several  *)
(* sessions share one manifest, which they change under a lease, one       *)
(* change at a time; at most one of them holds the worker's lease and runs *)
(* occurrences, each as a workflow in its own process.                     *)
(*                                                                         *)
(* A change of the manifest is one step: it is made without waiting, under *)
(* the lease, and replaces the file at once.  It fails when the lease is   *)
(* taken or the storage fails: before the file is replaced, or after.  An  *)
(* await is a step boundary.  Schedules here recur with a cadence; watched *)
(* directories are left out.                                               *)
(***************************************************************************)
EXTENDS Naturals, SequencesExt

CONSTANTS
  Schedules, Sessions,
  Identity,        \* of each session: its configuration, workspace and model
  Tokens,          \* of each schedule: the tokens an occurrence may use
  TotalTokens,     \* of each schedule: the tokens of its lifetime
  MaxOccurrences,  \* of each schedule
  Lifetime,        \* of each schedule: when it expires, after its creation
  Cadence,         \* time between two runs
  Overrun,         \* tokens by which a last model call may pass the limit
  Retention,       \* occurrences kept in the manifest, 256 in the code
  MaxTime, MaxTenures, MaxScheduleFaults  \* bounds of the model

NoSession == "no session"
NoSchedule == "no schedule"

ASSUME ScheduleShape ==
  /\ \A s \in Schedules : /\ Tokens[s] \in Nat \ {0} /\ TotalTokens[s] \in Nat
                          /\ Tokens[s] <= TotalTokens[s]
                          /\ MaxOccurrences[s] \in Nat \ {0}
                          /\ Lifetime[s] \in Nat \ {0}
  /\ Cadence \in Nat \ {0} /\ Overrun \in Nat /\ Retention \in Nat \ {0}
  /\ {MaxTime, MaxTenures, MaxScheduleFaults} \subseteq Nat
  /\ NoSession \notin Sessions

VARIABLES
  clock,
  schedule,  \* the records of the manifest
  runs,      \* its occurrences, oldest first
  worker,    \* the holder of the worker's lease, and the number of its tenure
  control,   \* of each session: no abort controller, one, or an aborted one
  draining,  \* the sessions whose stop waits for the job
  job,       \* of each session: the tick or the manual run under way
  occurred,  \* runs begun so far: the next one's id
  pruned,    \* history: of each schedule, what forgotten occurrences used
  storage    \* changes of the manifest that failed so far

scheduleVars ==
  <<clock, schedule, runs, worker, control, draining, job, occurred, pruned, storage>>

Unsettled == {"failed", "execution-uncertain"}
Absent == [at |-> "absent", enabled |-> FALSE, identity |-> "none", expires |-> 0,
           next |-> 0, count |-> 0, used |-> 0, reserved |-> 0]
NoJob == [at |-> "none", manual |-> FALSE, schedule |-> NoSchedule, occurrence |-> 0,
          stale |-> {}, seen |-> {}]

ScheduleInit ==
  /\ clock = 0
  /\ schedule = [s \in Schedules |-> Absent]
  /\ runs = <<>>
  /\ worker = [by |-> NoSession, tenure |-> 0]
  /\ control = [w \in Sessions |-> "off"]
  /\ draining = {}
  /\ job = [w \in Sessions |-> NoJob]
  /\ occurred = 0
  /\ pruned = [s \in Schedules |-> 0]
  /\ storage = 0

----------------------------------------------------------------------------
(* The manifest.                                                            *)

Present(s) == schedule[s].at = "present"
Owner(w) == IF worker.by = w THEN worker.tenure ELSE 0
\* Mutant: only what is spent is compared, not what the occurrence may use.
Affords_SpentOnly(s, rest) == schedule[s].used + rest <= TotalTokens[s]
Affords(s, rest) == schedule[s].used + rest + Tokens[s] <= TotalTokens[s]
\* Mutant: an occurrence that failed or is uncertain needs no review.
InReview_RunningOnly(s) ==
  \E n \in DOMAIN runs : runs[n].schedule = s /\ runs[n].status = "running"
InReview(s) ==
  \E n \in DOMAIN runs :
    /\ runs[n].schedule = s
    /\ \/ runs[n].status = "running"
       \/ runs[n].status # "completed" /\ ~runs[n].reviewed
At(id) == {n \in DOMAIN runs : runs[n].id = id}
Running(id) == \E n \in At(id) : runs[n].status = "running"

\* A change of the manifest that fails counts against the model's bound.
Updates(fails) ==
  /\ fails => storage < MaxScheduleFaults
  /\ storage' = IF fails THEN storage + 1 ELSE storage

\* createMany, of one record: under another lease than the worker's.
Create(w, s, enabled) ==
  /\ schedule[s].at = "absent"
  /\ schedule' = [schedule EXCEPT ![s] =
       [at |-> "present", enabled |-> enabled, identity |-> Identity[w],
        expires |-> clock + Lifetime[s], next |-> clock + Cadence,
        count |-> 0, used |-> 0, reserved |-> 0]]
  /\ UNCHANGED <<clock, runs, worker, control, draining, job, occurred, pruned, storage>>

Enable(w, s) ==
  /\ Present(s) /\ ~InReview(s)
  /\ schedule[s].count < MaxOccurrences[s] /\ Affords(s, 0)
  /\ clock < schedule[s].expires
  /\ schedule' = [schedule EXCEPT ![s].enabled = TRUE, ![s].identity = Identity[w],
                                  ![s].next = clock + Cadence]
  /\ UNCHANGED <<clock, runs, worker, control, draining, job, occurred, pruned, storage>>

Disabled(s) == [schedule EXCEPT ![s].enabled = FALSE]

\* control "delete" of the schedule whose occurrence is live in this session:
\* it is disabled and its workflow interrupted; remove comes once it settles.
DeleteLive(w, s) ==
  /\ Present(s) /\ job[w].at = "work" /\ job[w].schedule = s
  /\ schedule' = Disabled(s)
  /\ UNCHANGED <<clock, runs, worker, control, draining, job, occurred, pruned, storage>>

\* remove: the schedule goes, its occurrences stay.
Delete(s) ==
  /\ Present(s) /\ ~InReview(s)
  /\ schedule' = [schedule EXCEPT ![s].at = "removed", ![s].enabled = FALSE]
  /\ UNCHANGED <<clock, runs, worker, control, draining, job, occurred, pruned, storage>>

Review(n) ==
  /\ runs[n].status \in Unsettled /\ ~runs[n].reviewed
  /\ runs' = [runs EXCEPT ![n].reviewed = TRUE]
  /\ UNCHANGED <<clock, schedule, worker, control, draining, job, occurred, pruned, storage>>

\* acquireWorker takes over what a dead or failed worker left running.
Occurrences(s) == {run \in ToSet(runs) : run.schedule = s}
Orphans(s) == {run \in Occurrences(s) : run.status = "running"}
ReservedBy(some) == SumFunction([run \in some |-> run.reserved])
MaxOf0(n, m) == IF n > m THEN n - m ELSE 0
\* Mutant: what the orphans reserved is charged and stays reserved.
TakeOver_KeepsReserved ==
  /\ runs' = [n \in DOMAIN runs |->
       IF runs[n].status = "running"
       THEN [runs[n] EXCEPT !.status = "execution-uncertain", !.used = runs[n].reserved]
       ELSE runs[n]]
  /\ schedule' = [s \in Schedules |->
       IF Present(s) /\ Orphans(s) # {}
       THEN [schedule[s] EXCEPT !.used = @ + ReservedBy(Orphans(s)), !.enabled = FALSE]
       ELSE schedule[s]]
TakeOver ==
  /\ runs' = [n \in DOMAIN runs |->
       IF runs[n].status = "running"
       THEN [runs[n] EXCEPT !.status = "execution-uncertain", !.used = runs[n].reserved]
       ELSE runs[n]]
  /\ schedule' = [s \in Schedules |->
       IF Present(s) /\ Orphans(s) # {}
       THEN [schedule[s] EXCEPT
               !.used = @ + ReservedBy(Orphans(s)),
               !.reserved = MaxOf0(@, ReservedBy(Orphans(s))),
               !.enabled = FALSE]
       ELSE schedule[s]]

\* The tenure of a session begins, unless the change fails after it was made.
AcquireWorker(w, fails) ==
  /\ worker.by = NoSession /\ worker.tenure < MaxTenures
  /\ Updates(fails)
  /\ TakeOver
  /\ worker' = [by |-> IF fails THEN NoSession ELSE w, tenure |-> worker.tenure + 1]

----------------------------------------------------------------------------
(* The worker of a session.                                                 *)

\* control "start".
Start(w, fails) ==
  /\ control[w] = "off"
  /\ AcquireWorker(w, fails)
  /\ control' = [control EXCEPT ![w] = IF fails THEN "off" ELSE "on"]
  /\ UNCHANGED <<clock, draining, job, occurred, pruned>>

\* control "run": one occurrence, in a tenure of its own.
StartManual(w, s, fails) ==
  /\ control[w] = "off" /\ job[w].at = "none"
  /\ Present(s) /\ schedule[s].enabled
  /\ AcquireWorker(w, fails)
  /\ control' = [control EXCEPT ![w] = IF fails THEN "off" ELSE "on"]
  /\ job' = IF fails THEN job
            ELSE [job EXCEPT ![w] = [NoJob EXCEPT !.at = "admit", !.manual = TRUE, !.schedule = s]]
  /\ UNCHANGED <<clock, draining, occurred, pruned>>

\* The end of stop, and of a manual run.
Released(w) ==
  /\ control' = [control EXCEPT ![w] = "off"]
  /\ worker' = IF worker.by = w THEN [worker EXCEPT !.by = NoSession] ELSE worker

\* stop: the timers are cleared and the signal aborted; the live workflow is
\* interrupted, and the lease is released once the job has settled.
\* Mutant: the lease is released at once, while the job settles.
Stop_DoesNotWait(w) ==
  /\ control[w] # "off"
  /\ draining' = draining \ {w}
  /\ Released(w)
  /\ UNCHANGED <<clock, schedule, runs, job, occurred, pruned, storage>>
Stop(w) ==
  /\ control[w] # "off"
  /\ draining' = IF job[w].at = "none" THEN draining ELSE draining \cup {w}
  /\ IF job[w].at = "none" THEN Released(w)
     ELSE /\ control' = [control EXCEPT ![w] = "aborted"]
          /\ UNCHANGED worker
  /\ UNCHANGED <<clock, schedule, runs, job, occurred, pruned, storage>>

\* The job is over: the stop that waits for it goes on.
JobEnds(w) ==
  /\ job' = [job EXCEPT ![w] = NoJob]
  /\ draining' = draining \ {w}
  /\ IF w \in draining \/ job[w].manual THEN Released(w) ELSE UNCHANGED <<control, worker>>

GoesTo(w, place) == job' = [job EXCEPT ![w].at = place]

\* #tick, every second, first awaits an authorization.
Tick(w) ==
  /\ control[w] = "on" /\ job[w].at = "none"
  /\ GoesTo(w, "survey")
  /\ UNCHANGED <<clock, schedule, runs, worker, control, draining, occurred, pruned, storage>>

\* It reads the manifest, then awaits the session's identity.
Survey(w) ==
  /\ job[w].at = "survey"
  /\ LET seen == {s \in Schedules : Present(s) /\ schedule[s].enabled} IN
     job' = [job EXCEPT ![w].at = "sweep", ![w].seen = seen,
               ![w].stale = {s \in seen : schedule[s].identity # Identity[w]}]
  /\ UNCHANGED <<clock, schedule, runs, worker, control, draining, occurred, pruned, storage>>

\* It disables those it has read that have another identity or are expired.
\* One that was removed since makes it throw.
Unfit(w) == job[w].stale \cup {s \in job[w].seen : clock >= schedule[s].expires}
Sweep(w, s, fails) ==
  /\ job[w].at = "sweep" /\ s \in Unfit(w)
  /\ Updates(fails)
  /\ schedule' = IF Present(s) THEN Disabled(s) ELSE schedule
  /\ job' = IF Present(s) /\ ~fails
            THEN [job EXCEPT ![w].seen = @ \ {s}, ![w].stale = @ \ {s}]
            ELSE [job EXCEPT ![w].at = "failed"]
  /\ UNCHANGED <<clock, runs, worker, control, draining, occurred, pruned>>

\* due selects an enabled schedule whose time has come; #run throws when the
\* signal is aborted.
Due == {s \in Schedules :
  /\ Present(s) /\ schedule[s].enabled
  /\ schedule[s].next <= clock /\ clock < schedule[s].expires
  /\ schedule[s].count < MaxOccurrences[s] /\ Affords(s, schedule[s].reserved)}
FirstDue == {s \in Due : \A t \in Due : schedule[s].next <= schedule[t].next}
Select(w) ==
  /\ job[w].at = "sweep" /\ Unfit(w) = {}
  /\ \/ Due = {} /\ JobEnds(w)
     \/ \E s \in FirstDue :
          /\ job' = [job EXCEPT ![w] = [NoJob EXCEPT !.schedule = s,
                       !.at = IF control[w] = "aborted" THEN "failed" ELSE "admit"]]
          /\ UNCHANGED <<draining, control, worker>>
  /\ UNCHANGED <<clock, schedule, runs, occurred, pruned, storage>>

----------------------------------------------------------------------------
(* An occurrence: #run.                                                     *)

Admissible(w, s) ==
  /\ worker.by = w
  /\ Present(s) /\ schedule[s].enabled /\ schedule[s].identity = Identity[w]
  /\ job[w].manual \/ schedule[s].next <= clock
  /\ clock < schedule[s].expires
  /\ schedule[s].count < MaxOccurrences[s] /\ Affords(s, schedule[s].reserved)
  /\ \A n \in DOMAIN runs : runs[n].status # "running"
Forgettable ==
  {n \in DOMAIN runs : runs[n].status = "completed" \/ runs[n].reviewed}
Full == Len(runs) >= Retention

\* begin: the reservation and the occurrence are one change.
BeginWork(w, fails) ==
  /\ job[w].at = "admit"
  /\ LET s == job[w].schedule
         old == CHOOSE n \in Forgettable : \A m \in Forgettable : n <= m
         kept == IF Full THEN RemoveAt(runs, old) ELSE runs
     IN /\ Admissible(w, s) /\ (Full => Forgettable # {})
        /\ Updates(fails)
        /\ occurred' = occurred + 1
        /\ runs' = Append(kept,
             [id |-> occurred + 1, schedule |-> s, status |-> "running",
              reserved |-> Tokens[s], used |-> 0, owner |-> Owner(w), reviewed |-> FALSE])
        /\ schedule' = [schedule EXCEPT ![s].next = clock + Cadence, ![s].count = @ + 1,
                                        ![s].reserved = @ + Tokens[s]]
        /\ pruned' = IF Full THEN [pruned EXCEPT ![runs[old].schedule] = @ + runs[old].used]
                     ELSE pruned
        /\ job' = [job EXCEPT ![w].at = IF fails THEN "failed" ELSE "begun",
                              ![w].occurrence = occurred + 1]
  /\ UNCHANGED <<clock, worker, control, draining>>

\* The schedule is no longer admissible, the change failed before it was made,
\* or an authorization is refused: in a tick's first await, or before begin.
Refused(w) ==
  /\ job[w].at \in {"survey", "admit"}
  /\ GoesTo(w, "failed")
  /\ UNCHANGED <<clock, schedule, runs, worker, control, draining, occurred, pruned, storage>>

\* The workflow starts and is attached to the occurrence, unless the signal is
\* aborted or the start fails.  attach fails when the manifest cannot be changed.
StartWork(w) ==
  /\ job[w].at = "begun"
  /\ \/ control[w] = "on" /\ GoesTo(w, "work") /\ Updates(FALSE)
     \/ control[w] = "on" /\ GoesTo(w, "abandon") /\ Updates(TRUE)
     \/ GoesTo(w, "recover") /\ Updates(FALSE)
  /\ UNCHANGED <<clock, schedule, runs, worker, control, draining, occurred, pruned>>

WorkEnds(w) ==
  /\ \/ job[w].at = "work" /\ GoesTo(w, "report")
     \/ job[w].at = "abandon" /\ GoesTo(w, "recover")
  /\ UNCHANGED <<clock, schedule, runs, worker, control, draining, occurred, pruned, storage>>

\* finish: the occurrence is settled and its reservation turned into use.
Owned(w, id) ==
  \E n \in At(id) : /\ runs[n].status = "running" /\ runs[n].owner = Owner(w)
                    /\ worker.by = w /\ Present(runs[n].schedule)
Settled(w, id, status, used) ==
  LET n == CHOOSE n \in At(id) : TRUE
      s == runs[n].schedule
      spent == schedule[s].used + used
  IN /\ runs' = [runs EXCEPT ![n].status = status, ![n].used = used]
     /\ schedule' = [schedule EXCEPT ![s].used = spent,
          ![s].reserved = @ - runs[n].reserved,
          ![s].enabled = @ /\ status = "completed" /\ schedule[s].count < MaxOccurrences[s]
                           /\ spent + Tokens[s] <= TotalTokens[s] /\ clock < schedule[s].expires]

\* The workflow's outcome; its use, when it is known, and otherwise the
\* reservation and an uncertain outcome.
Outcomes(s) ==
  [status : {"completed", "failed", "execution-uncertain"}, used : 0..(Tokens[s] + Overrun)]
    \cup {[status |-> "execution-uncertain", used |-> Tokens[s]]}
FinishWork(w, fails) ==
  /\ job[w].at = "report"
  /\ Updates(fails)
  /\ \/ /\ Owned(w, job[w].occurrence)
        /\ \E o \in Outcomes(job[w].schedule) :
             /\ Settled(w, job[w].occurrence, o.status, o.used)
             /\ \/ ~fails /\ JobEnds(w)
                \/ \* the finished workflow cannot be forgotten
                   /\ fails \/ o.status # "failed"
                   /\ GoesTo(w, "recover") /\ UNCHANGED <<draining, control, worker>>
     \/ /\ fails \/ ~Owned(w, job[w].occurrence)
        /\ GoesTo(w, "recover")
        /\ UNCHANGED <<runs, schedule, draining, control, worker>>
  /\ UNCHANGED <<clock, occurred, pruned>>

\* The error path: an occurrence that still runs is settled as uncertain.
RecoverWork(w, fails) ==
  /\ job[w].at = "recover"
  /\ Updates(fails)
  /\ GoesTo(w, "failed")
  /\ LET id == job[w].occurrence IN
     \/ /\ Owned(w, id)
        /\ Settled(w, id, "execution-uncertain", Tokens[job[w].schedule])
     \/ /\ fails \/ ~Owned(w, id)
        /\ UNCHANGED <<runs, schedule>>
  /\ UNCHANGED <<clock, worker, control, draining, occurred, pruned>>

\* A tick that threw disables what is enabled, one by one until that fails, and
\* then has the worker stopped, some time later.  A manual run disables its own
\* schedule, when it can.
GiveUp(w, fails) ==
  /\ job[w].at = "failed"
  /\ Updates(fails)
  /\ LET enabled == {s \in Schedules : Present(s) /\ schedule[s].enabled}
         mine == {s \in {job[w].schedule} \cap Schedules : Present(s)}
     IN \E off \in SUBSET (IF job[w].manual THEN mine ELSE enabled) :
          /\ fails \/ off = (IF job[w].manual THEN mine ELSE enabled)
          /\ schedule' = [s \in Schedules |->
               IF s \in off THEN [schedule[s] EXCEPT !.enabled = FALSE] ELSE schedule[s]]
  /\ JobEnds(w)
  /\ UNCHANGED <<clock, runs, occurred, pruned>>

----------------------------------------------------------------------------
\* A session's process dies: its work with it, its lease is free.
Kill(w) ==
  /\ control[w] # "off"
  /\ job' = [job EXCEPT ![w] = NoJob]
  /\ draining' = draining \ {w}
  /\ Released(w)
  /\ UNCHANGED <<clock, schedule, runs, occurred, pruned, storage>>

Pass ==
  /\ clock < MaxTime
  /\ clock' = clock + 1
  /\ UNCHANGED <<schedule, runs, worker, control, draining, job, occurred, pruned, storage>>

WorkerStep(w) ==
  \/ Survey(w) \/ Select(w) \/ StartWork(w) \/ WorkEnds(w)
  \/ \E fails \in BOOLEAN :
       \/ \E s \in Schedules : Sweep(w, s, fails)
       \/ BeginWork(w, fails) \/ FinishWork(w, fails) \/ RecoverWork(w, fails) \/ GiveUp(w, fails)
  \/ Refused(w)

\* The bounds of the model are used up and nothing is under way.
SchedulesAtRest ==
  /\ clock = MaxTime /\ worker.tenure = MaxTenures /\ worker.by = NoSession
  /\ \A w \in Sessions : control[w] = "off"
  /\ UNCHANGED scheduleVars

ScheduleNext ==
  \/ \E w \in Sessions :
       \/ WorkerStep(w) \/ Tick(w) \/ Stop(w) \/ Kill(w)
       \/ \E s \in Schedules :
            \/ Enable(w, s) \/ DeleteLive(w, s)
            \/ \E yes \in BOOLEAN : Create(w, s, yes) \/ StartManual(w, s, yes)
       \/ \E fails \in BOOLEAN : Start(w, fails)
  \/ \E s \in Schedules : Delete(s)
  \/ \E n \in DOMAIN runs : Review(n)
  \/ Pass \/ SchedulesAtRest

ScheduleSpec == ScheduleInit /\ [][ScheduleNext]_scheduleVars

----------------------------------------------------------------------------
\* Every occurrence is charged exactly once, also when its worker dies, its
\* outcome is unknown or its record is forgotten: what a schedule has reserved
\* is what its running occurrence may use, what it has used is what all the
\* others used.
UsedBy(some) == SumFunction([run \in some |-> run.used])
ChargedOnce ==
  \A s \in Schedules : Present(s) =>
    /\ schedule[s].reserved = ReservedBy(Orphans(s))
    /\ schedule[s].used = pruned[s] + UsedBy(Occurrences(s) \ Orphans(s))

\* The tokens of a lifetime are exceeded by one model call's overrun at most,
\* over all the occurrences that sessions begin, lose and take over.
WithinBudget ==
  \A s \in Schedules : Present(s) =>
    schedule[s].used + schedule[s].reserved <= TotalTokens[s] + Overrun

\* The work of an occurrence is under way in one session at most, which holds
\* the lease, and the manifest says so.
WorkIsOwned ==
  \A w \in Sessions : job[w].at \in {"begun", "work", "abandon", "report"} =>
    /\ worker.by = w
    /\ \A v \in Sessions \ {w} : job[v].at \notin {"begun", "work", "abandon", "report"}
    /\ Running(job[w].occurrence) /\ Owned(w, job[w].occurrence)

\* A schedule is not enabled while the outcome of an earlier occurrence is
\* unknown or bad and nobody has reviewed it.
EnabledIsReviewed ==
  \A s \in Schedules : schedule[s].enabled =>
    \A n \in DOMAIN runs :
      runs[n].schedule = s /\ runs[n].status \in Unsettled => runs[n].reviewed
=============================================================================
