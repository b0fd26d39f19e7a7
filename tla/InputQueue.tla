----------------------------- MODULE InputQueue -----------------------------
(***************************************************************************)
(* The durable input queue of one session: core/session/input-queue.ts,    *)
(* stored through the revision-fenced record of core/session/control.ts.   *)
(*                                                                         *)
(* Every method of InputQueue reads the record, computes a new one and     *)
(* commits it in one synchronous call, so a method is one step here.  The  *)
(* committed record survives a crash of the process; #raw does not.  A     *)
(* method that throws commits nothing: it is an action that is not enabled.*)
(* The callers of the execution half (admit, running, finish) are not      *)
(* constrained in this module beyond what those methods check themselves;  *)
(* CodexQueuedTurns adds the callers.                                      *)
(***************************************************************************)
EXTENDS Naturals, FiniteSets

CONSTANTS
  Ids,         \* submission ids that clients may ever mint
  Intents,     \* the intents clients use, of "follow-up" "steering" "interject"
  Forms,       \* the shapes of prompt clients submit, see FormSet
  MaxPending,  \* 100 in the code: unfinished inputs a submission may join
  MaxItems,    \* 1000 in the code: inputs of any status
  MaxBodies,   \* 100 in the code: finished inputs that keep their text
  MaxEpoch     \* bound of the model: epochs the queue goes through

ASSUME FiniteIds == IsFiniteSet(Ids)
ASSUME Limits == /\ MaxPending \in Nat /\ MaxItems \in Nat
                 /\ MaxBodies \in Nat \ {0} /\ MaxEpoch \in Nat \ {0}

IntentSet == {"follow-up", "steering", "interject"}
\* What tells prompts apart at admission: "redacted" text was changed by the
\* sanitizer and "inline" holds an image whose bytes are not stored, so both
\* need #raw; "file" names a file that may have changed; the stored text of an
\* "emptied" prompt was dropped by retention.
FormSet == {"plain", "redacted", "inline", "file", "emptied"}
ASSUME Inputs == Intents \subseteq IntentSet /\ Forms \subseteq FormSet \ {"emptied"}

Terminal == {"completed", "cancelled", "failed"}
Mutable == {"queued", "blocked"}
Statuses == Terminal \cup Mutable \cup {"admitted", "running", "execution-uncertain"}

VARIABLES
  queue,     \* the committed record: values.inputQueue of the session's state
  raw,       \* #raw: inputs whose unsanitized form is still in memory
  live,      \* whether a process has the session open
  minted,    \* epoch of each submission id handed out, 0 if not yet
  accepted,  \* history: how often each id was acknowledged as a new input
  granted    \* history: inputs the user has asked to run since their last run

qvars == <<queue, raw, live, minted, accepted, granted>>

----------------------------------------------------------------------------
(* The record, and the methods as operators from a record to a record.      *)

Present(q) == {id \in Ids : q.status[id] # "absent"}
Pending(q) == {id \in Present(q) : q.status[id] \notin Terminal}

\* items.find(queued of one of the intents), in list order; {} when there is none.
First(q, intents) ==
  LET ready == {id \in Ids : q.status[id] = "queued" /\ q.intent[id] \in intents}
  IN {id \in ready : \A other \in ready : q.place[id] <= q.place[other]}

\* next(intent): nothing while the queue is paused.
NextInput(q, intents) == IF q.paused THEN {} ELSE First(q, intents)

\* Mutant: recovery that holds started inputs like queued ones.
RecoverQ_ReplaysStarted(q) ==
  LET held == {id \in Ids : q.status[id] \in {"queued", "admitted", "running"} /\ ~q.reviewed}
  IN [q EXCEPT !.paused = @ \/ ~q.reviewed, !.reviewed = FALSE,
               !.status = [id \in Ids |-> IF id \in held THEN "blocked" ELSE q.status[id]],
               !.recovered = [id \in Ids |-> q.recovered[id] \/ id \in held]]

\* Mutant: recovery that only looks at running inputs.
RecoverQ_ForgetsAdmitted(q) ==
  LET started == {id \in Ids : q.status[id] = "running"}
  IN [q EXCEPT !.paused = TRUE, !.reviewed = FALSE,
               !.status = [id \in Ids |-> IF id \in started THEN "execution-uncertain"
                                           ELSE q.status[id]]]

\* Mutant: a status that snapshot() does not know.
RecoverQ_UnknownStatus(q) ==
  LET started == {id \in Ids : q.status[id] \in {"admitted", "running"}}
  IN [q EXCEPT !.paused = TRUE, !.reviewed = FALSE,
               !.status = [id \in Ids |-> IF id \in started THEN "uncertain" ELSE q.status[id]]]

\* The recovery the constructor runs when a process opens the session.
RecoverQ(q) ==
  LET started == {id \in Ids : q.status[id] \in {"admitted", "running"}}
      held    == {id \in Ids : q.status[id] = "queued" /\ ~q.reviewed}
  IN IF Pending(q) = {} THEN q
     ELSE [q EXCEPT
            !.paused    = @ \/ ~q.reviewed \/ started # {},
            !.reviewed  = FALSE,
            !.status    = [id \in Ids |-> IF id \in started THEN "execution-uncertain"
                                          ELSE IF id \in held THEN "blocked"
                                          ELSE q.status[id]],
            !.recovered = [id \in Ids |-> q.recovered[id] \/ id \in held]]

CanSubmit(q, id) == /\ q.status[id] = "absent"
                    /\ minted[id] = q.epoch
                    /\ Cardinality(Pending(q)) < MaxPending
                    /\ Cardinality(Present(q)) < MaxItems

\* A submission drops the stored text and attachments of every finished input
\* but the last MaxBodies in list order.
Emptied(q) ==
  LET finished == {id \in Present(q) : q.status[id] \in Terminal}
  IN {id \in finished : Cardinality({x \in finished : q.place[x] > q.place[id]}) >= MaxBodies}

SubmitQ(q, id, intent, form) ==
  [q EXCEPT
    !.status  = [q.status EXCEPT ![id] = "queued"],
    !.place   = [q.place EXCEPT ![id] = Cardinality(Present(q)) + 1],
    !.intent  = [q.intent EXCEPT ![id] = intent],
    !.form    = [x \in Ids |-> IF x = id THEN form
                               ELSE IF x \in Emptied(q) /\ q.form[x] # "redacted"
                               THEN "emptied" ELSE q.form[x]],
    !.history = q.history \cup {id}]

EditQ(q, id, intent, form) ==
  [q EXCEPT
    !.status       = [q.status EXCEPT ![id] = "queued"],
    !.intent       = [q.intent EXCEPT ![id] = intent],
    !.form         = [q.form EXCEPT ![id] = form],
    !.recovered    = [q.recovered EXCEPT ![id] = FALSE],
    !.requiresEdit = [q.requiresEdit EXCEPT ![id] = FALSE],
    !.history      = q.history \cup {id}]

\* Mutant: only the moved input gets a new place.
MoveQ_ShiftsNothing(q, id, pos) == [q EXCEPT !.place = [q.place EXCEPT ![id] = pos]]

\* splice out, splice in at position pos: the others keep their order.
MoveQ(q, id, pos) ==
  LET without(x) == IF q.place[x] > q.place[id] THEN q.place[x] - 1 ELSE q.place[x]
  IN [q EXCEPT !.place = [x \in Ids |->
       IF x \notin Present(q) THEN q.place[x]
       ELSE IF x = id THEN pos
       ELSE IF without(x) >= pos THEN without(x) + 1 ELSE without(x)]]

PauseQ(q) == [q EXCEPT !.paused = TRUE, !.reviewed = FALSE]

\* resume: releases what recovery held, if its stored form can run as it is.
ResumeQ(q) ==
  LET released == {id \in Ids : /\ q.status[id] = "blocked" /\ q.recovered[id]
                                /\ ~q.requiresEdit[id]
                                /\ q.form[id] \notin {"redacted", "inline"}}
  IN [q EXCEPT
       !.paused = FALSE, !.reviewed = TRUE,
       !.status = [id \in Ids |-> IF id \in released THEN "queued" ELSE q.status[id]],
       !.recovered = [id \in Ids |-> q.recovered[id] /\ id \notin released]]

\* Mutant: retry without the check of the working directory.
CanRetry_AnyDirectory(q, id, acknowledge) ==
  /\ q.status[id] \in {"blocked", "failed", "cancelled", "execution-uncertain"}
  /\ q.status[id] = "execution-uncertain" => acknowledge

\* retry: an input whose unsanitized text is gone waits for an edit instead.
CanRetry(q, id, acknowledge) ==
  /\ q.status[id] \in {"blocked", "failed", "cancelled", "execution-uncertain"}
  /\ ~q.requiresEdit[id]
  /\ q.status[id] = "execution-uncertain" => acknowledge

RetryQ(q, id) ==
  [q EXCEPT
    !.status = [q.status EXCEPT ![id] =
                  IF q.form[id] = "redacted" /\ id \notin raw THEN "blocked" ELSE "queued"],
    !.recovered = [q.recovered EXCEPT ![id] = FALSE]]

\* Mutant: clearing that keeps the epoch, so cleared ids are acceptable again.
ClearQ_SameEpoch(q) ==
  LET kept == Pending(q)
  IN [q EXCEPT
       !.status = [id \in Ids |-> IF id \in kept THEN q.status[id] ELSE "absent"],
       !.place  = [id \in Ids |-> IF id \in kept
                     THEN Cardinality({x \in kept : q.place[x] <= q.place[id]}) ELSE 0]]

ClearQ(q) ==
  LET kept == Pending(q)
  IN [q EXCEPT
       !.epoch     = q.epoch + 1,
       !.status    = [id \in Ids |-> IF id \in kept THEN q.status[id] ELSE "absent"],
       !.place     = [id \in Ids |-> IF id \in kept
                        THEN Cardinality({x \in kept : q.place[x] <= q.place[id]}) ELSE 0],
       !.recovered = [id \in Ids |-> id \in kept /\ q.recovered[id]],
       !.requiresEdit = [id \in Ids |-> id \in kept /\ q.requiresEdit[id]]]

HoldQ(q) ==
  LET held == {id \in Ids : q.status[id] \in Mutable}
  IN [q EXCEPT
       !.paused       = TRUE,
       !.reviewed     = FALSE,
       !.requiresEdit = [id \in Ids |-> q.status[id] # "absent"],
       !.status       = [id \in Ids |-> IF id \in held THEN "blocked" ELSE q.status[id]],
       !.recovered    = [id \in Ids |-> q.recovered[id] /\ id \notin held]]

AdmitQ(q, id) == [q EXCEPT !.status = [q.status EXCEPT ![id] = "admitted"], !.reviewed = FALSE]
SetStatus(q, id, status) == [q EXCEPT !.status = [q.status EXCEPT ![id] = status]]

\* #validatedInput: "file" inputs pass only if the file is unchanged.
InputReady(q, r, id, unchanged) ==
  /\ q.form[id] \in {"redacted", "inline"} => id \in r
  /\ q.form[id] = "file" => unchanged

\* #pruneRaw: forgets what is neither pending nor in the prompt history.
PruneRaw(q, r) == r \cap (Pending(q) \cup q.history)

----------------------------------------------------------------------------
Init ==
  /\ queue = [epoch |-> 1, paused |-> FALSE, reviewed |-> FALSE, history |-> {},
              status |-> [id \in Ids |-> "absent"],
              place |-> [id \in Ids |-> 0],
              intent |-> [id \in Ids |-> "follow-up"],
              form |-> [id \in Ids |-> "plain"],
              recovered |-> [id \in Ids |-> FALSE],
              requiresEdit |-> [id \in Ids |-> FALSE]]
  /\ raw = {}
  /\ live = TRUE
  /\ minted = [id \in Ids |-> 0]
  /\ accepted = [id \in Ids |-> 0]
  /\ granted = {}

\* Raw text lives in the process that took the input: a command line that edits
\* an inactive session exits at once.
Keep(id) == raw' = IF live THEN raw \cup {id} ELSE {}

NewSubmissionId(id) ==
  /\ minted[id] = 0
  /\ minted' = [minted EXCEPT ![id] = queue.epoch]
  /\ UNCHANGED <<queue, raw, live, accepted, granted>>

\* A repeated submission of a known id only reads its status: no step.
Submit(id, intent, form) ==
  /\ minted[id] # 0
  /\ CanSubmit(queue, id)
  /\ queue' = SubmitQ(queue, id, intent, form)
  /\ Keep(id)
  /\ accepted' = [accepted EXCEPT ![id] = @ + 1]
  /\ granted' = granted \cup {id}
  /\ UNCHANGED <<live, minted>>

Edit(id, intent, form) ==
  /\ queue.status[id] \in Mutable
  /\ queue' = EditQ(queue, id, intent, form)
  /\ Keep(id)
  /\ granted' = granted \cup {id}
  /\ UNCHANGED <<live, minted, accepted>>

Move(id, pos) ==
  /\ queue.status[id] \in Mutable
  /\ pos \in 1..Cardinality(Present(queue))
  /\ queue' = MoveQ(queue, id, pos)
  /\ UNCHANGED <<raw, live, minted, accepted, granted>>

Remove(id) ==
  /\ id \in Present(queue)
  /\ queue.status[id] \notin {"admitted", "running"}
  /\ queue' = SetStatus(queue, id, "cancelled")
  /\ raw' = raw \ {id}
  /\ UNCHANGED <<live, minted, accepted, granted>>

Retry(id, acknowledge) ==
  /\ CanRetry(queue, id, acknowledge)
  /\ queue' = RetryQ(queue, id)
  /\ granted' = granted \cup {id}
  /\ UNCHANGED <<raw, live, minted, accepted>>

Pause ==
  /\ ~queue.paused \/ queue.reviewed
  /\ queue' = PauseQ(queue)
  /\ UNCHANGED <<raw, live, minted, accepted, granted>>

\* The command line resumes an inactive session through its recovery.
Resume ==
  /\ queue' = IF live THEN ResumeQ(queue) ELSE ResumeQ(RecoverQ(queue))
  /\ UNCHANGED <<raw, live, minted, accepted, granted>>

ClearCompleted ==
  /\ queue.epoch < MaxEpoch
  /\ queue' = ClearQ(queue)
  /\ raw' = PruneRaw(queue', raw)
  /\ UNCHANGED <<live, minted, accepted, granted>>

ClearHistory ==
  /\ queue' = [queue EXCEPT !.history = {}]
  /\ raw' = PruneRaw(queue', raw)
  /\ UNCHANGED <<live, minted, accepted, granted>>

HoldForDirectoryChange ==
  /\ live
  /\ queue' = HoldQ(queue)
  /\ raw' = {}
  /\ UNCHANGED <<live, minted, accepted, granted>>

\* allowPaused is set by send, which admits the input it has just submitted.
Admit(id, allowPaused) ==
  /\ live
  /\ queue.status[id] = "queued"
  /\ queue.paused => allowPaused
  /\ \E unchanged \in BOOLEAN : InputReady(queue, raw, id, unchanged)
  /\ queue' = AdmitQ(queue, id)
  /\ UNCHANGED <<raw, live, minted, accepted, granted>>

Running(id) ==
  /\ live
  /\ queue.status[id] = "admitted"
  /\ queue' = SetStatus(queue, id, "running")
  /\ granted' = granted \ {id}
  /\ UNCHANGED <<raw, live, minted, accepted>>

\* #transition does not look at the status it replaces.
Finish(id, status) ==
  /\ live
  /\ id \in Present(queue)
  /\ queue' = SetStatus(queue, id, status)
  /\ raw' = IF status \in Terminal THEN PruneRaw(queue', raw) ELSE raw
  /\ UNCHANGED <<live, minted, accepted, granted>>

\* The process dies, or exits after its runner stopped (stop pauses the queue).
Crash == /\ live
         /\ live' = FALSE /\ raw' = {}
         /\ UNCHANGED <<queue, minted, accepted, granted>>

Reopen == /\ ~live
          /\ live' = TRUE
          /\ queue' = RecoverQ(queue)
          /\ UNCHANGED <<raw, minted, accepted, granted>>

Users ==
  \/ \E id \in Ids : \/ NewSubmissionId(id)
                     \/ \E intent \in Intents, form \in Forms : Submit(id, intent, form)
                     \/ \E intent \in Intents, form \in Forms : Edit(id, intent, form)
                     \/ \E pos \in 1..Cardinality(Ids) : Move(id, pos)
                     \/ Remove(id)
                     \/ \E acknowledge \in BOOLEAN : Retry(id, acknowledge)
  \/ Pause \/ Resume \/ ClearCompleted \/ ClearHistory \/ HoldForDirectoryChange

Engines ==
  \E id \in Ids : \/ \E allowPaused \in BOOLEAN : Admit(id, allowPaused)
                  \/ Running(id)
                  \/ \E status \in Terminal \cup {"blocked", "execution-uncertain"} :
                        Finish(id, status)

Next == Users \/ Engines \/ Crash \/ Reopen

Spec == Init /\ [][Next]_qvars
----------------------------------------------------------------------------
(* Properties.                                                              *)

\* Every field has its type, and the present inputs occupy the places 1..n of
\* the list, each its own: submit, move and clear keep data.items a list.
Record == [epoch : 1..MaxEpoch, paused : BOOLEAN, reviewed : BOOLEAN,
           history : SUBSET Ids, status : [Ids -> Statuses \cup {"absent"}],
           place : [Ids -> Nat], intent : [Ids -> IntentSet], form : [Ids -> FormSet],
           recovered : [Ids -> BOOLEAN], requiresEdit : [Ids -> BOOLEAN]]
TypeOK ==
  /\ queue \in Record
  /\ raw \subseteq Ids
  /\ live \in BOOLEAN
  /\ minted \in [Ids -> 0..MaxEpoch]
  /\ accepted \in [Ids -> Nat]
  /\ granted \subseteq Ids
ListOrder ==
  /\ \A id \in Ids : (queue.place[id] = 0) <=> (queue.status[id] = "absent")
  /\ {queue.place[id] : id \in Present(queue)} = 1..Cardinality(Present(queue))

\* A submission id is acknowledged as a new input at most once, whatever mix of
\* repeated submissions, clearing of finished inputs and restarts: the item
\* answers for its id until it is cleared, the epoch from then on.
AcceptedOnce == \A id \in Ids : accepted[id] <= 1

\* An input starts running only on a request of the user made since it last
\* started (or made in this very step, by send): recovery, resume, moves, failed
\* admissions and finished turns never make the queue run it again by themselves.
NoSilentReplay ==
  [][\A id \in Ids : queue.status[id] # "running" /\ queue'.status[id] = "running"
                        => id \in granted \/ accepted'[id] # accepted[id]]_qvars

\* An input taken before the working directory changed is not in line to run
\* until it is edited, whatever retries and resumes come between.
StaleDirectoryHeld == \A id \in Ids : queue.requiresEdit[id] => queue.status[id] # "queued"

\* Of DESIGN-M5B: at most MaxPending inputs are unfinished at a time.
PendingBounded == Cardinality(Pending(queue)) <= MaxPending
=============================================================================
