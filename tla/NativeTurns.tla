---------------------------- MODULE NativeTurns ----------------------------
(***************************************************************************)
(* Turns of the native engine: #sendObserved, interrupt, #inputOperation   *)
(* and close of engines/codesplash/engine.ts over the durable input queue  *)
(* of InputQueue and the runner of core/session/queue-runner.ts.  The loop *)
(* that runs a turn is ToolTurn; here a turn takes steering for as long as *)
(* it runs and ends, at once or some time after it was interrupted.        *)
(*                                                                         *)
(* A step is what runs from one await to the next.  The microtasks of      *)
(* settled promises run before anything new comes in.                      *)
(*                                                                         *)
(* What else excludes turns is an operation of one of three kinds, by the  *)
(* promise it leaves for #interruptAndSettle to wait for: "input", of      *)
(* #inputOperation; "compaction", of compact, in the place of a turn's;    *)
(* "reservation", of inspectContext and editPermissionRule, none.          *)
(***************************************************************************)
EXTENDS InputQueue

CONSTANTS
  NoInput,
  Operations,  \* kinds of this instance, of "input" "compaction" "reservation"
  MaxAsks  \* bound of the model: what the user asks besides new inputs

ASSUME EngineShape ==
  /\ NoInput \notin Ids /\ MaxAsks \in Nat
  /\ Operations \subseteq {"input", "compaction", "reservation"}

VARIABLES
  engine,    \* the engine and its runner
  recorded,  \* history: inputs whose last turn completed and was recorded
  asks

nativeVars == <<qvars, engine, recorded, asks>>

Callers == {"runner", "user", "close"}
NoSend == [at |-> "none", item |-> NoInput, owned |-> FALSE, aborted |-> FALSE]
NoPump == [at |-> "none", item |-> NoInput, result |-> "none"]

\* waits: how far each caller of #interruptAndSettle, or close, has come in the
\* promises it awaits; rejected: the input of a turn whose promise is rejected,
\* until the handler has run.
NativeInit ==
  /\ Init
  /\ engine = [send |-> NoSend, last |-> "completed", steering |-> {}, rejected |-> NoInput,
               operation |-> "none", waits |-> [caller \in Callers |-> "no"],
               halted |-> FALSE, closed |-> FALSE, scheduled |-> FALSE, pump |-> NoPump]
  /\ recorded = {} /\ asks = 0

----------------------------------------------------------------------------
(* The machine: a record of the queue and the engine.                       *)

Now == [q |-> queue, e |-> engine]
Busy(m) == m.e.send.at # "none" \/ m.e.operation # "none"
Interrupting(m) == m.e.waits["runner"] # "no"
Open(m) == m.e.waits["close"] = "no"

\* wake, and the notification of the runner by every change of the queue.
Wake(m) == [m EXCEPT !.e.scheduled = @ \/ ~m.e.closed]
Commit(m, q2) == Wake([m EXCEPT !.q = q2])

\* The synchronous part of #sendObserved; a queued input was admitted before.
Send(m, id, owned) ==
  [m EXCEPT !.e.send = [at |-> "admission", item |-> id, owned |-> owned, aborted |-> FALSE],
            !.e.last = "completed"]

\* The promise that the pump awaits is settled.
Returns(m, result) ==
  IF m.e.send.owned THEN m ELSE [m EXCEPT !.e.pump.at = "returns", !.e.pump.result = result]
Over(m) == Wake([m EXCEPT !.e.send = NoSend])

\* The catch and the finally of #sendObserved before the turn has started.
Refuse(m) ==
  LET send == m.e.send
      q1 == IF send.owned
            THEN SetStatus(m.q, send.item, IF send.aborted THEN "cancelled" ELSE "blocked")
            ELSE m.q
  IN Over(Returns(Commit(m, PauseQ(q1)), "error"))

\* The turn is recorded: its steering, and the input of a send, are finished.
\* Mutant: steering that the turn took is left to it.
Settle_OwnOnly(m) ==
  LET q1 == IF m.e.send.owned THEN SetStatus(m.q, m.e.send.item, m.e.last) ELSE m.q
  IN Over(Returns([Commit(m, IF m.e.last = "failed" THEN PauseQ(q1) ELSE q1)
                     EXCEPT !.e.steering = {}], m.e.last))
Settle(m) ==
  LET ends == m.e.steering \cup (IF m.e.send.owned THEN {m.e.send.item} ELSE {})
      q1 == [m.q EXCEPT !.status = [id \in Ids |-> IF id \in ends THEN m.e.last
                                                   ELSE m.q.status[id]]]
  IN Over(Returns([Commit(m, IF m.e.last = "failed" THEN PauseQ(q1) ELSE q1)
                     EXCEPT !.e.steering = {}], m.e.last))

\* It is not: the finally of the turn runs, the handler of its rejection follows.
Reject(m) == Over(Returns([m EXCEPT !.e.rejected = m.e.send.item], "error"))

\* The signals of #interruptAndSettle, which then awaits promises one by one.
\* Mutant: an admission is aborted, a turn is not.
Interrupt_AdmissionOnly(m, caller) ==
  [m EXCEPT !.e.send.aborted = @ \/ m.e.send.at = "admission",
            !.e.waits[caller] = "admission"]
Interrupt(m, caller) ==
  [m EXCEPT !.e.send.aborted = @ \/ m.e.send.at \in {"admission", "turn"},
            !.e.waits[caller] = "admission"]

\* #dispatch from the head of its loop to the next await.
Selected(q) == IF NextInput(q, {"interject"}) # {} THEN NextInput(q, {"interject"})
               ELSE NextInput(q, IntentSet)
AdmitAndRun(m, id) == Commit(m, SetStatus(AdmitQ(m.q, id), id, "running"))
BlockAndPause(m, id) == Commit(m, PauseQ(SetStatus(m.q, id, "blocked")))
Dispatch(m, unchanged) ==
  IF m.e.closed \/ Interrupting(m) \/ Busy(m) \/ Selected(m.q) = {}
  THEN [m EXCEPT !.e.pump = [NoPump EXCEPT !.at = "ended"]]
  ELSE LET id == CHOOSE id \in Selected(m.q) : TRUE
       IN IF InputReady(m.q, raw, id, unchanged)
          THEN [Send(AdmitAndRun(m, id), id, FALSE)
                  EXCEPT !.e.pump = [NoPump EXCEPT !.at = "run", !.item = id]]
          ELSE [BlockAndPause(m, id) EXCEPT !.e.pump = [NoPump EXCEPT !.at = "ended"]]

\* The machine moves to m: inputs that begin to run use up their grant and are
\* not recorded yet, finished ones may lose their raw text.
Becomes(m) ==
  LET begun == {id \in Ids : m.q.status[id] = "running" /\ queue.status[id] # "running"} IN
  /\ queue' = m.q /\ engine' = m.e
  /\ granted' = granted \ begun
  /\ raw' = PruneRaw(m.q, raw)
  /\ recorded' = recorded \ begun
  /\ UNCHANGED <<live, minted, accepted, asks>>

----------------------------------------------------------------------------
(* Microtasks.                                                              *)

\* What wake scheduled.  The field #interjected is set and cleared together
\* with #interrupting, which therefore says as much.
RunnerWakes ==
  /\ engine.scheduled
  /\ LET m == [Now EXCEPT !.e.scheduled = FALSE]
     IN IF engine.closed \/ queue.paused THEN Becomes(m)
        ELSE IF ~Busy(m)
        THEN IF engine.pump.at = "none" /\ ~Interrupting(m)
             THEN \E unchanged \in BOOLEAN : Becomes(Dispatch(m, unchanged))
             ELSE Becomes(m)
        ELSE IF NextInput(queue, {"interject"}) # {} /\ ~Interrupting(m)
        THEN Becomes(Interrupt(m, "runner"))
        ELSE Becomes(m)

\* The handler of a turn that could not be recorded halts the runner.
HandleRejection ==
  /\ engine.rejected # NoInput
  /\ LET ends == engine.steering \cup {engine.rejected}
         q1 == [queue EXCEPT !.status = [id \in Ids |-> IF id \in ends THEN "execution-uncertain"
                                                        ELSE queue.status[id]]]
     IN Becomes([Commit(Now, PauseQ(q1)) EXCEPT
          !.e.steering = {}, !.e.rejected = NoInput, !.e.closed = TRUE, !.e.halted = TRUE])

\* The pump has the result of the input it sent, and looks for the next one.
PumpReturns ==
  /\ engine.pump.at = "returns" /\ engine.rejected = NoInput
  /\ LET id == engine.pump.item
         result == engine.pump.result
         status == IF result # "error" THEN result
                   ELSE IF queue.status[id] = "execution-uncertain" THEN "execution-uncertain"
                   ELSE "failed"
         q1 == SetStatus(queue, id, status)
         m == Commit(Now, IF result \in {"error", "failed"} THEN PauseQ(q1) ELSE q1)
     IN \E unchanged \in BOOLEAN : Becomes(Dispatch(m, unchanged))

PumpEnds ==
  /\ engine.pump.at = "ended"
  /\ LET m == [Now EXCEPT !.e.pump = NoPump]
     IN Becomes(IF ~engine.closed /\ NextInput(queue, IntentSet) # {} /\ ~Busy(m)
                THEN Wake(m) ELSE m)

\* Where the callers of #interruptAndSettle find the promise of an operation.
AwaitedAt(operation) ==
  CASE operation = "input" -> "input"
    [] operation = "compaction" -> "turn"
    [] OTHER -> "nowhere"

\* The promise that a caller awaits is settled, or there is none: admission,
\* the turn, whose rejection is handled first, the operation, and for close the
\* runner's own.
WaitOver(caller) ==
  LET stage == engine.waits[caller] IN
  /\ AwaitedAt(engine.operation) # stage
  /\ \/ stage = "admission" /\ engine.send.at # "admission"
     \/ stage = "turn" /\ engine.send.at \notin {"turn", "persist"} /\ engine.rejected = NoInput
     \/ stage = "input"
     \/ stage = "runner" /\ ~Interrupting(Now) /\ engine.pump.at = "none"
After(caller, stage) ==
  CASE stage = "admission" -> "turn"
    [] stage = "turn" -> "input"
    [] stage = "input" -> IF caller = "close" THEN "runner" ELSE "no"
    [] stage = "runner" -> "ended"
\* Mutant: the runner does not look again after its interruption.
Proceeds_Quietly(caller) ==
  /\ WaitOver(caller)
  /\ Becomes([Now EXCEPT !.e.waits[caller] = After(caller, engine.waits[caller])])
Proceeds(caller) ==
  /\ WaitOver(caller)
  /\ LET next == After(caller, engine.waits[caller])
         m == [Now EXCEPT !.e.waits[caller] = next]
     IN Becomes(IF caller = "runner" /\ next = "no" THEN Wake(m) ELSE m)

Microtask ==
  \/ RunnerWakes \/ HandleRejection \/ PumpReturns \/ PumpEnds
  \/ \E caller \in Callers : Proceeds(caller)
MicrotaskPending ==
  \/ engine.scheduled \/ engine.rejected # NoInput
  \/ engine.pump.at \in {"returns", "ended"}
  \/ \E caller \in Callers : WaitOver(caller)

----------------------------------------------------------------------------
(* The turn.                                                                *)

\* Learning is cancelled and the prompt built; then the turn starts, unless the
\* input was interrupted, the session closed, or something failed.
AdmissionEnds ==
  /\ engine.send.at = "admission"
  /\ \/ Becomes(Refuse(Now))
     \/ ~engine.send.aborted /\ Open(Now) /\ Becomes([Now EXCEPT !.e.send.at = "turn"])

\* takeSteering.
TakeSteering ==
  /\ engine.send.at = "turn"
  /\ \E id \in NextInput(queue, {"steering"}), unchanged \in BOOLEAN :
       IF InputReady(queue, raw, id, unchanged)
       THEN Becomes([AdmitAndRun(Now, id) EXCEPT !.e.steering = @ \cup {id}])
       ELSE Becomes(BlockAndPause(Now, id))

TurnOver(status) ==
  /\ engine.send.at = "turn"
  /\ status = "cancelled" => engine.send.aborted
  /\ Becomes([Now EXCEPT !.e.send.at = "persist", !.e.last = status])

\* The transcript is written and the boundary captured, or that fails.
\* Mutant: a transcript that could not be written is passed over.
PersistFails_Ignored ==
  /\ engine.send.at = "persist"
  /\ Becomes(Settle(Now))
PersistFails ==
  /\ engine.send.at = "persist"
  /\ Becomes(Reject(Now))
Persisted ==
  /\ engine.send.at = "persist"
  /\ LET m == Settle(Now) IN
     /\ queue' = m.q /\ engine' = m.e /\ raw' = PruneRaw(m.q, raw)
     /\ recorded' = IF engine.last = "completed"
                    THEN recorded \cup engine.steering \cup {engine.send.item} ELSE recorded
     /\ UNCHANGED <<live, minted, accepted, granted, asks>>

OperationEnds ==
  /\ engine.operation # "none"
  /\ Becomes(Wake([Now EXCEPT !.e.operation = "none"]))

----------------------------------------------------------------------------
(* The user.                                                                *)

New(id) == minted[id] = 0 /\ Cardinality(Pending(queue)) < MaxPending
Mints(id) ==
  /\ minted' = [minted EXCEPT ![id] = queue.epoch]
  /\ accepted' = [accepted EXCEPT ![id] = @ + 1]
  /\ UNCHANGED <<live, asks>>

UserSubmits(id, intent, form) ==
  /\ New(id) /\ ~engine.halted /\ Open(Now)
  /\ LET m == Commit(Now, SubmitQ(queue, id, intent, form))
     IN queue' = m.q /\ engine' = m.e
  /\ raw' = raw \cup {id} /\ granted' = granted \cup {id} /\ recorded' = recorded
  /\ Mints(id)

\* send submits its input and runs it at once, paused or not.
UserSends(id, form) ==
  /\ New(id) /\ ~engine.halted /\ Open(Now) /\ ~Busy(Now)
  /\ LET m == Commit(Now, SubmitQ(queue, id, "follow-up", form))
     IN \E unchanged \in BOOLEAN :
          LET n == IF InputReady(m.q, raw \cup {id}, id, unchanged)
                   THEN Send(AdmitAndRun(m, id), id, TRUE) ELSE BlockAndPause(m, id)
          IN queue' = n.q /\ engine' = n.e
  /\ raw' = raw \cup {id} /\ granted' = granted /\ recorded' = recorded
  /\ Mints(id)

Asks == asks < MaxAsks /\ asks' = asks + 1

UserEditsQueue ==
  /\ Open(Now)
  /\ Pause \/ Resume \/ \E id \in Ids : Remove(id) \/ Retry(id, TRUE)
  /\ engine' = Wake(Now).e /\ recorded' = recorded
  /\ Asks

\* interrupt pauses the queue first.
UserInterrupts ==
  /\ Open(Now) /\ engine.waits["user"] = "no"
  /\ LET m == Interrupt(Commit(Now, PauseQ(queue)), "user")
     IN queue' = m.q /\ engine' = m.e
  /\ UNCHANGED <<raw, live, minted, accepted, granted, recorded>>
  /\ Asks

\* Discovery, compaction, an inspection and the like exclude turns.
OperationBegins ==
  /\ Open(Now) /\ ~Busy(Now)
  /\ \E kind \in Operations : engine' = [engine EXCEPT !.operation = kind]
  /\ UNCHANGED <<qvars, recorded>>
  /\ Asks

\* close stops the runner, which pauses the queue, then interrupts and waits.
CloseBegins ==
  /\ Open(Now)
  /\ LET stopped == [Now EXCEPT !.e.closed = TRUE,
                                !.q = IF engine.closed THEN @ ELSE PauseQ(@)]
         m == Interrupt(stopped, "close")
     IN queue' = m.q /\ engine' = m.e
  /\ UNCHANGED <<raw, live, minted, accepted, granted, recorded>>
  /\ Asks

TurnProgress ==
  \/ AdmissionEnds \/ Persisted \/ PersistFails \/ OperationEnds
  \/ engine.send.aborted /\ \E status \in Terminal : TurnOver(status)

NativeAtRest ==
  /\ ~Busy(Now) /\ engine.waits["user"] = "no" /\ engine.waits["close"] \in {"no", "ended"}
  /\ UNCHANGED nativeVars

NativeNext ==
  \/ Microtask
  \/ /\ ~MicrotaskPending
     /\ \/ TurnProgress \/ TakeSteering \/ (\E status \in Terminal : TurnOver(status))
        \/ \E id \in Ids, form \in Forms :
             UserSends(id, form) \/ \E intent \in Intents : UserSubmits(id, intent, form)
        \/ UserEditsQueue \/ UserInterrupts \/ OperationBegins \/ CloseBegins
        \/ NativeAtRest

\* The thread keeps running.  Building a prompt, writing the transcript and
\* operations come to an end; a turn does once it is interrupted, as ToolTurn
\* shows, and otherwise may never.
NativeFairness ==
  /\ WF_nativeVars(Microtask)
  /\ WF_nativeVars(~MicrotaskPending /\ TurnProgress)

NativeSpec == NativeInit /\ [][NativeNext]_nativeVars /\ NativeFairness

----------------------------------------------------------------------------
\* An input that the record shows as under way is under way: it is that of the
\* turn or its steering, or the pump or the handler of a rejected turn is about
\* to give it its status.  Once close has returned there is none.
UnderWay(id) ==
  \/ id = engine.send.item \/ id = engine.rejected \/ id \in engine.steering
  \/ id = engine.pump.item
NativeNoOrphan ==
  \A id \in Ids : queue.status[id] \in {"admitted", "running"} =>
    UnderWay(id) /\ engine.waits["close"] # "ended"

\* Only an input whose turn completed and was recorded is called completed: not
\* one of a turn that was interrupted, failed or could not be written, nor one
\* that another turn's result was mistaken for.
CompletedIsRecorded ==
  \A id \in Ids : queue.status[id] = "completed" => id \in recorded

\* interrupt and close return, whatever they meet on the way.
CallersReturn ==
  /\ engine.waits["user"] # "no" ~> engine.waits["user"] = "no"
  /\ engine.waits["close"] # "no" ~> engine.waits["close"] = "ended"

\* An interjection does not wait for ever: the turn or the admission that it
\* finds is interrupted and it starts, or the queue is paused or the runner
\* stopped, which the session reports.
InterjectionStarts ==
  NextInput(queue, {"interject"}) # {} /\ ~engine.closed
    ~> NextInput(queue, {"interject"}) = {} \/ engine.closed
=============================================================================
