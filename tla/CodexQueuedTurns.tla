-------------------------- MODULE CodexQueuedTurns --------------------------
(***************************************************************************)
(* How a Codex session runs its input queue: the serial dispatcher of      *)
(* core/session/queue-runner.ts, the turn reservation, steering and        *)
(* interruption of engines/codex/queued-turns.ts, the parts of             *)
(* engines/codex/driver.ts that drive them, and the app-server as those    *)
(* files use it.                                                           *)
(*                                                                         *)
(* The session is one JavaScript thread.  Code runs without interruption   *)
(* up to the next await, so an action is one such run, however many        *)
(* methods it calls: the operators below take a machine state m, made of   *)
(* the durable record m.q and the memory of the process m.p, and return    *)
(* the next one, and a handler is their composition.                       *)
(***************************************************************************)
EXTENDS InputQueue

CONSTANTS
  None,        \* no input
  MaxTurns,    \* bound of the model: turns a process may start
  MaxAsks,     \* bound of the model: interrupts and exports the user asks for
  MaxCrashes,  \* bound of the model: times a process ends and is started again
  Surroundings,  \* sets of what users and surroundings do: one for each behaviour
  Drains       \* whether a macrotask waits until no microtask is left

ASSUME Bounds == MaxTurns \in Nat /\ MaxAsks \in Nat /\ MaxCrashes \in Nat /\ Drains \in BOOLEAN
ASSUME NoneIsNoInput == None \notin Ids

Turns == 1..MaxTurns

VARIABLES
  proc,      \* the memory of the process: runner, turns and driver
  provider,  \* the app-server's view of each turn/start request
  due,       \* its notifications on their way
  crashes,
  ops        \* of Surroundings, fixed in a behaviour: intents and forms of inputs, and requests

tvars == <<proc, provider, due, crashes, ops>>
vars == <<qvars, tvars>>

Errors == {"remote-error", "uncertain", "halted"}
Results == Terminal \cup Errors

\* An Active of queued-turns.ts; turn n is the one whose provider id is n, and
\* id is what the session believes that id to be, 0 while it does not know.
NoTurn == [item |-> None, owned |-> FALSE, id |-> 0, startDone |-> FALSE,
           startError |-> "none", terminal |-> "none", steers |-> {}, done |-> "none"]

Callers == {"user", "runner"}

NewProcess ==
  [closed |-> FALSE,                        \* runner.#closed
   scheduled |-> FALSE,                     \* runner.#scheduled
   pump |-> [stage |-> "none", item |-> None, turn |-> 0],  \* runner.#pump
   calls |-> [c \in Callers |-> [stage |-> "idle", turn |-> 0, item |-> None]],
                                            \* interrupt() in progress; the runner's is #interrupting
   turns |-> [n \in Turns |-> NoTurn],
   count |-> 0,                             \* turns reserved so far
   active |-> 0,                            \* turns.#active
   steering |-> [stage |-> "none", item |-> None],          \* turns.#steering
   failure |-> "none",                      \* turns.#failure
   recovery |-> FALSE,                      \* driver.#recoveryBusy
   asks |-> 0,                              \* history: interrupts and exports so far
   conn |-> "open",
   close |-> "no"]                          \* how far close() has come

\* Mutant: an uncertain end counts as a failure.
StatusOf_Certain(result) == IF result \in Errors THEN "failed" ELSE result

\* The status an input gets from the result of its turn.
StatusOf(result) == IF result = "uncertain" THEN "execution-uncertain"
                    ELSE IF result \in Errors THEN "failed" ELSE result

Now == [q |-> queue, p |-> proc]

Busy(m) == m.p.active # 0 \/ m.p.recovery
Interrupting(m) == m.p.calls["runner"].stage # "idle"

\* wake: at most one microtask is scheduled, none once the runner is closed.
Wake(m) == [m EXCEPT !.p.scheduled = @ \/ ~m.p.closed]

\* Every commit of the queue notifies the runner, which wakes.
Commit(m, q) == Wake([m EXCEPT !.q = q])

Stop(m) == IF m.p.closed THEN m ELSE [m EXCEPT !.p.closed = TRUE, !.q = PauseQ(m.q)]
Halt(m) == [m EXCEPT !.p.closed = TRUE, !.p.failure = "halted"]

\* Mutant: #settle that forgets the steers.
Settle_ForgetsSteers(m, n) ==
  LET turn == m.p.turns[n]
      q1   == IF turn.owned THEN SetStatus(m.q, turn.item, StatusOf(turn.terminal)) ELSE m.q
      q2   == IF turn.terminal \in Errors \cup {"failed"} THEN PauseQ(q1) ELSE q1
  IN IF \/ m.p.active # n \/ ~turn.startDone
        \/ turn.terminal = "none" \/ m.p.steering.stage # "none"
     THEN m
     ELSE Commit([m EXCEPT !.p.active = 0, !.p.turns[n].done = turn.terminal], q2)

\* #settle: once the start has answered, the end is known and no steering is in
\* flight, its steers (and the input of send) get the result.
Settle(m, n) ==
  LET turn  == m.p.turns[n]
      ended == turn.steers \cup (IF turn.owned THEN {turn.item} ELSE {})
      q1 == [m.q EXCEPT !.status = [id \in Ids |->
               IF id \in ended THEN StatusOf(turn.terminal) ELSE m.q.status[id]]]
      q2 == IF turn.terminal \in Errors \cup {"failed"} THEN PauseQ(q1) ELSE q1
  IN IF \/ m.p.active # n \/ ~turn.startDone
        \/ turn.terminal = "none" \/ m.p.steering.stage # "none"
     THEN m
     ELSE Commit([m EXCEPT !.p.active = 0,
                           !.p.turns[n].done = IF m.p.failure # "none" THEN m.p.failure
                                               ELSE turn.terminal], q2)

\* Mutant: disconnected() that does not settle the turn.
Disconnected_LeavesTurn(m) ==
  LET m1 == Stop([m EXCEPT !.p.failure = "uncertain"])
      n  == m.p.active
  IN IF n = 0 THEN m1 ELSE [m1 EXCEPT !.p.turns[n].terminal = "uncertain"]

\* disconnected: nothing is known of the active turn from here on.
Disconnected(m) ==
  LET m1 == Stop([m EXCEPT !.p.failure = "uncertain"])
      n  == m.p.active
  IN IF n = 0 THEN m1 ELSE Settle([m1 EXCEPT !.p.turns[n].terminal = "uncertain"], n)

\* #reserve and the synchronous part of #start, up to the request.
Reserve(m, id, owned) ==
  LET n == m.p.count + 1
  IN [m EXCEPT !.p.count = n, !.p.active = n,
               !.p.turns[n] = [NoTurn EXCEPT !.item = id, !.owned = owned]]

\* Mutant: the request goes out while the record says admitted.
AdmitAndRun_OnlyAdmits(m, id) == Commit(m, AdmitQ(m.q, id))

AdmitAndRun(m, id) == Commit(m, SetStatus(AdmitQ(m.q, id), id, "running"))

BlockAndPause(m, id) == Commit(m, PauseQ(SetStatus(m.q, id, "blocked")))

\* What #dispatch takes next: an interjection before anything else.
Selected(q) == IF NextInput(q, {"interject"}) # {} THEN NextInput(q, {"interject"})
               ELSE NextInput(q, IntentSet)

MayDispatch(m) == ~m.p.closed /\ ~Interrupting(m) /\ ~Busy(m)

\* #dispatch from the head of its loop to the next await.  An input that is not
\* ready pauses the queue, and a paused queue ends the loop.
Dispatch(m, unchanged) ==
  IF ~MayDispatch(m) \/ Selected(m.q) = {} THEN [m EXCEPT !.p.pump.stage = "ended"]
  ELSE LET id == CHOOSE id \in Selected(m.q) : TRUE
       IN IF InputReady(m.q, raw, id, unchanged)
          THEN [Reserve(AdmitAndRun(m, id), id, FALSE)
                 EXCEPT !.p.pump = [stage |-> "run", item |-> id, turn |-> m.p.count + 1]]
          ELSE [BlockAndPause(m, id) EXCEPT !.p.pump.stage = "ended"]

\* #pumpSteering up to its await.
PumpSteering(m, unchanged) ==
  LET next == NextInput(m.q, {"steering"})
      id   == CHOOSE id \in next : TRUE
      turn == m.p.turns[m.p.active]
  IN IF \/ m.p.steering.stage # "none" \/ m.p.close = "turns" \/ m.p.failure # "none"
        \/ m.p.active = 0 \/ next = {}
     THEN m
     ELSE IF ~turn.startDone \/ turn.terminal # "none" \/ turn.id = 0 THEN m
     ELSE IF InputReady(m.q, raw, id, unchanged)
     THEN [AdmitAndRun(m, id) EXCEPT !.p.steering = [stage |-> "rpc", item |-> id]]
     ELSE [BlockAndPause(m, id) EXCEPT !.p.steering = [stage |-> "finally", item |-> id]]

\* interrupt(pause) up to its first await; with no active turn it is over.
BeginInterrupt(m, caller, item) ==
  LET m1 == IF caller = "user" THEN Commit(m, PauseQ(m.q)) ELSE m
  IN [m1 EXCEPT !.p.calls[caller] =
        IF m.p.active # 0 THEN [stage |-> "starting", turn |-> m.p.active, item |-> item]
        ELSE [stage |-> IF caller = "user" THEN "idle" ELSE "finally", turn |-> 0, item |-> item]]

\* interrupt() throws: the runner blocks the interjection it was for.  If the
\* user has removed and cleared that input meanwhile, finish throws in turn.
ThrowInterrupt(m, caller) ==
  LET item == m.p.calls[caller].item
  IN IF caller = "user" THEN [m EXCEPT !.p.calls[caller].stage = "idle"]
     ELSE LET m1 == IF m.q.status[item] = "absent" THEN Halt(m) ELSE BlockAndPause(m, item)
          IN [m1 EXCEPT !.p.calls[caller].stage = "finally"]

\* Mutant: no wake-up after the interruption.
ReturnInterrupt_Quietly(m, caller) == [m EXCEPT !.p.calls[caller].stage = "idle"]

ReturnInterrupt(m, caller) ==
  [m EXCEPT !.p.calls[caller].stage = IF caller = "user" THEN "idle" ELSE "finally"]

----------------------------------------------------------------------------
(* Steps of the process.                                                    *)

\* The machine moves to m: inputs that begin to run use up their grant, finished
\* ones may lose their raw text, a reserved turn has sent its request.
Becomes(m) ==
  /\ live
  /\ queue' = m.q
  /\ proc' = m.p
  /\ granted' = granted \ {id \in Ids : m.q.status[id] = "running" /\ queue.status[id] # "running"}
  /\ raw' = PruneRaw(m.q, raw)
  /\ provider' = [n \in Turns |-> IF n = m.p.count /\ provider[n] = "idle" THEN "requested"
                                  ELSE provider[n]]
  /\ UNCHANGED <<live, minted, accepted, crashes, ops>>

\* An await whose promise has settled.
PumpReady == /\ proc.pump.stage = "run"
             /\ LET turn == proc.turns[proc.pump.turn]
                IN turn.startDone /\ (turn.startError # "none" \/ turn.done # "none")
CallReady(caller) ==
  LET call == proc.calls[caller] IN
  \/ call.stage = "starting" /\ proc.turns[call.turn].startDone
  \/ call.stage = "waiting" /\ proc.turns[call.turn].done # "none"
  \/ call.stage = "finally"

MicrotaskPending == \/ proc.scheduled \/ PumpReady \/ proc.pump.stage = "ended"
                    \/ proc.steering.stage = "finally"
                    \/ \E caller \in Callers : CallReady(caller)

\* Input, output, timers and the user come in macrotasks.  JSON-RPC lines of one
\* chunk, and code awaiting the session, can come between microtasks: they are
\* not kept apart unless Drains says so.
Macrotask == live /\ (Drains => ~MicrotaskPending)

\* The microtask that wake() schedules.
RunnerWakes ==
  /\ proc.scheduled
  /\ LET m == [Now EXCEPT !.p.scheduled = FALSE]
         interject == NextInput(queue, {"interject"})
     IN IF proc.closed \/ queue.paused THEN Becomes(m)
        ELSE IF ~Busy(m)
        THEN IF proc.pump.stage = "none" /\ ~Interrupting(m)
             THEN \E unchanged \in BOOLEAN : Becomes(Dispatch(m, unchanged))
             ELSE Becomes(m)
        ELSE IF interject = {} THEN \E unchanged \in BOOLEAN : Becomes(PumpSteering(m, unchanged))
        ELSE IF Interrupting(m) THEN Becomes(m)
        ELSE \E id \in interject : Becomes(BeginInterrupt(m, "runner", id))
  /\ UNCHANGED due

\* The result of the dispatched turn; its input gets the status, then the loop goes on.
FinishDispatched(m) ==
  LET turn   == proc.turns[proc.pump.turn]
      result == IF turn.startError # "none" THEN turn.startError ELSE turn.done
      id     == proc.pump.item
      status == IF result \in Errors /\ queue.status[id] = "execution-uncertain"
                THEN "execution-uncertain" ELSE StatusOf(result)
  IN [finished |-> SetStatus(m.q, id, status), pauses |-> result \in Errors \cup {"failed"}]

PumpResumes ==
  /\ PumpReady
  /\ LET end == FinishDispatched(Now)
         m == Commit(Now, IF end.pauses THEN PauseQ(end.finished) ELSE end.finished)
     IN \E unchanged \in BOOLEAN : Becomes(Dispatch(m, unchanged))
  /\ UNCHANGED due

\* Mutant: the pump ends without looking at the queue again.
PumpEnds_Quietly ==
  /\ proc.pump.stage = "ended"
  /\ Becomes([Now EXCEPT !.p.pump = NewProcess.pump])
  /\ UNCHANGED due

PumpEnds ==
  /\ proc.pump.stage = "ended"
  /\ LET m == [Now EXCEPT !.p.pump = NewProcess.pump]
     IN Becomes(IF ~m.p.closed /\ NextInput(m.q, IntentSet) # {} /\ ~Busy(m) THEN Wake(m) ELSE m)
  /\ UNCHANGED due

SteeringEnds ==
  /\ proc.steering.stage = "finally"
  /\ LET m == [Now EXCEPT !.p.steering = NewProcess.steering]
     IN Becomes(Wake(IF proc.active = 0 THEN m ELSE Settle(m, proc.active)))
  /\ UNCHANGED due

\* interrupt() after one of its awaits, or the runner's finally.
InterruptResumes(caller) ==
  /\ CallReady(caller)
  /\ LET call == proc.calls[caller]
         turn == proc.turns[call.turn]
     IN CASE call.stage = "starting" ->
               Becomes([Now EXCEPT !.p.calls[caller].stage =
                          IF turn.terminal = "none" /\ turn.id # 0 THEN "rpc" ELSE "waiting"])
          [] call.stage = "waiting" ->
               Becomes(IF turn.done \in Errors THEN ThrowInterrupt(Now, caller)
                       ELSE ReturnInterrupt(Now, caller))
          [] call.stage = "finally" ->
               Becomes(Wake([Now EXCEPT !.p.calls[caller] = NewProcess.calls[caller]]))
  /\ UNCHANGED due

Microtask == \/ RunnerWakes \/ PumpResumes \/ PumpEnds \/ SteeringEnds
             \/ \E caller \in Callers : InterruptResumes(caller)

----------------------------------------------------------------------------
(* The app-server, as the session sees it through JSON-RPC.                 *)

Connected == live /\ proc.conn = "open"

\* A start request that was answered with an error is never taken up later.
Refused(n) == proc.turns[n].startError = "remote-error"

\* It takes a start request, says so, and later ends the turn, in its own time.
ProviderStarts(n) ==
  /\ Connected /\ provider[n] = "requested" /\ ~Refused(n)
  /\ provider' = [provider EXCEPT ![n] = "running"]
  /\ due' = due \cup {<<"started", n>>}
  /\ UNCHANGED <<qvars, proc, crashes, ops>>

ProviderEnds(n, status) ==
  /\ Connected /\ provider[n] = "running"
  /\ provider' = [provider EXCEPT ![n] = status]
  /\ due' = due \cup {<<"completed", n>>}
  /\ UNCHANGED <<qvars, proc, crashes, ops>>

\* The outcome of a request: its response, an error the provider answers, or no
\* answer at all (the 30 s timeout, or the connection closed).
Unanswered == "uncertain"
Answers == {"ok", "remote-error", Unanswered}
CanAnswer(answer) == answer # Unanswered => Connected

\* Mutant: the response is not compared with the announced turn id.
StartAnswered_AnyTurn(n, answer) ==
  LET turn  == proc.turns[n]
      error == IF answer # "ok" THEN answer ELSE "none"
      m1 == [Now EXCEPT !.p.turns[n] =
              [turn EXCEPT !.startDone = TRUE, !.startError = error,
                           !.id = IF error = "none" THEN n ELSE @,
                           !.terminal = IF error = "none" THEN @ ELSE error]]
  IN /\ turn.item # None /\ ~turn.startDone
     /\ Macrotask /\ CanAnswer(answer)
     /\ answer = "ok" => provider[n] # "requested"
     /\ answer = "remote-error" => provider[n] = "requested"
     /\ Becomes(Wake(Settle(m1, n)))
     /\ UNCHANGED due

\* The await of #start.  A response with the id of another turn than the one a
\* notification announced is a mismatch.
StartAnswered(n, answer) ==
  LET turn  == proc.turns[n]
      error == IF answer # "ok" THEN answer
               ELSE IF turn.id \in {0, n} THEN "none" ELSE "uncertain"
      m1 == [Now EXCEPT !.p.turns[n] =
              [turn EXCEPT !.startDone = TRUE, !.startError = error,
                           !.id = IF error = "none" THEN n ELSE @,
                           !.terminal = IF error = "none" THEN @ ELSE error]]
  IN /\ turn.item # None /\ ~turn.startDone
     /\ Macrotask /\ CanAnswer(answer)
     /\ answer = "ok" => provider[n] # "requested"
     /\ answer = "remote-error" => provider[n] = "requested"
     /\ Becomes(Wake(Settle(m1, n)))
     /\ UNCHANGED due

\* The await of turn/steer.
SteerAnswered(answer) ==
  LET id == proc.steering.item
      m1 == [Now EXCEPT !.p.steering.stage = "finally"]
  IN /\ proc.steering.stage = "rpc"
     /\ Macrotask /\ CanAnswer(answer)
     /\ CASE answer = "ok" -> Becomes([m1 EXCEPT !.p.turns[proc.active].steers = @ \cup {id}])
          [] answer = "remote-error" -> Becomes(BlockAndPause(m1, id))
          [] OTHER -> Becomes(Disconnected(
                        Commit(m1, PauseQ(SetStatus(queue, id, "execution-uncertain")))))
     /\ UNCHANGED due

\* Mutant: a successful turn/interrupt is taken for the end of the turn.
InterruptAnswered_AsEnd(caller, answer) ==
  LET n == proc.calls[caller].turn
  IN /\ proc.calls[caller].stage = "rpc"
     /\ Macrotask /\ CanAnswer(answer)
     /\ Becomes(IF answer = "ok"
                THEN Settle([Now EXCEPT !.p.calls[caller].stage = "waiting",
                                        !.p.turns[n].terminal = "cancelled"], n)
                ELSE ThrowInterrupt(Disconnected(Now), caller))
     /\ UNCHANGED due

\* The await of turn/interrupt.
InterruptAnswered(caller, answer) ==
  /\ proc.calls[caller].stage = "rpc"
  /\ Macrotask /\ CanAnswer(answer)
  /\ Becomes(IF answer = "ok" THEN [Now EXCEPT !.p.calls[caller].stage = "waiting"]
             ELSE ThrowInterrupt(Disconnected(Now), caller))
  /\ UNCHANGED due

\* Mutant: only the runner's interruptions are timed.
InterruptTimeout_RunnerOnly(caller) ==
  LET call == proc.calls[caller]
  IN /\ caller = "runner"
     /\ call.stage = "waiting" /\ proc.turns[call.turn].done = "none"
     /\ Macrotask
     /\ Becomes(ThrowInterrupt(Disconnected(Now), caller))
     /\ UNCHANGED due

\* The 30 s timer of interrupt().
InterruptTimeout(caller) ==
  LET call == proc.calls[caller]
  IN /\ call.stage = "waiting" /\ proc.turns[call.turn].done = "none"
     /\ Macrotask
     /\ Becomes(ThrowInterrupt(Disconnected(Now), caller))
     /\ UNCHANGED due

\* Notifications, in the order the app-server wrote them for a turn; the driver
\* stops listening when the session closes.
Listening == Connected /\ Macrotask /\ proc.close = "no"

TurnStarted(n) ==
  /\ Listening /\ <<"started", n>> \in due
  /\ due' = due \ {<<"started", n>>}
  /\ LET a == proc.active
     IN Becomes(Wake(IF a # 0 /\ proc.turns[a].id = 0 THEN [Now EXCEPT !.p.turns[a].id = n]
                     ELSE Now))

\* The driver records the boundary of a completed turn first, and halts the
\* runner when it cannot (captured is FALSE).
TurnCompleted(n, captured) ==
  /\ Listening /\ <<"completed", n>> \in due /\ <<"started", n>> \notin due
  /\ captured \/ ("halt" \in ops /\ provider[n] = "completed")
  /\ due' = due \ {<<"completed", n>>}
  /\ LET a == proc.active
         m == IF captured THEN Now ELSE Halt(Now)
     IN Becomes(IF a = 0 \/ proc.turns[a].id \notin {0, n} THEN m
                ELSE Settle([m EXCEPT !.p.turns[a].id = n,
                                      !.p.turns[a].terminal = provider[n]], a))

ConnectionLost ==
  /\ "disconnect" \in ops /\ Connected /\ Macrotask
  /\ proc' = [proc EXCEPT !.conn = "lost"]
  /\ due' = {}
  /\ UNCHANGED <<qvars, provider, crashes, ops>>

\* waitForClose().then(disconnected).
ConnectionClosed ==
  /\ proc.conn = "lost"
  /\ Becomes(Disconnected([Now EXCEPT !.p.conn = "closed"]))
  /\ UNCHANGED due

----------------------------------------------------------------------------
(* The users.                                                               *)

Open == proc.close # "turns" /\ proc.failure = "none"  \* #requireOpen
Grants(id) == Cardinality(granted \cup {id}) + proc.count <= MaxTurns

\* Operations on the queue wake the runner of the process that has it open.
Notify == /\ proc' = IF live THEN Wake(Now).p ELSE proc
          /\ UNCHANGED <<provider, due, crashes, ops>>

UserSubmits(id, intent, form) ==
  /\ live => Macrotask /\ Open
  /\ minted[id] = 0 /\ Grants(id)
  /\ Cardinality(Pending(queue)) < MaxPending /\ Cardinality(Present(queue)) < MaxItems
  /\ queue' = SubmitQ(queue, id, intent, form)
  /\ Keep(id)
  /\ minted' = [minted EXCEPT ![id] = queue.epoch]
  /\ accepted' = [accepted EXCEPT ![id] = @ + 1]
  /\ granted' = granted \cup {id}
  /\ UNCHANGED live
  /\ Notify

\* The queue panel edits an input under the intent it has.
UserEditsQueue ==
  /\ live => Macrotask
  /\ \/ \E id \in Ids :
          \/ "edit" \in ops /\ Grants(id)
             /\ \E form \in Forms \cap ops : Edit(id, queue.intent[id], form)
          \/ "move" \in ops /\ \E pos \in 1..Cardinality(Ids) : Move(id, pos)
          \/ "remove" \in ops /\ Remove(id)
          \/ "retry" \in ops /\ Grants(id) /\ \E acknowledge \in BOOLEAN : Retry(id, acknowledge)
     \/ "pause" \in ops /\ Pause
     \/ "resume" \in ops /\ Resume
     \/ "clear" \in ops /\ ClearCompleted
  /\ Notify

\* send: submits, admits and starts a turn at once, even when the queue is paused.
SendQ(id, form, unchanged) ==
  LET q == SubmitQ(queue, id, "follow-up", form)
  IN IF InputReady(q, raw \cup {id}, id, unchanged)
     THEN Reserve(AdmitAndRun([Now EXCEPT !.q = q], id), id, TRUE)
     ELSE BlockAndPause([Now EXCEPT !.q = q], id)

UserSends(id, form) ==
  /\ "send" \in ops /\ live /\ Macrotask /\ Open /\ ~Busy(Now)
  /\ minted[id] = 0 /\ Grants(id)
  /\ Cardinality(Pending(queue)) < MaxPending /\ Cardinality(Present(queue)) < MaxItems
  /\ \E unchanged \in BOOLEAN :
       LET m == SendQ(id, form, unchanged)
       IN /\ queue' = m.q /\ proc' = m.p
          /\ granted' = IF m.q.status[id] = "running" THEN granted ELSE granted \cup {id}
          /\ provider' = IF m.p.active = 0 THEN provider
                         ELSE [provider EXCEPT ![m.p.active] = "requested"]
  /\ Keep(id)
  /\ minted' = [minted EXCEPT ![id] = queue.epoch]
  /\ accepted' = [accepted EXCEPT ![id] = @ + 1]
  /\ UNCHANGED <<live, due, crashes, ops>>

UserInterrupts ==
  /\ "interrupt" \in ops /\ Macrotask /\ proc.asks < MaxAsks
  /\ proc.calls["user"].stage = "idle"
  /\ Becomes(BeginInterrupt([Now EXCEPT !.p.asks = @ + 1], "user", None))
  /\ UNCHANGED due

\* Exporting and renaming keep the session busy; forking pauses its queue first.
RecoveryBegins(pauses) ==
  /\ "recovery" \in ops /\ live /\ Macrotask /\ proc.close = "no" /\ ~Busy(Now)
  /\ proc.asks < MaxAsks
  /\ Becomes(LET m == [Now EXCEPT !.p.recovery = TRUE, !.p.asks = @ + 1]
             IN IF pauses THEN Commit(m, PauseQ(m.q)) ELSE m)
  /\ UNCHANGED due

\* Mutant: the end of an export wakes nobody.
RecoveryEnds_Quietly ==
  /\ proc.recovery /\ Macrotask
  /\ Becomes([Now EXCEPT !.p.recovery = FALSE])
  /\ UNCHANGED due

RecoveryEnds ==
  /\ proc.recovery /\ Macrotask
  /\ Becomes(Wake([Now EXCEPT !.p.recovery = FALSE]))
  /\ UNCHANGED due

\* close: the driver closes the client, then the turns, and waits for them.
CloseBegins ==
  /\ "close" \in ops /\ live /\ Macrotask /\ proc.close = "no"
  /\ crashes < MaxCrashes
  /\ proc' = [proc EXCEPT !.close = "client",
                          !.conn = IF @ = "open" THEN "lost" ELSE @]
  /\ due' = {}
  /\ UNCHANGED <<qvars, provider, crashes, ops>>

CloseTurns ==
  /\ proc.close = "client"
  /\ Becomes(Disconnected([Now EXCEPT !.p.close = "turns"]))
  /\ UNCHANGED due

\* A process that is gone: only the committed record is left.
Gone(q) ==
  /\ live
  /\ live' = FALSE
  /\ crashes' = crashes + 1
  /\ queue' = q
  /\ raw' = {}
  /\ proc' = NewProcess
  /\ provider' = [n \in Turns |-> "idle"]
  /\ due' = {}
  /\ UNCHANGED <<minted, accepted, granted, ops>>

Settled == /\ \A n \in Turns : proc.turns[n].item = None \/ proc.turns[n].startDone
           /\ proc.steering.stage = "none" /\ ~Interrupting(Now)
           /\ proc.pump.stage = "none"
CloseEnds == proc.close = "turns" /\ Settled /\ Gone(queue)

\* A crash, also between the commits of one step of the process: after the
\* admission of an input, and after the result of a turn, before the pause that
\* goes with it.
Crash_ ==
  /\ "crash" \in ops /\ crashes < MaxCrashes
  /\ \/ Gone(queue)
     \/ \E id \in Selected(queue) : MayDispatch(Now) /\ Gone(AdmitQ(queue, id))
     \/ \E id \in NextInput(queue, {"steering"}) :
          proc.active # 0 /\ proc.steering.stage = "none" /\ Gone(AdmitQ(queue, id))
     \/ PumpReady /\ Gone(FinishDispatched(Now).finished)

ReopenSession ==
  /\ "reopen" \in ops /\ ~live
  /\ live' = TRUE
  /\ \E hold \in BOOLEAN : queue' = IF hold THEN PauseQ(RecoverQ(queue)) ELSE RecoverQ(queue)
  /\ proc' = Wake([q |-> queue', p |-> NewProcess]).p
  /\ UNCHANGED <<raw, minted, accepted, granted, provider, due, crashes, ops>>

----------------------------------------------------------------------------
TInit ==
  /\ Init
  /\ proc = NewProcess
  /\ provider = [n \in Turns |-> "idle"]
  /\ due = {}
  /\ crashes = 0
  /\ ops \in Surroundings

Provider == \E n \in Turns : \/ ProviderStarts(n)
                             \/ \E status \in Terminal : ProviderEnds(n, status)

Answered == \/ \E answer \in Answers : \/ \E n \in Turns : StartAnswered(n, answer)
                                       \/ SteerAnswered(answer)
                                       \/ \E caller \in Callers : InterruptAnswered(caller, answer)
            \/ \E caller \in Callers : InterruptTimeout(caller)

Notified == \/ \E n \in Turns : \/ TurnStarted(n)
                                \/ \E captured \in BOOLEAN : TurnCompleted(n, captured)
            \/ ConnectionLost \/ ConnectionClosed

TUsers == \/ \E id \in Ids, form \in Forms \cap ops :
               \/ \E intent \in Intents \cap ops : UserSubmits(id, intent, form)
               \/ UserSends(id, form)
          \/ UserEditsQueue \/ UserInterrupts
          \/ \E pauses \in BOOLEAN : RecoveryBegins(pauses)
          \/ CloseBegins

TNext == \/ Microtask \/ Provider \/ Answered \/ Notified \/ TUsers
         \/ RecoveryEnds \/ CloseTurns \/ CloseEnds \/ Crash_ \/ ReopenSession

TSpec == TInit /\ [][TNext]_vars

\* The thread keeps running: while a microtask, a timer or a step of close() is
\* due, one of them happens.  Every request and interruption has its 30 s timer.
\* Nothing is assumed of the provider: a turn may go on for ever, and a request
\* may always go unanswered.
Progress ==
  \/ Microtask
  \/ \E n \in Turns : StartAnswered(n, Unanswered)
  \/ SteerAnswered(Unanswered)
  \/ \E caller \in Callers : InterruptAnswered(caller, Unanswered) \/ InterruptTimeout(caller)
  \/ ConnectionClosed \/ CloseTurns \/ CloseEnds

\* An export or a fork comes to an end, if the thread lets it.
Fairness == WF_vars(Progress) /\ WF_vars(RecoveryEnds)

FairTSpec == TSpec /\ Fairness

----------------------------------------------------------------------------
(* Properties.                                                              *)

\* An input the record shows as under way is under way: the process knows it as
\* the input of the active turn, one of its steers, the steering in flight, or
\* the dispatched input whose result the runner is about to take.  None is left
\* behind by whatever order results, interruptions and closing come in.
InFlight(id) ==
  \/ proc.pump.stage = "run" /\ proc.pump.item = id
  \/ proc.steering.stage = "rpc" /\ proc.steering.item = id
  \/ proc.active # 0 /\ \/ id \in proc.turns[proc.active].steers
                        \/ id = proc.turns[proc.active].item
NoOrphan == live => \A id \in Ids : queue.status[id] \in {"admitted", "running"} => InFlight(id)

\* The record shows every input of the active turn as running for as long as the
\* turn is active: nothing reaches the provider before the record says so, and
\* nothing else rewrites its status under it.
DurableBeforeDispatch ==
  live /\ proc.active # 0 =>
    /\ queue.status[proc.turns[proc.active].item] = "running"
    /\ \A id \in proc.turns[proc.active].steers : queue.status[id] = "running"
    /\ proc.steering.stage = "rpc" => queue.status[proc.steering.item] = "running"

\* The last turn that an input was dispatched in, sent with or steered into; a
\* retry is a turn of its own.
Carries(n, id) == id = proc.turns[n].item \/ id \in proc.turns[n].steers
LastTurn(n, id) == Carries(n, id) /\ \A k \in Turns : k > n => ~Carries(k, id)

\* An input is marked completed only by the end of the very provider turn that
\* carried it, late notifications of earlier turns notwithstanding.
CompletedIsTrue ==
  [][\A id \in Ids : queue.status[id] # "completed" /\ queue'.status[id] = "completed"
       => \E n \in Turns : LastTurn(n, id) /\ provider[n] = "completed"]_vars

\* An input whose last turn the provider completed is never called failed, which
\* would offer a retry without a warning: when its end is not known it is
\* uncertain.  The one exception is a runner halted because the completed boundary
\* could not be recorded, which the session reports as an error.
HonestFailure ==
  [][\A id \in Ids : queue.status[id] # "failed" /\ queue'.status[id] = "failed"
       => \A n \in Turns : LastTurn(n, id) =>
            provider[n] # "completed" \/ proc.turns[n].done = "halted"]_vars

\* No turn is requested while an earlier one, whose start was confirmed, is still
\* running at the provider.
OneTurnAtATime ==
  [][proc'.count > proc.count =>
       \A n \in Turns : provider[n] = "running" => proc.turns[n].startError # "none"]_vars

\* Whenever there is something the runner should do, something is under way that
\* will make it look: no input is stranded by a wake-up that came too early.
NoLostWakeup ==
  live /\ proc.close = "no" /\ ~proc.closed /\ NextInput(queue, IntentSet) # {} =>
    \/ proc.scheduled \/ PumpReady \/ proc.pump.stage = "ended" \/ Interrupting(Now)
    \/ proc.recovery
    \/ /\ proc.active # 0
       /\ NextInput(queue, {"interject"}) = {}
       /\ NextInput(queue, {"steering"}) = {} \/ proc.steering.stage # "none"
            \/ ~proc.turns[proc.active].startDone

\* Interjections do not wait for ever: the current turn is interrupted and they
\* start, or the queue pauses, or the session fails and says so.
InterjectHandled ==
  live /\ ~proc.closed /\ NextInput(queue, {"interject"}) # {}
    ~> ~live \/ proc.closed \/ NextInput(queue, {"interject"}) = {}

\* Every interrupt() returns, with or without the provider's help.
InterruptReturns ==
  \A caller \in Callers : proc.calls[caller].stage # "idle" ~> proc.calls[caller].stage = "idle"

\* close() returns: none of the promises it awaits waits for it in turn.
CloseSettles == proc.close # "no" ~> ~live
=============================================================================
