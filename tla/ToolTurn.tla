------------------------------ MODULE ToolTurn ------------------------------
(***************************************************************************)
(* A turn of the native engine, engines/codesplash/loop.ts: the model is   *)
(* asked, the tools it calls run, their results go back, until it stops,   *)
(* the user interrupts or something fails.                                 *)
(*                                                                         *)
(* A step is what runs from one await to the next, or less where nothing   *)
(* else depends on it.  What a message says, which rule a permission comes *)
(* from and how full the context is are choices.  A call is a read-only    *)
(* one that needs no approval ("read"), one that changes files ("write"),  *)
(* a question to the user that the loop asks itself ("question": ask_user, *)
(* plan mode, access to the sandbox) or any other ("other": an external    *)
(* effect, a read with hooks).                                             *)
(* Checkpoints are available, as they are in a durable session.            *)
(***************************************************************************)
EXTENDS Naturals, Sequences, FiniteSets

CONSTANTS
  Kinds,          \* of the calls of this instance, of "read" "write" "question" "other"
  MaxCalls,       \* bound of the model: calls in one response
  MaxToolRounds,  \* #maxToolRounds
  Concurrency,    \* READ_ONLY_CONCURRENCY, 4 in the code
  MaxContinuations,                \* of hooks, in one turn
  MaxRetries,                      \* requests repeated in one turn
  MaxTurns, MaxSteers, MaxHeld     \* bounds of the model

ASSUME ToolShape ==
  /\ Kinds \subseteq {"read", "write", "question", "other"} /\ Concurrency \in Nat \ {0}
  /\ {MaxCalls, MaxToolRounds, MaxContinuations, MaxRetries, MaxTurns, MaxSteers, MaxHeld}
       \subseteq Nat

VARIABLES
  turn,      \* runTurn: where it is, and its locals
  history,   \* #history: the calls that are not answered yet, and whether it
             \* holds calls and results that do not match
  steering,  \* steering inputs in the queue
  holders,   \* who holds the mutation claim of the workspace
  covered,   \* for whose changes a checkpoint is open
  held,      \* changes that go on when their call has returned
  broken,    \* #mutationFailure
  spent      \* bound of the model: turns, steering inputs, calls that hold on

toolVars == <<turn, history, steering, holders, covered, held, broken, spent>>

NoTurn == [at |-> "idle", status |-> "none", aborted |-> FALSE, failed |-> FALSE,
         rounds |-> 0, retries |-> 0, continued |-> 0,
         calls |-> <<>>, barrier |-> FALSE, next |-> 1, cut |-> FALSE]

ToolInit ==
  /\ turn = NoTurn /\ history = [open |-> {}, torn |-> FALSE] /\ steering = 0
  /\ holders = {} /\ covered = {} /\ held = "none" /\ broken = FALSE
  /\ spent = [turns |-> 0, steers |-> 0, held |-> 0]

----------------------------------------------------------------------------
(* The history.  Providers refuse one in which the calls of a message are   *)
(* not answered, all of them and once, by the message after it.             *)

PushCalls(h, ids) == [open |-> ids, torn |-> h.torn \/ h.open # {}]
PushResults(h, ids) == [open |-> {}, torn |-> h.torn \/ h.open # ids]
PushText(h) == [h EXCEPT !.torn = h.torn \/ h.open # {}]

Called == DOMAIN turn.calls
Early == {i \in Called : turn.calls[i].early}
Continuing == turn.continued > 0

\* #settleUnexecutedToolCalls: early calls keep their results, the others get
\* one that says they were skipped.
\* Mutant: only the calls that did not run are answered.
SettleUnexecuted_SkippedOnly(h) ==
  IF Called = {} THEN h ELSE PushResults(h, Called \ Early)
SettleUnexecuted(h) == IF Called = {} THEN h ELSE PushResults(h, Called)
PushAnswer(h) == IF Called = {} THEN PushText(h) ELSE PushCalls(h, Called)

----------------------------------------------------------------------------
(* runTurn.                                                                 *)

\* The turn goes on at another place, the response is done with.
Goes(t, place) ==
  [t EXCEPT !.at = place, !.calls = <<>>, !.barrier = FALSE, !.next = 1, !.cut = FALSE]
Ends(t, status) == [Goes(t, "end") EXCEPT !.status = status]
\* The catch of runTurn.
Throws(t) == Ends(t, IF t.aborted THEN "interrupted" ELSE "failed")

NotFiles == UNCHANGED <<holders, covered, held, broken>>

TurnStarts ==
  /\ turn.at = "idle" /\ spent.turns < MaxTurns
  /\ turn' = [NoTurn EXCEPT !.at = "start"]
  /\ spent' = [spent EXCEPT !.turns = @ + 1]
  /\ UNCHANGED <<history, steering>> /\ NotFiles

\* The hooks and the preparation of the input; any of them may throw.
Prepared ==
  /\ turn.at = "start"
  /\ \/ turn' = Throws(turn) /\ history' \in {history, PushText(history)}
     \/ ~turn.aborted /\ turn' = Goes(turn, "head") /\ history' = PushText(history)
  /\ UNCHANGED <<steering, spent>> /\ NotFiles

\* The head of the loop.
LoopHead ==
  /\ turn.at = "head"
  /\ turn' = CASE turn.aborted -> Throws(turn)
               [] steering > 0 /\ Continuing -> Ends(turn, "completed")
               [] steering > 0 /\ ~Continuing -> Goes(turn, "steer")
               [] OTHER -> Goes(turn, "ask")
  /\ UNCHANGED <<history, steering, spent>> /\ NotFiles

\* Notices may be added, the context may be pruned or compacted, which may
\* throw; a continuation has limits of its own.  Whether calls may run while
\* the response streams is a setting.
Ask ==
  /\ turn.at = "ask"
  /\ \/ turn' = Throws(turn)
     \/ Continuing /\ turn' = Ends(turn, "completed")
     \/ \E barrier \in {TRUE, Continuing \/ turn.rounds >= MaxToolRounds} :
          turn' = [Goes(turn, "stream") EXCEPT !.barrier = barrier]
  /\ history' = PushText(history)
  /\ UNCHANGED <<steering, spent>> /\ NotFiles

\* applySteering takes the next steering input before it waits for anything;
\* one that cannot be admitted is blocked, and pauses the queue.
Steer ==
  /\ turn.at \in {"steer", "steer instead"}
  /\ steering' = IF steering > 0 THEN steering - 1 ELSE 0
  /\ history' = PushText(history)
  /\ turn' \in {Goes(turn, IF turn.at = "steer" THEN "ask" ELSE "head"), Throws(turn)}
  /\ UNCHANGED spent /\ NotFiles

\* A call arrives.  A reviewed read runs at once unless something stands in
\* its way: the stream waits for it.  Any other call stands in the way of the
\* later ones, unless steering was waiting when it arrived.
ToolCallArrives(kind) ==
  /\ turn.at = "stream" /\ Len(turn.calls) < MaxCalls
  /\ \A i \in Called : turn.calls[i].at # "running"
  /\ LET arrives(place, early, barrier) ==
           [turn EXCEPT !.calls = Append(@, [kind |-> kind, at |-> place, early |-> early]),
                        !.barrier = barrier]
     IN \/ turn' = arrives("new", FALSE, turn.barrier \/ steering = 0)
        \/ /\ kind = "read" /\ ~turn.barrier /\ steering = 0
           /\ \/ ~turn.aborted /\ ~broken /\ turn' = arrives("running", TRUE, FALSE)
              \/ \E doomed \in BOOLEAN : turn' = arrives("skipped", TRUE, doomed)
  /\ UNCHANGED <<history, steering, spent>> /\ NotFiles

StreamOver == turn.at = "stream" /\ \A i \in Called : turn.calls[i].at # "running"

\* The provider ends the stream because of the signal, or of the time limit
\* of a continuation.
StreamAborted ==
  /\ StreamOver /\ (turn.aborted \/ Continuing)
  /\ history' = IF Early # {} THEN PushText(SettleUnexecuted(PushCalls(history, Called)))
                ELSE PushText(history)
  /\ turn' = Ends(turn, IF turn.aborted THEN "interrupted" ELSE "completed")
  /\ UNCHANGED <<steering, spent>> /\ NotFiles

\* The stream throws.  The request is repeated without its images, with less
\* context or to another model, or the turn fails.
StreamFails ==
  /\ StreamOver
  /\ history' = IF Early # {} THEN SettleUnexecuted(PushCalls(history, Called)) ELSE history
  /\ \/ /\ Called = {} /\ ~Continuing /\ turn.retries < MaxRetries
        /\ turn' = [Goes(turn, "head") EXCEPT !.retries = @ + 1, !.failed = TRUE]
     \/ turn' \in {Ends(turn, "failed"), Throws(turn)}
  /\ UNCHANGED <<steering, spent>> /\ NotFiles

\* An empty answer is asked for again once.
EmptyAnswer ==
  /\ StreamOver /\ Called = {} /\ ~Continuing /\ turn.retries < MaxRetries
  /\ turn' = [Goes(turn, "head") EXCEPT !.retries = @ + 1]
  /\ UNCHANGED <<history, steering, spent>> /\ NotFiles

\* The response is complete.  Its calls are answered without being run when
\* steering has arrived, the answer was cut off or has ended, or the turn has
\* had its rounds.
StreamDone(stop) ==
  /\ StreamOver
  /\ LET answered == SettleUnexecuted(PushAnswer(history))
         runs == stop = "tool_use" /\ Called # {} /\ steering = 0
     IN \/ /\ steering > 0
           /\ history' = answered
           /\ turn' = IF Continuing THEN Ends(turn, "completed")
                    ELSE Goes(turn, "steer instead")
        \/ /\ steering = 0 /\ (stop = "max_tokens" \/ Called = {} \/ stop = "end_turn")
           /\ history' = answered
           /\ \/ turn' = Ends(turn, "completed")
              \/ /\ stop # "max_tokens" /\ ~turn.failed /\ turn.continued < MaxContinuations
                 /\ turn' = Goes(turn, "stop")
        \/ /\ runs /\ turn.rounds >= MaxToolRounds
           /\ history' = PushResults(PushAnswer(history), Called)
           /\ turn' = Ends(turn, "completed")
        \/ /\ runs /\ turn.rounds < MaxToolRounds
           /\ history' = PushAnswer(history)
           /\ turn' = [turn EXCEPT !.at = "round", !.rounds = @ + 1]
  /\ UNCHANGED <<steering, spent>> /\ NotFiles

\* The hooks of the end of an answer may have the turn continue.
StopHook ==
  /\ turn.at = "stop"
  /\ \/ turn' \in {Ends(turn, "completed"), Throws(turn)} /\ history' = history
     \/ /\ steering = 0
        /\ turn' = [Goes(turn, "head") EXCEPT !.continued = @ + 1]
        /\ history' = PushText(history)
  /\ UNCHANGED <<steering, spent>> /\ NotFiles

\* #completeTurn: the last hook, then the event and the finally of runTurn.
TurnEnds ==
  /\ turn.at = "end"
  /\ turn' = NoTurn
  /\ UNCHANGED <<history, steering, spent>> /\ NotFiles

----------------------------------------------------------------------------
(* #runToolRound: the calls are resolved in order; reads gather in a batch, *)
(* which runs before anything that is not such a read.  A call goes from    *)
(* "new" to "settled", or to "skipped" when it gets a result without being  *)
(* run.                                                                     *)

Places(places) == {i \in Called : turn.calls[i].at \in places}
Working == Places({"asking", "claiming", "covering", "running", "finalizing"})
Batched == Places({"batched"})
CallGoes(t, i, place) == [t EXCEPT !.calls[i].at = place]
InRound == turn.at = "round"
AtNext == InRound /\ turn.next \in Called /\ ~turn.cut /\ Working = {}
NextCall == turn.calls[turn.next]
Advance(t) == [t EXCEPT !.next = @ + 1]

\* A call that ran early has its result; one that repeats itself too often is
\* answered for it, and one that cannot be resolved fails.
Resolve ==
  /\ AtNext
  /\ \/ NextCall.early /\ turn' = Advance(turn)
     \/ ~NextCall.early /\ turn' = Advance(CallGoes(turn, turn.next, "skipped"))
     \/ ~NextCall.early /\ NextCall.kind = "read"
        /\ turn' = Advance(CallGoes(turn, turn.next, "batched"))
  /\ UNCHANGED <<history, steering, spent>> /\ NotFiles

\* The batch is flushed: before a call that is not a concurrent read, before
\* the round is cut short, and at its end.
FlushDue ==
  /\ InRound
  /\ ~turn.cut /\ turn.next \in Called => ~NextCall.early /\ NextCall.kind # "read"
RunRead(i) ==
  /\ FlushDue /\ i \in Batched /\ \A j \in Batched : i <= j
  /\ Cardinality(Working) < Concurrency
  /\ \/ turn' = CallGoes(turn, i, "skipped") /\ (steering > 0 \/ turn.aborted \/ broken)
     \/ turn' = CallGoes(turn, i, "running") /\ steering = 0 /\ ~turn.aborted /\ ~broken
  /\ UNCHANGED <<history, steering, spent>> /\ NotFiles

\* Any other call runs by itself, once the batch is done.
\* Mutant: the batch is left for later.
BatchDone_NotAwaited == TRUE
BatchDone == Batched = {}
DispatchCall ==
  /\ AtNext /\ FlushDue /\ BatchDone
  /\ turn' = Advance(CallGoes(turn, turn.next,
               IF steering > 0 \/ turn.aborted THEN "skipped" ELSE "asking"))
  /\ UNCHANGED <<history, steering, spent>> /\ NotFiles

\* The fifth of a row of identical calls ends the round and the turn.
CutShort ==
  /\ AtNext /\ ~NextCall.early
  /\ turn' = [turn EXCEPT !.cut = TRUE]
  /\ UNCHANGED <<history, steering, spent>> /\ NotFiles

RoundEnds ==
  /\ InRound /\ Working = {} /\ Batched = {} /\ (turn.cut \/ turn.next \notin Called)
  /\ history' = PushResults(history, Called)
  /\ turn' = CASE turn.aborted -> Ends(turn, "interrupted")
               [] turn.cut -> Ends(turn, "completed")
               [] OTHER -> Goes(turn, "head")
  /\ UNCHANGED <<steering, spent>> /\ NotFiles

----------------------------------------------------------------------------
(* #runToolCall.                                                            *)

CallAt(i, place) == i \in Called /\ turn.calls[i].at = place
SettleCall(i) == CallGoes(turn, i, "settled")
\* The loop is interrupted, whatever it does.
Interrupted(t) == [t EXCEPT !.aborted = @ \/ t.at # "idle"]
FreeClaim == holders' = holders \ {"turn"}

\* Rules, hooks, the guardian or the user refuse the call, or allow it.  A
\* request that is open when the turn is aborted is cancelled.  A question is
\* asked even when changes could not be finished; it changes no file.
Asked(i) ==
  /\ CallAt(i, "asking")
  /\ \/ turn' = SettleCall(i)
     \/ turn.calls[i].kind = "write" /\ turn' = CallGoes(turn, i, "claiming")
     \/ turn.calls[i].kind = "question" /\ turn' = CallGoes(turn, i, "running")
     \/ turn.calls[i].kind = "other" /\ ~turn.aborted /\ ~broken
        /\ turn' = CallGoes(turn, i, "running")
  /\ UNCHANGED <<history, steering, spent>> /\ NotFiles

\* acquire: the claim is waited for until it is free or the turn aborted; it
\* may fail.
\* Mutant: a call that waits for its claim does not hear of the interruption.
GivesUp_Never(i) == FALSE
GivesUp(i) == CallAt(i, "claiming") /\ turn.aborted
ClaimMade(i) ==
  /\ CallAt(i, "claiming") /\ holders = {}
  /\ holders' = {"turn"} /\ turn' = CallGoes(turn, i, "covering")
  /\ UNCHANGED <<history, steering, covered, held, broken, spent>>
ClaimMissed(i) ==
  /\ GivesUp(i) \/ (CallAt(i, "claiming") /\ holders = {})
  /\ turn' = SettleCall(i)
  /\ UNCHANGED <<history, steering, spent>> /\ NotFiles

\* The permission is checked again, a checkpoint is begun: one that fails
\* interrupts the turn.  The call that may not go on releases its claim.
Cover(i) ==
  /\ CallAt(i, "covering")
  /\ \/ /\ ~turn.aborted /\ ~broken
        /\ covered' = covered \cup {"turn"}
        /\ turn' = CallGoes(turn, i, "running") /\ UNCHANGED holders
     \/ turn' \in {SettleCall(i), Interrupted(SettleCall(i))} /\ FreeClaim /\ UNCHANGED covered
  /\ UNCHANGED <<history, steering, held, broken, spent>>

\* The tool settles.  Changes that it leaves going on keep the claim and the
\* checkpoint, and the call returns without them.
ToolEnds(i) ==
  /\ CallAt(i, "running")
  /\ turn' = IF turn.calls[i].kind = "write" THEN CallGoes(turn, i, "finalizing") ELSE SettleCall(i)
  /\ UNCHANGED <<history, steering, spent>> /\ NotFiles
\* Mutant: the claim is released and the checkpoint ended with the call.
KeepHeld_OnlyWork ==
  /\ held' = "working" /\ holders' = holders \ {"turn"} /\ covered' = covered \ {"turn"}
KeepHeld ==
  /\ held' = "working"
  /\ holders' = (holders \ {"turn"}) \cup {"held"}
  /\ covered' = (covered \ {"turn"}) \cup {"held"}
ToolHolds(i) ==
  /\ CallAt(i, "running") /\ turn.calls[i].kind = "write"
  /\ spent.held < MaxHeld /\ spent' = [spent EXCEPT !.held = @ + 1]
  /\ KeepHeld
  /\ turn' = SettleCall(i)
  /\ UNCHANGED <<history, steering, broken>>

\* The checkpoint is ended, or that fails and interrupts the turn; the claim
\* is released in either case.
Finalize(i) ==
  /\ CallAt(i, "finalizing")
  /\ covered' = covered \ {"turn"} /\ FreeClaim
  /\ turn' \in {SettleCall(i), Interrupted(SettleCall(i))}
  /\ UNCHANGED <<history, steering, held, broken, spent>>

\* The same for changes that were held: the claim is released before the
\* failure is noted, and whatever turn is under way is interrupted.
HeldWorkEnds ==
  /\ held = "working" /\ held' = "finalizing"
  /\ UNCHANGED <<turn, history, steering, holders, covered, broken, spent>>
HeldFinalized ==
  /\ held = "finalizing"
  /\ covered' = covered \ {"held"}
  /\ \/ held' = "none" /\ holders' = holders \ {"held"} /\ UNCHANGED turn
     \/ held' = "failing" /\ turn' = Interrupted(turn) /\ UNCHANGED holders
  /\ UNCHANGED <<history, steering, broken, spent>>
HeldFailed ==
  /\ \/ held = "failing" /\ held' = "unsaid" /\ holders' = holders \ {"held"} /\ UNCHANGED broken
     \/ held = "unsaid" /\ held' = "none" /\ broken' = TRUE /\ UNCHANGED holders
  /\ UNCHANGED <<turn, history, steering, covered, spent>>

----------------------------------------------------------------------------
(* The rest of the world.                                                   *)

InterruptLoop ==
  /\ turn.at # "idle" /\ ~turn.aborted
  /\ turn' = Interrupted(turn)
  /\ UNCHANGED <<history, steering, spent>> /\ NotFiles

\* Steering arrives in the queue; the user removes it, or pauses the queue.
SteeringArrives ==
  /\ spent.steers < MaxSteers
  /\ spent' = [spent EXCEPT !.steers = @ + 1]
  /\ steering' = steering + 1
  /\ UNCHANGED <<turn, history>> /\ NotFiles
SteeringWithdrawn ==
  /\ steering > 0 /\ steering' = steering - 1
  /\ UNCHANGED <<turn, history, spent>> /\ NotFiles

\* Another process, or another session of this one, claims the workspace.
OtherClaims ==
  /\ \/ holders = {} /\ holders' = {"other"}
     \/ "other" \in holders /\ holders' = holders \ {"other"}
  /\ UNCHANGED <<turn, history, steering, covered, held, broken, spent>>

CallStep ==
  \E i \in Called :
    \/ RunRead(i) \/ Asked(i) \/ ClaimMade(i) \/ ClaimMissed(i) \/ Cover(i)
    \/ ToolEnds(i) \/ ToolHolds(i) \/ Finalize(i)
TurnStep ==
  \/ Prepared \/ LoopHead \/ Ask \/ Steer \/ StopHook \/ TurnEnds
  \/ \E kind \in Kinds : ToolCallArrives(kind)
  \/ StreamAborted \/ StreamFails \/ EmptyAnswer
  \/ \E stop \in {"tool_use", "end_turn", "max_tokens"} : StreamDone(stop)
  \/ Resolve \/ DispatchCall \/ CutShort \/ RoundEnds
  \/ CallStep

ToolNext ==
  \/ TurnStarts \/ TurnStep
  \/ HeldWorkEnds \/ HeldFinalized \/ HeldFailed
  \/ InterruptLoop \/ SteeringArrives \/ SteeringWithdrawn \/ OtherClaims

\* The signal reaches whatever the turn waits for: the provider, the tools,
\* hooks, requests to the user and claims.  Without it they may take for ever.
ToolFairness == WF_toolVars(turn.aborted /\ TurnStep)

ToolSpec == ToolInit /\ [][ToolNext]_toolVars /\ ToolFairness
----------------------------------------------------------------------------
\* Every request that goes to the provider, and every turn that ends, leaves
\* no call without its result: whatever steering, interruption, failure, limit
\* or early run comes between a call and its answer, each call is answered
\* exactly once, in the message after its own.
HistoryAnswered ==
  ~history.torn /\ (turn.at # "round" => history.open = {})

\* Calls take effect in the order of the model: while one is at work, no later
\* one that the round runs has been begun, unless both are reads.
Overlap(i, j) == turn.calls[i].kind = "read" /\ turn.calls[j].kind = "read"
Begun(j) == turn.calls[j].at \notin {"new", "batched", "skipped"}
RoundInOrder ==
  \A i \in Working, j \in Called :
    i < j /\ ~Overlap(i, j) => ~Begun(j) \/ turn.calls[j].early

\* The same of all calls, those that ran early included: "a read never
\* observes pre-mutation state the model believes is fresh" (loop.ts:1588).
ReadsAreFresh ==
  \A i \in Working, j \in Called : i < j /\ ~Overlap(i, j) => ~Begun(j)

\* Files change only under the claim of the workspace and an open checkpoint,
\* also when the work outlives its call, its turn and an interruption.
EffectsCovered ==
  LET working == (IF held \in {"working", "finalizing"} THEN {"held"} ELSE {})
                   \cup {"turn" : i \in {i \in Places({"running", "finalizing"}) :
                                            turn.calls[i].kind = "write"}}
  IN /\ working \subseteq holders \cap covered
     /\ Cardinality(holders) <= 1

\* A turn that is interrupted ends, whatever it was waiting for.
TurnEndsOnInterrupt == turn.aborted ~> turn.at = "idle"
=============================================================================
