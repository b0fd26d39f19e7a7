----------------------- MODULE CodexQueuedTurns_proofs -----------------------
(***************************************************************************)
(* Theorems about CodexQueuedTurns, for every set of inputs, any number of *)
(* turns and every limit.                                                  *)
(***************************************************************************)
EXTENDS CodexQueuedTurns, InputQueue_proofs

(* The states of the machine.                                                *)

Item == Ids \cup {None}
Numbers == 0..MaxTurns
TurnRecords ==
  [item : Item, owned : BOOLEAN, id : Numbers, startDone : BOOLEAN,
   startError : Errors \cup {"none"}, terminal : Results \cup {"none"},
   steers : SUBSET Ids, done : Results \cup {"none"}]
Pumps == [stage : {"none", "run", "ended"}, item : Item, turn : Numbers]
CallRecords == [stage : {"idle", "starting", "rpc", "waiting", "finally"}, turn : Numbers, item : Item]
Steerings == [stage : {"none", "rpc", "finally"}, item : Item]
Processes ==
  [closed : BOOLEAN, scheduled : BOOLEAN, pump : Pumps, calls : [Callers -> CallRecords],
   turns : [Turns -> TurnRecords], count : Numbers, active : Numbers,
   steering : Steerings,
   failure : {"none", "uncertain", "halted"}, recovery : BOOLEAN, asks : Nat,
   conn : {"open", "lost", "closed"}, close : {"no", "client", "turns"}]
Machines == [q : Record, p : Processes]

(* The inductive invariant.                                                  *)

\* The input is with the process: InFlight, of any process.
Holds(p, id) ==
  \/ p.pump.stage = "run" /\ p.pump.item = id
  \/ p.steering.stage = "rpc" /\ p.steering.item = id
  \/ p.active # 0 /\ (id \in p.turns[p.active].steers \/ id = p.turns[p.active].item)

Over(turn) == turn.startDone /\ (turn.startError # "none" \/ turn.done # "none")
TurnsFit(p) ==
  /\ p.active # 0 =>
       LET turn == p.turns[p.active] IN
       /\ turn.item \in Ids /\ turn.done = "none"
       /\ ~turn.owned => p.pump.stage = "run" /\ p.pump.turn = p.active
  /\ \A n \in Turns : p.turns[n].item # None /\ ~p.turns[n].startDone => n = p.active
  /\ p.steering.stage # "none" =>
       p.active # 0 /\ p.turns[p.active].startDone /\ p.steering.item \in Ids
  /\ p.pump.stage = "run" =>
       /\ p.pump.turn # 0 /\ p.pump.turn <= p.count /\ p.pump.item \in Ids
       /\ p.turns[p.pump.turn].item = p.pump.item /\ ~p.turns[p.pump.turn].owned
       /\ p.pump.turn = p.active \/ Over(p.turns[p.pump.turn])
  /\ p.failure # "none" => p.closed

\* No input is with the process twice.
Apart(p) ==
  /\ p.pump.stage = "run" /\ p.active # 0 =>
       /\ p.pump.item \notin p.turns[p.active].steers
       /\ p.pump.item = p.turns[p.active].item => p.pump.turn = p.active
  /\ p.steering.stage = "rpc" =>
       /\ p.steering.item \notin p.turns[p.active].steers
       /\ p.steering.item # p.turns[p.active].item
       /\ p.pump.stage = "run" => p.steering.item # p.pump.item

\* A turn that has all it takes to be settled is.
AtRest(p) ==
  p.active # 0 =>
    LET turn == p.turns[p.active] IN
    turn.startDone => /\ turn.startError = "none" /\ turn.id # 0
                      /\ p.steering.stage = "none" => turn.terminal = "none"

\* What the session knows of its turns is true of the provider's: the active turn
\* is the last one reserved, an end comes from the turn with its id, and an end
\* that the provider did not announce is an answered start or a lost connection.
Grounded(turn, n, closed) ==
  /\ turn.terminal \in Terminal => turn.id \in Turns /\ provider[turn.id] = turn.terminal
  /\ turn.startDone /\ turn.startError = "none" => turn.id = n
  /\ ~turn.startDone => turn.startError = "none"
  /\ turn.startError # "none" => turn.terminal = turn.startError
  /\ turn.startError = "none" /\ turn.terminal \in Errors => closed /\ turn.terminal = "uncertain"
KnowsActive(p) ==
  p.active # 0 => p.active = p.count /\ Grounded(p.turns[p.active], p.active, p.closed)

\* A turn that is over ended so at the provider, or may still run there only when
\* its start failed or the runner is closed.  No later turn than the pump's has
\* its input.
KnowsTurn(p, k) ==
  LET turn == p.turns[k] IN
  /\ k > p.count => turn.item = None /\ turn.steers = {}
  /\ turn.done \in Terminal => provider[k] = turn.done
  /\ turn.done = "remote-error" => turn.startError # "none"
  /\ turn.startError # "halted"
  /\ turn.startError = "remote-error" => provider[k] = "requested"
  /\ provider[k] \in {"requested", "running"} =>
       k = p.active \/ turn.startError # "none" \/ p.closed
  /\ p.pump.stage = "run" /\ k > p.pump.turn =>
       p.pump.item # turn.item /\ p.pump.item \notin turn.steers

Informed(p) ==
  /\ p.closed => p.failure # "none"
  /\ KnowsActive(p)
  /\ \A k \in Turns : KnowsTurn(p, k)

\* What is with the process runs, and nothing else does.
Carried(q, p) ==
  \A id \in Ids : q.status[id] # "admitted" /\ (q.status[id] = "running" <=> Holds(p, id))

\* The interjection that an interruption makes room for stays out of the turns.
CallFits(q, p) ==
  p.calls["runner"].stage \notin {"idle", "finally"} =>
    LET id == p.calls["runner"].item IN
    id \in Ids /\ ~Holds(p, id) /\ q.intent[id] = "interject" /\ minted[id] # 0

Loose(q, p) == TurnsFit(p) /\ Apart(p) /\ Carried(q, p) /\ CallFits(q, p)

\* Something is under way that will make the runner look.
Looks(q, p) ==
  p.close = "no" /\ ~p.closed /\ NextInput(q, IntentSet) # {} =>
    \/ p.scheduled
    \/ p.pump.stage = "run" /\ Over(p.turns[p.pump.turn])
    \/ p.pump.stage = "ended" /\ p.active = 0
    \/ p.calls["runner"].stage # "idle" \/ p.recovery
    \/ /\ p.active # 0
       /\ NextInput(q, {"interject"}) = {}
       /\ \/ NextInput(q, {"steering"}) = {} \/ p.steering.stage # "none"
          \/ ~p.turns[p.active].startDone

\* Every start was asked for, so there are turns for all that is asked for.
Afforded(q, given, count) ==
  /\ \A id \in Ids :
       /\ q.status[id] = "queued" => id \in given /\ ~q.recovered[id]
       /\ q.recovered[id] => id \in given
       /\ minted[id] = 0 => id \notin given /\ q.status[id] = "absent"
  /\ given \subseteq Ids
  /\ Cardinality(given) + count <= MaxTurns

Announced ==
  /\ provider \in [Turns -> {"idle", "requested", "running"} \cup Terminal]
  /\ \A n \in Turns : n > proc.count <=> provider[n] = "idle"
  /\ \A n \in Turns : <<"completed", n>> \in due => provider[n] \in Terminal

CInv ==
  /\ queue \in Record /\ proc \in Processes /\ live \in BOOLEAN
  /\ live => Loose(queue, proc) /\ AtRest(proc) /\ Looks(queue, proc)
  /\ live => Informed(proc)
  /\ ~live => proc = NewProcess
  /\ minted \in [Ids -> 0..MaxEpoch]
  /\ Afforded(queue, granted, proc.count)
  /\ Announced

\* What is said of an input is true of the last turn that carried it.
True(id, status) ==
  /\ status = "completed" => \E n \in Turns : LastTurn(n, id) /\ provider[n] = "completed"
  /\ status = "failed" =>
       \A n \in Turns : LastTurn(n, id) =>
         provider[n] # "completed" \/ proc.turns[n].done = "halted"
Told(q) == \A id \in Ids : q.status[id] # queue.status[id] => True(id, q.status[id])

\* A machine on its way through a step, as long as its turns carry what they did.
Known(m) ==
  /\ Informed(proc) /\ Informed(m.p) /\ Told(m.q) /\ m.p.count = proc.count
  /\ \A k \in Turns : /\ m.p.turns[k].item = proc.turns[k].item
                      /\ m.p.turns[k].steers = proc.turns[k].steers

\* No turn is reserved while another one may run.
Alone ==
  proc'.count > proc.count =>
    \A n \in Turns : provider[n] = "running" => proc.turns[n].startError # "none"

\* What every step does.
Kept == CInv' /\ Told(queue') /\ Alone

\* All that a turn is about: what waking the runner leaves alone.
SameTurns(p, r) ==
  /\ r.turns = p.turns /\ r.active = p.active /\ r.count = p.count /\ r.pump = p.pump
  /\ r.calls = p.calls /\ r.steering = p.steering
\* What the session knows besides.
SameSession(p, r) ==
  /\ r.recovery = p.recovery /\ r.close = p.close /\ r.conn = p.conn

\* Changes of the memory.  The lemmas say of each what it leaves alone.
WithFlags(p, scheduled, recovery, asks, conn, close) ==
  [p EXCEPT !.scheduled = scheduled, !.recovery = recovery, !.asks = asks,
            !.conn = conn, !.close = close]
WithRunner(p, closed, failure) == [p EXCEPT !.closed = closed, !.failure = failure]
WithTurns(p, active, turns) == [p EXCEPT !.active = active, !.turns = turns]
WithTurn(p, n, turn) == [p EXCEPT !.turns = [p.turns EXCEPT ![n] = turn]]
WithNewTurn(p, n, turn) == [p EXCEPT !.count = n, !.active = n, !.turns = [p.turns EXCEPT ![n] = turn]]
WithPump(p, pump) == [p EXCEPT !.pump = pump]
WithSteering(p, steering) == [p EXCEPT !.steering = steering]
WithCalls(p, calls) == [p EXCEPT !.calls = calls]

LEMMA RunnerSet ==
  ASSUME NEW p \in Processes, NEW closed \in BOOLEAN, NEW failure \in {"none", "uncertain", "halted"}
  PROVE  LET r == WithRunner(p, closed, failure) IN
         /\ r \in Processes /\ SameTurns(p, r) /\ SameSession(p, r)
         /\ r.closed = closed /\ r.failure = failure
         /\ r.scheduled = p.scheduled
BY DEF WithRunner, Processes, SameTurns, SameSession

\* All but the turns.
SameButTurns(p, r) ==
  /\ r.pump = p.pump /\ r.calls = p.calls /\ r.steering = p.steering
  /\ r.closed = p.closed /\ r.failure = p.failure
  /\ r.scheduled = p.scheduled /\ SameSession(p, r)

LEMMA TurnsSet ==
  ASSUME NEW p \in Processes, NEW turns \in [Turns -> TurnRecords], NEW active \in Numbers
  PROVE  LET r == WithTurns(p, active, turns) IN
         /\ r \in Processes /\ r.turns = turns /\ r.active = active /\ r.count = p.count
         /\ SameButTurns(p, r)
BY DEF WithTurns, Processes, SameSession, SameButTurns

LEMMA TurnSet ==
  ASSUME NEW p \in Processes, NEW n \in Turns, NEW turn \in TurnRecords
  PROVE  LET r == WithTurn(p, n, turn) IN
         /\ r \in Processes /\ r.turns[n] = turn
         /\ \A k \in Turns : k # n => r.turns[k] = p.turns[k]
         /\ r.active = p.active /\ r.count = p.count
         /\ SameButTurns(p, r)
<1>1. p.turns \in [Turns -> TurnRecords]
  BY DEF Processes
<1> DEFINE turns == [p.turns EXCEPT ![n] = turn]
<1>2. /\ turns \in [Turns -> TurnRecords] /\ turns[n] = turn
      /\ \A k \in Turns : k # n => turns[k] = p.turns[k]
  BY <1>1
<1>3. WithTurn(p, n, turn) = [p EXCEPT !.turns = turns]
  BY DEF WithTurn
<1> HIDE DEF turns
<1> QED BY <1>2, <1>3 DEF Processes, SameSession, SameButTurns

LEMMA NewTurnSet ==
  ASSUME NEW p \in Processes, NEW n \in Turns, NEW turn \in TurnRecords
  PROVE  LET r == WithNewTurn(p, n, turn) IN
         /\ r \in Processes /\ r.turns[n] = turn
         /\ \A k \in Turns : k # n => r.turns[k] = p.turns[k]
         /\ r.active = n /\ r.count = n
         /\ SameButTurns(p, r)
<1>1. p.turns \in [Turns -> TurnRecords] /\ n \in Numbers
  BY DEF Processes, Turns, Numbers
<1> DEFINE turns == [p.turns EXCEPT ![n] = turn]
<1>2. /\ turns \in [Turns -> TurnRecords] /\ turns[n] = turn
      /\ \A k \in Turns : k # n => turns[k] = p.turns[k]
  BY <1>1
<1>3. WithNewTurn(p, n, turn) = [p EXCEPT !.count = n, !.active = n, !.turns = turns]
  BY DEF WithNewTurn
<1> HIDE DEF turns
<1> QED BY <1>1, <1>2, <1>3, ZenonT(60) DEF Processes, SameSession, SameButTurns

LEMMA PumpSet ==
  ASSUME NEW p \in Processes, NEW pump \in Pumps
  PROVE  LET r == WithPump(p, pump) IN
         /\ r \in Processes /\ r.turns = p.turns /\ r.count = p.count /\ r.active = p.active
         /\ r.pump = pump /\ r.steering = p.steering /\ r.calls = p.calls
         /\ r.closed = p.closed /\ r.failure = p.failure
         /\ r.scheduled = p.scheduled /\ SameSession(p, r)
BY DEF WithPump, Processes, SameSession

LEMMA SteeringSet ==
  ASSUME NEW p \in Processes, NEW steering \in Steerings
  PROVE  LET r == WithSteering(p, steering) IN
         /\ r \in Processes /\ r.turns = p.turns /\ r.count = p.count /\ r.active = p.active
         /\ r.steering = steering /\ r.pump = p.pump /\ r.calls = p.calls
         /\ r.closed = p.closed /\ r.failure = p.failure
         /\ r.scheduled = p.scheduled /\ SameSession(p, r)
BY DEF WithSteering, Processes, SameSession

LEMMA CallsSet ==
  ASSUME NEW p \in Processes, NEW calls \in [Callers -> CallRecords]
  PROVE  LET r == WithCalls(p, calls) IN
         /\ r \in Processes /\ r.turns = p.turns /\ r.count = p.count /\ r.active = p.active
         /\ r.calls = calls /\ r.pump = p.pump /\ r.steering = p.steering
         /\ r.closed = p.closed /\ r.failure = p.failure
         /\ r.scheduled = p.scheduled /\ SameSession(p, r)
BY DEF WithCalls, Processes, SameSession

\* The same process but for what it has scheduled and counted.
Alike(p, r) ==
  SameTurns(p, r) /\ SameSession(p, r) /\ r.closed = p.closed /\ r.failure = p.failure

LEMMA NewMemory ==
  ASSUME NEW m \in Machines, NEW r \in Processes, NEW n, n = [m EXCEPT !.p = r]
  PROVE  n \in Machines /\ n.q = m.q /\ n.p = r
BY DEF Machines

LEMMA NewRecord ==
  ASSUME NEW m \in Machines, NEW q \in Record, NEW n, n = [m EXCEPT !.q = q]
  PROVE  n \in Machines /\ n.q = q /\ n.p = m.p
BY DEF Machines

LEMMA ScheduledSet ==
  ASSUME NEW p \in Processes, NEW scheduled \in BOOLEAN,
         NEW r, r = [p EXCEPT !.scheduled = scheduled]
  PROVE  r \in Processes /\ Alike(p, r) /\ r.scheduled = scheduled
BY DEF Processes, Alike, SameTurns, SameSession

LEMMA WakeIs ==
  ASSUME NEW m \in Machines
  PROVE  /\ Wake(m) \in Machines /\ Wake(m).q = m.q /\ Alike(m.p, Wake(m).p)
         /\ Wake(m).p.scheduled \/ m.p.closed
<1> DEFINE on == m.p.scheduled \/ ~m.p.closed
           r == [m.p EXCEPT !.scheduled = on]
<1>1. Wake(m) = [m EXCEPT !.p = r]
  BY DEF Wake, Machines
<1>2. m.p \in Processes /\ on \in BOOLEAN /\ (on \/ m.p.closed)
  BY DEF Machines, Processes
<1> HIDE DEF on
<1>3. r \in Processes /\ Alike(m.p, r) /\ r.scheduled = on
  BY <1>2, ScheduledSet
<1> HIDE DEF r
<1> QED BY <1>1, <1>2, <1>3, NewMemory

LEMMA CommitIs ==
  ASSUME NEW m \in Machines, NEW q \in Record
  PROVE  /\ Commit(m, q) \in Machines /\ Commit(m, q).q = q /\ Alike(m.p, Commit(m, q).p)
         /\ Commit(m, q).p.scheduled \/ m.p.closed
<1> DEFINE n == [m EXCEPT !.q = q]
<1>1. n \in Machines /\ n.q = q /\ n.p = m.p
  BY NewRecord
<1>2. Commit(m, q) = Wake(n)
  BY DEF Commit
<1> HIDE DEF n
<1> QED BY <1>1, <1>2, WakeIs

LEMMA CommitTurned ==
  ASSUME NEW m \in Machines, NEW q, NEW ids, NEW status, Turned(m.q, q, ids, status)
  PROVE  LET n == Commit(m, q) IN
         /\ n \in Machines /\ Turned(m.q, n.q, ids, status) /\ Alike(m.p, n.p)
         /\ n.p.scheduled \/ m.p.closed
BY CommitIs DEF Turned

LEMMA AdmitAndRunIs ==
  ASSUME NEW m \in Machines, NEW id \in Ids
  PROVE  LET n == AdmitAndRun(m, id) IN
         /\ n \in Machines /\ Turned(m.q, n.q, {id}, "running") /\ Alike(m.p, n.p)
         /\ n.p.scheduled \/ m.p.closed
<1> DEFINE q == SetStatus(AdmitQ(m.q, id), id, "running")
<1>1. Turned(m.q, q, {id}, "running")
  BY AdmitAndRunTurns DEF Machines
<1>2. AdmitAndRun(m, id) = Commit(m, q)
  BY DEF AdmitAndRun
<1> HIDE DEF q
<1> QED BY <1>1, <1>2, CommitTurned

LEMMA PausedTurns ==
  ASSUME NEW q \in Record, NEW id \in Ids, NEW status \in Statuses
  PROVE  Turned(q, PauseQ(SetStatus(q, id, status)), {id}, status)
BY SetStatusTurns, PauseTurnsNone

LEMMA BlockAndPauseIs ==
  ASSUME NEW m \in Machines, NEW id \in Ids
  PROVE  LET n == BlockAndPause(m, id) IN
         /\ n \in Machines /\ Turned(m.q, n.q, {id}, "blocked") /\ Alike(m.p, n.p)
         /\ n.p.scheduled \/ m.p.closed
<1> DEFINE q == PauseQ(SetStatus(m.q, id, "blocked"))
<1>1. m.q \in Record /\ "blocked" \in Statuses
  BY DEF Machines, Statuses, Mutable
<1>2. Turned(m.q, q, {id}, "blocked")
  BY <1>1, PausedTurns
<1>3. BlockAndPause(m, id) = Commit(m, q)
  BY DEF BlockAndPause
<1> HIDE DEF q
<1> QED BY <1>2, <1>3, CommitTurned

LEMMA StopIs ==
  ASSUME NEW m \in Machines
  PROVE  LET n == Stop(m) IN
         /\ n \in Machines /\ Turned(m.q, n.q, {}, "queued")
         /\ SameTurns(m.p, n.p) /\ SameSession(m.p, n.p)
         /\ n.p.closed /\ n.p.failure = m.p.failure
<1> DEFINE yes == TRUE
           how == m.p.failure
           r == [m.p EXCEPT !.closed = yes, !.failure = how]
           q == PauseQ(m.q)
<1>1. m.q \in Record /\ m.p \in Processes /\ m.p.failure \in {"none", "uncertain", "halted"}
  BY DEF Machines, Processes
<1>2. Turned(m.q, m.q, {}, "queued") /\ Turned(m.q, q, {}, "queued")
  BY <1>1, NoneTurned, PauseTurnsNone
<1>3. CASE m.p.closed
  BY <1>2, <1>3 DEF Stop, SameTurns, SameSession
<1>4. CASE ~m.p.closed
  <2>1. Stop(m) = [[m EXCEPT !.p = r] EXCEPT !.q = q]
    BY <1>1, <1>4 DEF Stop, Machines, Processes
  <2>2. yes \in BOOLEAN /\ yes
    OBVIOUS
  <2>3. how \in {"none", "uncertain", "halted"} /\ how = m.p.failure
    BY <1>1
  <2>3a. r = WithRunner(m.p, yes, how)
    BY DEF WithRunner
  <2> HIDE DEF yes, how, r, q
  <2>4. /\ r \in Processes /\ SameTurns(m.p, r) /\ SameSession(m.p, r)
        /\ r.closed = yes /\ r.failure = how
    BY <1>1, <2>2, <2>3, <2>3a, RunnerSet, ZenonT(60)
  <2> DEFINE n == [m EXCEPT !.p = r]
  <2>5. n \in Machines /\ n.q = m.q /\ n.p = r
    BY <2>4, NewMemory
  <2>6. Stop(m) = [n EXCEPT !.q = q]
    BY <2>1
  <2> HIDE DEF n
  <2>7. q \in Record
    BY <1>2 DEF Turned
  <2>8. Stop(m) \in Machines /\ Stop(m).q = q /\ Stop(m).p = r
    BY <2>5, <2>6, <2>7, NewRecord
  <2> QED BY <1>2, <2>2, <2>3, <2>4, <2>8
<1> QED BY <1>3, <1>4

LEMMA HaltIs ==
  ASSUME NEW m \in Machines
  PROVE  LET n == Halt(m) IN
         /\ n \in Machines /\ n.q = m.q
         /\ SameTurns(m.p, n.p) /\ SameSession(m.p, n.p) /\ n.p.closed /\ n.p.failure # "none"
<1> DEFINE yes == TRUE
           how == "halted"
           r == [m.p EXCEPT !.closed = yes, !.failure = how]
<1>1. m.p \in Processes
  BY DEF Machines
<1>2. Halt(m) = [m EXCEPT !.p = r]
  BY DEF Halt, Machines
<1>3. yes \in BOOLEAN /\ yes /\ how \in {"none", "uncertain", "halted"} /\ how # "none"
  OBVIOUS
<1>4. r = WithRunner(m.p, yes, how)
  BY DEF WithRunner
<1> HIDE DEF yes, how, r
<1>5. /\ r \in Processes /\ SameTurns(m.p, r) /\ SameSession(m.p, r) /\ r.closed = yes
      /\ r.failure = how
  BY <1>1, <1>3, <1>4, RunnerSet
<1>6. Halt(m) \in Machines /\ Halt(m).q = m.q /\ Halt(m).p = r
  BY <1>2, <1>5, NewMemory
<1>7. r.closed /\ r.failure # "none"
  BY <1>3, <1>5
<1> QED BY <1>5, <1>6, <1>7

----------------------------------------------------------------------------
(* What settles a turn.                                                      *)

Ripe(p) ==
  /\ p.turns[p.active].startDone /\ p.turns[p.active].terminal # "none"
  /\ p.steering.stage = "none"
Ending(turn) == turn.steers \cup (IF turn.owned THEN {turn.item} ELSE {})
Outcome(p) == IF p.failure # "none" THEN p.failure ELSE p.turns[p.active].terminal
Ends(m, s) ==
  LET n == m.p.active
      turn == m.p.turns[n]
  IN /\ s \in Machines
     /\ Turned(m.q, s.q, Ending(turn), StatusOf(turn.terminal))
     /\ s.p.active = 0 /\ s.p.count = m.p.count
     /\ s.p.turns[n] = [turn EXCEPT !.done = Outcome(m.p)] /\ Outcome(m.p) \in Results
     /\ \A k \in Turns : k # n => s.p.turns[k] = m.p.turns[k]
     /\ s.p.pump = m.p.pump /\ s.p.calls = m.p.calls /\ s.p.steering = m.p.steering
     /\ SameSession(m.p, s.p) /\ s.p.closed = m.p.closed /\ s.p.failure = m.p.failure
     /\ s.p.scheduled \/ m.p.closed

LEMMA ResultsEnd ==
  ASSUME NEW result \in Results
  PROVE  /\ StatusOf(result) \in Terminal \cup {"execution-uncertain"}
         /\ StatusOf(result) \in Statuses
BY DEF StatusOf, Results, Errors, Terminal, Statuses

LEMMA SettleIs ==
  ASSUME NEW m \in Machines, m.p.active # 0
  PROVE  LET s == Settle(m, m.p.active) IN IF Ripe(m.p) THEN Ends(m, s) ELSE s = m
<1> DEFINE n == m.p.active
           turn == m.p.turns[n]
           ended == turn.steers \cup (IF turn.owned THEN {turn.item} ELSE {})
           status == StatusOf(turn.terminal)
           q1 == [m.q EXCEPT !.status = [id \in Ids |->
                    IF id \in ended THEN status ELSE m.q.status[id]]]
           q2 == IF turn.terminal \in Errors \cup {"failed"} THEN PauseQ(q1) ELSE q1
           result == Outcome(m.p)
           none == 0
           turns == [m.p.turns EXCEPT ![n] = [turn EXCEPT !.done = result]]
           r == [m.p EXCEPT !.active = none, !.turns = turns]
           k == [m EXCEPT !.p = r]
<1>1. /\ m.q \in Record /\ m.p \in Processes /\ n \in Turns
      /\ m.p.turns \in [Turns -> TurnRecords] /\ turn \in TurnRecords
      /\ m.p.failure \in {"none", "uncertain", "halted"}
  BY Bounds, SMTT(60) DEF Machines, Processes, Numbers, Turns
<1>2. CASE ~Ripe(m.p)
  BY <1>2 DEF Settle, Ripe
<1>3. CASE Ripe(m.p)
  <2>1. turn.terminal \in Results /\ result \in Results /\ result = Outcome(m.p)
    BY <1>1, <1>3, SMTT(60) DEF Outcome, Ripe, TurnRecords, Results, Errors
  <2>2. Settle(m, n) = Commit(k, q2)
    BY <1>1, <1>3, ZenonT(60) DEF Outcome, Settle, Ripe, Machines
  <2>3. status \in Statuses
    BY <2>1, ResultsEnd
  <2>4. Turned(m.q, q1, ended, status)
    <3> HIDE DEF ended, status
    <3> QED BY <1>1, <2>3, SeveralTurned
  <2>5. Turned(m.q, q2, ended, status)
    <3> HIDE DEF q1, ended, status
    <3> QED BY <1>1, <2>4, PauseTurnsNone
  <2>6. ended = Ending(turn)
    BY DEF Ending
  <2>7. /\ turns \in [Turns -> TurnRecords]
        /\ turns[n] = [turn EXCEPT !.done = result]
        /\ \A j \in Turns : j # n => turns[j] = m.p.turns[j]
    <3>1. [turn EXCEPT !.done = result] \in TurnRecords
      <4> HIDE DEF result, turn, n
      <4> QED BY <1>1, <2>1 DEF TurnRecords
    <3> HIDE DEF result
    <3> QED BY <1>1, <3>1
  <2>8. r = WithTurns(m.p, none, turns) /\ none \in Numbers /\ none = 0
    BY Bounds DEF WithTurns, Numbers
  <2> HIDE DEF q1, q2, ended, turns, r, none
  <2>9. /\ r \in Processes /\ r.turns = turns /\ r.active = none /\ r.count = m.p.count
        /\ SameButTurns(m.p, r)
    BY <1>1, <2>7, <2>8, TurnsSet
  <2>10. k \in Machines /\ k.q = m.q /\ k.p = r
    BY <2>9, NewMemory
  <2> HIDE DEF k
  <2> DEFINE s == Settle(m, n)
  <2>11. /\ s \in Machines /\ Turned(m.q, s.q, ended, status) /\ Alike(r, s.p)
         /\ s.p.scheduled \/ r.closed
    <3> HIDE DEF status
    <3> QED BY <2>2, <2>5, <2>10, CommitTurned
  <2> HIDE DEF s, result
  <2>12. Ends(m, s)
    <3> SUFFICES /\ Turned(m.q, s.q, Ending(turn), StatusOf(turn.terminal))
                 /\ s.p.active = 0 /\ s.p.count = m.p.count
                 /\ s.p.turns = turns
                 /\ s.p.pump = m.p.pump /\ s.p.calls = m.p.calls /\ s.p.steering = m.p.steering
                 /\ SameSession(m.p, s.p) /\ s.p.closed = m.p.closed /\ s.p.failure = m.p.failure
                 /\ s.p.scheduled \/ m.p.closed
      BY <2>1, <2>7, <2>11 DEF Ends
    <3>1. Turned(m.q, s.q, Ending(turn), StatusOf(turn.terminal))
      BY <2>6, <2>11
    <3>2. /\ s.p.active = 0 /\ s.p.count = m.p.count /\ s.p.turns = turns
          /\ s.p.pump = m.p.pump /\ s.p.calls = m.p.calls /\ s.p.steering = m.p.steering
          /\ SameSession(m.p, s.p) /\ s.p.closed = m.p.closed /\ s.p.failure = m.p.failure
      BY <2>8, <2>9, <2>11 DEF Alike, SameTurns, SameSession, SameButTurns
    <3>3. s.p.scheduled \/ m.p.closed
      BY <2>9, <2>11 DEF SameButTurns
    <3> QED BY <3>1, <3>2, <3>3, SMTT(60)
  <2> QED BY <1>3, <2>12 DEF s
<1> QED BY <1>2, <1>3

\* What a step may do to the record: nobody gets in line, no item vanishes or
\* appears, and only what is in line begins to run.
Leads(q, r) ==
  /\ r.recovered = q.recovered
  /\ \A id \in Ids : /\ r.status[id] = "queued" => q.status[id] = "queued"
                     /\ q.status[id] = "absent" <=> r.status[id] = "absent"
                     /\ r.status[id] = "running" =>
                          q.status[id] = "running" \/ q.status[id] = "queued"

LEMMA TurnedLeads ==
  ASSUME NEW q \in Record, NEW r, NEW ids, NEW status, Turned(q, r, ids, status),
         ids # {} => status \notin {"queued", "absent"},
         \A id \in Ids : id \in ids => q.status[id] # "absent",
         status = "running" => \A id \in Ids : id \in ids => q.status[id] = "queued"
  PROVE  Leads(q, r)
BY DEF Turned, Leads

LEMMA LeadsOn ==
  ASSUME NEW q, NEW r, NEW s, Leads(q, r), Leads(r, s)
  PROVE  Leads(q, s)
BY DEF Leads

LEMMA TurnedTells ==
  ASSUME NEW q, NEW r, NEW ids, NEW status, Told(q), Turned(q, r, ids, status),
         ids = {} \/ status \notin {"completed", "failed"}
  PROVE  Told(r)
BY DEF Told, True, Turned

\* The turns stay as they are.
LEMMA InformedKept ==
  ASSUME NEW p, NEW r, Informed(p), r.turns = p.turns, r.active = p.active, r.count = p.count,
         r.pump = p.pump \/ r.pump.stage # "run", p.closed => r.closed,
         r.closed => r.failure # "none"
  PROVE  Informed(r)
<1>1. KnowsActive(r)
  BY DEF Informed, KnowsActive, Grounded
<1>2. ASSUME NEW k \in Turns PROVE KnowsTurn(r, k)
  BY DEF Informed, KnowsTurn
<1> QED BY <1>1, <1>2 DEF Informed

LEMMA KnownKept ==
  ASSUME NEW m, NEW n, Known(m), n.p.turns = m.p.turns, n.p.active = m.p.active,
         n.p.count = m.p.count, n.p.pump = m.p.pump \/ n.p.pump.stage # "run",
         m.p.closed => n.p.closed, n.p.closed => n.p.failure # "none", Told(n.q)
  PROVE  Known(n)
<1>1. Informed(n.p)
  BY InformedKept DEF Known
<1> QED BY <1>1 DEF Known

\* The result of a turn that settles is the provider's.
LEMMA SettleTells ==
  ASSUME NEW m \in Machines, m.p.active # 0, Ripe(m.p), Known(m), NEW s, Ends(m, s)
  PROVE  Known(s)
<1> DEFINE n == m.p.active
           turn == m.p.turns[n]
           result == Outcome(m.p)
           p == m.p
           r == s.p
<1>1. /\ p \in Processes /\ n \in Turns /\ turn \in TurnRecords
      /\ p.turns \in [Turns -> TurnRecords] /\ n = p.count /\ p.count = proc.count
      /\ p.failure \in {"none", "uncertain", "halted"}
  BY Bounds, SMTT(60) DEF Machines, Processes, Numbers, Turns, Known, Informed, KnowsActive
<1>2. /\ turn.startDone /\ turn.terminal \in Results
      /\ turn.startError = "none" => turn.id = n
      /\ turn.startError # "none" => turn.terminal = turn.startError
      /\ turn.startError = "none" /\ turn.terminal \in Errors =>
           p.closed /\ turn.terminal = "uncertain"
      /\ turn.terminal \in Terminal => turn.id \in Turns /\ provider[turn.id] = turn.terminal
      /\ turn.startError # "halted"
      /\ turn.startError = "remote-error" => provider[n] = "requested"
      /\ turn.startError \in Errors \cup {"none"}
  BY <1>1 DEF Ripe, TurnRecords, Known, Informed, KnowsActive, Grounded, KnowsTurn
<1>3. /\ turn.terminal \in Terminal => turn.startError = "none" /\ provider[n] = turn.terminal
      /\ turn.terminal = "remote-error" =>
           turn.startError = "remote-error" /\ provider[n] = "requested"
      /\ turn.terminal # "halted"
  BY <1>2 DEF Terminal, Errors
<1>4. /\ r.active = 0 /\ r.count = p.count
      /\ \A k \in Turns : k # n => r.turns[k] = p.turns[k]
      /\ r.pump = p.pump /\ r.closed = p.closed /\ r.failure = p.failure
      /\ Turned(m.q, s.q, Ending(turn), StatusOf(turn.terminal))
      /\ r.turns[n] = [turn EXCEPT !.done = result] /\ result \in Results
  BY DEF Ends
<1>5. /\ result \in Terminal => result = turn.terminal
      /\ result = "remote-error" => result = turn.terminal
  BY <1>1, SMTT(60) DEF Outcome, Terminal
<1> HIDE DEF result
<1>6. /\ r.turns[n].item = turn.item /\ r.turns[n].steers = turn.steers
      /\ r.turns[n].startError = turn.startError /\ r.turns[n].done = result
  BY <1>1, <1>4 DEF TurnRecords
<1> HIDE DEF turn, n, p, r
<1>7. Informed(r)
  <2>1. KnowsActive(r)
    BY <1>4 DEF KnowsActive
  <2>2. ASSUME NEW k \in Turns, k # n PROVE KnowsTurn(r, k)
    BY <1>4, <2>2 DEF Known, Informed, KnowsTurn, n, p
  <2>3. KnowsTurn(r, n)
    <3>1. KnowsTurn(p, n)
      BY <1>1, SMTT(60) DEF Known, Informed, p
    <3>2. /\ n > r.count => turn.item = None /\ turn.steers = {}
          /\ turn.startError # "halted"
          /\ turn.startError = "remote-error" => provider[n] = "requested"
          /\ p.pump.stage = "run" /\ n > p.pump.turn =>
               p.pump.item # turn.item /\ p.pump.item \notin turn.steers
      BY <1>4, <3>1 DEF KnowsTurn, turn, n, p
    <3>3. result \in Terminal => provider[n] = result
      BY <1>3, <1>5
    <3>4. result = "remote-error" => turn.startError # "none"
      BY <1>3, <1>5
    <3>5. provider[n] \in {"requested", "running"} => turn.startError # "none" \/ p.closed
      BY <1>2, <1>3 DEF Results, Terminal
    <3> QED BY <1>4, <1>6, <3>2, <3>3, <3>4, <3>5 DEF KnowsTurn
  <2>4. r.closed => r.failure # "none"
    BY <1>4 DEF Known, Informed, p
  <2> QED BY <2>1, <2>2, <2>3, <2>4 DEF Informed
<1>8. Told(s.q)
  <2> SUFFICES ASSUME NEW id \in Ids, id \in Ending(turn)
               PROVE  True(id, StatusOf(turn.terminal))
    BY <1>4 DEF Turned, Told, Known
  <2>1. Carries(n, id)
    BY <1>1 DEF Ending, Carries, Known, turn, n, p
  <2>2. ASSUME NEW k \in Turns, k > n PROVE ~Carries(k, id)
    BY <1>1, <2>2, NoneIsNoInput DEF Known, Informed, KnowsTurn, Carries
  <2>3. LastTurn(n, id)
    BY <2>1, <2>2 DEF LastTurn
  <2>4. ASSUME NEW k \in Turns, LastTurn(k, id) PROVE k = n
    <3>1. ~(n > k) /\ ~(k > n)
      BY <1>1, <2>1, <2>2, <2>4 DEF LastTurn
    <3> QED BY <1>1, <3>1 DEF Turns
  <2>5. StatusOf(turn.terminal) = "completed" => provider[n] = "completed"
    BY <1>2, <1>3 DEF StatusOf, Results, Errors, Terminal
  <2>6. StatusOf(turn.terminal) = "failed" => provider[n] # "completed"
    BY <1>2, <1>3 DEF StatusOf, Results, Errors, Terminal
  <2> QED BY <1>1, <2>3, <2>4, <2>5, <2>6 DEF True
<1>9. \A k \in Turns : r.turns[k].item = p.turns[k].item /\ r.turns[k].steers = p.turns[k].steers
  BY <1>4, <1>6 DEF turn, n, p
<1> QED BY <1>1, <1>4, <1>7, <1>8, <1>9 DEF Known, p, r

\* The active turn learns something that is so.
LEMMA TouchTells ==
  ASSUME NEW m \in Machines, NEW n, Known(m), m.p.active # 0, NEW turn,
         n.q = m.q, n.p.active = m.p.active, n.p.count = m.p.count,
         n.p.turns[m.p.active] = turn, SameButTurns(m.p, n.p),
         \A k \in Turns : k # m.p.active => n.p.turns[k] = m.p.turns[k],
         turn.item = m.p.turns[m.p.active].item, turn.steers = m.p.turns[m.p.active].steers,
         turn.done = "none", turn.startError # "halted",
         turn.startError = "remote-error" => provider[m.p.active] = "requested",
         Grounded(turn, m.p.active, m.p.closed)
  PROVE  Known(n)
<1> DEFINE a == m.p.active
<1>1. a \in Turns /\ a = m.p.count /\ Informed(m.p)
  BY Bounds DEF Machines, Processes, Numbers, Turns, Known, Informed, KnowsActive
<1>2. n.p.pump = m.p.pump /\ n.p.closed = m.p.closed /\ n.p.failure = m.p.failure
  BY DEF SameButTurns
<1>3. KnowsActive(n.p)
  BY <1>1, <1>2 DEF KnowsActive
<1>4. KnowsTurn(n.p, a)
  <2>1. KnowsTurn(m.p, a)
    BY <1>1, SMTT(60) DEF Informed
  <2> QED BY <1>1, <1>2, <2>1 DEF KnowsTurn, Terminal
<1>5. ASSUME NEW k \in Turns, k # a PROVE KnowsTurn(n.p, k)
  BY <1>1, <1>2, <1>5 DEF Informed, KnowsTurn
<1>6. Informed(n.p)
  BY <1>1, <1>2, <1>3, <1>4, <1>5 DEF Informed
<1> QED BY <1>1, <1>6 DEF Known

LEMMA SettleKeeps ==
  ASSUME NEW m \in Machines, m.p.active # 0, Loose(m.q, m.p),
         m.p.turns[m.p.active].startDone =>
           \/ Ripe(m.p)
           \/ m.p.turns[m.p.active].startError = "none" /\ m.p.turns[m.p.active].id # 0
  PROVE  LET s == Settle(m, m.p.active) IN
         /\ s \in Machines /\ Loose(s.q, s.p) /\ AtRest(s.p) /\ Leads(m.q, s.q)
         /\ s.p.count = m.p.count /\ s.p.calls = m.p.calls /\ s.p.closed = m.p.closed
         /\ s = m \/ s.p.scheduled \/ s.p.closed
         /\ Known(m) => Known(s)
<1> DEFINE n == m.p.active
           turn == m.p.turns[n]
           s == Settle(m, n)
           p == m.p
           r == s.p
<1>1. /\ m.q \in Record /\ p \in Processes /\ n \in Turns /\ turn \in TurnRecords
      /\ p.turns \in [Turns -> TurnRecords]
  BY Bounds DEF Machines, Processes, Numbers, Turns
<1>2. CASE ~Ripe(p)
  <2>1. s = m
    BY <1>2, SettleIs
  <2> HIDE DEF s
  <2>2. AtRest(p)
    BY <1>2 DEF AtRest, Ripe
  <2>3. Leads(m.q, m.q)
    BY SMTT(60) DEF Leads
  <2> QED BY <2>1, <2>2, <2>3 DEF s
<1>3. CASE Ripe(p)
  <2> DEFINE status == StatusOf(turn.terminal)
             ids == Ending(turn)
  <2>1. Ends(m, s)
    BY <1>3, SettleIs
  <2> HIDE DEF s
  <2> DEFINE result == Outcome(p)
  <2>2. r.turns[n] = [turn EXCEPT !.done = result] /\ result \in Results
    BY <2>1 DEF Ends
  <2> HIDE DEF result
  <2>3. /\ r.active = 0 /\ r.count = p.count
        /\ \A k \in Turns : k # n => r.turns[k] = p.turns[k]
        /\ r.pump = p.pump /\ r.calls = p.calls /\ r.steering = p.steering
        /\ r.closed = p.closed /\ r.failure = p.failure
        /\ Turned(m.q, s.q, ids, status) /\ s \in Machines
        /\ r.scheduled \/ r.closed
    BY <2>1 DEF Ends
  <2>4. status \in Terminal \cup {"execution-uncertain"}
    <3>1. turn.terminal \in Results
      BY <1>1, <1>3 DEF Ripe, TurnRecords
    <3> QED BY <3>1, ResultsEnd
  <2>5. /\ r.turns[n].item = turn.item /\ r.turns[n].owned = turn.owned
        /\ r.turns[n].startDone = turn.startDone /\ r.turns[n].startError = turn.startError
        /\ r.turns[n].done = result /\ result # "none"
    BY <1>1, <2>2 DEF TurnRecords, Results, Terminal, Errors
  <2>6. turn.startDone /\ p.steering.stage = "none"
    BY <1>3, SMTT(60) DEF Ripe
  <2> HIDE DEF ids, status, r
  <2>7. TurnsFit(r)
    <3>1. \A k \in Turns : r.turns[k].item # None /\ ~r.turns[k].startDone => k = r.active
      BY <2>3, <2>5, <2>6 DEF Loose, TurnsFit
    <3>2. r.pump.stage = "run" =>
            /\ r.pump.turn # 0 /\ r.pump.turn <= r.count /\ r.pump.item \in Ids
            /\ r.turns[r.pump.turn].item = r.pump.item /\ ~r.turns[r.pump.turn].owned
            /\ Over(r.turns[r.pump.turn])
      <4> SUFFICES ASSUME p.pump.stage = "run"
                   PROVE  /\ p.pump.turn # 0 /\ p.pump.turn <= p.count /\ p.pump.item \in Ids
                          /\ r.turns[p.pump.turn].item = p.pump.item /\ ~r.turns[p.pump.turn].owned
                          /\ Over(r.turns[p.pump.turn])
        BY <2>3
      <4>1. p.pump.turn \in Turns
        BY <1>1 DEF Loose, TurnsFit, Processes, Pumps, Numbers, Turns
      <4>2. CASE p.pump.turn = n
        BY <2>5, <2>6, <4>1, <4>2 DEF Loose, TurnsFit, Over
      <4>3. CASE p.pump.turn # n
        BY <2>3, <4>1, <4>3 DEF Loose, TurnsFit
      <4> QED BY <4>2, <4>3
    <3> QED BY <2>3, <2>6, <3>1, <3>2, SMTT(60) DEF Loose, TurnsFit
  <2>8. ASSUME NEW id \in Ids
        PROVE  Holds(r, id) <=> Holds(p, id) /\ id \notin ids
    <3>1. Holds(r, id) <=> p.pump.stage = "run" /\ p.pump.item = id
      BY <2>3, <2>6 DEF Holds
    <3>2. Holds(p, id) <=> \/ p.pump.stage = "run" /\ p.pump.item = id
                           \/ id \in turn.steers \/ id = turn.item
      BY <2>6 DEF Holds
    <3>3. id \in ids <=> id \in turn.steers \/ (turn.owned /\ id = turn.item)
      BY DEF ids, Ending
    <3>4. p.pump.stage = "run" /\ p.pump.item = id => id \notin turn.steers
      BY SMTT(60) DEF Loose, Apart
    <3>5. p.pump.stage = "run" /\ p.pump.item = id /\ id = turn.item => ~turn.owned
      BY DEF Loose, Apart, TurnsFit
    <3>6. ~turn.owned /\ id = turn.item => p.pump.stage = "run" /\ p.pump.item = id
      BY DEF Loose, TurnsFit
    <3> QED BY <3>1, <3>2, <3>3, <3>4, <3>5, <3>6
  <2>9. Carried(s.q, r)
    <3> SUFFICES ASSUME NEW id \in Ids
                 PROVE  /\ s.q.status[id] # "admitted"
                        /\ s.q.status[id] = "running" <=> Holds(r, id)
      BY DEF Carried
    <3>1. m.q.status[id] # "admitted" /\ (m.q.status[id] = "running" <=> Holds(p, id))
      BY DEF Loose, Carried
    <3>2. s.q.status[id] = IF id \in ids THEN status ELSE m.q.status[id]
      BY <2>3 DEF Turned
    <3>3. status # "admitted" /\ status # "running"
      BY <2>4 DEF Terminal
    <3> QED BY <2>8, <3>1, <3>2, <3>3
  <2>10. \A id \in Ids : id \in ids => Holds(p, id)
    BY DEF ids, Ending, Holds
  <2>11. CallFits(s.q, r)
    BY <2>3, <2>8, <2>10 DEF Loose, CallFits, Turned
  <2>12. Apart(r) /\ AtRest(r)
    BY <2>3, <2>6 DEF Apart, AtRest
  <2>13. Leads(m.q, s.q)
    <3>1. status # "queued" /\ status # "absent" /\ status # "running"
      BY <2>4 DEF Terminal
    <3>2. \A id \in Ids : id \in ids => m.q.status[id] # "absent"
      BY <2>10 DEF Loose, Carried
    <3> QED BY <1>1, <2>3, <3>1, <3>2, TurnedLeads
  <2>14. Known(m) => Known(s)
    BY <1>3, <2>1, SettleTells
  <2> QED BY <2>3, <2>7, <2>9, <2>11, <2>12, <2>13, <2>14 DEF Loose, s, r
<1> QED BY <1>2, <1>3

\* The turns stay as they are; inputs at rest may change their status.
LEMMA CarriedKept ==
  ASSUME NEW q, NEW p, NEW s, NEW r, NEW ids, NEW status, Carried(q, p), SameTurns(p, r),
         Turned(q, s, ids, status), status \notin {"admitted", "running"},
         \A id \in Ids : id \in ids => ~Holds(p, id)
  PROVE  Carried(s, r)
BY DEF Carried, SameTurns, Turned, Holds

LEMMA ShapeKept ==
  ASSUME NEW p, NEW r, SameTurns(p, r), r.failure # "none" => r.closed
  PROVE  /\ TurnsFit(p) => TurnsFit(r)
         /\ Apart(p) => Apart(r)
         /\ AtRest(p) => AtRest(r)
         /\ \A id : Holds(p, id) <=> Holds(r, id)
<1>1. /\ r.turns = p.turns /\ r.active = p.active /\ r.count = p.count /\ r.pump = p.pump
      /\ r.calls = p.calls /\ r.steering = p.steering
  BY DEF SameTurns
<1>2. TurnsFit(p) => TurnsFit(r)
  BY <1>1 DEF TurnsFit
<1>3. Apart(p) => Apart(r)
  BY <1>1 DEF Apart
<1>4. AtRest(p) => AtRest(r)
  BY <1>1 DEF AtRest
<1>5. \A id : Holds(p, id) <=> Holds(r, id)
  BY <1>1 DEF Holds
<1> QED BY <1>2, <1>3, <1>4, <1>5

LEMMA LooseKept ==
  ASSUME NEW q, NEW p, NEW s, NEW r, NEW ids, NEW status, Loose(q, p), SameTurns(p, r),
         r.failure # "none" => r.closed,
         Turned(q, s, ids, status), status \notin {"admitted", "running"},
         \A id \in Ids : id \in ids => ~Holds(p, id),
         p.calls["runner"].stage \notin {"idle", "finally"} => p.calls["runner"].item \notin ids
  PROVE  Loose(s, r)
<1>1. TurnsFit(r) /\ Apart(r) /\ Carried(s, r)
  BY ShapeKept, CarriedKept DEF Loose
<1>2. \A id : Holds(p, id) <=> Holds(r, id)
  BY ShapeKept
<1>3. CallFits(s, r)
  BY <1>2 DEF Loose, CallFits, SameTurns, Turned
<1> QED BY <1>1, <1>3 DEF Loose

\* The active turn learns something, and stays the turn of its inputs.
LEMMA TurnTouched ==
  ASSUME NEW q, NEW p \in Processes, NEW r \in Processes, p.active # 0, SameButTurns(p, r),
         r.active = p.active, r.count = p.count,
         \A k \in Turns : k # p.active => r.turns[k] = p.turns[k],
         r.turns[p.active].item = p.turns[p.active].item,
         r.turns[p.active].owned = p.turns[p.active].owned,
         r.turns[p.active].steers = p.turns[p.active].steers,
         r.turns[p.active].done = p.turns[p.active].done,
         p.turns[p.active].startDone => r.turns[p.active].startDone,
         Loose(q, p)
  PROVE  Loose(q, r)
<1> DEFINE n == p.active
<1>1. n \in Turns /\ (p.pump.stage = "run" => p.pump.turn \in Turns)
  BY DEF Processes, Pumps, Numbers, Turns, Loose, TurnsFit
<1>2. \A k \in Turns : r.turns[k].item = p.turns[k].item /\ r.turns[k].owned = p.turns[k].owned
  BY <1>1
<1>3. /\ r.pump = p.pump /\ r.calls = p.calls /\ r.steering = p.steering
      /\ r.closed = p.closed /\ r.failure = p.failure
  BY DEF SameButTurns
<1>4. TurnsFit(r)
  <2>1. r.turns[n].item \in Ids /\ r.turns[n].done = "none"
        /\ (~r.turns[n].owned => r.pump.stage = "run" /\ r.pump.turn = n)
    BY <1>3 DEF Loose, TurnsFit
  <2>2. \A k \in Turns : r.turns[k].item # None /\ ~r.turns[k].startDone => k = n
    BY <1>2 DEF Loose, TurnsFit
  <2>3. r.steering.stage # "none" => r.turns[n].startDone /\ r.steering.item \in Ids
    BY <1>3 DEF Loose, TurnsFit
  <2>4. r.pump.stage = "run" =>
          /\ r.pump.turn # 0 /\ r.pump.turn <= r.count /\ r.pump.item \in Ids
          /\ r.turns[r.pump.turn].item = r.pump.item /\ ~r.turns[r.pump.turn].owned
          /\ r.pump.turn = n \/ Over(r.turns[r.pump.turn])
    BY <1>1, <1>2, <1>3 DEF Loose, TurnsFit
  <2> QED BY <1>3, <2>1, <2>2, <2>3, <2>4 DEF Loose, TurnsFit
<1>5. \A id : Holds(p, id) <=> Holds(r, id)
  BY <1>3 DEF Holds
<1>6. Carried(q, r) /\ CallFits(q, r)
  BY <1>3, <1>5 DEF Loose, Carried, CallFits
<1>7. Apart(r)
  BY <1>3 DEF Loose, Apart
<1> QED BY <1>4, <1>6, <1>7 DEF Loose

LEMMA DisconnectedKeeps ==
  ASSUME NEW m \in Machines, Loose(m.q, m.p), AtRest(m.p)
  PROVE  LET d == Disconnected(m) IN
         /\ d \in Machines /\ Loose(d.q, d.p) /\ AtRest(d.p) /\ Leads(m.q, d.q)
         /\ d.p.count = m.p.count /\ d.p.calls = m.p.calls /\ d.p.closed
         /\ Known(m) => Known(d)
<1> DEFINE how == "uncertain"
           p0 == [m.p EXCEPT !.failure = how]
           m0 == [m EXCEPT !.p = p0]
           m1 == Stop(m0)
           n == m.p.active
           turn == [m1.p.turns[n] EXCEPT !.terminal = how]
           p2 == [m1.p EXCEPT !.turns = [m1.p.turns EXCEPT ![n] = turn]]
           m2 == [m1 EXCEPT !.p = p2]
<1>1. /\ m.q \in Record /\ m.p \in Processes /\ m.p.closed \in BOOLEAN
      /\ m.p.turns \in [Turns -> TurnRecords]
      /\ how \in {"none", "uncertain", "halted"} /\ how # "none"
      /\ how \in Results \cup {"none"}
  BY DEF Machines, Processes, Results, Errors
<1>2. /\ m0 = [m EXCEPT !.p.failure = "uncertain"]
      /\ m2 = [m1 EXCEPT !.p.turns[n].terminal = "uncertain"]
  BY DEF Machines
<1> HIDE DEF how
<1>3. p0 \in Processes /\ SameTurns(m.p, p0) /\ p0.failure = how
  BY <1>1 DEF Processes, SameTurns
<1> HIDE DEF p0
<1>4. m0 \in Machines /\ m0.q = m.q /\ m0.p = p0
  BY <1>3, NewMemory
<1> HIDE DEF m0
<1>5. /\ m1 \in Machines /\ Turned(m.q, m1.q, {}, "queued")
      /\ SameTurns(p0, m1.p) /\ m1.p.closed
  BY <1>4, StopIs
<1> HIDE DEF m1
<1>6. SameTurns(m.p, m1.p)
  BY <1>3, <1>5 DEF SameTurns
<1>7. Loose(m1.q, m1.p) /\ AtRest(m1.p)
  BY <1>5, <1>6, LooseKept, ShapeKept
<1>8. Leads(m.q, m1.q)
  BY <1>1, <1>5, TurnedLeads
<1>9. m1.p.active = n /\ m1.p.count = m.p.count /\ m1.p.calls = m.p.calls /\ m1.p.turns = m.p.turns
  BY <1>6 DEF SameTurns
<1>9a. Known(m) => Known(m1)
  <2>1. m1.p.failure # "none"
    BY <1>1, <1>3, <1>4, <1>5, StopIs DEF m1
  <2>2. Told(m.q) => Told(m1.q)
    BY <1>5, TurnedTells, SMTT(60)
  <2> QED BY <1>5, <1>6, <2>1, <2>2, KnownKept DEF Known, SameTurns
<1>10. Disconnected(m) = IF m1.p.active = 0 THEN m1 ELSE Settle(m2, n)
  BY <1>2, <1>9 DEF Disconnected, m1, m0
<1>11. CASE n = 0
  BY <1>5, <1>7, <1>8, <1>9, <1>9a, <1>10, <1>11
<1>12. CASE n # 0
  <2>1. n \in Turns /\ m1.p \in Processes /\ m1.p.turns[n] \in TurnRecords
    BY Bounds, <1>1, <1>5, <1>9, <1>12, SMTT(60) DEF Machines, Processes, Numbers, Turns
  <2>2. /\ turn \in TurnRecords /\ turn.item = m1.p.turns[n].item
        /\ turn.owned = m1.p.turns[n].owned /\ turn.steers = m1.p.turns[n].steers
        /\ turn.done = m1.p.turns[n].done /\ turn.startDone = m1.p.turns[n].startDone
        /\ turn.startError = m1.p.turns[n].startError /\ turn.id = m1.p.turns[n].id
        /\ turn.terminal = how
    BY <1>1, <2>1 DEF TurnRecords
  <2>3. p2 = WithTurn(m1.p, n, turn)
    BY DEF WithTurn
  <2> HIDE DEF turn, p2
  <2>4. /\ p2 \in Processes /\ p2.turns[n] = turn
        /\ \A k \in Turns : k # n => p2.turns[k] = m1.p.turns[k]
        /\ p2.active = n /\ p2.count = m1.p.count
        /\ SameButTurns(m1.p, p2)
    BY <1>9, <2>1, <2>2, <2>3, TurnSet, SMTT(60)
  <2>5. m2 \in Machines /\ m2.q = m1.q /\ m2.p = p2
    BY <1>5, <2>4, NewMemory
  <2> HIDE DEF m2
  <2>6. Loose(m2.q, m2.p)
    <3>1. /\ m1.p.active # 0 /\ m1.p \in Processes
          /\ p2.active = m1.p.active /\ p2.count = m1.p.count
          /\ \A k \in Turns : k # m1.p.active => p2.turns[k] = m1.p.turns[k]
          /\ p2.turns[m1.p.active].item = m1.p.turns[m1.p.active].item
          /\ p2.turns[m1.p.active].owned = m1.p.turns[m1.p.active].owned
          /\ p2.turns[m1.p.active].steers = m1.p.turns[m1.p.active].steers
          /\ p2.turns[m1.p.active].done = m1.p.turns[m1.p.active].done
          /\ m1.p.turns[m1.p.active].startDone => p2.turns[m1.p.active].startDone
      BY <1>9, <1>12, <2>1, <2>2, <2>4, SMTT(60)
    <3>2. Loose(m1.q, p2)
      <4>1. p2 \in Processes /\ SameButTurns(m1.p, p2) /\ Loose(m1.q, m1.p)
        BY <1>7, <2>4
      <4> QED BY <3>1, <4>1, TurnTouched, ZenonT(60)
    <3> QED BY <2>5, <3>2
  <2>7. m2.p.turns[n].startDone =>
          \/ Ripe(m2.p)
          \/ m2.p.turns[n].startError = "none" /\ m2.p.turns[n].id # 0
    BY <1>7, <1>9, <1>12, <2>2, <2>4, <2>5 DEF AtRest
  <2> DEFINE d == Settle(m2, n)
  <2>8. /\ d \in Machines /\ Loose(d.q, d.p) /\ AtRest(d.p) /\ Leads(m2.q, d.q)
        /\ d.p.count = m2.p.count /\ d.p.calls = m2.p.calls /\ d.p.closed = m2.p.closed
        /\ Known(m2) => Known(d)
    BY <1>12, <2>4, <2>5, <2>6, <2>7, SettleKeeps
  <2>8a. Known(m) => Known(m2)
    <3> SUFFICES ASSUME Known(m1) PROVE Known(m2)
      BY <1>9a
    <3>1. turn.done = "none" /\ turn.startError = "none" /\ (turn.startDone => turn.id = n)
      <4>1. m1.p.active # 0 /\ m1.p.active = n
        BY <1>9, <1>12
      <4>2. turn.done = "none" /\ (turn.startDone => turn.startError = "none")
        BY <1>7, <2>2, <4>1, ZenonT(60) DEF Loose, TurnsFit, AtRest
      <4>3. Grounded(m1.p.turns[n], n, m1.p.closed)
        BY <4>1 DEF Known, Informed, KnowsActive
      <4> QED BY <2>2, <4>2, <4>3 DEF Grounded
    <3>2. turn.terminal = "uncertain" /\ m1.p.closed
      BY <1>5, <2>2 DEF how
    <3>3. Grounded(turn, n, m1.p.closed)
      BY <3>1, <3>2 DEF Grounded, Terminal
    <3>4. /\ m2.q = m1.q /\ m2.p.active = m1.p.active /\ m2.p.count = m1.p.count
          /\ m2.p.turns[m1.p.active] = turn /\ SameButTurns(m1.p, m2.p) /\ m1.p.active = n
          /\ \A k \in Turns : k # m1.p.active => m2.p.turns[k] = m1.p.turns[k]
      BY <1>9, <2>4, <2>5
    <3> QED BY <1>5, <1>12, <2>2, <3>1, <3>3, <3>4, TouchTells, ZenonT(60)
  <2>9. Disconnected(m) = d
    BY <1>9, <1>10, <1>12
  <2> HIDE DEF d
  <2>10. Leads(m.q, d.q)
    BY <1>8, <2>5, <2>8, LeadsOn
  <2>11. d.p.count = m.p.count /\ d.p.calls = m.p.calls /\ d.p.closed
    BY <1>5, <1>9, <2>4, <2>5, <2>8 DEF SameButTurns
  <2> QED BY <2>8, <2>8a, <2>9, <2>10, <2>11
<1> QED BY <1>11, <1>12

----------------------------------------------------------------------------
(* What begins a turn, and what steers one.                                  *)

LEMMA NextIs ==
  ASSUME NEW q, NEW intents, NEW id \in NextInput(q, intents)
  PROVE  id \in Ids /\ q.status[id] = "queued" /\ q.intent[id] \in intents /\ ~q.paused
BY DEF NextInput, First

LEMMA SelectedIs ==
  ASSUME NEW q, NEW id \in Selected(q)
  PROVE  id \in Ids /\ q.status[id] = "queued" /\ ~q.paused
BY NextIs DEF Selected

NewTurn(id, owned) == [NoTurn EXCEPT !.item = id, !.owned = owned]

LEMMA NewTurnIs ==
  ASSUME NEW id \in Ids, NEW owned \in BOOLEAN
  PROVE  LET turn == NewTurn(id, owned) IN
         /\ turn \in TurnRecords /\ turn.item = id /\ turn.owned = owned /\ turn.steers = {}
         /\ ~turn.startDone /\ turn.done = "none"
         /\ turn.startError = "none" /\ turn.terminal = "none"
<1>1. 0 \in Numbers
  BY Bounds DEF Numbers
<1> QED BY <1>1 DEF NewTurn, NoTurn, TurnRecords, Item

\* From q and p to s and r, a turn is reserved for an input that was in line.
Begins(q, p, s, r, id) ==
  LET n == p.count + 1
      turn == r.turns[n]
  IN /\ p.active = 0 /\ q.status[id] # "running"
     /\ n \in Turns /\ Turned(q, s, {id}, "running")
     /\ r.count = n /\ r.active = n
     /\ turn.item = id /\ turn.steers = {} /\ ~turn.startDone /\ turn.done = "none"
     /\ turn.startError = "none" /\ turn.terminal = "none"
     /\ \A k \in Turns : k # n => r.turns[k] = p.turns[k]
     /\ r.steering = p.steering /\ r.calls = p.calls
     /\ r.closed = p.closed /\ r.failure = p.failure
     /\ turn.owned => r.pump = p.pump
     /\ ~turn.owned => /\ p.pump.stage # "run"
                       /\ r.pump.stage = "run" /\ r.pump.item = id /\ r.pump.turn = n
     /\ p.calls["runner"].stage \notin {"idle", "finally"} => p.calls["runner"].item # id

LEMMA BeginsKeeps ==
  ASSUME NEW q, NEW p \in Processes, NEW s, NEW r \in Processes, NEW id \in Ids,
         Loose(q, p), Begins(q, p, s, r, id)
  PROVE  Loose(s, r) /\ AtRest(r) /\ (Informed(p) => Informed(r))
<1> DEFINE n == p.count + 1
           owned == r.turns[n].owned
<1>1. /\ r.turns[n].item = id /\ r.turns[n].steers = {}
      /\ ~r.turns[n].startDone /\ r.turns[n].done = "none" /\ n # 0 /\ n \in Turns
      /\ r.turns[n].startError = "none" /\ r.turns[n].terminal = "none"
      /\ p.active = 0 /\ q.status[id] # "running" /\ Turned(q, s, {id}, "running")
      /\ r.count = n /\ r.active = n
      /\ \A k \in Turns : k # n => r.turns[k] = p.turns[k]
      /\ r.steering = p.steering /\ r.calls = p.calls
      /\ r.closed = p.closed /\ r.failure = p.failure
      /\ owned => r.pump = p.pump
      /\ ~owned => /\ p.pump.stage # "run"
                   /\ r.pump.stage = "run" /\ r.pump.item = id /\ r.pump.turn = n
      /\ p.calls["runner"].stage \notin {"idle", "finally"} => p.calls["runner"].item # id
  BY DEF Begins, Turns
<1>1a. n = p.count + 1 /\ p.count \in Numbers
  BY DEF Processes
<1> HIDE DEF n
<1>2. r.steering.stage = "none"
  BY <1>1 DEF Loose, TurnsFit
<1>3. \A k \in Turns : p.turns[k].item # None => p.turns[k].startDone
  BY <1>1 DEF Loose, TurnsFit, Turns
<1>4. p.pump.stage = "run" => p.pump.turn \in Turns /\ p.pump.turn # n /\ p.pump.turn <= n
  <2> SUFFICES ASSUME p.pump.stage = "run"
               PROVE  p.pump.turn \in Turns /\ p.pump.turn # n /\ p.pump.turn <= n
    OBVIOUS
  <2>1. p.pump.turn # 0 /\ p.pump.turn <= p.count
    BY DEF Loose, TurnsFit
  <2>2. p.pump.turn \in Numbers /\ p.count \in Numbers
    BY DEF Processes, Pumps
  <2> QED BY <1>1a, <2>1, <2>2, Bounds DEF Numbers, Turns
<1>5. TurnsFit(r)
  <2>1. \A k \in Turns : r.turns[k].item # None /\ ~r.turns[k].startDone => k = n
    BY <1>1, <1>3
  <2>2. r.pump.stage = "run" =>
          /\ r.pump.turn # 0 /\ r.pump.turn <= r.count /\ r.pump.item \in Ids
          /\ r.turns[r.pump.turn].item = r.pump.item /\ ~r.turns[r.pump.turn].owned
          /\ r.pump.turn = n \/ Over(r.turns[r.pump.turn])
    <3>1. CASE owned
      <4>1. r.pump = p.pump
        BY <1>1, <3>1
      <4>2. p.pump.stage = "run" => r.turns[p.pump.turn] = p.turns[p.pump.turn]
        BY <1>1, <1>4
      <4> QED BY <1>1, <1>4, <4>1, <4>2 DEF Loose, TurnsFit
    <3>2. CASE ~owned
      <4>1. r.pump.stage = "run" /\ r.pump.item = id /\ r.pump.turn = n
        BY <1>1, <3>2
      <4> QED BY <1>1, <3>2, <4>1 DEF Turns
    <3> QED BY <3>1, <3>2
  <2>3. r.failure # "none" => r.closed
    BY <1>1 DEF Loose, TurnsFit
  <2> QED BY <1>1, <1>2, <2>1, <2>2, <2>3 DEF TurnsFit
<1>6. ASSUME NEW x \in Ids PROVE Holds(r, x) <=> x = id \/ Holds(p, x)
  BY <1>1, <1>2 DEF Holds
<1>7. ~Holds(p, id)
  BY <1>1 DEF Loose, Carried
<1>8. Carried(s, r)
  BY <1>1, <1>6 DEF Loose, Carried, Turned
<1>9. Apart(r)
  <2>1. r.pump.stage = "run" => r.pump.turn = n \/ r.pump.item # id
    BY <1>1, <1>7 DEF Holds
  <2> QED BY <1>1, <1>2, <2>1 DEF Apart
<1>10. CallFits(s, r)
  BY <1>1, <1>6 DEF Loose, CallFits, Turned
<1>11. ASSUME Informed(p) PROVE Informed(r)
  <2>1. KnowsActive(r)
    BY <1>1 DEF KnowsActive, Grounded, Terminal, Errors
  <2>2. KnowsTurn(r, n)
    <3>1. r.pump.stage = "run" /\ n > r.pump.turn => r.pump.item # id
      <4>1. CASE owned
        <5>1. p.pump.stage = "run" => p.pump.item # id
          BY <1>7 DEF Holds
        <5> QED BY <1>1, <4>1, <5>1
      <4>2. CASE ~owned
        BY <1>1, <4>2 DEF Turns
      <4> QED BY <4>1, <4>2
    <3> QED BY <1>1, <3>1 DEF KnowsTurn, Terminal, Turns
  <2>3. ASSUME NEW k \in Turns, k # n PROVE KnowsTurn(r, k)
    <3>1. KnowsTurn(p, k) /\ r.turns[k] = p.turns[k] /\ id # None
      BY <1>1, <1>11, <2>3, NoneIsNoInput DEF Informed
    <3>2. /\ k > r.count => k > p.count
          /\ k > n => k > p.count
      BY <1>1, <1>1a, Bounds DEF Numbers, Turns
    <3>3. r.pump.stage = "run" /\ k > r.pump.turn =>
            r.pump.item # r.turns[k].item /\ r.pump.item \notin r.turns[k].steers
      <4>1. CASE owned
        BY <1>1, <3>1, <4>1 DEF KnowsTurn
      <4>2. CASE ~owned
        BY <1>1, <3>1, <3>2, <4>2 DEF KnowsTurn
      <4> QED BY <4>1, <4>2
    <3>4. provider[k] \in {"requested", "running"} => r.turns[k].startError # "none" \/ r.closed
      BY <1>1, <3>1 DEF KnowsTurn, Turns
    <3> QED BY <3>1, <3>2, <3>3, <3>4 DEF KnowsTurn
  <2>4. r.closed => r.failure # "none"
    BY <1>1, <1>11 DEF Informed
  <2> QED BY <2>1, <2>2, <2>3, <2>4 DEF Informed
<1> QED BY <1>1, <1>5, <1>8, <1>9, <1>10, <1>11 DEF Loose, AtRest

LEMMA ReserveIs ==
  ASSUME NEW m \in Machines, NEW id \in Ids, NEW owned \in BOOLEAN, m.p.count < MaxTurns
  PROVE  LET s == Reserve(m, id, owned)
             n == m.p.count + 1
         IN /\ s \in Machines /\ s.q = m.q /\ n \in Turns
            /\ s.p.count = n /\ s.p.active = n /\ s.p.turns[n] = NewTurn(id, owned)
            /\ \A k \in Turns : k # n => s.p.turns[k] = m.p.turns[k]
            /\ SameButTurns(m.p, s.p)
<1> DEFINE n == m.p.count + 1
           turn == NewTurn(id, owned)
           r == WithNewTurn(m.p, n, turn)
<1>1. m.p \in Processes /\ n \in Turns
  BY Bounds DEF Machines, Processes, Numbers, Turns
<1>2. turn \in TurnRecords
  BY NewTurnIs
<1>3. Reserve(m, id, owned) = [m EXCEPT !.p = r]
  BY DEF Reserve, Machines, NewTurn, WithNewTurn
<1> HIDE DEF n, turn
<1>4. /\ r \in Processes /\ r.turns[n] = turn
      /\ \A k \in Turns : k # n => r.turns[k] = m.p.turns[k]
      /\ r.active = n /\ r.count = n
      /\ SameButTurns(m.p, r)
  BY <1>1, <1>2, NewTurnSet
<1> HIDE DEF r
<1>5. Reserve(m, id, owned) \in Machines /\ Reserve(m, id, owned).q = m.q
      /\ Reserve(m, id, owned).p = r
  BY <1>3, <1>4, NewMemory
<1> QED BY <1>1, <1>4, <1>5 DEF n, turn

Ended(p) == WithPump(p, [p.pump EXCEPT !.stage = "ended"])

LEMMA EndedIs ==
  ASSUME NEW p \in Processes
  PROVE  LET r == Ended(p) IN
         /\ r \in Processes /\ r.pump.stage = "ended"
         /\ r.turns = p.turns /\ r.count = p.count /\ r.active = p.active
         /\ r.steering = p.steering /\ r.calls = p.calls
         /\ r.closed = p.closed /\ r.failure = p.failure
         /\ r.scheduled = p.scheduled /\ SameSession(p, r)
<1> DEFINE pump == [p.pump EXCEPT !.stage = "ended"]
<1>1. pump \in Pumps /\ pump.stage = "ended"
  BY DEF Processes, Pumps
<1>2. Ended(p) = WithPump(p, pump)
  BY DEF Ended
<1> HIDE DEF pump
<1> QED BY <1>1, <1>2, PumpSet

\* How many turns a step reserves, and for what.
Counts(m, n) ==
  \/ n.p.count = m.p.count
  \/ /\ n.p.count = m.p.count + 1 /\ n.p.count \in Turns /\ n.p.active = n.p.count
     /\ m.p.active = 0 /\ ~m.p.closed
     /\ \E id \in Ids : n.q.status[id] = "running" /\ m.q.status[id] # "running"

\* The pump is free: no input waits for a result of it.
LEMMA DispatchKeeps ==
  ASSUME NEW m \in Machines, NEW unchanged \in BOOLEAN, Loose(m.q, Ended(m.p)), AtRest(m.p),
         Selected(m.q) # {} => m.p.count < MaxTurns
  PROVE  LET n == Dispatch(m, unchanged) IN
         /\ n \in Machines /\ Loose(n.q, n.p) /\ AtRest(n.p) /\ Leads(m.q, n.q) /\ Counts(m, n)
         /\ (n.p.pump.stage = "ended" /\ n.p.active = m.p.active) \/ n.p.scheduled
         /\ m.p.scheduled \/ m.p.closed => n.p.scheduled \/ n.p.closed
         /\ Informed(m.p) => Informed(n.p)
         /\ Told(m.q) => Told(n.q)
<1> DEFINE n == Dispatch(m, unchanged)
           p == Ended(m.p)
           id == CHOOSE id \in Selected(m.q) : TRUE
           ended(k) == [k EXCEPT !.p.pump.stage = "ended"]
           no == FALSE
           begun == AdmitAndRun(m, id)
           reserved == Reserve(begun, id, no)
           pump == [stage |-> "run", item |-> id, turn |-> m.p.count + 1]
           running == [reserved EXCEPT !.p.pump = pump]
<1>1. m.q \in Record /\ m.p \in Processes
  BY DEF Machines
<1>2. /\ p \in Processes /\ p.pump.stage = "ended"
      /\ p.turns = m.p.turns /\ p.count = m.p.count /\ p.active = m.p.active
      /\ p.steering = m.p.steering /\ p.calls = m.p.calls
      /\ p.closed = m.p.closed /\ p.failure = m.p.failure
      /\ p.scheduled = m.p.scheduled /\ SameSession(m.p, p)
  BY <1>1, EndedIs
<1>3. ASSUME NEW k \in Machines
      PROVE  ended(k) \in Machines /\ ended(k).q = k.q /\ ended(k).p = Ended(k.p)
  <2>1. k.p \in Processes /\ ended(k) = [k EXCEPT !.p = Ended(k.p)]
    BY DEF Machines, Ended, WithPump
  <2>2. Ended(k.p) \in Processes
    BY <2>1, EndedIs
  <2> HIDE DEF ended
  <2> QED BY <2>1, <2>2, NewMemory
<1>4. n = IF ~MayDispatch(m) \/ Selected(m.q) = {} THEN ended(m)
          ELSE IF InputReady(m.q, raw, id, unchanged) THEN running
          ELSE ended(BlockAndPause(m, id))
  BY DEF Dispatch
<1>5. Loose(m.q, p) /\ AtRest(p) /\ (Informed(m.p) => Informed(p))
  <2>1. p.pump.stage # "run" /\ (Informed(m.p) => (p.closed => p.failure # "none"))
    BY <1>2 DEF Informed
  <2> HIDE DEF p
  <2>2. Informed(m.p) => Informed(p)
    BY <1>2, <2>1, InformedKept
  <2>3. AtRest(p)
    BY <1>2 DEF AtRest
  <2> QED BY <2>2, <2>3 DEF p
<1>6. CASE ~MayDispatch(m) \/ Selected(m.q) = {}
  <2> HIDE DEF ended, p, running, id
  <2>1. n = ended(m)
    BY <1>4, <1>6
  <2> HIDE DEF n
  <2>2. n \in Machines /\ n.q = m.q /\ n.p = p
    BY <1>3, <2>1 DEF p
  <2>3. Leads(m.q, n.q)
    BY <2>2 DEF Leads
  <2> QED BY <1>2, <1>5, <1>6, <2>2, <2>3 DEF Counts, p, n
<1>7. CASE MayDispatch(m) /\ Selected(m.q) # {}
  <2>1. id \in Selected(m.q)
    BY <1>7
  <2>2. id \in Ids /\ m.q.status[id] = "queued"
    BY <2>1, SelectedIs
  <2>3. /\ m.p.active = 0 /\ m.p.calls["runner"].stage = "idle" /\ ~m.p.closed
        /\ m.p.count < MaxTurns
    BY <1>7 DEF MayDispatch, Busy, Interrupting
  <2>4. ~Holds(p, id)
    BY <2>2 DEF Loose, Carried
  <2> HIDE DEF ended, p, id, no, pump
  <2>5. CASE ~InputReady(m.q, raw, id, unchanged)
    <3> DEFINE b == BlockAndPause(m, id)
    <3>1. n = ended(b)
      BY <1>4, <1>7, <2>5
    <3>2. /\ b \in Machines /\ Turned(m.q, b.q, {id}, "blocked") /\ Alike(m.p, b.p)
          /\ b.p.scheduled \/ m.p.closed
      BY <2>2, BlockAndPauseIs
    <3> HIDE DEF b, n
    <3> DEFINE r == Ended(b.p)
    <3>3. n \in Machines /\ n.q = b.q /\ n.p = r
      BY <1>3, <3>1, <3>2
    <3>4. /\ r.pump.stage = "ended"
          /\ r.turns = b.p.turns /\ r.count = b.p.count /\ r.active = b.p.active
          /\ r.steering = b.p.steering /\ r.calls = b.p.calls
          /\ r.closed = b.p.closed /\ r.failure = b.p.failure
          /\ r.scheduled = b.p.scheduled
      <4>1. b.p \in Processes
        BY <3>2 DEF Machines
      <4> QED BY <4>1, EndedIs
    <3> HIDE DEF r
    <3>5. /\ r.turns = p.turns /\ r.count = p.count /\ r.active = p.active
          /\ r.steering = p.steering /\ r.calls = p.calls
          /\ r.closed = p.closed /\ r.failure = p.failure
      BY <1>2, <3>2, <3>4 DEF Alike, SameTurns
    <3>6. TurnsFit(r) /\ Apart(r) /\ AtRest(r) /\ \A x : Holds(p, x) <=> Holds(r, x)
      <4>1. TurnsFit(r)
        BY <1>2, <1>5, <3>4, <3>5, SMTT(60) DEF Loose, TurnsFit
      <4>2. Apart(r) /\ AtRest(r)
        BY <1>2, <1>5, <3>4, <3>5 DEF Loose, Apart, AtRest
      <4>3. \A x : Holds(p, x) <=> Holds(r, x)
        BY <1>2, <3>4, <3>5 DEF Holds
      <4> QED BY <4>1, <4>2, <4>3, SMTT(60)
    <3>7. Carried(n.q, r)
      BY <1>5, <2>4, <3>2, <3>3, <3>6 DEF Loose, Carried, Turned
    <3>8. CallFits(n.q, r)
      BY <1>2, <2>3, <3>5 DEF CallFits
    <3>9. Leads(m.q, n.q)
      BY <1>1, <2>2, <3>2, <3>3, TurnedLeads
    <3>10. n.p.count = m.p.count /\ n.p.pump.stage = "ended" /\ n.p.scheduled
      BY <1>2, <2>3, <3>2, <3>3, <3>4, <3>5
    <3>11. Told(m.q) => Told(n.q)
      BY <3>2, <3>3, TurnedTells
    <3>12. Informed(m.p) => Informed(r)
      <4>1. r.pump.stage # "run" /\ (Informed(p) => (r.closed => r.failure # "none"))
        BY <3>4, <3>5 DEF Informed
      <4> QED BY <1>5, <3>5, <4>1, InformedKept
    <3> QED BY <3>3, <3>6, <3>7, <3>8, <3>9, <3>10, <3>11, <3>12 DEF Loose, Counts, n
  <2>6. CASE InputReady(m.q, raw, id, unchanged)
    <3>1. n = running
      BY <1>4, <1>7, <2>6
    <3>2. no \in BOOLEAN /\ ~no
      BY DEF no
    <3>3. begun \in Machines /\ Turned(m.q, begun.q, {id}, "running") /\ Alike(m.p, begun.p)
          /\ begun.p.scheduled
      BY <2>2, <2>3, AdmitAndRunIs
    <3>4. begun.p.count = m.p.count /\ begun.p.turns = m.p.turns
      BY <3>3 DEF Alike, SameTurns
    <3> HIDE DEF begun, n
    <3> DEFINE k == m.p.count + 1
    <3>5. /\ reserved \in Machines /\ reserved.q = begun.q /\ k \in Turns
          /\ reserved.p.count = k /\ reserved.p.active = k
          /\ reserved.p.turns[k] = NewTurn(id, no)
          /\ \A j \in Turns : j # k => reserved.p.turns[j] = m.p.turns[j]
          /\ SameButTurns(begun.p, reserved.p)
      BY <2>2, <2>3, <3>2, <3>3, <3>4, ReserveIs
    <3> HIDE DEF reserved, k
    <3>6. pump \in Pumps /\ pump.stage = "run" /\ pump.item = id /\ pump.turn = k
      BY <2>2, <3>5 DEF pump, k, Pumps, Item, Numbers, Turns
    <3> DEFINE r == WithPump(reserved.p, pump)
    <3>7. /\ r \in Processes /\ r.turns = reserved.p.turns /\ r.count = k /\ r.active = k
          /\ r.pump = pump /\ r.steering = reserved.p.steering /\ r.calls = reserved.p.calls
          /\ r.closed = reserved.p.closed /\ r.failure = reserved.p.failure
          /\ r.scheduled = reserved.p.scheduled
      <4>1. reserved.p \in Processes
        BY <3>5 DEF Machines
      <4> QED BY <3>5, <3>6, <4>1, PumpSet
    <3>8. n \in Machines /\ n.q = begun.q /\ n.p = r
      <4>1. running = [reserved EXCEPT !.p = r]
        BY <3>5 DEF WithPump, Machines
      <4> HIDE DEF r, running
      <4> QED BY <3>1, <3>5, <3>7, <4>1, NewMemory
    <3> HIDE DEF r
    <3>9. /\ r.steering = p.steering /\ r.calls = p.calls /\ r.closed = p.closed
          /\ r.failure = p.failure /\ r.scheduled
      BY <1>2, <3>3, <3>5, <3>7 DEF Alike, SameTurns, SameButTurns
    <3>10. Loose(n.q, r) /\ AtRest(r) /\ (Informed(p) => Informed(r))
      <4>1. /\ p.active = 0 /\ k = p.count + 1 /\ m.q.status[id] # "running"
            /\ p.calls["runner"].stage = "idle" /\ p.pump.stage # "run"
        BY <1>2, <2>2, <2>3 DEF k
      <4>2. /\ r.turns[k] = NewTurn(id, no)
            /\ \A j \in Turns : j # k => r.turns[j] = p.turns[j]
        BY <1>2, <3>5, <3>7
      <4>3. r.pump.stage = "run" /\ r.pump.item = id /\ r.pump.turn = k
        BY <3>6, <3>7
      <4>4. /\ Loose(m.q, p) /\ p \in Processes /\ r \in Processes
            /\ Turned(m.q, n.q, {id}, "running") /\ k \in Turns /\ r.count = k /\ r.active = k
        BY <1>2, <1>5, <3>2, <3>3, <3>5, <3>7, <3>8
      <4>5. /\ r.turns[k].item = id /\ ~r.turns[k].owned /\ r.turns[k].steers = {}
            /\ ~r.turns[k].startDone /\ r.turns[k].done = "none"
            /\ r.turns[k].startError = "none" /\ r.turns[k].terminal = "none"
        BY <2>2, <3>2, <4>2, NewTurnIs
      <4> HIDE DEF pump
      <4>6. Begins(m.q, p, n.q, r, id)
        BY <3>9, <4>1, <4>2, <4>3, <4>4, <4>5 DEF Begins
      <4> QED BY <2>2, <4>4, <4>6, BeginsKeeps
    <3>11. Leads(m.q, n.q)
      BY <1>1, <2>2, <3>3, <3>8, TurnedLeads
    <3>12. Counts(m, n)
      <4>1. n.q.status[id] = "running" /\ m.q.status[id] # "running"
        BY <2>2, <3>3, <3>8 DEF Turned
      <4> QED BY <2>2, <2>3, <3>5, <3>7, <3>8, <4>1 DEF Counts, k
    <3>13. Told(m.q) => Told(n.q)
      BY <3>3, <3>8, TurnedTells
    <3> QED BY <1>5, <3>8, <3>9, <3>10, <3>11, <3>12, <3>13 DEF n
  <2> QED BY <2>5, <2>6
<1> QED BY <1>6, <1>7

\* Why there is nothing for #pumpSteering to do.
NoSteering(m) ==
  \/ m.p.steering.stage # "none" \/ m.p.close = "turns" \/ m.p.failure # "none"
  \/ m.p.active = 0 \/ NextInput(m.q, {"steering"}) = {}
  \/ ~m.p.turns[m.p.active].startDone \/ m.p.turns[m.p.active].terminal # "none"
  \/ m.p.turns[m.p.active].id = 0

LEMMA PumpSteeringKeeps ==
  ASSUME NEW m \in Machines, NEW unchanged \in BOOLEAN, Loose(m.q, m.p), AtRest(m.p)
  PROVE  LET n == PumpSteering(m, unchanged) IN
         /\ n \in Machines /\ Loose(n.q, n.p) /\ AtRest(n.p) /\ Leads(m.q, n.q)
         /\ n.p.count = m.p.count
         /\ (NoSteering(m) /\ n = m) \/ n.p.scheduled \/ n.p.closed
         /\ Known(m) => Known(n)
<1> DEFINE n == PumpSteering(m, unchanged)
           id == CHOOSE id \in NextInput(m.q, {"steering"}) : TRUE
           rpc == [stage |-> "rpc", item |-> id]
           finally == [stage |-> "finally", item |-> id]
           admitted == AdmitAndRun(m, id)
           blocked == BlockAndPause(m, id)
<1>1. m.q \in Record /\ m.p \in Processes
  BY DEF Machines
<1>2. n = IF NoSteering(m) THEN m
          ELSE IF InputReady(m.q, raw, id, unchanged) THEN [admitted EXCEPT !.p.steering = rpc]
          ELSE [blocked EXCEPT !.p.steering = finally]
  BY DEF PumpSteering, NoSteering
<1>3. CASE NoSteering(m)
  <2>1. Leads(m.q, m.q)
    BY DEF Leads
  <2> HIDE DEF id, rpc, finally, admitted, blocked
  <2>2. n = m
    BY <1>2, <1>3
  <2> HIDE DEF n
  <2> QED BY <1>3, <2>1, <2>2 DEF n
<1>4. CASE ~NoSteering(m)
  <2>1. id \in NextInput(m.q, {"steering"})
    BY <1>4 DEF NoSteering
  <2>2. id \in Ids /\ m.q.status[id] = "queued" /\ m.q.intent[id] = "steering"
    BY <2>1, NextIs
  <2>3. /\ m.p.steering.stage = "none" /\ m.p.active # 0 /\ m.p.failure = "none"
        /\ m.p.turns[m.p.active].startDone /\ m.p.turns[m.p.active].terminal = "none"
        /\ m.p.turns[m.p.active].startError = "none" /\ m.p.turns[m.p.active].id # 0
    BY <1>4 DEF NoSteering, AtRest
  <2>4. ~Holds(m.p, id)
    BY <2>2 DEF Loose, Carried
  <2>5. m.p.calls["runner"].stage \notin {"idle", "finally"} => m.p.calls["runner"].item # id
    BY <2>2 DEF Loose, CallFits
  <2>6. /\ rpc \in Steerings /\ rpc.stage = "rpc" /\ rpc.item = id
        /\ finally \in Steerings /\ finally.stage = "finally" /\ finally.item = id
    BY <2>2 DEF Steerings, Item
  \* Either way the record turns, and the steering is in flight or has been refused.
  <2>7. ASSUME NEW b \in Machines, NEW status \in {"running", "blocked"}, NEW steering \in Steerings,
               Turned(m.q, b.q, {id}, status), Alike(m.p, b.p), b.p.scheduled \/ m.p.closed,
               steering.item = id,
               steering.stage = IF status = "running" THEN "rpc" ELSE "finally",
               n = [b EXCEPT !.p.steering = steering]
        PROVE  /\ n \in Machines /\ Loose(n.q, n.p) /\ AtRest(n.p) /\ Leads(m.q, n.q)
               /\ n.p.count = m.p.count
               /\ n.p.scheduled \/ n.p.closed
               /\ Known(m) => Known(n)
    <3> DEFINE r == WithSteering(b.p, steering)
    <3>1. b.p \in Processes /\ n = [b EXCEPT !.p = r]
      BY <2>7 DEF Machines, WithSteering
    <3>2. /\ r \in Processes /\ r.turns = b.p.turns /\ r.count = b.p.count /\ r.active = b.p.active
          /\ r.steering = steering /\ r.pump = b.p.pump /\ r.calls = b.p.calls
          /\ r.closed = b.p.closed /\ r.failure = b.p.failure
          /\ r.scheduled = b.p.scheduled
      BY <2>7, <3>1, SteeringSet
    <3> HIDE DEF n, r, id, rpc, finally, admitted, blocked
    <3>3. n \in Machines /\ n.q = b.q /\ n.p = r
      BY <3>1, <3>2, NewMemory
    <3>4. /\ r.turns = m.p.turns /\ r.count = m.p.count /\ r.active = m.p.active
          /\ r.pump = m.p.pump /\ r.calls = m.p.calls
          /\ r.closed = m.p.closed /\ r.failure = m.p.failure
      BY <2>7, <3>2 DEF Alike, SameTurns
    <3>5. r.steering.stage # "none"
      BY <2>7, <3>2, SMTT(60)
    <3>6. TurnsFit(r)
      BY <2>2, <2>3, <2>7, <3>2, <3>4 DEF Loose, TurnsFit
    <3>7. AtRest(r)
      BY <2>3, <3>4, <3>5 DEF AtRest
    <3>8. ASSUME NEW x \in Ids
          PROVE  Holds(r, x) <=> Holds(m.p, x) \/ (x = id /\ status = "running")
      BY <2>3, <2>7, <3>2, <3>4 DEF Holds
    <3>9. Carried(b.q, r)
      BY <2>4, <2>7, <3>8 DEF Loose, Carried, Turned
    <3>10. CallFits(b.q, r)
      BY <2>5, <2>7, <3>4, <3>8 DEF Loose, CallFits, Turned
    <3>11. Apart(r)
      <4>1. /\ id \notin m.p.turns[m.p.active].steers /\ id # m.p.turns[m.p.active].item
            /\ m.p.pump.stage = "run" => id # m.p.pump.item
        BY <2>3, <2>4 DEF Holds
      <4> QED BY <2>7, <3>2, <3>4, <4>1 DEF Loose, Apart
    <3>12. Leads(m.q, b.q)
      <4>1. status \notin {"queued", "absent"}
        OBVIOUS
      <4> QED BY <1>1, <2>2, <2>7, <4>1, TurnedLeads
    <3>13. r.scheduled \/ r.closed
      BY <2>7, <3>2, <3>4
    <3>14. Known(m) => Known(n)
      <4>1. Told(m.q) => Told(n.q)
        BY <2>7, <3>3, TurnedTells
      <4>2. Known(m) => (n.p.closed => n.p.failure # "none")
        BY <3>3, <3>4 DEF Known, Informed
      <4> QED BY <3>3, <3>4, <4>1, <4>2, KnownKept DEF Known
    <3> QED BY <3>3, <3>4, <3>6, <3>7, <3>9, <3>10, <3>11, <3>12, <3>13, <3>14 DEF Loose
  <2>8. CASE InputReady(m.q, raw, id, unchanged)
    <3>1. /\ admitted \in Machines /\ Turned(m.q, admitted.q, {id}, "running")
          /\ Alike(m.p, admitted.p)
          /\ admitted.p.scheduled \/ m.p.closed
      BY <2>2, AdmitAndRunIs
    <3>2. n = [admitted EXCEPT !.p.steering = rpc]
      BY <1>2, <1>4, <2>8
    <3> HIDE DEF n, admitted, rpc, id
    <3> QED BY <2>6, <2>7, <3>1, <3>2 DEF n
  <2>9. CASE ~InputReady(m.q, raw, id, unchanged)
    <3>1. /\ blocked \in Machines /\ Turned(m.q, blocked.q, {id}, "blocked")
          /\ Alike(m.p, blocked.p)
          /\ blocked.p.scheduled \/ m.p.closed
      BY <2>2, BlockAndPauseIs
    <3>2. n = [blocked EXCEPT !.p.steering = finally]
      BY <1>2, <1>4, <2>9
    <3> HIDE DEF n, blocked, finally, id
    <3> QED BY <2>6, <2>7, <3>1, <3>2 DEF n
  <2> QED BY <2>8, <2>9
<1> QED BY <1>3, <1>4

----------------------------------------------------------------------------
(* What keeps the invariant.                                                 *)

LEMMA NowIs ==
  ASSUME CInv, live
  PROVE  /\ Now \in Machines /\ Now.q = queue /\ Now.p = proc
         /\ Loose(queue, proc) /\ AtRest(proc) /\ Looks(queue, proc)
BY DEF CInv, Now, Machines

\* The memory changes, but not what it knows of turns and interruptions.
LEMMA MemoryKeeps ==
  ASSUME NEW m \in Machines, NEW n \in Machines, n.q = m.q, SameTurns(m.p, n.p),
         n.p.failure # "none" => n.p.closed, Loose(m.q, m.p), AtRest(m.p)
  PROVE  /\ Loose(n.q, n.p) /\ AtRest(n.p) /\ Leads(m.q, n.q)
         /\ Known(m) /\ (m.p.closed => n.p.closed) /\ (n.p.closed => n.p.failure # "none") =>
              Known(n)
<1>1. Turned(m.q, m.q, {}, "queued")
  BY NoneTurned DEF Machines
<1>2. Loose(n.q, n.p)
  BY <1>1, LooseKept
<1>3. AtRest(n.p)
  BY ShapeKept
<1>4. Leads(m.q, n.q)
  BY DEF Leads
<1>5. Known(m) /\ (m.p.closed => n.p.closed) /\ (n.p.closed => n.p.failure # "none") => Known(n)
  BY KnownKept DEF Known, SameTurns
<1> QED BY <1>2, <1>3, <1>4, <1>5

LEMMA LooksSoon ==
  ASSUME NEW q, NEW p, p.scheduled \/ p.closed \/ p.close # "no"
  PROVE  Looks(q, p)
BY DEF Looks

LEMMA WakeKeeps ==
  ASSUME NEW m \in Machines, Loose(m.q, m.p), AtRest(m.p)
  PROVE  LET n == Wake(m) IN
         /\ n \in Machines /\ Loose(n.q, n.p) /\ AtRest(n.p) /\ Looks(n.q, n.p) /\ Leads(m.q, n.q)
         /\ n.p.count = m.p.count
         /\ Known(m) => Known(n)
<1> DEFINE n == Wake(m)
<1>1. n \in Machines /\ n.q = m.q /\ Alike(m.p, n.p) /\ (n.p.scheduled \/ m.p.closed)
  BY WakeIs
<1> HIDE DEF n
<1>2. SameTurns(m.p, n.p) /\ n.p.closed = m.p.closed /\ n.p.failure = m.p.failure
      /\ n.p.count = m.p.count
  BY <1>1 DEF Alike, SameTurns
<1>3. n.p.failure # "none" => n.p.closed
  BY <1>2 DEF Loose, TurnsFit
<1>4. Looks(n.q, n.p)
  BY <1>1, <1>2, LooksSoon
<1>5. Known(m) => (n.p.closed => n.p.failure # "none")
  BY <1>2 DEF Known, Informed
<1> QED BY <1>1, <1>2, <1>3, <1>4, <1>5, MemoryKeeps DEF n

LEMMA CommitKeeps ==
  ASSUME NEW m \in Machines, NEW q, NEW ids, NEW status, Loose(m.q, m.p), AtRest(m.p),
         Turned(m.q, q, ids, status), status \notin {"admitted", "running"},
         \A id \in Ids : id \in ids => ~Holds(m.p, id),
         m.p.calls["runner"].stage \notin {"idle", "finally"} => m.p.calls["runner"].item \notin ids
  PROVE  LET n == Commit(m, q) IN
         /\ n \in Machines /\ Turned(m.q, n.q, ids, status) /\ Alike(m.p, n.p)
         /\ Loose(n.q, n.p) /\ AtRest(n.p) /\ Looks(n.q, n.p)
         /\ n.p.scheduled \/ n.p.closed
         /\ Known(m) /\ Told(n.q) => Known(n)
<1> DEFINE n == Commit(m, q)
<1>1. /\ n \in Machines /\ Turned(m.q, n.q, ids, status) /\ Alike(m.p, n.p)
      /\ n.p.scheduled \/ m.p.closed
  BY CommitTurned
<1> HIDE DEF n
<1>2. SameTurns(m.p, n.p) /\ n.p.closed = m.p.closed /\ n.p.failure = m.p.failure
  BY <1>1 DEF Alike
<1>3. n.p.failure # "none" => n.p.closed
  BY <1>2 DEF Loose, TurnsFit
<1>4. Loose(n.q, n.p)
  BY <1>1, <1>2, <1>3, LooseKept
<1>5. AtRest(n.p)
  BY <1>2, <1>3, ShapeKept
<1>6. Looks(n.q, n.p)
  BY <1>1, <1>2, LooksSoon
<1>7. Known(m) /\ Told(n.q) => Known(n)
  <2>1. Known(m) => (n.p.closed => n.p.failure # "none")
    BY <1>2 DEF Known, Informed
  <2> QED BY <1>2, <2>1, KnownKept DEF SameTurns
<1> QED BY <1>1, <1>2, <1>4, <1>5, <1>6, <1>7 DEF n

\* A pump that runs nothing may as well have ended.
LEMMA EndedKeeps ==
  ASSUME NEW q, NEW p \in Processes, Loose(q, p), p.pump.stage # "run"
  PROVE  Loose(q, Ended(p))
<1> DEFINE r == Ended(p)
<1>1. /\ r.pump.stage = "ended"
      /\ r.turns = p.turns /\ r.count = p.count /\ r.active = p.active
      /\ r.steering = p.steering /\ r.calls = p.calls
      /\ r.closed = p.closed /\ r.failure = p.failure
  BY EndedIs
<1> HIDE DEF r
<1>2. \A x : Holds(p, x) <=> Holds(r, x)
  BY <1>1 DEF Holds
<1>3. TurnsFit(r)
  BY <1>1 DEF Loose, TurnsFit
<1>4. Apart(r)
  BY <1>1 DEF Loose, Apart
<1>5. Carried(q, r) /\ CallFits(q, r)
  BY <1>1, <1>2 DEF Loose, Carried, CallFits
<1> QED BY <1>3, <1>4, <1>5 DEF Loose, r

LEMMA CallsKeep ==
  ASSUME NEW m \in Machines, NEW calls \in [Callers -> CallRecords], Loose(m.q, m.p), AtRest(m.p),
         NEW n, n = [m EXCEPT !.p.calls = calls],
         calls["runner"].stage \notin {"idle", "finally"} =>
           LET id == calls["runner"].item IN
           id \in Ids /\ ~Holds(m.p, id) /\ m.q.intent[id] = "interject" /\ minted[id] # 0
  PROVE  /\ n \in Machines /\ n.q = m.q /\ n.p.calls = calls
         /\ n.p.turns = m.p.turns /\ n.p.count = m.p.count /\ n.p.active = m.p.active
         /\ n.p.pump = m.p.pump /\ n.p.steering = m.p.steering
         /\ n.p.closed = m.p.closed /\ n.p.failure = m.p.failure
         /\ n.p.scheduled = m.p.scheduled /\ SameSession(m.p, n.p)
         /\ Loose(n.q, n.p) /\ AtRest(n.p) /\ Leads(m.q, n.q)
         /\ Known(m) => Known(n)
<1> DEFINE r == WithCalls(m.p, calls)
<1>1. m.p \in Processes /\ n = [m EXCEPT !.p = r]
  BY DEF Machines, WithCalls
<1>2. /\ r \in Processes /\ r.turns = m.p.turns /\ r.count = m.p.count /\ r.active = m.p.active
      /\ r.calls = calls /\ r.pump = m.p.pump /\ r.steering = m.p.steering
      /\ r.closed = m.p.closed /\ r.failure = m.p.failure
      /\ r.scheduled = m.p.scheduled /\ SameSession(m.p, r)
  BY <1>1, CallsSet
<1> HIDE DEF r
<1>3. n \in Machines /\ n.q = m.q /\ n.p = r
  BY <1>1, <1>2 DEF Machines
<1>4. \A x : Holds(m.p, x) <=> Holds(r, x)
  BY <1>2, SMTT(60) DEF Holds
<1>5. TurnsFit(r) /\ AtRest(r)
  BY <1>2 DEF Loose, TurnsFit, AtRest
<1>6. Apart(r) /\ Carried(m.q, r)
  BY <1>2, <1>4 DEF Loose, Apart, Carried
<1>7. CallFits(m.q, r)
  BY <1>2, <1>4 DEF CallFits
<1>8. Leads(m.q, n.q)
  BY <1>3 DEF Leads
<1>9. Known(m) => Known(n)
  <2>1. Known(m) => (n.p.closed => n.p.failure # "none")
    BY <1>2, <1>3 DEF Known, Informed
  <2>2. /\ n.p.turns = m.p.turns /\ n.p.active = m.p.active /\ n.p.count = m.p.count
        /\ n.p.pump = m.p.pump /\ n.p.closed = m.p.closed /\ n.q = m.q
    BY <1>2, <1>3
  <2>3. Known(m) => Told(n.q)
    BY <2>2 DEF Known
  <2> HIDE DEF r
  <2> QED BY <2>1, <2>2, <2>3, KnownKept
<1> QED BY <1>2, <1>3, <1>5, <1>6, <1>7, <1>8, <1>9 DEF Loose

LEMMA GrantedAreFinite == ASSUME NEW s \in SUBSET Ids PROVE IsFiniteSet(s) /\ Cardinality(s) \in Nat
BY FiniteIds, FS_Subset, FS_CardinalityType

\* What the provider does leaves true what the session knows.
LEMMA InformedOn ==
  ASSUME NEW p, Informed(p), proc' = p,
         \A k \in Turns :
           /\ provider[k] \in Terminal => provider'[k] = provider[k]
           /\ p.turns[k].startError = "remote-error" /\ provider[k] = "requested" =>
                provider'[k] = "requested"
           /\ provider'[k] \in {"requested", "running"} =>
                provider[k] \in {"requested", "running"} \/ k = p.active
  PROVE  Informed(proc)'
<1>1. KnowsActive(proc)'
  BY DEF Informed, KnowsActive, Grounded
<1>2. ASSUME NEW k \in Turns PROVE KnowsTurn(proc, k)'
  <2>1. KnowsTurn(p, k)
    BY DEF Informed
  <2> QED BY <2>1 DEF KnowsTurn
<1>3. (proc.closed => proc.failure # "none")'
  BY DEF Informed
<1> QED BY <1>1, <1>2, <1>3 DEF Informed

LEMMA BecomesKeeps ==
  ASSUME CInv, NEW m \in Machines, Becomes(m), due' \subseteq due,
         Loose(m.q, m.p), AtRest(m.p), Looks(m.q, m.p), Leads(queue, m.q), Counts(Now, m),
         Informed(m.p), Told(m.q)
  PROVE  Kept
<1> DEFINE used == {id \in Ids : m.q.status[id] = "running" /\ queue.status[id] # "running"}
<1>1. /\ live /\ live' = live /\ queue' = m.q /\ proc' = m.p /\ minted' = minted
      /\ granted' = granted \ used
      /\ provider' = [n \in Turns |-> IF n = m.p.count /\ provider[n] = "idle" THEN "requested"
                                      ELSE provider[n]]
  BY DEF Becomes
<1>2. m.q \in Record /\ m.p \in Processes /\ m.p.count \in Numbers /\ proc.count \in Numbers
      /\ Now.q = queue /\ Now.p = proc
  BY DEF Machines, Processes, CInv, Now
<1>3. queue' \in Record /\ proc' \in Processes /\ live' \in BOOLEAN
      /\ minted' \in [Ids -> 0..MaxEpoch]
  BY <1>1, <1>2 DEF CInv
<1>4. (live => Loose(queue, proc) /\ AtRest(proc) /\ Looks(queue, proc))'
  BY <1>1 DEF Loose, CallFits
<1>5. Afforded(queue, granted, proc.count)'
  <2>1. /\ granted \subseteq Ids /\ Cardinality(granted) + proc.count <= MaxTurns
        /\ \A id \in Ids :
             /\ queue.status[id] = "queued" => id \in granted /\ ~queue.recovered[id]
             /\ queue.recovered[id] => id \in granted
             /\ minted[id] = 0 => id \notin granted /\ queue.status[id] = "absent"
    BY DEF CInv, Afforded
  <2>2. granted' \subseteq granted /\ granted' \subseteq Ids
    BY <1>1, <2>1
  <2>3. ASSUME NEW id \in Ids
        PROVE  /\ m.q.status[id] = "queued" => id \in granted' /\ ~m.q.recovered[id]
               /\ m.q.recovered[id] => id \in granted'
               /\ minted[id] = 0 => id \notin granted' /\ m.q.status[id] = "absent"
    <3>1. /\ m.q.recovered = queue.recovered
          /\ m.q.status[id] = "queued" => queue.status[id] = "queued"
          /\ queue.status[id] = "absent" <=> m.q.status[id] = "absent"
          /\ m.q.status[id] = "running" => queue.status[id] = "running" \/ queue.status[id] = "queued"
      BY DEF Leads
    <3>2. id \in granted' <=> id \in granted /\ ~(m.q.status[id] = "running" /\ queue.status[id] # "running")
      BY <1>1
    <3> QED BY <2>1, <3>1, <3>2
  <2>4. /\ IsFiniteSet(granted) /\ Cardinality(granted) \in Nat
        /\ IsFiniteSet(granted') /\ Cardinality(granted') \in Nat
    BY <2>1, <2>2, GrantedAreFinite
  <2>5. Cardinality(granted') + m.p.count <= MaxTurns
    <3>1. CASE m.p.count = proc.count
      <4>1. Cardinality(granted') <= Cardinality(granted)
        BY <2>2, <2>4, FS_Subset
      <4> QED BY <1>2, <2>1, <2>4, <3>1, <4>1, Bounds DEF Numbers
    <3>2. CASE m.p.count # proc.count
      <4>1. PICK id \in Ids : m.q.status[id] = "running" /\ queue.status[id] # "running"
        BY <1>2, <3>2 DEF Counts
      <4>2. m.p.count = proc.count + 1
        BY <1>2, <3>2 DEF Counts
      <4>3. id \in granted
        BY <2>1, <4>1 DEF Leads
      <4>4. granted' \subseteq granted \ {id}
        BY <1>1, <4>1
      <4>5. /\ IsFiniteSet(granted \ {id}) /\ Cardinality(granted \ {id}) = Cardinality(granted) - 1
        BY <2>4, <4>3, FS_RemoveElement
      <4>6. Cardinality(granted') <= Cardinality(granted \ {id})
        BY <4>4, <4>5, FS_Subset
      <4> QED BY <1>2, <2>1, <2>4, <4>2, <4>5, <4>6, Bounds DEF Numbers
    <3> QED BY <3>1, <3>2
  <2> QED BY <1>1, <2>2, <2>3, <2>5 DEF Afforded
<1>6. Announced'
  <2>1. /\ provider \in [Turns -> {"idle", "requested", "running"} \cup Terminal]
        /\ \A n \in Turns : n > proc.count <=> provider[n] = "idle"
        /\ \A n \in Turns : <<"completed", n>> \in due => provider[n] \in Terminal
    BY DEF CInv, Announced
  <2>2. proc.count <= m.p.count
    BY <1>2, Bounds DEF Counts, Numbers
  <2>3. provider' \in [Turns -> {"idle", "requested", "running"} \cup Terminal]
    BY <1>1, <2>1
  <2>4. \A n \in Turns : n > proc'.count <=> provider'[n] = "idle"
    <3>1. ASSUME NEW n \in Turns, n > m.p.count PROVE provider'[n] = "idle"
      <4>1. n > proc.count /\ n # m.p.count
        BY <1>2, <2>2, <3>1, Bounds DEF Numbers, Turns
      <4> QED BY <1>1, <2>1, <4>1
    <3>2. ASSUME NEW n \in Turns, ~(n > m.p.count) PROVE provider'[n] # "idle"
      <4>1. n = m.p.count \/ ~(n > proc.count)
        BY <1>2, <3>2, Bounds DEF Counts, Numbers, Turns
      <4>2. provider[n] = "idle" => n = m.p.count
        BY <2>1, <4>1
      <4> QED BY <1>1, <4>2
    <3> QED BY <1>1, <3>1, <3>2
  <2>5. \A n \in Turns : <<"completed", n>> \in due' => provider'[n] \in Terminal
    <3>1. ASSUME NEW n \in Turns, <<"completed", n>> \in due' PROVE provider'[n] \in Terminal
      <4>1. provider[n] \in Terminal /\ "idle" \notin Terminal
        BY <2>1, <3>1 DEF Terminal
      <4> QED BY <1>1, <4>1
    <3> QED BY <3>1
  <2> QED BY <2>3, <2>4, <2>5 DEF Announced
<1>7. Informed(proc)'
  <2>1. \A n \in Turns : n > proc.count <=> provider[n] = "idle"
    BY DEF CInv, Announced
  <2>2. m.p.count \in Turns /\ provider[m.p.count] = "idle" => m.p.active = m.p.count
    BY <1>2, <2>1, Bounds DEF Counts, Numbers
  <2>3. ASSUME NEW k \in Turns
        PROVE  /\ provider[k] # "idle" => provider'[k] = provider[k]
               /\ provider[k] = "idle" /\ provider'[k] # "idle" => k = m.p.active
    BY <1>1, <2>2
  <2>4. ASSUME NEW k \in Turns
        PROVE  /\ provider[k] \in Terminal => provider'[k] = provider[k]
               /\ provider[k] = "requested" => provider'[k] = "requested"
               /\ provider'[k] \in {"requested", "running"} =>
                    provider[k] \in {"requested", "running"} \/ k = m.p.active
    BY <2>3 DEF Terminal
  <2> QED BY <1>1, <2>4, InformedOn
<1>8. Told(queue')
  BY <1>1
<1>9. Alone
  <2> SUFFICES ASSUME m.p.count > proc.count, NEW n \in Turns, provider[n] = "running"
               PROVE  proc.turns[n].startError # "none"
    BY <1>1 DEF Alone
  <2>1. proc.active = 0 /\ ~proc.closed
    BY <1>2 DEF Counts, Numbers
  <2>2. KnowsTurn(proc, n)
    BY <1>1 DEF CInv, Informed
  <2> QED BY <2>1, <2>2 DEF KnowsTurn, Turns
<1>10. CInv'
  BY <1>1, <1>3, <1>4, <1>5, <1>6, <1>7 DEF CInv
<1> QED BY <1>8, <1>9, <1>10 DEF Kept

\* A step may leave the session this way, but for the runner.
Fits(m) == /\ m \in Machines /\ Loose(m.q, m.p) /\ AtRest(m.p)
           /\ Leads(queue, m.q) /\ m.p.count = proc.count /\ Known(m)

LEMMA FitsAndLooks ==
  ASSUME CInv, NEW m, Fits(m), Looks(m.q, m.p), Becomes(m), due' \subseteq due
  PROVE  Kept
<1>1. Counts(Now, m)
  BY DEF Fits, Counts, Now
<1> QED BY <1>1, BecomesKeeps DEF Fits, Known

LEMMA NowFits ==
  ASSUME CInv, live
  PROVE  Fits(Now)
<1>1. Leads(queue, Now.q)
  BY NowIs DEF Leads
<1>2. Known(Now)
  <2>1. Informed(proc) /\ Told(queue)
    BY DEF CInv, Told
  <2> QED BY <2>1, NowIs DEF Known
<1> QED BY <1>1, <1>2, NowIs DEF Fits

\* Fits, of a machine that differs in the flags.
LEMMA FlagsFit ==
  ASSUME CInv, live, NEW m, Fits(m), NEW n \in Machines, n.q = m.q, SameTurns(m.p, n.p),
         n.p.failure # "none" <=> n.p.closed, m.p.closed => n.p.closed
  PROVE  Fits(n)
<1>1. Loose(n.q, n.p) /\ AtRest(n.p) /\ Known(n)
  BY MemoryKeeps DEF Fits
<1>2. n.p.count = proc.count /\ Leads(queue, n.q)
  BY DEF Fits, SameTurns
<1> QED BY <1>1, <1>2 DEF Fits

LEMMA RoomToDispatch ==
  ASSUME CInv, NEW q, Leads(queue, q), Selected(q) # {}
  PROVE  proc.count < MaxTurns
<1>1. PICK id \in Ids : q.status[id] = "queued"
  BY SelectedIs
<1>2. /\ granted \subseteq Ids /\ Cardinality(granted) + proc.count <= MaxTurns
      /\ queue.status[id] = "queued" => id \in granted
  BY DEF CInv, Afforded
<1>3. id \in granted
  BY <1>1, <1>2 DEF Leads
<1>4. IsFiniteSet(granted) /\ Cardinality(granted) \in Nat
  BY <1>2, GrantedAreFinite
<1>5. Cardinality(granted) # 0
  BY <1>3, <1>4, FS_EmptySet
<1>6. proc.count \in Numbers
  BY DEF CInv, Processes
<1> QED BY <1>2, <1>4, <1>5, <1>6, Bounds DEF Numbers

\* #dispatch, from a pump that may end.
LEMMA DispatchFits ==
  ASSUME CInv, live, NEW m, m \in Machines, Loose(m.q, Ended(m.p)), AtRest(m.p), Leads(queue, m.q),
         m.p.count = proc.count, NEW unchanged \in BOOLEAN,
         m.p.scheduled \/ m.p.closed \/ m.p.active = 0,
         m.p.active = proc.active, m.p.closed = proc.closed, Informed(m.p), Told(m.q),
         Becomes(Dispatch(m, unchanged)), due' \subseteq due
  PROVE  Kept
<1> DEFINE n == Dispatch(m, unchanged)
<1>1. Selected(m.q) # {} => m.p.count < MaxTurns
  BY RoomToDispatch
<1>2. /\ n \in Machines /\ Loose(n.q, n.p) /\ AtRest(n.p) /\ Leads(m.q, n.q) /\ Counts(m, n)
      /\ (n.p.pump.stage = "ended" /\ n.p.active = m.p.active) \/ n.p.scheduled
      /\ m.p.scheduled \/ m.p.closed => n.p.scheduled \/ n.p.closed
      /\ Informed(n.p) /\ Told(n.q)
  BY <1>1, DispatchKeeps
<1>3. Becomes(n)
  OBVIOUS
<1> HIDE DEF n
<1>4. Leads(queue, n.q)
  BY <1>2, LeadsOn
<1>5. Looks(n.q, n.p)
  BY <1>2 DEF Looks
<1>6. Counts(Now, n)
  <2>1. Now.p = proc /\ Now.q = queue
    BY DEF Now
  <2>2. ASSUME NEW id \in Ids, n.q.status[id] = "running", m.q.status[id] # "running"
        PROVE  queue.status[id] # "running"
    BY <1>2, <2>2 DEF Leads
  <2> QED BY <1>2, <2>1, <2>2 DEF Counts
<1> QED BY <1>2, <1>3, <1>4, <1>5, <1>6, BecomesKeeps

\* Changes of one flag.
LEMMA ScheduledOff ==
  ASSUME NEW m \in Machines, NEW n, n = [m EXCEPT !.p.scheduled = FALSE]
  PROVE  n \in Machines /\ n.q = m.q /\ Alike(m.p, n.p)
<1> DEFINE off == FALSE
           r == [m.p EXCEPT !.scheduled = off]
<1>1. n = [m EXCEPT !.p = r] /\ off \in BOOLEAN /\ m.p \in Processes
  BY DEF Machines
<1> HIDE DEF off
<1>2. r \in Processes /\ Alike(m.p, r)
  BY <1>1, ScheduledSet
<1> HIDE DEF r
<1> QED BY <1>1, <1>2 DEF Machines

LEMMA BeginInterruptFits ==
  ASSUME CInv, live, NEW m, Fits(m), NEW id, id \in NextInput(m.q, {"interject"}),
         NEW n, n = BeginInterrupt(m, "runner", id)
  PROVE  Fits(n) /\ Looks(n.q, n.p)
<1> DEFINE call == IF m.p.active # 0 THEN [stage |-> "starting", turn |-> m.p.active, item |-> id]
                   ELSE [stage |-> "finally", turn |-> 0, item |-> id]
           calls == [m.p.calls EXCEPT !["runner"] = call]
<1>1. m \in Machines /\ Loose(m.q, m.p) /\ AtRest(m.p) /\ Leads(queue, m.q)
      /\ m.p.count = proc.count /\ Known(m)
  BY DEF Fits
<1>2. id \in Ids /\ m.q.status[id] = "queued" /\ m.q.intent[id] = "interject"
  BY NextIs
<1>3. /\ m.p.calls \in [Callers -> CallRecords] /\ m.p.active \in Numbers /\ 0 \in Numbers
      /\ m.p \in Processes
  BY <1>1, Bounds DEF Machines, Processes, Numbers
<1>4. call \in CallRecords /\ call.stage # "idle" /\ call.item = id
  BY <1>2, <1>3 DEF CallRecords, Item
<1>5. n = [m EXCEPT !.p.calls = calls]
  BY <1>1 DEF BeginInterrupt, Machines
<1> HIDE DEF call
<1>6. calls \in [Callers -> CallRecords] /\ calls["runner"] = call
  BY <1>3, <1>4 DEF Callers
<1> HIDE DEF calls
<1>7. ~Holds(m.p, id) /\ minted[id] # 0
  <2>1. ~Holds(m.p, id)
    BY <1>1, <1>2 DEF Loose, Carried
  <2>2. queue.status[id] # "absent"
    BY <1>1, <1>2 DEF Leads
  <2> QED BY <1>2, <2>1, <2>2 DEF CInv, Afforded
<1>8. /\ n \in Machines /\ n.q = m.q /\ n.p.calls = calls /\ n.p.count = m.p.count
      /\ Loose(n.q, n.p) /\ AtRest(n.p) /\ Leads(m.q, n.q) /\ Known(n)
  BY <1>1, <1>2, <1>4, <1>5, <1>6, <1>7, CallsKeep
<1>9. Looks(n.q, n.p)
  BY <1>4, <1>6, <1>8 DEF Looks
<1>10. Leads(queue, n.q)
  BY <1>1, <1>8, LeadsOn
<1> QED BY <1>1, <1>8, <1>9, <1>10 DEF Fits

LEMMA RunnerWakesKeeps == ASSUME CInv, RunnerWakes PROVE Kept
<1> DEFINE m == [Now EXCEPT !.p.scheduled = FALSE]
           interject == NextInput(queue, {"interject"})
<1>1. live /\ due' = due
  BY DEF RunnerWakes, Becomes
<1>2. /\ Now \in Machines /\ Now.q = queue /\ Now.p = proc
      /\ Loose(queue, proc) /\ AtRest(proc) /\ Looks(queue, proc)
  BY <1>1, NowIs
<1>3. \/ (proc.closed \/ queue.paused) /\ Becomes(m)
      \/ /\ ~proc.closed /\ ~queue.paused /\ ~Busy(m)
         /\ proc.pump.stage = "none" /\ ~Interrupting(m)
         /\ \E unchanged \in BOOLEAN : Becomes(Dispatch(m, unchanged))
      \/ /\ ~Busy(m) /\ ~(proc.pump.stage = "none" /\ ~Interrupting(m)) /\ Becomes(m)
      \/ /\ Busy(m) /\ interject = {}
         /\ \E unchanged \in BOOLEAN : Becomes(PumpSteering(m, unchanged))
      \/ Interrupting(m) /\ Becomes(m)
      \/ \E id \in interject : Becomes(BeginInterrupt(m, "runner", id))
  BY DEF RunnerWakes
<1>4. m \in Machines /\ m.q = queue /\ Alike(proc, m.p)
  BY <1>2, ScheduledOff
<1> HIDE DEF m
<1>5. /\ SameTurns(proc, m.p) /\ SameSession(proc, m.p) /\ m.p.closed = proc.closed
      /\ m.p.failure = proc.failure
  BY <1>4 DEF Alike
<1>6. /\ m.p.turns = proc.turns /\ m.p.active = proc.active /\ m.p.count = proc.count
      /\ m.p.pump = proc.pump /\ m.p.calls = proc.calls /\ m.p.steering = proc.steering
      /\ m.p.recovery = proc.recovery /\ m.p.close = proc.close
  BY <1>5 DEF SameTurns, SameSession
<1>7. Fits(m)
  <2>1. m.p.failure # "none" <=> m.p.closed
    BY <1>1, <1>2, <1>5 DEF Loose, TurnsFit, CInv, Informed
  <2> QED BY <1>1, <1>2, <1>4, <1>5, <2>1, NowFits, FlagsFit
<1>8. /\ m.p \in Processes /\ Loose(m.q, m.p) /\ AtRest(m.p) /\ Leads(queue, m.q)
      /\ Known(m) /\ Informed(m.p) /\ Told(m.q)
  BY <1>7 DEF Fits, Machines, Known
<1>9. CASE (proc.closed \/ queue.paused) /\ Becomes(m)
  <2>1. Looks(m.q, m.p)
    BY <1>4, <1>5, <1>9 DEF Looks, NextInput
  <2> QED BY <1>1, <1>7, <1>9, <2>1, FitsAndLooks
<1>10. CASE /\ ~proc.closed /\ ~queue.paused /\ ~Busy(m)
            /\ proc.pump.stage = "none" /\ ~Interrupting(m)
            /\ \E unchanged \in BOOLEAN : Becomes(Dispatch(m, unchanged))
  <2>1. m.p.active = 0
    BY <1>10 DEF Busy
  <2>2. Loose(m.q, Ended(m.p))
    BY <1>6, <1>8, <1>10, EndedKeeps
  <2>3. PICK unchanged \in BOOLEAN : Becomes(Dispatch(m, unchanged))
    BY <1>10
  <2> QED BY <1>1, <1>4, <1>5, <1>6, <1>8, <2>1, <2>2, <2>3, DispatchFits
<1>11. CASE ~Busy(m) /\ ~(proc.pump.stage = "none" /\ ~Interrupting(m)) /\ Becomes(m)
  <2>1. m.p.active = 0
    BY <1>11 DEF Busy
  <2>2. m.p.pump.stage = "run" => Over(m.p.turns[m.p.pump.turn])
    BY <1>8, <2>1 DEF Loose, TurnsFit
  <2>3. m.p.pump.stage \in {"none", "run", "ended"}
    BY <1>8 DEF Processes, Pumps
  <2>4. m.p.pump.stage # "none" \/ m.p.calls["runner"].stage # "idle"
    BY <1>6, <1>11 DEF Interrupting
  <2>5. Looks(m.q, m.p)
    BY <2>1, <2>2, <2>3, <2>4 DEF Looks
  <2> QED BY <1>1, <1>7, <1>11, <2>5, FitsAndLooks
<1>12. CASE /\ Busy(m) /\ interject = {}
            /\ \E unchanged \in BOOLEAN : Becomes(PumpSteering(m, unchanged))
  <2>1. PICK unchanged \in BOOLEAN : Becomes(PumpSteering(m, unchanged))
    BY <1>12
  <2> DEFINE n == PumpSteering(m, unchanged)
  <2>2. /\ n \in Machines /\ Loose(n.q, n.p) /\ AtRest(n.p) /\ Leads(m.q, n.q)
        /\ n.p.count = m.p.count
        /\ (NoSteering(m) /\ n = m) \/ n.p.scheduled \/ n.p.closed
        /\ Known(n)
    BY <1>4, <1>8, PumpSteeringKeeps
  <2>3. Becomes(n)
    BY <2>1
  <2> HIDE DEF n
  <2>4. Fits(n)
    BY <1>6, <1>8, <2>2, LeadsOn DEF Fits
  <2>5. ASSUME NoSteering(m) PROVE Looks(m.q, m.p)
    <3>1. m.p.failure # "none" => m.p.closed
      BY <1>8 DEF Loose, TurnsFit
    <3>2. m.p.active # 0 /\ m.p.turns[m.p.active].startDone =>
            /\ m.p.turns[m.p.active].id # 0
            /\ m.p.steering.stage = "none" => m.p.turns[m.p.active].terminal = "none"
      BY <1>8 DEF AtRest
    <3>3. NextInput(m.q, {"interject"}) = {} /\ (m.p.recovery \/ m.p.active # 0)
      BY <1>4, <1>12 DEF Busy
    <3> QED BY <2>5, <3>1, <3>2, <3>3 DEF NoSteering, Looks
  <2>6. Looks(n.q, n.p)
    BY <2>2, <2>5, LooksSoon
  <2> QED BY <1>1, <2>3, <2>4, <2>6, FitsAndLooks
<1>13. CASE Interrupting(m) /\ Becomes(m)
  <2>1. Looks(m.q, m.p)
    BY <1>13 DEF Looks, Interrupting
  <2> QED BY <1>1, <1>7, <1>13, <2>1, FitsAndLooks
<1>14. CASE \E id \in interject : Becomes(BeginInterrupt(m, "runner", id))
  <2>1. PICK id \in interject : Becomes(BeginInterrupt(m, "runner", id))
    BY <1>14
  <2> DEFINE n == BeginInterrupt(m, "runner", id)
  <2>2. id \in NextInput(m.q, {"interject"}) /\ Becomes(n)
    BY <1>4, <2>1
  <2>3. Fits(n) /\ Looks(n.q, n.p)
    BY <1>1, <1>7, <2>2, BeginInterruptFits
  <2> HIDE DEF n
  <2> QED BY <1>1, <2>2, <2>3, FitsAndLooks
<1> QED BY <1>3, <1>9, <1>10, <1>11, <1>12, <1>13, <1>14

\* No turn after this one carries the input, so that it is the last.
LEMMA LastIs ==
  ASSUME NEW n \in Turns, NEW id, LastTurn(n, id), NEW k \in Turns, LastTurn(k, id)
  PROVE  k = n
<1>1. ~(n > k) /\ ~(k > n)
  BY DEF LastTurn
<1> QED BY <1>1 DEF Turns

LEMMA TurnedTrue ==
  ASSUME NEW q, NEW r, NEW ids, NEW status, Told(q), Turned(q, r, ids, status),
         \A id \in Ids : id \in ids => True(id, status)
  PROVE  Told(r)
BY SMTT(60) DEF Told, Turned

\* The result that the runner takes is the provider's.
LEMMA PumpTells ==
  ASSUME CInv, live, PumpReady
  PROVE  LET turn == proc.turns[proc.pump.turn]
             result == IF turn.startError # "none" THEN turn.startError ELSE turn.done
             id == proc.pump.item
             status == IF result \in Errors /\ queue.status[id] = "execution-uncertain"
                       THEN "execution-uncertain" ELSE StatusOf(result)
         IN True(id, status)
<1> DEFINE n == proc.pump.turn
           turn == proc.turns[n]
           result == IF turn.startError # "none" THEN turn.startError ELSE turn.done
           id == proc.pump.item
           status == IF result \in Errors /\ queue.status[id] = "execution-uncertain"
                     THEN "execution-uncertain" ELSE StatusOf(result)
<1>1. /\ proc.pump.stage = "run" /\ turn.startDone
      /\ turn.startError # "none" \/ turn.done # "none"
      /\ Loose(queue, proc) /\ Informed(proc) /\ proc \in Processes
  BY DEF CInv, PumpReady
<1>2. n \in Turns /\ id \in Ids /\ turn.item = id /\ turn \in TurnRecords
  <2>1. n # 0 /\ id \in Ids /\ turn.item = id /\ n \in Numbers
    BY <1>1 DEF Loose, TurnsFit, Processes, Pumps
  <2>2. n \in Turns
    BY <2>1, Bounds DEF Numbers, Turns
  <2> QED BY <1>1, <2>1, <2>2 DEF Processes
<1>3. LastTurn(n, id)
  <2>1. ASSUME NEW k \in Turns, k > n PROVE ~Carries(k, id)
    BY <1>1, <2>1 DEF Informed, KnowsTurn, Carries
  <2> QED BY <1>2, <2>1 DEF LastTurn, Carries
<1>4. /\ turn.done \in Terminal => provider[n] = turn.done
      /\ turn.done = "remote-error" => turn.startError # "none"
      /\ turn.startError # "halted"
      /\ turn.startError = "remote-error" => provider[n] = "requested"
      /\ turn.startError \in Errors \cup {"none"} /\ turn.done \in Results \cup {"none"}
  BY <1>1, <1>2, SMTT(60) DEF Informed, KnowsTurn, TurnRecords
<1>5. /\ result \in Results
      /\ result \in Terminal => provider[n] = result
      /\ result = "remote-error" => provider[n] = "requested"
      /\ result = "halted" => turn.done = "halted"
  BY <1>1, <1>4 DEF Results, Errors, Terminal
<1> HIDE DEF result
<1>6. status = "completed" => provider[n] = "completed"
  BY <1>5 DEF StatusOf, Results, Errors, Terminal
<1>7. status = "failed" => provider[n] # "completed" \/ turn.done = "halted"
  BY <1>5 DEF StatusOf, Results, Errors, Terminal
<1> HIDE DEF status
<1>8. True(id, status)
  BY <1>2, <1>3, <1>6, <1>7, LastIs DEF True
<1> QED BY <1>8 DEF status, result

LEMMA PumpResumesKeeps == ASSUME CInv, PumpResumes PROVE Kept
<1> DEFINE turn == proc.turns[proc.pump.turn]
           result == IF turn.startError # "none" THEN turn.startError ELSE turn.done
           id == proc.pump.item
           status == IF result \in Errors /\ queue.status[id] = "execution-uncertain"
                     THEN "execution-uncertain" ELSE StatusOf(result)
           finished == SetStatus(queue, id, status)
           pauses == result \in Errors \cup {"failed"}
           q == IF pauses THEN PauseQ(finished) ELSE finished
           m == Commit(Now, q)
<1>1. PICK unchanged \in BOOLEAN : Becomes(Dispatch(m, unchanged))
  <2>1. FinishDispatched(Now) = [finished |-> finished, pauses |-> pauses]
    BY DEF FinishDispatched, Now
  <2>2. FinishDispatched(Now).finished = finished /\ FinishDispatched(Now).pauses = pauses
    <3> HIDE DEF finished, pauses
    <3> QED BY <2>1, SMTT(60)
  <2> HIDE DEF finished, pauses
  <2> QED BY <2>2 DEF PumpResumes
<1>2. /\ live /\ due' = due /\ proc.pump.stage = "run" /\ turn.startDone
      /\ turn.startError # "none" \/ turn.done # "none"
  BY <1>1 DEF PumpResumes, PumpReady, Becomes
<1>3. /\ Now \in Machines /\ Now.q = queue /\ Now.p = proc /\ queue \in Record /\ proc \in Processes
      /\ Loose(queue, proc) /\ AtRest(proc)
  BY <1>2, NowIs DEF Machines
<1>4. /\ proc.pump.turn # 0 /\ id \in Ids
      /\ proc.turns[proc.pump.turn].item = id
      /\ proc.pump.turn \in Turns
  BY <1>2, <1>3 DEF Loose, TurnsFit, Processes, Pumps, Numbers, Turns
<1>5. status \in Terminal \cup {"execution-uncertain"} /\ status \in Statuses
  <2>1. turn \in TurnRecords
    BY <1>3, <1>4 DEF Processes
  <2>2. result \in Results
    BY <1>2, <2>1 DEF TurnRecords, Results
  <2>3. StatusOf(result) \in Terminal \cup {"execution-uncertain"} /\ StatusOf(result) \in Statuses
    BY <2>2, ResultsEnd
  <2> HIDE DEF result
  <2> QED BY <2>3 DEF Statuses
\* The turn that was dispatched is no longer the active one.
<1>6. proc.active # 0 => proc.pump.turn # proc.active /\ proc.turns[proc.active].owned
  BY <1>2, <1>3, SMTT(60) DEF Loose, TurnsFit, AtRest
<1>6a. True(id, status)
  <2>1. PumpReady
    BY DEF PumpResumes
  <2> QED BY <1>2, <2>1, PumpTells
<1> HIDE DEF status, turn
<1>7. Turned(queue, q, {id}, status)
  <2>1. Turned(queue, finished, {id}, status)
    BY <1>3, <1>4, <1>5, SetStatusTurns
  <2> HIDE DEF finished, pauses
  <2> QED BY <1>3, <2>1, PauseTurnsNone
<1> HIDE DEF q
<1>8. /\ m \in Machines /\ Turned(queue, m.q, {id}, status) /\ Alike(proc, m.p)
      /\ m.p.scheduled \/ proc.closed
  BY <1>3, <1>7, CommitTurned
<1> HIDE DEF m
<1> DEFINE r == Ended(m.p)
<1>9. /\ r.pump.stage = "ended"
      /\ r.turns = proc.turns /\ r.count = proc.count /\ r.active = proc.active
      /\ r.steering = proc.steering /\ r.calls = proc.calls
      /\ r.closed = proc.closed /\ r.failure = proc.failure
      /\ m.p.count = proc.count /\ m.p.closed = proc.closed
  <2>1. m.p \in Processes
    BY <1>8 DEF Machines
  <2> QED BY <1>8, <2>1, EndedIs DEF Alike, SameTurns
<1> HIDE DEF r
<1>10. TurnsFit(r) /\ Apart(r)
  <2>1. TurnsFit(r)
    BY <1>3, <1>6, <1>9 DEF Loose, TurnsFit
  <2> QED BY <1>3, <1>9, <2>1 DEF Loose, Apart
<1>11. Holds(proc, id)
  BY <1>2 DEF Holds
<1>12. ASSUME NEW x PROVE Holds(r, x) <=> Holds(proc, x) /\ x # id
  <2>1. proc.active # 0 => id \notin proc.turns[proc.active].steers /\ id # proc.turns[proc.active].item
    BY <1>2, <1>3, <1>6 DEF Loose, Apart
  <2>2. proc.steering.stage = "rpc" => proc.steering.item # id
    BY <1>2, <1>3 DEF Loose, Apart
  <2> QED BY <1>2, <1>9, <2>1, <2>2 DEF Holds
<1>13. Carried(m.q, r)
  <2>1. status # "admitted" /\ status # "running"
    BY <1>5 DEF Terminal
  <2> QED BY <1>3, <1>8, <1>12, <2>1 DEF Loose, Carried, Turned
<1>14. CallFits(m.q, r)
  BY <1>3, <1>8, <1>9, <1>11, <1>12 DEF Loose, CallFits, Turned
<1>15. AtRest(m.p)
  BY <1>3, <1>8 DEF AtRest, Alike, SameTurns
<1>16. Leads(queue, m.q)
  <2>1. status # "queued" /\ status # "absent" /\ status # "running"
    BY <1>5 DEF Terminal
  <2>2. queue.status[id] # "absent"
    BY <1>3, <1>4, <1>11 DEF Loose, Carried
  <2> QED BY <1>3, <1>8, <2>1, <2>2, TurnedLeads
<1>17. Loose(m.q, Ended(m.p))
  BY <1>10, <1>13, <1>14 DEF Loose, r
<1>18. Told(m.q)
  <2>1. Told(queue)
    BY DEF Told
  <2> QED BY <1>6a, <1>8, <2>1, TurnedTrue
<1>19. Informed(m.p) /\ m.p.active = proc.active
  <2>1. Informed(proc)
    BY <1>2 DEF CInv
  <2>2. /\ m.p.turns = proc.turns /\ m.p.active = proc.active /\ m.p.count = proc.count
        /\ m.p.pump = proc.pump /\ m.p.closed = proc.closed /\ m.p.failure = proc.failure
    BY <1>8 DEF Alike, SameTurns
  <2>3. m.p.closed => m.p.failure # "none"
    BY <2>1, <2>2 DEF Informed
  <2> QED BY <2>1, <2>2, <2>3, InformedKept
<1> QED BY <1>1, <1>2, <1>8, <1>9, <1>15, <1>16, <1>17, <1>18, <1>19, DispatchFits

LEMMA PumpEndsKeeps == ASSUME CInv, PumpEnds PROVE Kept
<1> DEFINE pump == NewProcess.pump
           m == [Now EXCEPT !.p.pump = pump]
           r == WithPump(proc, pump)
           n == IF ~m.p.closed /\ NextInput(m.q, IntentSet) # {} /\ ~Busy(m) THEN Wake(m) ELSE m
<1>1. proc.pump.stage = "ended" /\ Becomes(n) /\ due' = due /\ live
  BY DEF PumpEnds, Becomes
<1>2. /\ Now \in Machines /\ Now.q = queue /\ Now.p = proc
      /\ Loose(queue, proc) /\ AtRest(proc) /\ Looks(queue, proc)
  BY <1>1, NowIs
<1>3. pump \in Pumps /\ pump.stage = "none"
  BY Bounds DEF NewProcess, Pumps, Item, Numbers
<1>4. m = [Now EXCEPT !.p = r] /\ proc \in Processes
  BY <1>2 DEF Machines, WithPump
<1> HIDE DEF pump
<1>5. /\ r \in Processes /\ r.turns = proc.turns /\ r.count = proc.count /\ r.active = proc.active
      /\ r.pump = pump /\ r.steering = proc.steering /\ r.calls = proc.calls
      /\ r.closed = proc.closed /\ r.failure = proc.failure
      /\ r.scheduled = proc.scheduled /\ SameSession(proc, r)
  BY <1>3, <1>4, PumpSet
<1> HIDE DEF r, m
<1>6. m \in Machines /\ m.q = queue /\ m.p = r
  BY <1>2, <1>4, <1>5, NewMemory
<1>7. Fits(m)
  <2>1. \A x : Holds(proc, x) <=> Holds(r, x)
    BY <1>1, <1>3, <1>5 DEF Holds
  <2>2. TurnsFit(r)
    BY <1>1, <1>2, <1>3, <1>5 DEF Loose, TurnsFit
  <2>3. Apart(r) /\ AtRest(r)
    BY <1>2, <1>3, <1>5 DEF Loose, Apart, AtRest
  <2>4. Carried(queue, r) /\ CallFits(queue, r)
    BY <1>2, <1>5, <2>1 DEF Loose, Carried, CallFits
  <2>5. Known(m)
    <3>1. Known(Now)
      BY <1>1, NowFits DEF Fits
    <3>2. r.closed => r.failure # "none"
      BY <1>2, <1>5, <3>1 DEF Known, Informed
    <3>3. r.pump.stage # "run" /\ Told(m.q)
      BY <1>2, <1>3, <1>5, <1>6, <3>1 DEF Known
    <3> QED BY <1>2, <1>5, <1>6, <3>1, <3>2, <3>3, KnownKept
  <2> QED BY <1>5, <1>6, <2>2, <2>3, <2>4, <2>5 DEF Fits, Loose, Leads
<1>8. CASE n = Wake(m)
  <2>1. Fits(n) /\ Looks(n.q, n.p)
    <3> HIDE DEF n
    <3> QED BY <1>6, <1>7, <1>8, WakeKeeps DEF Fits
  <2> HIDE DEF n
  <2> QED BY <1>1, <2>1, FitsAndLooks
<1>9. CASE n = m /\ (m.p.closed \/ NextInput(m.q, IntentSet) = {} \/ Busy(m))
  <2>1. Looks(m.q, m.p)
    <3>1. CASE m.p.closed \/ NextInput(m.q, IntentSet) = {} \/ m.p.recovery
      BY <3>1 DEF Looks
    <3>2. CASE m.p.active # 0
      BY <1>1, <1>2, <1>5, <1>6, <3>2 DEF Looks, SameSession
    <3> QED BY <1>9, <3>1, <3>2 DEF Busy
  <2> HIDE DEF n
  <2> QED BY <1>1, <1>7, <1>9, <2>1, FitsAndLooks
<1> QED BY <1>8, <1>9

LEMMA SteeringEndsKeeps == ASSUME CInv, SteeringEnds PROVE Kept
<1> DEFINE steering == NewProcess.steering
           m == [Now EXCEPT !.p.steering = steering]
           r == WithSteering(proc, steering)
           n == Wake(IF proc.active = 0 THEN m ELSE Settle(m, proc.active))
<1>1. proc.steering.stage = "finally" /\ Becomes(n) /\ due' = due /\ live
  BY DEF SteeringEnds, Becomes
<1>2. /\ Now \in Machines /\ Now.q = queue /\ Now.p = proc
      /\ Loose(queue, proc) /\ AtRest(proc)
  BY <1>1, NowIs
<1>3. steering \in Steerings /\ steering.stage = "none"
  BY DEF NewProcess, Steerings, Item
<1>4. m = [Now EXCEPT !.p = r] /\ proc \in Processes
  BY <1>2 DEF Machines, WithSteering
<1> HIDE DEF steering
<1>5. /\ r \in Processes /\ r.turns = proc.turns /\ r.count = proc.count /\ r.active = proc.active
      /\ r.steering = steering /\ r.pump = proc.pump /\ r.calls = proc.calls
      /\ r.closed = proc.closed /\ r.failure = proc.failure
  BY <1>3, <1>4, SteeringSet
<1> HIDE DEF r, m
<1>6. m \in Machines /\ m.q = queue /\ m.p = r
  BY <1>2, <1>4, <1>5, NewMemory
<1>7. Loose(m.q, m.p)
  <2>1. \A x : Holds(proc, x) <=> Holds(r, x)
    BY <1>1, <1>3, <1>5 DEF Holds
  <2>2. TurnsFit(r)
    BY <1>1, <1>2, <1>3, <1>5 DEF Loose, TurnsFit
  <2>3. Apart(r)
    BY <1>2, <1>3, <1>5 DEF Loose, Apart
  <2>4. Carried(queue, r) /\ CallFits(queue, r)
    BY <1>2, <1>5, <2>1 DEF Loose, Carried, CallFits
  <2> QED BY <1>6, <2>2, <2>3, <2>4 DEF Loose
<1>7a. Known(m)
  <2>1. Known(Now)
    BY <1>1, NowFits DEF Fits
  <2>2. r.closed => r.failure # "none"
    BY <1>2, <1>5, <2>1 DEF Known, Informed
  <2>3. Told(m.q)
    BY <1>2, <1>6, <2>1 DEF Known
  <2> QED BY <1>2, <1>5, <1>6, <2>1, <2>2, <2>3, KnownKept
<1>8. proc.active # 0
  BY <1>1, <1>2 DEF Loose, TurnsFit
<1>9. m.p.turns[m.p.active].startDone =>
        m.p.turns[m.p.active].startError = "none" /\ m.p.turns[m.p.active].id # 0
  BY <1>2, <1>5, <1>6, <1>8 DEF AtRest
<1> DEFINE s == Settle(m, m.p.active)
<1>10. /\ s \in Machines /\ Loose(s.q, s.p) /\ AtRest(s.p) /\ Leads(m.q, s.q)
       /\ s.p.count = m.p.count /\ Known(s)
  BY <1>5, <1>6, <1>7, <1>7a, <1>8, <1>9, SettleKeeps
<1>11. n = Wake(s)
  BY <1>5, <1>6, <1>8
<1> HIDE DEF s, n
<1>12. Fits(n) /\ Looks(n.q, n.p)
  BY <1>5, <1>6, <1>10, <1>11, WakeKeeps, LeadsOn DEF Fits
<1> QED BY <1>1, <1>12, FitsAndLooks

----------------------------------------------------------------------------
(* Interruptions.                                                            *)

LEMMA DisconnectedFits ==
  ASSUME CInv, live, NEW m, Fits(m)
  PROVE  LET d == Disconnected(m) IN Fits(d) /\ d.p.calls = m.p.calls /\ d.p.closed
<1> DEFINE d == Disconnected(m)
<1>1. /\ m \in Machines /\ Loose(m.q, m.p) /\ AtRest(m.p) /\ Leads(queue, m.q)
      /\ m.p.count = proc.count /\ Known(m)
  BY DEF Fits
<1>2. /\ d \in Machines /\ Loose(d.q, d.p) /\ AtRest(d.p) /\ Leads(m.q, d.q)
      /\ d.p.count = m.p.count /\ d.p.calls = m.p.calls /\ d.p.closed /\ Known(d)
  BY <1>1, DisconnectedKeeps
<1> HIDE DEF d
<1>3. Leads(queue, d.q)
  BY <1>1, <1>2, LeadsOn
<1> QED BY <1>1, <1>2, <1>3 DEF Fits, d

Calling(m, caller, call) == [m EXCEPT !.p.calls[caller] = call]

\* An interruption moves on, for the input it was begun for.
LEMMA CallMoves ==
  ASSUME CInv, live, NEW m, Fits(m), NEW caller \in Callers, NEW call \in CallRecords,
         caller = "runner" /\ call.stage \notin {"idle", "finally"} =>
           /\ m.p.calls["runner"].stage \notin {"idle", "finally"}
           /\ call.item = m.p.calls["runner"].item,
         NEW n, n = Calling(m, caller, call)
  PROVE  /\ Fits(n) /\ n.q = m.q /\ n.p.closed = m.p.closed /\ n.p.scheduled = m.p.scheduled
         /\ n.p.failure = m.p.failure /\ SameSession(m.p, n.p)
         /\ Looks(m.q, m.p) /\ (caller = "runner" => call.stage # "idle") => Looks(n.q, n.p)
<1> DEFINE calls == [m.p.calls EXCEPT ![caller] = call]
<1>1. /\ m \in Machines /\ Loose(m.q, m.p) /\ AtRest(m.p) /\ Leads(queue, m.q)
      /\ m.p.count = proc.count /\ Known(m)
  BY DEF Fits
<1>2. m.p.calls \in [Callers -> CallRecords] /\ m.p \in Processes
  BY <1>1 DEF Machines, Processes
<1>3. n = [m EXCEPT !.p.calls = calls]
  BY <1>1 DEF Machines, Calling
<1>4. /\ calls \in [Callers -> CallRecords]
      /\ calls["runner"] = IF caller = "runner" THEN call ELSE m.p.calls["runner"]
  BY <1>2 DEF Callers
<1> HIDE DEF calls
<1>5. calls["runner"].stage \notin {"idle", "finally"} =>
        LET id == calls["runner"].item IN
        id \in Ids /\ ~Holds(m.p, id) /\ m.q.intent[id] = "interject" /\ minted[id] # 0
  BY <1>1, <1>4 DEF Loose, CallFits
<1>6. /\ n \in Machines /\ n.q = m.q /\ n.p.calls = calls
      /\ n.p.turns = m.p.turns /\ n.p.count = m.p.count /\ n.p.active = m.p.active
      /\ n.p.pump = m.p.pump /\ n.p.steering = m.p.steering
      /\ n.p.closed = m.p.closed /\ n.p.failure = m.p.failure
      /\ n.p.scheduled = m.p.scheduled /\ SameSession(m.p, n.p)
      /\ Loose(n.q, n.p) /\ AtRest(n.p) /\ Leads(m.q, n.q)
      /\ Known(m) => Known(n)
  BY <1>1, <1>3, <1>4, <1>5, CallsKeep, ZenonT(60)
<1>7. Leads(queue, n.q)
  BY <1>1, <1>6, LeadsOn
<1>8. Fits(n)
  <2>1. Known(n)
    BY <1>1, <1>6
  <2> QED BY <1>1, <1>6, <1>7, <2>1 DEF Fits
<1>9. ASSUME Looks(m.q, m.p), caller = "runner" => call.stage # "idle" PROVE Looks(n.q, n.p)
  BY <1>4, <1>6, <1>9 DEF Looks, SameSession
<1> QED BY <1>6, <1>8, <1>9

LEMMA BlockFits ==
  ASSUME CInv, live, NEW m, Fits(m), NEW id \in Ids, ~Holds(m.p, id), m.q.status[id] # "absent"
  PROVE  LET n == BlockAndPause(m, id) IN
         Fits(n) /\ n.p.calls = m.p.calls /\ (n.p.scheduled \/ n.p.closed)
<1> DEFINE n == BlockAndPause(m, id)
           q == PauseQ(SetStatus(m.q, id, "blocked"))
<1>1. /\ m \in Machines /\ Loose(m.q, m.p) /\ AtRest(m.p) /\ Leads(queue, m.q)
      /\ m.p.count = proc.count /\ m.q \in Record /\ Known(m)
  BY DEF Fits, Machines
<1>2. /\ n \in Machines /\ Turned(m.q, n.q, {id}, "blocked") /\ Alike(m.p, n.p)
      /\ n.p.scheduled \/ m.p.closed
  BY <1>1, BlockAndPauseIs
<1>3. n.q.intent = m.q.intent
  <2>1. q.intent = m.q.intent
    BY <1>1 DEF PauseQ, SetStatus, Record
  <2>2. n = Commit(m, q) /\ q \in Record
    <3>1. "blocked" \in Statuses
      BY DEF Statuses, Mutable
    <3> QED BY <1>1, <3>1, SetStatusType, PauseQType DEF BlockAndPause
  <2> HIDE DEF n, q
  <2> QED BY <1>1, <2>1, <2>2, CommitIs
<1> HIDE DEF n, q
<1>4. SameTurns(m.p, n.p) /\ n.p.closed = m.p.closed /\ n.p.failure = m.p.failure
  BY <1>2 DEF Alike
<1>5. n.p.failure # "none" => n.p.closed
  BY <1>1, <1>4 DEF Loose, TurnsFit
<1>6. TurnsFit(n.p) /\ Apart(n.p) /\ AtRest(n.p) /\ \A x : Holds(m.p, x) <=> Holds(n.p, x)
  BY <1>1, <1>4, <1>5, ShapeKept DEF Loose
<1>7. Carried(n.q, n.p)
  BY <1>1, <1>2, <1>4, CarriedKept DEF Loose
<1>8. CallFits(n.q, n.p)
  BY <1>1, <1>3, <1>4, <1>6 DEF Loose, CallFits, SameTurns
<1>9. Leads(m.q, n.q)
  BY <1>1, <1>2, TurnedLeads
<1>10. Leads(queue, n.q)
  BY <1>1, <1>9, LeadsOn
<1>11. Known(n)
  <2>1. Told(n.q)
    BY <1>1, <1>2, TurnedTells DEF Known
  <2>2. n.p.closed => n.p.failure # "none"
    BY <1>1, <1>4 DEF Known, Informed
  <2> QED BY <1>1, <1>4, <2>1, <2>2, KnownKept DEF SameTurns
<1> QED BY <1>1, <1>2, <1>4, <1>6, <1>7, <1>8, <1>10, <1>11 DEF Fits, Loose, SameTurns, n

LEMMA HaltFits ==
  ASSUME CInv, live, NEW m, Fits(m)
  PROVE  LET n == Halt(m) IN Fits(n) /\ n.p.calls = m.p.calls /\ n.p.closed
<1> DEFINE n == Halt(m)
<1>1. /\ n \in Machines /\ n.q = m.q /\ SameTurns(m.p, n.p) /\ n.p.closed
      /\ n.p.failure # "none"
  BY HaltIs DEF Fits
<1> HIDE DEF n
<1>2. Fits(n)
  BY <1>1, FlagsFit
<1> QED BY <1>1, <1>2 DEF SameTurns, n

LEMMA ThrowFits ==
  ASSUME CInv, live, NEW m, Fits(m), NEW caller \in Callers,
         caller = "runner" => m.p.calls["runner"].stage \notin {"idle", "finally"}
  PROVE  LET n == ThrowInterrupt(m, caller) IN
         Fits(n) /\ (Looks(m.q, m.p) => Looks(n.q, n.p)) /\ (m.p.closed => Looks(n.q, n.p))
<1> DEFINE n == ThrowInterrupt(m, caller)
<1>1. m \in Machines /\ m.p.calls \in [Callers -> CallRecords] /\ Loose(m.q, m.p)
  BY DEF Fits, Machines, Processes
<1>2. CASE caller = "user"
  <2> DEFINE call == [m.p.calls[caller] EXCEPT !.stage = "idle"]
  <2>1. call \in CallRecords
    BY <1>1 DEF CallRecords
  <2>2. n = Calling(m, caller, call)
    BY <1>1, <1>2 DEF ThrowInterrupt, Machines, Processes, Calling
  <2> HIDE DEF n, call
  <2>3. /\ Fits(n) /\ n.p.closed = m.p.closed
        /\ Looks(m.q, m.p) => Looks(n.q, n.p)
    BY <1>2, <2>1, <2>2, CallMoves
  <2>4. m.p.closed => Looks(n.q, n.p)
    BY <2>3, LooksSoon
  <2> QED BY <2>3, <2>4 DEF n
<1>3. CASE caller = "runner"
  <2> DEFINE id == m.p.calls["runner"].item
             k == IF m.q.status[id] = "absent" THEN Halt(m) ELSE BlockAndPause(m, id)
             call == [k.p.calls["runner"] EXCEPT !.stage = "finally"]
  <2>1. id \in Ids /\ ~Holds(m.p, id)
    BY <1>1, <1>3 DEF Loose, CallFits
  <2>2. Fits(k) /\ k.p.calls = m.p.calls
    BY <2>1, BlockFits, HaltFits
  <2>3. n = [k EXCEPT !.p.calls["runner"].stage = "finally"]
    BY <1>3 DEF ThrowInterrupt
  <2> HIDE DEF k
  <2>4. call \in CallRecords /\ call.stage = "finally"
    BY <1>1, <2>2 DEF CallRecords, Callers
  <2>5. n = Calling(k, "runner", call) /\ "runner" \in Callers
    BY <2>2, <2>3 DEF Fits, Machines, Processes, Callers, Calling
  <2> HIDE DEF call, n
  <2>6. Fits(n)
    BY <2>2, <2>4, <2>5, CallMoves
  <2>7. Looks(n.q, n.p)
    <3>1. n.p.calls["runner"].stage = "finally"
      BY <1>1, <2>2, <2>4, <2>5 DEF Fits, Machines, Processes, Callers, Calling
    <3> QED BY <3>1 DEF Looks
  <2> QED BY <2>6, <2>7 DEF n
<1> QED BY <1>2, <1>3 DEF Callers

LEMMA InterruptResumesKeeps ==
  ASSUME CInv, NEW caller \in Callers, InterruptResumes(caller)
  PROVE  Kept
<1> DEFINE call == proc.calls[caller]
           turn == proc.turns[call.turn]
           stage == IF turn.terminal = "none" /\ turn.id # 0 THEN "rpc" ELSE "waiting"
           returned == IF caller = "user" THEN "idle" ELSE "finally"
           moved(s) == [Now EXCEPT !.p.calls[caller].stage = s]
           idle == [Now EXCEPT !.p.calls[caller] = NewProcess.calls[caller]]
<1>1. /\ \/ call.stage = "starting" /\ Becomes(moved(stage))
         \/ call.stage = "waiting" /\ Becomes(ThrowInterrupt(Now, caller))
         \/ call.stage = "waiting" /\ Becomes(moved(returned))
         \/ call.stage = "finally" /\ Becomes(Wake(idle))
      /\ due' = due
  BY DEF InterruptResumes, CallReady, ReturnInterrupt
<1>2. live
  BY <1>1 DEF Becomes
<1>3. /\ Now \in Machines /\ Now.q = queue /\ Now.p = proc
      /\ Looks(queue, proc) /\ Fits(Now) /\ proc \in Processes
      /\ proc.calls \in [Callers -> CallRecords]
  BY <1>2, NowIs, NowFits DEF CInv, Processes
<1>4. ASSUME NEW s \in {"rpc", "waiting", "idle", "finally"}, call.stage \in {"starting", "waiting"},
             caller = "runner" => s # "idle",
             Becomes(moved(s))
      PROVE  Kept
  <2> DEFINE next == [call EXCEPT !.stage = s]
             n == moved(s)
  <2>1. next \in CallRecords /\ next.stage = s /\ next.item = call.item
    BY <1>3, <1>4 DEF CallRecords
  <2>2. n = Calling(Now, caller, next)
    BY <1>3 DEF Machines, Processes, Calling
  <2> HIDE DEF n, next
  <2>3. /\ Fits(n)
        /\ Looks(Now.q, Now.p) /\ (caller = "runner" => next.stage # "idle") => Looks(n.q, n.p)
    BY <1>2, <1>3, <1>4, <2>1, <2>2, CallMoves
  <2>4. Looks(n.q, n.p)
    BY <1>3, <1>4, <2>1, <2>3
  <2> QED BY <1>1, <1>4, <2>3, <2>4, FitsAndLooks DEF n
<1>5. CASE call.stage = "starting" /\ Becomes(moved(stage))
  <2> HIDE DEF turn
  <2>1. stage \in {"rpc", "waiting", "idle", "finally"} /\ stage # "idle"
    OBVIOUS
  <2> HIDE DEF stage, moved
  <2> QED BY <1>4, <1>5, <2>1
<1>6. CASE call.stage = "waiting" /\ Becomes(ThrowInterrupt(Now, caller))
  <2> DEFINE n == ThrowInterrupt(Now, caller)
  <2>1. caller = "runner" => Now.p.calls["runner"].stage \notin {"idle", "finally"}
    BY <1>3, <1>6
  <2>2. Fits(n) /\ Looks(n.q, n.p)
    BY <1>2, <1>3, <2>1, ThrowFits
  <2>3. Becomes(n)
    BY <1>6
  <2> HIDE DEF n
  <2> QED BY <1>1, <2>2, <2>3, FitsAndLooks
<1>7. CASE call.stage = "waiting" /\ Becomes(moved(returned))
  <2>1. returned \in {"rpc", "waiting", "idle", "finally"} /\ (caller = "runner" => returned # "idle")
    OBVIOUS
  <2> HIDE DEF returned, moved
  <2> QED BY <1>4, <1>7, <2>1
<1>8. CASE call.stage = "finally" /\ Becomes(Wake(idle))
  <2> DEFINE next == NewProcess.calls[caller]
  <2>1. next \in CallRecords /\ next.stage = "idle"
    BY Bounds DEF NewProcess, CallRecords, Item, Numbers
  <2>2. idle = Calling(Now, caller, next)
    BY DEF Calling
  <2> HIDE DEF next, idle
  <2>3. Fits(idle)
    BY <1>2, <1>3, <2>1, <2>2, CallMoves
  <2> DEFINE n == Wake(idle)
  <2>4. /\ n \in Machines /\ Loose(n.q, n.p) /\ AtRest(n.p) /\ Looks(n.q, n.p) /\ Leads(idle.q, n.q)
        /\ n.p.count = idle.p.count /\ Known(n)
    BY <2>3, WakeKeeps DEF Fits
  <2>5. Becomes(n)
    BY <1>8
  <2> HIDE DEF n
  <2>6. Fits(n)
    BY <2>3, <2>4, LeadsOn DEF Fits
  <2> QED BY <1>1, <2>4, <2>5, <2>6, FitsAndLooks
<1> QED BY <1>1, <1>5, <1>6, <1>7, <1>8, SMTT(60)

LEMMA InterruptFailsKeeps ==
  ASSUME CInv, live, NEW caller \in Callers, proc.calls[caller].stage \in {"rpc", "waiting"},
         Becomes(ThrowInterrupt(Disconnected(Now), caller)), due' = due
  PROVE  Kept
<1> DEFINE d == Disconnected(Now)
           n == ThrowInterrupt(d, caller)
<1>1. Fits(Now) /\ Now.p = proc
  BY NowIs, NowFits
<1>2. Fits(d) /\ d.p.calls = proc.calls /\ d.p.closed
  BY <1>1, DisconnectedFits
<1>3. Becomes(n)
  OBVIOUS
<1> HIDE DEF d
<1>4. Fits(n) /\ Looks(n.q, n.p)
  BY <1>2, ThrowFits
<1> HIDE DEF n
<1> QED BY <1>3, <1>4, FitsAndLooks

LEMMA InterruptAnsweredKeeps ==
  ASSUME CInv, NEW caller \in Callers, NEW answer \in Answers, InterruptAnswered(caller, answer)
  PROVE  Kept
<1> DEFINE n == [Now EXCEPT !.p.calls[caller].stage = "waiting"]
           next == [proc.calls[caller] EXCEPT !.stage = "waiting"]
<1>1. /\ proc.calls[caller].stage = "rpc" /\ live /\ due' = due
      /\ Becomes(n) \/ Becomes(ThrowInterrupt(Disconnected(Now), caller))
  BY DEF InterruptAnswered, Macrotask
<1>2. CASE Becomes(ThrowInterrupt(Disconnected(Now), caller))
  BY <1>1, <1>2, InterruptFailsKeeps
<1>3. CASE Becomes(n)
  <2>1. /\ Now \in Machines /\ Now.q = queue /\ Now.p = proc
        /\ Looks(queue, proc) /\ Fits(Now) /\ proc.calls \in [Callers -> CallRecords]
    BY <1>1, NowIs, NowFits DEF CInv, Processes
  <2>2. next \in CallRecords /\ next.stage = "waiting" /\ next.item = proc.calls[caller].item
    BY <2>1 DEF CallRecords
  <2>3. n = Calling(Now, caller, next)
    BY <2>1 DEF Machines, Processes, Calling
  <2> HIDE DEF n, next
  <2>4. Fits(n) /\ Looks(n.q, n.p)
    BY <1>1, <2>1, <2>2, <2>3, CallMoves
  <2> QED BY <1>1, <1>3, <2>4, FitsAndLooks
<1> QED BY <1>1, <1>2, <1>3

LEMMA InterruptTimeoutKeeps ==
  ASSUME CInv, NEW caller \in Callers, InterruptTimeout(caller)
  PROVE  Kept
<1>1. /\ proc.calls[caller].stage = "waiting" /\ live /\ due' = due
      /\ Becomes(ThrowInterrupt(Disconnected(Now), caller))
  BY DEF InterruptTimeout, Macrotask
<1> QED BY <1>1, InterruptFailsKeeps

----------------------------------------------------------------------------
(* The app-server.                                                           *)

Touching(m, a, turn) == [m EXCEPT !.p.turns[a] = turn]

\* The active turn learns something.
LEMMA TouchKeeps ==
  ASSUME NEW m \in Machines, m.p.active # 0, Loose(m.q, m.p), NEW turn \in TurnRecords,
         turn.item = m.p.turns[m.p.active].item, turn.owned = m.p.turns[m.p.active].owned,
         turn.steers = m.p.turns[m.p.active].steers, turn.done = m.p.turns[m.p.active].done,
         m.p.turns[m.p.active].startDone => turn.startDone,
         NEW n, n = Touching(m, m.p.active, turn)
  PROVE  /\ n \in Machines /\ n.q = m.q /\ Loose(n.q, n.p)
         /\ n.p.active = m.p.active /\ n.p.count = m.p.count /\ n.p.turns[m.p.active] = turn
         /\ \A k \in Turns : k # m.p.active => n.p.turns[k] = m.p.turns[k]
         /\ SameButTurns(m.p, n.p)
<1> DEFINE a == m.p.active
           r == WithTurn(m.p, a, turn)
<1>1. m.p \in Processes /\ a \in Turns
  BY Bounds DEF Machines, Processes, Numbers, Turns
<1>2. n = [m EXCEPT !.p = r]
  BY DEF Machines, WithTurn, Touching
<1>3. /\ r \in Processes /\ r.turns[a] = turn
      /\ \A k \in Turns : k # a => r.turns[k] = m.p.turns[k]
      /\ r.active = m.p.active /\ r.count = m.p.count
      /\ SameButTurns(m.p, r)
  BY <1>1, TurnSet
<1> HIDE DEF r
<1>4. n \in Machines /\ n.q = m.q /\ n.p = r
  BY <1>2, <1>3, SMTT(60) DEF Machines
<1>5. Loose(m.q, r)
  BY <1>1, <1>3, TurnTouched
<1> QED BY <1>3, <1>4, <1>5

LEMMA TouchLooks ==
  ASSUME NEW q, NEW p, NEW r, Looks(q, p), p.active # 0, SameButTurns(p, r), r.active = p.active,
         \A k \in Turns : k # p.active => r.turns[k] = p.turns[k],
         r.turns[p.active].startDone = p.turns[p.active].startDone,
         r.turns[p.active].startError = p.turns[p.active].startError,
         r.turns[p.active].done = p.turns[p.active].done,
         p.pump.stage = "run" => p.pump.turn \in Turns
  PROVE  Looks(q, r)
<1>1. /\ r.pump = p.pump /\ r.calls = p.calls /\ r.steering = p.steering
      /\ r.closed = p.closed /\ r.scheduled = p.scheduled
      /\ r.recovery = p.recovery /\ r.close = p.close
  BY DEF SameButTurns, SameSession
<1>2. p.pump.stage = "run" => (Over(r.turns[p.pump.turn]) <=> Over(p.turns[p.pump.turn]))
  BY DEF Over
<1> QED BY <1>1, <1>2 DEF Looks

LEMMA WakeFits ==
  ASSUME CInv, NEW m, Fits(m), Becomes(Wake(m)), due' \subseteq due
  PROVE  Kept
<1> DEFINE n == Wake(m)
<1>1. /\ n \in Machines /\ Loose(n.q, n.p) /\ AtRest(n.p) /\ Looks(n.q, n.p) /\ Leads(m.q, n.q)
      /\ n.p.count = m.p.count /\ Known(n)
  BY WakeKeeps DEF Fits
<1>2. Becomes(n)
  OBVIOUS
<1> HIDE DEF n
<1>3. Fits(n)
  BY <1>1, LeadsOn DEF Fits
<1> QED BY <1>1, <1>2, <1>3, FitsAndLooks

\* The provider moves on by itself.
LEMMA ProviderStartsKeeps == ASSUME CInv, NEW n \in Turns, ProviderStarts(n) PROVE Kept
<1>1. /\ live /\ ~Refused(n) /\ provider[n] = "requested"
      /\ provider' = [provider EXCEPT ![n] = "running"]
      /\ due' = due \cup {<<"started", n>>}
      /\ UNCHANGED <<queue, live, minted, granted, proc>>
  BY DEF ProviderStarts, Connected, qvars
<1>2. /\ provider \in [Turns -> {"idle", "requested", "running"} \cup Terminal]
      /\ \A k \in Turns : k > proc.count <=> provider[k] = "idle"
      /\ \A k \in Turns : <<"completed", k>> \in due => provider[k] \in Terminal
  BY DEF CInv, Announced
<1>3. \A k \in Turns : <<"completed", k>> \in due' => <<"completed", k>> \in due /\ k # n
  BY <1>1, <1>2 DEF Terminal
<1>4. Announced'
  BY <1>1, <1>2, <1>3 DEF Announced
<1>5. Informed(proc)'
  <2>1. Informed(proc) /\ proc' = proc
    BY <1>1 DEF CInv
  <2>2. ASSUME NEW k \in Turns
        PROVE  /\ provider[k] \in Terminal => provider'[k] = provider[k]
               /\ proc.turns[k].startError = "remote-error" /\ provider[k] = "requested" =>
                    provider'[k] = "requested"
               /\ provider'[k] \in {"requested", "running"} =>
                    provider[k] \in {"requested", "running"} \/ k = proc.active
    <3>1. CASE k = n
      BY <1>1, <1>2, <3>1 DEF Refused, Terminal
    <3>2. CASE k # n
      BY <1>1, <1>2, <3>2
    <3> QED BY <3>1, <3>2
  <2> QED BY <2>1, <2>2, InformedOn
<1>6. CInv'
  BY <1>1, <1>4, <1>5 DEF CInv, Loose, CallFits, Afforded
<1>7. Told(queue') /\ ~(proc'.count > proc.count)
  BY <1>1 DEF Told, CInv, Processes, Numbers
<1> QED BY <1>6, <1>7 DEF Kept, Alone

LEMMA ProviderEndsKeeps ==
  ASSUME CInv, NEW n \in Turns, NEW status \in Terminal, ProviderEnds(n, status)
  PROVE  Kept
<1>1. /\ live /\ provider[n] = "running"
      /\ provider' = [provider EXCEPT ![n] = status]
      /\ due' = due \cup {<<"completed", n>>}
      /\ UNCHANGED <<queue, live, minted, granted, proc>>
  BY DEF ProviderEnds, Connected, qvars
<1>2. /\ provider \in [Turns -> {"idle", "requested", "running"} \cup Terminal]
      /\ \A k \in Turns : k > proc.count <=> provider[k] = "idle"
      /\ \A k \in Turns : <<"completed", k>> \in due => provider[k] \in Terminal
  BY DEF CInv, Announced
<1>3. \A k \in Turns : <<"completed", k>> \in due' => <<"completed", k>> \in due \/ k = n
  BY <1>1
<1>4. Announced'
  BY <1>1, <1>2, <1>3 DEF Announced, Terminal
<1>5. Informed(proc)'
  <2>1. Informed(proc) /\ proc' = proc
    BY <1>1 DEF CInv
  <2>2. ASSUME NEW k \in Turns
        PROVE  /\ provider[k] \in Terminal => provider'[k] = provider[k]
               /\ proc.turns[k].startError = "remote-error" /\ provider[k] = "requested" =>
                    provider'[k] = "requested"
               /\ provider'[k] \in {"requested", "running"} =>
                    provider[k] \in {"requested", "running"} \/ k = proc.active
    <3>1. CASE k = n
      BY <1>1, <1>2, <3>1 DEF Terminal
    <3>2. CASE k # n
      BY <1>1, <1>2, <3>2
    <3> QED BY <3>1, <3>2
  <2> QED BY <2>1, <2>2, InformedOn
<1>6. CInv'
  BY <1>1, <1>4, <1>5 DEF CInv, Loose, CallFits, Afforded
<1>7. Told(queue') /\ ~(proc'.count > proc.count)
  BY <1>1 DEF Told, CInv, Processes, Numbers
<1> QED BY <1>6, <1>7 DEF Kept, Alone

LEMMA StartAnsweredKeeps ==
  ASSUME CInv, NEW n \in Turns, NEW answer \in Answers, StartAnswered(n, answer)
  PROVE  Kept
<1> DEFINE turn == proc.turns[n]
           error == IF answer # "ok" THEN answer
                    ELSE IF turn.id \in {0, n} THEN "none" ELSE "uncertain"
           done == TRUE
           number == IF error = "none" THEN n ELSE turn.id
           terminal == IF error = "none" THEN turn.terminal ELSE error
           next == [turn EXCEPT !.startDone = done, !.startError = error,
                                !.id = number, !.terminal = terminal]
           m == [Now EXCEPT !.p.turns[n] = next]
<1>1. /\ turn.item # None /\ ~turn.startDone /\ live /\ due' = due
      /\ answer = "remote-error" => provider[n] = "requested"
      /\ Becomes(Wake(Settle(m, n)))
  BY DEF StartAnswered, Macrotask
<1>2. /\ Now \in Machines /\ Now.q = queue /\ Now.p = proc
      /\ Loose(queue, proc) /\ AtRest(proc) /\ proc \in Processes
  BY <1>1, NowIs DEF Machines
<1>3. n = proc.active /\ n # 0
  BY <1>1, <1>2, SMTT(60) DEF Loose, TurnsFit, Turns
<1>4. proc.steering.stage = "none"
  BY <1>1, <1>2, <1>3 DEF Loose, TurnsFit
<1>5. turn \in TurnRecords /\ n \in Numbers
  <2>1. n \in Numbers
    BY Bounds DEF Turns, Numbers
  <2> QED BY <1>2, <2>1 DEF Processes
<1>5a. error \in Errors \cup {"none"} /\ error \in Results \cup {"none"}
  <2> HIDE DEF turn
  <2> QED BY DEF Answers, Unanswered, Errors, Results
<1>5b. /\ error # "halted" /\ (error = "remote-error" => provider[n] = "requested")
       /\ error = "none" => turn.id \in {0, n}
  <2> HIDE DEF turn
  <2> QED BY <1>1 DEF Answers, Unanswered
<1>5c. /\ turn.done = "none" /\ turn.startError = "none"
       /\ Grounded(turn, n, proc.closed)
  <2>1. Informed(proc)
    BY <1>1 DEF CInv
  <2>2. Grounded(turn, n, proc.closed)
    BY <1>3, <2>1 DEF Informed, KnowsActive
  <2>3. turn.done = "none"
    BY <1>2, <1>3 DEF Loose, TurnsFit
  <2> QED BY <1>1, <2>2, <2>3 DEF Grounded
<1>6. done \in BOOLEAN /\ done
  OBVIOUS
<1> HIDE DEF error, turn, done
<1>6a. /\ number \in Numbers /\ terminal \in Results \cup {"none"}
       /\ error = "none" => number = n
       /\ error # "none" => terminal = error
       /\ error = "none" => terminal = turn.terminal
  BY <1>5, <1>5a DEF TurnRecords
<1> HIDE DEF number, terminal
<1>7. /\ next \in TurnRecords /\ next.item = turn.item /\ next.owned = turn.owned
      /\ next.steers = turn.steers /\ next.done = turn.done
      /\ next.startDone = done /\ next.startError = error
      /\ error = "none" => next.id = n
      /\ error # "none" => next.terminal = error
      /\ error = "none" => next.terminal = turn.terminal
  BY <1>5, <1>5a, <1>6, <1>6a DEF TurnRecords
<1>8. m = Touching(Now, Now.p.active, next)
  BY <1>2, <1>3 DEF Touching
<1> HIDE DEF next, m
<1>9. /\ m \in Machines /\ m.q = queue /\ Loose(m.q, m.p)
      /\ m.p.active = n /\ m.p.count = proc.count /\ m.p.turns[n] = next
      /\ SameButTurns(proc, m.p)
      /\ \A k \in Turns : k # n => m.p.turns[k] = proc.turns[k]
  <2>1. /\ next.item = proc.turns[proc.active].item /\ next.owned = proc.turns[proc.active].owned
        /\ next.steers = proc.turns[proc.active].steers /\ next.done = proc.turns[proc.active].done
        /\ next.startDone
    BY <1>3, <1>6, <1>7 DEF turn
  <2> QED BY <1>2, <1>3, <1>7, <1>8, <2>1, TouchKeeps
<1>9a. Known(m)
  <2>1. Known(Now)
    BY <1>1, NowFits DEF Fits
  <2>2. Grounded(next, n, proc.closed)
    <3>1. CASE error = "none"
      <4>1. next.terminal = turn.terminal /\ next.id = n /\ next.startError = "none"
        BY <1>7, <3>1
      <4>2. turn.terminal \in Terminal => turn.id = n /\ provider[n] = turn.terminal
        BY <1>5b, <1>5c, <3>1 DEF Grounded, Turns
      <4> QED BY <1>5c, <4>1, <4>2 DEF Grounded
    <3>2. CASE error # "none"
      <4>1. next.terminal = error /\ next.startError = error /\ next.startDone
        BY <1>6, <1>7, <3>2
      <4>2. error \notin Terminal
        BY <1>5a, <3>2 DEF Terminal, Errors
      <4> QED BY <3>2, <4>1, <4>2 DEF Grounded
    <3> QED BY <3>1, <3>2
  <2>3. /\ next.item = proc.turns[n].item /\ next.steers = proc.turns[n].steers
        /\ next.done = "none" /\ next.startError # "halted"
        /\ next.startError = "remote-error" => provider[n] = "requested"
    <3>1. turn.item = proc.turns[n].item /\ turn.steers = proc.turns[n].steers
      BY DEF turn
    <3> QED BY <1>5b, <1>5c, <1>7, <3>1
  <2> QED BY <1>2, <1>3, <1>9, <2>1, <2>2, <2>3, TouchTells
<1>10. m.p.turns[m.p.active].startDone =>
         \/ Ripe(m.p)
         \/ m.p.turns[m.p.active].startError = "none" /\ m.p.turns[m.p.active].id # 0
  BY <1>3, <1>4, <1>6, <1>7, <1>9 DEF Ripe, SameButTurns
<1> DEFINE s == Settle(m, m.p.active)
<1>11. /\ s \in Machines /\ Loose(s.q, s.p) /\ AtRest(s.p) /\ Leads(m.q, s.q)
       /\ s.p.count = m.p.count /\ Known(s)
  BY <1>3, <1>9, <1>9a, <1>10, SettleKeeps
<1>12. Becomes(Wake(s))
  BY <1>1, <1>9
<1> HIDE DEF s
<1>13. Fits(s)
  BY <1>9, <1>11 DEF Fits
<1> QED BY <1>1, <1>12, <1>13, WakeFits

LEMMA TurnStartedKeeps == ASSUME CInv, NEW n \in Turns, TurnStarted(n) PROVE Kept
<1> DEFINE a == proc.active
           next == [proc.turns[a] EXCEPT !.id = n]
           m == [Now EXCEPT !.p.turns[a].id = n]
<1>1. /\ live /\ due' \subseteq due
      /\ Becomes(Wake(IF a # 0 /\ proc.turns[a].id = 0 THEN m ELSE Now))
  BY DEF TurnStarted, Listening, Macrotask
<1>2. /\ Now \in Machines /\ Now.q = queue /\ Now.p = proc /\ Fits(Now)
      /\ Loose(queue, proc) /\ AtRest(proc) /\ proc \in Processes
  BY <1>1, NowIs, NowFits DEF Machines
<1>3. CASE ~(a # 0 /\ proc.turns[a].id = 0)
  BY <1>1, <1>2, <1>3, WakeFits
<1>4. CASE a # 0 /\ proc.turns[a].id = 0
  <2>1. a \in Turns /\ proc.turns[a] \in TurnRecords /\ n \in Numbers /\ n # 0
    BY <1>2, <1>4, Bounds DEF Processes, Numbers, Turns
  <2>2. /\ next \in TurnRecords /\ next.item = proc.turns[a].item /\ next.owned = proc.turns[a].owned
        /\ next.steers = proc.turns[a].steers /\ next.done = proc.turns[a].done
        /\ next.startDone = proc.turns[a].startDone /\ next.startError = proc.turns[a].startError
        /\ next.id = n /\ next.terminal = proc.turns[a].terminal
    BY <2>1 DEF TurnRecords
  <2>3. m = Touching(Now, Now.p.active, next) /\ Becomes(Wake(m))
    BY <1>1, <1>2, <1>4, SMTT(60) DEF Touching, Machines, Processes
  <2> HIDE DEF next, m
  <2>4. /\ m \in Machines /\ m.q = queue /\ Loose(m.q, m.p)
        /\ m.p.active = a /\ m.p.count = proc.count /\ m.p.turns[a] = next
        /\ SameButTurns(proc, m.p)
        /\ \A k \in Turns : k # a => m.p.turns[k] = proc.turns[k]
    BY <1>2, <1>4, <2>2, <2>3, TouchKeeps
  <2>5. AtRest(m.p)
    BY <1>2, <1>4, <2>1, <2>2, <2>4 DEF AtRest, SameButTurns
  <2>5a. Known(m)
    <3>1. Known(Now) /\ Informed(proc)
      BY <1>2 DEF Fits, Known
    <3>2. Grounded(proc.turns[a], a, proc.closed) /\ KnowsTurn(proc, a)
      BY <1>4, <2>1, <3>1 DEF Informed, KnowsActive
    <3>3. ~proc.turns[a].startDone /\ proc.turns[a].done = "none"
      BY <1>2, <1>4 DEF AtRest, Loose, TurnsFit
    <3>4. proc.turns[a].terminal \notin Terminal /\ proc.turns[a].startError = "none"
      BY <1>4, <3>2, <3>3 DEF Grounded, Turns
    <3>5. Grounded(next, a, proc.closed)
      BY <2>2, <3>2, <3>3, <3>4 DEF Grounded
    <3>6. /\ next.done = "none" /\ next.startError # "halted"
          /\ next.startError # "remote-error"
      BY <2>2, <3>3, <3>4
    <3> QED BY <1>2, <1>4, <2>2, <2>4, <3>1, <3>5, <3>6, TouchTells
  <2>6. Fits(m)
    BY <2>4, <2>5, <2>5a DEF Fits, Leads
  <2> QED BY <1>1, <2>3, <2>6, WakeFits
<1> QED BY <1>3, <1>4

LEMMA TurnCompletedKeeps ==
  ASSUME CInv, NEW n \in Turns, NEW captured \in BOOLEAN, TurnCompleted(n, captured)
  PROVE  Kept
<1> DEFINE a == proc.active
           m == IF captured THEN Now ELSE Halt(Now)
           k == [m EXCEPT !.p.turns[a].id = n, !.p.turns[a].terminal = provider[n]]
           next == [m.p.turns[a] EXCEPT !.id = n, !.terminal = provider[n]]
<1>1. /\ live /\ due' \subseteq due /\ <<"completed", n>> \in due
      /\ Becomes(IF a = 0 \/ proc.turns[a].id \notin {0, n} THEN m ELSE Settle(k, a))
  BY DEF TurnCompleted, Listening, Macrotask
<1>2. provider[n] \in Terminal
  BY <1>1 DEF CInv, Announced
<1>3. Fits(Now) /\ Now.q = queue /\ Now.p = proc /\ Looks(queue, proc)
  BY <1>1, NowIs, NowFits
<1>4. Fits(m) /\ m.p.active = a /\ m.p.turns = proc.turns /\ Looks(m.q, m.p)
  <2>1. CASE captured
    BY <1>3, <2>1
  <2>2. CASE ~captured
    <3> DEFINE h == Halt(Now)
    <3>1. Fits(h) /\ h.p.closed
      BY <1>1, <1>3, HaltFits
    <3>2. h.p.active = a /\ h.p.turns = proc.turns
      BY <1>3, HaltIs DEF SameTurns, Fits
    <3>3. m = h
      BY <2>2
    <3> HIDE DEF m, h
    <3> QED BY <3>1, <3>2, <3>3, LooksSoon
  <2> QED BY <2>1, <2>2
<1> HIDE DEF m
<1>5. CASE Becomes(m)
  BY <1>1, <1>4, <1>5, FitsAndLooks
<1>6. CASE a # 0 /\ proc.turns[a].id \in {0, n} /\ Becomes(Settle(k, a))
  <2>0. m.p.turns[a].id \in {0, n}
    BY <1>4, <1>6
  <2>1. m \in Machines /\ m.p \in Processes /\ Loose(m.q, m.p) /\ AtRest(m.p)
    BY <1>4 DEF Fits, Machines
  <2>2. a \in Turns /\ m.p.turns[a] \in TurnRecords /\ n \in Numbers /\ n # 0
        /\ provider[n] \in Results \cup {"none"} /\ provider[n] # "none"
    BY <1>2, <1>4, <1>6, <2>1, Bounds, SMTT(60) DEF Processes, Numbers, Turns, Results, Terminal
  <2>3. /\ next \in TurnRecords /\ next.item = m.p.turns[a].item /\ next.owned = m.p.turns[a].owned
        /\ next.steers = m.p.turns[a].steers /\ next.done = m.p.turns[a].done
        /\ next.startDone = m.p.turns[a].startDone /\ next.startError = m.p.turns[a].startError
        /\ next.id = n /\ next.terminal = provider[n]
    BY <2>2 DEF TurnRecords
  <2>4. k = Touching(m, m.p.active, next)
    <3> DEFINE named == [m.p.turns[a] EXCEPT !.id = n]
               m1 == [m EXCEPT !.p.turns[a] = named]
    <3>1. m1.p.turns[a] = named
      BY <2>1, <2>2 DEF Machines, Processes
    <3>1a. ASSUME NEW turn
           PROVE  [m1 EXCEPT !.p.turns[a] = turn] = [m EXCEPT !.p.turns[a] = turn]
      BY <2>1, ZenonT(60) DEF Machines, Processes
    <3>2. k = [m1 EXCEPT !.p.turns[a] = [m1.p.turns[a] EXCEPT !.terminal = provider[n]]]
      BY <2>1, <2>2 DEF Machines, Processes
    <3> QED BY <1>4, <3>1, <3>1a, <3>2 DEF Touching
  <2> HIDE DEF next, k
  <2>5. /\ k \in Machines /\ k.q = m.q /\ Loose(k.q, k.p)
        /\ k.p.active = a /\ k.p.count = m.p.count /\ k.p.turns[a] = next
        /\ \A x \in Turns : x # a => k.p.turns[x] = m.p.turns[x]
        /\ SameButTurns(m.p, k.p)
    BY <1>4, <1>6, <2>1, <2>3, <2>4, TouchKeeps, SMTT(60)
  <2>5a. Known(k)
    <3>1. Known(m) /\ Informed(m.p) /\ a = m.p.active
      BY <1>4 DEF Fits, Known
    <3>2. Grounded(m.p.turns[a], a, m.p.closed)
      BY <1>6, <3>1, SMTT(60) DEF Informed, KnowsActive
    <3>3. /\ m.p.turns[a].startDone => m.p.turns[a].startError = "none" /\ m.p.turns[a].id # 0
          /\ m.p.turns[a].done = "none"
      BY <1>6, <2>1, <3>1 DEF AtRest, Loose, TurnsFit
    <3>4. m.p.turns[a].startError = "none"
      BY <3>2, <3>3 DEF Grounded
    <3>5. m.p.turns[a].startDone => n = a
      BY <2>0, <3>2, <3>3, <3>4 DEF Grounded
    <3>6. Grounded(next, a, m.p.closed)
      BY <1>2, <2>3, <3>4, <3>5 DEF Grounded, Terminal, Errors
    <3>7. next.done = "none" /\ next.startError = "none"
      BY <2>3, <3>3, <3>4
    <3> QED BY <1>6, <2>1, <2>3, <2>5, <3>1, <3>6, <3>7, TouchTells
  <2>6. k.p.turns[k.p.active].startDone =>
          k.p.turns[k.p.active].startError = "none" /\ k.p.turns[k.p.active].id # 0
    BY <1>4, <1>6, <2>1, <2>2, <2>3, <2>5 DEF AtRest
  <2> DEFINE s == Settle(k, k.p.active)
  <2>7. /\ s \in Machines /\ Loose(s.q, s.p) /\ AtRest(s.p) /\ Leads(k.q, s.q)
        /\ s.p.count = k.p.count /\ Known(s)
        /\ s = k \/ s.p.scheduled \/ s.p.closed
    BY <1>6, <2>5, <2>5a, <2>6, SettleKeeps
  <2>8. Becomes(s)
    BY <1>6, <2>5
  <2> HIDE DEF s
  <2>9. Looks(k.q, k.p)
    <3>1. m.p.pump.stage = "run" => m.p.pump.turn \in Turns
      BY <2>1, Bounds DEF Loose, TurnsFit, Processes, Pumps, Numbers, Turns
    <3> QED BY <1>4, <1>6, <2>3, <2>5, <3>1, TouchLooks, SMTT(60)
  <2>10. Looks(s.q, s.p)
    BY <2>7, <2>9, LooksSoon
  <2>11. Fits(s)
    BY <1>4, <2>5, <2>7, LeadsOn DEF Fits
  <2> QED BY <1>1, <2>8, <2>10, <2>11, FitsAndLooks
<1> QED BY <1>1, <1>5, <1>6, SMTT(60)

\* The steering in flight comes back.
Steered == WithSteering(proc, [proc.steering EXCEPT !.stage = "finally"])

LEMMA SteeredIs ==
  ASSUME CInv, live, proc.steering.stage = "rpc", NEW m, m = [Now EXCEPT !.p.steering.stage = "finally"]
  PROVE  /\ m \in Machines /\ m.q = queue /\ m.p = Steered
         /\ Steered.turns = proc.turns /\ Steered.count = proc.count
         /\ Steered.active = proc.active /\ Steered.pump = proc.pump
         /\ Steered.calls = proc.calls /\ Steered.closed = proc.closed
         /\ Steered.failure = proc.failure /\ Steered.scheduled = proc.scheduled
         /\ SameSession(proc, Steered)
         /\ Steered.steering.stage = "finally"
         /\ Steered.steering.item = proc.steering.item
<1> DEFINE steering == [proc.steering EXCEPT !.stage = "finally"]
<1>1. Now \in Machines /\ Now.q = queue /\ Now.p = proc /\ proc \in Processes
  BY NowIs DEF Machines
<1>2. steering \in Steerings /\ steering.stage = "finally" /\ steering.item = proc.steering.item
  BY <1>1 DEF Processes, Steerings
<1>3. Steered = WithSteering(proc, steering)
  BY DEF Steered
<1>4. m = [Now EXCEPT !.p = Steered]
  BY <1>1 DEF Machines, Steered, WithSteering
<1> HIDE DEF steering
<1>5. /\ Steered \in Processes
      /\ Steered.turns = proc.turns /\ Steered.count = proc.count
      /\ Steered.active = proc.active /\ Steered.steering = steering /\ Steered.pump = proc.pump
      /\ Steered.calls = proc.calls /\ Steered.closed = proc.closed
      /\ Steered.failure = proc.failure /\ Steered.scheduled = proc.scheduled
      /\ SameSession(proc, Steered)
  BY <1>1, <1>2, <1>3, SteeringSet
<1>6. m \in Machines /\ m.q = queue /\ m.p = Steered
  BY <1>1, <1>4, <1>5 DEF Machines
<1> QED BY <1>2, <1>5, <1>6

\* It did not reach the turn: the record says why, and nobody holds the input.
LEMMA SteerDropped ==
  ASSUME CInv, live, proc.steering.stage = "rpc", NEW status \in {"blocked", "execution-uncertain"},
         NEW k \in Machines, Turned(queue, k.q, {proc.steering.item}, status), Alike(Steered, k.p)
  PROVE  Fits(k)
<1> DEFINE id == proc.steering.item
           r == k.p
<1>1. /\ Loose(queue, proc) /\ AtRest(proc) /\ queue \in Record
      /\ proc.active # 0 /\ id \in Ids /\ Holds(proc, id)
  BY DEF CInv, Loose, TurnsFit, Holds
<1>2. /\ r.turns = proc.turns /\ r.count = proc.count /\ r.active = proc.active
      /\ r.pump = proc.pump /\ r.calls = proc.calls /\ r.closed = proc.closed
      /\ r.failure = proc.failure /\ r.steering.stage = "finally" /\ r.steering.item = id
  BY SteeredIs DEF Alike, SameTurns
<1>3. TurnsFit(r)
  BY <1>1, <1>2 DEF Loose, TurnsFit
<1>4. Apart(r) /\ AtRest(r)
  BY <1>1, <1>2 DEF Loose, Apart, AtRest
<1>5. ASSUME NEW x PROVE Holds(r, x) <=> Holds(proc, x) /\ x # id
  <2>1. /\ id \notin proc.turns[proc.active].steers /\ id # proc.turns[proc.active].item
        /\ proc.pump.stage = "run" => id # proc.pump.item
    BY <1>1 DEF Loose, Apart
  <2> QED BY <1>2, <2>1 DEF Holds
<1>6. Carried(k.q, r)
  BY <1>1, <1>5 DEF Loose, Carried, Turned
<1>7. CallFits(k.q, r)
  BY <1>1, <1>2, <1>5 DEF Loose, CallFits, Turned
<1>8. Leads(queue, k.q)
  <2>1. queue.status[id] # "absent"
    BY <1>1 DEF Loose, Carried
  <2> QED BY <1>1, <2>1, TurnedLeads
<1>9. Known(k)
  <2>1. Known(Now) /\ Now.p = proc /\ Told(queue)
    BY NowFits, NowIs DEF Fits, Known
  <2>2. Told(k.q)
    BY <2>1, TurnedTells
  <2>3. r.closed => r.failure # "none"
    BY <1>2, <2>1 DEF Known, Informed
  <2> QED BY <1>2, <2>1, <2>2, <2>3, KnownKept
<1> QED BY <1>2, <1>3, <1>4, <1>6, <1>7, <1>8, <1>9 DEF Fits, Loose

LEMMA SteerAnsweredKeeps == ASSUME CInv, NEW answer \in Answers, SteerAnswered(answer) PROVE Kept
<1> DEFINE id == proc.steering.item
           a == proc.active
           m == [Now EXCEPT !.p.steering.stage = "finally"]
           taken == [m EXCEPT !.p.turns[a].steers = @ \cup {id}]
           refused == BlockAndPause(m, id)
           q == PauseQ(SetStatus(queue, id, "execution-uncertain"))
           lost == Commit(m, q)
<1>1. /\ proc.steering.stage = "rpc" /\ live /\ due' = due
      /\ Becomes(taken) \/ Becomes(refused) \/ Becomes(Disconnected(lost))
  BY DEF SteerAnswered, Macrotask
<1>2. /\ Loose(queue, proc) /\ AtRest(proc) /\ Looks(queue, proc)
      /\ queue \in Record /\ proc \in Processes
      /\ a # 0 /\ id \in Ids /\ Holds(proc, id) /\ proc.turns[a].startDone
  BY <1>1 DEF CInv, Loose, TurnsFit, Holds
<1>3. /\ m \in Machines /\ m.q = queue /\ m.p = Steered
      /\ Steered.turns = proc.turns /\ Steered.count = proc.count
      /\ Steered.active = proc.active /\ Steered.pump = proc.pump
      /\ Steered.calls = proc.calls /\ Steered.closed = proc.closed
      /\ Steered.failure = proc.failure /\ Steered.scheduled = proc.scheduled
      /\ SameSession(proc, Steered)
      /\ Steered.steering.stage = "finally"
      /\ Steered.steering.item = id
  BY <1>1, SteeredIs
<1>4. CASE Becomes(taken)
  <2> DEFINE steers == proc.turns[a].steers \cup {id}
             next == [proc.turns[a] EXCEPT !.steers = steers]
             r == WithTurn(Steered, a, next)
  <2>1. a \in Turns /\ proc.turns[a] \in TurnRecords /\ Steered \in Processes
    <3>1. a \in Turns
      BY <1>2, Bounds DEF Processes, Numbers, Turns
    <3>2. Steered \in Processes
      <4> HIDE DEF m
      <4> QED BY <1>3 DEF Machines
    <3> QED BY <1>2, <3>1, <3>2 DEF Processes
  <2>2. /\ next \in TurnRecords /\ next.item = proc.turns[a].item /\ next.owned = proc.turns[a].owned
        /\ next.steers = steers /\ next.done = proc.turns[a].done
        /\ next.startDone = proc.turns[a].startDone /\ next.startError = proc.turns[a].startError
        /\ next.id = proc.turns[a].id /\ next.terminal = proc.turns[a].terminal
    <3>1. steers \in SUBSET Ids
      BY <1>2, <2>1 DEF TurnRecords
    <3> HIDE DEF steers
    <3> QED BY <2>1, <3>1 DEF TurnRecords
  <2>3. taken = [m EXCEPT !.p = r]
    <3> HIDE DEF m
    <3> QED BY <1>3, <2>1 DEF WithTurn, Machines, Processes
  <2> HIDE DEF next, taken, m
  <2>4. /\ r \in Processes /\ r.turns[a] = next
        /\ \A k \in Turns : k # a => r.turns[k] = proc.turns[k]
        /\ r.active = a /\ r.count = proc.count
        /\ SameButTurns(Steered, r)
    BY <1>3, <2>1, <2>2, TurnSet
  <2> HIDE DEF r
  <2>5. taken \in Machines /\ taken.q = queue /\ taken.p = r
    BY <1>3, <2>3, <2>4 DEF Machines
  <2>6. /\ r.pump = proc.pump /\ r.calls = proc.calls
        /\ r.closed = proc.closed /\ r.failure = proc.failure /\ r.scheduled = proc.scheduled
        /\ r.recovery = proc.recovery /\ r.close = proc.close
        /\ r.steering.stage = "finally" /\ r.steering.item = id
    BY <1>3, <2>4 DEF SameButTurns, SameSession
  <2>7. ASSUME NEW x PROVE Holds(r, x) <=> Holds(proc, x)
    BY <1>1, <1>2, <2>2, <2>4, <2>6 DEF Holds
  <2>8. /\ proc.pump.stage = "run" => proc.pump.turn \in Turns
        /\ \A k \in Turns : /\ r.turns[k].item = proc.turns[k].item
                            /\ r.turns[k].owned = proc.turns[k].owned
                            /\ r.turns[k].startDone = proc.turns[k].startDone
                            /\ r.turns[k].startError = proc.turns[k].startError
                            /\ r.turns[k].done = proc.turns[k].done
    <3>1. proc.pump.stage = "run" => proc.pump.turn \in Turns
      BY <1>2, Bounds DEF Loose, TurnsFit, Processes, Pumps, Numbers, Turns
    <3> QED BY <2>2, <2>4, <3>1
  <2>9. TurnsFit(r)
    <3>1. proc.pump.stage = "run" /\ Over(proc.turns[proc.pump.turn]) =>
            Over(r.turns[proc.pump.turn])
      BY <2>8 DEF Over
    <3> QED BY <1>2, <2>1, <2>4, <2>6, <2>8, <3>1 DEF Loose, TurnsFit
  <2>10. Apart(r)
    <3>1. proc.pump.stage = "run" =>
            /\ proc.pump.item \notin proc.turns[a].steers /\ proc.pump.item # id
            /\ proc.pump.item = proc.turns[a].item => proc.pump.turn = a
      BY <1>1, <1>2 DEF Loose, Apart
    <3> QED BY <2>2, <2>4, <2>6, <3>1 DEF Apart
  <2>11. AtRest(r)
    BY <1>2, <2>2, <2>4, <2>6 DEF AtRest
  <2>12. Carried(queue, r) /\ CallFits(queue, r)
    BY <1>2, <2>6, <2>7 DEF Loose, Carried, CallFits
  <2>13. Informed(r) /\ Told(queue)
    <3>1. Informed(proc) /\ Told(queue)
      BY <1>1 DEF CInv, Told
    <3>2. KnowsActive(r)
      <4>1. Grounded(proc.turns[a], a, proc.closed) /\ a = proc.count
        BY <1>2, <3>1 DEF Informed, KnowsActive
      <4> QED BY <2>2, <2>4, <2>6, <4>1 DEF KnowsActive, Grounded
    <3>3. ASSUME NEW k \in Turns, k # a PROVE KnowsTurn(r, k)
      <4>1. KnowsTurn(proc, k)
        BY <3>1 DEF Informed
      <4> QED BY <2>4, <2>6, <3>3, <4>1 DEF KnowsTurn
    <3>4. KnowsTurn(r, a)
      <4>1. KnowsTurn(proc, a) /\ a = proc.count
        BY <1>2, <2>1, <3>1 DEF Informed, KnowsActive
      <4>2. ~(a > r.count)
        BY <2>1, <2>4, <4>1 DEF Turns
      <4>3. proc.pump.stage = "run" => proc.pump.item # id
        BY <1>1, <1>2 DEF Loose, Apart
      <4> QED BY <2>2, <2>4, <2>6, <4>1, <4>2, <4>3 DEF KnowsTurn
    <3>5. r.closed => r.failure # "none"
      BY <2>6, <3>1 DEF Informed
    <3> QED BY <3>1, <3>2, <3>3, <3>4, <3>5 DEF Informed
  <2>14. Looks(queue, r)
    <3>1. proc.pump.stage = "run" => (Over(proc.turns[proc.pump.turn]) <=> Over(r.turns[proc.pump.turn]))
      BY <2>8 DEF Over
    <3> QED BY <1>1, <1>2, <2>1, <2>4, <2>6, <2>8, <3>1 DEF Looks
  <2>15. Loose(taken.q, taken.p) /\ Leads(queue, taken.q) /\ Counts(Now, taken)
    BY <2>4, <2>5, <2>9, <2>10, <2>12 DEF Loose, Leads, Counts, Now
  <2> QED BY <1>1, <1>4, <2>5, <2>11, <2>13, <2>14, <2>15, BecomesKeeps
<1>5. CASE Becomes(refused)
  <2> HIDE DEF m
  <2>1. /\ refused \in Machines /\ Turned(queue, refused.q, {id}, "blocked")
        /\ Alike(Steered, refused.p)
        /\ refused.p.scheduled \/ Steered.closed
    BY <1>2, <1>3, BlockAndPauseIs
  <2> HIDE DEF refused
  <2>2. Fits(refused)
    BY <1>1, <2>1, SteerDropped
  <2>3. Looks(refused.q, refused.p)
    BY <2>1, LooksSoon DEF Alike
  <2> QED BY <1>1, <1>5, <2>2, <2>3, FitsAndLooks
<1>6. CASE Becomes(Disconnected(lost))
  <2> HIDE DEF m
  <2>1. Turned(queue, q, {id}, "execution-uncertain")
    <3>1. "execution-uncertain" \in Statuses
      BY DEF Statuses
    <3> QED BY <1>2, <3>1, PausedTurns
  <2> HIDE DEF q
  <2>2. /\ lost \in Machines /\ Turned(queue, lost.q, {id}, "execution-uncertain")
        /\ Alike(Steered, lost.p)
    BY <1>3, <2>1, CommitTurned
  <2> HIDE DEF lost
  <2>3. Fits(lost)
    BY <1>1, <2>2, SteerDropped
  <2> DEFINE d == Disconnected(lost)
  <2>4. Fits(d) /\ d.p.closed /\ Becomes(d)
    BY <1>1, <1>6, <2>3, DisconnectedFits
  <2> HIDE DEF d
  <2> QED BY <1>1, <2>4, LooksSoon, FitsAndLooks
<1> QED BY <1>1, <1>4, <1>5, <1>6

----------------------------------------------------------------------------
(* The connection, exports, and the end of the process.                       *)

\* Nothing but the flags of the process changes, without a step of the runner.
LEMMA FlagsStepKeeps ==
  ASSUME CInv, live, UNCHANGED <<qvars, provider>>, due' \subseteq due, NEW r \in Processes, proc' = r,
         SameTurns(proc, r), r.closed = proc.closed, r.failure = proc.failure,
         Looks(queue, r)
  PROVE  Kept
<1>1. /\ queue' = queue /\ live' = live /\ minted' = minted /\ granted' = granted
      /\ provider' = provider /\ proc' = r
  BY DEF qvars
<1>2. Loose(queue, r) /\ AtRest(r) /\ r.count = proc.count
  <2>1. Turned(queue, queue, {}, "queued")
    BY NoneTurned DEF CInv
  <2>2. r.failure # "none" => r.closed
    BY DEF CInv, Loose, TurnsFit
  <2> QED BY <2>1, <2>2, LooseKept, ShapeKept DEF CInv, SameTurns
<1>3. (live => Loose(queue, proc) /\ AtRest(proc) /\ Looks(queue, proc))'
  BY <1>1, <1>2 DEF Loose, CallFits
<1>4. Announced'
  BY <1>1, <1>2 DEF CInv, Announced
<1>5. Informed(proc)'
  <2>1. Informed(proc)
    BY DEF CInv
  <2>2. /\ r.turns = proc.turns /\ r.active = proc.active /\ r.count = proc.count
        /\ r.pump = proc.pump
        /\ r.closed => r.failure # "none"
    BY <2>1 DEF SameTurns, Informed
  <2>3. Informed(r)
    BY <2>1, <2>2, InformedKept
  <2> QED BY <1>1, <2>3, InformedOn
<1>6. CInv'
  BY <1>1, <1>2, <1>3, <1>4, <1>5 DEF CInv, Afforded
<1>7. Told(queue') /\ ~(proc'.count > proc.count)
  BY <1>1, <1>2 DEF Told, CInv, Processes, Numbers
<1> QED BY <1>6, <1>7 DEF Kept, Alone

LEMMA ConnectionLostKeeps == ASSUME CInv, ConnectionLost PROVE Kept
<1> DEFINE conn == "lost"
           scheduled == proc.scheduled
           recovery == proc.recovery
           r == WithFlags(proc, scheduled, recovery, proc.asks, conn, proc.close)
<1>1. /\ live /\ UNCHANGED <<qvars, provider>> /\ due' \subseteq due
      /\ proc' = [proc EXCEPT !.conn = "lost"] /\ proc \in Processes /\ Looks(queue, proc)
  BY DEF ConnectionLost, Connected, CInv
<1>2. proc' = r
  BY <1>1 DEF WithFlags, Processes
<1>3. /\ conn \in {"open", "lost", "closed"} /\ scheduled \in BOOLEAN /\ scheduled = proc.scheduled
      /\ recovery \in BOOLEAN /\ recovery = proc.recovery /\ proc.asks \in Nat /\ proc.close \in {"no", "client", "turns"}
  BY <1>1 DEF Processes
<1> HIDE DEF conn, scheduled, recovery
<1>4. /\ r \in Processes /\ SameTurns(proc, r)
      /\ r.closed = proc.closed /\ r.failure = proc.failure
      /\ r.scheduled = proc.scheduled /\ r.recovery = proc.recovery /\ r.close = proc.close
  BY <1>1, <1>3 DEF WithFlags, Processes, SameTurns
<1> HIDE DEF r
<1>5. Looks(queue, r)
  BY <1>1, <1>4 DEF Looks, SameTurns
<1> QED BY <1>1, <1>2, <1>4, <1>5, FlagsStepKeeps

LEMMA CloseBeginsKeeps == ASSUME CInv, CloseBegins PROVE Kept
<1> DEFINE conn == IF proc.conn = "open" THEN "lost" ELSE proc.conn
           close == "client"
           scheduled == proc.scheduled
           recovery == proc.recovery
           r == WithFlags(proc, scheduled, recovery, proc.asks, conn, close)
<1>1. /\ live /\ UNCHANGED <<qvars, provider>> /\ due' \subseteq due
      /\ proc' = [proc EXCEPT !.close = close, !.conn = conn] /\ proc \in Processes
  BY DEF CloseBegins, CInv
<1>2. proc' = r
  <2> HIDE DEF conn, close
  <2> QED BY <1>1 DEF WithFlags, Processes
<1>3. /\ conn \in {"open", "lost", "closed"} /\ scheduled \in BOOLEAN /\ scheduled = proc.scheduled
      /\ recovery \in BOOLEAN /\ recovery = proc.recovery /\ proc.asks \in Nat
      /\ close \in {"no", "client", "turns"} /\ close # "no"
  BY <1>1 DEF Processes
<1> HIDE DEF conn, close, scheduled, recovery
<1>4. /\ r \in Processes /\ SameTurns(proc, r)
      /\ r.closed = proc.closed /\ r.failure = proc.failure /\ r.close = close
  BY <1>1, <1>3 DEF WithFlags, Processes, SameTurns
<1> HIDE DEF r
<1>5. Looks(queue, r)
  BY <1>3, <1>4, LooksSoon
<1> QED BY <1>1, <1>2, <1>4, <1>5, FlagsStepKeeps

\* Flags that a step of the process sets.
Flagged(recovery, asks, conn, close) ==
  [Now EXCEPT !.p = WithFlags(proc, proc.scheduled, recovery, asks, conn, close)]

LEMMA FlagsNow ==
  ASSUME CInv, live, NEW m, NEW conn, NEW close, NEW recovery, NEW asks,
         conn \in {"open", "lost", "closed"}, close \in {"no", "client", "turns"},
         recovery \in BOOLEAN, asks \in Nat,
         m = Flagged(recovery, asks, conn, close)
  PROVE  /\ Fits(m) /\ m.q = queue /\ SameTurns(proc, m.p)
<1> DEFINE scheduled == proc.scheduled
           r == WithFlags(proc, scheduled, recovery, asks, conn, close)
<1>1. /\ Now \in Machines /\ Now.q = queue /\ Now.p = proc /\ Fits(Now)
      /\ proc \in Processes /\ scheduled \in BOOLEAN /\ scheduled = proc.scheduled
      /\ proc.failure # "none" <=> proc.closed
  BY NowIs, NowFits DEF CInv, Processes, Loose, TurnsFit, Informed
<1>1a. m = [Now EXCEPT !.p = r]
  BY DEF Flagged
<1> HIDE DEF scheduled
<1>2. /\ r \in Processes /\ SameTurns(proc, r)
      /\ r.closed = proc.closed /\ r.failure = proc.failure
      /\ r.scheduled = proc.scheduled /\ r.recovery = recovery /\ r.asks = asks
      /\ r.conn = conn /\ r.close = close
  BY <1>1, ZenonT(60) DEF WithFlags, Processes, SameTurns
<1>3. m = [Now EXCEPT !.p = r]
  BY <1>1a
<1> HIDE DEF r
<1>4. m \in Machines /\ m.q = queue /\ m.p = r
  BY <1>1, <1>2, <1>3 DEF Machines
<1>5. Fits(m)
  BY <1>1, <1>2, <1>4, FlagsFit
<1> QED BY <1>2, <1>4, <1>5

LEMMA ConnectionClosedKeeps == ASSUME CInv, ConnectionClosed PROVE Kept
<1> DEFINE conn == "closed"
           m == [Now EXCEPT !.p.conn = "closed"]
           d == Disconnected(m)
<1>1. live /\ due' = due /\ Becomes(d) /\ proc \in Processes /\ Now.p = proc /\ Now \in Machines
  BY NowIs DEF ConnectionClosed, Becomes, CInv
<1>2. /\ conn \in {"open", "lost", "closed"} /\ proc.close \in {"no", "client", "turns"}
      /\ proc.recovery \in BOOLEAN /\ proc.asks \in Nat
  BY <1>1 DEF Processes
<1>3. m = Flagged(proc.recovery, proc.asks, conn, proc.close)
  BY <1>1 DEF Flagged, WithFlags, Machines, Processes
<1> HIDE DEF m, conn
<1>4. Fits(m)
  BY <1>1, <1>2, <1>3, FlagsNow
<1>5. Fits(d) /\ d.p.closed
  BY <1>1, <1>4, DisconnectedFits
<1> HIDE DEF d
<1> QED BY <1>1, <1>5, LooksSoon, FitsAndLooks

LEMMA CloseTurnsKeeps == ASSUME CInv, CloseTurns PROVE Kept
<1> DEFINE close == "turns"
           m == [Now EXCEPT !.p.close = "turns"]
           d == Disconnected(m)
<1>1. live /\ due' = due /\ Becomes(d) /\ proc \in Processes /\ Now.p = proc /\ Now \in Machines
  BY NowIs DEF CloseTurns, Becomes, CInv
<1>2. /\ close \in {"no", "client", "turns"} /\ proc.conn \in {"open", "lost", "closed"}
      /\ proc.recovery \in BOOLEAN /\ proc.asks \in Nat
  BY <1>1 DEF Processes
<1>3. m = Flagged(proc.recovery, proc.asks, proc.conn, close)
  BY <1>1 DEF Flagged, WithFlags, Machines, Processes
<1> HIDE DEF m, close
<1>4. Fits(m)
  BY <1>1, <1>2, <1>3, FlagsNow
<1>5. Fits(d) /\ d.p.closed
  BY <1>1, <1>4, DisconnectedFits
<1> HIDE DEF d
<1> QED BY <1>1, <1>5, LooksSoon, FitsAndLooks

LEMMA RecoveryEndsKeeps == ASSUME CInv, RecoveryEnds PROVE Kept
<1> DEFINE off == FALSE
           m == [Now EXCEPT !.p.recovery = FALSE]
<1>1. live /\ due' = due /\ Becomes(Wake(m)) /\ proc \in Processes /\ Now.p = proc /\ Now \in Machines
  BY NowIs DEF RecoveryEnds, Becomes, CInv
<1>2. /\ off \in BOOLEAN /\ proc.close \in {"no", "client", "turns"}
      /\ proc.conn \in {"open", "lost", "closed"} /\ proc.asks \in Nat
  BY <1>1 DEF Processes
<1>3. m = Flagged(off, proc.asks, proc.conn, proc.close)
  BY <1>1 DEF Flagged, WithFlags, Machines, Processes
<1> HIDE DEF m, off
<1>4. Fits(m)
  BY <1>1, <1>2, <1>3, FlagsNow
<1> QED BY <1>1, <1>4, WakeFits

\* Pausing the queue of a process that is open.
LEMMA PauseFits ==
  ASSUME CInv, live, NEW m, Fits(m)
  PROVE  LET n == Commit(m, PauseQ(m.q)) IN
         /\ Fits(n) /\ Looks(n.q, n.p) /\ Alike(m.p, n.p)
         /\ n.p.scheduled \/ n.p.closed
<1> DEFINE q == PauseQ(m.q)
           n == Commit(m, q)
<1>1. /\ m \in Machines /\ Loose(m.q, m.p) /\ AtRest(m.p) /\ Leads(queue, m.q)
      /\ m.p.count = proc.count /\ m.q \in Record /\ Known(m)
  BY DEF Fits, Machines
<1>2. Turned(m.q, q, {}, "queued")
  BY <1>1, NoneTurned, PauseTurnsNone
<1> HIDE DEF q
<1>3. /\ n \in Machines /\ Turned(m.q, n.q, {}, "queued") /\ Alike(m.p, n.p)
      /\ Loose(n.q, n.p) /\ AtRest(n.p) /\ Looks(n.q, n.p)
      /\ n.p.scheduled \/ n.p.closed
      /\ Known(m) /\ Told(n.q) => Known(n)
  BY <1>1, <1>2, CommitKeeps
<1> HIDE DEF n
<1>4. Leads(queue, n.q)
  BY <1>1, <1>3, TurnedLeads, LeadsOn
<1>5. Known(n)
  <2>1. Told(n.q)
    BY <1>1, <1>3, TurnedTells DEF Known
  <2> QED BY <1>1, <1>3, <2>1
<1> QED BY <1>1, <1>3, <1>4, <1>5 DEF Fits, Alike, SameTurns, n, q

LEMMA RecoveryBeginsKeeps ==
  ASSUME CInv, NEW pauses \in BOOLEAN, RecoveryBegins(pauses)
  PROVE  Kept
<1> DEFINE on == TRUE
           asks == proc.asks + 1
           m == [Now EXCEPT !.p.recovery = TRUE, !.p.asks = @ + 1]
<1>1. /\ live /\ due' = due /\ proc \in Processes /\ Now.p = proc /\ Now \in Machines
      /\ Becomes(m) \/ Becomes(Commit(m, PauseQ(m.q)))
  BY NowIs DEF RecoveryBegins, Becomes, CInv
<1>2. /\ on \in BOOLEAN /\ proc.close \in {"no", "client", "turns"}
      /\ proc.conn \in {"open", "lost", "closed"} /\ asks \in Nat
  BY <1>1 DEF Processes
<1>3. m = Flagged(on, asks, proc.conn, proc.close)
  BY <1>1, ZenonT(60) DEF Flagged, WithFlags, Machines, Processes
<1>3a. m.p.recovery
  BY <1>1 DEF Machines, Processes
<1> HIDE DEF m, on, asks
<1>4. Fits(m)
  BY <1>1, <1>2, <1>3, FlagsNow
<1>5. Looks(m.q, m.p)
  BY <1>3a DEF Looks
<1>6. CASE Becomes(m)
  BY <1>1, <1>4, <1>5, <1>6, FitsAndLooks
<1>7. CASE Becomes(Commit(m, PauseQ(m.q)))
  <2> DEFINE n == Commit(m, PauseQ(m.q))
  <2>1. Fits(n) /\ Looks(n.q, n.p) /\ Becomes(n)
    BY <1>1, <1>4, <1>7, PauseFits
  <2> HIDE DEF n
  <2> QED BY <1>1, <2>1, FitsAndLooks
<1> QED BY <1>1, <1>6, <1>7, SMTT(60)

LEMMA UserInterruptsKeeps == ASSUME CInv, UserInterrupts PROVE Kept
<1> DEFINE asks == proc.asks + 1
           m == [Now EXCEPT !.p.asks = @ + 1]
           k == Commit(m, PauseQ(m.q))
           call == IF m.p.active # 0
                   THEN [stage |-> "starting", turn |-> m.p.active, item |-> None]
                   ELSE [stage |-> "idle", turn |-> 0, item |-> None]
           n == BeginInterrupt(m, "user", None)
<1>1. /\ live /\ due' = due /\ proc \in Processes /\ Now.p = proc /\ Now \in Machines
      /\ Becomes(n)
  BY NowIs DEF UserInterrupts, Becomes, CInv
<1>2. /\ proc.close \in {"no", "client", "turns"} /\ proc.recovery \in BOOLEAN
      /\ proc.conn \in {"open", "lost", "closed"} /\ asks \in Nat
  BY <1>1 DEF Processes
<1>3. m = Flagged(proc.recovery, asks, proc.conn, proc.close)
  BY <1>1 DEF Flagged, WithFlags, Machines, Processes
<1>4. n = [k EXCEPT !.p.calls["user"] = call]
  BY DEF BeginInterrupt
<1> HIDE DEF m, asks, n
<1>5. Fits(m) /\ SameTurns(proc, m.p)
  BY <1>1, <1>2, <1>3, FlagsNow
<1>6. Fits(k) /\ Looks(k.q, k.p)
  BY <1>1, <1>5, PauseFits
<1>7. call \in CallRecords
  <2>1. m.p.active \in Numbers /\ 0 \in Numbers
    BY <1>5, Bounds DEF Fits, Machines, Processes, Numbers
  <2> QED BY <2>1 DEF CallRecords, Item
<1>8. n = Calling(k, "user", call) /\ "user" \in Callers
  BY <1>4 DEF Calling, Callers
<1> HIDE DEF k, call
<1>9. Fits(n) /\ Looks(n.q, n.p)
  BY <1>1, <1>6, <1>7, <1>8, CallMoves
<1> QED BY <1>1, <1>9, FitsAndLooks

LEMMA NewProcessIs ==
  /\ NewProcess \in Processes /\ NewProcess.count = 0 /\ NewProcess.active = 0
  /\ NewProcess.pump.stage = "none" /\ NewProcess.steering.stage = "none"
  /\ NewProcess.calls["runner"].stage = "idle" /\ ~NewProcess.closed
  /\ NewProcess.failure = "none"
  /\ \A n \in Turns : /\ NewProcess.turns[n].item = None /\ NewProcess.turns[n].steers = {}
                      /\ NewProcess.turns[n].done = "none"
                      /\ NewProcess.turns[n].startError = "none"
<1> DEFINE pump == [stage |-> "none", item |-> None, turn |-> 0]
           calls == [c \in Callers |-> [stage |-> "idle", turn |-> 0, item |-> None]]
           turns == [n \in Turns |-> NoTurn]
           steering == [stage |-> "none", item |-> None]
<1>1. 0 \in Numbers
  BY Bounds DEF Numbers
<1>2. pump \in Pumps /\ pump.stage = "none" /\ steering \in Steerings /\ steering.stage = "none"
  BY <1>1 DEF Pumps, Steerings, Item
<1>3. calls \in [Callers -> CallRecords] /\ calls["runner"].stage = "idle"
  BY <1>1 DEF CallRecords, Item, Callers
<1>4. /\ NoTurn \in TurnRecords /\ NoTurn.item = None /\ NoTurn.steers = {}
      /\ NoTurn.done = "none" /\ NoTurn.startError = "none"
  BY <1>1 DEF NoTurn, TurnRecords, Item
<1>5. /\ turns \in [Turns -> TurnRecords]
      /\ \A n \in Turns : /\ turns[n].item = None /\ turns[n].steers = {}
                          /\ turns[n].done = "none" /\ turns[n].startError = "none"
  BY <1>4
<1>6. NewProcess = [closed |-> FALSE, scheduled |-> FALSE, pump |-> pump, calls |-> calls,
                    turns |-> turns, count |-> 0, active |-> 0, steering |-> steering,
                    failure |-> "none", recovery |-> FALSE, asks |-> 0, conn |-> "open",
                    close |-> "no"]
  BY DEF NewProcess
<1> HIDE DEF pump, calls, turns, steering
<1>7. NewProcess \in Processes
  BY <1>1, <1>2, <1>3, <1>5, <1>6 DEF Processes
<1> QED BY <1>2, <1>3, <1>5, <1>6, <1>7

\* A new process knows of no turn, and the provider of none of its turns.
LEMMA NewIsInformed ==
  ASSUME NEW p, SameTurns(NewProcess, p), ~p.closed, \A n \in Turns : provider[n] = "idle"
  PROVE  Informed(p)
<1>1. /\ p.active = 0 /\ p.pump.stage = "none"
      /\ \A n \in Turns : /\ p.turns[n].item = None /\ p.turns[n].steers = {}
                          /\ p.turns[n].done = "none" /\ p.turns[n].startError = "none"
  BY NewProcessIs DEF SameTurns
<1>2. KnowsActive(p)
  BY <1>1 DEF KnowsActive
<1>3. \A k \in Turns : KnowsTurn(p, k)
  BY <1>1 DEF KnowsTurn, Terminal
<1> QED BY <1>2, <1>3 DEF Informed

LEMMA GoneKeeps ==
  ASSUME CInv, NEW q \in Record, Leads(queue, q), Told(q), Gone(q)
  PROVE  Kept
<1>1. /\ live' = FALSE /\ queue' = q /\ proc' = NewProcess
      /\ provider' = [n \in Turns |-> "idle"] /\ due' = {}
      /\ minted' = minted /\ granted' = granted
  BY DEF Gone
<1>2. /\ granted \subseteq Ids /\ Cardinality(granted) + proc.count <= MaxTurns
      /\ \A id \in Ids :
           /\ queue.status[id] = "queued" => id \in granted /\ ~queue.recovered[id]
           /\ queue.recovered[id] => id \in granted
           /\ minted[id] = 0 => id \notin granted /\ queue.status[id] = "absent"
      /\ proc.count \in Numbers
  BY DEF CInv, Afforded, Processes
<1>3. Cardinality(granted) + NewProcess.count <= MaxTurns
  <2>1. Cardinality(granted) \in Nat
    BY <1>2, GrantedAreFinite
  <2> QED BY <1>2, <2>1, NewProcessIs, Bounds DEF Numbers
<1>4. Afforded(queue, granted, proc.count)'
  BY <1>1, <1>2, <1>3 DEF Afforded, Leads
<1>5. Announced'
  BY <1>1, NewProcessIs DEF Announced, Turns
<1>6. CInv'
  BY <1>1, <1>4, <1>5, NewProcessIs DEF CInv
<1>7. Told(queue') /\ ~(proc'.count > proc.count)
  BY <1>1, <1>2, NewProcessIs DEF Numbers
<1> QED BY <1>6, <1>7 DEF Kept, Alone

LEMMA CloseEndsKeeps == ASSUME CInv, CloseEnds PROVE Kept
<1>1. queue \in Record /\ Leads(queue, queue) /\ Told(queue) /\ Gone(queue)
  BY DEF CloseEnds, CInv, Leads, Told
<1> QED BY <1>1, GoneKeeps

LEMMA AdmitLeads ==
  ASSUME NEW q \in Record, NEW id \in Ids, q.status[id] = "queued"
  PROVE  /\ AdmitQ(q, id) \in Record /\ Leads(q, AdmitQ(q, id))
         /\ Told(q) => Told(AdmitQ(q, id))
<1>1. AdmitQ(q, id) \in Record
  BY AdmitQType
<1>2. /\ AdmitQ(q, id).recovered = q.recovered
      /\ \A x \in Ids : AdmitQ(q, id).status[x] = IF x = id THEN "admitted" ELSE q.status[x]
  BY DEF AdmitQ, Record
<1>3. Leads(q, AdmitQ(q, id))
  BY <1>2 DEF Leads
<1>4. Told(q) => Told(AdmitQ(q, id))
  BY <1>2 DEF Told, True
<1> QED BY <1>1, <1>3, <1>4

LEMMA CrashKeeps == ASSUME CInv, Crash_ PROVE Kept
<1>1. queue \in Record /\ Told(queue)
  BY DEF CInv, Told
<1>2. CASE Gone(queue)
  BY <1>1, <1>2, GoneKeeps DEF Leads
<1>3. CASE \E id \in Selected(queue) : Gone(AdmitQ(queue, id))
  BY <1>1, <1>3, SelectedIs, AdmitLeads, GoneKeeps
<1>4. CASE \E id \in NextInput(queue, {"steering"}) : Gone(AdmitQ(queue, id))
  BY <1>1, <1>4, NextIs, AdmitLeads, GoneKeeps
<1>5. CASE PumpReady /\ Gone(FinishDispatched(Now).finished)
  <2> DEFINE turn == proc.turns[proc.pump.turn]
             result == IF turn.startError # "none" THEN turn.startError ELSE turn.done
             id == proc.pump.item
             status == IF result \in Errors /\ queue.status[id] = "execution-uncertain"
                       THEN "execution-uncertain" ELSE StatusOf(result)
             finished == SetStatus(queue, id, status)
             pauses == result \in Errors \cup {"failed"}
  <2>1. FinishDispatched(Now).finished = finished
    <3>1. FinishDispatched(Now) = [finished |-> finished, pauses |-> pauses]
      BY DEF FinishDispatched, Now
    <3> HIDE DEF finished, pauses
    <3> QED BY <3>1
  <2>2. /\ live /\ proc.pump.stage = "run" /\ turn.startDone
        /\ turn.startError # "none" \/ turn.done # "none"
    BY <1>5 DEF PumpReady, Gone
  <2>3. /\ id \in Ids /\ proc.pump.turn \in Turns /\ proc \in Processes
        /\ Holds(proc, id) /\ Loose(queue, proc)
    BY <2>2, Bounds DEF CInv, Loose, TurnsFit, Processes, Pumps, Numbers, Turns, Holds
  <2>4. status \in Terminal \cup {"execution-uncertain"} /\ status \in Statuses
    <3>1. turn \in TurnRecords
      BY <2>3 DEF Processes
    <3>2. result \in Results
      BY <2>2, <3>1 DEF TurnRecords, Results
    <3>3. StatusOf(result) \in Terminal \cup {"execution-uncertain"} /\ StatusOf(result) \in Statuses
      BY <3>2, ResultsEnd, SMTT(60)
    <3> HIDE DEF result
    <3> QED BY <3>3 DEF Statuses
  <2>4a. True(id, status)
    BY <1>5, <2>2, PumpTells
  <2> HIDE DEF status
  <2>5. Turned(queue, finished, {id}, status)
    BY <1>1, <2>3, <2>4, SetStatusTurns
  <2>6. Leads(queue, finished)
    <3>1. status # "queued" /\ status # "absent" /\ status # "running"
      BY <2>4 DEF Terminal
    <3>2. queue.status[id] # "absent"
      BY <2>3 DEF Loose, Carried
    <3> HIDE DEF finished
    <3> QED BY <1>1, <2>5, <3>1, <3>2, TurnedLeads
  <2> HIDE DEF finished
  <2>7. Told(finished)
    BY <1>1, <2>4a, <2>5, TurnedTrue
  <2> QED BY <1>5, <2>1, <2>5, <2>6, <2>7, GoneKeeps DEF Turned
<1> QED BY <1>2, <1>3, <1>4, <1>5 DEF Crash_

LEMMA RecoverQLeaves ==
  ASSUME NEW q \in Record
  PROVE  LET r == RecoverQ(q) IN
         /\ r \in Record
         /\ \A id \in Ids :
              /\ r.status[id] \notin {"admitted", "running"}
              /\ r.status[id] = "queued" =>
                   q.status[id] = "queued" /\ (r.recovered[id] => q.recovered[id])
              /\ r.status[id] = "absent" <=> q.status[id] = "absent"
              /\ r.recovered[id] => q.recovered[id] \/ q.status[id] = "queued"
              /\ r.status[id] \in {"completed", "failed"} => r.status[id] = q.status[id]
<1>1. RecoverQ(q) \in Record
  BY RecoverQType
<1>2. CASE Pending(q) = {}
  <2>1. RecoverQ(q) = q
    BY <1>2 DEF RecoverQ
  <2>2. \A id \in Ids : q.status[id] \notin {"admitted", "running"}
    BY <1>2 DEF Pending, Present, Terminal
  <2> QED BY <1>1, <2>1, <2>2
<1>3. CASE Pending(q) # {}
  <2>1. \A id \in Ids :
          /\ RecoverQ(q).status[id] =
               IF q.status[id] \in {"admitted", "running"} THEN "execution-uncertain"
               ELSE IF q.status[id] = "queued" /\ ~q.reviewed THEN "blocked" ELSE q.status[id]
          /\ RecoverQ(q).recovered[id] = (q.recovered[id] \/ (q.status[id] = "queued" /\ ~q.reviewed))
    BY <1>3 DEF RecoverQ, Record
  <2> QED BY <1>1, <2>1
<1> QED BY <1>2, <1>3

LEMMA PauseQLeaves ==
  ASSUME NEW q \in Record
  PROVE  PauseQ(q) \in Record /\ PauseQ(q).status = q.status /\ PauseQ(q).recovered = q.recovered
BY PauseQType DEF PauseQ, Record

LEMMA ReopenSessionKeeps == ASSUME CInv, ReopenSession PROVE Kept
<1> DEFINE r == RecoverQ(queue)
           q == queue'
           m == [q |-> q, p |-> NewProcess]
           p == Wake(m).p
<1>1. /\ ~live /\ live' = TRUE
      /\ q = PauseQ(r) \/ q = r
      /\ proc' = p /\ UNCHANGED <<minted, granted, provider, due>>
  BY DEF ReopenSession
<1>2. queue \in Record /\ proc = NewProcess
  BY <1>1 DEF CInv
<1>3. /\ q \in Record
      /\ \A id \in Ids :
           /\ q.status[id] \notin {"admitted", "running"}
           /\ q.status[id] = "queued" =>
                queue.status[id] = "queued" /\ (q.recovered[id] => queue.recovered[id])
           /\ q.status[id] = "absent" <=> queue.status[id] = "absent"
           /\ q.recovered[id] => queue.recovered[id] \/ queue.status[id] = "queued"
           /\ q.status[id] \in {"completed", "failed"} => q.status[id] = queue.status[id]
  <2>1. q \in Record /\ q.status = r.status /\ q.recovered = r.recovered
    <3>1. r \in Record
      BY <1>2, RecoverQLeaves
    <3> HIDE DEF r
    <3> QED BY <1>1, <3>1, PauseQLeaves
  <2> HIDE DEF q
  <2> QED BY <1>2, <2>1, RecoverQLeaves
<1>4. m \in Machines /\ m.p = NewProcess
  BY <1>3, NewProcessIs DEF Machines
<1> HIDE DEF m
<1>5. p \in Processes /\ Alike(NewProcess, p) /\ (p.scheduled \/ NewProcess.closed)
  BY <1>4, WakeIs DEF Machines
<1> HIDE DEF p
<1>6. /\ p.turns = NewProcess.turns /\ p.active = 0 /\ p.count = 0
      /\ p.pump.stage = "none" /\ p.calls["runner"].stage = "idle" /\ p.steering.stage = "none"
      /\ p.failure = "none" /\ p.scheduled
  BY <1>5, NewProcessIs DEF Alike, SameTurns
<1>7. TurnsFit(p) /\ Apart(p) /\ AtRest(p) /\ CallFits(q, p) /\ Carried(q, p)
  <2>1. TurnsFit(p)
    BY <1>6, NewProcessIs DEF TurnsFit
  <2>2. Apart(p) /\ AtRest(p) /\ CallFits(q, p)
    BY <1>6 DEF Apart, AtRest, CallFits
  <2>3. \A id : ~Holds(p, id)
    BY <1>6 DEF Holds
  <2> QED BY <1>3, <2>1, <2>2, <2>3 DEF Carried
<1>8. (live => Loose(queue, proc) /\ AtRest(proc) /\ Looks(queue, proc))'
  <2>1. Looks(q, p)
    BY <1>6, LooksSoon
  <2> QED BY <1>1, <1>7, <2>1 DEF Loose, CallFits
<1>9. Afforded(queue, granted, proc.count)'
  BY <1>1, <1>2, <1>3, <1>6, NewProcessIs DEF CInv, Afforded
<1>10. Announced'
  BY <1>1, <1>2, <1>6, NewProcessIs DEF CInv, Announced
<1>11. Informed(proc)'
  <2>1. \A n \in Turns : provider[n] = "idle"
    BY <1>2, NewProcessIs DEF CInv, Announced, Turns
  <2>2. SameTurns(NewProcess, p) /\ ~p.closed
    BY <1>5, NewProcessIs DEF Alike
  <2>3. Informed(p)
    BY <2>1, <2>2, NewIsInformed
  <2> QED BY <1>1, <2>3, InformedOn
<1>12. CInv'
  BY <1>1, <1>3, <1>5, <1>8, <1>9, <1>10, <1>11 DEF CInv
<1>13. Told(queue') /\ ~(proc'.count > proc.count)
  BY <1>1, <1>2, <1>3, <1>6, NewProcessIs DEF Told, True
<1> QED BY <1>12, <1>13 DEF Kept, Alone

----------------------------------------------------------------------------
(* The users.                                                                *)

\* What the methods of users do to the record: none starts an input or takes a
\* started one away, what gets in line was asked for, and nothing completes or fails.
Edits(q, given, new) ==
  /\ new \in Record
  /\ \A id \in Ids :
       /\ live => (new.status[id] = "running" <=> q.status[id] = "running")
       /\ new.status[id] = "admitted" => q.status[id] = "admitted"
       /\ new.status[id] = "queued" => id \in given /\ ~new.recovered[id]
       /\ new.recovered[id] => id \in given
       /\ q.status[id] = "absent" => new.status[id] = "absent" \/ minted'[id] # 0
       /\ minted[id] # 0 => new.intent[id] = q.intent[id] /\ minted'[id] # 0
       /\ new.status[id] \in {"completed", "failed"} => new.status[id] = q.status[id]

LEMMA EditsKeep ==
  ASSUME CInv, live' = live, minted' \in [Ids -> 0..MaxEpoch], Edits(queue, granted', queue'), Notify,
         \A id \in Ids : minted'[id] = 0 => minted[id] = 0 /\ id \notin granted',
         granted' \subseteq Ids, Cardinality(granted') + proc.count <= MaxTurns
  PROVE  Kept
<1>1. /\ proc' = IF live THEN Wake(Now).p ELSE proc
      /\ provider' = provider /\ due' = due
  BY DEF Notify
<1>2. queue \in Record /\ queue' \in Record /\ proc \in Processes
  BY DEF CInv, Edits
<1>3. SameTurns(proc, proc') /\ proc' \in Processes /\ (~live => proc' = proc)
  <2>1. CASE live
    <3> DEFINE n == Wake(Now)
    <3>1. n \in Machines /\ Alike(proc, n.p)
      BY <2>1, NowIs, WakeIs
    <3> HIDE DEF n
    <3>2. proc' = n.p
      BY <1>1, <2>1 DEF n
    <3> QED BY <2>1, <3>1, <3>2 DEF Machines, Alike
  <2>2. CASE ~live
    BY <1>1, <1>2, <2>2 DEF SameTurns
  <2> QED BY <2>1, <2>2
<1>4. ASSUME live PROVE Loose(queue, proc)' /\ AtRest(proc)' /\ Looks(queue, proc)'
  <2> DEFINE n == Wake(Now)
             s == queue'
  <2>1. /\ n \in Machines /\ n.q = queue /\ Loose(n.q, n.p) /\ AtRest(n.p) /\ Looks(n.q, n.p)
        /\ n.p.scheduled \/ n.p.closed
    <3>1. /\ n \in Machines /\ n.q = Now.q /\ Alike(Now.p, n.p)
          /\ n.p.scheduled \/ Now.p.closed
      BY <1>4, NowIs, WakeIs
    <3>2. Loose(n.q, n.p) /\ AtRest(n.p) /\ Looks(n.q, n.p)
      BY <1>4, NowIs, WakeKeeps
    <3> HIDE DEF n
    <3> QED BY <1>4, <3>1, <3>2, NowIs DEF Alike
  <2> HIDE DEF n
  <2>2. proc' = n.p
    BY <1>1, <1>4 DEF n
  <2>3. Carried(s, n.p)
    BY <1>4, <2>1 DEF Loose, Carried, Edits
  <2>5. Looks(s, n.p)
    BY <2>1, LooksSoon
  <2>6. Loose(queue, proc)'
    <3>1. CallFits(queue, proc)'
      BY <2>1, <2>2 DEF Loose, CallFits, Edits
    <3>2. TurnsFit(proc)' /\ Apart(proc)'
      BY <2>1, <2>2 DEF Loose
    <3>3. Carried(queue, proc)'
      BY <2>2, <2>3
    <3> QED BY <3>1, <3>2, <3>3 DEF Loose
  <2> QED BY <2>1, <2>2, <2>5, <2>6
<1>5. Afforded(queue, granted, proc.count)'
  BY <1>3 DEF SameTurns, Afforded, Edits, CInv
<1>6. Announced'
  BY <1>1, <1>3 DEF SameTurns, CInv, Announced
<1>7. ASSUME live PROVE Informed(proc)'
  <2> DEFINE n == Wake(Now)
  <2>1. Known(n)
    BY <1>7, NowIs, NowFits, WakeKeeps DEF Fits
  <2>2. Informed(n.p) /\ proc' = n.p
    BY <1>1, <1>7, <2>1 DEF Known
  <2> HIDE DEF n
  <2> QED BY <1>1, <2>2, InformedOn
<1>8. CInv'
  BY <1>2, <1>3, <1>4, <1>5, <1>6, <1>7 DEF CInv
<1>9. Told(queue') /\ ~(proc'.count > proc.count)
  <2>1. Told(queue')
    BY DEF Told, True, Edits
  <2> QED BY <1>2, <1>3, <2>1 DEF SameTurns, Processes, Numbers
<1> QED BY <1>8, <1>9 DEF Kept, Alone

LEMMA AffordedNow ==
  ASSUME CInv
  PROVE  /\ granted \subseteq Ids /\ Cardinality(granted) + proc.count <= MaxTurns
         /\ \A id \in Ids :
              /\ queue.status[id] = "queued" => id \in granted /\ ~queue.recovered[id]
              /\ queue.recovered[id] => id \in granted
              /\ minted[id] = 0 => id \notin granted /\ queue.status[id] = "absent"
         /\ queue \in Record /\ minted \in [Ids -> 0..MaxEpoch] /\ proc.count \in Numbers
         /\ IsFiniteSet(granted) /\ Cardinality(granted) \in Nat
<1>1. granted \subseteq Ids
  BY DEF CInv, Afforded
<1> QED BY <1>1, GrantedAreFinite DEF CInv, Afforded, Processes

LEMMA UserSubmitsKeeps ==
  ASSUME CInv, NEW id \in Ids, NEW intent \in Intents, NEW form \in Forms,
         UserSubmits(id, intent, form)
  PROVE  Kept
<1>1. /\ queue' = SubmitQ(queue, id, intent, form) /\ minted[id] = 0 /\ Grants(id)
      /\ minted' = [minted EXCEPT ![id] = queue.epoch]
      /\ granted' = granted \cup {id} /\ live' = live /\ Notify
  BY DEF UserSubmits
<1>2. intent \in IntentSet
  BY Inputs
<1>3. Turned(queue, queue', {id}, "queued")
  BY <1>1, <1>2, AffordedNow, SubmitQTurns
<1>4. queue.epoch \in 1..MaxEpoch /\ minted' \in [Ids -> 0..MaxEpoch] /\ minted'[id] # 0
      /\ \A x \in Ids : x # id => minted'[x] = minted[x]
  BY <1>1, AffordedNow, Limits DEF Record
<1>5. Edits(queue, granted', queue')
  <2>1. queue.status[id] = "absent" /\ ~queue.recovered[id]
    BY <1>1, AffordedNow
  <2>2. /\ queue' \in Record /\ queue'.recovered = queue.recovered
        /\ \A x \in Ids : x # id => queue'.intent[x] = queue.intent[x]
        /\ \A x \in Ids : queue'.status[x] = IF x = id THEN "queued" ELSE queue.status[x]
    BY <1>3 DEF Turned
  <2> QED BY <1>1, <1>4, <2>1, <2>2, AffordedNow DEF Edits
<1>6. Cardinality(granted') + proc.count <= MaxTurns
  BY <1>1 DEF Grants
<1> QED BY <1>1, <1>4, <1>5, <1>6, AffordedNow, EditsKeep

\* Methods that hand out no new ids.
LEMMA EditingKeeps ==
  ASSUME CInv, Notify, live' = live, minted' = minted, Edits(queue, granted', queue'),
         \/ granted' = granted
         \/ \E id \in Ids : granted' = granted \cup {id} /\ Grants(id) /\ minted[id] # 0
  PROVE  Kept
<1>1. granted' \subseteq Ids /\ Cardinality(granted') + proc.count <= MaxTurns
  BY AffordedNow DEF Grants
<1>2. \A id \in Ids : minted'[id] = 0 => minted[id] = 0 /\ id \notin granted'
  BY AffordedNow
<1> QED BY <1>1, <1>2, AffordedNow, EditsKeep

LEMMA EditKeeps ==
  ASSUME CInv, NEW id \in Ids, NEW form \in Forms, Grants(id), Edit(id, queue.intent[id], form),
         Notify
  PROVE  Kept
<1>1. /\ queue.status[id] \in {"queued", "blocked"} /\ minted' = minted /\ live' = live
      /\ queue' = EditQ(queue, id, queue.intent[id], form) /\ granted' = granted \cup {id}
  BY DEF Edit, Mutable
<1>2. queue \in Record /\ minted[id] # 0
  BY <1>1, AffordedNow
<1>3. queue.intent[id] \in IntentSet /\ form \in FormSet
  BY <1>2, Inputs DEF Record
<1>4. queue' \in Record
  BY <1>1, <1>2, <1>3 DEF Record, EditQ, Statuses, Mutable
<1>5. \A x \in Ids :
        /\ queue'.status[x] = IF x = id THEN "queued" ELSE queue.status[x]
        /\ queue'.recovered[x] <=> x # id /\ queue.recovered[x]
        /\ queue'.intent[x] = queue.intent[x]
  BY <1>1, <1>2 DEF EditQ, Record
<1>6. Edits(queue, granted', queue')
  BY <1>1, <1>2, <1>4, <1>5, AffordedNow DEF Edits
<1> QED BY <1>1, <1>2, <1>6, EditingKeeps

LEMMA RetryKeeps ==
  ASSUME CInv, NEW id \in Ids, NEW acknowledge \in BOOLEAN, Grants(id), Retry(id, acknowledge), Notify
  PROVE  Kept
<1>1. /\ queue.status[id] \in {"blocked", "failed", "cancelled", "execution-uncertain"}
      /\ minted' = minted /\ live' = live
      /\ queue' = RetryQ(queue, id) /\ granted' = granted \cup {id}
  BY DEF Retry, CanRetry
<1>2. queue \in Record /\ minted[id] # 0
  BY <1>1, AffordedNow
<1>3. queue' \in Record
  BY <1>1, <1>2, RetryQType
<1>4. \A x \in Ids :
        /\ x # id => queue'.status[x] = queue.status[x]
        /\ queue'.status[id] \in {"blocked", "queued"}
        /\ queue'.recovered[x] <=> x # id /\ queue.recovered[x]
        /\ queue'.intent[x] = queue.intent[x]
  BY <1>1, <1>2 DEF RetryQ, Record
<1>5. Edits(queue, granted', queue')
  BY <1>1, <1>2, <1>3, <1>4, AffordedNow DEF Edits
<1> QED BY <1>1, <1>2, <1>5, EditingKeeps

LEMMA ResumeKeeps == ASSUME CInv, Resume, Notify PROVE Kept
<1> DEFINE q == IF live THEN queue ELSE RecoverQ(queue)
<1>1. /\ queue' = ResumeQ(q) /\ minted' = minted /\ live' = live /\ granted' = granted
      /\ queue \in Record
  BY AffordedNow DEF Resume
<1>2. q \in Record /\ q.intent = queue.intent
  <2>1. RecoverQ(queue) \in Record
    BY <1>1, RecoverQType
  <2>2. RecoverQ(queue).intent = queue.intent
    BY <1>1 DEF RecoverQ, Record
  <2> QED BY <1>1, <2>1, <2>2
<1>3. \A x \in Ids :
        /\ live => q.status[x] = queue.status[x]
        /\ q.status[x] = "admitted" => queue.status[x] = "admitted"
        /\ q.status[x] = "queued" => x \in granted /\ ~q.recovered[x]
        /\ q.recovered[x] => x \in granted
        /\ q.status[x] = "absent" <=> queue.status[x] = "absent"
        /\ q.status[x] \in {"completed", "failed"} => q.status[x] = queue.status[x]
  <2>1. CASE live
    BY <2>1, AffordedNow
  <2>2. CASE ~live
    BY <1>1, <2>2, RecoverQLeaves, AffordedNow
  <2> QED BY <2>1, <2>2
<1> HIDE DEF q
<1>4. queue' \in Record
  BY <1>1, <1>2, ResumeQType
<1>5. \A x \in Ids :
        LET released == /\ q.status[x] = "blocked" /\ q.recovered[x]
                        /\ ~q.requiresEdit[x]
                        /\ q.form[x] \notin {"redacted", "inline"}
        IN /\ queue'.status[x] = IF released THEN "queued" ELSE q.status[x]
           /\ queue'.recovered[x] <=> q.recovered[x] /\ ~released
           /\ queue'.intent[x] = q.intent[x]
  BY <1>1, <1>2 DEF ResumeQ, Record
<1>6. Edits(queue, granted', queue')
  BY <1>1, <1>2, <1>3, <1>4, <1>5 DEF Edits
<1> QED BY <1>1, <1>6, EditingKeeps

LEMMA UserEditsQueueKeeps == ASSUME CInv, UserEditsQueue PROVE Kept
<1>1. Notify /\ queue \in Record
  BY AffordedNow DEF UserEditsQueue
<1>2. ASSUME NEW id \in Ids, NEW pos \in 1..Cardinality(Ids), Move(id, pos) PROVE Kept
  <2>1. queue' = MoveQ(queue, id, pos) /\ minted' = minted /\ live' = live /\ granted' = granted
    BY <1>2 DEF Move
  <2>2. pos \in Nat
    BY <1>2, SMTT(60)
  <2>3. /\ queue' \in Record /\ queue'.status = queue.status /\ queue'.intent = queue.intent
        /\ queue'.recovered = queue.recovered
    <3>1. queue' \in Record
      BY <1>1, <2>1, <2>2, MoveQType
    <3> QED BY <1>1, <2>1, <3>1 DEF MoveQ, Record
  <2>4. Edits(queue, granted', queue')
    BY <2>1, <2>3, AffordedNow DEF Edits
  <2> QED BY <1>1, <2>1, <2>4, EditingKeeps
<1>3. ASSUME NEW id \in Ids, Remove(id) PROVE Kept
  <2>1. /\ queue' = SetStatus(queue, id, "cancelled") /\ minted' = minted /\ live' = live
        /\ granted' = granted /\ queue.status[id] \notin {"admitted", "running", "absent"}
    BY <1>3 DEF Remove, Present
  <2>2. Turned(queue, queue', {id}, "cancelled") /\ queue'.intent = queue.intent
    <3>1. "cancelled" \in Statuses
      BY DEF Statuses, Terminal
    <3>2. Turned(queue, queue', {id}, "cancelled")
      BY <1>1, <2>1, <3>1, SetStatusTurns
    <3> QED BY <1>1, <2>1, <3>2 DEF SetStatus, Record
  <2>3. Edits(queue, granted', queue')
    BY <2>1, <2>2, AffordedNow DEF Edits, Turned
  <2> QED BY <1>1, <2>1, <2>3, EditingKeeps
<1>4. ASSUME Pause PROVE Kept
  <2>1. queue' = PauseQ(queue) /\ minted' = minted /\ live' = live /\ granted' = granted
    BY <1>4 DEF Pause
  <2>2. /\ queue' \in Record /\ queue'.status = queue.status /\ queue'.recovered = queue.recovered
        /\ queue'.intent = queue.intent
    <3>1. /\ queue' \in Record /\ queue'.status = queue.status
          /\ queue'.recovered = queue.recovered
      BY <1>1, <2>1, PauseQLeaves
    <3> QED BY <1>1, <2>1, <3>1 DEF PauseQ, Record
  <2>3. Edits(queue, granted', queue')
    BY <2>1, <2>2, AffordedNow DEF Edits
  <2> QED BY <1>1, <2>1, <2>3, EditingKeeps
<1>5. ASSUME ClearCompleted PROVE Kept
  <2>1. /\ queue.epoch < MaxEpoch /\ queue' = ClearQ(queue) /\ minted' = minted
        /\ live' = live /\ granted' = granted
    BY <1>5 DEF ClearCompleted
  <2>2. queue' \in Record
    BY <1>1, <2>1, ClearQType
  <2>3. \A x \in Ids :
          /\ queue'.status[x] = IF x \in Pending(queue) THEN queue.status[x] ELSE "absent"
          /\ queue'.recovered[x] => queue.recovered[x]
          /\ queue'.intent[x] = queue.intent[x]
    BY <1>1, <2>1 DEF ClearQ, Record
  <2>4. \A x \in Ids : queue.status[x] = "running" => x \in Pending(queue)
    BY DEF Pending, Present, Terminal
  <2>5. Edits(queue, granted', queue')
    BY <2>1, <2>2, <2>3, <2>4, AffordedNow DEF Edits
  <2> QED BY <1>1, <2>1, <2>5, EditingKeeps
<1> QED BY <1>1, <1>2, <1>3, <1>4, <1>5, EditKeeps, RetryKeeps, ResumeKeeps DEF UserEditsQueue

\* send, when its input can be taken to the provider and when it cannot.
LEMMA UserSendsKeeps ==
  ASSUME CInv, NEW id \in Ids, NEW form \in Forms, UserSends(id, form)
  PROVE  Kept
<1> DEFINE yes == TRUE
           asked == SubmitQ(queue, id, "follow-up", form)
           k == [Now EXCEPT !.q = asked]
           begun == AdmitAndRun(k, id)
           sent == Reserve(begun, id, yes)
           blocked == BlockAndPause(k, id)
           n == proc.count + 1
<1>1. /\ live /\ ~Busy(Now) /\ minted[id] = 0 /\ Grants(id)
      /\ minted' = [minted EXCEPT ![id] = queue.epoch]
      /\ live' = live /\ due' = due /\ proc.failure = "none"
  BY DEF UserSends, Open
<1>2. PICK unchanged \in BOOLEAN :
        LET m == SendQ(id, form, unchanged)
        IN /\ queue' = m.q /\ proc' = m.p
           /\ granted' = IF m.q.status[id] = "running" THEN granted ELSE granted \cup {id}
           /\ provider' = IF m.p.active = 0 THEN provider
                          ELSE [provider EXCEPT ![m.p.active] = "requested"]
  BY DEF UserSends
<1>3. SendQ(id, form, unchanged) = sent \/ SendQ(id, form, unchanged) = blocked
  BY DEF SendQ
<1>4. /\ Now \in Machines /\ Now.q = queue /\ Now.p = proc
      /\ Loose(queue, proc) /\ AtRest(proc)
      /\ proc \in Processes /\ queue \in Record
  BY <1>1, NowIs DEF CInv
<1>5. /\ proc.active = 0 /\ queue.status[id] = "absent" /\ id \notin granted
      /\ ~queue.recovered[id]
  BY <1>1, <1>4, AffordedNow DEF Busy
<1>6. /\ granted \subseteq Ids /\ proc.count \in Numbers
      /\ Cardinality(granted \cup {id}) + proc.count <= MaxTurns
      /\ Cardinality(granted \cup {id}) = Cardinality(granted) + 1
      /\ Cardinality(granted) \in Nat
  BY <1>1, <1>5, AffordedNow, FS_AddElement DEF Grants
<1>7. proc.count < MaxTurns /\ n \in Turns /\ Cardinality(granted) + n <= MaxTurns
  BY <1>6, Bounds DEF Numbers, Turns
<1>8. /\ minted' \in [Ids -> 0..MaxEpoch] /\ minted'[id] # 0
      /\ \A x \in Ids : x # id => minted'[x] = minted[x]
  BY <1>1, <1>4, AffordedNow, Limits DEF Record
<1>9. k \in Machines /\ k.p = proc /\ Turned(queue, k.q, {id}, "queued")
  <2>1. "follow-up" \in IntentSet
    BY DEF IntentSet
  <2>2. Turned(queue, asked, {id}, "queued")
    BY <1>4, <2>1, SubmitQTurns
  <2>3. asked \in Record
    BY <2>2 DEF Turned
  <2> HIDE DEF asked
  <2> QED BY <1>4, <2>2, <2>3, NewRecord
<1>10. proc.calls["runner"].stage \notin {"idle", "finally"} => proc.calls["runner"].item # id
  BY <1>1, <1>4 DEF Loose, CallFits
<1>11. ~Holds(proc, id)
  BY <1>4, <1>5 DEF Loose, Carried
<1>11a. Told(queue) /\ Informed(proc) /\ ~proc.closed
  BY <1>1 DEF CInv, Informed, Told
<1>12. yes \in BOOLEAN
  OBVIOUS
<1>12a. yes = TRUE
  OBVIOUS
<1> HIDE DEF yes, k, n
<1>13. CASE SendQ(id, form, unchanged) = sent
  <2>1. /\ begun \in Machines /\ Turned(k.q, begun.q, {id}, "running")
        /\ Alike(k.p, begun.p) /\ (begun.p.scheduled \/ k.p.closed)
    BY <1>9, AdmitAndRunIs
  <2> HIDE DEF begun
  <2>2. begun.p.count = proc.count /\ begun.p.turns = proc.turns
    BY <1>9, <2>1 DEF Alike, SameTurns
  <2>3. /\ sent \in Machines /\ sent.q = begun.q
        /\ sent.p.count = n /\ sent.p.active = n /\ sent.p.turns[n] = NewTurn(id, yes)
        /\ \A j \in Turns : j # n => sent.p.turns[j] = proc.turns[j]
        /\ SameButTurns(begun.p, sent.p)
    BY <1>7, <1>12, <2>1, <2>2, ReserveIs DEF n
  <2> HIDE DEF sent
  <2> DEFINE s == sent.q
             r == sent.p
  <2>4. Turned(queue, s, {id}, "running")
    BY <1>9, <2>1, <2>3 DEF Turned
  <2>5. /\ r.pump = proc.pump /\ r.steering = proc.steering /\ r.calls = proc.calls
        /\ r.closed = proc.closed /\ r.failure = proc.failure /\ r.close = proc.close
        /\ r.scheduled \/ r.closed
    BY <1>9, <2>1, <2>3 DEF Alike, SameTurns, SameSession, SameButTurns
  <2>6. /\ r.turns[n].item = id /\ r.turns[n].owned /\ r.turns[n].steers = {}
        /\ ~r.turns[n].startDone /\ r.turns[n].done = "none"
        /\ r.turns[n].startError = "none" /\ r.turns[n].terminal = "none"
    <3>1. /\ r.turns[n].item = id /\ r.turns[n].owned = yes /\ r.turns[n].steers = {}
          /\ ~r.turns[n].startDone /\ r.turns[n].done = "none"
          /\ r.turns[n].startError = "none" /\ r.turns[n].terminal = "none"
      BY <1>12, <2>3, NewTurnIs
    <3> QED BY <1>12a, <3>1
  <2>7. r \in Processes /\ s \in Record
    BY <2>3 DEF Machines
  <2>8. r.count = n /\ r.active = n /\ \A j \in Turns : j # n => r.turns[j] = proc.turns[j]
    BY <2>3
  <2>9. queue' = s /\ proc' = r /\ s.status[id] = "running"
        /\ granted' = granted /\ provider' = [provider EXCEPT ![n] = "requested"]
    <3>1. n # 0
      BY <1>7 DEF Turns
    <3>2. s.status[id] = "running"
      BY <2>4 DEF Turned
    <3> QED BY <1>2, <1>13, <2>8, <3>1, <3>2
  <2> HIDE DEF r, s
  <2>10. Begins(queue, proc, s, r, id)
    BY <1>5, <1>7, <1>10, <2>4, <2>5, <2>6, <2>8 DEF Begins, n
  <2>11. Loose(s, r) /\ AtRest(r) /\ Informed(r)
    BY <1>4, <1>11a, <2>7, <2>10, BeginsKeeps
  <2>12. CallFits(queue, proc)'
    <3>1. queue' = s /\ proc' = r
      BY <2>9
    <3> QED BY <1>8, <1>10, <2>5, <2>11, <3>1 DEF Loose, CallFits
  <2>13. (live => Loose(queue, proc) /\ AtRest(proc) /\ Looks(queue, proc))'
    <3>1. Looks(s, r)
      BY <2>5, LooksSoon
    <3> QED BY <2>9, <2>11, <2>12, <3>1 DEF Loose
  <2>14. Afforded(queue, granted, proc.count)'
    BY <1>5, <1>7, <1>8, <2>4, <2>8, <2>9, AffordedNow DEF Afforded, Turned
  <2>15. Announced'
    <3>1. /\ provider \in [Turns -> {"idle", "requested", "running"} \cup Terminal]
          /\ \A j \in Turns : j > proc.count <=> provider[j] = "idle"
          /\ \A j \in Turns : <<"completed", j>> \in due => provider[j] \in Terminal
      BY DEF CInv, Announced
    <3>2. proc.count < n /\ n \in Turns /\ provider[n] = "idle" /\ "idle" \notin Terminal
      BY <1>6, <1>7, <3>1, Bounds DEF n, Numbers, Turns, Terminal
    <3>3. provider' \in [Turns -> {"idle", "requested", "running"} \cup Terminal]
      BY <2>9, <3>1
    <3>4. ASSUME NEW j \in Turns, j > n PROVE provider'[j] = "idle"
      <4>1. j > proc.count /\ j # n
        BY <1>6, <3>2, <3>4, Bounds DEF Numbers, Turns
      <4> QED BY <2>9, <3>1, <4>1
    <3>5. ASSUME NEW j \in Turns, <<"completed", j>> \in due PROVE provider'[j] \in Terminal
      <4>1. j # n
        BY <3>1, <3>2, <3>5
      <4> QED BY <2>9, <3>1, <3>5, <4>1
    <3>6. ASSUME NEW j \in Turns, ~(j > n) PROVE provider'[j] # "idle"
      <4>1. j = n \/ ~(j > proc.count)
        BY <1>6, <3>6, Bounds DEF n, Numbers, Turns
      <4> QED BY <2>9, <3>1, <4>1
    <3> QED BY <1>1, <2>8, <2>9, <3>3, <3>4, <3>5, <3>6 DEF Announced
  <2>16. Informed(proc)'
    <3>1. provider[n] = "idle" /\ provider \in [Turns -> {"idle", "requested", "running"} \cup Terminal]
      BY <1>6, <1>7, Bounds DEF CInv, Announced, n, Numbers, Turns
    <3>2. ASSUME NEW j \in Turns
          PROVE  /\ provider[j] \in Terminal => provider'[j] = provider[j]
                 /\ provider[j] = "requested" => provider'[j] = "requested"
                 /\ provider'[j] \in {"requested", "running"} =>
                      provider[j] \in {"requested", "running"} \/ j = r.active
      BY <2>8, <2>9, <3>1 DEF Terminal
    <3> QED BY <2>9, <2>11, <3>2, InformedOn
  <2>17. CInv'
    BY <1>1, <1>8, <2>7, <2>9, <2>13, <2>14, <2>15, <2>16 DEF CInv
  <2>18. Told(queue')
    BY <1>11a, <2>4, <2>9, TurnedTells
  <2>19. Alone
    BY <1>5, <1>11a DEF Alone, Informed, KnowsTurn, Turns
  <2> QED BY <2>17, <2>18, <2>19 DEF Kept
<1>14. CASE SendQ(id, form, unchanged) = blocked
  <2>1. /\ blocked \in Machines /\ Turned(k.q, blocked.q, {id}, "blocked")
        /\ Alike(k.p, blocked.p) /\ (blocked.p.scheduled \/ k.p.closed)
    BY <1>9, BlockAndPauseIs
  <2> HIDE DEF blocked
  <2> DEFINE s == blocked.q
             r == blocked.p
  <2>2. Turned(queue, s, {id}, "blocked")
    BY <1>9, <2>1 DEF Turned
  <2>3. SameTurns(proc, r) /\ r.closed = proc.closed /\ r.failure = proc.failure
        /\ (r.scheduled \/ r.closed) /\ r \in Processes /\ s \in Record
    BY <1>9, <2>1 DEF Alike, Machines
  <2>4. /\ queue' = s /\ proc' = r /\ s.status[id] = "blocked"
        /\ granted' = granted \cup {id} /\ provider' = provider
    <3>1. r.active = 0
      BY <1>5, <2>3 DEF SameTurns
    <3>2. s.status[id] = "blocked"
      BY <2>2 DEF Turned
    <3> QED BY <1>2, <1>14, <3>1, <3>2
  <2> HIDE DEF r, s
  <2>5. r.failure # "none" => r.closed
    BY <1>4, <2>3 DEF Loose, TurnsFit
  <2>6. Loose(s, r) /\ AtRest(r)
    <3>1. Loose(s, r)
      BY <1>4, <1>10, <1>11, <2>2, <2>3, <2>5, LooseKept
    <3>2. AtRest(r)
      BY <1>5, <2>3 DEF AtRest, SameTurns
    <3> QED BY <3>1, <3>2
  <2>7. CallFits(queue, proc)'
    BY <1>8, <1>10, <2>3, <2>4, <2>6 DEF Loose, CallFits, SameTurns
  <2>8. (live => Loose(queue, proc) /\ AtRest(proc) /\ Looks(queue, proc))'
    <3>1. Looks(s, r)
      BY <2>3, LooksSoon
    <3> QED BY <2>4, <2>6, <2>7, <3>1 DEF Loose
  <2>9. Afforded(queue, granted, proc.count)'
    <3>1. r.count = proc.count
      BY <2>3 DEF SameTurns
    <3> QED BY <1>5, <1>6, <1>8, <2>2, <2>4, <3>1, AffordedNow DEF Afforded, Turned
  <2>10. Announced'
    BY <1>1, <2>3, <2>4 DEF CInv, Announced, SameTurns
  <2>11. Informed(proc)'
    <3>1. /\ r.turns = proc.turns /\ r.active = proc.active /\ r.count = proc.count
          /\ r.pump = proc.pump /\ ~r.closed
      BY <1>11a, <2>3 DEF SameTurns
    <3>2. Informed(r)
      BY <1>11a, <3>1, InformedKept
    <3> QED BY <2>4, <3>2, InformedOn
  <2>12. CInv'
    BY <1>1, <1>8, <2>3, <2>4, <2>8, <2>9, <2>10, <2>11 DEF CInv
  <2>13. Told(queue')
    BY <1>11a, <2>2, <2>4, TurnedTells
  <2>14. ~(proc'.count > proc.count)
    BY <1>6, <2>3, <2>4 DEF SameTurns, Numbers
  <2> QED BY <2>12, <2>13, <2>14 DEF Kept, Alone
<1> QED BY <1>3, <1>13, <1>14

----------------------------------------------------------------------------
(* The theorems.                                                             *)

LEMMA StartFits == ASSUME TInit PROVE CInv
<1>1. /\ queue = [epoch |-> 1, paused |-> FALSE, reviewed |-> FALSE, history |-> {},
                  status |-> [id \in Ids |-> "absent"],
                  place |-> [id \in Ids |-> 0],
                  intent |-> [id \in Ids |-> "follow-up"],
                  form |-> [id \in Ids |-> "plain"],
                  recovered |-> [id \in Ids |-> FALSE],
                  requiresEdit |-> [id \in Ids |-> FALSE]]
      /\ live = TRUE /\ minted = [id \in Ids |-> 0] /\ granted = {}
      /\ proc = NewProcess /\ provider = [n \in Turns |-> "idle"] /\ due = {}
  BY DEF TInit, Init
<1>2. queue \in Record
  BY <1>1, Limits DEF Record, IntentSet, FormSet, Statuses
<1>3. \A id \in Ids : queue.status[id] = "absent" /\ ~queue.recovered[id]
  BY <1>1
<1>4. Loose(queue, proc) /\ AtRest(proc)
  <2>1. \A id : ~Holds(proc, id)
    BY <1>1, NewProcessIs DEF Holds
  <2>2. TurnsFit(proc)
    BY <1>1, NewProcessIs DEF TurnsFit
  <2>3. Carried(queue, proc)
    BY <1>3, <2>1 DEF Carried
  <2>4. Apart(proc) /\ AtRest(proc) /\ CallFits(queue, proc)
    BY <1>1, NewProcessIs DEF Apart, AtRest, CallFits
  <2> QED BY <2>2, <2>3, <2>4 DEF Loose
<1>5. Looks(queue, proc)
  <2>1. NextInput(queue, IntentSet) = {}
    BY <1>3, NextIs
  <2> QED BY <2>1 DEF Looks
<1>6. Afforded(queue, granted, proc.count)
  <2>1. Cardinality({}) = 0
    BY FS_EmptySet
  <2> QED BY <1>1, <1>3, <2>1, NewProcessIs, Bounds DEF Afforded
<1>7. Announced
  BY <1>1, NewProcessIs DEF Announced, Turns
<1>8. minted \in [Ids -> 0..MaxEpoch]
  BY <1>1, Limits
<1>9. Informed(proc)
  BY <1>1, NewProcessIs, NewIsInformed DEF SameTurns
<1> QED BY <1>1, <1>2, <1>4, <1>5, <1>6, <1>7, <1>8, <1>9, NewProcessIs DEF CInv

LEMMA StepKeeps == ASSUME CInv, [TNext]_vars PROVE Kept
<1>1. CASE Microtask
  BY <1>1, RunnerWakesKeeps, PumpResumesKeeps, PumpEndsKeeps, SteeringEndsKeeps,
     InterruptResumesKeeps DEF Microtask
<1>2. CASE Provider
  BY <1>2, ProviderStartsKeeps, ProviderEndsKeeps DEF Provider
<1>3. CASE Answered
  BY <1>3, StartAnsweredKeeps, SteerAnsweredKeeps, InterruptAnsweredKeeps, InterruptTimeoutKeeps
     DEF Answered
<1>4. CASE Notified
  BY <1>4, TurnStartedKeeps, TurnCompletedKeeps, ConnectionLostKeeps, ConnectionClosedKeeps
     DEF Notified
<1>5. CASE TUsers
  BY <1>5, UserSubmitsKeeps, UserSendsKeeps, UserEditsQueueKeeps, UserInterruptsKeeps,
     RecoveryBeginsKeeps, CloseBeginsKeeps DEF TUsers
<1>6. CASE RecoveryEnds \/ CloseTurns \/ CloseEnds \/ Crash_ \/ ReopenSession
  BY <1>6, RecoveryEndsKeeps, CloseTurnsKeeps, CloseEndsKeeps, CrashKeeps, ReopenSessionKeeps
<1>7. CASE UNCHANGED vars
  <2>1. UNCHANGED <<queue, live, minted, granted, proc, provider, due>>
    BY <1>7 DEF vars, qvars, tvars
  <2>2. Loose(queue, proc)' <=> Loose(queue, proc)
    BY <2>1 DEF Loose, CallFits
  <2>3. Afforded(queue, granted, proc.count)' <=> Afforded(queue, granted, proc.count)
    BY <2>1 DEF Afforded
  <2>4. Announced' <=> Announced
    BY <2>1 DEF Announced
  <2>5. Informed(proc)' <=> Informed(proc)
    BY <2>1 DEF Informed, KnowsActive, KnowsTurn, Grounded
  <2>6. CInv'
    BY <2>1, <2>2, <2>3, <2>4, <2>5 DEF CInv
  <2>7. Told(queue') /\ ~(proc'.count > proc.count)
    BY <2>1 DEF Told, CInv, Processes, Numbers
  <2> QED BY <2>6, <2>7 DEF Kept, Alone
<1> QED BY <1>1, <1>2, <1>3, <1>4, <1>5, <1>6, <1>7 DEF TNext

(* Session and record agree at every step, whatever order answers, timeouts,   *)
(* notifications, interruptions, closings and crashes come in: the active turn *)
(* is the one the runner dispatched or send started, an input is recorded as   *)
(* running exactly as long as one part of the session has it, no part has one  *)
(* another has, and a turn that can be settled is.                             *)
THEOREM SessionStaysConsistent == TSpec => []CInv
<1>1. TInit => CInv
  BY StartFits
<1>2. CInv /\ [TNext]_vars => CInv'
  BY StepKeeps DEF Kept
<1> QED BY <1>1, <1>2, PTL DEF TSpec

(* No input is left behind by the turns: one that the record shows as admitted *)
(* or running is dispatched, steering or with the active turn, so that the     *)
(* code that ends these gives it its result.                                   *)
THEOREM NoInputIsLeftBehind == TSpec => []NoOrphan
<1>1. CInv => NoOrphan
  BY DEF CInv, Loose, Carried, Holds, NoOrphan, InFlight
<1> QED BY <1>1, SessionStaysConsistent, PTL

(* The record comes first: as long as a turn is active, the record shows its   *)
(* input, its steers and the steering on its way as running.                   *)
THEOREM RecordComesFirst == TSpec => []DurableBeforeDispatch
<1>1. CInv => DurableBeforeDispatch
  <2> SUFFICES ASSUME CInv, live, proc.active # 0
               PROVE  /\ queue.status[proc.turns[proc.active].item] = "running"
                      /\ \A id \in proc.turns[proc.active].steers : queue.status[id] = "running"
                      /\ proc.steering.stage = "rpc" =>
                           queue.status[proc.steering.item] = "running"
    BY DEF DurableBeforeDispatch
  <2>1. \A id \in Ids : Holds(proc, id) => queue.status[id] = "running"
    BY DEF CInv, Loose, Carried
  <2>2. proc.turns[proc.active].item \in Ids /\ proc.turns[proc.active].steers \subseteq Ids
    <3>1. proc.active \in Turns
      BY Bounds DEF CInv, Processes, Numbers, Turns
    <3>2. proc.turns[proc.active] \in TurnRecords
      BY <3>1 DEF CInv, Processes
    <3> QED BY <3>2 DEF CInv, Loose, TurnsFit, TurnRecords
  <2>3. proc.steering.stage = "rpc" => proc.steering.item \in Ids
    BY DEF CInv, Loose, TurnsFit
  <2> QED BY <2>1, <2>2, <2>3 DEF Holds
<1> QED BY <1>1, SessionStaysConsistent, PTL

(* No wake-up is lost: while the runner has something to do it is scheduled,   *)
(* or something is under way at whose end it is: the dispatched turn's result, *)
(* an interruption, an export, or the active turn when that is what it waits   *)
(* for.                                                                        *)
THEOREM NoWakeupIsLost == TSpec => []NoLostWakeup
<1>1. CInv => NoLostWakeup
  BY DEF CInv, Looks, Over, NoLostWakeup, PumpReady, Interrupting, Now
<1> QED BY <1>1, SessionStaysConsistent, PTL

(* Completed is the provider's word: a step marks an input completed only when *)
(* the provider has completed the last turn that the input was dispatched in,  *)
(* sent with or steered into, whatever late notifications, retries and lost    *)
(* connections came before.                                                    *)
THEOREM CompletedIsTheProvidersWord == TSpec => CompletedIsTrue
<1>1. CInv /\ [TNext]_vars =>
        [\A id \in Ids : queue.status[id] # "completed" /\ queue'.status[id] = "completed"
           => \E n \in Turns : LastTurn(n, id) /\ provider[n] = "completed"]_vars
  BY StepKeeps DEF Kept, Told, True
<1> QED BY <1>1, SessionStaysConsistent, PTL DEF TSpec, CompletedIsTrue

(* A failure is one: a step marks an input failed only when the provider has   *)
(* not completed the last turn that carried it, or when the runner was halted  *)
(* because the completed boundary of that turn could not be recorded.          *)
THEOREM FailuresAreHonest == TSpec => HonestFailure
<1>1. CInv /\ [TNext]_vars =>
        [\A id \in Ids : queue.status[id] # "failed" /\ queue'.status[id] = "failed"
           => \A n \in Turns : LastTurn(n, id) =>
                provider[n] # "completed" \/ proc.turns[n].done = "halted"]_vars
  BY StepKeeps DEF Kept, Told, True
<1> QED BY <1>1, SessionStaysConsistent, PTL DEF TSpec, HonestFailure

(* One turn at a time: a step reserves a turn, and so requests it, only while  *)
(* no turn whose start was confirmed or is still awaited runs at the provider. *)
THEOREM TurnsDoNotOverlap == TSpec => OneTurnAtATime
<1>1. CInv /\ [TNext]_vars =>
        [proc'.count > proc.count =>
           \A n \in Turns : provider[n] = "running" => proc.turns[n].startError # "none"]_vars
  BY StepKeeps DEF Kept, Alone
<1> QED BY <1>1, SessionStaysConsistent, PTL DEF TSpec, OneTurnAtATime
=============================================================================
