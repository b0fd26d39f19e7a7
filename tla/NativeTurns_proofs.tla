-------------------------- MODULE NativeTurns_proofs --------------------------
(***************************************************************************)
(* Theorems about NativeTurns, for every set of inputs and every limit.     *)
(***************************************************************************)
EXTENDS NativeTurns, InputQueue_proofs

(* The states of the machine, and what each operator does to its fields.    *)

Input == Ids \cup {NoInput}
Sends == [at : {"none", "admission", "turn", "persist"}, item : Input,
          owned : BOOLEAN, aborted : BOOLEAN]
Results == Terminal \cup {"none", "error"}
Pumps == [at : {"none", "run", "returns", "ended"}, item : Input, result : Results]
Stages == {"no", "admission", "turn", "input", "runner", "ended"}
EngineStates ==
  [send : Sends, last : Terminal, steering : SUBSET Ids, rejected : Input,
   operation : Operations \cup {"none"}, waits : [Callers -> Stages], halted : BOOLEAN, closed : BOOLEAN,
   scheduled : BOOLEAN, pump : Pumps]
Machines == [q : Record, e : EngineStates]

\* All that a turn is about: what waking the runner leaves alone.
SameTurn(e, f) ==
  /\ f.send = e.send /\ f.last = e.last /\ f.steering = e.steering
  /\ f.rejected = e.rejected /\ f.waits = e.waits /\ f.closed = e.closed
  /\ f.pump = e.pump

LEMMA WakeIs ==
  ASSUME NEW m \in Machines
  PROVE  /\ Wake(m) \in Machines /\ Wake(m).q = m.q /\ SameTurn(m.e, Wake(m).e)
<1>1. Wake(m) = [m EXCEPT !.e = [m.e EXCEPT !.scheduled = m.e.scheduled \/ ~m.e.closed]]
  BY DEF Wake, Machines
<1> DEFINE on == m.e.scheduled \/ ~m.e.closed
           f == [m.e EXCEPT !.scheduled = on]
<1>2. m.e \in EngineStates /\ on \in BOOLEAN
  BY DEF Machines, EngineStates
<1> HIDE DEF on
<1>3. f \in EngineStates /\ SameTurn(m.e, f)
  BY <1>2 DEF EngineStates, SameTurn
<1>4. Wake(m) = [m EXCEPT !.e = f]
  BY <1>1 DEF on
<1> HIDE DEF f
<1> QED BY <1>3, <1>4 DEF Machines

LEMMA CommitIs ==
  ASSUME NEW m \in Machines, NEW q2 \in Record
  PROVE  /\ Commit(m, q2) \in Machines /\ Commit(m, q2).q = q2
         /\ SameTurn(m.e, Commit(m, q2).e)
<1> DEFINE n == [m EXCEPT !.q = q2]
<1>1. n \in Machines /\ n.q = q2 /\ n.e = m.e
  BY DEF Machines
<1> HIDE DEF n
<1>2. Wake(n) \in Machines /\ Wake(n).q = q2 /\ SameTurn(m.e, Wake(n).e)
  BY <1>1, WakeIs
<1> QED BY <1>2 DEF Commit, n
LEMMA SendIs ==
  ASSUME NEW m \in Machines, NEW id \in Ids, NEW owned \in BOOLEAN
  PROVE  LET f == Send(m, id, owned).e IN
         /\ Send(m, id, owned) \in Machines /\ Send(m, id, owned).q = m.q
         /\ f.send.at = "admission" /\ f.send.item = id /\ f.send.owned = owned
         /\ f.steering = m.e.steering /\ f.rejected = m.e.rejected /\ f.waits = m.e.waits
         /\ f.closed = m.e.closed /\ f.pump = m.e.pump
<1> DEFINE send == [at |-> "admission", item |-> id, owned |-> owned, aborted |-> FALSE]
           f == [m.e EXCEPT !.send = send, !.last = "completed"]
<1>1. Send(m, id, owned) = [m EXCEPT !.e = f]
  BY DEF Send, Machines
<1>2. /\ send \in Sends /\ send.at = "admission" /\ send.item = id /\ send.owned = owned
  BY DEF Sends, Input
<1>3. "completed" \in Terminal /\ m.e \in EngineStates
  BY DEF Terminal, Machines
<1> HIDE DEF send
<1>4. /\ f \in EngineStates /\ f.send = send
      /\ f.steering = m.e.steering /\ f.rejected = m.e.rejected /\ f.waits = m.e.waits
      /\ f.closed = m.e.closed /\ f.pump = m.e.pump
  BY <1>2, <1>3 DEF EngineStates
<1> HIDE DEF f
<1>5. /\ Send(m, id, owned) \in Machines /\ Send(m, id, owned).q = m.q
      /\ Send(m, id, owned).e = f
  BY <1>1, <1>4 DEF Machines
<1> QED BY <1>2, <1>4, <1>5

LEMMA ReturnsIs ==
  ASSUME NEW m \in Machines, NEW result \in Results
  PROVE  LET f == Returns(m, result).e IN
         /\ Returns(m, result) \in Machines /\ Returns(m, result).q = m.q
         /\ f.send = m.e.send /\ f.last = m.e.last
         /\ f.steering = m.e.steering /\ f.rejected = m.e.rejected /\ f.waits = m.e.waits
         /\ f.closed = m.e.closed
         /\ IF m.e.send.owned THEN f.pump = m.e.pump
            ELSE /\ f.pump.at = "returns" /\ f.pump.item = m.e.pump.item
                 /\ f.pump.result = result
<1>1. CASE m.e.send.owned
  BY <1>1 DEF Returns
<1>2. CASE ~m.e.send.owned
  <2> DEFINE pump == [m.e.pump EXCEPT !.at = "returns", !.result = result]
             f == [m.e EXCEPT !.pump = pump]
  <2>1. Returns(m, result) = [m EXCEPT !.e = f]
    BY <1>2 DEF Returns, Machines, EngineStates
  <2>2. m.e \in EngineStates /\ m.e.pump \in Pumps
    BY DEF Machines, EngineStates
  <2>3. /\ pump \in Pumps /\ pump.at = "returns" /\ pump.item = m.e.pump.item
        /\ pump.result = result
    BY <2>2 DEF Pumps
  <2> HIDE DEF pump
  <2>4. /\ f \in EngineStates /\ f.pump = pump
        /\ f.send = m.e.send /\ f.last = m.e.last
        /\ f.steering = m.e.steering /\ f.rejected = m.e.rejected /\ f.waits = m.e.waits
        /\ f.closed = m.e.closed
    BY <2>2, <2>3 DEF EngineStates
  <2> HIDE DEF f
  <2>5. Returns(m, result) \in Machines /\ Returns(m, result).q = m.q
        /\ Returns(m, result).e = f
    BY <2>1, <2>4 DEF Machines
  <2> QED BY <1>2, <2>3, <2>4, <2>5
<1> QED BY <1>1, <1>2

LEMMA OverIs ==
  ASSUME NEW m \in Machines
  PROVE  LET f == Over(m).e IN
         /\ Over(m) \in Machines /\ Over(m).q = m.q
         /\ f.send = NoSend /\ f.last = m.e.last
         /\ f.steering = m.e.steering /\ f.rejected = m.e.rejected /\ f.waits = m.e.waits
         /\ f.closed = m.e.closed /\ f.pump = m.e.pump
<1> DEFINE f == [m.e EXCEPT !.send = NoSend]
           n == [m EXCEPT !.e.send = NoSend]
<1>1. n = [m EXCEPT !.e = f]
  BY DEF Machines
<1>2. NoSend \in Sends /\ m.e \in EngineStates
  BY DEF NoSend, Sends, Input, Machines
<1>3. /\ f \in EngineStates /\ f.send = NoSend /\ f.last = m.e.last
      /\ f.steering = m.e.steering /\ f.rejected = m.e.rejected /\ f.waits = m.e.waits
      /\ f.closed = m.e.closed /\ f.pump = m.e.pump
  BY <1>2 DEF EngineStates
<1> HIDE DEF f
<1>4. n \in Machines /\ n.q = m.q /\ n.e = f
  BY <1>1, <1>3 DEF Machines
<1>5. Over(m) = Wake(n)
  BY DEF Over
<1> HIDE DEF n
<1>6. Wake(n) \in Machines /\ Wake(n).q = n.q /\ SameTurn(n.e, Wake(n).e)
  BY <1>4, WakeIs
<1> QED BY <1>3, <1>4, <1>5, <1>6 DEF SameTurn

LEMMA InterruptIs ==
  ASSUME NEW m \in Machines, NEW caller \in Callers
  PROVE  LET f == Interrupt(m, caller).e IN
         /\ Interrupt(m, caller) \in Machines /\ Interrupt(m, caller).q = m.q
         /\ f.send.at = m.e.send.at /\ f.send.item = m.e.send.item
         /\ f.send.owned = m.e.send.owned /\ f.last = m.e.last
         /\ f.steering = m.e.steering /\ f.rejected = m.e.rejected
         /\ f.waits = [m.e.waits EXCEPT ![caller] = "admission"]
         /\ f.closed = m.e.closed /\ f.pump = m.e.pump
<1> DEFINE aborted == m.e.send.aborted \/ m.e.send.at \in {"admission", "turn"}
           send == [m.e.send EXCEPT !.aborted = aborted]
           waits == [m.e.waits EXCEPT ![caller] = "admission"]
           f == [m.e EXCEPT !.send = send, !.waits = waits]
<1>1. m.e \in EngineStates /\ m.e.send \in Sends /\ m.e.waits \in [Callers -> Stages]
  BY DEF Machines, EngineStates
<1>2. Interrupt(m, caller) = [m EXCEPT !.e = f]
  BY DEF Interrupt, Machines, EngineStates
<1>3. aborted \in BOOLEAN
  BY <1>1 DEF Sends
<1> HIDE DEF aborted
<1>4. /\ send \in Sends /\ send.at = m.e.send.at /\ send.item = m.e.send.item
      /\ send.owned = m.e.send.owned
  BY <1>1, <1>3 DEF Sends
<1>5. waits \in [Callers -> Stages]
  BY <1>1 DEF Stages
<1> HIDE DEF send, waits
<1>6. /\ f \in EngineStates /\ f.send = send /\ f.waits = waits /\ f.last = m.e.last
      /\ f.steering = m.e.steering /\ f.rejected = m.e.rejected
      /\ f.closed = m.e.closed /\ f.pump = m.e.pump
  BY <1>1, <1>4, <1>5 DEF EngineStates
<1> HIDE DEF f
<1>7. /\ Interrupt(m, caller) \in Machines /\ Interrupt(m, caller).q = m.q
      /\ Interrupt(m, caller).e = f
  BY <1>2, <1>6 DEF Machines
<1> QED BY <1>4, <1>6, <1>7 DEF waits

LEMMA AdmitAndRunIs ==
  ASSUME NEW m \in Machines, NEW id \in Ids
  PROVE  /\ AdmitAndRun(m, id) \in Machines
         /\ Turned(m.q, AdmitAndRun(m, id).q, {id}, "running")
         /\ SameTurn(m.e, AdmitAndRun(m, id).e)
<1> DEFINE n == SetStatus(AdmitQ(m.q, id), id, "running")
<1>4. Turned(m.q, n, {id}, "running")
  BY AdmitAndRunTurns DEF Machines
<1>5. AdmitAndRun(m, id) = Commit(m, n)
  BY DEF AdmitAndRun
<1> HIDE DEF n
<1>6. n \in Record
  BY <1>4 DEF Turned
<1> QED BY <1>4, <1>5, <1>6, CommitIs

LEMMA BlockAndPauseIs ==
  ASSUME NEW m \in Machines, NEW id \in Ids
  PROVE  /\ BlockAndPause(m, id) \in Machines
         /\ Turned(m.q, BlockAndPause(m, id).q, {id}, "blocked")
         /\ SameTurn(m.e, BlockAndPause(m, id).e)
<1> DEFINE a == SetStatus(m.q, id, "blocked")
           n == PauseQ(a)
<1>1. m.q \in Record /\ "blocked" \in Statuses
  BY DEF Machines, Statuses, Mutable
<1>2. Turned(m.q, a, {id}, "blocked")
  BY <1>1, SetStatusTurns
<1> HIDE DEF a
<1>3. Turned(m.q, n, {id}, "blocked")
  BY <1>1, <1>2, PauseTurnsNone
<1>4. BlockAndPause(m, id) = Commit(m, n)
  BY DEF BlockAndPause, a
<1> HIDE DEF n
<1>5. n \in Record
  BY <1>3 DEF Turned
<1> QED BY <1>3, <1>4, <1>5, CommitIs

\* What the end of a send does: the pump that waits for it has its result.
LEMMA RefuseIs ==
  ASSUME NEW m \in Machines, m.e.send.item \in Ids
  PROVE  LET n == Refuse(m)
             f == n.e IN
         /\ n \in Machines
         /\ \E status \in {"cancelled", "blocked"} :
              Turned(m.q, n.q, IF m.e.send.owned THEN {m.e.send.item} ELSE {}, status)
         /\ f.send = NoSend
         /\ f.steering = m.e.steering /\ f.rejected = m.e.rejected /\ f.waits = m.e.waits
         /\ f.closed = m.e.closed
         /\ IF m.e.send.owned THEN f.pump = m.e.pump
            ELSE /\ f.pump.at = "returns" /\ f.pump.item = m.e.pump.item
                 /\ f.pump.result = "error"
<1> DEFINE send == m.e.send
           status == IF send.aborted THEN "cancelled" ELSE "blocked"
           ids == IF send.owned THEN {send.item} ELSE {}
           q1 == IF send.owned THEN SetStatus(m.q, send.item, status) ELSE m.q
           q2 == PauseQ(q1)
           c == Commit(m, q2)
           r == Returns(c, "error")
<1>1. m.q \in Record /\ status \in {"cancelled", "blocked"} /\ status \in Statuses
  BY DEF Machines, Statuses, Mutable, Terminal
<1> HIDE DEF status
<1>2. Turned(m.q, q1, ids, status)
  BY <1>1, SetStatusTurns, NoneTurned
<1> HIDE DEF q1, ids
<1>3. Turned(m.q, q2, ids, status) /\ q2 \in Record
  <2>1. Turned(m.q, q2, ids, status)
    BY <1>1, <1>2, PauseTurnsNone
  <2> QED BY <2>1 DEF Turned
<1> HIDE DEF q2
<1>4. c \in Machines /\ c.q = q2 /\ SameTurn(m.e, c.e)
  BY <1>3, CommitIs
<1> HIDE DEF c
<1>5. /\ r \in Machines /\ r.q = c.q
      /\ r.e.steering = c.e.steering /\ r.e.rejected = c.e.rejected /\ r.e.waits = c.e.waits
      /\ r.e.closed = c.e.closed
      /\ IF c.e.send.owned THEN r.e.pump = c.e.pump
         ELSE /\ r.e.pump.at = "returns" /\ r.e.pump.item = c.e.pump.item
              /\ r.e.pump.result = "error"
  <2>1. "error" \in Results
    BY DEF Results
  <2> QED BY <1>4, <2>1, ReturnsIs
<1> HIDE DEF r
<1>6. LET f == Over(r).e IN
      /\ Over(r) \in Machines /\ Over(r).q = r.q
      /\ f.send = NoSend
      /\ f.steering = r.e.steering /\ f.rejected = r.e.rejected /\ f.waits = r.e.waits
      /\ f.closed = r.e.closed /\ f.pump = r.e.pump
  BY <1>5, OverIs
<1>7. Refuse(m) = Over(r)
  BY DEF Refuse, r, c, q2, q1, status
<1>8. ids = (IF m.e.send.owned THEN {m.e.send.item} ELSE {})
  BY DEF ids
<1> QED BY <1>1, <1>3, <1>4, <1>5, <1>6, <1>7, <1>8 DEF SameTurn

LEMMA SteeringForgotten ==
  ASSUME NEW m \in Machines
  PROVE  LET n == [m EXCEPT !.e.steering = {}] IN
         /\ n \in Machines /\ n.q = m.q /\ n.e.steering = {}
         /\ n.e.send = m.e.send /\ n.e.last = m.e.last /\ n.e.rejected = m.e.rejected
         /\ n.e.waits = m.e.waits /\ n.e.closed = m.e.closed /\ n.e.pump = m.e.pump
<1> DEFINE f == [m.e EXCEPT !.steering = {}]
<1>1. m.e \in EngineStates /\ [m EXCEPT !.e.steering = {}] = [m EXCEPT !.e = f]
  BY DEF Machines
<1>2. /\ f \in EngineStates /\ f.steering = {}
      /\ f.send = m.e.send /\ f.last = m.e.last /\ f.rejected = m.e.rejected
      /\ f.waits = m.e.waits /\ f.closed = m.e.closed /\ f.pump = m.e.pump
  BY <1>1 DEF EngineStates
<1> HIDE DEF f
<1> QED BY <1>1, <1>2 DEF Machines

LEMMA SettleIs ==
  ASSUME NEW m \in Machines
  PROVE  LET n == Settle(m)
             f == n.e IN
         /\ n \in Machines
         /\ Turned(m.q, n.q, m.e.steering \cup (IF m.e.send.owned THEN {m.e.send.item} ELSE {}),
                   m.e.last)
         /\ f.send = NoSend /\ f.steering = {}
         /\ f.rejected = m.e.rejected /\ f.waits = m.e.waits /\ f.closed = m.e.closed
         /\ IF m.e.send.owned THEN f.pump = m.e.pump
            ELSE /\ f.pump.at = "returns" /\ f.pump.item = m.e.pump.item
                 /\ f.pump.result = m.e.last
<1> DEFINE ends == m.e.steering \cup (IF m.e.send.owned THEN {m.e.send.item} ELSE {})
           last == m.e.last
           q1 == [m.q EXCEPT !.status = [id \in Ids |-> IF id \in ends THEN last
                                                        ELSE m.q.status[id]]]
           q2 == IF last = "failed" THEN PauseQ(q1) ELSE q1
           c == Commit(m, q2)
           s == [c EXCEPT !.e.steering = {}]
           r == Returns(s, last)
<1>1. m.q \in Record /\ last \in Statuses /\ last \in Results
  BY DEF Machines, EngineStates, Statuses, Results
<1>2. Settle(m) = Over(r)
  BY DEF Settle
<1> HIDE DEF ends, last
<1>3. Turned(m.q, q1, ends, last)
  BY <1>1, SeveralTurned
<1> HIDE DEF q1
<1>4. Turned(m.q, q2, ends, last)
  BY <1>1, <1>3, PauseTurnsNone
<1> HIDE DEF q2
<1>5. q2 \in Record
  BY <1>4 DEF Turned
<1>6. c \in Machines /\ c.q = q2 /\ SameTurn(m.e, c.e)
  BY <1>5, CommitIs
<1> HIDE DEF c
<1>7. /\ s \in Machines /\ s.q = c.q /\ s.e.steering = {}
      /\ s.e.send = c.e.send /\ s.e.last = c.e.last /\ s.e.rejected = c.e.rejected
      /\ s.e.waits = c.e.waits /\ s.e.closed = c.e.closed /\ s.e.pump = c.e.pump
  BY <1>6, SteeringForgotten
<1> HIDE DEF s
<1>8. /\ r \in Machines /\ r.q = s.q
      /\ r.e.steering = s.e.steering /\ r.e.rejected = s.e.rejected /\ r.e.waits = s.e.waits
      /\ r.e.closed = s.e.closed
      /\ IF s.e.send.owned THEN r.e.pump = s.e.pump
         ELSE /\ r.e.pump.at = "returns" /\ r.e.pump.item = s.e.pump.item
              /\ r.e.pump.result = last
  BY <1>1, <1>7, ReturnsIs
<1> HIDE DEF r
<1>9. LET f == Over(r).e IN
      /\ Over(r) \in Machines /\ Over(r).q = r.q
      /\ f.send = NoSend
      /\ f.steering = r.e.steering /\ f.rejected = r.e.rejected /\ f.waits = r.e.waits
      /\ f.closed = r.e.closed /\ f.pump = r.e.pump
  BY <1>8, OverIs
<1>10. /\ ends = m.e.steering \cup (IF m.e.send.owned THEN {m.e.send.item} ELSE {})
       /\ last = m.e.last
  BY DEF ends, last
<1> QED BY <1>2, <1>4, <1>6, <1>7, <1>8, <1>9, <1>10 DEF SameTurn

LEMMA RejectIs ==
  ASSUME NEW m \in Machines
  PROVE  LET n == Reject(m)
             f == n.e IN
         /\ n \in Machines /\ n.q = m.q
         /\ f.send = NoSend /\ f.steering = m.e.steering
         /\ f.rejected = m.e.send.item /\ f.waits = m.e.waits /\ f.closed = m.e.closed
         /\ IF m.e.send.owned THEN f.pump = m.e.pump
            ELSE /\ f.pump.at = "returns" /\ f.pump.item = m.e.pump.item
                 /\ f.pump.result = "error"
<1> DEFINE item == m.e.send.item
           g == [m.e EXCEPT !.rejected = item]
           s == [m EXCEPT !.e.rejected = item]
           r == Returns(s, "error")
<1>1. m.e \in EngineStates /\ item \in Input /\ "error" \in Results
  BY DEF Machines, EngineStates, Sends, Results
<1>2. Reject(m) = Over(r)
  BY DEF Reject
<1>3. s = [m EXCEPT !.e = g]
  BY DEF Machines
<1> HIDE DEF item, s
<1>4. /\ g \in EngineStates /\ g.rejected = item
      /\ g.send = m.e.send /\ g.steering = m.e.steering
      /\ g.waits = m.e.waits /\ g.closed = m.e.closed /\ g.pump = m.e.pump
  BY <1>1 DEF EngineStates
<1> HIDE DEF g
<1>5. s \in Machines /\ s.q = m.q /\ s.e = g
  BY <1>3, <1>4 DEF Machines
<1>6. /\ r \in Machines /\ r.q = s.q
      /\ r.e.steering = s.e.steering /\ r.e.rejected = s.e.rejected /\ r.e.waits = s.e.waits
      /\ r.e.closed = s.e.closed
      /\ IF s.e.send.owned THEN r.e.pump = s.e.pump
         ELSE /\ r.e.pump.at = "returns" /\ r.e.pump.item = s.e.pump.item
              /\ r.e.pump.result = "error"
  BY <1>1, <1>5, ReturnsIs
<1> HIDE DEF r
<1>7. LET f == Over(r).e IN
      /\ Over(r) \in Machines /\ Over(r).q = r.q
      /\ f.send = NoSend
      /\ f.steering = r.e.steering /\ f.rejected = r.e.rejected /\ f.waits = r.e.waits
      /\ f.closed = r.e.closed /\ f.pump = r.e.pump
  BY <1>6, OverIs
<1> QED BY <1>2, <1>4, <1>5, <1>6, <1>7 DEF item

\* The pump leaves its loop, or sends the input it has admitted.
LEMMA PumpSet ==
  ASSUME NEW m \in Machines, NEW pump \in Pumps
  PROVE  LET n == [m EXCEPT !.e.pump = pump] IN
         /\ n \in Machines /\ n.q = m.q /\ n.e.pump = pump
         /\ n.e.send = m.e.send /\ n.e.last = m.e.last /\ n.e.steering = m.e.steering
         /\ n.e.rejected = m.e.rejected /\ n.e.waits = m.e.waits /\ n.e.closed = m.e.closed
<1> DEFINE f == [m.e EXCEPT !.pump = pump]
<1>1. m.e \in EngineStates /\ [m EXCEPT !.e.pump = pump] = [m EXCEPT !.e = f]
  BY DEF Machines
<1>2. /\ f \in EngineStates /\ f.pump = pump
      /\ f.send = m.e.send /\ f.last = m.e.last /\ f.steering = m.e.steering
      /\ f.rejected = m.e.rejected /\ f.waits = m.e.waits /\ f.closed = m.e.closed
  BY <1>1 DEF EngineStates
<1> HIDE DEF f
<1> QED BY <1>1, <1>2 DEF Machines

Ended == [NoPump EXCEPT !.at = "ended"]
Stays(m, n) ==
  /\ n.e.send = m.e.send /\ n.e.steering = m.e.steering /\ n.e.rejected = m.e.rejected
  /\ n.e.waits = m.e.waits /\ n.e.closed = m.e.closed
Begins(m, n, id) ==
  /\ ~m.e.closed /\ m.e.send.at = "none" /\ Turned(m.q, n.q, {id}, "running")
  /\ n.e.send.at = "admission" /\ n.e.send.item = id /\ ~n.e.send.owned
  /\ n.e.steering = m.e.steering /\ n.e.rejected = m.e.rejected /\ n.e.waits = m.e.waits
  /\ n.e.closed = m.e.closed /\ n.e.pump.at = "run" /\ n.e.pump.item = id
Gives(m, n) ==
  /\ \E ids : Turned(m.q, n.q, ids, "blocked")
  /\ Stays(m, n) /\ n.e.pump = Ended

LEMMA DispatchIs ==
  ASSUME NEW m \in Machines, NEW unchanged \in BOOLEAN
  PROVE  /\ Dispatch(m, unchanged) \in Machines
         /\ \/ Gives(m, Dispatch(m, unchanged))
            \/ \E id \in Ids : m.q.status[id] = "queued" /\ Begins(m, Dispatch(m, unchanged), id)
<1> DEFINE stop == m.e.closed \/ Interrupting(m) \/ Busy(m) \/ Selected(m.q) = {}
           id == CHOOSE id \in Selected(m.q) : TRUE
           ready == InputReady(m.q, raw, id, unchanged)
           run == [NoPump EXCEPT !.at = "run", !.item = id]
<1>1. /\ Ended \in Pumps /\ \A x \in Ids : [NoPump EXCEPT !.at = "run", !.item = x] \in Pumps
      /\ \A x \in Ids : LET p == [NoPump EXCEPT !.at = "run", !.item = x] IN
                        p.at = "run" /\ p.item = x
  BY DEF Ended, NoPump, Pumps, Input, Results
<1>2. CASE stop
  <2>1. Dispatch(m, unchanged) = [m EXCEPT !.e.pump = Ended]
    BY <1>2 DEF Dispatch, Ended
  <2> DEFINE n == [m EXCEPT !.e.pump = Ended]
  <2>2. /\ n \in Machines /\ n.q = m.q /\ n.e.pump = Ended
        /\ n.e.send = m.e.send /\ n.e.last = m.e.last /\ n.e.steering = m.e.steering
        /\ n.e.rejected = m.e.rejected /\ n.e.waits = m.e.waits /\ n.e.closed = m.e.closed
    BY <1>1, PumpSet
  <2>3. Turned(m.q, n.q, {}, "blocked")
    <3> HIDE DEF n
    <3> QED BY <2>2, NoneTurned DEF Machines
  <2> HIDE DEF n
  <2>4. Gives(m, n)
    BY <2>2, <2>3 DEF Gives, Stays
  <2> QED BY <2>1, <2>2, <2>4 DEF n
<1>3. CASE ~stop
  <2>1. Selected(m.q) # {} /\ ~m.e.closed /\ m.e.send.at = "none"
    BY <1>3 DEF Busy
  <2>2. id \in Selected(m.q)
    BY <2>1
  <2>3. id \in Ids /\ m.q.status[id] = "queued"
    <3> HIDE DEF id
    <3> QED BY <2>2 DEF Selected, NextInput, First
  <2>4. CASE ready
    <3> DEFINE a == AdmitAndRun(m, id)
               no == FALSE
               s == Send(a, id, no)
               n == [s EXCEPT !.e.pump = run]
    <3>1. Dispatch(m, unchanged) = n
      BY <1>3, <2>4 DEF Dispatch
    <3> HIDE DEF id
    <3>2. a \in Machines /\ Turned(m.q, a.q, {id}, "running") /\ SameTurn(m.e, a.e)
      BY <2>3, AdmitAndRunIs
    <3> HIDE DEF a
    <3>3. /\ s \in Machines /\ s.q = a.q
          /\ s.e.send.at = "admission" /\ s.e.send.item = id /\ ~s.e.send.owned
          /\ s.e.steering = a.e.steering /\ s.e.rejected = a.e.rejected
          /\ s.e.waits = a.e.waits /\ s.e.closed = a.e.closed /\ s.e.pump = a.e.pump
      <4>1. no \in BOOLEAN /\ ~no
        OBVIOUS
      <4> HIDE DEF no
      <4> QED BY <2>3, <3>2, <4>1, SendIs
    <3> HIDE DEF s
    <3>4. run \in Pumps /\ run.at = "run" /\ run.item = id
      BY <1>1, <2>3
    <3> HIDE DEF run
    <3>5. /\ n \in Machines /\ n.q = s.q /\ n.e.pump = run
          /\ n.e.send = s.e.send /\ n.e.last = s.e.last /\ n.e.steering = s.e.steering
          /\ n.e.rejected = s.e.rejected /\ n.e.waits = s.e.waits /\ n.e.closed = s.e.closed
      BY <3>3, <3>4, PumpSet
    <3> HIDE DEF n
    <3>6. Begins(m, n, id)
      BY <2>1, <3>2, <3>3, <3>4, <3>5 DEF Begins, SameTurn
    <3> QED BY <2>3, <3>1, <3>5, <3>6
  <2>5. CASE ~ready
    <3> DEFINE b == BlockAndPause(m, id)
               n == [b EXCEPT !.e.pump = Ended]
    <3>1. Dispatch(m, unchanged) = n
      BY <1>3, <2>5 DEF Dispatch, Ended
    <3> HIDE DEF id
    <3>2. b \in Machines /\ Turned(m.q, b.q, {id}, "blocked") /\ SameTurn(m.e, b.e)
      BY <2>3, BlockAndPauseIs
    <3> HIDE DEF b
    <3>3. /\ n \in Machines /\ n.q = b.q /\ n.e.pump = Ended
          /\ n.e.send = b.e.send /\ n.e.last = b.e.last /\ n.e.steering = b.e.steering
          /\ n.e.rejected = b.e.rejected /\ n.e.waits = b.e.waits /\ n.e.closed = b.e.closed
      BY <1>1, <3>2, PumpSet
    <3> HIDE DEF n
    <3>4. Gives(m, n)
      BY <3>2, <3>3 DEF Gives, Stays, SameTurn
    <3> QED BY <3>1, <3>3, <3>4
  <2> QED BY <2>4, <2>5
<1> QED BY <1>2, <1>3

\* Single fields.
LEMMA FlagsSet ==
  ASSUME NEW m \in Machines, NEW yes \in BOOLEAN, NEW kind \in Operations \cup {"none"}
  PROVE  /\ LET n == [m EXCEPT !.e.scheduled = yes] IN
            n \in Machines /\ n.q = m.q /\ SameTurn(m.e, n.e)
         /\ LET n == [m EXCEPT !.e.operation = kind] IN
            n \in Machines /\ n.q = m.q /\ SameTurn(m.e, n.e)
<1>1. m.e \in EngineStates /\ m.q \in Record
  BY DEF Machines
<1>2. ASSUME NEW f \in EngineStates
      PROVE  [m EXCEPT !.e = f] \in Machines /\ [m EXCEPT !.e = f].q = m.q
             /\ [m EXCEPT !.e = f].e = f
  BY DEF Machines
<1>3. /\ [m EXCEPT !.e.scheduled = yes] = [m EXCEPT !.e = [m.e EXCEPT !.scheduled = yes]]
      /\ [m EXCEPT !.e.operation = kind] = [m EXCEPT !.e = [m.e EXCEPT !.operation = kind]]
  BY DEF Machines
<1>4. /\ [m.e EXCEPT !.scheduled = yes] \in EngineStates
      /\ SameTurn(m.e, [m.e EXCEPT !.scheduled = yes])
      /\ [m.e EXCEPT !.operation = kind] \in EngineStates
      /\ SameTurn(m.e, [m.e EXCEPT !.operation = kind])
  BY <1>1 DEF EngineStates, SameTurn
<1> QED BY <1>2, <1>3, <1>4

LEMMA WaitsSet ==
  ASSUME NEW m \in Machines, NEW caller \in Callers, NEW stage \in Stages
  PROVE  LET n == [m EXCEPT !.e.waits[caller] = stage] IN
         /\ n \in Machines /\ n.q = m.q
         /\ n.e.send = m.e.send /\ n.e.steering = m.e.steering /\ n.e.rejected = m.e.rejected
         /\ n.e.closed = m.e.closed /\ n.e.pump = m.e.pump
         /\ n.e.waits = [m.e.waits EXCEPT ![caller] = stage]
<1> DEFINE waits == [m.e.waits EXCEPT ![caller] = stage]
           f == [m.e EXCEPT !.waits = waits]
<1>1. m.e \in EngineStates /\ m.e.waits \in [Callers -> Stages]
  BY DEF Machines, EngineStates
<1>2. [m EXCEPT !.e.waits[caller] = stage] = [m EXCEPT !.e = f]
  BY DEF Machines, EngineStates
<1>3. waits \in [Callers -> Stages]
  BY <1>1
<1> HIDE DEF waits
<1>4. /\ f \in EngineStates /\ f.waits = waits
      /\ f.send = m.e.send /\ f.steering = m.e.steering /\ f.rejected = m.e.rejected
      /\ f.closed = m.e.closed /\ f.pump = m.e.pump
  BY <1>1, <1>3 DEF EngineStates
<1> HIDE DEF f
<1> QED BY <1>2, <1>4 DEF Machines, waits

\* The turn is over, and what is left is to write it.
ToPersist(m, last) == [m EXCEPT !.e.send.at = "persist", !.e.last = last]

LEMMA SendMoves ==
  ASSUME NEW m \in Machines, NEW last \in Terminal
  PROVE  LET n == ToPersist(m, last) IN
         /\ n \in Machines /\ n.q = m.q
         /\ n.e.send.at = "persist" /\ n.e.send.item = m.e.send.item
         /\ n.e.send.owned = m.e.send.owned
         /\ n.e.steering = m.e.steering /\ n.e.rejected = m.e.rejected
         /\ n.e.waits = m.e.waits /\ n.e.closed = m.e.closed /\ n.e.pump = m.e.pump
<1> DEFINE send == [m.e.send EXCEPT !.at = "persist"]
           f == [m.e EXCEPT !.send = send, !.last = last]
<1>1. m.e \in EngineStates /\ m.e.send \in Sends
  BY DEF Machines, EngineStates
<1>2. ToPersist(m, last) = [m EXCEPT !.e = f]
  BY DEF ToPersist, Machines, EngineStates
<1>3. /\ send \in Sends /\ send.at = "persist" /\ send.item = m.e.send.item
      /\ send.owned = m.e.send.owned
  BY <1>1 DEF Sends
<1> HIDE DEF send
<1>4. /\ f \in EngineStates /\ f.send = send
      /\ f.steering = m.e.steering /\ f.rejected = m.e.rejected
      /\ f.waits = m.e.waits /\ f.closed = m.e.closed /\ f.pump = m.e.pump
  BY <1>1, <1>3 DEF EngineStates
<1> HIDE DEF f
<1> QED BY <1>2, <1>3, <1>4 DEF Machines

LEMMA SendStarts ==
  ASSUME NEW m \in Machines
  PROVE  LET n == [m EXCEPT !.e.send.at = "turn"] IN
         /\ n \in Machines /\ n.q = m.q
         /\ n.e.send.at = "turn" /\ n.e.send.item = m.e.send.item
         /\ n.e.send.owned = m.e.send.owned
         /\ n.e.steering = m.e.steering /\ n.e.rejected = m.e.rejected
         /\ n.e.waits = m.e.waits /\ n.e.closed = m.e.closed /\ n.e.pump = m.e.pump
<1> DEFINE send == [m.e.send EXCEPT !.at = "turn"]
           f == [m.e EXCEPT !.send = send]
<1>1. m.e \in EngineStates /\ m.e.send \in Sends
  BY DEF Machines, EngineStates
<1>2. [m EXCEPT !.e.send.at = "turn"] = [m EXCEPT !.e = f]
  BY DEF Machines, EngineStates
<1>3. /\ send \in Sends /\ send.at = "turn" /\ send.item = m.e.send.item
      /\ send.owned = m.e.send.owned
  BY <1>1 DEF Sends
<1> HIDE DEF send
<1>4. /\ f \in EngineStates /\ f.send = send
      /\ f.steering = m.e.steering /\ f.rejected = m.e.rejected
      /\ f.waits = m.e.waits /\ f.closed = m.e.closed /\ f.pump = m.e.pump
  BY <1>1, <1>3 DEF EngineStates
<1> HIDE DEF f
<1> QED BY <1>2, <1>3, <1>4 DEF Machines

LEMMA SteeringTaken ==
  ASSUME NEW m \in Machines, NEW id \in Ids
  PROVE  LET n == [m EXCEPT !.e.steering = @ \cup {id}] IN
         /\ n \in Machines /\ n.q = m.q /\ n.e.send = m.e.send
         /\ n.e.steering = m.e.steering \cup {id} /\ n.e.rejected = m.e.rejected
         /\ n.e.waits = m.e.waits /\ n.e.closed = m.e.closed /\ n.e.pump = m.e.pump
<1> DEFINE steering == m.e.steering \cup {id}
           f == [m.e EXCEPT !.steering = steering]
<1>1. m.e \in EngineStates
  BY DEF Machines
<1>2. [m EXCEPT !.e.steering = @ \cup {id}] = [m EXCEPT !.e = f]
  BY DEF Machines, EngineStates
<1>3. steering \in SUBSET Ids
  BY <1>1 DEF EngineStates
<1> HIDE DEF steering
<1>4. /\ f \in EngineStates /\ f.steering = steering /\ f.send = m.e.send
      /\ f.rejected = m.e.rejected
      /\ f.waits = m.e.waits /\ f.closed = m.e.closed /\ f.pump = m.e.pump
  BY <1>1, <1>3 DEF EngineStates
<1> HIDE DEF f
<1> QED BY <1>2, <1>4 DEF Machines, steering

LEMMA RejectionForgotten ==
  ASSUME NEW m \in Machines
  PROVE  LET n == [m EXCEPT !.e.steering = {}, !.e.rejected = NoInput, !.e.closed = TRUE,
                            !.e.halted = TRUE] IN
         /\ n \in Machines /\ n.q = m.q /\ n.e.send = m.e.send
         /\ n.e.steering = {} /\ n.e.rejected = NoInput
         /\ n.e.waits = m.e.waits /\ n.e.closed /\ n.e.pump = m.e.pump
<1> DEFINE f == [m.e EXCEPT !.steering = {}, !.rejected = NoInput, !.closed = TRUE,
                            !.halted = TRUE]
<1>1. m.e \in EngineStates
  BY DEF Machines
<1>2. [m EXCEPT !.e.steering = {}, !.e.rejected = NoInput, !.e.closed = TRUE,
                !.e.halted = TRUE] = [m EXCEPT !.e = f]
  BY DEF Machines, EngineStates
<1>3. /\ f \in EngineStates /\ f.send = m.e.send
      /\ f.steering = {} /\ f.rejected = NoInput
      /\ f.waits = m.e.waits /\ f.closed /\ f.pump = m.e.pump
  BY <1>1 DEF EngineStates, Input
<1> HIDE DEF f
<1> QED BY <1>2, <1>3 DEF Machines

LEMMA RunnerStopped ==
  ASSUME NEW m \in Machines, NEW q2 \in Record
  PROVE  LET n == [m EXCEPT !.e.closed = TRUE, !.q = q2] IN
         /\ n \in Machines /\ n.q = q2 /\ n.e.send = m.e.send
         /\ n.e.steering = m.e.steering /\ n.e.rejected = m.e.rejected
         /\ n.e.waits = m.e.waits /\ n.e.closed /\ n.e.pump = m.e.pump
<1> DEFINE f == [m.e EXCEPT !.closed = TRUE]
<1>1. m.e \in EngineStates
  BY DEF Machines
<1>2. [m EXCEPT !.e.closed = TRUE, !.q = q2] = [m EXCEPT !.e = f, !.q = q2]
  BY DEF Machines, EngineStates
<1>3. /\ f \in EngineStates /\ f.send = m.e.send
      /\ f.steering = m.e.steering /\ f.rejected = m.e.rejected
      /\ f.waits = m.e.waits /\ f.closed /\ f.pump = m.e.pump
  BY <1>1 DEF EngineStates
<1> HIDE DEF f
<1> QED BY <1>2, <1>3 DEF Machines

----------------------------------------------------------------------------
(* The inductive invariant: the engine's parts fit each other and the stages *)
(* of close, every input that the record shows as begun is accounted for by  *)
(* one of them, and what is completed, or will be called so, was recorded.   *)

Started == {"admitted", "running"}
Fits(e) ==
  /\ e.send.at = "none" => e.send.item = NoInput
  /\ e.send.at # "none" => e.send.item \in Ids
  /\ e.send.at # "none" /\ ~e.send.owned => e.pump.at = "run" /\ e.pump.item = e.send.item
  /\ e.pump.at \in {"none", "ended"} => e.pump.item = NoInput
  /\ e.pump.at \in {"run", "returns"} => e.pump.item \in Ids
  /\ e.pump.at = "returns" => e.pump.result # "none"
  /\ e.steering # {} => e.send.at \in {"turn", "persist"} \/ e.rejected # NoInput
CloseFits(e) ==
  /\ e.waits["close"] # "no" => e.closed
  /\ e.waits["close"] \in {"turn", "input", "runner", "ended"} => e.send.at # "admission"
  /\ e.waits["close"] \in {"input", "runner", "ended"} =>
       e.send.at = "none" /\ e.rejected = NoInput
  /\ e.waits["close"] = "ended" => e.pump.at = "none"
Handled(e, id) ==
  id = e.send.item \/ id = e.rejected \/ id \in e.steering \/ id = e.pump.item
Accounted(q, e) == \A id \in Ids : q.status[id] \in Started => Handled(e, id)
Done(q, e, rec) ==
  /\ \A id \in Ids : q.status[id] = "completed" => id \in rec
  /\ e.pump.at = "returns" /\ e.pump.result = "completed" => e.pump.item \in rec
NInv ==
  /\ queue \in Record /\ engine \in EngineStates /\ live
  /\ Fits(engine) /\ CloseFits(engine)
  /\ Accounted(queue, engine) /\ Done(queue, engine, recorded)

LEMMA NowIs ==
  ASSUME NInv
  PROVE  Now \in Machines /\ Now.q = queue /\ Now.e = engine
BY DEF NInv, Now, Machines

LEMMA BecomesKeeps ==
  ASSUME NInv, NEW n \in Machines, Becomes(n), Fits(n.e), CloseFits(n.e), Accounted(n.q, n.e),
         \A id \in Ids : n.q.status[id] = "completed" => id \in recorded,
         n.e.pump.at = "returns" /\ n.e.pump.result = "completed" =>
           /\ n.e.pump.item \in recorded
           /\ n.q.status[n.e.pump.item] = "running" => queue.status[n.e.pump.item] = "running"
  PROVE  NInv'
<1>1. queue' = n.q /\ engine' = n.e /\ live' = live
  BY DEF Becomes
<1>2. n.q \in Record /\ n.e \in EngineStates
  BY DEF Machines
<1> DEFINE begun == {id \in Ids : n.q.status[id] = "running" /\ queue.status[id] # "running"}
<1>3. recorded' = recorded \ begun
  BY DEF Becomes
<1>4. Done(n.q, n.e, recorded')
  BY <1>3 DEF Done
<1> QED BY <1>1, <1>2, <1>4 DEF NInv

\* The record changes, but begins no input and completes none.
LEMMA TurnedAway ==
  ASSUME NEW q \in Record, NEW n, NEW ids, NEW status, Turned(q, n, ids, status),
         status \notin Started, status # "completed"
  PROVE  /\ \A id \in Ids : n.status[id] \in Started => q.status[id] \in Started
         /\ \A id \in Ids : n.status[id] = "completed" => q.status[id] = "completed"
         /\ \A id \in Ids : n.status[id] = "running" => q.status[id] = "running"
BY DEF Turned, Started

\* The turn goes on as it is, whatever the record does to inputs at rest.
LEMMA TurnUntouched ==
  ASSUME NInv, NEW n \in Machines, Becomes(n), SameTurn(engine, n.e),
         \A id \in Ids : n.q.status[id] \in Started => queue.status[id] \in Started,
         \A id \in Ids : n.q.status[id] = "completed" => queue.status[id] = "completed",
         \A id \in Ids : n.q.status[id] = "running" => queue.status[id] = "running"
  PROVE  NInv'
<1>1. Fits(n.e) /\ CloseFits(n.e)
  BY DEF NInv, SameTurn, Fits, CloseFits
<1>2. Accounted(n.q, n.e)
  BY DEF NInv, SameTurn, Accounted, Handled
<1>3. \A id \in Ids : n.q.status[id] = "completed" => id \in recorded
  BY DEF NInv, Done
<1>4. n.e.pump.at = "returns" /\ n.e.pump.result = "completed" =>
        n.e.pump.item \in recorded /\ n.e.pump.item \in Ids
  BY DEF NInv, Done, SameTurn, Fits
<1> QED BY <1>1, <1>2, <1>3, <1>4, BecomesKeeps

LEMMA QuietKeeps ==
  ASSUME NInv, NEW n \in Machines, Becomes(n), SameTurn(engine, n.e), n.q = queue
  PROVE  NInv'
BY TurnUntouched

\* The pump that dispatches is free: no input waits for a result of it.
LEMMA DispatchKeeps ==
  ASSUME NInv, NEW m \in Machines, NEW unchanged \in BOOLEAN, Becomes(Dispatch(m, unchanged)),
         Stays(Now, m),
         \A id \in Ids : m.q.status[id] \in Started =>
           id = engine.send.item \/ id = engine.rejected \/ id \in engine.steering,
         \A id \in Ids : m.q.status[id] = "completed" => id \in recorded,
         engine.send.at # "none" => engine.send.owned,
         engine.waits["close"] # "ended"
  PROVE  NInv'
<1> DEFINE n == Dispatch(m, unchanged)
<1>1. /\ n \in Machines
      /\ \/ Gives(m, n)
         \/ \E id \in Ids : m.q.status[id] = "queued" /\ Begins(m, n, id)
  BY DispatchIs
<1>2. /\ m.e.send = engine.send /\ m.e.steering = engine.steering
      /\ m.e.rejected = engine.rejected /\ m.e.waits = engine.waits
      /\ m.e.closed = engine.closed
  BY DEF Stays, Now
<1>3. Becomes(n) /\ m.q \in Record
  BY DEF Machines
<1> HIDE DEF n
<1>4. CASE Gives(m, n)
  <2>1. /\ n.e.send = engine.send /\ n.e.steering = engine.steering
        /\ n.e.rejected = engine.rejected /\ n.e.waits = engine.waits
        /\ n.e.closed = engine.closed /\ n.e.pump = Ended
    BY <1>2, <1>4 DEF Gives, Stays
  <2>2. Ended.at = "ended" /\ Ended.item = NoInput
    BY DEF Ended, NoPump
  <2>3. PICK ids : Turned(m.q, n.q, ids, "blocked")
    BY <1>4 DEF Gives
  <2>4. /\ \A id \in Ids : n.q.status[id] \in Started => m.q.status[id] \in Started
        /\ \A id \in Ids : n.q.status[id] = "completed" => m.q.status[id] = "completed"
    <3>1. "blocked" \notin Started /\ "blocked" # "completed"
      BY DEF Started
    <3> QED BY <1>3, <2>3, <3>1, TurnedAway
  <2>5. Fits(n.e)
    BY <2>1, <2>2 DEF NInv, Fits
  <2>6. CloseFits(n.e)
    BY <2>1 DEF NInv, CloseFits
  <2>7. Accounted(n.q, n.e)
    BY <2>1, <2>4 DEF Accounted, Handled
  <2> QED BY <1>1, <1>3, <2>1, <2>2, <2>4, <2>5, <2>6, <2>7, BecomesKeeps
<1>5. ASSUME NEW id \in Ids, m.q.status[id] = "queued", Begins(m, n, id)
      PROVE  NInv'
  <2>1. /\ ~engine.closed /\ engine.send.at = "none" /\ Turned(m.q, n.q, {id}, "running")
        /\ n.e.send.at = "admission" /\ n.e.send.item = id /\ ~n.e.send.owned
        /\ n.e.steering = engine.steering /\ n.e.rejected = engine.rejected
        /\ n.e.waits = engine.waits
        /\ n.e.closed = engine.closed /\ n.e.pump.at = "run" /\ n.e.pump.item = id
    BY <1>2, <1>5 DEF Begins
  <2>2. Fits(n.e)
    BY <2>1 DEF NInv, Fits
  <2>3. CloseFits(n.e)
    BY <2>1 DEF NInv, CloseFits
  <2>4. Accounted(n.q, n.e)
    <3>1. engine.send.item = NoInput /\ NoInput \notin Ids
      BY <2>1, EngineShape DEF NInv, Fits
    <3>2. ASSUME NEW x \in Ids, n.q.status[x] \in Started, x # id
          PROVE  Handled(n.e, x)
      <4>1. m.q.status[x] \in Started
        BY <2>1, <3>2 DEF Turned
      <4> QED BY <2>1, <3>1, <4>1 DEF Handled
    <3>3. Handled(n.e, id)
      BY <2>1 DEF Handled
    <3> QED BY <3>2, <3>3 DEF Accounted
  <2>5. \A x \in Ids : n.q.status[x] = "completed" => x \in recorded
    BY <2>1 DEF Turned
  <2> QED BY <1>1, <1>3, <2>1, <2>2, <2>3, <2>4, <2>5, BecomesKeeps
<1> QED BY <1>1, <1>4, <1>5

----------------------------------------------------------------------------
(* Every action keeps it.                                                    *)

LEMMA RunnerWakesKeeps ==
  ASSUME NInv, RunnerWakes
  PROVE  NInv'
<1> DEFINE no == FALSE
           m == [Now EXCEPT !.e.scheduled = no]
<1>1. Now \in Machines /\ Now.q = queue /\ Now.e = engine
  BY NowIs
<1>2. m \in Machines /\ m.q = Now.q /\ SameTurn(Now.e, m.e)
  <2>1. no \in BOOLEAN
    OBVIOUS
  <2> HIDE DEF no
  <2> QED BY <1>1, <2>1, FlagsSet
<1>3. \/ Becomes(m)
      \/ /\ ~Busy(m) /\ ~engine.closed /\ engine.pump.at = "none"
         /\ \E unchanged \in BOOLEAN : Becomes(Dispatch(m, unchanged))
      \/ Becomes(Interrupt(m, "runner"))
  BY DEF RunnerWakes
<1> HIDE DEF m
<1>4. CASE Becomes(m)
  BY <1>1, <1>2, <1>4, QuietKeeps
<1>5. CASE /\ ~Busy(m) /\ ~engine.closed /\ engine.pump.at = "none"
           /\ \E unchanged \in BOOLEAN : Becomes(Dispatch(m, unchanged))
  <2>1. PICK unchanged \in BOOLEAN : Becomes(Dispatch(m, unchanged))
    BY <1>5
  <2>2. Stays(Now, m) /\ m.e.pump.at = "none" /\ m.q = queue /\ m.e.send.at = "none"
    BY <1>1, <1>2, <1>5 DEF SameTurn, Stays, Busy
  <2>3. engine.send.at = "none" /\ engine.pump.item = NoInput /\ NoInput \notin Ids
    BY <1>1, <1>5, <2>2, EngineShape DEF Stays, NInv, Fits
  <2>4. \A id \in Ids : m.q.status[id] \in Started =>
          id = engine.send.item \/ id = engine.rejected \/ id \in engine.steering
    BY <2>2, <2>3 DEF NInv, Accounted, Handled
  <2>5. \A id \in Ids : m.q.status[id] = "completed" => id \in recorded
    BY <2>2 DEF NInv, Done
  <2>6. engine.waits["close"] # "ended"
    BY <1>5 DEF NInv, CloseFits
  <2> QED BY <1>2, <2>1, <2>2, <2>3, <2>4, <2>5, <2>6, DispatchKeeps
<1>6. CASE Becomes(Interrupt(m, "runner"))
  <2> DEFINE n == Interrupt(m, "runner")
  <2>1. "runner" \in Callers /\ m.e.waits \in [Callers -> Stages]
    BY <1>2 DEF Callers, Machines, EngineStates
  <2>2. LET f == n.e IN
        /\ n \in Machines /\ n.q = m.q
        /\ f.send.at = m.e.send.at /\ f.send.item = m.e.send.item
        /\ f.send.owned = m.e.send.owned /\ f.last = m.e.last
        /\ f.steering = m.e.steering /\ f.rejected = m.e.rejected
        /\ f.waits = [m.e.waits EXCEPT !["runner"] = "admission"]
        /\ f.closed = m.e.closed /\ f.pump = m.e.pump
    BY <1>2, <2>1, InterruptIs
  <2>3. Becomes(n)
    BY <1>6
  <2> HIDE DEF n
  <2>4. n.e.waits["close"] = engine.waits["close"]
    BY <1>1, <1>2, <2>1, <2>2 DEF SameTurn, Callers
  <2>5. /\ n.e.send.at = engine.send.at /\ n.e.send.item = engine.send.item
        /\ n.e.send.owned = engine.send.owned
        /\ n.e.steering = engine.steering /\ n.e.rejected = engine.rejected
        /\ n.e.closed = engine.closed /\ n.e.pump = engine.pump /\ n.q = queue
    BY <1>1, <1>2, <2>2 DEF SameTurn
  <2>6. Fits(n.e) /\ CloseFits(n.e) /\ Accounted(n.q, n.e)
    BY <2>4, <2>5 DEF NInv, Fits, CloseFits, Accounted, Handled
  <2>7. /\ \A id \in Ids : n.q.status[id] = "completed" => id \in recorded
        /\ n.e.pump.at = "returns" /\ n.e.pump.result = "completed" =>
             n.e.pump.item \in recorded
    BY <2>5 DEF NInv, Done
  <2> QED BY <2>2, <2>3, <2>5, <2>6, <2>7, BecomesKeeps
<1> QED BY <1>3, <1>4, <1>5, <1>6

LEMMA HandleRejectionKeeps ==
  ASSUME NInv, HandleRejection
  PROVE  NInv'
<1> DEFINE ends == engine.steering \cup {engine.rejected}
           q1 == [queue EXCEPT !.status = [id \in Ids |->
                    IF id \in ends THEN "execution-uncertain" ELSE queue.status[id]]]
           q2 == PauseQ(q1)
           c == Commit(Now, q2)
           n == [c EXCEPT !.e.steering = {}, !.e.rejected = NoInput, !.e.closed = TRUE,
                          !.e.halted = TRUE]
<1>1. Now \in Machines /\ Now.q = queue /\ Now.e = engine /\ queue \in Record
  BY NowIs DEF NInv
<1>2. Becomes(n) /\ engine.rejected # NoInput
  BY DEF HandleRejection
<1>3. Turned(queue, q1, ends, "execution-uncertain")
  <2> HIDE DEF ends
  <2>1. "execution-uncertain" \in Statuses
    BY DEF Statuses
  <2> QED BY <1>1, <2>1, SeveralTurned
<1> HIDE DEF q1, ends
<1>4. Turned(queue, q2, ends, "execution-uncertain")
  BY <1>1, <1>3, PauseTurnsNone
<1> HIDE DEF q2
<1>5. q2 \in Record
  BY <1>4 DEF Turned
<1>6. c \in Machines /\ c.q = q2 /\ SameTurn(engine, c.e)
  BY <1>1, <1>5, CommitIs, SMTT(60)
<1> HIDE DEF c
<1>7. /\ n \in Machines /\ n.q = c.q /\ n.e.send = c.e.send
      /\ n.e.steering = {} /\ n.e.rejected = NoInput
      /\ n.e.waits = c.e.waits /\ n.e.closed /\ n.e.pump = c.e.pump
  BY <1>6, RejectionForgotten
<1> HIDE DEF n
<1>8. /\ \A id \in Ids : n.q.status[id] \in Started =>
           queue.status[id] \in Started /\ id \notin ends
      /\ \A id \in Ids : n.q.status[id] = "completed" => queue.status[id] = "completed"
      /\ \A id \in Ids : n.q.status[id] = "running" => queue.status[id] = "running"
  BY <1>4, <1>6, <1>7 DEF Turned, Started
<1>9. /\ n.e.send = engine.send /\ n.e.waits = engine.waits /\ n.e.pump = engine.pump
  BY <1>6, <1>7 DEF SameTurn
<1>10. Fits(n.e) /\ CloseFits(n.e)
  BY <1>7, <1>9 DEF NInv, Fits, CloseFits
<1>11. Accounted(n.q, n.e)
  BY <1>7, <1>8, <1>9 DEF NInv, Accounted, Handled, ends
<1>12. \A id \in Ids : n.q.status[id] = "completed" => id \in recorded
  BY <1>8 DEF NInv, Done
<1>13. n.e.pump.at = "returns" /\ n.e.pump.result = "completed" =>
         n.e.pump.item \in recorded /\ n.e.pump.item \in Ids
  BY <1>9 DEF NInv, Done, Fits
<1> QED BY <1>2, <1>7, <1>8, <1>10, <1>11, <1>12, <1>13, BecomesKeeps

\* The result that the pump awaited is the status of its input.
LEMMA PumpReturnsKeeps ==
  ASSUME NInv, PumpReturns
  PROVE  NInv'
<1> DEFINE id == engine.pump.item
           result == engine.pump.result
           status == IF result # "error" THEN result
                     ELSE IF queue.status[id] = "execution-uncertain"
                     THEN "execution-uncertain" ELSE "failed"
           q1 == SetStatus(queue, id, status)
           q2 == IF result \in {"error", "failed"} THEN PauseQ(q1) ELSE q1
           c == Commit(Now, q2)
<1>1. Now \in Machines /\ Now.q = queue /\ Now.e = engine /\ queue \in Record
  BY NowIs DEF NInv
<1>2. /\ engine.pump.at = "returns" /\ engine.rejected = NoInput /\ id \in Ids
      /\ result \in Results /\ result # "none"
  BY DEF PumpReturns, NInv, Fits, EngineStates, Pumps
<1>3. status \in Statuses /\ status \notin Started /\ (status = "completed" => id \in recorded)
  <2>1. result = "completed" => id \in recorded
    BY <1>2 DEF NInv, Done
  <2> HIDE DEF result, id
  <2> QED BY <1>2, <2>1 DEF Results, Statuses, Started, Terminal
<1>4. PICK unchanged \in BOOLEAN : Becomes(Dispatch(c, unchanged))
  BY DEF PumpReturns
<1> HIDE DEF status
<1>5. Turned(queue, q1, {id}, status)
  BY <1>1, <1>2, <1>3, SetStatusTurns
<1> HIDE DEF q1
<1>6. Turned(queue, q2, {id}, status)
  BY <1>1, <1>5, PauseTurnsNone
<1> HIDE DEF q2
<1>7. q2 \in Record
  BY <1>6 DEF Turned
<1>8. c \in Machines /\ c.q = q2 /\ SameTurn(engine, c.e)
  BY <1>1, <1>7, CommitIs
<1> HIDE DEF c
<1>9. Stays(Now, c)
  BY <1>1, <1>8 DEF Stays, SameTurn
<1>10. \A x \in Ids : c.q.status[x] \in Started =>
         x = engine.send.item \/ x = engine.rejected \/ x \in engine.steering
  <2> TAKE x \in Ids
  <2> HAVE c.q.status[x] \in Started
  <2>1. x # id /\ queue.status[x] \in Started
    BY <1>3, <1>6, <1>8 DEF Turned
  <2> QED BY <2>1 DEF NInv, Accounted, Handled
<1>11. \A x \in Ids : c.q.status[x] = "completed" => x \in recorded
  BY <1>3, <1>6, <1>8 DEF Turned, NInv, Done
<1>12. engine.send.at # "none" => engine.send.owned
  BY <1>2 DEF NInv, Fits
<1>13. engine.waits["close"] # "ended"
  BY <1>2 DEF NInv, CloseFits
<1> QED BY <1>4, <1>8, <1>9, <1>10, <1>11, <1>12, <1>13, DispatchKeeps

LEMMA PumpEndsKeeps ==
  ASSUME NInv, PumpEnds
  PROVE  NInv'
<1> DEFINE m == [Now EXCEPT !.e.pump = NoPump]
<1>1. Now \in Machines /\ Now.q = queue /\ Now.e = engine
  BY NowIs
<1>2. NoPump \in Pumps /\ NoPump.at = "none" /\ NoPump.item = NoInput
  BY DEF NoPump, Pumps, Input, Results
<1>3. /\ m \in Machines /\ m.q = queue /\ m.e.pump = NoPump
      /\ m.e.send = engine.send /\ m.e.steering = engine.steering
      /\ m.e.rejected = engine.rejected /\ m.e.waits = engine.waits
      /\ m.e.closed = engine.closed
  BY <1>1, <1>2, PumpSet
<1>4. engine.pump.at = "ended" /\ (Becomes(m) \/ Becomes(Wake(m)))
  BY DEF PumpEnds
<1> HIDE DEF m
<1>5. PICK n \in Machines : /\ Becomes(n) /\ n.q = queue /\ n.e.pump = NoPump
                            /\ n.e.send = engine.send /\ n.e.steering = engine.steering
                            /\ n.e.rejected = engine.rejected /\ n.e.waits = engine.waits
                            /\ n.e.closed = engine.closed
  <2>1. Wake(m) \in Machines /\ Wake(m).q = m.q /\ SameTurn(m.e, Wake(m).e)
    BY <1>3, WakeIs
  <2> QED BY <1>3, <1>4, <2>1 DEF SameTurn
<1>6. engine.pump.item = NoInput /\ NoInput \notin Ids
  BY <1>4, EngineShape DEF NInv, Fits
<1>7. Fits(n.e) /\ CloseFits(n.e)
  BY <1>2, <1>4, <1>5 DEF NInv, Fits, CloseFits
<1>8. Accounted(n.q, n.e)
  BY <1>5, <1>6 DEF NInv, Accounted, Handled
<1>9. \A id \in Ids : n.q.status[id] = "completed" => id \in recorded
  BY <1>5 DEF NInv, Done
<1> QED BY <1>2, <1>5, <1>7, <1>8, <1>9, BecomesKeeps

\* A caller of close goes on only when what it has waited for is over, and
\* nothing begins once it has called.
LEMMA ProceedsKeeps ==
  ASSUME NInv, NEW caller \in Callers, Proceeds(caller)
  PROVE  NInv'
<1> DEFINE stage == engine.waits[caller]
           next == After(caller, stage)
           m == [Now EXCEPT !.e.waits[caller] = next]
<1>1. Now \in Machines /\ Now.q = queue /\ Now.e = engine
  BY NowIs
<1>2. WaitOver(caller) /\ stage \in {"admission", "turn", "input", "runner"}
  BY DEF Proceeds, WaitOver
<1>3. next \in Stages
  BY <1>2 DEF After, Stages
<1>4. Becomes(m) \/ Becomes(Wake(m))
  BY DEF Proceeds
<1>5. caller = "close" =>
        /\ stage = "admission" => next = "turn" /\ engine.send.at # "admission"
        /\ stage = "turn" =>
             next = "input" /\ engine.send.at \notin {"turn", "persist"}
             /\ engine.rejected = NoInput
        /\ stage = "input" => next = "runner"
        /\ stage = "runner" => next = "ended" /\ engine.pump.at = "none"
  BY <1>2 DEF After, WaitOver
<1> HIDE DEF next
<1>6. /\ m \in Machines /\ m.q = queue
      /\ m.e.send = engine.send /\ m.e.steering = engine.steering
      /\ m.e.rejected = engine.rejected
      /\ m.e.closed = engine.closed /\ m.e.pump = engine.pump
      /\ m.e.waits = [engine.waits EXCEPT ![caller] = next]
  BY <1>1, <1>3, WaitsSet
<1> HIDE DEF m
<1>7. PICK n \in Machines : /\ Becomes(n) /\ n.q = queue
                            /\ n.e.send = engine.send /\ n.e.steering = engine.steering
                            /\ n.e.rejected = engine.rejected
                            /\ n.e.closed = engine.closed /\ n.e.pump = engine.pump
                            /\ n.e.waits = [engine.waits EXCEPT ![caller] = next]
  <2>1. Wake(m) \in Machines /\ Wake(m).q = m.q /\ SameTurn(m.e, Wake(m).e)
    BY <1>6, WakeIs
  <2> QED BY <1>4, <1>6, <2>1 DEF SameTurn
<1>8. engine.waits \in [Callers -> Stages] /\ "close" \in Callers
      /\ engine.send.at \in {"none", "admission", "turn", "persist"}
  BY DEF NInv, EngineStates, Sends, Callers
<1>9. n.e.waits["close"] = IF caller = "close" THEN next ELSE engine.waits["close"]
  BY <1>7, <1>8
<1>10. CloseFits(n.e)
  <2>1. CASE caller # "close"
    BY <1>7, <1>9, <2>1 DEF NInv, CloseFits
  <2>2. CASE caller = "close"
    BY <1>2, <1>5, <1>7, <1>8, <1>9, <2>2 DEF NInv, CloseFits
  <2> QED BY <2>1, <2>2
<1>11. Fits(n.e) /\ Accounted(n.q, n.e)
  BY <1>7 DEF NInv, Fits, Accounted, Handled
<1>12. /\ \A id \in Ids : n.q.status[id] = "completed" => id \in recorded
       /\ n.e.pump.at = "returns" /\ n.e.pump.result = "completed" =>
            n.e.pump.item \in recorded
  BY <1>7 DEF NInv, Done
<1> QED BY <1>7, <1>10, <1>11, <1>12, BecomesKeeps

\* Steps taken when no microtask is left.
LEMMA NonePending ==
  ASSUME NInv, ~MicrotaskPending
  PROVE  /\ engine.rejected = NoInput /\ NoInput \notin Ids
         /\ engine.pump.at \in {"none", "run"}
BY EngineShape DEF NInv, EngineStates, Pumps, MicrotaskPending

LEMMA MovesKeep ==
  ASSUME NInv, NEW n \in Machines, queue' = n.q, engine' = n.e, live' = live,
         Fits(n.e), CloseFits(n.e), Accounted(n.q, n.e), Done(n.q, n.e, recorded')
  PROVE  NInv'
<1>1. n.q \in Record /\ n.e \in EngineStates
  BY DEF Machines
<1> QED BY <1>1 DEF NInv

\* What the user changes in the queue begins nothing and completes nothing.
LEMMA QueueTouched ==
  ASSUME NInv, NEW n \in Machines, queue' = n.q, engine' = n.e, live' = live,
         recorded' = recorded, SameTurn(engine, n.e),
         \A id \in Ids : n.q.status[id] \in Started => queue.status[id] \in Started,
         \A id \in Ids : n.q.status[id] = "completed" => queue.status[id] = "completed"
  PROVE  NInv'
<1>1. Fits(n.e) /\ CloseFits(n.e)
  BY DEF NInv, SameTurn, Fits, CloseFits
<1>2. Accounted(n.q, n.e)
  BY DEF NInv, SameTurn, Accounted, Handled
<1>3. Done(n.q, n.e, recorded')
  BY DEF NInv, Done, SameTurn
<1> QED BY <1>1, <1>2, <1>3, MovesKeep

LEMMA AdmissionEndsKeeps ==
  ASSUME NInv, ~MicrotaskPending, AdmissionEnds
  PROVE  NInv'
<1>1. Now \in Machines /\ Now.q = queue /\ Now.e = engine /\ queue \in Record
  BY NowIs DEF NInv
<1>2. /\ engine.send.at = "admission" /\ engine.send.item \in Ids /\ engine.steering = {}
      /\ engine.rejected = NoInput /\ NoInput \notin Ids
      /\ engine.pump.at \in {"none", "run"}
  BY NonePending DEF AdmissionEnds, NInv, Fits
<1>3. CASE Becomes(Refuse(Now))
  <2> DEFINE n == Refuse(Now)
             ids == IF engine.send.owned THEN {engine.send.item} ELSE {}
  <2>1. LET f == n.e IN
        /\ n \in Machines
        /\ \E status \in {"cancelled", "blocked"} : Turned(queue, n.q, ids, status)
        /\ f.send = NoSend
        /\ f.steering = engine.steering /\ f.rejected = engine.rejected
        /\ f.waits = engine.waits /\ f.closed = engine.closed
        /\ IF engine.send.owned THEN f.pump = engine.pump
           ELSE /\ f.pump.at = "returns" /\ f.pump.item = engine.pump.item
                /\ f.pump.result = "error"
    BY <1>1, <1>2, RefuseIs
  <2>2. Becomes(n)
    BY <1>3
  <2> HIDE DEF n
  <2>3. PICK status \in {"cancelled", "blocked"} : Turned(queue, n.q, ids, status)
    BY <2>1
  <2>4. /\ \A id \in Ids : n.q.status[id] \in Started =>
             queue.status[id] \in Started /\ id \notin ids
        /\ \A id \in Ids : n.q.status[id] = "completed" => queue.status[id] = "completed"
    <3> HIDE DEF ids
    <3> QED BY <2>3 DEF Turned, Started
  <2>5. NoSend.at = "none" /\ NoSend.item = NoInput
    BY DEF NoSend
  <2>6. Fits(n.e)
    <3>1. CASE engine.send.owned
      BY <1>2, <2>1, <2>5, <3>1 DEF NInv, Fits
    <3>2. CASE ~engine.send.owned
      BY <1>2, <2>1, <2>5, <3>2 DEF NInv, Fits
    <3> QED BY <3>1, <3>2
  <2>7. CloseFits(n.e)
    BY <1>2, <2>1, <2>5 DEF NInv, CloseFits
  <2>8. Accounted(n.q, n.e)
    <3> SUFFICES ASSUME NEW id \in Ids, n.q.status[id] \in Started PROVE Handled(n.e, id)
      BY DEF Accounted
    <3>1. queue.status[id] \in Started /\ id \notin ids
      BY <2>4
    <3>2. id = engine.pump.item
      <4>1. id = engine.send.item \/ id = engine.pump.item
        BY <1>2, <3>1 DEF NInv, Accounted, Handled
      <4> QED BY <1>2, <3>1, <4>1 DEF NInv, Fits
    <3> QED BY <2>1, <3>2 DEF Handled
  <2>9. \A id \in Ids : n.q.status[id] = "completed" => id \in recorded
    BY <2>4 DEF NInv, Done
  <2>10. ~(n.e.pump.at = "returns" /\ n.e.pump.result = "completed")
    BY <1>2, <2>1
  <2> QED BY <2>1, <2>2, <2>6, <2>7, <2>8, <2>9, <2>10, BecomesKeeps
<1>4. CASE Open(Now) /\ Becomes([Now EXCEPT !.e.send.at = "turn"])
  <2> DEFINE n == [Now EXCEPT !.e.send.at = "turn"]
  <2>1. /\ n \in Machines /\ n.q = queue
        /\ n.e.send.at = "turn" /\ n.e.send.item = engine.send.item
        /\ n.e.send.owned = engine.send.owned
        /\ n.e.steering = engine.steering /\ n.e.rejected = engine.rejected
        /\ n.e.waits = engine.waits /\ n.e.closed = engine.closed /\ n.e.pump = engine.pump
    BY <1>1, SendStarts
  <2>2. Becomes(n) /\ engine.waits["close"] = "no"
    BY <1>1, <1>4 DEF Open
  <2> HIDE DEF n
  <2>3. Fits(n.e) /\ CloseFits(n.e)
    BY <1>2, <2>1, <2>2 DEF NInv, Fits, CloseFits
  <2>4. Accounted(n.q, n.e)
    BY <2>1 DEF NInv, Accounted, Handled
  <2>5. \A id \in Ids : n.q.status[id] = "completed" => id \in recorded
    BY <2>1 DEF NInv, Done
  <2> QED BY <1>2, <2>1, <2>2, <2>3, <2>4, <2>5, BecomesKeeps
<1> QED BY <1>3, <1>4 DEF AdmissionEnds

LEMMA TakeSteeringKeeps ==
  ASSUME NInv, ~MicrotaskPending, TakeSteering
  PROVE  NInv'
<1>1. Now \in Machines /\ Now.q = queue /\ Now.e = engine /\ queue \in Record
  BY NowIs DEF NInv
<1>2. engine.send.at = "turn" /\ engine.pump.at \in {"none", "run"}
  BY NonePending DEF TakeSteering
<1>3. PICK id \in NextInput(queue, {"steering"}) :
        \/ Becomes([AdmitAndRun(Now, id) EXCEPT !.e.steering = @ \cup {id}])
        \/ Becomes(BlockAndPause(Now, id))
  BY DEF TakeSteering
<1>4. id \in Ids /\ queue.status[id] = "queued"
  BY <1>3 DEF NextInput, First
<1>5. CASE Becomes([AdmitAndRun(Now, id) EXCEPT !.e.steering = @ \cup {id}])
  <2> DEFINE a == AdmitAndRun(Now, id)
             n == [a EXCEPT !.e.steering = @ \cup {id}]
  <2>1. a \in Machines /\ Turned(queue, a.q, {id}, "running") /\ SameTurn(engine, a.e)
    BY <1>1, <1>4, AdmitAndRunIs
  <2>2. Becomes(n)
    BY <1>5
  <2> HIDE DEF a
  <2>3. /\ n \in Machines /\ n.q = a.q /\ n.e.send = a.e.send
        /\ n.e.steering = a.e.steering \cup {id} /\ n.e.rejected = a.e.rejected
        /\ n.e.waits = a.e.waits /\ n.e.closed = a.e.closed /\ n.e.pump = a.e.pump
    BY <1>4, <2>1, SteeringTaken
  <2> HIDE DEF n
  <2>4. /\ n.e.send = engine.send /\ n.e.steering = engine.steering \cup {id}
        /\ n.e.rejected = engine.rejected /\ n.e.waits = engine.waits
        /\ n.e.closed = engine.closed /\ n.e.pump = engine.pump
    BY <2>1, <2>3 DEF SameTurn
  <2>5. Fits(n.e) /\ CloseFits(n.e)
    BY <1>2, <2>4 DEF NInv, Fits, CloseFits
  <2>6. Accounted(n.q, n.e)
    <3> SUFFICES ASSUME NEW x \in Ids, n.q.status[x] \in Started PROVE Handled(n.e, x)
      BY DEF Accounted
    <3>1. x = id \/ queue.status[x] \in Started
      BY <2>1, <2>3 DEF Turned
    <3> QED BY <2>4, <3>1 DEF NInv, Accounted, Handled
  <2>7. \A x \in Ids : n.q.status[x] = "completed" => x \in recorded
    BY <2>1, <2>3 DEF Turned, NInv, Done
  <2> QED BY <1>2, <2>2, <2>3, <2>4, <2>5, <2>6, <2>7, BecomesKeeps
<1>6. CASE Becomes(BlockAndPause(Now, id))
  <2> DEFINE n == BlockAndPause(Now, id)
  <2>1. n \in Machines /\ Turned(queue, n.q, {id}, "blocked") /\ SameTurn(engine, n.e)
    BY <1>1, <1>4, BlockAndPauseIs
  <2>2. Becomes(n)
    BY <1>6
  <2> HIDE DEF n
  <2>3. "blocked" \notin Started /\ "blocked" # "completed"
    BY DEF Started
  <2>4. /\ \A x \in Ids : n.q.status[x] \in Started => queue.status[x] \in Started
        /\ \A x \in Ids : n.q.status[x] = "completed" => queue.status[x] = "completed"
        /\ \A x \in Ids : n.q.status[x] = "running" => queue.status[x] = "running"
    BY <1>1, <2>1, <2>3, TurnedAway
  <2> QED BY <2>1, <2>2, <2>4, TurnUntouched
<1> QED BY <1>3, <1>5, <1>6

LEMMA TurnOverKeeps ==
  ASSUME NInv, ~MicrotaskPending, NEW status \in Terminal, TurnOver(status)
  PROVE  NInv'
<1> DEFINE n == ToPersist(Now, status)
<1>1. Now \in Machines /\ Now.q = queue /\ Now.e = engine
  BY NowIs
<1>2. engine.send.at = "turn" /\ engine.pump.at \in {"none", "run"} /\ Becomes(n)
  BY NonePending DEF TurnOver, ToPersist
<1>3. /\ n \in Machines /\ n.q = queue
      /\ n.e.send.at = "persist" /\ n.e.send.item = engine.send.item
      /\ n.e.send.owned = engine.send.owned
      /\ n.e.steering = engine.steering /\ n.e.rejected = engine.rejected
      /\ n.e.waits = engine.waits /\ n.e.closed = engine.closed /\ n.e.pump = engine.pump
  BY <1>1, SendMoves
<1> HIDE DEF n
<1>4. Fits(n.e) /\ CloseFits(n.e)
  BY <1>2, <1>3 DEF NInv, Fits, CloseFits
<1>5. Accounted(n.q, n.e)
  BY <1>3 DEF NInv, Accounted, Handled
<1>6. \A id \in Ids : n.q.status[id] = "completed" => id \in recorded
  BY <1>3 DEF NInv, Done
<1> QED BY <1>2, <1>3, <1>4, <1>5, <1>6, BecomesKeeps

LEMMA PersistFailsKeeps ==
  ASSUME NInv, ~MicrotaskPending, PersistFails
  PROVE  NInv'
<1> DEFINE n == Reject(Now)
<1>1. Now \in Machines /\ Now.q = queue /\ Now.e = engine
  BY NowIs
<1>2. /\ engine.send.at = "persist" /\ engine.send.item \in Ids
      /\ engine.rejected = NoInput /\ NoInput \notin Ids
      /\ engine.pump.at \in {"none", "run"} /\ Becomes(n)
  BY NonePending DEF PersistFails, NInv, Fits
<1>3. LET f == n.e IN
      /\ n \in Machines /\ n.q = queue
      /\ f.send = NoSend /\ f.steering = engine.steering
      /\ f.rejected = engine.send.item /\ f.waits = engine.waits /\ f.closed = engine.closed
      /\ IF engine.send.owned THEN f.pump = engine.pump
         ELSE /\ f.pump.at = "returns" /\ f.pump.item = engine.pump.item
              /\ f.pump.result = "error"
  BY <1>1, RejectIs
<1>4. NoSend.at = "none" /\ NoSend.item = NoInput
  BY DEF NoSend
<1> HIDE DEF n
<1>5. Fits(n.e)
  <2>1. CASE engine.send.owned
    BY <1>2, <1>3, <1>4, <2>1 DEF NInv, Fits
  <2>2. CASE ~engine.send.owned
    BY <1>2, <1>3, <1>4, <2>2 DEF NInv, Fits
  <2> QED BY <2>1, <2>2
<1>6. CloseFits(n.e)
  BY <1>2, <1>3, <1>4 DEF NInv, CloseFits
<1>7. Accounted(n.q, n.e)
  BY <1>2, <1>3 DEF NInv, Accounted, Handled
<1>8. \A id \in Ids : n.q.status[id] = "completed" => id \in recorded
  BY <1>3 DEF NInv, Done
<1>9. ~(n.e.pump.at = "returns" /\ n.e.pump.result = "completed")
  BY <1>2, <1>3
<1> QED BY <1>2, <1>3, <1>5, <1>6, <1>7, <1>8, <1>9, BecomesKeeps

\* The turn is recorded, and what it finishes with it.
LEMMA PersistedKeeps ==
  ASSUME NInv, ~MicrotaskPending, Persisted
  PROVE  NInv'
<1> DEFINE n == Settle(Now)
           ends == engine.steering \cup (IF engine.send.owned THEN {engine.send.item} ELSE {})
<1>1. Now \in Machines /\ Now.q = queue /\ Now.e = engine
  BY NowIs
<1>2. /\ engine.send.at = "persist" /\ engine.send.item \in Ids
      /\ engine.rejected = NoInput /\ NoInput \notin Ids
      /\ engine.pump.at \in {"none", "run"}
      /\ engine.last \in Terminal
  BY NonePending DEF Persisted, NInv, Fits, EngineStates
<1>3. /\ queue' = n.q /\ engine' = n.e /\ live' = live
      /\ recorded' = IF engine.last = "completed"
                     THEN recorded \cup engine.steering \cup {engine.send.item} ELSE recorded
  BY DEF Persisted
<1>4. LET f == n.e IN
      /\ n \in Machines
      /\ Turned(queue, n.q, ends, engine.last)
      /\ f.send = NoSend /\ f.steering = {}
      /\ f.rejected = engine.rejected /\ f.waits = engine.waits /\ f.closed = engine.closed
      /\ IF engine.send.owned THEN f.pump = engine.pump
         ELSE /\ f.pump.at = "returns" /\ f.pump.item = engine.pump.item
              /\ f.pump.result = engine.last
  BY <1>1, SettleIs
<1>5. NoSend.at = "none" /\ NoSend.item = NoInput /\ "none" \notin Terminal
  BY DEF NoSend, Terminal
<1> HIDE DEF n
<1>6. Fits(n.e)
  <2>1. CASE engine.send.owned
    BY <1>2, <1>4, <1>5, <2>1 DEF NInv, Fits
  <2>2. CASE ~engine.send.owned
    BY <1>2, <1>4, <1>5, <2>2 DEF NInv, Fits
  <2> QED BY <2>1, <2>2
<1>7. CloseFits(n.e)
  BY <1>2, <1>4, <1>5 DEF NInv, CloseFits
<1>8. \A id \in Ids : n.q.status[id] \in Started => queue.status[id] \in Started /\ id \notin ends
  <2>1. engine.last \notin Started
    BY <1>2 DEF Started, Terminal
  <2> HIDE DEF ends
  <2> QED BY <1>4, <2>1 DEF Turned
<1>9. Accounted(n.q, n.e)
  <2> SUFFICES ASSUME NEW id \in Ids, n.q.status[id] \in Started PROVE Handled(n.e, id)
    BY DEF Accounted
  <2>1. queue.status[id] \in Started /\ id \notin ends
    BY <1>8
  <2>2. id = engine.pump.item
    <3>1. id = engine.send.item \/ id = engine.pump.item
      BY <1>2, <2>1 DEF NInv, Accounted, Handled
    <3> QED BY <1>2, <2>1, <3>1 DEF NInv, Fits
  <2> QED BY <1>4, <2>2 DEF Handled
<1>10. \A id \in Ids : n.q.status[id] = "completed" => id \in recorded'
  <2> SUFFICES ASSUME NEW id \in Ids, n.q.status[id] = "completed" PROVE id \in recorded'
    OBVIOUS
  <2>1. CASE id \in ends
    <3>1. engine.last = "completed"
      BY <1>4, <2>1 DEF Turned
    <3>2. id \in engine.steering \cup {engine.send.item}
      BY <2>1
    <3> QED BY <1>3, <3>1, <3>2
  <2>2. CASE id \notin ends
    <3>1. queue.status[id] = "completed"
      <4> HIDE DEF ends
      <4> QED BY <1>4, <2>2 DEF Turned
    <3> QED BY <1>3, <3>1 DEF NInv, Done
  <2> QED BY <2>1, <2>2
<1>11. n.e.pump.at = "returns" /\ n.e.pump.result = "completed" => n.e.pump.item \in recorded'
  <2>1. CASE engine.send.owned
    BY <1>2, <1>4, <2>1
  <2>2. CASE ~engine.send.owned
    <3>1. n.e.pump.item = engine.send.item
      BY <1>2, <1>4, <2>2 DEF NInv, Fits
    <3> QED BY <1>3, <1>4, <2>2, <3>1
  <2> QED BY <2>1, <2>2
<1>12. Done(n.q, n.e, recorded')
  BY <1>10, <1>11 DEF Done
<1> QED BY <1>3, <1>4, <1>6, <1>7, <1>9, <1>12, MovesKeep

LEMMA OperationEndsKeeps ==
  ASSUME NInv, OperationEnds
  PROVE  NInv'
<1> DEFINE no == "none"
           m == [Now EXCEPT !.e.operation = no]
           n == Wake(m)
<1>1. Now \in Machines /\ Now.q = queue /\ Now.e = engine
  BY NowIs
<1>2. Becomes(n)
  BY DEF OperationEnds
<1>3. m \in Machines /\ m.q = queue /\ SameTurn(engine, m.e)
  <2>1. no \in Operations \cup {"none"}
    OBVIOUS
  <2> HIDE DEF no
  <2> QED BY <1>1, <2>1, FlagsSet
<1> HIDE DEF m
<1>4. n \in Machines /\ n.q = queue /\ SameTurn(engine, n.e)
  BY <1>3, WakeIs DEF SameTurn
<1> HIDE DEF n
<1> QED BY <1>2, <1>4, QuietKeeps

LEMMA UserSubmitsKeeps ==
  ASSUME NInv, NEW id \in Ids, NEW intent \in Intents, NEW form \in Forms,
         UserSubmits(id, intent, form)
  PROVE  NInv'
<1> DEFINE q == SubmitQ(queue, id, intent, form)
           n == Commit(Now, q)
<1>1. Now \in Machines /\ Now.q = queue /\ Now.e = engine /\ queue \in Record
  BY NowIs DEF NInv
<1>2. queue' = n.q /\ engine' = n.e /\ live' = live /\ recorded' = recorded
  BY DEF UserSubmits, Mints
<1>3. Turned(queue, q, {id}, "queued")
  BY <1>1, Inputs, SubmitQTurns
<1> HIDE DEF q
<1>4. q \in Record
  BY <1>3 DEF Turned
<1>5. n \in Machines /\ n.q = q /\ SameTurn(engine, n.e)
  BY <1>1, <1>4, CommitIs
<1> HIDE DEF n
<1>6. "queued" \notin Started /\ "queued" # "completed"
  BY DEF Started
<1>7. /\ \A x \in Ids : q.status[x] \in Started => queue.status[x] \in Started
      /\ \A x \in Ids : q.status[x] = "completed" => queue.status[x] = "completed"
  BY <1>1, <1>3, <1>6, TurnedAway
<1> QED BY <1>2, <1>5, <1>7, QueueTouched

LEMMA UserSendsKeeps ==
  ASSUME NInv, ~MicrotaskPending, NEW id \in Ids, NEW form \in Forms, UserSends(id, form)
  PROVE  NInv'
<1> DEFINE q == SubmitQ(queue, id, "follow-up", form)
           m == Commit(Now, q)
           yes == TRUE
           a == AdmitAndRun(m, id)
           s == Send(a, id, yes)
           b == BlockAndPause(m, id)
<1>1. Now \in Machines /\ Now.q = queue /\ Now.e = engine /\ queue \in Record
  BY NowIs DEF NInv
<1>2. /\ live' = live /\ recorded' = recorded
      /\ \/ queue' = s.q /\ engine' = s.e
         \/ queue' = b.q /\ engine' = b.e
  BY DEF UserSends, Mints
<1>3. /\ engine.send.at = "none" /\ engine.waits["close"] = "no" /\ engine.send.item = NoInput
      /\ engine.steering = {} /\ engine.rejected = NoInput /\ NoInput \notin Ids
      /\ engine.pump.at \in {"none", "run"}
  BY <1>1, NonePending DEF UserSends, Busy, Open, NInv, Fits
<1>4. Turned(queue, q, {id}, "queued")
  BY <1>1, SubmitQTurns DEF IntentSet
<1> HIDE DEF q
<1>5. q \in Record /\ \A x \in Ids : x # id => q.status[x] = queue.status[x]
  BY <1>4 DEF Turned
<1>6. m \in Machines /\ m.q = q /\ SameTurn(engine, m.e)
  BY <1>1, <1>5, CommitIs
<1> HIDE DEF m
<1>7. CASE queue' = s.q /\ engine' = s.e
  <2>1. a \in Machines /\ Turned(q, a.q, {id}, "running") /\ SameTurn(m.e, a.e)
    BY <1>6, AdmitAndRunIs
  <2> HIDE DEF a
  <2>2. /\ s \in Machines /\ s.q = a.q
        /\ s.e.send.at = "admission" /\ s.e.send.item = id /\ s.e.send.owned
        /\ s.e.steering = a.e.steering /\ s.e.rejected = a.e.rejected
        /\ s.e.waits = a.e.waits /\ s.e.closed = a.e.closed /\ s.e.pump = a.e.pump
    <3>1. yes \in BOOLEAN /\ yes
      OBVIOUS
    <3> HIDE DEF yes
    <3> QED BY <2>1, <3>1, SendIs, ZenonT(60)
  <2> HIDE DEF s
  <2>3. /\ s.e.steering = engine.steering /\ s.e.rejected = engine.rejected
        /\ s.e.waits = engine.waits /\ s.e.closed = engine.closed /\ s.e.pump = engine.pump
    BY <1>6, <2>1, <2>2 DEF SameTurn
  <2>4. Fits(s.e) /\ CloseFits(s.e)
    BY <1>3, <2>2, <2>3 DEF NInv, Fits, CloseFits
  <2>5. Accounted(s.q, s.e)
    <3> SUFFICES ASSUME NEW x \in Ids, s.q.status[x] \in Started PROVE Handled(s.e, x)
      BY DEF Accounted
    <3>1. x = id \/ queue.status[x] \in Started
      BY <1>5, <2>1, <2>2 DEF Turned
    <3> QED BY <1>3, <2>2, <2>3, <3>1 DEF NInv, Accounted, Handled
  <2>6. \A x \in Ids : s.q.status[x] = "completed" => x \in recorded
    BY <1>5, <2>1, <2>2 DEF Turned, NInv, Done
  <2>7. Done(s.q, s.e, recorded')
    BY <1>2, <1>3, <2>3, <2>6 DEF Done
  <2> QED BY <1>2, <1>7, <2>2, <2>4, <2>5, <2>7, MovesKeep
<1>8. CASE queue' = b.q /\ engine' = b.e
  <2>1. b \in Machines /\ Turned(q, b.q, {id}, "blocked") /\ SameTurn(m.e, b.e)
    BY <1>6, BlockAndPauseIs
  <2> HIDE DEF b
  <2>2. /\ \A x \in Ids : b.q.status[x] \in Started => queue.status[x] \in Started
        /\ \A x \in Ids : b.q.status[x] = "completed" => queue.status[x] = "completed"
    BY <1>5, <2>1 DEF Turned, Started
  <2>3. SameTurn(engine, b.e)
    BY <1>6, <2>1 DEF SameTurn
  <2> QED BY <1>2, <1>8, <2>1, <2>2, <2>3, QueueTouched
<1> QED BY <1>2, <1>7, <1>8

LEMMA UserEditsQueueKeeps ==
  ASSUME NInv, UserEditsQueue
  PROVE  NInv'
<1>1. Now \in Machines /\ Now.q = queue /\ Now.e = engine /\ queue \in Record /\ live
  BY NowIs DEF NInv
<1>2. engine' = Wake(Now).e /\ recorded' = recorded
  BY DEF UserEditsQueue
<1>3. Wake(Now) \in Machines /\ SameTurn(engine, Wake(Now).e)
  BY <1>1, WakeIs
<1> DEFINE Quiet ==
      /\ queue' \in Record /\ live' = live
      /\ \A x \in Ids : queue'.status[x] \in Started => queue.status[x] \in Started
      /\ \A x \in Ids : queue'.status[x] = "completed" => queue.status[x] = "completed"
<1>4. Quiet
  <2>1. CASE Pause
    <3>1. queue' = PauseQ(queue) /\ live' = live
      BY <2>1 DEF Pause
    <3>2. PauseQ(queue).status = queue.status
      BY <1>1 DEF PauseQ, Record
    <3> QED BY <1>1, <3>1, <3>2, PauseQType
  <2>2. CASE Resume
    <3>1. queue' = ResumeQ(queue) /\ live' = live
      BY <1>1, <2>2 DEF Resume
    <3>2. \A x \in Ids : ResumeQ(queue).status[x] \in {"queued", queue.status[x]}
      BY <1>1 DEF ResumeQ, Record
    <3> QED BY <1>1, <3>1, <3>2, ResumeQType DEF Started
  <2>3. ASSUME NEW id \in Ids, Remove(id) PROVE Quiet
    <3>1. queue' = SetStatus(queue, id, "cancelled") /\ live' = live
      BY <2>3 DEF Remove
    <3>2. "cancelled" \in Statuses /\ "cancelled" \notin Started
      BY DEF Statuses, Terminal, Started
    <3>3. Turned(queue, queue', {id}, "cancelled")
      BY <1>1, <3>1, <3>2, SetStatusTurns
    <3> QED BY <3>1, <3>2, <3>3 DEF Turned
  <2>4. ASSUME NEW id \in Ids, Retry(id, TRUE) PROVE Quiet
    <3>1. queue' = RetryQ(queue, id) /\ live' = live
      BY <2>4 DEF Retry
    <3>2. \A x \in Ids : RetryQ(queue, id).status[x] \in {"blocked", "queued", queue.status[x]}
      BY <1>1 DEF RetryQ, Record
    <3> QED BY <1>1, <3>1, <3>2, RetryQType DEF Started
  <2> QED BY <2>1, <2>2, <2>3, <2>4 DEF UserEditsQueue
<1> DEFINE n == [q |-> queue', e |-> engine']
<1>5. n \in Machines /\ n.q = queue' /\ n.e = engine'
  BY <1>2, <1>3, <1>4 DEF Machines
<1> HIDE DEF n
<1> QED BY <1>2, <1>3, <1>4, <1>5, QueueTouched

LEMMA UserInterruptsKeeps ==
  ASSUME NInv, UserInterrupts
  PROVE  NInv'
<1> DEFINE c == Commit(Now, PauseQ(queue))
           n == Interrupt(c, "user")
<1>1. Now \in Machines /\ Now.q = queue /\ Now.e = engine /\ queue \in Record
  BY NowIs DEF NInv
<1>2. queue' = n.q /\ engine' = n.e /\ live' = live /\ recorded' = recorded
  BY DEF UserInterrupts
<1>3. PauseQ(queue) \in Record /\ PauseQ(queue).status = queue.status
  BY <1>1, PauseQType DEF PauseQ, Record
<1>4. c \in Machines /\ c.q.status = queue.status /\ SameTurn(engine, c.e)
  BY <1>1, <1>3, CommitIs
<1> HIDE DEF c
<1>5. LET f == n.e IN
      /\ n \in Machines /\ n.q = c.q
      /\ f.send.at = c.e.send.at /\ f.send.item = c.e.send.item
      /\ f.send.owned = c.e.send.owned /\ f.last = c.e.last
      /\ f.steering = c.e.steering /\ f.rejected = c.e.rejected
      /\ f.waits = [c.e.waits EXCEPT !["user"] = "admission"]
      /\ f.closed = c.e.closed /\ f.pump = c.e.pump
  <2>1. "user" \in Callers
    BY DEF Callers
  <2> QED BY <1>4, <2>1, InterruptIs
<1> HIDE DEF n
<1>6. engine.waits \in [Callers -> Stages] /\ "close" \in Callers
  BY DEF NInv, EngineStates, Callers
<1>7. /\ n.e.send.at = engine.send.at /\ n.e.send.item = engine.send.item
      /\ n.e.send.owned = engine.send.owned
      /\ n.e.steering = engine.steering /\ n.e.rejected = engine.rejected
      /\ n.e.waits["close"] = engine.waits["close"]
      /\ n.e.closed = engine.closed /\ n.e.pump = engine.pump /\ n.q.status = queue.status
  BY <1>4, <1>5, <1>6 DEF SameTurn
<1>8. Fits(n.e) /\ CloseFits(n.e) /\ Accounted(n.q, n.e) /\ Done(n.q, n.e, recorded')
  BY <1>2, <1>7 DEF NInv, Fits, CloseFits, Accounted, Handled, Done
<1> QED BY <1>2, <1>5, <1>8, MovesKeep

\* close finds nothing that it will not wait for.
LEMMA CloseBeginsKeeps ==
  ASSUME NInv, CloseBegins
  PROVE  NInv'
<1> DEFINE q2 == IF engine.closed THEN queue ELSE PauseQ(queue)
           s == [Now EXCEPT !.e.closed = TRUE, !.q = q2]
           n == Interrupt(s, "close")
<1>1. Now \in Machines /\ Now.q = queue /\ Now.e = engine /\ queue \in Record
  BY NowIs DEF NInv
<1>2. queue' = n.q /\ engine' = n.e /\ live' = live /\ recorded' = recorded
  BY <1>1 DEF CloseBegins
<1>3. q2 \in Record /\ q2.status = queue.status
  <2>1. PauseQ(queue) \in Record /\ PauseQ(queue).status = queue.status
    BY <1>1, PauseQType DEF PauseQ, Record
  <2> QED BY <1>1, <2>1
<1> HIDE DEF q2
<1>4. /\ s \in Machines /\ s.q = q2 /\ s.e.send = engine.send
      /\ s.e.steering = engine.steering /\ s.e.rejected = engine.rejected
      /\ s.e.waits = engine.waits /\ s.e.closed /\ s.e.pump = engine.pump
  <2>1. /\ s \in Machines /\ s.q = q2 /\ s.e.send = Now.e.send
        /\ s.e.steering = Now.e.steering /\ s.e.rejected = Now.e.rejected
        /\ s.e.waits = Now.e.waits /\ s.e.closed /\ s.e.pump = Now.e.pump
    BY <1>1, <1>3, RunnerStopped
  <2> HIDE DEF s
  <2> QED BY <1>1, <2>1
<1> HIDE DEF s
<1>5. LET f == n.e IN
      /\ n \in Machines /\ n.q = s.q
      /\ f.send.at = s.e.send.at /\ f.send.item = s.e.send.item
      /\ f.send.owned = s.e.send.owned /\ f.last = s.e.last
      /\ f.steering = s.e.steering /\ f.rejected = s.e.rejected
      /\ f.waits = [s.e.waits EXCEPT !["close"] = "admission"]
      /\ f.closed = s.e.closed /\ f.pump = s.e.pump
  <2>1. "close" \in Callers
    BY DEF Callers
  <2> QED BY <1>4, <2>1, InterruptIs
<1> HIDE DEF n
<1>6. engine.waits \in [Callers -> Stages] /\ "close" \in Callers
  BY DEF NInv, EngineStates, Callers
<1>7. /\ n.e.send.at = engine.send.at /\ n.e.send.item = engine.send.item
      /\ n.e.send.owned = engine.send.owned
      /\ n.e.steering = engine.steering /\ n.e.rejected = engine.rejected
      /\ n.e.waits["close"] = "admission"
      /\ n.e.closed /\ n.e.pump = engine.pump /\ n.q.status = queue.status
  BY <1>3, <1>4, <1>5, <1>6
<1>8. Fits(n.e) /\ CloseFits(n.e) /\ Accounted(n.q, n.e) /\ Done(n.q, n.e, recorded')
  BY <1>2, <1>7 DEF NInv, Fits, CloseFits, Accounted, Handled, Done
<1> QED BY <1>2, <1>5, <1>8, MovesKeep

LEMMA OperationBeginsKeeps ==
  ASSUME NInv, OperationBegins
  PROVE  NInv'
<1>0. PICK kind \in Operations : engine' = [engine EXCEPT !.operation = kind]
  BY DEF OperationBegins
<1> DEFINE n == [Now EXCEPT !.e.operation = kind]
<1>1. Now \in Machines /\ Now.q = queue /\ Now.e = engine
  BY NowIs
<1>2. queue' = n.q /\ engine' = n.e /\ live' = live /\ recorded' = recorded
  BY <1>0 DEF OperationBegins, qvars, Now
<1>3. n \in Machines /\ n.q = queue /\ SameTurn(engine, n.e)
  BY <1>1, FlagsSet
<1> HIDE DEF n
<1> QED BY <1>2, <1>3, QueueTouched

----------------------------------------------------------------------------
(* The theorems.                                                             *)

LEMMA NInvInit ==
  ASSUME NativeInit
  PROVE  NInv
<1>1. queue \in Record
  BY Limits DEF NativeInit, Init, Record, IntentSet, FormSet
<1>2. /\ engine.send = NoSend /\ engine.steering = {} /\ engine.rejected = NoInput
      /\ engine.waits = [caller \in Callers |-> "no"] /\ engine.pump = NoPump
  BY DEF NativeInit
<1>3. NoSend \in Sends /\ NoSend.at = "none" /\ NoSend.item = NoInput
  BY DEF NoSend, Sends, Input
<1>4. NoPump \in Pumps /\ NoPump.at = "none" /\ NoPump.item = NoInput
  BY DEF NoPump, Pumps, Input, Results
<1>5. [caller \in Callers |-> "no"] \in [Callers -> Stages] /\ "close" \in Callers
  BY DEF Stages, Callers
<1>6. engine \in EngineStates
  BY <1>3, <1>4, <1>5 DEF NativeInit, EngineStates, Terminal, Input
<1>7. engine.waits["close"] = "no"
  BY <1>2, <1>5
<1>8. \A id \in Ids : queue.status[id] = "absent"
  BY DEF NativeInit, Init
<1> QED BY <1>1, <1>2, <1>3, <1>4, <1>6, <1>7, <1>8
        DEF NInv, NativeInit, Init, Fits, CloseFits, Accounted, Done, Started

LEMMA NInvStep ==
  ASSUME NInv, [NativeNext]_nativeVars
  PROVE  NInv'
<1>1. CASE Microtask
  BY <1>1, RunnerWakesKeeps, HandleRejectionKeeps, PumpReturnsKeeps, PumpEndsKeeps,
     ProceedsKeeps DEF Microtask
<1>2. CASE /\ ~MicrotaskPending
           /\ TurnProgress \/ TakeSteering \/ \E status \in Terminal : TurnOver(status)
  <2>1. \/ AdmissionEnds \/ Persisted \/ PersistFails \/ OperationEnds \/ TakeSteering
        \/ \E status \in Terminal : TurnOver(status)
    BY <1>2 DEF TurnProgress
  <2> QED BY <1>2, <2>1, AdmissionEndsKeeps, PersistedKeeps, PersistFailsKeeps,
             OperationEndsKeeps, TakeSteeringKeeps, TurnOverKeeps
<1>3. CASE /\ ~MicrotaskPending
           /\ \/ \E id \in Ids, form \in Forms :
                   UserSends(id, form) \/ \E intent \in Intents : UserSubmits(id, intent, form)
              \/ UserEditsQueue \/ UserInterrupts \/ OperationBegins \/ CloseBegins
  BY <1>3, UserSendsKeeps, UserSubmitsKeeps, UserEditsQueueKeeps, UserInterruptsKeeps,
     OperationBeginsKeeps, CloseBeginsKeeps
<1>4. CASE UNCHANGED nativeVars
  BY <1>4 DEF nativeVars, qvars, NInv
<1>5. CASE NativeAtRest
  BY <1>4, <1>5 DEF NativeAtRest
<1> QED BY <1>1, <1>2, <1>3, <1>4, <1>5 DEF NativeNext

(* The engine and the record agree at every step, interrupted and failed turns, *)
(* steering and a close in any order included: the parts of the engine keep     *)
(* their types and fit each other, an input recorded as begun is in the hands   *)
(* of one of them, and only what was recorded is, or will be, called completed. *)
THEOREM EngineStaysConsistent == NativeSpec => []NInv
<1>1. NativeInit => NInv
  BY NInvInit
<1>2. NInv /\ [NativeNext]_nativeVars => NInv'
  BY NInvStep
<1> QED BY <1>1, <1>2, PTL DEF NativeSpec

(* No input is left behind as under way: one that the record shows as admitted *)
(* or running belongs to the turn, its steering, the pump or the handler of a   *)
(* rejected turn, and once close has returned there is none.                    *)
THEOREM NoInputIsOrphaned == NativeSpec => []NativeNoOrphan
<1>1. NInv => NativeNoOrphan
  <2> SUFFICES ASSUME NInv, NEW id \in Ids, queue.status[id] \in {"admitted", "running"}
               PROVE  UnderWay(id) /\ engine.waits["close"] # "ended"
    BY DEF NativeNoOrphan
  <2>1. Handled(engine, id)
    BY DEF NInv, Accounted, Started
  <2>2. CASE engine.waits["close"] = "ended"
    <3>1. /\ engine.send.at = "none" /\ engine.rejected = NoInput /\ engine.pump.at = "none"
          /\ NoInput \notin Ids
      BY <2>2, EngineShape DEF NInv, CloseFits
    <3>2. engine.send.item = NoInput /\ engine.pump.item = NoInput /\ engine.steering = {}
      BY <3>1 DEF NInv, Fits
    <3> QED BY <2>1, <3>1, <3>2 DEF Handled
  <2> QED BY <2>1, <2>2 DEF Handled, UnderWay
<1> QED BY <1>1, EngineStaysConsistent, PTL

(* An input is called completed only if its last turn completed and was        *)
(* recorded: what the pump, the turn's end or a handler writes is never the     *)
(* result of another turn.                                                      *)
THEOREM CompletedMeansRecorded == NativeSpec => []CompletedIsRecorded
<1>1. NInv => CompletedIsRecorded
  BY DEF NInv, Done, CompletedIsRecorded
<1> QED BY <1>1, EngineStaysConsistent, PTL

=============================================================================
