------------------------- MODULE FileChanges_proofs -------------------------
(***************************************************************************)
(* Theorems about how turns change files and how changes are taken back:   *)
(* ToolTurn, for responses of any length, any number of rounds and any     *)
(* limits, and FileRestore, for any number of files and any edits of other *)
(* programs.                                                               *)
(***************************************************************************)
EXTENDS ToolTurn, FileRestore, FiniteSetTheorems, SequenceTheorems, TLAPS

----------------------------------------------------------------------------
(* ToolTurn: the tool loop of a turn.                                         *)

TurnPlaces == {"idle", "head", "ask", "stream", "steer", "steer instead", "stop", "round", "end",
               "start"}
CallPlaces == {"new", "batched", "skipped", "asking", "claiming", "covering", "running",
               "finalizing", "settled"}
CallRecords == [kind : {"read", "write", "question", "other"}, at : CallPlaces, early : BOOLEAN]
Turns == [at : TurnPlaces, status : {"none", "completed", "failed", "interrupted"},
          aborted : BOOLEAN, failed : BOOLEAN, rounds : Nat, retries : Nat, continued : Nat,
          calls : Seq(CallRecords), barrier : BOOLEAN, next : Nat, cut : BOOLEAN]
Histories == [open : SUBSET Nat, torn : BOOLEAN]

ToolTypeOK ==
  /\ turn \in Turns /\ history \in Histories
  /\ held \in {"none", "working", "finalizing", "failing", "unsaid"}

(* What holds of the calls of a response.  A call that is at work and no    *)
(* read is alone, with no read waiting in the batch; what is at work or      *)
(* waits has nothing begun behind it but reads and early calls; what the     *)
(* round has not come to is as it arrived.                                   *)
At(t, i) == t.calls[i].at
Busy(t, i) == At(t, i) \in {"asking", "claiming", "covering", "running", "finalizing"}
Due(t, i) == Busy(t, i) \/ At(t, i) = "batched"
Reads(t, i) == t.calls[i].kind = "read"
Free(t, j) == At(t, j) \in {"new", "batched", "skipped"} \/ t.calls[j].early

CallsInv(t) ==
  /\ \A i \in DOMAIN t.calls :
       /\ At(t, i) = "batched" => Reads(t, i)
       /\ At(t, i) = "asking" => ~Reads(t, i)
       /\ At(t, i) \in {"claiming", "covering", "finalizing"} => t.calls[i].kind = "write"
       /\ i >= t.next /\ ~t.calls[i].early => At(t, i) = "new"
  /\ \A i, j \in DOMAIN t.calls :
       /\ i # j /\ Busy(t, i) /\ ~Reads(t, i) => ~Due(t, j)
       /\ i < j /\ Due(t, i) /\ ~(Reads(t, i) /\ Reads(t, j)) => Free(t, j)

\* Until the round begins only early reads are at work.
StreamInv(t) ==
  t.at # "round" => \A i \in DOMAIN t.calls : Due(t, i) => At(t, i) = "running" /\ Reads(t, i)

EffectsInv ==
  /\ \A x, y \in holders : x = y
  /\ \A i \in Called : turn.calls[i].kind = "write" =>
       /\ At(turn, i) \in {"covering", "running", "finalizing"} => "turn" \in holders
       /\ At(turn, i) \in {"running", "finalizing"} => "turn" \in covered
  /\ held \in {"working", "finalizing", "failing"} => "held" \in holders
  /\ held \in {"working", "finalizing"} => "held" \in covered

Whole(h) == h \in Histories /\ h.open = {} /\ ~h.torn

HistoryInv ==
  /\ ~history.torn
  /\ history.open = IF turn.at = "round" THEN Called ELSE {}

ToolInv == ToolTypeOK /\ CallsInv(turn) /\ StreamInv(turn) /\ EffectsInv /\ HistoryInv

----------------------------------------------------------------------------
(* The operators on turns.                                                  *)

LEMMA CalledIs ==
  ASSUME NEW t \in Turns
  PROVE  /\ DOMAIN t.calls = 1..Len(t.calls) /\ Len(t.calls) \in Nat
         /\ \A i \in DOMAIN t.calls : t.calls[i] \in CallRecords /\ i \in Nat
<1>1. t.calls \in Seq(CallRecords)
  BY DEF Turns
<1> QED BY <1>1, LenProperties, ElementOfSeq

LEMMA GoesIs ==
  ASSUME NEW t \in Turns, NEW place \in TurnPlaces
  PROVE  /\ Goes(t, place) \in Turns /\ Goes(t, place).at = place
         /\ Goes(t, place).calls = <<>> /\ Goes(t, place).next = 1
<1>1. <<>> \in Seq(CallRecords)
  BY EmptySeq
<1>2. Goes(t, place).at = place
  BY DEF Goes, Turns
<1>3. Goes(t, place).calls = <<>>
  BY DEF Goes, Turns
<1>4. Goes(t, place).next = 1
  BY DEF Goes, Turns
<1>5. Goes(t, place) \in Turns
  BY <1>1 DEF Goes, Turns
<1> QED BY <1>2, <1>3, <1>4, <1>5

LEMMA EndsIs ==
  ASSUME NEW t \in Turns, NEW status \in {"completed", "failed", "interrupted"}
  PROVE  /\ Ends(t, status) \in Turns /\ Ends(t, status).at = "end"
         /\ Ends(t, status).calls = <<>> /\ Ends(t, status).next = 1
<1>1. Goes(t, "end") \in Turns /\ Goes(t, "end").at = "end" /\ Goes(t, "end").calls = <<>>
      /\ Goes(t, "end").next = 1
  BY GoesIs DEF TurnPlaces
<1> QED BY <1>1 DEF Ends, Turns

LEMMA ThrowsIs ==
  ASSUME NEW t \in Turns
  PROVE  /\ Throws(t) \in Turns /\ Throws(t).at = "end"
         /\ Throws(t).calls = <<>> /\ Throws(t).next = 1
BY EndsIs DEF Throws

LEMMA CallGoesIs ==
  ASSUME NEW t \in Turns, NEW i \in DOMAIN t.calls, NEW place \in CallPlaces
  PROVE  LET u == CallGoes(t, i, place) IN
         /\ u \in Turns /\ u.at = t.at /\ u.next = t.next
         /\ DOMAIN u.calls = DOMAIN t.calls
         /\ \A j \in DOMAIN t.calls : j # i => u.calls[j] = t.calls[j]
         /\ u.calls[i] = [kind |-> t.calls[i].kind, at |-> place, early |-> t.calls[i].early]
<1> DEFINE c == [kind |-> t.calls[i].kind, at |-> place, early |-> t.calls[i].early]
           s == [t.calls EXCEPT ![i] = c]
<1>1. t.calls \in Seq(CallRecords) /\ t.calls[i] \in CallRecords /\ DOMAIN t.calls = 1..Len(t.calls)
  BY CalledIs DEF Turns
<1>2. c \in CallRecords /\ [t.calls[i] EXCEPT !.at = place] = c
  BY <1>1 DEF CallRecords
<1>3. CallGoes(t, i, place) = [t EXCEPT !.calls = s]
  BY <1>2 DEF CallGoes, Turns
<1> HIDE DEF c
<1>4. s \in Seq(CallRecords) /\ Len(s) = Len(t.calls) /\ DOMAIN s = DOMAIN t.calls
      /\ s[i] = c /\ \A j \in DOMAIN t.calls : j # i => s[j] = t.calls[j]
  BY <1>1, <1>2, ExceptSeq, LenProperties
<1> HIDE DEF s
<1>5. [t EXCEPT !.calls = s] \in Turns /\ [t EXCEPT !.calls = s].calls = s
      /\ [t EXCEPT !.calls = s].at = t.at /\ [t EXCEPT !.calls = s].next = t.next
  BY <1>4 DEF Turns
<1> QED BY <1>3, <1>4, <1>5 DEF c

LEMMA AdvanceIs ==
  ASSUME NEW t \in Turns
  PROVE  /\ Advance(t) \in Turns /\ Advance(t).at = t.at
         /\ Advance(t).calls = t.calls /\ Advance(t).next = t.next + 1
BY DEF Advance, Turns

LEMMA InterruptedIs ==
  ASSUME NEW t \in Turns
  PROVE  /\ Interrupted(t) \in Turns /\ Interrupted(t).at = t.at
         /\ Interrupted(t).calls = t.calls /\ Interrupted(t).next = t.next
BY DEF Interrupted, Turns

(* The history.                                                             *)
Clean == [open |-> {}, torn |-> FALSE]

LEMMA WholeIs == \A h : Whole(h) <=> h = Clean
<1>1. ASSUME NEW h, Whole(h) PROVE h = Clean
  <2>1. h = [open |-> h.open, torn |-> h.torn] /\ h.torn = FALSE /\ h.open = {}
    BY <1>1 DEF Whole, Histories
  <2> QED BY <2>1 DEF Clean
<1>2. Whole(Clean)
  BY DEF Whole, Histories, Clean
<1> QED BY <1>1, <1>2

LEMMA PushedText == ASSUME NEW h, Whole(h) PROVE Whole(PushText(h))
<1> DEFINE torn == h.torn \/ h.open # {}
<1>1. h = Clean /\ h.torn = FALSE /\ h.open = {}
  BY WholeIs DEF Clean
<1>2. PushText(h) = [h EXCEPT !.torn = torn]
  BY DEF PushText
<1>3. torn = FALSE
  BY <1>1
<1> HIDE DEF torn
<1>4. PushText(h) = Clean
  BY <1>1, <1>2, <1>3 DEF Clean
<1> QED BY <1>4, WholeIs

LEMMA PushedCalls ==
  ASSUME NEW h, Whole(h), turn \in Turns
  PROVE  /\ Whole(SettleUnexecuted(PushCalls(h, Called)))
         /\ Whole(SettleUnexecuted(PushAnswer(h)))
         /\ Called # {} => Whole(PushResults(PushAnswer(h), Called))
         /\ Called # {} => PushAnswer(h) = [open |-> Called, torn |-> FALSE]
<1>1. h = Clean
  BY WholeIs
<1>2. PushCalls(h, Called) = [open |-> Called, torn |-> FALSE]
  <2>1. (h.torn \/ h.open # {}) = FALSE
    BY <1>1 DEF Clean
  <2> QED BY <2>1 DEF PushCalls
<1>3. PushResults(PushCalls(h, Called), Called) = Clean
  <2> DEFINE g == PushCalls(h, Called)
  <2>1. g.torn = FALSE /\ g.open = Called
    BY <1>2
  <2> HIDE DEF g
  <2>2. (g.torn \/ g.open # Called) = FALSE
    BY <2>1
  <2>3. PushResults(g, Called) = [open |-> {}, torn |-> (g.torn \/ g.open # Called)]
    BY DEF PushResults
  <2> QED BY <2>2, <2>3 DEF Clean, g
<1>4. Whole(PushText(h))
  BY PushedText
<1>5. CASE Called = {}
  <2>1. PushCalls(h, Called) = Clean
    BY <1>2, <1>5 DEF Clean
  <2> QED BY <1>4, <1>5, <2>1, WholeIs DEF SettleUnexecuted, PushAnswer
<1>6. CASE Called # {}
  <2>1. PushAnswer(h) = PushCalls(h, Called)
    BY <1>6 DEF PushAnswer
  <2> QED BY <1>2, <1>3, <1>6, <2>1, WholeIs DEF SettleUnexecuted
<1> QED BY <1>5, <1>6

----------------------------------------------------------------------------
(* The calls of a response.                                                 *)

LEMMA NoCalls == ASSUME NEW t, t.calls = <<>> PROVE CallsInv(t)
BY DEF CallsInv

(* A call moves to another place: what it was, what it becomes, and what     *)
(* else may be at work meanwhile.                                            *)
LEMMA CallMoves ==
  ASSUME NEW t \in Turns, NEW u \in Turns, CallsInv(t), NEW i \in DOMAIN t.calls,
         NEW place \in CallPlaces,
         DOMAIN u.calls = DOMAIN t.calls,
         \A j \in DOMAIN t.calls : j # i => u.calls[j] = t.calls[j],
         u.calls[i] = [kind |-> t.calls[i].kind, at |-> place, early |-> t.calls[i].early],
         u.next >= t.next, t.calls[i].early \/ i < u.next,
         \/ place \in {"skipped", "settled"} /\ (place = "settled" => Busy(t, i))
         \/ Busy(t, i) /\ ~Reads(t, i)
            /\ (place = "running" \/
                 (t.calls[i].kind = "write" /\ place \in {"claiming", "covering", "finalizing"}))
         \/ At(t, i) = "batched" /\ place = "running"
         \/ /\ i = t.next /\ ~t.calls[i].early /\ \A j \in DOMAIN t.calls : ~Busy(t, j)
            /\ \/ place = "batched" /\ Reads(t, i)
               \/ place = "asking" /\ ~Reads(t, i)
                  /\ \A j \in DOMAIN t.calls : At(t, j) # "batched"
  PROVE  CallsInv(u)
<1>0. /\ DOMAIN t.calls \subseteq Nat /\ t.next \in Nat /\ u.next \in Nat
      /\ \A j \in DOMAIN t.calls : Reads(u, j) <=> Reads(t, j)
      /\ \A j \in DOMAIN t.calls : u.calls[j].early = t.calls[j].early
      /\ \A j \in DOMAIN t.calls : u.calls[j].kind = t.calls[j].kind
      /\ \A j \in DOMAIN t.calls : j # i => At(u, j) = At(t, j)
      /\ At(u, i) = place
  <2>1. DOMAIN t.calls \subseteq Nat /\ t.next \in Nat /\ u.next \in Nat
    BY CalledIs DEF Turns
  <2>2. /\ u.calls[i].early = t.calls[i].early /\ u.calls[i].kind = t.calls[i].kind
        /\ u.calls[i].at = place
    OBVIOUS
  <2> QED BY <2>1, <2>2 DEF Reads, At
<1>1. ASSUME NEW k \in DOMAIN t.calls
      PROVE  /\ At(u, k) = "batched" => Reads(u, k)
             /\ At(u, k) = "asking" => ~Reads(u, k)
             /\ At(u, k) \in {"claiming", "covering", "finalizing"} => u.calls[k].kind = "write"
             /\ k >= u.next /\ ~u.calls[k].early => At(u, k) = "new"
  <2>1. CASE k # i
    BY <1>0, <2>1 DEF CallsInv
  <2>2. CASE k = i
    BY <1>0, <2>2
  <2> QED BY <2>1, <2>2
<1>2. ASSUME NEW k \in DOMAIN t.calls, NEW j \in DOMAIN t.calls,
             k # j, Busy(u, k), ~Reads(u, k)
      PROVE  ~Due(u, j)
  <2>1. CASE j # i /\ k # i
    BY <1>0, <1>2, <2>1 DEF CallsInv, Busy, Due
  <2>2. CASE k = i
    <3>1. ~Due(t, j)
      BY <1>0, <1>2, <2>2 DEF CallsInv, Busy, Due, Reads
    <3> QED BY <1>0, <1>2, <2>2, <3>1 DEF Busy, Due
  <2>3. CASE j = i
    <3>1. Busy(t, k) /\ ~Reads(t, k) /\ ~Due(t, i)
      BY <1>0, <1>2, <2>3 DEF CallsInv, Busy
    <3> QED BY <1>0, <1>2, <2>3, <3>1 DEF Busy, Due
  <2> QED BY <2>1, <2>2, <2>3
<1>3. ASSUME NEW k \in DOMAIN t.calls, NEW j \in DOMAIN t.calls,
             k < j, Due(u, k), ~(Reads(u, k) /\ Reads(u, j))
      PROVE  Free(u, j)
  <2>0. k # j
    BY <1>0, <1>3
  <2>1. CASE j # i /\ k # i
    <3>1. Due(t, k) /\ ~(Reads(t, k) /\ Reads(t, j))
      BY <1>0, <1>3, <2>1 DEF Due, Busy
    <3> QED BY <1>0, <1>3, <2>1, <3>1 DEF CallsInv, Free
  <2>2. CASE k = i
    <3>1. CASE Due(t, i)
      BY <1>0, <1>3, <2>0, <2>2, <3>1 DEF CallsInv, Free
    <3>2. CASE ~Due(t, i)
      <4>1. i = t.next
        BY <1>0, <1>3, <2>2, <3>2 DEF Due, Busy
      <4>2. t.calls[j].early \/ At(t, j) = "new"
        BY <1>0, <1>3, <2>2, <4>1 DEF CallsInv
      <4> QED BY <1>0, <2>0, <2>2, <4>2 DEF Free
    <3> QED BY <3>1, <3>2
  <2>3. CASE j = i
    <3>1. Due(t, k) /\ ~(Reads(t, k) /\ Reads(t, i))
      BY <1>0, <1>3, <2>0, <2>3 DEF Due, Busy
    <3>2. Free(t, i)
      BY <1>3, <2>3, <3>1 DEF CallsInv
    <3>3. CASE place \in {"skipped", "batched"}
      BY <1>0, <2>3, <3>3 DEF Free
    <3>4. CASE Busy(t, i)
      BY <1>0, <2>3, <3>2, <3>4 DEF Free, Busy
    <3>5. CASE At(t, i) = "batched" /\ place = "running"
      <4>1. Reads(t, i) /\ ~Reads(t, k) /\ Due(t, i)
        BY <3>1, <3>5 DEF CallsInv, Due
      <4>2. Busy(t, k)
        BY <3>1, <4>1 DEF CallsInv, Due
      <4> QED BY <2>0, <2>3, <4>1, <4>2 DEF CallsInv
    <3>6. CASE place = "asking"
      BY <1>0, <2>3, <3>1, <3>4, <3>6 DEF Due, Busy
    <3> QED BY <3>3, <3>4, <3>5, <3>6
  <2> QED BY <2>1, <2>2, <2>3
<1> QED BY <1>1, <1>2, <1>3 DEF CallsInv

(* A call arrives while none is at work.                                     *)
LEMMA CallArrives ==
  ASSUME NEW t \in Turns, NEW u \in Turns, CallsInv(t), NEW c \in CallRecords,
         u.calls = Append(t.calls, c), u.next = t.next,
         \A i \in DOMAIN t.calls : ~Due(t, i),
         \/ c.at = "new" \/ (c.early /\ c.kind = "read" /\ c.at \in {"running", "skipped"})
  PROVE  CallsInv(u)
<1> DEFINE n == Len(t.calls) + 1
<1>1. /\ Len(t.calls) \in Nat /\ DOMAIN t.calls = 1..Len(t.calls) /\ DOMAIN u.calls = 1..n
      /\ t.calls \in Seq(CallRecords)
      /\ \A i \in DOMAIN t.calls : u.calls[i] = t.calls[i]
      /\ u.calls[n] = c
  BY CalledIs, AppendProperties DEF Turns
<1> HIDE DEF n
<1>2. \A i \in DOMAIN u.calls : i # n => i \in DOMAIN t.calls /\ ~Due(u, i) /\ i < n
  BY <1>1 DEF Due, Busy, At, n
<1>3. /\ Due(u, n) => Reads(u, n) /\ Busy(u, n)
      /\ At(u, n) \in {"new", "running", "skipped"}
      /\ ~u.calls[n].early => At(u, n) = "new"
  BY <1>1 DEF Due, Busy, At, Reads
<1>4. ASSUME NEW i \in DOMAIN u.calls
      PROVE  /\ At(u, i) = "batched" => Reads(u, i)
             /\ At(u, i) = "asking" => ~Reads(u, i)
             /\ At(u, i) \in {"claiming", "covering", "finalizing"} => u.calls[i].kind = "write"
             /\ i >= u.next /\ ~u.calls[i].early => At(u, i) = "new"
  <2>1. CASE i = n
    BY <1>3, <2>1
  <2>2. CASE i # n
    BY <1>1, <1>2, <2>2 DEF CallsInv, At, Reads
  <2> QED BY <2>1, <2>2
<1>5. ASSUME NEW i \in DOMAIN u.calls, NEW j \in DOMAIN u.calls
      PROVE  /\ i # j /\ Busy(u, i) /\ ~Reads(u, i) => ~Due(u, j)
             /\ i < j /\ Due(u, i) /\ ~(Reads(u, i) /\ Reads(u, j)) => Free(u, j)
  <2>1. Due(u, i) => i = n
    BY <1>2
  <2>2. Busy(u, i) => Due(u, i)
    BY DEF Due
  <2>3. ~(n < j)
    BY <1>1, <1>2 DEF n
  <2> QED BY <1>3, <2>1, <2>2, <2>3
<1> QED BY <1>4, <1>5 DEF CallsInv

----------------------------------------------------------------------------
(* The steps of a call.                                                     *)

\* turn' is turn with call i at the given place.
Moved(i, place) ==
  /\ turn' \in Turns /\ turn'.at = turn.at /\ turn'.next >= turn.next
  /\ Called' = Called
  /\ \A j \in Called : j # i => turn'.calls[j] = turn.calls[j]
  /\ turn'.calls[i] = [kind |-> turn.calls[i].kind, at |-> place, early |-> turn.calls[i].early]

LEMMA GoesMoves ==
  ASSUME turn \in Turns, NEW i \in Called, NEW place \in CallPlaces,
         \/ turn' = CallGoes(turn, i, place)
         \/ turn' = Interrupted(CallGoes(turn, i, place))
         \/ turn' = Advance(CallGoes(turn, i, place))
  PROVE  /\ Moved(i, place)
         /\ turn'.next = turn.next \/ turn' = Advance(CallGoes(turn, i, place))
         /\ turn' = Advance(CallGoes(turn, i, place)) => turn'.next = turn.next + 1
<1> DEFINE u == CallGoes(turn, i, place)
<1>1. /\ u \in Turns /\ u.at = turn.at /\ u.next = turn.next
      /\ DOMAIN u.calls = Called
      /\ \A j \in Called : j # i => u.calls[j] = turn.calls[j]
      /\ u.calls[i] = [kind |-> turn.calls[i].kind, at |-> place, early |-> turn.calls[i].early]
  BY CallGoesIs DEF Called
<1> HIDE DEF u
<1>2. turn.next \in Nat
  BY DEF Turns
<1>3. /\ turn' \in Turns /\ turn'.at = u.at /\ turn'.calls = u.calls
      /\ turn'.next = u.next \/ turn' = Advance(u)
      /\ turn' = Advance(u) => turn'.next = u.next + 1
  <2>1. CASE turn' = u
    BY <1>1, <2>1, AdvanceIs
  <2>2. CASE turn' = Interrupted(u)
    BY <1>1, <2>2, AdvanceIs, InterruptedIs
  <2>3. CASE turn' = Advance(u)
    BY <1>1, <2>3, AdvanceIs
  <2> QED BY <2>1, <2>2, <2>3 DEF u
<1> QED BY <1>1, <1>2, <1>3 DEF Moved, Called, u

LEMMA MovedCalls ==
  ASSUME ToolInv, NEW i \in Called, NEW place \in CallPlaces, Moved(i, place),
         turn.calls[i].early \/ i < turn'.next,
         turn.at = "round" \/ place = "settled",
         history' = history, held' \in {"none", "working", "finalizing", "failing", "unsaid"},
         \/ place \in {"skipped", "settled"} /\ (place = "settled" => Busy(turn, i))
         \/ Busy(turn, i) /\ ~Reads(turn, i)
            /\ (place = "running" \/
                 (turn.calls[i].kind = "write" /\ place \in {"claiming", "covering", "finalizing"}))
         \/ At(turn, i) = "batched" /\ place = "running"
         \/ /\ i = turn.next /\ ~turn.calls[i].early /\ \A j \in Called : ~Busy(turn, j)
            /\ \/ place = "batched" /\ Reads(turn, i)
               \/ place = "asking" /\ ~Reads(turn, i)
                  /\ \A j \in Called : At(turn, j) # "batched"
  PROVE  ToolTypeOK' /\ CallsInv(turn)' /\ StreamInv(turn)' /\ HistoryInv'
<1>1. CallsInv(turn')
  BY CallMoves DEF ToolInv, ToolTypeOK, Moved, Called
<1>2. StreamInv(turn')
  <2>1. CASE turn.at = "round"
    BY <2>1 DEF Moved, StreamInv
  <2>2. CASE turn.at # "round" /\ place = "settled"
    BY <2>2 DEF Moved, StreamInv, ToolInv, Due, Busy, At, Reads, Called
  <2> QED BY <2>1, <2>2
<1>3. HistoryInv' /\ ToolTypeOK'
  BY DEF HistoryInv, ToolInv, ToolTypeOK, Moved
<1> QED BY <1>1, <1>2, <1>3

LEMMA MovedEffects ==
  ASSUME ToolInv, NEW i \in Called, NEW place \in CallPlaces, Moved(i, place),
         UNCHANGED <<holders, covered, held>>,
         turn.calls[i].kind = "write" /\ place \in {"covering", "running", "finalizing"} =>
           At(turn, i) \in {"running", "finalizing"}
  PROVE  EffectsInv'
<1>1. ASSUME NEW j \in Called, turn'.calls[j].kind = "write"
      PROVE  /\ At(turn', j) \in {"covering", "running", "finalizing"} => "turn" \in holders'
             /\ At(turn', j) \in {"running", "finalizing"} => "turn" \in covered'
  <2>1. CASE j # i
    BY <1>1, <2>1 DEF Moved, ToolInv, EffectsInv, At
  <2>2. CASE j = i
    BY <1>1, <2>2 DEF Moved, ToolInv, EffectsInv, At
  <2> QED BY <2>1, <2>2
<1> QED BY <1>1 DEF Moved, ToolInv, EffectsInv

(* A call that changes files is alone: whatever it does with the claim and   *)
(* the checkpoint of the turn is no other call's business.                   *)
LEMMA AloneEffects ==
  ASSUME ToolInv, NEW i \in Called, NEW place \in CallPlaces, Moved(i, place),
         Busy(turn, i), ~Reads(turn, i),
         \A x, y \in holders' : x = y,
         place \in {"covering", "running", "finalizing"} => "turn" \in holders',
         place \in {"running", "finalizing"} => "turn" \in covered',
         held' \in {"working", "finalizing", "failing"} => "held" \in holders',
         held' \in {"working", "finalizing"} => "held" \in covered'
  PROVE  EffectsInv'
<1>1. \A j \in Called : j # i => ~Busy(turn, j)
  BY DEF ToolInv, CallsInv, Called, Due
<1>2. \A j \in Called : j # i => ~Busy(turn', j)
  BY <1>1 DEF Moved, Busy, At
<1>3. At(turn', i) = place
  BY DEF Moved, At
<1> QED BY <1>2, <1>3 DEF Moved, EffectsInv, Busy

LEMMA MovedCame ==
  ASSUME ToolInv, NEW i \in Called, NEW place, Moved(i, place), At(turn, i) # "new"
  PROVE  turn.calls[i].early \/ i < turn'.next
<1>1. turn.next \in Nat /\ turn'.next \in Nat /\ i \in Nat /\ turn'.next >= turn.next
  BY CalledIs DEF ToolInv, ToolTypeOK, Moved, Turns, Called
<1>2. i >= turn.next => turn.calls[i].early
  BY DEF ToolInv, CallsInv, Called
<1> QED BY <1>1, <1>2

LEMMA BusyInRound ==
  ASSUME ToolInv, NEW i \in Called, Busy(turn, i), ~Reads(turn, i) \/ At(turn, i) # "running"
  PROVE  turn.at = "round"
BY DEF ToolInv, StreamInv, Due, Called

LEMMA CallStepInv == ASSUME ToolInv, CallStep PROVE ToolInv'
<1>1. PICK i \in Called :
        \/ RunRead(i) \/ Asked(i) \/ ClaimMade(i) \/ ClaimMissed(i) \/ Cover(i)
        \/ ToolEnds(i) \/ ToolHolds(i) \/ Finalize(i)
  BY DEF CallStep
<1>2. /\ turn \in Turns /\ turn.calls[i] \in CallRecords
      /\ held \in {"none", "working", "finalizing", "failing", "unsaid"}
  BY CalledIs DEF ToolInv, ToolTypeOK, Called
<1>3. /\ At(turn, i) = "asking" => ~Reads(turn, i)
      /\ At(turn, i) = "batched" => Reads(turn, i)
      /\ At(turn, i) \in {"claiming", "covering", "finalizing"} => turn.calls[i].kind = "write"
      /\ turn.calls[i].kind = "write" => ~Reads(turn, i)
  BY DEF ToolInv, CallsInv, Called, Reads
<1>4. CASE RunRead(i)
  <2>1. /\ At(turn, i) = "batched" /\ turn.at = "round"
        /\ UNCHANGED <<history, holders, covered, held>>
    BY <1>4 DEF RunRead, Batched, Places, FlushDue, InRound, NotFiles, At
  <2>2. PICK place \in {"skipped", "running"} : turn' = CallGoes(turn, i, place)
    BY <1>4 DEF RunRead
  <2>3. place \in CallPlaces
    BY DEF CallPlaces
  <2>4. Moved(i, place)
    BY <1>2, <2>2, <2>3, GoesMoves
  <2>5. ToolTypeOK' /\ CallsInv(turn)' /\ StreamInv(turn)' /\ HistoryInv'
    BY <1>2, <2>1, <2>3, <2>4, MovedCalls, MovedCame
  <2>6. EffectsInv'
    BY <1>3, <2>1, <2>3, <2>4, MovedEffects DEF Reads
  <2> QED BY <2>5, <2>6 DEF ToolInv
<1>5. CASE Asked(i)
  <2>1. At(turn, i) = "asking" /\ UNCHANGED <<history, holders, covered, held>>
    BY <1>5 DEF Asked, CallAt, NotFiles, At
  <2>2. PICK place \in {"settled", "claiming", "running"} :
          /\ turn' = CallGoes(turn, i, place)
          /\ place = "claiming" => turn.calls[i].kind = "write"
          /\ place = "running" => turn.calls[i].kind \in {"question", "other"}
    BY <1>5 DEF Asked, SettleCall
  <2>3. place \in CallPlaces /\ Busy(turn, i) /\ turn.at = "round" /\ ~Reads(turn, i)
    BY <1>3, <2>1, BusyInRound DEF CallPlaces, Busy
  <2>4. Moved(i, place)
    BY <1>2, <2>2, <2>3, GoesMoves
  <2>5. ToolTypeOK' /\ CallsInv(turn)' /\ StreamInv(turn)' /\ HistoryInv'
    BY <1>2, <2>1, <2>2, <2>3, <2>4, MovedCalls, MovedCame
  <2>6. EffectsInv'
    BY <2>1, <2>2, <2>3, <2>4, MovedEffects
  <2> QED BY <2>5, <2>6 DEF ToolInv
<1>6. CASE ClaimMade(i)
  <2>1. /\ At(turn, i) = "claiming" /\ holders' = {"turn"} /\ holders = {}
        /\ turn' = CallGoes(turn, i, "covering") /\ UNCHANGED <<history, covered, held>>
    BY <1>6 DEF ClaimMade, CallAt, At
  <2>2. /\ "covering" \in CallPlaces /\ Busy(turn, i) /\ turn.at = "round"
        /\ turn.calls[i].kind = "write" /\ ~Reads(turn, i)
    BY <1>3, <2>1, BusyInRound DEF CallPlaces, Busy
  <2>3. Moved(i, "covering")
    BY <1>2, <2>1, <2>2, GoesMoves
  <2>4. ToolTypeOK' /\ CallsInv(turn)' /\ StreamInv(turn)' /\ HistoryInv'
    BY <1>2, <2>1, <2>2, <2>3, MovedCalls, MovedCame
  <2>5. held \notin {"working", "finalizing", "failing"}
    BY <2>1 DEF ToolInv, EffectsInv
  <2>6. EffectsInv'
    BY <2>1, <2>2, <2>3, <2>5, AloneEffects
  <2> QED BY <2>4, <2>6 DEF ToolInv
<1>7. CASE ClaimMissed(i)
  <2>1. At(turn, i) = "claiming" /\ UNCHANGED <<history, holders, covered, held>>
        /\ turn' = CallGoes(turn, i, "settled")
    BY <1>7 DEF ClaimMissed, GivesUp, CallAt, NotFiles, At, SettleCall
  <2>2. "settled" \in CallPlaces /\ Busy(turn, i) /\ turn.at = "round"
    BY <2>1, BusyInRound DEF CallPlaces, Busy
  <2>3. Moved(i, "settled")
    BY <1>2, <2>1, <2>2, GoesMoves
  <2>4. ToolTypeOK' /\ CallsInv(turn)' /\ StreamInv(turn)' /\ HistoryInv'
    BY <1>2, <2>1, <2>2, <2>3, MovedCalls, MovedCame
  <2>5. EffectsInv'
    BY <2>1, <2>2, <2>3, MovedEffects
  <2> QED BY <2>4, <2>5 DEF ToolInv
<1>8. CASE Cover(i)
  <2>1. At(turn, i) = "covering" /\ UNCHANGED <<history, held>>
    BY <1>8 DEF Cover, CallAt, At
  <2>2. /\ "settled" \in CallPlaces /\ "running" \in CallPlaces /\ Busy(turn, i)
        /\ turn.at = "round" /\ turn.calls[i].kind = "write" /\ ~Reads(turn, i)
    BY <1>3, <2>1, BusyInRound DEF CallPlaces, Busy
  <2>3. "turn" \in holders
    BY <2>1, <2>2 DEF ToolInv, EffectsInv
  <2>4. CASE /\ covered' = covered \cup {"turn"} /\ holders' = holders
             /\ turn' = CallGoes(turn, i, "running")
    <3>1. Moved(i, "running")
      BY <1>2, <2>2, <2>4, GoesMoves
    <3>2. ToolTypeOK' /\ CallsInv(turn)' /\ StreamInv(turn)' /\ HistoryInv'
      BY <1>2, <2>1, <2>2, <3>1, MovedCalls, MovedCame
    <3>3. EffectsInv'
      BY <2>1, <2>2, <2>3, <2>4, <3>1, AloneEffects DEF ToolInv, EffectsInv
    <3> QED BY <3>2, <3>3 DEF ToolInv
  <2>5. CASE /\ turn' \in {SettleCall(i), Interrupted(SettleCall(i))}
             /\ FreeClaim /\ covered' = covered
    <3>1. Moved(i, "settled")
      BY <1>2, <2>2, <2>5, GoesMoves DEF SettleCall
    <3>2. ToolTypeOK' /\ CallsInv(turn)' /\ StreamInv(turn)' /\ HistoryInv'
      BY <1>2, <2>1, <2>2, <3>1, MovedCalls, MovedCame
    <3>3. EffectsInv'
      BY <2>1, <2>2, <2>5, <3>1, AloneEffects DEF ToolInv, EffectsInv, FreeClaim
    <3> QED BY <3>2, <3>3 DEF ToolInv
  <2> QED BY <1>8, <2>4, <2>5 DEF Cover
<1>9. CASE ToolEnds(i)
  <2>1. At(turn, i) = "running" /\ UNCHANGED <<history, holders, covered, held>>
    BY <1>9 DEF ToolEnds, CallAt, NotFiles, At
  <2>2. "settled" \in CallPlaces /\ "finalizing" \in CallPlaces /\ Busy(turn, i)
    BY <2>1 DEF CallPlaces, Busy
  <2>3. CASE turn.calls[i].kind = "write"
    <3>1. turn' = CallGoes(turn, i, "finalizing")
      BY <1>9, <2>3 DEF ToolEnds
    <3>2. Moved(i, "finalizing") /\ turn.at = "round" /\ ~Reads(turn, i)
      BY <1>2, <1>3, <2>2, <2>3, <3>1, GoesMoves, BusyInRound
    <3>3. ToolTypeOK' /\ CallsInv(turn)' /\ StreamInv(turn)' /\ HistoryInv'
      BY <1>2, <2>1, <2>2, <2>3, <3>2, MovedCalls, MovedCame
    <3>4. EffectsInv'
      BY <2>1, <2>2, <3>2, MovedEffects
    <3> QED BY <3>3, <3>4 DEF ToolInv
  <2>4. CASE turn.calls[i].kind # "write"
    <3>1. turn' = CallGoes(turn, i, "settled")
      BY <1>9, <2>4 DEF ToolEnds, SettleCall
    <3>2. Moved(i, "settled")
      BY <1>2, <2>2, <3>1, GoesMoves
    <3>3. ToolTypeOK' /\ CallsInv(turn)' /\ StreamInv(turn)' /\ HistoryInv'
      BY <1>2, <2>1, <2>2, <3>2, MovedCalls, MovedCame
    <3>4. EffectsInv'
      BY <2>1, <2>2, <3>2, MovedEffects
    <3> QED BY <3>3, <3>4 DEF ToolInv
  <2> QED BY <2>3, <2>4
<1>10. CASE ToolHolds(i)
  <2>1. /\ At(turn, i) = "running" /\ turn.calls[i].kind = "write" /\ KeepHeld
        /\ turn' = CallGoes(turn, i, "settled") /\ history' = history
    BY <1>10 DEF ToolHolds, CallAt, At, SettleCall
  <2>2. "settled" \in CallPlaces /\ Busy(turn, i) /\ turn.at = "round" /\ ~Reads(turn, i)
    BY <1>3, <2>1, BusyInRound DEF CallPlaces, Busy
  <2>3. Moved(i, "settled")
    BY <1>2, <2>1, <2>2, GoesMoves
  <2>4. holders = {"turn"} /\ holders' = {"held"} /\ "held" \in covered' /\ held' = "working"
    BY <2>1 DEF ToolInv, EffectsInv, KeepHeld
  <2>5. ToolTypeOK' /\ CallsInv(turn)' /\ StreamInv(turn)' /\ HistoryInv'
    BY <1>2, <2>1, <2>2, <2>3, <2>4, MovedCalls, MovedCame
  <2>6. EffectsInv'
    BY <2>2, <2>3, <2>4, AloneEffects
  <2> QED BY <2>5, <2>6 DEF ToolInv
<1>11. CASE Finalize(i)
  <2>1. /\ At(turn, i) = "finalizing" /\ covered' = covered \ {"turn"} /\ FreeClaim
        /\ turn' \in {SettleCall(i), Interrupted(SettleCall(i))} /\ UNCHANGED <<history, held>>
    BY <1>11 DEF Finalize, CallAt, At
  <2>2. "settled" \in CallPlaces /\ Busy(turn, i) /\ turn.at = "round" /\ ~Reads(turn, i)
    BY <1>3, <2>1, BusyInRound DEF CallPlaces, Busy
  <2>3. Moved(i, "settled")
    BY <1>2, <2>1, <2>2, GoesMoves DEF SettleCall
  <2>4. ToolTypeOK' /\ CallsInv(turn)' /\ StreamInv(turn)' /\ HistoryInv'
    BY <1>2, <2>1, <2>2, <2>3, MovedCalls, MovedCame
  <2>5. EffectsInv'
    BY <2>1, <2>2, <2>3, AloneEffects DEF ToolInv, EffectsInv, FreeClaim
  <2> QED BY <2>4, <2>5 DEF ToolInv
<1> QED BY <1>1, <1>4, <1>5, <1>6, <1>7, <1>8, <1>9, <1>10, <1>11

----------------------------------------------------------------------------
(* The steps of the turn.                                                   *)

(* The turn goes on without the calls of the response.                       *)
LEMMA TurnLeaves ==
  ASSUME ToolInv, turn' \in Turns, turn'.calls = <<>>, turn'.at # "round", NotFiles,
         Whole(history')
  PROVE  ToolInv'
<1>1. Called' = {}
  BY DEF Called
<1>2. CallsInv(turn') /\ StreamInv(turn')
  BY NoCalls DEF StreamInv
<1>3. EffectsInv'
  BY <1>1 DEF NotFiles, ToolInv, EffectsInv
<1>4. HistoryInv' /\ ToolTypeOK'
  BY <1>1 DEF NotFiles, ToolInv, ToolTypeOK, HistoryInv, Whole
<1> QED BY <1>2, <1>3, <1>4 DEF ToolInv

LEMMA HistoryIsWhole ==
  ASSUME ToolInv, turn.at # "round"
  PROVE  /\ Whole(history) /\ Whole(PushText(history))
         /\ Whole(SettleUnexecuted(PushCalls(history, Called)))
         /\ Whole(PushText(SettleUnexecuted(PushCalls(history, Called))))
         /\ Whole(SettleUnexecuted(PushAnswer(history)))
         /\ Called # {} => /\ Whole(PushResults(PushAnswer(history), Called))
                           /\ PushAnswer(history) = [open |-> Called, torn |-> FALSE]
<1>1. Whole(history) /\ turn \in Turns
  BY DEF ToolInv, ToolTypeOK, HistoryInv, Whole
<1> QED BY <1>1, PushedText, PushedCalls

\* What Goes, Ends and Throws lead to.
Leaves(t) == t \in Turns /\ t.calls = <<>> /\ t.at # "round"

LEMMA Leaving ==
  ASSUME NEW t \in Turns
  PROVE  /\ \A place \in TurnPlaces \ {"round"} : Leaves(Goes(t, place))
         /\ \A status \in {"completed", "failed", "interrupted"} : Leaves(Ends(t, status))
         /\ Leaves(Throws(t))
BY GoesIs, EndsIs, ThrowsIs DEF Leaves

LEMMA LeavesMore ==
  ASSUME NEW t, Leaves(t)
  PROVE  /\ \A n \in Nat : Leaves([t EXCEPT !.retries = n]) /\ Leaves([t EXCEPT !.continued = n])
         /\ \A b \in BOOLEAN : Leaves([t EXCEPT !.barrier = b]) /\ Leaves([t EXCEPT !.failed = b])
BY DEF Leaves, Turns

LEMMA NoTurnIs == Leaves(NoTurn) /\ Leaves([NoTurn EXCEPT !.at = "start"]) /\ NoTurn.at = "idle"
<1>1. PICK none \in Seq(CallRecords) : none = <<>>
  BY EmptySeq
<1> QED BY <1>1 DEF Leaves, Turns, TurnPlaces, NoTurn

LEMMA LeavingSteps ==
  ASSUME ToolInv, \/ TurnStarts \/ Prepared \/ LoopHead \/ Ask \/ Steer \/ StopHook \/ TurnEnds
                  \/ StreamAborted \/ StreamFails \/ EmptyAnswer
  PROVE  ToolInv'
<1>1. turn \in Turns /\ turn.retries \in Nat /\ turn.continued \in Nat
  BY DEF ToolInv, ToolTypeOK, Turns
<1>2. turn.at # "round"
  BY DEF TurnStarts, Prepared, LoopHead, Ask, Steer, StopHook, TurnEnds,
         StreamAborted, StreamFails, EmptyAnswer, StreamOver
<1>3. Leaves(Throws(turn)) /\ turn.retries + 1 \in Nat /\ turn.continued + 1 \in Nat
  BY <1>1, Leaving
<1>4. NotFiles
  BY DEF TurnStarts, Prepared, LoopHead, Ask, Steer, StopHook, TurnEnds,
         StreamAborted, StreamFails, EmptyAnswer
<1>5. Whole(history')
  <2>1. history' \in {history, PushText(history), SettleUnexecuted(PushCalls(history, Called)),
                      PushText(SettleUnexecuted(PushCalls(history, Called)))}
    BY DEF TurnStarts, Prepared, LoopHead, Ask, Steer, StopHook, TurnEnds,
           StreamAborted, StreamFails, EmptyAnswer
  <2> QED BY <1>2, <2>1, HistoryIsWhole
<1>6. Leaves(turn')
  <2>1. CASE TurnStarts \/ TurnEnds
    BY <2>1, NoTurnIs DEF TurnStarts, TurnEnds
  <2>2. CASE Prepared
    BY <1>1, <1>3, <2>2, Leaving DEF Prepared, TurnPlaces
  <2>3. CASE LoopHead
    BY <1>1, <1>3, <2>3, Leaving DEF LoopHead, TurnPlaces
  <2>4. CASE Ask
    <3>1. CASE turn' = Throws(turn) \/ turn' = Ends(turn, "completed")
      BY <1>1, <1>3, <3>1, Leaving
    <3>2. ASSUME NEW barrier \in {TRUE, Continuing \/ turn.rounds >= MaxToolRounds},
                 turn' = [Goes(turn, "stream") EXCEPT !.barrier = barrier]
          PROVE  Leaves(turn')
      <4>1. barrier \in BOOLEAN
        OBVIOUS
      <4>2. Leaves(Goes(turn, "stream"))
        BY <1>1, Leaving DEF TurnPlaces
      <4> QED BY <3>2, <4>1, <4>2, LeavesMore
    <3> QED BY <2>4, <3>1, <3>2 DEF Ask
  <2>5. CASE Steer
    BY <1>1, <1>3, <2>5, Leaving DEF Steer, TurnPlaces
  <2>6. CASE StopHook
    <3>1. Leaves(Goes(turn, "head")) /\ Goes(turn, "head").continued = turn.continued
      BY <1>1, Leaving DEF TurnPlaces, Goes, Turns
    <3>2. Leaves([Goes(turn, "head") EXCEPT !.continued = turn.continued + 1])
      BY <1>3, <3>1, LeavesMore
    <3>3. CASE turn' \in {Ends(turn, "completed"), Throws(turn)}
      BY <1>1, <1>3, <3>3, Leaving
    <3>4. CASE turn' = [Goes(turn, "head") EXCEPT !.continued = @ + 1]
      BY <3>1, <3>2, <3>4
    <3> QED BY <2>6, <3>3, <3>4 DEF StopHook
  <2>7. CASE StreamAborted
    BY <1>1, <2>7, Leaving DEF StreamAborted
  <2>8. Leaves(Goes(turn, "head")) /\ Goes(turn, "head").retries = turn.retries
    BY <1>1, Leaving DEF TurnPlaces, Goes, Turns
  <2>9. Leaves([Goes(turn, "head") EXCEPT !.retries = turn.retries + 1])
    BY <1>3, <2>8, LeavesMore
  <2>10. CASE EmptyAnswer
    BY <2>8, <2>9, <2>10 DEF EmptyAnswer
  <2>11. CASE StreamFails
    <3>1. CASE turn' \in {Ends(turn, "failed"), Throws(turn)}
      BY <1>1, <1>3, <3>1, Leaving
    <3>2. CASE turn' = [Goes(turn, "head") EXCEPT !.retries = @ + 1, !.failed = TRUE]
      <4> DEFINE again == [Goes(turn, "head") EXCEPT !.retries = turn.retries + 1]
      <4>1. turn' = [again EXCEPT !.failed = TRUE]
        BY <2>8, <3>2
      <4> HIDE DEF again
      <4> QED BY <2>9, <4>1, LeavesMore DEF again
    <3> QED BY <2>11, <3>1, <3>2 DEF StreamFails
  <2> QED BY <2>1, <2>2, <2>3, <2>4, <2>5, <2>6, <2>7, <2>10, <2>11
<1> QED BY <1>4, <1>5, <1>6, TurnLeaves DEF Leaves

LEMMA StreamDoneInv ==
  ASSUME ToolInv, NEW stop, StreamDone(stop)
  PROVE  ToolInv'
<1>1. turn \in Turns /\ turn.at = "stream" /\ NotFiles /\ turn.rounds \in Nat
  BY DEF StreamDone, StreamOver, ToolInv, ToolTypeOK, Turns
<1>2. \/ /\ Leaves(turn')
         /\ history' = SettleUnexecuted(PushAnswer(history))
            \/ (Called # {} /\ history' = PushResults(PushAnswer(history), Called))
      \/ /\ Called # {} /\ history' = PushAnswer(history)
         /\ turn' = [turn EXCEPT !.at = "round", !.rounds = @ + 1]
  <2> DEFINE answered == SettleUnexecuted(PushAnswer(history))
  <2>1. /\ Leaves(Ends(turn, "completed")) /\ Leaves(Goes(turn, "steer instead"))
        /\ Leaves(Goes(turn, "stop"))
    BY <1>1, Leaving DEF TurnPlaces
  <2>2. CASE steering > 0
    BY <2>1, <2>2 DEF StreamDone
  <2>3. CASE steering = 0
    BY <2>1, <2>3 DEF StreamDone
  <2>4. steering > 0 \/ steering = 0
    BY DEF StreamDone
  <2> QED BY <2>2, <2>3, <2>4
<1>3. CASE Leaves(turn') /\ Whole(history')
  BY <1>1, <1>3, TurnLeaves DEF Leaves
<1>4. CASE /\ Called # {} /\ history' = PushAnswer(history)
           /\ turn' = [turn EXCEPT !.at = "round", !.rounds = @ + 1]
  <2>1. /\ turn' \in Turns /\ turn'.at = "round" /\ turn'.calls = turn.calls
        /\ turn'.next = turn.next
    <3> DEFINE n == turn.rounds + 1
    <3>1. n \in Nat
      BY <1>1
    <3>2. turn' = [turn EXCEPT !.at = "round", !.rounds = n]
      BY <1>4
    <3> HIDE DEF n
    <3> QED BY <1>1, <3>1, <3>2 DEF Turns, TurnPlaces
  <2>2. Called' = Called /\ Called \subseteq Nat
    BY <1>1, <2>1, CalledIs DEF Called
  <2>3. history' = [open |-> Called, torn |-> FALSE]
    BY <1>1, <1>4, HistoryIsWhole
  <2>4. ToolTypeOK' /\ HistoryInv'
    BY <1>1, <2>1, <2>2, <2>3 DEF ToolInv, ToolTypeOK, HistoryInv, Histories, NotFiles
  <2>5. CallsInv(turn') /\ StreamInv(turn')
    BY <2>1 DEF ToolInv, CallsInv, StreamInv, Due, Busy, At, Reads, Free
  <2>6. EffectsInv'
    BY <1>1, <2>1, <2>2 DEF ToolInv, EffectsInv, NotFiles, At
  <2> QED BY <2>4, <2>5, <2>6 DEF ToolInv
<1> QED BY <1>1, <1>2, <1>3, <1>4, HistoryIsWhole

LEMMA ArrivalInv ==
  ASSUME ToolInv, NEW kind \in Kinds, ToolCallArrives(kind)
  PROVE  ToolInv'
<1>1. /\ turn \in Turns /\ turn.at = "stream" /\ NotFiles /\ history' = history
      /\ kind \in {"read", "write", "question", "other"} /\ turn.barrier \in BOOLEAN
      /\ \A i \in Called : At(turn, i) # "running"
  BY ToolShape, ZenonT(60) DEF ToolCallArrives, ToolInv, ToolTypeOK, Turns, At
<1>2. PICK place \in {"new", "running", "skipped"}, early \in BOOLEAN, barrier \in BOOLEAN :
        /\ turn' = [turn EXCEPT !.calls = Append(@, [kind |-> kind, at |-> place, early |-> early]),
                                !.barrier = barrier]
        /\ place = "new" \/ (early /\ kind = "read")
  <2>1. CASE \E doomed \in BOOLEAN :
               /\ kind = "read"
               /\ turn' = [turn EXCEPT !.calls = Append(@, [kind |-> kind, at |-> "skipped", early |-> TRUE]),
                                       !.barrier = doomed]
    BY <2>1
  <2>2. CASE turn' = [turn EXCEPT !.calls = Append(@, [kind |-> kind, at |-> "new", early |-> FALSE]),
                                 !.barrier = turn.barrier \/ steering = 0]
    <3> DEFINE b == turn.barrier \/ steering = 0
    <3>1. b \in BOOLEAN
      OBVIOUS
    <3> HIDE DEF b
    <3>2. turn' = [turn EXCEPT !.calls = Append(@, [kind |-> kind, at |-> "new", early |-> FALSE]),
                              !.barrier = b]
      BY <2>2, Zenon DEF b
    <3> QED BY <3>1, <3>2
  <2>3. CASE /\ kind = "read"
             /\ turn' = [turn EXCEPT !.calls = Append(@, [kind |-> kind, at |-> "running", early |-> TRUE]),
                                     !.barrier = FALSE]
    BY <2>3
  <2> QED BY <2>1, <2>2, <2>3 DEF ToolCallArrives
<1> DEFINE c == [kind |-> kind, at |-> place, early |-> early]
<1>3. /\ c \in CallRecords /\ c.at = place /\ c.kind = kind /\ c.early = early
  BY <1>1 DEF CallRecords, CallPlaces
<1>4. turn.calls \in Seq(CallRecords)
  BY <1>1 DEF Turns
<1> HIDE DEF c
<1>5. Append(turn.calls, c) \in Seq(CallRecords)
  BY <1>3, <1>4, AppendProperties
<1>6. /\ turn' \in Turns /\ turn'.at = "stream" /\ turn'.calls = Append(turn.calls, c)
      /\ turn'.next = turn.next
  <2>1. turn' = [turn EXCEPT !.calls = Append(turn.calls, c), !.barrier = barrier]
    BY <1>1, <1>2 DEF c, Turns
  <2> QED BY <1>1, <1>5, <2>1 DEF Turns
<1>7. \A i \in Called : ~Due(turn, i)
  BY <1>1 DEF ToolInv, StreamInv, Called
<1>8. CallsInv(turn')
  BY <1>1, <1>2, <1>3, <1>6, <1>7, CallArrives DEF ToolInv, Called
<1>9. /\ DOMAIN turn.calls = 1..Len(turn.calls) /\ Len(turn.calls) \in Nat
      /\ \A i \in Called' : i \in Called \/ i = Len(turn.calls) + 1
      /\ \A i \in Called : turn'.calls[i] = turn.calls[i]
      /\ turn'.calls[Len(turn.calls) + 1] = c
  BY <1>3, <1>4, <1>6, AppendProperties, LenProperties DEF Called
<1>10. ASSUME NEW i \in Called'
       PROVE  /\ Due(turn', i) => At(turn', i) = "running" /\ Reads(turn', i)
              /\ turn'.calls[i].kind = "write" =>
                   At(turn', i) \notin {"covering", "running", "finalizing"}
  <2>1. CASE i \in Called
    BY <1>7, <1>9, <2>1 DEF Due, Busy, At
  <2>2. CASE i = Len(turn.calls) + 1
    BY <1>2, <1>3, <1>9, <2>2 DEF Due, Busy, At, Reads
  <2> QED BY <1>9, <2>1, <2>2
<1>11. StreamInv(turn') /\ EffectsInv'
  BY <1>1, <1>10 DEF StreamInv, ToolInv, EffectsInv, NotFiles, Called
<1>12. ToolTypeOK' /\ HistoryInv'
  BY <1>1, <1>6 DEF ToolInv, ToolTypeOK, HistoryInv, NotFiles
<1> QED BY <1>8, <1>11, <1>12 DEF ToolInv

----------------------------------------------------------------------------
(* The round.                                                               *)

LEMMA RoundSteps ==
  ASSUME ToolInv, Resolve \/ DispatchCall \/ CutShort
  PROVE  ToolInv'
<1>1. /\ turn \in Turns /\ InRound /\ AtNext /\ NotFiles /\ history' = history
      /\ turn.at = "round" /\ turn.next \in Called /\ turn.next \in Nat
      /\ held \in {"none", "working", "finalizing", "failing", "unsaid"}
  BY DEF Resolve, DispatchCall, CutShort, AtNext, InRound, ToolInv, ToolTypeOK, Turns
<1>2. \A j \in Called : ~Busy(turn, j)
  BY <1>1 DEF AtNext, Working, Places, Busy, At
<1>3. UNCHANGED <<holders, covered, held>>
  BY <1>1 DEF NotFiles
<1>4. ASSUME turn' \in Turns, turn'.at = turn.at, turn'.calls = turn.calls, turn'.next >= turn.next,
             turn'.next = turn.next \/ (turn'.next = turn.next + 1 /\ turn.calls[turn.next].early)
      PROVE  ToolInv'
  <2>1. Called' = Called /\ Called \subseteq Nat
    BY <1>1, <1>4, CalledIs DEF Called
  <2>2. \A j \in Called : j >= turn'.next => j >= turn.next
    BY <1>1, <1>4, <2>1
  <2>3. CallsInv(turn')
    BY <1>4, <2>1, <2>2 DEF ToolInv, CallsInv, Called, Due, Busy, Free, At, Reads
  <2>4. StreamInv(turn') /\ EffectsInv'
    BY <1>1, <1>3, <1>4, <2>1 DEF StreamInv, ToolInv, EffectsInv, At
  <2>5. ToolTypeOK' /\ HistoryInv'
    BY <1>1, <1>3, <1>4, <2>1 DEF ToolInv, ToolTypeOK, HistoryInv
  <2> QED BY <2>3, <2>4, <2>5 DEF ToolInv
<1>5. ASSUME NEW place \in {"skipped", "batched", "asking"},
             turn' = Advance(CallGoes(turn, turn.next, place)), ~turn.calls[turn.next].early,
             place = "batched" => Reads(turn, turn.next),
             place = "asking" => ~Reads(turn, turn.next) /\ \A j \in Called : At(turn, j) # "batched"
      PROVE  ToolInv'
  <2>1. place \in CallPlaces
    BY DEF CallPlaces
  <2>2. Moved(turn.next, place) /\ turn'.next = turn.next + 1
    BY <1>1, <1>5, <2>1, GoesMoves
  <2>3. turn.next < turn'.next
    BY <1>1, <2>2
  <2>4. ToolTypeOK' /\ CallsInv(turn)' /\ StreamInv(turn)' /\ HistoryInv'
    BY <1>1, <1>2, <1>3, <1>5, <2>1, <2>2, <2>3, MovedCalls
  <2>5. EffectsInv'
    BY <1>1, <1>3, <2>1, <2>2, MovedEffects
  <2> QED BY <2>4, <2>5 DEF ToolInv
<1>6. CASE CutShort
  <2>1. /\ turn' \in Turns /\ turn'.at = turn.at /\ turn'.calls = turn.calls
        /\ turn'.next = turn.next
    BY <1>1, <1>6 DEF CutShort, Turns
  <2> QED BY <1>1, <1>4, <2>1
<1>7. CASE Resolve
  <2>1. CASE NextCall.early /\ turn' = Advance(turn)
    BY <1>1, <1>4, <2>1, AdvanceIs DEF NextCall
  <2>2. CASE ~NextCall.early /\ turn' = Advance(CallGoes(turn, turn.next, "skipped"))
    BY <1>5, <2>2 DEF NextCall
  <2>3. CASE /\ ~NextCall.early /\ NextCall.kind = "read"
             /\ turn' = Advance(CallGoes(turn, turn.next, "batched"))
    BY <1>5, <2>3 DEF NextCall, Reads
  <2> QED BY <1>7, <2>1, <2>2, <2>3 DEF Resolve
<1>8. CASE DispatchCall
  <2>1. ~NextCall.early /\ NextCall.kind # "read"
    BY <1>1, <1>8 DEF DispatchCall, FlushDue, AtNext
  <2>2. \A j \in Called : At(turn, j) # "batched"
    BY <1>8 DEF DispatchCall, BatchDone, Batched, Places, At
  <2>3. PICK place \in {"skipped", "asking"} : turn' = Advance(CallGoes(turn, turn.next, place))
    BY <1>8 DEF DispatchCall
  <2> QED BY <1>5, <2>1, <2>2, <2>3 DEF NextCall, Reads
<1> QED BY <1>6, <1>7, <1>8

LEMMA RoundEndsInv == ASSUME ToolInv, RoundEnds PROVE ToolInv'
<1>1. turn \in Turns /\ turn.at = "round" /\ NotFiles
  BY DEF RoundEnds, InRound, ToolInv, ToolTypeOK
<1>2. Leaves(turn')
  BY <1>1, Leaving DEF RoundEnds, TurnPlaces
<1>3. Whole(history')
  <2>1. history.torn = FALSE /\ history.open = Called
    BY <1>1 DEF ToolInv, ToolTypeOK, HistoryInv, Histories
  <2>2. (history.torn \/ history.open # Called) = FALSE
    BY <2>1
  <2>3. history' = [open |-> {}, torn |-> (history.torn \/ history.open # Called)]
    BY DEF RoundEnds, PushResults
  <2> QED BY <2>2, <2>3, WholeIs DEF Clean
<1> QED BY <1>1, <1>2, <1>3, TurnLeaves DEF Leaves

----------------------------------------------------------------------------
(* Held changes and the rest of the world.                                  *)

LEMMA TurnStays ==
  ASSUME ToolInv, turn' = turn \/ turn' = Interrupted(turn), history' = history
  PROVE  /\ turn' \in Turns /\ CallsInv(turn') /\ StreamInv(turn') /\ HistoryInv'
         /\ Called' = Called /\ turn'.calls = turn.calls
<1>1. /\ turn' \in Turns /\ turn'.at = turn.at /\ turn'.calls = turn.calls
      /\ turn'.next = turn.next
  BY InterruptedIs DEF ToolInv, ToolTypeOK
<1>2. CallsInv(turn') /\ StreamInv(turn')
  BY <1>1 DEF ToolInv, CallsInv, StreamInv, Due, Busy, Free, At, Reads
<1>3. Called' = Called
  BY <1>1 DEF Called
<1> QED BY <1>1, <1>2, <1>3 DEF ToolInv, HistoryInv

LEMMA WorldSteps ==
  ASSUME ToolInv, \/ HeldWorkEnds \/ HeldFinalized \/ HeldFailed
                  \/ InterruptLoop \/ SteeringArrives \/ SteeringWithdrawn \/ OtherClaims
  PROVE  ToolInv'
<1>1. (turn' = turn \/ turn' = Interrupted(turn)) /\ history' = history
  BY DEF HeldWorkEnds, HeldFinalized, HeldFailed, InterruptLoop, SteeringArrives,
         SteeringWithdrawn, OtherClaims
<1>2. held' \in {"none", "working", "finalizing", "failing", "unsaid"}
  BY DEF HeldWorkEnds, HeldFinalized, HeldFailed, InterruptLoop, SteeringArrives,
         SteeringWithdrawn, OtherClaims, NotFiles, ToolInv, ToolTypeOK
<1>3. ToolTypeOK'
  BY <1>1, <1>2, TurnStays DEF ToolInv, ToolTypeOK
<1>4. EffectsInv'
  <2>1. Called' = Called /\ turn'.calls = turn.calls
    BY <1>1, TurnStays
  <2>2. /\ \A x, y \in holders' : x = y
        /\ "turn" \in holders => "turn" \in holders'
        /\ "turn" \in covered => "turn" \in covered'
        /\ held' \in {"working", "finalizing", "failing"} => "held" \in holders'
        /\ held' \in {"working", "finalizing"} => "held" \in covered'
    <3>1. CASE HeldWorkEnds
      BY <3>1 DEF HeldWorkEnds, ToolInv, EffectsInv
    <3>2. CASE HeldFinalized
      BY <3>2 DEF HeldFinalized, ToolInv, EffectsInv
    <3>3. CASE HeldFailed
      BY <3>3 DEF HeldFailed, ToolInv, EffectsInv
    <3>4. CASE InterruptLoop \/ SteeringArrives \/ SteeringWithdrawn
      BY <3>4 DEF InterruptLoop, SteeringArrives, SteeringWithdrawn, NotFiles, ToolInv, EffectsInv
    <3>5. CASE OtherClaims
      BY <3>5 DEF OtherClaims, ToolInv, EffectsInv
    <3> QED BY <3>1, <3>2, <3>3, <3>4, <3>5
  <2> QED BY <2>1, <2>2 DEF ToolInv, EffectsInv, At
<1> QED BY <1>1, <1>3, <1>4, TurnStays DEF ToolInv

----------------------------------------------------------------------------
LEMMA ToolInitInv == ToolInit => ToolInv
<1> SUFFICES ASSUME ToolInit PROVE ToolInv
  OBVIOUS
<1>1. turn \in Turns /\ turn.calls = <<>> /\ turn.at = "idle"
  BY NoTurnIs DEF ToolInit, Leaves, NoTurn
<1>2. Called = {}
  BY <1>1 DEF Called
<1>3. ToolTypeOK /\ HistoryInv /\ EffectsInv
  BY <1>1, <1>2 DEF ToolInit, ToolTypeOK, Histories, HistoryInv, EffectsInv
<1> QED BY <1>1, <1>3, NoCalls DEF ToolInv, StreamInv

LEMMA ToolNextInv == ToolInv /\ [ToolNext]_toolVars => ToolInv'
<1> SUFFICES ASSUME ToolInv, [ToolNext]_toolVars PROVE ToolInv'
  OBVIOUS
<1>1. CASE UNCHANGED toolVars
  BY <1>1 DEF toolVars, ToolInv, ToolTypeOK, CallsInv, StreamInv, EffectsInv, HistoryInv, Called,
              Due, Busy, Free, At, Reads
<1>2. CASE TurnStep
  BY <1>2, LeavingSteps, StreamDoneInv, ArrivalInv, RoundSteps, RoundEndsInv, CallStepInv
     DEF TurnStep
<1> QED BY <1>1, <1>2, LeavingSteps, WorldSteps DEF ToolNext

(* However long the responses and whatever steering, interruption, failure,  *)
(* limit or early run comes between a call and its answer: each call is       *)
(* answered once, in the message after its own.                               *)
THEOREM EveryCallIsAnswered == ToolSpec => []HistoryAnswered
<1>1. ToolInv => HistoryAnswered
  BY DEF ToolInv, HistoryInv, HistoryAnswered
<1> QED BY <1>1, ToolInitInv, ToolNextInv, PTL DEF ToolSpec

(* While a call is at work the round has begun no later one that must follow *)
(* it, for any number of calls and any limit on reads that run together.      *)
THEOREM CallsKeepTheirOrder == ToolSpec => []RoundInOrder
<1>1. ToolInv => RoundInOrder
  BY DEF ToolInv, CallsInv, RoundInOrder, Working, Places, Overlap, Begun, Called,
         Busy, Due, Free, At, Reads
<1> QED BY <1>1, ToolInitInv, ToolNextInv, PTL DEF ToolSpec

(* Files change only under the claim of the workspace and an open            *)
(* checkpoint, whichever fails, outlives its call or is interrupted.          *)
THEOREM ChangesAreCovered == ToolSpec => []EffectsCovered
<1>1. ToolInv => EffectsCovered
  <2> SUFFICES ASSUME ToolInv PROVE EffectsCovered
    OBVIOUS
  <2>1. Cardinality(holders) <= 1
    <3>1. CASE holders = {}
      BY <3>1, FS_EmptySet
    <3>2. CASE holders # {}
      <4>1. PICK x : x \in holders
        BY <3>2
      <4>2. holders = {x}
        BY <4>1 DEF ToolInv, EffectsInv
      <4> QED BY <4>2, FS_Singleton
    <3> QED BY <3>1, <3>2
  <2> DEFINE ofTheTurn == {i \in Places({"running", "finalizing"}) : turn.calls[i].kind = "write"}
  <2>2. (IF held \in {"working", "finalizing"} THEN {"held"} ELSE {}) \subseteq holders \cap covered
    BY DEF ToolInv, EffectsInv
  <2>3. \A i \in ofTheTurn : "turn" \in holders \cap covered
    BY DEF ToolInv, EffectsInv, Places, At
  <2>4. {"turn" : i \in ofTheTurn} \subseteq holders \cap covered
    BY <2>3
  <2> QED BY <2>1, <2>2, <2>4 DEF EffectsCovered
<1> QED BY <1>1, ToolInitInv, ToolNextInv, PTL DEF ToolSpec

----------------------------------------------------------------------------
(* FileRestore: restoring the files of a checkpoint.                          *)

(* The parts of FTypeOK: the control of the process, what is fixed for the    *)
(* whole run or only history, and the files.                                  *)
Journals == [status : {Nothing, "prepared", "applying", "interrupted", "completed", "rolled-back"},
             direction : {"finish", "rollback"}, issue : {Nothing, "conflict", "refused"},
             applied : SUBSET Rows, undone : SUBSET Rows]
Runs == [at : OffRow \cup OnRow, row : 0..NumRows]
ControlOK ==
  /\ journal \in Journals
  /\ run \in Runs
  /\ run.at \in OnRow => run.row \in Rows
  /\ run.at \in {"cleanup", "recleanup"} => journal.status \in {"completed", "rolled-back"}

LEMMA SomeRuns ==
  /\ Idle \in Runs /\ Idle.at = "idle"
  /\ \A at \in OffRow \cup OnRow, row \in 0..NumRows :
       [at |-> at, row |-> row] \in Runs
  /\ \A r \in Runs, at \in OffRow \cup OnRow :
       /\ [r EXCEPT !.at = at] \in Runs
       /\ [r EXCEPT !.at = at].at = at /\ [r EXCEPT !.at = at].row = r.row
BY Shape DEF Idle, Runs, OffRow

LEMMA SomeJournals ==
  /\ NoJournal \in Journals /\ [NoJournal EXCEPT !.status = "prepared"] \in Journals
  /\ \A j \in Journals :
       /\ \A status \in {"applying", "completed", "rolled-back"} :
            /\ [j EXCEPT !.status = status] \in Journals
            /\ [j EXCEPT !.status = status].status = status
       /\ [j EXCEPT !.status = "applying", !.issue = Nothing] \in Journals
       /\ [j EXCEPT !.direction = "rollback"] \in Journals
BY DEF Journals, NoJournal

(* The process goes elsewhere, with a journal of some kind. *)
LEMMA GoneControl ==
  ASSUME NEW at \in OffRow \cup OnRow, NEW row \in 0..NumRows,
         run' = [at |-> at, row |-> row], journal' \in Journals,
         at \in OnRow => row \in Rows,
         at \in {"cleanup", "recleanup"} => journal'.status \in {"completed", "rolled-back"}
  PROVE  ControlOK'
<1>1. run' \in Runs /\ run'.at = at /\ run'.row = row
  BY SomeRuns
<1> QED BY <1>1 DEF ControlOK

LEMMA LeftControl ==
  ASSUME NEW at \in OffRow, run' = [at |-> at, row |-> 0], journal' \in Journals,
         at \in {"cleanup", "recleanup"} => journal'.status \in {"completed", "rolled-back"}
  PROVE  ControlOK'
<1>1. at \notin OnRow
  BY DEF OffRow, OnRow
<1> QED BY <1>1, GoneControl, Shape

LEMMA GotoControl ==
  ASSUME ControlOK, run.at \in OnRow, NEW at \in OnRow, Goto(at)
  PROVE  ControlOK'
BY SomeRuns DEF ControlOK, Goto, OnRow

LEMMA FailControl ==
  ASSUME ControlOK, NEW issue \in {"conflict", "refused"}, Fail(issue)
  PROVE  ControlOK'
<1>1. journal' \in Journals
  BY DEF ControlOK, Fail, Journals
<1> QED BY <1>1, SomeRuns DEF ControlOK, Fail, OnRow

LEMMA ThrowControl == ASSUME ControlOK, Throw PROVE ControlOK'
BY FailControl DEF Throw

LEMMA SameControl == ASSUME ControlOK, UNCHANGED <<run, journal>> PROVE ControlOK'
BY DEF ControlOK

LEMMA FirstIsRow == FirstRow \in Rows
BY Shape DEF FirstRow, Rows

LEMMA NextIsRow == ASSUME NEW i \in Rows PROVE NextRow(i) \in Rows \cup {0}
BY Shape DEF NextRow, Rows

LEMMA ControlHolds == FSpec => []ControlOK
<1>1. FInit => ControlOK
  BY SomeRuns, SomeJournals DEF FInit, ControlOK, OnRow
<1>2. ControlOK /\ [FNext]_fvars => ControlOK'
  <2> SUFFICES ASSUME ControlOK, [FNext]_fvars PROVE ControlOK'
    OBVIOUS
  <2> USE GotoControl, ThrowControl, SameControl
  <2>1. CASE Begin
    <3>1. journal' \in Journals
      BY <2>1, SomeJournals DEF Begin, ControlOK
    <3>2. FirstRow \in 0..NumRows /\ FirstRow \in Rows
      BY FirstIsRow, Shape DEF Rows
    <3> QED BY <2>1, <3>1, <3>2, GoneControl DEF Begin, OnRow
  <2>2. CASE RowBegins
    BY <2>2 DEF RowBegins, FinishRow, RollBackRow, OnRow
  <2>3. CASE Checks
    BY <2>3 DEF Checks, OnRow
  <2>4. CASE Vacate
    BY <2>4 DEF Vacate, OnRow
  <2>5. CASE Verify
    BY <2>5 DEF Verify, OnRow
  <2>6. CASE GiveBack
    BY <2>6 DEF GiveBack, LinkAsFile, OnRow
  <2>7. CASE GivenBack
    BY <2>7 DEF GivenBack, OnRow
  <2>8. CASE PutBack
    BY <2>8 DEF PutBack, LinkAsFile, OnRow
  <2>9. CASE UnlinkHold
    BY <2>9 DEF UnlinkHold, OnRow
  <2>10. CASE CreateStage
    BY <2>10 DEF CreateStage, OnRow
  <2>11. CASE FillStage
    BY <2>11 DEF FillStage, OnRow
  <2>12. CASE Install
    BY <2>12 DEF Install, LinkAsFile, OnRow
  <2>13. CASE UnlinkStage
    BY <2>13 DEF UnlinkStage, OnRow
  <2>14. CASE Confirm
    BY <2>14 DEF Confirm, OnRow
  <2>15. CASE Record
    <3>1. CASE Throw
      BY <3>1
    <3>2. CASE journal' \in Journals /\ run' = [run EXCEPT !.at = "next"]
      BY <2>15, <3>2, SomeRuns DEF Record, ControlOK, OnRow
    <3>3. run.row \in Rows /\ journal \in Journals
      BY <2>15 DEF Record, ControlOK, OnRow
    <3>4. /\ [journal EXCEPT !.applied = @ \cup {run.row}] \in Journals
          /\ [journal EXCEPT !.undone = @ \cup {run.row}] \in Journals
      BY <3>3 DEF Journals
    <3> QED BY <2>15, <3>1, <3>2, <3>4 DEF Record
  <2>16. CASE RowEnds
    <3>1. run.row \in Rows
      BY <2>16 DEF RowEnds, ControlOK, OnRow
    <3>2. CASE NextRow(run.row) # 0
      <4>1. NextRow(run.row) \in Rows /\ NextRow(run.row) \in 0..NumRows
        BY <3>1, <3>2, NextIsRow, Shape DEF Rows
      <4> QED BY <2>16, <3>2, <4>1, GoneControl DEF RowEnds, ControlOK, OnRow
    <3>3. CASE NextRow(run.row) = 0
      <4>1. journal' \in Journals /\ journal'.status \in {"completed", "rolled-back"}
        BY <2>16, <3>3, SomeJournals DEF RowEnds, ControlOK
      <4> QED BY <2>16, <3>3, <4>1, LeftControl DEF RowEnds, OffRow
    <3> QED BY <3>2, <3>3
  <2>17. CASE CleanName
    BY <2>17 DEF CleanName
  <2>18. CASE Close
    BY <2>18, SomeRuns, SomeJournals DEF Close, ControlOK, OnRow
  <2>19. CASE Refuse
    BY <2>19, FailControl DEF Refuse
  <2>20. CASE Prepare
    BY <2>20, SomeJournals, LeftControl DEF Prepare, OffRow
  <2>21. CASE Crash
    BY <2>21, SomeRuns DEF Crash, ControlOK, OnRow
  <2>22. CASE Others
    BY <2>22 DEF Others, Edit, PutByHand
  <2>23. ASSUME NEW action \in {"finish", "rollback"}, Recover(action) PROVE ControlOK'
    <3>1. journal' \in Journals
      <4>1. journal' = journal \/ journal' = [journal EXCEPT !.direction = "rollback"]
        BY <2>23 DEF Recover
      <4> QED BY <4>1, SomeJournals DEF ControlOK
    <3>2. CASE journal.status \in {"completed", "rolled-back"}
      BY <2>23, <3>1, <3>2, LeftControl DEF Recover, OffRow
    <3>3. CASE journal.status \notin {"completed", "rolled-back"}
      BY <2>23, <3>1, <3>3, LeftControl DEF Recover, OffRow
    <3> QED BY <3>2, <3>3
  <2>24. CASE UNCHANGED fvars
    BY <2>24 DEF fvars
  <2> QED
    BY <2>1, <2>2, <2>3, <2>4, <2>5, <2>6, <2>7, <2>8, <2>9, <2>10, <2>11, <2>12, <2>13, <2>14,
       <2>15, <2>16, <2>17, <2>18, <2>19, <2>20, <2>21, <2>22, <2>23, <2>24 DEF FNext, Process
<1> QED BY <1>1, <1>2, PTL DEF FSpec

----------------------------------------------------------------------------
(* What is fixed for the whole run, and the history. *)
RowsOK == expected \in [Rows -> {Nothing, "before"}] /\ target \in [Rows -> {Nothing, "after"}]
OthersOK == kept \subseteq written /\ written \subseteq Edits /\ touched \subseteq Rows
FixedOK == RowsOK /\ OthersOK /\ outcome \in {Nothing, "completed", "rolled-back"}

LEMMA ProcessFrame ==
  ASSUME Process \/ Prepare \/ Crash \/ \E action \in {"finish", "rollback"} : Recover(action)
  PROVE  UNCHANGED <<rows, others>>
BY DEF Process, Prepare, Crash, Recover, Begin, RowBegins, Checks, Vacate, Verify, GiveBack, GivenBack,
       PutBack, UnlinkHold, CreateStage, FillStage, Install, UnlinkStage, Confirm, Record,
       RowEnds, CleanName, Close, Refuse

LEMMA OutcomeFrame ==
  ASSUME FNext, ~Close
  PROVE  UNCHANGED outcome
BY DEF FNext, Process, Prepare, Crash, Recover, Begin, RowBegins, Checks, Vacate, Verify, GiveBack,
       GivenBack, PutBack, UnlinkHold, CreateStage, FillStage, Install, UnlinkStage, Confirm, Record,
       RowEnds, CleanName, Refuse, Others, Edit, PutByHand

LEMMA FixedHolds == FSpec => []FixedOK
<1>1. FInit => FixedOK
  BY DEF FInit, FixedOK, RowsOK, OthersOK
<1>2. ControlOK /\ FixedOK /\ [FNext]_fvars => FixedOK'
  <2> SUFFICES ASSUME ControlOK, FixedOK, [FNext]_fvars PROVE FixedOK'
    OBVIOUS
  <2>1. CASE UNCHANGED fvars
    BY <2>1 DEF fvars, rows, others, FixedOK, RowsOK, OthersOK
  <2>2. CASE FNext
    <3>1. outcome' \in {Nothing, "completed", "rolled-back"}
      BY <2>2, OutcomeFrame DEF Close, ControlOK, FixedOK
    <3>2. CASE Others
      <4>1. PICK i \in Rows : \/ \E content \in Edits, inPlace \in BOOLEAN : Edit(i, content, inPlace)
                            \/ \E content \in ByHand : PutByHand(i, content)
        BY <3>2 DEF Others
      <4>2. RowsOK'
        BY <4>1 DEF Edit, PutByHand, rows, FixedOK, RowsOK
      <4>3. OthersOK'
        BY <4>1 DEF Edit, PutByHand, FixedOK, OthersOK
      <4> QED BY <3>1, <4>2, <4>3 DEF FixedOK
    <3>3. CASE UNCHANGED <<rows, others>>
      BY <3>1, <3>3 DEF rows, others, FixedOK, RowsOK, OthersOK
    <3> QED BY <2>2, <3>2, <3>3, ProcessFrame DEF FNext
  <2> QED BY <2>1, <2>2
<1> QED BY <1>1, <1>2, ControlHolds, PTL DEF FSpec

----------------------------------------------------------------------------
(* The files, and what each operation of the directory makes of them. *)
Private == Names \ {"file"}
Directories == [Rows -> [Names -> Contents]]
FilesOK ==
  /\ dir \in Directories
  /\ twin \in [Rows -> {Nothing} \cup Private]
  /\ \A i \in Rows : twin[i] # Nothing => /\ dir[i][twin[i]] = dir[i]["file"]
                                          /\ dir[i]["file"] # Nothing

LEMMA NamesOK ==
  /\ "file" \in Names /\ "file" \notin Private /\ Nothing \notin Private
  /\ "hold" \in Private /\ Hold \in Private /\ Stage \in Private /\ Hold # Stage
  /\ \A name \in Private : name \in Names /\ name # "file"
BY DEF Names, Private, Hold, Stage, Nothing

LEMMA ContentsOK ==
  /\ Nothing \in Contents /\ "partial" \in Contents /\ Nothing # "partial"
  /\ Edits \subseteq Contents /\ ByHand \subseteq Contents
  /\ Nothing \notin Edits /\ "partial" \notin Edits /\ "before" \notin Edits /\ "after" \notin Edits
  /\ \A x \in ByHand : x \notin Edits
BY HandImages, OwnEdits DEF Contents, Images, Nothing

LEMMA ImagesOK ==
  ASSUME FixedOK, NEW i \in Rows
  PROVE  /\ To(i) \in Contents /\ To(i) \notin Edits /\ To(i) # "partial"
         /\ From(i) \in Contents /\ From(i) \notin Edits
         /\ expected[i] \notin Edits /\ target[i] \notin Edits
<1>1. expected[i] \in {Nothing, "before"} /\ target[i] \in {Nothing, "after"}
  BY DEF FixedOK, RowsOK
<1> QED BY <1>1, ContentsOK DEF To, From, Contents, Images, Nothing

(* What each name holds after an operation. *)
LEMMA PutIs ==
  ASSUME dir \in Directories, NEW i \in Rows, NEW name \in Names, NEW content \in Contents,
         Put(i, name, content)
  PROVE  /\ dir' \in Directories
         /\ \A j \in Rows, n \in Names :
              dir'[j][n] = IF j = i /\ n = name THEN content ELSE dir[j][n]
BY DEF Put, Directories

LEMMA VacateIs ==
  ASSUME dir \in Directories, NEW i \in Rows, NEW name \in Private,
         dir' = [dir EXCEPT ![i] = [@ EXCEPT ![name] = dir[i]["file"], !["file"] = Nothing]]
  PROVE  /\ dir' \in Directories
         /\ \A j \in Rows, n \in Names :
              dir'[j][n] = IF j = i /\ n = "file" THEN Nothing
                           ELSE IF j = i /\ n = name THEN dir[i]["file"] ELSE dir[j][n]
BY NamesOK, ContentsOK DEF Directories

LEMMA EditIs ==
  ASSUME FilesOK, NEW i \in Rows, NEW content \in Edits, NEW inPlace \in BOOLEAN,
         Edit(i, content, inPlace)
  PROVE  /\ dir' \in Directories
         /\ \A j \in Rows, n \in Names :
              dir'[j][n] = IF j = i /\ (n = "file" \/ (inPlace /\ n = twin[i])) THEN content
                           ELSE dir[j][n]
         /\ \A j \in Rows : twin'[j] = IF j = i /\ ~inPlace THEN Nothing ELSE twin[j]
         /\ twin' \in [Rows -> {Nothing} \cup Private]
BY ContentsOK DEF Edit, FilesOK, Directories

LEMMA PutByHandIs ==
  ASSUME FilesOK, NEW i \in Rows, NEW content \in ByHand, PutByHand(i, content)
  PROVE  /\ dir' \in Directories
         /\ \A j \in Rows, n \in Names :
              dir'[j][n] = IF j = i /\ n = "file" THEN content ELSE dir[j][n]
         /\ \A j \in Rows : twin'[j] = IF j = i THEN Nothing ELSE twin[j]
         /\ twin' \in [Rows -> {Nothing} \cup Private]
BY ContentsOK, NamesOK, PutIs DEF PutByHand, FilesOK

LEMMA UnlinkIs ==
  ASSUME FilesOK, NEW i \in Rows, NEW name \in Private, Unlink(i, name)
  PROVE  /\ dir' \in Directories
         /\ \A j \in Rows, n \in Names :
              dir'[j][n] = IF j = i /\ n = name THEN Nothing ELSE dir[j][n]
         /\ \A j \in Rows : twin'[j] = IF j = i /\ twin[i] = name THEN Nothing ELSE twin[j]
         /\ twin' \in [Rows -> {Nothing} \cup Private]
BY ContentsOK, NamesOK, PutIs DEF Unlink, FilesOK

LEMMA LinkIs ==
  ASSUME FilesOK, NEW i \in Rows, NEW name \in Private,
         Put(i, "file", dir[i][name]), twin' = [twin EXCEPT ![i] = name]
  PROVE  /\ dir' \in Directories
         /\ \A j \in Rows, n \in Names :
              dir'[j][n] = IF j = i /\ n = "file" THEN dir[i][name] ELSE dir[j][n]
         /\ \A j \in Rows : twin'[j] = IF j = i THEN name ELSE twin[j]
         /\ twin' \in [Rows -> {Nothing} \cup Private]
<1>1. dir[i][name] \in Contents
  BY NamesOK DEF FilesOK, Directories
<1> QED BY <1>1, NamesOK, PutIs DEF FilesOK

----------------------------------------------------------------------------
(* What the process knows of its row although others may edit the file at any *)
(* time: it vacates the file into a free hold, fills only a stage of its own, *)
(* which is no name of the file, and links only names that exist.             *)
Known ==
  LET i == run.row
  IN /\ run.at = "vacate" => dir[i][Hold] = Nothing /\ twin[i] = Nothing
     /\ run.at \in {"verify", "give back"} => dir[i][Hold] # Nothing
     /\ run.at = "put back" => dir[i]["hold"] # Nothing
     /\ run.at \in {"stage", "fill"} => To(i) # Nothing
     /\ run.at = "fill" => dir[i][Stage] = "partial" /\ twin[i] # Stage
     /\ run.at = "install" => dir[i][Stage] # Nothing
Knowing == {"vacate", "verify", "give back", "put back", "stage", "fill", "install"}

LEMMA UnknowingIs == ASSUME run'.at \notin Knowing PROVE Known'
BY DEF Known, Knowing

LEMMA GotoIs ==
  ASSUME ControlOK, NEW at \in OnRow, Goto(at)
  PROVE  /\ run'.at = at /\ run'.row = run.row /\ journal' = journal
         /\ Hold' = Hold /\ Stage' = Stage
BY SomeRuns DEF Goto, ControlOK, Hold, Stage, Undoing

LEMMA ThrowIs == ASSUME Throw PROVE run'.at = "idle" /\ Known'
BY SomeRuns, UnknowingIs DEF Throw, Fail, Knowing

LEMMA GoneIs == ASSUME ControlOK, NEW at \in OnRow \ Knowing, Goto(at) PROVE Known'
BY GotoIs, UnknowingIs

LEMMA SameFiles == ASSUME FilesOK, UNCHANGED files PROVE FilesOK'
BY DEF FilesOK, files

LEMMA FilesInit == FInit => FilesOK
<1> SUFFICES ASSUME FInit PROVE FilesOK
  OBVIOUS
<1>1. \A i \in Rows : expected[i] \in Contents
  BY DEF FInit, Contents, Images
<1>2. dir \in Directories
  BY <1>1, ContentsOK DEF FInit, Directories
<1> QED BY <1>2 DEF FInit, FilesOK

LEMMA LinkStep ==
  ASSUME ControlOK, FilesOK, run.row \in Rows, NEW name \in Private, NEW then \in OnRow \ Knowing,
         dir[run.row][name] # Nothing, LinkAsFile(name, then)
  PROVE  FilesOK' /\ Known'
<1>1. CASE Throw /\ UNCHANGED files
  BY <1>1, ThrowIs, SameFiles
<1>2. CASE ~(Throw /\ UNCHANGED files)
  <2>1. /\ Put(run.row, "file", dir[run.row][name])
        /\ twin' = [twin EXCEPT ![run.row] = name]
        /\ Goto(then)
    BY <1>2 DEF LinkAsFile
  <2>2. FilesOK'
    <3>1. /\ dir' \in Directories
          /\ \A j \in Rows, n \in Names :
               dir'[j][n] = IF j = run.row /\ n = "file" THEN dir[run.row][name] ELSE dir[j][n]
          /\ \A j \in Rows : twin'[j] = IF j = run.row THEN name ELSE twin[j]
          /\ twin' \in [Rows -> {Nothing} \cup Private]
      BY <2>1, LinkIs
    <3> QED BY <3>1, NamesOK DEF FilesOK
  <2> QED BY <2>1, <2>2, GoneIs
<1> QED BY <1>1, <1>2

LEMMA UnlinkStep ==
  ASSUME FilesOK, NEW i \in Rows, NEW name \in Private, Unlink(i, name)
  PROVE  FilesOK'
BY UnlinkIs, NamesOK DEF FilesOK

LEMMA FilesHold == FSpec => [](FilesOK /\ Known)
<1>1. FInit => FilesOK /\ Known
  BY FilesInit DEF FInit, Known, Idle
<1>2. ControlOK /\ FixedOK /\ FilesOK /\ Known /\ [FNext]_fvars => (FilesOK /\ Known)'
  <2> SUFFICES ASSUME ControlOK, FixedOK, FilesOK, Known, [FNext]_fvars PROVE FilesOK' /\ Known'
    OBVIOUS
  <2>1. CASE Begin
    BY <2>1, SameFiles, UnknowingIs DEF Begin, Knowing
  <2>2. CASE RowBegins
    <3>1. run.row \in Rows /\ FilesOK'
      BY <2>2, SameFiles DEF RowBegins, ControlOK, OnRow
    <3>2. CASE Goto("put back") /\ dir[run.row]["hold"] # Nothing /\ UNCHANGED files
      <4>1. run'.at = "put back" /\ dir'[run'.row]["hold"] # Nothing
        BY <3>2, GotoIs DEF OnRow, files
      <4> QED BY <3>1, <4>1 DEF Known
    <3>3. CASE Throw
      BY <3>1, <3>3, ThrowIs
    <3>4. ASSUME NEW at \in {"checks", "record"}, Goto(at) PROVE Known'
      BY <3>4, GoneIs DEF OnRow, Knowing
    <3> QED BY <2>2, <3>1, <3>2, <3>3, <3>4 DEF RowBegins, FinishRow, RollBackRow
  <2>3. CASE Checks
    <3> DEFINE i == run.row
    <3>1. i \in Rows /\ FilesOK' /\ UNCHANGED <<files, rows>>
      BY <2>3, SameFiles DEF Checks, ControlOK, OnRow
    <3>3. CASE Goto("vacate") /\ dir[i][Hold] = Nothing /\ dir[i]["file"] # Nothing /\ Safe(i, {"file", Hold})
      <4>1. run'.at = "vacate" /\ run'.row = i /\ Hold' = Hold /\ dir' = dir /\ twin' = twin
        BY <3>1, <3>3, GotoIs DEF OnRow, files
      <4>2. twin[i] = Nothing
        BY <3>3 DEF Safe, Unsafe
      <4> QED BY <3>1, <3>3, <4>1, <4>2 DEF Known
    <3>4. CASE Goto("stage") /\ To(i) # Nothing
      <4>1. run'.at = "stage" /\ run'.row = i /\ To(i)' = To(i)
        BY <3>1, <3>4, GotoIs DEF OnRow, rows, To, Undoing
      <4> QED BY <3>1, <3>4, <4>1 DEF Known
    <3>5. CASE Throw
      BY <3>1, <3>5, ThrowIs
    <3>6. CASE Goto("record")
      BY <3>1, <3>6, GoneIs DEF OnRow, Knowing
    <3> QED BY <2>3, <3>3, <3>4, <3>5, <3>6 DEF Checks
  <2>4. CASE Vacate
    <3> DEFINE i == run.row
    <3>1. i \in Rows /\ UNCHANGED twin /\ dir[i][Hold] = Nothing /\ twin[i] = Nothing
      BY <2>4 DEF Vacate, Known, ControlOK, OnRow
    <3>2. CASE Throw /\ UNCHANGED dir
      BY <3>1, <3>2, ThrowIs, SameFiles DEF files
    <3>3. CASE ~(Throw /\ UNCHANGED dir)
      <4>1. /\ dir' = [dir EXCEPT ![i] = [@ EXCEPT ![Hold] = dir[i]["file"], !["file"] = Nothing]]
            /\ dir[i]["file"] # Nothing /\ Goto("verify")
        BY <2>4, <3>3 DEF Vacate
      <4>2. /\ dir' \in Directories
            /\ \A j \in Rows, n \in Names :
                 dir'[j][n] = IF j = i /\ n = "file" THEN Nothing
                              ELSE IF j = i /\ n = Hold THEN dir[i]["file"] ELSE dir[j][n]
        BY <3>1, <4>1, VacateIs, NamesOK, ZenonT(60) DEF FilesOK
      <4>3. FilesOK'
        BY <3>1, <4>2, NamesOK DEF FilesOK
      <4>4. run'.at = "verify" /\ run'.row = i /\ Hold' = Hold
        BY <4>1, GotoIs DEF OnRow
      <4>5. run'.at = "verify" /\ dir'[run'.row][Hold'] # Nothing
        BY <3>1, <4>1, <4>2, <4>4, NamesOK
      <4> QED BY <4>3, <4>5 DEF Known
    <3> QED BY <3>2, <3>3
  <2>5. CASE Verify
    <3> DEFINE i == run.row
    <3>1. i \in Rows /\ FilesOK' /\ UNCHANGED <<files, rows>> /\ dir[i][Hold] # Nothing
      BY <2>5, SameFiles DEF Verify, Known, ControlOK, OnRow
    <3>2. CASE Goto("give back")
      <4>1. run'.at = "give back" /\ run'.row = i /\ Hold' = Hold /\ dir' = dir
        BY <3>1, <3>2, GotoIs DEF OnRow, files
      <4> QED BY <3>1, <4>1 DEF Known
    <3>3. CASE Goto("stage") /\ To(i) # Nothing
      <4>1. run'.at = "stage" /\ run'.row = i /\ To(i)' = To(i)
        BY <3>1, <3>3, GotoIs DEF OnRow, rows, To, Undoing
      <4> QED BY <3>1, <3>3, <4>1 DEF Known
    <3>4. CASE Goto("confirm")
      BY <3>1, <3>4, GoneIs DEF OnRow, Knowing
    <3> QED BY <2>5, <3>2, <3>3, <3>4 DEF Verify
  <2>6. CASE GiveBack
    <3>1. run.row \in Rows /\ dir[run.row][Hold] # Nothing
      BY <2>6 DEF GiveBack, Known, ControlOK, OnRow
    <3> QED BY <2>6, <3>1, LinkStep, NamesOK DEF GiveBack, OnRow, Knowing
  <2>7. CASE GivenBack
    BY <2>7, UnlinkStep, ThrowIs, NamesOK DEF GivenBack, ControlOK, OnRow
  <2>8. CASE PutBack
    <3>1. run.row \in Rows /\ dir[run.row]["hold"] # Nothing
      BY <2>8 DEF PutBack, Known, ControlOK, OnRow
    <3> QED BY <2>8, <3>1, LinkStep, NamesOK DEF PutBack, OnRow, Knowing
  <2>9. CASE UnlinkHold
    BY <2>9, UnlinkStep, GoneIs, NamesOK DEF UnlinkHold, ControlOK, OnRow, Knowing
  <2>10. CASE CreateStage
    <3> DEFINE i == run.row
    <3>1. /\ i \in Rows /\ UNCHANGED <<twin, rows>> /\ To(i) # Nothing
          /\ Stage \in Private /\ Stage \in Names
      BY <2>10, NamesOK DEF CreateStage, Known, ControlOK, OnRow
    <3>2. CASE Put(i, Stage, "partial") /\ Goto("fill") /\ dir[i][Stage] = Nothing
      <4>1. /\ dir' \in Directories
            /\ \A j \in Rows, n \in Names :
                 dir'[j][n] = IF j = i /\ n = Stage THEN "partial" ELSE dir[j][n]
        BY <3>1, <3>2, PutIs, ContentsOK DEF FilesOK
      <4>2. twin[i] # Stage
        BY <3>1, <3>2, NamesOK DEF FilesOK
      <4>3. FilesOK'
        BY <3>1, <4>1, <4>2, NamesOK DEF FilesOK
      <4>4. /\ run'.at = "fill" /\ run'.row = i /\ Stage' = Stage /\ To(i)' = To(i)
        BY <3>1, <3>2, GotoIs DEF OnRow, To, Undoing, rows
      <4> QED BY <3>1, <4>1, <4>2, <4>3, <4>4 DEF Known
    <3>3. CASE UNCHANGED dir /\ Goto("install") /\ dir[i][Stage] # Nothing
      <4>1. run'.at = "install" /\ run'.row = i /\ Stage' = Stage /\ dir' = dir
        BY <3>3, GotoIs DEF OnRow
      <4> QED BY <3>1, <3>3, <4>1, SameFiles DEF Known, files
    <3>4. CASE UNCHANGED dir /\ Throw
      BY <3>1, <3>4, ThrowIs, SameFiles DEF files
    <3> QED BY <2>10, <3>2, <3>3, <3>4 DEF CreateStage
  <2>11. CASE FillStage
    <3> DEFINE i == run.row
    <3>1. /\ i \in Rows /\ UNCHANGED twin /\ To(i) # Nothing /\ twin[i] # Stage
          /\ Stage \in Private /\ Stage \in Names /\ Put(i, Stage, To(i)) /\ Goto("install")
      BY <2>11, NamesOK DEF FillStage, Known, ControlOK, OnRow
    <3>2. /\ dir' \in Directories
          /\ \A j \in Rows, n \in Names :
               dir'[j][n] = IF j = i /\ n = Stage THEN To(i) ELSE dir[j][n]
      BY <3>1, PutIs, ImagesOK DEF FilesOK
    <3>3. FilesOK'
      BY <3>1, <3>2, NamesOK DEF FilesOK
    <3>4. run'.at = "install" /\ run'.row = i /\ Stage' = Stage
      BY <3>1, GotoIs DEF OnRow
    <3> QED BY <3>1, <3>2, <3>3, <3>4 DEF Known
  <2>12. CASE Install
    <3>1. run.row \in Rows /\ dir[run.row][Stage] # Nothing
      BY <2>12 DEF Install, Known, ControlOK, OnRow
    <3> QED BY <2>12, <3>1, LinkStep, NamesOK DEF Install, OnRow, Knowing
  <2>13. CASE UnlinkStage
    BY <2>13, UnlinkStep, GoneIs, NamesOK DEF UnlinkStage, ControlOK, OnRow, Knowing
  <2>14. CASE Confirm
    BY <2>14, SameFiles, GoneIs, ThrowIs DEF Confirm, OnRow, Knowing
  <2>15. CASE Record
    <3>1. CASE Throw
      BY <2>15, <3>1, SameFiles, ThrowIs DEF Record
    <3>2. CASE run' = [run EXCEPT !.at = "next"]
      <4>1. run'.at \notin Knowing
        BY <3>2 DEF ControlOK, Runs, Knowing
      <4> QED BY <2>15, <4>1, SameFiles, UnknowingIs DEF Record
    <3> QED BY <2>15, <3>1, <3>2 DEF Record
  <2>16. CASE RowEnds
    <3>1. \/ run' = [at |-> "row", row |-> NextRow(run.row)]
          \/ run' = [at |-> "cleanup", row |-> 0]
      BY <2>16 DEF RowEnds
    <3>2. run'.at = "row" \/ run'.at = "cleanup"
      <4>1. CASE run' = [at |-> "row", row |-> NextRow(run.row)]
        BY <4>1
      <4>2. CASE run' = [at |-> "cleanup", row |-> 0]
        BY <4>2
      <4> QED BY <3>1, <4>1, <4>2
    <3>3. run'.at \notin Knowing
      BY <3>2 DEF Knowing
    <3> QED BY <2>16, <3>3, SameFiles, UnknowingIs DEF RowEnds
  <2>17. CASE CleanName
    <3>1. CASE Throw /\ UNCHANGED files
      BY <3>1, SameFiles, ThrowIs
    <3>2. CASE ~(Throw /\ UNCHANGED files)
      <4>1. PICK x \in Leftovers : Unlink(x[1], x[2]) /\ UNCHANGED <<run, journal>>
        BY <2>17, <3>2 DEF CleanName
      <4>2. x[1] \in Rows /\ x[2] \in Private
        BY DEF Leftovers, Private
      <4>3. run'.at \notin Knowing
        BY <2>17, <4>1 DEF CleanName, Knowing
      <4> QED BY <4>1, <4>2, <4>3, UnlinkStep, UnknowingIs
    <3> QED BY <3>1, <3>2
  <2>18. CASE Close
    BY <2>18, SameFiles, UnknowingIs, SomeRuns DEF Close, Knowing
  <2>19. CASE Refuse
    BY <2>19, SameFiles, UnknowingIs, SomeRuns DEF Refuse, Fail, Knowing
  <2>20. CASE Prepare
    BY <2>20, SameFiles, UnknowingIs DEF Prepare, Knowing
  <2>21. CASE Crash
    BY <2>21, SameFiles, UnknowingIs, SomeRuns DEF Crash, Knowing
  <2>22. CASE Others
    <3>1. PICK i \in Rows : \/ \E content \in Edits, inPlace \in BOOLEAN : Edit(i, content, inPlace)
                          \/ \E content \in ByHand : PutByHand(i, content)
      BY <2>22 DEF Others
    <3> DEFINE r == run.row
    <3>2. run.at \in Knowing => r \in Rows
      BY DEF ControlOK, Knowing, OnRow
    <3>3. /\ run' = run /\ Hold' = Hold /\ Stage' = Stage /\ To(r)' = To(r)
          /\ Hold \in Private /\ Stage \in Private /\ "hold" \in Private
      BY <3>1, NamesOK DEF Edit, PutByHand, Hold, Stage, To, Undoing, rows
    <3>4. ASSUME NEW content \in Edits, NEW inPlace \in BOOLEAN, Edit(i, content, inPlace)
          PROVE  FilesOK' /\ Known'
      <4>1. content # Nothing
        BY ContentsOK
      <4>2. /\ dir' \in Directories
            /\ \A j \in Rows, n \in Names :
                 dir'[j][n] = IF j = i /\ (n = "file" \/ (inPlace /\ n = twin[i])) THEN content
                              ELSE dir[j][n]
            /\ \A j \in Rows : twin'[j] = IF j = i /\ ~inPlace THEN Nothing ELSE twin[j]
            /\ twin' \in [Rows -> {Nothing} \cup Private]
        BY <3>4, EditIs
      <4>3. FilesOK'
        BY <4>1, <4>2, NamesOK DEF FilesOK
      <4>4. ASSUME r \in Rows PROVE twin'[r] \in {twin[r], Nothing}
        BY <4>2, <4>4
      <4>5. ASSUME r \in Rows, NEW n \in Private
            PROVE  dir'[r][n] = dir[r][n] \/ (twin[r] = n /\ dir'[r][n] # Nothing)
        BY <4>1, <4>2, <4>5, NamesOK
      <4>6. Known'
        BY <3>2, <3>3, <4>4, <4>5, NamesOK DEF Known, Knowing
      <4> QED BY <4>3, <4>6
    <3>5. ASSUME NEW content \in ByHand, PutByHand(i, content)
          PROVE  FilesOK' /\ Known'
      <4>1. /\ dir' \in Directories
            /\ \A j \in Rows, n \in Names :
                 dir'[j][n] = IF j = i /\ n = "file" THEN content ELSE dir[j][n]
            /\ \A j \in Rows : twin'[j] = IF j = i THEN Nothing ELSE twin[j]
            /\ twin' \in [Rows -> {Nothing} \cup Private]
        BY <3>5, PutByHandIs
      <4>2. FilesOK'
        BY <4>1, NamesOK DEF FilesOK
      <4>3. r \in Rows => /\ twin'[r] \in {twin[r], Nothing}
                         /\ \A n \in Private : dir'[r][n] = dir[r][n]
        BY <4>1, NamesOK
      <4>4. Known'
        BY <3>2, <3>3, <4>3, NamesOK DEF Known, Knowing
      <4> QED BY <4>2, <4>4
    <3> QED BY <3>1, <3>4, <3>5
  <2>23. ASSUME NEW action \in {"finish", "rollback"}, Recover(action) PROVE FilesOK' /\ Known'
    <3>1. run' = [at |-> "recleanup", row |-> 0] \/ run' = [at |-> "begin", row |-> 0]
      BY <2>23 DEF Recover
    <3>2. run'.at = "recleanup" \/ run'.at = "begin"
      <4>1. CASE run' = [at |-> "recleanup", row |-> 0]
        BY <4>1
      <4>2. CASE run' = [at |-> "begin", row |-> 0]
        BY <4>2
      <4> QED BY <3>1, <4>1, <4>2
    <3>3. run'.at \notin Knowing
      BY <3>2 DEF Knowing
    <3> QED BY <2>23, <3>3, SameFiles, UnknowingIs DEF Recover
  <2>24. CASE UNCHANGED fvars
    <3>1. FilesOK'
      BY <2>24, SameFiles DEF fvars, files
    <3>2. Known'
      BY <2>24 DEF fvars, files, rows, Known, Hold, Stage, To, Undoing
    <3> QED BY <3>1, <3>2
  <2> QED
    BY <2>1, <2>2, <2>3, <2>4, <2>5, <2>6, <2>7, <2>8, <2>9, <2>10, <2>11, <2>12, <2>13, <2>14,
       <2>15, <2>16, <2>17, <2>18, <2>19, <2>20, <2>21, <2>22, <2>23, <2>24 DEF FNext, Process
<1> QED BY <1>1, <1>2, ControlHolds, FixedHolds, PTL DEF FSpec

(* Every variable has its type, and a file shares its data with at most one    *)
(* private name of its row, whatever the restore, its recoveries, crashes and  *)
(* other programs do: link and unlink never leave a name without its file.     *)
THEOREM FilesTyped == FSpec => []FTypeOK
<1>1. ControlOK /\ FixedOK /\ FilesOK => FTypeOK
  BY DEF ControlOK, FixedOK, FilesOK, FTypeOK, Journals, Runs, RowsOK, OthersOK, Directories, Private
<1> QED BY <1>1, ControlHolds, FixedHolds, FilesHold, PTL

----------------------------------------------------------------------------
(* A name that the process is about to remove is the file under another name, *)
(* or holds nothing that only the restore could destroy; and no edit is       *)
(* anywhere before it was made, so that a new one is not in a name's place.   *)
Spare(name) == twin[run.row] = name \/ dir[run.row][name] \notin kept
Removable ==
  /\ run.at = "given back" => Spare(Hold)
  /\ run.at = "unlink hold" => Spare("hold")
  /\ run.at = "unlink stage" => Spare(Stage)
Removing == {"given back", "unlink hold", "unlink stage"}
Placed == \A i \in Rows, n \in Names : dir[i][n] \in Edits => dir[i][n] \in written
KeptOK == Placed /\ Removable /\ UntouchedByOthers

LEMMA UnremovingIs == ASSUME run'.at \notin Removing PROVE Removable'
BY DEF Removable, Removing

LEMMA GotoSafe == ASSUME ControlOK, NEW at \in OnRow \ Removing, Goto(at) PROVE Removable'
BY GotoIs, UnremovingIs

LEMMA ThrowSafe == ASSUME Throw PROVE Removable'
BY ThrowIs, UnremovingIs DEF Removing

LEMMA SameKept ==
  ASSUME Placed, UntouchedByOthers, UNCHANGED dir, UNCHANGED others
  PROVE  Placed' /\ UntouchedByOthers'
BY DEF Placed, UntouchedByOthers, others

(* Enough for a step of the process: an edit it has put somewhere was in that  *)
(* row before, and one it has taken away is still in the row.                  *)
LEMMA MovedKept ==
  ASSUME Placed, UntouchedByOthers, UNCHANGED others,
         \A j \in Rows, n \in Names :
           dir'[j][n] \in Edits => \E m \in Names : dir[j][m] = dir'[j][n],
         \A j \in Rows, n \in Names :
           dir[j][n] \in kept => \E m \in Names : dir'[j][m] = dir[j][n]
  PROVE  Placed' /\ UntouchedByOthers'
<1>1. Placed'
  BY DEF Placed, others
<1>2. UntouchedByOthers'
  <2> SUFFICES ASSUME NEW e \in kept PROVE \E i \in Rows, n \in Names : dir'[i][n] = e
    BY DEF UntouchedByOthers, others
  <2>1. PICK i \in Rows, n \in Names : dir[i][n] = e
    BY DEF UntouchedByOthers
  <2> QED BY <2>1
<1> QED BY <1>1, <1>2

LEMMA NothingKept == ASSUME FixedOK, NEW x, x \notin Edits PROVE x \notin kept
BY DEF FixedOK, OthersOK

LEMMA LinkKept ==
  ASSUME ControlOK, FixedOK, FilesOK, Placed, UntouchedByOthers, UNCHANGED others,
         run.row \in Rows, NEW name \in Private, NEW then \in Removing, LinkAsFile(name, then)
  PROVE  /\ Placed' /\ UntouchedByOthers'
         /\ Throw \/ (Goto(then) /\ twin'[run.row] = name)
<1>1. CASE Throw /\ UNCHANGED files
  BY <1>1, SameKept DEF files
<1>2. CASE ~(Throw /\ UNCHANGED files)
  <2>1. /\ Put(run.row, "file", dir[run.row][name]) /\ dir[run.row]["file"] = Nothing
        /\ twin' = [twin EXCEPT ![run.row] = name]
        /\ Goto(then)
    BY <1>2 DEF LinkAsFile
  <2>2. /\ dir' \in Directories
        /\ \A j \in Rows, n \in Names :
             dir'[j][n] = IF j = run.row /\ n = "file" THEN dir[run.row][name] ELSE dir[j][n]
        /\ \A j \in Rows : twin'[j] = IF j = run.row THEN name ELSE twin[j]
        /\ twin' \in [Rows -> {Nothing} \cup Private]
    BY <2>1, LinkIs
  <2>3. name \in Names /\ Nothing \notin kept
    BY NamesOK, ContentsOK, NothingKept
  <2>4. Placed' /\ UntouchedByOthers'
    <3>1. ASSUME NEW j \in Rows, NEW n \in Names
          PROVE  \E m \in Names : dir[j][m] = dir'[j][n]
      BY <2>2, <2>3
    <3>2. ASSUME NEW j \in Rows, NEW n \in Names, dir[j][n] \in kept
          PROVE  dir'[j][n] = dir[j][n]
      BY <2>1, <2>2, <2>3, <3>2
    <3> QED BY <3>1, <3>2, MovedKept
  <2> QED BY <2>1, <2>2, <2>4
<1> QED BY <1>1, <1>2

LEMMA UnlinkKept ==
  ASSUME FixedOK, FilesOK, Placed, UntouchedByOthers, UNCHANGED others,
         NEW i \in Rows, NEW name \in Private, Unlink(i, name),
         twin[i] = name \/ dir[i][name] \notin kept
  PROVE  Placed' /\ UntouchedByOthers'
<1>1. \A j \in Rows, n \in Names :
        dir'[j][n] = IF j = i /\ n = name THEN Nothing ELSE dir[j][n]
  BY UnlinkIs
<1>2. name \in Names /\ "file" \in Names /\ name # "file" /\ Nothing \notin Edits
  BY NamesOK, ContentsOK
<1>3. \A j \in Rows, n \in Names :
        dir'[j][n] \in Edits => \E m \in Names : dir[j][m] = dir'[j][n]
  BY <1>1, <1>2
<1>4. ASSUME NEW j \in Rows, NEW n \in Names, dir[j][n] \in kept
      PROVE  \E m \in Names : dir'[j][m] = dir[j][n]
  <2>1. CASE j = i /\ n = name
    <3>1. dir[i][name] = dir[i]["file"]
      BY <1>4, <2>1, NamesOK DEF FilesOK
    <3> QED BY <1>1, <1>2, <2>1, <3>1
  <2>2. CASE ~(j = i /\ n = name)
    BY <1>1, <2>2
  <2> QED BY <2>1, <2>2
<1> QED BY <1>3, <1>4, MovedKept

(* What another program wrote is never destroyed by the restore: every step    *)
(* that takes a content out of a name leaves it in another name of its row,    *)
(* and what the process unlinks is the file itself or nobody's edit.           *)
THEOREM EditsSurvive == FSpec => []UntouchedByOthers
<1>1. FInit => KeptOK
  <2> SUFFICES ASSUME FInit PROVE KeptOK
    OBVIOUS
  <2>1. \A i \in Rows, n \in Names : dir[i][n] \in {Nothing, "before"}
    BY DEF FInit
  <2> QED BY <2>1, ContentsOK DEF FInit, KeptOK, Placed, Removable, UntouchedByOthers, Idle
<1>2. ControlOK /\ FixedOK /\ FilesOK /\ Known /\ KeptOK /\ [FNext]_fvars => KeptOK'
  <2> SUFFICES ASSUME ControlOK, FixedOK, FilesOK, Known, Placed, Removable, UntouchedByOthers,
                      [FNext]_fvars
               PROVE  Placed' /\ UntouchedByOthers' /\ Removable'
    BY DEF KeptOK
  <2>1. CASE Begin
    BY <2>1, SameKept, UnremovingIs DEF Begin, files, Removing
  <2>2. CASE RowBegins
    <3>1. CASE Throw
      BY <2>2, <3>1, SameKept, ThrowSafe DEF RowBegins, files
    <3>2. ASSUME NEW at \in {"put back", "checks", "record"}, Goto(at) PROVE Removable'
      BY <3>2, GotoSafe DEF OnRow, Removing
    <3> QED BY <2>2, <3>1, <3>2, SameKept DEF RowBegins, FinishRow, RollBackRow, files
  <2>3. CASE Checks
    <3>1. CASE Throw
      BY <2>3, <3>1, SameKept, ThrowSafe DEF Checks, files
    <3>2. ASSUME NEW at \in {"record", "stage", "vacate"}, Goto(at) PROVE Removable'
      BY <3>2, GotoSafe DEF OnRow, Removing
    <3> QED BY <2>3, <3>1, <3>2, SameKept DEF Checks, files
  <2>4. CASE Vacate
    <3> DEFINE i == run.row
    <3>1. /\ i \in Rows /\ dir[i][Hold] = Nothing /\ UNCHANGED others
          /\ Hold \in Private /\ Hold \in Names /\ "file" \in Names /\ Hold # "file"
      BY <2>4, NamesOK DEF Vacate, Known, ControlOK, OnRow
    <3>2. CASE Throw /\ UNCHANGED dir
      BY <3>1, <3>2, SameKept, ThrowSafe
    <3>3. CASE ~(Throw /\ UNCHANGED dir)
      <4>1. /\ dir' = [dir EXCEPT ![i] = [@ EXCEPT ![Hold] = dir[i]["file"], !["file"] = Nothing]]
            /\ Goto("verify")
        BY <2>4, <3>3 DEF Vacate
      <4>2. \A j \in Rows, n \in Names :
              dir'[j][n] = IF j = i /\ n = "file" THEN Nothing
                           ELSE IF j = i /\ n = Hold THEN dir[i]["file"] ELSE dir[j][n]
        BY <3>1, <4>1, VacateIs DEF FilesOK
      <4>3. Nothing \notin Edits /\ Nothing \notin kept
        BY ContentsOK, NothingKept
      <4>4. ASSUME NEW j \in Rows, NEW n \in Names, dir'[j][n] \in Edits
            PROVE  \E m \in Names : dir[j][m] = dir'[j][n]
        BY <3>1, <4>2, <4>3, <4>4
      <4>5. ASSUME NEW j \in Rows, NEW n \in Names, dir[j][n] \in kept
            PROVE  \E m \in Names : dir'[j][m] = dir[j][n]
        <5>1. CASE j = i /\ n = "file"
          BY <3>1, <4>2, <5>1
        <5>2. CASE ~(j = i /\ n = "file")
          BY <3>1, <4>2, <4>3, <4>5, <5>2
        <5> QED BY <5>1, <5>2
      <4>6. Placed' /\ UntouchedByOthers'
        BY <3>1, <4>4, <4>5, MovedKept
      <4> QED BY <4>1, <4>6, GotoSafe DEF OnRow, Removing
    <3> QED BY <3>2, <3>3
  <2>5. CASE Verify
    <3>1. ASSUME NEW at \in {"give back", "confirm", "stage"}, Goto(at) PROVE Removable'
      BY <3>1, GotoSafe DEF OnRow, Removing
    <3> QED BY <2>5, <3>1, SameKept DEF Verify, files
  <2>6. CASE GiveBack
    <3>1. run.row \in Rows /\ UNCHANGED others /\ Hold \in Private
      BY <2>6, NamesOK DEF GiveBack, ControlOK, OnRow
    <3>2. /\ Placed' /\ UntouchedByOthers'
          /\ Throw \/ (Goto("given back") /\ twin'[run.row] = Hold)
      BY <2>6, <3>1, LinkKept DEF GiveBack, Removing
    <3>3. CASE Goto("given back") /\ twin'[run.row] = Hold
      <4>1. run'.at = "given back" /\ twin'[run'.row] = Hold'
        BY <3>3, GotoIs DEF OnRow
      <4> QED BY <3>2, <4>1 DEF Removable, Spare
    <3> QED BY <3>2, <3>3, ThrowSafe
  <2>7. CASE GivenBack
    <3>1. /\ run.row \in Rows /\ UNCHANGED others /\ Hold \in Private
          /\ twin[run.row] = Hold \/ dir[run.row][Hold] \notin kept
      BY <2>7, NamesOK DEF GivenBack, ControlOK, OnRow, Removable, Spare
    <3> QED BY <2>7, <3>1, UnlinkKept, ThrowSafe DEF GivenBack
  <2>8. CASE PutBack
    <3>1. run.row \in Rows /\ UNCHANGED others
      BY <2>8 DEF PutBack, ControlOK, OnRow
    <3>2. /\ Placed' /\ UntouchedByOthers'
          /\ Throw \/ (Goto("unlink hold") /\ twin'[run.row] = "hold")
      BY <2>8, <3>1, LinkKept, NamesOK DEF PutBack, Removing
    <3>3. CASE Goto("unlink hold") /\ twin'[run.row] = "hold"
      <4>1. run'.at = "unlink hold" /\ twin'[run'.row] = "hold"
        BY <3>3, GotoIs DEF OnRow
      <4> QED BY <3>2, <4>1 DEF Removable, Spare
    <3> QED BY <3>2, <3>3, ThrowSafe
  <2>9. CASE UnlinkHold
    <3>1. /\ run.row \in Rows /\ UNCHANGED others /\ "hold" \in Private
          /\ twin[run.row] = "hold" \/ dir[run.row]["hold"] \notin kept
      BY <2>9, NamesOK DEF UnlinkHold, ControlOK, OnRow, Removable, Spare
    <3> QED BY <2>9, <3>1, UnlinkKept, GotoSafe DEF UnlinkHold, OnRow, Removing
  <2>10. CASE CreateStage
    <3> DEFINE i == run.row
    <3>1. i \in Rows /\ UNCHANGED others /\ Stage \in Names
      BY <2>10, NamesOK DEF CreateStage, ControlOK, OnRow
    <3>2. CASE Put(i, Stage, "partial") /\ Goto("fill") /\ dir[i][Stage] = Nothing
      <4>1. /\ \A j \in Rows, n \in Names :
                 dir'[j][n] = IF j = i /\ n = Stage THEN "partial" ELSE dir[j][n]
            /\ "partial" \notin Edits /\ Nothing \notin kept
        BY <3>1, <3>2, PutIs, ContentsOK, NothingKept DEF FilesOK
      <4>2. ASSUME NEW j \in Rows, NEW n \in Names, dir'[j][n] \in Edits
            PROVE  dir[j][n] = dir'[j][n]
        BY <4>1, <4>2
      <4>3. ASSUME NEW j \in Rows, NEW n \in Names, dir[j][n] \in kept
            PROVE  dir'[j][n] = dir[j][n]
        BY <3>2, <4>1, <4>3
      <4> QED BY <3>1, <3>2, <4>2, <4>3, MovedKept, GotoSafe DEF OnRow, Removing
    <3>3. CASE UNCHANGED dir /\ Goto("install")
      BY <3>1, <3>3, SameKept, GotoSafe DEF OnRow, Removing
    <3>4. CASE UNCHANGED dir /\ Throw
      BY <3>1, <3>4, SameKept, ThrowSafe
    <3> QED BY <2>10, <3>2, <3>3, <3>4 DEF CreateStage
  <2>11. CASE FillStage
    <3> DEFINE i == run.row
    <3>1. /\ i \in Rows /\ UNCHANGED others /\ Stage \in Names /\ dir[i][Stage] = "partial"
          /\ Put(i, Stage, To(i)) /\ Goto("install")
      BY <2>11, NamesOK DEF FillStage, Known, ControlOK, OnRow
    <3>2. /\ \A j \in Rows, n \in Names :
               dir'[j][n] = IF j = i /\ n = Stage THEN To(i) ELSE dir[j][n]
          /\ To(i) \notin Edits /\ "partial" \notin kept
      BY <3>1, PutIs, ImagesOK, ContentsOK, NothingKept DEF FilesOK
    <3>3. ASSUME NEW j \in Rows, NEW n \in Names, dir'[j][n] \in Edits
          PROVE  dir[j][n] = dir'[j][n]
      BY <3>2, <3>3
    <3>4. ASSUME NEW j \in Rows, NEW n \in Names, dir[j][n] \in kept
          PROVE  dir'[j][n] = dir[j][n]
      BY <3>1, <3>2, <3>4
    <3> QED BY <3>1, <3>3, <3>4, MovedKept, GotoSafe DEF OnRow, Removing
  <2>12. CASE Install
    <3>1. run.row \in Rows /\ UNCHANGED others /\ Stage \in Private
      BY <2>12, NamesOK DEF Install, ControlOK, OnRow
    <3>2. /\ Placed' /\ UntouchedByOthers'
          /\ Throw \/ (Goto("unlink stage") /\ twin'[run.row] = Stage)
      BY <2>12, <3>1, LinkKept DEF Install, Removing
    <3>3. CASE Goto("unlink stage") /\ twin'[run.row] = Stage
      <4>1. run'.at = "unlink stage" /\ twin'[run'.row] = Stage'
        BY <3>3, GotoIs DEF OnRow
      <4> QED BY <3>2, <4>1 DEF Removable, Spare
    <3> QED BY <3>2, <3>3, ThrowSafe
  <2>13. CASE UnlinkStage
    <3>1. /\ run.row \in Rows /\ UNCHANGED others /\ Stage \in Private
          /\ twin[run.row] = Stage \/ dir[run.row][Stage] \notin kept
      BY <2>13, NamesOK DEF UnlinkStage, ControlOK, OnRow, Removable, Spare
    <3> QED BY <2>13, <3>1, UnlinkKept, GotoSafe DEF UnlinkStage, OnRow, Removing
  <2>14. CASE Confirm
    BY <2>14, SameKept, ThrowSafe, GotoSafe DEF Confirm, files, OnRow, Removing
  <2>15. CASE Record
    <3>1. CASE Throw
      BY <2>15, <3>1, SameKept, ThrowSafe DEF Record, files
    <3>2. CASE run' = [run EXCEPT !.at = "next"]
      <4>1. run'.at \notin Removing
        BY <3>2 DEF ControlOK, Runs, Removing
      <4> QED BY <2>15, <4>1, SameKept, UnremovingIs DEF Record, files
    <3> QED BY <2>15, <3>1, <3>2 DEF Record
  <2>16. CASE RowEnds
    <3>1. CASE run' = [at |-> "row", row |-> NextRow(run.row)]
      BY <2>16, <3>1, SameKept, UnremovingIs DEF RowEnds, files, Removing
    <3>2. CASE run' = [at |-> "cleanup", row |-> 0]
      BY <2>16, <3>2, SameKept, UnremovingIs DEF RowEnds, files, Removing
    <3> QED BY <2>16, <3>1, <3>2 DEF RowEnds
  <2>17. CASE CleanName
    <3>1. UNCHANGED others /\ run.at \notin Removing
      BY <2>17 DEF CleanName, Removing
    <3>2. CASE Throw /\ UNCHANGED files
      BY <3>1, <3>2, SameKept, ThrowSafe DEF files
    <3>3. CASE ~(Throw /\ UNCHANGED files)
      <4>1. PICK x \in Leftovers : /\ dir[x[1]][x[2]] = Right(x[1], x[2])
                                  /\ Unlink(x[1], x[2]) /\ UNCHANGED <<run, journal>>
        BY <2>17, <3>3 DEF CleanName
      <4>2. x[1] \in Rows /\ x[2] \in Private
        BY DEF Leftovers, Private
      <4>3. dir[x[1]][x[2]] \notin kept
        BY <4>1, <4>2, ImagesOK, NothingKept DEF Right
      <4> QED BY <3>1, <4>1, <4>2, <4>3, UnlinkKept, UnremovingIs
    <3> QED BY <3>2, <3>3
  <2>18. CASE Close
    BY <2>18, SameKept, UnremovingIs, SomeRuns DEF Close, files, Removing
  <2>19. CASE Refuse
    BY <2>19, SameKept, UnremovingIs, SomeRuns DEF Refuse, Fail, files, Removing
  <2>20. CASE Prepare
    BY <2>20, SameKept, UnremovingIs DEF Prepare, files, Removing
  <2>21. CASE Crash
    BY <2>21, SameKept, UnremovingIs, SomeRuns DEF Crash, files, Removing
  <2>22. CASE Others
    <3>1. PICK i \in Rows : \/ \E content \in Edits, inPlace \in BOOLEAN : Edit(i, content, inPlace)
                          \/ \E content \in ByHand : PutByHand(i, content)
      BY <2>22 DEF Others
    <3> DEFINE r == run.row
               old == dir[i]["file"]
    <3>2. run.at \in Removing => r \in Rows
      BY DEF ControlOK, Removing, OnRow
    <3>3. /\ run' = run /\ Hold' = Hold /\ Stage' = Stage
          /\ Hold \in Private /\ Stage \in Private /\ "hold" \in Private
      BY <3>1, NamesOK DEF Edit, PutByHand, Hold, Stage, Undoing
    <3>4. ASSUME NEW content \in Edits, NEW inPlace \in BOOLEAN, Edit(i, content, inPlace)
          PROVE  Placed' /\ UntouchedByOthers' /\ Removable'
      <4>1. /\ \A j \in Rows, n \in Names :
                 dir'[j][n] = IF j = i /\ (n = "file" \/ (inPlace /\ n = twin[i])) THEN content
                              ELSE dir[j][n]
            /\ \A j \in Rows : twin'[j] = IF j = i /\ ~inPlace THEN Nothing ELSE twin[j]
        BY <3>4, EditIs
      <4>2. /\ content \notin written /\ content \notin kept
            /\ written' = written \cup {content} /\ kept' = (kept \ {old}) \cup {content}
        BY <3>4 DEF Edit, FixedOK, OthersOK
      <4>3. Placed'
        BY <4>1, <4>2 DEF Placed
      <4>4. ASSUME NEW j \in Rows, NEW n \in Names, dir[j][n] \in kept, dir[j][n] # old
            PROVE  dir'[j][n] = dir[j][n]
        <5>1. j = i => n # "file"
          BY <4>4
        <5>2. j = i => n # twin[i]
          <6>1. n \in Private => twin[i] # n \/ dir[i][n] = old
            BY NamesOK DEF FilesOK
          <6> QED BY <4>4, <5>1, <6>1, NamesOK DEF Private
        <5> QED BY <4>1, <5>1, <5>2
      <4>5. UntouchedByOthers'
        <5> SUFFICES ASSUME NEW e \in kept' PROVE \E j \in Rows, n \in Names : dir'[j][n] = e
          BY DEF UntouchedByOthers
        <5>1. CASE e = content
          BY <4>1, <5>1, NamesOK
        <5>2. CASE e # content
          <6>1. e \in kept /\ e # old
            BY <4>2, <5>2
          <6> QED BY <4>4, <6>1 DEF UntouchedByOthers
        <5> QED BY <5>1, <5>2
      <4>6. ASSUME r \in Rows, NEW n \in Private, Spare(n)
            PROVE  twin'[r] = n \/ dir'[r][n] \notin kept'
        <5>1. dir[r][n] # content /\ n \in Names /\ n # "file"
          BY <4>2, <4>6, NamesOK DEF Placed
        <5>2. CASE twin[r] = n
          <6>1. dir[r][n] = dir[r]["file"]
            BY <4>6, <5>2, NamesOK DEF FilesOK
          <6> QED BY <4>1, <4>2, <4>6, <5>1, <5>2, <6>1
        <5>3. CASE twin[r] # n
          BY <4>1, <4>2, <4>6, <5>1, <5>3 DEF Spare
        <5> QED BY <5>2, <5>3
      <4>7. Removable'
        BY <3>2, <3>3, <4>6 DEF Removable, Removing, Spare
      <4> QED BY <4>3, <4>5, <4>7
    <3>5. ASSUME NEW content \in ByHand, PutByHand(i, content)
          PROVE  Placed' /\ UntouchedByOthers' /\ Removable'
      <4>1. /\ \A j \in Rows, n \in Names :
                 dir'[j][n] = IF j = i /\ n = "file" THEN content ELSE dir[j][n]
            /\ \A j \in Rows : twin'[j] = IF j = i THEN Nothing ELSE twin[j]
        BY <3>5, PutByHandIs
      <4>2. /\ content \notin Edits /\ content \notin kept
            /\ written' = written /\ kept' = kept \ {old}
        BY <3>5, ContentsOK, NothingKept DEF PutByHand
      <4>3. Placed'
        BY <4>1, <4>2 DEF Placed
      <4>4. UntouchedByOthers'
        <5>1. ASSUME NEW j \in Rows, NEW n \in Names, dir[j][n] \in kept, dir[j][n] # old
              PROVE  dir'[j][n] = dir[j][n]
          BY <4>1, <5>1
        <5> SUFFICES ASSUME NEW e \in kept' PROVE \E j \in Rows, n \in Names : dir'[j][n] = e
          BY DEF UntouchedByOthers
        <5>2. e \in kept /\ e # old
          BY <4>2
        <5> QED BY <5>1, <5>2 DEF UntouchedByOthers
      <4>5. ASSUME r \in Rows, NEW n \in Private, Spare(n)
            PROVE  twin'[r] = n \/ dir'[r][n] \notin kept'
        <5>1. n \in Names /\ n # "file"
          BY NamesOK
        <5>2. CASE twin[r] = n
          <6>1. dir[r][n] = dir[r]["file"]
            BY <4>5, <5>2, NamesOK DEF FilesOK
          <6> QED BY <4>1, <4>2, <4>5, <5>1, <5>2, <6>1
        <5>3. CASE twin[r] # n
          BY <4>1, <4>2, <4>5, <5>1, <5>3 DEF Spare
        <5> QED BY <5>2, <5>3
      <4>6. Removable'
        BY <3>2, <3>3, <4>5 DEF Removable, Removing, Spare
      <4> QED BY <4>3, <4>4, <4>6
    <3> QED BY <3>1, <3>4, <3>5
  <2>23. ASSUME NEW action \in {"finish", "rollback"}, Recover(action)
         PROVE  Placed' /\ UntouchedByOthers' /\ Removable'
    <3>1. CASE run' = [at |-> "recleanup", row |-> 0]
      BY <2>23, <3>1, SameKept, UnremovingIs DEF Recover, files, Removing
    <3>2. CASE run' = [at |-> "begin", row |-> 0]
      BY <2>23, <3>2, SameKept, UnremovingIs DEF Recover, files, Removing
    <3> QED BY <2>23, <3>1, <3>2 DEF Recover
  <2>24. CASE UNCHANGED fvars
    <3>1. Placed' /\ UntouchedByOthers'
      BY <2>24, SameKept DEF fvars, others
    <3>2. Removable'
      BY <2>24 DEF fvars, Removable, Spare, Hold, Stage, Undoing
    <3> QED BY <3>1, <3>2
  <2> QED
    BY <2>1, <2>2, <2>3, <2>4, <2>5, <2>6, <2>7, <2>8, <2>9, <2>10, <2>11, <2>12, <2>13, <2>14,
       <2>15, <2>16, <2>17, <2>18, <2>19, <2>20, <2>21, <2>22, <2>23, <2>24 DEF FNext, Process
<1>3. KeptOK => UntouchedByOthers
  BY DEF KeptOK
<1> QED BY <1>1, <1>2, <1>3, ControlHolds, FixedHolds, FilesHold, PTL DEF FSpec

----------------------------------------------------------------------------
(* Of the rows that nobody else edits: one recorded as done in the direction   *)
(* of the journal has its file, and so has one that is about to be recorded as *)
(* applied.  A rollback checks that of every row itself.                       *)
Done == IF Undoing THEN journal.undone ELSE journal.applied
Earlier(i) == {j \in Rows : IF Undoing THEN j > i ELSE j < i}
InPlace ==
  \A i \in Rows \ touched :
    /\ ~Undoing /\ i \in journal.applied => dir[i]["file"] = target[i]
    /\ i \in journal.undone => dir[i]["file"] = expected[i]
    /\ ~Undoing /\ run.at = "record" /\ i = run.row => dir[i]["file"] = target[i]

(* The rows are done in order, and a row that is done is not replaced again.   *)
InOrder ==
  /\ ~Undoing => journal.undone = {}
  /\ run.at \in OnRow => Earlier(run.row) \subseteq Done
  /\ run.at \in OnRow \ {"row", "record", "next"} => run.row \notin Done
  /\ run.at = "next" => run.row \in Done
  /\ run.at \in {"put back", "unlink hold"} => Undoing

(* A journal is closed when every row is done, and nothing is replaced after.  *)
Closed ==
  /\ journal.status = "completed" => ~Undoing /\ journal.applied = Rows
  /\ journal.status = "rolled-back" => Undoing /\ journal.undone = Rows
  /\ journal.status \in {"completed", "rolled-back"} => run.at \in {"idle", "cleanup", "recleanup"}
  /\ journal.status = Nothing => run.at = "idle"
  /\ outcome # Nothing => journal.status = Nothing

(* The process changes the file of its row, in four of its steps, and no other. *)
Changing == {"vacate", "give back", "put back", "install"}

LEMMA ProcessFiles ==
  ASSUME ControlOK, FixedOK, FilesOK, Process, NEW j \in Rows,
         run.at \notin Changing \/ j # run.row
  PROVE  dir'[j]["file"] = dir[j]["file"]
<1> USE NamesOK
<1>1. ASSUME UNCHANGED files PROVE dir'[j]["file"] = dir[j]["file"]
  BY <1>1 DEF files
<1>2. ASSUME NEW i \in Rows, NEW name \in Private, Unlink(i, name) PROVE dir'[j]["file"] = dir[j]["file"]
  BY <1>2, UnlinkIs
<1>3. run.at \in OnRow => run.row \in Rows
  BY DEF ControlOK
<1>4. CASE Vacate
  <2>1. run.row \in Rows /\ run.row # j
    BY <1>3, <1>4 DEF Vacate, OnRow, Changing
  <2> QED BY <1>4, <2>1 DEF Vacate, FilesOK, Directories
<1>5. ASSUME NEW name \in Names, NEW then, LinkAsFile(name, then), run.row # j PROVE dir'[j]["file"] = dir[j]["file"]
  BY <1>5 DEF LinkAsFile, Put, files, FilesOK, Directories
<1>6. CASE GiveBack
  BY <1>5, <1>6 DEF GiveBack, Changing
<1>7. CASE PutBack
  BY <1>5, <1>7 DEF PutBack, Changing
<1>8. CASE Install
  BY <1>5, <1>8 DEF Install, Changing
<1>9. CASE CreateStage \/ FillStage
  BY <1>9 DEF CreateStage, FillStage, Put, FilesOK, Directories
<1>10. CASE GivenBack \/ UnlinkHold \/ UnlinkStage
  BY <1>2, <1>3, <1>10 DEF GivenBack, UnlinkHold, UnlinkStage, OnRow
<1>11. CASE CleanName
  <2>1. CASE UNCHANGED files
    BY <1>1, <2>1
  <2>2. CASE ~UNCHANGED files
    <3>1. PICK x \in Leftovers : Unlink(x[1], x[2])
      BY <1>11, <2>2 DEF CleanName
    <3>2. x[1] \in Rows /\ x[2] \in Private
      BY DEF Leftovers, Private
    <3> QED BY <1>2, <3>1, <3>2
  <2> QED BY <2>1, <2>2
<1>12. CASE Begin \/ RowBegins \/ Checks \/ Verify \/ Confirm \/ Record \/ RowEnds \/ Close \/ Refuse
  BY <1>1, <1>12 DEF Begin, RowBegins, Checks, Verify, Confirm, Record, RowEnds, Close, Refuse
<1> QED BY <1>4, <1>6, <1>7, <1>8, <1>9, <1>10, <1>11, <1>12 DEF Process

LEMMA GotoOrder ==
  ASSUME ControlOK, InOrder, Closed, run.at \in OnRow, NEW at \in OnRow, Goto(at), UNCHANGED outcome,
         at \notin {"row", "record", "next"} => run.row \notin Done,
         at = "next" => run.row \in Done,
         at \in {"put back", "unlink hold"} => Undoing
  PROVE  InOrder' /\ Closed'
<1>1. run'.at = at /\ run'.row = run.row /\ journal' = journal
  BY GotoIs
<1>2. InOrder'
  BY <1>1 DEF InOrder, Earlier, Done, Undoing
<1>3. Closed'
  BY <1>1 DEF Closed, Undoing, OnRow
<1> QED BY <1>2, <1>3

LEMMA FailOrder ==
  ASSUME ControlOK, InOrder, Closed, run.at # "idle", NEW issue, Fail(issue), UNCHANGED outcome
  PROVE  /\ InOrder' /\ Closed' /\ run'.at = "idle"
         /\ journal'.direction = journal.direction
         /\ journal'.applied = journal.applied /\ journal'.undone = journal.undone
<1>1. run'.at = "idle"
  BY SomeRuns DEF Fail
<1>2. /\ journal'.direction = journal.direction
      /\ journal'.applied = journal.applied /\ journal'.undone = journal.undone
      /\ journal' = journal \/ journal'.status = "interrupted"
  BY DEF Fail, ControlOK, Journals
<1>3. InOrder'
  BY <1>1, <1>2 DEF InOrder, Undoing, OnRow
<1>4. Closed'
  BY <1>1, <1>2 DEF Closed, Undoing, Nothing
<1> QED BY <1>1, <1>2, <1>3, <1>4

(* A step of the process that records no row keeps what is recorded true: the  *)
(* row whose file it changes is not recorded.                                  *)
LEMMA StepInPlace ==
  ASSUME ControlOK, FixedOK, FilesOK, InOrder, InPlace, Process,
         journal'.direction = journal.direction,
         journal'.applied = journal.applied, journal'.undone = journal.undone,
         run'.at = "record" => /\ run.at \notin Changing /\ run'.row = run.row
                               /\ ~Undoing => dir[run.row]["file"] = target[run.row]
  PROVE  InPlace'
<1>1. UNCHANGED <<rows, others>>
  BY ProcessFrame
<1>2. Undoing' = Undoing
  BY DEF Undoing
<1> SUFFICES ASSUME NEW j \in Rows, j \notin touched
             PROVE  /\ ~Undoing /\ j \in journal.applied => dir'[j]["file"] = target[j]
                    /\ j \in journal.undone => dir'[j]["file"] = expected[j]
                    /\ ~Undoing /\ run'.at = "record" /\ j = run'.row => dir'[j]["file"] = target[j]
  BY <1>1, <1>2 DEF InPlace, rows, others
<1>3. CASE run.at \notin Changing \/ j # run.row
  <2>1. dir'[j]["file"] = dir[j]["file"]
    BY <1>3, ProcessFiles
  <2> QED BY <2>1 DEF InPlace
<1>4. CASE run.at \in Changing /\ j = run.row
  <2>1. j \notin Done
    BY <1>4 DEF InOrder, Changing, OnRow
  <2> QED BY <1>4, <2>1 DEF InOrder, Done
<1> QED BY <1>3, <1>4

LEMMA ThrowInPlace ==
  ASSUME ControlOK, FixedOK, FilesOK, InOrder, InPlace, Closed, Process, run.at # "idle", Throw,
         UNCHANGED outcome
  PROVE  InPlace' /\ InOrder' /\ Closed'
BY FailOrder, StepInPlace DEF Throw

LEMMA GotoInPlace ==
  ASSUME ControlOK, FixedOK, FilesOK, InOrder, InPlace, Closed, Process, UNCHANGED outcome,
         run.at \in OnRow, NEW at \in OnRow, Goto(at),
         at \notin {"row", "record", "next"} => run.row \notin Done,
         at = "next" => run.row \in Done,
         at \in {"put back", "unlink hold"} => Undoing,
         at = "record" => /\ run.at \notin Changing
                          /\ ~Undoing => dir[run.row]["file"] = target[run.row]
  PROVE  InPlace' /\ InOrder' /\ Closed'
<1>1. InOrder' /\ Closed'
  BY GotoOrder
<1>2. run'.at = at /\ run'.row = run.row /\ journal' = journal
  BY GotoIs
<1>3. InPlace'
  BY <1>2, StepInPlace
<1> QED BY <1>1, <1>3

ProgressOK == InPlace /\ InOrder /\ Closed /\ RestoredOrPut

LEMMA SameProgress ==
  ASSUME ControlOK, ProgressOK, run' = run, journal' = journal, UNCHANGED <<rows, outcome>>,
         touched \subseteq touched',
         \A j \in Rows \ touched' : dir'[j]["file"] = dir[j]["file"]
  PROVE  ProgressOK'
<1>1. Undoing' = Undoing /\ Done' = Done /\ \A i : Earlier(i)' = Earlier(i)
  BY DEF Undoing, Done, Earlier
<1>2. InOrder'
  BY <1>1 DEF ProgressOK, InOrder
<1>3. Closed'
  BY <1>1 DEF ProgressOK, Closed
<1>4. InPlace'
  BY <1>1 DEF ProgressOK, InPlace, rows
<1>5. RestoredOrPut'
  BY DEF ProgressOK, RestoredOrPut, rows
<1> QED BY <1>2, <1>3, <1>4, <1>5 DEF ProgressOK

LEMMA ProcessProgress ==
  ASSUME ControlOK, FixedOK, FilesOK, ProgressOK, Process
  PROVE  ProgressOK'
<1>1. InPlace /\ InOrder /\ Closed /\ RestoredOrPut
  BY DEF ProgressOK
<1>2. run.at # "idle"
  BY DEF Process, Begin, RowBegins, Checks, Vacate, Verify, GiveBack, GivenBack, PutBack,
         UnlinkHold, CreateStage, FillStage, Install, UnlinkStage, Confirm, Record, RowEnds,
         CleanName, Close, Refuse
<1>3. outcome = Nothing
  BY <1>1, <1>2 DEF Closed
<1>4. run.at \in OnRow => run.row \in Rows
  BY DEF ControlOK
<1>5. UNCHANGED <<rows, others>>
  BY ProcessFrame
<1>6. ASSUME UNCHANGED outcome, InPlace', InOrder', Closed' PROVE ProgressOK'
  BY <1>3, <1>6 DEF ProgressOK, RestoredOrPut, Nothing
<1>7. ASSUME UNCHANGED outcome, Throw PROVE ProgressOK'
  BY <1>1, <1>2, <1>6, <1>7, ThrowInPlace
<1>8. ASSUME UNCHANGED outcome, NEW at \in OnRow, Goto(at), run.at \in OnRow,
             at \notin {"row", "record", "next"} => run.row \notin Done,
             at = "next" => run.row \in Done,
             at \in {"put back", "unlink hold"} => Undoing,
             at = "record" => /\ run.at \notin Changing
                              /\ ~Undoing => dir[run.row]["file"] = target[run.row]
      PROVE  ProgressOK'
  BY <1>1, <1>6, <1>8, GotoInPlace
<1>9. run.at \in OnRow \ {"row", "record", "next"} => run.row \notin Done
  BY <1>1 DEF InOrder
<1>10. CASE Begin
  <2>1. /\ journal'.direction = journal.direction
        /\ journal'.applied = journal.applied /\ journal'.undone = journal.undone
        /\ journal'.status = "applying"
        /\ run'.at = "row" /\ run'.row = FirstRow
    BY <1>10 DEF Begin, ControlOK, Journals
  <2>2. InPlace'
    BY <1>1, <2>1, StepInPlace
  <2>3. Earlier(FirstRow) = {}
    BY Shape DEF Earlier, FirstRow, Rows
  <2>4. InOrder'
    BY <1>1, <2>1, <2>3 DEF InOrder, Earlier, Undoing
  <2>5. Closed'
    BY <1>3, <1>10, <2>1 DEF Begin, Closed, Nothing
  <2> QED BY <1>6, <1>10, <2>2, <2>4, <2>5 DEF Begin
<1>11. CASE RowBegins
  <2>1. run.at = "row" /\ UNCHANGED outcome /\ run.at \in OnRow /\ run.at \notin Changing
    BY <1>11 DEF RowBegins, OnRow, Changing
  <2>2. CASE Throw
    BY <1>7, <2>1, <2>2
  <2>3. CASE Undoing /\ Goto("record")
    BY <1>8, <2>1, <2>3 DEF OnRow
  <2>4. CASE ~Undoing /\ Goto("record") /\ dir[run.row]["file"] = target[run.row]
    BY <1>8, <2>1, <2>4 DEF OnRow
  <2>5. CASE Goto("checks") /\ run.row \notin Done
    BY <1>8, <2>1, <2>5 DEF OnRow
  <2>6. CASE Goto("put back") /\ Undoing /\ run.row \notin Done
    BY <1>8, <2>1, <2>6 DEF OnRow
  <2> QED BY <1>11, <2>2, <2>3, <2>4, <2>5, <2>6 DEF RowBegins, RollBackRow, FinishRow, Done
<1>12. CASE Checks
  <2>1. /\ UNCHANGED outcome /\ run.at \in OnRow /\ run.at \notin Changing /\ run.row \notin Done
    BY <1>9, <1>12 DEF Checks, OnRow, Changing
  <2>2. CASE Throw
    BY <1>7, <2>1, <2>2
  <2>3. CASE Goto("record") /\ dir[run.row]["file"] = To(run.row)
    BY <1>8, <2>1, <2>3 DEF OnRow, To
  <2>4. CASE Goto("stage") \/ Goto("vacate")
    BY <1>8, <2>1, <2>4 DEF OnRow
  <2> QED BY <1>12, <2>2, <2>3, <2>4 DEF Checks
<1>13. CASE Vacate
  <2>1. UNCHANGED outcome /\ run.at \in OnRow /\ run.row \notin Done
    BY <1>9, <1>13 DEF Vacate, OnRow
  <2> QED BY <1>7, <1>8, <1>13, <2>1 DEF Vacate, OnRow
<1>14. CASE Verify
  <2>1. UNCHANGED outcome /\ run.at \in OnRow /\ run.row \notin Done
    BY <1>9, <1>14 DEF Verify, OnRow
  <2>2. CASE Goto("give back") \/ Goto("confirm") \/ Goto("stage")
    BY <1>8, <2>1, <2>2 DEF OnRow
  <2> QED BY <1>14, <2>2 DEF Verify
<1>15. CASE GiveBack
  <2>1. UNCHANGED outcome /\ run.at \in OnRow /\ run.row \notin Done
    BY <1>9, <1>15 DEF GiveBack, OnRow
  <2> QED BY <1>7, <1>8, <1>15, <2>1 DEF GiveBack, LinkAsFile, OnRow
<1>16. CASE GivenBack
  BY <1>7, <1>16 DEF GivenBack
<1>17. CASE PutBack
  <2>1. UNCHANGED outcome /\ run.at \in OnRow /\ run.row \notin Done /\ Undoing
    BY <1>1, <1>9, <1>17 DEF PutBack, OnRow, InOrder
  <2> QED BY <1>7, <1>8, <1>17, <2>1 DEF PutBack, LinkAsFile, OnRow
<1>18. CASE UnlinkHold
  <2>1. UNCHANGED outcome /\ run.at \in OnRow /\ run.at \notin Changing /\ Undoing
    BY <1>1, <1>18 DEF UnlinkHold, OnRow, Changing, InOrder
  <2> QED BY <1>8, <1>18, <2>1 DEF UnlinkHold, OnRow
<1>19. CASE CreateStage
  <2>1. UNCHANGED outcome /\ run.at \in OnRow /\ run.row \notin Done
    BY <1>9, <1>19 DEF CreateStage, OnRow
  <2>2. CASE Goto("fill") \/ Goto("install")
    BY <1>8, <2>1, <2>2 DEF OnRow
  <2> QED BY <1>7, <1>19, <2>1, <2>2 DEF CreateStage
<1>20. CASE FillStage
  <2>1. UNCHANGED outcome /\ run.at \in OnRow /\ run.row \notin Done
    BY <1>9, <1>20 DEF FillStage, OnRow
  <2> QED BY <1>8, <1>20, <2>1 DEF FillStage, OnRow
<1>21. CASE Install
  <2>1. UNCHANGED outcome /\ run.at \in OnRow /\ run.row \notin Done
    BY <1>9, <1>21 DEF Install, OnRow
  <2> QED BY <1>7, <1>8, <1>21, <2>1 DEF Install, LinkAsFile, OnRow
<1>22. CASE UnlinkStage
  <2>1. UNCHANGED outcome /\ run.at \in OnRow /\ run.row \notin Done
    BY <1>9, <1>22 DEF UnlinkStage, OnRow
  <2> QED BY <1>8, <1>22, <2>1 DEF UnlinkStage, OnRow
<1>23. CASE Confirm
  <2>1. /\ UNCHANGED outcome /\ run.at \in OnRow /\ run.at \notin Changing
    BY <1>23 DEF Confirm, OnRow, Changing
  <2>2. CASE Throw
    BY <1>7, <2>1, <2>2
  <2>3. CASE Goto("record") /\ dir[run.row]["file"] = To(run.row)
    BY <1>8, <2>1, <2>3 DEF OnRow, To
  <2> QED BY <1>23, <2>2, <2>3 DEF Confirm
<1>24. CASE Record
  <2> DEFINE i == run.row
  <2>1. /\ UNCHANGED outcome /\ UNCHANGED files /\ run.at = "record" /\ i \in Rows
        /\ journal \in Journals /\ run \in Runs
    BY <1>4, <1>24 DEF Record, OnRow, ControlOK
  <2>2. CASE Throw
    BY <1>7, <2>1, <2>2
  <2>3. CASE ~Throw
    <3>1. run' = [run EXCEPT !.at = "next"]
      BY <1>24, <2>3 DEF Record
    <3>2. run'.at = "next" /\ run'.row = i
      BY <2>1, <3>1 DEF Runs
    <3>3. CASE ~Undoing
      <4>1. journal' = [journal EXCEPT !.applied = @ \cup {i}]
        BY <1>24, <2>3, <3>3 DEF Record
      <4>2. /\ journal'.direction = journal.direction /\ journal'.status = journal.status
            /\ journal'.applied = journal.applied \cup {i} /\ journal'.undone = journal.undone
        BY <2>1, <4>1 DEF Journals
      <4>3. i \notin touched => dir[i]["file"] = target[i]
        BY <1>1, <2>1, <3>3 DEF InPlace
      <4>4. InPlace'
        BY <1>1, <1>5, <2>1, <3>2, <4>2, <4>3 DEF InPlace, files, rows, others, Undoing
      <4>5. InOrder'
        BY <1>1, <2>1, <3>2, <3>3, <4>2 DEF InOrder, Earlier, Done, Undoing, OnRow
      <4>6. Closed'
        BY <1>1, <1>3, <2>1, <3>2, <4>2 DEF Closed, OnRow
      <4> QED BY <1>6, <2>1, <4>4, <4>5, <4>6
    <3>4. CASE Undoing
      <4>1. journal' = [journal EXCEPT !.undone = @ \cup {i}] /\ dir[i]["file"] = expected[i]
        BY <1>24, <2>3, <3>4 DEF Record
      <4>2. /\ journal'.direction = journal.direction /\ journal'.status = journal.status
            /\ journal'.applied = journal.applied /\ journal'.undone = journal.undone \cup {i}
        BY <2>1, <4>1 DEF Journals
      <4>3. InPlace'
        BY <1>1, <1>5, <2>1, <3>2, <4>1, <4>2 DEF InPlace, files, rows, others, Undoing
      <4>4. InOrder'
        BY <1>1, <2>1, <3>2, <3>4, <4>2 DEF InOrder, Earlier, Done, Undoing, OnRow
      <4>5. Closed'
        BY <1>1, <1>3, <2>1, <3>2, <4>2 DEF Closed, OnRow
      <4> QED BY <1>6, <2>1, <4>3, <4>4, <4>5
    <3> QED BY <3>3, <3>4
  <2> QED BY <2>2, <2>3
<1>25. CASE RowEnds
  <2> DEFINE i == run.row
  <2>1. /\ UNCHANGED outcome /\ run.at = "next" /\ i \in Rows /\ journal \in Journals
        /\ i \in Done /\ Earlier(i) \subseteq Done
    BY <1>1, <1>4, <1>25 DEF RowEnds, OnRow, ControlOK, InOrder
  <2>2. CASE NextRow(i) # 0
    <3>1. journal' = journal /\ run'.at = "row" /\ run'.row = NextRow(i)
      BY <1>25, <2>2 DEF RowEnds
    <3>2. Earlier(NextRow(i)) \subseteq Done
      BY <2>1, <2>2, Shape DEF Earlier, NextRow, Rows
    <3>3. InPlace'
      BY <1>1, <3>1, StepInPlace
    <3>4. InOrder'
      BY <1>1, <3>1, <3>2 DEF InOrder, Earlier, Done, Undoing, OnRow
    <3>5. Closed'
      BY <1>1, <1>3, <2>1, <3>1 DEF Closed
    <3> QED BY <1>6, <2>1, <3>3, <3>4, <3>5
  <2>3. CASE NextRow(i) = 0
    <3>1. /\ journal' = [journal EXCEPT !.status = IF Undoing THEN "rolled-back" ELSE "completed"]
          /\ run'.at = "cleanup"
      BY <1>25, <2>3 DEF RowEnds
    <3>2. /\ journal'.direction = journal.direction
          /\ journal'.status = IF Undoing THEN "rolled-back" ELSE "completed"
          /\ journal'.applied = journal.applied /\ journal'.undone = journal.undone
      BY <2>1, <3>1 DEF Journals
    <3>3. Rows \subseteq Done
      BY <2>1, <2>3, Shape DEF Earlier, NextRow, Rows
    <3>4. Done = Rows
      BY <2>1, <3>3 DEF Done, Journals
    <3>5. InPlace'
      BY <1>1, <3>1, <3>2, StepInPlace
    <3>6. InOrder'
      BY <1>1, <3>1, <3>2 DEF InOrder, Undoing, OnRow
    <3>7. Closed'
      BY <1>3, <2>1, <3>1, <3>2, <3>4 DEF Closed, Done, Undoing, Nothing
    <3> QED BY <1>6, <2>1, <3>5, <3>6, <3>7
  <2> QED BY <2>2, <2>3
<1>26. CASE CleanName
  <2>1. CASE Throw
    BY <1>7, <1>26, <2>1 DEF CleanName
  <2>2. CASE UNCHANGED <<run, journal>>
    <3>1. run.at \notin Changing /\ UNCHANGED <<rows, outcome>> /\ touched' = touched
      BY <1>26 DEF CleanName, Changing, others
    <3>2. \A j \in Rows \ touched' : dir'[j]["file"] = dir[j]["file"]
      BY <3>1, ProcessFiles
    <3> QED BY <2>2, <3>1, <3>2, SameProgress
  <2> QED BY <1>26, <2>1, <2>2 DEF CleanName
<1>27. CASE Close
  <2>1. /\ journal' = NoJournal /\ run' = Idle /\ outcome' = journal.status /\ UNCHANGED files
        /\ journal.status \in {"completed", "rolled-back"}
    BY <1>27 DEF Close, ControlOK
  <2>2. /\ journal'.status = Nothing /\ journal'.direction = "finish"
        /\ journal'.applied = {} /\ journal'.undone = {} /\ run'.at = "idle"
    BY <2>1, SomeRuns DEF NoJournal
  <2>3. InPlace' /\ InOrder' /\ Closed'
    BY <2>2 DEF InPlace, InOrder, Closed, OnRow, Nothing
  <2>4. RestoredOrPut'
    BY <1>1, <1>5, <2>1 DEF RestoredOrPut, InPlace, Closed, files, rows, others
  <2> QED BY <2>3, <2>4 DEF ProgressOK
<1>28. CASE Refuse
  <2>1. /\ UNCHANGED outcome /\ Fail("refused")
    BY <1>28 DEF Refuse
  <2> QED BY <1>1, <1>2, <1>6, <2>1, FailOrder, StepInPlace
<1> QED
  BY <1>10, <1>11, <1>12, <1>13, <1>14, <1>15, <1>16, <1>17, <1>18, <1>19, <1>20, <1>21, <1>22,
     <1>23, <1>24, <1>25, <1>26, <1>27, <1>28 DEF Process

LEMMA ProgressHolds == FSpec => []ProgressOK
<1>1. FInit => ProgressOK
  <2> SUFFICES ASSUME FInit PROVE ProgressOK
    OBVIOUS
  <2>1. /\ journal.status = Nothing /\ journal.applied = {} /\ journal.undone = {}
        /\ run.at = "idle" /\ outcome = Nothing
    BY SomeRuns DEF FInit, NoJournal
  <2> QED BY <2>1 DEF ProgressOK, InPlace, InOrder, Closed, RestoredOrPut, OnRow, Nothing
<1>2. ControlOK /\ FixedOK /\ FilesOK /\ ProgressOK /\ [FNext]_fvars => ProgressOK'
  <2> SUFFICES ASSUME ControlOK, FixedOK, FilesOK, ProgressOK, [FNext]_fvars PROVE ProgressOK'
    OBVIOUS
  <2>1. CASE Process
    BY <2>1, ProcessProgress
  <2>2. CASE Prepare
    <3>1. /\ journal'.status = "prepared" /\ journal'.direction = "finish"
          /\ journal'.applied = {} /\ journal'.undone = {} /\ run'.at = "begin"
          /\ outcome' = Nothing
      BY <2>2 DEF Prepare, NoJournal
    <3> QED BY <3>1 DEF ProgressOK, InPlace, InOrder, Closed, RestoredOrPut, OnRow, Nothing
  <2>3. CASE Crash
    <3>1. run'.at = "idle" /\ UNCHANGED <<files, rows, journal, outcome, others>>
      BY <2>3, SomeRuns DEF Crash
    <3> QED BY <3>1 DEF ProgressOK, InPlace, InOrder, Closed, RestoredOrPut, OnRow, Undoing,
                        files, rows, others
  <2>4. CASE Others
    <3>1. PICK i \in Rows : \/ \E content \in Edits, inPlace \in BOOLEAN : Edit(i, content, inPlace)
                          \/ \E content \in ByHand : PutByHand(i, content)
      BY <2>4 DEF Others
    <3>2. /\ run' = run /\ journal' = journal /\ UNCHANGED <<rows, outcome>>
          /\ touched' = touched \cup {i}
      BY <3>1 DEF Edit, PutByHand
    <3>3. \A j \in Rows \ touched' : dir'[j]["file"] = dir[j]["file"]
      BY <3>1, <3>2, EditIs, PutByHandIs, NamesOK
    <3> QED BY <3>2, <3>3, SameProgress
  <2>5. ASSUME NEW action \in {"finish", "rollback"}, Recover(action) PROVE ProgressOK'
    <3>1. /\ run.at = "idle" /\ UNCHANGED <<files, rows, outcome, others>>
          /\ journal.status # Nothing /\ outcome = Nothing
      BY <2>5, SomeRuns DEF Recover, ProgressOK, Closed
    <3>2. CASE journal.status \in {"completed", "rolled-back"}
      <4>1. run'.at = "recleanup" /\ journal' = journal
        BY <2>5, <3>2 DEF Recover
      <4> QED BY <3>1, <4>1 DEF ProgressOK, InPlace, InOrder, Closed, RestoredOrPut, OnRow, Undoing,
                                files, rows, others
    <3>3. CASE journal.status \notin {"completed", "rolled-back"}
      <4>1. /\ run'.at = "begin" /\ journal'.status = journal.status
            /\ journal'.direction \in {journal.direction, "rollback"}
            /\ journal'.applied = journal.applied /\ journal'.undone = journal.undone
        BY <2>5, <3>3 DEF Recover, ControlOK, Journals
      <4> QED BY <3>1, <3>3, <4>1 DEF ProgressOK, InPlace, InOrder, Closed, RestoredOrPut, OnRow,
                                      Undoing, files, rows, others
    <3> QED BY <3>2, <3>3
  <2>6. CASE UNCHANGED fvars
    <3>1. /\ run' = run /\ journal' = journal /\ UNCHANGED <<rows, outcome>> /\ touched' = touched
          /\ dir' = dir
      BY <2>6 DEF fvars, rows
    <3> QED BY <3>1, SameProgress
  <2> QED BY <2>1, <2>2, <2>3, <2>4, <2>5, <2>6 DEF FNext
<1> QED BY <1>1, <1>2, ControlHolds, FixedHolds, FilesHold, PTL DEF FSpec

(* A closed restore was all or nothing for every file that nobody else edited: *)
(* the rows are done in order, a row is recorded only with its file in place,  *)
(* and a recorded row is not replaced again in that direction.                 *)
THEOREM AllOrNothing == FSpec => []RestoredOrPut
<1>1. ProgressOK => RestoredOrPut
  BY DEF ProgressOK
<1> QED BY <1>1, ProgressHolds, PTL

----------------------------------------------------------------------------
(* While nobody else edits the files.  A row has its old file, in its place or   *)
(* in its hold, until it has its new one; to roll it back, the new one waits in  *)
(* the hold of the rollback.  A stage may not be written out.                    *)
RowShape(i) ==
  LET file == dir[i]["file"]
      hold == dir[i]["hold"]
      undo == dir[i]["undo"]
  IN /\ hold \in {Nothing, expected[i]} /\ undo \in {Nothing, target[i]}
     /\ dir[i]["hold.next"] \in {Nothing, "partial", target[i]}
     /\ dir[i]["undo.next"] \in {Nothing, "partial", expected[i]}
     /\ ~Undoing =>
          /\ undo = Nothing /\ dir[i]["undo.next"] = Nothing
          /\ \/ file = expected[i] /\ hold = Nothing
             \/ file = Nothing /\ hold = expected[i]
             \/ file = target[i]
     /\ Undoing =>
          \/ file = expected[i]
          \/ file = target[i] /\ (target[i] # Nothing => undo = Nothing)
          \/ file = Nothing /\ (hold = expected[i] \/ undo = target[i])
Shaped == \A i \in Rows : RowShape(i)

(* What the process, alone on its row, knows of the file it replaces. *)
AtRow ==
  LET i == run.row
      file == dir[i]["file"]
  IN /\ run.at \notin {"give back", "given back"}
     /\ run.at = "checks" => ~(Undoing /\ file = Nothing /\ dir[i]["hold"] # Nothing)
     /\ run.at = "vacate" => file = From(i) /\ file # Nothing
     /\ run.at = "verify" => file = Nothing /\ dir[i][Hold] = From(i)
     /\ run.at \in {"stage", "fill"} => file = Nothing
     /\ run.at = "install" => file = Nothing /\ dir[i][Stage] = To(i)
     /\ run.at = "put back" => file = Nothing /\ dir[i]["hold"] = expected[i]
     /\ run.at \in {"unlink hold", "unlink stage", "confirm", "record"} => file = To(i)

Leftover == \E i \in Rows : twin[i] # Nothing \/ \E n \in Names : dir[i][n] = "partial"
Alone ==
  /\ journal.status = "interrupted" => run.at \in {"idle", "begin"}
  /\ journal.status = Nothing => ~Undoing
  /\ touched = {} => /\ Shaped /\ (run.at \in OnRow => AtRow)
                     /\ journal.status = "interrupted" /\ journal.issue = "conflict" => Leftover

LEMMA RowNames == {"file", "hold", "hold.next", "undo", "undo.next"} \subseteq Names
BY DEF Names

LEMMA UnsafeLeft == ASSUME NEW i \in Rows, NEW names, ~Safe(i, names) PROVE Leftover
BY DEF Safe, Unsafe, Leftover

(* The files of a row of which only the private name "name" has changed, or the *)
(* file itself, keep the shape if the row does.                                 *)
LEMMA OtherRows ==
  ASSUME Shaped, UNCHANGED rows, Undoing' = Undoing, NEW i \in Rows,
         \A j \in Rows \ {i}, n \in Names : dir'[j][n] = dir[j][n],
         RowShape(i)'
  PROVE  Shaped'
BY RowNames DEF Shaped, RowShape, rows

LEMMA SameShape ==
  ASSUME Shaped, UNCHANGED <<dir, rows>>, Undoing' = Undoing
  PROVE  Shaped'
BY DEF Shaped, RowShape, rows

LEMMA SameLeftover == ASSUME Leftover, UNCHANGED files PROVE Leftover'
BY DEF Leftover, files

(* The process goes on, or fails for a leftover. *)
LEMMA GotoAlone ==
  ASSUME ControlOK, Alone, run.at \in OnRow, NEW at \in OnRow, Goto(at), UNCHANGED touched,
         touched = {} => Shaped' /\ AtRow'
  PROVE  Alone'
<1>1. run'.at = at /\ run'.row = run.row /\ journal' = journal
  BY GotoIs
<1>2. journal.status # "interrupted"
  BY DEF Alone, OnRow
<1> QED BY <1>1, <1>2 DEF Alone, Undoing

LEMMA FailAlone ==
  ASSUME ControlOK, Alone, run.at # "begin", run.at # "idle", NEW issue, Fail(issue), UNCHANGED touched,
         touched = {} => Shaped' /\ (issue = "conflict" => Leftover')
  PROVE  Alone'
<1>1. run'.at = "idle" /\ "idle" \notin OnRow
  BY SomeRuns DEF Fail, OnRow
<1>2. journal.status # "interrupted"
  BY DEF Alone
<1>3. journal' = journal \/ (journal'.issue = issue /\ journal'.status = "interrupted")
  BY DEF Fail, ControlOK, Journals
<1> QED BY <1>1, <1>2, <1>3 DEF Alone, Undoing, Nothing

LEMMA ThrowAlone ==
  ASSUME ControlOK, Alone, run.at # "begin", run.at # "idle", Throw, UNCHANGED files, UNCHANGED rows,
         UNCHANGED touched, touched = {} => Leftover
  PROVE  Alone'
<1>1. touched = {} => Shaped'
  <2>1. Undoing' = Undoing
    BY DEF Throw, Fail, Undoing, ControlOK, Journals
  <2> QED BY <2>1, SameShape DEF Alone, files
<1> QED BY <1>1, FailAlone, SameLeftover DEF Throw

(* A step to another place that leaves the files alone. *)
LEMMA StayAlone ==
  ASSUME ControlOK, Alone, run.at \in OnRow, NEW at \in OnRow, Goto(at), UNCHANGED <<files, rows, touched>>,
         touched = {} => AtRow'
  PROVE  Alone'
<1>1. touched = {} => Shaped'
  BY GotoIs, SameShape DEF Alone, files, Undoing
<1> QED BY <1>1, GotoAlone

(* One row of a restore that nobody disturbs. *)
LEMMA RowBeginsAlone ==
  ASSUME ControlOK, FixedOK, ProgressOK, Alone, RowBegins PROVE Alone'
<1> DEFINE i == run.row
<1>1. /\ i \in Rows /\ run.at = "row" /\ run.at \in OnRow
      /\ UNCHANGED <<files, rows, touched>>
  BY DEF RowBegins, ControlOK, OnRow, others
<1>2. ASSUME Goto("record"), touched = {} => dir[i]["file"] = To(i) PROVE Alone'
  <2>1. touched = {} => AtRow'
    BY <1>1, <1>2, GotoIs DEF AtRow, To, Undoing, OnRow, files, rows
  <2> QED BY <1>1, <1>2, <2>1, StayAlone DEF OnRow
<1>3. ASSUME Throw, touched = {} => Leftover PROVE Alone'
  BY <1>1, <1>3, ThrowAlone DEF OnRow
<1>4. ASSUME Goto("checks"), ~(Undoing /\ dir[i]["file"] = Nothing /\ dir[i]["hold"] # Nothing) PROVE Alone'
  <2>1. AtRow'
    BY <1>1, <1>4, GotoIs DEF AtRow, Undoing, OnRow, files
  <2> QED BY <1>1, <1>4, <2>1, StayAlone DEF OnRow
<1>5. CASE ~Undoing
  <2>1. i \in journal.applied /\ touched = {} => dir[i]["file"] = target[i]
    BY <1>1, <1>5 DEF ProgressOK, InPlace
  <2>2. CASE i \notin journal.applied
    BY <1>4, <1>5, <2>2 DEF RowBegins, FinishRow
  <2>3. CASE i \in journal.applied /\ Goto("record") /\ dir[i]["file"] = target[i]
    BY <1>2, <1>5, <2>3 DEF To
  <2>4. CASE i \in journal.applied /\ Throw /\ (~Safe(i, {"file"}) \/ dir[i]["file"] # target[i])
    BY <1>1, <1>3, <2>1, <2>4, UnsafeLeft
  <2> QED BY <1>5, <2>2, <2>3, <2>4 DEF RowBegins, FinishRow
<1>6. CASE Undoing
  <2>1. i \in journal.undone /\ touched = {} => dir[i]["file"] = expected[i]
    BY <1>1, <1>6 DEF ProgressOK, InPlace
  <2>2. CASE i \in journal.undone
    BY <1>2, <1>6, <2>1, <2>2 DEF RowBegins, RollBackRow, To
  <2>3. CASE Throw /\ ~Safe(i, {"file", "hold"})
    BY <1>1, <1>3, <2>3, UnsafeLeft
  <2>4. CASE Throw /\ dir[i]["hold"] # Nothing /\ dir[i]["hold"] # expected[i]
    BY <1>1, <1>3, <2>4 DEF Alone, Shaped, RowShape
  <2>5. CASE Goto("put back") /\ dir[i]["file"] = Nothing /\ dir[i]["hold"] = expected[i]
    <3>1. AtRow'
      BY <1>1, <2>5, GotoIs DEF AtRow, OnRow, files, rows
    <3> QED BY <1>1, <2>5, <3>1, StayAlone DEF OnRow
  <2>6. CASE Goto("record") /\ dir[i]["file"] = expected[i]
    BY <1>2, <1>6, <2>6 DEF To
  <2>7. CASE Goto("checks") /\ ~(dir[i]["hold"] # Nothing /\ dir[i]["file"] = Nothing)
    BY <1>4, <2>7
  <2> QED BY <1>6, <2>2, <2>3, <2>4, <2>5, <2>6, <2>7 DEF RowBegins, RollBackRow
<1> QED BY <1>5, <1>6

LEMMA ChecksAlone ==
  ASSUME ControlOK, FixedOK, Alone, Checks PROVE Alone'
<1> DEFINE i == run.row
           current == dir[i]["file"]
           away == dir[i][Hold]
<1>1. /\ i \in Rows /\ run.at = "checks" /\ run.at \in OnRow
      /\ UNCHANGED <<files, rows, touched>>
  BY DEF Checks, ControlOK, OnRow, others
<1>2. CASE Goto("record") /\ current = To(i)
  <2>1. AtRow'
    BY <1>1, <1>2, GotoIs DEF AtRow, To, Undoing, OnRow, files, rows
  <2> QED BY <1>1, <1>2, <2>1, StayAlone DEF OnRow
<1>3. CASE Goto("stage") /\ current = Nothing
  <2>1. AtRow'
    BY <1>1, <1>3, GotoIs DEF AtRow, OnRow, files
  <2> QED BY <1>1, <1>3, <2>1, StayAlone DEF OnRow
<1>4. CASE Goto("vacate") /\ current = From(i) /\ current # Nothing
  <2>1. AtRow'
    BY <1>1, <1>4, GotoIs DEF AtRow, From, Undoing, OnRow, files, rows
  <2> QED BY <1>1, <1>4, <2>1, StayAlone DEF OnRow
<1> DEFINE Expected == /\ away # Nothing => current = To(i) \/ (away = From(i) /\ current = Nothing)
                       /\ away = Nothing => current = To(i) \/ current = From(i)
<1>5. ASSUME touched = {} PROVE Expected
  <2>1. RowShape(i) /\ ~(Undoing /\ current = Nothing /\ dir[i]["hold"] # Nothing)
    BY <1>1, <1>5 DEF Alone, Shaped, AtRow
  <2>2. CASE Undoing
    BY <2>1, <2>2 DEF RowShape, To, From, Hold
  <2>3. CASE ~Undoing
    BY <2>1, <2>3 DEF RowShape, To, From, Hold
  <2> QED BY <2>2, <2>3
<1>6. CASE Throw /\ (Safe(i, {"file", Hold}) => ~Expected)
  <2>1. touched = {} => Leftover
    <3>1. touched = {} => ~Safe(i, {"file", Hold})
      BY <1>5, <1>6
    <3> QED BY <1>1, <3>1, UnsafeLeft
  <2>2. Throw /\ UNCHANGED files /\ UNCHANGED rows /\ UNCHANGED touched /\ run.at # "begin" /\ run.at # "idle"
    BY <1>1, <1>6
  <2> QED BY <2>1, <2>2, ThrowAlone
<1> QED BY <1>2, <1>3, <1>4, <1>6 DEF Checks

LEMMA VacateAlone ==
  ASSUME ControlOK, FixedOK, FilesOK, Known, Alone, Vacate PROVE Alone'
<1> DEFINE i == run.row
<1>1. /\ i \in Rows /\ run.at = "vacate" /\ run.at \in OnRow
      /\ UNCHANGED <<twin, rows, touched>>
  BY DEF Vacate, ControlOK, OnRow, others
<1>2. CASE Throw /\ UNCHANGED dir /\ dir[i]["file"] = Nothing
  <2>1. touched # {}
    BY <1>1, <1>2 DEF Alone, AtRow
  <2> QED BY <1>1, <1>2, <2>1, ThrowAlone DEF OnRow, files
<1>3. CASE /\ dir' = [dir EXCEPT ![i] = [@ EXCEPT ![Hold] = dir[i]["file"], !["file"] = Nothing]]
           /\ Goto("verify")
  <2>1. \A j \in Rows, n \in Names :
          dir'[j][n] = IF j = i /\ n = "file" THEN Nothing
                       ELSE IF j = i /\ n = Hold THEN dir[i]["file"] ELSE dir[j][n]
    BY <1>1, <1>3, VacateIs, NamesOK DEF FilesOK
  <2>2. run'.at = "verify" /\ run'.row = i /\ Hold' = Hold /\ From(i)' = From(i) /\ Undoing' = Undoing
    BY <1>1, <1>3, GotoIs DEF OnRow, rows, From, Undoing
  <2>3. ASSUME touched = {} PROVE Shaped' /\ AtRow'
    <3>1. RowShape(i) /\ dir[i]["file"] = From(i) /\ dir[i][Hold] = Nothing /\ From(i) # Nothing
      BY <1>1, <2>3 DEF Alone, Shaped, AtRow, Known
    <3>2. dir'[i]["file"] = Nothing /\ dir'[i][Hold] = From(i)
      BY <1>1, <2>1, <3>1, NamesOK
    <3>3. RowShape(i)'
      <4>1. CASE Undoing
        BY <1>1, <2>1, <2>2, <3>1, <4>1, RowNames DEF RowShape, Hold, From, rows
      <4>2. CASE ~Undoing
        BY <1>1, <2>1, <2>2, <3>1, <4>2, RowNames DEF RowShape, Hold, From, rows
      <4> QED BY <4>1, <4>2
    <3>4. Shaped'
      BY <1>1, <2>1, <2>2, <2>3, <3>3, OtherRows DEF Alone
    <3>5. AtRow'
      BY <2>2, <3>2 DEF AtRow
    <3> QED BY <3>4, <3>5
  <2> QED BY <1>1, <1>3, <2>3, GotoAlone DEF OnRow
<1> QED BY <1>2, <1>3 DEF Vacate

LEMMA VerifyAlone ==
  ASSUME ControlOK, Alone, Verify PROVE Alone'
<1> DEFINE i == run.row
<1>1. /\ run.at = "verify" /\ run.at \in OnRow /\ UNCHANGED <<files, rows, touched>>
      /\ touched = {} => dir[i]["file"] = Nothing /\ dir[i][Hold] = From(i)
  BY DEF Verify, OnRow, others, Alone, AtRow
<1>2. CASE Goto("give back") /\ dir[i][Hold] # From(i)
  BY <1>1, <1>2, StayAlone DEF OnRow
<1>3. CASE Goto("confirm") /\ To(i) = Nothing
  <2>1. touched = {} => AtRow'
    BY <1>1, <1>3, GotoIs DEF AtRow, To, Undoing, OnRow, files, rows
  <2> QED BY <1>1, <1>3, <2>1, StayAlone DEF OnRow
<1>4. CASE Goto("stage")
  <2>1. touched = {} => AtRow'
    BY <1>1, <1>4, GotoIs DEF AtRow, OnRow, files
  <2> QED BY <1>1, <1>4, <2>1, StayAlone DEF OnRow
<1> QED BY <1>2, <1>3, <1>4 DEF Verify

(* A name is linked into the free place of the file. *)
LEMMA LinkAlone ==
  ASSUME ControlOK, FilesOK, Alone, run.row \in Rows, NEW name \in Private,
         LinkAsFile(name, IF name = "hold" THEN "unlink hold" ELSE "unlink stage"),
         run.at \in OnRow, UNCHANGED <<rows, touched>>,
         touched = {} => dir[run.row]["file"] = Nothing /\ dir[run.row][name] = To(run.row)
  PROVE  Alone'
<1> DEFINE i == run.row
           then == IF name = "hold" THEN "unlink hold" ELSE "unlink stage"
<1>1. CASE Throw /\ UNCHANGED files /\ dir[i]["file"] # Nothing
  BY <1>1, ThrowAlone DEF OnRow
<1>2. CASE Put(i, "file", dir[i][name]) /\ twin' = [twin EXCEPT ![i] = name] /\ Goto(then)
  <2>1. \A j \in Rows, n \in Names :
          dir'[j][n] = IF j = i /\ n = "file" THEN dir[i][name] ELSE dir[j][n]
    <3>1. Put(run.row, "file", dir[run.row][name]) /\ twin' = [twin EXCEPT ![run.row] = name]
      BY <1>2
    <3>2. /\ dir' \in Directories
          /\ \A j \in Rows, n \in Names :
               dir'[j][n] = IF j = run.row /\ n = "file" THEN dir[run.row][name] ELSE dir[j][n]
          /\ \A j \in Rows : twin'[j] = IF j = run.row THEN name ELSE twin[j]
          /\ twin' \in [Rows -> {Nothing} \cup Private]
      BY <3>1, LinkIs
    <3> QED BY <3>2
  <2>2. then \in OnRow /\ then \in {"unlink hold", "unlink stage"}
    BY DEF OnRow
  <2>3. run'.at = then /\ run'.row = i /\ Undoing' = Undoing /\ To(i)' = To(i)
    BY <1>2, <2>2, GotoIs DEF rows, To, Undoing
  <2>4. ASSUME touched = {} PROVE Shaped' /\ AtRow'
    <3>1. RowShape(i) /\ dir[i][name] = To(i)
      BY <2>4 DEF Alone, Shaped
    <3>2. dir'[i]["file"] = To(i) /\ \A n \in Private : dir'[i][n] = dir[i][n]
      BY <2>1, <3>1, NamesOK
    <3>3. RowShape(i)'
      <4>1. /\ "hold" \in Private /\ "hold.next" \in Private /\ "undo" \in Private /\ "undo.next" \in Private
        BY DEF Private, Names
      <4>2. RowShape(i) /\ dir[i]["file"] = Nothing
        BY <2>4, <3>1
      <4> QED BY <2>3, <3>2, <4>1, <4>2, ZenonT(60) DEF RowShape, To, rows
    <3>4. Shaped'
      BY <2>1, <2>3, <2>4, <3>3, OtherRows DEF Alone
    <3>5. AtRow'
      BY <2>2, <2>3, <3>2 DEF AtRow
    <3> QED BY <3>4, <3>5
  <2> QED BY <1>2, <2>2, <2>4, GotoAlone
<1> QED BY <1>1, <1>2 DEF LinkAsFile

(* Once the file is in place, any private name may go. *)
LEMMA UnlinkShaped ==
  ASSUME FilesOK, Shaped, UNCHANGED rows, Undoing' = Undoing, NEW i \in Rows, NEW name \in Private,
         Unlink(i, name), dir[i]["file"] = To(i)
  PROVE  Shaped' /\ dir'[i]["file"] = To(i)
<1>1. /\ dir' \in Directories
      /\ \A j \in Rows, n \in Names :
           dir'[j][n] = IF j = i /\ n = name THEN Nothing ELSE dir[j][n]
      /\ \A j \in Rows : twin'[j] = IF j = i /\ twin[i] = name THEN Nothing ELSE twin[j]
      /\ twin' \in [Rows -> {Nothing} \cup Private]
  BY UnlinkIs
<1>2. dir'[i]["file"] = To(i) /\ \A n \in Private : dir'[i][n] \in {Nothing, dir[i][n]}
  BY <1>1, NamesOK
<1>3. /\ "hold" \in Private /\ "hold.next" \in Private /\ "undo" \in Private /\ "undo.next" \in Private
  BY DEF Private, Names
<1>4. RowShape(i)
  BY DEF Shaped
<1>5. RowShape(i)'
  BY <1>2, <1>3, <1>4 DEF RowShape, To, rows
<1>6. Shaped'
  BY <1>1, <1>5, OtherRows
<1> QED BY <1>2, <1>6

LEMMA UnlinkAlone ==
  ASSUME ControlOK, FilesOK, Alone, UnlinkHold \/ UnlinkStage, ProgressOK PROVE Alone'
<1> DEFINE i == run.row
<1>1. /\ i \in Rows /\ run.at \in OnRow /\ run.at \in {"unlink hold", "unlink stage"}
      /\ UNCHANGED <<rows, touched>> /\ Stage \in Private /\ "hold" \in Private
  BY NamesOK DEF UnlinkHold, UnlinkStage, ControlOK, OnRow, others
<1>2. touched = {} => Shaped /\ dir[i]["file"] = To(i)
  BY <1>1 DEF Alone, AtRow
<1>3. PICK name \in {"hold", Stage} :
        Unlink(i, name) /\ \/ Goto("record")
                           \/ Goto("confirm")
  BY DEF UnlinkHold, UnlinkStage
<1>4. PICK at \in {"record", "confirm"} : Goto(at)
  BY <1>3
<1>5. run'.at = at /\ run'.row = i /\ Undoing' = Undoing /\ To(i)' = To(i)
  BY <1>1, <1>4, GotoIs DEF OnRow, rows, To, Undoing
<1>6. ASSUME touched = {} PROVE Shaped' /\ AtRow'
  <2>1. Shaped' /\ dir'[i]["file"] = To(i)
    BY <1>1, <1>2, <1>3, <1>5, <1>6, UnlinkShaped
  <2>2. AtRow'
    BY <1>5, <2>1 DEF AtRow
  <2> QED BY <2>1, <2>2
<1> QED BY <1>1, <1>4, <1>6, GotoAlone DEF OnRow

LEMMA StageAlone ==
  ASSUME ControlOK, FixedOK, FilesOK, Alone, CreateStage \/ FillStage PROVE Alone'
<1> DEFINE i == run.row
<1>1. /\ i \in Rows /\ run.at \in OnRow /\ run.at \in {"stage", "fill"}
      /\ UNCHANGED <<twin, rows, touched>> /\ Stage \in Private /\ Stage \in Names
  BY NamesOK DEF CreateStage, FillStage, ControlOK, OnRow, others
<1>2. touched = {} => RowShape(i) /\ Shaped /\ dir[i]["file"] = Nothing
  BY <1>1 DEF Alone, AtRow, Shaped
<1>3. ASSUME NEW content \in {"partial", To(i)}, Put(i, Stage, content), NEW at \in {"fill", "install"}, Goto(at),
             at = "install" => content = To(i)
      PROVE  Alone'
  <2>1. content \in Contents
    BY <1>1, ImagesOK, ContentsOK
  <2>2. /\ dir' \in Directories
        /\ \A j \in Rows, n \in Names :
             dir'[j][n] = IF j = i /\ n = Stage THEN content ELSE dir[j][n]
    BY <1>1, <1>3, <2>1, PutIs DEF FilesOK
  <2>3. run'.at = at /\ run'.row = i /\ Stage' = Stage /\ Undoing' = Undoing /\ To(i)' = To(i)
    BY <1>1, <1>3, GotoIs DEF OnRow, rows, To, Undoing
  <2>4. ASSUME touched = {} PROVE Shaped' /\ AtRow'
    <3>1. dir'[i]["file"] = Nothing /\ dir'[i][Stage] = content
      BY <1>1, <1>2, <2>2, <2>4, NamesOK
    <3>2. RowShape(i)'
      <4>1. CASE Undoing
        BY <1>1, <1>2, <2>2, <2>3, <2>4, <4>1, RowNames DEF RowShape, Stage, To, rows
      <4>2. CASE ~Undoing
        BY <1>1, <1>2, <2>2, <2>3, <2>4, <4>2, RowNames DEF RowShape, Stage, To, rows
      <4> QED BY <4>1, <4>2
    <3>3. Shaped'
      BY <1>1, <1>2, <2>2, <2>3, <2>4, <3>2, OtherRows
    <3>4. AtRow'
      BY <1>3, <2>3, <3>1 DEF AtRow
    <3> QED BY <3>3, <3>4
  <2> QED BY <1>1, <1>3, <2>4, GotoAlone DEF OnRow
<1>4. CASE CreateStage /\ dir[i][Stage] = Nothing
  BY <1>3, <1>4 DEF CreateStage
<1>5. CASE FillStage
  BY <1>3, <1>5 DEF FillStage
<1>6. CASE UNCHANGED dir /\ Goto("install") /\ dir[i][Stage] = To(i)
  <2>1. run'.at = "install" /\ run'.row = i /\ Stage' = Stage /\ To(i)' = To(i)
    BY <1>1, <1>6, GotoIs DEF OnRow, rows, To, Undoing
  <2>2. touched = {} => AtRow'
    BY <1>2, <1>6, <2>1 DEF AtRow
  <2> QED BY <1>1, <1>6, <2>2, StayAlone DEF OnRow, files
<1>7. CASE UNCHANGED dir /\ Throw /\ dir[i][Stage] # Nothing /\ (~Safe(i, {Stage}) \/ dir[i][Stage] # To(i))
  <2>1. touched = {} => dir[i][Stage] \in {Nothing, "partial", To(i)}
    BY <1>2 DEF RowShape, Stage, To
  <2>2. touched = {} => Leftover
    <3>1. dir[i][Stage] = "partial" => Leftover
      BY <1>1 DEF Leftover
    <3> QED BY <1>1, <1>7, <2>1, <3>1, UnsafeLeft
  <2> QED BY <1>1, <1>7, <2>2, ThrowAlone DEF files
<1> QED BY <1>4, <1>5, <1>6, <1>7 DEF CreateStage

LEMMA ConfirmAlone ==
  ASSUME ControlOK, Alone, Confirm PROVE Alone'
<1> DEFINE i == run.row
<1>1. /\ i \in Rows /\ run.at \in OnRow /\ run.at = "confirm" /\ UNCHANGED <<files, rows, touched>>
  BY DEF Confirm, ControlOK, OnRow, others
<1>2. CASE Goto("record") /\ dir[i]["file"] = To(i)
  <2>1. AtRow'
    BY <1>1, <1>2, GotoIs DEF AtRow, To, Undoing, OnRow, files, rows
  <2> QED BY <1>1, <1>2, <2>1, StayAlone DEF OnRow
<1>3. CASE Throw /\ (~Safe(i, {"file"}) \/ dir[i]["file"] # To(i))
  <2>1. touched = {} => dir[i]["file"] = To(i)
    BY <1>1 DEF Alone, AtRow
  <2>2. touched = {} => Leftover
    BY <1>1, <1>3, <2>1, UnsafeLeft
  <2> QED BY <1>1, <1>3, <2>2, ThrowAlone
<1> QED BY <1>2, <1>3 DEF Confirm

(* Between the rows: nothing of the files changes. *)
LEMMA QuietAlone ==
  ASSUME Alone, UNCHANGED <<dir, rows, touched>>, Undoing' = Undoing,
         run'.at \in OnRow => run'.at \in {"row", "next"},
         journal'.status # "interrupted", journal'.status = Nothing => ~Undoing'
  PROVE  Alone'
<1>1. touched = {} => Shaped'
  BY SameShape DEF Alone
<1>2. run'.at \in OnRow => AtRow'
  BY DEF AtRow
<1> QED BY <1>1, <1>2 DEF Alone

LEMMA RecordAlone ==
  ASSUME ControlOK, Alone, Record PROVE Alone'
<1> DEFINE i == run.row
<1>1. /\ i \in Rows /\ run.at \in OnRow /\ run.at = "record" /\ UNCHANGED <<files, rows, touched>>
      /\ journal.status # "interrupted" /\ journal \in Journals /\ run \in Runs
  BY DEF Record, ControlOK, OnRow, others, Alone
<1>2. CASE Throw /\ Undoing /\ ~(Safe(i, {"file"}) /\ dir[i]["file"] = expected[i])
  <2>1. touched = {} => dir[i]["file"] = expected[i]
    BY <1>1, <1>2 DEF Alone, AtRow, To
  <2>2. touched = {} => Leftover
    BY <1>1, <1>2, <2>1, UnsafeLeft
  <2> QED BY <1>1, <1>2, <2>2, ThrowAlone
<1>3. CASE /\ run' = [run EXCEPT !.at = "next"]
           /\ \/ journal' = [journal EXCEPT !.applied = @ \cup {i}]
              \/ journal' = [journal EXCEPT !.undone = @ \cup {i}]
  <2>1. run'.at = "next" /\ journal'.status = journal.status /\ Undoing' = Undoing
    BY <1>1, <1>3 DEF Runs, Journals, Undoing
  <2> QED BY <1>1, <2>1, QuietAlone DEF Alone, files
<1> QED BY <1>2, <1>3 DEF Record

LEMMA BetweenAlone ==
  ASSUME ControlOK, Alone, Begin \/ RowEnds PROVE Alone'
<1>1. UNCHANGED <<dir, rows, touched>> /\ journal \in Journals
  BY DEF Begin, RowEnds, ControlOK, others, files
<1>2. CASE Begin
  <2>1. journal'.status = "applying" /\ Undoing' = Undoing /\ run'.at = "row"
    BY <1>1, <1>2 DEF Begin, Journals, Undoing
  <2> QED BY <1>1, <2>1, QuietAlone DEF Nothing
<1>3. CASE RowEnds
  <2>1. journal.status # "interrupted"
    BY <1>3 DEF RowEnds, Alone
  <2>2. CASE run' = [at |-> "row", row |-> NextRow(run.row)] /\ UNCHANGED journal
    <3>1. run'.at = "row"
      BY <2>2
    <3> QED BY <1>1, <2>1, <2>2, <3>1, QuietAlone DEF Alone, Undoing
  <2>3. CASE /\ journal' = [journal EXCEPT !.status = IF Undoing THEN "rolled-back" ELSE "completed"]
             /\ run' = [at |-> "cleanup", row |-> 0]
    <3>1. /\ run'.at = "cleanup" /\ Undoing' = Undoing
          /\ journal'.status # "interrupted" /\ journal'.status # Nothing
      BY <1>1, <2>3 DEF Journals, Undoing, Nothing
    <3> QED BY <1>1, <3>1, QuietAlone DEF OnRow
  <2> QED BY <1>3, <2>2, <2>3 DEF RowEnds
<1> QED BY <1>2, <1>3

(* Every file is in place when the cleanup begins. *)
LEMMA CleanRows ==
  ASSUME ControlOK, ProgressOK, Alone, run.at \in {"cleanup", "recleanup"}, touched = {}, NEW i \in Rows
  PROVE  dir[i]["file"] = To(i) /\ RowShape(i)
BY DEF ControlOK, ProgressOK, Closed, InPlace, Alone, Shaped, To

LEMMA CleanAlone ==
  ASSUME ControlOK, FilesOK, ProgressOK, Alone, CleanName PROVE Alone'
<1>1. PICK x \in Leftovers :
        IF Safe(x[1], {x[2]}) /\ dir[x[1]][x[2]] = Right(x[1], x[2])
        THEN Unlink(x[1], x[2]) /\ UNCHANGED <<run, journal>>
        ELSE Throw /\ UNCHANGED files
  BY DEF CleanName
<1> DEFINE i == x[1]
           name == x[2]
<1>2. i \in Rows /\ name \in Private /\ name \in Names /\ dir[i][name] # Nothing
  BY DEF Leftovers, Private
<1>3. UNCHANGED <<rows, touched>> /\ run.at \in {"cleanup", "recleanup"} /\ run.at \notin OnRow
  BY DEF CleanName, others, OnRow
<1>4. CASE Unlink(i, name) /\ UNCHANGED <<run, journal>>
  <2>1. Undoing' = Undoing /\ journal.status # "interrupted"
    BY <1>3, <1>4 DEF Undoing, Alone
  <2>2. touched = {} => dir[i]["file"] = To(i) /\ Shaped
    BY <1>2, <1>3, CleanRows DEF Alone
  <2>3. touched = {} => Shaped'
    BY <1>2, <1>3, <1>4, <2>1, <2>2, UnlinkShaped
  <2> QED BY <1>3, <1>4, <2>1, <2>3 DEF Alone
<1>5. CASE Throw /\ UNCHANGED files /\ (~Safe(i, {name}) \/ dir[i][name] # Right(i, name))
  <2>1. ASSUME touched = {} PROVE dir[i][name] = "partial" \/ dir[i][name] = Right(i, name)
    <3>1. RowShape(i)
      BY <1>2, <1>3, <2>1, CleanRows
    <3>2. name \in {"hold", "hold.next", "undo", "undo.next"}
      BY <1>2 DEF Private, Names
    <3> QED BY <1>2, <3>1, <3>2 DEF RowShape, Right
  <2>2. touched = {} => Leftover
    <3>1. dir[i][name] = "partial" => Leftover
      BY <1>2 DEF Leftover
    <3> QED BY <1>2, <1>5, <2>1, <3>1, UnsafeLeft
  <2> QED BY <1>3, <1>5, <2>2, ThrowAlone
<1> QED BY <1>1, <1>4, <1>5

LEMMA CloseAlone ==
  ASSUME ControlOK, ProgressOK, Alone, Close PROVE Alone'
<1>1. /\ run.at \in {"cleanup", "recleanup"} /\ Leftovers = {} /\ UNCHANGED <<files, rows, touched>>
      /\ run'.at \notin OnRow /\ journal'.status # "interrupted" /\ journal'.direction = "finish"
  BY SomeRuns DEF Close, others, OnRow, NoJournal, Nothing
<1>2. ASSUME touched = {}, NEW i \in Rows PROVE RowShape(i)'
  <2>1. dir[i]["file"] = To(i) /\ RowShape(i)
    BY <1>1, <1>2, CleanRows
  <2>2. ASSUME NEW n \in Private PROVE dir[i][n] = Nothing
    <3>1. <<i, n>> \in Rows \X (Names \ {"file"}) /\ <<i, n>>[1] = i /\ <<i, n>>[2] = n
      BY <1>2 DEF Private
    <3>2. <<i, n>> \notin Leftovers
      BY <1>1
    <3> QED BY <3>1, <3>2 DEF Leftovers
  <2>3. /\ "hold" \in Private /\ "hold.next" \in Private /\ "undo" \in Private /\ "undo.next" \in Private
    BY DEF Private, Names
  <2>4. ~Undoing'
    BY <1>1 DEF Undoing
  <2> QED BY <1>1, <2>1, <2>2, <2>3, <2>4 DEF RowShape, To, files, rows
<1> QED BY <1>1, <1>2 DEF Alone, Shaped, Undoing

(* A restore that is to be rolled back: what its row was is a row of a rollback. *)
LEMMA RecoverAlone ==
  ASSUME ControlOK, Alone, NEW action \in {"finish", "rollback"}, Recover(action) PROVE Alone'
<1>1. /\ UNCHANGED <<files, rows, touched>> /\ journal \in Journals /\ journal.status # Nothing
      /\ run' = [at |-> "recleanup", row |-> 0] \/ run' = [at |-> "begin", row |-> 0]
  BY DEF Recover, others, ControlOK
<1>2. run'.at \in {"recleanup", "begin"} /\ run'.at \notin OnRow
  <2>1. CASE run' = [at |-> "recleanup", row |-> 0]
    BY <2>1 DEF OnRow
  <2>2. CASE run' = [at |-> "begin", row |-> 0]
    BY <2>2 DEF OnRow
  <2> QED BY <1>1, <2>1, <2>2
<1>3. journal'.status = journal.status /\ journal'.issue = journal.issue
      /\ (Undoing' = Undoing \/ Undoing')
  BY <1>1 DEF Recover, Journals, Undoing
<1>4. journal.status = "interrupted" => run'.at = "begin"
  BY <1>1 DEF Recover
<1>5. ASSUME touched = {} PROVE Shaped'
  <2>1. CASE Undoing' = Undoing
    BY <1>1, <1>5, <2>1, SameShape DEF Alone, files
  <2>2. CASE Undoing' /\ ~Undoing
    <3> SUFFICES ASSUME NEW i \in Rows PROVE RowShape(i)'
      BY DEF Shaped
    <3>1. RowShape(i)
      BY <1>5 DEF Alone, Shaped
    <3> QED BY <1>1, <2>2, <3>1 DEF RowShape, files, rows
  <2> QED BY <1>3, <2>1, <2>2
<1>6. Leftover => Leftover'
  BY <1>1, SameLeftover
<1> QED BY <1>1, <1>2, <1>3, <1>4, <1>5, <1>6 DEF Alone

LEMMA ProcessAlone ==
  ASSUME ControlOK, FixedOK, FilesOK, Known, ProgressOK, Alone, Process PROVE Alone'
<1>1. ASSUME GiveBack \/ GivenBack PROVE Alone'
  <2>1. run.at \in {"give back", "given back"} /\ run.at \in OnRow /\ UNCHANGED touched
    BY <1>1 DEF GiveBack, GivenBack, OnRow, others
  <2>2. touched # {}
    BY <2>1 DEF Alone, AtRow
  <2>3. CASE Goto("given back")
    BY <2>1, <2>2, <2>3, GotoAlone DEF OnRow
  <2>4. CASE Throw
    BY <2>1, <2>2, <2>4, FailAlone DEF Throw
  <2> QED BY <1>1, <2>3, <2>4 DEF GiveBack, GivenBack, LinkAsFile
<1>2. CASE PutBack
  <2>1. /\ run.row \in Rows /\ run.at \in OnRow /\ run.at = "put back" /\ UNCHANGED <<rows, touched>>
        /\ "hold" \in Private /\ LinkAsFile("hold", "unlink hold") /\ Undoing
    BY <1>2, NamesOK DEF PutBack, ControlOK, OnRow, others, ProgressOK, InOrder
  <2>2. touched = {} => dir[run.row]["file"] = Nothing /\ dir[run.row]["hold"] = To(run.row)
    BY <2>1 DEF Alone, AtRow, To
  <2> QED BY <2>1, <2>2, LinkAlone
<1>3. CASE Install
  <2>1. /\ run.row \in Rows /\ run.at \in OnRow /\ run.at = "install" /\ UNCHANGED <<rows, touched>>
        /\ Stage \in Private /\ Stage # "hold" /\ LinkAsFile(Stage, "unlink stage")
    BY <1>3, NamesOK DEF Install, ControlOK, OnRow, others, Stage
  <2>2. touched = {} => dir[run.row]["file"] = Nothing /\ dir[run.row][Stage] = To(run.row)
    BY <2>1 DEF Alone, AtRow
  <2>3. LinkAsFile(Stage, IF Stage = "hold" THEN "unlink hold" ELSE "unlink stage")
    BY <2>1
  <2> QED BY <2>1, <2>2, <2>3, LinkAlone
<1>4. CASE Refuse
  <2>1. /\ run.at # "begin" /\ run.at # "idle" /\ Fail("refused") /\ UNCHANGED <<dir, rows, touched>>
    BY <1>4 DEF Refuse, files, others
  <2>2. Undoing' = Undoing
    BY <2>1 DEF Fail, Undoing, ControlOK, Journals
  <2>3. touched = {} => Shaped'
    BY <2>1, <2>2, SameShape DEF Alone
  <2> QED BY <2>1, <2>3, FailAlone
<1> QED
  BY <1>1, <1>2, <1>3, <1>4, BetweenAlone, RowBeginsAlone, ChecksAlone, VacateAlone, VerifyAlone,
     UnlinkAlone, StageAlone, ConfirmAlone, RecordAlone, CleanAlone, CloseAlone DEF Process

(* With nobody else on the files and the permissions in place, a recovery     *)
(* fails only where a crash has left a second name of a file or a stage that   *)
(* was not written out: however many crashes and recoveries came before, every *)
(* row is otherwise in a state from which both directions go on.               *)
THEOREM OnlyLeftoversBlock == FSpec => []BlockedOnlyByLeftovers
<1>1. FInit => Alone
  <2> SUFFICES ASSUME FInit PROVE Alone
    OBVIOUS
  <2>1. journal.status = Nothing /\ journal.direction = "finish" /\ run.at \notin OnRow
    BY SomeRuns DEF FInit, NoJournal, OnRow
  <2>2. ASSUME NEW i \in Rows PROVE RowShape(i)
    <3>1. \A n \in Names : dir[i][n] = IF n = "file" THEN expected[i] ELSE Nothing
      BY DEF FInit
    <3> QED BY <2>1, <3>1, RowNames DEF RowShape, Undoing
  <2> QED BY <2>1, <2>2 DEF Alone, Shaped, Nothing, Undoing
<1>2. ControlOK /\ FixedOK /\ (FilesOK /\ Known) /\ ProgressOK /\ Alone /\ [FNext]_fvars => Alone'
  <2> SUFFICES ASSUME ControlOK, FixedOK, FilesOK, Known, ProgressOK, Alone, [FNext]_fvars PROVE Alone'
    OBVIOUS
  <2>1. CASE Process
    BY <2>1, ProcessAlone
  <2>2. CASE Prepare
    <3>1. /\ journal'.status = "prepared" /\ journal'.direction = "finish" /\ run'.at = "begin"
          /\ UNCHANGED <<dir, rows, touched>> /\ ~Undoing
      BY <2>2 DEF Prepare, NoJournal, files, others, Alone
    <3> QED BY <3>1, QuietAlone DEF OnRow, Undoing
  <2>3. CASE Crash
    <3>1. run'.at = "idle" /\ UNCHANGED <<files, rows, journal, touched>>
      BY <2>3, SomeRuns DEF Crash, others
    <3>2. touched = {} => Shaped'
      BY <3>1, SameShape DEF Alone, files, Undoing
    <3>3. Leftover => Leftover'
      BY <3>1, SameLeftover
    <3> QED BY <3>1, <3>2, <3>3 DEF Alone, OnRow, Undoing
  <2>4. CASE Others
    BY <2>4 DEF Others, Edit, PutByHand, Alone, Undoing
  <2>5. ASSUME NEW action \in {"finish", "rollback"}, Recover(action) PROVE Alone'
    BY <2>5, RecoverAlone
  <2>6. CASE UNCHANGED fvars
    <3>1. /\ UNCHANGED <<files, rows, journal, run, touched>>
      BY <2>6 DEF fvars, files, rows
    <3>2. touched = {} => Shaped'
      BY <3>1, SameShape DEF Alone, files, Undoing
    <3>3. Leftover => Leftover'
      BY <3>1, SameLeftover
    <3>4. AtRow => AtRow'
      BY <3>1 DEF AtRow, files, rows, Undoing, From, To, Hold, Stage
    <3> QED BY <3>1, <3>2, <3>3, <3>4 DEF Alone, Undoing
  <2> QED BY <2>1, <2>2, <2>3, <2>4, <2>5, <2>6 DEF FNext
<1>3. Alone => BlockedOnlyByLeftovers
  BY DEF Alone, Leftover, BlockedOnlyByLeftovers
<1> QED BY <1>1, <1>2, <1>3, ControlHolds, FixedHolds, FilesHold, ProgressHolds, PTL DEF FSpec

===============================================================================
