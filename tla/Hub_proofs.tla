----------------------------- MODULE Hub_proofs -----------------------------
(***************************************************************************)
(* Theorems about Hub, for every set of clients and every limit.           *)
(***************************************************************************)
EXTENDS Hub, SequenceTheorems, TLAPS

Modes == {"shared", "exclusive"}
Senders == Clients \cup {NoClient}
Entries == [by : Senders, id : Nat, kind : {"tick", "disconnect", "request"}]
Leases == [id : Nat, by : Senders, mode : Modes, left : Nat]
Operations == [at : {"none", "orphan", "settling", "invoke", "stolen", "closing"},
               by : Senders, then : {"over", "invoke", "stolen"}, mode : Modes]
Sessions == [state : {"none", "open", "dead"}, turn : {"idle", "running"},
             question : Questions \cup {"none"}, aborted : BOOLEAN, queued : Nat,
             paused : BOOLEAN]

HubTypeOK ==
  /\ used \in [Clients -> Nat] /\ ran \in [Clients -> Nat]
  /\ inbox \in Seq(Entries) /\ op \in Operations
  /\ leases \subseteq Leases /\ session \in Sessions

(* A session that is not open does nothing; one that has stopped begins     *)
(* nothing by itself; a quiet one ends its turn and begins none.             *)
Asleep(s) == s.state # "open" => s.turn = "idle" /\ s.question = "none"
Stopped(s) ==
  /\ s.turn = "idle" /\ s.question = "none"
  /\ s.state = "open" => s.paused \/ s.queued = 0
Quiet(s) ==
  /\ s.question = "none"
  /\ s.state = "open" => s.paused /\ (s.turn = "running" => s.aborted)

\* The session asks for no approval of a plan.
NoPlans == "plan" \notin Questions

StoppedWithoutWriter ==
  /\ Asleep(session)
  /\ NoPlans /\ op.at \in {"none", "invoke"} /\ leases = {} => Stopped(session)
  /\ op.at \in {"settling", "closing"} => Quiet(session)
  /\ op.at = "stolen" => Stopped(session)

Exclusive(held) ==
  \A l \in held, other \in held : l # other => "exclusive" \notin {l.mode, other.mode}

(* The requests of a client in the inbox come in the order of their ids, all *)
(* of them used and none of them run.                                        *)
IsRequest(e) == e.kind = "request"
Numbered ==
  /\ \A c \in Clients : ran[c] <= used[c]
  /\ \A k \in 1..Len(inbox) : IsRequest(inbox[k]) =>
       /\ inbox[k].by \in Clients
       /\ ran[inbox[k].by] < inbox[k].id /\ inbox[k].id <= used[inbox[k].by]
  /\ \A k, m \in 1..Len(inbox) :
       k < m /\ IsRequest(inbox[k]) /\ IsRequest(inbox[m]) /\ inbox[k].by = inbox[m].by =>
         inbox[k].id < inbox[m].id

----------------------------------------------------------------------------
(* The session.                                                             *)

LEMMA AbortsIsQuiet ==
  ASSUME NEW s \in Sessions, Asleep(s)
  PROVE  Aborts(s) \in Sessions /\ Asleep(Aborts(s)) /\ Quiet(Aborts(s))
<1>1. CASE s.state = "open"
  <2> DEFINE a == [state |-> "open", turn |-> s.turn, question |-> "none",
                   aborted |-> (s.turn = "running"), queued |-> s.queued, paused |-> TRUE]
  <2>1. Aborts(s) = a
    BY <1>1 DEF Aborts, Answered, Sessions
  <2>2. a \in Sessions
    BY DEF Sessions
  <2>3. Asleep(a) /\ Quiet(a)
    BY DEF Asleep, Quiet
  <2> QED BY <2>1, <2>2, <2>3
<1>2. CASE s.state # "open"
  <2>1. Aborts(s) = s
    BY <1>2 DEF Aborts
  <2> QED BY <1>2, <2>1 DEF Asleep, Quiet
<1> QED BY <1>1, <1>2

LEMMA SessionGoesOn ==
  ASSUME session \in Sessions, Asleep(session), SessionStep
  PROVE  /\ session' \in Sessions /\ Asleep(session')
         /\ Stopped(session) => Stopped(session')
         /\ Quiet(session) => Quiet(session')
<1>1. CASE TurnBegins
  <2>1. session' = [state |-> "open", turn |-> "running", question |-> session.question,
                    aborted |-> session.aborted, queued |-> session.queued - 1,
                    paused |-> session.paused]
    BY <1>1 DEF TurnBegins, Sessions
  <2>2. session.queued - 1 \in Nat /\ ~session.paused /\ session.queued # 0
    BY <1>1 DEF TurnBegins, Sessions
  <2> QED BY <1>1, <2>1, <2>2 DEF TurnBegins, Sessions, Asleep, Stopped, Quiet
<1>2. CASE TurnFinishes
  <2>1. PICK paused \in {session.paused, TRUE} :
          session' = [session EXCEPT !.turn = "idle", !.aborted = FALSE, !.paused = paused]
    BY <1>2 DEF TurnFinishes
  <2>2. paused \in BOOLEAN /\ (session.paused => paused)
    BY DEF Sessions
  <2>3. session' = [state |-> session.state, turn |-> "idle", question |-> session.question,
                    aborted |-> FALSE, queued |-> session.queued, paused |-> paused]
    BY <2>1 DEF Sessions
  <2> QED BY <2>2, <2>3 DEF Sessions, Asleep, Stopped, Quiet
<1>3. CASE \E kind \in Questions : TurnAsks(kind)
  BY <1>3 DEF TurnAsks, Sessions, Asleep, Stopped, Quiet
<1> QED BY <1>1, <1>2, <1>3 DEF SessionStep

----------------------------------------------------------------------------
(* The work of a thread and its writers.                                    *)

WorkInv == HubTypeOK /\ StoppedWithoutWriter

LEMMA WorkInit == HubInit => WorkInv
<1> SUFFICES ASSUME HubInit PROVE WorkInv
  OBVIOUS
<1>1. PICK n \in Nat : \/ session = [Unopened EXCEPT !.state = "open"] /\ n = 0
                       \/ session = [Unopened EXCEPT !.queued = n]
  BY DEF HubInit
<1>2. session \in Sessions /\ Asleep(session) /\ Stopped(session)
  BY <1>1 DEF Unopened, Sessions, Asleep, Stopped
<1>3. inbox \in Seq(Entries) /\ op \in Operations /\ leases = {} /\ op.at = "none"
  BY EmptySeq DEF HubInit, Rest, Operations, Senders, Modes
<1> QED BY <1>2, <1>3 DEF HubInit, WorkInv, HubTypeOK, StoppedWithoutWriter

(* The session or the clients move, operations do not.                      *)
LEMMA SessionWork == ASSUME WorkInv, SessionStep PROVE WorkInv'
<1>1. UNCHANGED <<gone, used, ran, inbox, op, leases>>
  BY DEF SessionStep
<1>2. /\ session' \in Sessions /\ Asleep(session')
      /\ Stopped(session) => Stopped(session')
      /\ Quiet(session) => Quiet(session')
  BY SessionGoesOn DEF WorkInv, HubTypeOK, StoppedWithoutWriter
<1> QED BY <1>1, <1>2 DEF WorkInv, HubTypeOK, StoppedWithoutWriter

LEMMA ClientWork ==
  ASSUME WorkInv, \/ TimerTicks \/ TimePasses
                  \/ \E c \in Clients : Disconnect(c) \/ \E id \in 1..MaxRequests : Dispatch(c, id)
  PROVE  WorkInv'
<1>1. CASE TimePasses
  <2> DEFINE sooner(l) == [l EXCEPT !.left = IF @ = 0 THEN 0 ELSE @ - 1]
  <2>0. \A l \in Leases : sooner(l) \in Leases
    BY DEF Leases
  <2>1. leases' \subseteq Leases
    <3>1. leases' = {sooner(l) : l \in leases}
      BY <1>1 DEF TimePasses
    <3> QED BY <2>0, <3>1 DEF WorkInv, HubTypeOK
  <2>2. leases' = {} => leases = {}
    BY <1>1, ZenonT(60) DEF TimePasses
  <2> QED BY <1>1, <2>1, <2>2 DEF TimePasses, WorkInv, HubTypeOK, StoppedWithoutWriter
<1>2. ASSUME NEW e \in Entries, Enqueue(e), used' \in [Clients -> Nat],
             UNCHANGED <<ran, op, leases, session>>
      PROVE  WorkInv'
  BY <1>2, AppendProperties DEF Enqueue, WorkInv, HubTypeOK, StoppedWithoutWriter
<1>3. CASE TimerTicks
  <2>1. TimerTick \in Entries
    BY DEF TimerTick, Entries, Senders
  <2> QED BY <1>2, <1>3, <2>1 DEF TimerTicks, WorkInv, HubTypeOK
<1>4. ASSUME NEW c \in Clients, Disconnect(c) PROVE WorkInv'
  <2>1. [by |-> c, id |-> 0, kind |-> "disconnect"] \in Entries
    BY DEF Entries, Senders
  <2> QED BY <1>2, <1>4, <2>1 DEF Disconnect, WorkInv, HubTypeOK
<1>5. ASSUME NEW c \in Clients, NEW id \in 1..MaxRequests, Dispatch(c, id) PROVE WorkInv'
  <2>1. [by |-> c, id |-> id, kind |-> "request"] \in Entries /\ id \in Nat
    BY DEF Entries, Senders
  <2>2. CASE Seen(c, id)
    BY <1>5, <2>2 DEF Dispatch, WorkInv, HubTypeOK, StoppedWithoutWriter
  <2>3. CASE ~Seen(c, id)
    <3>1. used' = [used EXCEPT ![c] = IF id > @ THEN id ELSE @]
      BY <1>5, <2>3 DEF Dispatch
    <3>2. used' \in [Clients -> Nat]
      BY <2>1, <3>1 DEF WorkInv, HubTypeOK
    <3> QED BY <1>2, <1>5, <2>1, <2>3, <3>2 DEF Dispatch
  <2> QED BY <2>2, <2>3
<1> QED BY <1>1, <1>3, <1>4, <1>5

(* Operations.  Where one goes on to and what it leaves decide what is to be *)
(* shown: when nothing runs a thread without a lease has stopped.            *)
LEMMA OperationWork ==
  ASSUME WorkInv, ran' \in [Clients -> Nat], used' \in [Clients -> Nat],
         inbox' \in Seq(Entries), op' \in Operations, leases' \subseteq Leases,
         session' \in Sessions, Asleep(session'),
         NoPlans /\ op'.at \in {"none", "invoke"} /\ leases' = {} => Stopped(session'),
         op'.at \in {"settling", "closing"} => Quiet(session'),
         op'.at = "stolen" => Stopped(session')
  PROVE  WorkInv'
BY DEF WorkInv, HubTypeOK, StoppedWithoutWriter

LEMMA RestIsOperation ==
  /\ Rest \in Operations /\ Rest.at = "none"
  /\ \A c \in Senders : [Rest EXCEPT !.by = c] \in Operations
BY DEF Rest, Operations, Senders, Modes

LEMMA OperationGoes ==
  ASSUME NEW what \in Operations,
         NEW place \in {"invoke", "orphan", "settling", "stolen", "closing"}
  PROVE  /\ [what EXCEPT !.at = place] \in Operations
         /\ [what EXCEPT !.at = place].at = place
BY DEF Operations

LEMMA DroppingWork ==
  ASSUME WorkInv, NEW what \in Operations, NEW kept \in SUBSET leases,
         NEW then \in {"over", "invoke"}, Dropping(what, kept, then),
         op.at \in {"none", "invoke"}, session' = session
  PROVE  /\ op' \in Operations /\ leases' \subseteq Leases
         /\ op'.at \in {"none", "invoke", "orphan"}
         /\ NoPlans /\ op'.at \in {"none", "invoke"} /\ leases' = {} => Stopped(session')
<1>1. leases' = kept /\ kept \subseteq Leases
  BY DEF Dropping, WorkInv, HubTypeOK
<1>2. CASE kept # leases /\ kept = {}
  <2>1. op' = [what EXCEPT !.at = "orphan", !.then = then]
    BY <1>2 DEF Dropping
  <2>2. op' \in Operations /\ op'.at = "orphan"
    BY <2>1 DEF Operations
  <2> QED BY <1>1, <2>2
<1>3. CASE ~(kept # leases /\ kept = {})
  <2>1. ASSUME then = "over" PROVE op' \in Operations /\ op'.at = "none"
    <3>1. op' = Rest
      BY <1>3, <2>1 DEF Dropping
    <3> QED BY <3>1, RestIsOperation
  <2>2. ASSUME then = "invoke" PROVE op' \in Operations /\ op'.at = "invoke"
    <3>1. op' = [what EXCEPT !.at = then]
      BY <1>3, <2>2 DEF Dropping
    <3> QED BY <2>2, <3>1, OperationGoes, ZenonT(60)
  <2>3. NoPlans /\ leases' = {} => Stopped(session')
    BY <1>1, <1>3 DEF WorkInv, StoppedWithoutWriter
  <2>4. op' \in Operations /\ op'.at \in {"none", "invoke"}
    BY <2>1, <2>2
  <2> QED BY <1>1, <2>3, <2>4
<1> QED BY <1>2, <1>3

LEMMA NextOperationWork == ASSUME WorkInv, NextOperation PROVE WorkInv'
<1> DEFINE next == Head(inbox)
           what == [Rest EXCEPT !.by = next.by]
<1>1. /\ next \in Entries /\ inbox' \in Seq(Entries) /\ op.at = "none"
      /\ UNCHANGED <<used, session>>
  BY HeadTailProperties DEF NextOperation, WorkInv, HubTypeOK
<1>2. what \in Operations
  BY <1>1, RestIsOperation DEF Entries
<1>3. ran' = ran \/ (next.kind = "request" /\ ran' = [ran EXCEPT ![next.by] = @ + 1])
  BY DEF NextOperation
<1>4. ran' \in [Clients -> Nat]
  BY <1>3, SMTT(60) DEF WorkInv, HubTypeOK
<1>5. PICK kept \in SUBSET leases, then \in {"over", "invoke"} : Dropping(what, kept, then)
  <2> HIDE DEF what
  <2>1. CASE next.kind = "disconnect"
    <3>1. Dropping(what, {l \in leases : l.by # next.by}, "over")
      BY <2>1 DEF NextOperation, what
    <3> QED BY <3>1
  <2>2. CASE next.kind = "tick"
    <3>1. Dropping(what, {l \in leases : ~Expired(l)}, "over")
      BY <2>2 DEF NextOperation, what
    <3> QED BY <3>1
  <2>3. CASE next.kind = "request"
    <3>1. Dropping(what, {l \in leases : ~Expired(l)}, "invoke")
      BY <2>3 DEF NextOperation, what
    <3> QED BY <3>1
  <2> QED BY <1>1, <2>1, <2>2, <2>3 DEF Entries
<1>6. /\ op' \in Operations /\ leases' \subseteq Leases
      /\ op'.at \in {"none", "invoke", "orphan"}
      /\ NoPlans /\ op'.at \in {"none", "invoke"} /\ leases' = {} => Stopped(session')
  BY <1>1, <1>2, <1>5, DroppingWork
<1> HIDE DEF next, what
<1> QED
  BY <1>1, <1>4, <1>6, OperationWork DEF WorkInv, HubTypeOK, StoppedWithoutWriter

LEMMA GrantType ==
  ASSUME NEW mode \in Modes, NEW held \in SUBSET Leases, op \in Operations, Grant(mode, held)
  PROVE  leases' \subseteq Leases /\ (leases' = {} => held = {})
<1> DEFINE free == 1..MaxWriters \ {l.id : l \in held}
           given == [id |-> CHOOSE id \in free : TRUE, by |-> op.by, mode |-> mode,
                     left |-> LeaseTime]
<1>1. leases' = IF Conflict(mode, held) \/ free = {} THEN held ELSE held \cup {given}
  BY DEF Grant
<1>2. free # {} => given \in Leases
  <2>1. free # {} => (CHOOSE id \in free : TRUE) \in free
    OBVIOUS
  <2>2. free \subseteq Nat
    BY HubShape
  <2> HIDE DEF free
  <2> QED BY <2>1, <2>2, HubShape DEF Leases, Operations
<1> HIDE DEF free, given
<1> QED BY <1>1, <1>2

LEMMA StopsItsWork ==
  ASSUME WorkInv,
         OrphanAnswers \/ OrphanInterrupts \/ InterruptOver \/ Stolen
  PROVE  WorkInv'
<1>1. /\ session \in Sessions /\ Asleep(session) /\ op \in Operations /\ leases \subseteq Leases
      /\ ran \in [Clients -> Nat] /\ used \in [Clients -> Nat] /\ inbox \in Seq(Entries)
  BY DEF WorkInv, HubTypeOK, StoppedWithoutWriter
<1>2. CASE OrphanAnswers
  <2>1. UNCHANGED <<leases, used, ran, inbox>> /\ op.at = "orphan"
    BY <1>2 DEF OrphanAnswers, Here
  <2>2. CASE session.question = "plan"
    <3>1. ~NoPlans /\ session' = session /\ op' = Rest
      BY <1>1, <1>2, <2>2 DEF OrphanAnswers, ChoicesOf, Sessions, NoPlans
    <3> QED BY <1>1, <2>1, <3>1, RestIsOperation, OperationWork
  <2>3. CASE session.question # "plan"
    <3>1. session.question \in {"tool", "choice"}
      BY <1>1, <1>2, <2>3, HubShape DEF OrphanAnswers, Sessions
    <3>2. session' = Answered(session) /\ op' = op
      BY <1>2, <3>1 DEF OrphanAnswers, ChoicesOf
    <3>3. session' \in Sessions /\ Asleep(session')
      BY <1>1, <3>2 DEF Answered, Sessions, Asleep
    <3> QED BY <1>1, <2>1, <3>2, <3>3, OperationWork
  <2> QED BY <2>2, <2>3
<1>3. CASE OrphanInterrupts
  <2>1. session' = Aborts(session) /\ op' = [op EXCEPT !.at = "settling"]
    BY <1>3 DEF OrphanInterrupts, Comes
  <2>2. op' \in Operations /\ op'.at = "settling"
    BY <1>1, <2>1 DEF Operations
  <2>3. UNCHANGED <<leases, used, ran, inbox>>
    BY <1>3 DEF OrphanInterrupts, Here
  <2> QED BY <1>1, <2>1, <2>2, <2>3, AbortsIsQuiet, OperationWork
<1>4. CASE InterruptOver
  <2>1. Stopped(session)
    BY <1>1, <1>4 DEF InterruptOver, WorkInv, StoppedWithoutWriter, Quiet, Stopped
  <2>2. op' \in Operations
    BY <1>1, <1>4, RestIsOperation DEF InterruptOver, Comes, Operations
  <2>3. op'.at \in {"none", "invoke", "stolen"}
    BY <1>1, <1>4 DEF InterruptOver, Comes, Operations, Rest
  <2>4. UNCHANGED <<leases, session, used, ran, inbox>>
    BY <1>4 DEF InterruptOver, Here
  <2> QED BY <1>1, <2>1, <2>2, <2>3, <2>4, OperationWork
<1>5. CASE Stolen
  <2>1. Stopped(session) /\ op' = Rest
    BY <1>5 DEF Stolen, Comes, WorkInv, StoppedWithoutWriter
  <2>2. leases' \subseteq Leases
    BY <1>1, <1>5, GrantType DEF Stolen, Operations
  <2>3. UNCHANGED <<session, used, ran, inbox>>
    BY <1>5 DEF Stolen, Here
  <2> QED BY <1>1, <2>1, <2>2, <2>3, RestIsOperation, OperationWork
<1> QED BY <1>2, <1>3, <1>4, <1>5

LEMMA RequestWork ==
  ASSUME WorkInv,
         \/ \E mode \in {"shared", "exclusive"} : Acquire(mode) \/ Steal(mode)
         \/ RequestRefused \/ Renew \/ Release \/ ResumeThread
  PROVE  WorkInv'
<1>1. /\ session \in Sessions /\ Asleep(session) /\ op \in Operations /\ leases \subseteq Leases
      /\ ran \in [Clients -> Nat] /\ used \in [Clients -> Nat] /\ inbox \in Seq(Entries)
      /\ NoPlans /\ op.at = "invoke" /\ leases = {} => Stopped(session)
  BY DEF WorkInv, HubTypeOK, StoppedWithoutWriter
<1>2. ASSUME NEW mode \in Modes, Acquire(mode) PROVE WorkInv'
  <2>1. leases' \subseteq Leases /\ (leases' = {} => leases = {})
    BY <1>1, <1>2, GrantType DEF Acquire
  <2>2. op.at = "invoke" /\ op' = Rest /\ UNCHANGED <<session, used, ran, inbox>>
    BY <1>2 DEF Acquire, Comes, Here
  <2> QED BY <1>1, <2>1, <2>2, RestIsOperation, OperationWork
<1>3. ASSUME NEW mode \in Modes, Steal(mode) PROVE WorkInv'
  <2>1. op' \in Operations /\ op'.at = "orphan"
    BY <1>1, <1>3 DEF Steal, Operations
  <2>2. UNCHANGED <<leases, session, used, ran, inbox>>
    BY <1>3 DEF Steal, Here
  <2> QED BY <1>1, <2>1, <2>2, OperationWork
<1>4. CASE RequestRefused
  <2>1. op.at = "invoke" /\ op' = Rest /\ UNCHANGED <<leases, session, used, ran, inbox>>
    BY <1>4 DEF RequestRefused, Comes, Here
  <2> QED BY <1>1, <2>1, RestIsOperation, OperationWork
<1>5. CASE Renew
  <2>1. PICK l \in leases : leases' = (leases \ {l}) \cup {[l EXCEPT !.left = LeaseTime]}
    BY <1>5 DEF Renew
  <2>2. [l EXCEPT !.left = LeaseTime] \in Leases
    BY <1>1, HubShape DEF Leases
  <2>3. op' = Rest /\ UNCHANGED <<session, used, ran, inbox>>
    BY <1>5 DEF Renew, Comes, Here
  <2>4. leases' \subseteq Leases /\ leases' # {}
    BY <1>1, <2>1, <2>2
  <2> QED BY <1>1, <2>3, <2>4, RestIsOperation, OperationWork
<1>6. CASE Release
  <2>1. PICK l \in leases : op.at = "invoke" /\ Dropping(op, leases \ {l}, "over")
    BY <1>6 DEF Release, Writer
  <2>2. UNCHANGED <<session, used, ran, inbox>>
    BY <1>6 DEF Release, Here
  <2>3. /\ op' \in Operations /\ leases' \subseteq Leases
        /\ op'.at \in {"none", "invoke", "orphan"}
        /\ NoPlans /\ op'.at \in {"none", "invoke"} /\ leases' = {} => Stopped(session')
    <3>1. leases \ {l} \in SUBSET leases
      OBVIOUS
    <3> QED BY <1>1, <2>1, <2>2, <3>1, DroppingWork
  <2> QED BY <1>1, <2>2, <2>3, OperationWork
<1>7. CASE ResumeThread
  <2>1. PICK paused \in {session.queued > 0, TRUE} :
          session' = [session EXCEPT !.state = "open", !.paused = paused]
    BY <1>7 DEF ResumeThread
  <2>2. session.state = "none" /\ op' = Rest /\ UNCHANGED <<leases, used, ran, inbox>>
    BY <1>7 DEF ResumeThread, Comes, Here
  <2>3. paused \in BOOLEAN /\ (session.queued = 0 \/ paused)
    <3>1. CASE paused = TRUE
      BY <3>1
    <3>2. CASE paused = (session.queued > 0)
      <4>1. session.queued = 0 \/ session.queued > 0
        BY <1>1 DEF Sessions
      <4>2. (session.queued > 0) \in BOOLEAN
        OBVIOUS
      <4>3. paused \in BOOLEAN
        BY <3>2, <4>2, Zenon
      <4>4. session.queued > 0 => paused
        BY <3>2, Zenon
      <4> QED BY <4>1, <4>3, <4>4
    <3> QED BY <2>1, <3>1, <3>2
  <2>4. session' = [state |-> "open", turn |-> session.turn, question |-> session.question,
                    aborted |-> session.aborted, queued |-> session.queued, paused |-> paused]
    BY <1>1, <2>1 DEF Sessions
  <2>5. session' \in Sessions /\ Asleep(session') /\ Stopped(session')
    BY <1>1, <2>2, <2>3, <2>4 DEF Sessions, Asleep, Stopped
  <2> QED BY <1>1, <2>2, <2>5, RestIsOperation, OperationWork
<1> QED BY <1>2, <1>3, <1>4, <1>5, <1>6, <1>7 DEF Modes

LEMMA WriterWork ==
  ASSUME WorkInv, StartTurn \/ InterruptTurn \/ Respond \/ CloseThread \/ ThreadClosed
  PROVE  WorkInv'
<1>1. /\ session \in Sessions /\ Asleep(session) /\ op \in Operations /\ leases \subseteq Leases
      /\ ran \in [Clients -> Nat] /\ used \in [Clients -> Nat] /\ inbox \in Seq(Entries)
  BY DEF WorkInv, HubTypeOK, StoppedWithoutWriter
<1>2. CASE StartTurn
  <2>1. /\ leases # {} /\ UNCHANGED <<leases, used, ran, inbox>> /\ op' = Rest
        /\ session.state = "open" /\ session' = [session EXCEPT !.queued = @ + 1]
    BY <1>2 DEF StartTurn, Writing, Comes, Here
  <2>2. session.queued + 1 \in Nat
    BY <1>1 DEF Sessions
  <2>3. session' = [state |-> "open", turn |-> session.turn, question |-> session.question,
                    aborted |-> session.aborted, queued |-> session.queued + 1,
                    paused |-> session.paused]
    BY <1>1, <2>1 DEF Sessions
  <2>4. session' \in Sessions /\ Asleep(session')
    BY <1>1, <2>1, <2>2, <2>3 DEF Sessions, Asleep
  <2> QED BY <1>1, <2>1, <2>4, RestIsOperation, OperationWork
<1>3. CASE InterruptTurn
  <2>1. /\ UNCHANGED <<leases, used, ran, inbox>> /\ session' = Aborts(session)
        /\ op' = [op EXCEPT !.at = "settling", !.then = "over"]
    BY <1>3 DEF InterruptTurn, Writing, Here
  <2>2. op' \in Operations /\ op'.at = "settling"
    BY <1>1, <2>1 DEF Operations
  <2> QED BY <1>1, <2>1, <2>2, AbortsIsQuiet, OperationWork
<1>4. CASE Respond
  <2>1. /\ leases # {} /\ UNCHANGED <<leases, used, ran, inbox>> /\ op' = Rest
        /\ session' = Answered(session)
    BY <1>4 DEF Respond, Writing, Comes, Here
  <2>2. session' \in Sessions /\ Asleep(session')
    BY <1>1, <2>1 DEF Answered, Sessions, Asleep
  <2> QED BY <1>1, <2>1, <2>2, RestIsOperation, OperationWork
<1>5. CASE CloseThread
  <2>1. /\ UNCHANGED <<leases, used, ran, inbox>> /\ session' = Aborts(session)
        /\ op' = [op EXCEPT !.at = "closing"]
    BY <1>5 DEF CloseThread, Writing, Comes, Here
  <2>2. op' \in Operations /\ op'.at = "closing"
    BY <1>1, <2>1 DEF Operations
  <2> QED BY <1>1, <2>1, <2>2, AbortsIsQuiet, OperationWork
<1>6. CASE ThreadClosed
  <2>1. /\ session.turn = "idle" /\ session.question = "none"
        /\ UNCHANGED <<used, ran, inbox>> /\ op' = Rest
    BY <1>6 DEF ThreadClosed, Comes, Here, WorkInv, StoppedWithoutWriter, Quiet
  <2>2. \/ session' = [Unopened EXCEPT !.queued = session.queued] /\ leases' = {}
        \/ session' = [session EXCEPT !.state = "dead"] /\ leases' = leases
    BY <1>6 DEF ThreadClosed
  <2>3. CASE session' = [Unopened EXCEPT !.queued = session.queued] /\ leases' = {}
    <3>1. session' \in Sessions /\ Asleep(session') /\ Stopped(session')
      BY <1>1, <2>3 DEF Unopened, Sessions, Asleep, Stopped
    <3> QED BY <1>1, <2>1, <2>3, <3>1, RestIsOperation, OperationWork
  <2>4. CASE session' = [session EXCEPT !.state = "dead"] /\ leases' = leases
    <3>1. session' \in Sessions /\ Asleep(session') /\ Stopped(session')
      BY <1>1, <2>1, <2>4 DEF Sessions, Asleep, Stopped
    <3> QED BY <1>1, <2>1, <2>4, <3>1, RestIsOperation, OperationWork
  <2> QED BY <2>2, <2>3, <2>4
<1> QED BY <1>2, <1>3, <1>4, <1>5, <1>6

LEMMA WorkNext == WorkInv /\ [HubNext]_hubVars => WorkInv'
<1> SUFFICES ASSUME WorkInv, [HubNext]_hubVars PROVE WorkInv'
  OBVIOUS
<1>1. CASE UNCHANGED hubVars
  BY <1>1 DEF hubVars, WorkInv, HubTypeOK, StoppedWithoutWriter
<1>2. CASE HubNext
  BY <1>2, SessionWork, ClientWork, NextOperationWork, StopsItsWork, RequestWork, WriterWork
     DEF HubNext, Operation
<1> QED BY <1>1, <1>2

(* For sessions that never ask for the approval of a plan: whatever clients  *)
(* lose, release or steal, between operations a thread without a writer has  *)
(* no turn, no question and nothing that is about to begin.                  *)
THEOREM WorkStopsWithItsWriters ==
  ASSUME "plan" \notin Questions
  PROVE  HubSpec => []WorkHasWriter
<1>1. WorkInv => WorkHasWriter
  BY DEF WorkInv, StoppedWithoutWriter, NoPlans, Stopped, WorkHasWriter
<1> QED BY <1>1, WorkInit, WorkNext, PTL DEF HubSpec

----------------------------------------------------------------------------
(* The requests and their leases.                                           *)

AuthorityInv == Numbered /\ Exclusive(leases)

LEMMA GrantExcludes ==
  ASSUME NEW mode \in Modes, NEW held, Exclusive(held), Grant(mode, held)
  PROVE  Exclusive(leases')
<1> DEFINE free == 1..MaxWriters \ {l.id : l \in held}
           given == [id |-> CHOOSE id \in free : TRUE, by |-> op.by, mode |-> mode,
                     left |-> LeaseTime]
<1>1. leases' = IF Conflict(mode, held) \/ free = {} THEN held ELSE held \cup {given}
  BY DEF Grant
<1>2. given.mode = mode
  OBVIOUS
<1> HIDE DEF free, given
<1> QED BY <1>1, <1>2 DEF Exclusive, Conflict

LEMMA FewerExclude ==
  ASSUME HubTypeOK, Exclusive(leases),
         \/ leases' = leases \/ leases' = {} \/ TimePasses \/ Renew \/ Release \/ NextOperation
  PROVE  Exclusive(leases')
<1>1. CASE TimePasses
  <2> DEFINE sooner(l) == [l EXCEPT !.left = IF @ = 0 THEN 0 ELSE @ - 1]
  <2>1. \A l \in leases : sooner(l).mode = l.mode
    BY DEF HubTypeOK, Leases
  <2>2. leases' = {sooner(l) : l \in leases}
    BY <1>1 DEF TimePasses
  <2> HIDE DEF sooner
  <2> QED BY <2>1, <2>2 DEF Exclusive
<1>2. CASE Renew
  <2>1. PICK l \in leases : leases' = (leases \ {l}) \cup {[l EXCEPT !.left = LeaseTime]}
    BY <1>2 DEF Renew
  <2>2. [l EXCEPT !.left = LeaseTime].mode = l.mode
    BY DEF HubTypeOK, Leases
  <2> QED BY <2>1, <2>2 DEF Exclusive
<1>3. CASE Release \/ NextOperation
  <2>1. leases' \subseteq leases
    BY <1>3 DEF Release, NextOperation, Dropping
  <2> QED BY <2>1 DEF Exclusive
<1> QED BY <1>1, <1>2, <1>3 DEF Exclusive

LEMMA EnqueueNumbers ==
  ASSUME HubTypeOK, Numbered, NEW e \in Entries, Enqueue(e), used' \in [Clients -> Nat],
         ran' = ran, \A c \in Clients : used[c] <= used'[c],
         IsRequest(e) => e.by \in Clients /\ used[e.by] < e.id /\ e.id <= used'[e.by]
  PROVE  Numbered'
<1>1. /\ Len(inbox) \in Nat /\ Len(inbox') = Len(inbox) + 1
      /\ \A k \in 1..Len(inbox) : inbox'[k] = inbox[k] /\ inbox[k] \in Entries
      /\ inbox'[Len(inbox) + 1] = e
  BY AppendProperties, LenProperties, ElementOfSeq DEF HubTypeOK, Enqueue
<1>2. \A c \in Clients : ran'[c] <= used'[c] /\ ran[c] \in Nat /\ used[c] \in Nat /\ used'[c] \in Nat
  BY DEF HubTypeOK, Numbered
<1>3. ASSUME NEW k \in 1..Len(inbox'), IsRequest(inbox'[k])
      PROVE  /\ inbox'[k].by \in Clients
             /\ ran'[inbox'[k].by] < inbox'[k].id /\ inbox'[k].id <= used'[inbox'[k].by]
  <2>1. CASE k \in 1..Len(inbox)
    BY <1>1, <1>2, <1>3, <2>1 DEF Numbered, Entries
  <2>2. CASE k = Len(inbox) + 1
    BY <1>1, <1>2, <1>3, <2>2 DEF Numbered, Entries
  <2> QED BY <1>1, <2>1, <2>2
<1>4. ASSUME NEW k \in 1..Len(inbox'), NEW m \in 1..Len(inbox'), k < m,
             IsRequest(inbox'[k]), IsRequest(inbox'[m]), inbox'[k].by = inbox'[m].by
      PROVE  inbox'[k].id < inbox'[m].id
  <2>1. k \in 1..Len(inbox) /\ (m \in 1..Len(inbox) \/ m = Len(inbox) + 1)
    BY <1>1, <1>4
  <2>2. CASE m \in 1..Len(inbox)
    BY <1>1, <1>4, <2>1, <2>2 DEF Numbered
  <2>3. CASE m = Len(inbox) + 1
    BY <1>1, <1>2, <1>4, <2>1, <2>3 DEF Numbered, Entries
  <2> QED BY <2>1, <2>2, <2>3
<1> QED BY <1>2, <1>3, <1>4 DEF Numbered

LEMMA NextNumbers ==
  ASSUME HubTypeOK, Numbered, NextOperation
  PROVE  Numbered' /\ \A c \in Clients : ran'[c] <= used[c]
<1> DEFINE next == inbox[1]
<1>1. /\ Len(inbox) \in Nat /\ 1 \in 1..Len(inbox) /\ Head(inbox) = next
      /\ Len(inbox') = Len(inbox) - 1 /\ used' = used
      /\ \A k \in 1..Len(inbox') : inbox'[k] = inbox[k + 1] /\ k + 1 \in 1..Len(inbox)
  BY HeadTailProperties, LenProperties, EmptySeq DEF HubTypeOK, NextOperation
<1>2. \/ ~IsRequest(next) /\ ran' = ran
      \/ IsRequest(next) /\ ran' = [ran EXCEPT ![next.by] = @ + 1]
  BY <1>1 DEF NextOperation, IsRequest
<1>3. /\ \A k \in 1..Len(inbox) : inbox[k] \in Entries
      /\ \A c \in Clients : ran[c] \in Nat /\ used[c] \in Nat /\ ran[c] <= used[c]
  BY ElementOfSeq DEF HubTypeOK, Numbered
<1>4. IsRequest(next) => next.by \in Clients /\ ran[next.by] < next.id /\ next.id <= used[next.by]
  BY <1>1 DEF Numbered
<1>5. next.id \in Nat
  BY <1>1, <1>3 DEF Entries
<1> HIDE DEF next
<1>6. ASSUME NEW c \in Clients
      PROVE  ran'[c] \in Nat /\ ran'[c] <= used[c] /\ (ran'[c] = ran[c] \/
               (IsRequest(next) /\ next.by = c /\ ran'[c] = ran[c] + 1))
  BY <1>2, <1>3, <1>4, <1>5 DEF HubTypeOK
<1>7. ASSUME NEW k \in 1..Len(inbox'), IsRequest(inbox'[k])
      PROVE  /\ inbox'[k].by \in Clients
             /\ ran'[inbox'[k].by] < inbox'[k].id /\ inbox'[k].id <= used'[inbox'[k].by]
  <2> DEFINE e == inbox[k + 1]
  <2>1. inbox'[k] = e /\ e.by \in Clients /\ ran[e.by] < e.id /\ e.id <= used[e.by] /\ e.id \in Nat
    BY <1>1, <1>3, <1>7 DEF Numbered, Entries
  <2>2. IsRequest(next) /\ next.by = e.by => next.id < e.id
    <3>1. IsRequest(e) /\ k + 1 \in 1..Len(inbox) /\ 1 < k + 1
      BY <1>1, <1>7, <2>1
    <3> QED BY <1>1, <3>1 DEF Numbered, next
  <2> HIDE DEF e
  <2> QED BY <1>1, <1>3, <1>4, <1>5, <1>6, <2>1, <2>2, SMTT(60)
<1>8. ASSUME NEW k \in 1..Len(inbox'), NEW m \in 1..Len(inbox'), k < m,
             IsRequest(inbox'[k]), IsRequest(inbox'[m]), inbox'[k].by = inbox'[m].by
      PROVE  inbox'[k].id < inbox'[m].id
  <2>1. k + 1 < m + 1
    BY <1>1, <1>8
  <2> QED BY <1>1, <1>8, <2>1 DEF Numbered
<1> QED BY <1>1, <1>6, <1>7, <1>8 DEF Numbered

LEMMA AuthorityNext ==
  ASSUME HubTypeOK, AuthorityInv, HubNext
  PROVE  AuthorityInv' /\ \A c \in Clients : ran'[c] <= used[c]
<1> USE DEF AuthorityInv
<1>1. \A c \in Clients : ran[c] <= used[c]
  BY DEF Numbered
<1>2. ASSUME UNCHANGED <<used, ran, inbox>>, Exclusive(leases')
      PROVE  AuthorityInv' /\ \A c \in Clients : ran'[c] <= used[c]
  BY <1>1, <1>2 DEF Numbered, IsRequest
<1>3. CASE SessionStep \/ TimePasses \/ RequestRefused \/ Renew \/ Release
  BY <1>2, <1>3, FewerExclude DEF SessionStep, TimePasses, RequestRefused, Renew, Release, Here
<1>4. CASE OrphanAnswers \/ OrphanInterrupts \/ InterruptOver \/ ResumeThread
  BY <1>2, <1>4 DEF OrphanAnswers, OrphanInterrupts, InterruptOver, ResumeThread, Here
<1>5. CASE StartTurn \/ InterruptTurn \/ Respond \/ CloseThread
  BY <1>2, <1>5 DEF StartTurn, InterruptTurn, Respond, CloseThread, Writing, Here
<1>6. CASE ThreadClosed
  BY <1>2, <1>6, FewerExclude DEF ThreadClosed, Here
<1>7. CASE \E mode \in Modes : Acquire(mode) \/ Steal(mode)
  BY <1>2, <1>7, GrantExcludes DEF Acquire, Steal, Here
<1>8. CASE Stolen
  BY <1>2, <1>8, GrantExcludes DEF Stolen, Here, HubTypeOK, Operations, Exclusive
<1>9. CASE NextOperation
  BY <1>9, NextNumbers, FewerExclude
<1>10. ASSUME NEW e \in Entries, Enqueue(e), ~IsRequest(e), UNCHANGED <<used, ran, leases>>
       PROVE  AuthorityInv' /\ \A c \in Clients : ran'[c] <= used[c]
  <2>1. used' \in [Clients -> Nat] /\ \A c \in Clients : used[c] <= used'[c]
    BY <1>10 DEF HubTypeOK
  <2> QED BY <1>1, <1>10, <2>1, EnqueueNumbers
<1>11. CASE TimerTicks
  <2>1. TimerTick \in Entries /\ ~IsRequest(TimerTick)
    BY DEF TimerTick, Entries, Senders, IsRequest
  <2> QED BY <1>10, <1>11, <2>1 DEF TimerTicks
<1>12. ASSUME NEW c \in Clients, Disconnect(c)
       PROVE  AuthorityInv' /\ \A d \in Clients : ran'[d] <= used[d]
  <2> DEFINE e == [by |-> c, id |-> 0, kind |-> "disconnect"]
  <2>1. e \in Entries /\ ~IsRequest(e)
    BY DEF Entries, Senders, IsRequest
  <2> QED BY <1>10, <1>12, <2>1 DEF Disconnect
<1>13. ASSUME NEW c \in Clients, NEW id \in 1..MaxRequests, Dispatch(c, id)
       PROVE  AuthorityInv' /\ \A d \in Clients : ran'[d] <= used[d]
  <2> DEFINE e == [by |-> c, id |-> id, kind |-> "request"]
  <2>1. CASE Seen(c, id)
    BY <1>2, <1>13, <2>1 DEF Dispatch
  <2>2. CASE ~Seen(c, id)
    <3>1. /\ e \in Entries /\ e.by = c /\ e.id = id /\ id \in Nat /\ IsRequest(e)
      BY DEF Entries, Senders, IsRequest
    <3>2. /\ Enqueue(e) /\ UNCHANGED <<ran, leases>>
          /\ used' = [used EXCEPT ![c] = IF id > @ THEN id ELSE @] /\ ~(id <= used[c])
      BY <1>13, <2>2 DEF Dispatch, Seen
    <3>3. /\ used' \in [Clients -> Nat] /\ used[c] < id /\ id <= used'[c]
          /\ \A d \in Clients : used[d] <= used'[d]
      BY <3>1, <3>2 DEF HubTypeOK
    <3> HIDE DEF e
    <3>4. Numbered'
      BY <3>1, <3>2, <3>3, EnqueueNumbers
    <3> QED BY <1>1, <3>2, <3>4
  <2> QED BY <2>1, <2>2
<1> QED
  BY <1>3, <1>4, <1>5, <1>6, <1>7, <1>8, <1>9, <1>11, <1>12, <1>13 DEF HubNext, Operation, Modes

LEMMA AuthorityInit == HubInit => AuthorityInv
<1> SUFFICES ASSUME HubInit PROVE AuthorityInv
  OBVIOUS
<1>1. Len(inbox) = 0
  BY DEF HubInit
<1>2. \A c \in Clients : ran[c] <= used[c]
  BY DEF HubInit
<1> QED BY <1>1, <1>2 DEF HubInit, AuthorityInv, Numbered, Exclusive

(* Whatever is repeated, delayed, expired or stolen: no request runs twice,  *)
(* and what one does to the session it does under a current lease of its     *)
(* client, beside no exclusive lease of another.                             *)
THEOREM OnlyWritersWrite == HubSpec => WritesAreAuthorized
<1> DEFINE Inv == WorkInv /\ AuthorityInv
           Authorized ==
             /\ \A c \in Clients : ran'[c] <= used[c]
             /\ StartTurn \/ InterruptTurn \/ Respond \/ CloseThread =>
                  \E l \in leases :
                    /\ l.by = op.by /\ ~Expired(l)
                    /\ \A other \in leases \ {l} : "exclusive" \notin {l.mode, other.mode}
<1>1. Inv /\ [HubNext]_hubVars => Inv' /\ [Authorized]_hubVars
  <2> SUFFICES ASSUME Inv, [HubNext]_hubVars PROVE Inv' /\ [Authorized]_hubVars
    OBVIOUS
  <2>1. CASE UNCHANGED hubVars
    BY <2>1 DEF hubVars, WorkInv, HubTypeOK, StoppedWithoutWriter,
                AuthorityInv, Numbered, Exclusive
  <2>2. CASE HubNext
    <3>1. Inv' /\ \A c \in Clients : ran'[c] <= used[c]
      BY <2>2, WorkNext, AuthorityNext DEF WorkInv
    <3>2. ASSUME StartTurn \/ InterruptTurn \/ Respond \/ CloseThread
          PROVE  \E l \in leases :
                   /\ l.by = op.by /\ ~Expired(l)
                   /\ \A other \in leases \ {l} : "exclusive" \notin {l.mode, other.mode}
      <4>1. \E l \in leases : Writer(l)
        BY <3>2 DEF StartTurn, InterruptTurn, Respond, CloseThread, Writing
      <4> QED BY <4>1 DEF Writer, AuthorityInv, Exclusive
    <3> QED BY <3>1, <3>2
  <2> QED BY <2>1, <2>2
<1> QED BY <1>1, WorkInit, AuthorityInit, PTL DEF HubSpec, WritesAreAuthorized
=============================================================================
