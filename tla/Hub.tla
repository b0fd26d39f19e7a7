-------------------------------- MODULE Hub --------------------------------
(***************************************************************************)
(* The daemon of server/hub.ts: clients write to a thread under leases.    *)
(* Operations run one after the other, each from await to await, while     *)
(* the session of the thread goes on and time passes.                      *)
(*                                                                         *)
(* There is one thread, whose session is of the native engine and asks one *)
(* question at a time.  Its events reach the hub in the turn of the event  *)
(* loop that causes them, so the hub's list of open questions is that of   *)
(* the session.  What a request asks for is chosen when it runs, which     *)
(* lets it name leases and questions that have gone since it was sent:     *)
(* such a request is refused.  What only reads is left out.                *)
(***************************************************************************)
EXTENDS Naturals, Sequences, FiniteSets

CONSTANTS
  Clients, NoClient,
  Questions,    \* kinds asked for in this instance, of "tool" "plan" "choice"
  LeaseTime, MaxWriters,    \* 60 seconds and 16 leases in the code
  MaxRequests, MaxQueued    \* bounds of the model

ASSUME HubShape ==
  /\ NoClient \notin Clients /\ Questions \subseteq {"tool", "plan", "choice"}
  /\ {LeaseTime, MaxWriters} \subseteq Nat \ {0} /\ {MaxRequests, MaxQueued} \subseteq Nat

VARIABLES
  gone,     \* connections that the hub has dropped
  used,     \* seen: how many request IDs each connection has used
  ran,      \* history: how many of its requests have begun
  inbox,    \* serial: operations that wait for their turn
  op,       \* the one under way
  leases,   \* left: the time until it expires
  session   \* the session of the thread

hubVars == <<gone, used, ran, inbox, op, leases, session>>

TimerTick == [by |-> NoClient, id |-> 0, kind |-> "tick"]
Rest == [at |-> "none", by |-> NoClient, then |-> "over", mode |-> "shared"]
Unopened == [state |-> "none", turn |-> "idle", question |-> "none", aborted |-> FALSE,
              queued |-> 0, paused |-> FALSE]

\* A thread of this daemon, or one of the index that it reads when it starts,
\* whose inputs may be waiting.
HubInit ==
  /\ gone = {} /\ used = [c \in Clients |-> 0] /\ ran = used
  /\ inbox = <<>> /\ op = Rest /\ leases = {}
  /\ session \in {[Unopened EXCEPT !.state = "open"]} \cup {[Unopened EXCEPT !.queued = n] : n \in 0..1}

----------------------------------------------------------------------------
(* The session: runTurn, #awaitDecision, resolveRequest and interrupt.      *)

ChoicesOf(kind) ==
  CASE kind = "tool" -> {"accept", "acceptForSession", "decline", "cancel"}
    [] kind = "plan" -> {"approve", "keepPlanning", "cancel"}
    [] kind = "choice" -> {"cancel", "option"}
    [] kind = "none" -> {}
Answered(s) == [s EXCEPT !.question = "none"]
\* The queue is paused, the turn aborted and its question cancelled.
Aborts(s) ==
  IF s.state = "open"
  THEN [Answered(s) EXCEPT !.paused = TRUE, !.aborted = s.turn = "running"] ELSE s

TurnBegins ==
  /\ session.state = "open" /\ session.turn = "idle" /\ session.queued > 0 /\ ~session.paused
  /\ session' = [session EXCEPT !.turn = "running", !.queued = @ - 1]
TurnAsks(kind) ==
  /\ session.turn = "running" /\ ~session.aborted /\ session.question = "none"
  /\ session' = [session EXCEPT !.question = kind]
\* A turn that fails pauses the queue.
TurnFinishes ==
  /\ session.turn = "running" /\ session.question = "none"
  /\ \E paused \in {session.paused, TRUE} :
       session' = [session EXCEPT !.turn = "idle", !.aborted = FALSE, !.paused = paused]
SessionStep ==
  /\ TurnBegins \/ TurnFinishes \/ \E kind \in Questions : TurnAsks(kind)
  /\ UNCHANGED <<gone, used, ran, inbox, op, leases>>

----------------------------------------------------------------------------
(* Clients and time.                                                        *)

Room == Len(inbox) < MaxQueued
Enqueue(what) == inbox' = Append(inbox, what)
Waiting(c, kind) == \E i \in DOMAIN inbox : inbox[i].by = c /\ inbox[i].kind = kind
Closing(c) == c \in gone \/ Waiting(c, "disconnect")

\* dispatch: a request whose ID was used is answered like the first one.
\* Mutant: an ID counts as used when its request has run.
Seen_WhenRun(c, id) == id <= ran[c]
Seen(c, id) == id <= used[c]
Dispatch(c, id) ==
  /\ ~Closing(c) /\ id <= used[c] + 1
  /\ IF Seen(c, id) THEN UNCHANGED <<used, inbox>>
     ELSE /\ Room /\ Enqueue([by |-> c, id |-> id, kind |-> "request"])
          /\ used' = [used EXCEPT ![c] = IF id > @ THEN id ELSE @]
  /\ UNCHANGED <<gone, ran, op, leases, session>>
Disconnect(c) ==
  /\ ~Closing(c) /\ Room
  /\ Enqueue([by |-> c, id |-> 0, kind |-> "disconnect"])
  /\ UNCHANGED <<gone, used, ran, op, leases, session>>

TimerTicks ==
  /\ Room /\ ~Waiting(NoClient, "tick") /\ Enqueue(TimerTick)
  /\ UNCHANGED <<gone, used, ran, op, leases, session>>
Expired(l) == l.left = 0
TimePasses ==
  /\ \E l \in leases : ~Expired(l)
  /\ leases' = {[l EXCEPT !.left = IF @ = 0 THEN 0 ELSE @ - 1] : l \in leases}
  /\ UNCHANGED <<gone, used, ran, inbox, op, session>>

----------------------------------------------------------------------------
(* Operations.                                                              *)

Here == UNCHANGED <<gone, used, ran, inbox>>
Comes(place) == op' = IF place = "over" THEN Rest ELSE [op EXCEPT !.at = place]

\* The leases that are kept.  When the last one goes its work is stopped before
\* the operation goes on.
\* Mutant: it is not.
Dropping_Quietly(what, kept, then) ==
  /\ leases' = kept
  /\ op' = IF then = "over" THEN Rest ELSE [what EXCEPT !.at = then]
Dropping(what, kept, then) ==
  /\ leases' = kept
  /\ op' = CASE kept # leases /\ kept = {} -> [what EXCEPT !.at = "orphan", !.then = then]
             [] ~(kept # leases /\ kept = {}) /\ then = "over" -> Rest
             [] OTHER -> [what EXCEPT !.at = then]

\* serial takes the next operation; a request begins with expire.
NextOperation ==
  /\ op.at = "none" /\ inbox # <<>>
  /\ inbox' = Tail(inbox)
  /\ LET next == Head(inbox)
         what == [Rest EXCEPT !.by = next.by]
         current == {l \in leases : ~Expired(l)}
     IN \/ /\ next.kind = "disconnect"
           /\ gone' = gone \cup {next.by} /\ ran' = ran
           /\ Dropping(what, {l \in leases : l.by # next.by}, "over")
        \/ /\ next.kind = "tick"
           /\ gone' = gone /\ ran' = ran
           /\ Dropping(what, current, "over")
        \/ /\ next.kind = "request"
           /\ gone' = gone /\ ran' = [ran EXCEPT ![next.by] = @ + 1]
           /\ Dropping(what, current, "invoke")
  /\ UNCHANGED <<used, session>>

\* orphan declines an approval and cancels any other question, until none is
\* open; an answer that the session does not take ends the operation.
OrphanAnswers ==
  /\ op.at = "orphan" /\ session.question # "none"
  /\ LET choice == IF session.question = "choice" THEN "cancel" ELSE "decline"
     IN IF choice \in ChoicesOf(session.question)
        THEN session' = Answered(session) /\ op' = op
        ELSE session' = session /\ op' = Rest
  /\ leases' = leases /\ Here
OrphanInterrupts ==
  /\ op.at = "orphan" /\ session.question = "none"
  /\ session' = Aborts(session) /\ Comes("settling")
  /\ leases' = leases /\ Here
\* interrupt returns when the turn has ended.
InterruptOver ==
  /\ op.at = "settling" /\ session.turn = "idle"
  /\ Comes(op.then)
  /\ UNCHANGED <<leases, session>> /\ Here

\* lease/acquire.
\* Mutant: an exclusive lease is given beside a shared one.
Conflict_WithExclusive(mode, held) == \E l \in held : l.mode = "exclusive"
Conflict(mode, held) == \E l \in held : l.mode = "exclusive" \/ mode = "exclusive"
Grant(mode, held) ==
  LET free == 1..MaxWriters \ {l.id : l \in held}
  IN IF Conflict(mode, held) \/ free = {} THEN leases' = held
     ELSE leases' = held \cup {[id |-> CHOOSE id \in free : TRUE, by |-> op.by, mode |-> mode,
                                left |-> LeaseTime]}
Acquire(mode) ==
  /\ op.at = "invoke" /\ Comes("over") /\ Grant(mode, leases)
  /\ session' = session /\ Here
Steal(mode) ==
  /\ op.at = "invoke"
  /\ op' = [op EXCEPT !.at = "orphan", !.then = "stolen", !.mode = mode]
  /\ UNCHANGED <<leases, session>> /\ Here
Stolen ==
  /\ op.at = "stolen" /\ Comes("over") /\ Grant(op.mode, {})
  /\ session' = session /\ Here

\* writer: the lease that a request names, if its client may use it.
Writer(l) == op.at = "invoke" /\ l.by = op.by /\ ~Expired(l)

\* A request without a lease, for a question that is not open, for a choice
\* that it does not have or for a session that is not there.
RequestRefused == op.at = "invoke" /\ Comes("over") /\ UNCHANGED <<leases, session>> /\ Here
Renew ==
  /\ \E l \in leases :
       Writer(l) /\ leases' = (leases \ {l}) \cup {[l EXCEPT !.left = LeaseTime]}
  /\ Comes("over") /\ session' = session /\ Here
Release ==
  /\ \E l \in leases : Writer(l) /\ Dropping(op, leases \ {l}, "over")
  /\ session' = session /\ Here

\* What a writer does to the session; one that failed to close takes no more.
Writing == (\E l \in leases : Writer(l)) /\ leases' = leases /\ Here
StartTurn ==
  /\ Writing /\ session.state = "open"
  /\ session' = [session EXCEPT !.queued = @ + 1] /\ Comes("over")
InterruptTurn ==
  /\ Writing /\ session.state # "none"
  /\ session' = Aborts(session) /\ op' = [op EXCEPT !.at = "settling", !.then = "over"]
Respond ==
  /\ Writing /\ session.question # "none"
  /\ session' = Answered(session) /\ Comes("over")
CloseThread ==
  /\ Writing /\ session.state = "open"
  /\ session' = Aborts(session) /\ Comes("closing")
\* close throws when the history cannot be written: the hub keeps a session
\* that does nothing any more.
ThreadClosed ==
  /\ op.at = "closing" /\ session.turn = "idle"
  /\ \/ session' = [Unopened EXCEPT !.queued = session.queued] /\ leases' = {}
     \/ session' = [session EXCEPT !.state = "dead"] /\ leases' = leases
  /\ Comes("over") /\ Here

\* openThread: the queue is paused while inputs wait to be reviewed.
ResumeThread ==
  /\ op.at = "invoke" /\ session.state = "none"
  /\ \E paused \in {session.queued > 0, TRUE} :
       session' = [session EXCEPT !.state = "open", !.paused = paused]
  /\ Comes("over") /\ leases' = leases /\ Here

Operation ==
  \/ NextOperation \/ OrphanAnswers \/ OrphanInterrupts \/ InterruptOver
  \/ \E mode \in {"shared", "exclusive"} : Acquire(mode) \/ Steal(mode)
  \/ Stolen \/ RequestRefused \/ Renew \/ Release
  \/ StartTurn \/ InterruptTurn \/ Respond \/ CloseThread \/ ThreadClosed \/ ResumeThread

HubNext ==
  \/ SessionStep \/ Operation \/ TimerTicks \/ TimePasses
  \/ \E c \in Clients : Disconnect(c) \/ \E id \in 1..MaxRequests : Dispatch(c, id)

HubSpec == HubInit /\ [][HubNext]_hubVars
----------------------------------------------------------------------------
\* "Losing the last writer interrupts its work" (docs/server.md:23): between
\* operations a thread without a lease runs no turn, is about to run none and
\* has no question open, whether its leases were released, stolen or expired,
\* or their clients left.
WorkHasWriter ==
  op.at = "none" /\ leases = {} =>
    /\ session.turn = "idle" /\ session.question = "none"
    /\ session.state = "open" => session.paused \/ session.queued = 0

\* A request runs once, however often it is sent, and what it does to the
\* session it does under a current lease of its client that shares the thread
\* with no exclusive one.
WritesAreAuthorized ==
  [][/\ \A c \in Clients : ran'[c] <= used[c]
     /\ StartTurn \/ InterruptTurn \/ Respond \/ CloseThread =>
          \E l \in leases :
            /\ l.by = op.by /\ ~Expired(l)
            /\ \A other \in leases \ {l} : "exclusive" \notin {l.mode, other.mode}]_hubVars
=============================================================================
