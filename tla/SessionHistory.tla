--------------------------- MODULE SessionHistory ---------------------------
(***************************************************************************)
(* What the native engine remembers of a conversation, and in how many     *)
(* places: the loop's history, the transcript that a resumed session loads *)
(* (engines/codesplash/transcript.ts), and the graph of branch boundaries  *)
(* with their retained contexts (core/session/branches.ts).  Turns,        *)
(* compactions, rewinds (engines/codesplash/recovery.ts) and changes of    *)
(* the working directory write several of them one after the other; files  *)
(* may fail and the process may die between any two writes.                *)
(*                                                                         *)
(* A message is a number: an even one calls tools and is answered by its   *)
(* successor, any other odd one stands alone (a summary, a note).  A       *)
(* retained context is stored under its content.  Pins, labels, usage and  *)
(* notes of boundaries are left out, and forks, which copy a session.      *)
(***************************************************************************)
EXTENDS Integers, Sequences, FiniteSets

CONSTANTS
  Directories,
  MaxNodes,       \* 1,000 boundaries in the code
  MaxMessages, MaxAsks, MaxOpens, MaxFileFaults     \* bounds of the model

ASSUME HistoryLimits == {MaxNodes, MaxMessages, MaxAsks, MaxOpens, MaxFileFaults} \subseteq Nat

VARIABLES
  graph,       \* values.branches: boundaries, the selected one, a head switch
  location,    \* values.workingDirectory: where, and a boundary still to publish
  blobs,       \* branches/: the retained contexts
  transcript,  \* transcript.jsonl
  native,      \* the process that holds the session's writer lease, if one does
  strayed,     \* history: transcript and selected boundary may differ
  tally        \* bounds of the model; the number of the last message

recorded == <<graph, location, blobs, transcript>>
historyVars == <<recorded, native, strayed, tally>>

----------------------------------------------------------------------------
(* Messages.                                                                *)

Exchange(n) == <<2 * n, 2 * n + 1>>
Note(n) == <<2 * n + 1>>
New == tally.messages + 1

\* validNativeContext: every call is answered by the next message.
ValidContext(h) ==
  \A i \in 1 .. Len(h) : h[i] % 2 = 0 => i < Len(h) /\ h[i + 1] = h[i] + 1

----------------------------------------------------------------------------
(* The graph.  There is no boundary 0.                                      *)

NoSwitch == [from |-> 0, to |-> 0]
Nodes == DOMAIN graph.nodes
Context(n) == graph.nodes[n].context
Retained(nodes) == {nodes[n].context : n \in DOMAIN nodes}
\* A boundary and its ancestors, which the code finds along node.parent.
Line(n) == IF n = 0 THEN {} ELSE graph.nodes[n].line
\* BranchStore.context, of a boundary whose file is there.
Readable(n) == n \in Nodes /\ Context(n) \in blobs

\* assertReady
Ready == ~location.pending /\ graph.switch = NoSwitch

\* crypto.randomUUID: boundaries that were pruned do not come back.
NewNode == graph.made + 1
\* BranchStore.capture: the context is written before the boundary that names
\* it, which becomes the selected one.
CanCapture == graph.switch = NoSwitch /\ Cardinality(Nodes) < MaxNodes
Capture(h, directory) ==
  /\ CanCapture
  /\ blobs' = blobs \cup {h}
  /\ graph' = [graph EXCEPT
       !.head = NewNode, !.made = NewNode,
       !.nodes = [n \in Nodes \cup {NewNode} |->
                    IF n = NewNode
                    THEN [context |-> h, line |-> Line(graph.head) \cup {NewNode},
                          directory |-> directory]
                    ELSE graph.nodes[n]]]

----------------------------------------------------------------------------
Closed == [at |-> "closed", offline |-> FALSE, history |-> <<>>, start |-> 0,
           revised |-> FALSE, unsaved |-> FALSE, halted |-> FALSE,
           asked |-> FALSE, whole |-> FALSE, drop |-> {}]

HistoryInit ==
  /\ graph = [nodes |-> <<>>, head |-> 0, switch |-> NoSwitch, made |-> 0]
  /\ \E d \in Directories : location = [directory |-> d, pending |-> FALSE, node |-> 0]
  /\ blobs = {}
  /\ transcript \in {<<>>, Exchange(0)}       \* new, or of an older version
  /\ native = Closed
  /\ strayed = FALSE
  /\ tally = [messages |-> 0, asks |-> 0, opens |-> 0, faults |-> 0]

At(place) == native.at = place
Enter(place) == native' = [native EXCEPT !.at = place]
Leave == native' = Closed
Asks == tally.asks < MaxAsks /\ tally' = [tally EXCEPT !.asks = @ + 1]
Says == New <= MaxMessages /\ tally' = [tally EXCEPT !.messages = New]
Fails == tally.faults < MaxFileFaults /\ tally' = [tally EXCEPT !.faults = @ + 1]

\* Mutant: a history that was revised is appended to like any other.
Whole_IgnoresRevisions == native.asked \/ native.unsaved

\* What persistence would write: a snapshot of the history, renamed into place,
\* or the messages of the turn, appended, of which a failure keeps some.
Whole == native.asked \/ native.unsaved \/ native.revised
Added == SubSeq(native.history, native.start + 1, Len(native.history))
Written == IF Whole THEN native.history ELSE transcript \o Added
\* Mutant: a snapshot is written over the transcript instead of beside it.
Leftovers_Truncated ==
  IF At("switching") THEN {transcript, <<>>, Context(graph.switch.to)} ELSE {transcript}

\* The transcripts that a failed or interrupted write may leave.
Leftovers ==
  CASE At("persist") ->
         IF Whole THEN {transcript, native.history}
         ELSE {transcript \o SubSeq(Added, 1, n) : n \in 0 .. Len(Added)}
    [] native.at \in {"repair", "publishing"} -> {transcript, native.history}
    [] At("switching") -> {transcript, Context(graph.switch.to)}
    [] OTHER -> {transcript}

----------------------------------------------------------------------------
(* Opening.                                                                 *)

\* A publication that was interrupted replaces the history by its boundary's
\* context; otherwise the transcript is loaded.
OpenSession ==
  /\ At("closed")
  /\ tally.opens < MaxOpens /\ tally' = [tally EXCEPT !.opens = @ + 1]
  /\ \/ /\ location.pending /\ Readable(location.node)
        /\ native' = [native EXCEPT !.at = "repair", !.history = Context(location.node)]
     \/ /\ ~location.pending
        /\ native' = [native EXCEPT !.at = "seeded", !.history = transcript]
  /\ UNCHANGED <<recorded, strayed>>

\* A compaction while the publication was pending is undone here.
RepairTranscript ==
  /\ At("repair")
  /\ \/ Enter("repaired") /\ transcript' = native.history /\ UNCHANGED tally
     \/ Leave /\ Fails /\ transcript' \in Leftovers
  /\ UNCHANGED <<graph, location, blobs, strayed>>
RepairLocation ==
  /\ At("repaired") /\ Enter("seeded")
  /\ location' = [location EXCEPT !.pending = FALSE]
  /\ strayed' = (graph.head # location.node)
  /\ UNCHANGED <<graph, blobs, transcript, tally>>

\* NativeRecovery.initialize: an interrupted head switch is finished or
\* cancelled by what the history turns out to be, or the session cannot open.
SettleSwitch ==
  LET switch == graph.switch IN
  /\ At("seeded") /\ switch # NoSwitch /\ Readable(switch.to)
  /\ \/ /\ native.history = Context(switch.to) /\ UNCHANGED native
        /\ graph' = [graph EXCEPT !.head = switch.to, !.switch = NoSwitch]
        /\ strayed' = FALSE
     \/ /\ native.history # Context(switch.to) /\ switch.from # 0 /\ Readable(switch.from)
        /\ native.history = Context(switch.from) /\ UNCHANGED native
        /\ graph' = [graph EXCEPT !.switch = NoSwitch]
        /\ strayed' = FALSE
     \/ /\ native.history # Context(switch.to)
        /\ switch.from # 0 => Readable(switch.from) /\ native.history # Context(switch.from)
        /\ Enter("refused") /\ UNCHANGED <<graph, strayed>>
  /\ UNCHANGED <<location, blobs, transcript, tally>>

\* The first opening records a boundary; then session.start or session.resume
\* may add context, which is no part of it and of no transcript.
Initialize ==
  /\ At("seeded") /\ graph.switch = NoSwitch /\ Enter("started")
  /\ IF graph.head = 0 /\ ValidContext(native.history)
     THEN Capture(native.history, location.directory)
     ELSE UNCHANGED <<graph, blobs>>
  /\ UNCHANGED <<location, transcript, strayed, tally>>
StartHook ==
  /\ At("started")
  /\ \/ Enter("idle") /\ UNCHANGED <<strayed, tally>>
     \/ /\ Says /\ strayed' = TRUE
        /\ native' = [native EXCEPT !.at = "idle", !.history = @ \o Note(New)]
  /\ UNCHANGED recorded

\* A command of the CLI on a closed session: recovery only, and no initialize.
OpenOffline ==
  /\ At("closed")
  /\ tally.opens < MaxOpens /\ tally' = [tally EXCEPT !.opens = @ + 1]
  /\ native' = [native EXCEPT !.at = "idle", !.offline = TRUE, !.history = transcript]
  /\ UNCHANGED <<recorded, strayed>>

CloseSession == native.at \in {"idle", "refused"} /\ Leave /\ UNCHANGED <<recorded, strayed, tally>>

----------------------------------------------------------------------------
(* Turns and compactions.                                                   *)

TurnStarts ==
  /\ At("idle") /\ ~native.offline /\ Ready /\ ~native.halted /\ Asks
  /\ native' = [native EXCEPT !.at = "turn", !.start = Len(native.history), !.asked = FALSE]
  /\ UNCHANGED <<recorded, strayed>>
\* Prompts, answers and rounds of tools; the notices of tasks and peers count
\* as a revision of the history.
TurnAdds ==
  /\ At("turn") /\ Says
  /\ \E said \in {Exchange(New), Note(New)}, notice \in BOOLEAN :
       native' = [native EXCEPT !.history = @ \o said, !.revised = @ \/ notice]
  /\ UNCHANGED <<recorded, strayed>>
TurnEnds == At("turn") /\ Enter("persist") /\ UNCHANGED <<recorded, strayed, tally>>

\* /compact asks for no recovery to be finished first.
CompactAsked ==
  /\ At("idle") /\ ~native.offline /\ Asks
  /\ native' = [native EXCEPT !.at = "compacting", !.asked = TRUE]
  /\ UNCHANGED <<recorded, strayed>>
\* The summary is there: a boundary, the new history, another boundary.
CompactBefore ==
  /\ native.at \in {"turn", "compacting"} /\ Enter("replacing")
  /\ IF ValidContext(native.history) THEN Capture(native.history, location.directory)
     ELSE UNCHANGED <<graph, blobs>>
  /\ UNCHANGED <<location, transcript, strayed, tally>>
\* A compaction.after hook may add context that the boundary does not have.
CompactReplace ==
  /\ At("replacing") /\ Says
  /\ \E context \in {<<>>, Note(New)} :
       /\ native' = [native EXCEPT !.at = IF native.asked THEN "persist" ELSE "turn",
                       !.history = Note(New) \o context, !.start = 0, !.revised = TRUE]
       /\ strayed' = IF native.asked THEN context # <<>> ELSE strayed
  /\ Capture(Note(New), location.directory)
  /\ UNCHANGED <<location, transcript>>
\* No room for the second boundary; the history is replaced all the same.
CompactUnrecorded ==
  /\ At("replacing") /\ ~CanCapture /\ Says
  /\ native' = [native EXCEPT !.at = "persist", !.history = Note(New), !.start = 0, !.revised = TRUE]
  /\ strayed' = TRUE
  /\ UNCHANGED recorded
\* The provider or a hook fails, or the graph takes no boundary: what was asked
\* for ends, and writes the transcript if that was due.  In a turn it is one
\* more way to add to the history or to end.
CompactFails ==
  /\ At("compacting")
  /\ \/ native' = [native EXCEPT !.at = IF native.revised \/ native.unsaved THEN "persist" ELSE "idle"]
        /\ strayed' = (strayed \/ native.revised \/ native.unsaved) /\ UNCHANGED tally
     \/ native' = [native EXCEPT !.at = IF native.revised \/ native.unsaved THEN "persist" ELSE "idle",
                                 !.history = @ \o Note(New)]
        /\ strayed' = TRUE /\ Says
  /\ UNCHANGED recorded

\* #persistTurnTranscript, after a turn and after /compact.
Persist ==
  /\ At("persist") /\ transcript' = Written
  /\ native' = [native EXCEPT !.at = IF native.asked THEN "idle" ELSE "record",
                  !.whole = Whole, !.revised = FALSE, !.unsaved = FALSE]
  /\ UNCHANGED <<graph, location, blobs, strayed, tally>>
PersistFails ==
  /\ At("persist") /\ Fails /\ (Whole \/ Added # <<>>)
  /\ transcript' \in Leftovers /\ strayed' = TRUE
  /\ native' = [native EXCEPT !.at = IF native.asked THEN "idle" ELSE "record", !.unsaved = TRUE]
  /\ UNCHANGED <<graph, location, blobs>>

\* The boundary of the turn, if its exchange is complete.
RecordTurn ==
  /\ At("record") /\ ~native.unsaved /\ Enter("idle")
  /\ IF ValidContext(native.history)
     THEN Capture(native.history, location.directory) /\ strayed' = (strayed /\ ~native.whole)
     ELSE UNCHANGED <<graph, blobs>> /\ strayed' = TRUE
  /\ UNCHANGED <<location, transcript, tally>>
\* No further turn of this process: the transcript is not written, the graph is
\* full, or storing the boundary fails after its context.
RecordTurnFails ==
  /\ At("record") /\ native' = [native EXCEPT !.at = "idle", !.halted = TRUE]
  /\ \/ /\ native.unsaved \/ (ValidContext(native.history) /\ ~CanCapture)
        /\ UNCHANGED <<blobs, tally>>
     \/ /\ ~native.unsaved /\ ValidContext(native.history) /\ CanCapture /\ Fails
        /\ blobs' \in {blobs, blobs \cup {native.history}}
  /\ strayed' = TRUE
  /\ UNCHANGED <<graph, location, transcript>>

\* The user's own command, its result added to the context.
UserCommand ==
  /\ At("idle") /\ ~native.offline /\ tally.asks < MaxAsks /\ New <= MaxMessages
  /\ tally' = [tally EXCEPT !.asks = @ + 1, !.messages = New]
  /\ native' = [native EXCEPT !.history = @ \o Note(New), !.revised = TRUE]
  /\ UNCHANGED <<recorded, strayed>>

----------------------------------------------------------------------------
(* Rewinding the conversation.                                              *)

\* The directory of the policy is the recorded current one, offline as well: the
\* session's metadata is overlaid with it when it is read (sessions.ts:136).
PrepareSwitch ==
  /\ At("idle") /\ Ready /\ Asks /\ Enter("switching")
  /\ \E n \in Nodes :
       /\ Readable(n) /\ graph.nodes[n].directory = location.directory
       /\ graph' = [graph EXCEPT !.switch = [from |-> graph.head, to |-> n]]
  /\ UNCHANGED <<location, blobs, transcript, strayed>>
\* Mutant: the boundary is selected before the transcript is replaced.
ReplaceTranscript_Later ==
  /\ At("switching") /\ Enter("switched") /\ UNCHANGED <<recorded, strayed, tally>>

ReplaceTranscript ==
  /\ At("switching") /\ Enter("switched") /\ transcript' = Context(graph.switch.to)
  /\ UNCHANGED <<graph, location, blobs, strayed, tally>>
FinishSwitch ==
  LET to == graph.switch.to IN
  /\ At("switched")
  /\ graph' = [graph EXCEPT !.head = to, !.switch = NoSwitch]
  /\ native' = [native EXCEPT !.at = "idle", !.history = Context(to), !.revised = FALSE]
  /\ strayed' = FALSE
  /\ UNCHANGED <<location, blobs, transcript, tally>>
\* The switch stays where it is until the session is opened again.
SwitchFails ==
  /\ native.at \in {"switching", "switched"} /\ Enter("idle") /\ Fails
  /\ transcript' \in Leftovers
  /\ UNCHANGED <<graph, location, blobs, strayed>>

----------------------------------------------------------------------------
(* Changing the working directory.                                          *)

\* One commit publishes the new directory, its boundary and what is pending; a
\* preparation that fails leaves at most a context behind.
MoveDirectory ==
  /\ At("idle") /\ ~native.offline /\ Ready /\ CanCapture /\ tally.asks < MaxAsks
  /\ \E d \in Directories \ {location.directory}, carried \in {native.history, <<>>} :
       /\ ValidContext(carried)
       /\ \/ /\ Capture(carried, d) /\ Asks
             /\ location' = [directory |-> d, pending |-> TRUE, node |-> NewNode]
             /\ native' = [Closed EXCEPT !.at = "publishing", !.history = carried]
          \/ /\ blobs' = blobs \cup {carried} /\ Fails
             /\ UNCHANGED <<graph, location, native>>
  /\ UNCHANGED <<transcript, strayed>>
PublishTranscript ==
  /\ At("publishing") /\ Enter("published") /\ transcript' = native.history
  /\ UNCHANGED <<graph, location, blobs, strayed, tally>>
PublishLocation ==
  /\ At("published") /\ Enter("idle")
  /\ location' = [location EXCEPT !.pending = FALSE] /\ strayed' = FALSE
  /\ UNCHANGED <<graph, blobs, transcript, tally>>
\* The new runtime stays, and takes no turn until the session is opened again.
PublishFails ==
  /\ native.at \in {"publishing", "published"} /\ Enter("idle") /\ Fails
  /\ transcript' \in Leftovers
  /\ UNCHANGED <<graph, location, blobs, strayed>>

----------------------------------------------------------------------------
(* Storage given back.                                                      *)

Rest(S) == [n \in Nodes \ S |-> graph.nodes[n]]
\* Mutant: the contexts of what was pruned go, whoever else has them.
Prune_UnlinksShared ==
  /\ At("idle") /\ graph.switch = NoSwitch /\ Asks
  /\ \E S \in SUBSET (Nodes \ Line(graph.head)) :
       /\ S # {} /\ \A n \in Nodes \ S : Line(n) \cap S = {}
       /\ graph' = [graph EXCEPT !.nodes = Rest(S)]
       /\ native' = [native EXCEPT !.at = "unlinking", !.drop = {Context(n) : n \in S}]
  /\ UNCHANGED <<location, blobs, transcript, strayed>>

\* Whole abandoned branches; then the contexts that no boundary has any more.
Prune ==
  /\ At("idle") /\ graph.switch = NoSwitch /\ Asks
  /\ \E S \in SUBSET (Nodes \ Line(graph.head)) :
       /\ S # {} /\ \A n \in Nodes \ S : Line(n) \cap S = {}
       /\ graph' = [graph EXCEPT !.nodes = Rest(S)]
       /\ native' = [native EXCEPT !.at = "unlinking",
                       !.drop = {Context(n) : n \in S} \ Retained(Rest(S))]
  /\ UNCHANGED <<location, blobs, transcript, strayed>>
\* What failed or interrupted operations left.
Collect ==
  /\ At("idle") /\ Ready /\ Asks
  /\ native' = [native EXCEPT !.at = "unlinking", !.drop = blobs \ Retained(graph.nodes)]
  /\ UNCHANGED <<recorded, strayed>>
Unlink ==
  /\ At("unlinking")
  /\ \E h \in native.drop :
       blobs' = blobs \ {h} /\ native' = [native EXCEPT !.drop = @ \ {h}]
  /\ UNCHANGED <<graph, location, transcript, strayed, tally>>
UnlinkEnds ==
  /\ At("unlinking") /\ native' = [native EXCEPT !.at = "idle", !.drop = {}]
  /\ \/ native.drop = {} /\ UNCHANGED tally
     \/ native.drop # {} /\ Fails
  /\ UNCHANGED <<recorded, strayed>>

----------------------------------------------------------------------------
Die ==
  /\ ~At("closed") /\ Leave
  /\ transcript' \in Leftovers
  /\ strayed' = (\/ strayed \/ native.at \in {"replacing", "persist", "record"}
                 \/ At("turn") /\ native.revised)
  /\ UNCHANGED <<graph, location, blobs, tally>>

HistoryNext ==
  \/ OpenSession \/ RepairTranscript \/ RepairLocation \/ SettleSwitch \/ Initialize
  \/ StartHook \/ OpenOffline \/ CloseSession
  \/ TurnStarts \/ TurnAdds \/ TurnEnds \/ CompactAsked \/ CompactBefore \/ CompactReplace
  \/ CompactUnrecorded \/ CompactFails \/ Persist \/ PersistFails \/ RecordTurn \/ RecordTurnFails
  \/ UserCommand
  \/ PrepareSwitch \/ ReplaceTranscript \/ FinishSwitch \/ SwitchFails
  \/ MoveDirectory \/ PublishTranscript \/ PublishLocation \/ PublishFails
  \/ Prune \/ Collect \/ Unlink \/ UnlinkEnds \/ Die

HistorySpec == HistoryInit /\ [][HistoryNext]_historyVars

----------------------------------------------------------------------------
(* Properties.                                                              *)

\* Every boundary keeps its exact context, although boundaries share contexts
\* and pruning, collection, failed captures and crashes interleave
\* (BranchStore.prune, collect and #write): any of them can be selected, and a
\* pending publication can be repaired.
ContextsRetained == Retained(graph.nodes) \subseteq blobs

\* A head switch that a crash or a failed write interrupts is finished or
\* cancelled when the session opens again (NativeRecovery.initialize), not
\* refused for good, unless transcript and selected boundary had parted before
\* or were parted while it was pending.
SwitchSettles == At("refused") => strayed

\* Between operations, and at rest, a resumed session would continue from the
\* selected boundary: turns, compactions, rewinds and changes of directory,
\* each several writes, keep transcript.jsonl and the graph together whenever
\* nothing failed, died or added context of its own in between; a rewind, a
\* change of directory and a recorded snapshot bring them together again.
TranscriptFollows ==
  native.at \in {"idle", "closed"} /\ Ready /\ ~strayed /\ graph.head # 0
    => transcript = Context(graph.head)

\* A rewind selects its boundary only once the transcript is that boundary's
\* context (NativeRecovery.rewind and initialize), whatever failed in between.
SelectedIsWritten ==
  [][graph.switch # NoSwitch /\ graph'.head # graph.head
       => transcript = graph'.nodes[graph'.head].context]_historyVars
=============================================================================
