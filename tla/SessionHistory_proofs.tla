------------------------ MODULE SessionHistory_proofs ------------------------
(***************************************************************************)
(* SessionHistory for every number of boundaries, messages and failures:   *)
(* contexts are retained, a rewind selects what is written, interrupted    *)
(* rewinds settle and the transcript follows the selected boundary.        *)
(***************************************************************************)
EXTENDS SessionHistory, SequenceTheorems, TLAPS

Messages == Seq(Nat)
Places == {"closed", "repair", "repaired", "seeded", "refused", "started", "idle",
           "turn", "compacting", "replacing", "persist", "record",
           "switching", "switched", "publishing", "published", "unlinking"}
Processes == [at : Places, offline : BOOLEAN, history : Messages, start : Nat,
              revised : BOOLEAN, unsaved : BOOLEAN, halted : BOOLEAN,
              asked : BOOLEAN, whole : BOOLEAN, drop : SUBSET Messages]
Tallies == [messages : Nat, asks : Nat, opens : Nat, faults : Nat]

GraphOK ==
  /\ graph.made \in Nat /\ DOMAIN graph.nodes \subseteq 1 .. graph.made
  /\ graph \in [nodes : [DOMAIN graph.nodes -> [context : Messages, line : SUBSET Nat, directory : Directories]],
                head : Nat, switch : [from : Nat, to : Nat], made : Nat]
  /\ \A n \in Nodes : n \in Line(n)
  /\ graph.head # 0 => graph.head \in Nodes
  /\ graph.head = 0 => Nodes = {}
  /\ graph.switch # NoSwitch
       => /\ graph.switch.from = graph.head /\ graph.head # 0
          /\ graph.switch.to \in Nodes

HTypeOK ==
  /\ GraphOK
  /\ location \in [directory : Directories, pending : BOOLEAN, node : Nat]
  /\ blobs \subseteq Messages
  /\ transcript \in Messages
  /\ native \in Processes
  /\ strayed \in BOOLEAN
  /\ tally \in Tallies

\* Files that are about to be unlinked hold no context of a boundary.
BlobsOK ==
  /\ ContextsRetained
  /\ At("unlinking") => native.drop \cap Retained(graph.nodes) = {}

\* Whether recovery is due depends on where the process is.
ReadyOK ==
  /\ At("turn") => ~native.asked
  /\ At("compacting") => native.asked
  /\ native.at \in {"turn", "record"} => Ready
  /\ native.at \in {"replacing", "persist"} /\ ~native.asked => Ready
  /\ native.at \in {"seeded", "started", "switching", "switched"} => ~location.pending
  /\ native.at \in {"started", "publishing", "published"} => graph.switch = NoSwitch
  /\ native.at \in {"switching", "switched"} => graph.switch # NoSwitch
  /\ native.at \in {"publishing", "published", "repair", "repaired"} => location.pending

\* What the history is compared with, or written to, further on.
HistoryOK ==
  /\ native.at \in {"repair", "repaired"} => native.history = Context(location.node)
  /\ At("repaired") => transcript = native.history
  /\ At("seeded") => native.history = transcript
  /\ At("switched") => transcript = Context(graph.switch.to)
  /\ native.at \in {"publishing", "published"}
       => graph.head # 0 /\ native.history = Context(graph.head)
  /\ At("published") => transcript = native.history
  /\ At("record") /\ ~native.unsaved /\ (~strayed \/ native.whole)
       => transcript = native.history
  /\ At("refused") => strayed

\* The boundary that the transcript follows, while nothing has parted them.
Follows == ~strayed /\ ~location.pending
FollowsOK ==
  /\ native.at \in {"closed", "seeded", "started", "idle", "compacting", "unlinking"}
       /\ Follows /\ graph.head # 0
       => IF graph.switch = NoSwitch THEN transcript = Context(graph.head)
          ELSE transcript \in {Context(graph.head), Context(graph.switch.to)}
  /\ At("switching") /\ Follows => transcript = Context(graph.head)
  /\ native.at \in {"started", "idle", "compacting", "unlinking"} /\ Follows
       /\ graph.switch = NoSwitch /\ ~native.revised
       => native.history = transcript
  /\ At("turn") /\ ~strayed /\ ~native.revised /\ graph.head # 0 => transcript = Context(graph.head)
  /\ native.at \in {"turn", "persist"} /\ ~strayed /\ ~native.revised /\ ~native.asked
       => /\ native.start <= Len(native.history)
          /\ transcript = SubSeq(native.history, 1, native.start)
  /\ At("persist") /\ native.asked /\ ~strayed
       => /\ graph.switch = NoSwitch /\ graph.head # 0
          /\ native.history = Context(graph.head)

IInv == HTypeOK /\ BlobsOK /\ ReadyOK /\ HistoryOK /\ FollowsOK

----------------------------------------------------------------------------
(* Lemmas about captures and messages.                                      *)

LEMMA Said ==
  ASSUME NEW n \in Nat
  PROVE  Note(n) \in Messages /\ Exchange(n) \in Messages
BY SMTT(60) DEF Note, Exchange, Messages

\* A prefix of a history, and the history as what precedes and what follows.
LEMMA Prefixes ==
  ASSUME NEW h \in Seq(Nat), NEW g \in Seq(Nat), NEW n \in 0 .. Len(h)
  PROVE  /\ SubSeq(h, 1, Len(h)) = h
         /\ SubSeq(h \o g, 1, n) = SubSeq(h, 1, n)
         /\ SubSeq(h, 1, n) \o SubSeq(h, n + 1, Len(h)) = h
<1>1. SubSeq(h, 1, Len(h)) = h
  OBVIOUS
<1>2. SubSeq(h \o g, 1, n) = SubSeq(h, 1, n)
  <2> DEFINE p == SubSeq(h \o g, 1, n)
             q == SubSeq(h, 1, n)
  <2>1. p \in Seq(Nat) /\ q \in Seq(Nat) /\ Len(p) = n /\ Len(q) = n
    BY SMTT(60)
  <2>2. \A i \in 1 .. n : p[i] = q[i]
    OBVIOUS
  <2> HIDE DEF p, q
  <2>3. p = q
    BY <2>1, <2>2, SeqEqual
  <2> QED BY <2>3 DEF p, q
<1>3. SubSeq(h, 1, n) \o SubSeq(h, n + 1, Len(h)) = h
  <2>1. 1 \in 1 .. Len(h) + 1 /\ n \in 1 - 1 .. Len(h) /\ Len(h) \in n .. Len(h)
    OBVIOUS
  <2>2. SubSeq(h, 1, n) \o SubSeq(h, n + 1, Len(h)) = SubSeq(h, 1, Len(h))
    BY <2>1, ConcatAdjacentSubSeq
  <2> QED BY <1>1, <2>2
<1> QED BY <1>1, <1>2, <1>3

\* A capture adds one boundary, selected and with the given context.
LEMMA CaptureEffect ==
  ASSUME GraphOK, NEW h \in Messages, NEW d \in Directories, Capture(h, d)
  PROVE  /\ GraphOK'
         /\ NewNode \notin Nodes /\ NewNode # 0
         /\ graph.switch = NoSwitch /\ graph'.switch = NoSwitch
         /\ graph'.head = NewNode /\ Nodes' = Nodes \cup {NewNode}
         /\ Context(graph.head)' = h
         /\ \A n \in Nodes : Context(n)' = Context(n)
         /\ Retained(graph'.nodes) = Retained(graph.nodes) \cup {h}
         /\ blobs' = blobs \cup {h}
<1> DEFINE boundary == [context |-> h, line |-> Line(graph.head) \cup {NewNode}, directory |-> d]
           grown == [n \in Nodes \cup {NewNode} |-> IF n = NewNode THEN boundary ELSE graph.nodes[n]]
<1>1. /\ graph.switch = NoSwitch /\ blobs' = blobs \cup {h}
      /\ graph' = [graph EXCEPT !.head = NewNode, !.made = NewNode, !.nodes = grown]
  BY DEF Capture, CanCapture
<1>2. NewNode \in Nat /\ NewNode # 0 /\ NewNode \notin Nodes
  BY DEF GraphOK, NewNode, Nodes
<1>3. Line(graph.head) \subseteq Nat
  BY DEF GraphOK, Line, Nodes
<1>4. /\ graph'.nodes = grown /\ graph'.head = NewNode /\ graph'.made = NewNode
      /\ graph'.switch = NoSwitch
  BY <1>1 DEF GraphOK
<1>5. boundary \in [context : Messages, line : SUBSET Nat, directory : Directories]
  BY <1>2, <1>3
<1>6. Nodes' = Nodes \cup {NewNode}
  BY <1>4 DEF Nodes
<1>7. \A n \in Nodes : graph'.nodes[n] = graph.nodes[n]
  BY <1>2, <1>4
<1>8. graph'.nodes[NewNode] = boundary
  BY <1>4
<1>9. graph' \in [nodes : [DOMAIN graph'.nodes -> [context : Messages, line : SUBSET Nat, directory : Directories]],
                   head : Nat, switch : [from : Nat, to : Nat], made : Nat]
  <2>1. grown \in [Nodes \cup {NewNode} -> [context : Messages, line : SUBSET Nat, directory : Directories]]
    BY <1>5 DEF GraphOK, Nodes
  <2>2. graph' = [nodes |-> grown, head |-> NewNode, switch |-> graph.switch, made |-> NewNode]
    BY <1>1 DEF GraphOK
  <2> QED BY <1>2, <2>1, <2>2 DEF GraphOK
<1>10. GraphOK'
  <2>1. graph'.made \in Nat /\ DOMAIN graph'.nodes \subseteq 1 .. graph'.made
    BY <1>2, <1>4, <1>6 DEF GraphOK, Nodes, NewNode
  <2>2. \A n \in Nodes' : n \in graph'.nodes[n].line /\ n # 0
    BY <1>2, <1>6, <1>7, <1>8 DEF GraphOK, Line, Nodes
  <2>3. \A n \in Nodes' : n \in Line(n)'
    BY <2>2 DEF Line
  <2> QED BY <1>2, <1>4, <1>6, <1>9, <2>1, <2>3 DEF GraphOK
<1>11. Retained(graph'.nodes) = Retained(graph.nodes) \cup {h}
  BY <1>2, <1>6, <1>7, <1>8 DEF Retained, Nodes
<1> QED BY <1>1, <1>2, <1>4, <1>6, <1>7, <1>8, <1>10, <1>11, SMTT(60) DEF Context

LEMMA ContextTyped ==
  ASSUME GraphOK, NEW n \in Nodes
  PROVE  Context(n) \in Messages
BY DEF GraphOK, Nodes, Context

LEMMA GraphSame == GraphOK /\ UNCHANGED graph => GraphOK'
BY DEF GraphOK, Nodes, Line

\* Whatever a write leaves is a transcript.
LEMMA LeftoversTyped ==
  ASSUME HTypeOK, ReadyOK
  PROVE  Leftovers \subseteq Messages /\ Written \in Messages /\ Added \in Messages
<1>1. /\ native.history \in Messages /\ native.start \in Nat /\ transcript \in Messages
      /\ native.start + 1 \in Int
  BY DEF HTypeOK, Processes
<1>2. Added \in Messages
  BY <1>1, SMTT(60) DEF Added, Messages
<1>3. Written \in Messages
  BY <1>1, <1>2 DEF Written, Messages
<1>4. At("switching") => Context(graph.switch.to) \in Messages
  BY ContextTyped DEF HTypeOK, GraphOK, ReadyOK, At
<1>5. \A k \in 0 .. Len(Added) : transcript \o SubSeq(Added, 1, k) \in Messages
  BY <1>1, <1>2 DEF Messages
<1> QED BY <1>1, <1>2, <1>3, <1>4, <1>5 DEF Leftovers, At

\* A switch that is set or ended leaves the boundaries as they are.
LEMMA SwitchSets ==
  ASSUME GraphOK, NEW n \in Nodes,
         graph' = [graph EXCEPT !.switch = [from |-> graph.head, to |-> n]]
  PROVE  GraphOK' /\ graph'.nodes = graph.nodes /\ graph'.head = graph.head
         /\ graph'.switch = [from |-> graph.head, to |-> n] /\ graph'.switch # NoSwitch
<1>1. /\ graph'.nodes = graph.nodes /\ graph'.head = graph.head /\ graph'.made = graph.made
      /\ graph'.switch = [from |-> graph.head, to |-> n]
  BY DEF GraphOK
<1>2. n \in Nat /\ n # 0 /\ graph.head # 0 /\ graph.head \in Nat
  BY DEF GraphOK, Nodes
<1>3. graph'.switch # NoSwitch
  BY <1>1, <1>2 DEF NoSwitch
<1>4. graph' \in [nodes : [DOMAIN graph'.nodes -> [context : Messages, line : SUBSET Nat, directory : Directories]],
                  head : Nat, switch : [from : Nat, to : Nat], made : Nat]
  BY <1>1, <1>2 DEF GraphOK
<1> QED BY <1>1, <1>2, <1>3, <1>4 DEF GraphOK, Nodes, Line

LEMMA SwitchEnds ==
  ASSUME GraphOK, NEW n \in Nodes \cup {graph.head}, graph.switch # NoSwitch,
         graph' = [graph EXCEPT !.head = n, !.switch = NoSwitch]
  PROVE  GraphOK' /\ graph'.nodes = graph.nodes /\ graph'.head = n /\ n # 0 /\ n \in Nodes
         /\ graph'.switch = NoSwitch
<1>1. /\ graph'.nodes = graph.nodes /\ graph'.head = n /\ graph'.made = graph.made
      /\ graph'.switch = NoSwitch
  BY DEF GraphOK
<1>2. n \in Nodes /\ n \in Nat /\ n # 0 /\ NoSwitch \in [from : Nat, to : Nat]
  BY DEF GraphOK, Nodes, NoSwitch
<1>3. graph' \in [nodes : [DOMAIN graph'.nodes -> [context : Messages, line : SUBSET Nat, directory : Directories]],
                  head : Nat, switch : [from : Nat, to : Nat], made : Nat]
  BY <1>1, <1>2 DEF GraphOK
<1> QED BY <1>1, <1>2, <1>3 DEF GraphOK, Nodes, Line

LEMMA Pruned ==
  ASSUME GraphOK, NEW S \in SUBSET (Nodes \ Line(graph.head)),
         graph' = [graph EXCEPT !.nodes = Rest(S)], graph.switch = NoSwitch
  PROVE  /\ GraphOK' /\ graph'.head = graph.head /\ graph'.switch = NoSwitch
         /\ Nodes' \subseteq Nodes /\ \A n \in Nodes' : Context(n)' = Context(n)
         /\ Retained(graph'.nodes) = Retained(Rest(S))
         /\ Retained(Rest(S)) \subseteq Retained(graph.nodes)
<1>1. /\ graph'.nodes = Rest(S) /\ graph'.head = graph.head /\ graph'.made = graph.made
      /\ graph'.switch = NoSwitch
  BY DEF GraphOK
<1>2. DOMAIN Rest(S) = Nodes \ S /\ \A n \in Nodes \ S : Rest(S)[n] = graph.nodes[n]
  BY DEF Rest
<1>3. Nodes' = Nodes \ S
  BY <1>1, <1>2 DEF Nodes
<1>4. Rest(S) \in [DOMAIN Rest(S) -> [context : Messages, line : SUBSET Nat, directory : Directories]]
  BY DEF GraphOK, Rest, Nodes
<1>5. graph' \in [nodes : [DOMAIN graph'.nodes -> [context : Messages, line : SUBSET Nat, directory : Directories]],
                  head : Nat, switch : [from : Nat, to : Nat], made : Nat]
  BY <1>1, <1>4 DEF GraphOK
<1>6. graph.head # 0 => graph.head \in Nodes'
  BY <1>3 DEF GraphOK
<1>7. \A n \in Nodes' : n # 0 /\ n \in Line(n)' /\ Context(n)' = Context(n)
  BY <1>1, <1>2, <1>3 DEF GraphOK, Line, Context, Nodes
<1>8. GraphOK'
  BY <1>1, <1>2, <1>3, <1>5, <1>6, <1>7 DEF GraphOK, Nodes
<1>9. Retained(Rest(S)) \subseteq Retained(graph.nodes)
  BY <1>2 DEF Retained, Nodes
<1> QED BY <1>1, <1>3, <1>7, <1>8, <1>9

----------------------------------------------------------------------------
(* Types.                                                                   *)

LEMMA TypeStep ==
  ASSUME HTypeOK, ReadyOK, HistoryNext
  PROVE  HTypeOK'
<1>0. GraphOK /\ (UNCHANGED graph => GraphOK') /\ New \in Nat
  BY GraphSame DEF HTypeOK, Tallies, New
<1>a. /\ Leftovers \subseteq Messages /\ Written \in Messages
      /\ Note(New) \in Messages /\ Exchange(New) \in Messages
  BY <1>0, LeftoversTyped, Said
<1>z. <<>> \in Messages
  BY DEF Messages
<1>b. \A h \in Messages, g \in Messages : h \o g \in Messages
  BY DEF Messages
<1>i. /\ native.history \o Note(New) \in Messages /\ native.history \o Exchange(New) \in Messages
      /\ Note(New) \o Note(New) \in Messages /\ Note(New) \o <<>> \in Messages
  BY <1>a, <1>b, <1>z DEF HTypeOK, Processes
<1>c. \A n \in Nodes : Context(n) \in Messages
  BY <1>0, ContextTyped
<1>d. Closed \in Processes
  BY <1>z DEF Closed, Processes, Places
<1>e. \A place \in Places : Enter(place) => native' \in Processes
  BY DEF HTypeOK, Processes, Enter
<1>f. /\ NewNode \in Nat /\ location.directory \in Directories
      /\ location \in [directory : Directories, pending : BOOLEAN, node : Nat]
      /\ native.history \in Messages /\ Len(native.history) \in Nat /\ native \in Processes
      /\ transcript \in Messages /\ blobs \subseteq Messages /\ Whole \in BOOLEAN /\ tally \in Tallies
  BY DEF HTypeOK, GraphOK, Processes, NewNode, Messages, Whole
<1>g. \A h \in Messages, d \in Directories : Capture(h, d) => GraphOK' /\ blobs' \subseteq Messages
  BY <1>0, <1>f, CaptureEffect
<1>n. New \in Nat
  BY <1>0
<1>h. (Asks \/ Fails \/ Says \/ UNCHANGED tally) => tally' \in Tallies
  BY DEF HTypeOK, Tallies, Asks, Fails, Says, New
<1>1. CASE OpenSession
  <2>1. native' \in Processes
    BY <1>1, <1>a, <1>c, <1>f, <1>i, <1>z, ZenonT(60) DEF OpenSession, Processes, Places, Readable
  <2>2. tally' \in Tallies
    BY <1>1, <1>n, <1>f DEF OpenSession, Tallies
  <2> QED BY <1>1, <1>0, <1>a, <1>c, <1>f, <1>g, <1>h, <2>1, <2>2 DEF OpenSession, HTypeOK, recorded
<1>2. CASE RepairTranscript
  <2>1. native' \in Processes
    BY <1>2, <1>e, <1>d, <1>f DEF RepairTranscript, Places, Leave
  <2> QED BY <1>2, <1>0, <1>a, <1>c, <1>f, <1>g, <1>h, <2>1 DEF RepairTranscript, HTypeOK, recorded
<1>3. CASE RepairLocation
  <2>1. native' \in Processes
    BY <1>3, <1>e, <1>f DEF RepairLocation, Places
  <2> QED BY <1>3, <1>0, <1>a, <1>c, <1>f, <1>g, <1>h, <2>1 DEF RepairLocation, HTypeOK, recorded
<1>4. CASE SettleSwitch
  <2>1. native' \in Processes
    BY <1>4, <1>e, <1>f DEF SettleSwitch, Places
  <2>2. graph' = [graph EXCEPT !.switch = NoSwitch]
          => graph' = [graph EXCEPT !.head = graph.head, !.switch = NoSwitch]
    BY <1>0 DEF GraphOK
  <2>3. GraphOK'
    BY <1>4, <1>0, <2>2, SwitchEnds DEF SettleSwitch, Readable
  <2> QED BY <1>4, <1>0, <1>a, <1>c, <1>f, <1>g, <1>h, <2>1, <2>3 DEF SettleSwitch, HTypeOK, recorded
<1>5. CASE Initialize
  <2>1. native' \in Processes
    BY <1>5, <1>e, <1>f DEF Initialize, Places
  <2> QED BY <1>5, <1>0, <1>a, <1>c, <1>f, <1>g, <1>h, <2>1 DEF Initialize, HTypeOK, recorded
<1>6. CASE StartHook
  <2>1. native' \in Processes
    BY <1>6, <1>a, <1>c, <1>f, <1>i, <1>z, ZenonT(60) DEF StartHook, Processes, Places, Enter
  <2> QED BY <1>6, <1>0, <1>a, <1>c, <1>f, <1>g, <1>h, <2>1 DEF StartHook, HTypeOK, recorded
<1>7. CASE OpenOffline
  <2>1. native' \in Processes
    BY <1>7, <1>a, <1>c, <1>f, <1>i, <1>z DEF OpenOffline, Processes, Places
  <2>2. tally' \in Tallies
    BY <1>7, <1>n, <1>f DEF OpenOffline, Tallies
  <2> QED BY <1>7, <1>0, <1>a, <1>c, <1>f, <1>g, <1>h, <2>1, <2>2 DEF OpenOffline, HTypeOK, recorded
<1>8. CASE CloseSession
  <2>1. native' \in Processes
    BY <1>8, <1>d DEF CloseSession, Leave
  <2> QED BY <1>8, <1>0, <1>a, <1>c, <1>f, <1>g, <1>h, <2>1 DEF CloseSession, HTypeOK, recorded
<1>9. CASE TurnStarts
  <2>1. native' \in Processes
    BY <1>9, <1>a, <1>c, <1>f, <1>i, <1>z DEF TurnStarts, Processes, Places
  <2> QED BY <1>9, <1>0, <1>a, <1>c, <1>f, <1>g, <1>h, <2>1 DEF TurnStarts, HTypeOK, recorded
<1>10. CASE TurnAdds
  <2>1. native' \in Processes
    BY <1>10, <1>a, <1>c, <1>f, <1>i, <1>z, ZenonT(60) DEF TurnAdds, Processes
  <2> QED BY <1>10, <1>0, <1>a, <1>c, <1>f, <1>g, <1>h, <2>1 DEF TurnAdds, HTypeOK, recorded
<1>11. CASE TurnEnds
  <2>1. native' \in Processes
    BY <1>11, <1>e, <1>f DEF TurnEnds, Places
  <2> QED BY <1>11, <1>0, <1>a, <1>c, <1>f, <1>g, <1>h, <2>1 DEF TurnEnds, HTypeOK, recorded
<1>12. CASE CompactAsked
  <2>1. native' \in Processes
    BY <1>12, <1>a, <1>c, <1>f, <1>i, <1>z DEF CompactAsked, Processes, Places
  <2> QED BY <1>12, <1>0, <1>a, <1>c, <1>f, <1>g, <1>h, <2>1 DEF CompactAsked, HTypeOK, recorded
<1>13. CASE CompactBefore
  <2>1. native' \in Processes
    BY <1>13, <1>e, <1>f DEF CompactBefore, Places
  <2> QED BY <1>13, <1>0, <1>a, <1>c, <1>f, <1>g, <1>h, <2>1 DEF CompactBefore, HTypeOK, recorded
<1>14. CASE CompactReplace
  <2>0. PICK context \in {<<>>, Note(New)} :
          native' = [native EXCEPT !.at = IF native.asked THEN "persist" ELSE "turn",
                       !.history = Note(New) \o context, !.start = 0, !.revised = TRUE]
    BY <1>14 DEF CompactReplace
  <2>1. native' \in Processes
    BY <1>f, <1>i, <2>0 DEF Processes, Places
  <2> QED BY <1>14, <1>0, <1>a, <1>c, <1>f, <1>g, <1>h, <2>1 DEF CompactReplace, HTypeOK, recorded
<1>15. CASE CompactUnrecorded
  <2>1. native' \in Processes
    BY <1>15, <1>a, <1>c, <1>f, <1>i, <1>z DEF CompactUnrecorded, Processes, Places
  <2> QED BY <1>15, <1>0, <1>a, <1>c, <1>f, <1>g, <1>h, <2>1 DEF CompactUnrecorded, HTypeOK, recorded
<1>16. CASE CompactFails
  <2>1. native' \in Processes
    BY <1>16, <1>a, <1>c, <1>f, <1>i, <1>z, ZenonT(60) DEF CompactFails, Processes, Places
  <2> QED BY <1>16, <1>0, <1>a, <1>c, <1>f, <1>g, <1>h, <2>1 DEF CompactFails, HTypeOK, recorded
<1>17. CASE Persist
  <2>1. native' \in Processes
    BY <1>17, <1>a, <1>c, <1>f, <1>i, <1>z, ZenonT(60) DEF Persist, Processes, Places
  <2> QED BY <1>17, <1>0, <1>a, <1>c, <1>f, <1>g, <1>h, <2>1 DEF Persist, HTypeOK, recorded
<1>18. CASE PersistFails
  <2>1. native' \in Processes
    BY <1>18, <1>a, <1>c, <1>f, <1>i, <1>z DEF PersistFails, Processes, Places
  <2> QED BY <1>18, <1>0, <1>a, <1>c, <1>f, <1>g, <1>h, <2>1 DEF PersistFails, HTypeOK, recorded
<1>19. CASE RecordTurn
  <2>1. native' \in Processes
    BY <1>19, <1>e, <1>f DEF RecordTurn, Places
  <2> QED BY <1>19, <1>0, <1>a, <1>c, <1>f, <1>g, <1>h, <2>1 DEF RecordTurn, HTypeOK, recorded
<1>20. CASE RecordTurnFails
  <2>1. native' \in Processes
    BY <1>20, <1>a, <1>c, <1>f, <1>i, <1>z DEF RecordTurnFails, Processes, Places
  <2> QED BY <1>20, <1>0, <1>a, <1>c, <1>f, <1>g, <1>h, <2>1 DEF RecordTurnFails, HTypeOK, recorded
<1>21. CASE UserCommand
  <2>1. native' \in Processes
    BY <1>21, <1>a, <1>c, <1>f, <1>i, <1>z DEF UserCommand, Processes
  <2>2. tally' \in Tallies
    <3>1. tally' = [tally EXCEPT !.asks = @ + 1, !.messages = New]
      BY <1>21 DEF UserCommand
    <3>2. tally.asks + 1 \in Nat /\ tally.opens \in Nat /\ tally.faults \in Nat
      BY <1>f DEF Tallies
    <3>3. tally' = [messages |-> New, asks |-> tally.asks + 1, opens |-> tally.opens, faults |-> tally.faults]
      BY <3>1, <1>f DEF Tallies
    <3> QED BY <3>2, <3>3, <1>n DEF Tallies
  <2> QED BY <1>21, <1>0, <1>a, <1>c, <1>f, <1>g, <1>h, <2>1, <2>2 DEF UserCommand, HTypeOK, recorded
<1>22. CASE PrepareSwitch
  <2>1. native' \in Processes
    BY <1>22, <1>e, <1>f DEF PrepareSwitch, Places
  <2>2. GraphOK'
    BY <1>22, <1>0, SwitchSets DEF PrepareSwitch
  <2> QED BY <1>22, <1>0, <1>a, <1>c, <1>f, <1>g, <1>h, <2>1, <2>2 DEF PrepareSwitch, HTypeOK, recorded
<1>23. CASE ReplaceTranscript
  <2>1. native' \in Processes
    BY <1>23, <1>e, <1>f DEF ReplaceTranscript, Places
  <2>2. graph.switch.to \in Nodes
    BY <1>23, <1>0 DEF ReplaceTranscript, ReadyOK, At, GraphOK
  <2> QED BY <1>23, <1>0, <1>a, <1>c, <1>f, <1>g, <1>h, <2>1, <2>2 DEF ReplaceTranscript, HTypeOK, recorded
<1>24. CASE FinishSwitch
  <2>0. graph.switch # NoSwitch /\ graph.switch.to \in Nodes
    BY <1>24, <1>0 DEF FinishSwitch, ReadyOK, At, GraphOK
  <2>1. native' \in Processes
    BY <1>24, <1>c, <1>f, <2>0 DEF FinishSwitch, Processes, Places
  <2>2. GraphOK'
    BY <1>24, <1>0, <2>0, SwitchEnds DEF FinishSwitch
  <2> QED BY <1>24, <1>0, <1>a, <1>c, <1>f, <1>g, <1>h, <2>1, <2>2 DEF FinishSwitch, HTypeOK, recorded
<1>25. CASE SwitchFails
  <2>1. native' \in Processes
    BY <1>25, <1>e, <1>f DEF SwitchFails, Places
  <2> QED BY <1>25, <1>0, <1>a, <1>c, <1>f, <1>g, <1>h, <2>1 DEF SwitchFails, HTypeOK, recorded
<1>26. CASE MoveDirectory
  <2>0. /\ blobs' \subseteq Messages /\ GraphOK' /\ location' \in [directory : Directories, pending : BOOLEAN, node : Nat]
        /\ tally' \in Tallies
        /\ \/ native' = native
           \/ \E carried \in Messages : native' = [Closed EXCEPT !.at = "publishing", !.history = carried]
    <3>1. PICK d \in Directories, carried \in Messages :
             \/ /\ Capture(carried, d) /\ Asks
                /\ location' = [directory |-> d, pending |-> TRUE, node |-> NewNode]
                /\ native' = [Closed EXCEPT !.at = "publishing", !.history = carried]
             \/ /\ blobs' = blobs \cup {carried} /\ Fails
                /\ UNCHANGED <<graph, location, native>>
      BY <1>26, <1>f, <1>z DEF MoveDirectory
    <3>2. CASE Capture(carried, d)
      <4>1. Asks \/ Fails
        BY <3>1
      <4>2. location' \in [directory : Directories, pending : BOOLEAN, node : Nat]
        <5>1. CASE location' = [directory |-> d, pending |-> TRUE, node |-> NewNode]
          BY <5>1, <1>f
        <5>2. CASE UNCHANGED location
          BY <5>2, <1>f
        <5> QED BY <3>1, <5>1, <5>2
      <4>3. GraphOK' /\ blobs' \subseteq Messages
        BY <3>2, <1>g
      <4> QED BY <3>1, <4>1, <4>2, <4>3, <1>h
    <3>3. CASE ~Capture(carried, d)
      <4>1. /\ blobs' = blobs \cup {carried} /\ Fails
            /\ UNCHANGED <<graph, location, native>>
        BY <3>1, <3>3
      <4> QED BY <4>1, <1>0, <1>f, <1>h
    <3> QED BY <3>2, <3>3
  <2>1. native' \in Processes
    BY <1>f, <1>d, <2>0 DEF Processes, Places
  <2> QED BY <1>26, <1>0, <1>a, <1>c, <1>f, <1>g, <1>h, <2>0, <2>1 DEF MoveDirectory, HTypeOK, recorded
<1>27. CASE PublishTranscript
  <2>1. native' \in Processes
    BY <1>27, <1>e, <1>f DEF PublishTranscript, Places
  <2> QED BY <1>27, <1>0, <1>a, <1>c, <1>f, <1>g, <1>h, <2>1 DEF PublishTranscript, HTypeOK, recorded
<1>28. CASE PublishLocation
  <2>1. native' \in Processes
    BY <1>28, <1>e, <1>f DEF PublishLocation, Places
  <2> QED BY <1>28, <1>0, <1>a, <1>c, <1>f, <1>g, <1>h, <2>1 DEF PublishLocation, HTypeOK, recorded
<1>29. CASE PublishFails
  <2>1. native' \in Processes
    BY <1>29, <1>e, <1>f DEF PublishFails, Places
  <2> QED BY <1>29, <1>0, <1>a, <1>c, <1>f, <1>g, <1>h, <2>1 DEF PublishFails, HTypeOK, recorded
<1>30. CASE Prune
  <2>0. PICK S \in SUBSET (Nodes \ Line(graph.head)) :
          /\ graph' = [graph EXCEPT !.nodes = Rest(S)]
          /\ native' = [native EXCEPT !.at = "unlinking", !.drop = {Context(n) : n \in S} \ Retained(Rest(S))]
    BY <1>30 DEF Prune
  <2>1. native' \in Processes
    <3>1. {Context(n) : n \in S} \ Retained(Rest(S)) \in SUBSET Messages
      BY <1>c
    <3> QED BY <1>f, <2>0, <3>1 DEF Processes, Places
  <2>2. GraphOK'
    BY <1>30, <1>0, <2>0, Pruned DEF Prune
  <2> QED BY <1>30, <1>0, <1>a, <1>c, <1>f, <1>g, <1>h, <2>1, <2>2 DEF Prune, HTypeOK, recorded
<1>31. CASE Collect
  <2>1. native' \in Processes
    BY <1>31, <1>a, <1>c, <1>f, <1>i, <1>z DEF Collect, Processes, Places
  <2> QED BY <1>31, <1>0, <1>a, <1>c, <1>f, <1>g, <1>h, <2>1 DEF Collect, HTypeOK, recorded
<1>32. CASE Unlink
  <2>1. native' \in Processes
    BY <1>32, <1>a, <1>c, <1>f, <1>i, <1>z DEF Unlink, Processes
  <2> QED BY <1>32, <1>0, <1>a, <1>c, <1>f, <1>g, <1>h, <2>1 DEF Unlink, HTypeOK, recorded
<1>33. CASE UnlinkEnds
  <2>1. native' \in Processes
    BY <1>33, <1>a, <1>c, <1>f, <1>i, <1>z DEF UnlinkEnds, Processes, Places
  <2> QED BY <1>33, <1>0, <1>a, <1>c, <1>f, <1>g, <1>h, <2>1 DEF UnlinkEnds, HTypeOK, recorded
<1>34. CASE Die
  <2>1. native' \in Processes
    BY <1>34, <1>d DEF Die, Leave
  <2> QED BY <1>34, <1>0, <1>a, <1>c, <1>f, <1>g, <1>h, <2>1 DEF Die, HTypeOK, recorded
<1> QED BY <1>1, <1>2, <1>3, <1>4, <1>5, <1>6, <1>7, <1>8, <1>9, <1>10, <1>11, <1>12, <1>13, <1>14, <1>15, <1>16, <1>17, <1>18, <1>19, <1>20, <1>21, <1>22, <1>23, <1>24, <1>25, <1>26, <1>27, <1>28, <1>29, <1>30, <1>31, <1>32, <1>33, <1>34 DEF HistoryNext
----------------------------------------------------------------------------
(* Retained contexts.                                                       *)

\* Where nothing is unlinked afterwards, growing files keep every context.
LEMMA BlobsGrow ==
  ASSUME BlobsOK, Retained(graph'.nodes) = Retained(graph.nodes), blobs \subseteq blobs', ~At("unlinking")'
  PROVE  BlobsOK'
BY DEF BlobsOK, ContextsRetained

LEMMA BlobStep ==
  ASSUME HTypeOK, BlobsOK, ReadyOK, HistoryNext
  PROVE  BlobsOK'
<1>n. New \in Nat
  BY DEF HTypeOK, Tallies, New
<1>0. /\ GraphOK /\ native \in Processes /\ native.history \in Messages
      /\ location.directory \in Directories /\ New \in Nat /\ Note(New) \in Messages /\ <<>> \in Messages
  <2>1. GraphOK /\ native \in Processes /\ native.history \in Messages /\ location.directory \in Directories
    BY DEF HTypeOK, Processes
  <2>2. <<>> \in Messages
    BY DEF Messages
  <2> QED BY <1>n, <2>1, <2>2, Said
<1>a. \A h \in Messages, d \in Directories : Capture(h, d) /\ ~At("unlinking")' => BlobsOK'
  BY <1>0, CaptureEffect DEF BlobsOK, ContextsRetained
<1>b. \A place \in Places : Enter(place) => native'.at = place
  BY <1>0 DEF Enter, Processes
<1>c. Leave => native'.at = "closed"
  BY DEF Leave, Closed
<1>1. CASE OpenSession
  <2>1. ~At("unlinking")' /\ UNCHANGED graph /\ blobs \subseteq blobs'
    BY <1>1, <1>0, <1>b, <1>c DEF OpenSession, At, Places, Processes, recorded
  <2> QED BY <2>1, BlobsGrow
<1>2. CASE RepairTranscript
  <2>1. ~At("unlinking")' /\ UNCHANGED graph /\ blobs \subseteq blobs'
    BY <1>2, <1>0, <1>b, <1>c DEF RepairTranscript, At, Places, Processes, recorded
  <2> QED BY <2>1, BlobsGrow
<1>3. CASE RepairLocation
  <2>1. ~At("unlinking")' /\ UNCHANGED graph /\ blobs \subseteq blobs'
    BY <1>3, <1>0, <1>b, <1>c DEF RepairLocation, At, Places, Processes, recorded
  <2> QED BY <2>1, BlobsGrow
<1>4. CASE SettleSwitch
  <2>1. ~At("unlinking")'
    BY <1>4, <1>b DEF SettleSwitch, At, Places
  <2>2. graph'.nodes = graph.nodes /\ UNCHANGED blobs
    BY <1>4, <1>0 DEF SettleSwitch, GraphOK
  <2> QED BY <2>1, <2>2, BlobsGrow
<1>5. CASE Initialize
  <2>1. ~At("unlinking")'
    BY <1>5, <1>b DEF Initialize, At, Places
  <2> QED BY <1>5, <1>0, <1>a, <2>1, BlobsGrow DEF Initialize
<1>6. CASE StartHook
  <2>1. ~At("unlinking")' /\ UNCHANGED graph /\ blobs \subseteq blobs'
    BY <1>6, <1>0, <1>b, <1>c DEF StartHook, At, Places, Processes, recorded, Enter
  <2> QED BY <2>1, BlobsGrow
<1>7. CASE OpenOffline
  <2>1. ~At("unlinking")' /\ UNCHANGED graph /\ blobs \subseteq blobs'
    BY <1>7, <1>0, <1>b, <1>c DEF OpenOffline, At, Places, Processes, recorded
  <2> QED BY <2>1, BlobsGrow
<1>8. CASE CloseSession
  <2>1. ~At("unlinking")' /\ UNCHANGED graph /\ blobs \subseteq blobs'
    BY <1>8, <1>0, <1>b, <1>c DEF CloseSession, At, Places, Processes, recorded
  <2> QED BY <2>1, BlobsGrow
<1>9. CASE TurnStarts
  <2>1. ~At("unlinking")' /\ UNCHANGED graph /\ blobs \subseteq blobs'
    BY <1>9, <1>0, <1>b, <1>c DEF TurnStarts, At, Places, Processes, recorded
  <2> QED BY <2>1, BlobsGrow
<1>10. CASE TurnAdds
  <2>1. ~At("unlinking")' /\ UNCHANGED graph /\ blobs \subseteq blobs'
    BY <1>10, <1>0, <1>b, <1>c DEF TurnAdds, At, Places, Processes, recorded
  <2> QED BY <2>1, BlobsGrow
<1>11. CASE TurnEnds
  <2>1. ~At("unlinking")' /\ UNCHANGED graph /\ blobs \subseteq blobs'
    BY <1>11, <1>0, <1>b, <1>c DEF TurnEnds, At, Places, Processes, recorded
  <2> QED BY <2>1, BlobsGrow
<1>12. CASE CompactAsked
  <2>1. ~At("unlinking")' /\ UNCHANGED graph /\ blobs \subseteq blobs'
    BY <1>12, <1>0, <1>b, <1>c DEF CompactAsked, At, Places, Processes, recorded
  <2> QED BY <2>1, BlobsGrow
<1>13. CASE CompactBefore
  <2>1. ~At("unlinking")'
    BY <1>13, <1>b DEF CompactBefore, At, Places
  <2> QED BY <1>13, <1>0, <1>a, <2>1, BlobsGrow DEF CompactBefore
<1>14. CASE CompactReplace
  <2>1. ~At("unlinking")'
    BY <1>14, <1>0 DEF CompactReplace, At, Processes
  <2> QED BY <1>14, <1>0, <1>a, <2>1 DEF CompactReplace
<1>15. CASE CompactUnrecorded
  <2>1. ~At("unlinking")' /\ UNCHANGED graph /\ blobs \subseteq blobs'
    BY <1>15, <1>0, <1>b, <1>c DEF CompactUnrecorded, At, Places, Processes, recorded
  <2> QED BY <2>1, BlobsGrow
<1>16. CASE CompactFails
  <2>1. ~At("unlinking")' /\ UNCHANGED graph /\ blobs \subseteq blobs'
    BY <1>16, <1>0, <1>b, <1>c DEF CompactFails, At, Places, Processes, recorded
  <2> QED BY <2>1, BlobsGrow
<1>17. CASE Persist
  <2>1. ~At("unlinking")' /\ UNCHANGED graph /\ blobs \subseteq blobs'
    BY <1>17, <1>0, <1>b, <1>c DEF Persist, At, Places, Processes, recorded
  <2> QED BY <2>1, BlobsGrow
<1>18. CASE PersistFails
  <2>1. ~At("unlinking")' /\ UNCHANGED graph /\ blobs \subseteq blobs'
    BY <1>18, <1>0, <1>b, <1>c DEF PersistFails, At, Places, Processes, recorded
  <2> QED BY <2>1, BlobsGrow
<1>19. CASE RecordTurn
  <2>1. ~At("unlinking")'
    BY <1>19, <1>b DEF RecordTurn, At, Places
  <2> QED BY <1>19, <1>0, <1>a, <2>1, BlobsGrow DEF RecordTurn
<1>20. CASE RecordTurnFails
  <2>1. ~At("unlinking")' /\ UNCHANGED graph /\ blobs \subseteq blobs'
    BY <1>20, <1>0, <1>b, <1>c DEF RecordTurnFails, At, Places, Processes, recorded
  <2> QED BY <2>1, BlobsGrow
<1>21. CASE UserCommand
  <2>1. ~At("unlinking")' /\ UNCHANGED graph /\ blobs \subseteq blobs'
    BY <1>21, <1>0, <1>b, <1>c DEF UserCommand, At, Places, Processes, recorded
  <2> QED BY <2>1, BlobsGrow
<1>22. CASE PrepareSwitch
  <2>1. ~At("unlinking")'
    BY <1>22, <1>b DEF PrepareSwitch, At, Places
  <2>2. graph'.nodes = graph.nodes /\ UNCHANGED blobs
    BY <1>22, <1>0 DEF PrepareSwitch, GraphOK
  <2> QED BY <2>1, <2>2, BlobsGrow
<1>23. CASE ReplaceTranscript
  <2>1. ~At("unlinking")' /\ UNCHANGED graph /\ blobs \subseteq blobs'
    BY <1>23, <1>0, <1>b, <1>c DEF ReplaceTranscript, At, Places, Processes, recorded
  <2> QED BY <2>1, BlobsGrow
<1>24. CASE FinishSwitch
  <2>1. ~At("unlinking")'
    BY <1>24, <1>0 DEF FinishSwitch, At, Processes
  <2>2. graph'.nodes = graph.nodes /\ UNCHANGED blobs
    BY <1>24, <1>0 DEF FinishSwitch, GraphOK
  <2> QED BY <2>1, <2>2, BlobsGrow
<1>25. CASE SwitchFails
  <2>1. ~At("unlinking")' /\ UNCHANGED graph /\ blobs \subseteq blobs'
    BY <1>25, <1>0, <1>b, <1>c DEF SwitchFails, At, Places, Processes, recorded
  <2> QED BY <2>1, BlobsGrow
<1>26. CASE MoveDirectory
  <2>1. PICK d \in Directories, carried \in Messages :
           \/ /\ Capture(carried, d)
              /\ native' = [Closed EXCEPT !.at = "publishing", !.history = carried]
           \/ /\ blobs' = blobs \cup {carried}
              /\ UNCHANGED <<graph, location, native>>
    BY <1>26, <1>0 DEF MoveDirectory
  <2>2. CASE native' = native
    <3>1. ~At("unlinking")'
      BY <1>26, <2>2 DEF MoveDirectory, At
    <3> QED BY <2>1, <3>1, <1>a, BlobsGrow
  <2>3. CASE native' = [Closed EXCEPT !.at = "publishing", !.history = carried]
    <3>1. ~At("unlinking")'
      BY <2>3 DEF Closed, At
    <3> QED BY <2>1, <3>1, <1>a, BlobsGrow
  <2> QED BY <2>1, <2>2, <2>3
<1>27. CASE PublishTranscript
  <2>1. ~At("unlinking")' /\ UNCHANGED graph /\ blobs \subseteq blobs'
    BY <1>27, <1>0, <1>b, <1>c DEF PublishTranscript, At, Places, Processes, recorded
  <2> QED BY <2>1, BlobsGrow
<1>28. CASE PublishLocation
  <2>1. ~At("unlinking")' /\ UNCHANGED graph /\ blobs \subseteq blobs'
    BY <1>28, <1>0, <1>b, <1>c DEF PublishLocation, At, Places, Processes, recorded
  <2> QED BY <2>1, BlobsGrow
<1>29. CASE PublishFails
  <2>1. ~At("unlinking")' /\ UNCHANGED graph /\ blobs \subseteq blobs'
    BY <1>29, <1>0, <1>b, <1>c DEF PublishFails, At, Places, Processes, recorded
  <2> QED BY <2>1, BlobsGrow
<1>30. CASE Prune
  <2>1. PICK S \in SUBSET (Nodes \ Line(graph.head)) :
          /\ graph' = [graph EXCEPT !.nodes = Rest(S)]
          /\ native' = [native EXCEPT !.at = "unlinking", !.drop = {Context(n) : n \in S} \ Retained(Rest(S))]
    BY <1>30 DEF Prune
  <2>2. /\ Retained(graph'.nodes) = Retained(Rest(S)) /\ Retained(Rest(S)) \subseteq Retained(graph.nodes)
        /\ UNCHANGED blobs
    BY <1>30, <1>0, <2>1, Pruned DEF Prune
  <2>3. native'.drop = {Context(n) : n \in S} \ Retained(Rest(S))
    BY <1>0, <2>1 DEF Processes
  <2> QED BY <2>2, <2>3 DEF BlobsOK, ContextsRetained
<1>31. CASE Collect
  <2>1. native'.drop = blobs \ Retained(graph.nodes) /\ UNCHANGED <<blobs, graph>>
    BY <1>31, <1>0 DEF Collect, Processes, recorded
  <2> QED BY <2>1 DEF BlobsOK, ContextsRetained
<1>32. CASE Unlink
  <2>1. PICK h \in native.drop : blobs' = blobs \ {h} /\ native' = [native EXCEPT !.drop = @ \ {h}]
    BY <1>32 DEF Unlink
  <2>2. native'.drop = native.drop \ {h} /\ UNCHANGED graph /\ At("unlinking")
    BY <1>32, <1>0, <2>1 DEF Unlink, Processes
  <2> QED BY <2>1, <2>2 DEF BlobsOK, ContextsRetained
<1>33. CASE UnlinkEnds
  <2>1. ~At("unlinking")' /\ UNCHANGED graph /\ blobs \subseteq blobs'
    BY <1>33, <1>0, <1>b, <1>c DEF UnlinkEnds, At, Places, Processes, recorded
  <2> QED BY <2>1, BlobsGrow
<1>34. CASE Die
  <2>1. ~At("unlinking")' /\ UNCHANGED graph /\ blobs \subseteq blobs'
    BY <1>34, <1>0, <1>b, <1>c DEF Die, At, Places, Processes, recorded
  <2> QED BY <2>1, BlobsGrow
<1> QED BY <1>1, <1>2, <1>3, <1>4, <1>5, <1>6, <1>7, <1>8, <1>9, <1>10, <1>11, <1>12, <1>13, <1>14, <1>15, <1>16, <1>17, <1>18, <1>19, <1>20, <1>21, <1>22, <1>23, <1>24, <1>25, <1>26, <1>27, <1>28, <1>29, <1>30, <1>31, <1>32, <1>33, <1>34 DEF HistoryNext
----------------------------------------------------------------------------
(* When recovery is due.                                                    *)

LEMMA ReadyStep ==
  ASSUME HTypeOK, BlobsOK, ReadyOK, HistoryNext
  PROVE  ReadyOK'
<1>n. New \in Nat
  BY DEF HTypeOK, Tallies, New
<1>0. /\ GraphOK /\ native \in Processes /\ native.history \in Messages
      /\ location \in [directory : Directories, pending : BOOLEAN, node : Nat]
      /\ location.directory \in Directories /\ Note(New) \in Messages /\ <<>> \in Messages
  <2>1. GraphOK /\ native \in Processes /\ native.history \in Messages /\ location.directory \in Directories
        /\ location \in [directory : Directories, pending : BOOLEAN, node : Nat]
    BY DEF HTypeOK, Processes
  <2>2. <<>> \in Messages
    BY DEF Messages
  <2> QED BY <1>n, <2>1, <2>2, Said
<1>a. \A h \in Messages, d \in Directories : Capture(h, d) => graph'.switch = NoSwitch /\ graph.switch = NoSwitch
  BY <1>0, CaptureEffect
<1>b. \A place \in Places : Enter(place) => native'.at = place /\ native'.asked = native.asked
  BY <1>0 DEF Enter, Processes
<1>c. Leave => native'.at = "closed" /\ native'.asked = FALSE
  BY DEF Leave, Closed
<1>s. UNCHANGED <<graph, location>> => (Ready <=> Ready')
  BY DEF Ready
<1>1. CASE OpenSession
  <2>1. \/ native'.at = "repair" /\ location.pending
        \/ native'.at = "seeded" /\ ~location.pending
    BY <1>1, <1>0 DEF OpenSession, Processes
  <2>2. UNCHANGED <<graph, location>>
    BY <1>1 DEF OpenSession, recorded
  <2> QED BY <2>1, <2>2 DEF ReadyOK, At
<1>2. CASE RepairTranscript
  <2>1. native'.at \in {"closed", "repaired"} /\ UNCHANGED <<graph, location>> /\ At("repair")
    BY <1>2, <1>0, <1>b, <1>c DEF RepairTranscript, Places, Processes
  <2>2. UNCHANGED <<graph, location>>
    BY <1>2 DEF RepairTranscript, recorded
  <2> QED BY <1>0, <1>s, <2>1, <2>2 DEF ReadyOK, At, Processes
<1>3. CASE RepairLocation
  <2>1. native'.at = "seeded" /\ location'.pending = FALSE
    BY <1>3, <1>0, <1>b DEF RepairLocation, Places
  <2> QED BY <2>1 DEF ReadyOK, At
<1>4. CASE SettleSwitch
  <2>1. native'.at \in {"seeded", "refused"} /\ UNCHANGED location /\ At("seeded")
    BY <1>4, <1>b DEF SettleSwitch, At, Places
  <2> QED BY <2>1 DEF ReadyOK, At
<1>5. CASE Initialize
  <2>1. native'.at = "started" /\ UNCHANGED location /\ At("seeded")
    BY <1>5, <1>b DEF Initialize, At, Places
  <2>2. graph'.switch = NoSwitch
    BY <1>5, <1>0, <1>a DEF Initialize
  <2> QED BY <2>1, <2>2 DEF ReadyOK, At
<1>6. CASE StartHook
  <2>1. native'.at = "idle"
    BY <1>6, <1>0, <1>b, <1>c DEF StartHook, Places, Processes
  <2>2. UNCHANGED <<graph, location>>
    BY <1>6 DEF StartHook, recorded
  <2> QED BY <1>0, <1>s, <2>1, <2>2 DEF ReadyOK, At, Processes
<1>7. CASE OpenOffline
  <2>1. native'.at = "idle"
    BY <1>7, <1>0, <1>b, <1>c DEF OpenOffline, Places, Processes
  <2>2. UNCHANGED <<graph, location>>
    BY <1>7 DEF OpenOffline, recorded
  <2> QED BY <1>0, <1>s, <2>1, <2>2 DEF ReadyOK, At, Processes
<1>8. CASE CloseSession
  <2>1. native'.at = "closed"
    BY <1>8, <1>0, <1>b, <1>c DEF CloseSession, Places, Processes
  <2>2. UNCHANGED <<graph, location>>
    BY <1>8 DEF CloseSession, recorded
  <2> QED BY <1>0, <1>s, <2>1, <2>2 DEF ReadyOK, At, Processes
<1>9. CASE TurnStarts
  <2>1. native'.at = "turn" /\ native'.asked = FALSE /\ Ready
    BY <1>9, <1>0, <1>b, <1>c DEF TurnStarts, Places, Processes
  <2>2. UNCHANGED <<graph, location>>
    BY <1>9 DEF TurnStarts, recorded
  <2> QED BY <1>0, <1>s, <2>1, <2>2 DEF ReadyOK, At, Processes
<1>10. CASE TurnAdds
  <2>0. PICK said \in {Exchange(New), Note(New)}, notice \in BOOLEAN :
          native' = [native EXCEPT !.history = @ \o said, !.revised = @ \/ notice]
    BY <1>10 DEF TurnAdds
  <2>1. native'.at = native.at /\ native'.asked = native.asked /\ At("turn")
    BY <1>10, <1>0, <2>0 DEF TurnAdds, Processes
  <2>2. UNCHANGED <<graph, location>>
    BY <1>10 DEF TurnAdds, recorded
  <2> QED BY <1>0, <1>s, <2>1, <2>2 DEF ReadyOK, At, Processes
<1>11. CASE TurnEnds
  <2>1. native'.at = "persist" /\ native'.asked = native.asked /\ At("turn")
    BY <1>11, <1>0, <1>b, <1>c DEF TurnEnds, Places, Processes
  <2>2. UNCHANGED <<graph, location>>
    BY <1>11 DEF TurnEnds, recorded
  <2> QED BY <1>0, <1>s, <2>1, <2>2 DEF ReadyOK, At, Processes
<1>12. CASE CompactAsked
  <2>1. native'.at = "compacting" /\ native'.asked
    BY <1>12, <1>0, <1>b, <1>c DEF CompactAsked, Places, Processes
  <2>2. UNCHANGED <<graph, location>>
    BY <1>12 DEF CompactAsked, recorded
  <2> QED BY <1>0, <1>s, <2>1, <2>2 DEF ReadyOK, At, Processes
<1>13. CASE CompactBefore
  <2>1. native'.at = "replacing" /\ UNCHANGED location /\ native.at \in {"turn", "compacting"} /\ native'.asked = native.asked
    BY <1>13, <1>b DEF CompactBefore, At, Places
  <2>2. graph'.switch = graph.switch
    BY <1>13, <1>0, <1>a DEF CompactBefore
  <2> QED BY <2>1, <2>2 DEF ReadyOK, At, Ready
<1>14. CASE CompactReplace
  <2>1. /\ native'.at = IF native.asked THEN "persist" ELSE "turn"
        /\ native'.asked = native.asked /\ UNCHANGED location /\ At("replacing")
    BY <1>14, <1>0 DEF CompactReplace, Processes
  <2>2. graph'.switch = NoSwitch
    BY <1>14, <1>0, <1>a DEF CompactReplace
  <2>3. native.asked \in BOOLEAN
    BY <1>0 DEF Processes
  <2>4. CASE native.asked
    BY <2>1, <2>4 DEF ReadyOK, At
  <2>5. CASE ~native.asked
    BY <2>1, <2>2, <2>5 DEF ReadyOK, At, Ready
  <2> QED BY <2>4, <2>5
<1>15. CASE CompactUnrecorded
  <2>1. native'.at = "persist" /\ native'.asked = native.asked /\ At("replacing")
    BY <1>15, <1>0, <1>b, <1>c DEF CompactUnrecorded, Places, Processes
  <2>2. UNCHANGED <<graph, location>>
    BY <1>15 DEF CompactUnrecorded, recorded
  <2> QED BY <1>0, <1>s, <2>1, <2>2 DEF ReadyOK, At, Processes
<1>16. CASE CompactFails
  <2>1. native'.at \in {"persist", "idle"} /\ native'.asked = native.asked /\ At("compacting")
    BY <1>16, <1>0, <1>b, <1>c DEF CompactFails, Places, Processes
  <2>2. UNCHANGED <<graph, location>>
    BY <1>16 DEF CompactFails, recorded
  <2> QED BY <1>0, <1>s, <2>1, <2>2 DEF ReadyOK, At, Processes
<1>17. CASE Persist
  <2>1. native'.at = (IF native.asked THEN "idle" ELSE "record") /\ native'.asked = native.asked /\ At("persist")
    BY <1>17, <1>0, <1>b, <1>c DEF Persist, Places, Processes
  <2>2. UNCHANGED <<graph, location>>
    BY <1>17 DEF Persist, recorded
  <2> QED BY <1>0, <1>s, <2>1, <2>2 DEF ReadyOK, At, Processes
<1>18. CASE PersistFails
  <2>1. native'.at = (IF native.asked THEN "idle" ELSE "record") /\ native'.asked = native.asked /\ At("persist")
    BY <1>18, <1>0, <1>b, <1>c DEF PersistFails, Places, Processes
  <2>2. UNCHANGED <<graph, location>>
    BY <1>18 DEF PersistFails, recorded
  <2> QED BY <1>0, <1>s, <2>1, <2>2 DEF ReadyOK, At, Processes
<1>19. CASE RecordTurn
  <2>1. native'.at = "idle"
    BY <1>19, <1>b DEF RecordTurn, Places
  <2> QED BY <2>1 DEF ReadyOK, At
<1>20. CASE RecordTurnFails
  <2>1. native'.at = "idle"
    BY <1>20, <1>0, <1>b, <1>c DEF RecordTurnFails, Places, Processes
  <2>2. UNCHANGED <<graph, location>>
    BY <1>20 DEF RecordTurnFails, recorded
  <2> QED BY <1>0, <1>s, <2>1, <2>2 DEF ReadyOK, At, Processes
<1>21. CASE UserCommand
  <2>1. native'.at = "idle"
    BY <1>21, <1>0, <1>b, <1>c DEF UserCommand, Places, Processes, At
  <2>2. UNCHANGED <<graph, location>>
    BY <1>21 DEF UserCommand, recorded
  <2> QED BY <1>0, <1>s, <2>1, <2>2 DEF ReadyOK, At, Processes
<1>22. CASE PrepareSwitch
  <2>1. native'.at = "switching" /\ UNCHANGED location /\ ~location.pending
    BY <1>22, <1>b DEF PrepareSwitch, Places, Ready
  <2>2. graph'.switch # NoSwitch
    BY <1>22, <1>0, SwitchSets DEF PrepareSwitch
  <2> QED BY <2>1, <2>2 DEF ReadyOK, At
<1>23. CASE ReplaceTranscript
  <2>1. native'.at = "switched" /\ UNCHANGED <<graph, location>> /\ At("switching")
    BY <1>23, <1>b DEF ReplaceTranscript, Places
  <2> QED BY <2>1 DEF ReadyOK, At
<1>24. CASE FinishSwitch
  <2>1. native'.at = "idle"
    BY <1>24, <1>0 DEF FinishSwitch, Processes
  <2> QED BY <2>1 DEF ReadyOK, At
<1>25. CASE SwitchFails
  <2>1. native'.at = "idle"
    BY <1>25, <1>0, <1>b, <1>c DEF SwitchFails, Places, Processes
  <2>2. UNCHANGED <<graph, location>>
    BY <1>25 DEF SwitchFails, recorded
  <2> QED BY <1>0, <1>s, <2>1, <2>2 DEF ReadyOK, At, Processes
<1>26. CASE MoveDirectory
  <2>1. PICK d \in Directories, carried \in Messages :
           \/ /\ Capture(carried, d)
              /\ location' = [directory |-> d, pending |-> TRUE, node |-> NewNode]
              /\ native' = [Closed EXCEPT !.at = "publishing", !.history = carried]
           \/ UNCHANGED <<graph, location, native>>
    BY <1>26, <1>0 DEF MoveDirectory
  <2>2. CASE UNCHANGED <<graph, location, native>>
    BY <2>2, <1>26 DEF MoveDirectory, ReadyOK, At
  <2>3. CASE Capture(carried, d) /\ location' = [directory |-> d, pending |-> TRUE, node |-> NewNode]
             /\ native' = [Closed EXCEPT !.at = "publishing", !.history = carried]
    <3>1. native'.at = "publishing" /\ location'.pending
      BY <2>3 DEF Closed
    <3>2. graph'.switch = NoSwitch
      BY <2>3, <1>a
    <3> QED BY <3>1, <3>2 DEF ReadyOK, At
  <2> QED BY <2>1, <2>2, <2>3
<1>27. CASE PublishTranscript
  <2>1. native'.at = "published" /\ At("publishing")
    BY <1>27, <1>0, <1>b, <1>c DEF PublishTranscript, Places, Processes
  <2>2. UNCHANGED <<graph, location>>
    BY <1>27 DEF PublishTranscript, recorded
  <2> QED BY <1>0, <1>s, <2>1, <2>2 DEF ReadyOK, At, Processes
<1>28. CASE PublishLocation
  <2>1. native'.at = "idle"
    BY <1>28, <1>b DEF PublishLocation, Places
  <2> QED BY <2>1 DEF ReadyOK, At
<1>29. CASE PublishFails
  <2>1. native'.at = "idle"
    BY <1>29, <1>0, <1>b, <1>c DEF PublishFails, Places, Processes
  <2>2. UNCHANGED <<graph, location>>
    BY <1>29 DEF PublishFails, recorded
  <2> QED BY <1>0, <1>s, <2>1, <2>2 DEF ReadyOK, At, Processes
<1>30. CASE Prune
  <2>1. native'.at = "unlinking"
    BY <1>30, <1>0 DEF Prune, Processes
  <2> QED BY <2>1 DEF ReadyOK, At
<1>31. CASE Collect
  <2>1. native'.at = "unlinking"
    BY <1>31, <1>0, <1>b, <1>c DEF Collect, Places, Processes
  <2>2. UNCHANGED <<graph, location>>
    BY <1>31 DEF Collect, recorded
  <2> QED BY <1>0, <1>s, <2>1, <2>2 DEF ReadyOK, At, Processes
<1>32. CASE Unlink
  <2>1. native'.at = "unlinking"
    BY <1>32, <1>0, <1>b, <1>c DEF Unlink, Places, Processes, At
  <2>2. UNCHANGED <<graph, location>>
    BY <1>32 DEF Unlink, recorded
  <2> QED BY <1>0, <1>s, <2>1, <2>2 DEF ReadyOK, At, Processes
<1>33. CASE UnlinkEnds
  <2>1. native'.at = "idle"
    BY <1>33, <1>0, <1>b, <1>c DEF UnlinkEnds, Places, Processes
  <2>2. UNCHANGED <<graph, location>>
    BY <1>33 DEF UnlinkEnds, recorded
  <2> QED BY <1>0, <1>s, <2>1, <2>2 DEF ReadyOK, At, Processes
<1>34. CASE Die
  <2>1. native'.at = "closed"
    BY <1>34, <1>0, <1>b, <1>c DEF Die, Places, Processes
  <2>2. UNCHANGED <<graph, location>>
    BY <1>34 DEF Die, recorded
  <2> QED BY <1>0, <1>s, <2>1, <2>2 DEF ReadyOK, At, Processes
<1> QED BY <1>1, <1>2, <1>3, <1>4, <1>5, <1>6, <1>7, <1>8, <1>9, <1>10, <1>11, <1>12, <1>13, <1>14, <1>15, <1>16, <1>17, <1>18, <1>19, <1>20, <1>21, <1>22, <1>23, <1>24, <1>25, <1>26, <1>27, <1>28, <1>29, <1>30, <1>31, <1>32, <1>33, <1>34 DEF HistoryNext
----------------------------------------------------------------------------
(* History, transcript and selected boundary.                               *)

LEMMA FollowStep ==
  ASSUME IInv, HistoryNext
  PROVE  HistoryOK' /\ FollowsOK'
<1>i. HTypeOK /\ BlobsOK /\ ReadyOK /\ HistoryOK /\ FollowsOK
  BY DEF IInv
<1>n. New \in Nat
  BY <1>i DEF HTypeOK, Tallies, New
<1>z. <<>> \in Messages
  BY DEF Messages
<1>0. /\ GraphOK /\ native \in Processes /\ native.history \in Messages /\ native.start \in Nat
      /\ location.directory \in Directories /\ Note(New) \in Messages /\ strayed \in BOOLEAN
      /\ location \in [directory : Directories, pending : BOOLEAN, node : Nat]
      /\ native.asked \in BOOLEAN /\ native.revised \in BOOLEAN /\ native.unsaved \in BOOLEAN
      /\ transcript \in Messages
  BY <1>n, <1>i, Said DEF HTypeOK, Processes
<1>a. \A h \in Messages, d \in Directories :
        Capture(h, d) => /\ graph.switch = NoSwitch /\ graph'.switch = NoSwitch
                         /\ graph'.head # 0 /\ Context(graph.head)' = h
  BY <1>0, CaptureEffect
<1>b. \A place \in Places : Enter(place) => native' = [native EXCEPT !.at = place]
  BY DEF Enter
<1>e. \A place \in Places : Enter(place)
        => /\ native'.at = place /\ native'.history = native.history /\ native'.start = native.start
           /\ native'.revised = native.revised /\ native'.unsaved = native.unsaved
           /\ native'.asked = native.asked /\ native'.whole = native.whole
  BY <1>0 DEF Enter, Processes
<1>c. Leave => native'.at = "closed"
  BY DEF Leave, Closed
<1>q. /\ SubSeq(native.history, 1, Len(native.history)) = native.history
      /\ Len(native.history) \in Nat
      /\ native.start <= Len(native.history)
           => /\ SubSeq(native.history, 1, native.start) \o Added = native.history
              /\ \A said \in Messages :
                   SubSeq(native.history \o said, 1, native.start) = SubSeq(native.history, 1, native.start)
  <2>1. native.history \in Seq(Nat) /\ Len(native.history) \in Nat /\ <<>> \in Seq(Nat)
    BY <1>0, <1>z DEF Messages
  <2>2. SubSeq(native.history, 1, Len(native.history)) = native.history
    BY <2>1, Prefixes
  <2>3. ASSUME native.start <= Len(native.history)
        PROVE  /\ SubSeq(native.history, 1, native.start) \o Added = native.history
               /\ \A said \in Messages :
                    SubSeq(native.history \o said, 1, native.start) = SubSeq(native.history, 1, native.start)
    <3>1. native.start \in 0 .. Len(native.history)
      BY <1>0, <2>1, <2>3
    <3> QED BY <2>1, <3>1, Prefixes DEF Added, Messages
  <2> QED BY <2>1, <2>2, <2>3
<1>1. CASE OpenSession
  <2>1. /\ UNCHANGED <<graph, location, transcript, strayed>> /\ At("closed")
        /\ \/ native'.at = "repair" /\ native'.history = Context(location.node)
           \/ native'.at = "seeded" /\ native'.history = transcript
    BY <1>1, <1>0, <1>e, <1>c DEF OpenSession, Processes, Places, recorded
  <2> QED BY <1>i, <1>0, <2>1 DEF HistoryOK, FollowsOK, ReadyOK, Follows, Ready, At, Context
<1>2. CASE RepairTranscript
  <2>1. /\ UNCHANGED <<graph, location, strayed>> /\ At("repair")
        /\ \/ native'.at = "repaired" /\ native'.history = native.history /\ transcript' = native.history
           \/ native'.at = "closed" 
    BY <1>2, <1>0, <1>e, <1>c DEF RepairTranscript, Processes, Places, recorded
  <2> QED BY <1>i, <1>0, <2>1 DEF HistoryOK, FollowsOK, ReadyOK, Follows, Ready, At, Context
<1>3. CASE RepairLocation
  <2>1. /\ UNCHANGED <<graph, transcript>> /\ At("repaired") /\ location'.node = location.node
        /\ native'.at = "seeded" /\ native'.history = native.history
        /\ strayed' = (graph.head # location.node)
    BY <1>3, <1>0, <1>e, <1>c DEF RepairLocation, Processes, Places, recorded
  <2> QED BY <1>i, <1>0, <2>1 DEF HistoryOK, FollowsOK, ReadyOK, Follows, Ready, At, Context
<1>4. CASE SettleSwitch
  <2>1. At("seeded") /\ graph.switch # NoSwitch /\ UNCHANGED <<location, transcript>> /\ native.history = transcript
    BY <1>4, <1>i DEF SettleSwitch, HistoryOK
  <2>2. ~location.pending /\ graph.head # 0 /\ graph.switch.from = graph.head /\ graph.switch.to \in Nodes
    BY <1>i, <1>0, <2>1, SMTT(60) DEF ReadyOK, GraphOK, At
  <2>3. CASE /\ native.history = Context(graph.switch.to) /\ UNCHANGED native
             /\ graph' = [graph EXCEPT !.head = graph.switch.to, !.switch = NoSwitch]
    <3>1. graph'.nodes = graph.nodes /\ graph'.head = graph.switch.to /\ graph'.switch = NoSwitch
      BY <1>0, <2>1, <2>2, <2>3, SwitchEnds
    <3> QED BY <2>1, <2>3, <3>1 DEF HistoryOK, FollowsOK, ReadyOK, Follows, Ready, At, Context
  <2>4. CASE /\ native.history = Context(graph.switch.from) /\ UNCHANGED native
             /\ graph' = [graph EXCEPT !.switch = NoSwitch]
    <3>1. graph'.nodes = graph.nodes /\ graph'.head = graph.head /\ graph'.switch = NoSwitch
      BY <1>0, <2>4 DEF GraphOK
    <3> QED BY <2>1, <2>2, <2>4, <3>1 DEF HistoryOK, FollowsOK, ReadyOK, Follows, Ready, At, Context
  <2>5. CASE /\ native.history # Context(graph.switch.to)
             /\ native.history # Context(graph.switch.from)
             /\ Enter("refused") /\ UNCHANGED <<graph, strayed>>
    <3>1. strayed
      BY <1>i, <2>1, <2>2, <2>5 DEF FollowsOK, Follows, At
    <3>2. native'.at = "refused"
      BY <1>e, <2>5 DEF Places
    <3> QED BY <2>5, <3>1, <3>2 DEF HistoryOK, FollowsOK, ReadyOK, Follows, Ready, At
  <2> QED BY <1>4, <2>2, <2>3, <2>4, <2>5 DEF SettleSwitch
<1>5. CASE Initialize
  <2>1. /\ At("seeded") /\ graph.switch = NoSwitch /\ UNCHANGED <<location, transcript, strayed>>
        /\ native'.at = "started" /\ native'.history = native.history
        /\ native.history = transcript
    BY <1>5, <1>i, <1>e DEF Initialize, Places, HistoryOK
  <2>2. \/ Context(graph.head)' = native.history
        \/ UNCHANGED graph
    BY <1>5, <1>0, <1>a DEF Initialize
  <2>3. CASE Context(graph.head)' = native.history /\ graph' # graph
    <3>1. graph'.switch = NoSwitch
      BY <1>5, <1>0, <1>a, <2>3 DEF Initialize
    <3> QED BY <2>1, <2>3, <3>1 DEF HistoryOK, FollowsOK, ReadyOK, Follows, Ready, At
  <2>4. CASE UNCHANGED graph
    BY <1>i, <2>1, <2>4 DEF HistoryOK, FollowsOK, ReadyOK, Follows, Ready, At, Context
  <2> QED BY <2>2, <2>3, <2>4
<1>6. CASE StartHook
  <2>1. /\ UNCHANGED <<graph, location, transcript>> /\ At("started") /\ native'.at = "idle"
        /\ \/ strayed' = TRUE
           \/ native'.history = native.history /\ native'.revised = native.revised /\ UNCHANGED strayed
    BY <1>6, <1>0, <1>e, <1>c DEF StartHook, Processes, Places, recorded
  <2> QED BY <1>i, <1>0, <2>1 DEF HistoryOK, FollowsOK, ReadyOK, Follows, Ready, At, Context
<1>7. CASE OpenOffline
  <2>1. /\ UNCHANGED <<graph, location, transcript>> /\ At("closed") /\ native'.at = "idle"
        /\ UNCHANGED strayed /\ native'.history = transcript
    BY <1>7, <1>0, <1>e, <1>c DEF OpenOffline, Processes, Places, recorded
  <2> QED BY <1>i, <1>0, <2>1 DEF HistoryOK, FollowsOK, ReadyOK, Follows, Ready, At, Context
<1>8. CASE CloseSession
  <2>1. /\ UNCHANGED <<graph, location, transcript>> /\ native.at \in {"idle", "refused"} /\ native'.at = "closed" /\ UNCHANGED strayed
    BY <1>8, <1>0, <1>e, <1>c DEF CloseSession, Processes, Places, recorded
  <2> QED BY <1>i, <1>0, <2>1 DEF HistoryOK, FollowsOK, ReadyOK, Follows, Ready, At, Context
<1>9. CASE TurnStarts
  <2>1. /\ UNCHANGED <<graph, location, transcript>> /\ At("idle") /\ native'.at = "turn" /\ UNCHANGED strayed /\ Ready
        /\ native'.history = native.history /\ native'.start = Len(native.history)
        /\ native'.revised = native.revised /\ native'.asked = FALSE
    BY <1>9, <1>0, <1>e, <1>c DEF TurnStarts, Processes, Places, recorded
  <2> QED BY <1>i, <1>0, <2>1, <1>q DEF HistoryOK, FollowsOK, ReadyOK, Follows, Ready, At, Context
<1>10. CASE TurnAdds
  <2>1. PICK said \in {Exchange(New), Note(New)}, notice \in BOOLEAN :
          native' = [native EXCEPT !.history = @ \o said, !.revised = @ \/ notice]
    BY <1>10 DEF TurnAdds
  <2>2. /\ native'.history = native.history \o said /\ native'.revised = (native.revised \/ notice)
        /\ native'.at = "turn" /\ native'.start = native.start /\ native'.asked = native.asked
        /\ At("turn") /\ UNCHANGED <<graph, location, transcript, strayed>>
    BY <1>10, <1>0, <2>1 DEF TurnAdds, Processes, recorded, At
  <2>3. said \in Messages
    BY <1>n, <2>1, Said
  <2>4. native.start <= Len(native.history)
          => /\ native.start <= Len(native'.history)
             /\ SubSeq(native'.history, 1, native.start) = SubSeq(native.history, 1, native.start)
    <3>1. Len(native.history \o said) = Len(native.history) + Len(said) /\ Len(said) \in Nat
      BY <1>0, <2>3 DEF Messages
    <3> QED BY <1>0, <1>q, <2>2, <2>3, <3>1, SMTT(60)
  <2> QED BY <1>i, <1>0, <2>2, <2>4 DEF HistoryOK, FollowsOK, ReadyOK, Follows, Ready, At, Context
<1>11. CASE TurnEnds
  <2>1. /\ UNCHANGED <<graph, location, transcript>> /\ At("turn") /\ native'.at = "persist" /\ UNCHANGED strayed
        /\ native'.history = native.history /\ native'.start = native.start
        /\ native'.revised = native.revised /\ native'.asked = native.asked
    BY <1>11, <1>0, <1>e, <1>c DEF TurnEnds, Processes, Places, recorded
  <2> QED BY <1>i, <1>0, <2>1 DEF HistoryOK, FollowsOK, ReadyOK, Follows, Ready, At, Context
<1>12. CASE CompactAsked
  <2>1. /\ UNCHANGED <<graph, location, transcript>> /\ At("idle") /\ native'.at = "compacting" /\ UNCHANGED strayed
        /\ native'.history = native.history /\ native'.revised = native.revised
    BY <1>12, <1>0, <1>e, <1>c DEF CompactAsked, Processes, Places, recorded
  <2> QED BY <1>i, <1>0, <2>1 DEF HistoryOK, FollowsOK, ReadyOK, Follows, Ready, At, Context
<1>13. CASE CompactBefore
  <2>1. native'.at = "replacing"
    BY <1>13, <1>e DEF CompactBefore, Places
  <2> QED BY <2>1 DEF HistoryOK, FollowsOK, ReadyOK, Follows, Ready, At
<1>14. CASE CompactReplace
  <2>1. PICK context \in {<<>>, Note(New)} :
          /\ native' = [native EXCEPT !.at = IF native.asked THEN "persist" ELSE "turn",
                          !.history = Note(New) \o context, !.start = 0, !.revised = TRUE]
          /\ strayed' = IF native.asked THEN context # <<>> ELSE strayed
    BY <1>14 DEF CompactReplace
  <2>2. /\ native'.at = IF native.asked THEN "persist" ELSE "turn"
        /\ native'.history = Note(New) \o context /\ native'.revised = TRUE /\ native'.asked = native.asked
    BY <1>0, <2>1 DEF Processes
  <2>3. graph'.switch = NoSwitch /\ graph'.head # 0 /\ Context(graph.head)' = Note(New)
    BY <1>14, <1>0, <1>a DEF CompactReplace
  <2>4. context = <<>> => Note(New) \o context = Note(New)
    BY <1>0 DEF Messages
  <2>5. CASE native.asked
    <3>1. native'.at = "persist" /\ strayed' = (context # <<>>)
      BY <2>1, <2>2, <2>5
    <3> QED BY <2>2, <2>3, <2>4, <2>5, <3>1 DEF HistoryOK, FollowsOK, ReadyOK, Follows, Ready, At
  <2>6. CASE ~native.asked
    <3>1. native'.at = "turn"
      BY <2>2, <2>6
    <3> QED BY <2>2, <2>6, <3>1 DEF HistoryOK, FollowsOK, ReadyOK, Follows, Ready, At
  <2> QED BY <2>5, <2>6
<1>15. CASE CompactUnrecorded
  <2>1. native'.at = "persist" /\ strayed' = TRUE /\ native'.revised = TRUE
    BY <1>15, <1>0, <1>e, <1>c DEF CompactUnrecorded, Processes, Places, recorded
  <2> QED BY <1>i, <1>0, <2>1 DEF HistoryOK, FollowsOK, ReadyOK, Follows, Ready, At, Context
<1>16. CASE CompactFails
  <2>1. /\ UNCHANGED <<graph, location, transcript>> /\ At("compacting") /\ native'.asked = native.asked
        /\ \/ native'.at = "persist" /\ strayed' = TRUE
           \/ native'.at = "idle" /\ strayed' = TRUE
           \/ /\ native'.at = "idle" /\ UNCHANGED strayed
              /\ native'.history = native.history /\ native'.revised = native.revised
    BY <1>16, <1>0, <1>e, <1>c DEF CompactFails, Processes, Places, recorded
  <2> QED BY <1>i, <1>0, <2>1 DEF HistoryOK, FollowsOK, ReadyOK, Follows, Ready, At, Context
<1>17. CASE Persist
  <2>1. /\ UNCHANGED <<graph, location, strayed>> /\ At("persist") /\ transcript' = Written
        /\ native'.at = (IF native.asked THEN "idle" ELSE "record")
        /\ native'.history = native.history /\ native'.whole = Whole
    BY <1>17, <1>0 DEF Persist, Processes
  <2>2. Whole => transcript' = native.history
    BY <2>1 DEF Written
  <2>3. CASE native.asked
    <3>1. transcript' = native.history /\ native'.at = "idle"
      BY <2>1, <2>2, <2>3 DEF Whole
    <3>2. ~strayed' => graph'.switch = NoSwitch /\ native.history = Context(graph.head)
      BY <1>i, <2>1, <2>3 DEF FollowsOK
    <3> QED BY <2>1, <3>1, <3>2 DEF HistoryOK, FollowsOK, ReadyOK, Follows, Ready, At, Context
  <2>4. CASE ~native.asked
    <3>1. native'.at = "record"
      BY <2>1, <2>4
    <3>2. ~Whole /\ ~strayed => transcript' = native.history
      <4>1. ASSUME ~Whole, ~strayed PROVE transcript \o Added = native.history
        <5>1. native.start <= Len(native.history) /\ transcript = SubSeq(native.history, 1, native.start)
          BY <1>i, <2>1, <2>4, <4>1 DEF FollowsOK, Whole, At
        <5> QED BY <1>q, <5>1
      <4> QED BY <2>1, <4>1 DEF Written
    <3> QED BY <2>1, <2>2, <3>1, <3>2 DEF HistoryOK, FollowsOK, ReadyOK, Follows, Ready, At
  <2> QED BY <2>3, <2>4
<1>18. CASE PersistFails
  <2>1. native'.at \in {"idle", "record"} /\ strayed' = TRUE /\ native'.unsaved = TRUE
    BY <1>18, <1>0 DEF PersistFails, Processes
  <2> QED BY <2>1 DEF HistoryOK, FollowsOK, ReadyOK, Follows, Ready, At
<1>19. CASE RecordTurn
  <2>1. /\ native'.at = "idle" /\ native'.history = native.history /\ UNCHANGED <<transcript, location>>
        /\ At("record") /\ ~native.unsaved
    BY <1>19, <1>e DEF RecordTurn, Places
  <2>2. CASE ValidContext(native.history)
    <3>1. strayed' = (strayed /\ ~native.whole) /\ graph'.switch = NoSwitch /\ Context(graph.head)' = native.history
      BY <1>19, <1>0, <1>a, <2>2 DEF RecordTurn
    <3>2. ~strayed' => transcript' = native.history
      BY <1>i, <2>1, <3>1 DEF HistoryOK
    <3> QED BY <2>1, <3>1, <3>2 DEF HistoryOK, FollowsOK, ReadyOK, Follows, Ready, At
  <2>3. CASE ~ValidContext(native.history)
    <3>1. strayed' = TRUE
      BY <1>19, <2>3 DEF RecordTurn
    <3> QED BY <2>1, <3>1 DEF HistoryOK, FollowsOK, ReadyOK, Follows, Ready, At
  <2> QED BY <2>2, <2>3
<1>20. CASE RecordTurnFails
  <2>1. native'.at = "idle" /\ strayed' = TRUE
    BY <1>20, <1>0 DEF RecordTurnFails, Processes
  <2> QED BY <2>1 DEF HistoryOK, FollowsOK, ReadyOK, Follows, Ready, At
<1>21. CASE UserCommand
  <2>1. /\ UNCHANGED <<graph, location, transcript>> /\ At("idle") /\ native'.at = "idle" /\ UNCHANGED strayed /\ native'.revised = TRUE
    BY <1>21, <1>0, <1>e, <1>c DEF UserCommand, Processes, Places, recorded, At
  <2> QED BY <1>i, <1>0, <2>1 DEF HistoryOK, FollowsOK, ReadyOK, Follows, Ready, At, Context
<1>22. CASE PrepareSwitch
  <2>1. PICK n \in Nodes : graph' = [graph EXCEPT !.switch = [from |-> graph.head, to |-> n]]
    BY <1>22 DEF PrepareSwitch
  <2>2. /\ native'.at = "switching" /\ At("idle") /\ Ready /\ UNCHANGED <<location, transcript, strayed>>
    BY <1>22, <1>e DEF PrepareSwitch, Places
  <2>3. graph'.nodes = graph.nodes /\ graph'.head = graph.head /\ graph.head # 0
    BY <1>0, <2>1, SwitchSets DEF GraphOK
  <2> QED BY <1>i, <2>2, <2>3 DEF HistoryOK, FollowsOK, ReadyOK, Follows, Ready, At, Context
<1>23. CASE ReplaceTranscript
  <2>1. /\ UNCHANGED <<graph, location, strayed>> /\ At("switching")
        /\ native'.at = "switched" /\ transcript' = Context(graph.switch.to)
    BY <1>23, <1>0, <1>e, <1>c DEF ReplaceTranscript, Processes, Places, recorded
  <2> QED BY <1>i, <1>0, <2>1 DEF HistoryOK, FollowsOK, ReadyOK, Follows, Ready, At, Context
<1>24. CASE FinishSwitch
  <2>1. At("switched") /\ UNCHANGED <<location, transcript>> /\ strayed' = FALSE
        /\ graph' = [graph EXCEPT !.head = graph.switch.to, !.switch = NoSwitch]
    BY <1>24 DEF FinishSwitch
  <2>2. graph.switch # NoSwitch /\ graph.switch.to \in Nodes /\ transcript = Context(graph.switch.to)
    BY <1>i, <1>0, <2>1 DEF ReadyOK, HistoryOK, GraphOK, At
  <2>3. graph'.nodes = graph.nodes /\ graph'.head = graph.switch.to /\ graph'.switch = NoSwitch
    BY <1>0, <2>1, <2>2, SwitchEnds
  <2>4. native'.at = "idle" /\ native'.history = Context(graph.switch.to)
    BY <1>24, <1>0 DEF FinishSwitch, Processes
  <2> QED BY <2>1, <2>2, <2>3, <2>4 DEF HistoryOK, FollowsOK, ReadyOK, Follows, Ready, At, Context
<1>25. CASE SwitchFails
  <2>1. /\ native.at \in {"switching", "switched"} /\ native'.at = "idle" /\ UNCHANGED <<graph, location, strayed>>
        /\ transcript' \in Leftovers
    BY <1>25, <1>e DEF SwitchFails, Places
  <2>2. graph.switch # NoSwitch
    BY <1>i, <2>1 DEF ReadyOK
  <2>3. Follows => transcript' \in {Context(graph.head), Context(graph.switch.to)}
    <3>1. CASE At("switching")
      BY <1>i, <2>1, <3>1 DEF FollowsOK, Leftovers, At
    <3>2. CASE At("switched")
      BY <1>i, <2>1, <3>2 DEF HistoryOK, Leftovers, At
    <3> QED BY <2>1, <3>1, <3>2 DEF At
  <2> QED BY <2>1, <2>2, <2>3 DEF HistoryOK, FollowsOK, ReadyOK, Follows, Ready, At, Context
<1>26. CASE MoveDirectory
  <2>1. PICK d \in Directories, carried \in Messages :
           \/ /\ Capture(carried, d)
              /\ native' = [Closed EXCEPT !.at = "publishing", !.history = carried]
           \/ UNCHANGED <<graph, location, native>>
    BY <1>26, <1>0, <1>z DEF MoveDirectory
  <2>2. UNCHANGED <<transcript, strayed>> /\ At("idle")
    BY <1>26 DEF MoveDirectory
  <2>3. CASE UNCHANGED <<graph, location, native>>
    BY <1>i, <2>2, <2>3 DEF HistoryOK, FollowsOK, ReadyOK, Follows, Ready, At, Context
  <2>4. CASE Capture(carried, d) /\ native' = [Closed EXCEPT !.at = "publishing", !.history = carried]
    <3>1. native'.at = "publishing" /\ native'.history = carried
      BY <2>4 DEF Closed
    <3>2. graph'.head # 0 /\ Context(graph.head)' = carried
      BY <1>a, <2>4
    <3> QED BY <3>1, <3>2 DEF HistoryOK, FollowsOK, ReadyOK, Follows, Ready, At
  <2> QED BY <2>1, <2>3, <2>4
<1>27. CASE PublishTranscript
  <2>1. /\ UNCHANGED <<graph, location, strayed>> /\ At("publishing") /\ transcript' = native.history
        /\ native'.at = "published" /\ native'.history = native.history
    BY <1>27, <1>0, <1>e, <1>c DEF PublishTranscript, Processes, Places, recorded
  <2> QED BY <1>i, <1>0, <2>1 DEF HistoryOK, FollowsOK, ReadyOK, Follows, Ready, At, Context
<1>28. CASE PublishLocation
  <2>1. /\ UNCHANGED <<graph, transcript>> /\ At("published")
        /\ native'.at = "idle" /\ native'.history = native.history
    BY <1>28, <1>0, <1>e, <1>c DEF PublishLocation, Processes, Places, recorded
  <2> QED BY <1>i, <1>0, <2>1 DEF HistoryOK, FollowsOK, ReadyOK, Follows, Ready, At, Context
<1>29. CASE PublishFails
  <2>1. /\ native.at \in {"publishing", "published"} /\ UNCHANGED <<graph, location>>
        /\ native'.at = "idle" 
    BY <1>29, <1>0, <1>e, <1>c DEF PublishFails, Processes, Places, recorded
  <2> QED BY <1>i, <1>0, <2>1 DEF HistoryOK, FollowsOK, ReadyOK, Follows, Ready, At, Context
<1>30. CASE Prune
  <2>1. PICK S \in SUBSET (Nodes \ Line(graph.head)) :
          /\ graph' = [graph EXCEPT !.nodes = Rest(S)]
          /\ native' = [native EXCEPT !.at = "unlinking", !.drop = {Context(n) : n \in S} \ Retained(Rest(S))]
    BY <1>30 DEF Prune
  <2>2. /\ At("idle") /\ graph.switch = NoSwitch /\ UNCHANGED <<location, transcript, strayed>>
    BY <1>30 DEF Prune
  <2>3. /\ graph'.head = graph.head /\ graph'.switch = NoSwitch
        /\ graph.head # 0 => Context(graph.head)' = Context(graph.head)
    BY <1>0, <2>1, <2>2, Pruned DEF GraphOK
  <2>4. native'.at = "unlinking" /\ native'.history = native.history /\ native'.revised = native.revised
    BY <1>0, <2>1 DEF Processes
  <2> QED BY <1>i, <2>2, <2>3, <2>4 DEF HistoryOK, FollowsOK, ReadyOK, Follows, Ready, At
<1>31. CASE Collect
  <2>1. /\ UNCHANGED <<graph, location, transcript>> /\ At("idle") /\ native'.at = "unlinking" /\ UNCHANGED strayed
        /\ native'.history = native.history /\ native'.revised = native.revised
    BY <1>31, <1>0, <1>e, <1>c DEF Collect, Processes, Places, recorded
  <2> QED BY <1>i, <1>0, <2>1 DEF HistoryOK, FollowsOK, ReadyOK, Follows, Ready, At, Context
<1>32. CASE Unlink
  <2>1. /\ UNCHANGED <<graph, location, transcript>> /\ At("unlinking") /\ native'.at = native.at /\ UNCHANGED strayed
        /\ native'.history = native.history /\ native'.revised = native.revised
    BY <1>32, <1>0, <1>e, <1>c DEF Unlink, Processes, Places, recorded
  <2> QED BY <1>i, <1>0, <2>1 DEF HistoryOK, FollowsOK, ReadyOK, Follows, Ready, At, Context
<1>33. CASE UnlinkEnds
  <2>1. /\ UNCHANGED <<graph, location, transcript>> /\ At("unlinking") /\ native'.at = "idle" /\ UNCHANGED strayed
        /\ native'.history = native.history /\ native'.revised = native.revised
    BY <1>33, <1>0, <1>e, <1>c DEF UnlinkEnds, Processes, Places, recorded
  <2> QED BY <1>i, <1>0, <2>1 DEF HistoryOK, FollowsOK, ReadyOK, Follows, Ready, At, Context
<1>34. CASE Die
  <2>1. /\ native'.at = "closed" /\ transcript' \in Leftovers /\ UNCHANGED <<graph, location>>
        /\ strayed' = (\/ strayed \/ native.at \in {"replacing", "persist", "record"}
                       \/ At("turn") /\ native.revised)
    BY <1>34, <1>c DEF Die
  <2>2. ASSUME Follows', graph.head # 0
        PROVE  IF graph.switch = NoSwitch THEN transcript' = Context(graph.head)
               ELSE transcript' \in {Context(graph.head), Context(graph.switch.to)}
    <3>1. /\ Follows /\ native.at \notin {"replacing", "persist", "record", "refused"}
          /\ ~(At("turn") /\ native.revised) /\ native.at \in Places
          /\ native.at \notin {"repair", "repaired", "publishing", "published"}
      BY <1>i, <1>0, <2>1, <2>2 DEF Follows, HistoryOK, ReadyOK, At, Processes
    <3>2. CASE native.at \in {"closed", "seeded", "started", "idle", "compacting", "unlinking"}
      BY <1>i, <2>1, <2>2, <3>1, <3>2 DEF FollowsOK, Leftovers, At
    <3>3. CASE At("turn")
      BY <1>i, <2>1, <2>2, <3>1, <3>3 DEF FollowsOK, Follows, ReadyOK, Ready, Leftovers, At
    <3>4. CASE At("switching")
      BY <1>i, <2>1, <3>1, <3>4 DEF FollowsOK, ReadyOK, Leftovers, At
    <3>5. CASE At("switched")
      BY <1>i, <2>1, <3>1, <3>5 DEF HistoryOK, ReadyOK, Leftovers, At
    <3> QED BY <3>1, <3>2, <3>3, <3>4, <3>5 DEF Places, At
  <2> QED BY <2>1, <2>2 DEF HistoryOK, FollowsOK, ReadyOK, Follows, Ready, At, Context
<1> QED BY <1>1, <1>2, <1>3, <1>4, <1>5, <1>6, <1>7, <1>8, <1>9, <1>10, <1>11, <1>12, <1>13, <1>14, <1>15, <1>16, <1>17, <1>18, <1>19, <1>20, <1>21, <1>22, <1>23, <1>24, <1>25, <1>26, <1>27, <1>28, <1>29, <1>30, <1>31, <1>32, <1>33, <1>34 DEF HistoryNext
----------------------------------------------------------------------------
(* Theorems.                                                                *)

LEMMA InitIInv == HistoryInit => IInv
<1> SUFFICES ASSUME HistoryInit PROVE IInv
  OBVIOUS
<1>1. <<>> \in Messages /\ Exchange(0) \in Messages
  BY Said DEF Messages
<1>2. GraphOK
  <2>1. graph.nodes = <<>> /\ DOMAIN graph.nodes = {} /\ graph.head = 0 /\ graph.made = 0 /\ graph.switch = NoSwitch
    BY DEF HistoryInit
  <2>2. graph.nodes \in [{} -> [context : Messages, line : SUBSET Nat, directory : Directories]]
    BY <2>1
  <2>3. graph \in [nodes : [DOMAIN graph.nodes -> [context : Messages, line : SUBSET Nat, directory : Directories]],
                   head : Nat, switch : [from : Nat, to : Nat], made : Nat]
    BY <2>1, <2>2 DEF HistoryInit, NoSwitch
  <2> QED BY <2>1, <2>3 DEF GraphOK, Nodes
<1>3. native = Closed /\ Closed \in Processes /\ graph.nodes = <<>> /\ graph.head = 0 /\ graph.switch = NoSwitch
  BY <1>1 DEF HistoryInit, Closed, Processes, Places
<1>4. HTypeOK
  <2>1. location \in [directory : Directories, pending : BOOLEAN, node : Nat]
    BY DEF HistoryInit
  <2>2. blobs \subseteq Messages /\ transcript \in Messages /\ strayed \in BOOLEAN
    BY <1>1 DEF HistoryInit
  <2>3. tally \in Tallies
    BY DEF HistoryInit, Tallies
  <2> QED BY <1>2, <1>3, <2>1, <2>2, <2>3 DEF HTypeOK
<1>5. BlobsOK
  BY <1>3 DEF BlobsOK, ContextsRetained, Retained, At, Closed
<1>6. ReadyOK /\ HistoryOK /\ FollowsOK
  BY <1>3 DEF ReadyOK, HistoryOK, FollowsOK, At, Closed
<1> QED BY <1>4, <1>5, <1>6 DEF IInv

LEMMA StepIInv == IInv /\ [HistoryNext]_historyVars => IInv'
<1> SUFFICES ASSUME IInv, [HistoryNext]_historyVars PROVE IInv'
  OBVIOUS
<1>1. CASE HistoryNext
  BY <1>1, TypeStep, BlobStep, ReadyStep, FollowStep DEF IInv
<1>2. CASE UNCHANGED historyVars
  <2>1. UNCHANGED <<graph, location, blobs, transcript, native, strayed, tally>>
    BY <1>2 DEF historyVars, recorded
  <2>2. HTypeOK'
    BY <2>1, GraphSame DEF IInv, HTypeOK
  <2>3. BlobsOK'
    BY <2>1 DEF IInv, BlobsOK, ContextsRetained, Retained, At
  <2>4. ReadyOK'
    BY <2>1 DEF IInv, ReadyOK, Ready, At
  <2>5. HistoryOK'
    BY <2>1 DEF IInv, HistoryOK, At, Context
  <2>6. FollowsOK'
    BY <2>1 DEF IInv, FollowsOK, Follows, At, Context
  <2> QED BY <2>2, <2>3, <2>4, <2>5, <2>6 DEF IInv
<1> QED BY <1>1, <1>2 DEF historyVars

\* The inductive invariant: the types of the graph, of the process and of the
\* files, and what each place of an operation knows of history, transcript and
\* selected boundary, hold after every step, failure and crash of the session.
THEOREM HistoryInvariant == HistorySpec => []IInv
BY InitIInv, StepIInv, PTL DEF HistorySpec

\* Every boundary keeps its exact context, for every number of boundaries,
\* captures, prunings, collections and failures (BranchStore.capture, prune
\* and collect).
THEOREM ContextsAreRetained == HistorySpec => []ContextsRetained
<1>1. IInv => ContextsRetained
  BY DEF IInv, BlobsOK
<1> QED BY <1>1, HistoryInvariant, PTL

\* An interrupted head switch is finished or cancelled when the session opens
\* (NativeRecovery.initialize), unless transcript and boundary had parted.
THEOREM SwitchAlwaysSettles == HistorySpec => []SwitchSettles
<1>1. IInv => SwitchSettles
  BY DEF IInv, HistoryOK, SwitchSettles
<1> QED BY <1>1, HistoryInvariant, PTL

\* At rest the transcript that would be loaded is the selected boundary's
\* context, unless something failed, died or added context of its own.
THEOREM TranscriptAlwaysFollows == HistorySpec => []TranscriptFollows
<1>1. IInv => TranscriptFollows
  BY SMTT(60) DEF IInv, FollowsOK, Follows, TranscriptFollows, Ready, At
<1> QED BY <1>1, HistoryInvariant, PTL

\* A step that selects another boundary to end a head switch finds that
\* boundary's context in the transcript (NativeRecovery.rewind, initialize).
LEMMA SelectStep ==
  ASSUME IInv, HistoryNext, graph.switch # NoSwitch, graph'.head # graph.head
  PROVE  transcript = graph'.nodes[graph'.head].context
<1>0. /\ GraphOK /\ ReadyOK /\ HistoryOK /\ native.history \in Messages /\ location.directory \in Directories
      /\ <<>> \in Messages /\ Note(New) \in Messages
  <2>1. New \in Nat
    BY DEF IInv, HTypeOK, Tallies, New
  <2> QED BY <2>1, Said DEF IInv, HTypeOK, Processes, Messages
<1>1. CASE SettleSwitch
  <2>1. graph' = [graph EXCEPT !.head = graph.switch.to, !.switch = NoSwitch] /\ native.history = Context(graph.switch.to)
    BY <1>1, <1>0 DEF SettleSwitch, GraphOK
  <2>2. graph'.nodes = graph.nodes /\ graph'.head = graph.switch.to
    BY <1>0, <2>1 DEF GraphOK
  <2> QED BY <1>0, <1>1, <2>1, <2>2 DEF SettleSwitch, HistoryOK, Context
<1>2. CASE FinishSwitch
  <2>1. graph' = [graph EXCEPT !.head = graph.switch.to, !.switch = NoSwitch]
    BY <1>2 DEF FinishSwitch
  <2>2. graph'.nodes = graph.nodes /\ graph'.head = graph.switch.to
    BY <1>0, <2>1 DEF GraphOK
  <2> QED BY <1>0, <1>2, <2>2 DEF FinishSwitch, HistoryOK, Context
<1>3. CASE PrepareSwitch
  BY <1>3 DEF PrepareSwitch, Ready
<1>4. CASE Prune
  BY <1>4 DEF Prune
<1>5. ASSUME NEW h, NEW d, Capture(h, d) PROVE FALSE
  BY <1>5 DEF Capture, CanCapture
<1>6. CASE Initialize \/ CompactBefore \/ CompactReplace \/ RecordTurn \/ MoveDirectory
  BY <1>5, <1>6 DEF Initialize, CompactBefore, CompactReplace, RecordTurn, MoveDirectory
<1> QED
  BY <1>1, <1>2, <1>3, <1>4, <1>6 DEF HistoryNext, recorded,
     OpenSession, RepairTranscript, RepairLocation, StartHook, OpenOffline, CloseSession, TurnStarts, TurnAdds, TurnEnds, CompactAsked, CompactUnrecorded, CompactFails, Persist, PersistFails, RecordTurnFails, UserCommand, ReplaceTranscript, SwitchFails, PublishTranscript, PublishLocation, PublishFails, Collect, Unlink, UnlinkEnds, Die

\* A rewind selects its boundary only once the transcript is that boundary's
\* context, whatever failed or died in between.
THEOREM SelectedIsAlwaysWritten == HistorySpec => SelectedIsWritten
<1>1. IInv /\ [HistoryNext]_historyVars
        => [graph.switch # NoSwitch /\ graph'.head # graph.head
              => transcript = graph'.nodes[graph'.head].context]_historyVars
  BY SelectStep
<1> QED BY <1>1, HistoryInvariant, PTL DEF HistorySpec, SelectedIsWritten
=============================================================================
