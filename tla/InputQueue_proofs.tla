-------------------------- MODULE InputQueue_proofs --------------------------
(***************************************************************************)
(* Theorems about InputQueue, for every set of ids and every limit.        *)
(***************************************************************************)
EXTENDS InputQueue, FiniteSetTheorems, TLAPS

(* Each operator on records returns a record. *)

LEMMA PlacesAreNumbers ==
  ASSUME NEW S, S \subseteq Ids
  PROVE  Cardinality(S) \in Nat
BY FiniteIds, FS_Subset, FS_CardinalityType, SMTT(60)

LEMMA RecoverQType ==
  ASSUME NEW q \in Record
  PROVE  RecoverQ(q) \in Record
BY ZenonT(60) DEF Record, RecoverQ, Statuses, Mutable, Terminal

LEMMA SubmitQType ==
  ASSUME NEW q \in Record, NEW id \in Ids, NEW intent \in Intents, NEW form \in Forms
  PROVE  SubmitQ(q, id, intent, form) \in Record
<1>1. Cardinality(Present(q)) + 1 \in Nat
  BY PlacesAreNumbers DEF Present
<1>2. form \in FormSet /\ intent \in IntentSet /\ "emptied" \in FormSet
  BY Inputs DEF FormSet
<1>3. "queued" \in Statuses
  BY DEF Statuses, Mutable
<1> QED BY <1>1, <1>2, <1>3 DEF Record, SubmitQ

LEMMA EditQType ==
  ASSUME NEW q \in Record, NEW id \in Ids, NEW intent \in Intents, NEW form \in Forms
  PROVE  EditQ(q, id, intent, form) \in Record
BY Inputs DEF Record, EditQ, Statuses, Mutable

LEMMA MoveQType ==
  ASSUME NEW q \in Record, NEW id \in Ids, NEW pos \in Nat
  PROVE  MoveQ(q, id, pos) \in Record
BY DEF Record, MoveQ

LEMMA PauseQType == ASSUME NEW q \in Record PROVE PauseQ(q) \in Record
BY DEF Record, PauseQ

LEMMA ResumeQType == ASSUME NEW q \in Record PROVE ResumeQ(q) \in Record
BY DEF Record, ResumeQ, Statuses, Mutable

LEMMA RetryQType == ASSUME NEW q \in Record, NEW id \in Ids PROVE RetryQ(q, id) \in Record
BY DEF Record, RetryQ, Statuses, Mutable

LEMMA ClearQType ==
  ASSUME NEW q \in Record, q.epoch < MaxEpoch
  PROVE  ClearQ(q) \in Record
<1>1. q.epoch + 1 \in 1..MaxEpoch
  BY Limits DEF Record
<1>2. \A id \in Ids : Cardinality({x \in Pending(q) : q.place[x] <= q.place[id]}) \in Nat
  BY PlacesAreNumbers DEF Pending, Present
<1> QED BY <1>1, <1>2, ZenonT(60) DEF Record, ClearQ

LEMMA HoldQType == ASSUME NEW q \in Record PROVE HoldQ(q) \in Record
<1> DEFINE held == {id \in Ids : q.status[id] \in Mutable}
<1>1. [id \in Ids |-> q.status[id] # "absent"] \in [Ids -> BOOLEAN]
  BY Zenon
<1>2. [id \in Ids |-> q.recovered[id] /\ id \notin held] \in [Ids -> BOOLEAN]
  BY Zenon
<1>3. [id \in Ids |-> IF id \in held THEN "blocked" ELSE q.status[id]]
        \in [Ids -> Statuses \cup {"absent"}]
  BY DEF Record, Statuses, Mutable
<1> QED BY <1>1, <1>2, <1>3 DEF Record, HoldQ

LEMMA AdmitQType == ASSUME NEW q \in Record, NEW id \in Ids PROVE AdmitQ(q, id) \in Record
BY DEF Record, AdmitQ, Statuses

LEMMA SetStatusType ==
  ASSUME NEW q \in Record, NEW id \in Ids, NEW status \in Statuses
  PROVE  SetStatus(q, id, status) \in Record
BY DEF Record, SetStatus

(* Whatever the clients, the runner and restarts do, the committed record is  *)
(* one that snapshot() reads back: no method writes an unknown status, intent  *)
(* or epoch, so the session can always be opened again.                        *)
THEOREM TypeCorrect == Spec => []TypeOK
<1>1. Init => TypeOK
  BY Limits DEF Init, TypeOK, Record, IntentSet, FormSet
<1>2. TypeOK /\ [Next]_qvars => TypeOK'
  <2> SUFFICES ASSUME TypeOK, [Next]_qvars PROVE TypeOK'
    OBVIOUS
  <2> USE DEF TypeOK
  <2>1. ASSUME NEW id \in Ids, NewSubmissionId(id) PROVE TypeOK'
    BY <2>1, Limits DEF NewSubmissionId, Record
  <2>2. ASSUME NEW id \in Ids, NEW intent \in Intents, NEW form \in Forms, Submit(id, intent, form)
        PROVE  TypeOK'
    BY <2>2, SubmitQType DEF Submit, Keep
  <2>3. ASSUME NEW id \in Ids, NEW intent \in Intents, NEW form \in Forms, Edit(id, intent, form)
        PROVE  TypeOK'
    BY <2>3, EditQType DEF Edit, Keep
  <2>4. ASSUME NEW id \in Ids, NEW pos \in 1..Cardinality(Ids), Move(id, pos) PROVE TypeOK'
    BY <2>4, MoveQType DEF Move
  <2>5. ASSUME NEW id \in Ids, Remove(id) PROVE TypeOK'
    BY <2>5, SetStatusType DEF Remove, Statuses, Terminal
  <2>6. ASSUME NEW id \in Ids, NEW acknowledge \in BOOLEAN, Retry(id, acknowledge) PROVE TypeOK'
    BY <2>6, RetryQType DEF Retry
  <2>7. ASSUME Pause PROVE TypeOK'
    BY <2>7, PauseQType DEF Pause
  <2>8. ASSUME Resume PROVE TypeOK'
    BY <2>8, ResumeQType, RecoverQType DEF Resume
  <2>9. ASSUME ClearCompleted PROVE TypeOK'
    BY <2>9, ClearQType DEF ClearCompleted, PruneRaw
  <2>10. ASSUME ClearHistory PROVE TypeOK'
    BY <2>10 DEF ClearHistory, PruneRaw, Record
  <2>11. ASSUME HoldForDirectoryChange PROVE TypeOK'
    BY <2>11, HoldQType DEF HoldForDirectoryChange
  <2>12. ASSUME NEW id \in Ids, NEW allowPaused \in BOOLEAN, Admit(id, allowPaused) PROVE TypeOK'
    BY <2>12, AdmitQType DEF Admit
  <2>13. ASSUME NEW id \in Ids, Running(id) PROVE TypeOK'
    BY <2>13, SetStatusType DEF Running, Statuses
  <2>14. ASSUME NEW id \in Ids, NEW status \in Terminal \cup {"blocked", "execution-uncertain"},
                Finish(id, status)
         PROVE  TypeOK'
    <3>1. status \in Statuses
      BY DEF Statuses, Mutable
    <3> QED BY <2>14, <3>1, SetStatusType DEF Finish, PruneRaw
  <2>15. ASSUME Crash PROVE TypeOK'
    BY <2>15 DEF Crash
  <2>16. ASSUME Reopen PROVE TypeOK'
    BY <2>16, RecoverQType DEF Reopen
  <2>17. CASE UNCHANGED qvars
    BY <2>17 DEF qvars
  <2> QED
    BY <2>1, <2>2, <2>3, <2>4, <2>5, <2>6, <2>7, <2>8, <2>9, <2>10, <2>11, <2>12, <2>13,
       <2>14, <2>15, <2>16, <2>17 DEF Next, Users, Engines
<1> QED BY <1>1, <1>2, PTL DEF Spec

----------------------------------------------------------------------------
(* An id that was accepted is held by its item or, once that item is cleared, *)
(* by the epoch it was minted in.                                             *)
Remembered ==
  \A id \in Ids : /\ accepted[id] \in {0, 1}
                  /\ minted[id] <= queue.epoch
                  /\ accepted[id] = 1 => /\ minted[id] # 0
                                         /\ \/ queue.status[id] # "absent"
                                            \/ minted[id] < queue.epoch

(* What every method but submit and clearCompleted does to ids: it keeps the  *)
(* epoch and the set of items.                                                *)
SameItems(q) == /\ q.epoch = queue.epoch
                /\ \A id \in Ids : queue.status[id] # "absent" => q.status[id] # "absent"

LEMMA RecoverQItems == ASSUME TypeOK PROVE SameItems(RecoverQ(queue))
BY DEF TypeOK, Record, SameItems, RecoverQ

LEMMA ResumeQItems ==
  ASSUME NEW q \in Record, SameItems(q)
  PROVE  SameItems(ResumeQ(q))
BY DEF Record, SameItems, ResumeQ

LEMMA HoldQItems == ASSUME TypeOK PROVE SameItems(HoldQ(queue))
<1> DEFINE held == {id \in Ids : queue.status[id] \in Mutable}
<1>1. HoldQ(queue).status = [id \in Ids |-> IF id \in held THEN "blocked" ELSE queue.status[id]]
  BY Zenon DEF HoldQ, TypeOK, Record
<1>2. HoldQ(queue).epoch = queue.epoch
  BY Zenon DEF HoldQ, TypeOK, Record
<1> QED BY <1>1, <1>2 DEF SameItems

LEMMA ItemsKept ==
  ASSUME Remembered, SameItems(queue'), accepted' = accepted, minted' = minted
  PROVE  Remembered'
BY DEF Remembered, SameItems

(* No mix of repeated submissions, clearing and restarts makes submit          *)
(* acknowledge an id as new twice: the epoch fence of newSubmissionId covers   *)
(* the ids that clearCompleted forgets.                                        *)
THEOREM AcceptedOnceHolds == Spec => []AcceptedOnce
<1>1. Init => Remembered
  BY DEF Init, Remembered
<1>2. TypeOK /\ Remembered /\ [Next]_qvars => Remembered'
  <2> SUFFICES ASSUME TypeOK, Remembered, [Next]_qvars PROVE Remembered'
    OBVIOUS
  <2>1. ASSUME NEW id \in Ids, NewSubmissionId(id) PROVE Remembered'
    BY <2>1 DEF NewSubmissionId, Remembered, TypeOK, Record
  <2>2. ASSUME NEW id \in Ids, NEW intent \in Intents, NEW form \in Forms, Submit(id, intent, form)
        PROVE  Remembered'
    <3>1. accepted[id] = 0
      BY <2>2 DEF Submit, CanSubmit, Remembered, TypeOK, Record
    <3>2. SameItems(queue') /\ queue'.status[id] # "absent"
      BY <2>2 DEF Submit, SubmitQ, SameItems, TypeOK, Record
    <3> QED BY <2>2, <3>1, <3>2 DEF Submit, Remembered, SameItems, TypeOK, Record
  <2>3. ASSUME NEW id \in Ids, NEW intent \in Intents, NEW form \in Forms, Edit(id, intent, form)
        PROVE  Remembered'
    BY <2>3, ItemsKept DEF Edit, EditQ, SameItems, TypeOK, Record
  <2>4. ASSUME NEW id \in Ids, NEW pos \in 1..Cardinality(Ids), Move(id, pos) PROVE Remembered'
    BY <2>4, ItemsKept DEF Move, MoveQ, SameItems, TypeOK, Record
  <2>5. ASSUME NEW id \in Ids, Remove(id) PROVE Remembered'
    BY <2>5, ItemsKept DEF Remove, SetStatus, SameItems, TypeOK, Record
  <2>6. ASSUME NEW id \in Ids, NEW acknowledge \in BOOLEAN, Retry(id, acknowledge)
        PROVE  Remembered'
    BY <2>6, ItemsKept DEF Retry, RetryQ, SameItems, TypeOK, Record
  <2>7. ASSUME Pause PROVE Remembered'
    BY <2>7, ItemsKept DEF Pause, PauseQ, SameItems, TypeOK, Record
  <2>8. ASSUME Resume PROVE Remembered'
    <3>1. SameItems(queue)
      BY DEF SameItems
    <3> QED BY <2>8, <3>1, ItemsKept, ResumeQItems, RecoverQItems, RecoverQType DEF Resume, TypeOK
  <2>9. ASSUME ClearCompleted PROVE Remembered'
    <3>1. queue'.epoch = queue.epoch + 1
      BY <2>9 DEF ClearCompleted, ClearQ, TypeOK, Record
    <3> QED BY <2>9, <3>1 DEF ClearCompleted, Remembered, TypeOK, Record
  <2>10. ASSUME ClearHistory PROVE Remembered'
    BY <2>10, ItemsKept DEF ClearHistory, SameItems, TypeOK, Record
  <2>11. ASSUME HoldForDirectoryChange PROVE Remembered'
    BY <2>11, ItemsKept, HoldQItems DEF HoldForDirectoryChange
  <2>12. ASSUME NEW id \in Ids, NEW allowPaused \in BOOLEAN, Admit(id, allowPaused)
         PROVE  Remembered'
    BY <2>12, ItemsKept DEF Admit, AdmitQ, SameItems, TypeOK, Record
  <2>13. ASSUME NEW id \in Ids, Running(id) PROVE Remembered'
    BY <2>13, ItemsKept DEF Running, SetStatus, SameItems, TypeOK, Record
  <2>14. ASSUME NEW id \in Ids, NEW status \in Terminal \cup {"blocked", "execution-uncertain"},
                Finish(id, status)
         PROVE  Remembered'
    BY <2>14, ItemsKept DEF Finish, SetStatus, SameItems, TypeOK, Record, Terminal
  <2>15. ASSUME Crash PROVE Remembered'
    BY <2>15 DEF Crash, Remembered
  <2>16. ASSUME Reopen PROVE Remembered'
    BY <2>16, ItemsKept, RecoverQItems DEF Reopen
  <2>17. CASE UNCHANGED qvars
    BY <2>17 DEF qvars, Remembered
  <2> QED
    BY <2>1, <2>2, <2>3, <2>4, <2>5, <2>6, <2>7, <2>8, <2>9, <2>10, <2>11, <2>12, <2>13,
       <2>14, <2>15, <2>16, <2>17 DEF Next, Users, Engines
<1>3. Remembered => AcceptedOnce
  BY DEF Remembered, AcceptedOnce
<1> QED BY <1>1, <1>2, <1>3, TypeCorrect, PTL DEF Spec

----------------------------------------------------------------------------
(* Besides the property itself: clearCompleted drops the mark with the item,  *)
(* so that a later input under a cleared id does not inherit it.              *)
MarkedIn(q) == \A id \in Ids : q.requiresEdit[id] => q.status[id] # "queued" /\ q.status[id] # "absent"
Marked == MarkedIn(queue)

LEMMA RecoverQMarked == ASSUME NEW q \in Record, MarkedIn(q) PROVE MarkedIn(RecoverQ(q))
BY DEF Record, MarkedIn, RecoverQ

LEMMA ResumeQMarked == ASSUME NEW q \in Record, MarkedIn(q) PROVE MarkedIn(ResumeQ(q))
BY DEF Record, MarkedIn, ResumeQ

(* An input of another working directory is never in line: holdForDirectory-   *)
(* Change blocks it, retry refuses it, resume passes it over, edit alone frees it.*)
THEOREM StaleDirectoryIsHeld == Spec => []StaleDirectoryHeld
<1>1. Init => Marked
  BY DEF Init, Marked, MarkedIn
<1>2. TypeOK /\ Marked /\ [Next]_qvars => Marked'
  <2> SUFFICES ASSUME TypeOK, Marked, [Next]_qvars PROVE Marked'
    OBVIOUS
  <2>1. ASSUME NEW id \in Ids, NewSubmissionId(id) PROVE Marked'
    BY <2>1 DEF NewSubmissionId, Marked, MarkedIn, TypeOK, Record
  <2>2. ASSUME NEW id \in Ids, NEW intent \in Intents, NEW form \in Forms, Submit(id, intent, form)
        PROVE  Marked'
    BY <2>2 DEF Submit, CanSubmit, SubmitQ, Marked, MarkedIn, TypeOK, Record
  <2>3. ASSUME NEW id \in Ids, NEW intent \in Intents, NEW form \in Forms, Edit(id, intent, form)
        PROVE  Marked'
    BY <2>3 DEF Edit, EditQ, Marked, MarkedIn, TypeOK, Record
  <2>4. ASSUME NEW id \in Ids, NEW pos \in 1..Cardinality(Ids), Move(id, pos) PROVE Marked'
    BY <2>4 DEF Move, MoveQ, Marked, MarkedIn, TypeOK, Record
  <2>5. ASSUME NEW id \in Ids, Remove(id) PROVE Marked'
    BY <2>5 DEF Remove, SetStatus, Marked, MarkedIn, TypeOK, Record
  <2>6. ASSUME NEW id \in Ids, NEW acknowledge \in BOOLEAN, Retry(id, acknowledge) PROVE Marked'
    BY <2>6 DEF Retry, CanRetry, RetryQ, Marked, MarkedIn, TypeOK, Record
  <2>7. ASSUME Pause PROVE Marked'
    BY <2>7 DEF Pause, PauseQ, Marked, MarkedIn, TypeOK, Record
  <2>8. ASSUME Resume PROVE Marked'
    BY <2>8, RecoverQType, RecoverQMarked, ResumeQMarked DEF Resume, Marked, TypeOK
  <2>9. ASSUME ClearCompleted PROVE Marked'
    BY <2>9 DEF ClearCompleted, ClearQ, Marked, MarkedIn, TypeOK, Record
  <2>10. ASSUME ClearHistory PROVE Marked'
    BY <2>10 DEF ClearHistory, Marked, MarkedIn, TypeOK, Record
  <2>11. ASSUME HoldForDirectoryChange PROVE Marked'
    BY <2>11 DEF HoldForDirectoryChange, HoldQ, Mutable, Marked, MarkedIn, TypeOK, Record
  <2>12. ASSUME NEW id \in Ids, NEW allowPaused \in BOOLEAN, Admit(id, allowPaused) PROVE Marked'
    BY <2>12 DEF Admit, AdmitQ, Marked, MarkedIn, TypeOK, Record
  <2>13. ASSUME NEW id \in Ids, Running(id) PROVE Marked'
    BY <2>13 DEF Running, SetStatus, Marked, MarkedIn, TypeOK, Record
  <2>14. ASSUME NEW id \in Ids, NEW status \in Terminal \cup {"blocked", "execution-uncertain"},
                Finish(id, status)
         PROVE  Marked'
    BY <2>14 DEF Finish, SetStatus, Terminal, Present, Marked, MarkedIn, TypeOK, Record
  <2>15. ASSUME Crash PROVE Marked'
    BY <2>15 DEF Crash, Marked, MarkedIn, TypeOK, Record
  <2>16. ASSUME Reopen PROVE Marked'
    BY <2>16, RecoverQMarked DEF Reopen, Marked, TypeOK
  <2>17. CASE UNCHANGED qvars
    BY <2>17 DEF qvars, Marked, MarkedIn, TypeOK, Record
  <2> QED
    BY <2>1, <2>2, <2>3, <2>4, <2>5, <2>6, <2>7, <2>8, <2>9, <2>10, <2>11, <2>12, <2>13,
       <2>14, <2>15, <2>16, <2>17 DEF Next, Users, Engines
<1>3. Marked => StaleDirectoryHeld
  BY DEF Marked, MarkedIn, StaleDirectoryHeld
<1> QED BY <1>1, <1>2, <1>3, TypeCorrect, PTL DEF Spec

----------------------------------------------------------------------------
(* An input that is in line or admitted was asked for since its last run, and  *)
(* so was one that recovery holds: only such an input gets the mark that lets  *)
(* resume release it, and it loses the mark before it runs.                    *)
GrantedIn(q) ==
  \A id \in Ids :
    /\ q.status[id] \in {"queued", "admitted"} => id \in granted
    /\ q.recovered[id] => id \in granted /\ q.status[id] \notin {"queued", "admitted", "absent"}
Granted == GrantedIn(queue)

LEMMA RecoverQGranted ==
  ASSUME NEW q \in Record, GrantedIn(q)
  PROVE  GrantedIn(RecoverQ(q))
BY DEF Record, GrantedIn, RecoverQ

LEMMA ResumeQGranted ==
  ASSUME NEW q \in Record, GrantedIn(q)
  PROVE  GrantedIn(ResumeQ(q))
BY DEF Record, GrantedIn, ResumeQ

(* No restart, resume, move, failed admission or finished turn makes an input  *)
(* run again without the user: running follows admit, admit takes what is in   *)
(* line, and an input gets in line on submit, edit, retry or on a resume after *)
(* a recovery that found it in line.                                           *)
THEOREM NoSilentReplayHolds == Spec => NoSilentReplay
<1>1. Init => Granted
  BY DEF Init, Granted, GrantedIn
<1>2. TypeOK /\ Granted /\ [Next]_qvars => Granted'
  <2> SUFFICES ASSUME TypeOK, Granted, [Next]_qvars PROVE Granted'
    OBVIOUS
  <2>1. ASSUME NEW id \in Ids, NewSubmissionId(id) PROVE Granted'
    BY <2>1 DEF NewSubmissionId, Granted, GrantedIn, TypeOK, Record
  <2>2. ASSUME NEW id \in Ids, NEW intent \in Intents, NEW form \in Forms, Submit(id, intent, form)
        PROVE  Granted'
    BY <2>2 DEF Submit, CanSubmit, SubmitQ, Granted, GrantedIn, TypeOK, Record
  <2>3. ASSUME NEW id \in Ids, NEW intent \in Intents, NEW form \in Forms, Edit(id, intent, form)
        PROVE  Granted'
    BY <2>3 DEF Edit, EditQ, Mutable, Granted, GrantedIn, TypeOK, Record
  <2>4. ASSUME NEW id \in Ids, NEW pos \in 1..Cardinality(Ids), Move(id, pos) PROVE Granted'
    BY <2>4 DEF Move, MoveQ, Granted, GrantedIn, TypeOK, Record
  <2>5. ASSUME NEW id \in Ids, Remove(id) PROVE Granted'
    BY <2>5 DEF Remove, SetStatus, Present, Granted, GrantedIn, TypeOK, Record
  <2>6. ASSUME NEW id \in Ids, NEW acknowledge \in BOOLEAN, Retry(id, acknowledge) PROVE Granted'
    BY <2>6 DEF Retry, CanRetry, RetryQ, Granted, GrantedIn, TypeOK, Record
  <2>7. ASSUME Pause PROVE Granted'
    BY <2>7 DEF Pause, PauseQ, Granted, GrantedIn, TypeOK, Record
  <2>8. ASSUME Resume PROVE Granted'
    <3>1. GrantedIn(queue')
      BY <2>8, RecoverQType, RecoverQGranted, ResumeQGranted DEF Resume, Granted, TypeOK
    <3> QED BY <2>8, <3>1 DEF Resume, Granted, GrantedIn
  <2>9. ASSUME ClearCompleted PROVE Granted'
    BY <2>9 DEF ClearCompleted, ClearQ, Granted, GrantedIn, TypeOK, Record
  <2>10. ASSUME ClearHistory PROVE Granted'
    BY <2>10 DEF ClearHistory, Granted, GrantedIn, TypeOK, Record
  <2>11. ASSUME HoldForDirectoryChange PROVE Granted'
    BY <2>11 DEF HoldForDirectoryChange, HoldQ, Mutable, Granted, GrantedIn, TypeOK, Record
  <2>12. ASSUME NEW id \in Ids, NEW allowPaused \in BOOLEAN, Admit(id, allowPaused) PROVE Granted'
    BY <2>12 DEF Admit, AdmitQ, Granted, GrantedIn, TypeOK, Record
  <2>13. ASSUME NEW id \in Ids, Running(id) PROVE Granted'
    BY <2>13 DEF Running, SetStatus, Granted, GrantedIn, TypeOK, Record
  <2>14. ASSUME NEW id \in Ids, NEW status \in Terminal \cup {"blocked", "execution-uncertain"},
                Finish(id, status)
         PROVE  Granted'
    BY <2>14 DEF Finish, SetStatus, Terminal, Present, Granted, GrantedIn, TypeOK, Record
  <2>15. ASSUME Crash PROVE Granted'
    BY <2>15 DEF Crash, Granted, GrantedIn, TypeOK, Record
  <2>16. ASSUME Reopen PROVE Granted'
    <3>1. GrantedIn(queue')
      BY <2>16, RecoverQGranted DEF Reopen, Granted, TypeOK
    <3> QED BY <2>16, <3>1 DEF Reopen, Granted, GrantedIn
  <2>17. CASE UNCHANGED qvars
    BY <2>17 DEF qvars, Granted, GrantedIn, TypeOK, Record
  <2> QED
    BY <2>1, <2>2, <2>3, <2>4, <2>5, <2>6, <2>7, <2>8, <2>9, <2>10, <2>11, <2>12, <2>13,
       <2>14, <2>15, <2>16, <2>17 DEF Next, Users, Engines
<1>3. TypeOK /\ Granted /\ [Next]_qvars
        => [\A id \in Ids : queue.status[id] # "running" /\ queue'.status[id] = "running"
              => id \in granted \/ accepted'[id] # accepted[id]]_qvars
  <2> SUFFICES ASSUME TypeOK, Granted, Next,
                      NEW x \in Ids, queue.status[x] # "running", queue'.status[x] = "running"
               PROVE  x \in granted
    OBVIOUS
  <2>1. ASSUME NEW id \in Ids, NewSubmissionId(id) PROVE x \in granted
    BY <2>1 DEF NewSubmissionId, Granted, GrantedIn, TypeOK, Record
  <2>2. ASSUME NEW id \in Ids, NEW intent \in Intents, NEW form \in Forms, Submit(id, intent, form)
        PROVE  x \in granted
    BY <2>2 DEF Submit, CanSubmit, SubmitQ, Granted, GrantedIn, TypeOK, Record
  <2>3. ASSUME NEW id \in Ids, NEW intent \in Intents, NEW form \in Forms, Edit(id, intent, form)
        PROVE  x \in granted
    BY <2>3 DEF Edit, EditQ, Mutable, Granted, GrantedIn, TypeOK, Record
  <2>4. ASSUME NEW id \in Ids, NEW pos \in 1..Cardinality(Ids), Move(id, pos) PROVE x \in granted
    BY <2>4 DEF Move, MoveQ, Granted, GrantedIn, TypeOK, Record
  <2>5. ASSUME NEW id \in Ids, Remove(id) PROVE x \in granted
    BY <2>5 DEF Remove, SetStatus, Present, Granted, GrantedIn, TypeOK, Record
  <2>6. ASSUME NEW id \in Ids, NEW acknowledge \in BOOLEAN, Retry(id, acknowledge) PROVE x \in granted
    BY <2>6 DEF Retry, CanRetry, RetryQ, Granted, GrantedIn, TypeOK, Record
  <2>7. ASSUME Pause PROVE x \in granted
    BY <2>7, SMTT(60) DEF Pause, PauseQ, Granted, GrantedIn, TypeOK, Record
  <2>8. ASSUME Resume PROVE x \in granted
    BY <2>8, RecoverQType DEF Resume, ResumeQ, RecoverQ, TypeOK, Record
  <2>9. ASSUME ClearCompleted PROVE x \in granted
    BY <2>9 DEF ClearCompleted, ClearQ, Granted, GrantedIn, TypeOK, Record
  <2>10. ASSUME ClearHistory PROVE x \in granted
    BY <2>10 DEF ClearHistory, Granted, GrantedIn, TypeOK, Record
  <2>11. ASSUME HoldForDirectoryChange PROVE x \in granted
    BY <2>11 DEF HoldForDirectoryChange, HoldQ, Mutable, Granted, GrantedIn, TypeOK, Record
  <2>12. ASSUME NEW id \in Ids, NEW allowPaused \in BOOLEAN, Admit(id, allowPaused) PROVE x \in granted
    BY <2>12 DEF Admit, AdmitQ, Granted, GrantedIn, TypeOK, Record
  <2>13. ASSUME NEW id \in Ids, Running(id) PROVE x \in granted
    BY <2>13 DEF Running, SetStatus, Granted, GrantedIn, TypeOK, Record
  <2>14. ASSUME NEW id \in Ids, NEW status \in Terminal \cup {"blocked", "execution-uncertain"},
                Finish(id, status)
         PROVE  x \in granted
    BY <2>14 DEF Finish, SetStatus, Terminal, Present, Granted, GrantedIn, TypeOK, Record
  <2>15. ASSUME Crash PROVE x \in granted
    BY <2>15 DEF Crash, Granted, GrantedIn, TypeOK, Record
  <2>16. ASSUME Reopen PROVE x \in granted
    BY <2>16 DEF Reopen, RecoverQ, TypeOK, Record
  <2> QED
    BY <2>1, <2>2, <2>3, <2>4, <2>5, <2>6, <2>7, <2>8, <2>9, <2>10, <2>11, <2>12, <2>13,
       <2>14, <2>15, <2>16 DEF Next, Users, Engines
<1> QED BY <1>1, <1>2, <1>3, TypeCorrect, PTL DEF Spec, NoSilentReplay

----------------------------------------------------------------------------
\* Inputs of a record that get a status, all others keep theirs.
Turned(q, n, ids, status) ==
  /\ n \in Record /\ n.recovered = q.recovered
  /\ \A x \in Ids : x \notin ids => n.intent[x] = q.intent[x]
  /\ \A x \in Ids : n.status[x] = IF x \in ids THEN status ELSE q.status[x]

LEMMA SetStatusTurns ==
  ASSUME NEW q \in Record, NEW id \in Ids, NEW status \in Statuses
  PROVE  Turned(q, SetStatus(q, id, status), {id}, status)
<1>1. SetStatus(q, id, status) \in Record
  BY SetStatusType
<1>2. /\ \A x \in Ids : SetStatus(q, id, status).status[x] = IF x = id THEN status ELSE q.status[x]
      /\ SetStatus(q, id, status).intent = q.intent
      /\ SetStatus(q, id, status).recovered = q.recovered
  BY DEF Record, SetStatus
<1> QED BY <1>1, <1>2 DEF Turned

LEMMA PauseTurnsNone ==
  ASSUME NEW q \in Record, NEW n, NEW ids, NEW status, Turned(q, n, ids, status)
  PROVE  Turned(q, PauseQ(n), ids, status)
<1>1. n \in Record /\ PauseQ(n) \in Record
  BY PauseQType DEF Turned
<1>2. /\ PauseQ(n).status = n.status /\ PauseQ(n).intent = n.intent
      /\ PauseQ(n).recovered = n.recovered
  BY <1>1 DEF Record, PauseQ
<1> QED BY <1>1, <1>2 DEF Turned

LEMMA NoneTurned ==
  ASSUME NEW q \in Record, NEW status
  PROVE  Turned(q, q, {}, status)
BY DEF Turned

LEMMA SeveralTurned ==
  ASSUME NEW q \in Record, NEW ids, NEW status \in Statuses
  PROVE  Turned(q, [q EXCEPT !.status = [id \in Ids |-> IF id \in ids THEN status
                                                         ELSE q.status[id]]], ids, status)
<1> DEFINE new == [id \in Ids |-> IF id \in ids THEN status ELSE q.status[id]]
           n == [q EXCEPT !.status = new]
<1>1. q.status \in [Ids -> Statuses \cup {"absent"}]
  BY DEF Record
<1>2. new \in [Ids -> Statuses \cup {"absent"}]
  BY <1>1
<1>3. \A x \in Ids : new[x] = IF x \in ids THEN status ELSE q.status[x]
  OBVIOUS
<1> HIDE DEF new
<1>4. n \in Record /\ n.status = new /\ n.intent = q.intent /\ n.recovered = q.recovered
  BY <1>2 DEF Record
<1> HIDE DEF n
<1>5. Turned(q, n, ids, status)
  BY <1>3, <1>4 DEF Turned
<1> QED BY <1>5 DEF n, new

LEMMA AdmitAndRunTurns ==
  ASSUME NEW q \in Record, NEW id \in Ids
  PROVE  Turned(q, SetStatus(AdmitQ(q, id), id, "running"), {id}, "running")
<1> DEFINE a == AdmitQ(q, id)
<1>1. "running" \in Statuses
  BY DEF Statuses
<1>2. /\ a \in Record /\ a.intent = q.intent /\ a.recovered = q.recovered
      /\ \A x \in Ids : x # id => a.status[x] = q.status[x]
  <2>1. a \in Record
    BY AdmitQType
  <2> QED BY <2>1 DEF AdmitQ, Record
<1> HIDE DEF a
<1>3. Turned(a, SetStatus(a, id, "running"), {id}, "running")
  BY <1>1, <1>2, SetStatusTurns
<1>4. Turned(q, SetStatus(a, id, "running"), {id}, "running")
  BY <1>2, <1>3 DEF Turned
<1> QED BY <1>4 DEF a

\* A new input joins the record as a queued one.
LEMMA SubmitQTurns ==
  ASSUME NEW q \in Record, NEW id \in Ids, NEW intent \in IntentSet, NEW form \in Forms
  PROVE  Turned(q, SubmitQ(q, id, intent, form), {id}, "queued")
<1>1. Cardinality(Present(q)) + 1 \in Nat
  BY PlacesAreNumbers DEF Present
<1>2. form \in FormSet /\ "emptied" \in FormSet /\ "queued" \in Statuses
  BY Inputs, SMTT(60) DEF FormSet, Statuses, Mutable
<1>3. SubmitQ(q, id, intent, form) \in Record
  BY <1>1, <1>2 DEF Record, SubmitQ
<1>4. /\ SubmitQ(q, id, intent, form).status = [q.status EXCEPT ![id] = "queued"]
      /\ SubmitQ(q, id, intent, form).recovered = q.recovered
      /\ \A x \in Ids : x # id => SubmitQ(q, id, intent, form).intent[x] = q.intent[x]
  BY DEF SubmitQ, Record
<1>5. q.status \in [Ids -> Statuses \cup {"absent"}]
  BY DEF Record
<1> QED BY <1>3, <1>4, <1>5 DEF Turned

----------------------------------------------------------------------------
(* The list of the inputs: n inputs on the places 1..n.                       *)
OrderedIn(q) ==
  /\ \A id \in Ids : (q.place[id] = 0) <=> (q.status[id] = "absent")
  /\ {q.place[id] : id \in Present(q)} = 1..Cardinality(Present(q))

(* n numbers that fill 1..n are all different. *)
LEMMA FillingIsApart ==
  ASSUME NEW S, IsFiniteSet(S), NEW f \in [S -> Nat], {f[x] : x \in S} = 1..Cardinality(S)
  PROVE  \A x, y \in S : f[x] = f[y] => x = y
<1> DEFINE n == Cardinality(S)
<1>1. n \in Nat
  BY FS_CardinalityType
<1>2. Cardinality(1..n) = n
  BY <1>1, FS_Interval
<1>3. f \in Surjection(S, 1..n)
  BY DEF Surjection
<1>4. f \in Injection(S, 1..n)
  BY <1>2, <1>3, FS_SurjSameCardinalityImpliesInj
<1> QED BY <1>4 DEF Injection, IsInjective

(* The ranks of different numbers fill 1..n: what filter makes of a list. *)
LEMMA RanksFill ==
  ASSUME NEW S, IsFiniteSet(S), NEW f \in [S -> Nat], \A x, y \in S : f[x] = f[y] => x = y
  PROVE  {Cardinality({y \in S : f[y] <= f[x]}) : x \in S} = 1..Cardinality(S)
<1> DEFINE n == Cardinality(S)
           Below(x) == {y \in S : f[y] <= f[x]}
           rank == [x \in S |-> Cardinality(Below(x))]
<1>1. n \in Nat
  BY FS_CardinalityType
<1>2. \A x \in S : IsFiniteSet(Below(x)) /\ Cardinality(Below(x)) \in Nat /\ Cardinality(Below(x)) <= n
  BY FS_Subset, FS_CardinalityType
<1>3. \A x \in S : Cardinality(Below(x)) # 0
  <2> SUFFICES ASSUME NEW x \in S PROVE Cardinality(Below(x)) # 0
    OBVIOUS
  <2>1. x \in Below(x)
    OBVIOUS
  <2> QED BY <1>2, <2>1, FS_EmptySet
<1>4. \A x, y \in S : Cardinality(Below(x)) = Cardinality(Below(y)) => x = y
  <2>1. ASSUME NEW x \in S, NEW y \in S, f[x] < f[y] PROVE Cardinality(Below(x)) # Cardinality(Below(y))
    <3>1. Below(x) \in SUBSET Below(y)
      BY <2>1
    <3>2. y \in Below(y) /\ y \notin Below(x)
      BY <2>1
    <3>3. Below(x) # Below(y)
      BY <3>2
    <3> HIDE DEF Below
    <3> QED BY <1>2, <3>1, <3>3, FS_Subset
  <2> HIDE DEF Below
  <2>2. ASSUME NEW x \in S, NEW y \in S, x # y PROVE f[x] < f[y] \/ f[y] < f[x]
    BY <2>2
  <2> QED BY <2>1, <2>2
<1> HIDE DEF Below
<1>5. \A x \in S : Cardinality(Below(x)) \in 1..n
  BY <1>1, <1>2, <1>3
<1>6. rank \in Injection(S, 1..n)
  BY <1>4, <1>5 DEF Injection, IsInjective
<1>7. IsFiniteSet(1..n) /\ Cardinality(1..n) = n
  BY <1>1, FS_Interval
<1>8. rank \in Surjection(S, 1..n)
  BY <1>6, <1>7, FS_Injection
<1>9. \A k \in 1..n : \E x \in S : rank[x] = k
  BY <1>8 DEF Surjection
<1>10. {Cardinality(Below(x)) : x \in S} = 1..n
  BY <1>5, <1>9
<1> QED BY <1>10 DEF Below

LEMMA PresentIsFinite ==
  ASSUME NEW q
  PROVE  /\ Present(q) \in SUBSET Ids /\ IsFiniteSet(Present(q)) /\ Cardinality(Present(q)) \in Nat
         /\ Pending(q) \in SUBSET Present(q)
         /\ IsFiniteSet(Pending(q)) /\ Cardinality(Pending(q)) \in Nat
BY FiniteIds, FS_Subset, FS_CardinalityType DEF Present, Pending

LEMMA PlacesApart ==
  ASSUME NEW q \in Record, OrderedIn(q)
  PROVE  \A x, y \in Present(q) : q.place[x] = q.place[y] => x = y
<1> DEFINE f == [x \in Present(q) |-> q.place[x]]
<1>1. f \in [Present(q) -> Nat]
  BY DEF Record, Present
<1>2. {f[x] : x \in Present(q)} = 1..Cardinality(Present(q))
  <2>1. {f[x] : x \in Present(q)} = {q.place[x] : x \in Present(q)}
    OBVIOUS
  <2> QED BY <2>1 DEF OrderedIn
<1> HIDE DEF f
<1>3. \A x, y \in Present(q) : f[x] = f[y] => x = y
  BY <1>1, <1>2, PresentIsFinite, FillingIsApart
<1> QED BY <1>3 DEF f

(* A method that neither adds nor removes inputs leaves the list alone. *)
SameList(q, p) == /\ p.place = q.place
                  /\ \A id \in Ids : (p.status[id] = "absent") <=> (q.status[id] = "absent")

LEMMA SameListOrdered ==
  ASSUME NEW q, NEW p, OrderedIn(q), SameList(q, p)
  PROVE  OrderedIn(p)
<1>1. Present(p) = Present(q)
  BY DEF Present, SameList
<1> QED BY <1>1 DEF OrderedIn, SameList

LEMMA RecoverQList == ASSUME NEW q \in Record PROVE SameList(q, RecoverQ(q))
BY DEF Record, SameList, RecoverQ

LEMMA ResumeQList == ASSUME NEW q \in Record PROVE SameList(q, ResumeQ(q))
BY DEF Record, SameList, ResumeQ

LEMMA HoldQList == ASSUME NEW q \in Record PROVE SameList(q, HoldQ(q))
<1> DEFINE held == {id \in Ids : q.status[id] \in Mutable}
<1>1. /\ HoldQ(q).status = [id \in Ids |-> IF id \in held THEN "blocked" ELSE q.status[id]]
      /\ HoldQ(q).place = q.place
  BY Zenon DEF HoldQ, Record
<1>2. \A id \in held : q.status[id] # "absent"
  BY DEF Mutable
<1> QED BY <1>1, <1>2 DEF SameList

LEMMA SubmitQOrdered ==
  ASSUME NEW q \in Record, OrderedIn(q), NEW id \in Ids, q.status[id] = "absent",
         NEW intent \in Intents, NEW form \in Forms
  PROVE  OrderedIn(SubmitQ(q, id, intent, form))
<1> DEFINE p == SubmitQ(q, id, intent, form)
           n == Cardinality(Present(q))
<1>1. n \in Nat /\ IsFiniteSet(Present(q)) /\ id \notin Present(q)
  BY PresentIsFinite DEF Present
<1>2. p.status = [q.status EXCEPT ![id] = "queued"] /\ p.place = [q.place EXCEPT ![id] = n + 1]
  BY DEF SubmitQ, Record
<1> HIDE DEF p
<1>3. Present(p) = Present(q) \cup {id}
  BY <1>2 DEF Present, Record
<1>4. Cardinality(Present(p)) = n + 1
  BY <1>1, <1>3, FS_AddElement
<1>5. \A x \in Ids : p.place[x] = IF x = id THEN n + 1 ELSE q.place[x]
  BY <1>2 DEF Record
<1>6. \A x \in Ids : (p.place[x] = 0) <=> (p.status[x] = "absent")
  BY <1>1, <1>2, <1>5 DEF OrderedIn, Record
<1>7. {p.place[x] : x \in Present(p)} = {q.place[x] : x \in Present(q)} \cup {n + 1}
  BY <1>1, <1>3, <1>5 DEF Present
<1>8. {p.place[x] : x \in Present(p)} = 1..(n + 1)
  BY <1>1, <1>7 DEF OrderedIn
<1>9. OrderedIn(p)
  BY <1>4, <1>6, <1>8 DEF OrderedIn
<1> QED BY <1>9 DEF p

LEMMA MoveQOrdered ==
  ASSUME NEW q \in Record, OrderedIn(q), NEW id \in Present(q),
         NEW pos \in 1..Cardinality(Present(q))
  PROVE  OrderedIn(MoveQ(q, id, pos))
<1> DEFINE p == MoveQ(q, id, pos)
           n == Cardinality(Present(q))
           from == q.place[id]
           without(x) == IF q.place[x] > from THEN q.place[x] - 1 ELSE q.place[x]
           moved(x) == IF x = id THEN pos ELSE IF without(x) >= pos THEN without(x) + 1 ELSE without(x)
<1>1. n \in Nat /\ Present(q) \subseteq Ids
  BY PresentIsFinite
<1>2. p.status = q.status /\ \A x \in Ids : p.place[x] = IF x \in Present(q) THEN moved(x) ELSE q.place[x]
  BY DEF MoveQ, Record
<1> HIDE DEF p
<1>3. Present(p) = Present(q)
  BY <1>2 DEF Present
<1>4. \A x \in Present(q) : q.place[x] \in 1..n
  BY DEF OrderedIn
<1>5. \A x \in Present(q) : x # id => q.place[x] # from
  BY PlacesApart
<1>6. \A x \in Present(q) : moved(x) \in 1..n
  BY <1>1, <1>4, <1>5
<1>7. ASSUME NEW k \in 1..n PROVE \E x \in Present(q) : moved(x) = k
  <2>1. \A m \in 1..n : \E x \in Present(q) : q.place[x] = m
    BY DEF OrderedIn
  <2>2. CASE k = pos
    BY <2>2
  <2>3. CASE k # pos
    <3> DEFINE between == IF k > pos THEN k - 1 ELSE k
               old == IF between >= from THEN between + 1 ELSE between
    <3>1. old \in 1..n /\ old # from
      BY <1>1, <1>4, <2>3
    <3>2. PICK x \in Present(q) : q.place[x] = old
      BY <2>1, <3>1
    <3>3. moved(x) = k
      BY <1>1, <1>4, <2>3, <3>1, <3>2
    <3> QED BY <3>3
  <2> QED BY <2>2, <2>3
<1>8. {p.place[x] : x \in Present(q)} = 1..n
  BY <1>1, <1>2, <1>6, <1>7
<1>9. \A x \in Ids : (p.place[x] = 0) <=> (p.status[x] = "absent")
  <2>1. \A x \in Present(q) : p.place[x] # 0 /\ p.status[x] # "absent"
    BY <1>1, <1>2, <1>6 DEF Present
  <2>2. \A x \in Ids \ Present(q) : p.place[x] = 0 /\ p.status[x] = "absent"
    BY <1>2 DEF Present, OrderedIn
  <2> QED BY <2>1, <2>2
<1>10. OrderedIn(p)
  BY <1>3, <1>8, <1>9 DEF OrderedIn
<1> QED BY <1>10 DEF p

LEMMA ClearQOrdered ==
  ASSUME NEW q \in Record, OrderedIn(q)
  PROVE  OrderedIn(ClearQ(q))
<1> DEFINE p == ClearQ(q)
           kept == Pending(q)
           rank(id) == Cardinality({x \in kept : q.place[x] <= q.place[id]})
<1>1. kept \in SUBSET Present(q) /\ kept \subseteq Ids /\ IsFiniteSet(kept) /\ Cardinality(kept) \in Nat
  BY PresentIsFinite
<1>2. \A id \in Ids : /\ p.status[id] = (IF id \in kept THEN q.status[id] ELSE "absent")
                      /\ p.place[id] = (IF id \in kept THEN rank(id) ELSE 0)
  BY DEF ClearQ, Record
<1> HIDE DEF p
<1>3. {rank(id) : id \in kept} = 1..Cardinality(kept)
  <2> DEFINE f == [x \in kept |-> q.place[x]]
  <2>1. f \in [kept -> Nat] /\ \A x, y \in kept : f[x] = f[y] => x = y
    BY <1>1, PlacesApart DEF Record
  <2>2. \A id \in kept : {y \in kept : f[y] <= f[id]} = {y \in kept : q.place[y] <= q.place[id]}
    OBVIOUS
  <2>3. \A id \in kept : rank(id) = Cardinality({y \in kept : f[y] <= f[id]})
    BY <2>2
  <2> HIDE DEF f, rank
  <2>4. {Cardinality({y \in kept : f[y] <= f[id]}) : id \in kept} = 1..Cardinality(kept)
    BY <1>1, <2>1, RanksFill
  <2> QED BY <2>3, <2>4
<1> HIDE DEF rank
<1>4. Present(p) = kept
  BY <1>1, <1>2 DEF Present
<1>5. {p.place[id] : id \in kept} = {rank(id) : id \in kept}
  BY <1>1, <1>2
<1>6. \A id \in kept : rank(id) # 0
  BY <1>1, <1>3
<1>7. \A id \in Ids : (p.place[id] = 0) <=> (p.status[id] = "absent")
  BY <1>1, <1>2, <1>6 DEF Present
<1>8. OrderedIn(p)
  BY <1>3, <1>4, <1>5, <1>7 DEF OrderedIn
<1> QED BY <1>8 DEF p

(* Submit, move and clearCompleted keep data.items a list: n present inputs on *)
(* the places 1..n, each on its own, whatever is submitted, moved, cleared,    *)
(* retained or recovered, so that next() and the retention always see an order.*)
THEOREM ListStaysOrdered == Spec => []ListOrder
<1> DEFINE Ordered == OrderedIn(queue)
<1>1. Init => Ordered
  <2> SUFFICES ASSUME Init PROVE Ordered
    OBVIOUS
  <2>1. Present(queue) = {} /\ \A id \in Ids : queue.place[id] = 0 /\ queue.status[id] = "absent"
    BY DEF Init, Present
  <2> QED BY <2>1, FS_EmptySet DEF OrderedIn
<1>2. TypeOK /\ Ordered /\ [Next]_qvars => Ordered'
  <2> SUFFICES ASSUME TypeOK, Ordered, [Next]_qvars PROVE Ordered'
    OBVIOUS
  <2>0. queue \in Record
    BY DEF TypeOK
  <2>1. ASSUME NEW id \in Ids, NEW intent \in Intents, NEW form \in Forms, Submit(id, intent, form)
        PROVE  Ordered'
    BY <2>0, <2>1, SubmitQOrdered DEF Submit, CanSubmit
  <2>2. ASSUME NEW id \in Ids, NEW pos \in 1..Cardinality(Ids), Move(id, pos) PROVE Ordered'
    <3>1. id \in Present(queue)
      BY <2>2 DEF Move, Mutable, Present
    <3> QED BY <2>0, <2>2, <3>1, MoveQOrdered DEF Move
  <2>3. CASE ClearCompleted
    BY <2>0, <2>3, ClearQOrdered DEF ClearCompleted
  <2>4. ASSUME SameList(queue, queue') PROVE Ordered'
    BY <2>4, SameListOrdered
  <2>5. ASSUME queue' = queue PROVE Ordered'
    BY <2>5
  <2>6. ASSUME NEW id \in Ids, NewSubmissionId(id) PROVE Ordered'
    BY <2>5, <2>6 DEF NewSubmissionId
  <2>7. ASSUME NEW id \in Ids, NEW intent \in Intents, NEW form \in Forms, Edit(id, intent, form)
        PROVE  Ordered'
    BY <2>0, <2>4, <2>7 DEF Edit, EditQ, Mutable, SameList, Record
  <2>8. ASSUME NEW id \in Present(queue), NEW status \in Statuses, queue' = SetStatus(queue, id, status)
        PROVE  Ordered'
    BY <2>0, <2>4, <2>8 DEF SetStatus, SameList, Present, Record, Statuses, Terminal, Mutable
  <2>9. ASSUME NEW id \in Ids, Remove(id) PROVE Ordered'
    BY <2>8, <2>9 DEF Remove, Statuses, Terminal
  <2>10. ASSUME NEW id \in Ids, NEW acknowledge \in BOOLEAN, Retry(id, acknowledge) PROVE Ordered'
    BY <2>0, <2>4, <2>10 DEF Retry, CanRetry, RetryQ, SameList, Record
  <2>11. CASE Pause
    BY <2>0, <2>4, <2>11 DEF Pause, PauseQ, SameList, Record
  <2>12. CASE Resume
    <3>1. SameList(queue, ResumeQ(queue)) /\ SameList(queue, RecoverQ(queue))
          /\ SameList(RecoverQ(queue), ResumeQ(RecoverQ(queue)))
      BY <2>0, RecoverQType, RecoverQList, ResumeQList
    <3>2. SameList(queue, queue')
      BY <2>12, <3>1 DEF Resume, SameList
    <3> QED BY <2>4, <3>2
  <2>13. CASE ClearHistory
    BY <2>0, <2>4, <2>13 DEF ClearHistory, SameList, Record
  <2>14. CASE HoldForDirectoryChange
    BY <2>0, <2>4, <2>14, HoldQList DEF HoldForDirectoryChange
  <2>15. ASSUME NEW id \in Ids, NEW allowPaused \in BOOLEAN, Admit(id, allowPaused) PROVE Ordered'
    BY <2>0, <2>4, <2>15 DEF Admit, AdmitQ, SameList, Record
  <2>16. ASSUME NEW id \in Ids, Running(id) PROVE Ordered'
    BY <2>8, <2>16 DEF Running, Present, Statuses
  <2>17. ASSUME NEW id \in Ids, NEW status \in Terminal \cup {"blocked", "execution-uncertain"},
                Finish(id, status)
         PROVE  Ordered'
    <3>1. status \in Statuses
      BY DEF Statuses, Mutable
    <3> QED BY <2>8, <2>17, <3>1 DEF Finish
  <2>18. CASE Crash
    BY <2>5, <2>18 DEF Crash
  <2>19. CASE Reopen
    BY <2>0, <2>4, <2>19, RecoverQList DEF Reopen
  <2>20. CASE UNCHANGED qvars
    BY <2>5, <2>20 DEF qvars
  <2> QED
    BY <2>1, <2>2, <2>3, <2>6, <2>7, <2>9, <2>10, <2>11, <2>12, <2>13, <2>14, <2>15, <2>16, <2>17,
       <2>18, <2>19, <2>20 DEF Next, Users, Engines
<1>3. Ordered => ListOrder
  BY DEF OrderedIn, ListOrder
<1> QED BY <1>1, <1>2, <1>3, TypeCorrect, PTL DEF Spec
=============================================================================
