----------------------------- MODULE FileRestore -----------------------------
(***************************************************************************)
(* The restore of a checkpoint: core/session/restore.ts on the directory   *)
(* operations of core/session/secure-path.ts.  A restore replaces several  *)
(* files, one after the other, under a journal that the session's record   *)
(* keeps; the process may die between any two operations, and other        *)
(* programs edit the same files at any time.                               *)
(*                                                                         *)
(* A file operation, a check and a commit of the journal are each one      *)
(* step.  Consecutive reads that nothing of the process separates are one  *)
(* step, since every operation that follows them checks again.  Other      *)
(* programs act on the files by their paths: they leave the private names  *)
(* alone and keep no file open.  Every operation is durable once it is     *)
(* done, so losing the power is like losing the process.                   *)
(***************************************************************************)
EXTENDS Naturals

CONSTANTS
  NumRows,    \* files the restore covers
  Edits,      \* bound of the model: contents other programs write, each once
  ByHand,     \* images users put back by hand, Nothing for deleting the file
  MayRefuse   \* whether permissions may be withdrawn while a restore is open

ASSUME Shape == NumRows \in Nat \ {0} /\ MayRefuse \in BOOLEAN
Nothing == "nothing"
Images == {"before", "after"}
ASSUME HandImages == ByHand \subseteq Images \cup {Nothing}
ASSUME OwnEdits == Edits \cap ({Nothing, "partial"} \cup Images) = {}

Rows == 1..NumRows
\* The names a row has in its directory: its own, the recovery hold and its
\* stage, and those of the rollback.
Names == {"file", "hold", "hold.next", "undo", "undo.next"}
Contents == {Nothing, "partial"} \cup Images \cup Edits

VARIABLES
  dir,       \* what each name of each row holds
  twin,      \* the private name that is the same file as "file", or Nothing
  expected,  \* of each row: the content it must have for the restore to begin
  target,    \* of each row: the content it is to have
  journal,   \* the durable journal; its status is Nothing when there is none
  run,       \* the restore or recovery under way in the process
  outcome,   \* history: how the journal was closed
  written,   \* history: edits other programs have made
  kept,      \* history: edits that nobody but the restore could have destroyed
  touched    \* history: rows that other programs have edited

fvars == <<dir, twin, expected, target, journal, run, outcome, written, kept, touched>>
files == <<dir, twin>>
rows == <<expected, target>>
others == <<written, kept, touched>>

\* Where the process is: between rows, or on a row.
OffRow == {"idle", "begin", "cleanup", "recleanup"}
OnRow == {"row", "checks", "vacate", "verify", "give back", "given back", "put back",
          "unlink hold", "stage", "fill", "install", "unlink stage", "confirm", "record", "next"}
Idle == [at |-> "idle", row |-> 0]
NoJournal == [status |-> Nothing, direction |-> "finish", issue |-> Nothing,
              applied |-> {}, undone |-> {}]

Undoing == journal.direction = "rollback"
From(i) == IF Undoing THEN target[i] ELSE expected[i]
To(i) == IF Undoing THEN expected[i] ELSE target[i]
Hold == IF Undoing THEN "undo" ELSE "hold"
Stage == IF Undoing THEN "undo.next" ELSE "hold.next"

\* SafeParent.read refuses a file that has another name.
Unsafe(i, name) == twin[i] # Nothing /\ name \in {"file", twin[i]}
Safe(i, names) == \A name \in names : ~Unsafe(i, name)

----------------------------------------------------------------------------
(* Steps of the process.                                                    *)

\* Mutant: a status that journal() does not know.
Fail_UnknownStatus(issue) ==
  /\ run' = Idle
  /\ journal' = IF run.at = "recleanup" THEN journal
                ELSE [journal EXCEPT !.status = "failed", !.issue = issue]

\* What went wrong is recorded and the run ends; the cleanup of a closed
\* journal records nothing.
Fail(issue) ==
  /\ run' = Idle
  /\ journal' = IF run.at = "recleanup" THEN journal
                ELSE [journal EXCEPT !.status = "interrupted", !.issue = issue]
Throw == Fail("conflict")

Goto(at) == run' = [run EXCEPT !.at = at] /\ UNCHANGED journal
Put(i, name, content) == dir' = [dir EXCEPT ![i][name] = content]

\* The first row of the direction, and the row after i; 0 when there is none.
FirstRow == IF Undoing THEN NumRows ELSE 1
NextRow(i) == IF Undoing THEN i - 1 ELSE IF i = NumRows THEN 0 ELSE i + 1

\* A preview without conflicts, applied: its rows become the journal.
Prepare ==
  /\ run = Idle /\ journal.status = Nothing /\ outcome = Nothing
  /\ \A i \in Rows : Safe(i, {"file"}) /\ dir[i]["file"] = expected[i]
  /\ journal' = [NoJournal EXCEPT !.status = "prepared"]
  /\ run' = [at |-> "begin", row |-> 0]
  /\ UNCHANGED <<files, rows, outcome, others>>

\* recover: a closed journal is cleaned up, another one is run again.  Once it
\* is to be rolled back, "finish" finishes the rollback.
Recover(action) ==
  /\ run = Idle /\ journal.status # Nothing
  /\ IF journal.status \in {"completed", "rolled-back"}
     THEN run' = [at |-> "recleanup", row |-> 0] /\ UNCHANGED journal
     ELSE /\ run' = [at |-> "begin", row |-> 0]
          /\ journal' = IF action = "rollback" THEN [journal EXCEPT !.direction = action]
                        ELSE journal
  /\ UNCHANGED <<files, rows, outcome, others>>

Begin ==
  /\ run.at = "begin"
  /\ journal' = [journal EXCEPT !.status = "applying", !.issue = Nothing]
  /\ run' = [at |-> "row", row |-> FirstRow]
  /\ UNCHANGED <<files, rows, outcome, others>>

FinishRow(i) ==
  IF i \notin journal.applied THEN Goto("checks")
  ELSE IF Safe(i, {"file"}) /\ dir[i]["file"] = target[i] THEN Goto("record") ELSE Throw

\* Mutant: a rollback that forgets the file that waits in its hold.
RollBackRow_ForgetsHold(i) ==
  IF i \in journal.undone THEN Goto("record")
  ELSE IF ~Safe(i, {"file", "hold"}) THEN Throw
  ELSE IF dir[i]["file"] = expected[i] THEN Goto("record") ELSE Goto("checks")

\* Mutant: a rollback of the rows that were recorded as applied.
RollBackRow_OnlyApplied(i) ==
  IF i \in journal.undone \/ i \notin journal.applied THEN Goto("next")
  ELSE IF ~Safe(i, {"file", "hold"}) THEN Throw
  ELSE IF dir[i]["file"] = expected[i] THEN Goto("record") ELSE Goto("checks")

\* A crash may have left the old file in its hold, with nothing in its place.
RollBackRow(i) ==
  IF i \in journal.undone THEN Goto("record")
  ELSE IF ~Safe(i, {"file", "hold"}) THEN Throw
  ELSE IF dir[i]["hold"] # Nothing /\ dir[i]["file"] = Nothing
  THEN IF dir[i]["hold"] = expected[i] THEN Goto("put back") ELSE Throw
  ELSE IF dir[i]["file"] = expected[i] THEN Goto("record") ELSE Goto("checks")

RowBegins ==
  /\ run.at = "row"
  /\ IF Undoing THEN RollBackRow(run.row) ELSE FinishRow(run.row)
  /\ UNCHANGED <<files, rows, outcome, others>>

\* #replace, up to its first change of the directory.
Checks ==
  LET i == run.row
      current == dir[i]["file"]
      held == dir[i][Hold]
  IN /\ run.at = "checks"
     /\ IF ~Safe(i, {"file", Hold}) THEN Throw
        ELSE IF current = To(i) THEN Goto("record")
        ELSE IF held # Nothing
        THEN IF held = From(i) /\ current = Nothing THEN Goto("stage") ELSE Throw
        ELSE IF current # From(i) THEN Throw
        ELSE IF current # Nothing THEN Goto("vacate") ELSE Goto("stage")
     /\ UNCHANGED <<files, rows, outcome, others>>

\* rename(file, hold), whatever the file has become since it was checked.
Vacate ==
  LET i == run.row
  IN /\ run.at = "vacate"
     /\ IF dir[i]["file"] = Nothing THEN Throw /\ UNCHANGED dir
        ELSE /\ dir' = [dir EXCEPT ![i] = [@ EXCEPT ![Hold] = dir[i]["file"], !["file"] = Nothing]]
             /\ Goto("verify")
     /\ UNCHANGED <<twin, rows, outcome, others>>

\* An edit that slipped in between is not what the journal expects.
Verify ==
  LET i == run.row
  IN /\ run.at = "verify"
     /\ Goto(IF dir[i][Hold] # From(i) THEN "give back"
             ELSE IF To(i) = Nothing THEN "confirm" ELSE "stage")
     /\ UNCHANGED <<files, rows, outcome, others>>

\* link(name, file) refuses to replace a file that has come up meanwhile.
LinkAsFile(name, then) ==
  LET i == run.row
  IN IF dir[i]["file"] # Nothing THEN Throw /\ UNCHANGED files
     ELSE /\ Put(i, "file", dir[i][name])
          /\ twin' = [twin EXCEPT ![i] = name]
          /\ Goto(then)

Unlink(i, name) ==
  /\ Put(i, name, Nothing)
  /\ twin' = [twin EXCEPT ![i] = IF @ = name THEN Nothing ELSE @]

\* An edited file goes back where it was, if its place is still free.
GiveBack == /\ run.at = "give back" /\ LinkAsFile(Hold, "given back")
            /\ UNCHANGED <<rows, outcome, others>>
GivenBack == /\ run.at = "given back" /\ Unlink(run.row, Hold) /\ Throw
             /\ UNCHANGED <<rows, outcome, others>>

PutBack == /\ run.at = "put back" /\ LinkAsFile("hold", "unlink hold")
           /\ UNCHANGED <<rows, outcome, others>>
UnlinkHold == /\ run.at = "unlink hold" /\ Unlink(run.row, "hold") /\ Goto("record")
              /\ UNCHANGED <<rows, outcome, others>>

\* write(stage) creates the file, then fills it.
CreateStage ==
  LET i == run.row
      staged == dir[i][Stage]
  IN /\ run.at = "stage"
     /\ IF staged = Nothing THEN Put(i, Stage, "partial") /\ Goto("fill")
        ELSE UNCHANGED dir /\ IF Safe(i, {Stage}) /\ staged = To(i) THEN Goto("install") ELSE Throw
     /\ UNCHANGED <<twin, rows, outcome, others>>

FillStage == /\ run.at = "fill" /\ Put(run.row, Stage, To(run.row)) /\ Goto("install")
             /\ UNCHANGED <<twin, rows, outcome, others>>

\* Mutant: the stage is renamed over whatever is there.
Install_Clobbers ==
  LET i == run.row
  IN /\ run.at = "install"
     /\ dir' = [dir EXCEPT ![i] = [@ EXCEPT !["file"] = dir[i][Stage], ![Stage] = Nothing]]
     /\ Goto("confirm")
     /\ UNCHANGED <<twin, rows, outcome, others>>

Install == /\ run.at = "install" /\ LinkAsFile(Stage, "unlink stage")
           /\ UNCHANGED <<rows, outcome, others>>
UnlinkStage == /\ run.at = "unlink stage" /\ Unlink(run.row, Stage) /\ Goto("confirm")
               /\ UNCHANGED <<rows, outcome, others>>

Confirm ==
  LET i == run.row
  IN /\ run.at = "confirm"
     /\ IF Safe(i, {"file"}) /\ dir[i]["file"] = To(i) THEN Goto("record") ELSE Throw
     /\ UNCHANGED <<files, rows, outcome, others>>

\* The row is recorded as applied, or as rolled back if it really is.
Record ==
  LET i == run.row
  IN /\ run.at = "record"
     /\ IF ~Undoing
        THEN /\ journal' = [journal EXCEPT !.applied = @ \cup {i}]
             /\ run' = [run EXCEPT !.at = "next"]
        ELSE IF Safe(i, {"file"}) /\ dir[i]["file"] = expected[i]
        THEN /\ journal' = [journal EXCEPT !.undone = @ \cup {i}]
             /\ run' = [run EXCEPT !.at = "next"]
        ELSE Throw
     /\ UNCHANGED <<files, rows, outcome, others>>

\* The next row, or the end of the run: the journal says how it ended before
\* anything is cleaned up.
RowEnds ==
  /\ run.at = "next"
  /\ IF NextRow(run.row) # 0
     THEN run' = [at |-> "row", row |-> NextRow(run.row)] /\ UNCHANGED journal
     ELSE /\ journal' = [journal EXCEPT !.status = IF Undoing THEN "rolled-back" ELSE "completed"]
          /\ run' = [at |-> "cleanup", row |-> 0]
  /\ UNCHANGED <<files, rows, outcome, others>>

\* The private names #cleanup still has to remove, and what each must hold.
Leftovers == {x \in Rows \X (Names \ {"file"}) : dir[x[1]][x[2]] # Nothing}
Right(i, name) == IF name \in {"hold", "undo.next"} THEN expected[i] ELSE target[i]
\* It goes through the rows in order, and through the names of a row.
Before(x, y) == \/ x[1] < y[1]
                \/ x[1] = y[1] /\ \/ x[2] = "hold"
                                  \/ x[2] = "hold.next" /\ y[2] \in {"undo", "undo.next"}
                                  \/ x[2] = "undo" /\ y[2] = "undo.next"

CleanName ==
  /\ run.at \in {"cleanup", "recleanup"}
  /\ \E x \in Leftovers :
       /\ \A y \in Leftovers \ {x} : Before(x, y)
       /\ IF Safe(x[1], {x[2]}) /\ dir[x[1]][x[2]] = Right(x[1], x[2])
          THEN Unlink(x[1], x[2]) /\ UNCHANGED <<run, journal>>
          ELSE Throw /\ UNCHANGED files
  /\ UNCHANGED <<rows, outcome, others>>

\* Only then is the journal removed.
Close ==
  /\ run.at \in {"cleanup", "recleanup"} /\ Leftovers = {}
  /\ journal' = NoJournal
  /\ run' = Idle
  /\ outcome' = journal.status
  /\ UNCHANGED <<files, rows, others>>

\* The checks of the trust and the permissions: before a row is read, before it
\* is replaced, before its content is installed, and in the cleanup of each row.
Refuse ==
  /\ MayRefuse
  /\ run.at = "record" => Undoing
  /\ run.at \in {"row", "checks", "stage", "record", "cleanup", "recleanup"}
  /\ Fail("refused")
  /\ UNCHANGED <<files, rows, outcome, others>>

Crash ==
  /\ run # Idle
  /\ run' = Idle
  /\ UNCHANGED <<files, rows, journal, outcome, others>>

----------------------------------------------------------------------------
(* Other programs, by path: an edit replaces the file or rewrites it where   *)
(* it is; the old content is theirs to destroy.  What they do after a restore *)
(* was closed is not followed.                                               *)

Edit(i, content, inPlace) ==
  LET old == dir[i]["file"]
  IN /\ journal.status # Nothing \/ outcome = Nothing
     /\ content \in Edits \ written
     /\ inPlace => old # Nothing
     /\ dir' = [dir EXCEPT ![i] =
          [n \in Names |-> IF n = "file" \/ (inPlace /\ n = twin[i]) THEN content ELSE dir[i][n]]]
     /\ twin' = IF inPlace THEN twin ELSE [twin EXCEPT ![i] = Nothing]
     /\ written' = written \cup {content}
     /\ kept' = (kept \ {old}) \cup {content}
     /\ touched' = touched \cup {i}
     /\ UNCHANGED <<rows, journal, run, outcome>>

\* The user puts one of the two images there by hand, or deletes the file.
PutByHand(i, content) ==
  LET old == dir[i]["file"]
  IN /\ journal.status # Nothing
     /\ content # old
     /\ Put(i, "file", content)
     /\ twin' = [twin EXCEPT ![i] = Nothing]
     /\ kept' = kept \ {old}
     /\ touched' = touched \cup {i}
     /\ UNCHANGED <<rows, journal, run, outcome, written>>

----------------------------------------------------------------------------
FInit ==
  /\ expected \in [Rows -> {Nothing, "before"}]
  /\ target \in [Rows -> {Nothing, "after"}]
  /\ \A i \in Rows : expected[i] # target[i]
  /\ dir = [i \in Rows |-> [n \in Names |-> IF n = "file" THEN expected[i] ELSE Nothing]]
  /\ twin = [i \in Rows |-> Nothing]
  /\ journal = NoJournal /\ run = Idle /\ outcome = Nothing
  /\ written = {} /\ kept = {} /\ touched = {}

Process == \/ Begin \/ RowBegins \/ Checks \/ Vacate \/ Verify \/ GiveBack \/ GivenBack
           \/ PutBack \/ UnlinkHold \/ CreateStage \/ FillStage \/ Install \/ UnlinkStage
           \/ Confirm \/ Record \/ RowEnds \/ CleanName \/ Close \/ Refuse

Others == \E i \in Rows :
            \/ \E content \in Edits, inPlace \in BOOLEAN : Edit(i, content, inPlace)
            \/ \E content \in ByHand : PutByHand(i, content)

FNext == \/ Process \/ Prepare \/ Crash \/ Others
         \/ \E action \in {"finish", "rollback"} : Recover(action)

FSpec == FInit /\ [][FNext]_fvars

----------------------------------------------------------------------------
(* Properties.                                                              *)

\* Every variable has its type; a file shares its data with at most one private
\* name of its row, and the process on a row knows which.
FTypeOK ==
  /\ dir \in [Rows -> [Names -> Contents]]
  /\ twin \in [Rows -> {Nothing} \cup (Names \ {"file"})]
  /\ \A i \in Rows : twin[i] # Nothing => /\ dir[i][twin[i]] = dir[i]["file"]
                                          /\ dir[i]["file"] # Nothing
  /\ expected \in [Rows -> {Nothing, "before"}] /\ target \in [Rows -> {Nothing, "after"}]
  /\ journal \in [status : {Nothing, "prepared", "applying", "interrupted", "completed", "rolled-back"},
                  direction : {"finish", "rollback"}, issue : {Nothing, "conflict", "refused"},
                  applied : SUBSET Rows, undone : SUBSET Rows]
  /\ run \in [at : OffRow \cup OnRow, row : 0..NumRows]
  /\ run.at \in OnRow => run.row \in Rows
  /\ outcome \in {Nothing, "completed", "rolled-back"}
  /\ kept \subseteq written /\ written \subseteq Edits /\ touched \subseteq Rows

\* What another program wrote to a file of the restore is never destroyed by the
\* restore, its recovery or its cleanup: unless others replaced it themselves, it
\* is in its place or in a hold.
UntouchedByOthers == \A e \in kept : \E i \in Rows, n \in Names : dir[i][n] = e

\* A closed restore was all or nothing: every file that nobody else edited has
\* its target after "completed" and its old content after "rolled-back", whatever
\* crashes, refusals and recoveries in both directions it went through.
RestoredOrPut ==
  \A i \in Rows \ touched :
    /\ outcome = "completed" => dir[i]["file"] = target[i]
    /\ outcome = "rolled-back" => dir[i]["file"] = expected[i]

\* When nobody else edits the files and the permissions stay, two leftovers of a
\* crash, and only they, make a recovery fail: a second name of the file, or a stage that was not written out.
BlockedOnlyByLeftovers ==
  journal.status = "interrupted" /\ journal.issue = "conflict" /\ touched = {} =>
    \E i \in Rows : twin[i] # Nothing \/ \E n \in Names : dir[i][n] = "partial"

\* Of DESIGN-M5C: an interrupted restore can be finished or rolled back.  With
\* nobody else on its files, no recovery ends in a conflict.
RecoveryConcludes == journal.issue = "conflict" => touched # {}
=============================================================================
