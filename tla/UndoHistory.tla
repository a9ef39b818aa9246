----------------------------- MODULE UndoHistory -----------------------------
(***************************************************************************)
(* The inverse history of one surface: WorkspaceRuntime.undoOwnAction and   *)
(* the records #dispatch pushes for strokes and erase masks                *)
(* (domains/workspace/src/workspace-runtime.ts), with the two-finger        *)
(* gesture that calls it (domains/interaction/src/pointer-intent-adapter.ts)*)
(*                                                                         *)
(* A stroke stands for any element the user drew, stroke or mask: each has *)
(* an identifier of its own.  A dispatch stages, waits for its IndexedDB   *)
(* transaction and then changes the scene and the history; transactions    *)
(* with the same stores complete in the order of their creation.           *)
(* WorkspaceProofs extends this module and WorkspaceReplica, so that the   *)
(* names the two would share begin with History here.                      *)
(***************************************************************************)
EXTENDS Naturals, Sequences, SequencesExt

CONSTANTS
  Stroke,         \* what the user may draw
  NoStroke,
  Limit,          \* the records a history keeps: 200 in the code
  MaxVersion,     \* how often an element is written
  MaxFailures     \* how many transactions fail

ASSUME NoStrokeAssumption == NoStroke \notin Stroke
ASSUME LimitAssumption == Limit \in Nat \ {0}
ASSUME HistoryBoundAssumption == MaxVersion \in Nat \ {0} /\ MaxFailures \in Nat

VARIABLES
  version,        \* version[s]: of its element in the scene, 0 when absent
  history,        \* the undo records, by the stroke they delete
  undoing,        \* the stroke whose deletion the pending undo dispatched
  commits,        \* the commits under way
  failures,
  made,           \* history variable: the strokes made durable, in order
  overlapped      \* history variable: a stroke became durable during an undo

historyVars == <<version, history, undoing, commits, failures, made, overlapped>>

Commit == [kind : {"draw", "undo"}, stroke : Stroke]

HistoryTypeOK ==
  /\ version \in [Stroke -> 0..MaxVersion]
  /\ history \in Seq(Stroke) /\ Len(history) <= Limit
  /\ undoing \in Stroke \cup {NoStroke}
  /\ commits \in Seq(Commit)
  /\ failures \in 0..MaxFailures
  /\ made \in Seq(Stroke)
  /\ overlapped \in BOOLEAN

HistoryInit ==
  /\ version = [s \in Stroke |-> 0]
  /\ history = <<>>
  /\ undoing = NoStroke
  /\ commits = <<>>
  /\ failures = 0
  /\ made = <<>>
  /\ overlapped = FALSE

-----------------------------------------------------------------------------
Started == ToSet(made) \cup {commits[i].stroke : i \in DOMAIN commits}

\* The pen is lifted: the stroke is staged and its commit begins.
Draw(s) ==
  /\ s \notin Started
  /\ commits' = Append(commits, [kind |-> "draw", stroke |-> s])
  /\ UNCHANGED <<version, history, undoing, failures, made, overlapped>>

\* What its off-by-one would be.
PushedShort(s) ==
  SubSeq(Append(history, s), IF Len(history) < Limit - 1 THEN 1 ELSE 2, Len(history) + 1)

\* The newest record last, the oldest dropped beyond the limit.
Pushed(s) ==
  SubSeq(Append(history, s), IF Len(history) < Limit THEN 1 ELSE 2, Len(history) + 1)

\* The commit is durable: the scene shows the stroke and it can be undone.
CommitDraw ==
  /\ commits # <<>> /\ Head(commits).kind = "draw"
  /\ version' = [version EXCEPT ![Head(commits).stroke] = 1]
  /\ history' = Pushed(Head(commits).stroke)
  /\ made' = Append(made, Head(commits).stroke)
  /\ overlapped' = (overlapped \/ undoing # NoStroke)
  /\ commits' = Tail(commits)
  /\ UNCHANGED <<undoing, failures>>

\* The record to undo: the newest whose element is at version 1; 0 for none.
Newest(last) ==
  /\ last # 0 => version[history[last]] = 1
  /\ \A i \in (last + 1)..Len(history) : version[history[i]] # 1

\* What popping after the await prevents: a failed undo has lost its record.
StartUndoPopping ==
  /\ undoing = NoStroke
  /\ \E last \in 0..Len(history) :
       /\ Newest(last)
       /\ history' = SubSeq(history, 1, IF last = 0 THEN 0 ELSE last - 1)
       /\ IF last = 0 THEN UNCHANGED <<undoing, commits>>
          ELSE /\ undoing' = history[last]
               /\ commits' = Append(commits, [kind |-> "undo", stroke |-> history[last]])
  /\ UNCHANGED <<version, failures, made, overlapped>>

\* undoOwnAction: records are tried from the newest; one whose element is not
\* at version 1 conflicts and is discarded, the first other one is dispatched.
\* #performUndo starts none while another is pending.
StartUndo ==
  /\ undoing = NoStroke
  /\ \E last \in 0..Len(history) :
       /\ Newest(last)
       /\ history' = SubSeq(history, 1, last)
       /\ IF last = 0 THEN UNCHANGED <<undoing, commits>>
          ELSE /\ undoing' = history[last]
               /\ commits' = Append(commits, [kind |-> "undo", stroke |-> history[last]])
  /\ UNCHANGED <<version, failures, made, overlapped>>

\* The deletion is durable: the element of version 1 goes, a write made
\* meanwhile stays, and the newest record is popped, whichever it is now.
CommitUndo ==
  /\ commits # <<>> /\ Head(commits).kind = "undo"
  /\ version' = [version EXCEPT ![undoing] = IF @ = 1 THEN 0 ELSE @]
  /\ history' = IF history = <<>> THEN <<>> ELSE Front(history)
  /\ undoing' = NoStroke
  /\ commits' = Tail(commits)
  /\ UNCHANGED <<failures, made, overlapped>>

\* The transaction fails: a drawn stroke is not shown, an undo throws.
Abort ==
  /\ commits # <<>>
  /\ failures < MaxFailures
  /\ failures' = failures + 1
  /\ commits' = Tail(commits)
  /\ undoing' = IF Head(commits).kind = "undo" THEN NoStroke ELSE undoing
  /\ UNCHANGED <<version, history, made, overlapped>>

\* Another device, or a tool on this page, rewrites an element.
Rewrite(s) ==
  /\ version[s] \in 1..(MaxVersion - 1)
  /\ version' = [version EXCEPT ![s] = @ + 1]
  /\ UNCHANGED <<history, undoing, commits, failures, made, overlapped>>

\* It deletes one, or a repair takes it away.
Vanish(s) ==
  /\ version[s] # 0
  /\ version' = [version EXCEPT ![s] = 0]
  /\ UNCHANGED <<history, undoing, commits, failures, made, overlapped>>

HistoryNext ==
  \/ \E s \in Stroke : Draw(s) \/ Rewrite(s) \/ Vanish(s)
  \/ CommitDraw \/ StartUndo \/ CommitUndo \/ Abort

HistorySpec == HistoryInit /\ [][HistoryNext]_historyVars

-----------------------------------------------------------------------------
(***************************************************************************)
(* Properties.                                                             *)
(***************************************************************************)

\* A stroke that is as it was drawn, and after which fewer than Limit strokes
\* were drawn.
Undoable(s) ==
  /\ version[s] = 1
  /\ \E i \in DOMAIN made : made[i] = s /\ Len(made) - i < Limit

\* "Pen and eraser actions undo in reverse order through new durable scene
\* facts": a recent stroke as the user drew it can be undone.
StrokesAreUndoable == \A s \in Stroke : Undoable(s) => s \in ToSet(history)

\* So it is as long as no stroke became durable during an undo, whatever
\* failed and whatever others wrote.
UndoableAlone == ~overlapped => StrokesAreUndoable

\* "A failed inverse commit keeps its history record available for retry": the
\* record of a pending undo is there until the undo has succeeded.
PendingKeepsRecord ==
  undoing = NoStroke \/ undoing \in ToSet(history) \/ Len(history) = Limit

\* "A stale record is discarded only after the scene proves its target is
\* already absent."
StaleIsAbsent ==
  [][undoing' = undoing \/ undoing = NoStroke =>
       \A s \in ToSet(history) \ ToSet(history') :
         version[s] = 0 \/ Len(history) = Limit]_historyVars
=============================================================================
