-------------------------- MODULE OperationJournal --------------------------
(***************************************************************************)
(* PostgresOperationJournal of one workspace, statement by statement:      *)
(* domains/synchronization/src/postgres-operation-journal.ts on the schema *)
(* of database/migrations/202608310002_synchronization__*.sql.             *)
(*                                                                         *)
(* Each request is one call of commit: one pooled connection and one READ  *)
(* COMMITTED transaction, so that every statement reads what has been      *)
(* committed when it starts and its own writes show only after COMMIT.     *)
(* Several requests may carry one operation: a client that lost an answer  *)
(* sends it again while the first call may still be running.               *)
(*                                                                         *)
(* Only the row lock on `workspaces' is a variable.  Every writer of the   *)
(* workspace's surfaces takes it first, so the surface row locks of the    *)
(* code are never waited for; nor is the UNIQUE (workspace_id,             *)
(* operation_id) constraint ever what stops an insert (NoDuplicateInsert). *)
(***************************************************************************)
EXTENDS WorkspaceOperations, Sequences, FiniteSets

CONSTANTS
  Request,
  NoOperation,
  NoRequest       \* nobody holds the lock

ASSUME NoOperationAssumption == NoOperation \notin Operation
ASSUME NoRequestAssumption == NoRequest \notin Request

VARIABLES
  present,        \* the row of `workspaces' exists
  surfaces,       \* the table `surfaces': a missing row has revision 0
  journal,        \* `workspace_operations', in the order of their COMMITs
  updates,        \* the table `surface_updates'
  lastSequence,   \* the bigserial; an aborted transaction does not return its value
  lock,           \* the request that holds the `workspaces' row FOR UPDATE
  pc,             \* pc[r]: the statement request r executes next
  txn,            \* txn[r]: the local variables of request r
  reader          \* one call of readWorkspaceState

tables == <<present, surfaces, journal, updates>>
vars == <<tables, lastSequence, lock, pc, txn, reader>>

NoRevisions == [s \in Surface |-> 0]
NoRow == [revision |-> 0, state |-> {}]
NoRows == [s \in Surface |-> NoRow]
Unanswered == [kind |-> "none", revision |-> NoRevisions]

Row == [revision : Nat, state : SUBSET Operation]
Entry == [sequence : Nat \ {0}, operationId : Operation, revision : [Surface -> Nat]]
Update == [surfaceId : Surface, revision : Nat, operationId : Operation]
Answer == [kind : {"none", "committed", "rejected", "failed"},
           revision : [Surface -> Nat]]

\* The statements executed before the workspace row is locked, and after.
Unlocked == {"findOperation", "lockWorkspace"}
Holding == {"lockSurfaces", "recheck", "validate", "upsertSurfaces",
            "insertOperation", "insertUpdates", "commit"}
Running == Unlocked \cup Holding

IdleTxn == [op |-> NoOperation, rows |-> NoRows, sequence |-> 0,
            inserted |-> {}, answer |-> Unanswered]

IdleReader == [pc |-> "idle", surfaces |-> NoRows, snapshot |-> <<>>, cursor |-> 0]

TypeOK ==
  /\ present \in BOOLEAN
  /\ surfaces \in [Surface -> Row]
  /\ journal \in Seq(Entry)
  /\ updates \subseteq Update
  /\ lastSequence \in Nat
  /\ lock \in Request \cup {NoRequest}
  /\ pc \in [Request -> {"idle", "answered"} \cup Running]
  /\ txn \in [Request -> [op : Operation \cup {NoOperation}, rows : [Surface -> Row],
                          sequence : Nat, inserted : SUBSET Update, answer : Answer]]
  /\ reader \in [pc : {"idle", "readCursor", "done"}, surfaces : [Surface -> Row],
                 snapshot : Seq(Entry), cursor : Nat]

Init ==
  /\ present = TRUE
  /\ surfaces = NoRows
  /\ journal = <<>>
  /\ updates = {}
  /\ lastSequence = 0
  /\ lock = NoRequest
  /\ pc = [r \in Request |-> "idle"]
  /\ txn = [r \in Request |-> IdleTxn]
  /\ reader = IdleReader

-----------------------------------------------------------------------------
\* The committed journal row of an operation, if there is one.
Found(op) == \E i \in DOMAIN journal : journal[i].operationId = op

EntryOf(op) == journal[CHOOSE i \in DOMAIN journal : journal[i].operationId = op]

Goto(r, label) == pc' = [pc EXCEPT ![r] = label]

Unlock(r) == lock' = IF lock = r THEN NoRequest ELSE lock

\* What is left of a call once its local variables are gone.
Settled(r, kind, revision) ==
  [IdleTxn EXCEPT !.op = txn[r].op,
                  !.answer = [kind |-> kind, revision |-> revision]]

\* The transaction ends and commit() settles with this answer.
Settle(r, kind, revision) ==
  /\ Goto(r, "answered")
  /\ txn' = [txn EXCEPT ![r] = Settled(r, kind, revision)]
  /\ Unlock(r)

\* An operation found in the journal is answered with the stored receipt.
AnswerDuplicate(r) == Settle(r, "committed", EntryOf(txn[r].op).revision)

Submit(r, op) ==
  /\ pc[r] = "idle"
  /\ Goto(r, "findOperation")
  /\ txn' = [txn EXCEPT ![r].op = op]
  /\ UNCHANGED <<tables, lastSequence, lock, reader>>

\* BEGIN and the first look for the operation, before any lock.
FindOperation(r) ==
  /\ pc[r] = "findOperation"
  /\ \/ Found(txn[r].op) /\ AnswerDuplicate(r)
     \/ ~Found(txn[r].op) /\ Goto(r, "lockWorkspace") /\ UNCHANGED <<txn, lock>>
  /\ UNCHANGED <<tables, lastSequence, reader>>

\* What the row lock prevents: the same statement without FOR UPDATE.
LockWorkspaceUnlocked(r) ==
  /\ pc[r] = "lockWorkspace"
  /\ \/ present /\ Goto(r, "lockSurfaces") /\ UNCHANGED <<txn, lock>>
     \/ ~present /\ Settle(r, "failed", NoRevisions)
  /\ UNCHANGED <<tables, lastSequence, reader>>

\* SELECT ... FROM workspaces ... FOR UPDATE waits for the holder of the row.
LockWorkspace(r) ==
  /\ pc[r] = "lockWorkspace"
  /\ lock = NoRequest
  /\ \/ /\ present
        /\ lock' = r
        /\ Goto(r, "lockSurfaces")
        /\ UNCHANGED txn
     \/ ~present /\ Settle(r, "failed", NoRevisions)
  /\ UNCHANGED <<tables, lastSequence, reader>>

LockSurfaces(r) ==
  /\ pc[r] = "lockSurfaces"
  /\ Goto(r, "recheck")
  /\ txn' = [txn EXCEPT ![r].rows =
       [s \in Surface |-> IF s \in Touches[txn[r].op] THEN surfaces[s] ELSE NoRow]]
  /\ UNCHANGED <<tables, lastSequence, lock, reader>>

\* What the second look prevents: going on although a twin has committed.
RecheckSkipped(r) ==
  /\ pc[r] = "recheck"
  /\ Goto(r, "validate")
  /\ UNCHANGED <<tables, lastSequence, lock, txn, reader>>

\* The second look, under the lock: a twin may have committed meanwhile.
Recheck(r) ==
  /\ pc[r] = "recheck"
  /\ \/ Found(txn[r].op) /\ AnswerDuplicate(r)
     \/ ~Found(txn[r].op) /\ Goto(r, "validate") /\ UNCHANGED <<txn, lock>>
  /\ UNCHANGED <<tables, lastSequence, reader>>

\* The operations in the states read by LockSurfaces.
Integrated(r) == UNION {txn[r].rows[s].state : s \in Surface}

\* What the version comparison prevents: a stale write taken for a fresh one.
ValidateNoVersions(r) ==
  /\ pc[r] = "validate"
  /\ \/ txn[r].op \notin Malformed /\ Goto(r, "upsertSurfaces") /\ UNCHANGED <<txn, lock>>
     \/ txn[r].op \in Malformed /\ Settle(r, "rejected", NoRevisions)
  /\ UNCHANGED <<tables, lastSequence, reader>>

\* The gateway's callback; a SyncRejection rolls the transaction back.
Validate(r) ==
  /\ pc[r] = "validate"
  /\ \/ /\ Admissible(txn[r].op, Integrated(r))
        /\ Goto(r, "upsertSurfaces")
        /\ UNCHANGED <<txn, lock>>
     \/ /\ ~Admissible(txn[r].op, Integrated(r))
        /\ Settle(r, "rejected", NoRevisions)
  /\ UNCHANGED <<tables, lastSequence, reader>>

\* The next row of a surface: what validate returns, one revision further.
NextRow(row, op) == [revision |-> row.revision + 1, state |-> row.state \cup {op}]

UpsertSurfaces(r) ==
  /\ pc[r] = "upsertSurfaces"
  /\ Goto(r, "insertOperation")
  /\ txn' = [txn EXCEPT ![r].rows = [s \in Surface |->
       IF s \in Touches[txn[r].op] THEN NextRow(@[s], txn[r].op) ELSE NoRow]]
  /\ UNCHANGED <<tables, lastSequence, lock, reader>>

InsertOperation(r) ==
  /\ pc[r] = "insertOperation"
  /\ Goto(r, "insertUpdates")
  /\ lastSequence' = lastSequence + 1
  /\ txn' = [txn EXCEPT ![r].sequence = lastSequence']
  /\ UNCHANGED <<tables, lock, reader>>

\* The revisions a receipt names: those of the rows about to be written.
Revisions(r) == [s \in Surface |-> txn[r].rows[s].revision]

InsertUpdates(r) ==
  /\ pc[r] = "insertUpdates"
  /\ Goto(r, "commit")
  /\ txn' = [txn EXCEPT ![r].inserted =
       {[surfaceId |-> s, revision |-> Revisions(r)[s], operationId |-> txn[r].op] :
          s \in Touches[txn[r].op]}]
  /\ UNCHANGED <<tables, lastSequence, lock, reader>>

\* COMMIT shows every write of the transaction at once and frees the lock.
Commit(r) ==
  /\ pc[r] = "commit"
  /\ surfaces' = [s \in Surface |->
       IF s \in Touches[txn[r].op] THEN txn[r].rows[s] ELSE surfaces[s]]
  /\ journal' = Append(journal, [sequence |-> txn[r].sequence,
                                 operationId |-> txn[r].op,
                                 revision |-> Revisions(r)])
  /\ updates' = updates \cup txn[r].inserted
  /\ Settle(r, "committed", Revisions(r))
  /\ UNCHANGED <<present, lastSequence, reader>>

\* What the ROLLBACK prevents: the connection keeps the row lock.
AbortKeepingLock(r) ==
  /\ pc[r] \in Running
  /\ Goto(r, "answered")
  /\ txn' = [txn EXCEPT ![r] = Settled(r, "failed", NoRevisions)]
  /\ UNCHANGED <<tables, lastSequence, lock, reader>>

\* A statement fails: safeRollback, and commit() throws.
Abort(r) ==
  /\ pc[r] \in Running
  /\ Settle(r, "failed", NoRevisions)
  /\ UNCHANGED <<tables, lastSequence, reader>>

\* The server process stops: every open transaction is rolled back.
Crash ==
  /\ \E r \in Request : pc[r] \in Running
  /\ pc' = [r \in Request |-> IF pc[r] \in Running THEN "answered" ELSE pc[r]]
  /\ txn' = [r \in Request |-> IF pc[r] \in Running
       THEN Settled(r, "failed", NoRevisions) ELSE txn[r]]
  /\ lock' = NoRequest
  /\ reader' = IdleReader
  /\ UNCHANGED <<tables, lastSequence>>

\* What waiting for the row lock prevents: a deletion under a running commit.
EraseAnytime ==
  /\ present
  /\ present' = FALSE
  /\ surfaces' = NoRows
  /\ journal' = <<>>
  /\ updates' = {}
  /\ UNCHANGED <<lastSequence, lock, pc, txn, reader>>

\* delete_workspace_active_data: DELETE FROM workspaces waits for the row lock
\* and cascades to the three tables.
Erase ==
  /\ present
  /\ lock = NoRequest
  /\ present' = FALSE
  /\ surfaces' = NoRows
  /\ journal' = <<>>
  /\ updates' = {}
  /\ UNCHANGED <<lastSequence, lock, pc, txn, reader>>

\* readWorkspaceState: the first SELECT fixes the snapshot of the transaction.
ReadSurfaces ==
  /\ reader.pc \in {"idle", "done"}
  /\ reader' = [pc |-> "readCursor", surfaces |-> surfaces, snapshot |-> journal, cursor |-> 0]
  /\ UNCHANGED <<tables, lastSequence, lock, pc, txn>>

\* COALESCE(max(sequence), 0)
MaxSequence(entries) ==
  LET sequences == {0} \cup {entries[i].sequence : i \in DOMAIN entries}
  IN CHOOSE m \in sequences : \A n \in sequences : n <= m

\* What REPEATABLE READ prevents: a cursor newer than the surfaces.
ReadCursorCommitted ==
  /\ reader.pc = "readCursor"
  /\ reader' = [reader EXCEPT !.pc = "done", !.cursor = MaxSequence(journal)]
  /\ UNCHANGED <<tables, lastSequence, lock, pc, txn>>

\* The second SELECT, max(sequence), reads the same snapshot.
ReadCursor ==
  /\ reader.pc = "readCursor"
  /\ reader' = [reader EXCEPT !.pc = "done", !.cursor = MaxSequence(reader.snapshot)]
  /\ UNCHANGED <<tables, lastSequence, lock, pc, txn>>

\* The statements of one request.
Step(r) ==
  \/ FindOperation(r) \/ LockWorkspace(r) \/ LockSurfaces(r) \/ Recheck(r)
  \/ Validate(r) \/ UpsertSurfaces(r) \/ InsertOperation(r) \/ InsertUpdates(r)
  \/ Commit(r)

Next ==
  \/ \E r \in Request : (\E op \in Operation : Submit(r, op)) \/ Step(r) \/ Abort(r)
  \/ Crash
  \/ Erase
  \/ ReadSurfaces
  \/ ReadCursor

Spec == Init /\ [][Next]_vars

\* The event loop and PostgreSQL keep executing the statements of every
\* request; nothing is assumed of failures, deletions and readers.
FairSpec == Spec /\ \A r \in Request : WF_vars(Step(r))

-----------------------------------------------------------------------------
(***************************************************************************)
(* Safety.                                                                 *)
(***************************************************************************)

Committed == {journal[i].operationId : i \in DOMAIN journal}

\* Concurrent retries of one operation never reach the INSERT twice: the
\* second look under the lock answers them, so that no retry fails on
\* UNIQUE (workspace_id, operation_id) and no operation is applied twice.
NoDuplicateInsert ==
  /\ \A i, j \in DOMAIN journal :
       journal[i].operationId = journal[j].operationId => i = j
  /\ \A r \in Request :
       pc[r] \in {"upsertSurfaces", "insertOperation", "insertUpdates", "commit"} =>
         txn[r].op \notin Committed

\* Sequence numbers are handed out by INSERT but become visible by COMMIT;
\* the lock makes the two orders agree, so a reader that has seen a sequence
\* has seen every smaller one: the cursor loses nothing.
SequenceFollowsCommit ==
  /\ \A i, j \in DOMAIN journal : i < j => journal[i].sequence < journal[j].sequence
  /\ \A i \in DOMAIN journal : \A r \in Request :
       pc[r] \in {"insertUpdates", "commit"} => journal[i].sequence < txn[r].sequence

\* No commit overwrites another: the state of a surface is exactly what its
\* recorded updates give, one update for each of its revisions 1, 2, ...
SurfaceIsItsUpdates ==
  \A s \in Surface :
    LET mine == {u \in updates : u.surfaceId = s}
    IN /\ surfaces[s].state = {u.operationId : u \in mine}
       /\ {u.revision : u \in mine} = 1..surfaces[s].revision
       /\ \A u, v \in mine : u.revision = v.revision => u = v

\* The journal can be replayed: each operation was valid on exactly the
\* operations committed before it, although it was validated on rows read
\* several statements earlier.
JournalReplays ==
  \A i \in DOMAIN journal :
    Admissible(journal[i].operationId, {journal[j].operationId : j \in 1..(i - 1)})

\* A state answer is one snapshot: its surfaces hold the operations with a
\* sequence up to its cursor, and no other.
SnapshotIsExact ==
  reader.pc = "done" /\ present =>
    \A s \in Surface :
      reader.surfaces[s].state =
        {journal[i].operationId : i \in {k \in DOMAIN journal :
           journal[k].sequence <= reader.cursor /\ s \in Touches[journal[k].operationId]}}

\* A deletion that meets running commits leaves no row of the workspace.
ErasedLeavesNothing ==
  ~present => /\ surfaces = NoRows
              /\ journal = <<>>
              /\ updates = {}

\* Whatever happens to the statements of a request, its call settles and the
\* row lock goes to the next one: no error path keeps it.
EveryCallSettles ==
  \A r \in Request : pc[r] = "findOperation" ~> pc[r] = "answered"

(***************************************************************************)
(* Each call takes effect in one step: the statements above implement the  *)
(* log of OperationLog.  A call takes effect when it settles.              *)
(***************************************************************************)
Log == INSTANCE OperationLog WITH
  accepted <- [i \in DOMAIN journal |-> journal[i].operationId],
  carried <- [r \in Request |-> txn[r].op],
  answer <- [r \in Request |-> txn[r].answer]

\* Submissions are linearizable: see OperationLog.
ImplementsLog == Log!LogSpec
=============================================================================
