----------------------- MODULE OperationJournalProofs -----------------------
(***************************************************************************)
(* The safety of OperationJournal for any operations, surfaces and calls.  *)
(***************************************************************************)
EXTENDS OperationJournal, FiniteSetTheorems, TLAPS

\* Writing: the statements between validation and COMMIT.
Writing == {"upsertSurfaces", "insertOperation", "insertUpdates", "commit"}

\* The holder of the row lock is the only request past the lock.
Exclusion == \A r \in Request : pc[r] \in Holding => lock = r

Carrying == \A r \in Request : pc[r] # "idle" => txn[r].op \in Operation

\* The second look stays true until the COMMIT.
Once ==
  /\ \A i, j \in DOMAIN journal :
       journal[i].operationId = journal[j].operationId => i = j
  /\ \A r \in Request : pc[r] \in Writing \cup {"validate"} =>
       \A i \in DOMAIN journal : journal[i].operationId # txn[r].op

Sorted(entries) ==
  \A i, j \in DOMAIN entries : i < j => entries[i].sequence < entries[j].sequence

Sequenced ==
  /\ Sorted(journal)
  /\ Sorted(reader.snapshot)
  /\ \A i \in DOMAIN journal : journal[i].sequence <= lastSequence
  /\ \A r \in Request : pc[r] \in {"insertUpdates", "commit"} =>
       /\ txn[r].sequence \in Nat \ {0}
       /\ txn[r].sequence <= lastSequence
       /\ \A i \in DOMAIN journal : journal[i].sequence < txn[r].sequence

OrderInv == TypeOK /\ Exclusion /\ Carrying /\ Once /\ Sequenced

-----------------------------------------------------------------------------
\* A call that settles keeps the types, for every way it can settle.
LEMMA SettleType ==
  ASSUME TypeOK, NEW r \in Request, NEW kind \in {"none", "committed", "rejected", "failed"},
         NEW revision \in [Surface -> Nat], Settle(r, kind, revision)
  PROVE  /\ lock' \in Request \cup {NoRequest}
         /\ pc' \in [Request -> {"idle", "answered"} \cup Running]
         /\ txn' \in [Request -> [op : Operation \cup {NoOperation}, rows : [Surface -> Row],
                                  sequence : Nat, inserted : SUBSET Update, answer : Answer]]
<1>1. Settled(r, kind, revision) \in
        [op : Operation \cup {NoOperation}, rows : [Surface -> Row],
         sequence : Nat, inserted : SUBSET Update, answer : Answer]
  BY DEF Settled, IdleTxn, NoRows, NoRow, Row, Unanswered, Answer, TypeOK, Update
<1>2. QED
  BY <1>1 DEF Settle, Goto, Unlock, TypeOK

\* The greatest sequence of a sorted journal is that of its last entry.
LEMMA MaxSequenceSorted ==
  ASSUME NEW entries \in Seq(Entry), Sorted(entries)
  PROVE  MaxSequence(entries) = IF entries = <<>> THEN 0 ELSE entries[Len(entries)].sequence
<1> DEFINE S == {0} \cup {entries[i].sequence : i \in DOMAIN entries}
           top == IF entries = <<>> THEN 0 ELSE entries[Len(entries)].sequence
<1>1. Len(entries) \in Nat /\ DOMAIN entries = 1..Len(entries)
  OBVIOUS
<1>2. \A i \in DOMAIN entries : entries[i] \in Entry
  BY <1>1
<1>3. \A i \in DOMAIN entries : entries[i].sequence \in Nat
  BY <1>2 DEF Entry
<1>4. entries # <<>> => Len(entries) \in DOMAIN entries
  BY <1>1
<1>5. top \in S
  BY <1>4
<1>6. ASSUME NEW n \in S
      PROVE  n \in Nat /\ top \in Nat /\ n <= top
  <2>1. CASE entries = <<>>
    BY <2>1
  <2>2. ASSUME entries # <<>>, NEW i \in DOMAIN entries, n = entries[i].sequence
        PROVE  n <= top
    <3>1. i = Len(entries) \/ i < Len(entries)
      BY <1>1
    <3>2. QED
      BY <1>3, <1>4, <2>2, <3>1 DEF Sorted
  <2>3. QED
    BY <1>3, <1>4, <2>1, <2>2
<1>7. \A m \in S : (\A n \in S : n <= m) => m = top
  BY <1>5, <1>6
<1>8. MaxSequence(entries) = CHOOSE m \in S : \A n \in S : n <= m
  BY DEF MaxSequence
<1>9. QED
  BY <1>5, <1>6, <1>7, <1>8

\* What a settled call was, whichever way it settles.
LEMMA FoundEntry ==
  ASSUME TypeOK, NEW op, Found(op)
  PROVE  \E i \in DOMAIN journal :
           journal[i].operationId = op /\ EntryOf(op) = journal[i] /\ EntryOf(op) \in Entry
<1> DEFINE i == CHOOSE j \in DOMAIN journal : journal[j].operationId = op
<1>1. i \in DOMAIN journal /\ journal[i].operationId = op
  BY DEF Found
<1>2. \A j \in DOMAIN journal : journal[j] \in Entry
  BY DEF TypeOK
<1>3. EntryOf(op) = journal[i]
  BY DEF EntryOf
<1>4. QED
  BY <1>1, <1>2, <1>3

LEMMA TypeStep ==
  ASSUME OrderInv, [Next]_vars
  PROVE  TypeOK'
<1> USE DEF OrderInv
<1> DEFINE Txn == [op : Operation \cup {NoOperation}, rows : [Surface -> Row],
                   sequence : Nat, inserted : SUBSET Update, answer : Answer]
           Labels == {"idle", "answered"} \cup Running
<1>0. /\ txn \in [Request -> Txn]
      /\ pc \in [Request -> Labels]
      /\ NoRows \in [Surface -> Row]
      /\ NoRevisions \in [Surface -> Nat]
      /\ IdleReader \in [pc : {"idle", "readCursor", "done"}, surfaces : [Surface -> Row],
                         snapshot : Seq(Entry), cursor : Nat]
  BY DEF TypeOK, NoRows, NoRow, Row, NoRevisions, IdleReader
<1>1. ASSUME NEW r \in Request, NEW op \in Operation, Submit(r, op)
      PROVE  TypeOK'
  <2>1. [txn[r] EXCEPT !.op = op] \in Txn
    BY <1>0
  <2>2. QED
    BY <1>0, <1>1, <2>1 DEF Submit, Goto, TypeOK, tables, Running, Unlocked
<1>2. ASSUME NEW r \in Request, FindOperation(r) \/ Recheck(r)
      PROVE  TypeOK'
  <2>1. CASE AnswerDuplicate(r) /\ Found(txn[r].op)
    <3>1. EntryOf(txn[r].op).revision \in [Surface -> Nat]
      BY <2>1, FoundEntry DEF Entry
    <3>2. QED
      BY <1>2, <2>1, <3>1, SettleType DEF AnswerDuplicate, FindOperation, Recheck, tables, TypeOK
  <2>2. CASE ~Found(txn[r].op)
    BY <1>0, <1>2, <2>2 DEF FindOperation, Recheck, Goto, tables, TypeOK, Running, Unlocked, Holding
  <2>3. QED
    BY <1>2, <2>1, <2>2 DEF FindOperation, Recheck
<1>3. ASSUME NEW r \in Request, LockWorkspace(r)
      PROVE  TypeOK'
  <2>1. CASE Settle(r, "failed", NoRevisions)
    BY <1>0, <1>3, <2>1, SettleType DEF LockWorkspace, tables, TypeOK
  <2>2. CASE lock' = r /\ Goto(r, "lockSurfaces") /\ UNCHANGED txn
    BY <1>0, <1>3, <2>2 DEF LockWorkspace, Goto, tables, TypeOK, Running, Holding
  <2>3. QED
    BY <1>3, <2>1, <2>2 DEF LockWorkspace
<1>4. ASSUME NEW r \in Request, LockSurfaces(r)
      PROVE  TypeOK'
  <2>1. [s \in Surface |-> IF s \in Touches[txn[r].op] THEN surfaces[s] ELSE NoRow]
          \in [Surface -> Row]
    BY DEF TypeOK, NoRow, Row
  <2>2. QED
    BY <1>0, <1>4, <2>1, ZenonT(60) DEF LockSurfaces, Goto, tables, TypeOK, Running, Holding
<1>5. ASSUME NEW r \in Request, Validate(r)
      PROVE  TypeOK'
  <2>1. CASE Settle(r, "rejected", NoRevisions)
    BY <1>0, <1>5, <2>1, SettleType DEF Validate, tables, TypeOK
  <2>2. CASE Goto(r, "upsertSurfaces") /\ UNCHANGED <<txn, lock>>
    BY <1>0, <1>5, <2>2 DEF Validate, Goto, tables, TypeOK, Running, Holding
  <2>3. QED
    BY <1>5, <2>1, <2>2 DEF Validate
<1>6. ASSUME NEW r \in Request, UpsertSurfaces(r)
      PROVE  TypeOK'
  <2>0. txn[r].op \in Operation /\ txn[r].rows \in [Surface -> Row]
    BY <1>0, <1>6 DEF Carrying, UpsertSurfaces
  <2>1. [s \in Surface |-> IF s \in Touches[txn[r].op]
                           THEN NextRow(txn[r].rows[s], txn[r].op) ELSE NoRow]
          \in [Surface -> Row]
    BY <2>0 DEF NextRow, NoRow, Row
  <2>2. QED
    BY <1>0, <1>6, <2>1, ZenonT(60) DEF UpsertSurfaces, Goto, tables, TypeOK, Running, Holding
<1>7. ASSUME NEW r \in Request, InsertOperation(r)
      PROVE  TypeOK'
  <2>1. lastSequence' \in Nat
    BY <1>7 DEF InsertOperation, TypeOK
  <2>2. [txn[r] EXCEPT !.sequence = lastSequence'] \in Txn
    BY <1>0, <2>1
  <2>3. txn' \in [Request -> Txn] /\ pc' \in [Request -> Labels]
    BY <1>0, <1>7, <2>2 DEF InsertOperation, Goto, Running, Holding
  <2>4. QED
    BY <1>7, <2>1, <2>3 DEF InsertOperation, tables, TypeOK
<1>8. ASSUME NEW r \in Request, InsertUpdates(r)
      PROVE  TypeOK'
  <2>0. txn[r].op \in Operation /\ txn[r].rows \in [Surface -> Row]
    BY <1>0, <1>8 DEF Carrying, InsertUpdates
  <2>1. {[surfaceId |-> s, revision |-> Revisions(r)[s], operationId |-> txn[r].op] :
           s \in Touches[txn[r].op]} \subseteq Update
    <3>1. \A s \in Touches[txn[r].op] : s \in Surface
      BY <2>0, TouchesAssumption
    <3>2. \A s \in Surface : Revisions(r)[s] \in Nat
      BY <2>0 DEF Revisions, Row
    <3>3. QED
      BY <2>0, <3>1, <3>2 DEF Update
  <2>2. QED
    BY <1>0, <1>8, <2>1, ZenonT(60) DEF InsertUpdates, Goto, tables, TypeOK, Running, Holding
<1>9. ASSUME NEW r \in Request, Commit(r)
      PROVE  TypeOK'
  <2>0. /\ txn[r].op \in Operation /\ txn[r].rows \in [Surface -> Row]
        /\ txn[r].sequence \in Nat \ {0}
        /\ txn[r].inserted \subseteq Update
    BY <1>0, <1>9 DEF Carrying, Commit, Sequenced
  <2>1. Revisions(r) \in [Surface -> Nat]
    BY <2>0 DEF Revisions, Row
  <2>2. surfaces' \in [Surface -> Row]
    BY <2>0, <1>9 DEF Commit, TypeOK
  <2>3. journal' \in Seq(Entry)
    <3>1. [sequence |-> txn[r].sequence, operationId |-> txn[r].op,
           revision |-> Revisions(r)] \in Entry
      BY <2>0, <2>1 DEF Entry
    <3>2. QED
      BY <1>9, <3>1 DEF Commit, TypeOK
  <2>4. updates' \subseteq Update
    BY <2>0, <1>9 DEF Commit, TypeOK
  <2>5. Settle(r, "committed", Revisions(r)) /\ UNCHANGED <<present, lastSequence, reader>>
    BY <1>9 DEF Commit
  <2>6. QED
    BY <2>1, <2>2, <2>3, <2>4, <2>5, SettleType DEF TypeOK
<1>10. ASSUME NEW r \in Request, Abort(r)
       PROVE  TypeOK'
  BY <1>0, <1>10, SettleType DEF Abort, tables, TypeOK
<1>11. CASE Crash
  <2>1. \A r \in Request : Settled(r, "failed", NoRevisions) \in Txn
    BY <1>0 DEF Settled, IdleTxn, Unanswered, Answer
  <2>2. QED
    BY <1>0, <1>11, <2>1 DEF Crash, tables, TypeOK
<1>12. CASE Erase
  <2>1. surfaces' \in [Surface -> Row] /\ journal' \in Seq(Entry) /\ updates' \subseteq Update
    BY <1>0, <1>12 DEF Erase
  <2>2. QED
    BY <1>12, <2>1 DEF Erase, TypeOK
<1>13. CASE ReadSurfaces
  BY <1>13 DEF ReadSurfaces, tables, TypeOK
<1>14. CASE ReadCursor
  <2>1. MaxSequence(reader.snapshot) \in Nat
    <3>1. reader.snapshot \in Seq(Entry) /\ Sorted(reader.snapshot)
      BY DEF TypeOK, Sequenced
    <3>2. reader.snapshot # <<>> => reader.snapshot[Len(reader.snapshot)] \in Entry
      BY <3>1
    <3>3. \A e \in Entry : e.sequence \in Nat
      BY DEF Entry
    <3>4. MaxSequence(reader.snapshot) =
            IF reader.snapshot = <<>> THEN 0
            ELSE reader.snapshot[Len(reader.snapshot)].sequence
      BY <3>1, MaxSequenceSorted
    <3>5. QED
      BY <3>2, <3>3, <3>4
  <2>2. QED
    BY <1>14, <2>1 DEF ReadCursor, tables, TypeOK
<1>15. CASE UNCHANGED vars
  BY <1>15 DEF vars, tables, TypeOK
<1>16. QED
  BY <1>1, <1>2, <1>3, <1>4, <1>5, <1>6, <1>7, <1>8, <1>9, <1>10, <1>11, <1>12, <1>13,
     <1>14, <1>15 DEF Next, Step

\* Settling ends r, and takes the lock from nobody else.
LEMMA SettleControl ==
  ASSUME TypeOK, NEW r \in Request, NEW kind, NEW revision, Settle(r, kind, revision)
  PROVE  /\ pc' = [pc EXCEPT ![r] = "answered"]
         /\ lock' = IF lock = r THEN NoRequest ELSE lock
         /\ txn'[r].op = txn[r].op
         /\ \A q \in Request : q # r => txn'[q] = txn[q]
  BY DEF Settle, Goto, Unlock, Settled, IdleTxn, TypeOK

\* A step of r within its transaction leaves every other request alone.
LEMMA StepControl ==
  ASSUME TypeOK, NEW r \in Request, Step(r)
  PROVE  /\ \A q \in Request \ {r} : pc'[q] = pc[q] /\ txn'[q] = txn[q]
         /\ txn'[r].op = txn[r].op
         /\ pc[r] \in Running
         /\ pc'[r] \in {"answered"} \cup Running
<1> USE DEF TypeOK, Running, Unlocked, Holding
<1>1. CASE FindOperation(r)
  BY <1>1, SettleControl DEF FindOperation, AnswerDuplicate, Goto
<1>2. CASE LockWorkspace(r)
  BY <1>2, SettleControl DEF LockWorkspace, Goto
<1>3. CASE Recheck(r)
  BY <1>3, SettleControl DEF Recheck, AnswerDuplicate, Goto
<1>4. CASE Validate(r)
  BY <1>4, SettleControl DEF Validate, Goto
<1>5. CASE LockSurfaces(r)
  BY <1>5 DEF LockSurfaces, Goto
<1>6. CASE UpsertSurfaces(r)
  BY <1>6 DEF UpsertSurfaces, Goto
<1>7. CASE InsertOperation(r)
  BY <1>7 DEF InsertOperation, Goto
<1>8. CASE InsertUpdates(r)
  BY <1>8 DEF InsertUpdates, Goto
<1>9. CASE Commit(r)
  BY <1>9, SettleControl DEF Commit
<1>10. QED
  BY <1>1, <1>2, <1>3, <1>4, <1>5, <1>6, <1>7, <1>8, <1>9 DEF Step

\* Only the holder changes the tables and the sequence, and only deletion
\* changes them without one; COMMIT appends one entry.
LEMMA TablesStep ==
  ASSUME NEW r \in Request, Step(r)
  PROVE  \/ UNCHANGED tables
         \/ /\ Commit(r)
            /\ journal' = Append(journal, [sequence |-> txn[r].sequence,
                                           operationId |-> txn[r].op,
                                           revision |-> Revisions(r)])
  BY DEF Step, FindOperation, LockWorkspace, LockSurfaces, Recheck, Validate,
         UpsertSurfaces, InsertOperation, InsertUpdates, Commit

LEMMA CarryingStep ==
  ASSUME OrderInv, [Next]_vars
  PROVE  Carrying'
<1> USE DEF OrderInv, Carrying
<1>1. ASSUME NEW r \in Request, NEW op \in Operation, Submit(r, op)
      PROVE  Carrying'
  BY <1>1 DEF Submit, Goto, TypeOK
<1>2. ASSUME NEW r \in Request, Step(r)
      PROVE  Carrying'
  BY <1>2, StepControl DEF Running, Unlocked, Holding
<1>3. ASSUME NEW r \in Request, Abort(r)
      PROVE  Carrying'
  BY <1>3, SettleControl DEF Abort, TypeOK, Running, Unlocked, Holding
<1>4. CASE Crash
  BY <1>4 DEF Crash, Settled, IdleTxn, TypeOK, Running, Unlocked, Holding
<1>5. CASE Erase \/ ReadSurfaces \/ ReadCursor \/ UNCHANGED vars
  BY <1>5 DEF Erase, ReadSurfaces, ReadCursor, vars
<1>6. QED
  BY <1>1, <1>2, <1>3, <1>4, <1>5 DEF Next

LEMMA ExclusionStep ==
  ASSUME OrderInv, [Next]_vars
  PROVE  Exclusion'
<1> USE DEF OrderInv, Exclusion
<1>1. ASSUME NEW r \in Request, NEW op \in Operation, Submit(r, op)
      PROVE  Exclusion'
  BY <1>1 DEF Submit, Goto, TypeOK, Holding
<1>2. ASSUME NEW r \in Request, NEW kind, NEW revision, Settle(r, kind, revision)
      PROVE  Exclusion'
  BY <1>2, SettleControl DEF TypeOK, Holding
<1>3. ASSUME NEW r \in Request, FindOperation(r) \/ Recheck(r)
      PROVE  Exclusion'
  BY <1>2, <1>3 DEF FindOperation, Recheck, AnswerDuplicate, Goto, TypeOK, Holding
<1>4. ASSUME NEW r \in Request, LockWorkspace(r)
      PROVE  Exclusion'
  <2>1. CASE lock' = r /\ Goto(r, "lockSurfaces")
    <3>1. \A q \in Request : pc[q] \notin Holding
      BY <1>4, NoRequestAssumption DEF LockWorkspace
    <3>2. QED
      BY <2>1, <3>1 DEF Goto, TypeOK, Holding
  <2>2. QED
    BY <1>2, <1>4, <2>1 DEF LockWorkspace
<1>5. ASSUME NEW r \in Request, Validate(r)
      PROVE  Exclusion'
  BY <1>2, <1>5 DEF Validate, Goto, TypeOK, Holding
<1>6. ASSUME NEW r \in Request,
             \/ LockSurfaces(r) \/ UpsertSurfaces(r) \/ InsertOperation(r) \/ InsertUpdates(r)
      PROVE  Exclusion'
  BY <1>6 DEF LockSurfaces, UpsertSurfaces, InsertOperation, InsertUpdates, Goto, TypeOK, Holding
<1>7. ASSUME NEW r \in Request, Commit(r) \/ Abort(r)
      PROVE  Exclusion'
  BY <1>2, <1>7 DEF Commit, Abort
<1>8. CASE Crash
  BY <1>8 DEF Crash, TypeOK, Running, Holding
<1>9. CASE Erase \/ ReadSurfaces \/ ReadCursor \/ UNCHANGED vars
  BY <1>9 DEF Erase, ReadSurfaces, ReadCursor, vars
<1>10. QED
  BY <1>1, <1>3, <1>4, <1>5, <1>6, <1>7, <1>8, <1>9 DEF Next, Step

\* The entries after a COMMIT: the old ones and the new last one.
LEMMA CommitAppends ==
  ASSUME TypeOK, NEW r \in Request, Commit(r)
  PROVE  /\ DOMAIN journal = 1..Len(journal) /\ Len(journal) \in Nat
         /\ DOMAIN journal' = 1..(Len(journal) + 1)
         /\ \A i \in DOMAIN journal : journal'[i] = journal[i]
         /\ journal'[Len(journal) + 1].sequence = txn[r].sequence
         /\ journal'[Len(journal) + 1].operationId = txn[r].op
  BY DEF TypeOK, Commit

LEMMA OnceStep ==
  ASSUME OrderInv, [Next]_vars
  PROVE  Once'
<1> USE DEF OrderInv, Once
<1>1. ASSUME NEW r \in Request, NEW op \in Operation, Submit(r, op)
      PROVE  Once'
  BY <1>1 DEF Submit, Goto, TypeOK, tables, Writing
<1>2. ASSUME NEW r \in Request, Recheck(r)
      PROVE  Once'
  <2>1. CASE ~Found(txn[r].op)
    BY <1>2, <2>1, ZenonT(60) DEF Recheck, Found, Settle, Goto, AnswerDuplicate, tables, TypeOK, Writing
  <2>2. CASE Found(txn[r].op)
    BY <1>2, <2>2, SettleControl DEF Recheck, AnswerDuplicate, tables, TypeOK, Writing
  <2>3. QED
    BY <2>1, <2>2
<1>3. ASSUME NEW r \in Request, Commit(r)
      PROVE  Once'
  <2>0. /\ DOMAIN journal = 1..Len(journal) /\ Len(journal) \in Nat
        /\ DOMAIN journal' = 1..(Len(journal) + 1)
        /\ \A i \in DOMAIN journal : journal'[i] = journal[i]
        /\ journal'[Len(journal) + 1].sequence = txn[r].sequence
        /\ journal'[Len(journal) + 1].operationId = txn[r].op
    BY <1>3, CommitAppends, Zenon
  <2>00. Settle(r, "committed", Revisions(r)) /\ pc[r] = "commit"
    BY <1>3 DEF Commit
  <2>1. \A q \in Request : q # r => pc[q] \notin Holding
    BY <1>3 DEF Exclusion, Commit, Holding
  <2>2. \A q \in Request : pc'[q] \notin Writing \cup {"validate"}
    BY <2>00, <2>1, SettleControl, SMTT(30) DEF TypeOK, Holding, Writing
  <2>3. \A i \in DOMAIN journal : journal[i].operationId # txn[r].op
    BY <1>3 DEF Commit, Writing
  <2>4. ASSUME NEW i \in DOMAIN journal', NEW j \in DOMAIN journal',
               journal'[i].operationId = journal'[j].operationId
        PROVE  i = j
    <3>1. \A k \in DOMAIN journal' : k \in DOMAIN journal \/ k = Len(journal) + 1
      BY <2>0
    <3>2. QED
      BY <2>0, <2>3, <2>4, <3>1
  <2>5. QED
    BY <2>2, <2>4
<1>4. ASSUME NEW r \in Request, Step(r), ~Recheck(r), ~Commit(r)
      PROVE  Once'
  <2>1. UNCHANGED journal
    BY <1>4, TablesStep DEF tables
  <2>2. pc'[r] \in Writing \cup {"validate"} => pc[r] \in Writing \cup {"validate"}
    <3>1. \A kind, revision : Settle(r, kind, revision) => pc'[r] = "answered"
      BY SettleControl DEF TypeOK
    <3>2. QED
      BY <1>4, <3>1 DEF Step, FindOperation, LockWorkspace, LockSurfaces, Validate, UpsertSurfaces,
                        InsertOperation, InsertUpdates, AnswerDuplicate, Goto, TypeOK, Writing
  <2>3. QED
    BY <1>4, <2>1, <2>2, StepControl
<1>5. ASSUME NEW r \in Request, Abort(r)
      PROVE  Once'
  <2>1. Settle(r, "failed", NoRevisions) /\ UNCHANGED journal
    BY <1>5 DEF Abort, tables
  <2>2. /\ pc'[r] = "answered"
        /\ \A q \in Request \ {r} : pc'[q] = pc[q] /\ txn'[q] = txn[q]
    BY <2>1, SettleControl DEF TypeOK
  <2>3. QED
    BY <2>1, <2>2 DEF Writing
<1>6. CASE Crash
  BY <1>6 DEF Crash, tables, TypeOK, Running, Holding, Writing
<1>7. CASE Erase
  BY <1>7 DEF Erase
<1>8. CASE ReadSurfaces \/ ReadCursor \/ UNCHANGED vars
  BY <1>8 DEF ReadSurfaces, ReadCursor, vars, tables
<1>9. QED
  BY <1>1, <1>2, <1>3, <1>4, <1>5, <1>6, <1>7, <1>8 DEF Next

LEMMA SequencedStep ==
  ASSUME OrderInv, [Next]_vars
  PROVE  Sequenced'
<1> USE DEF OrderInv, Sequenced
<1> DEFINE Numbered == {"insertUpdates", "commit"}
<1>1. ASSUME NEW r \in Request, NEW op \in Operation, Submit(r, op)
      PROVE  Sequenced'
  BY <1>1 DEF Submit, Goto, TypeOK, tables, Sorted
<1>2. ASSUME NEW r \in Request, InsertOperation(r)
      PROVE  Sequenced'
  <2>1. \A q \in Request : q # r => pc[q] \notin Holding
    BY <1>2 DEF Exclusion, InsertOperation, Holding
  <2>2. \A q \in Request : pc'[q] \in Numbered => q = r
    BY <1>2, <2>1 DEF InsertOperation, Goto, TypeOK, Holding
  <2>3. txn'[r].sequence = lastSequence + 1 /\ lastSequence' = lastSequence + 1
    BY <1>2 DEF InsertOperation, TypeOK
  <2>4. \A i \in DOMAIN journal : journal[i].sequence \in Nat /\ journal[i].sequence < lastSequence + 1
    <3>1. \A i \in DOMAIN journal : journal[i] \in Entry
      BY DEF TypeOK
    <3>2. QED
      BY <3>1 DEF TypeOK, Entry
  <2>5. UNCHANGED <<journal, reader>>
    BY <1>2 DEF InsertOperation, tables
  <2>6. lastSequence \in Nat
    BY DEF TypeOK
  <2>7. QED
    BY <2>2, <2>3, <2>4, <2>5, <2>6 DEF Sorted
<1>3. ASSUME NEW r \in Request, Commit(r)
      PROVE  Sequenced'
  <2>0. /\ DOMAIN journal = 1..Len(journal) /\ Len(journal) \in Nat
        /\ DOMAIN journal' = 1..(Len(journal) + 1)
        /\ \A i \in DOMAIN journal : journal'[i] = journal[i]
        /\ journal'[Len(journal) + 1].sequence = txn[r].sequence
        /\ journal'[Len(journal) + 1].operationId = txn[r].op
    BY <1>3, CommitAppends, Zenon
  <2>00. Settle(r, "committed", Revisions(r)) /\ pc[r] = "commit"
    BY <1>3 DEF Commit
  <2>1. \A q \in Request : q # r => pc[q] \notin Holding
    BY <1>3 DEF Exclusion, Commit, Holding
  <2>2. \A q \in Request : pc'[q] \notin Numbered
    BY <1>3, <2>1, SettleControl DEF Commit, TypeOK, Holding
  <2>3. /\ txn[r].sequence <= lastSequence
        /\ \A i \in DOMAIN journal : journal[i].sequence < txn[r].sequence
    BY <1>3 DEF Commit
  <2>4. \A k \in DOMAIN journal' : k \in DOMAIN journal \/ k = Len(journal) + 1
    BY <2>0
  <2>5. Sorted(journal')
    BY <2>0, <2>3, <2>4 DEF Sorted
  <2>6. UNCHANGED <<lastSequence, reader>>
    BY <1>3 DEF Commit
  <2>7. \A i \in DOMAIN journal' : journal'[i].sequence <= lastSequence
    BY <2>0, <2>3, <2>4
  <2>8. QED
    BY <2>2, <2>5, <2>6, <2>7 DEF Sorted
<1>4. ASSUME NEW r \in Request, Step(r), ~InsertOperation(r), ~Commit(r)
      PROVE  Sequenced'
  <2>1. UNCHANGED <<journal, lastSequence, reader>>
    BY <1>4 DEF Step, FindOperation, LockWorkspace, LockSurfaces, Recheck, Validate,
                UpsertSurfaces, InsertUpdates, tables
  <2>2. pc'[r] \in Numbered => pc[r] \in Numbered /\ txn'[r].sequence = txn[r].sequence
    <3>1. \A kind, revision : Settle(r, kind, revision) => pc'[r] = "answered"
      BY SettleControl DEF TypeOK
    <3>2. QED
      BY <1>4, <3>1 DEF Step, FindOperation, LockWorkspace, LockSurfaces, Recheck, Validate,
                        UpsertSurfaces, InsertUpdates, AnswerDuplicate, Goto, TypeOK
  <2>3. QED
    BY <1>4, <2>1, <2>2, StepControl DEF Sorted
<1>5. ASSUME NEW r \in Request, Abort(r)
      PROVE  Sequenced'
  BY <1>5, SettleControl DEF Abort, tables, TypeOK, Sorted
<1>6. CASE Crash
  BY <1>6 DEF Crash, tables, TypeOK, Running, Holding, Sorted, IdleReader
<1>7. CASE Erase
  BY <1>7 DEF Erase, Sorted
<1>8. CASE ReadSurfaces \/ ReadCursor
  <2>1. UNCHANGED <<journal, lastSequence, pc, txn>>
    BY <1>8 DEF ReadSurfaces, ReadCursor, tables
  <2>2. reader'.snapshot = journal \/ reader'.snapshot = reader.snapshot
    <3>1. CASE ReadSurfaces
      BY <3>1 DEF ReadSurfaces
    <3>2. CASE ReadCursor
      BY <3>2 DEF ReadCursor, TypeOK
    <3>3. QED
      BY <1>8, <3>1, <3>2
  <2>3. QED
    BY <2>1, <2>2 DEF Sorted
<1>9. CASE UNCHANGED vars
  BY <1>9 DEF vars, tables, Sorted
<1>10. QED
  BY <1>1, <1>2, <1>3, <1>4, <1>5, <1>6, <1>7, <1>8, <1>9 DEF Next

LEMMA OrderInit == Init => OrderInv
<1> SUFFICES ASSUME Init PROVE OrderInv
  OBVIOUS
<1> USE DEF Init
<1>1. TypeOK
  BY DEF TypeOK, NoRows, NoRow, Row, IdleTxn, Update, Unanswered, Answer, NoRevisions,
         IdleReader, Running
<1>2. Exclusion /\ Carrying /\ Once /\ Sequenced
  BY DEF Exclusion, Carrying, Once, Sequenced, Sorted, Holding, Writing, IdleReader
<1>3. QED
  BY <1>1, <1>2 DEF OrderInv

LEMMA OrderAlways == Spec => []OrderInv
<1>1. OrderInv /\ [Next]_vars => OrderInv'
  BY TypeStep, ExclusionStep, CarryingStep, OnceStep, SequencedStep DEF OrderInv
<1>2. QED
  BY OrderInit, <1>1, PTL DEF Spec

\* Every reachable state of the journal has the declared types.
THEOREM TypeCorrect == Spec => []TypeOK
  BY OrderAlways, PTL DEF OrderInv

\* Retries of one operation, in any number and any interleaving, insert it once.
THEOREM DuplicateFree == Spec => []NoDuplicateInsert
<1>1. OrderInv => NoDuplicateInsert
  BY DEF OrderInv, Once, NoDuplicateInsert, Committed, Writing
<1>2. QED
  BY <1>1, OrderAlways, PTL

\* Sequence numbers increase in the order of the COMMITs.
THEOREM CommitOrder == Spec => []SequenceFollowsCommit
<1>1. OrderInv => SequenceFollowsCommit
  BY DEF OrderInv, Sequenced, Sorted, SequenceFollowsCommit
<1>2. QED
  BY <1>1, OrderAlways, PTL
-----------------------------------------------------------------------------
(***************************************************************************)
(* What is stored: surfaces are the sum of their updates, the journal can  *)
(* be replayed, and a deletion leaves nothing.  The argument follows the   *)
(* holder of the row lock: the rows it read stay the committed rows until  *)
(* its COMMIT.                                                             *)
(***************************************************************************)

RowsRead == {"recheck", "validate", "upsertSurfaces"}
RowsStaged == {"insertOperation", "insertUpdates", "commit"}

\* A surface holds the committed operations that touch it.
StateInv == \A s \in Surface : surfaces[s].state = {o \in Committed : s \in Touches[o]}

\* The holder's copy of the rows is current, and then one step ahead.
RowsInv == \A r \in Request :
  /\ pc[r] \in RowsRead => \A s \in Surface :
       txn[r].rows[s] = IF s \in Touches[txn[r].op] THEN surfaces[s] ELSE NoRow
  /\ pc[r] \in RowsStaged => \A s \in Surface :
       txn[r].rows[s] = IF s \in Touches[txn[r].op]
                        THEN NextRow(surfaces[s], txn[r].op) ELSE NoRow
  /\ pc[r] = "commit" => txn[r].inserted =
       {[surfaceId |-> s, revision |-> surfaces[s].revision + 1, operationId |-> txn[r].op] :
          s \in Touches[txn[r].op]}

\* The verdict of the validation stays true until the COMMIT.
ValidInv == \A r \in Request : pc[r] \in Writing => Admissible(txn[r].op, Committed)

\* A deletion never meets a holder.
PresentInv ==
  /\ \A r \in Request : pc[r] \in Holding => present
  /\ ErasedLeavesNothing

Content ==
  StateInv /\ RowsInv /\ ValidInv /\ PresentInv /\ SurfaceIsItsUpdates /\ JournalReplays

ContentInv == OrderInv /\ Content

-----------------------------------------------------------------------------
LEMMA RowFields ==
  /\ NoRow.state = {} /\ NoRow.revision = 0
  /\ \A row, op : /\ NextRow(row, op).revision = row.revision + 1
                  /\ NextRow(row, op).state = row.state \cup {op}
  BY DEF NoRow, NextRow

\* Validation on the touched rows decides as validation on the whole journal.
LEMMA LocalVerdict ==
  ASSUME OrderInv, StateInv, RowsInv, NEW r \in Request, pc[r] = "validate"
  PROVE  Admissible(txn[r].op, Integrated(r)) <=> Admissible(txn[r].op, Committed)
<1> DEFINE op == txn[r].op
<1>1. op \in Operation /\ Touches[op] \subseteq Surface
  BY TouchesAssumption DEF OrderInv, Carrying
<1>2. Committed \subseteq Operation
  <2>1. \A i \in DOMAIN journal : journal[i] \in Entry
    BY DEF OrderInv, TypeOK
  <2>2. QED
    BY <2>1 DEF Committed, Entry
<1>3. \A s \in Surface : txn[r].rows[s].state =
        IF s \in Touches[op] THEN {o \in Committed : s \in Touches[o]} ELSE {}
  <2>1. \A s \in Surface :
          txn[r].rows[s] = IF s \in Touches[op] THEN surfaces[s] ELSE NoRow
    BY DEF RowsInv, RowsRead
  <2>2. QED
    BY <2>1, RowFields DEF StateInv
<1>4. Integrated(r) = {o \in Committed : Touches[o] \cap Touches[op] # {}}
  <2>1. ASSUME NEW o \in Integrated(r)
        PROVE  o \in Committed /\ Touches[o] \cap Touches[op] # {}
    BY <1>3 DEF Integrated
  <2>2. ASSUME NEW o \in Committed, NEW s \in Touches[o] \cap Touches[op]
        PROVE  o \in Integrated(r)
    BY <1>1, <1>3 DEF Integrated
  <2>3. QED
    BY <2>1, <2>2
<1>5. Creates[op] \subseteq Touches[op]
  BY <1>1, CreatesAssumption
<1>6. Integrated(r) \cap Rivals[op] = Committed \cap Rivals[op]
  BY <1>1, <1>2, <1>4, RivalsAssumption
<1>7. (\A o \in Integrated(r) : Touches[o] \cap Creates[op] = {})
        <=> (\A o \in Committed : Touches[o] \cap Creates[op] = {})
  BY <1>4, <1>5
<1>8. QED
  BY <1>6, <1>7 DEF Admissible, AdmissibleOn

\* Everything a step leaves alone when it neither commits nor deletes.
LEMMA QuietStep ==
  ASSUME ContentInv, UNCHANGED tables
  PROVE  /\ StateInv' /\ SurfaceIsItsUpdates' /\ JournalReplays' /\ ErasedLeavesNothing'
         /\ Committed' = Committed
<1>1. present' = present /\ surfaces' = surfaces /\ journal' = journal /\ updates' = updates
  BY DEF tables
<1>2. Committed' = Committed
  BY <1>1 DEF Committed
<1>3. StateInv'
  BY <1>1, <1>2 DEF ContentInv, Content, StateInv
<1>4. SurfaceIsItsUpdates'
  BY <1>1 DEF ContentInv, Content, SurfaceIsItsUpdates
<1>5. JournalReplays'
  BY <1>1 DEF ContentInv, Content, JournalReplays
<1>6. ErasedLeavesNothing'
  BY <1>1 DEF ContentInv, Content, PresentInv, ErasedLeavesNothing
<1>7. QED
  BY <1>2, <1>3, <1>4, <1>5, <1>6

\* A request that settles leaves the requests around it as they were.
LEMMA QuietSettle ==
  ASSUME ContentInv, UNCHANGED tables, NEW r \in Request, NEW kind, NEW revision,
         Settle(r, kind, revision)
  PROVE  RowsInv' /\ ValidInv' /\ PresentInv'
<1>1. /\ pc'[r] = "answered"
      /\ \A q \in Request \ {r} : pc'[q] = pc[q] /\ txn'[q] = txn[q]
  BY SettleControl DEF ContentInv, Content, OrderInv, TypeOK
<1>2. UNCHANGED <<surfaces, present>> /\ Committed' = Committed /\ ErasedLeavesNothing'
  BY QuietStep DEF tables
<1>3. RowsInv'
  BY <1>1, <1>2 DEF ContentInv, Content, RowsInv, RowsRead, RowsStaged
<1>4. ValidInv'
  BY <1>1, <1>2 DEF ContentInv, Content, ValidInv, Writing
<1>5. PresentInv'
  BY <1>1, <1>2 DEF ContentInv, Content, PresentInv, Holding
<1>6. QED
  BY <1>3, <1>4, <1>5

\* The statements of the holder before its COMMIT.
LEMMA HolderStep ==
  ASSUME ContentInv, NEW r \in Request, Step(r), ~Commit(r)
  PROVE  RowsInv' /\ ValidInv' /\ PresentInv'
<1>0. UNCHANGED tables
  BY TablesStep
<1>1. /\ UNCHANGED <<surfaces, present>>
      /\ Committed' = Committed
      /\ ErasedLeavesNothing'
      /\ \A q \in Request \ {r} : pc'[q] = pc[q] /\ txn'[q] = txn[q]
      /\ txn'[r].op = txn[r].op
  BY <1>0, QuietStep, StepControl DEF tables, ContentInv, Content, OrderInv
<1>2. ASSUME NEW kind, NEW revision, Settle(r, kind, revision)
      PROVE  RowsInv' /\ ValidInv' /\ PresentInv'
  BY <1>0, <1>2, QuietSettle
<1>3. /\ pc \in [Request -> {"idle", "answered"} \cup Running]
      /\ \A q \in Request : txn[q].op \in Operation \cup {NoOperation}
      /\ DOMAIN txn = Request
  BY DEF ContentInv, Content, OrderInv, TypeOK
<1>4. CASE FindOperation(r)
  BY <1>1, <1>2, <1>3, <1>4 DEF FindOperation, AnswerDuplicate, Goto, ContentInv, Content,
     RowsInv, ValidInv, PresentInv, RowsRead, RowsStaged, Writing, Holding
<1>5. CASE LockWorkspace(r)
  BY <1>1, <1>2, <1>3, <1>5 DEF LockWorkspace, Goto, ContentInv, Content,
     RowsInv, ValidInv, PresentInv, RowsRead, RowsStaged, Writing, Holding
<1>6. CASE LockSurfaces(r)
  BY <1>1, <1>3, <1>6 DEF LockSurfaces, Goto, ContentInv, Content,
     RowsInv, ValidInv, PresentInv, RowsRead, RowsStaged, Writing, Holding
<1>7. CASE Recheck(r)
  BY <1>1, <1>2, <1>3, <1>7 DEF Recheck, AnswerDuplicate, Goto, ContentInv, Content,
     RowsInv, ValidInv, PresentInv, RowsRead, RowsStaged, Writing, Holding
<1>8. CASE Validate(r)
  <2>1. CASE Admissible(txn[r].op, Integrated(r)) /\ Goto(r, "upsertSurfaces") /\ UNCHANGED txn
    <3>1. Admissible(txn[r].op, Committed)
      BY <1>8, <2>1, LocalVerdict DEF ContentInv, Content, Validate
    <3>2. QED
      BY <1>1, <1>3, <1>8, <2>1, <3>1 DEF Validate, Goto, ContentInv, Content,
         RowsInv, ValidInv, PresentInv, RowsRead, RowsStaged, Writing, Holding
  <2>2. QED
    BY <1>2, <1>8, <2>1 DEF Validate
<1>9. CASE UpsertSurfaces(r)
  BY <1>1, <1>3, <1>9 DEF UpsertSurfaces, Goto, ContentInv, Content,
     RowsInv, ValidInv, PresentInv, RowsRead, RowsStaged, Writing, Holding
<1>10. CASE InsertOperation(r)
  BY <1>1, <1>3, <1>10 DEF InsertOperation, Goto, ContentInv, Content,
     RowsInv, ValidInv, PresentInv, RowsRead, RowsStaged, Writing, Holding
<1>11. CASE InsertUpdates(r)
  <2>1. pc[r] = "insertUpdates" /\ pc' = [pc EXCEPT ![r] = "commit"]
    BY <1>11 DEF InsertUpdates, Goto
  <2>2. txn[r].op \in Operation /\ Touches[txn[r].op] \subseteq Surface
    BY <1>3, <2>1, TouchesAssumption DEF ContentInv, Content, OrderInv, Carrying
  <2>3. \A s \in Touches[txn[r].op] : Revisions(r)[s] = surfaces[s].revision + 1
    <3>1. \A s \in Touches[txn[r].op] : txn[r].rows[s] = NextRow(surfaces[s], txn[r].op)
      BY <2>1, <2>2 DEF ContentInv, Content, RowsInv, RowsStaged
    <3>2. QED
      BY <2>2, <3>1, RowFields DEF Revisions
  <2>4. txn'[r].rows = txn[r].rows /\ txn'[r].inserted =
          {[surfaceId |-> s, revision |-> Revisions(r)[s], operationId |-> txn[r].op] :
             s \in Touches[txn[r].op]}
    BY <1>3, <1>11 DEF InsertUpdates, ContentInv, Content, OrderInv, TypeOK
  <2>5. txn'[r].inserted =
          {[surfaceId |-> s, revision |-> surfaces[s].revision + 1, operationId |-> txn[r].op] :
             s \in Touches[txn[r].op]}
    BY <2>3, <2>4
  <2>6. RowsInv'
    BY <1>1, <1>3, <2>1, <2>4, <2>5 DEF ContentInv, Content, RowsInv, RowsRead, RowsStaged
  <2>7. ValidInv' /\ PresentInv'
    BY <1>1, <1>3, <2>1 DEF ContentInv, Content, ValidInv, PresentInv, Writing, Holding
  <2>8. QED
    BY <2>6, <2>7
<1>12. QED
  BY <1>4, <1>5, <1>6, <1>7, <1>8, <1>9, <1>10, <1>11 DEF Step

\* The COMMIT of the holder r: every table moves one operation forward.
LEMMA CommitStep ==
  ASSUME ContentInv, NEW r \in Request, Commit(r)
  PROVE  /\ StateInv' /\ RowsInv' /\ ValidInv' /\ PresentInv'
         /\ SurfaceIsItsUpdates' /\ JournalReplays'
<1> DEFINE op == txn[r].op
<1>1. /\ TypeOK
      /\ pc[r] = "commit"
      /\ Settle(r, "committed", Revisions(r))
      /\ surfaces' = [s \in Surface |-> IF s \in Touches[op] THEN txn[r].rows[s] ELSE surfaces[s]]
      /\ updates' = updates \cup txn[r].inserted
      /\ UNCHANGED present
  BY DEF ContentInv, Content, OrderInv, Commit
<1>2. /\ DOMAIN journal = 1..Len(journal) /\ Len(journal) \in Nat
      /\ DOMAIN journal' = 1..(Len(journal) + 1)
      /\ \A i \in DOMAIN journal : journal'[i] = journal[i]
      /\ journal'[Len(journal) + 1].operationId = op
  BY <1>1, CommitAppends, Zenon
<1>3. op \in Operation /\ Touches[op] \subseteq Surface
  BY <1>1, TouchesAssumption DEF ContentInv, Content, OrderInv, Carrying
<1>4. Committed' = Committed \cup {op}
  <2>1. \A k \in DOMAIN journal' : k \in DOMAIN journal \/ k = Len(journal) + 1
    BY <1>2
  <2>2. DOMAIN journal \subseteq DOMAIN journal' /\ Len(journal) + 1 \in DOMAIN journal'
    BY <1>2
  <2>3. QED
    BY <1>2, <2>1, <2>2 DEF Committed
<1>5. op \notin Committed /\ Admissible(op, Committed)
  BY <1>1 DEF ContentInv, Content, OrderInv, Once, ValidInv, Writing, Committed
<1>6. \A s \in Surface :
        surfaces'[s] = IF s \in Touches[op] THEN NextRow(surfaces[s], op) ELSE surfaces[s]
  BY <1>1 DEF ContentInv, Content, RowsInv, RowsStaged
<1>7. StateInv'
  <2>1. ASSUME NEW s \in Surface
        PROVE  surfaces'[s].state = {o \in Committed' : s \in Touches[o]}
    <3>1. surfaces[s].state = {o \in Committed : s \in Touches[o]}
      BY DEF ContentInv, Content, StateInv
    <3>2. CASE s \in Touches[op]
      BY <1>4, <1>6, <3>1, <3>2, RowFields
    <3>3. CASE s \notin Touches[op]
      BY <1>4, <1>6, <3>1, <3>3
    <3>4. QED
      BY <3>2, <3>3
  <2>2. QED
    BY <2>1 DEF StateInv
<1>8. \A q \in Request : pc'[q] \notin Holding
  <2>1. \A q \in Request : q # r => pc[q] \notin Holding
    BY <1>1 DEF ContentInv, Content, OrderInv, Exclusion, Holding
  <2>2. QED
    <3>1. pc' = [pc EXCEPT ![r] = "answered"]
      BY <1>1, SettleControl
    <3>2. QED
      BY <1>1, <2>1, <3>1 DEF TypeOK, Holding
<1>9. RowsInv' /\ ValidInv'
  BY <1>8 DEF RowsInv, ValidInv, RowsRead, RowsStaged, Writing, Holding
<1>10. PresentInv'
  <2>1. present
    BY <1>1 DEF ContentInv, Content, PresentInv, Holding
  <2>2. QED
    BY <1>1, <1>8, <2>1 DEF PresentInv, ErasedLeavesNothing
<1>11. JournalReplays'
  <2>1. ASSUME NEW i \in DOMAIN journal
        PROVE  /\ journal'[i].operationId = journal[i].operationId
               /\ {journal'[j].operationId : j \in 1..(i - 1)}
                    = {journal[j].operationId : j \in 1..(i - 1)}
    <3>1. \A j \in 1..(i - 1) : j \in DOMAIN journal /\ journal'[j] = journal[j]
      BY <1>2
    <3>2. QED
      BY <1>2, <3>1
  <2>2. {journal'[j].operationId : j \in 1..((Len(journal) + 1) - 1)} = Committed
    <3>1. 1..((Len(journal) + 1) - 1) = DOMAIN journal
      BY <1>2
    <3>2. QED
      BY <1>2, <3>1 DEF Committed
  <2>3. ASSUME NEW i \in DOMAIN journal'
        PROVE  Admissible(journal'[i].operationId, {journal'[j].operationId : j \in 1..(i - 1)})
    <3>1. CASE i \in DOMAIN journal
      BY <2>1, <3>1 DEF ContentInv, Content, JournalReplays
    <3>2. CASE i = Len(journal) + 1
      BY <1>2, <1>5, <2>2, <3>2
    <3>3. QED
      BY <1>2, <3>1, <3>2
  <2>4. QED
    BY <2>3 DEF JournalReplays
<1>12. SurfaceIsItsUpdates'
  <2>0. \A s \in Surface : surfaces[s].revision \in Nat
    BY <1>1 DEF TypeOK, Row
  <2>1. updates' = updates \cup
          {[surfaceId |-> s, revision |-> surfaces[s].revision + 1, operationId |-> op] :
             s \in Touches[op]}
    BY <1>1 DEF ContentInv, Content, RowsInv
  <2>2. ASSUME NEW s \in Surface, s \in Touches[op]
        PROVE  LET mine == {u \in updates' : u.surfaceId = s}
               IN /\ surfaces'[s].state = {u.operationId : u \in mine}
                  /\ {u.revision : u \in mine} = 1..surfaces'[s].revision
                  /\ \A u, v \in mine : u.revision = v.revision => u = v
    <3> DEFINE new == [surfaceId |-> s, revision |-> surfaces[s].revision + 1, operationId |-> op]
               old == {u \in updates : u.surfaceId = s}
               mine == {u \in updates' : u.surfaceId = s}
    <3>1. mine = old \cup {new}
      BY <2>1, <2>2
    <3>2. /\ surfaces'[s].state = surfaces[s].state \cup {op}
          /\ surfaces'[s].revision = surfaces[s].revision + 1
      BY <1>6, <2>2, RowFields
    <3>3. /\ surfaces[s].state = {u.operationId : u \in old}
          /\ {u.revision : u \in old} = 1..surfaces[s].revision
          /\ \A u, v \in old : u.revision = v.revision => u = v
      BY DEF ContentInv, Content, SurfaceIsItsUpdates
    <3>. new.operationId = op /\ new.revision = surfaces[s].revision + 1
      OBVIOUS
    <3>. HIDE DEF new, old, mine
    <3>4. {u.operationId : u \in mine} = {u.operationId : u \in old} \cup {op}
      BY <3>1
    <3>5. {u.revision : u \in mine} = {u.revision : u \in old} \cup {surfaces[s].revision + 1}
      BY <3>1
    <3>6. (1..surfaces[s].revision) \cup {surfaces[s].revision + 1} = 1..(surfaces[s].revision + 1)
      BY <2>0
    <3>7. \A u \in old : u.revision # new.revision
      <4>1. \A u \in old : u.revision \in 1..surfaces[s].revision
        BY <3>3
      <4>2. QED
        BY <2>0, <4>1
    <3>8. \A u, v \in mine : u.revision = v.revision => u = v
      BY <3>1, <3>3, <3>7
    <3>9. QED
      BY <3>2, <3>3, <3>4, <3>5, <3>6, <3>8 DEF mine
  <2>3. ASSUME NEW s \in Surface, s \notin Touches[op]
        PROVE  /\ {u \in updates' : u.surfaceId = s} = {u \in updates : u.surfaceId = s}
               /\ surfaces'[s] = surfaces[s]
    BY <1>6, <2>1, <2>3
  <2>4. QED
    BY <2>2, <2>3 DEF ContentInv, Content, SurfaceIsItsUpdates
<1>13. QED
  BY <1>7, <1>9, <1>10, <1>11, <1>12

LEMMA ContentStep ==
  ASSUME ContentInv, [Next]_vars
  PROVE  ContentInv'
<1>0. OrderInv'
  BY TypeStep, ExclusionStep, CarryingStep, OnceStep, SequencedStep DEF ContentInv, Content, OrderInv
<1> SUFFICES Content'
  BY <1>0 DEF ContentInv
<1>1. ASSUME NEW r \in Request, NEW op \in Operation, Submit(r, op)
      PROVE  Content'
  <2>1. UNCHANGED tables
    BY <1>1 DEF Submit
  <2>2. /\ pc'[r] = "findOperation"
        /\ \A q \in Request \ {r} : pc'[q] = pc[q] /\ txn'[q] = txn[q]
    BY <1>1 DEF Submit, Goto, ContentInv, Content, OrderInv, TypeOK
  <2>3. RowsInv'
    BY <2>1, <2>2 DEF ContentInv, Content, RowsInv, RowsRead, RowsStaged, tables
  <2>4. ValidInv'
    BY <2>1, <2>2, QuietStep DEF ContentInv, Content, ValidInv, Writing
  <2>5. PresentInv'
    BY <2>1, <2>2, QuietStep DEF ContentInv, Content, PresentInv, Holding, tables
  <2>6. QED
    BY <2>1, <2>3, <2>4, <2>5, QuietStep DEF Content
<1>2. ASSUME NEW r \in Request, Step(r)
      PROVE  Content'
  <2>1. CASE Commit(r)
    BY <2>1, CommitStep DEF Content
  <2>2. CASE ~Commit(r)
    BY <1>2, <2>2, HolderStep, TablesStep, QuietStep DEF Content
  <2>3. QED
    BY <2>1, <2>2
<1>3. ASSUME NEW r \in Request, Abort(r)
      PROVE  Content'
  <2>1. UNCHANGED tables /\ Settle(r, "failed", NoRevisions)
    BY <1>3 DEF Abort
  <2>2. QED
    BY <2>1, QuietSettle, QuietStep DEF Content
<1>4. CASE Crash
  <2>1. UNCHANGED tables
    BY <1>4 DEF Crash
  <2>2. \A q \in Request : pc'[q] \notin Running
    BY <1>4 DEF Crash, Running, Unlocked, Holding
  <2>3. RowsInv' /\ ValidInv'
    BY <2>2 DEF RowsInv, ValidInv, RowsRead, RowsStaged, Writing, Running, Holding
  <2>4. PresentInv'
    BY <2>1, <2>2, QuietStep DEF PresentInv, Running
  <2>5. QED
    BY <2>1, <2>3, <2>4, QuietStep DEF Content
<1>5. CASE Erase
  <2>1. \A q \in Request : pc'[q] \notin Holding
    BY <1>5, NoRequestAssumption DEF Erase, ContentInv, Content, OrderInv, Exclusion
  <2>2. surfaces' = NoRows /\ journal' = <<>> /\ updates' = {} /\ present' = FALSE
    BY <1>5 DEF Erase
  <2>3. RowsInv' /\ ValidInv'
    BY <2>1 DEF RowsInv, ValidInv, RowsRead, RowsStaged, Writing, Holding
  <2>4. PresentInv'
    BY <2>1, <2>2 DEF PresentInv, ErasedLeavesNothing
  <2>5. Committed' = {}
    BY <2>2 DEF Committed
  <2>6. \A s \in Surface : surfaces'[s].state = {} /\ surfaces'[s].revision = 0
    BY <2>2, RowFields DEF NoRows
  <2>7. StateInv'
    BY <2>5, <2>6 DEF StateInv
  <2>8. SurfaceIsItsUpdates'
    BY <2>2, <2>6 DEF SurfaceIsItsUpdates
  <2>9. JournalReplays'
    BY <2>2 DEF JournalReplays
  <2>10. QED
    BY <2>3, <2>4, <2>7, <2>8, <2>9 DEF Content
<1>6. CASE ReadSurfaces \/ ReadCursor \/ UNCHANGED vars
  <2>1. UNCHANGED tables /\ pc' = pc /\ txn' = txn
    BY <1>6 DEF ReadSurfaces, ReadCursor, vars
  <2>2. surfaces' = surfaces /\ present' = present
    BY <2>1 DEF tables
  <2>3. RowsInv'
    BY <2>1, <2>2 DEF ContentInv, Content, RowsInv
  <2>4. ValidInv' /\ PresentInv'
    BY <2>1, <2>2, QuietStep DEF ContentInv, Content, ValidInv, PresentInv
  <2>5. QED
    BY <2>1, <2>3, <2>4, QuietStep DEF Content
<1>7. QED
  BY <1>1, <1>2, <1>3, <1>4, <1>5, <1>6 DEF Next

LEMMA ContentInit == Init => ContentInv
<1> SUFFICES ASSUME Init PROVE ContentInv
  OBVIOUS
<1>1. OrderInv
  BY OrderInit
<1>2. \A r \in Request : pc[r] = "idle"
  BY DEF Init
<1>3. RowsInv /\ ValidInv /\ PresentInv
  BY <1>2 DEF Init, RowsInv, ValidInv, PresentInv, ErasedLeavesNothing, RowsRead, RowsStaged,
              Writing, Holding
<1>4. Committed = {} /\ \A s \in Surface : surfaces[s].state = {} /\ surfaces[s].revision = 0
  BY RowFields DEF Init, NoRows, Committed
<1>5. StateInv /\ SurfaceIsItsUpdates /\ JournalReplays
  BY <1>4 DEF Init, StateInv, SurfaceIsItsUpdates, JournalReplays
<1>6. QED
  BY <1>1, <1>3, <1>5 DEF ContentInv, Content

LEMMA ContentAlways == Spec => []ContentInv
  BY ContentInit, ContentStep, PTL DEF Spec

\* The state and the revision of a surface are those of its recorded updates:
\* no commit overwrites another's.
THEOREM NoLostUpdate == Spec => []SurfaceIsItsUpdates
<1>1. ContentInv => SurfaceIsItsUpdates
  BY DEF ContentInv, Content
<1>2. QED
  BY <1>1, ContentAlways, PTL

\* Every committed operation was valid on the operations before it.
THEOREM Replayable == Spec => []JournalReplays
<1>1. ContentInv => JournalReplays
  BY DEF ContentInv, Content
<1>2. QED
  BY <1>1, ContentAlways, PTL

\* No row of a deleted workspace is left or written again.
THEOREM DeletionComplete == Spec => []ErasedLeavesNothing
<1>1. ContentInv => ErasedLeavesNothing
  BY DEF ContentInv, Content, PresentInv
<1>2. QED
  BY <1>1, ContentAlways, PTL

-----------------------------------------------------------------------------
(***************************************************************************)
(* OperationJournal implements OperationLog, and a state answer is one     *)
(* snapshot.  A call takes effect where it settles: a COMMIT is the        *)
(* acceptance, and the receipt it computed from the rows it read is the    *)
(* one that counts the accepted operations.                                *)
(***************************************************************************)

\* The entries up to the n-th that touch a surface.
Touching(entries, n, s) == {i \in 1..n : s \in Touches[entries[i].operationId]}

\* A revision counts the operations of its surface.
RevisionsCount ==
  \A s \in Surface : surfaces[s].revision = Cardinality(Touching(journal, Len(journal), s))

\* A stored receipt is the count at its place in the journal.
ReceiptsCount ==
  \A i \in DOMAIN journal : journal[i].revision =
    [s \in Surface |-> IF s \in Touches[journal[i].operationId]
                       THEN Cardinality(Touching(journal, i, s)) ELSE 0]

\* A call has no answer until it settles.
Pending == \A r \in Request :
  /\ pc[r] = "idle" => txn[r].op = NoOperation
  /\ pc[r] # "answered" => txn[r].answer = Unanswered

\* The rows a reader has are those of its snapshot, and the snapshot is a
\* beginning of the journal as long as the workspace is there.
SnapshotInv ==
  reader.pc # "idle" =>
    /\ \A s \in Surface : reader.surfaces[s].state =
         {reader.snapshot[i].operationId : i \in
            {k \in DOMAIN reader.snapshot : s \in Touches[reader.snapshot[k].operationId]}}
    /\ present => /\ Len(reader.snapshot) <= Len(journal)
                  /\ \A i \in DOMAIN reader.snapshot : reader.snapshot[i] = journal[i]
    /\ reader.pc = "done" => reader.cursor = MaxSequence(reader.snapshot)

LinearInv == ContentInv /\ RevisionsCount /\ ReceiptsCount /\ Pending /\ SnapshotInv

-----------------------------------------------------------------------------
LEMMA TouchingIsFinite ==
  ASSUME NEW entries, NEW n \in Nat, NEW s
  PROVE  /\ IsFiniteSet(Touching(entries, n, s))
         /\ Cardinality(Touching(entries, n, s)) \in Nat
         /\ n + 1 \notin Touching(entries, n, s)
<1>1. IsFiniteSet(1..n)
  BY FS_Interval
<1>2. Touching(entries, n, s) \in SUBSET (1..n)
  BY DEF Touching
<1>3. IsFiniteSet(Touching(entries, n, s))
  BY <1>1, <1>2, FS_Subset
<1>4. n + 1 \notin Touching(entries, n, s)
  BY DEF Touching
<1>5. QED
  BY <1>3, <1>4, FS_CardinalityType

\* A COMMIT leaves the counts up to earlier entries as they were, and adds one
\* to those of the surfaces it touches.
LEMMA CommitCounts ==
  ASSUME TypeOK, NEW r \in Request, Commit(r)
  PROVE  /\ \A n \in 0..Len(journal), s \in Surface : Touching(journal', n, s) = Touching(journal, n, s)
         /\ \A s \in Surface : Cardinality(Touching(journal', Len(journal) + 1, s)) =
              IF s \in Touches[txn[r].op] THEN Cardinality(Touching(journal, Len(journal), s)) + 1
              ELSE Cardinality(Touching(journal, Len(journal), s))
<1>1. /\ DOMAIN journal = 1..Len(journal) /\ Len(journal) \in Nat
      /\ DOMAIN journal' = 1..(Len(journal) + 1)
      /\ \A i \in DOMAIN journal : journal'[i] = journal[i]
      /\ journal'[Len(journal) + 1].operationId = txn[r].op
  BY CommitAppends
<1>2. ASSUME NEW n \in 0..Len(journal), NEW s \in Surface
      PROVE  Touching(journal', n, s) = Touching(journal, n, s)
  <2>1. \A i \in 1..n : journal'[i] = journal[i]
    BY <1>1
  <2>2. QED
    BY <2>1 DEF Touching
<1>3. ASSUME NEW s \in Surface
      PROVE  Cardinality(Touching(journal', Len(journal) + 1, s)) =
               IF s \in Touches[txn[r].op] THEN Cardinality(Touching(journal, Len(journal), s)) + 1
               ELSE Cardinality(Touching(journal, Len(journal), s))
  <2> DEFINE n == Len(journal)
             old == Touching(journal, n, s)
  <2>1. IsFiniteSet(old) /\ n + 1 \notin old
    BY <1>1, TouchingIsFinite
  <2>2. 1..(n + 1) = (1..n) \cup {n + 1} /\ \A i \in 1..n : journal'[i] = journal[i]
    BY <1>1
  <2>3. journal'[n + 1].operationId = txn[r].op
    BY <1>1
  <2>4. Touching(journal', n + 1, s) = IF s \in Touches[txn[r].op] THEN old \cup {n + 1} ELSE old
    BY <2>2, <2>3 DEF Touching
  <2> HIDE DEF n, old
  <2>5. QED
    BY <2>1, <2>4, FS_AddElement DEF n, old
<1>4. QED
  BY <1>2, <1>3

-----------------------------------------------------------------------------
\* A step that neither commits nor deletes changes no count.
LEMMA QuietCounts ==
  ASSUME RevisionsCount, ReceiptsCount, UNCHANGED tables
  PROVE  RevisionsCount' /\ ReceiptsCount'
  BY DEF RevisionsCount, ReceiptsCount, Touching, tables

LEMMA CommitKeepsCounts ==
  ASSUME ContentInv, RevisionsCount, ReceiptsCount, NEW r \in Request, Commit(r)
  PROVE  /\ RevisionsCount' /\ ReceiptsCount'
         /\ Revisions(r) = [s \in Surface |-> IF s \in Touches[txn[r].op]
                              THEN Cardinality(Touching(journal', Len(journal) + 1, s)) ELSE 0]
<1> DEFINE op == txn[r].op
           n == Len(journal)
<1>1. TypeOK /\ pc[r] = "commit"
  BY DEF ContentInv, OrderInv, Commit
<1>2. /\ DOMAIN journal = 1..n /\ n \in Nat
      /\ DOMAIN journal' = 1..(n + 1)
      /\ \A i \in DOMAIN journal : journal'[i] = journal[i]
      /\ journal'[n + 1].operationId = op /\ journal'[n + 1].revision = Revisions(r)
      /\ Len(journal') = n + 1
  <2>1. journal' = Append(journal, [sequence |-> txn[r].sequence, operationId |-> op,
                                    revision |-> Revisions(r)])
    BY DEF Commit
  <2>2. journal \in Seq(Entry)
    BY <1>1 DEF TypeOK
  <2>3. QED
    BY <2>1, <2>2
<1>3. \A s \in Surface :
        txn[r].rows[s] = IF s \in Touches[op] THEN NextRow(surfaces[s], op) ELSE NoRow
  BY <1>1 DEF ContentInv, Content, RowsInv, RowsStaged
<1>4. \A s \in Surface :
        surfaces'[s] = IF s \in Touches[op] THEN NextRow(surfaces[s], op) ELSE surfaces[s]
  BY <1>3 DEF Commit
<1>5. \A s \in Surface : surfaces[s].revision = Cardinality(Touching(journal, n, s))
  BY DEF RevisionsCount
<1>6. \A s \in Surface : Cardinality(Touching(journal', n + 1, s)) =
        IF s \in Touches[op] THEN surfaces[s].revision + 1 ELSE surfaces[s].revision
  BY <1>1, <1>5, CommitCounts
<1>7. RevisionsCount'
  BY <1>2, <1>4, <1>6, RowFields DEF RevisionsCount
<1>8. Revisions(r) = [s \in Surface |-> IF s \in Touches[op]
                        THEN Cardinality(Touching(journal', n + 1, s)) ELSE 0]
  BY <1>3, <1>6, RowFields DEF Revisions
<1>9. ReceiptsCount'
  <2> SUFFICES ASSUME NEW i \in DOMAIN journal'
               PROVE  journal'[i].revision =
                        [s \in Surface |-> IF s \in Touches[journal'[i].operationId]
                                           THEN Cardinality(Touching(journal', i, s)) ELSE 0]
    BY DEF ReceiptsCount
  <2>1. CASE i = n + 1
    BY <1>2, <1>8, <2>1
  <2>2. CASE i \in DOMAIN journal
    <3>1. i \in 0..n /\ journal'[i] = journal[i]
      BY <1>2, <2>2
    <3>2. \A s \in Surface : Touching(journal', i, s) = Touching(journal, i, s)
      BY <1>1, <3>1, CommitCounts
    <3>3. QED
      BY <2>2, <3>1, <3>2 DEF ReceiptsCount
  <2>3. QED
    BY <1>2, <2>1, <2>2
<1>10. QED
  BY <1>7, <1>8, <1>9

LEMMA CountsStep ==
  ASSUME ContentInv, RevisionsCount, ReceiptsCount, [Next]_vars
  PROVE  RevisionsCount' /\ ReceiptsCount'
<1>1. ASSUME NEW r \in Request, Step(r)
      PROVE  RevisionsCount' /\ ReceiptsCount'
  BY <1>1, TablesStep, QuietCounts, CommitKeepsCounts
<1>2. CASE Erase
  <2>1. surfaces' = NoRows /\ journal' = <<>>
    BY <1>2 DEF Erase
  <2>2. Len(journal') = 0 /\ \A s \in Surface : Touching(journal', 0, s) = {}
    BY <2>1 DEF Touching
  <2>3. \A s \in Surface : surfaces'[s].revision = 0
    BY <2>1, RowFields DEF NoRows
  <2>4. RevisionsCount'
    BY <2>2, <2>3, FS_EmptySet DEF RevisionsCount
  <2>5. ReceiptsCount'
    BY <2>1 DEF ReceiptsCount
  <2>6. QED
    BY <2>4, <2>5
<1>3. CASE \/ \E r \in Request : (\E op \in Operation : Submit(r, op)) \/ Abort(r)
           \/ Crash \/ ReadSurfaces \/ ReadCursor \/ UNCHANGED vars
  <2>1. UNCHANGED tables
    BY <1>3 DEF Submit, Abort, Crash, ReadSurfaces, ReadCursor, vars
  <2>2. QED
    BY <2>1, QuietCounts
<1>4. QED
  BY <1>1, <1>2, <1>3 DEF Next

-----------------------------------------------------------------------------
LEMMA PendingStep ==
  ASSUME ContentInv, Pending, [Next]_vars
  PROVE  Pending'
<1>1. /\ TypeOK /\ DOMAIN pc = Request /\ DOMAIN txn = Request
      /\ \A r \in Request : pc[r] # "answered" => txn[r].answer = Unanswered
      /\ \A r \in Request : pc[r] = "idle" => txn[r].op = NoOperation
  BY DEF ContentInv, OrderInv, TypeOK, Pending
<1>2. ASSUME NEW r \in Request, NEW op \in Operation, Submit(r, op)
      PROVE  Pending'
  <2>1. /\ pc'[r] = "findOperation" /\ txn'[r].answer = Unanswered
        /\ \A q \in Request \ {r} : pc'[q] = pc[q] /\ txn'[q] = txn[q]
    BY <1>1, <1>2 DEF Submit, Goto, ContentInv, OrderInv, TypeOK
  <2>2. QED
    BY <1>1, <2>1 DEF Pending
<1>3. ASSUME NEW r \in Request, Step(r)
      PROVE  Pending'
  <2>1. /\ \A q \in Request \ {r} : pc'[q] = pc[q] /\ txn'[q] = txn[q]
        /\ pc[r] \in Running
    BY <1>1, <1>3, StepControl
  <2>2. pc'[r] = "answered" \/ (pc'[r] # "idle" /\ txn'[r].answer = txn[r].answer)
    <3>1. ASSUME NEW kind, NEW revision, Settle(r, kind, revision)
          PROVE  pc'[r] = "answered"
      BY <1>1, <3>1 DEF Settle, Goto
    <3>2. \A l : Goto(r, l) => pc'[r] = l
      BY <1>1 DEF Goto
    <3>3. CASE FindOperation(r) \/ LockWorkspace(r) \/ Recheck(r) \/ Validate(r) \/ Commit(r)
      BY <3>1, <3>2, <3>3 DEF FindOperation, LockWorkspace, Recheck, Validate, Commit, AnswerDuplicate
    <3>4. CASE LockSurfaces(r) \/ UpsertSurfaces(r) \/ InsertOperation(r) \/ InsertUpdates(r)
      <4>1. pc'[r] # "idle"
        BY <3>2, <3>4 DEF LockSurfaces, UpsertSurfaces, InsertOperation, InsertUpdates
      <4>2. txn'[r].answer = txn[r].answer
        BY <1>1, <3>4 DEF LockSurfaces, UpsertSurfaces, InsertOperation, InsertUpdates, TypeOK
      <4>3. QED
        BY <4>1, <4>2
    <3>5. QED
      BY <1>3, <3>3, <3>4 DEF Step
  <2>3. pc[r] # "answered"
    BY <2>1 DEF Running, Unlocked, Holding
  <2>4. QED
    BY <1>1, <2>1, <2>2, <2>3 DEF Pending
<1>4. ASSUME NEW r \in Request, Abort(r)
      PROVE  Pending'
  <2>1. /\ pc'[r] = "answered"
        /\ \A q \in Request \ {r} : pc'[q] = pc[q] /\ txn'[q] = txn[q]
    BY <1>1, <1>4 DEF Abort, Settle, Goto, TypeOK
  <2>2. QED
    BY <1>1, <2>1 DEF Pending
<1>5. CASE Crash
  <2>1. \A q \in Request : pc'[q] = "answered" \/ (pc'[q] = pc[q] /\ txn'[q] = txn[q])
    BY <1>5 DEF Crash
  <2>2. QED
    BY <1>1, <2>1 DEF Pending
<1>6. CASE Erase \/ ReadSurfaces \/ ReadCursor \/ UNCHANGED vars
  BY <1>1, <1>6 DEF Erase, ReadSurfaces, ReadCursor, vars, Pending
<1>7. QED
  BY <1>2, <1>3, <1>4, <1>5, <1>6 DEF Next

-----------------------------------------------------------------------------
\* A snapshot stays a beginning of the journal: entries are only appended.
LEMMA SnapshotStep ==
  ASSUME ContentInv, SnapshotInv, [Next]_vars
  PROVE  SnapshotInv'
<1>1. TypeOK /\ StateInv
  BY DEF ContentInv, Content, OrderInv
<1>2. ASSUME UNCHANGED <<present, journal, reader>> PROVE SnapshotInv'
  BY <1>2 DEF SnapshotInv
<1>3. ASSUME NEW r \in Request, Step(r)
      PROVE  SnapshotInv'
  <2>1. UNCHANGED <<present, reader>>
    BY <1>3 DEF Step, FindOperation, LockWorkspace, LockSurfaces, Recheck, Validate,
       UpsertSurfaces, InsertOperation, InsertUpdates, Commit, tables
  <2>2. CASE UNCHANGED tables
    BY <1>2, <2>1, <2>2 DEF tables
  <2>3. CASE Commit(r)
    <3>1. /\ \A i \in DOMAIN journal : journal'[i] = journal[i]
          /\ Len(journal') = Len(journal) + 1 /\ Len(journal) \in Nat
          /\ DOMAIN journal = 1..Len(journal)
      BY <1>1, <2>3, CommitAppends DEF Commit, TypeOK
    <3>2. reader.snapshot \in Seq(Entry)
      BY <1>1 DEF TypeOK
    <3>3. Len(reader.snapshot) \in Nat /\ DOMAIN reader.snapshot = 1..Len(reader.snapshot)
      BY <3>2
    <3>4. ASSUME present, reader.pc # "idle"
          PROVE  /\ Len(reader.snapshot) <= Len(journal')
                 /\ \A i \in DOMAIN reader.snapshot : reader.snapshot[i] = journal'[i]
      <4>1. /\ Len(reader.snapshot) <= Len(journal)
            /\ \A i \in DOMAIN reader.snapshot : reader.snapshot[i] = journal[i]
        BY <3>4 DEF SnapshotInv
      <4>2. \A i \in DOMAIN reader.snapshot : i \in DOMAIN journal
        BY <3>1, <3>3, <4>1
      <4>3. QED
        BY <3>1, <3>3, <4>1, <4>2
    <3>5. QED
      BY <2>1, <3>4 DEF SnapshotInv
  <2>4. QED
    BY <1>3, <2>2, <2>3, TablesStep
<1>4. ASSUME NEW r \in Request, (\E op \in Operation : Submit(r, op)) \/ Abort(r)
      PROVE  SnapshotInv'
  BY <1>2, <1>4 DEF Submit, Abort, tables
<1>5. CASE Crash
  BY <1>5 DEF Crash, SnapshotInv, IdleReader
<1>6. CASE Erase
  BY <1>6 DEF Erase, SnapshotInv
<1>7. CASE ReadSurfaces
  <2>1. /\ reader' = [pc |-> "readCursor", surfaces |-> surfaces, snapshot |-> journal, cursor |-> 0]
        /\ UNCHANGED <<journal, present>>
    BY <1>7 DEF ReadSurfaces, tables
  <2>2. \A s \in Surface : surfaces[s].state =
          {journal[i].operationId : i \in
             {k \in DOMAIN journal : s \in Touches[journal[k].operationId]}}
    BY <1>1 DEF StateInv, Committed
  <2>3. Len(journal) \in Nat
    BY <1>1 DEF TypeOK
  <2>4. QED
    BY <2>1, <2>2, <2>3 DEF SnapshotInv
<1>8. CASE ReadCursor
  <2>1. /\ reader.pc = "readCursor" /\ UNCHANGED <<journal, present>>
        /\ reader' = [reader EXCEPT !.pc = "done", !.cursor = MaxSequence(reader.snapshot)]
    BY <1>8 DEF ReadCursor, tables
  <2>2. /\ reader'.pc = "done" /\ reader'.cursor = MaxSequence(reader.snapshot)
        /\ reader'.snapshot = reader.snapshot /\ reader'.surfaces = reader.surfaces
    BY <1>1, <2>1 DEF TypeOK
  <2>3. QED
    BY <2>1, <2>2 DEF SnapshotInv
<1>9. CASE UNCHANGED vars
  BY <1>2, <1>9 DEF vars, tables
<1>10. QED
  BY <1>3, <1>4, <1>5, <1>6, <1>7, <1>8, <1>9 DEF Next

LEMMA LinearInit == Init => LinearInv
<1> SUFFICES ASSUME Init PROVE LinearInv
  OBVIOUS
<1>1. ContentInv
  BY ContentInit
<1>2. journal = <<>> /\ \A s \in Surface : surfaces[s].revision = 0
  BY RowFields DEF Init, NoRows
<1>3. Len(journal) = 0 /\ \A s \in Surface : Touching(journal, 0, s) = {}
  BY <1>2 DEF Touching
<1>4. RevisionsCount /\ ReceiptsCount
  BY <1>2, <1>3, FS_EmptySet DEF RevisionsCount, ReceiptsCount
<1>5. Pending
  BY DEF Init, Pending, IdleTxn
<1>6. SnapshotInv
  BY DEF Init, SnapshotInv, IdleReader
<1>7. QED
  BY <1>1, <1>4, <1>5, <1>6 DEF LinearInv

LEMMA LinearAlways == Spec => []LinearInv
<1>1. LinearInv /\ [Next]_vars => LinearInv'
  BY ContentStep, CountsStep, PendingStep, SnapshotStep DEF LinearInv
<1>2. QED
  BY LinearInit, <1>1, PTL DEF Spec

\* The answer of readWorkspaceState is one snapshot: its surfaces hold the
\* operations with a sequence up to its cursor and no other, whatever commits
\* between its two SELECTs and after them.
THEOREM OneSnapshot == Spec => []SnapshotIsExact
<1>1. ASSUME LinearInv, reader.pc = "done", present, NEW s \in Surface
      PROVE  reader.surfaces[s].state =
               {journal[i].operationId : i \in {k \in DOMAIN journal :
                  journal[k].sequence <= reader.cursor /\ s \in Touches[journal[k].operationId]}}
  <2> DEFINE n == Len(reader.snapshot)
  <2>1. /\ \A k \in DOMAIN journal : journal[k] \in Entry
        /\ reader.snapshot \in Seq(Entry) /\ n \in Nat /\ DOMAIN reader.snapshot = 1..n
        /\ DOMAIN journal = 1..Len(journal) /\ Len(journal) \in Nat
        /\ Sorted(journal) /\ Sorted(reader.snapshot)
    BY <1>1 DEF LinearInv, ContentInv, OrderInv, TypeOK, Sequenced
  <2>2. /\ n <= Len(journal) /\ \A i \in 1..n : reader.snapshot[i] = journal[i]
        /\ reader.surfaces[s].state = {reader.snapshot[i].operationId : i \in
             {k \in 1..n : s \in Touches[reader.snapshot[k].operationId]}}
        /\ reader.cursor = MaxSequence(reader.snapshot)
    BY <1>1, <2>1 DEF LinearInv, SnapshotInv
  <2>3. reader.cursor = IF n = 0 THEN 0 ELSE journal[n].sequence
    <3>1. reader.snapshot = <<>> <=> n = 0
      BY <2>1
    <3>2. n # 0 => n \in 1..n
      BY <2>1
    <3>3. QED
      BY <2>1, <2>2, <3>1, <3>2, MaxSequenceSorted
  <2>4. \A k \in DOMAIN journal : journal[k].sequence \in Nat \ {0}
    BY <2>1 DEF Entry
  <2>5. ASSUME NEW k \in DOMAIN journal
        PROVE  journal[k].sequence <= reader.cursor <=> k \in 1..n
    <3>1. CASE n = 0
      BY <2>3, <2>4, <3>1
    <3>2. CASE n # 0
      <4>1. n \in DOMAIN journal /\ reader.cursor = journal[n].sequence
        BY <2>1, <2>2, <2>3, <3>2
      <4>2. CASE k < n
        BY <2>1, <2>4, <4>1, <4>2 DEF Sorted
      <4>3. CASE k = n
        BY <2>1, <2>4, <4>1, <4>3
      <4>4. CASE k > n
        <5>1. journal[n].sequence < journal[k].sequence
          BY <2>1, <4>1, <4>4 DEF Sorted
        <5>2. QED
          BY <2>1, <2>4, <4>1, <4>4, <5>1
      <4>5. QED
        BY <2>1, <4>2, <4>3, <4>4
    <3>3. QED
      BY <3>1, <3>2
  <2>6. 1..n \subseteq DOMAIN journal
    BY <2>1, <2>2
  <2>7. {k \in DOMAIN journal : journal[k].sequence <= reader.cursor /\ s \in Touches[journal[k].operationId]}
          = {k \in 1..n : s \in Touches[reader.snapshot[k].operationId]}
    BY <2>2, <2>5, <2>6
  <2>8. QED
    BY <2>2, <2>7
<1>2. LinearInv => SnapshotIsExact
  BY <1>1 DEF SnapshotIsExact
<1>3. QED
  BY <1>2, LinearAlways, PTL

-----------------------------------------------------------------------------
(***************************************************************************)
(* The refinement.  Accepted operations, submissions and answers, as the   *)
(* instance Log reads them from the variables.                             *)
(***************************************************************************)
Ops(entries) == [i \in DOMAIN entries |-> entries[i].operationId]
Carried(locals) == [r \in Request |-> locals[r].op]
Answers(locals) == [r \in Request |-> locals[r].answer]

\* The count that OperationLog makes of its log is the count in the journal.
LEMMA LogCounts ==
  ASSUME NEW entries, NEW n \in Nat, 1..n \subseteq DOMAIN entries, NEW s
  PROVE  Log!RevisionAfter(Ops(entries), n, s) = Cardinality(Touching(entries, n, s))
<1>1. \A i \in 1..n : Ops(entries)[i] = entries[i].operationId
  BY DEF Ops
<1>2. {i \in 1..n : s \in Touches[Ops(entries)[i]]} = Touching(entries, n, s)
  BY <1>1 DEF Touching
<1>3. QED
  BY <1>2 DEF Log!RevisionAfter, Log!Cardinality, Cardinality

\* A stored receipt is the receipt of OperationLog.
LEMMA LogReceipts ==
  ASSUME TypeOK, ReceiptsCount, NEW i \in DOMAIN journal
  PROVE  Log!ReceiptOf(Ops(journal), i) = journal[i].revision
<1>1. DOMAIN journal = 1..Len(journal) /\ Len(journal) \in Nat
  BY DEF TypeOK
<1>2. i \in Nat /\ 1..i \subseteq DOMAIN journal
  BY <1>1
<1>3. \A s \in Surface : Log!RevisionAfter(Ops(journal), i, s) = Cardinality(Touching(journal, i, s))
  BY <1>2, LogCounts
<1>4. Ops(journal)[i] = journal[i].operationId
  BY DEF Ops
<1>5. QED
  BY <1>3, <1>4 DEF Log!ReceiptOf, ReceiptsCount

LEMMA LogAccepted == Log!AcceptedSet = Committed
  BY DEF Log!AcceptedSet, Committed

\* A call that settles is answered, and nothing else changes for the log.
LEMMA SettleAnswers ==
  ASSUME TypeOK, NEW r \in Request, NEW kind, NEW revision, Settle(r, kind, revision)
  PROVE  /\ Carried(txn') = Carried(txn)
         /\ Answers(txn') = [Answers(txn) EXCEPT ![r] = [kind |-> kind, revision |-> revision]]
<1>1. DOMAIN txn = Request
  BY DEF TypeOK
<1>2. txn' = [txn EXCEPT ![r] = Settled(r, kind, revision)]
  BY DEF Settle
<1>3. /\ Settled(r, kind, revision).op = txn[r].op
      /\ Settled(r, kind, revision).answer = [kind |-> kind, revision |-> revision]
  BY DEF Settled, IdleTxn
<1>4. \A q \in Request : /\ txn'[q].op = txn[q].op
                         /\ txn'[q].answer = IF q = r THEN [kind |-> kind, revision |-> revision]
                                             ELSE txn[q].answer
  BY <1>1, <1>2, <1>3
<1>5. QED
  BY <1>4 DEF Carried, Answers

\* A call that is running waits for its answer.
LEMMA RunningWaits ==
  ASSUME LinearInv, NEW r \in Request, pc[r] \in Running
  PROVE  Log!Waiting(r)
<1>1. pc[r] # "idle" /\ pc[r] # "answered"
  BY DEF Running, Unlocked, Holding
<1>2. txn[r].op \in Operation /\ txn[r].answer = Unanswered
  BY <1>1 DEF LinearInv, ContentInv, OrderInv, Carrying, Pending
<1>3. QED
  BY <1>2 DEF Log!Waiting, Unanswered

LEMMA SubmitImplements ==
  ASSUME LinearInv, NEW r \in Request, NEW op \in Operation, Submit(r, op)
  PROVE  Log!Submitted(r, op)
<1>1. TypeOK /\ DOMAIN txn = Request /\ txn[r].op = NoOperation
  BY DEF LinearInv, ContentInv, OrderInv, TypeOK, Pending, Submit
<1>2. txn' = [txn EXCEPT ![r].op = op] /\ UNCHANGED <<journal, present>>
  BY DEF Submit, tables
<1>3. \A q \in Request : /\ txn'[q].op = IF q = r THEN op ELSE txn[q].op
                         /\ txn'[q].answer = txn[q].answer
  BY <1>1, <1>2 DEF TypeOK
<1>4. /\ Carried(txn)[r] = NoOperation
      /\ Carried(txn') = [Carried(txn) EXCEPT ![r] = op]
      /\ Answers(txn') = Answers(txn)
  BY <1>1, <1>3 DEF Carried, Answers
<1>5. QED
  BY <1>2, <1>4 DEF Log!Submitted, Carried, Answers

\* A COMMIT is the acceptance of its operation.
LEMMA CommitImplements ==
  ASSUME LinearInv, NEW r \in Request, Commit(r)
  PROVE  Log!Accepted(r)
<1> DEFINE op == txn[r].op
           n == Len(journal)
<1>1. /\ ContentInv /\ TypeOK /\ pc[r] = "commit" /\ UNCHANGED present
      /\ Settle(r, "committed", Revisions(r))
  BY DEF LinearInv, ContentInv, OrderInv, Commit
<1>2. Log!Waiting(r) /\ present
  BY <1>1, RunningWaits DEF Running, Holding, ContentInv, Content, PresentInv
<1>3. op \notin Committed /\ Admissible(op, Committed)
  BY <1>1 DEF ContentInv, OrderInv, Once, Content, ValidInv, Writing, Committed
<1>4. /\ journal' = Append(journal, [sequence |-> txn[r].sequence, operationId |-> op,
                                     revision |-> Revisions(r)])
      /\ DOMAIN journal = 1..n /\ n \in Nat /\ DOMAIN journal' = 1..(n + 1)
      /\ \A i \in DOMAIN journal : journal'[i] = journal[i]
      /\ journal'[n + 1].operationId = op
  BY <1>1, CommitAppends DEF Commit
<1>5. /\ Ops(journal) \in Seq(Operation) /\ Len(Ops(journal)) = n
      /\ Ops(journal') \in Seq(Operation) /\ Len(Ops(journal')) = n + 1
      /\ Ops(journal') = Append(Ops(journal), op)
  <2>1. op \in Operation /\ \A i \in DOMAIN journal : journal[i].operationId \in Operation
    <3>1. \A i \in DOMAIN journal : journal[i] \in Entry
      BY <1>1 DEF TypeOK
    <3>2. QED
      BY <1>1, <3>1 DEF ContentInv, OrderInv, Carrying, Entry
  <2>2. Ops(journal) \in Seq(Operation) /\ Len(Ops(journal)) = n
    BY <1>4, <2>1 DEF Ops
  <2>3. Ops(journal') = [i \in 1..(n + 1) |-> IF i \in 1..n THEN Ops(journal)[i] ELSE op]
    BY <1>4 DEF Ops
  <2> DEFINE old == Ops(journal)
             new == Ops(journal')
  <2> HIDE DEF n, op, old, new
  <2>4. new \in Seq(Operation) /\ Len(new) = n + 1
    BY <1>4, <2>1, <2>2, <2>3 DEF old, new
  <2>5. new = Append(old, op)
    BY <1>4, <2>1, <2>2, <2>3, <2>4 DEF old, new
  <2>6. QED
    BY <2>2, <2>4, <2>5 DEF n, op, old, new
<1>6. Log!ReceiptOf(Ops(journal'), n + 1) = Revisions(r)
  <2>1. \A s \in Surface : Log!RevisionAfter(Ops(journal'), n + 1, s)
                             = Cardinality(Touching(journal', n + 1, s))
    <3>1. n + 1 \in Nat /\ 1..(n + 1) \subseteq DOMAIN journal'
      BY <1>4
    <3> HIDE DEF n
    <3>2. QED
      BY <3>1, LogCounts
  <2>2. Revisions(r) = [s \in Surface |-> IF s \in Touches[op]
                          THEN Cardinality(Touching(journal', n + 1, s)) ELSE 0]
    BY <1>1, CommitKeepsCounts DEF LinearInv
  <2>3. Ops(journal')[n + 1] = op
    BY <1>4 DEF Ops
  <2>4. QED
    BY <2>1, <2>2, <2>3 DEF Log!ReceiptOf
<1>7. /\ Carried(txn') = Carried(txn)
      /\ Answers(txn') = [Answers(txn) EXCEPT ![r] =
           [kind |-> "committed", revision |-> Log!ReceiptOf(Ops(journal'), Len(Ops(journal')))]]
  BY <1>1, <1>5, <1>6, SettleAnswers
<1>8. Carried(txn)[r] = op
  BY DEF Carried
<1>9. QED
  BY <1>1, <1>2, <1>3, <1>5, <1>7, <1>8, LogAccepted DEF Log!Accepted, Log!Admissible,
     Log!AdmissibleOn, Admissible, AdmissibleOn, Ops, Carried, Answers

\* A duplicate gets the receipt of the accepted operation.
LEMMA DuplicateImplements ==
  ASSUME LinearInv, NEW r \in Request, pc[r] \in Running, Found(txn[r].op), AnswerDuplicate(r),
         UNCHANGED tables
  PROVE  Log!Repeated(r)
<1>1. TypeOK /\ ReceiptsCount /\ Log!Waiting(r)
  BY RunningWaits DEF LinearInv, ContentInv, OrderInv
<1>2. PICK i \in DOMAIN journal :
        journal[i].operationId = txn[r].op /\ EntryOf(txn[r].op) = journal[i]
  BY <1>1, FoundEntry
<1>3. /\ Carried(txn') = Carried(txn)
      /\ Answers(txn') = [Answers(txn) EXCEPT ![r] =
           [kind |-> "committed", revision |-> Log!ReceiptOf(Ops(journal), i)]]
  BY <1>1, <1>2, SettleAnswers, LogReceipts DEF AnswerDuplicate
<1>4. /\ DOMAIN Ops(journal) = DOMAIN journal /\ Ops(journal)[i] = Carried(txn)[r]
      /\ UNCHANGED <<journal, present>>
  BY <1>2 DEF Ops, Carried, tables
<1>5. QED
  BY <1>1, <1>3, <1>4 DEF Log!Repeated, Ops, Carried, Answers

LEMMA RejectionImplements ==
  ASSUME LinearInv, NEW r \in Request, pc[r] = "validate", ~Admissible(txn[r].op, Integrated(r)),
         Settle(r, "rejected", NoRevisions), UNCHANGED tables
  PROVE  Log!Rejected(r)
<1>1. TypeOK /\ present /\ Log!Waiting(r)
  BY RunningWaits DEF LinearInv, ContentInv, OrderInv, Content, PresentInv, Holding, Running
<1>2. ~Admissible(txn[r].op, Committed)
  BY LocalVerdict DEF LinearInv, ContentInv, Content
<1>3. txn[r].op \notin Committed
  BY DEF LinearInv, ContentInv, OrderInv, Once, Committed
<1>4. /\ Carried(txn') = Carried(txn)
      /\ Answers(txn') = [Answers(txn) EXCEPT ![r] =
           [kind |-> "rejected", revision |-> NoRevisions]]
  BY <1>1, SettleAnswers
<1>5. Carried(txn)[r] = txn[r].op /\ UNCHANGED <<journal, present>>
  BY DEF Carried, tables
<1>6. QED
  BY <1>1, <1>2, <1>3, <1>4, <1>5, LogAccepted DEF Log!Rejected, Log!Admissible, Log!AdmissibleOn,
     Admissible, AdmissibleOn, Log!NoRevisions, NoRevisions, Carried, Answers

LEMMA FailureImplements ==
  ASSUME LinearInv, NEW r \in Request, pc[r] \in Running,
         Settle(r, "failed", NoRevisions), UNCHANGED tables
  PROVE  Log!Failed({r})
<1>1. TypeOK /\ Log!Waiting(r)
  BY RunningWaits DEF LinearInv, ContentInv, OrderInv
<1>2. /\ Carried(txn') = Carried(txn)
      /\ Answers(txn') = [Answers(txn) EXCEPT ![r] = [kind |-> "failed", revision |-> NoRevisions]]
  BY <1>1, SettleAnswers
<1>3. Answers(txn') = [q \in Request |-> IF q \in {r}
        THEN [kind |-> "failed", revision |-> NoRevisions] ELSE Answers(txn)[q]]
  BY <1>2 DEF Answers
<1>4. UNCHANGED <<journal, present>>
  BY DEF tables
<1>5. QED
  BY <1>1, <1>2, <1>3, <1>4 DEF Log!Failed, Log!NoRevisions, NoRevisions, Carried, Answers

LEMMA CrashImplements ==
  ASSUME LinearInv, Crash
  PROVE  \E R \in SUBSET Request : Log!Failed(R)
<1>0. PICK R \in SUBSET Request : R = {r \in Request : pc[r] \in Running}
  OBVIOUS
<1>1. \A r \in R : Log!Waiting(r)
  BY <1>0, RunningWaits
<1>2. \A r \in Request : /\ txn'[r].op = txn[r].op
                         /\ txn'[r].answer = IF r \in R
                              THEN [kind |-> "failed", revision |-> NoRevisions]
                              ELSE txn[r].answer
  BY <1>0 DEF Crash, Settled, IdleTxn
<1>3. UNCHANGED <<journal, present>>
  BY DEF Crash, tables
<1>4. Log!Failed(R)
  BY <1>1, <1>2, <1>3 DEF Log!Failed, Log!NoRevisions, NoRevisions
<1>5. QED
  BY <1>4

\* The other statements change nothing that the log promises.
LEMMA SilentImplements ==
  ASSUME TypeOK, NEW r \in Request, Goto(r, pc'[r]), UNCHANGED tables,
         \/ txn' = txn
         \/ LockSurfaces(r) \/ UpsertSurfaces(r) \/ InsertOperation(r) \/ InsertUpdates(r)
  PROVE  UNCHANGED Log!logVars
<1>1. \A q \in Request : txn'[q].op = txn[q].op /\ txn'[q].answer = txn[q].answer
  <2>1. DOMAIN txn = Request /\ \A q \in Request : {"op", "answer"} \subseteq DOMAIN txn[q]
    BY DEF TypeOK
  <2>2. CASE LockSurfaces(r)
    BY <2>1, <2>2 DEF LockSurfaces
  <2>3. CASE UpsertSurfaces(r)
    BY <2>1, <2>3 DEF UpsertSurfaces
  <2>4. CASE InsertOperation(r)
    BY <2>1, <2>4 DEF InsertOperation
  <2>5. CASE InsertUpdates(r)
    BY <2>1, <2>5 DEF InsertUpdates
  <2>6. QED
    BY <2>2, <2>3, <2>4, <2>5
<1>2. UNCHANGED <<journal, present>>
  BY DEF tables
<1>3. QED
  BY <1>1, <1>2 DEF Log!logVars

LEMMA StepImplements ==
  ASSUME LinearInv, NEW r \in Request, Step(r)
  PROVE  \/ Log!Accepted(r) \/ Log!Repeated(r) \/ Log!Rejected(r) \/ Log!Failed({r})
         \/ UNCHANGED Log!logVars
<1>1. TypeOK
  BY DEF LinearInv, ContentInv, OrderInv
<1>2. \A l : Goto(r, l) => Goto(r, pc'[r])
  BY <1>1 DEF Goto, TypeOK
<1>3. CASE FindOperation(r) \/ Recheck(r)
  <2>1. pc[r] \in Running /\ UNCHANGED tables
    BY <1>3 DEF FindOperation, Recheck, Running, Unlocked, Holding
  <2>2. (Found(txn[r].op) /\ AnswerDuplicate(r)) \/ (txn' = txn /\ \E l : Goto(r, l))
    BY <1>3 DEF FindOperation, Recheck
  <2>3. QED
    BY <1>1, <1>2, <2>1, <2>2, DuplicateImplements, SilentImplements
<1>4. CASE LockWorkspace(r)
  <2>1. pc[r] \in Running /\ UNCHANGED tables
    BY <1>4 DEF LockWorkspace, Running, Unlocked
  <2>2. Settle(r, "failed", NoRevisions) \/ (txn' = txn /\ \E l : Goto(r, l))
    BY <1>4 DEF LockWorkspace
  <2>3. QED
    BY <1>1, <1>2, <2>1, <2>2, FailureImplements, SilentImplements
<1>5. CASE Validate(r)
  <2>1. pc[r] = "validate" /\ UNCHANGED tables
    BY <1>5 DEF Validate
  <2>2. \/ ~Admissible(txn[r].op, Integrated(r)) /\ Settle(r, "rejected", NoRevisions)
        \/ txn' = txn /\ \E l : Goto(r, l)
    BY <1>5 DEF Validate
  <2>3. QED
    BY <1>1, <1>2, <2>1, <2>2, RejectionImplements, SilentImplements
<1>6. CASE LockSurfaces(r) \/ UpsertSurfaces(r) \/ InsertOperation(r) \/ InsertUpdates(r)
  <2>1. UNCHANGED tables /\ \E l : Goto(r, l)
    BY <1>6 DEF LockSurfaces, UpsertSurfaces, InsertOperation, InsertUpdates
  <2>2. QED
    BY <1>1, <1>2, <1>6, <2>1, SilentImplements
<1>7. CASE Commit(r)
  BY <1>7, CommitImplements
<1>8. QED
  BY <1>3, <1>4, <1>5, <1>6, <1>7 DEF Step

LEMMA NextImplements ==
  ASSUME LinearInv, [Next]_vars
  PROVE  [Log!LogNext]_(Log!logVars)
<1>1. ASSUME NEW r \in Request, NEW op \in Operation, Submit(r, op)
      PROVE  Log!LogNext
  BY <1>1, SubmitImplements DEF Log!LogNext
<1>2. ASSUME NEW r \in Request, Step(r)
      PROVE  [Log!LogNext]_(Log!logVars)
  BY <1>2, StepImplements DEF Log!LogNext
<1>3. ASSUME NEW r \in Request, Abort(r)
      PROVE  Log!LogNext
  <2>1. Log!Failed({r})
    BY <1>3, FailureImplements DEF Abort
  <2>2. QED
    BY <2>1 DEF Log!LogNext
<1>4. CASE Crash
  BY <1>4, CrashImplements, Zenon DEF Log!LogNext
<1>5. CASE Erase
  <2>1. Log!Erased
    BY <1>5 DEF Erase, Log!Erased
  <2>2. QED
    BY <2>1 DEF Log!LogNext
<1>6. CASE ReadSurfaces \/ ReadCursor \/ UNCHANGED vars
  BY <1>6 DEF ReadSurfaces, ReadCursor, vars, tables, Log!logVars
<1>7. QED
  BY <1>1, <1>2, <1>3, <1>4, <1>5, <1>6 DEF Next

\* The statements of PostgresOperationJournal implement a log on which every
\* submission takes effect at once: whatever runs concurrently, fails or is
\* deleted, each call is answered as if it had run alone at one moment between
\* its start and its answer.
THEOREM JournalImplementsLog == Spec => ImplementsLog
<1>1. Init => Log!LogInit
  BY DEF Init, Log!LogInit, IdleTxn, Unanswered, Log!Unanswered, NoRevisions, Log!NoRevisions
<1>2. QED
  BY <1>1, NextImplements, LinearAlways, PTL DEF ImplementsLog, Log!LogSpec, Spec
=============================================================================
