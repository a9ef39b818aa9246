---------------------------- MODULE AssetRegistry ----------------------------
(***************************************************************************)
(* AssetRegistry of one workspace (domains/asset/src): rows in PostgreSQL, *)
(* bytes in an object store, and the queue of the bytes to delete.         *)
(*                                                                         *)
(* Every await of a call is a step: the two stores can disagree between    *)
(* any two of them, and other calls read what they find.  A user asset is  *)
(* stored under its own key, a derived one under the hash of its bytes.    *)
(***************************************************************************)
EXTENDS Naturals, FiniteSets

CONSTANTS
  Asset,          \* user assets, and the keys of their objects
  Derived,        \* contents of derived assets, and the keys of their objects
  Derivation,     \* derivation keys
  Call,           \* HTTP calls that may be under way together
  Drainer,        \* calls of drainDeletionQueue: the timer's and a deletion's
  MaxFaults       \* bounds crashes, failed deletes and expired leases

ASSUME KeyAssumption == Asset \cap Derived = {}
ASSUME MaxFaultsAssumption == MaxFaults \in Nat

VARIABLES
  present,        \* the row of `workspaces' exists
  rows,           \* rows[a]: the state column of a user asset
  expired,        \* the assets whose upload capability has expired
  derived,        \* the rows of derived assets, all of them ready
  objects,        \* objects[k]: the bytes in the object store
  queue,          \* asset_deletion_queue: queue[k]
  call,           \* call[c]: where a call stands
  drain,          \* drain[d]: what a drain has claimed
  excused,        \* the keys a known race may leave without bytes or row
  faults

database == <<present, rows, expired, derived, queue>>
vars == <<database, objects, call, drain, excused, faults>>

ObjectKey == Asset \cup Derived
Content == {"good", "bad"}      \* "good" has the reserved checksum
Bytes == Content \cup {"none"}

Idle == [pc |-> "idle", key |-> "none", content |-> "none", batch |-> {}]
Resting == [pc |-> "idle", key |-> "none", batch |-> {}]

TypeOK ==
  /\ present \in BOOLEAN
  /\ rows \in [Asset -> {"none", "reserved", "uploaded", "ready", "rejected"}]
  /\ expired \subseteq Asset
  /\ derived \subseteq [key : Derivation, object : Derived]
  /\ objects \in [ObjectKey -> Bytes]
  /\ queue \in [ObjectKey -> {"none", "pending", "leased", "done"}]
  /\ call \in [Call -> [pc : {"idle", "put", "markUploaded", "undoUpload", "getObject",
                              "reject", "markRejected", "markReady", "putDerived",
                              "insertDerived", "cascade"},
                        key : ObjectKey \cup {"none"}, content : Bytes \cup Derivation,
                        batch : SUBSET ObjectKey]]
  /\ drain \in [Drainer -> [pc : {"idle", "delete", "complete"},
                            key : ObjectKey \cup {"none"}, batch : SUBSET ObjectKey]]
  /\ excused \subseteq ObjectKey
  /\ faults \in 0..MaxFaults

Init ==
  /\ present = TRUE
  /\ rows = [a \in Asset |-> "none"] /\ expired = {} /\ derived = {}
  /\ objects = [k \in ObjectKey |-> "none"]
  /\ queue = [k \in ObjectKey |-> "none"]
  /\ call = [c \in Call |-> Idle] /\ drain = [d \in Drainer |-> Resting]
  /\ excused = {} /\ faults = 0

-----------------------------------------------------------------------------
Goto(c, label) == call' = [call EXCEPT ![c].pc = label]
Begin(c, label, k, x) ==
  /\ call[c].pc = "idle"
  /\ call' = [call EXCEPT ![c] = [pc |-> label, key |-> k, content |-> x, batch |-> {}]]
Answer(c) == call' = [call EXCEPT ![c] = Idle]
Store(k, x) == objects' = [objects EXCEPT ![k] = x]
Fault == faults < MaxFaults /\ faults' = faults + 1

\* markState: an UPDATE that finds the row only in the state `from'.
MarkState(a, from, to) == rows' = [rows EXCEPT ![a] = IF @ = from THEN to ELSE @]

\* find: the row of an asset.
Find(a, state) == rows[a] = state

\* The INSERT of a reservation, under a foreign key to its workspace.
InsertReserved(a) ==
  /\ present /\ Find(a, "none")
  /\ rows' = [rows EXCEPT ![a] = "reserved"]

\* reserve; its INSERT may fall between the two statements of a deletion.
Reserve(a) ==
  /\ InsertReserved(a)
  /\ excused' = IF \E c \in Call : call[c].pc = "cascade" THEN excused \cup {a} ELSE excused
  /\ UNCHANGED <<present, expired, derived, queue, objects, call, drain, faults>>

\* Ten minutes have passed since the reservation.
Expire(a) ==
  /\ rows[a] = "reserved" /\ a \notin expired
  /\ expired' = expired \cup {a}
  /\ UNCHANGED <<present, rows, derived, queue, objects, call, drain, excused, faults>>

\* acceptUpload up to its first await.  Two uploads of one asset are the race
\* that may cost the winner its bytes.
BeginUpload(c, a, x) ==
  /\ Find(a, "reserved") /\ a \notin expired
  /\ Begin(c, "put", a, x)
  /\ excused' = IF \E b \in Call \ {c} : call[b].key = a /\ call[b].pc \in {"put", "markUploaded"}
                THEN excused \cup {a} ELSE excused
  /\ UNCHANGED <<database, objects, drain, faults>>

PutUpload(c) ==
  /\ call[c].pc = "put"
  /\ Store(call[c].key, call[c].content)
  /\ Goto(c, "markUploaded")
  /\ UNCHANGED <<database, drain, excused, faults>>

\* What deleting after a lost markState prevents: bytes no row speaks of.
MarkUploadedKeeping(c) ==
  /\ call[c].pc = "markUploaded"
  /\ MarkState(call[c].key, "reserved", "uploaded")
  /\ Answer(c)
  /\ UNCHANGED <<present, expired, derived, queue, objects, drain, excused, faults>>

MarkUploaded(c) ==
  /\ call[c].pc = "markUploaded"
  /\ MarkState(call[c].key, "reserved", "uploaded")
  /\ IF rows[call[c].key] = "reserved" THEN Answer(c) ELSE Goto(c, "undoUpload")
  /\ UNCHANGED <<present, expired, derived, queue, objects, drain, excused, faults>>

UndoUpload(c) ==
  /\ call[c].pc = "undoUpload"
  /\ Store(call[c].key, "none")
  /\ Answer(c)
  /\ UNCHANGED <<database, drain, excused, faults>>

BeginFinalize(c, a) ==
  /\ Find(a, "uploaded")
  /\ Begin(c, "getObject", a, "none")
  /\ UNCHANGED <<database, objects, drain, excused, faults>>

\* What verifying prevents: an asset that is ready because bytes are there.
GetObjectUnverified(c) ==
  /\ call[c].pc = "getObject"
  /\ Goto(c, IF objects[call[c].key] # "none" THEN "markReady" ELSE "reject")
  /\ UNCHANGED <<database, objects, drain, excused, faults>>

\* The stored bytes, their MIME type and their checksum are compared.
GetObject(c) ==
  /\ call[c].pc = "getObject"
  /\ Goto(c, IF objects[call[c].key] = "good" THEN "markReady" ELSE "reject")
  /\ UNCHANGED <<database, objects, drain, excused, faults>>

Reject(c) ==
  /\ call[c].pc = "reject"
  /\ Store(call[c].key, "none")
  /\ Goto(c, "markRejected")
  /\ UNCHANGED <<database, drain, excused, faults>>

MarkRejected(c) ==
  /\ call[c].pc = "markRejected"
  /\ MarkState(call[c].key, "uploaded", "rejected")
  /\ Answer(c)
  /\ UNCHANGED <<present, expired, derived, queue, objects, drain, excused, faults>>

MarkReady(c) ==
  /\ call[c].pc = "markReady"
  /\ MarkState(call[c].key, "uploaded", "ready")
  /\ Answer(c)
  /\ UNCHANGED <<present, expired, derived, queue, objects, drain, excused, faults>>

\* read: what a device gets of an asset.
Read(a) == IF Find(a, "ready") THEN objects[a] ELSE "not_ready"

\* publishDerived of the bytes x under the derivation key d.
BeginPublish(c, d, x) ==
  /\ ~\E row \in derived : row.key = d
  /\ Begin(c, "putDerived", x, d)
  /\ UNCHANGED <<database, objects, drain, excused, faults>>

PutDerived(c) ==
  /\ call[c].pc = "putDerived"
  /\ Store(call[c].key, "good")
  /\ Goto(c, "insertDerived")
  /\ UNCHANGED <<database, drain, excused, faults>>

\* createReadyDerived: the derivation key may have been taken, the object key
\* is UNIQUE, and the workspace may be gone; then the bytes stay where they are.
InsertDerived(c) ==
  /\ call[c].pc = "insertDerived"
  /\ LET taken == \E row \in derived : row.key = call[c].content \/ row.object = call[c].key
     IN IF present /\ ~taken
        THEN /\ derived' = derived \cup {[key |-> call[c].content, object |-> call[c].key]}
             /\ UNCHANGED excused
        ELSE /\ excused' = excused \cup {call[c].key}
             /\ UNCHANGED derived
  /\ Answer(c)
  /\ UNCHANGED <<present, rows, expired, queue, objects, drain, faults>>

\* delete_workspace_active_data up to its INSERT into the queue, which sees
\* the assets committed by then.
BeginErase(c) ==
  /\ present /\ call[c].pc = "idle"
  /\ ~\E b \in Call : call[b].pc = "cascade"    \* the advisory lock
  /\ call' = [call EXCEPT ![c] = [Idle EXCEPT !.pc = "cascade",
       !.batch = {a \in Asset : rows[a] # "none"} \cup {row.object : row \in derived}]]
  /\ UNCHANGED <<database, objects, drain, excused, faults>>

\* What queueing every asset prevents: the bytes of an unfinished upload stay.
CascadeReadyOnly(c) ==
  /\ call[c].pc = "cascade"
  /\ present' = FALSE
  /\ queue' = [k \in ObjectKey |-> IF k \in call[c].batch \cap Derived THEN "pending" ELSE queue[k]]
  /\ rows' = [a \in Asset |-> "none"] /\ derived' = {} /\ expired' = {}
  /\ Answer(c)
  /\ UNCHANGED <<objects, drain, excused, faults>>

\* DELETE FROM workspaces cascades to what is committed by then, and COMMIT.
Cascade(c) ==
  /\ call[c].pc = "cascade"
  /\ present' = FALSE
  /\ queue' = [k \in ObjectKey |-> IF k \in call[c].batch THEN "pending" ELSE queue[k]]
  /\ rows' = [a \in Asset |-> "none"] /\ derived' = {} /\ expired' = {}
  /\ excused' = excused \cup ({row.object : row \in derived} \ call[c].batch)
  /\ Answer(c)
  /\ UNCHANGED <<objects, drain, faults>>

-----------------------------------------------------------------------------
\* claimDeletionBatch: what is not completed and not leased, for five minutes.
Claim(d) ==
  /\ drain[d].pc = "idle"
  /\ LET batch == {k \in ObjectKey : queue[k] = "pending"}
     IN /\ batch # {}
        /\ drain' = [drain EXCEPT ![d].pc = "delete", ![d].batch = batch]
        /\ queue' = [k \in ObjectKey |-> IF k \in batch THEN "leased" ELSE queue[k]]
  /\ UNCHANGED <<present, rows, expired, derived, objects, call, excused, faults>>

DeleteQueued(d) ==
  /\ drain[d].pc = "delete"
  /\ \E k \in drain[d].batch :
       /\ Store(k, "none")
       /\ drain' = [drain EXCEPT ![d].pc = "complete", ![d].key = k]
  /\ UNCHANGED <<database, call, excused, faults>>

\* The claim goes on with its next object, or ends.
Onwards(d, k) ==
  LET rest == drain[d].batch \ {k}
  IN drain' = [drain EXCEPT ![d] =
       IF rest = {} THEN Resting ELSE [Resting EXCEPT !.pc = "delete", !.batch = rest]]

CompleteDeletion(d) ==
  /\ drain[d].pc = "complete"
  /\ queue' = [queue EXCEPT ![drain[d].key] = "done"]
  /\ Onwards(d, drain[d].key)
  /\ UNCHANGED <<present, rows, expired, derived, objects, call, excused, faults>>

\* failDeletion: an object another drain has completed stays completed.
FailDeletion(d) ==
  /\ Fault
  /\ drain[d].pc = "delete"
  /\ \E k \in drain[d].batch :
       /\ queue' = [queue EXCEPT ![k] = IF @ = "done" THEN @ ELSE "pending"]
       /\ Onwards(d, k)
  /\ UNCHANGED <<present, rows, expired, derived, objects, call, excused>>

\* What reading lease_until prevents: a claim that outlives its holder.
LeaseKept(k) == queue[k] = "leased" /\ UNCHANGED vars

\* The five minutes end, while its holder may still be deleting.
LeaseExpires(k) ==
  /\ queue[k] = "leased"
  /\ \/ Fault
     \/ UNCHANGED faults /\ \A d \in Drainer : k \notin drain[d].batch
  /\ queue' = [queue EXCEPT ![k] = "pending"]
  /\ UNCHANGED <<present, rows, expired, derived, objects, call, drain, excused>>

\* The process stops: calls end where they are, an open deletion is undone.
\* What was written and not yet recorded is nobody's.
Crash ==
  /\ Fault
  /\ call' = [c \in Call |-> Idle] /\ drain' = [d \in Drainer |-> Resting]
  /\ excused' = excused \cup {call[c].key : c \in
       {c \in Call : call[c].pc \in {"markUploaded", "undoUpload", "insertDerived"}}}
  /\ UNCHANGED <<database, objects>>

Go(c) ==
  \/ PutUpload(c) \/ MarkUploaded(c) \/ UndoUpload(c)
  \/ GetObject(c) \/ Reject(c) \/ MarkRejected(c) \/ MarkReady(c)
  \/ PutDerived(c) \/ InsertDerived(c) \/ Cascade(c)

Clean(d) == Claim(d) \/ DeleteQueued(d) \/ CompleteDeletion(d)

Next ==
  \/ \E a \in Asset : Reserve(a) \/ Expire(a)
  \/ \E c \in Call :
       \/ \E a \in Asset : BeginFinalize(c, a) \/ \E x \in Content : BeginUpload(c, a, x)
       \/ \E d \in Derivation, x \in Derived : BeginPublish(c, d, x)
       \/ BeginErase(c)
       \/ Go(c)
  \/ \E d \in Drainer : Clean(d) \/ FailDeletion(d)
  \/ \E k \in ObjectKey : LeaseExpires(k)
  \/ Crash

Spec == Init /\ [][Next]_vars

\* Awaits end; the drain runs after a deletion and on a timer.
FairSpec ==
  /\ Spec
  /\ \A c \in Call : WF_vars(Go(c))
  /\ \A d \in Drainer : WF_vars(Clean(d))
  /\ \A k \in ObjectKey : WF_vars(LeaseExpires(k))

-----------------------------------------------------------------------------
\* A ready asset can be read: its bytes are there and have the checksum of its
\* row, whatever uploads, finalisations, deletions and crashes came between.
ReadyHasBytes ==
  /\ \A a \in Asset \ excused : Read(a) \in {"not_ready", "good"}
  /\ \A row \in derived : objects[row.object] = "good"

\* Bytes in the store belong to an asset or wait for their deletion, once no
\* call is under way: nothing is kept that no deletion of the workspace finds.
NothingStray ==
  (\A c \in Call : call[c].pc = "idle") =>
    \A k \in ObjectKey \ excused : objects[k] # "none" =>
      \/ k \in Asset /\ rows[k] \in {"reserved", "uploaded", "ready"}
      \/ \E row \in derived : row.object = k
      \/ queue[k] \in {"pending", "leased"}

\* What a deletion has queued is deleted in the end, though deletes fail and
\* leases run out with their holders.
QueuedGoes == \A k \in ObjectKey : (queue[k] = "pending") ~> (queue[k] = "done")

\* The same without excuses: what the contract says of ready assets.
ReadyIsReadable == \A a \in Asset : Read(a) \in {"not_ready", "good"}
=============================================================================
