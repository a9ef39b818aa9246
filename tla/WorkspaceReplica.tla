-------------------------- MODULE WorkspaceReplica --------------------------
(***************************************************************************)
(* WorkspaceRuntime and LocalWorkspaceStore of one browser page            *)
(* (domains/workspace/src/workspace-runtime.ts and                         *)
(* domains/local-persistence/src/local-workspace-store.ts), between the    *)
(* awaits: a command or a remote update is staged on a copy of the loaded  *)
(* documents, made durable by an IndexedDB transaction, and only then      *)
(* installed in the documents, which others may have changed meanwhile.    *)
(*                                                                         *)
(* IndexedDB starts the transactions whose stores overlap in the order     *)
(* they were created, one at a time.  The `complete' event of a            *)
(* transaction resumes its caller before any other event, so a transaction *)
(* and what its caller does next are one step.                             *)
(*                                                                         *)
(* The server is reduced to the set of operations it has committed.        *)
(***************************************************************************)
EXTENDS WorkspaceOperations, FiniteSets, Sequences, SequencesExt

CONSTANTS
  Board,          \* the surface every workspace has
  Own,            \* the operations dispatched in this page
  Turn,           \* Turn[op]: the order in which they are made and sent
  MaxAborts,      \* how many IndexedDB transactions fail
  MaxReloads      \* how often the page is reloaded

ASSUME BoardAssumption == Board \in Surface
ASSUME OwnAssumption == Own \subseteq Operation
ASSUME TurnAssumption == Turn \in [Operation -> Nat]
ASSUME BoundAssumption == MaxAborts \in Nat /\ MaxReloads \in Nat
\* A command patches one existing surface, apart from those it creates.
ASSUME PatchAssumption ==
  \A op \in Own : \E s \in Surface : Touches[op] \ Creates[op] \subseteq {s}

VARIABLES
  loaded,         \* the surfaces of the runtime's registry
  live,           \* live[s]: the operations in its document
  stored,         \* surface_state: stored[s], empty when there is no record
  outbox,         \* the operations in `outbox'
  receipts,       \* receipts[op]
  idb,            \* the transactions created and not yet completed
  edit,           \* edit[op]: the dispatch of an own operation
  accepting,      \* accepting[op]: the surfaces #acceptMessage has left
  committed,      \* the operations the server has committed
  aborts,
  reloads

database == <<stored, outbox, receipts>>
memory == <<loaded, live>>
vars == <<memory, database, idb, edit, accepting, committed, aborts, reloads>>

Stores == {"meta", "surfaces", "outbox", "receipts"}

States == [Surface -> SUBSET Operation]

Plan == [docs : SUBSET Operation, queued : SUBSET Operation, rejected : SUBSET Operation]

Transaction ==
  [kind : {"local"}, op : Own, states : States]
    \cup [kind : {"identity", "remote"}, op : Operation, surface : Surface,
          state : SUBSET Operation, onto : {"document", "registry", "nothing"}]
    \cup [kind : {"acknowledge"}, op : Operation]
    \cup [kind : {"list"}, op : Own, base : SUBSET Operation]
    \cup [kind : {"repair"}, plan : Plan]

TypeOK ==
  /\ loaded \subseteq Surface
  /\ live \in States /\ stored \in States
  /\ outbox \subseteq Own
  /\ receipts \in [Operation -> {"none", "queued", "committed", "rejected"}]
  /\ idb \in Seq(Transaction)
  /\ edit \in [Own -> {"none", "staged", "queued", "failed"}]
  /\ accepting \in [Operation -> SUBSET Surface]
  /\ committed \subseteq Operation
  /\ aborts \in 0..MaxAborts /\ reloads \in 0..MaxReloads

Empty == [s \in Surface |-> {}]

Init ==
  /\ loaded = {Board} /\ live = Empty
  /\ stored = Empty /\ outbox = {} /\ receipts = [op \in Operation |-> "none"]
  /\ idb = <<>>
  /\ edit = [op \in Own |-> "none"]
  /\ accepting = [op \in Operation |-> {}]
  /\ committed = {}
  /\ aborts = 0 /\ reloads = 0

-----------------------------------------------------------------------------
Scope(kind) ==
  CASE kind = "identity" -> {"meta"}
    [] kind = "remote" -> {"surfaces"}
    [] kind = "acknowledge" -> {"outbox", "receipts"}
    [] kind = "list" -> {"outbox"}
    [] OTHER -> {"surfaces", "outbox", "receipts"}

\* Transaction i may run: it waits for no earlier one.
Runs(i, kind) ==
  /\ idb[i].kind = kind
  /\ \A j \in 1..(i - 1) : Scope(idb[j].kind) \cap Scope(kind) = {}

Pending(kind) == \E i \in DOMAIN idb : idb[i].kind = kind

\* The documents a set of operations makes, and the surfaces it makes known.
Documents(docs) == [s \in Surface |-> {o \in docs : s \in Touches[o]}]

SurfacesOf(docs) == IF docs = {} THEN {Board} ELSE UNION {Touches[o] : o \in docs}

\* #stageIn: surfaces exist or are new as the intent says and each element it
\* writes has been written as often as it expects.
Stageable(op, known, docs) ==
  /\ Creates[op] \cap known = {}
  /\ Touches[op] \ Creates[op] \subseteq known
  /\ Cardinality(UNION {docs[s] : s \in Touches[op]} \cap Rivals[op]) = Cardinality(Basis[op])

\* The staged documents of an operation: copies with its update.
Staged(op) ==
  [s \in Surface |->
     IF s \in Creates[op] THEN {op}
     ELSE IF s \in Touches[op] THEN live[s] \cup {op} ELSE {}]

\* What the await prevents: an edit shown before it is durable.
DispatchShown(op) ==
  /\ edit[op] = "none"
  /\ \A o \in Own : edit[o] # "none" => Turn[o] < Turn[op]
  /\ Stageable(op, loaded, live)
  /\ UNION {live[s] : s \in Touches[op]} \cap Rivals[op] = Basis[op]
  /\ edit' = [edit EXCEPT ![op] = "staged"]
  /\ idb' = Append(idb, [kind |-> "local", op |-> op, states |-> Staged(op)])
  /\ live' = [s \in Surface |-> live[s] \cup {o \in {op} : s \in Touches[op]}]
  /\ UNCHANGED <<loaded, database, accepting, committed, aborts, reloads>>

Dispatch(op) ==
  /\ edit[op] = "none"
  /\ \A o \in Own : edit[o] # "none" => Turn[o] < Turn[op]
  /\ Stageable(op, loaded, live)
  /\ UNION {live[s] : s \in Touches[op]} \cap Rivals[op] = Basis[op]
  /\ edit' = [edit EXCEPT ![op] = "staged"]
  /\ idb' = Append(idb, [kind |-> "local", op |-> op, states |-> Staged(op)])
  /\ UNCHANGED <<memory, database, accepting, committed, aborts, reloads>>

\* What commitLocal writes in its transaction.
WriteLocal(t) ==
  /\ stored' = [s \in Surface |-> IF s \in Touches[t.op] THEN t.states[s] ELSE stored[s]]
  /\ outbox' = outbox \cup {t.op}
  /\ receipts' = [receipts EXCEPT ![t.op] = "queued"]

\* What applying the update prevents: the staged copy replaces the document.
InstallLocalCopy(t) ==
  IF Touches[t.op] \ Creates[t.op] \subseteq loaded
  THEN /\ loaded' = loaded \cup Creates[t.op]
       /\ live' = [s \in Surface |-> IF s \in Touches[t.op] THEN t.states[s] ELSE live[s]]
  ELSE UNCHANGED memory

\* #dispatch after commitLocal: created documents are registered, the others
\* get the update; a surface that is gone makes the dispatch fail.
InstallLocal(t) ==
  IF Touches[t.op] \ Creates[t.op] \subseteq loaded
  THEN /\ loaded' = loaded \cup Creates[t.op]
       /\ live' = [s \in Surface |->
            IF s \in Creates[t.op] THEN t.states[s]
            ELSE IF s \in Touches[t.op] THEN live[s] \cup {t.op} ELSE live[s]]
  ELSE UNCHANGED memory

CommitLocal(i) ==
  /\ Runs(i, "local")
  /\ WriteLocal(idb[i])
  /\ InstallLocal(idb[i])
  /\ edit' = [edit EXCEPT ![idb[i].op] =
       IF Touches[idb[i].op] \ Creates[idb[i].op] \subseteq loaded THEN "queued" ELSE "failed"]
  /\ idb' = RemoveAt(idb, i)
  /\ UNCHANGED <<accepting, committed, aborts, reloads>>

\* The transaction aborts, for want of space: commitLocal and dispatch throw.
AbortLocal(i) ==
  /\ Runs(i, "local")
  /\ aborts < MaxAborts
  /\ aborts' = aborts + 1
  /\ edit' = [edit EXCEPT ![idb[i].op] = "failed"]
  /\ idb' = RemoveAt(idb, i)
  /\ UNCHANGED <<memory, database, accepting, committed, reloads>>

-----------------------------------------------------------------------------
(***************************************************************************)
(* Remote operations: #acceptMessage calls acceptRemoteState once for each *)
(* surface, then acknowledge.                                              *)
(***************************************************************************)

\* acceptRemoteState up to its first await: staged on a copy, or on a new
\* document when the surface is unknown; commitRemote asks for the identity.
StageRemote(op, s) ==
  [kind |-> "identity", op |-> op, surface |-> s,
   state |-> (IF s \in loaded THEN live[s] ELSE {}) \cup {op},
   onto |-> IF s \in loaded THEN "document" ELSE "registry"]

AcceptMessage(op) ==
  /\ op \in committed
  /\ accepting[op] = {}
  /\ receipts[op] \in {"none", "queued"}
  /\ ~\E i \in DOMAIN idb : idb[i].kind = "acknowledge" /\ idb[i].op = op
  /\ accepting' = [accepting EXCEPT ![op] = Touches[op]]
  /\ \E s \in Touches[op] : idb' = Append(idb, StageRemote(op, s))
  /\ UNCHANGED <<memory, database, edit, committed, aborts, reloads>>

\* getOrCreateIdentity is done: commitRemote creates its second transaction.
IdentityRead(i) ==
  /\ Runs(i, "identity")
  /\ idb' = Append(RemoveAt(idb, i), [idb[i] EXCEPT !.kind = "remote"])
  /\ UNCHANGED <<memory, database, edit, accepting, committed, aborts, reloads>>

\* acceptRemoteState calls that hold a replaced document update nothing.
Detached(transactions, replaced) ==
  [i \in DOMAIN transactions |->
     IF /\ transactions[i].kind \in {"identity", "remote"}
        /\ transactions[i].surface \in replaced /\ transactions[i].onto = "document"
     THEN [transactions[i] EXCEPT !.onto = "nothing"] ELSE transactions[i]]

\* What awaiting each surface prevents: acknowledged after the first one.
NextUpdateEarly(op, left, pending) ==
  /\ accepting' = [accepting EXCEPT ![op] = {}]
  /\ idb' = Append(pending, [kind |-> "acknowledge", op |-> op])

\* What the callers of a finished acceptRemoteState do: the next surface, or
\* acknowledge.  The next copy is taken of the documents as they are now.
NextUpdate(op, left, pending) ==
  /\ accepting' = [accepting EXCEPT ![op] = left]
  /\ IF left = {}
     THEN idb' = Append(pending, [kind |-> "acknowledge", op |-> op])
     ELSE \E s \in left :
       idb' = Append(pending,
                [kind |-> "identity", op |-> op, surface |-> s,
                 state |-> (IF s \in loaded' THEN live'[s] ELSE {}) \cup {op},
                 onto |-> IF s \in loaded' THEN "document" ELSE "registry"])

CommitRemote(i) ==
  /\ Runs(i, "remote")
  /\ LET t == idb[i]
     IN /\ stored' = [stored EXCEPT ![t.surface] = t.state]
        /\ CASE t.onto = "document" ->
                  live' = [live EXCEPT ![t.surface] = @ \cup {t.op}] /\ UNCHANGED loaded
             [] t.onto = "registry" ->
                  live' = [live EXCEPT ![t.surface] = t.state] /\ loaded' = loaded \cup {t.surface}
             [] t.onto = "nothing" -> UNCHANGED memory
        /\ NextUpdate(t.op, accepting[t.op] \ {t.surface},
             Detached(RemoveAt(idb, i), IF t.onto = "registry" THEN {t.surface} ELSE {}))
  /\ UNCHANGED <<outbox, receipts, edit, committed, aborts, reloads>>

\* It aborts: #acceptMessage ends, and a later connection delivers again.
AbortRemote(i) ==
  /\ Runs(i, "remote")
  /\ aborts < MaxAborts
  /\ aborts' = aborts + 1
  /\ accepting' = [accepting EXCEPT ![idb[i].op] = {}]
  /\ idb' = RemoveAt(idb, i)
  /\ UNCHANGED <<memory, database, edit, committed, reloads>>

\* An answered POST acknowledges too.
Answered(op) ==
  /\ op \in committed \cap outbox
  /\ ~\E i \in DOMAIN idb : idb[i].kind = "acknowledge" /\ idb[i].op = op
  /\ idb' = Append(idb, [kind |-> "acknowledge", op |-> op])
  /\ UNCHANGED <<memory, database, edit, accepting, committed, aborts, reloads>>

\* What deleting the record prevents: it is written back to the queue.
AcknowledgeRequeueing(i) ==
  /\ Runs(i, "acknowledge")
  /\ outbox' = outbox \cup {idb[i].op}
  /\ receipts' = [receipts EXCEPT ![idb[i].op] = "committed"]
  /\ idb' = RemoveAt(idb, i)
  /\ UNCHANGED <<memory, stored, edit, accepting, committed, aborts, reloads>>

Acknowledge(i) ==
  /\ Runs(i, "acknowledge")
  /\ outbox' = outbox \ {idb[i].op}
  /\ receipts' = [receipts EXCEPT ![idb[i].op] = "committed"]
  /\ idb' = RemoveAt(idb, i)
  /\ UNCHANGED <<memory, stored, edit, accepting, committed, aborts, reloads>>

-----------------------------------------------------------------------------
(***************************************************************************)
(* The server, and the repair of a rejected operation.                     *)
(***************************************************************************)

\* The device sends its operations in their order, one at a time.
IsNext(op) == op \in outbox /\ \A o \in outbox : Turn[op] <= Turn[o]

ServerCommits(op) ==
  /\ op \notin committed
  /\ op \in Own => IsNext(op)
  /\ Admissible(op, committed)
  /\ committed' = committed \cup {op}
  /\ UNCHANGED <<memory, database, idb, edit, accepting, aborts, reloads>>

\* The server has rejected op and sent its state: listOutbox.
BeginRepair(op) ==
  /\ op \in Own \ committed
  /\ IsNext(op)
  /\ ~Admissible(op, committed)
  /\ ~Pending("list") /\ ~Pending("repair")
  /\ idb' = Append(idb, [kind |-> "list", op |-> op, base |-> committed])
  /\ UNCHANGED <<memory, database, edit, accepting, committed, aborts, reloads>>

\* prepareRepair keeps a queued operation that can be staged, in the order of
\* the outbox, on the committed state and what it has kept before; not the
\* rejected one.
IsKept(op, bad, base, kept) ==
  LET docs == base \cup {o \in kept : Turn[o] < Turn[op]}
  IN op # bad /\ Stageable(op, SurfacesOf(docs), Documents(docs))

\* The outbox is listed: prepareRepair, and installRepair's transaction.
ListOutbox(i) ==
  /\ Runs(i, "list")
  /\ LET bad == idb[i].op
         base == idb[i].base
     IN \E kept \in SUBSET outbox :
          /\ \A op \in outbox : op \in kept <=> IsKept(op, bad, base, kept)
          /\ idb' = Append(RemoveAt(idb, i),
                [kind |-> "repair",
                 plan |-> [docs |-> base \cup kept, queued |-> kept,
                           rejected |-> (outbox \ kept) \cup {bad}]])
  /\ UNCHANGED <<memory, database, edit, accepting, committed, aborts, reloads>>

\* installRepair of the runtime: new documents in the place of all others.
ShowRepaired(docs) == loaded' = SurfacesOf(docs) /\ live' = Documents(docs)

\* installRepair of the store, then of the runtime.
InstallRepair(i) ==
  /\ Runs(i, "repair")
  /\ LET plan == idb[i].plan
     IN /\ stored' = Documents(plan.docs)
        /\ outbox' = plan.queued
        /\ receipts' = [op \in Operation |->
             IF op \in plan.rejected THEN "rejected"
             ELSE IF op \in plan.queued THEN "queued" ELSE receipts[op]]
        /\ ShowRepaired(plan.docs)
  /\ idb' = Detached(RemoveAt(idb, i), Surface)
  /\ UNCHANGED <<edit, accepting, committed, aborts, reloads>>

\* The page is closed and opened: transactions that have not completed are
\* gone, and the documents are those of surface_state.
Reload ==
  /\ reloads < MaxReloads
  /\ reloads' = reloads + 1
  /\ idb' = <<>>
  /\ edit' = [op \in Own |-> IF edit[op] = "staged" THEN "failed" ELSE edit[op]]
  /\ accepting' = [op \in Operation |-> {}]
  /\ loaded' = {Board} \cup {s \in Surface : stored[s] # {}}
  /\ live' = stored
  /\ UNCHANGED <<database, committed, aborts>>

Next ==
  \/ \E op \in Own : Dispatch(op) \/ Answered(op) \/ BeginRepair(op)
  \/ \E op \in Operation : AcceptMessage(op) \/ ServerCommits(op)
  \/ \E i \in DOMAIN idb :
       \/ CommitLocal(i) \/ AbortLocal(i)
       \/ IdentityRead(i) \/ CommitRemote(i) \/ AbortRemote(i)
       \/ Acknowledge(i) \/ ListOutbox(i) \/ InstallRepair(i)
  \/ Reload

Spec == Init /\ [][Next]_vars

-----------------------------------------------------------------------------
(***************************************************************************)
(* Properties.                                                             *)
(***************************************************************************)

Shown == UNION {live[s] : s \in Surface}

\* "Local persistence failure leaves ... no queued or committed claim": what
\* the replica shows or stores of the user's edits has been made durable with
\* its receipt, whatever else was staged when the edit failed.
NothingUnsaved ==
  \A op \in Own :
    op \in Shown \cup UNION {stored[s] : s \in Surface} => receipts[op] # "none"

\* Neither a repair nor a reload has replaced the documents yet.  Both may take
\* shown work away: WorkspaceReplicaRepair and WorkspaceReplicaStale show how.
Undisturbed ==
  reloads = 0 /\ \A op \in Operation : receipts[op] # "rejected"

\* What a receipt calls queued or committed is shown on each of its surfaces:
\* no other edit, failed transaction or remote update that was under way
\* meanwhile has taken it away, and "a multi-surface command is visible locally
\* as one transition".
WorkIsShown ==
  Undisturbed =>
    \A op \in Operation : receipts[op] \in {"queued", "committed"} =>
      \A s \in Touches[op] : op \in live[s]

\* Once a remote operation has been accepted completely, each of its surfaces
\* shows it and its receipt is stored or about to be.
AcceptedIsShown ==
  Undisturbed =>
    \A op \in Operation : receipts[op] = "committed" => \A s \in Touches[op] : op \in live[s]

\* "Reload reconstructs the last valid local scene": surface_state holds every
\* queued operation.
QueuedIsStored ==
  \A op \in outbox : \A s \in Touches[op] : op \in stored[s]

\* A rejected operation is absent after the repair, from the scene and from
\* what a reload reads.
RejectedIsGone ==
  \A op \in Own : receipts[op] = "rejected" =>
    \A s \in Surface : op \notin live[s] /\ op \notin stored[s]
=============================================================================
