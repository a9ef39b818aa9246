----------------------------- MODULE SyncClient -----------------------------
(***************************************************************************)
(* SyncClient of one browser page                                          *)
(* (domains/synchronization/src/sync-client.ts) between the durable replica *)
(* of the device, the server's journal and the operations of other devices.*)
(*                                                                         *)
(* The server is the atomic log that OperationJournal implements: a        *)
(* submission is answered in one step.  Its stream delivers what           *)
(* websocket-sync-transport.ts sends: the operations committed after the   *)
(* subscription and those a history query finds, in any order.             *)
(*                                                                         *)
(* The replica is taken at the granularity of whole operations: a dispatch,*)
(* the acceptance of a remote operation and the installation of a repair   *)
(* are one step each.  What happens inside those steps is the subject of   *)
(* WorkspaceReplica.                                                       *)
(***************************************************************************)
EXTENDS WorkspaceOperations, FiniteSets, Sequences, Functions

CONSTANTS
  Board,          \* the surface every workspace has
  Own,            \* the operations dispatched on this device
  Turn,           \* Turn[op]: when the user makes it
  Stamp,          \* Stamp[op]: createdAt of its outbox record, in milliseconds
  Key,            \* Key[op]: where its random identifier sorts
  Run,            \* calls of synchronizeOnce that may be under way together
  FirstRun,       \* the one start() makes
  MaxFailures,    \* how many requests fail and connections break
  MaxReloads      \* how often the page is closed and opened again

ASSUME OwnAssumption == Own \subseteq Operation
ASSUME BoardAssumption == Board \in Surface
ASSUME StampAssumption ==
  /\ Turn \in [Operation -> Nat] /\ Stamp \in [Operation -> Nat] /\ Key \in [Operation -> Nat]
  /\ \A o, p \in Own : Turn[o] < Turn[p] => Stamp[o] <= Stamp[p]
ASSUME KeyAssumption == \A o, p \in Own : Key[o] = Key[p] => o = p
ASSUME BoundAssumption == MaxFailures \in Nat /\ MaxReloads \in Nat
ASSUME RunAssumption == FirstRun \in Run /\ "none" \notin Run

VARIABLES
  log,            \* the journal: accepted operations in sequence order
  wire,           \* POSTs on their way whose sender has given up
  outbox,         \* IndexedDB: the records awaiting a receipt
  receipts,       \* IndexedDB: receipts[op]
  live,           \* the operations in the device's replica
  cursor,         \* #cursor
  ready,          \* #readyToSend
  flushRequested, \* #flushRequested
  retryTimer,     \* #retryTimer is set
  drain,          \* #flushInFlight: the one call of #drainOutbox
  run,            \* run[r]: one call of synchronizeOnce
  socket,         \* #socket and what its server side has sent
  messages,       \* calls of #acceptMessage that await acknowledge
  recorded,       \* #committedReceipts: in which form the receipt was seen
  failures,       \* failures so far
  reloads         \* reloads so far

server == <<log, wire>>
device == <<outbox, receipts, live>>
flushing == <<ready, flushRequested, retryTimer, drain>>
budget == <<failures, reloads>>
vars == <<server, device, cursor, flushing, run, socket, messages, recorded, budget>>

Record == [op : Own, basis : SUBSET Operation]

\* One receipt has two spellings: the object commit() builds, and the jsonb
\* column, which gives its keys in another order.
Form == {"fresh", "stored"}

NoReply == [kind |-> "none", sequence |-> 0]

NoPlan == [queued |-> {}, rejected |-> {}, docs |-> {}]

IdleDrain == [pc |-> "none", rest |-> <<>>, reply |-> NoReply, base |-> 0, plan |-> NoPlan]

Listing == [IdleDrain EXCEPT !.pc = "list"]

NoSocket == [run |-> "none", open |-> FALSE, after |-> 0, from |-> 0,
             upto |-> 0, history |-> FALSE, sent |-> {}]

TypeOK ==
  /\ log \in Seq(Operation)
  /\ wire \subseteq Record
  /\ outbox \subseteq Record
  /\ receipts \in [Operation -> {"none", "queued", "committed", "rejected"}]
  /\ live \subseteq Operation
  /\ cursor \in 0..Len(log)
  /\ ready \in BOOLEAN /\ flushRequested \in BOOLEAN /\ retryTimer \in BOOLEAN
  /\ drain \in [pc : {"none", "list", "post", "answer", "repairState", "repairList", "install"},
                rest : Seq(Record),
                reply : [kind : {"none", "rejected"} \cup Form, sequence : Nat],
                base : Nat,
                plan : [queued : SUBSET Record, rejected : SUBSET Operation,
                        docs : SUBSET Operation]]
  /\ run \in [Run -> [pc : {"off", "fetch", "accept", "connect", "opening", "flushing"},
                      base : Nat]]
  /\ socket \in [run : Run \cup {"none"}, open : BOOLEAN, after : Nat, from : Nat,
                 upto : Nat, history : BOOLEAN, sent : SUBSET (Operation \X Form)]
  /\ messages \subseteq Operation \X Form
  /\ recorded \in [Operation -> {"none"} \cup Form]
  /\ failures \in 0..MaxFailures /\ reloads \in 0..MaxReloads

\* A page that has just called start().
OpenPage ==
  [r \in Run |-> [pc |-> IF r = FirstRun THEN "fetch" ELSE "off", base |-> 0]]

Init ==
  /\ log = <<>> /\ wire = {}
  /\ outbox = {} /\ receipts = [op \in Operation |-> "none"] /\ live = {}
  /\ cursor = 0
  /\ ready = FALSE /\ flushRequested = FALSE /\ retryTimer = FALSE /\ drain = IdleDrain
  /\ run = OpenPage
  /\ socket = NoSocket
  /\ messages = {}
  /\ recorded = [op \in Operation |-> "none"]
  /\ failures = 0 /\ reloads = 0

-----------------------------------------------------------------------------
(***************************************************************************)
(* What the client computes.                                               *)
(***************************************************************************)
Committed == Range(log)

Position(op) == CHOOSE i \in DOMAIN log : log[i] = op

UpTo(n) == {log[i] : i \in 1..n}

\* #advanceCursor
Larger(m, n) == IF m > n THEN m ELSE n

\* The surfaces a set of operations makes known: those they touch; every
\* notebook made touches the board too.
Known(s, docs) == s = Board \/ \E o \in docs : s \in Touches[o]

\* #stageIn on documents that hold the operations docs: the surfaces exist or
\* are new as the intent says, and every version is the expected one.  A
\* version is a number: how often the element has been written.
Stageable(op, docs) ==
  /\ \A s \in Creates[op] : ~Known(s, docs)
  /\ \A s \in Touches[op] \ Creates[op] : Known(s, docs)
  /\ Cardinality(docs \cap Rivals[op]) = Cardinality(Basis[op])

\* What sorting prevents: the index returns the records by their random keys.
BeforeByKey(p, q) == Key[p.op] < Key[q.op]

\* The order of listOutbox: by createdAt, equal ones in the order of their keys.
Before(p, q) ==
  \/ Stamp[p.op] < Stamp[q.op]
  \/ Stamp[p.op] = Stamp[q.op] /\ Key[p.op] < Key[q.op]

\* listOutbox: the records in that order.
Sorted ==
  {queue \in [1..Cardinality(outbox) -> outbox] :
     /\ Range(queue) = outbox
     /\ \A i, j \in DOMAIN queue : i < j => Before(queue[i], queue[j])}

\* What a queued operation is staged on: the base and what was kept before it.
DocsFor(q, base, kept) == base \cup {p.op : p \in {k \in kept : Before(k, q)}}

\* prepareRepair keeps the queued operations but the rejected one that can be
\* staged one after the other on the committed state.
IsKept(kept, base, bad) ==
  \A q \in outbox : q \in kept <=> q.op # bad /\ Stageable(q.op, DocsFor(q, base, kept))

Rebased(q, base, kept) == [op |-> q.op, basis |-> DocsFor(q, base, kept) \cap Rivals[q.op]]

\* What staging anew prevents: an operation that fails stays in the queue.
PrepareRepairKeeping(base, bad) ==
  {[docs |-> base \cup {q.op : q \in kept},
    queued |-> {q \in outbox : q.op # bad},
    rejected |-> {q.op : q \in outbox \ kept} \cup {bad}] :
   kept \in {k \in SUBSET outbox : IsKept(k, base, bad)}}

\* prepareRepair: the documents and the queue without the operations that fail.
PrepareRepair(base, bad) ==
  {[docs |-> base \cup {q.op : q \in kept},
    queued |-> {Rebased(q, base, kept) : q \in kept},
    rejected |-> {q.op : q \in outbox \ kept} \cup {bad}] :
   kept \in {k \in SUBSET outbox : IsKept(k, base, bad)}}

\* #scheduleRetry
ScheduleRetry ==
  IF retryTimer THEN UNCHANGED <<ready, retryTimer>>
  ELSE ready' = FALSE /\ retryTimer' = TRUE

\* What #flushRequested prevents: a wakeup lost while the queue is drained.
RequestFlushForgets ==
  IF ready /\ drain.pc = "none"
  THEN drain' = Listing /\ flushRequested' = FALSE
  ELSE UNCHANGED <<flushRequested, drain>>

\* #requestFlush
RequestFlush ==
  IF ready /\ drain.pc = "none"
  THEN drain' = Listing /\ flushRequested' = FALSE
  ELSE flushRequested' = TRUE /\ UNCHANGED drain

\* The calls of synchronizeOnce that await the flush end with it.
EndFlushing ==
  run' = [r \in Run |-> IF run[r].pc = "flushing" THEN [run[r] EXCEPT !.pc = "off"] ELSE run[r]]

\* #drainOutbox after a record: the next one, another round, or the end.
Continue(rest, requested) ==
  IF rest # <<>>
  THEN /\ drain' = [IdleDrain EXCEPT !.pc = "post", !.rest = rest]
       /\ flushRequested' = requested
       /\ UNCHANGED run
  ELSE IF requested /\ ready
  THEN drain' = Listing /\ flushRequested' = FALSE /\ UNCHANGED run
  ELSE drain' = IdleDrain /\ flushRequested' = requested /\ EndFlushing

\* #drainOutbox throws: its finally() sees the flag before a caller's catch()
\* has scheduled the retry.
DrainThrows ==
  /\ IF flushRequested /\ ready
     THEN drain' = Listing /\ flushRequested' = FALSE
     ELSE drain' = IdleDrain /\ UNCHANGED flushRequested
  /\ EndFlushing
  /\ ScheduleRetry

Conflicting(op, form) == recorded[op] \notin {"none", form}

-----------------------------------------------------------------------------
(***************************************************************************)
(* The user and the other devices.                                         *)
(***************************************************************************)

\* An edit became durable: commitLocal's listener asks for a flush.
Dispatch(op) ==
  /\ op \in Own
  /\ receipts[op] = "none"
  /\ \A o \in Own : receipts[o] # "none" => Turn[o] < Turn[op]
  /\ Stageable(op, live)
  /\ live \cap Rivals[op] = Basis[op]
  /\ outbox' = outbox \cup {[op |-> op, basis |-> Basis[op]]}
  /\ receipts' = [receipts EXCEPT ![op] = "queued"]
  /\ live' = live \cup {op}
  /\ RequestFlush
  /\ UNCHANGED <<server, cursor, ready, retryTimer, run, socket, messages, recorded, budget>>

\* Another device's operation commits.
RemoteCommit(op) ==
  /\ op \in Operation \ (Own \cup Committed)
  /\ Admissible(op, Committed)
  /\ log' = Append(log, op)
  /\ UNCHANGED <<wire, device, cursor, flushing, run, socket, messages, recorded, budget>>

-----------------------------------------------------------------------------
(***************************************************************************)
(* #drainOutbox.                                                           *)
(***************************************************************************)

\* What waiting for the receipt prevents: records leave the queue to be sent.
ListOutboxTaking ==
  /\ drain.pc = "list"
  /\ \E queue \in Sorted : Continue(queue, flushRequested)
  /\ outbox' = {}
  /\ UNCHANGED <<server, receipts, live, cursor, ready, retryTimer, socket, messages, recorded,
                 budget>>

ListOutbox ==
  /\ drain.pc = "list"
  /\ \E queue \in Sorted : Continue(queue, flushRequested)
  /\ UNCHANGED <<server, device, cursor, ready, retryTimer, socket, messages, recorded, budget>>

\* SyncGateway.submit: what becomes of a record, and the journal with it.
Verdict(q) ==
  IF q.op \in Committed THEN "stored"
  ELSE IF AdmissibleOn(q.op, q.basis, Committed) THEN "fresh"
  ELSE "rejected"

Journaled(q) == IF Verdict(q) = "fresh" THEN Append(log, q.op) ELSE log

\* The POST the drain awaits, and its answer.
Submit ==
  /\ drain.pc = "post"
  /\ LET q == Head(drain.rest)
     IN /\ log' = Journaled(q)
        /\ drain' = [drain EXCEPT !.pc = "answer", !.reply =
             [kind |-> Verdict(q),
              sequence |-> CASE Verdict(q) = "fresh" -> Len(log) + 1
                             [] Verdict(q) = "stored" -> Position(q.op)
                             [] OTHER -> 0]]
  /\ UNCHANGED <<wire, device, cursor, ready, flushRequested, retryTimer, run, socket, messages,
                 recorded, budget>>

\* A POST nobody awaits any more.
SubmitLate(q) ==
  /\ q \in wire
  /\ wire' = wire \ {q}
  /\ log' = Journaled(q)
  /\ UNCHANGED <<device, cursor, flushing, run, socket, messages, recorded, budget>>

\* The answer: acknowledge, #recordCommittedReceipt, #advanceCursor.
Acknowledge ==
  /\ drain.pc = "answer"
  /\ drain.reply.kind \in Form
  /\ LET op == Head(drain.rest).op
     IN /\ outbox' = {q \in outbox : q.op # op}
        /\ receipts' = [receipts EXCEPT ![op] = "committed"]
        /\ IF Conflicting(op, drain.reply.kind)
           THEN DrainThrows /\ UNCHANGED <<cursor, recorded>>
           ELSE /\ recorded' = [recorded EXCEPT ![op] = drain.reply.kind]
                /\ cursor' = Larger(cursor, drain.reply.sequence)
                /\ Continue(Tail(drain.rest), flushRequested)
                /\ UNCHANGED <<ready, retryTimer>>
  /\ UNCHANGED <<server, live, socket, messages, budget>>

\* #repairRejectedOperation asks for the committed state.
FetchRepairState ==
  /\ drain.pc = "answer"
  /\ drain.reply.kind = "rejected"
  /\ drain' = [drain EXCEPT !.pc = "repairState", !.base = Len(log)]
  /\ UNCHANGED <<server, device, cursor, ready, flushRequested, retryTimer, run, socket,
                 messages, recorded, budget>>

\* The state is here; listOutbox and prepareRepair.
ListForRepair ==
  /\ drain.pc = "repairState"
  /\ \E plan \in PrepareRepair(UpTo(drain.base), Head(drain.rest).op) :
       drain' = [drain EXCEPT !.pc = "install", !.plan = plan]
  /\ UNCHANGED <<server, device, cursor, ready, flushRequested, retryTimer, run, socket,
                 messages, recorded, budget>>

\* installRepair of the store and of the runtime; the loop starts again.
InstallRepair ==
  /\ drain.pc = "install"
  /\ outbox' = drain.plan.queued
  /\ receipts' = [op \in Operation |->
       IF op \in drain.plan.rejected THEN "rejected"
       ELSE IF \E q \in drain.plan.queued : q.op = op THEN "queued"
       ELSE receipts[op]]
  /\ live' = drain.plan.docs
  /\ cursor' = Larger(cursor, drain.base)
  /\ Continue(<<>>, TRUE)
  /\ UNCHANGED <<server, ready, retryTimer, socket, messages, recorded, budget>>

\* What stays on its way when nobody awaits the drain any more.
InFlight == IF drain.pc = "post" THEN {Head(drain.rest)} ELSE {}

\* What the list of statuses prevents: a lost answer taken for a rejection.
DrainFailsRejecting ==
  /\ failures < MaxFailures
  /\ failures' = failures + 1
  /\ drain.pc = "post"
  /\ drain' = [drain EXCEPT !.pc = "answer", !.reply = [kind |-> "rejected", sequence |-> 0]]
  /\ wire' = wire \cup InFlight
  /\ UNCHANGED <<log, device, cursor, ready, flushRequested, retryTimer, run, socket, messages,
                 recorded, reloads>>

\* A request of the drain fails, on its way or on the way back.
DrainFails ==
  /\ failures < MaxFailures
  /\ failures' = failures + 1
  /\ drain.pc \in {"post", "answer", "repairState"}
  /\ wire' \in {wire, wire \cup InFlight}
  /\ DrainThrows
  /\ UNCHANGED <<log, device, cursor, socket, messages, recorded, reloads>>

-----------------------------------------------------------------------------
(***************************************************************************)
(* synchronizeOnce.                                                        *)
(***************************************************************************)
Goto(r, label) == run' = [run EXCEPT ![r].pc = label]

StartRun(r) ==
  /\ retryTimer
  /\ run[r].pc = "off"
  /\ retryTimer' = FALSE
  /\ Goto(r, "fetch")
  /\ UNCHANGED <<server, device, cursor, ready, flushRequested, drain, socket, messages,
                 recorded, budget>>

\* The session is bootstrapped and the server reads the workspace's state.
FetchState(r) ==
  /\ run[r].pc = "fetch"
  /\ run' = [run EXCEPT ![r] = [pc |-> "accept", base |-> Len(log)]]
  /\ UNCHANGED <<server, device, cursor, flushing, socket, messages, recorded, budget>>

\* What merging prevents: the fetched state in place of the replica.
AcceptStateReplacing(r) ==
  /\ run[r].pc = "accept"
  /\ cursor' = Larger(cursor, run[r].base)
  /\ live' = UpTo(run[r].base)
  /\ Goto(r, "connect")
  /\ UNCHANGED <<server, outbox, receipts, flushing, socket, messages, recorded, budget>>

\* What accepting every surface prevents: a state taken only by an empty page.
AcceptStateOnce(r) ==
  /\ run[r].pc = "accept"
  /\ cursor' = Larger(cursor, run[r].base)
  /\ live' = IF live = {} THEN UpTo(run[r].base) ELSE live
  /\ Goto(r, "connect")
  /\ UNCHANGED <<server, outbox, receipts, flushing, socket, messages, recorded, budget>>

\* The answer arrives: #advanceCursor, acceptRemoteState for every surface.
AcceptState(r) ==
  /\ run[r].pc = "accept"
  /\ cursor' = Larger(cursor, run[r].base)
  /\ live' = live \cup UpTo(run[r].base)
  /\ Goto(r, "connect")
  /\ UNCHANGED <<server, outbox, receipts, flushing, socket, messages, recorded, budget>>

\* #openSocket closes the previous socket and asks for what follows #cursor.
OpenSocket(r) ==
  /\ run[r].pc = "connect"
  /\ socket' = [NoSocket EXCEPT !.run = r, !.after = cursor]
  /\ Goto(r, "opening")
  /\ UNCHANGED <<server, device, cursor, flushing, messages, recorded, budget>>

\* The server subscribes the new socket and the client sees it open.
SocketOpens(r) ==
  /\ run[r].pc = "opening"
  /\ socket.run = r
  /\ socket' = [socket EXCEPT !.open = TRUE, !.from = Len(log)]
  /\ ready' = TRUE
  /\ IF drain.pc = "none"
     THEN drain' = Listing /\ flushRequested' = FALSE
     ELSE flushRequested' = TRUE /\ UNCHANGED drain
  /\ Goto(r, "flushing")
  /\ UNCHANGED <<server, device, cursor, retryTimer, messages, recorded, budget>>

\* Its requests fail or the socket does not open.
RunFails(r) ==
  /\ run[r].pc \in {"fetch", "accept", "opening"}
  /\ failures < MaxFailures
  /\ failures' = failures + 1
  /\ Goto(r, "off")
  /\ socket' = IF run[r].pc = "opening" /\ socket.run = r THEN NoSocket ELSE socket
  /\ ScheduleRetry
  /\ UNCHANGED <<server, device, cursor, flushRequested, drain, messages, recorded, reloads>>

\* Another run closed the socket this one was opening.
RunReplaced(r) ==
  /\ run[r].pc = "opening"
  /\ socket.run # r
  /\ Goto(r, "off")
  /\ ScheduleRetry
  /\ UNCHANGED <<server, device, cursor, flushRequested, drain, socket, messages, recorded,
                 budget>>

-----------------------------------------------------------------------------
(***************************************************************************)
(* The stream.                                                             *)
(***************************************************************************)

SocketBreaks ==
  /\ socket.open
  /\ failures < MaxFailures
  /\ failures' = failures + 1
  /\ socket' = NoSocket
  /\ ScheduleRetry
  /\ UNCHANGED <<server, device, cursor, flushRequested, drain, run, messages, recorded, reloads>>

\* #sendHistory queries the journal.
ReadHistory ==
  /\ socket.open
  /\ ~socket.history
  /\ socket' = [socket EXCEPT !.history = TRUE, !.upto = Len(log)]
  /\ UNCHANGED <<server, device, cursor, flushing, run, messages, recorded, budget>>

\* What the history query prevents: only what commits from now on is sent.
SentLive(op, form) ==
  op \in Committed /\ form = "fresh" /\ Position(op) > socket.from

\* What the server sends on the open socket.
Sent(op, form) ==
  /\ op \in Committed
  /\ \/ form = "fresh" /\ Position(op) > socket.from
     \/ form = "stored" /\ socket.after < Position(op) /\ Position(op) <= socket.upto

\* #acceptMessage up to acknowledge: the operation is in the replica.
Deliver(op, form) ==
  /\ socket.open
  /\ Sent(op, form)
  /\ <<op, form>> \notin socket.sent \cup messages
  /\ socket' = [socket EXCEPT !.sent = @ \cup {<<op, form>>}]
  /\ messages' = messages \cup {<<op, form>>}
  /\ live' = live \cup {op}
  /\ UNCHANGED <<server, outbox, receipts, cursor, flushing, run, recorded, budget>>

\* Its acknowledge; a conflicting receipt ends #acceptMessage there.
AcceptMessage(op, form) ==
  /\ <<op, form>> \in messages
  /\ messages' = messages \ {<<op, form>>}
  /\ outbox' = {q \in outbox : q.op # op}
  /\ receipts' = [receipts EXCEPT ![op] = "committed"]
  /\ IF Conflicting(op, form)
     THEN UNCHANGED <<cursor, recorded>>
     ELSE /\ recorded' = [recorded EXCEPT ![op] = form]
          /\ cursor' = Larger(cursor, Position(op))
  /\ UNCHANGED <<server, live, flushing, run, socket, budget>>

-----------------------------------------------------------------------------
\* The page is closed; what it has sent stays sent.  Opening it again loads
\* the durable replica and starts with an empty session.
Reload ==
  /\ reloads < MaxReloads
  /\ reloads' = reloads + 1
  /\ cursor' = 0
  /\ ready' = FALSE /\ flushRequested' = FALSE /\ retryTimer' = FALSE /\ drain' = IdleDrain
  /\ run' = OpenPage
  /\ socket' = NoSocket
  /\ messages' = {}
  /\ recorded' = [op \in Operation |-> "none"]
  /\ wire' = wire \cup InFlight
  /\ UNCHANGED <<log, device, failures>>

Client ==
  \/ ListOutbox \/ Acknowledge \/ FetchRepairState \/ ListForRepair \/ InstallRepair
  \/ \E r \in Run : StartRun(r) \/ FetchState(r) \/ AcceptState(r) \/ OpenSocket(r)
                     \/ SocketOpens(r) \/ RunReplaced(r)

Server == Submit \/ (\E q \in wire : SubmitLate(q)) \/ ReadHistory

Stream == \E op \in Operation, form \in Form : Deliver(op, form) \/ AcceptMessage(op, form)

Failure == DrainFails \/ (\E r \in Run : RunFails(r)) \/ SocketBreaks \/ Reload

Next ==
  \/ \E op \in Operation : Dispatch(op) \/ RemoteCommit(op)
  \/ Client \/ Server \/ Stream \/ Failure

Spec == Init /\ [][Next]_vars

\* Timers fire, promises settle and requests are answered: every await of the
\* page goes on, and so does the server.  Edits, other devices, failures,
\* reloads and POSTs whose sender has given up are free.  A socket that is
\* tried again and again opens: the pause before each new attempt doubles to
\* 30 seconds, and an attempt to open ends after 8, so that in the end no later
\* run closes it while it is opening.
FairSpec ==
  /\ Spec
  /\ WF_vars(ListOutbox) /\ WF_vars(Acknowledge)
  /\ WF_vars(FetchRepairState) /\ WF_vars(ListForRepair) /\ WF_vars(InstallRepair)
  /\ \A r \in Run :
       /\ WF_vars(FetchState(r)) /\ WF_vars(AcceptState(r))
       /\ WF_vars(OpenSocket(r)) /\ SF_vars(SocketOpens(r)) /\ WF_vars(RunReplaced(r))
  /\ WF_vars(\E r \in Run : StartRun(r))
  /\ WF_vars(Submit) /\ WF_vars(ReadHistory)
  /\ \A op \in Operation, form \in Form :
       WF_vars(Deliver(op, form)) /\ WF_vars(AcceptMessage(op, form))

-----------------------------------------------------------------------------
(***************************************************************************)
(* Properties.                                                             *)
(***************************************************************************)

\* One ordered durable send queue: the server accepts the device's operations
\* in the order they were dispatched, across retries, repairs, reloads and
\* requests that arrive after their sender has given up.
SendsInOrder ==
  \A i, j \in DOMAIN log :
    i < j /\ {log[i], log[j]} \subseteq Own => Turn[log[i]] < Turn[log[j]]

\* A receipt tells the truth: what it calls committed is in the journal, and
\* what it calls rejected is not and never will be, whatever is still on the
\* wire; "a rejected operation is absent" also here, from the documents and
\* from the queue.
ReceiptsAreTrue ==
  /\ \A op \in Operation :
       /\ receipts[op] = "committed" => op \in Committed
       /\ receipts[op] = "rejected" => op \notin Committed
  /\ \A op \in Own :
       receipts[op] = "rejected" => op \notin live /\ \A q \in outbox : q.op # op

\* "An outbox record remains until its committed receipt is stored": an
\* operation whose receipt says queued is in the queue.
NoLostWork == \A op \in Own : receipts[op] = "queued" => \E q \in outbox : q.op = op

\* Nothing made on top of a rejected operation survives its repair.
DependentsGo ==
  \A op \in Own : \A o \in Basis[op] :
    receipts[o] = "rejected" => \A q \in outbox : q.op # op

\* Receipts only advance: from queued to committed or rejected, and no further.
ReceiptsAreFinal ==
  [][\A op \in Operation :
       receipts[op] \in {"committed", "rejected"} => receipts'[op] = receipts[op]]_vars

\* A connection that asks for what follows the cursor misses nothing: the
\* replica holds everything up to it.
NoGap == socket.open => UpTo(socket.after) \subseteq live

\* A committed operation the replica has shown stays in it.
CommittedStays == [][live \cap Committed \subseteq live']_vars

\* HTTP answer and broadcast leave one identical receipt.
OneReceiptForm ==
  /\ drain.pc = "answer" /\ drain.reply.kind \in Form =>
       ~Conflicting(Head(drain.rest).op, drain.reply.kind)
  /\ \A m \in messages : ~Conflicting(m[1], m[2])

\* Every queued operation gets its receipt.
EveryEditSettles ==
  \A op \in Own : receipts[op] = "queued" ~> receipts[op] # "queued"

\* An operation that is committed while a device is connected reaches it.
EveryCommitArrives ==
  \A op \in Operation : op \in Committed ~> op \in live
=============================================================================
