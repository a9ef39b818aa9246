-------------------------- MODULE SyncClientProofs --------------------------
(***************************************************************************)
(* SyncClient for any operations, runs and number of failures and reloads: *)
(* the server accepts a device's operations in the order they were made,   *)
(* and receipts tell the truth and are final.  Of operations no other      *)
(* device disputes none is refused or lost, and what is committed stays in *)
(* the replica.                                                            *)
(*                                                                         *)
(* The assumption that no two edits are made in one millisecond is needed: *)
(* createdAt orders the queue.                                             *)
(***************************************************************************)
EXTENDS SyncClient, FiniteSetTheorems, TLAPS

\* No two edits of this device have one createdAt.
StampsDiffer == \A o, p \in Own : Turn[o] < Turn[p] => Stamp[o] < Stamp[p]

OwnCommitted == Own \cap Committed

Ops(queue) == {q.op : q \in queue}

\* No state from here on makes the record acceptable.
Dead(q) ==
  \/ q.op \in Malformed
  \/ \E o \in Committed : Touches[o] \cap Creates[q.op] # {}
  \/ \E o \in Committed : o \in Rivals[q.op] /\ o \notin q.basis

\* The records of a queue are of different operations, each made on top of what
\* is committed and of earlier ones.
IsQueue(queue) ==
  /\ IsFiniteSet(queue)
  /\ \A p, q \in queue : p.op = q.op => p = q
  /\ \A q \in queue : q.basis \subseteq Rivals[q.op]
  /\ \A q \in queue : \A o \in q.basis :
       o \in Committed \/ \E p \in queue : p.op = o /\ Turn[p.op] < Turn[q.op]

\* Edits are made one after the other; what was sent or committed was made.
MadeInv ==
  /\ \A o, p \in Own : receipts[o] # "none" /\ receipts[p] # "none" /\ Turn[o] = Turn[p] => o = p
  /\ \A o \in OwnCommitted : receipts[o] # "none"
  /\ \A q \in wire : receipts[q.op] # "none"
  /\ \A o \in Operation : receipts[o] = "rejected" => o \in Own

OutboxInv ==
  /\ IsQueue(outbox)
  /\ \A q \in outbox : receipts[q.op] = "queued"
  /\ live \subseteq Committed \cup Ops(outbox)
  /\ \A q \in outbox : q.op \notin Committed => \A o \in OwnCommitted : Turn[o] < Turn[q.op]

\* The first of the queue, and all it was made on is committed.
Foremost(q) ==
  /\ q \in outbox
  /\ q.basis \subseteq Committed
  /\ \A p \in outbox : Turn[q.op] <= Turn[p.op]

WireInv == \A q \in wire : q.op \in Committed \/ Dead(q) \/ Foremost(q)

\* Rest is what was listed and is still to be sent.
RestInv ==
  LET rest == drain.rest IN
  /\ rest # <<>> <=> drain.pc \in {"post", "answer", "repairState", "install"}
  /\ \A i, j \in DOMAIN rest : i < j => Turn[rest[i].op] < Turn[rest[j].op]
  /\ \A i \in DOMAIN rest : /\ rest[i] \in outbox \/ rest[i].op \in Committed
                            /\ receipts[rest[i].op] # "none"
  /\ \A q \in outbox, i \in DOMAIN rest :
       (\E j \in DOMAIN rest : rest[j] = q) \/ Turn[rest[i].op] < Turn[q.op]

Rejecting ==
  \/ drain.pc = "answer" /\ drain.reply.kind = "rejected"
  \/ drain.pc \in {"repairState", "install"}

AnswerInv ==
  /\ drain.pc = "answer" => drain.reply.kind # "none"
  /\ drain.pc = "answer" /\ drain.reply.kind \in Form => drain.rest[1].op \in Committed
  /\ Rejecting => /\ drain.rest[1] \in outbox
                  /\ drain.rest[1].op \notin Committed
                  /\ Dead(drain.rest[1])

\* The plan of a repair is still right when it is installed.
PlanInv ==
  LET plan == drain.plan IN
  drain.pc = "install" =>
    /\ IsQueue(plan.queued)
    /\ plan.docs \subseteq Committed \cup Ops(plan.queued)
    /\ \A q \in plan.queued : /\ receipts[q.op] = "queued"
                              /\ q.op \notin Committed
                              /\ Turn[drain.rest[1].op] < Turn[q.op]
    /\ \A o \in plan.rejected : o \in Own /\ receipts[o] = "queued" /\ o \notin Committed \cup Ops(plan.queued)

\* What the page has read of the journal is a beginning of it.
BaseInv ==
  /\ drain.base <= Len(log) /\ drain.reply.sequence <= Len(log)
  /\ \A r \in Run : run[r].base <= Len(log)
  /\ \A m \in messages : m[1] \in Committed

QueueInv ==
  /\ TypeOK /\ MadeInv /\ OutboxInv /\ WireInv /\ RestInv /\ AnswerInv /\ PlanInv /\ BaseInv
  /\ SendsInOrder /\ ReceiptsAreTrue

\* No other device writes an element that this one writes or touches a surface
\* that this one makes, and none of its operations is malformed.
Undisputed ==
  \A op \in Own :
    /\ op \notin Malformed
    /\ Rivals[op] \subseteq Own
    /\ \A o \in Operation \ Own : Touches[o] \cap Creates[op] = {}

\* A record knows all that was made before it.
Knowing(q) ==
  \A o \in Own : receipts[o] # "none" /\ Turn[o] < Turn[q.op] =>
    /\ Touches[o] \cap Creates[q.op] = {}
    /\ o \in Rivals[q.op] => o \in q.basis

\* Nothing has been rejected: all that was made is shown, and is in the queue
\* until it has its receipt.
CalmInv ==
  /\ ~Rejecting
  /\ \A op \in Own : receipts[op] # "none" => op \in live
  /\ \A op \in Operation : receipts[op] # "rejected"
  /\ \A q \in outbox : Knowing(q)
  /\ NoLostWork

-----------------------------------------------------------------------------
Receipt == {"none", "queued", "committed", "rejected"}
Reply == [kind : {"none", "rejected"} \cup Form, sequence : Nat]
Plan == [queued : SUBSET Record, rejected : SUBSET Operation, docs : SUBSET Operation]
DrainState == [pc : {"none", "list", "post", "answer", "repairState", "repairList", "install"},
               rest : Seq(Record), reply : Reply, base : Nat, plan : Plan]
RunState == [pc : {"off", "fetch", "accept", "connect", "opening", "flushing"}, base : Nat]
SocketState == [run : Run \cup {"none"}, open : BOOLEAN, after : Nat, from : Nat,
                upto : Nat, history : BOOLEAN, sent : SUBSET (Operation \X Form)]

LEMMA Typed ==
  ASSUME TypeOK
  PROVE  /\ log \in Seq(Operation) /\ Len(log) \in Nat
         /\ wire \subseteq Record /\ outbox \subseteq Record
         /\ receipts \in [Operation -> Receipt] /\ live \subseteq Operation
         /\ cursor \in Nat /\ cursor <= Len(log)
         /\ ready \in BOOLEAN /\ flushRequested \in BOOLEAN /\ retryTimer \in BOOLEAN
         /\ drain \in DrainState /\ run \in [Run -> RunState] /\ socket \in SocketState
         /\ messages \subseteq Operation \X Form
         /\ recorded \in [Operation -> {"none"} \cup Form]
         /\ failures \in 0..MaxFailures /\ reloads \in 0..MaxReloads
  BY DEF TypeOK, Receipt, Reply, Plan, DrainState, RunState, SocketState

\* TypeOK of the next state, from its parts.
LEMMA TypedNext ==
  ASSUME /\ log' \in Seq(Operation) /\ wire' \subseteq Record /\ outbox' \subseteq Record
         /\ receipts' \in [Operation -> Receipt] /\ live' \subseteq Operation,
         cursor' \in 0..Len(log'),
         /\ ready' \in BOOLEAN /\ flushRequested' \in BOOLEAN /\ retryTimer' \in BOOLEAN
         /\ drain' \in DrainState,
         run' \in [Run -> RunState],
         /\ socket' \in SocketState /\ messages' \subseteq Operation \X Form
         /\ recorded' \in [Operation -> {"none"} \cup Form],
         failures' \in 0..MaxFailures /\ reloads' \in 0..MaxReloads
  PROVE  TypeOK'
  BY DEF TypeOK, Receipt, Reply, Plan, DrainState, RunState, SocketState

LEMMA RestingFields ==
  /\ IdleDrain \in DrainState /\ Listing \in DrainState
  /\ IdleDrain.pc = "none" /\ Listing.pc = "list"
  /\ IdleDrain.rest = <<>> /\ Listing.rest = <<>>
  /\ IdleDrain.reply.kind = "none" /\ Listing.reply.kind = "none"
  /\ IdleDrain.reply.sequence = 0 /\ Listing.reply.sequence = 0
  /\ IdleDrain.base = 0 /\ Listing.base = 0
<1>1. <<>> \in Seq(Record)
  OBVIOUS
<1>2. NoReply \in Reply /\ NoReply.kind = "none" /\ NoReply.sequence = 0
  BY DEF NoReply, Reply
<1>3. NoPlan \in Plan
  BY DEF NoPlan, Plan
<1>4. Listing = [pc |-> "list", rest |-> <<>>, reply |-> NoReply, base |-> 0, plan |-> NoPlan]
  BY DEF Listing, IdleDrain
<1>5. QED
  BY <1>1, <1>2, <1>3, <1>4 DEF IdleDrain, DrainState

\* A POST of the drain.
Posting(rest) == [pc |-> "post", rest |-> rest, reply |-> NoReply, base |-> 0, plan |-> NoPlan]

LEMMA PostingIs ==
  ASSUME NEW rest
  PROVE  [IdleDrain EXCEPT !.pc = "post", !.rest = rest] = Posting(rest)
<1> DEFINE first == [pc |-> "post", rest |-> <<>>, reply |-> NoReply, base |-> 0, plan |-> NoPlan]
<1>1. [IdleDrain EXCEPT !.pc = "post"] = first
  BY DEF IdleDrain
<1>2. [first EXCEPT !.rest = rest] = Posting(rest)
  BY DEF Posting
<1>3. [IdleDrain EXCEPT !.pc = "post", !.rest = rest]
        = [[IdleDrain EXCEPT !.pc = "post"] EXCEPT !.rest = rest]
  BY Zenon DEF IdleDrain
<1>4. QED
  BY <1>1, <1>2, <1>3

LEMMA PostingFields ==
  ASSUME NEW rest \in Seq(Record)
  PROVE  /\ [IdleDrain EXCEPT !.pc = "post", !.rest = rest] = Posting(rest)
         /\ Posting(rest) \in DrainState
         /\ Posting(rest).reply.kind = "none" /\ Posting(rest).reply.sequence = 0
<1>1. NoReply \in Reply /\ NoReply.kind = "none" /\ NoReply.sequence = 0
  BY DEF NoReply, Reply
<1>2. NoPlan \in Plan
  BY DEF NoPlan, Plan
<1>3. Posting(rest) \in DrainState
  BY <1>1, <1>2 DEF Posting, DrainState
<1>4. QED
  BY <1>1, <1>3, PostingIs DEF Posting

LEMMA GotoFields ==
  ASSUME TypeOK, NEW r \in Run, NEW label \in {"off", "fetch", "connect", "opening", "flushing"},
         Goto(r, label)
  PROVE  run' \in [Run -> RunState] /\ \A s \in Run : run'[s].base = run[s].base
<1>1. run \in [Run -> RunState] /\ run[r] \in RunState
  BY Typed
<1>2. run' = [run EXCEPT ![r] = [run[r] EXCEPT !.pc = label]]
  BY <1>1 DEF Goto
<1>3. [run[r] EXCEPT !.pc = label] \in RunState /\ [run[r] EXCEPT !.pc = label].base = run[r].base
  BY <1>1 DEF RunState
<1>4. QED
  BY <1>1, <1>2, <1>3

LEMMA EndFlushingFields ==
  ASSUME TypeOK, EndFlushing
  PROVE  run' \in [Run -> RunState] /\ \A s \in Run : run'[s].base = run[s].base
<1>1. run \in [Run -> RunState]
  BY Typed
<1>2. ASSUME NEW s \in Run
      PROVE  /\ [run[s] EXCEPT !.pc = "off"] \in RunState
             /\ [run[s] EXCEPT !.pc = "off"].base = run[s].base
  BY <1>1 DEF RunState
<1>3. QED
  BY <1>1, <1>2 DEF EndFlushing

LEMMA ContinueFields ==
  ASSUME TypeOK, NEW rest \in Seq(Record), NEW requested \in BOOLEAN, Continue(rest, requested)
  PROVE  /\ flushRequested' \in BOOLEAN
         /\ run' \in [Run -> RunState] /\ \A s \in Run : run'[s].base = run[s].base
         /\ IF rest = <<>> THEN drain' \in {IdleDrain, Listing} ELSE drain' = Posting(rest)
<1>1. run \in [Run -> RunState]
  BY Typed
<1>2. CASE rest # <<>>
  BY <1>1, <1>2, PostingFields DEF Continue
<1>3. CASE rest = <<>> /\ requested /\ ready
  BY <1>1, <1>3 DEF Continue
<1>4. CASE rest = <<>> /\ ~(requested /\ ready)
  BY <1>4, EndFlushingFields DEF Continue
<1>5. QED
  BY <1>2, <1>3, <1>4

LEMMA ScheduleRetryFields ==
  ASSUME TypeOK, ScheduleRetry
  PROVE  ready' \in BOOLEAN /\ retryTimer' \in BOOLEAN
  BY Typed DEF ScheduleRetry

LEMMA DrainThrowsFields ==
  ASSUME TypeOK, DrainThrows
  PROVE  /\ flushRequested' \in BOOLEAN /\ ready' \in BOOLEAN /\ retryTimer' \in BOOLEAN
         /\ run' \in [Run -> RunState] /\ \A s \in Run : run'[s].base = run[s].base
         /\ drain' \in {IdleDrain, Listing}
  BY Typed, EndFlushingFields, ScheduleRetryFields DEF DrainThrows

LEMMA RequestFlushFields ==
  ASSUME TypeOK, RequestFlush
  PROVE  /\ flushRequested' \in BOOLEAN
         /\ drain' = drain \/ (drain.pc = "none" /\ drain' = Listing)
  BY Typed DEF RequestFlush

-----------------------------------------------------------------------------
LEMMA CommittedFields ==
  ASSUME TypeOK
  PROVE  /\ Committed \subseteq Operation
         /\ DOMAIN log = 1..Len(log)
         /\ \A n \in Nat : n <= Len(log) => UpTo(n) \subseteq Committed
         /\ \A o \in Committed : Position(o) \in 1..Len(log)
<1>1. log \in Seq(Operation)
  BY Typed
<1>2. Committed = {log[i] : i \in 1..Len(log)} /\ DOMAIN log = 1..Len(log)
  BY <1>1 DEF Committed, Range
<1>3. ASSUME NEW o \in Committed
      PROVE  Position(o) \in 1..Len(log)
  <2>1. \E i \in DOMAIN log : log[i] = o
    BY <1>2
  <2>2. QED
    BY <1>2, <2>1 DEF Position
<1>4. QED
  BY <1>1, <1>2, <1>3 DEF UpTo

LEMMA AppendFields ==
  ASSUME TypeOK, NEW op \in Operation, log' = Append(log, op)
  PROVE  /\ log' \in Seq(Operation) /\ Len(log') = Len(log) + 1
         /\ Committed' = Committed \cup {op}
         /\ \A i \in 1..Len(log) : log'[i] = log[i]
         /\ log'[Len(log) + 1] = op
         /\ DOMAIN log' = 1..(Len(log) + 1)
<1>1. log \in Seq(Operation) /\ Len(log) \in Nat
  BY Typed
<1>2. /\ log' \in Seq(Operation) /\ Len(log') = Len(log) + 1
      /\ \A i \in 1..Len(log) : log'[i] = log[i]
      /\ log'[Len(log) + 1] = op
      /\ DOMAIN log' = 1..(Len(log) + 1) /\ DOMAIN log = 1..Len(log)
  BY <1>1
<1>3. Committed' = Committed \cup {op}
  <2>1. Committed = {log[i] : i \in 1..Len(log)}
    BY <1>2 DEF Committed, Range
  <2>2. Committed' = {log'[i] : i \in 1..(Len(log) + 1)}
    BY <1>2 DEF Committed, Range
  <2>3. 1..(Len(log) + 1) = (1..Len(log)) \cup {Len(log) + 1}
    BY <1>1
  <2>4. QED
    BY <1>2, <2>1, <2>2, <2>3
<1>4. QED
  BY <1>2, <1>3

\* A record that is dead stays dead, and is not accepted.
LEMMA DeadStays ==
  ASSUME NEW q, Dead(q), Committed \subseteq Committed'
  PROVE  Dead(q)'
  BY DEF Dead

LEMMA DeadIsInadmissible ==
  ASSUME NEW q, Dead(q)
  PROVE  ~AdmissibleOn(q.op, q.basis, Committed)
  BY DEF Dead, AdmissibleOn

\* What the server refuses although all it was made on is committed is dead.
LEMMA RefusedIsDead ==
  ASSUME TypeOK, NEW q \in Record, q.basis \subseteq Committed, q.basis \subseteq Rivals[q.op],
         ~AdmissibleOn(q.op, q.basis, Committed)
  PROVE  Dead(q)
  BY DEF Dead, AdmissibleOn

LEMMA RestFields ==
  ASSUME TypeOK, RestInv
  PROVE  /\ drain.rest \in Seq(Record) /\ DOMAIN drain.rest = 1..Len(drain.rest)
         /\ drain.pc \in {"post", "answer", "repairState", "install"} =>
              /\ drain.rest # <<>> /\ 1 \in DOMAIN drain.rest
              /\ Head(drain.rest) = drain.rest[1] /\ drain.rest[1] \in Record
         /\ drain.pc \notin {"post", "answer", "repairState", "install"} => drain.rest = <<>>
<1>1. drain.rest \in Seq(Record)
  BY Typed DEF DrainState
<1>2. QED
  BY <1>1 DEF RestInv

\* The record that is sent is committed or the first of the queue.
LEMMA InFlightIsForemost ==
  ASSUME QueueInv, drain.pc \in {"post", "answer"}, drain.rest[1].op \notin Committed
  PROVE  Foremost(drain.rest[1])
<1> DEFINE q == drain.rest[1]
<1>1. q \in Record /\ DOMAIN drain.rest = 1..Len(drain.rest) /\ 1 \in DOMAIN drain.rest
  BY RestFields DEF QueueInv
<1>2. q \in outbox
  BY <1>1 DEF QueueInv, RestInv
<1>3. outbox \subseteq Record /\ Turn \in [Operation -> Nat] /\ Own \subseteq Operation
  BY Typed, StampAssumption, OwnAssumption DEF QueueInv
<1>4. ASSUME NEW p \in outbox
      PROVE  Turn[q.op] <= Turn[p.op]
  <2>1. CASE \E j \in DOMAIN drain.rest : drain.rest[j] = p
    <3>1. PICK j \in DOMAIN drain.rest : drain.rest[j] = p
      BY <2>1
    <3>2. CASE j = 1
      BY <1>1, <1>3, <3>1, <3>2 DEF Record
    <3>3. CASE j # 1
      <4>1. 1 < j
        BY <1>1, <3>1, <3>3
      <4>2. Turn[q.op] < Turn[p.op]
        BY <1>1, <3>1, <4>1 DEF QueueInv, RestInv
      <4>3. QED
        BY <1>1, <1>3, <4>2 DEF Record
    <3>4. QED
      BY <3>2, <3>3
  <2>2. CASE Turn[q.op] < Turn[p.op]
    BY <1>1, <1>3, <2>2 DEF Record
  <2>3. QED
    BY <1>1, <2>1, <2>2 DEF QueueInv, RestInv
<1>5. q.basis \subseteq Committed
  <2>1. SUFFICES ASSUME NEW o \in q.basis, NEW p \in outbox, Turn[p.op] < Turn[q.op]
                 PROVE  FALSE
    BY <1>2 DEF QueueInv, OutboxInv, IsQueue
  <2>2. QED
    BY <1>1, <1>3, <1>4, <2>1 DEF Record
<1>6. QED
  BY <1>2, <1>4, <1>5 DEF Foremost

\* While a repair is under way, nothing that is on its way can be accepted.
LEMMA NothingElseIsSent ==
  ASSUME QueueInv, Rejecting, NEW q \in wire
  PROVE  q.op \in Committed \/ Dead(q)
<1> DEFINE bad == drain.rest[1]
<1>1. bad \in outbox /\ bad.op \notin Committed /\ Dead(bad)
  BY DEF QueueInv, AnswerInv
<1>2. SUFFICES ASSUME Foremost(q)
               PROVE  q = bad
  BY <1>1 DEF QueueInv, WireInv
<1>3. /\ outbox \subseteq Record /\ Turn \in [Operation -> Nat] /\ Own \subseteq Operation
      /\ DOMAIN drain.rest = 1..Len(drain.rest) /\ 1 \in DOMAIN drain.rest
  BY Typed, StampAssumption, OwnAssumption, RestFields DEF QueueInv, Rejecting
<1>4. q \in outbox /\ Turn[q.op] <= Turn[bad.op]
  BY <1>1, <1>2 DEF Foremost
<1>5. ~(Turn[bad.op] < Turn[q.op])
  BY <1>1, <1>3, <1>4 DEF Record
<1>6. PICK j \in DOMAIN drain.rest : drain.rest[j] = q
  BY <1>3, <1>4, <1>5 DEF QueueInv, RestInv
<1>7. QED
  BY <1>3, <1>5, <1>6 DEF QueueInv, RestInv

-----------------------------------------------------------------------------
\* The parts of the invariant that speak of a drain hold of one at rest.
LEMMA RestingDrain ==
  ASSUME drain' \in {IdleDrain, Listing}, TypeOK'
  PROVE  /\ RestInv' /\ AnswerInv' /\ PlanInv'
         /\ drain'.base = 0 /\ drain'.reply.sequence = 0
<1>1. drain'.rest = <<>> /\ drain'.pc \in {"none", "list"}
      /\ drain'.base = 0 /\ drain'.reply.sequence = 0
  BY RestingFields
<1>2. DOMAIN drain'.rest = {}
  BY <1>1
<1>3. RestInv'
  BY <1>1, <1>2 DEF RestInv
<1>4. AnswerInv' /\ PlanInv'
  BY <1>1 DEF AnswerInv, PlanInv, Rejecting
<1>5. QED
  BY <1>1, <1>3, <1>4

\* ReceiptsAreTrue is about receipts and the journal: the rest follows.
LEMMA Truth ==
  ASSUME TypeOK', OutboxInv',
         \A op \in Operation : /\ receipts'[op] = "committed" => op \in Committed'
                               /\ receipts'[op] = "rejected" => op \notin Committed'
  PROVE  ReceiptsAreTrue'
<1>1. ASSUME NEW op \in Own, receipts'[op] = "rejected"
      PROVE  op \notin live' /\ \A q \in outbox' : q.op # op
  <2>1. \A q \in outbox' : q.op # op
    BY <1>1 DEF OutboxInv
  <2>2. op \notin Committed' /\ op \notin Ops(outbox)'
    BY <1>1, <2>1, OwnAssumption DEF Ops
  <2>3. QED
    BY <2>1, <2>2 DEF OutboxInv
<1>2. QED
  BY <1>1 DEF ReceiptsAreTrue

\* Steps that leave the journal, the queue and the receipts alone; the drain
\* goes on or ends, and what it was sending stays on its way.
LEMMA QuietStep ==
  ASSUME QueueInv, TypeOK', UNCHANGED <<log, outbox, receipts>>,
         wire' \subseteq wire \cup InFlight,
         live' \subseteq live \cup Committed,
         drain' \in {drain, IdleDrain, Listing},
         \A r \in Run : run'[r].base <= Len(log),
         \A m \in messages' : m[1] \in Committed
  PROVE  QueueInv'
<1>1. Committed' = Committed /\ OwnCommitted' = OwnCommitted
  BY DEF Committed, OwnCommitted
<1>2. ASSUME NEW q \in InFlight
      PROVE  /\ q.op \in Committed \/ Foremost(q)
             /\ receipts[q.op] # "none"
  <2>1. drain.pc = "post" /\ q = drain.rest[1] /\ 1 \in DOMAIN drain.rest
    BY <1>2, RestFields DEF InFlight, QueueInv
  <2>2. QED
    BY <2>1, InFlightIsForemost DEF QueueInv, RestInv
<1>3. MadeInv'
  BY <1>1, <1>2 DEF QueueInv, MadeInv
<1>4. OutboxInv'
  BY <1>1 DEF QueueInv, OutboxInv, IsQueue, Ops
<1>5. WireInv'
  <2>1. ASSUME NEW q \in wire'
        PROVE  q.op \in Committed \/ Dead(q) \/ Foremost(q)
    BY <1>2 DEF QueueInv, WireInv
  <2>2. QED
    BY <1>1, <2>1 DEF WireInv, Dead, Foremost
<1>6. RestInv' /\ AnswerInv' /\ PlanInv' /\ drain'.base <= Len(log) /\ drain'.reply.sequence <= Len(log)
  <2>1. CASE drain' = drain
    <3>1. RestInv'
      BY <1>1, <2>1 DEF QueueInv, RestInv
    <3>2. AnswerInv'
      BY <1>1, <2>1 DEF QueueInv, AnswerInv, Rejecting, Dead
    <3>3. PlanInv'
      BY <1>1, <2>1 DEF QueueInv, PlanInv, IsQueue, Ops
    <3>4. QED
      BY <2>1, <3>1, <3>2, <3>3 DEF QueueInv, BaseInv
  <2>2. CASE drain' \in {IdleDrain, Listing}
    BY <2>2, RestingDrain, Typed DEF QueueInv
  <2>3. QED
    BY <2>1, <2>2
<1>7. BaseInv'
  BY <1>1, <1>6 DEF BaseInv
<1>8. SendsInOrder'
  BY DEF QueueInv, SendsInOrder
<1>9. ReceiptsAreTrue'
  BY <1>1, <1>4, Truth DEF QueueInv, ReceiptsAreTrue
<1>10. QED
  BY <1>3, <1>4, <1>5, <1>6, <1>7, <1>8, <1>9 DEF QueueInv

-----------------------------------------------------------------------------
LEMMA OpenPageFields ==
  OpenPage \in [Run -> RunState] /\ \A r \in Run : OpenPage[r].base = 0
  BY DEF OpenPage, RunState

LEMMA NoSocketFields == NoSocket \in SocketState
  BY DEF NoSocket, SocketState

LEMMA LargerFields ==
  ASSUME NEW m \in Nat, NEW n \in Nat, NEW k \in Nat, m <= k, n <= k
  PROVE  Larger(m, n) \in 0..k
  BY DEF Larger

LEMMA RunStep ==
  ASSUME QueueInv, NEW r \in Run,
         StartRun(r) \/ FetchState(r) \/ AcceptState(r) \/ OpenSocket(r) \/ SocketOpens(r)
           \/ RunFails(r) \/ RunReplaced(r)
  PROVE  QueueInv'
<1> USE Typed DEF QueueInv
<1>1. Len(log) \in Nat /\ \A s \in Run : run[s] \in RunState /\ run[s].base <= Len(log)
  BY DEF BaseInv
<1>2. CASE StartRun(r)
  <2>1. run' \in [Run -> RunState] /\ \A s \in Run : run'[s].base = run[s].base
    BY <1>2, GotoFields DEF StartRun
  <2>2. /\ UNCHANGED <<log, wire, outbox, receipts, live, cursor, ready, flushRequested, drain,
                       socket, messages, recorded, failures, reloads>>
        /\ retryTimer' \in BOOLEAN
    BY <1>2 DEF StartRun, server, device, budget
  <2>3. TypeOK'
    BY <1>1, <2>1, <2>2, TypedNext
  <2>4. QED
    BY <1>1, <2>1, <2>2, <2>3, QuietStep DEF BaseInv
<1>3. CASE FetchState(r)
  <2>1. [pc |-> "accept", base |-> Len(log)] \in RunState
    BY <1>1 DEF RunState
  <2>2. run' \in [Run -> RunState] /\ \A s \in Run : run'[s].base <= Len(log)
    BY <1>1, <1>3, <2>1 DEF FetchState
  <2>3. TypeOK'
    BY <1>3, <2>2, TypedNext DEF FetchState, server, device, flushing, budget
  <2>4. QED
    BY <1>3, <2>2, <2>3, QuietStep DEF FetchState, server, device, flushing, BaseInv
<1>4. CASE AcceptState(r)
  <2>1. run[r].base \in Nat /\ UpTo(run[r].base) \subseteq Committed /\ Committed \subseteq Operation
    BY <1>1, CommittedFields DEF RunState
  <2>2. TypeOK'
    BY <1>1, <1>4, <2>1, GotoFields, LargerFields, TypedNext DEF AcceptState, server, flushing, budget
  <2>3. QED
    BY <1>1, <1>4, <2>1, <2>2, GotoFields, QuietStep DEF AcceptState, server, flushing, BaseInv
<1>5. CASE OpenSocket(r)
  <2>1. socket' \in SocketState
    BY <1>5 DEF OpenSocket, NoSocket, SocketState
  <2>2. TypeOK'
    BY <1>5, <2>1, GotoFields, TypedNext DEF OpenSocket, server, device, flushing, budget
  <2>3. QED
    BY <1>1, <1>5, <2>2, GotoFields, QuietStep DEF OpenSocket, server, device, flushing, BaseInv
<1>6. CASE SocketOpens(r)
  <2>1. socket' \in SocketState
    <3>1. socket \in SocketState
      OBVIOUS
    <3>2. socket' = [socket EXCEPT !.open = TRUE, !.from = Len(log)]
      BY <1>6 DEF SocketOpens
    <3>3. QED
      BY <1>1, <3>1, <3>2 DEF SocketState
  <2>2. drain' \in {drain, Listing} /\ flushRequested' \in BOOLEAN
    BY <1>6 DEF SocketOpens
  <2>3. TypeOK'
    BY <1>6, <2>1, <2>2, GotoFields, RestingFields, TypedNext DEF SocketOpens, server, device, budget
  <2>4. QED
    BY <1>1, <1>6, <2>2, <2>3, GotoFields, QuietStep DEF SocketOpens, server, device, BaseInv
<1>7. CASE RunFails(r)
  <2>1. failures' \in 0..MaxFailures /\ socket' \in SocketState
    BY <1>7, BoundAssumption, NoSocketFields DEF RunFails
  <2>2. TypeOK'
    BY <1>7, <2>1, GotoFields, ScheduleRetryFields, TypedNext DEF RunFails, server, device
  <2>3. QED
    BY <1>1, <1>7, <2>2, GotoFields, QuietStep DEF RunFails, server, device, BaseInv
<1>8. CASE RunReplaced(r)
  <2>1. TypeOK'
    BY <1>8, GotoFields, ScheduleRetryFields, TypedNext DEF RunReplaced, server, device, budget
  <2>2. QED
    BY <1>1, <1>8, <2>1, GotoFields, QuietStep DEF RunReplaced, server, device, BaseInv
<1>9. QED
  BY <1>2, <1>3, <1>4, <1>5, <1>6, <1>7, <1>8

LEMMA StreamStep ==
  ASSUME QueueInv,
         \/ SocketBreaks \/ ReadHistory
         \/ \E op \in Operation, form \in Form : Deliver(op, form)
  PROVE  QueueInv'
<1> USE Typed DEF QueueInv
<1>1. Len(log) \in Nat /\ \A s \in Run : run[s] \in RunState /\ run[s].base <= Len(log)
  BY DEF BaseInv
<1>2. CASE SocketBreaks
  <2>1. failures' \in 0..MaxFailures
    BY <1>2, BoundAssumption DEF SocketBreaks
  <2>2. TypeOK'
    BY <1>2, <2>1, NoSocketFields, ScheduleRetryFields, TypedNext DEF SocketBreaks, server, device
  <2>3. QED
    BY <1>1, <1>2, <2>2, QuietStep DEF SocketBreaks, server, device, BaseInv
<1>3. CASE ReadHistory
  <2>1. socket' \in SocketState
    <3>1. socket \in SocketState
      OBVIOUS
    <3>2. socket' = [socket EXCEPT !.history = TRUE, !.upto = Len(log)]
      BY <1>3 DEF ReadHistory
    <3>3. QED
      BY <1>1, <3>1, <3>2 DEF SocketState
  <2>2. TypeOK'
    BY <1>3, <2>1, TypedNext DEF ReadHistory, server, device, flushing, budget
  <2>3. QED
    BY <1>1, <1>3, <2>2, QuietStep DEF ReadHistory, server, device, flushing, BaseInv
<1>4. ASSUME NEW op \in Operation, NEW form \in Form, Deliver(op, form)
      PROVE  QueueInv'
  <2>1. op \in Committed
    BY <1>4 DEF Deliver, Sent
  <2>2. socket' \in SocketState
    <3>1. socket \in SocketState /\ socket.sent \cup {<<op, form>>} \in SUBSET (Operation \X Form)
      BY DEF SocketState
    <3>2. socket' = [socket EXCEPT !.sent = socket.sent \cup {<<op, form>>}]
      BY <1>4 DEF Deliver
    <3>3. QED
      BY <3>1, <3>2 DEF SocketState
  <2>3. TypeOK'
    BY <1>4, <2>2, TypedNext DEF Deliver, server, flushing, budget
  <2>4. QED
    BY <1>1, <1>4, <2>1, <2>3, QuietStep DEF Deliver, server, flushing, BaseInv
<1>5. QED
  BY <1>2, <1>3, <1>4

LEMMA AbandonStep ==
  ASSUME QueueInv, DrainFails \/ Reload
  PROVE  QueueInv'
<1> USE Typed DEF QueueInv
<1>1. Len(log) \in Nat /\ \A s \in Run : run[s] \in RunState /\ run[s].base <= Len(log)
  BY DEF BaseInv
<1>2. InFlight \subseteq Record
  BY RestFields DEF InFlight
<1>3. CASE DrainFails
  <2>1. failures' \in 0..MaxFailures
    BY <1>3, BoundAssumption DEF DrainFails
  <2>2. wire' \subseteq wire \cup InFlight
    BY <1>3 DEF DrainFails
  <2>3. TypeOK'
    BY <1>2, <1>3, <2>1, <2>2, DrainThrowsFields, RestingFields, TypedNext DEF DrainFails, device
  <2>4. QED
    BY <1>1, <1>3, <2>2, <2>3, DrainThrowsFields, QuietStep DEF DrainFails, device, BaseInv
<1>4. CASE Reload
  <2>1. reloads' \in 0..MaxReloads /\ wire' = wire \cup InFlight
    BY <1>4, BoundAssumption DEF Reload
  <2>2. /\ recorded' \in [Operation -> {"none"} \cup Form] /\ cursor' \in 0..Len(log')
        /\ UNCHANGED <<log, outbox, receipts, live, failures>>
        /\ drain' = IdleDrain /\ run' = OpenPage /\ socket' = NoSocket /\ messages' = {}
    BY <1>1, <1>4 DEF Reload, device
  <2>3. TypeOK'
    BY <1>2, <1>4, <2>1, <2>2, OpenPageFields, NoSocketFields, RestingFields, TypedNext DEF Reload
  <2>4. QED
    BY <1>1, <2>1, <2>2, <2>3, OpenPageFields, QuietStep
<1>5. QED
  BY <1>3, <1>4

-----------------------------------------------------------------------------
\* An operation enters the journal: one of another device, or the first of the
\* queue while no repair is under way.
MayCommit(op) == op \in Own => \E q \in outbox : q.op = op /\ Foremost(q)

LEMMA TurnFields ==
  ASSUME TypeOK
  PROVE  /\ \A o \in Own : o \in Operation /\ Turn[o] \in Nat
         /\ \A q \in Record : q.op \in Own
         /\ outbox \subseteq Record
  BY Typed, StampAssumption, OwnAssumption DEF Record

LEMMA GrowthStep ==
  ASSUME QueueInv, TypeOK', NEW op \in Operation, op \notin Committed, log' = Append(log, op),
         UNCHANGED device, wire' \subseteq wire, UNCHANGED <<run, messages>>, MayCommit(op)
  PROVE  /\ MadeInv' /\ OutboxInv' /\ WireInv' /\ SendsInOrder' /\ ReceiptsAreTrue'
         /\ (\A r \in Run : run'[r].base <= Len(log')) /\ (\A m \in messages' : m[1] \in Committed')
         /\ Committed' = Committed \cup {op} /\ Len(log') = Len(log) + 1
<1> USE DEF device
<1>1. TypeOK
  BY DEF QueueInv
<1>2. /\ Committed' = Committed \cup {op} /\ OwnCommitted' = OwnCommitted \cup ({op} \cap Own)
      /\ Len(log') = Len(log) + 1 /\ Len(log) \in Nat
  BY <1>1, AppendFields, Typed DEF OwnCommitted
<1>3. MadeInv'
  BY <1>2 DEF QueueInv, MadeInv, MayCommit, Foremost, OutboxInv
<1>4. OutboxInv'
  <2>1. IsQueue(outbox)'
    BY <1>2 DEF QueueInv, OutboxInv, IsQueue
  <2>2. ASSUME NEW q \in outbox, q.op \notin Committed', NEW o \in OwnCommitted'
        PROVE  Turn[o] < Turn[q.op]
    <3>1. CASE o \in OwnCommitted
      BY <1>2, <2>2, <3>1 DEF QueueInv, OutboxInv
    <3>2. CASE o = op /\ op \in Own
      <4>1. PICK p \in outbox : p.op = op /\ Foremost(p)
        BY <3>2 DEF MayCommit
      <4>2. Turn[op] <= Turn[q.op] /\ q.op # op
        BY <1>2, <2>2, <4>1 DEF Foremost
      <4>3. receipts[op] # "none" /\ receipts[q.op] # "none"
        BY <4>1 DEF QueueInv, OutboxInv
      <4>4. Turn[op] # Turn[q.op]
        BY <1>1, <3>2, <4>2, <4>3, TurnFields DEF QueueInv, MadeInv
      <4>5. QED
        BY <1>1, <3>2, <4>2, <4>4, TurnFields
    <3>3. QED
      BY <1>2, <3>1, <3>2
  <2>3. QED
    BY <1>2, <2>1, <2>2 DEF QueueInv, OutboxInv, Ops
<1>5. WireInv'
  <2>1. ASSUME NEW q \in wire'
        PROVE  q.op \in Committed' \/ Dead(q)' \/ Foremost(q)'
    <3>1. q.op \in Committed \/ Dead(q) \/ Foremost(q)
      BY DEF QueueInv, WireInv
    <3>2. QED
      BY <1>2, <3>1, DeadStays DEF Foremost
  <2>2. QED
    BY <2>1 DEF WireInv
<1>6. SendsInOrder'
  <2>1. SUFFICES ASSUME NEW i \in DOMAIN log', NEW j \in DOMAIN log', i < j,
                        log'[i] \in Own, log'[j] \in Own
                 PROVE  Turn[log'[i]] < Turn[log'[j]]
    BY DEF SendsInOrder
  <2>2. /\ DOMAIN log' = 1..(Len(log) + 1) /\ DOMAIN log = 1..Len(log)
        /\ \A k \in 1..Len(log) : log'[k] = log[k]
        /\ log'[Len(log) + 1] = op
    BY <1>1, AppendFields, CommittedFields
  <2>3. i \in 1..Len(log) /\ log'[i] = log[i]
    BY <1>2, <2>1, <2>2
  <2>4. CASE j \in 1..Len(log)
    BY <2>1, <2>2, <2>3, <2>4 DEF QueueInv, SendsInOrder
  <2>5. CASE j = Len(log) + 1
    <3>1. op \in Own /\ log[i] \in OwnCommitted
      BY <2>1, <2>2, <2>3, <2>5 DEF OwnCommitted, Committed, Range
    <3>2. PICK q \in outbox : q.op = op
      BY <3>1 DEF MayCommit
    <3>3. QED
      BY <2>2, <2>3, <2>5, <3>1, <3>2 DEF QueueInv, OutboxInv
  <2>6. QED
    BY <1>2, <2>2, <2>4, <2>5
<1>7. ReceiptsAreTrue'
  <2>1. receipts[op] # "rejected"
    BY DEF QueueInv, MadeInv, OutboxInv, MayCommit
  <2>2. QED
    BY <1>2, <1>4, <2>1, Truth DEF QueueInv, ReceiptsAreTrue
<1>8. (\A r \in Run : run'[r].base <= Len(log')) /\ (\A m \in messages' : m[1] \in Committed')
  <2>1. \A r \in Run : run[r].base \in Nat
    BY <1>1, Typed DEF RunState
  <2>2. QED
    BY <1>2, <2>1 DEF QueueInv, BaseInv
<1>9. QED
  BY <1>2, <1>3, <1>4, <1>5, <1>6, <1>7, <1>8

\* The parts about the drain, when it sees nothing of it.
LEMMA UnseenGrowth ==
  ASSUME QueueInv, TypeOK', NEW op \in Operation, op \notin Committed, log' = Append(log, op),
         UNCHANGED device, wire' \subseteq wire, UNCHANGED <<run, messages, drain>>, MayCommit(op),
         op \in Own => ~Rejecting
  PROVE  QueueInv'
<1> USE DEF device
<1>1. /\ MadeInv' /\ OutboxInv' /\ WireInv' /\ SendsInOrder' /\ ReceiptsAreTrue'
      /\ (\A r \in Run : run'[r].base <= Len(log')) /\ (\A m \in messages' : m[1] \in Committed')
      /\ Committed' = Committed \cup {op} /\ Len(log') = Len(log) + 1
  BY GrowthStep
<1>2. RestInv'
  BY <1>1 DEF QueueInv, RestInv
<1>3. AnswerInv'
  <2>1. Rejecting => drain.rest[1].op \in Own
    BY TurnFields DEF QueueInv, AnswerInv
  <2>2. QED
    BY <1>1, <2>1, DeadStays DEF QueueInv, AnswerInv, Rejecting
<1>4. PlanInv'
  <2>1. ASSUME drain.pc = "install"
        PROVE  op \notin Ops(drain.plan.queued) \cup drain.plan.rejected
    <3>1. drain.plan.queued \subseteq Record
      BY Typed DEF QueueInv, DrainState, Plan
    <3>2. op \in Own => FALSE
      BY <2>1 DEF Rejecting
    <3>3. QED
      BY <2>1, <3>1, <3>2, TurnFields DEF QueueInv, PlanInv, Ops
  <2>2. QED
    BY <1>1, <2>1 DEF QueueInv, PlanInv, IsQueue, Ops
<1>5. BaseInv'
  <2>1. Len(log) \in Nat /\ drain.base \in Nat /\ drain.reply.sequence \in Nat
    BY Typed DEF QueueInv, DrainState, Reply
  <2>2. QED
    BY <1>1, <2>1 DEF QueueInv, BaseInv
<1>6. QED
  BY <1>1, <1>2, <1>3, <1>4, <1>5 DEF QueueInv

\* A record that is journaled is the first of the queue.
LEMMA JournaledFields ==
  ASSUME TypeOK, NEW q \in Record, log' = Journaled(q)
  PROVE  IF Verdict(q) = "fresh"
         THEN /\ log' = Append(log, q.op) /\ q.op \in Operation /\ q.op \notin Committed /\ ~Dead(q)
         ELSE UNCHANGED log
<1>1. q.op \in Operation
  BY TurnFields
<1>2. Verdict(q) = "fresh" => q.op \notin Committed /\ ~Dead(q)
  BY DeadIsInadmissible DEF Verdict
<1>3. QED
  BY <1>1, <1>2 DEF Journaled

LEMMA RemoteCommitStep ==
  ASSUME QueueInv, NEW op \in Operation, RemoteCommit(op)
  PROVE  QueueInv'
<1>1. TypeOK /\ op \notin Own /\ op \notin Committed /\ log' = Append(log, op)
  BY DEF QueueInv, RemoteCommit
<1>2. UNCHANGED <<wire, outbox, receipts, live, cursor, ready, flushRequested, retryTimer, drain,
                  run, socket, messages, recorded, failures, reloads>>
  BY DEF RemoteCommit, device, flushing, budget
<1>3. log' \in Seq(Operation) /\ cursor' \in 0..Len(log')
  BY <1>1, <1>2, AppendFields, Typed
<1>4. TypeOK'
  BY <1>1, <1>2, <1>3, Typed, TypedNext
<1>5. QED
  BY <1>1, <1>2, <1>4, UnseenGrowth DEF MayCommit, device

LEMMA SubmitLateStep ==
  ASSUME QueueInv, NEW q \in Record, SubmitLate(q)
  PROVE  QueueInv'
<1>1. TypeOK /\ q \in wire /\ wire' = wire \ {q} /\ log' = Journaled(q)
  BY DEF QueueInv, SubmitLate
<1>2. UNCHANGED <<outbox, receipts, live, cursor, ready, flushRequested, retryTimer, drain, run,
                  socket, messages, recorded, failures, reloads>>
  BY DEF SubmitLate, device, flushing, budget
<1>3. log' \in Seq(Operation) /\ cursor' \in 0..Len(log')
  BY <1>1, <1>2, AppendFields, JournaledFields, Typed
<1>4. TypeOK'
  BY <1>1, <1>2, <1>3, Typed, TypedNext
<1>5. CASE Verdict(q) = "fresh"
  <2>1. log' = Append(log, q.op) /\ q.op \in Operation /\ q.op \notin Committed /\ ~Dead(q)
    BY <1>1, <1>5, JournaledFields
  <2>2. Foremost(q) /\ ~Rejecting
    BY <1>1, <2>1, NothingElseIsSent DEF QueueInv, WireInv
  <2>3. MayCommit(q.op)
    BY <2>2 DEF MayCommit, Foremost
  <2>4. QED
    BY <1>1, <1>2, <1>4, <2>1, <2>2, <2>3, UnseenGrowth DEF device
<1>6. CASE Verdict(q) # "fresh"
  <2>1. log' = log
    BY <1>1, <1>6, JournaledFields
  <2>2. QED
    BY <1>1, <1>2, <1>4, <2>1, QuietStep DEF QueueInv, BaseInv
<1>7. QED
  BY <1>5, <1>6

LEMMA SubmitStep ==
  ASSUME QueueInv, Submit
  PROVE  QueueInv'
<1>1. TypeOK /\ drain.pc = "post" /\ drain \in DrainState /\ Len(log) \in Nat
  BY Typed DEF QueueInv, Submit
<1>2. /\ drain.rest[1] \in Record /\ DOMAIN drain.rest = 1..Len(drain.rest)
      /\ 1 \in DOMAIN drain.rest /\ drain.rest # <<>> /\ Head(drain.rest) = drain.rest[1]
  BY <1>1, RestFields DEF QueueInv
<1> PICK q \in Record : q = drain.rest[1]
  BY <1>2
<1> DEFINE number == CASE Verdict(q) = "fresh" -> Len(log) + 1
                       [] Verdict(q) = "stored" -> Position(q.op)
                       [] OTHER -> 0
           reply == [kind |-> Verdict(q), sequence |-> number]
<1>3. UNCHANGED <<wire, outbox, receipts, live, cursor, ready, flushRequested, retryTimer, run,
                  socket, messages, recorded, failures, reloads>>
  BY DEF Submit, device, budget
<1>4. log' = Journaled(q) /\ drain' = [drain EXCEPT !.pc = "answer", !.reply = reply]
  BY <1>2 DEF Submit
<1>5. Verdict(q) \in {"rejected", "fresh", "stored"} /\ (Verdict(q) = "stored" => q.op \in Committed)
  BY DEF Verdict
<1>6. /\ log' \in Seq(Operation) /\ Len(log') \in Nat /\ Len(log) <= Len(log')
      /\ Committed \subseteq Committed'
      /\ Verdict(q) = "fresh" => Len(log') = Len(log) + 1 /\ q.op \in Committed'
      /\ Verdict(q) # "fresh" => Len(log') = Len(log) /\ Committed' = Committed
  <2>1. CASE Verdict(q) = "fresh"
    BY <1>1, <1>2, <1>4, <2>1, AppendFields, JournaledFields
  <2>2. CASE Verdict(q) # "fresh"
    <3>1. log' = log
      BY <1>1, <1>2, <1>4, <2>2, JournaledFields
    <3>2. QED
      BY <1>1, <2>2, <3>1, Typed DEF Committed
  <2>3. QED
    BY <2>1, <2>2
<1>7. number \in Nat /\ number <= Len(log')
  <2>1. q.op \in Committed => Position(q.op) \in 1..Len(log)
    BY <1>1, CommittedFields
  <2>2. QED
    BY <1>1, <1>5, <1>6, <2>1
<1>8. reply \in Reply /\ reply.kind = Verdict(q) /\ reply.sequence = number
  BY <1>5, <1>7 DEF Reply, Form
<1> HIDE DEF reply, number
<1>9. /\ drain' \in DrainState
      /\ drain'.pc = "answer" /\ drain'.rest = drain.rest /\ drain'.reply = reply
      /\ drain'.base = drain.base
  BY <1>1, <1>4, <1>8 DEF DrainState
<1>10. TypeOK'
  BY <1>1, <1>3, <1>6, <1>9, Typed, TypedNext
<1>11. /\ MadeInv' /\ OutboxInv' /\ WireInv' /\ SendsInOrder' /\ ReceiptsAreTrue'
       /\ (\A r \in Run : run'[r].base <= Len(log')) /\ (\A m \in messages' : m[1] \in Committed')
  <2>1. CASE Verdict(q) = "fresh"
    <3>1. log' = Append(log, q.op) /\ q.op \in Operation /\ q.op \notin Committed /\ ~Dead(q)
      BY <1>1, <1>2, <1>4, <2>1, JournaledFields
    <3>2. MayCommit(q.op)
      BY <1>1, <3>1, InFlightIsForemost DEF MayCommit, Foremost
    <3>3. QED
      BY <1>3, <1>10, <3>1, <3>2, GrowthStep DEF device
  <2>2. CASE Verdict(q) # "fresh"
    <3>1. log' = log
      BY <1>1, <1>2, <1>4, <2>2, JournaledFields
    <3>2. /\ Committed' = Committed /\ OwnCommitted' = OwnCommitted
      BY <3>1 DEF Committed, OwnCommitted
    <3>3. QED
      BY <1>3, <3>1, <3>2 DEF QueueInv, MadeInv, OutboxInv, IsQueue, Ops, WireInv, Dead, Foremost,
         SendsInOrder, ReceiptsAreTrue, BaseInv
  <2>3. QED
    BY <2>1, <2>2
<1>12. RestInv'
  BY <1>1, <1>2, <1>3, <1>6, <1>9 DEF QueueInv, RestInv
<1>13. AnswerInv'
  <2>1. Verdict(q) \in Form => q.op \in Committed'
    BY <1>5, <1>6 DEF Form
  <2>2. ASSUME Verdict(q) = "rejected"
        PROVE  q \in outbox /\ q.op \notin Committed' /\ Dead(q)'
    <3>1. q.op \notin Committed /\ ~AdmissibleOn(q.op, q.basis, Committed)
      BY <2>2 DEF Verdict
    <3>2. Foremost(q) /\ q \in outbox /\ q.basis \subseteq Committed /\ q.basis \subseteq Rivals[q.op]
      BY <1>1, <3>1, InFlightIsForemost DEF QueueInv, OutboxInv, IsQueue, Foremost
    <3>3. Dead(q)
      BY <1>1, <1>2, <3>1, <3>2, RefusedIsDead
    <3>4. QED
      BY <1>6, <2>2, <3>1, <3>2, <3>3, DeadStays
  <2>3. QED
    BY <1>3, <1>5, <1>8, <1>9, <2>1, <2>2 DEF AnswerInv, Rejecting
<1>14. PlanInv'
  BY <1>9 DEF PlanInv
<1>15. BaseInv'
  <2>1. drain.base \in Nat
    BY <1>1 DEF DrainState
  <2>2. QED
    BY <1>1, <1>6, <1>7, <1>8, <1>9, <1>11, <2>1 DEF QueueInv, BaseInv
<1>16. QED
  BY <1>10, <1>11, <1>12, <1>13, <1>14, <1>15 DEF QueueInv

-----------------------------------------------------------------------------
\* The drain starts to send what is left.
LEMMA PostingDrain ==
  ASSUME TypeOK', NEW rest \in Seq(Record), rest # <<>>, drain' = Posting(rest),
         \A i, j \in DOMAIN rest : i < j => Turn[rest[i].op] < Turn[rest[j].op],
         \A i \in DOMAIN rest : /\ rest[i] \in outbox' \/ rest[i].op \in Committed'
                                /\ receipts'[rest[i].op] # "none",
         \A q \in outbox', i \in DOMAIN rest :
           (\E j \in DOMAIN rest : rest[j] = q) \/ Turn[rest[i].op] < Turn[q.op]
  PROVE  /\ RestInv' /\ AnswerInv' /\ PlanInv'
         /\ drain'.base = 0 /\ drain'.reply.sequence = 0
<1>1. drain'.pc = "post" /\ drain'.rest = rest /\ drain'.base = 0 /\ drain'.reply.sequence = 0
  BY PostingFields DEF Posting
<1>2. RestInv'
  BY <1>1 DEF RestInv
<1>3. AnswerInv' /\ PlanInv'
  BY <1>1 DEF AnswerInv, PlanInv, Rejecting
<1>4. QED
  BY <1>1, <1>2, <1>3

\* A committed receipt is stored.
LEMMA SettleStep ==
  ASSUME QueueInv, TypeOK', NEW op \in Operation, op \in Committed, UNCHANGED <<log, wire, live>>,
         outbox' = {q \in outbox : q.op # op},
         receipts' = [receipts EXCEPT ![op] = "committed"]
  PROVE  /\ MadeInv' /\ OutboxInv' /\ WireInv' /\ SendsInOrder' /\ ReceiptsAreTrue'
         /\ Committed' = Committed
<1>1. Committed' = Committed /\ OwnCommitted' = OwnCommitted
  BY DEF Committed, OwnCommitted
<1>2. /\ receipts'[op] = "committed"
      /\ \A o \in Operation : o # op => receipts'[o] = receipts[o]
      /\ Own \subseteq Operation /\ outbox \subseteq Record /\ \A q \in Record : q.op \in Own
  BY Typed, TurnFields, OwnAssumption DEF QueueInv
<1>3. MadeInv'
  <2>1. \A o \in Own : receipts'[o] # "none" => receipts[o] # "none"
    BY <1>2 DEF QueueInv, MadeInv, OwnCommitted
  <2>2. \A o \in OwnCommitted : receipts'[o] # "none"
    BY <1>2 DEF QueueInv, MadeInv, OwnCommitted
  <2>3. \A q \in wire : receipts'[q.op] # "none"
    BY <1>2, Typed DEF QueueInv, MadeInv
  <2>4. QED
    BY <1>1, <1>2, <2>1, <2>2, <2>3 DEF QueueInv, MadeInv
<1>4. OutboxInv'
  <2>1. IsQueue(outbox)'
    <3>1. IsFiniteSet(outbox')
      BY FS_Subset DEF QueueInv, OutboxInv, IsQueue
    <3>2. QED
      BY <1>1, <3>1 DEF QueueInv, OutboxInv, IsQueue
  <2>2. live \subseteq Committed \cup Ops(outbox)'
    BY DEF QueueInv, OutboxInv, Ops
  <2>3. QED
    BY <1>1, <1>2, <2>1, <2>2 DEF QueueInv, OutboxInv
<1>5. WireInv'
  BY <1>1 DEF QueueInv, WireInv, Dead, Foremost
<1>6. SendsInOrder'
  BY DEF QueueInv, SendsInOrder
<1>7. ReceiptsAreTrue'
  BY <1>1, <1>2, <1>4, Truth DEF QueueInv, ReceiptsAreTrue
<1>8. QED
  BY <1>1, <1>3, <1>4, <1>5, <1>6, <1>7

LEMMA AcceptMessageStep ==
  ASSUME QueueInv, NEW op \in Operation, NEW form \in Form, AcceptMessage(op, form)
  PROVE  QueueInv'
<1>1. TypeOK /\ op \in Committed
  BY DEF QueueInv, BaseInv, AcceptMessage
<1>2. /\ messages' = messages \ {<<op, form>>} /\ outbox' = {q \in outbox : q.op # op}
      /\ receipts' = [receipts EXCEPT ![op] = "committed"]
      /\ UNCHANGED <<log, wire, live, ready, flushRequested, retryTimer, drain, run, socket,
                     failures, reloads>>
  BY DEF AcceptMessage, server, flushing, budget
<1>3. /\ cursor' \in 0..Len(log) /\ recorded' \in [Operation -> {"none"} \cup Form]
      /\ receipts' \in [Operation -> Receipt]
  <2>1. Position(op) \in 1..Len(log)
    BY <1>1, CommittedFields
  <2>2. cursor' \in 0..Len(log)
    <3>1. cursor' = cursor \/ cursor' = Larger(cursor, Position(op))
      BY DEF AcceptMessage
    <3>2. Larger(cursor, Position(op)) \in 0..Len(log)
      BY <1>1, <2>1, Typed, LargerFields
    <3>3. QED
      BY <1>1, <3>1, <3>2, Typed
  <2>3. recorded' = recorded \/ recorded' = [recorded EXCEPT ![op] = form]
    BY DEF AcceptMessage
  <2>4. recorded' \in [Operation -> {"none"} \cup Form]
    BY <1>1, <2>3, Typed
  <2>5. receipts' \in [Operation -> Receipt]
    BY <1>1, <1>2, Typed DEF Receipt
  <2>6. QED
    BY <2>2, <2>4, <2>5
<1>4. TypeOK'
  BY <1>1, <1>2, <1>3, Typed, TypedNext
<1>5. /\ MadeInv' /\ OutboxInv' /\ WireInv' /\ SendsInOrder' /\ ReceiptsAreTrue'
      /\ Committed' = Committed
  BY <1>1, <1>2, <1>4, SettleStep
<1>6. \A o \in Operation : receipts'[o] = IF o = op THEN "committed" ELSE receipts[o]
  BY <1>1, <1>2, Typed
<1>7. RestInv'
  <2>1. \A i \in DOMAIN drain.rest : drain.rest[i].op \in Operation
    BY <1>1, TurnFields, RestFields DEF QueueInv
  <2>2. \A i \in DOMAIN drain.rest : /\ drain.rest[i] \in outbox' \/ drain.rest[i].op \in Committed
                                     /\ receipts'[drain.rest[i].op] # "none"
    BY <1>1, <1>2, <1>6, <2>1 DEF QueueInv, RestInv
  <2>3. QED
    BY <1>2, <1>5, <2>2 DEF QueueInv, RestInv
<1>8. AnswerInv'
  BY <1>1, <1>2, <1>5 DEF QueueInv, AnswerInv, Rejecting, Dead
<1>9. PlanInv'
  <2>1. ASSUME drain.pc = "install"
        PROVE  /\ \A q \in drain.plan.queued : q.op \in Operation /\ q.op # op
               /\ \A o \in drain.plan.rejected : o \in Operation /\ o # op
    <3>1. drain.plan.queued \subseteq Record /\ drain.plan.rejected \subseteq Operation
      BY <1>1, Typed DEF DrainState, Plan
    <3>2. QED
      BY <1>1, <2>1, <3>1, TurnFields DEF QueueInv, PlanInv
  <2>2. QED
    BY <1>2, <1>5, <1>6, <2>1 DEF QueueInv, PlanInv, IsQueue, Ops
<1>10. BaseInv'
  BY <1>2, <1>5 DEF QueueInv, BaseInv
<1>11. QED
  BY <1>4, <1>5, <1>7, <1>8, <1>9, <1>10 DEF QueueInv

LEMMA AcknowledgeStep ==
  ASSUME QueueInv, Acknowledge
  PROVE  QueueInv'
<1> DEFINE rest == drain.rest
           rest2 == Tail(drain.rest)
<1>1. TypeOK /\ drain.pc = "answer" /\ drain.reply.kind \in Form /\ drain \in DrainState
  BY Typed DEF QueueInv, Acknowledge
<1>2. /\ rest \in Seq(Record) /\ DOMAIN rest = 1..Len(rest) /\ 1 \in DOMAIN rest /\ rest # <<>>
      /\ Head(rest) = rest[1] /\ rest[1] \in Record
  BY <1>1, RestFields DEF QueueInv
<1> PICK op \in Own : op = rest[1].op
  BY <1>1, <1>2, TurnFields
<1>3. op \in Operation /\ op \in Committed
  BY <1>1, OwnAssumption DEF QueueInv, AnswerInv
<1>4. /\ outbox' = {q \in outbox : q.op # op}
      /\ receipts' = [receipts EXCEPT ![op] = "committed"]
      /\ UNCHANGED <<log, wire, live, socket, messages, failures, reloads>>
  BY <1>2 DEF Acknowledge, server, budget
<1>5. /\ rest2 \in Seq(Record) /\ DOMAIN rest2 = 1..(Len(rest) - 1) /\ Len(rest) \in Nat
      /\ \A i \in DOMAIN rest2 : i + 1 \in DOMAIN rest /\ rest2[i] = rest[i + 1]
      /\ \A i \in DOMAIN rest : i # 1 => i - 1 \in DOMAIN rest2 /\ rest2[i - 1] = rest[i]
  BY <1>2
<1>6. /\ cursor' \in 0..Len(log)
      /\ recorded' \in [Operation -> {"none"} \cup Form]
      /\ flushRequested' \in BOOLEAN /\ ready' \in BOOLEAN /\ retryTimer' \in BOOLEAN
      /\ run' \in [Run -> RunState] /\ \A s \in Run : run'[s].base = run[s].base
      /\ \/ drain' \in {IdleDrain, Listing}
         \/ rest2 # <<>> /\ drain' = Posting(rest2)
  <2>1. CASE Conflicting(op, drain.reply.kind)
    <3>1. DrainThrows /\ UNCHANGED <<cursor, recorded>>
      BY <1>2, <2>1 DEF Acknowledge
    <3>2. QED
      BY <1>1, <3>1, Typed, DrainThrowsFields
  <2>2. CASE ~Conflicting(op, drain.reply.kind)
    <3>1. /\ recorded' = [recorded EXCEPT ![op] = drain.reply.kind]
          /\ cursor' = Larger(cursor, drain.reply.sequence)
          /\ Continue(rest2, flushRequested) /\ UNCHANGED <<ready, retryTimer>>
      BY <1>2, <2>2 DEF Acknowledge
    <3>2. drain.reply.sequence \in Nat /\ drain.reply.sequence <= Len(log)
      BY <1>1 DEF DrainState, Reply, QueueInv, BaseInv
    <3>3. cursor' \in 0..Len(log)
      BY <1>1, <3>1, <3>2, Typed, LargerFields
    <3>4. recorded' \in [Operation -> {"none"} \cup Form]
      BY <1>1, <3>1, Typed
    <3>5. flushRequested \in BOOLEAN /\ ready' \in BOOLEAN /\ retryTimer' \in BOOLEAN
      BY <1>1, <3>1, Typed
    <3>6. /\ flushRequested' \in BOOLEAN
          /\ run' \in [Run -> RunState] /\ \A s \in Run : run'[s].base = run[s].base
          /\ IF rest2 = <<>> THEN drain' \in {IdleDrain, Listing} ELSE drain' = Posting(rest2)
      BY <1>1, <1>5, <3>1, <3>5, ContinueFields
    <3>7. QED
      BY <3>3, <3>4, <3>5, <3>6
  <2>3. QED
    BY <2>1, <2>2
<1>7. TypeOK'
  <2>1. drain' \in DrainState
    BY <1>5, <1>6, RestingFields, PostingFields
  <2>2. receipts' \in [Operation -> Receipt]
    BY <1>1, <1>4, Typed DEF Receipt
  <2>3. QED
    BY <1>1, <1>4, <1>6, <2>1, <2>2, Typed, TypedNext
<1>8. /\ MadeInv' /\ OutboxInv' /\ WireInv' /\ SendsInOrder' /\ ReceiptsAreTrue'
      /\ Committed' = Committed
  BY <1>3, <1>4, <1>7, SettleStep
<1>9. RestInv' /\ AnswerInv' /\ PlanInv' /\ drain'.base = 0 /\ drain'.reply.sequence = 0
  <2>1. CASE drain' \in {IdleDrain, Listing}
    BY <1>7, <2>1, RestingDrain
  <2>2. CASE rest2 # <<>> /\ drain' = Posting(rest2)
    <3>1. ASSUME NEW i \in DOMAIN rest2, NEW j \in DOMAIN rest2, i < j
          PROVE  Turn[rest2[i].op] < Turn[rest2[j].op]
      <4>1. i + 1 \in DOMAIN rest /\ j + 1 \in DOMAIN rest /\ i + 1 < j + 1
        BY <1>5, <3>1
      <4>2. Turn[rest[i + 1].op] < Turn[rest[j + 1].op]
        BY <4>1 DEF QueueInv, RestInv
      <4>3. QED
        BY <1>5, <4>2
    <3>2. ASSUME NEW i \in DOMAIN rest2
          PROVE  /\ rest2[i] \in outbox' \/ rest2[i].op \in Committed'
                 /\ receipts'[rest2[i].op] # "none"
      <4>1. rest2[i].op \in Operation
        BY <1>1, <1>5, OwnAssumption, TurnFields
      <4>2. /\ rest2[i] \in outbox \/ rest2[i].op \in Committed
            /\ receipts[rest2[i].op] # "none"
        BY <1>5 DEF QueueInv, RestInv
      <4>3. QED
        BY <1>1, <1>3, <1>4, <1>8, <4>1, <4>2, Typed
    <3>3. ASSUME NEW q \in outbox', NEW i \in DOMAIN rest2, ~(Turn[rest2[i].op] < Turn[q.op])
          PROVE  \E j \in DOMAIN rest2 : rest2[j] = q
      <4>1. q \in outbox /\ q.op # op
        BY <1>4
      <4>2. PICK j \in DOMAIN rest : rest[j] = q
        BY <1>5, <3>3, <4>1 DEF QueueInv, RestInv
      <4>3. QED
        BY <1>5, <4>1, <4>2
    <3> HIDE DEF rest2
    <3>4. QED
      BY <1>5, <1>7, <2>2, <3>1, <3>2, <3>3, PostingDrain
  <2>3. QED
    BY <1>6, <2>1, <2>2
<1>10. BaseInv'
  BY <1>1, <1>4, <1>6, <1>8, <1>9, Typed DEF QueueInv, BaseInv
<1>11. QED
  BY <1>7, <1>8, <1>9, <1>10 DEF QueueInv

-----------------------------------------------------------------------------
LEMMA DispatchStep ==
  ASSUME QueueInv, NEW op \in Operation, Dispatch(op)
  PROVE  QueueInv'
<1> DEFINE made == [op |-> op, basis |-> Basis[op]]
<1>1. TypeOK /\ op \in Own /\ made \in Record /\ made.op = op /\ made.basis = Basis[op]
  BY BasisAssumption DEF QueueInv, Dispatch, Record
<1>2. /\ receipts[op] = "none"
      /\ \A o \in Own : receipts[o] # "none" => Turn[o] < Turn[op]
      /\ live \cap Rivals[op] = Basis[op]
      /\ outbox' = outbox \cup {made}
      /\ receipts' = [receipts EXCEPT ![op] = "queued"]
      /\ live' = live \cup {op}
      /\ UNCHANGED <<log, wire, cursor, ready, retryTimer, run, socket, messages, recorded,
                     failures, reloads>>
  BY DEF Dispatch, server, budget
<1>3. flushRequested' \in BOOLEAN /\ (drain' = drain \/ (drain.pc = "none" /\ drain' = Listing))
  BY <1>1, RequestFlushFields DEF Dispatch
<1> HIDE DEF made
<1>4. TypeOK'
  <2>1. receipts' \in [Operation -> Receipt] /\ drain' \in DrainState
    BY <1>1, <1>2, <1>3, Typed, RestingFields DEF Receipt
  <2>2. QED
    BY <1>1, <1>2, <1>3, <2>1, Typed, TypedNext
<1>5. Committed' = Committed /\ OwnCommitted' = OwnCommitted
  BY <1>2 DEF Committed, OwnCommitted
<1>6. /\ \A o \in Operation : receipts'[o] = IF o = op THEN "queued" ELSE receipts[o]
      /\ Own \subseteq Operation /\ outbox \subseteq Record /\ wire \subseteq Record
      /\ \A q \in Record : q.op \in Own
      /\ \A o \in Own : Turn[o] \in Nat
  BY <1>1, <1>2, Typed, TurnFields, OwnAssumption
<1>7. op \notin Committed
  BY <1>1, <1>2 DEF QueueInv, MadeInv, OwnCommitted
<1>8. MadeInv'
  <2>1. \A o \in Own : receipts'[o] # "none" => o = op \/ receipts[o] # "none"
    BY <1>6
  <2>2. \A o, p \in Own : receipts'[o] # "none" /\ receipts'[p] # "none" /\ Turn[o] = Turn[p] => o = p
    BY <1>1, <1>2, <1>6, <2>1 DEF QueueInv, MadeInv
  <2>3. \A o \in OwnCommitted : receipts'[o] # "none"
    BY <1>6 DEF QueueInv, MadeInv, OwnCommitted
  <2>4. \A q \in wire : receipts'[q.op] # "none"
    BY <1>6 DEF QueueInv, MadeInv
  <2>5. \A o \in Operation : receipts'[o] = "rejected" => o \in Own
    BY <1>6 DEF QueueInv, MadeInv
  <2>6. QED
    BY <1>2, <1>5, <2>2, <2>3, <2>4, <2>5 DEF MadeInv
<1>9. \A q \in outbox : q.op # op /\ receipts[q.op] = "queued" /\ Turn[q.op] < Turn[op]
  BY <1>1, <1>2, <1>6 DEF QueueInv, OutboxInv
<1>10. OutboxInv'
  <2>1. IsFiniteSet(outbox')
    BY <1>2, FS_AddElement DEF QueueInv, OutboxInv, IsQueue
  <2>2. \A p, q \in outbox' : p.op = q.op => p = q
    BY <1>1, <1>2, <1>9 DEF QueueInv, OutboxInv, IsQueue
  <2>3. \A q \in outbox' : q.basis \subseteq Rivals[q.op]
    BY <1>1, <1>2, BasisAssumption DEF QueueInv, OutboxInv, IsQueue
  <2>4. ASSUME NEW q \in outbox', NEW o \in q.basis, o \notin Committed
        PROVE  \E p \in outbox' : p.op = o /\ Turn[p.op] < Turn[q.op]
    <3>1. CASE q \in outbox
      BY <1>2, <2>4, <3>1 DEF QueueInv, OutboxInv, IsQueue
    <3>2. CASE q = made
      <4>1. o \in live
        BY <1>1, <1>2, <2>4, <3>2
      <4>2. PICK p \in outbox : p.op = o
        BY <2>4, <4>1 DEF QueueInv, OutboxInv, Ops
      <4>3. QED
        BY <1>1, <1>2, <1>9, <3>2, <4>2
    <3>3. QED
      BY <1>2, <3>1, <3>2
  <2>5. IsQueue(outbox)'
    BY <1>5, <2>1, <2>2, <2>3, <2>4 DEF IsQueue
  <2>6. \A q \in outbox' : receipts'[q.op] = "queued"
    BY <1>1, <1>2, <1>6, <1>9
  <2>7. live' \subseteq Committed \cup Ops(outbox)'
    BY <1>1, <1>2 DEF QueueInv, OutboxInv, Ops
  <2>8. \A q \in outbox' : q.op \notin Committed => \A o \in OwnCommitted : Turn[o] < Turn[q.op]
    BY <1>1, <1>2 DEF QueueInv, OutboxInv, MadeInv, OwnCommitted
  <2>9. QED
    BY <1>5, <2>5, <2>6, <2>7, <2>8 DEF OutboxInv
<1>11. WireInv'
  <2>1. ASSUME NEW q \in wire, Foremost(q)
        PROVE  Foremost(q)'
    <3>1. q \in outbox /\ \A p \in outbox : Turn[q.op] <= Turn[p.op]
      BY <2>1 DEF Foremost
    <3>2. Turn[q.op] <= Turn[op]
      BY <1>1, <1>6, <1>9, <3>1
    <3>3. QED
      BY <1>1, <1>2, <1>5, <2>1, <3>2 DEF Foremost
  <2>2. QED
    BY <1>2, <1>5, <2>1 DEF QueueInv, WireInv, Dead
<1>12. SendsInOrder'
  BY <1>2 DEF QueueInv, SendsInOrder
<1>13. ReceiptsAreTrue'
  BY <1>1, <1>4, <1>5, <1>6, <1>10, Truth DEF QueueInv, ReceiptsAreTrue
<1>14. RestInv' /\ AnswerInv' /\ PlanInv' /\ drain'.base <= Len(log) /\ drain'.reply.sequence <= Len(log)
  <2>1. CASE drain' = drain
    <3>1. /\ \A i \in DOMAIN drain.rest : drain.rest[i].op \in Own
          /\ drain.plan.queued \subseteq Record /\ drain.plan.rejected \subseteq Operation
      BY <1>1, <1>6, RestFields, Typed DEF QueueInv, DrainState, Plan
    <3>2. RestInv'
      <4>1. \A i \in DOMAIN drain.rest : /\ drain.rest[i] \in outbox' \/ drain.rest[i].op \in Committed
                                         /\ receipts'[drain.rest[i].op] # "none"
                                         /\ Turn[drain.rest[i].op] < Turn[op]
        BY <1>2, <1>6, <3>1 DEF QueueInv, RestInv
      <4>2. QED
        BY <1>1, <1>2, <1>5, <2>1, <4>1 DEF QueueInv, RestInv
    <3>3. AnswerInv'
      BY <1>2, <1>5, <2>1 DEF QueueInv, AnswerInv, Rejecting, Dead
    <3>4. PlanInv'
      <4>1. ASSUME drain.pc = "install"
            PROVE  /\ \A q \in drain.plan.queued : receipts'[q.op] = "queued"
                   /\ \A o \in drain.plan.rejected : receipts'[o] = "queued"
        BY <1>6, <3>1, <4>1 DEF QueueInv, PlanInv
      <4>2. QED
        BY <1>5, <2>1, <4>1 DEF QueueInv, PlanInv, IsQueue, Ops
    <3>5. QED
      BY <2>1, <3>2, <3>3, <3>4 DEF QueueInv, BaseInv
  <2>2. CASE drain' = Listing
    BY <1>1, <1>4, <2>2, RestingDrain, Typed
  <2>3. QED
    BY <1>3, <2>1, <2>2
<1>15. BaseInv'
  BY <1>2, <1>5, <1>14 DEF QueueInv, BaseInv
<1>16. QED
  BY <1>4, <1>8, <1>10, <1>11, <1>12, <1>13, <1>14, <1>15 DEF QueueInv

-----------------------------------------------------------------------------
\* The order of listOutbox is the order in which the edits were made.
LEMMA BeforeIsEarlier ==
  ASSUME StampsDiffer, QueueInv, NEW p \in outbox, NEW q \in outbox, Before(p, q)
  PROVE  Turn[p.op] < Turn[q.op]
<1>1. /\ p.op \in Own /\ q.op \in Own /\ Own \subseteq Operation
      /\ receipts[p.op] = "queued" /\ receipts[q.op] = "queued"
  BY TurnFields, OwnAssumption DEF QueueInv, OutboxInv
<1>2. /\ Turn[p.op] \in Nat /\ Turn[q.op] \in Nat /\ Stamp[p.op] \in Nat /\ Stamp[q.op] \in Nat
      /\ Key[p.op] \in Nat /\ Key[q.op] \in Nat
  BY <1>1, StampAssumption
<1>3. ~(Turn[q.op] < Turn[p.op])
  BY <1>1, <1>2 DEF StampsDiffer, Before
<1>4. Turn[p.op] # Turn[q.op]
  <2>1. SUFFICES ASSUME p.op = q.op
                 PROVE  FALSE
    BY <1>1 DEF QueueInv, MadeInv
  <2>2. QED
    BY <1>2, <2>1 DEF Before
<1>5. QED
  BY <1>2, <1>3, <1>4

LEMMA ListOutboxStep ==
  ASSUME StampsDiffer, QueueInv, ListOutbox
  PROVE  QueueInv'
<1>1. TypeOK /\ outbox \subseteq Record /\ flushRequested \in BOOLEAN
  BY Typed DEF QueueInv
<1>2. PICK queue \in Sorted : Continue(queue, flushRequested)
  BY DEF ListOutbox
<1>3. UNCHANGED <<log, wire, outbox, receipts, live, cursor, ready, retryTimer, socket, messages,
                  recorded, failures, reloads>>
  BY DEF ListOutbox, server, device, budget
<1>4. Cardinality(outbox) \in Nat
  BY FS_CardinalityType DEF QueueInv, OutboxInv, IsQueue
<1>5. /\ queue \in [1..Cardinality(outbox) -> outbox] /\ Range(queue) = outbox
      /\ \A i, j \in DOMAIN queue : i < j => Before(queue[i], queue[j])
  BY <1>2 DEF Sorted
<1>6. queue \in Seq(Record)
  BY <1>1, <1>4, <1>5
<1>7. /\ flushRequested' \in BOOLEAN
      /\ run' \in [Run -> RunState] /\ \A s \in Run : run'[s].base = run[s].base
      /\ IF queue = <<>> THEN drain' \in {IdleDrain, Listing} ELSE drain' = Posting(queue)
  BY <1>1, <1>2, <1>6, ContinueFields
<1>8. TypeOK'
  <2>1. drain' \in DrainState
    BY <1>6, <1>7, RestingFields, PostingFields
  <2>2. QED
    BY <1>1, <1>3, <1>7, <2>1, Typed, TypedNext
<1>9. Committed' = Committed /\ OwnCommitted' = OwnCommitted
  BY <1>3 DEF Committed, OwnCommitted
<1>10. MadeInv' /\ OutboxInv' /\ WireInv' /\ SendsInOrder' /\ ReceiptsAreTrue'
  BY <1>3, <1>9 DEF QueueInv, MadeInv, OutboxInv, IsQueue, Ops, WireInv, Dead, Foremost,
     SendsInOrder, ReceiptsAreTrue
<1>11. RestInv' /\ AnswerInv' /\ PlanInv' /\ drain'.base = 0 /\ drain'.reply.sequence = 0
  <2>1. CASE queue = <<>>
    BY <1>7, <1>8, <2>1, RestingDrain
  <2>2. CASE queue # <<>>
    <3>1. ASSUME NEW i \in DOMAIN queue, NEW j \in DOMAIN queue, i < j
          PROVE  Turn[queue[i].op] < Turn[queue[j].op]
      BY <1>5, <3>1, BeforeIsEarlier
    <3>2. \A i \in DOMAIN queue : queue[i] \in outbox' /\ receipts'[queue[i].op] # "none"
      BY <1>3, <1>5 DEF QueueInv, OutboxInv
    <3>3. \A q \in outbox' : \E j \in DOMAIN queue : queue[j] = q
      BY <1>3, <1>5 DEF Range
    <3>4. QED
      BY <1>6, <1>7, <1>8, <2>2, <3>1, <3>2, <3>3, PostingDrain
  <2>3. QED
    BY <2>1, <2>2
<1>12. BaseInv'
  BY <1>1, <1>3, <1>7, <1>9, <1>11, Typed DEF QueueInv, BaseInv
<1>13. QED
  BY <1>8, <1>10, <1>11, <1>12 DEF QueueInv

-----------------------------------------------------------------------------
(***************************************************************************)
(* The repair of a rejected operation.                                     *)
(***************************************************************************)

\* What a step of the repair leaves alone, and what that keeps.
LEMMA RepairParts ==
  ASSUME QueueInv, UNCHANGED <<log, wire, outbox, receipts, live, run, messages>>
  PROVE  /\ MadeInv' /\ OutboxInv' /\ WireInv' /\ SendsInOrder' /\ ReceiptsAreTrue'
         /\ Committed' = Committed
         /\ (\A r \in Run : run'[r].base <= Len(log')) /\ (\A m \in messages' : m[1] \in Committed')
<1>1. Committed' = Committed /\ OwnCommitted' = OwnCommitted
  BY DEF Committed, OwnCommitted
<1>2. QED
  BY <1>1 DEF QueueInv, MadeInv, OutboxInv, IsQueue, Ops, WireInv, Dead, Foremost,
     SendsInOrder, ReceiptsAreTrue, BaseInv

\* What the drain knows of the record that was rejected.
LEMMA BadFields ==
  ASSUME QueueInv, Rejecting
  PROVE  /\ drain.rest[1] \in outbox /\ drain.rest[1].op \notin Committed
         /\ drain.rest[1].op \in Own /\ Head(drain.rest) = drain.rest[1]
         /\ \A q \in outbox : q.op # drain.rest[1].op => Turn[drain.rest[1].op] < Turn[q.op]
         /\ \A q \in outbox : q.op \notin Committed
<1> DEFINE rest == drain.rest
           bad == drain.rest[1]
<1>1. /\ bad \in outbox /\ bad.op \notin Committed /\ bad.op \in Own
      /\ outbox \subseteq Record
  BY TurnFields DEF QueueInv, AnswerInv
<1>2. DOMAIN rest = 1..Len(rest) /\ 1 \in DOMAIN rest /\ Head(rest) = bad
  BY RestFields DEF QueueInv, Rejecting
<1>3. ASSUME NEW q \in outbox, q.op # bad.op
      PROVE  Turn[bad.op] < Turn[q.op]
  <2>1. CASE \E j \in DOMAIN rest : rest[j] = q
    <3>1. PICK j \in DOMAIN rest : rest[j] = q
      BY <2>1
    <3>2. 1 < j
      BY <1>2, <1>3, <3>1
    <3>3. QED
      BY <1>2, <3>1, <3>2 DEF QueueInv, RestInv
  <2>2. QED
    BY <1>2, <2>1 DEF QueueInv, RestInv
<1>4. ASSUME NEW q \in outbox, q.op \in Committed
      PROVE  FALSE
  <2>1. q.op \in OwnCommitted /\ q.op # bad.op
    BY <1>1, <1>4, TurnFields DEF QueueInv, OwnCommitted
  <2>2. Turn[q.op] < Turn[bad.op]
    BY <1>1, <2>1 DEF QueueInv, OutboxInv
  <2>3. QED
    BY <1>1, <1>3, <2>1, <2>2, TurnFields DEF QueueInv
<1>5. QED
  BY <1>1, <1>2, <1>3, <1>4

LEMMA FetchRepairStateStep ==
  ASSUME QueueInv, FetchRepairState
  PROVE  QueueInv'
<1>1. /\ TypeOK /\ drain.pc = "answer" /\ drain.reply.kind = "rejected" /\ drain \in DrainState
      /\ Rejecting /\ Len(log) \in Nat
  BY Typed DEF QueueInv, FetchRepairState, Rejecting
<1>2. UNCHANGED <<log, wire, outbox, receipts, live, cursor, ready, flushRequested, retryTimer,
                  run, socket, messages, recorded, failures, reloads>>
  BY DEF FetchRepairState, server, device, budget
<1>3. /\ drain' \in DrainState
      /\ drain'.pc = "repairState" /\ drain'.base = Len(log)
      /\ drain'.rest = drain.rest /\ drain'.reply = drain.reply
  BY <1>1 DEF FetchRepairState, DrainState
<1>4. TypeOK'
  BY <1>1, <1>2, <1>3, Typed, TypedNext
<1>5. RestInv' /\ AnswerInv' /\ PlanInv'
  <2>1. Committed' = Committed
    BY <1>2 DEF Committed
  <2>2. RestInv'
    BY <1>1, <1>2, <1>3, <2>1 DEF QueueInv, RestInv
  <2>3. AnswerInv'
    BY <1>1, <1>2, <1>3, <2>1 DEF QueueInv, AnswerInv, Rejecting, Dead
  <2>4. PlanInv'
    BY <1>3 DEF PlanInv
  <2>5. QED
    BY <2>2, <2>3, <2>4
<1>6. QED
  BY <1>1, <1>2, <1>3, <1>4, <1>5, RepairParts DEF QueueInv, BaseInv

\* What the plan of a repair is made of.
LEMMA PlanFields ==
  ASSUME StampsDiffer, QueueInv, Rejecting, NEW base, base \subseteq Committed,
         NEW plan \in PrepareRepair(base, drain.rest[1].op)
  PROVE  /\ plan \in Plan
         /\ IsQueue(plan.queued)
         /\ plan.docs \subseteq Committed \cup Ops(plan.queued)
         /\ \A q \in plan.queued : /\ receipts[q.op] = "queued"
                                   /\ q.op \notin Committed
                                   /\ Turn[drain.rest[1].op] < Turn[q.op]
         /\ \A o \in plan.rejected : /\ o \in Own /\ receipts[o] = "queued"
                                     /\ o \notin Committed \cup Ops(plan.queued)
<1> DEFINE bad == drain.rest[1].op
<1>1. PICK kept \in SUBSET outbox :
        /\ IsKept(kept, base, bad)
        /\ plan = [docs |-> base \cup {q.op : q \in kept},
                   queued |-> {Rebased(q, base, kept) : q \in kept},
                   rejected |-> {q.op : q \in outbox \ kept} \cup {bad}]
  BY DEF PrepareRepair
<1>2. /\ TypeOK /\ outbox \subseteq Record /\ Own \subseteq Operation
      /\ base \subseteq Operation
      /\ \A q \in outbox : q.op \in Own /\ receipts[q.op] = "queued"
  BY TurnFields, CommittedFields, Typed, OwnAssumption DEF QueueInv, OutboxInv
<1>3. /\ bad \in Own /\ bad \notin Committed /\ receipts[bad] = "queued"
      /\ \A q \in outbox : q.op # bad => Turn[bad] < Turn[q.op]
      /\ \A q \in outbox : q.op \notin Committed
  BY <1>2, BadFields
<1>4. \A q \in kept : q \in outbox /\ q.op # bad
  BY <1>1 DEF IsKept
<1>5. \A q \in kept : Rebased(q, base, kept) \in Record
  <2>1. \A q \in kept : DocsFor(q, base, kept) \subseteq Operation
    BY <1>2, <1>4 DEF DocsFor
  <2>2. QED
    BY <1>2, <1>4, <2>1 DEF Rebased, Record
<1>6. \A q \in kept : Rebased(q, base, kept).op = q.op
  BY DEF Rebased
<1>7. plan \in Plan
  BY <1>1, <1>2, <1>3, <1>4, <1>5 DEF Plan
<1>8. Ops(plan.queued) = {q.op : q \in kept}
  BY <1>1, <1>6 DEF Ops
<1>9. IsQueue(plan.queued)
  <2>1. IsFiniteSet(plan.queued)
    <3>1. IsFiniteSet(kept)
      BY <1>1, FS_Subset DEF QueueInv, OutboxInv, IsQueue
    <3> DEFINE rebase == [q \in kept |-> Rebased(q, base, kept)]
    <3>2. rebase \in Surjection(kept, plan.queued)
      BY <1>1 DEF Surjection
    <3>3. QED
      BY <3>1, <3>2, FS_Surjection
  <2>2. ASSUME NEW p \in plan.queued, NEW q \in plan.queued, p.op = q.op
        PROVE  p = q
    <3>1. PICK p0 \in kept, q0 \in kept : p = Rebased(p0, base, kept) /\ q = Rebased(q0, base, kept)
      BY <1>1
    <3>2. p0 = q0
      BY <1>4, <1>6, <2>2, <3>1 DEF QueueInv, OutboxInv, IsQueue
    <3>3. QED
      BY <3>1, <3>2
  <2>3. \A q \in plan.queued : q.basis \subseteq Rivals[q.op]
    BY <1>1 DEF Rebased
  <2>4. ASSUME NEW q \in plan.queued, NEW o \in q.basis, o \notin Committed
        PROVE  \E p \in plan.queued : p.op = o /\ Turn[p.op] < Turn[q.op]
    <3>1. PICK q0 \in kept : q = Rebased(q0, base, kept)
      BY <1>1
    <3>2. PICK p0 \in kept : p0.op = o /\ Before(p0, q0)
      BY <2>4, <3>1 DEF Rebased, DocsFor
    <3>3. Turn[p0.op] < Turn[q0.op]
      BY <1>4, <3>1, <3>2, BeforeIsEarlier
    <3>4. QED
      BY <1>1, <1>6, <3>1, <3>2, <3>3
  <2>5. QED
    BY <2>1, <2>2, <2>3, <2>4 DEF IsQueue
<1>10. plan.docs \subseteq Committed \cup Ops(plan.queued)
  BY <1>1, <1>8
<1>11. ASSUME NEW q \in plan.queued
       PROVE  receipts[q.op] = "queued" /\ q.op \notin Committed /\ Turn[bad] < Turn[q.op]
  <2>1. PICK p \in kept : q.op = p.op
    BY <1>1, <1>6
  <2>2. QED
    BY <1>2, <1>3, <1>4, <2>1
<1>12. ASSUME NEW o \in plan.rejected
       PROVE  /\ o \in Own /\ receipts[o] = "queued"
              /\ o \notin Committed \cup Ops(plan.queued)
  <2>1. CASE o = bad
    BY <1>3, <1>4, <1>8, <2>1
  <2>2. CASE \E q \in outbox \ kept : o = q.op
    <3>1. PICK q \in outbox \ kept : o = q.op
      BY <2>2
    <3>2. o \notin Ops(plan.queued)
      BY <1>4, <1>8, <3>1 DEF QueueInv, OutboxInv, IsQueue
    <3>3. QED
      BY <1>2, <1>3, <3>1, <3>2
  <2>3. QED
    BY <1>1, <2>1, <2>2
<1>13. QED
  BY <1>7, <1>9, <1>10, <1>11, <1>12

LEMMA ListForRepairStep ==
  ASSUME StampsDiffer, QueueInv, ListForRepair
  PROVE  QueueInv'
<1>1. /\ TypeOK /\ drain.pc = "repairState" /\ drain \in DrainState /\ Rejecting
      /\ drain.base \in Nat /\ drain.base <= Len(log)
  BY Typed DEF QueueInv, ListForRepair, Rejecting, DrainState, BaseInv
<1>2. UNCHANGED <<log, wire, outbox, receipts, live, cursor, ready, flushRequested, retryTimer,
                  run, socket, messages, recorded, failures, reloads>>
  BY DEF ListForRepair, server, device, budget
<1>3. UpTo(drain.base) \subseteq Committed /\ Head(drain.rest) = drain.rest[1]
  BY <1>1, CommittedFields, BadFields
<1>4. PICK plan \in PrepareRepair(UpTo(drain.base), drain.rest[1].op) :
        drain' = [drain EXCEPT !.pc = "install", !.plan = plan]
  BY <1>3 DEF ListForRepair
<1>5. /\ plan \in Plan
      /\ IsQueue(plan.queued)
      /\ plan.docs \subseteq Committed \cup Ops(plan.queued)
      /\ \A q \in plan.queued : /\ receipts[q.op] = "queued"
                                /\ q.op \notin Committed
                                /\ Turn[drain.rest[1].op] < Turn[q.op]
      /\ \A o \in plan.rejected : /\ o \in Own /\ receipts[o] = "queued"
                                  /\ o \notin Committed \cup Ops(plan.queued)
  BY <1>1, <1>3, PlanFields
<1>6. /\ drain' \in DrainState
      /\ drain'.pc = "install" /\ drain'.plan = plan /\ drain'.base = drain.base
      /\ drain'.rest = drain.rest /\ drain'.reply = drain.reply
  BY <1>1, <1>4, <1>5 DEF DrainState
<1>7. TypeOK'
  BY <1>1, <1>2, <1>6, Typed, TypedNext
<1>8. RestInv' /\ AnswerInv' /\ PlanInv'
  <2>1. Committed' = Committed
    BY <1>2 DEF Committed
  <2>2. RestInv'
    BY <1>1, <1>2, <1>6, <2>1 DEF QueueInv, RestInv
  <2>3. AnswerInv'
    BY <1>1, <1>2, <1>6, <2>1 DEF QueueInv, AnswerInv, Rejecting, Dead
  <2>4. PlanInv'
    BY <1>2, <1>5, <1>6, <2>1 DEF PlanInv, IsQueue, Ops
  <2>5. QED
    BY <2>2, <2>3, <2>4
<1>9. QED
  BY <1>1, <1>2, <1>6, <1>7, <1>8, RepairParts DEF QueueInv, BaseInv

LEMMA InstallRepairStep ==
  ASSUME QueueInv, InstallRepair
  PROVE  /\ QueueInv'
         /\ \A o \in Operation : receipts[o] \in {"committed", "rejected"} => receipts'[o] = receipts[o]
<1> DEFINE plan == drain.plan
<1>1. /\ TypeOK /\ drain.pc = "install" /\ drain \in DrainState /\ Rejecting
      /\ drain.base \in Nat /\ drain.base <= Len(log) /\ plan \in Plan
  BY Typed DEF QueueInv, InstallRepair, Rejecting, DrainState, BaseInv
<1>2. /\ outbox' = plan.queued /\ live' = plan.docs
      /\ cursor' = Larger(cursor, drain.base) /\ Continue(<<>>, TRUE)
      /\ receipts' = [op \in Operation |->
           IF op \in plan.rejected THEN "rejected"
           ELSE IF \E q \in plan.queued : q.op = op THEN "queued"
           ELSE receipts[op]]
      /\ UNCHANGED <<log, wire, ready, retryTimer, socket, messages, recorded, failures, reloads>>
  BY DEF InstallRepair, server, budget
<1>3. /\ IsQueue(plan.queued)
      /\ plan.docs \subseteq Committed \cup Ops(plan.queued)
      /\ \A q \in plan.queued : /\ receipts[q.op] = "queued" /\ q.op \notin Committed
                                /\ Turn[drain.rest[1].op] < Turn[q.op]
      /\ \A o \in plan.rejected : /\ o \in Own /\ receipts[o] = "queued"
                                  /\ o \notin Committed \cup Ops(plan.queued)
  BY <1>1 DEF QueueInv, PlanInv
<1>4. plan.queued \subseteq Record /\ plan.rejected \subseteq Operation /\ plan.docs \subseteq Operation
  BY <1>1 DEF Plan
<1>5. /\ flushRequested' \in BOOLEAN
      /\ run' \in [Run -> RunState] /\ \A s \in Run : run'[s].base = run[s].base
      /\ drain' \in {IdleDrain, Listing}
  <2>1. <<>> \in Seq(Record)
    OBVIOUS
  <2>2. QED
    BY <1>1, <1>2, <2>1, ContinueFields
<1> HIDE DEF plan
<1>6. TypeOK'
  <2>1. receipts' \in [Operation -> Receipt]
    BY <1>1, <1>2, Typed DEF Receipt
  <2>2. cursor' \in 0..Len(log)
    BY <1>1, <1>2, Typed, LargerFields
  <2>3. QED
    BY <1>1, <1>2, <1>4, <1>5, <2>1, <2>2, Typed, RestingFields, TypedNext
<1>7. Committed' = Committed /\ OwnCommitted' = OwnCommitted
  BY <1>2 DEF Committed, OwnCommitted
<1>8. /\ Own \subseteq Operation /\ \A q \in Record : q.op \in Own
      /\ \A o \in Own : Turn[o] \in Nat
      /\ drain.rest[1] \in outbox /\ drain.rest[1].op \in Own /\ drain.rest[1].op \notin Committed
  BY <1>1, TurnFields, OwnAssumption, BadFields
<1>9. ASSUME NEW o \in Operation
      PROVE  /\ o \in plan.rejected => receipts'[o] = "rejected" /\ receipts[o] = "queued"
             /\ o \in Ops(plan.queued) => receipts'[o] = "queued" /\ receipts[o] = "queued"
             /\ o \notin plan.rejected \cup Ops(plan.queued) => receipts'[o] = receipts[o]
  BY <1>2, <1>3 DEF Ops
<1>10. MadeInv'
  <2>1. \A o \in Operation : (receipts'[o] = "none" <=> receipts[o] = "none")
    BY <1>9
  <2>2. \A o \in Operation : receipts'[o] = "rejected" => o \in Own
    BY <1>3, <1>9 DEF QueueInv, MadeInv
  <2>3. wire \subseteq Record
    BY <1>1, Typed
  <2>4. QED
    BY <1>2, <1>7, <1>8, <2>1, <2>2, <2>3 DEF QueueInv, MadeInv, OwnCommitted
<1>11. OutboxInv'
  <2>1. IsQueue(outbox)'
    BY <1>2, <1>3, <1>7 DEF IsQueue
  <2>2. \A q \in outbox' : receipts'[q.op] = "queued"
    BY <1>2, <1>4, <1>8, <1>9 DEF Ops
  <2>3. live' \subseteq Committed \cup Ops(outbox)'
    BY <1>2, <1>3 DEF Ops
  <2>4. ASSUME NEW q \in outbox', NEW o \in OwnCommitted
        PROVE  Turn[o] < Turn[q.op]
    <3>1. Turn[o] < Turn[drain.rest[1].op] /\ Turn[drain.rest[1].op] < Turn[q.op]
      BY <1>2, <1>3, <1>8 DEF QueueInv, OutboxInv
    <3>2. o \in Own /\ q.op \in Own
      BY <1>2, <1>4, <1>8 DEF OwnCommitted
    <3>3. QED
      BY <1>8, <3>1, <3>2
  <2>5. QED
    BY <1>7, <2>1, <2>2, <2>3, <2>4 DEF OutboxInv
<1>12. WireInv'
  <2>1. \A q \in wire : q.op \in Committed \/ Dead(q)
    BY <1>1, NothingElseIsSent
  <2>2. QED
    BY <1>2, <1>7, <2>1 DEF WireInv, Dead
<1>13. SendsInOrder'
  BY <1>2 DEF QueueInv, SendsInOrder
<1>14. ReceiptsAreTrue'
  <2>1. ASSUME NEW o \in Operation
        PROVE  /\ receipts'[o] = "committed" => o \in Committed
               /\ receipts'[o] = "rejected" => o \notin Committed
    BY <1>3, <1>9 DEF QueueInv, ReceiptsAreTrue
  <2>2. QED
    BY <1>6, <1>7, <1>11, <2>1, Truth
<1>15. BaseInv' /\ RestInv' /\ AnswerInv' /\ PlanInv'
  <2>1. /\ RestInv' /\ AnswerInv' /\ PlanInv'
        /\ drain'.base = 0 /\ drain'.reply.sequence = 0
    BY <1>5, <1>6, RestingDrain
  <2>2. QED
    BY <1>1, <1>2, <1>5, <1>7, <2>1, Typed DEF QueueInv, BaseInv
<1>16. QED
  BY <1>6, <1>9, <1>10, <1>11, <1>12, <1>13, <1>14, <1>15 DEF QueueInv

-----------------------------------------------------------------------------
LEMMA QueueInit == Init => QueueInv
<1> SUFFICES ASSUME Init
             PROVE  QueueInv
  OBVIOUS
<1>1. /\ log = <<>> /\ wire = {} /\ outbox = {} /\ live = {} /\ messages = {} /\ cursor = 0
      /\ receipts = [op \in Operation |-> "none"] /\ drain = IdleDrain /\ run = OpenPage
      /\ \A op \in Operation : receipts[op] = "none"
  BY DEF Init
<1>2. Committed = {} /\ OwnCommitted = {} /\ DOMAIN log = {} /\ Len(log) = 0
  BY <1>1 DEF Committed, OwnCommitted, Range
<1>3. TypeOK
  <2>1. receipts \in [Operation -> Receipt] /\ log \in Seq(Operation) /\ cursor \in 0..Len(log)
    BY <1>1, <1>2 DEF Receipt
  <2>2. failures \in 0..MaxFailures /\ reloads \in 0..MaxReloads
    BY BoundAssumption DEF Init
  <2>3. recorded \in [Operation -> {"none"} \cup Form] /\ socket \in SocketState
        /\ ready \in BOOLEAN /\ flushRequested \in BOOLEAN /\ retryTimer \in BOOLEAN
    BY NoSocketFields DEF Init
  <2>4. run \in [Run -> RunState] /\ drain \in DrainState
    BY <1>1, OpenPageFields, RestingFields
  <2>5. QED
    BY <1>1, <2>1, <2>2, <2>3, <2>4
       DEF TypeOK, Receipt, Reply, Plan, DrainState, RunState, SocketState
<1>4. MadeInv /\ WireInv /\ SendsInOrder
  BY <1>1, <1>2, OwnAssumption DEF MadeInv, WireInv, SendsInOrder
<1>5. OutboxInv /\ ReceiptsAreTrue
  BY <1>1, <1>2, OwnAssumption, FS_EmptySet DEF OutboxInv, IsQueue, Ops, ReceiptsAreTrue
<1>6. RestInv /\ AnswerInv /\ PlanInv
  <2>1. drain.pc = "none" /\ drain.rest = <<>> /\ DOMAIN drain.rest = {}
    BY <1>1, RestingFields
  <2>2. QED
    BY <2>1 DEF RestInv, AnswerInv, PlanInv, Rejecting
<1>7. BaseInv
  BY <1>1, <1>2, OpenPageFields, RestingFields DEF BaseInv
<1>8. QED
  BY <1>3, <1>4, <1>5, <1>6, <1>7 DEF QueueInv

LEMMA QueueStep ==
  ASSUME StampsDiffer, QueueInv, [Next]_vars
  PROVE  QueueInv'
<1>1. CASE UNCHANGED vars
  <2>1. /\ UNCHANGED <<log, wire, outbox, receipts, live, cursor, ready, flushRequested, retryTimer,
                       drain, run, socket, messages, recorded, failures, reloads>>
    BY <1>1 DEF vars, server, device, flushing, budget
  <2>2. TypeOK'
    BY <2>1, Typed, TypedNext DEF QueueInv
  <2>3. QED
    BY <2>1, <2>2, QuietStep DEF QueueInv, BaseInv
<1>2. ASSUME NEW op \in Operation, Dispatch(op) \/ RemoteCommit(op)
      PROVE  QueueInv'
  BY <1>2, DispatchStep, RemoteCommitStep
<1>3. CASE Client
  BY <1>3, ListOutboxStep, AcknowledgeStep, FetchRepairStateStep, ListForRepairStep,
     InstallRepairStep, RunStep DEF Client
<1>4. CASE Server
  BY <1>4, SubmitStep, SubmitLateStep, StreamStep, Typed DEF Server, QueueInv
<1>5. CASE Stream
  BY <1>5, StreamStep, AcceptMessageStep DEF Stream
<1>6. CASE Failure
  BY <1>6, AbandonStep, RunStep, StreamStep DEF Failure
<1>7. QED
  BY <1>1, <1>2, <1>3, <1>4, <1>5, <1>6 DEF Next

LEMMA QueueAlways == StampsDiffer /\ Spec => []QueueInv
<1>1. StampsDiffer /\ QueueInv /\ [Next]_vars => QueueInv'
  BY QueueStep
<1>2. StampsDiffer => []StampsDiffer
  OBVIOUS
<1>3. QED
  BY <1>1, <1>2, QueueInit, PTL DEF Spec

\* What commit() and the repair write over a receipt: never one that is final.
LEMMA ReceiptStep ==
  ASSUME StampsDiffer, QueueInv, [Next]_vars, NEW o \in Operation,
         receipts[o] \in {"committed", "rejected"}
  PROVE  receipts'[o] = receipts[o]
<1>1. /\ receipts \in [Operation -> Receipt]
      /\ receipts[o] = "rejected" => o \notin Committed
  BY Typed DEF QueueInv, ReceiptsAreTrue
<1>2. CASE UNCHANGED receipts
  BY <1>2
<1>3. ASSUME NEW op \in Operation, Dispatch(op)
      PROVE  receipts'[o] = receipts[o]
  <2>1. receipts[op] = "none" /\ receipts' = [receipts EXCEPT ![op] = "queued"]
    BY <1>3 DEF Dispatch
  <2>2. QED
    BY <1>1, <2>1
<1>4. ASSUME NEW op \in Committed, receipts' = [receipts EXCEPT ![op] = "committed"]
      PROVE  receipts'[o] = receipts[o]
  BY <1>1, <1>4
<1>5. CASE Acknowledge
  <2>1. /\ drain.pc = "answer" /\ drain.rest \in Seq(Record) /\ drain.rest # <<>>
        /\ drain.rest[1].op \in Committed
    BY <1>5, Typed, RestFields DEF QueueInv, Acknowledge, AnswerInv, DrainState
  <2>2. receipts' = [receipts EXCEPT ![drain.rest[1].op] = "committed"]
    BY <1>5, <2>1 DEF Acknowledge
  <2>3. QED
    BY <1>4, <2>1, <2>2
<1>6. ASSUME NEW op \in Operation, NEW form \in Form, AcceptMessage(op, form)
      PROVE  receipts'[o] = receipts[o]
  <2>1. op \in Committed /\ receipts' = [receipts EXCEPT ![op] = "committed"]
    BY <1>6 DEF QueueInv, BaseInv, AcceptMessage
  <2>2. QED
    BY <1>4, <2>1
<1>7. CASE InstallRepair
  BY <1>7, InstallRepairStep
<1>8. CASE ListOutbox \/ FetchRepairState \/ ListForRepair
  BY <1>2, <1>8 DEF ListOutbox, FetchRepairState, ListForRepair, device
<1>9. ASSUME NEW r \in Run, \/ StartRun(r) \/ FetchState(r) \/ AcceptState(r) \/ OpenSocket(r)
                            \/ SocketOpens(r) \/ RunFails(r) \/ RunReplaced(r)
      PROVE  receipts'[o] = receipts[o]
  BY <1>2, <1>9 DEF StartRun, FetchState, AcceptState, OpenSocket, SocketOpens, RunFails,
                    RunReplaced, device
<1>10. CASE Server
  BY <1>2, <1>10 DEF Server, Submit, SubmitLate, ReadHistory, device
<1>11. CASE DrainFails \/ SocketBreaks \/ Reload
  BY <1>2, <1>11 DEF DrainFails, SocketBreaks, Reload, device
<1>12. ASSUME NEW op \in Operation, NEW form \in Form, RemoteCommit(op) \/ Deliver(op, form)
       PROVE  receipts'[o] = receipts[o]
  BY <1>2, <1>12 DEF RemoteCommit, Deliver, device
<1>13. ASSUME NEW op \in Operation, RemoteCommit(op)
       PROVE  receipts'[o] = receipts[o]
  BY <1>2, <1>13 DEF RemoteCommit, device
<1>14. CASE UNCHANGED vars
  BY <1>2, <1>14 DEF vars, device
<1>15. QED
  BY <1>3, <1>5, <1>6, <1>7, <1>8, <1>9, <1>10, <1>11, <1>12, <1>13, <1>14
     DEF Next, Client, Stream, Failure

-----------------------------------------------------------------------------
\* The types of the client's state, of every page that is opened.
THEOREM TypesAlways == StampsDiffer /\ Spec => []TypeOK
<1>1. QueueInv => TypeOK
  BY DEF QueueInv
<1>2. QED
  BY <1>1, QueueAlways, PTL

\* One ordered durable send queue (#drainOutbox, listOutbox): the server accepts
\* the operations of a device in the order they were made, whatever is retried,
\* repaired, reloaded or arrives after its sender has given up.
THEOREM SendsInOrderAlways == StampsDiffer /\ Spec => []SendsInOrder
<1>1. QueueInv => SendsInOrder
  BY DEF QueueInv
<1>2. QED
  BY <1>1, QueueAlways, PTL

\* A receipt is the truth about its operation (acknowledge, installRepair): what
\* is called rejected is not in the journal, the documents or the queue, and no
\* late POST brings it there.
THEOREM ReceiptsAlwaysTrue == StampsDiffer /\ Spec => []ReceiptsAreTrue
<1>1. QueueInv => ReceiptsAreTrue
  BY DEF QueueInv
<1>2. QED
  BY <1>1, QueueAlways, PTL

\* A receipt of commit() or of a rejection is never written over.
THEOREM ReceiptsFinal == StampsDiffer /\ Spec => ReceiptsAreFinal
<1>1. ASSUME StampsDiffer, QueueInv, [Next]_vars
      PROVE  [\A op \in Operation :
                receipts[op] \in {"committed", "rejected"} => receipts'[op] = receipts[op]]_vars
  BY <1>1, ReceiptStep
<1>2. StampsDiffer => []StampsDiffer
  OBVIOUS
<1>3. QED
  BY <1>1, <1>2, QueueAlways, PTL DEF Spec, ReceiptsAreFinal

-----------------------------------------------------------------------------
(***************************************************************************)
(* Without a dispute.                                                      *)
(***************************************************************************)

\* What other devices leave alone is never refused: the first of the queue was
\* made on all that is committed.
LEMMA UndisputedIsAccepted ==
  ASSUME Undisputed, QueueInv, CalmInv, drain.pc = "post"
  PROVE  Verdict(drain.rest[1]) # "rejected"
<1>1. drain.rest[1] \in Record /\ TypeOK
  BY RestFields DEF QueueInv
<1> PICK q \in Record : q = drain.rest[1]
  BY <1>1
<1>2. CASE q.op \in Committed
  BY <1>2 DEF Verdict
<1>3. CASE q.op \notin Committed
  <2>1. q \in outbox /\ q.basis \subseteq Committed
    BY <1>3, InFlightIsForemost DEF Foremost
  <2>2. q.op \in Own /\ q.basis \subseteq Rivals[q.op] /\ Committed \subseteq Operation
    BY <1>1, <2>1, TurnFields, CommittedFields DEF QueueInv, OutboxInv, IsQueue
  <2>3. ASSUME NEW o \in Committed
        PROVE  Touches[o] \cap Creates[q.op] = {} /\ (o \in Rivals[q.op] => o \in q.basis)
    <3>1. CASE o \in Own
      <4>1. receipts[o] # "none" /\ Turn[o] < Turn[q.op]
        BY <1>3, <2>1, <3>1 DEF QueueInv, MadeInv, OutboxInv, OwnCommitted
      <4>2. QED
        BY <2>1, <3>1, <4>1 DEF CalmInv, Knowing
    <3>2. CASE o \notin Own
      BY <2>2, <3>2 DEF Undisputed
    <3>3. QED
      BY <3>1, <3>2
  <2>4. AdmissibleOn(q.op, q.basis, Committed)
    BY <2>1, <2>2, <2>3 DEF AdmissibleOn, Undisputed
  <2>5. QED
    BY <1>3, <2>4 DEF Verdict
<1>4. QED
  BY <1>2, <1>3

LEMMA CalmKept ==
  ASSUME CalmInv, UNCHANGED <<outbox, receipts>>, live \subseteq live', ~Rejecting'
  PROVE  CalmInv' /\ live \subseteq live'
<1>1. \A q \in outbox' : Knowing(q)'
  BY DEF CalmInv, Knowing
<1>2. QED
  BY <1>1 DEF CalmInv, NoLostWork

\* A receipt of a committed operation replaces its record.
LEMMA CalmSettles ==
  ASSUME CalmInv, TypeOK, NEW op \in Operation, op \in Own => receipts[op] # "none",
         outbox' = {q \in outbox : q.op # op}, receipts' = [receipts EXCEPT ![op] = "committed"],
         UNCHANGED live, ~Rejecting'
  PROVE  CalmInv' /\ live \subseteq live'
<1>1. \A o \in Operation : receipts'[o] = IF o = op THEN "committed" ELSE receipts[o]
  BY Typed
<1>2. Own \subseteq Operation
  BY OwnAssumption
<1>3. \A o \in Own : receipts'[o] # "none" => receipts[o] # "none"
  BY <1>1, <1>2
<1>4. \A q \in outbox' : Knowing(q)'
  BY <1>3 DEF CalmInv, Knowing
<1>5. NoLostWork'
  BY <1>1, <1>2 DEF CalmInv, NoLostWork
<1>6. QED
  BY <1>1, <1>3, <1>4, <1>5 DEF CalmInv

LEMMA DispatchCalm ==
  ASSUME QueueInv, CalmInv, NEW op \in Operation, Dispatch(op)
  PROVE  CalmInv' /\ live \subseteq live'
<1> PICK made : made = [op |-> op, basis |-> Basis[op]]
  OBVIOUS
<1>1. /\ op \in Own /\ receipts[op] = "none"
      /\ \A o \in Own : receipts[o] # "none" => Turn[o] < Turn[op]
      /\ Stageable(op, live) /\ live \cap Rivals[op] = Basis[op]
      /\ outbox' = outbox \cup {made}
      /\ receipts' = [receipts EXCEPT ![op] = "queued"]
      /\ live' = live \cup {op}
  BY DEF Dispatch
<1>2. TypeOK /\ (drain' = drain \/ drain' = Listing)
  BY RequestFlushFields DEF QueueInv, Dispatch
<1>3. ~Rejecting'
  BY <1>2, RestingFields DEF Rejecting, CalmInv
<1>4. /\ \A o \in Operation : receipts'[o] = IF o = op THEN "queued" ELSE receipts[o]
      /\ Own \subseteq Operation /\ \A o \in Own : Turn[o] \in Nat
      /\ \A q \in outbox : q.op \in Own
  BY <1>1, Typed, TurnFields, OwnAssumption DEF QueueInv
<1>5. ASSUME NEW o \in Own, receipts[o] # "none"
      PROVE  Touches[o] \cap Creates[op] = {} /\ (o \in Rivals[op] => o \in Basis[op])
  <2>1. o \in live
    BY <1>5 DEF CalmInv
  <2>2. \A s \in Creates[op] : s \notin Touches[o]
    BY <1>1, <2>1 DEF Stageable, Known
  <2>3. QED
    BY <1>1, <2>1, <2>2
<1>6. ASSUME NEW q \in outbox'
      PROVE  Knowing(q)'
  <2>1. CASE q \in outbox
    <3>1. receipts[q.op] # "none" /\ q.op \in Own
      BY <1>4, <2>1 DEF QueueInv, OutboxInv
    <3>2. Turn[q.op] < Turn[op]
      BY <1>1, <3>1
    <3>3. \A o \in Own : receipts'[o] # "none" /\ Turn[o] < Turn[q.op] => receipts[o] # "none"
      BY <1>1, <1>4, <3>1, <3>2
    <3>4. QED
      BY <2>1, <3>3 DEF CalmInv, Knowing
  <2>2. CASE q = made
    <3>1. q.op = op /\ q.basis = Basis[op]
      BY <2>2
    <3>2. \A o \in Own : receipts'[o] # "none" /\ Turn[o] < Turn[op] => receipts[o] # "none"
      BY <1>1, <1>4
    <3>3. QED
      BY <1>5, <3>1, <3>2 DEF Knowing
  <2>3. QED
    BY <1>1, <2>1, <2>2
<1>7. NoLostWork'
  <2>1. ASSUME NEW o \in Own, receipts'[o] = "queued"
        PROVE  \E q \in outbox' : q.op = o
    <3>1. CASE o = op
      BY <1>1, <3>1
    <3>2. CASE o # op
      BY <1>1, <1>4, <2>1, <3>2 DEF CalmInv, NoLostWork
    <3>3. QED
      BY <3>1, <3>2
  <2>2. QED
    BY <2>1 DEF NoLostWork
<1>8. QED
  BY <1>1, <1>3, <1>4, <1>6, <1>7 DEF CalmInv

LEMMA ContinueCalm ==
  ASSUME NEW rest, NEW requested, Continue(rest, requested)
  PROVE  ~Rejecting'
<1>1. CASE rest # <<>>
  <2>1. drain' = Posting(rest)
    BY <1>1, PostingIs DEF Continue
  <2>2. Posting(rest).pc = "post"
    BY DEF Posting
  <2>3. QED
    BY <2>1, <2>2 DEF Rejecting
<1>2. CASE rest = <<>>
  <2>1. drain' = IdleDrain \/ drain' = Listing
    BY <1>2 DEF Continue
  <2>2. QED
    BY <2>1, RestingFields DEF Rejecting
<1>3. QED
  BY <1>1, <1>2

LEMMA ThrowsCalm == ASSUME DrainThrows PROVE ~Rejecting'
<1>1. drain' = IdleDrain \/ drain' = Listing
  BY DEF DrainThrows
<1>2. QED
  BY <1>1, RestingFields DEF Rejecting

LEMMA AcknowledgeCalm ==
  ASSUME QueueInv, CalmInv, Acknowledge
  PROVE  CalmInv' /\ live \subseteq live'
<1>1. /\ TypeOK /\ Head(drain.rest) = drain.rest[1] /\ 1 \in DOMAIN drain.rest /\ drain.rest[1] \in Record
  BY RestFields DEF QueueInv, Acknowledge
<1> PICK op : op = drain.rest[1].op
  OBVIOUS
<1>2. op \in Operation /\ receipts[op] # "none"
  BY <1>1, TurnFields DEF QueueInv, RestInv
<1>3. /\ outbox' = {q \in outbox : q.op # op} /\ receipts' = [receipts EXCEPT ![op] = "committed"]
      /\ UNCHANGED live
  BY <1>1 DEF Acknowledge
<1>4. ~Rejecting'
  BY ThrowsCalm, ContinueCalm DEF Acknowledge
<1>5. QED
  BY <1>1, <1>2, <1>3, <1>4, CalmSettles

LEMMA AcceptMessageCalm ==
  ASSUME QueueInv, CalmInv, NEW op \in Operation, NEW form \in Form, AcceptMessage(op, form)
  PROVE  CalmInv' /\ live \subseteq live'
<1>1. /\ TypeOK /\ op \in Committed
      /\ outbox' = {q \in outbox : q.op # op} /\ receipts' = [receipts EXCEPT ![op] = "committed"]
      /\ UNCHANGED <<live, drain>>
  BY DEF AcceptMessage, QueueInv, BaseInv, flushing
<1>2. op \in Own => receipts[op] # "none"
  BY <1>1 DEF QueueInv, MadeInv, OwnCommitted
<1>3. ~Rejecting'
  BY <1>1 DEF CalmInv, Rejecting
<1>4. QED
  BY <1>1, <1>2, <1>3, CalmSettles

LEMMA SubmitCalm ==
  ASSUME Undisputed, QueueInv, CalmInv, Submit
  PROVE  CalmInv' /\ live \subseteq live'
<1>1. drain.pc = "post" /\ Head(drain.rest) = drain.rest[1] /\ drain \in DrainState
  BY RestFields, Typed DEF QueueInv, Submit
<1>2. Verdict(drain.rest[1]) # "rejected"
  BY <1>1, UndisputedIsAccepted
<1>3. drain'.reply.kind = Verdict(drain.rest[1]) /\ drain'.pc = "answer"
  BY <1>1 DEF Submit, DrainState
<1>4. ~Rejecting'
  BY <1>2, <1>3 DEF Rejecting
<1>5. UNCHANGED <<outbox, receipts, live>>
  BY DEF Submit, device
<1>6. QED
  BY <1>4, <1>5, CalmKept

LEMMA OtherCalm ==
  ASSUME CalmInv,
         \/ UNCHANGED vars
         \/ ListOutbox \/ FetchRepairState \/ ListForRepair \/ InstallRepair
         \/ \E r \in Run : StartRun(r) \/ FetchState(r) \/ AcceptState(r) \/ OpenSocket(r)
                            \/ SocketOpens(r) \/ RunFails(r) \/ RunReplaced(r)
         \/ ReadHistory \/ SocketBreaks \/ DrainFails \/ Reload
         \/ \E op \in Operation : RemoteCommit(op)
         \/ \E q \in wire : SubmitLate(q)
         \/ \E op \in Operation, form \in Form : Deliver(op, form)
  PROVE  CalmInv' /\ live \subseteq live'
<1>1. ~FetchRepairState /\ ~ListForRepair /\ ~InstallRepair
  BY DEF CalmInv, Rejecting, FetchRepairState, ListForRepair, InstallRepair
<1>2. CASE ListOutbox
  <2>1. UNCHANGED <<outbox, receipts, live>>
    BY <1>2 DEF ListOutbox, device
  <2>2. ~Rejecting'
    BY <1>2, ContinueCalm DEF ListOutbox
  <2>3. QED
    BY <2>1, <2>2, CalmKept
<1>3. CASE DrainFails \/ Reload
  <2>1. UNCHANGED <<outbox, receipts, live>>
    BY <1>3 DEF DrainFails, Reload, device
  <2>2. ~Rejecting'
    BY <1>3, ThrowsCalm, RestingFields DEF DrainFails, Reload, Rejecting
  <2>3. QED
    BY <2>1, <2>2, CalmKept
<1>4. CASE \E r \in Run : SocketOpens(r)
  <2>1. UNCHANGED <<outbox, receipts, live>> /\ (drain' = drain \/ drain' = Listing)
    BY <1>4 DEF SocketOpens, device
  <2>2. ~Rejecting'
    BY <2>1, RestingFields DEF CalmInv, Rejecting
  <2>3. QED
    BY <2>1, <2>2, CalmKept
<1>5. CASE UNCHANGED <<outbox, receipts, drain>> /\ live \subseteq live'
  <2>1. ~Rejecting'
    BY <1>5 DEF CalmInv, Rejecting
  <2>2. QED
    BY <1>5, <2>1, CalmKept
<1>6. CASE \E r \in Run : AcceptState(r)
  BY <1>5, <1>6 DEF AcceptState, flushing
<1>7. CASE \E op \in Operation, form \in Form : Deliver(op, form)
  BY <1>5, <1>7 DEF Deliver, flushing
<1>8. CASE \/ UNCHANGED vars
           \/ \E r \in Run : StartRun(r) \/ FetchState(r) \/ OpenSocket(r) \/ RunFails(r) \/ RunReplaced(r)
           \/ ReadHistory \/ SocketBreaks
           \/ \E op \in Operation : RemoteCommit(op)
           \/ \E q \in wire : SubmitLate(q)
  <2>1. UNCHANGED <<outbox, receipts, live, drain>>
    BY <1>8 DEF vars, StartRun, FetchState, OpenSocket, RunFails, RunReplaced, ReadHistory, SocketBreaks,
       RemoteCommit, SubmitLate, device, flushing
  <2>2. QED
    BY <1>5, <2>1
<1>9. QED
  BY <1>1, <1>2, <1>3, <1>4, <1>6, <1>7, <1>8

LEMMA CalmStep ==
  ASSUME Undisputed, QueueInv, CalmInv, [Next]_vars
  PROVE  CalmInv' /\ live \subseteq live'
<1>1. CASE \E op \in Operation : Dispatch(op)
  BY <1>1, DispatchCalm
<1>2. CASE Acknowledge
  BY <1>2, AcknowledgeCalm
<1>3. CASE Submit
  BY <1>3, SubmitCalm
<1>4. CASE \E op \in Operation, form \in Form : AcceptMessage(op, form)
  BY <1>4, AcceptMessageCalm
<1>5. CASE \/ UNCHANGED vars
           \/ ListOutbox \/ FetchRepairState \/ ListForRepair \/ InstallRepair
           \/ \E r \in Run : StartRun(r) \/ FetchState(r) \/ AcceptState(r) \/ OpenSocket(r)
                              \/ SocketOpens(r) \/ RunFails(r) \/ RunReplaced(r)
           \/ ReadHistory \/ SocketBreaks \/ DrainFails \/ Reload
           \/ \E op \in Operation : RemoteCommit(op)
           \/ \E q \in wire : SubmitLate(q)
           \/ \E op \in Operation, form \in Form : Deliver(op, form)
  BY <1>5, OtherCalm
<1>6. QED
  BY <1>1, <1>2, <1>3, <1>4, <1>5, Zenon DEF Next, Client, Server, Stream, Failure

LEMMA CalmStarts == Init => CalmInv
<1> SUFFICES ASSUME Init PROVE CalmInv
  OBVIOUS
<1>1. ~Rejecting
  BY RestingFields DEF Init, Rejecting
<1>2. \A op \in Operation : receipts[op] = "none"
  BY DEF Init
<1>3. QED
  BY <1>1, <1>2, OwnAssumption DEF Init, CalmInv, NoLostWork

LEMMA CalmAlways == StampsDiffer /\ Undisputed /\ Spec => [](QueueInv /\ CalmInv)
<1>1. Undisputed /\ QueueInv /\ CalmInv /\ [Next]_vars => CalmInv'
  BY CalmStep
<1>2. Undisputed => []Undisputed
  OBVIOUS
<1>3. QED
  BY <1>1, <1>2, QueueAlways, CalmStarts, PTL DEF Spec

\* What no other device disputes is never lost and never refused, whatever
\* requests fail, overlap or arrive late and however often the page is closed:
\* the record is in the outbox until its committed receipt is stored.
THEOREM WorkIsNeverLost == StampsDiffer /\ Undisputed /\ Spec => []NoLostWork
<1>1. CalmInv => NoLostWork
  BY DEF CalmInv
<1>2. QED
  BY <1>1, CalmAlways, PTL

\* Nor does the server refuse it: the queue is sent in order, so that each
\* operation reaches a journal that holds what it was made on and no rival.
THEOREM NothingIsRefused ==
  StampsDiffer /\ Undisputed /\ Spec => [](\A op \in Operation : receipts[op] # "rejected")
<1>1. CalmInv => \A op \in Operation : receipts[op] # "rejected"
  BY DEF CalmInv
<1>2. QED
  BY <1>1, CalmAlways, PTL

\* Then no repair replaces the replica, and nothing that is committed leaves it
\* again, also when it arrives while requests fail or the page is closed.
THEOREM CommittedAlwaysStays == StampsDiffer /\ Undisputed /\ Spec => CommittedStays
<1>1. ASSUME Undisputed, QueueInv, CalmInv, [Next]_vars
      PROVE  [live \cap Committed \subseteq live']_vars
  BY <1>1, CalmStep
<1>2. Undisputed => []Undisputed
  OBVIOUS
<1>3. QED
  BY <1>1, <1>2, CalmAlways, PTL DEF Spec, CommittedStays
=============================================================================
