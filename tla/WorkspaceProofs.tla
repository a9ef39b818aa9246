---------------------------- MODULE WorkspaceProofs ----------------------------
(***************************************************************************)
(* What the runtime of one page keeps, for any operations, surfaces and    *)
(* strokes and any number of failed transactions and reloads: first the    *)
(* replica (WorkspaceReplica), then the inverse history of one surface     *)
(* (UndoHistory), which lives in the same runtime and commits through the  *)
(* same database.                                                          *)
(***************************************************************************)
EXTENDS WorkspaceReplica, UndoHistory, TLAPS

\* What the page or the server has made durable.
Known(o) == (o \in Own /\ receipts[o] # "none") \/ o \in committed

\* The transactions under way.
Waiting == ToSet(idb)

Accepts(t) == t.kind \in {"identity", "remote"}
Repairs(t) == t.kind \in {"list", "repair"}

\* No two transactions under way are alike: an operation is dispatched once and
\* accepted once at a time, and there is one repair.
Alike(t, u) ==
  \/ t.kind = "local" /\ u.kind = "local" /\ t.op = u.op
  \/ Accepts(t) /\ Accepts(u) /\ t.op = u.op
  \/ Repairs(t) /\ Repairs(u)

AllApart(q) == \A i, j \in DOMAIN q : i # j => ~Alike(q[i], q[j])

\* A transaction carries only what is durable, but for the operation it is to
\* make durable.
Sound(t) ==
  /\ t.kind = "local" =>
       /\ edit[t.op] = "staged"
       /\ \A s \in Surface : \A o \in t.states[s] : o = t.op \/ Known(o)
  /\ Accepts(t) =>
       /\ t.op \in committed /\ t.surface \in accepting[t.op]
       /\ \A o \in t.state : Known(o)
  /\ t.kind = "acknowledge" => t.op \in committed
  /\ t.kind = "list" => t.base \subseteq committed /\ receipts[t.op] # "none"
  /\ t.kind = "repair" =>
       /\ \A o \in t.plan.docs : Known(o)
       /\ \A o \in t.plan.queued \cup t.plan.rejected : receipts[o] # "none"
       /\ t.plan.queued \cup t.plan.rejected \subseteq Own

\* Documents and records hold only what is durable.
Durable ==
  /\ \A s \in Surface : \A o \in live[s] \cup stored[s] : Known(o)
  /\ \A o \in outbox : receipts[o] # "none"
  /\ \A o \in committed \cap Own : receipts[o] # "none"
  /\ \A o \in Own : receipts[o] # "none" => edit[o] \notin {"none", "staged"}

\* What the server has committed was admissible.
Grounded == \A o \in committed : Basis[o] \subseteq committed

Partial == \A op \in Operation : accepting[op] \subseteq Touches[op]

ReplicaInv ==
  /\ TypeOK /\ Durable /\ Grounded /\ Partial
  /\ AllApart(idb)
  /\ \A t \in Waiting : Sound(t)

-----------------------------------------------------------------------------
\* The server will never accept this operation.
Hopeless(op) ==
  /\ op \notin committed
  /\ \/ op \in Malformed
     \/ \E o \in committed : Touches[o] \cap Creates[op] # {}
     \/ \E o \in committed : o \in Rivals[op] \ Basis[op]

\* A rejection stays: nothing brings the operation back.
Buried(op) ==
  /\ receipts[op] = "rejected" /\ Hopeless(op) /\ op \notin outbox
  /\ \A t \in Waiting : t.kind = "repair" => op \notin t.plan.queued

\* A reload or a repair has replaced the documents.
Disturbed == reloads # 0 \/ \E op \in Own : Buried(op)

\* The operations this page or the server had before op: its author has seen them.
Before(op) == committed \cup {o \in Own : receipts[o] # "none" /\ Turn[o] < Turn[op]}

ShownOn(op, surfaces) == \A s \in surfaces : op \in live[s]

Untouched(t) ==
  /\ t.kind = "local" =>
       /\ Touches[t.op] \ Creates[t.op] \subseteq loaded
       /\ Creates[t.op] \cap loaded = {}
       /\ \A s \in Creates[t.op] : t.op \in t.states[s]
       /\ Basis[t.op] \subseteq Before(t.op)
  /\ Accepts(t) =>
       /\ t.onto = "document" => t.surface \in loaded
       /\ t.onto = "registry" => t.surface \notin loaded
       /\ t.onto # "nothing"
       /\ t.op \in t.state
       /\ ShownOn(t.op, Touches[t.op] \ accepting[t.op])
  /\ t.kind = "acknowledge" => ShownOn(t.op, Touches[t.op])
  /\ t.kind = "list" => Hopeless(t.op)
  /\ t.kind = "repair" =>
       \E bad \in t.plan.rejected : Hopeless(bad) /\ bad \notin t.plan.queued

\* While neither has happened, documents only grow.
Growing ==
  /\ reloads = 0
  /\ \A op \in Operation : receipts[op] # "rejected"
  /\ \A s \in Surface \ loaded : live[s] = {}
  /\ \A op \in Operation : receipts[op] # "none" => ShownOn(op, Touches[op])
  /\ \A op \in outbox : Basis[op] \subseteq Before(op)
  /\ \A op \in Own : receipts[op] # "none" => op \in outbox \cup committed
  /\ \A t \in Waiting : Untouched(t)

\* The surfaces a transaction makes known to the page.
Makes(t) ==
  IF t.kind = "local" THEN Creates[t.op]
  ELSE IF Accepts(t) /\ t.onto = "registry" THEN {t.surface} ELSE {}

\* No surface is being made known by two transactions at once: identifiers of
\* created surfaces are random, and two remote updates of one unknown surface
\* are the case of WorkspaceReplicaUnknown.
MadeOnce ==
  \A i, j \in DOMAIN idb : i # j => Makes(idb[i]) \cap Makes(idb[j]) = {}
-----------------------------------------------------------------------------
\* What Append and RemoveAt leave of a property of all transactions, and of
\* every pair of them.
LEMMA AppendKeeps ==
  ASSUME NEW S, NEW q \in Seq(S), NEW t \in S
  PROVE  /\ Append(q, t) \in Seq(S)
         /\ \A u \in ToSet(Append(q, t)) : u = t \/ u \in ToSet(q)
         /\ \A u \in ToSet(q) : u \in S
  BY DEF ToSet

LEMMA AppendApart ==
  ASSUME NEW S, NEW q \in Seq(S), NEW t \in S, AllApart(q),
         \A u \in ToSet(q) : ~Alike(u, t) /\ ~Alike(t, u)
  PROVE  AllApart(Append(q, t))
<1> SUFFICES ASSUME NEW i \in DOMAIN Append(q, t), NEW j \in DOMAIN Append(q, t), i # j
             PROVE  ~Alike(Append(q, t)[i], Append(q, t)[j])
  BY Zenon DEF AllApart
<1>1. DOMAIN q = 1..Len(q) /\ DOMAIN Append(q, t) = 1..(Len(q) + 1) /\ Len(q) \in Nat
  OBVIOUS
<1>2. \A k \in 1..Len(q) : Append(q, t)[k] = q[k]
  OBVIOUS
<1>3. Append(q, t)[Len(q) + 1] = t
  OBVIOUS
<1>4. CASE i \in 1..Len(q) /\ j \in 1..Len(q)
  BY <1>1, <1>2, <1>4 DEF AllApart
<1>5. CASE i = Len(q) + 1 \/ j = Len(q) + 1
  BY <1>1, <1>2, <1>3, <1>5 DEF ToSet
<1>6. QED
  BY <1>1, <1>4, <1>5

Skip(i, j) == IF j < i THEN j ELSE j + 1

LEMMA ConcatLen ==
  ASSUME NEW S, NEW a \in Seq(S), NEW b \in Seq(S)
  PROVE  a \o b \in Seq(S) /\ Len(a \o b) = Len(a) + Len(b)
  OBVIOUS

\* a holds the elements before the i-th, b those behind it.
Ahead(a, q, i) == Len(a) = i - 1 /\ \A j \in 1..(i - 1) : a[j] = q[j]
Behind(b, q, i) == Len(b) = Len(q) - i /\ \A j \in 1..(Len(q) - i) : b[j] = q[i + j]

\* c holds the elements of q but the i-th.
Skips(S, c, q, i) ==
  /\ c \in Seq(S) /\ Len(c) = Len(q) - 1
  /\ \A j \in 1..(Len(q) - 1) :
       c[j] = q[Skip(i, j)] /\ Skip(i, j) \in 1..Len(q) /\ Skip(i, j) # i

LEMMA JoinedAround ==
  ASSUME NEW S, NEW q \in Seq(S), NEW i \in 1..Len(q), NEW a \in Seq(S), NEW b \in Seq(S),
         Ahead(a, q, i), Behind(b, q, i)
  PROVE  Skips(S, a \o b, q, i)
<1>1. a \o b \in Seq(S) /\ Len(a \o b) = Len(q) - 1
  <2>1. a \o b \in Seq(S) /\ Len(a \o b) = Len(a) + Len(b)
    BY ConcatLen, Zenon
  <2>2. QED
    BY <2>1 DEF Ahead, Behind
<1>2. ASSUME NEW j \in 1..(Len(q) - 1)
      PROVE  (a \o b)[j] = q[Skip(i, j)] /\ Skip(i, j) \in 1..Len(q) /\ Skip(i, j) # i
  <2>1. CASE j < i
    <3>1. Skip(i, j) = j /\ j \in 1..(i - 1) /\ j \in 1..Len(q) /\ j # i
      BY <2>1 DEF Skip
    <3>2. (a \o b)[j] = a[j]
      BY <3>1 DEF Ahead, Behind
    <3>3. QED
      BY <3>1, <3>2 DEF Ahead
  <2>2. CASE ~(j < i)
    <3>1. /\ Skip(i, j) = j + 1 /\ j - (i - 1) \in 1..(Len(q) - i)
          /\ i + (j - (i - 1)) = j + 1 /\ j + 1 \in 1..Len(q) /\ j + 1 # i
      BY <2>2 DEF Skip
    <3>2. (a \o b)[j] = b[j - (i - 1)]
      BY <2>2 DEF Ahead, Behind
    <3>3. b[j - (i - 1)] = q[j + 1]
      BY <3>1 DEF Behind
    <3>4. QED
      BY <3>1, <3>2, <3>3
  <2>3. QED
    BY <2>1, <2>2
<1>3. QED
  BY <1>1, <1>2, Zenon DEF Skips

LEMMA RemoveAtIs ==
  ASSUME NEW S, NEW q \in Seq(S), NEW i \in 1..Len(q)
  PROVE  Skips(S, RemoveAt(q, i), q, i)
<1>1. SubSeq(q, 1, i - 1) \in Seq(S) /\ Ahead(SubSeq(q, 1, i - 1), q, i)
  BY DEF Ahead
<1>2. SubSeq(q, i + 1, Len(q)) \in Seq(S) /\ Behind(SubSeq(q, i + 1, Len(q)), q, i)
  BY DEF Behind
<1>3. RemoveAt(q, i) = SubSeq(q, 1, i - 1) \o SubSeq(q, i + 1, Len(q))
  BY DEF RemoveAt
<1>4. Skips(S, SubSeq(q, 1, i - 1) \o SubSeq(q, i + 1, Len(q)), q, i)
  BY <1>1, <1>2, JoinedAround, Zenon
<1>5. QED
  BY <1>3, <1>4, Zenon

LEMMA RemoveKeeps ==
  ASSUME NEW S, NEW q \in Seq(S), NEW i \in DOMAIN q
  PROVE  /\ RemoveAt(q, i) \in Seq(S)
         /\ \A j \in DOMAIN RemoveAt(q, i) :
              Skip(i, j) \in DOMAIN q /\ Skip(i, j) # i /\ RemoveAt(q, i)[j] = q[Skip(i, j)]
         /\ \A j, k \in DOMAIN RemoveAt(q, i) : j # k => Skip(i, j) # Skip(i, k)
<1>1. i \in 1..Len(q) /\ DOMAIN q = 1..Len(q)
  OBVIOUS
<1>2. /\ RemoveAt(q, i) \in Seq(S) /\ Len(RemoveAt(q, i)) = Len(q) - 1
      /\ \A j \in 1..(Len(q) - 1) :
           RemoveAt(q, i)[j] = q[Skip(i, j)] /\ Skip(i, j) \in 1..Len(q) /\ Skip(i, j) # i
  BY <1>1, RemoveAtIs, Zenon DEF Skips
<1>3. DOMAIN RemoveAt(q, i) = 1..(Len(q) - 1)
  BY <1>2
<1>4. \A j, k \in 1..(Len(q) - 1) : j # k => Skip(i, j) # Skip(i, k)
  BY <1>1 DEF Skip
<1>5. QED
  BY <1>1, <1>2, <1>3, <1>4, Zenon

LEMMA RemoveApart ==
  ASSUME NEW S, NEW q \in Seq(S), NEW i \in DOMAIN q, AllApart(q)
  PROVE  /\ RemoveAt(q, i) \in Seq(S) /\ AllApart(RemoveAt(q, i))
         /\ q[i] \in ToSet(q) /\ q[i] \in S
         /\ \A u \in ToSet(RemoveAt(q, i)) : u \in ToSet(q) /\ ~Alike(u, q[i]) /\ ~Alike(q[i], u)
  BY RemoveKeeps DEF AllApart, ToSet

\* What a repair leaves of the transactions under way.
LEMMA DetachKeeps ==
  ASSUME NEW q \in Seq(Transaction), NEW replaced, AllApart(q)
  PROVE  /\ Detached(q, replaced) \in Seq(Transaction) /\ AllApart(Detached(q, replaced))
         /\ \A u \in ToSet(Detached(q, replaced)) :
              \/ u \in ToSet(q)
              \/ \E v \in ToSet(q) : /\ Accepts(v) /\ v.surface \in replaced /\ v.onto = "document"
                                    /\ u = [v EXCEPT !.onto = "nothing"]
<1> DEFINE d == Detached(q, replaced)
           Hit(v) == Accepts(v) /\ v.surface \in replaced /\ v.onto = "document"
<1>1. DOMAIN d = DOMAIN q /\ \A j \in DOMAIN q : d[j] = IF Hit(q[j]) THEN [q[j] EXCEPT !.onto = "nothing"] ELSE q[j]
  BY DEF Detached, Accepts
<1>2. \A v \in Transaction : Hit(v) =>
        LET u == [v EXCEPT !.onto = "nothing"]
        IN u \in Transaction /\ u.kind = v.kind /\ u.op = v.op
  BY DEF Transaction, Accepts
<1> HIDE DEF d
<1>3. \A j \in DOMAIN q : d[j] \in Transaction
  BY <1>1, <1>2
<1>4. d \in Seq(Transaction)
  <2>1. d = [j \in 1..Len(q) |-> d[j]]
    BY <1>1 DEF d, Detached
  <2>2. \A j \in 1..Len(q) : d[j] \in Transaction
    BY <1>3
  <2>3. Len(q) \in Nat
    OBVIOUS
  <2>4. QED
    BY <2>1, <2>2, <2>3
<1>5. AllApart(d)
  <2>1. SUFFICES ASSUME NEW i \in DOMAIN q, NEW j \in DOMAIN q, i # j
                 PROVE  ~Alike(d[i], d[j])
    BY <1>1 DEF AllApart
  <2>2. ~Alike(q[i], q[j])
    BY <2>1 DEF AllApart
  <2>3. \A k \in DOMAIN q : d[k].kind = q[k].kind /\ (Accepts(q[k]) => d[k].op = q[k].op) /\ (q[k].kind = "local" => d[k] = q[k])
    <3> SUFFICES ASSUME NEW k \in DOMAIN q
                 PROVE  d[k].kind = q[k].kind /\ (Accepts(q[k]) => d[k].op = q[k].op) /\ (q[k].kind = "local" => d[k] = q[k])
      OBVIOUS
    <3>1. q[k] \in Transaction
      OBVIOUS
    <3>2. CASE Hit(q[k])
      <4>1. d[k] = [q[k] EXCEPT !.onto = "nothing"]
        BY <1>1, <3>2
      <4>2. q[k].kind # "local"
        BY <3>2 DEF Accepts
      <4>3. QED
        BY <1>2, <3>1, <3>2, <4>1, <4>2
    <3>3. CASE ~Hit(q[k])
      BY <1>1, <3>3
    <3>4. QED
      BY <3>2, <3>3
  <2>4. QED
    BY <2>2, <2>3 DEF Alike, Accepts, Repairs
<1>6. QED
  BY <1>1, <1>4, <1>5 DEF ToSet, d

-----------------------------------------------------------------------------
\* What a transaction of each kind carries.
LEMMA Kinds ==
  ASSUME NEW t \in Transaction
  PROVE  /\ t.kind = "local" => t.op \in Own /\ t.states \in States
         /\ Accepts(t) => /\ t.op \in Operation /\ t.surface \in Surface
                          /\ t.state \in SUBSET Operation
                          /\ t.onto \in {"document", "registry", "nothing"}
                          /\ t \in [kind : {"identity", "remote"}, op : Operation, surface : Surface,
                               state : SUBSET Operation, onto : {"document", "registry", "nothing"}]
         /\ t.kind = "acknowledge" => t.op \in Operation
         /\ t.kind = "list" => t.op \in Own /\ t.base \in SUBSET Operation
         /\ t.kind = "repair" => t.plan \in Plan
         /\ t.kind \in {"local", "identity", "remote", "acknowledge", "list", "repair"}
  BY DEF Transaction, Accepts

LEMMA Elements == idb \in Seq(Transaction) => \A t \in Waiting : t \in Transaction
  BY DEF Waiting, ToSet

LEMMA Appended ==
  ASSUME idb \in Seq(Transaction), AllApart(idb), NEW t \in Transaction,
         idb' = Append(idb, t), \A u \in Waiting : ~Alike(u, t) /\ ~Alike(t, u)
  PROVE  /\ idb' \in Seq(Transaction) /\ AllApart(idb')
         /\ \A u \in Waiting' : u = t \/ u \in Waiting
<1>1. AllApart(idb')
  BY AppendApart, Zenon DEF Waiting
<1>2. QED
  BY <1>1, AppendKeeps DEF Waiting

LEMMA Removed ==
  ASSUME idb \in Seq(Transaction), AllApart(idb), NEW i \in DOMAIN idb,
         idb' = RemoveAt(idb, i)
  PROVE  /\ idb' \in Seq(Transaction) /\ AllApart(idb')
         /\ idb[i] \in Waiting /\ idb[i] \in Transaction
         /\ \A u \in Waiting' : u \in Waiting /\ ~Alike(u, idb[i])
  BY RemoveApart, Zenon DEF Waiting

LEMMA Replaced ==
  ASSUME idb \in Seq(Transaction), AllApart(idb), NEW i \in DOMAIN idb, NEW t \in Transaction,
         idb' = Append(RemoveAt(idb, i), t),
         \A u \in Waiting : ~Alike(u, idb[i]) => ~Alike(u, t) /\ ~Alike(t, u)
  PROVE  /\ idb' \in Seq(Transaction) /\ AllApart(idb')
         /\ idb[i] \in Waiting /\ idb[i] \in Transaction
         /\ \A u \in Waiting' : u = t \/ (u \in Waiting /\ ~Alike(u, idb[i]))
<1> DEFINE q == RemoveAt(idb, i)
<1>1. /\ q \in Seq(Transaction) /\ AllApart(q)
      /\ idb[i] \in Waiting /\ idb[i] \in Transaction
      /\ \A u \in ToSet(q) : u \in Waiting /\ ~Alike(u, idb[i])
  BY RemoveApart, Zenon DEF Waiting
<1> HIDE DEF q
<1>2. idb' = Append(q, t)
  BY DEF q
<1>3. AllApart(idb')
  BY <1>1, <1>2, AppendApart, Zenon
<1>4. QED
  BY <1>1, <1>2, <1>3, AppendKeeps DEF Waiting

LEMMA Redirected ==
  ASSUME NEW v \in Transaction, Accepts(v), NEW u, u = [v EXCEPT !.onto = "nothing"]
  PROVE  /\ u \in Transaction /\ Accepts(u) /\ u.kind = v.kind /\ u.op = v.op
         /\ u.surface = v.surface /\ u.state = v.state /\ u.onto = "nothing"
<1>1. v \in [kind : {"identity", "remote"}, op : Operation, surface : Surface,
             state : SUBSET Operation, onto : {"document", "registry", "nothing"}]
  BY Kinds
<1>2. u \in [kind : {"identity", "remote"}, op : Operation, surface : Surface,
             state : SUBSET Operation, onto : {"document", "registry", "nothing"}]
  BY <1>1
<1>3. QED
  BY <1>1, <1>2 DEF Transaction, Accepts

\* The transactions that are left when transaction i has completed and
\* documents were replaced.
LEMMA Completed ==
  ASSUME idb \in Seq(Transaction), AllApart(idb), NEW i \in DOMAIN idb, NEW replaced,
         NEW q, q = Detached(RemoveAt(idb, i), replaced)
  PROVE  /\ q \in Seq(Transaction) /\ AllApart(q)
         /\ idb[i] \in Waiting /\ idb[i] \in Transaction
         /\ \A u \in ToSet(q) :
              /\ u \in Transaction
              /\ \E v \in Waiting :
                   /\ v \in Transaction /\ ~Alike(v, idb[i])
                   /\ \/ u = v
                      \/ /\ Accepts(v) /\ v.surface \in replaced /\ v.onto = "document"
                         /\ u = [v EXCEPT !.onto = "nothing"]
<1> PICK r : r = RemoveAt(idb, i)
  OBVIOUS
<1>1. /\ r \in Seq(Transaction) /\ AllApart(r)
      /\ idb[i] \in Waiting /\ idb[i] \in Transaction
      /\ \A u \in ToSet(r) : u \in Waiting /\ ~Alike(u, idb[i])
  BY RemoveApart, Zenon DEF Waiting
<1>2. q = Detached(r, replaced)
  OBVIOUS
<1>3. \A u \in ToSet(r) : u \in Transaction
  BY <1>1 DEF ToSet
<1>4. /\ q \in Seq(Transaction) /\ AllApart(q)
      /\ \A u \in ToSet(q) :
              \/ u \in ToSet(r)
              \/ \E v \in ToSet(r) : /\ Accepts(v) /\ v.surface \in replaced /\ v.onto = "document"
                                    /\ u = [v EXCEPT !.onto = "nothing"]
  BY <1>1, <1>2, DetachKeeps
<1>5. \A u \in ToSet(q) : u \in Transaction
  BY <1>4 DEF ToSet
<1>6. QED
  BY <1>1, <1>3, <1>4, <1>5
-----------------------------------------------------------------------------
(***************************************************************************)
(* Every step keeps ReplicaInv.                                            *)
(***************************************************************************)

\* A transaction stays sound as long as what is durable only grows and its own
\* dispatch or acceptance goes on.
LEMMA SoundStays ==
  ASSUME NEW t \in Transaction, Sound(t),
         committed \subseteq committed',
         \A o \in Own : receipts[o] # "none" => receipts'[o] # "none",
         t.kind = "local" => edit'[t.op] = edit[t.op],
         Accepts(t) => t.surface \in accepting'[t.op]
  PROVE  Sound(t)'
<1>1. \A o : Known(o) => Known(o)'
  BY DEF Known
<1>2. QED
  BY <1>1, Kinds DEF Sound, Accepts

LEMMA InitInv == Init => ReplicaInv
<1> SUFFICES ASSUME Init PROVE ReplicaInv
  OBVIOUS
<1>1. Waiting = {} /\ AllApart(idb)
  BY DEF Init, Waiting, ToSet, AllApart
<1>2. Empty \in States /\ \A s \in Surface : Empty[s] = {}
  BY DEF Empty, States
<1>3. TypeOK
  BY <1>2, BoardAssumption, BoundAssumption DEF Init, TypeOK
<1>4. Durable /\ Grounded /\ Partial
  BY <1>2, OwnAssumption DEF Init, Durable, Grounded, Partial
<1>5. QED
  BY <1>1, <1>3, <1>4 DEF ReplicaInv

LEMMA DispatchInv ==
  ASSUME ReplicaInv, NEW op \in Own, Dispatch(op)
  PROVE  ReplicaInv'
<1> PICK t : t = [kind |-> "local", op |-> op, states |-> Staged(op)]
  OBVIOUS
<1> USE DEF ReplicaInv
<1>1. op \in Operation
  BY OwnAssumption
<1>2. Staged(op) \in States /\ \A s \in Surface : \A o \in Staged(op)[s] : o = op \/ o \in live[s]
  BY <1>1, CreatesAssumption, TouchesAssumption DEF Staged, TypeOK, States
<1>3. t \in Transaction
  BY <1>2 DEF Transaction
<1>4. idb' = Append(idb, t) /\ idb \in Seq(Transaction)
  BY DEF Dispatch, TypeOK
<1>5. /\ edit[op] = "none" /\ edit' = [edit EXCEPT ![op] = "staged"]
      /\ UNCHANGED <<loaded, live, stored, outbox, receipts, accepting, committed, aborts, reloads>>
  BY DEF Dispatch, memory, database
<1>6. TypeOK'
  BY <1>3, <1>4, <1>5, AppendKeeps DEF TypeOK
<1>7. Durable' /\ Grounded' /\ Partial'
  BY <1>1, <1>5 DEF Durable, Grounded, Partial, Known, TypeOK
<1>8. \A u \in Waiting : u \in Transaction /\ Sound(u) /\ (u.kind = "local" => u.op # op /\ u.op \in Own)
  BY <1>4, <1>5, Kinds DEF Waiting, ToSet, Sound
<1>9. /\ idb' \in Seq(Transaction) /\ AllApart(idb')
      /\ \A u \in Waiting' : u = t \/ u \in Waiting
  <2>1. t.kind = "local" /\ t.op = op
    OBVIOUS
  <2>2. \A u \in Waiting : ~Alike(u, t) /\ ~Alike(t, u)
    BY <1>8, <2>1 DEF Alike, Accepts, Repairs
  <2>3. QED
    BY <1>3, <1>4, <2>2, Appended
<1>10. Sound(t)'
  <2>1. t.kind = "local" /\ t.op = op /\ t.states = Staged(op)
    OBVIOUS
  <2>2. edit'[op] = "staged"
    BY <1>5 DEF TypeOK
  <2>3. \A s \in Surface : \A o \in live[s] : Known(o)'
    BY <1>5 DEF Durable, Known
  <2>4. QED
    BY <1>2, <2>1, <2>2, <2>3 DEF Sound, Accepts
<1>11. ASSUME NEW u \in Waiting PROVE Sound(u)'
  BY <1>5, <1>8, SoundStays DEF TypeOK, Sound, Accepts
<1>12. QED
  BY <1>6, <1>7, <1>9, <1>10, <1>11

LEMMA CommitLocalInv ==
  ASSUME ReplicaInv, NEW i \in DOMAIN idb, CommitLocal(i)
  PROVE  ReplicaInv'
<1> PICK t : t = idb[i]
  OBVIOUS
<1> USE DEF ReplicaInv
<1>1. idb \in Seq(Transaction) /\ idb' = RemoveAt(idb, i)
  BY DEF CommitLocal, TypeOK
<1>2. /\ idb' \in Seq(Transaction) /\ AllApart(idb') /\ t \in Waiting /\ t \in Transaction
      /\ \A u \in Waiting' : u \in Waiting /\ u \in Transaction /\ ~Alike(u, t)
  BY <1>1, Removed, Elements
<1>3. t.kind = "local" /\ t.op \in Own /\ t.op \in Operation /\ t.states \in States /\ Sound(t)
  BY <1>2, Kinds, OwnAssumption DEF CommitLocal, Runs
<1>4. /\ stored' = [s \in Surface |-> IF s \in Touches[t.op] THEN t.states[s] ELSE stored[s]]
      /\ outbox' = outbox \cup {t.op}
      /\ receipts' = [receipts EXCEPT ![t.op] = "queued"]
      /\ edit' \in {[edit EXCEPT ![t.op] = "queued"], [edit EXCEPT ![t.op] = "failed"]}
      /\ UNCHANGED <<accepting, committed, aborts, reloads>>
  BY DEF CommitLocal, WriteLocal
<1>5. /\ loaded' \subseteq Surface /\ live' \in States
      /\ \A s \in Surface : \A o \in live'[s] : o = t.op \/ o \in t.states[s] \/ o \in live[s]
  <2>1. CASE Touches[t.op] \ Creates[t.op] \subseteq loaded
    <3>1. /\ loaded' = loaded \cup Creates[t.op]
          /\ live' = [s \in Surface |->
               IF s \in Creates[t.op] THEN t.states[s]
               ELSE IF s \in Touches[t.op] THEN live[s] \cup {t.op} ELSE live[s]]
      BY <2>1 DEF CommitLocal, InstallLocal
    <3>2. QED
      BY <1>3, <3>1, CreatesAssumption DEF TypeOK, States
  <2>2. CASE ~(Touches[t.op] \ Creates[t.op] \subseteq loaded)
    <3>1. loaded' = loaded /\ live' = live
      BY <2>2 DEF CommitLocal, InstallLocal, memory
    <3>2. QED
      BY <3>1 DEF TypeOK
  <2>3. QED
    BY <2>1, <2>2
<1>6. TypeOK'
  <2>1. stored' \in States
    BY <1>3, <1>4 DEF TypeOK, States
  <2>2. QED
    BY <1>2, <1>3, <1>4, <1>5, <2>1 DEF TypeOK
<1>7. \A o \in Own : /\ receipts'[o] = IF o = t.op THEN "queued" ELSE receipts[o]
                     /\ o # t.op => edit'[o] = edit[o]
                     /\ o = t.op => edit'[o] \in {"queued", "failed"}
  BY <1>3, <1>4, OwnAssumption DEF TypeOK
<1>8. \A o : Known(o) => Known(o)'
  BY <1>4, <1>7 DEF Known
<1>9. Durable'
  <2>1. ASSUME NEW s \in Surface, NEW o \in live'[s] \cup stored'[s] PROVE Known(o)'
    <3>1. o = t.op \/ o \in t.states[s] \/ o \in live[s] \/ o \in stored[s]
      BY <1>4, <1>5, <2>1
    <3>2. Known(t.op)'
      <4>1. receipts'[t.op] # "none"
        BY <1>3, <1>7
      <4>2. QED
        BY <1>3, <4>1 DEF Known
    <3>3. \A p \in t.states[s] : p = t.op \/ Known(p)
      BY <1>3 DEF Sound
    <3>4. \A p \in live[s] \cup stored[s] : Known(p)
      BY DEF Durable
    <3>5. QED
      BY <1>8, <3>1, <3>2, <3>3, <3>4
  <2>2. \A o \in outbox' : receipts'[o] # "none"
    BY <1>3, <1>4, <1>7 DEF Durable, TypeOK
  <2>3. \A o \in committed' \cap Own : receipts'[o] # "none"
    BY <1>4, <1>7 DEF Durable
  <2>4. \A o \in Own : receipts'[o] # "none" => edit'[o] \notin {"none", "staged"}
    BY <1>7 DEF Durable
  <2>5. QED
    BY <2>1, <2>2, <2>3, <2>4 DEF Durable
<1>10. Grounded' /\ Partial'
  BY <1>4 DEF Grounded, Partial
<1>11. ASSUME NEW u \in Waiting' PROVE Sound(u)'
  <2>1. u \in Waiting /\ u \in Transaction /\ Sound(u) /\ (u.kind = "local" => u.op # t.op /\ u.op \in Own)
    BY <1>2, <1>3, Kinds DEF Alike
  <2>2. QED
    BY <1>4, <1>7, <2>1, SoundStays DEF Sound
<1>12. QED
  BY <1>2, <1>6, <1>9, <1>10, <1>11

LEMMA AbortLocalInv ==
  ASSUME ReplicaInv, NEW i \in DOMAIN idb, AbortLocal(i)
  PROVE  ReplicaInv'
<1> PICK t : t = idb[i]
  OBVIOUS
<1> USE DEF ReplicaInv
<1>1. idb \in Seq(Transaction) /\ idb' = RemoveAt(idb, i)
  BY DEF AbortLocal, TypeOK
<1>2. /\ idb' \in Seq(Transaction) /\ AllApart(idb') /\ t \in Waiting /\ t \in Transaction
      /\ \A u \in Waiting' : u \in Waiting /\ u \in Transaction /\ ~Alike(u, t)
  BY <1>1, Removed, Elements
<1>3. t.kind = "local" /\ t.op \in Own /\ Sound(t)
  BY <1>2, Kinds DEF AbortLocal, Runs
<1>4. /\ edit' = [edit EXCEPT ![t.op] = "failed"] /\ aborts' \in 0..MaxAborts
      /\ UNCHANGED <<loaded, live, stored, outbox, receipts, accepting, committed, reloads>>
  BY BoundAssumption DEF AbortLocal, memory, database, TypeOK
<1>5. TypeOK'
  BY <1>2, <1>3, <1>4 DEF TypeOK
<1>6. Durable' /\ Grounded' /\ Partial'
  BY <1>3, <1>4 DEF Durable, Grounded, Partial, Known, TypeOK
<1>7. ASSUME NEW u \in Waiting' PROVE Sound(u)'
  <2>1. u \in Waiting /\ u \in Transaction /\ Sound(u) /\ (u.kind = "local" => u.op # t.op /\ u.op \in Own)
    BY <1>2, <1>3, Kinds DEF Alike
  <2>2. edit'[u.op] = edit[u.op] \/ u.kind # "local"
    BY <1>3, <1>4, <2>1 DEF TypeOK
  <2>3. QED
    BY <1>4, <2>1, <2>2, SoundStays DEF Sound
<1>8. QED
  BY <1>2, <1>5, <1>6, <1>7

\* What a call of acceptRemoteState stages.
LEMMA StagedRemote ==
  ASSUME ReplicaInv, NEW op \in committed, NEW s \in Surface,
         NEW state, state \in States, NEW known,
         NEW t, t = [kind |-> "identity", op |-> op, surface |-> s,
                     state |-> (IF s \in known THEN state[s] ELSE {}) \cup {op},
                     onto |-> IF s \in known THEN "document" ELSE "registry"]
  PROVE  /\ t \in Transaction /\ Accepts(t) /\ t.kind = "identity" /\ t.op = op /\ t.surface = s
         /\ \A o \in t.state : o = op \/ o \in state[s]
<1>1. op \in Operation
  BY DEF ReplicaInv, TypeOK
<1>2. state[s] \in SUBSET Operation
  BY DEF States
<1>3. t.state \in SUBSET Operation /\ t.onto \in {"document", "registry", "nothing"}
  BY <1>1, <1>2
<1>4. t \in Transaction
  BY <1>1, <1>3 DEF Transaction
<1>5. QED
  BY <1>4 DEF Accepts

LEMMA AcceptMessageInv ==
  ASSUME ReplicaInv, NEW op \in Operation, AcceptMessage(op)
  PROVE  ReplicaInv'
<1> USE DEF ReplicaInv
<1>1. PICK s \in Touches[op] : idb' = Append(idb, StageRemote(op, s))
  BY DEF AcceptMessage
<1> PICK t : t = StageRemote(op, s)
  OBVIOUS
<1>2. s \in Surface
  BY <1>1, TouchesAssumption
<1>3. /\ op \in committed /\ accepting[op] = {}
      /\ accepting' = [accepting EXCEPT ![op] = Touches[op]]
      /\ UNCHANGED <<loaded, live, stored, outbox, receipts, edit, committed, aborts, reloads>>
  BY DEF AcceptMessage, memory, database
<1>4. /\ t \in Transaction /\ Accepts(t) /\ t.kind = "identity" /\ t.op = op /\ t.surface = s
      /\ \A o \in t.state : o = op \/ o \in live[s]
  BY <1>2, <1>3, StagedRemote DEF StageRemote, TypeOK
<1>5. idb \in Seq(Transaction) /\ \A u \in Waiting : u \in Transaction /\ Sound(u) /\ (Accepts(u) => u.op # op /\ u.op \in Operation)
  BY <1>3, Elements, Kinds DEF Sound, TypeOK
<1>6. /\ idb' \in Seq(Transaction) /\ AllApart(idb')
      /\ \A u \in Waiting' : u = t \/ u \in Waiting
  <2>1. \A u \in Waiting : ~Alike(u, t) /\ ~Alike(t, u)
    BY <1>4, <1>5 DEF Alike, Accepts, Repairs
  <2>2. QED
    BY <1>1, <1>4, <1>5, <2>1, Appended
<1>7. TypeOK'
  BY <1>3, <1>6, TouchesAssumption DEF TypeOK
<1>8. Durable' /\ Grounded' /\ Partial'
  BY <1>3 DEF Durable, Grounded, Partial, Known, TypeOK
<1>9. Sound(t)'
  <2>1. \A o \in live[s] : Known(o)'
    BY <1>2, <1>3 DEF Durable, Known
  <2>2. Known(op)' /\ op \in committed' /\ s \in accepting'[op]
    BY <1>1, <1>3 DEF Known, TypeOK
  <2>3. QED
    BY <1>4, <2>1, <2>2 DEF Sound, Accepts
<1>10. ASSUME NEW u \in Waiting PROVE Sound(u)'
  <2>1. Accepts(u) => u.surface \in accepting[u.op] /\ accepting'[u.op] = accepting[u.op]
    BY <1>3, <1>5 DEF Sound, TypeOK
  <2>2. QED
    BY <1>3, <1>5, <2>1, SoundStays
<1>11. QED
  BY <1>6, <1>7, <1>8, <1>9, <1>10

LEMMA IdentityReadInv ==
  ASSUME ReplicaInv, NEW i \in DOMAIN idb, IdentityRead(i)
  PROVE  ReplicaInv'
<1> USE DEF ReplicaInv
<1> PICK t : t = idb[i]
  OBVIOUS
<1> PICK u : u = [t EXCEPT !.kind = "remote"]
  OBVIOUS
<1>1. /\ idb \in Seq(Transaction) /\ idb' = Append(RemoveAt(idb, i), u) /\ t.kind = "identity"
      /\ UNCHANGED <<loaded, live, stored, outbox, receipts, edit, accepting, committed, aborts, reloads>>
  BY DEF IdentityRead, Runs, memory, database, TypeOK
<1>2. t \in Transaction /\ t \in Waiting /\ Accepts(t) /\ Sound(t)
  BY <1>1 DEF Waiting, ToSet, Accepts
<1>3. /\ u \in Transaction /\ Accepts(u) /\ u.kind = "remote"
      /\ u.op = t.op /\ u.surface = t.surface /\ u.state = t.state
  <2>1. t \in [kind : {"identity", "remote"}, op : Operation, surface : Surface,
               state : SUBSET Operation, onto : {"document", "registry", "nothing"}]
    BY <1>2, Kinds
  <2>2. u \in [kind : {"identity", "remote"}, op : Operation, surface : Surface,
               state : SUBSET Operation, onto : {"document", "registry", "nothing"}]
    BY <2>1
  <2>3. QED
    BY <2>1, <2>2 DEF Transaction, Accepts
<1>4. /\ idb' \in Seq(Transaction) /\ AllApart(idb')
      /\ \A v \in Waiting' : v = u \/ v \in Waiting
  <2>1. \A v \in Waiting : ~Alike(v, t) => ~Alike(v, u) /\ ~Alike(u, v)
    BY <1>2, <1>3 DEF Alike, Accepts, Repairs
  <2>2. QED
    BY <1>1, <1>3, <2>1, Replaced
<1>5. TypeOK' /\ Durable' /\ Grounded' /\ Partial'
  BY <1>1, <1>4 DEF TypeOK, Durable, Grounded, Partial, Known
<1>6. Sound(u)
  BY <1>2, <1>3 DEF Sound, Accepts
<1>7. ASSUME NEW v \in Waiting \cup {u} PROVE Sound(v)'
  <2>1. v \in Transaction /\ Sound(v)
    BY <1>1, <1>3, <1>6, Elements
  <2>2. QED
    BY <1>1, <2>1, SoundStays DEF Sound
<1>8. QED
  BY <1>4, <1>5, <1>7

LEMMA AbortRemoteInv ==
  ASSUME ReplicaInv, NEW i \in DOMAIN idb, AbortRemote(i)
  PROVE  ReplicaInv'
<1> USE DEF ReplicaInv
<1> PICK t : t = idb[i]
  OBVIOUS
<1>1. /\ idb \in Seq(Transaction) /\ idb' = RemoveAt(idb, i) /\ Accepts(t)
      /\ accepting' = [accepting EXCEPT ![t.op] = {}] /\ aborts' \in 0..MaxAborts
      /\ UNCHANGED <<loaded, live, stored, outbox, receipts, edit, committed, reloads>>
  BY BoundAssumption DEF AbortRemote, Runs, memory, database, TypeOK, Accepts
<1>2. /\ idb' \in Seq(Transaction) /\ AllApart(idb') /\ t \in Waiting /\ t \in Transaction
      /\ \A u \in Waiting' : u \in Waiting /\ u \in Transaction /\ ~Alike(u, t)
  BY <1>1, Removed, Elements
<1>3. t.op \in Operation
  BY <1>1, <1>2, Kinds
<1>4. TypeOK' /\ Durable' /\ Grounded' /\ Partial'
  BY <1>1, <1>2, <1>3 DEF TypeOK, Durable, Grounded, Partial, Known
<1>5. ASSUME NEW u \in Waiting' PROVE Sound(u)'
  <2>1. u \in Waiting /\ u \in Transaction /\ Sound(u) /\ (Accepts(u) => u.op # t.op /\ u.op \in Operation)
    BY <1>1, <1>2, Kinds DEF Alike
  <2>2. Accepts(u) => u.surface \in accepting[u.op] /\ accepting'[u.op] = accepting[u.op]
    BY <1>1, <1>3, <2>1 DEF Sound, TypeOK
  <2>3. QED
    BY <1>1, <2>1, <2>2, SoundStays
<1>6. QED
  BY <1>2, <1>4, <1>5

LEMMA AnsweredInv ==
  ASSUME ReplicaInv, NEW op \in Own, Answered(op)
  PROVE  ReplicaInv'
<1> USE DEF ReplicaInv
<1> PICK t : t = [kind |-> "acknowledge", op |-> op]
  OBVIOUS
<1>1. /\ idb \in Seq(Transaction) /\ idb' = Append(idb, t) /\ op \in committed
      /\ UNCHANGED <<loaded, live, stored, outbox, receipts, edit, accepting, committed, aborts, reloads>>
  BY DEF Answered, memory, database, TypeOK
<1>2. t \in Transaction /\ t.kind = "acknowledge" /\ t.op = op
  BY OwnAssumption DEF Transaction
<1>3. /\ idb' \in Seq(Transaction) /\ AllApart(idb')
      /\ \A u \in Waiting' : u = t \/ u \in Waiting
  <2>1. \A u \in Waiting : ~Alike(u, t) /\ ~Alike(t, u)
    BY <1>2 DEF Alike, Accepts, Repairs
  <2>2. QED
    BY <1>1, <1>2, <2>1, Appended
<1>4. TypeOK' /\ Durable' /\ Grounded' /\ Partial'
  BY <1>1, <1>3 DEF TypeOK, Durable, Grounded, Partial, Known
<1>5. Sound(t)
  BY <1>1, <1>2 DEF Sound, Accepts
<1>6. ASSUME NEW v \in Waiting \cup {t} PROVE Sound(v)'
  <2>1. v \in Transaction /\ Sound(v)
    BY <1>1, <1>2, <1>5, Elements
  <2>2. QED
    BY <1>1, <2>1, SoundStays DEF Sound
<1>7. QED
  BY <1>3, <1>4, <1>6

LEMMA AcknowledgeInv ==
  ASSUME ReplicaInv, NEW i \in DOMAIN idb, Acknowledge(i)
  PROVE  ReplicaInv'
<1> USE DEF ReplicaInv
<1> PICK t : t = idb[i]
  OBVIOUS
<1>1. /\ idb \in Seq(Transaction) /\ idb' = RemoveAt(idb, i) /\ t.kind = "acknowledge"
      /\ outbox' = outbox \ {t.op} /\ receipts' = [receipts EXCEPT ![t.op] = "committed"]
      /\ UNCHANGED <<loaded, live, stored, edit, accepting, committed, aborts, reloads>>
  BY DEF Acknowledge, Runs, memory, TypeOK
<1>2. /\ idb' \in Seq(Transaction) /\ AllApart(idb') /\ t \in Waiting /\ t \in Transaction
      /\ \A u \in Waiting' : u \in Waiting /\ u \in Transaction
  BY <1>1, Removed, Elements
<1>3. t.op \in Operation /\ t.op \in committed
  BY <1>1, <1>2, Kinds DEF Sound
<1>4. \A o \in Operation : receipts'[o] = IF o = t.op THEN "committed" ELSE receipts[o]
  BY <1>1 DEF TypeOK
<1>5. TypeOK'
  BY <1>1, <1>2, <1>3 DEF TypeOK
<1>6. t.op \in Own => edit[t.op] \notin {"none", "staged"}
  BY <1>3 DEF Durable
<1>7. \A o : Known(o) => Known(o)'
  BY <1>1, <1>4, OwnAssumption DEF Known
<1>8. Durable' /\ Grounded' /\ Partial'
  <2>1. \A s \in Surface : \A o \in live'[s] \cup stored'[s] : Known(o)'
    BY <1>1, <1>7 DEF Durable
  <2>2. \A o \in outbox' : receipts'[o] # "none"
    BY <1>1, <1>4, OwnAssumption DEF Durable, TypeOK
  <2>3. \A o \in committed' \cap Own : receipts'[o] # "none"
    BY <1>1, <1>4, OwnAssumption DEF Durable
  <2>4. \A o \in Own : receipts'[o] # "none" => edit'[o] \notin {"none", "staged"}
    BY <1>1, <1>4, <1>6, OwnAssumption DEF Durable
  <2>5. QED
    BY <1>1, <2>1, <2>2, <2>3, <2>4 DEF Durable, Grounded, Partial
<1>9. ASSUME NEW u \in Waiting' PROVE Sound(u)'
  <2>1. \A o \in Own : receipts[o] # "none" => receipts'[o] # "none"
    BY <1>4, OwnAssumption
  <2>2. u \in Transaction /\ Sound(u)
    BY <1>2
  <2>3. QED
    BY <1>1, <2>1, <2>2, SoundStays DEF Sound
<1>10. QED
  BY <1>2, <1>5, <1>8, <1>9

LEMMA CommitRemoteInv ==
  ASSUME ReplicaInv, NEW i \in DOMAIN idb, CommitRemote(i)
  PROVE  ReplicaInv'
<1> USE DEF ReplicaInv
<1> PICK t : t = idb[i]
  OBVIOUS
<1> PICK replaced : replaced = IF t.onto = "registry" THEN {t.surface} ELSE {}
  OBVIOUS
<1> PICK q : q = Detached(RemoveAt(idb, i), replaced)
  OBVIOUS
<1> PICK left : left = accepting[t.op] \ {t.surface}
  OBVIOUS
<1>1. /\ idb \in Seq(Transaction) /\ t.kind = "remote"
      /\ stored' = [stored EXCEPT ![t.surface] = t.state]
      /\ NextUpdate(t.op, left, q)
      /\ UNCHANGED <<outbox, receipts, edit, committed, aborts, reloads>>
  BY DEF CommitRemote, Runs, TypeOK
<1>2. /\ q \in Seq(Transaction) /\ AllApart(q) /\ t \in Waiting /\ t \in Transaction
      /\ \A u \in ToSet(q) :
           /\ u \in Transaction
           /\ \E v \in Waiting :
                /\ v \in Transaction /\ ~Alike(v, t)
                /\ \/ u = v
                   \/ Accepts(v) /\ u = [v EXCEPT !.onto = "nothing"]
  BY <1>1, Completed
<1>3. Accepts(t)
  BY <1>1 DEF Accepts
<1>4. /\ t.op \in Operation /\ t.surface \in Surface /\ t.state \in SUBSET Operation
      /\ t.onto \in {"document", "registry", "nothing"}
  BY <1>2, <1>3, Kinds
<1>5. /\ t.op \in committed /\ t.surface \in accepting[t.op]
      /\ \A o \in t.state : Known(o)
  BY <1>2, <1>3 DEF Sound
<1>6. /\ loaded' \subseteq Surface /\ live' \in States
      /\ \A s \in Surface : \A o \in live'[s] : o = t.op \/ o \in t.state \/ o \in live[s]
  <2>1. CASE t.onto = "document"
    <3>1. live' = [live EXCEPT ![t.surface] = @ \cup {t.op}] /\ loaded' = loaded
      BY <2>1 DEF CommitRemote
    <3>2. QED
      BY <1>4, <3>1 DEF TypeOK, States
  <2>2. CASE t.onto = "registry"
    <3>1. live' = [live EXCEPT ![t.surface] = t.state] /\ loaded' = loaded \cup {t.surface}
      BY <2>2 DEF CommitRemote
    <3>2. QED
      BY <1>4, <3>1 DEF TypeOK, States
  <2>3. CASE t.onto = "nothing"
    <3>1. live' = live /\ loaded' = loaded
      BY <2>3 DEF CommitRemote, memory
    <3>2. QED
      BY <3>1 DEF TypeOK
  <2>4. QED
    BY <1>4, <2>1, <2>2, <2>3
<1>7. accepting' = [accepting EXCEPT ![t.op] = left] /\ left \subseteq Touches[t.op] /\ Touches[t.op] \subseteq Surface
  BY <1>1, <1>4, TouchesAssumption DEF NextUpdate, Partial
<1>8. \A o : Known(o) <=> Known(o)'
  BY <1>1 DEF Known
<1>9. \A s \in Surface : \A o \in live'[s] : Known(o)'
  <2>1. Known(t.op)
    BY <1>5 DEF Known
  <2>2. QED
    BY <1>5, <1>6, <1>8, <2>1 DEF Durable
<1>10. Durable' /\ Grounded' /\ Partial'
  <2>1. \A s \in Surface : \A o \in stored'[s] : Known(o)'
    BY <1>1, <1>4, <1>5, <1>8 DEF Durable, TypeOK, States
  <2>2. Durable'
    BY <1>1, <1>9, <2>1 DEF Durable
  <2>3. Grounded'
    BY <1>1 DEF Grounded
  <2>4. Partial'
    BY <1>4, <1>7 DEF Partial, TypeOK
  <2>5. QED
    BY <2>2, <2>3, <2>4
<1>11. ASSUME NEW u \in ToSet(q) PROVE Sound(u)' /\ (Accepts(u) => u.op # t.op)
  <2>1. PICK v \in Waiting : /\ v \in Transaction /\ ~Alike(v, t)
                             /\ (u = v \/ (Accepts(v) /\ u = [v EXCEPT !.onto = "nothing"]))
    BY <1>2
  <2>2. /\ u \in Transaction /\ Sound(u) /\ (Accepts(u) <=> Accepts(v))
        /\ (Accepts(u) => u.op = v.op /\ u.surface = v.surface)
        /\ (u.kind = "local" => u = v)
    <3>1. CASE u = v
      BY <2>1, <3>1
    <3>2. CASE Accepts(v) /\ u = [v EXCEPT !.onto = "nothing"]
      <4>1. /\ u \in Transaction /\ Accepts(u) /\ u.kind = v.kind /\ u.op = v.op
            /\ u.surface = v.surface /\ u.state = v.state
        BY <2>1, <3>2, Redirected
      <4>2. QED
        BY <3>2, <4>1 DEF Sound, Accepts
    <3>3. QED
      BY <2>1, <3>1, <3>2
  <2>3. Accepts(u) => u.op # t.op /\ u.op \in Operation
    BY <1>3, <2>1, <2>2, Kinds DEF Alike
  <2>4. Accepts(u) => u.surface \in accepting'[u.op]
    BY <1>7, <2>2, <2>3 DEF Sound, TypeOK
  <2>5. Sound(u)'
    BY <1>1, <2>2, <2>4, SoundStays
  <2>6. QED
    BY <2>3, <2>5
<1>12. \E u \in Transaction :
         /\ idb' = Append(q, u) /\ Sound(u)'
         /\ ~Repairs(u) /\ u.kind # "local" /\ (Accepts(u) => u.op = t.op)
  <2>1. CASE left = {}
    <3> PICK u : u = [kind |-> "acknowledge", op |-> t.op]
      OBVIOUS
    <3>1. idb' = Append(q, u)
      BY <1>1, <2>1 DEF NextUpdate
    <3>2. u \in Transaction /\ u.kind = "acknowledge" /\ u.op = t.op
      BY <1>4 DEF Transaction
    <3>3. Sound(u)'
      BY <1>1, <1>5, <3>2 DEF Sound, Accepts
    <3>4. QED
      BY <3>1, <3>2, <3>3 DEF Accepts, Repairs
  <2>2. CASE left # {}
    <3>1. PICK s \in left : idb' = Append(q,
            [kind |-> "identity", op |-> t.op, surface |-> s,
             state |-> (IF s \in loaded' THEN live'[s] ELSE {}) \cup {t.op},
             onto |-> IF s \in loaded' THEN "document" ELSE "registry"])
      BY <1>1, <2>2 DEF NextUpdate
    <3> PICK u : u = [kind |-> "identity", op |-> t.op, surface |-> s,
             state |-> (IF s \in loaded' THEN live'[s] ELSE {}) \cup {t.op},
             onto |-> IF s \in loaded' THEN "document" ELSE "registry"]
      OBVIOUS
    <3>2. s \in Surface
      BY <1>7, <3>1
    <3>3. /\ u \in Transaction /\ Accepts(u) /\ u.kind = "identity" /\ u.op = t.op /\ u.surface = s
          /\ \A o \in u.state : o = t.op \/ o \in live'[s]
      BY <1>5, <1>6, <3>2, StagedRemote
    <3>4. Known(t.op)' /\ t.op \in committed' /\ s \in accepting'[t.op]
      BY <1>1, <1>4, <1>5, <1>7, <3>1 DEF Known, TypeOK
    <3>5. Sound(u)'
      BY <1>9, <3>2, <3>3, <3>4 DEF Sound, Accepts
    <3>6. QED
      BY <3>1, <3>3, <3>5 DEF Accepts, Repairs
  <2>3. QED
    BY <2>1, <2>2
<1>13. PICK u \in Transaction :
         /\ idb' = Append(q, u) /\ Sound(u)'
         /\ ~Repairs(u) /\ u.kind # "local" /\ (Accepts(u) => u.op = t.op)
  BY <1>12
<1>14. idb' \in Seq(Transaction) /\ AllApart(idb') /\ \A v \in Waiting' : v = u \/ v \in ToSet(q)
  <2>1. \A v \in ToSet(q) : ~Alike(v, u) /\ ~Alike(u, v)
    BY <1>11, <1>13 DEF Alike
  <2>2. AllApart(idb')
    BY <1>2, <1>13, <2>1, AppendApart
  <2>3. QED
    BY <1>2, <1>13, <2>2, AppendKeeps DEF Waiting
<1>15. TypeOK'
  <2>1. stored' \in States
    BY <1>1, <1>4 DEF TypeOK, States
  <2>2. accepting' \in [Operation -> SUBSET Surface]
    BY <1>4, <1>7 DEF TypeOK
  <2>3. QED
    BY <1>1, <1>6, <1>14, <2>1, <2>2 DEF TypeOK
<1>16. QED
  BY <1>10, <1>11, <1>13, <1>14, <1>15

LEMMA ServerCommitsInv ==
  ASSUME ReplicaInv, NEW op \in Operation, ServerCommits(op)
  PROVE  ReplicaInv'
<1> USE DEF ReplicaInv
<1>1. /\ committed' = committed \cup {op} /\ (op \in Own => op \in outbox)
      /\ committed \cap Rivals[op] = Basis[op]
      /\ UNCHANGED <<loaded, live, stored, outbox, receipts, idb, edit, accepting, aborts, reloads>>
  BY DEF ServerCommits, IsNext, Admissible, AdmissibleOn, memory, database
<1>2. TypeOK' /\ Partial' /\ AllApart(idb') /\ Waiting' = Waiting
  BY <1>1 DEF TypeOK, Partial, Waiting
<1>3. Durable' /\ Grounded'
  BY <1>1 DEF Durable, Grounded, Known
<1>4. ASSUME NEW t \in Waiting PROVE Sound(t)'
  <2>1. t \in Transaction /\ Sound(t)
    BY Elements DEF TypeOK
  <2>2. QED
    BY <1>1, <2>1, SoundStays DEF Sound
<1>5. QED
  BY <1>2, <1>3, <1>4

LEMMA BeginRepairInv ==
  ASSUME ReplicaInv, NEW op \in Own, BeginRepair(op)
  PROVE  ReplicaInv'
<1> USE DEF ReplicaInv
<1> PICK t : t = [kind |-> "list", op |-> op, base |-> committed]
  OBVIOUS
<1>1. /\ idb \in Seq(Transaction) /\ idb' = Append(idb, t) /\ op \in outbox
      /\ ~Pending("list") /\ ~Pending("repair")
      /\ UNCHANGED <<loaded, live, stored, outbox, receipts, edit, accepting, committed, aborts, reloads>>
  BY DEF BeginRepair, IsNext, memory, database, TypeOK
<1>2. t \in Transaction /\ t.kind = "list" /\ t.op = op /\ t.base = committed
  BY DEF Transaction, TypeOK
<1>3. /\ idb' \in Seq(Transaction) /\ AllApart(idb')
      /\ \A u \in Waiting' : u = t \/ u \in Waiting
  <2>1. \A u \in Waiting : ~Repairs(u)
    BY <1>1 DEF Waiting, ToSet, Pending, Repairs
  <2>2. \A u \in Waiting : ~Alike(u, t) /\ ~Alike(t, u)
    BY <1>2, <2>1 DEF Alike, Accepts
  <2>3. QED
    BY <1>1, <1>2, <2>2, Appended
<1>4. TypeOK' /\ Durable' /\ Grounded' /\ Partial'
  BY <1>1, <1>3 DEF TypeOK, Durable, Grounded, Partial, Known
<1>5. Sound(t)
  BY <1>1, <1>2 DEF Sound, Accepts, Durable
<1>6. ASSUME NEW v \in Waiting \cup {t} PROVE Sound(v)'
  <2>1. v \in Transaction /\ Sound(v)
    BY <1>1, <1>2, <1>5, Elements
  <2>2. QED
    BY <1>1, <2>1, SoundStays DEF Sound
<1>7. QED
  BY <1>3, <1>4, <1>6

LEMMA ListOutboxInv ==
  ASSUME ReplicaInv, NEW i \in DOMAIN idb, ListOutbox(i)
  PROVE  ReplicaInv'
<1> USE DEF ReplicaInv
<1> PICK t : t = idb[i]
  OBVIOUS
<1>1. PICK kept \in SUBSET outbox :
        idb' = Append(RemoveAt(idb, i),
                 [kind |-> "repair",
                  plan |-> [docs |-> t.base \cup kept, queued |-> kept,
                            rejected |-> (outbox \ kept) \cup {t.op}]])
  BY DEF ListOutbox
<1> PICK u : u = [kind |-> "repair",
                  plan |-> [docs |-> t.base \cup kept, queued |-> kept,
                            rejected |-> (outbox \ kept) \cup {t.op}]]
  OBVIOUS
<1>2. /\ idb \in Seq(Transaction) /\ t.kind = "list"
      /\ UNCHANGED <<loaded, live, stored, outbox, receipts, edit, accepting, committed, aborts, reloads>>
  BY DEF ListOutbox, Runs, memory, database, TypeOK
<1>3. t \in Transaction /\ t \in Waiting /\ Sound(t)
  BY <1>2 DEF Waiting, ToSet
<1>4. t.op \in Own /\ t.op \in Operation /\ t.base \subseteq committed /\ kept \subseteq Own /\ outbox \subseteq Own
      /\ receipts[t.op] # "none"
  BY <1>1, <1>2, <1>3, Kinds, OwnAssumption DEF Sound, TypeOK
<1>5. /\ u \in Transaction /\ u.kind = "repair" /\ u.plan.queued = kept
      /\ u.plan.docs = t.base \cup kept
      /\ u.plan.rejected = (outbox \ kept) \cup {t.op}
  <2>1. t.base \cup kept \in SUBSET Operation /\ (outbox \ kept) \cup {t.op} \in SUBSET Operation /\ kept \in SUBSET Operation
    BY <1>4, OwnAssumption DEF TypeOK
  <2>2. QED
    BY <2>1 DEF Transaction, Plan
<1>6. /\ idb' \in Seq(Transaction) /\ AllApart(idb')
      /\ \A v \in Waiting' : v = u \/ v \in Waiting
  <2>1. \A v \in Waiting : ~Alike(v, t) => ~Alike(v, u) /\ ~Alike(u, v)
    BY <1>2, <1>5 DEF Alike, Accepts, Repairs
  <2>2. QED
    BY <1>1, <1>2, <1>5, <2>1, Replaced
<1>7. TypeOK' /\ Durable' /\ Grounded' /\ Partial'
  BY <1>2, <1>6 DEF TypeOK, Durable, Grounded, Partial, Known
<1>8. Sound(u)
  BY <1>4, <1>5 DEF Sound, Accepts, Durable, Known
<1>9. ASSUME NEW v \in Waiting \cup {u} PROVE Sound(v)'
  <2>1. v \in Transaction /\ Sound(v)
    BY <1>2, <1>5, <1>8, Elements
  <2>2. QED
    BY <1>2, <2>1, SoundStays DEF Sound
<1>10. QED
  BY <1>6, <1>7, <1>9

LEMMA InstallRepairInv ==
  ASSUME ReplicaInv, NEW i \in DOMAIN idb, InstallRepair(i)
  PROVE  ReplicaInv'
<1> USE DEF ReplicaInv
<1> PICK t : t = idb[i]
  OBVIOUS
<1> PICK plan : plan = t.plan
  OBVIOUS
<1>1. /\ idb \in Seq(Transaction) /\ idb' = Detached(RemoveAt(idb, i), Surface) /\ t.kind = "repair"
      /\ stored' = Documents(plan.docs) /\ outbox' = plan.queued
      /\ receipts' = [op \in Operation |->
           IF op \in plan.rejected THEN "rejected"
           ELSE IF op \in plan.queued THEN "queued" ELSE receipts[op]]
      /\ loaded' = SurfacesOf(plan.docs) /\ live' = Documents(plan.docs)
      /\ UNCHANGED <<edit, accepting, committed, aborts, reloads>>
  BY DEF InstallRepair, Runs, ShowRepaired, TypeOK
<1>2. /\ idb' \in Seq(Transaction) /\ AllApart(idb') /\ t \in Waiting /\ t \in Transaction
      /\ \A u \in Waiting' :
           /\ u \in Transaction
           /\ \E v \in Waiting :
                /\ v \in Transaction
                /\ \/ u = v
                   \/ Accepts(v) /\ u = [v EXCEPT !.onto = "nothing"]
  BY <1>1, Completed DEF Waiting
<1>3. /\ plan \in Plan /\ Sound(t)
  BY <1>1, <1>2, Kinds
<1>4. /\ \A o \in plan.docs : Known(o)
      /\ \A o \in plan.queued \cup plan.rejected : receipts[o] # "none"
      /\ plan.queued \cup plan.rejected \subseteq Own
  BY <1>1, <1>3 DEF Sound
<1>5. /\ Documents(plan.docs) \in States /\ \A s \in Surface : Documents(plan.docs)[s] \subseteq plan.docs
      /\ SurfacesOf(plan.docs) \subseteq Surface
  <2>1. plan.docs \subseteq Operation
    BY <1>3 DEF Plan
  <2>2. QED
    BY <2>1, TouchesAssumption, BoardAssumption DEF Documents, SurfacesOf, States
<1>6. \A o \in Operation : receipts[o] # "none" => receipts'[o] # "none"
  BY <1>1
<1>7. \A o : Known(o) => Known(o)'
  BY <1>1, <1>6, OwnAssumption DEF Known
<1>8. TypeOK'
  <2>1. receipts' \in [Operation -> {"none", "queued", "committed", "rejected"}]
    BY <1>1 DEF TypeOK
  <2>2. QED
    BY <1>1, <1>2, <1>4, <1>5, <2>1 DEF TypeOK
<1>9. ASSUME NEW u \in Waiting' PROVE Sound(u)'
  <2>1. PICK v \in Waiting : /\ v \in Transaction
                             /\ (u = v \/ (Accepts(v) /\ u = [v EXCEPT !.onto = "nothing"]))
    BY <1>2
  <2>2. u \in Transaction /\ Sound(u)
    <3>1. CASE u = v
      BY <2>1, <3>1
    <3>2. CASE Accepts(v) /\ u = [v EXCEPT !.onto = "nothing"]
      <4>1. /\ u \in Transaction /\ Accepts(u) /\ u.kind = v.kind /\ u.op = v.op
            /\ u.surface = v.surface /\ u.state = v.state
        BY <2>1, <3>2, Redirected
      <4>2. QED
        BY <3>2, <4>1 DEF Sound, Accepts
    <3>3. QED
      BY <2>1, <3>1, <3>2
  <2>3. \A o \in Own : receipts[o] # "none" => receipts'[o] # "none"
    BY <1>6, OwnAssumption
  <2>4. QED
    BY <1>1, <2>2, <2>3, SoundStays DEF Sound
<1>10. Durable' /\ Grounded' /\ Partial'
  <2>1. \A s \in Surface : \A o \in live'[s] \cup stored'[s] : Known(o)'
    BY <1>1, <1>4, <1>5, <1>7
  <2>2. \A o \in outbox' : receipts'[o] # "none"
    BY <1>1, <1>4, <1>6, OwnAssumption
  <2>3. \A o \in committed' \cap Own : receipts'[o] # "none"
    BY <1>1, <1>6, OwnAssumption DEF Durable
  <2>4. \A o \in Own : receipts'[o] # "none" => edit'[o] \notin {"none", "staged"}
    BY <1>1, <1>4, OwnAssumption DEF Durable
  <2>5. QED
    BY <1>1, <2>1, <2>2, <2>3, <2>4 DEF Durable, Grounded, Partial
<1>11. QED
  BY <1>1, <1>2, <1>8, <1>9, <1>10

LEMMA ReloadInv == ASSUME ReplicaInv, Reload PROVE ReplicaInv'
<1> USE DEF ReplicaInv
<1>1. /\ reloads < MaxReloads /\ reloads' = reloads + 1 /\ idb' = <<>>
      /\ edit' = [op \in Own |-> IF edit[op] = "staged" THEN "failed" ELSE edit[op]]
      /\ accepting' = [op \in Operation |-> {}]
      /\ loaded' = {Board} \cup {s \in Surface : stored[s] # {}} /\ live' = stored
      /\ UNCHANGED <<stored, outbox, receipts, committed, aborts>>
  BY DEF Reload, database
<1>2. Waiting' = {} /\ AllApart(idb')
  BY <1>1 DEF Waiting, ToSet, AllApart
<1>3. TypeOK'
  BY <1>1, BoardAssumption, BoundAssumption DEF TypeOK
<1>4. Durable' /\ Grounded' /\ Partial'
  BY <1>1 DEF Durable, Grounded, Partial, Known, TypeOK
<1>5. QED
  BY <1>2, <1>3, <1>4

LEMMA Inductive == ReplicaInv /\ [Next]_vars => ReplicaInv'
<1> SUFFICES ASSUME ReplicaInv, [Next]_vars PROVE ReplicaInv'
  OBVIOUS
<1>1. ASSUME NEW op \in Own, Dispatch(op) \/ Answered(op) \/ BeginRepair(op) PROVE ReplicaInv'
  BY <1>1, DispatchInv, AnsweredInv, BeginRepairInv
<1>2. ASSUME NEW op \in Operation, AcceptMessage(op) \/ ServerCommits(op) PROVE ReplicaInv'
  BY <1>2, AcceptMessageInv, ServerCommitsInv
<1>3. ASSUME NEW i \in DOMAIN idb,
             \/ CommitLocal(i) \/ AbortLocal(i)
             \/ IdentityRead(i) \/ CommitRemote(i) \/ AbortRemote(i)
             \/ Acknowledge(i) \/ ListOutbox(i) \/ InstallRepair(i)
      PROVE  ReplicaInv'
  BY <1>3, CommitLocalInv, AbortLocalInv, IdentityReadInv, CommitRemoteInv, AbortRemoteInv,
     AcknowledgeInv, ListOutboxInv, InstallRepairInv
<1>4. CASE Reload
  BY <1>4, ReloadInv
<1>5. CASE UNCHANGED vars
  BY <1>5 DEF vars, memory, database, ReplicaInv, TypeOK, Durable, Grounded, Partial,
              Waiting, Sound, Known
<1>6. QED
  BY <1>1, <1>2, <1>3, <1>4, <1>5 DEF Next

-----------------------------------------------------------------------------
(***************************************************************************)
(* A reload or a repair disturbs the page for good; until then its         *)
(* documents only grow.                                                    *)
(***************************************************************************)

LEMMA Elementwise ==
  ASSUME NEW S, NEW q \in Seq(S)
  PROVE  /\ \A t \in S : \A u \in ToSet(Append(q, t)) : u = t \/ u \in ToSet(q)
         /\ \A i \in DOMAIN q : \A u \in ToSet(RemoveAt(q, i)) :
              \E j \in DOMAIN q : j # i /\ u = q[j]
<1>1. ASSUME NEW t \in S, NEW u \in ToSet(Append(q, t)) PROVE u = t \/ u \in ToSet(q)
  BY <1>1, AppendKeeps
<1>2. ASSUME NEW i \in DOMAIN q, NEW u \in ToSet(RemoveAt(q, i))
      PROVE  \E j \in DOMAIN q : j # i /\ u = q[j]
  BY <1>2, RemoveKeeps DEF ToSet
<1>3. QED
  BY <1>1, <1>2

\* What is hopeless stays hopeless.
LEMMA HopelessStays ==
  ASSUME committed' = committed \/ \E o \in Operation : ServerCommits(o),
         NEW op, Hopeless(op)
  PROVE  Hopeless(op)'
<1>1. CASE committed' = committed
  BY <1>1 DEF Hopeless
<1>2. ASSUME NEW o \in Operation, ServerCommits(o) PROVE Hopeless(op)'
  <2>1. committed' = committed \cup {o} /\ Admissible(o, committed)
    BY <1>2 DEF ServerCommits
  <2>2. o # op
    BY <2>1 DEF Hopeless, Admissible, AdmissibleOn
  <2>3. QED
    BY <2>1, <2>2 DEF Hopeless
<1>3. QED
  BY <1>1, <1>2

LEMMA UntouchedStays ==
  ASSUME NEW t \in Transaction, Untouched(t), committed \subseteq committed',
         loaded \subseteq loaded', (loaded' \ loaded) \cap Makes(t) = {},
         \A s \in Surface : live[s] \subseteq live'[s],
         \A o \in Own : receipts[o] # "none" => receipts'[o] # "none",
         \A o : Hopeless(o) => Hopeless(o)',
         Accepts(t) => accepting'[t.op] = accepting[t.op]
  PROVE  Untouched(t)'
<1>1. \A op : Before(op) \subseteq Before(op)'
  BY DEF Before
<1>2. \A op \in Operation : \A ss \in SUBSET Surface : ShownOn(op, ss) => ShownOn(op, ss)'
  BY DEF ShownOn
<1>3. CASE t.kind = "local"
  BY <1>1, <1>3 DEF Untouched, Accepts, Makes
<1>4. CASE Accepts(t)
  <2>1. t.op \in Operation /\ Touches[t.op] \ accepting[t.op] \subseteq Surface /\ t.kind \in {"identity", "remote"}
    BY <1>4, Kinds, TouchesAssumption DEF Accepts
  <2> PICK left : left = Touches[t.op] \ accepting[t.op]
    OBVIOUS
  <2>2. ShownOn(t.op, left)' /\ left = Touches[t.op] \ accepting'[t.op]
    BY <1>2, <1>4, <2>1 DEF Untouched
  <2>3. t.onto = "registry" => t.surface \notin loaded'
    BY <1>4, <2>1 DEF Untouched, Makes
  <2>4. (t.onto = "document" => t.surface \in loaded') /\ t.onto # "nothing" /\ t.op \in t.state
    BY <1>4 DEF Untouched
  <2>5. QED
    BY <1>4, <2>1, <2>2, <2>3, <2>4 DEF Untouched, Accepts, ShownOn
<1>5. CASE t.kind = "acknowledge"
  <2>1. t.op \in Operation /\ Touches[t.op] \in SUBSET Surface
    BY <1>5, Kinds, TouchesAssumption
  <2>2. QED
    BY <1>2, <1>5, <2>1 DEF Untouched, Accepts
<1>6. CASE t.kind \in {"list", "repair"}
  BY <1>6 DEF Untouched, Accepts
<1>7. QED
  BY <1>3, <1>4, <1>5, <1>6, Kinds DEF Accepts

\* What is left to show when documents, queue and receipts stay as they are.
LEMMA Quiet ==
  ASSUME Growing, UNCHANGED <<loaded, live, outbox, receipts, committed, reloads>>,
         \A t \in Waiting' : Untouched(t)'
  PROVE  Growing'
  BY DEF Growing, ShownOn, Before

LEMMA QuietTransaction ==
  ASSUME NEW t \in Transaction, Untouched(t),
         UNCHANGED <<loaded, live, receipts, committed>>,
         Accepts(t) => accepting'[t.op] = accepting[t.op]
  PROVE  Untouched(t)'
  BY UntouchedStays, HopelessStays

LEMMA DispatchGrows ==
  ASSUME ReplicaInv, Growing, NEW op \in Own, Dispatch(op)
  PROVE  Growing'
<1> PICK t : t = [kind |-> "local", op |-> op, states |-> Staged(op)]
  OBVIOUS
<1>1. /\ idb \in Seq(Transaction) /\ idb' = Append(idb, t)
      /\ UNCHANGED <<loaded, live, outbox, receipts, accepting, committed, reloads>>
  BY DEF Dispatch, memory, database, ReplicaInv, TypeOK
<1>2. op \in Operation /\ Touches[op] \subseteq Surface /\ Creates[op] \subseteq Surface
  BY OwnAssumption, TouchesAssumption, CreatesAssumption
<1>3. t \in Transaction /\ t.kind = "local" /\ t.op = op /\ t.states = Staged(op)
  BY <1>2 DEF Transaction, Staged, States, ReplicaInv, TypeOK
<1>4. Basis[op] \subseteq Before(op)
  <2>1. SUFFICES ASSUME NEW o \in Basis[op] PROVE o \in Before(op)
    OBVIOUS
  <2>2. PICK s \in Touches[op] : o \in live[s]
    BY DEF Dispatch
  <2>3. Known(o)
    BY <1>2, <2>2 DEF ReplicaInv, Durable
  <2>4. o \in Own /\ receipts[o] # "none" => Turn[o] < Turn[op]
    BY DEF Dispatch, ReplicaInv, Durable
  <2>5. QED
    BY <2>3, <2>4 DEF Known, Before
<1>5. Untouched(t)
  <2>1. \A s \in Creates[op] : op \in Staged(op)[s]
    BY <1>2 DEF Staged
  <2>2. QED
    BY <1>3, <1>4, <2>1 DEF Untouched, Accepts, Dispatch, Stageable
<1>6. ASSUME NEW u \in Waiting' PROVE Untouched(u)'
  <2>1. u \in Transaction /\ Untouched(u)
    BY <1>1, <1>3, <1>5, Elementwise, Elements DEF Growing, Waiting
  <2>2. QED
    BY <1>1, <2>1, QuietTransaction
<1>7. QED
  BY <1>1, <1>6, Quiet

LEMMA AbortLocalGrows ==
  ASSUME ReplicaInv, Growing, NEW i \in DOMAIN idb, AbortLocal(i)
  PROVE  Growing'
<1>1. /\ idb \in Seq(Transaction) /\ idb' = RemoveAt(idb, i)
      /\ UNCHANGED <<loaded, live, outbox, receipts, accepting, committed, reloads>>
  BY DEF AbortLocal, memory, database, ReplicaInv, TypeOK
<1>2. ASSUME NEW u \in Waiting' PROVE Untouched(u)'
  <2>1. u \in Waiting
    BY <1>1, Removed DEF ReplicaInv
  <2>2. u \in Transaction /\ Untouched(u)
    BY <1>1, <2>1, Elements DEF Growing
  <2>3. QED
    BY <1>1, <2>2, QuietTransaction
<1>3. QED
  BY <1>1, <1>2, Quiet

LEMMA AbortRemoteGrows ==
  ASSUME ReplicaInv, Growing, NEW i \in DOMAIN idb, AbortRemote(i)
  PROVE  Growing'
<1> PICK t : t = idb[i]
  OBVIOUS
<1>1. /\ idb \in Seq(Transaction) /\ AllApart(idb) /\ idb' = RemoveAt(idb, i) /\ Accepts(t)
      /\ accepting' = [accepting EXCEPT ![t.op] = {}] /\ accepting \in [Operation -> SUBSET Surface]
      /\ UNCHANGED <<loaded, live, outbox, receipts, committed, reloads>>
  BY DEF AbortRemote, Runs, Accepts, memory, database, ReplicaInv, TypeOK
<1>2. ASSUME NEW u \in Waiting' PROVE Untouched(u)'
  <2>1. u \in Waiting /\ ~Alike(u, t)
    BY <1>1, Removed
  <2>2. u \in Transaction /\ Untouched(u)
    BY <1>1, <2>1, Elements DEF Growing
  <2>3. Accepts(u) => u.op # t.op /\ u.op \in Operation
    BY <1>1, <2>1, <2>2, Kinds DEF Alike
  <2>4. QED
    BY <1>1, <2>2, <2>3, QuietTransaction
<1>3. QED
  BY <1>1, <1>2, Quiet

LEMMA AcceptMessageGrows ==
  ASSUME ReplicaInv, Growing, NEW op \in Operation, AcceptMessage(op)
  PROVE  Growing'
<1>1. PICK s \in Touches[op] : idb' = Append(idb, StageRemote(op, s))
  BY DEF AcceptMessage
<1> PICK t : t = StageRemote(op, s)
  OBVIOUS
<1>2. /\ idb \in Seq(Transaction) /\ op \in committed /\ accepting[op] = {}
      /\ accepting \in [Operation -> SUBSET Surface] /\ live \in States
      /\ accepting' = [accepting EXCEPT ![op] = Touches[op]]
      /\ UNCHANGED <<loaded, live, outbox, receipts, committed, reloads>>
  BY DEF AcceptMessage, memory, database, ReplicaInv, TypeOK
<1>3. s \in Surface /\ Touches[op] \in SUBSET Surface
  BY <1>1, TouchesAssumption
<1>4. /\ t \in Transaction /\ Accepts(t) /\ t.kind = "identity" /\ t.op = op /\ t.surface = s
  BY <1>2, <1>3, StagedRemote DEF StageRemote
<1>5. op \in t.state /\ t.onto = IF s \in loaded THEN "document" ELSE "registry"
  BY DEF StageRemote
<1>6. Untouched(t)'
  BY <1>2, <1>3, <1>4, <1>5 DEF Untouched, Accepts, ShownOn
<1>7. ASSUME NEW u \in Waiting PROVE Untouched(u)'
  <2>1. u \in Transaction /\ Untouched(u) /\ Sound(u)
    BY <1>2, Elements DEF Growing, ReplicaInv
  <2>2. Accepts(u) => u.op # op /\ u.op \in Operation
    BY <1>2, <2>1, Kinds DEF Sound
  <2>3. QED
    BY <1>2, <2>1, <2>2, QuietTransaction
<1>8. \A u \in Waiting' : u = t \/ u \in Waiting
  BY <1>1, <1>2, <1>4, Elementwise DEF Waiting
<1>9. QED
  BY <1>2, <1>6, <1>7, <1>8, Quiet

LEMMA IdentityReadGrows ==
  ASSUME ReplicaInv, Growing, NEW i \in DOMAIN idb, IdentityRead(i)
  PROVE  Growing'
<1> PICK t : t = idb[i]
  OBVIOUS
<1> PICK u : u = [t EXCEPT !.kind = "remote"]
  OBVIOUS
<1> PICK q : q = RemoveAt(idb, i)
  OBVIOUS
<1>1. /\ idb \in Seq(Transaction) /\ idb' = Append(q, u) /\ t.kind = "identity"
      /\ UNCHANGED <<loaded, live, outbox, receipts, accepting, committed, reloads>>
  BY DEF IdentityRead, Runs, memory, database, ReplicaInv, TypeOK
<1>2. t \in Transaction /\ t \in Waiting /\ Accepts(t) /\ Untouched(t)
  BY <1>1 DEF Waiting, ToSet, Accepts, Growing
<1>3. /\ u \in Transaction /\ Accepts(u) /\ u.kind = "remote" /\ u.onto = t.onto
      /\ u.op = t.op /\ u.surface = t.surface /\ u.state = t.state
  <2>1. t \in [kind : {"identity", "remote"}, op : Operation, surface : Surface,
               state : SUBSET Operation, onto : {"document", "registry", "nothing"}]
    BY <1>2, Kinds
  <2>2. u \in [kind : {"identity", "remote"}, op : Operation, surface : Surface,
               state : SUBSET Operation, onto : {"document", "registry", "nothing"}]
    BY <2>1
  <2>3. QED
    BY <2>1, <2>2 DEF Transaction, Accepts
<1>4. Untouched(u)
  BY <1>1, <1>2, <1>3 DEF Untouched, Accepts
<1>5. \A v \in Waiting' : v = u \/ v \in Waiting
  <2>1. q \in Seq(Transaction) /\ \A v \in ToSet(q) : v \in Waiting
    BY <1>1, RemoveKeeps DEF Waiting, ToSet
  <2>2. QED
    BY <1>1, <1>3, <2>1, Elementwise DEF Waiting
<1>6. ASSUME NEW v \in Waiting' PROVE Untouched(v)'
  <2>1. v \in Transaction /\ Untouched(v)
    BY <1>1, <1>3, <1>4, <1>5, Elements DEF Growing
  <2>2. QED
    BY <1>1, <2>1, QuietTransaction
<1>7. QED
  BY <1>1, <1>6, Quiet

LEMMA AnsweredGrows ==
  ASSUME ReplicaInv, Growing, NEW op \in Own, Answered(op)
  PROVE  Growing'
<1> PICK t : t = [kind |-> "acknowledge", op |-> op]
  OBVIOUS
<1>1. /\ idb \in Seq(Transaction) /\ idb' = Append(idb, t) /\ op \in outbox
      /\ UNCHANGED <<loaded, live, outbox, receipts, accepting, committed, reloads>>
  BY DEF Answered, memory, database, ReplicaInv, TypeOK
<1>2. op \in Operation /\ t \in Transaction /\ t.kind = "acknowledge" /\ t.op = op
  BY OwnAssumption DEF Transaction
<1>3. Untouched(t)
  BY <1>1, <1>2 DEF Untouched, Accepts, Growing, ReplicaInv, Durable
<1>4. ASSUME NEW u \in Waiting' PROVE Untouched(u)'
  <2>1. u \in Transaction /\ Untouched(u)
    BY <1>1, <1>2, <1>3, Elementwise, Elements DEF Growing, Waiting
  <2>2. QED
    BY <1>1, <2>1, QuietTransaction
<1>5. QED
  BY <1>1, <1>4, Quiet

LEMMA CommitLocalGrows ==
  ASSUME ReplicaInv, Growing, MadeOnce, NEW i \in DOMAIN idb, CommitLocal(i)
  PROVE  Growing'
<1> PICK t : t = idb[i]
  OBVIOUS
<1>1. /\ idb \in Seq(Transaction) /\ idb' = RemoveAt(idb, i) /\ t.kind = "local"
      /\ outbox' = outbox \cup {t.op} /\ receipts' = [receipts EXCEPT ![t.op] = "queued"]
      /\ receipts \in [Operation -> {"none", "queued", "committed", "rejected"}]
      /\ UNCHANGED <<accepting, committed, reloads>>
  BY DEF CommitLocal, WriteLocal, Runs, ReplicaInv, TypeOK
<1>2. t \in Transaction /\ t \in Waiting /\ Untouched(t) /\ t.op \in Own
  BY <1>1, Kinds DEF Waiting, ToSet, Growing
<1>3. /\ t.op \in Operation /\ Touches[t.op] \subseteq Surface /\ Creates[t.op] \subseteq Touches[t.op]
  BY <1>2, OwnAssumption, TouchesAssumption, CreatesAssumption
<1>4. /\ Touches[t.op] \ Creates[t.op] \subseteq loaded /\ Creates[t.op] \cap loaded = {}
      /\ \A s \in Creates[t.op] : t.op \in t.states[s]
      /\ Basis[t.op] \subseteq Before(t.op)
  BY <1>1, <1>2 DEF Untouched
<1>5. /\ loaded' = loaded \cup Creates[t.op]
      /\ live' = [s \in Surface |->
           IF s \in Creates[t.op] THEN t.states[s]
           ELSE IF s \in Touches[t.op] THEN live[s] \cup {t.op} ELSE live[s]]
  BY <1>4 DEF CommitLocal, InstallLocal
<1>6. /\ \A s \in Surface : live[s] \subseteq live'[s]
      /\ \A s \in Touches[t.op] : t.op \in live'[s]
      /\ \A s \in Surface \ loaded' : live'[s] = {}
  BY <1>3, <1>4, <1>5 DEF Growing
<1>7. \A o \in Operation : receipts'[o] = IF o = t.op THEN "queued" ELSE receipts[o]
  BY <1>1
<1>8. ASSUME NEW u \in Waiting' PROVE Untouched(u)'
  <2>1. PICK j \in DOMAIN idb : j # i /\ u = idb[j]
    BY <1>1, Elementwise DEF Waiting
  <2>2. u \in Transaction /\ Untouched(u)
    BY <1>1, <2>1 DEF Growing, Waiting, ToSet
  <2>3. (loaded' \ loaded) \cap Makes(u) = {}
    <3>1. Makes(idb[j]) \cap Makes(idb[i]) = {} /\ Makes(t) = Creates[t.op]
      BY <1>1, <2>1 DEF MadeOnce, Makes
    <3>2. QED
      BY <1>5, <2>1, <3>1
  <2>4. \A o \in Own : receipts[o] # "none" => receipts'[o] # "none"
    BY <1>7, OwnAssumption
  <2>5. QED
    BY <1>1, <1>5, <1>6, <2>2, <2>3, <2>4, UntouchedStays, HopelessStays
<1>9. \A op : Before(op) \subseteq Before(op)'
  BY <1>1, <1>7, OwnAssumption DEF Before
<1>10. \A op \in Operation : receipts'[op] # "none" => ShownOn(op, Touches[op])'
  BY <1>3, <1>6, <1>7, TouchesAssumption DEF ShownOn, Growing
<1>11. QED
  BY <1>1, <1>2, <1>4, <1>6, <1>7, <1>8, <1>9, <1>10, OwnAssumption DEF Growing

LEMMA CommitRemoteGrows ==
  ASSUME ReplicaInv, Growing, MadeOnce, NEW i \in DOMAIN idb, CommitRemote(i)
  PROVE  Growing'
<1> PICK t : t = idb[i]
  OBVIOUS
<1> PICK replaced : replaced = IF t.onto = "registry" THEN {t.surface} ELSE {}
  OBVIOUS
<1> PICK q : q = Detached(RemoveAt(idb, i), replaced)
  OBVIOUS
<1> PICK left : left = accepting[t.op] \ {t.surface}
  OBVIOUS
<1>1. /\ idb \in Seq(Transaction) /\ AllApart(idb) /\ t.kind = "remote"
      /\ NextUpdate(t.op, left, q)
      /\ accepting \in [Operation -> SUBSET Surface] /\ live \in States
      /\ UNCHANGED <<outbox, receipts, committed, reloads>>
  BY DEF CommitRemote, Runs, ReplicaInv, TypeOK
<1>2. /\ t \in Waiting /\ t \in Transaction /\ Accepts(t) /\ Untouched(t) /\ Sound(t)
  BY <1>1 DEF Waiting, ToSet, Accepts, Growing, ReplicaInv
<1>3. /\ t.op \in Operation /\ t.surface \in Surface /\ t.state \in SUBSET Operation
      /\ t.onto \in {"document", "registry", "nothing"} /\ Touches[t.op] \in SUBSET Surface
  BY <1>2, Kinds, TouchesAssumption
<1>4. /\ t.onto = "document" => t.surface \in loaded
      /\ t.onto = "registry" => t.surface \notin loaded
      /\ t.onto # "nothing" /\ t.op \in t.state
      /\ ShownOn(t.op, Touches[t.op] \ accepting[t.op])
      /\ t.op \in committed /\ t.surface \in accepting[t.op]
  BY <1>2 DEF Untouched, Sound
<1>5. /\ loaded' = loaded \cup {t.surface}
      /\ live' \in States
      /\ \A s \in Surface : live[s] \subseteq live'[s]
      /\ t.op \in live'[t.surface]
      /\ \A s \in Surface \ loaded' : live'[s] = {}
  <2>1. CASE t.onto = "document"
    <3>1. live' = [live EXCEPT ![t.surface] = @ \cup {t.op}] /\ loaded' = loaded
      BY <2>1 DEF CommitRemote
    <3>2. QED
      BY <1>1, <1>3, <1>4, <2>1, <3>1 DEF States, Growing
  <2>2. CASE t.onto = "registry"
    <3>1. live' = [live EXCEPT ![t.surface] = t.state] /\ loaded' = loaded \cup {t.surface}
      BY <2>2 DEF CommitRemote
    <3>2. QED
      BY <1>1, <1>3, <1>4, <2>2, <3>1 DEF States, Growing
  <2>3. QED
    BY <1>3, <1>4, <2>1, <2>2
<1>6. accepting' = [accepting EXCEPT ![t.op] = left]
  BY <1>1 DEF NextUpdate
<1>7. ShownOn(t.op, Touches[t.op] \ left)'
  <2>1. \A s \in Touches[t.op] \ left : s = t.surface \/ s \in Touches[t.op] \ accepting[t.op]
    OBVIOUS
  <2>2. \A s \in Touches[t.op] \ accepting[t.op] : t.op \in live[s]
    BY <1>4 DEF ShownOn
  <2>3. QED
    BY <1>3, <1>5, <2>1, <2>2 DEF ShownOn
<1>8. ASSUME NEW u \in ToSet(q) PROVE Untouched(u)'
  <2>1. PICK v \in Waiting : /\ v \in Transaction /\ ~Alike(v, t)
                             /\ \/ u = v
                                \/ /\ Accepts(v) /\ v.surface \in replaced /\ v.onto = "document"
                                   /\ u = [v EXCEPT !.onto = "nothing"]
    BY <1>1, Completed
  <2>2. Untouched(v)
    BY DEF Growing
  <2>3. u = v
    BY <1>4, <2>1, <2>2 DEF Untouched
  <2>4. PICK j \in DOMAIN idb : u = idb[j] /\ j # i
    <3>1. Alike(t, t)
      BY <1>2 DEF Alike
    <3>2. QED
      BY <2>1, <2>3, <3>1 DEF Waiting, ToSet
  <2>5. (loaded' \ loaded) \cap Makes(u) = {}
    <3>1. Makes(idb[j]) \cap Makes(idb[i]) = {}
      BY <2>4 DEF MadeOnce
    <3>2. loaded' \ loaded \subseteq Makes(t)
      BY <1>1, <1>2, <1>3, <1>4, <1>5 DEF Makes
    <3>3. QED
      BY <2>4, <3>1, <3>2
  <2>6. Accepts(u) => accepting'[u.op] = accepting[u.op]
    <3>1. Accepts(u) => u.op # t.op /\ u.op \in Operation
      BY <1>2, <2>1, <2>3, Kinds DEF Alike
    <3>2. QED
      BY <1>1, <1>6, <3>1
  <2>7. QED
    BY <1>1, <1>5, <2>1, <2>2, <2>3, <2>5, <2>6, UntouchedStays, HopelessStays
<1>9. \E u \in Transaction : idb' = Append(q, u) /\ Untouched(u)'
  <2>1. CASE left = {}
    <3> PICK u : u = [kind |-> "acknowledge", op |-> t.op]
      OBVIOUS
    <3>1. idb' = Append(q, u)
      BY <1>1, <2>1 DEF NextUpdate
    <3>2. u \in Transaction /\ u.kind = "acknowledge" /\ u.op = t.op
      BY <1>3 DEF Transaction
    <3>3. Untouched(u)'
      BY <1>7, <2>1, <3>2 DEF Untouched, Accepts, ShownOn
    <3>4. QED
      BY <3>1, <3>2, <3>3
  <2>2. CASE left # {}
    <3>1. PICK s \in left : idb' = Append(q,
            [kind |-> "identity", op |-> t.op, surface |-> s,
             state |-> (IF s \in loaded' THEN live'[s] ELSE {}) \cup {t.op},
             onto |-> IF s \in loaded' THEN "document" ELSE "registry"])
      BY <1>1, <2>2 DEF NextUpdate
    <3> PICK u : u = [kind |-> "identity", op |-> t.op, surface |-> s,
             state |-> (IF s \in loaded' THEN live'[s] ELSE {}) \cup {t.op},
             onto |-> IF s \in loaded' THEN "document" ELSE "registry"]
      OBVIOUS
    <3>2. s \in Surface
      BY <1>1, <1>3, <3>1
    <3>3. /\ u \in Transaction /\ Accepts(u) /\ u.kind = "identity" /\ u.op = t.op /\ u.surface = s
      BY <1>4, <1>5, <3>2, StagedRemote
    <3>4. accepting'[u.op] = left /\ t.op \in u.state /\ u.onto = IF s \in loaded' THEN "document" ELSE "registry"
      BY <1>1, <1>3, <1>6, <3>3
    <3>5. Untouched(u)'
      BY <1>7, <3>3, <3>4 DEF Untouched, Accepts, ShownOn
    <3>6. QED
      BY <3>1, <3>3, <3>5
  <2>3. QED
    BY <2>1, <2>2
<1>10. \A u \in Waiting' : Untouched(u)'
  <2>1. PICK u \in Transaction : idb' = Append(q, u) /\ Untouched(u)'
    BY <1>9
  <2>2. q \in Seq(Transaction)
    BY <1>1, Completed
  <2>3. \A v \in Waiting' : v = u \/ v \in ToSet(q)
    BY <2>1, <2>2, Elementwise DEF Waiting
  <2>4. QED
    BY <1>8, <2>1, <2>3
<1>11. \A op : Before(op) \subseteq Before(op)'
  BY <1>1 DEF Before
<1>12. \A op \in Operation : receipts'[op] # "none" => ShownOn(op, Touches[op])'
  BY <1>1, <1>5, TouchesAssumption DEF ShownOn, Growing
<1>13. QED
  BY <1>1, <1>5, <1>10, <1>11, <1>12 DEF Growing

LEMMA AcknowledgeGrows ==
  ASSUME ReplicaInv, Growing, NEW i \in DOMAIN idb, Acknowledge(i)
  PROVE  Growing'
<1> PICK t : t = idb[i]
  OBVIOUS
<1>1. /\ idb \in Seq(Transaction) /\ idb' = RemoveAt(idb, i) /\ t.kind = "acknowledge"
      /\ outbox' = outbox \ {t.op} /\ receipts' = [receipts EXCEPT ![t.op] = "committed"]
      /\ receipts \in [Operation -> {"none", "queued", "committed", "rejected"}]
      /\ UNCHANGED <<loaded, live, accepting, committed, reloads>>
  BY DEF Acknowledge, Runs, memory, ReplicaInv, TypeOK
<1>2. t \in Transaction /\ t \in Waiting /\ Untouched(t) /\ Sound(t) /\ t.op \in Operation
  BY <1>1, Kinds DEF Waiting, ToSet, Growing, ReplicaInv
<1>3. \A o \in Operation : receipts'[o] = IF o = t.op THEN "committed" ELSE receipts[o]
  BY <1>1
<1>4. t.op \in committed /\ ShownOn(t.op, Touches[t.op])
  BY <1>1, <1>2 DEF Sound, Untouched
<1>5. ASSUME NEW u \in Waiting' PROVE Untouched(u)'
  <2>1. u \in Waiting
    BY <1>1, Removed DEF ReplicaInv
  <2>2. u \in Transaction /\ Untouched(u)
    BY <1>1, <2>1, Elements DEF Growing
  <2>3. \A o \in Own : receipts[o] # "none" => receipts'[o] # "none"
    BY <1>3, OwnAssumption
  <2>4. QED
    BY <1>1, <2>2, <2>3, UntouchedStays, HopelessStays
<1>6. \A op : Before(op) \subseteq Before(op)'
  BY <1>1, <1>3, OwnAssumption DEF Before
<1>7. \A op \in Operation : receipts'[op] # "none" => ShownOn(op, Touches[op])'
  BY <1>1, <1>3, <1>4 DEF ShownOn, Growing
<1>8. QED
  BY <1>1, <1>3, <1>4, <1>5, <1>6, <1>7, OwnAssumption DEF Growing

LEMMA ServerCommitsGrows ==
  ASSUME ReplicaInv, Growing, NEW op \in Operation, ServerCommits(op)
  PROVE  Growing'
<1>1. /\ committed' = committed \cup {op} /\ idb \in Seq(Transaction)
      /\ UNCHANGED <<loaded, live, outbox, receipts, idb, accepting, reloads>>
  BY DEF ServerCommits, memory, database, ReplicaInv, TypeOK
<1>2. ASSUME NEW u \in Waiting' PROVE Untouched(u)'
  <2>1. u \in Transaction /\ Untouched(u)
    BY <1>1, Elements DEF Growing, Waiting
  <2>2. QED
    BY <1>1, <2>1, UntouchedStays, HopelessStays
<1>3. \A o : Before(o) \subseteq Before(o)'
  BY <1>1 DEF Before
<1>4. QED
  BY <1>1, <1>2, <1>3 DEF Growing, ShownOn

\* All that the rejected operation was made on has been committed, so that
\* nothing can make it admissible again.
LEMMA BeginRepairGrows ==
  ASSUME ReplicaInv, Growing, NEW op \in Own, BeginRepair(op)
  PROVE  Growing'
<1> PICK t : t = [kind |-> "list", op |-> op, base |-> committed]
  OBVIOUS
<1>1. /\ idb \in Seq(Transaction) /\ idb' = Append(idb, t) /\ committed \subseteq Operation
      /\ op \in outbox /\ op \notin committed /\ ~Admissible(op, committed)
      /\ \A o \in outbox : Turn[op] <= Turn[o]
      /\ UNCHANGED <<loaded, live, outbox, receipts, accepting, committed, reloads>>
  BY DEF BeginRepair, IsNext, memory, database, ReplicaInv, TypeOK
<1>2. op \in Operation /\ t \in Transaction /\ t.kind = "list" /\ t.op = op
  BY <1>1, OwnAssumption DEF Transaction
<1>3. Basis[op] \subseteq committed
  <2>1. SUFFICES ASSUME NEW o \in Basis[op], o \notin committed PROVE FALSE
    OBVIOUS
  <2>2. o \in Own /\ receipts[o] # "none" /\ Turn[o] < Turn[op]
    BY <1>1, <2>1 DEF Growing, Before
  <2>3. o \in outbox
    BY <2>1, <2>2 DEF Growing
  <2>4. Turn[o] \in Nat /\ Turn[op] \in Nat
    BY <1>2, <2>2, TurnAssumption, OwnAssumption
  <2>5. QED
    BY <1>1, <2>2, <2>3, <2>4
<1>4. Hopeless(op)
  BY <1>1, <1>2, <1>3, BasisAssumption DEF Hopeless, Admissible, AdmissibleOn
<1>5. Untouched(t)
  BY <1>2, <1>4 DEF Untouched, Accepts
<1>6. ASSUME NEW u \in Waiting' PROVE Untouched(u)'
  <2>1. u \in Transaction /\ Untouched(u)
    BY <1>1, <1>2, <1>5, Elementwise, Elements DEF Growing, Waiting
  <2>2. QED
    BY <1>1, <2>1, QuietTransaction
<1>7. QED
  BY <1>1, <1>6, Quiet

LEMMA ListOutboxGrows ==
  ASSUME ReplicaInv, ReplicaInv', Growing, NEW i \in DOMAIN idb, ListOutbox(i)
  PROVE  Growing'
<1> PICK t : t = idb[i]
  OBVIOUS
<1>1. PICK kept \in SUBSET outbox :
        /\ \A op \in outbox : op \in kept <=> IsKept(op, t.op, t.base, kept)
        /\ idb' = Append(RemoveAt(idb, i),
                 [kind |-> "repair",
                  plan |-> [docs |-> t.base \cup kept, queued |-> kept,
                            rejected |-> (outbox \ kept) \cup {t.op}]])
  BY DEF ListOutbox
<1> PICK u : u = [kind |-> "repair",
                  plan |-> [docs |-> t.base \cup kept, queued |-> kept,
                            rejected |-> (outbox \ kept) \cup {t.op}]]
  OBVIOUS
<1> PICK q : q = RemoveAt(idb, i)
  OBVIOUS
<1>2. /\ idb \in Seq(Transaction) /\ t.kind = "list" /\ outbox \subseteq Own /\ committed \subseteq Operation
      /\ UNCHANGED <<loaded, live, outbox, receipts, accepting, committed, reloads>>
  BY DEF ListOutbox, Runs, memory, database, ReplicaInv, TypeOK
<1>3. t \in Transaction /\ t \in Waiting /\ Untouched(t) /\ Sound(t)
  BY <1>2 DEF Waiting, ToSet, Growing, ReplicaInv
<1>4. t.op \in Own /\ t.op \in Operation /\ Hopeless(t.op) /\ t.base \subseteq committed
  BY <1>2, <1>3, Kinds, OwnAssumption DEF Untouched, Sound
<1>5. /\ u \in Transaction /\ u.kind = "repair" /\ u.plan.queued = kept
      /\ u.plan.rejected = (outbox \ kept) \cup {t.op}
  <2>1. t.base \cup kept \in SUBSET Operation /\ (outbox \ kept) \cup {t.op} \in SUBSET Operation /\ kept \in SUBSET Operation
    BY <1>2, <1>4, OwnAssumption
  <2>2. QED
    BY <2>1 DEF Transaction, Plan
<1>6. t.op \notin kept
  BY <1>1 DEF IsKept
<1>7. Untouched(u)
  BY <1>4, <1>5, <1>6 DEF Untouched, Accepts
<1>8. \A v \in Waiting' : v = u \/ v \in Waiting
  <2>1. q \in Seq(Transaction) /\ \A v \in ToSet(q) : v \in Waiting
    BY <1>2, RemoveKeeps DEF Waiting, ToSet
  <2>2. QED
    BY <1>1, <1>5, <2>1, Elementwise DEF Waiting
<1>9. ASSUME NEW v \in Waiting' PROVE Untouched(v)'
  <2>1. v \in Transaction /\ Untouched(v)
    BY <1>2, <1>5, <1>7, <1>8, Elements DEF Growing
  <2>2. QED
    BY <1>2, <2>1, QuietTransaction
<1>10. QED
  BY <1>2, <1>9, Quiet

\* The repair buries the rejected operation.
LEMMA InstallRepairDisturbs ==
  ASSUME ReplicaInv, Growing, NEW i \in DOMAIN idb, InstallRepair(i)
  PROVE  Disturbed'
<1> PICK t : t = idb[i]
  OBVIOUS
<1>1. /\ idb \in Seq(Transaction) /\ AllApart(idb) /\ idb' = Detached(RemoveAt(idb, i), Surface) /\ t.kind = "repair"
      /\ outbox' = t.plan.queued
      /\ receipts' = [op \in Operation |->
           IF op \in t.plan.rejected THEN "rejected"
           ELSE IF op \in t.plan.queued THEN "queued" ELSE receipts[op]]
      /\ UNCHANGED committed
  BY DEF InstallRepair, Runs, ReplicaInv, TypeOK
<1>2. t \in Transaction /\ t \in Waiting /\ Untouched(t) /\ Sound(t)
  BY <1>1 DEF Waiting, ToSet, Growing, ReplicaInv
<1>3. PICK bad \in t.plan.rejected : Hopeless(bad) /\ bad \notin t.plan.queued
  BY <1>1, <1>2 DEF Untouched
<1>4. bad \in Own /\ bad \in Operation
  BY <1>1, <1>2, OwnAssumption DEF Sound
<1>5. \A u \in Waiting' : u.kind # "repair"
  <2>1. SUFFICES ASSUME NEW u \in Waiting', u.kind = "repair" PROVE FALSE
    OBVIOUS
  <2>2. PICK v \in Waiting : /\ v \in Transaction /\ ~Alike(v, t)
                             /\ (u = v \/ (Accepts(v) /\ u = [v EXCEPT !.onto = "nothing"]))
    BY <1>1, Completed DEF Waiting
  <2>3. Accepts(v) => ~(u = [v EXCEPT !.onto = "nothing"])
    BY <2>1, <2>2, Redirected DEF Accepts
  <2>4. QED
    BY <1>1, <2>1, <2>2, <2>3 DEF Alike, Repairs
<1>6. Hopeless(bad)'
  BY <1>1, <1>3, HopelessStays
<1>7. receipts'[bad] = "rejected" /\ bad \notin outbox'
  BY <1>1, <1>3, <1>4
<1>8. QED
  BY <1>4, <1>5, <1>6, <1>7 DEF Disturbed, Buried
-----------------------------------------------------------------------------
LEMMA AppendOnly ==
  ASSUME NEW S, NEW q \in Seq(S), NEW t
  PROVE  \A u \in ToSet(Append(q, t)) : u = t \/ u \in ToSet(q)
<1>1. q \in Seq(S \cup {t}) /\ t \in S \cup {t}
  OBVIOUS
<1>2. QED
  BY <1>1, Elementwise

\* What keeps an operation buried.
LEMMA StaysBuried ==
  ASSUME NEW op, Buried(op), receipts'[op] = receipts[op], op \notin outbox',
         committed' = committed \/ \E o \in Operation : ServerCommits(o),
         \A u \in Waiting' : u.kind = "repair" => u \in Waiting \/ op \notin u.plan.queued
  PROVE  Buried(op)'
<1>1. Hopeless(op)'
  BY HopelessStays DEF Buried
<1>2. QED
  BY <1>1 DEF Buried

\* Transactions that appear and are no repair bring nothing back, nor do those
\* that only disappear.
LEMMA QuietBuried ==
  ASSUME ReplicaInv, NEW op \in Own, Buried(op), NEW t \in Transaction, t.kind # "repair",
         \/ idb' = idb
         \/ idb' = Append(idb, t)
         \/ \E i \in DOMAIN idb : idb' = RemoveAt(idb, i)
         \/ \E i \in DOMAIN idb : idb' = Append(RemoveAt(idb, i), t),
         receipts'[op] = receipts[op], op \notin outbox',
         committed' = committed \/ \E o \in Operation : ServerCommits(o)
  PROVE  Buried(op)'
<1>1. idb \in Seq(Transaction)
  BY DEF ReplicaInv, TypeOK
<1>2. \A u \in Waiting' : u = t \/ u \in Waiting
  <2>1. CASE idb' = idb
    BY <2>1 DEF Waiting
  <2>2. CASE idb' = Append(idb, t)
    BY <1>1, <2>2, Elementwise DEF Waiting
  <2>3. ASSUME NEW i \in DOMAIN idb, idb' = RemoveAt(idb, i) \/ idb' = Append(RemoveAt(idb, i), t)
        PROVE  \A u \in Waiting' : u = t \/ u \in Waiting
    <3> PICK q : q = RemoveAt(idb, i)
      OBVIOUS
    <3>1. q \in Seq(Transaction) /\ \A u \in ToSet(q) : u \in Waiting
      BY <1>1, RemoveKeeps DEF Waiting, ToSet
    <3>2. CASE idb' = q
      BY <3>1, <3>2 DEF Waiting
    <3>3. CASE idb' = Append(q, t)
      BY <3>1, <3>3, Elementwise DEF Waiting
    <3>4. QED
      BY <2>3, <3>2, <3>3
  <2>4. QED
    BY <2>1, <2>2, <2>3
<1>3. QED
  BY <1>2, StaysBuried

\* An operation is not dispatched, accepted or acknowledged after its rejection.
LEMMA BuriedApart ==
  ASSUME ReplicaInv, NEW op \in Own, Buried(op), NEW t \in Waiting
  PROVE  /\ t.kind = "local" => t.op # op
         /\ t.kind = "acknowledge" => t.op # op
         /\ edit[op] # "none"
  BY DEF ReplicaInv, Durable, Sound, Buried, Hopeless

LEMMA BuriedStays ==
  ASSUME ReplicaInv, NEW op \in Own, Buried(op), [Next]_vars, ~Reload
  PROVE  Buried(op)'
<1> PICK a : a = [kind |-> "acknowledge", op |-> op]
  OBVIOUS
<1>1. /\ idb \in Seq(Transaction) /\ op \in Operation /\ op \notin outbox /\ outbox \subseteq Own
      /\ receipts \in [Operation -> {"none", "queued", "committed", "rejected"}]
      /\ a \in Transaction /\ a.kind # "repair"
  BY OwnAssumption DEF ReplicaInv, TypeOK, Buried, Transaction
<1>2. ASSUME NEW o \in Own, Dispatch(o) \/ Answered(o) \/ BeginRepair(o) PROVE Buried(op)'
  <2>1. PICK t : idb' = Append(idb, t) /\ t.kind # "repair"
    BY <1>2 DEF Dispatch, Answered, BeginRepair
  <2>2. UNCHANGED <<outbox, receipts, committed>>
    BY <1>2 DEF Dispatch, Answered, BeginRepair, database
  <2>3. t \in Transaction
    <3>1. idb' \in Seq(Transaction)
      BY <1>2, DispatchInv, AnsweredInv, BeginRepairInv DEF ReplicaInv, TypeOK
    <3>2. Append(idb, t)[Len(idb) + 1] = t /\ Len(Append(idb, t)) = Len(idb) + 1
      BY <1>1
    <3>3. QED
      BY <1>1, <2>1, <3>1, <3>2
  <2>4. QED
    BY <1>1, <2>1, <2>2, <2>3, QuietBuried
<1>3. ASSUME NEW o \in Operation, AcceptMessage(o) PROVE Buried(op)'
  <2>1. PICK s \in Touches[o] : idb' = Append(idb, StageRemote(o, s))
    BY <1>3 DEF AcceptMessage
  <2>2. UNCHANGED <<outbox, receipts, committed>> /\ o \in committed
    BY <1>3 DEF AcceptMessage, database
  <2>3. StageRemote(o, s) \in Transaction /\ StageRemote(o, s).kind # "repair"
    <3>1. s \in Surface /\ live \in States
      BY <2>1, TouchesAssumption DEF ReplicaInv, TypeOK
    <3>2. QED
      BY <2>2, <3>1, StagedRemote DEF StageRemote
  <2>4. QED
    BY <1>1, <2>1, <2>2, <2>3, QuietBuried
<1>4. ASSUME NEW o \in Operation, ServerCommits(o) PROVE Buried(op)'
  <2>1. UNCHANGED <<outbox, receipts, idb>>
    BY <1>4 DEF ServerCommits, database
  <2>2. QED
    BY <1>1, <1>4, <2>1, QuietBuried
<1>5. ASSUME NEW i \in DOMAIN idb, CommitLocal(i) \/ Acknowledge(i) PROVE Buried(op)'
  <2>1. idb[i] \in Waiting /\ idb[i] \in Transaction
    BY <1>1 DEF Waiting, ToSet
  <2>2. idb[i].op # op /\ idb[i].op \in Operation
    BY <1>5, <2>1, BuriedApart, Kinds, OwnAssumption DEF CommitLocal, Acknowledge, Runs
  <2>3. idb' = RemoveAt(idb, i) /\ UNCHANGED committed
    BY <1>5 DEF CommitLocal, Acknowledge
  <2>4. op \notin outbox' /\ receipts'[op] = receipts[op]
    BY <1>1, <1>5, <2>2 DEF CommitLocal, WriteLocal, Acknowledge
  <2>5. QED
    BY <1>1, <2>3, <2>4, QuietBuried
<1>6. ASSUME NEW i \in DOMAIN idb, AbortLocal(i) \/ AbortRemote(i) PROVE Buried(op)'
  <2>1. idb' = RemoveAt(idb, i) /\ UNCHANGED <<outbox, receipts, committed>>
    BY <1>6 DEF AbortLocal, AbortRemote, database
  <2>2. QED
    BY <1>1, <2>1, QuietBuried
<1>7. ASSUME NEW i \in DOMAIN idb, IdentityRead(i) PROVE Buried(op)'
  <2> PICK u : u = [idb[i] EXCEPT !.kind = "remote"]
    OBVIOUS
  <2>1. /\ idb' = Append(RemoveAt(idb, i), u) /\ idb[i].kind = "identity"
        /\ UNCHANGED <<outbox, receipts, committed>>
    BY <1>7 DEF IdentityRead, Runs, database
  <2>2. idb[i] \in [kind : {"identity", "remote"}, op : Operation, surface : Surface,
               state : SUBSET Operation, onto : {"document", "registry", "nothing"}]
    BY <1>1, <2>1, Kinds DEF Accepts
  <2>3. u \in Transaction /\ u.kind # "repair"
    BY <2>2 DEF Transaction
  <2>4. QED
    BY <1>1, <2>1, <2>3, QuietBuried
<1>8. ASSUME NEW i \in DOMAIN idb, CommitRemote(i) PROVE Buried(op)'
  <2> PICK t : t = idb[i]
    OBVIOUS
  <2> PICK left : left = accepting[t.op] \ {t.surface}
    OBVIOUS
  <2> PICK replaced : replaced = IF t.onto = "registry" THEN {t.surface} ELSE {}
    OBVIOUS
  <2> PICK q : q = Detached(RemoveAt(idb, i), replaced)
    OBVIOUS
  <2>1. NextUpdate(t.op, left, q) /\ UNCHANGED <<outbox, receipts, committed>>
    BY <1>8 DEF CommitRemote
  <2>2. PICK u : idb' = Append(q, u) /\ u.kind # "repair"
    <3>1. CASE left = {}
      <4> PICK u : u = [kind |-> "acknowledge", op |-> t.op]
        OBVIOUS
      <4>1. idb' = Append(q, u) /\ u.kind # "repair"
        BY <2>1, <3>1 DEF NextUpdate
      <4>2. QED
        BY <4>1
    <3>2. CASE left # {}
      <4>1. PICK s \in left : idb' = Append(q,
              [kind |-> "identity", op |-> t.op, surface |-> s,
               state |-> (IF s \in loaded' THEN live'[s] ELSE {}) \cup {t.op},
               onto |-> IF s \in loaded' THEN "document" ELSE "registry"])
        BY <2>1, <3>2 DEF NextUpdate
      <4> PICK u : u = [kind |-> "identity", op |-> t.op, surface |-> s,
               state |-> (IF s \in loaded' THEN live'[s] ELSE {}) \cup {t.op},
               onto |-> IF s \in loaded' THEN "document" ELSE "registry"]
        OBVIOUS
      <4>2. idb' = Append(q, u) /\ u.kind # "repair"
        BY <4>1
      <4>3. QED
        BY <4>2
    <3>3. QED
      BY <3>1, <3>2
  <2>3. q \in Seq(Transaction) /\ \A v \in ToSet(q) : v.kind = "repair" => v \in Waiting
    <3>0. AllApart(idb)
      BY DEF ReplicaInv
    <3>1. SUFFICES ASSUME NEW v \in ToSet(q), v.kind = "repair" PROVE v \in Waiting
      BY <1>1, <3>0, Completed
    <3>2. PICK w \in Waiting : w \in Transaction /\ (v = w \/ (Accepts(w) /\ v = [w EXCEPT !.onto = "nothing"]))
      BY <1>1, <3>0, <3>1, Completed
    <3>3. QED
      BY <3>1, <3>2, Redirected DEF Accepts
  <2>4. \A v \in Waiting' : v = u \/ v \in ToSet(q)
    BY <2>2, <2>3, AppendOnly DEF Waiting
  <2>5. QED
    BY <1>1, <2>1, <2>2, <2>3, <2>4, StaysBuried
<1>9. ASSUME NEW i \in DOMAIN idb, ListOutbox(i) PROVE Buried(op)'
  <2>1. PICK kept \in SUBSET outbox : \E docs, rejected :
          idb' = Append(RemoveAt(idb, i),
            [kind |-> "repair", plan |-> [docs |-> docs, queued |-> kept, rejected |-> rejected]])
    BY <1>9 DEF ListOutbox
  <2>2. PICK docs, rejected :
          idb' = Append(RemoveAt(idb, i),
            [kind |-> "repair", plan |-> [docs |-> docs, queued |-> kept, rejected |-> rejected]])
    BY <2>1
  <2> PICK u : u = [kind |-> "repair", plan |-> [docs |-> docs, queued |-> kept, rejected |-> rejected]]
    OBVIOUS
  <2> PICK q : q = RemoveAt(idb, i)
    OBVIOUS
  <2>3. UNCHANGED <<outbox, receipts, committed>>
    BY <1>9 DEF ListOutbox, database
  <2>4. q \in Seq(Transaction) /\ \A v \in ToSet(q) : v \in Waiting
    BY <1>1, RemoveKeeps DEF Waiting, ToSet
  <2>5. \A v \in Waiting' : v = u \/ v \in ToSet(q)
    BY <2>2, <2>4, AppendOnly DEF Waiting
  <2>6. op \notin u.plan.queued
    BY <1>1
  <2>7. QED
    BY <1>1, <2>3, <2>4, <2>5, <2>6, StaysBuried
<1>10. ASSUME NEW i \in DOMAIN idb, InstallRepair(i) PROVE Buried(op)'
  <2> PICK t : t = idb[i]
    OBVIOUS
  <2>1. /\ t.kind = "repair" /\ idb' = Detached(RemoveAt(idb, i), Surface)
        /\ outbox' = t.plan.queued
        /\ receipts' = [o \in Operation |->
             IF o \in t.plan.rejected THEN "rejected"
             ELSE IF o \in t.plan.queued THEN "queued" ELSE receipts[o]]
        /\ UNCHANGED committed
    BY <1>10 DEF InstallRepair, Runs
  <2>2. op \notin t.plan.queued
    BY <1>1, <2>1 DEF Waiting, ToSet, Buried
  <2>3. receipts'[op] = receipts[op]
    BY <1>1, <2>1, <2>2 DEF Buried
  <2>4. ASSUME NEW u \in Waiting', u.kind = "repair" PROVE u \in Waiting
    <3>1. PICK v \in Waiting : v \in Transaction /\ (u = v \/ (Accepts(v) /\ u = [v EXCEPT !.onto = "nothing"]))
      BY <1>1, <2>1, <2>4, Completed DEF Waiting, ReplicaInv
    <3>2. QED
      BY <2>4, <3>1, Redirected DEF Accepts
  <2>5. QED
    BY <2>1, <2>2, <2>3, <2>4, StaysBuried
<1>11. CASE UNCHANGED vars
  <2>1. UNCHANGED <<outbox, receipts, idb, committed>>
    BY <1>11 DEF vars, database
  <2>2. QED
    BY <1>1, <2>1, QuietBuried
<1>12. QED
  BY <1>2, <1>3, <1>4, <1>5, <1>6, <1>7, <1>8, <1>9, <1>10, <1>11 DEF Next

\* What a reload or a repair has disturbed stays disturbed.
LEMMA DisturbedStays ==
  ASSUME ReplicaInv, Disturbed, [Next]_vars
  PROVE  Disturbed'
<1>1. reloads \in Nat
  BY BoundAssumption DEF ReplicaInv, TypeOK
<1>2. CASE Reload
  BY <1>1, <1>2 DEF Reload, Disturbed
<1>3. CASE ~Reload /\ reloads # 0
  <2>1. UNCHANGED reloads
    BY <1>3 DEF Next, vars, Dispatch, Answered, BeginRepair, AcceptMessage, ServerCommits, CommitLocal,
       AbortLocal, IdentityRead, CommitRemote, AbortRemote, Acknowledge, ListOutbox, InstallRepair
  <2>2. QED
    BY <1>3, <2>1 DEF Disturbed
<1>4. CASE ~Reload /\ \E op \in Own : Buried(op)
  BY <1>4, BuriedStays DEF Disturbed
<1>5. QED
  BY <1>2, <1>3, <1>4 DEF Disturbed

\* Until then every step leaves a page whose documents only grow.
LEMMA GrowingUntilDisturbed ==
  ASSUME ReplicaInv, ReplicaInv', MadeOnce, Growing, [Next]_vars
  PROVE  Disturbed' \/ Growing'
<1>1. ASSUME NEW op \in Own, Dispatch(op) \/ Answered(op) \/ BeginRepair(op) PROVE Growing'
  BY <1>1, DispatchGrows, AnsweredGrows, BeginRepairGrows
<1>2. ASSUME NEW op \in Operation, AcceptMessage(op) \/ ServerCommits(op) PROVE Growing'
  BY <1>2, AcceptMessageGrows, ServerCommitsGrows
<1>3. ASSUME NEW i \in DOMAIN idb,
             \/ CommitLocal(i) \/ AbortLocal(i)
             \/ IdentityRead(i) \/ CommitRemote(i) \/ AbortRemote(i)
             \/ Acknowledge(i) \/ ListOutbox(i)
      PROVE  Growing'
  BY <1>3, CommitLocalGrows, AbortLocalGrows, IdentityReadGrows, CommitRemoteGrows,
     AbortRemoteGrows, AcknowledgeGrows, ListOutboxGrows
<1>4. ASSUME NEW i \in DOMAIN idb, InstallRepair(i) PROVE Disturbed'
  BY <1>4, InstallRepairDisturbs
<1>5. CASE Reload
  BY <1>5, BoundAssumption DEF Reload, Disturbed, ReplicaInv, TypeOK
<1>6. CASE UNCHANGED vars
  BY <1>6 DEF vars, memory, database, Growing, Untouched, Waiting, ShownOn, Before, Hopeless
<1>7. QED
  BY <1>1, <1>2, <1>3, <1>4, <1>5, <1>6 DEF Next

LEMMA InitGrowing == Init => Growing
<1> SUFFICES ASSUME Init PROVE Growing
  OBVIOUS
<1>1. Waiting = {} /\ \A s \in Surface : live[s] = {}
  BY DEF Init, Waiting, ToSet, Empty
<1>2. QED
  BY <1>1, OwnAssumption DEF Init, Growing

-----------------------------------------------------------------------------
\* The replica's variables keep their types: a repair plans only operations of
\* the outbox and of the server's state, and a reload opens only surfaces.
THEOREM ReplicaTypes == Spec => []TypeOK
<1>1. ReplicaInv => TypeOK
  BY DEF ReplicaInv
<1>2. QED
  BY <1>1, InitInv, Inductive, PTL DEF Spec

\* Whatever fails or is under way, the page neither shows nor stores an edit of
\* its user that has no receipt: what dispatch staged enters the documents and
\* surface_state only with the transaction that writes its outbox record, and
\* what is staged on top of it carries nothing else.
THEOREM NothingUnsavedAlways == Spec => []NothingUnsaved
<1>1. ReplicaInv => NothingUnsaved
  <2> SUFFICES ASSUME ReplicaInv, NEW op \in Own, NEW s \in Surface, op \in live[s] \cup stored[s]
               PROVE  receipts[op] # "none"
    BY DEF NothingUnsaved, Shown
  <2>1. Known(op)
    BY DEF ReplicaInv, Durable
  <2>2. QED
    BY <2>1 DEF ReplicaInv, Durable, Known
<1>2. QED
  BY <1>1, InitInv, Inductive, PTL DEF Spec

\* Until a reload or a repair replaces the documents, what a receipt calls
\* queued or committed is shown on each of its surfaces, in every interleaving
\* of dispatches, remote updates, failed transactions and answers: as long as
\* no two transactions at once make one surface known.
THEOREM WorkAlwaysShown == Spec /\ []MadeOnce => []WorkIsShown
<1> DEFINE Now == ReplicaInv /\ (Disturbed \/ Growing)
<1>1. Init => Now
  BY InitInv, InitGrowing
<1>2. Now /\ MadeOnce /\ [Next]_vars => Now'
  BY Inductive, DisturbedStays, GrowingUntilDisturbed
<1>3. Now => WorkIsShown
  <2> SUFFICES ASSUME Now, Undisturbed PROVE WorkIsShown
    BY DEF WorkIsShown
  <2>1. ~Disturbed
    BY OwnAssumption DEF Undisturbed, Disturbed, Buried
  <2>2. \A op \in Operation : receipts[op] # "none" => ShownOn(op, Touches[op])
    BY <2>1 DEF Growing
  <2>3. QED
    BY <2>2 DEF WorkIsShown, ShownOn
<1>4. QED
  BY <1>1, <1>2, <1>3, PTL DEF Spec

-----------------------------------------------------------------------------
(***************************************************************************)
(* The inverse history.                                                    *)
(***************************************************************************)

\* One undo is under way, and only while #performUndo waits for it.
OneUndo ==
  /\ \A i \in DOMAIN commits : commits[i].kind = "undo" => undoing # NoStroke
  /\ \A i, j \in DOMAIN commits : commits[i].kind = "undo" /\ commits[j].kind = "undo" => i = j

\* Each stroke is drawn once.
DrawnOnce ==
  /\ \A i, j \in DOMAIN made : made[i] = made[j] => i = j
  /\ \A i \in DOMAIN commits : commits[i].kind = "draw" => \A k \in DOMAIN made : made[k] # commits[i].stroke
  /\ \A i, j \in DOMAIN commits :
       commits[i].kind = "draw" /\ commits[j].kind = "draw" /\ commits[i].stroke = commits[j].stroke => i = j

\* Records are in the order of the strokes: behind a record are no more
\* records than strokes were drawn after it.
RecordsInOrder ==
  \A i \in DOMAIN history : \E p \in DOMAIN made :
    made[p] = history[i] /\ p + Len(history) <= Len(made) + i

\* Unless a stroke became durable during an undo, the newest record is that of
\* the pending undo.
HistoryComplete ==
  ~overlapped =>
    /\ undoing # NoStroke => history # <<>> /\ history[Len(history)] = undoing
    /\ \A s \in Stroke : Undoable(s) => \E i \in DOMAIN history : history[i] = s

Keeps == undoing = NoStroke \/ (\E i \in DOMAIN history : history[i] = undoing) \/ Len(history) = Limit

HistoryInv ==
  HistoryTypeOK /\ OneUndo /\ DrawnOnce /\ RecordsInOrder /\ HistoryComplete /\ Keeps

-----------------------------------------------------------------------------
\* What Tail leaves of a property of all elements, and of pairs of them.
LEMMA TailShifts ==
  ASSUME NEW S, NEW q \in Seq(S), q # <<>>
  PROVE  /\ Tail(q) \in Seq(S) /\ Head(q) = q[1] /\ Head(q) \in S /\ 1 \in DOMAIN q
         /\ \A i \in DOMAIN Tail(q) : i \in Nat /\ i + 1 \in DOMAIN q /\ i + 1 # 1 /\ Tail(q)[i] = q[i + 1]
  OBVIOUS

LEMMA AppendAdds ==
  ASSUME NEW S, NEW q \in Seq(S), NEW x \in S
  PROVE  /\ Append(q, x) \in Seq(S) /\ Len(Append(q, x)) = Len(q) + 1 /\ Len(q) \in Nat
         /\ DOMAIN q = 1..Len(q) /\ DOMAIN Append(q, x) = 1..(Len(q) + 1)
         /\ \A i \in 1..Len(q) : Append(q, x)[i] = q[i]
         /\ Append(q, x)[Len(q) + 1] = x
  OBVIOUS

LEMMA PrefixKeeps ==
  ASSUME NEW S, NEW q \in Seq(S), NEW n \in 0..Len(q)
  PROVE  /\ SubSeq(q, 1, n) \in Seq(S) /\ Len(SubSeq(q, 1, n)) = n
         /\ DOMAIN q = 1..Len(q) /\ DOMAIN SubSeq(q, 1, n) = 1..n /\ Len(q) \in Nat
         /\ \A i \in 1..n : SubSeq(q, 1, n)[i] = q[i]
  OBVIOUS

-----------------------------------------------------------------------------
LEMMA InitHistory == HistoryInit => HistoryInv
<1> SUFFICES ASSUME HistoryInit PROVE HistoryInv
  OBVIOUS
<1>1. DOMAIN commits = {} /\ DOMAIN made = {} /\ DOMAIN history = {}
  BY DEF HistoryInit
<1>2. HistoryTypeOK
  <2>1. 0 \in 0..MaxVersion /\ 0 \in 0..MaxFailures /\ 0 <= Limit
    BY LimitAssumption, HistoryBoundAssumption
  <2>2. version \in [Stroke -> 0..MaxVersion]
    BY <2>1 DEF HistoryInit
  <2>3. history \in Seq(Stroke) /\ made \in Seq(Stroke) /\ commits \in Seq(Commit)
    BY DEF HistoryInit
  <2>4. Len(history) <= Limit
    BY <2>1 DEF HistoryInit
  <2>5. QED
    BY <2>1, <2>2, <2>3, <2>4 DEF HistoryInit, HistoryTypeOK
<1>3. OneUndo /\ DrawnOnce /\ RecordsInOrder /\ Keeps
  BY <1>1 DEF HistoryInit, OneUndo, DrawnOnce, RecordsInOrder, Keeps
<1>4. HistoryComplete
  BY <1>1 DEF HistoryInit, HistoryComplete, Undoable
<1>5. QED
  BY <1>2, <1>3, <1>4 DEF HistoryInv

LEMMA DrawStep ==
  ASSUME HistoryInv, NEW s \in Stroke, Draw(s) PROVE HistoryInv'
<1> USE DEF HistoryInv
<1> DEFINE c == [kind |-> "draw", stroke |-> s]
<1>1. commits' = Append(commits, c) /\ UNCHANGED <<version, history, undoing, failures, made, overlapped>>
  BY DEF Draw
<1>2. c \in Commit /\ commits \in Seq(Commit) /\ c.kind = "draw" /\ c.stroke = s
  BY DEF Commit, HistoryTypeOK
<1> HIDE DEF c
<1>3. /\ commits' \in Seq(Commit) /\ Len(commits) \in Nat
      /\ DOMAIN commits = 1..Len(commits) /\ DOMAIN commits' = 1..(Len(commits) + 1)
      /\ \A i \in 1..Len(commits) : commits'[i] = commits[i]
      /\ commits'[Len(commits) + 1] = c
  BY <1>1, <1>2, AppendAdds
<1>4. /\ \A k \in DOMAIN made : made[k] # s
      /\ \A i \in DOMAIN commits : commits[i].stroke # s
  BY DEF Draw, Started, ToSet
<1>5. HistoryTypeOK'
  BY <1>1, <1>3 DEF HistoryTypeOK
<1>6. OneUndo'
  BY <1>1, <1>2, <1>3 DEF OneUndo
<1>7. DrawnOnce'
  BY <1>1, <1>2, <1>3, <1>4 DEF DrawnOnce
<1>8. RecordsInOrder' /\ HistoryComplete' /\ Keeps'
  BY <1>1 DEF RecordsInOrder, HistoryComplete, Undoable, Keeps
<1>9. QED
  BY <1>5, <1>6, <1>7, <1>8

\* Taking the first commit away.
LEMMA CommitEnds ==
  ASSUME HistoryTypeOK, OneUndo, DrawnOnce, commits # <<>>, commits' = Tail(commits), made' = made,
         undoing' = IF Head(commits).kind = "undo" THEN NoStroke ELSE undoing
  PROVE  OneUndo' /\ DrawnOnce' /\ commits' \in Seq(Commit)
<1>1. /\ commits' \in Seq(Commit) /\ Head(commits) = commits[1] /\ 1 \in DOMAIN commits
      /\ \A i \in DOMAIN commits' :
           i \in Nat /\ i + 1 \in DOMAIN commits /\ i + 1 # 1 /\ commits'[i] = commits[i + 1]
  BY TailShifts DEF HistoryTypeOK
<1>2. \A i, j \in DOMAIN commits' : i + 1 = j + 1 => i = j
  BY <1>1
<1>3. OneUndo'
  BY <1>1, <1>2 DEF OneUndo
<1>4. DrawnOnce'
  BY <1>1, <1>2 DEF DrawnOnce
<1>5. QED
  BY <1>1, <1>3, <1>4

LEMMA AbortStep == HistoryInv /\ Abort => HistoryInv'
<1> SUFFICES ASSUME HistoryInv, Abort PROVE HistoryInv'
  OBVIOUS
<1> USE DEF HistoryInv
<1>1. OneUndo' /\ DrawnOnce' /\ commits' \in Seq(Commit)
  BY CommitEnds DEF Abort
<1>2. HistoryTypeOK'
  BY <1>1, HistoryBoundAssumption DEF Abort, HistoryTypeOK
<1>3. RecordsInOrder' /\ HistoryComplete' /\ Keeps'
  BY DEF Abort, RecordsInOrder, HistoryComplete, Undoable, Keeps
<1>4. QED
  BY <1>1, <1>2, <1>3

\* A write of somebody else leaves the history alone and restores nothing.
LEMMA OtherStep ==
  ASSUME HistoryInv, NEW s \in Stroke, Rewrite(s) \/ Vanish(s) PROVE HistoryInv'
<1> USE DEF HistoryInv
<1>1. UNCHANGED <<history, undoing, commits, failures, made, overlapped>>
  BY DEF Rewrite, Vanish
<1>2. version \in [Stroke -> 0..MaxVersion] /\ MaxVersion \in Nat
  BY HistoryBoundAssumption DEF HistoryTypeOK
<1>3. PICK n \in 0..MaxVersion : n # 1 /\ version' = [version EXCEPT ![s] = n]
  <2>1. CASE Rewrite(s)
    <3>1. version[s] + 1 \in 0..MaxVersion /\ version[s] + 1 # 1
      BY <1>2, <2>1 DEF Rewrite
    <3>2. QED
      BY <2>1, <3>1 DEF Rewrite
  <2>2. CASE Vanish(s)
    <3>1. 0 \in 0..MaxVersion /\ 0 # 1
      BY <1>2
    <3>2. QED
      BY <2>2, <3>1 DEF Vanish
  <2>3. QED
    BY <2>1, <2>2
<1>4. /\ version' \in [Stroke -> 0..MaxVersion]
      /\ \A q \in Stroke : version'[q] = 1 => version[q] = 1
  BY <1>2, <1>3
<1>5. HistoryTypeOK'
  BY <1>1, <1>4 DEF HistoryTypeOK
<1>6. OneUndo' /\ DrawnOnce' /\ RecordsInOrder' /\ Keeps'
  BY <1>1 DEF OneUndo, DrawnOnce, RecordsInOrder, Keeps
<1>7. HistoryComplete'
  BY <1>1, <1>4 DEF HistoryComplete, Undoable
<1>8. QED
  BY <1>5, <1>6, <1>7

-----------------------------------------------------------------------------
\* q is the last m records of the history, shifted by d, and then s.
Shift(q, s, d, m) ==
  /\ m + d = Len(history) /\ (d = 0 \/ (d = 1 /\ Len(history) = Limit))
  /\ q \in Seq(Stroke) /\ Len(q) = m + 1 /\ m + 1 <= Limit
  /\ DOMAIN q = 1..(m + 1)
  /\ \A i \in 1..m : q[i] = history[i + d]
  /\ q[m + 1] = s

\* A push shifts the records by none or, at the limit, by one.
LEMMA PushShifts ==
  ASSUME HistoryTypeOK, NEW s \in Stroke
  PROVE  \E d, m \in Nat : Shift(Pushed(s), s, d, m)
<1>1. /\ history \in Seq(Stroke) /\ Len(history) \in Nat /\ Len(history) <= Limit
      /\ Limit \in Nat \ {0} /\ DOMAIN history = 1..Len(history)
  BY LimitAssumption DEF HistoryTypeOK
<1> DEFINE a == Append(history, s)
<1>2. /\ a \in Seq(Stroke) /\ Len(a) = Len(history) + 1
      /\ \A i \in 1..Len(history) : a[i] = history[i]
      /\ a[Len(history) + 1] = s
  BY <1>1, AppendAdds
<1>3. Pushed(s) = SubSeq(a, IF Len(history) < Limit THEN 1 ELSE 2, Len(history) + 1)
  BY DEF Pushed
<1> HIDE DEF a
<1>4. CASE Len(history) < Limit
  <2>1. Pushed(s) = SubSeq(a, 1, Len(a))
    BY <1>2, <1>3, <1>4
  <2>2. Pushed(s) = a
    BY <1>2, <2>1
  <2>3. DOMAIN a = 1..(Len(history) + 1)
    BY <1>2
  <2>4. \A i \in 1..Len(history) : a[i] = history[i + 0]
    BY <1>1, <1>2
  <2>5. Shift(Pushed(s), s, 0, Len(history))
    BY <1>1, <1>2, <1>4, <2>2, <2>3, <2>4 DEF Shift
  <2>6. QED
    BY <1>1, <2>5
<1>5. CASE Len(history) = Limit
  <2> DEFINE m == Len(history) - 1
  <2>1. m \in Nat /\ m + 1 = Len(history)
    BY <1>1, <1>5
  <2>2. Pushed(s) = SubSeq(a, 2, Len(history) + 1)
    BY <1>1, <1>3, <1>5
  <2>3. /\ Pushed(s) \in Seq(Stroke) /\ Len(Pushed(s)) = Len(history)
        /\ DOMAIN Pushed(s) = 1..Len(history)
        /\ \A i \in 1..Len(history) : Pushed(s)[i] = a[i + 1]
    BY <1>1, <1>2, <2>2
  <2> HIDE DEF m
  <2>4. \A i \in 1..m : i \in 1..Len(history) /\ i + 1 \in 1..Len(history)
    BY <1>1, <2>1
  <2>5. \A i \in 1..m : Pushed(s)[i] = history[i + 1]
    BY <1>2, <2>3, <2>4
  <2>6. m + 1 \in 1..Len(history) /\ Pushed(s)[m + 1] = s
    BY <1>1, <1>2, <2>1, <2>3
  <2>7. Shift(Pushed(s), s, 1, m)
    BY <1>1, <1>5, <2>1, <2>3, <2>5, <2>6 DEF Shift
  <2>8. QED
    BY <2>1, <2>7
<1>6. Len(history) < Limit \/ Len(history) = Limit
  <2>1. \A n, l \in Nat : n <= l => n < l \/ n = l
    OBVIOUS
  <2>2. Len(history) \in Nat /\ Limit \in Nat /\ Len(history) <= Limit
    BY <1>1
  <2>3. QED
    BY <2>1, <2>2, Zenon
<1>7. QED
  BY <1>4, <1>5, <1>6

\* A stroke becomes durable: it is the newest record, and the record that the
\* limit drops is that of a stroke after which Limit others were drawn.
LEMMA CommitDrawStep ==
  ASSUME HistoryInv, CommitDraw PROVE HistoryInv'
<1> USE DEF HistoryInv
<1> DEFINE new == Head(commits).stroke
<1>1. /\ Tail(commits) \in Seq(Commit) /\ Head(commits) = commits[1] /\ Head(commits) \in Commit /\ 1 \in DOMAIN commits
      /\ \A i \in DOMAIN Tail(commits) :
           i \in Nat /\ i + 1 \in DOMAIN commits /\ i + 1 # 1 /\ Tail(commits)[i] = commits[i + 1]
  BY TailShifts DEF CommitDraw, HistoryTypeOK
<1>2. new \in Stroke /\ commits[1].kind = "draw" /\ commits[1].stroke = new
  BY <1>1 DEF CommitDraw, Commit
<1>3. /\ version' = [version EXCEPT ![new] = 1] /\ history' = Pushed(new)
      /\ made' = Append(made, new) /\ commits' = Tail(commits)
      /\ undoing' = undoing /\ failures' = failures
      /\ overlapped' = (overlapped \/ undoing # NoStroke)
  BY DEF CommitDraw
<1> HIDE DEF new
<1>4. /\ made' \in Seq(Stroke) /\ Len(made') = Len(made) + 1 /\ Len(made) \in Nat
      /\ DOMAIN made = 1..Len(made) /\ DOMAIN made' = 1..(Len(made) + 1)
      /\ \A i \in 1..Len(made) : made'[i] = made[i]
      /\ made'[Len(made) + 1] = new
  BY <1>2, <1>3, AppendAdds DEF HistoryTypeOK
<1>5. \A k \in DOMAIN made : made[k] # new
  BY <1>1, <1>2 DEF DrawnOnce
<1>6. PICK d \in Nat, m \in Nat : Shift(history', new, d, m)
  BY <1>2, <1>3, PushShifts
<1>7. /\ m + d = Len(history) /\ (d = 0 \/ (d = 1 /\ Len(history) = Limit))
      /\ history' \in Seq(Stroke) /\ Len(history') = m + 1 /\ m + 1 <= Limit
      /\ DOMAIN history' = 1..(m + 1)
      /\ \A i \in 1..m : history'[i] = history[i + d]
      /\ history'[m + 1] = new
  BY <1>6 DEF Shift
<1>8. DOMAIN history = 1..Len(history) /\ Len(history) \in Nat /\ Limit \in Nat
  BY LimitAssumption DEF HistoryTypeOK
<1>9. HistoryTypeOK'
  <2>1. version' \in [Stroke -> 0..MaxVersion]
    BY <1>2, <1>3, HistoryBoundAssumption DEF HistoryTypeOK
  <2>2. QED
    BY <1>1, <1>3, <1>4, <1>7, <2>1 DEF HistoryTypeOK
<1>10. OneUndo'
  <2>1. \A i, j \in DOMAIN commits' : i + 1 = j + 1 => i = j
    BY <1>1, <1>3
  <2>2. QED
    BY <1>1, <1>3, <2>1 DEF OneUndo
<1>11. DrawnOnce'
  <2>1. \A i, j \in DOMAIN commits' : i + 1 = j + 1 => i = j
    BY <1>1, <1>3
  <2>2. \A i, j \in DOMAIN made' : made'[i] = made'[j] => i = j
    BY <1>4, <1>5 DEF DrawnOnce
  <2>3. \A i \in DOMAIN commits' : commits'[i].kind = "draw" =>
          commits'[i].stroke # new /\ \A k \in DOMAIN made : made[k] # commits'[i].stroke
    BY <1>1, <1>2, <1>3 DEF DrawnOnce
  <2>4. \A i \in DOMAIN commits' : commits'[i].kind = "draw" =>
          \A k \in DOMAIN made' : made'[k] # commits'[i].stroke
    BY <1>4, <2>3
  <2>5. QED
    BY <1>1, <1>3, <2>1, <2>2, <2>4 DEF DrawnOnce
<1>12. RecordsInOrder'
  <2> SUFFICES ASSUME NEW k \in DOMAIN history'
               PROVE \E p \in DOMAIN made' :
                       made'[p] = history'[k] /\ p + Len(history') <= Len(made') + k
    BY DEF RecordsInOrder
  <2>1. CASE k = m + 1
    <3>1. Len(made) + 1 \in DOMAIN made' /\ (Len(made) + 1) + Len(history') <= Len(made') + k
      BY <1>4, <1>7, <2>1
    <3>2. QED
      BY <1>4, <1>7, <2>1, <3>1
  <2>2. CASE k \in 1..m
    <3>0. k + d \in 1..(m + d)
      BY <2>2
    <3>1. k + d \in DOMAIN history /\ history'[k] = history[k + d]
      BY <1>7, <1>8, <2>2, <3>0
    <3>2. PICK p \in DOMAIN made : made[p] = history[k + d] /\ p + Len(history) <= Len(made) + (k + d)
      BY <3>1 DEF RecordsInOrder
    <3>3. /\ m \in Nat /\ d \in Nat /\ k \in Nat /\ p \in Nat /\ Len(made) \in Nat
          /\ Len(history') = m + 1 /\ Len(history) = m + d /\ Len(made') = Len(made) + 1
      BY <1>4, <1>7, <2>2, <3>2
    <3>4. p + Len(history') <= Len(made') + k
      BY <3>2, <3>3
    <3>5. QED
      BY <1>4, <3>1, <3>2, <3>4
  <2>3. QED
    BY <1>7, <1>8, <2>1, <2>2
<1>13. HistoryComplete'
  <2> SUFFICES ASSUME ~overlapped', NEW s \in Stroke, Undoable(s)'
               PROVE \E i \in DOMAIN history' : history'[i] = s
    BY <1>3 DEF HistoryComplete
  <2>1. CASE s = new
    BY <1>7, <2>1
  <2>2. CASE s # new
    <3>1. PICK n \in DOMAIN made' : made'[n] = s /\ Len(made') - n < Limit
      BY DEF Undoable
    <3>2. n \in DOMAIN made /\ made[n] = s /\ Len(made) + 1 - n < Limit
      BY <1>4, <2>2, <3>1
    <3>3. Len(made) - n < Limit
      BY <1>4, <1>8, <3>2
    <3>4. version[s] = 1
      BY <1>2, <1>3, <2>2 DEF Undoable, HistoryTypeOK
    <3>5. PICK i \in DOMAIN history : history[i] = s
      BY <1>3, <3>2, <3>3, <3>4 DEF HistoryComplete, Undoable
    <3>6. i > d
      <4> SUFFICES ASSUME d = 1, i = 1 PROVE FALSE
        BY <1>7, <1>8, <3>5
      <4>1. PICK p \in DOMAIN made : made[p] = history[1] /\ p + Len(history) <= Len(made) + 1
        BY <3>5 DEF RecordsInOrder
      <4>2. p = n
        BY <3>2, <3>5, <4>1 DEF DrawnOnce
      <4>3. QED
        BY <1>4, <1>7, <1>8, <3>2, <4>1, <4>2
    <3>7. i - d \in 1..m /\ (i - d) + d = i
      BY <1>7, <1>8, <3>5, <3>6
    <3>8. history'[i - d] = s
      BY <1>7, <3>5, <3>7
    <3>9. QED
      BY <1>7, <3>7, <3>8
  <2>3. QED
    BY <2>1, <2>2
<1>14. Keeps'
  <2>1. CASE undoing = NoStroke
    BY <1>3, <2>1 DEF Keeps
  <2>2. CASE d = 1
    <3>1. Len(history') = Limit
      BY <1>7, <2>2
    <3>2. QED
      BY <3>1 DEF Keeps
  <2>3. CASE d = 0 /\ \E i \in DOMAIN history : history[i] = undoing
    <3>1. PICK i \in DOMAIN history : history[i] = undoing
      BY <2>3
    <3>2. i \in 1..m /\ i + d = i
      BY <1>7, <1>8, <2>3, <3>1
    <3>3. i \in DOMAIN history' /\ history'[i] = undoing'
      BY <1>3, <1>7, <3>1, <3>2
    <3>4. QED
      BY <3>3 DEF Keeps
  <2>4. CASE d = 0 /\ Len(history) = Limit
    BY <1>7, <1>8, <2>4
  <2>5. QED
    BY <1>7, <2>1, <2>2, <2>3, <2>4 DEF Keeps
<1>15. QED
  BY <1>9, <1>10, <1>11, <1>12, <1>13, <1>14

\* An undo starts: what it discards had changed since it was drawn.
LEMMA StartUndoStep ==
  ASSUME HistoryInv, StartUndo PROVE HistoryInv'
<1> USE DEF HistoryInv
<1>1. PICK last \in 0..Len(history) :
        /\ Newest(last)
        /\ history' = SubSeq(history, 1, last)
        /\ IF last = 0 THEN UNCHANGED <<undoing, commits>>
           ELSE /\ undoing' = history[last]
                /\ commits' = Append(commits, [kind |-> "undo", stroke |-> history[last]])
  BY DEF StartUndo
<1>2. undoing = NoStroke /\ UNCHANGED <<version, failures, made, overlapped>>
  BY DEF StartUndo
<1>3. /\ history' \in Seq(Stroke) /\ Len(history') = last
      /\ DOMAIN history = 1..Len(history) /\ DOMAIN history' = 1..last /\ Len(history) \in Nat
      /\ \A i \in 1..last : history'[i] = history[i]
  BY <1>1, PrefixKeeps DEF HistoryTypeOK
<1>4. Len(history') <= Limit /\ last \in Nat
  BY <1>1, <1>3, LimitAssumption DEF HistoryTypeOK
<1>5. RecordsInOrder'
  <2> SUFFICES ASSUME NEW k \in DOMAIN history'
               PROVE \E p \in DOMAIN made' :
                       made'[p] = history'[k] /\ p + Len(history') <= Len(made') + k
    BY DEF RecordsInOrder
  <2>1. k \in DOMAIN history /\ history'[k] = history[k]
    BY <1>1, <1>3, <1>4
  <2>2. PICK p \in DOMAIN made : made[p] = history[k] /\ p + Len(history) <= Len(made) + k
    BY <2>1 DEF RecordsInOrder
  <2>3. Len(made) \in Nat /\ DOMAIN made = 1..Len(made)
    BY DEF HistoryTypeOK
  <2>4. p + last <= Len(made) + k
    BY <1>1, <1>3, <1>4, <2>1, <2>2, <2>3
  <2>5. QED
    BY <1>2, <1>3, <2>1, <2>2, <2>4
<1>6. \A s \in Stroke : ~overlapped /\ Undoable(s) => \E i \in DOMAIN history' : history'[i] = s
  <2> SUFFICES ASSUME NEW s \in Stroke, ~overlapped, Undoable(s)
               PROVE \E i \in DOMAIN history' : history'[i] = s
    OBVIOUS
  <2>1. PICK i \in DOMAIN history : history[i] = s
    BY DEF HistoryComplete
  <2>2. ~(i \in (last + 1)..Len(history))
    BY <1>1, <2>1 DEF Newest, Undoable
  <2>3. i \in 1..last
    BY <1>1, <1>3, <1>4, <2>1, <2>2
  <2>4. QED
    BY <1>3, <2>1, <2>3
<1>7. \A i \in DOMAIN commits : commits[i].kind # "undo"
  BY <1>2 DEF OneUndo
<1>8. CASE last = 0
  <2>1. undoing' = undoing /\ commits' = commits
    BY <1>1, <1>8
  <2>2. HistoryTypeOK'
    BY <1>2, <1>3, <1>4, <2>1 DEF HistoryTypeOK
  <2>3. OneUndo' /\ DrawnOnce' /\ Keeps'
    BY <1>2, <2>1 DEF OneUndo, DrawnOnce, Keeps
  <2>4. HistoryComplete'
    BY <1>2, <1>6, <2>1 DEF HistoryComplete, Undoable
  <2>5. QED
    BY <1>5, <2>2, <2>3, <2>4
<1>9. CASE last # 0
  <2> DEFINE c == [kind |-> "undo", stroke |-> history[last]]
  <2>1. last \in 1..last /\ last \in DOMAIN history /\ history[last] \in Stroke
    BY <1>1, <1>3, <1>4, <1>9 DEF HistoryTypeOK
  <2>2. c \in Commit /\ c.kind = "undo"
    BY <2>1 DEF Commit
  <2>3. undoing' = history[last] /\ commits' = Append(commits, c)
    BY <1>1, <1>9
  <2> HIDE DEF c
  <2>4. /\ commits' \in Seq(Commit) /\ Len(commits) \in Nat
        /\ DOMAIN commits = 1..Len(commits) /\ DOMAIN commits' = 1..(Len(commits) + 1)
        /\ \A i \in 1..Len(commits) : commits'[i] = commits[i]
        /\ commits'[Len(commits) + 1] = c
    BY <2>2, <2>3, AppendAdds DEF HistoryTypeOK
  <2>5. HistoryTypeOK'
    BY <1>2, <1>3, <1>4, <2>1, <2>3, <2>4 DEF HistoryTypeOK
  <2>6. OneUndo'
    <3>1. undoing' # NoStroke
      BY <2>1, <2>3, NoStrokeAssumption
    <3>2. \A i \in DOMAIN commits' : commits'[i].kind = "undo" => i = Len(commits) + 1
      BY <1>7, <2>4
    <3>3. QED
      BY <3>1, <3>2 DEF OneUndo
  <2>7. DrawnOnce'
    <3>1. \A i \in DOMAIN commits' : commits'[i].kind = "draw" => i \in DOMAIN commits /\ commits'[i] = commits[i]
      BY <2>2, <2>4
    <3>2. QED
      BY <1>2, <3>1 DEF DrawnOnce
  <2>8. last \in DOMAIN history' /\ history'[last] = undoing' /\ history' # <<>>
    BY <1>3, <1>4, <2>1, <2>3
  <2>9. Keeps'
    BY <2>8 DEF Keeps
  <2>10. HistoryComplete'
    BY <1>2, <1>3, <1>6, <2>8 DEF HistoryComplete, Undoable
  <2>11. QED
    BY <1>5, <2>5, <2>6, <2>7, <2>9, <2>10
<1>10. QED
  BY <1>8, <1>9

\* An undo succeeds: unless another stroke came between, the record it pops
\* is that of the stroke it took away.
LEMMA CommitUndoStep ==
  ASSUME HistoryInv, CommitUndo PROVE HistoryInv'
<1> USE DEF HistoryInv
<1>1. /\ commits # <<>> /\ Head(commits).kind = "undo"
      /\ version' = [version EXCEPT ![undoing] = IF @ = 1 THEN 0 ELSE @]
      /\ history' = IF history = <<>> THEN <<>> ELSE Front(history)
      /\ undoing' = NoStroke /\ commits' = Tail(commits)
      /\ UNCHANGED <<failures, made, overlapped>>
  BY DEF CommitUndo
<1>2. OneUndo' /\ DrawnOnce' /\ commits' \in Seq(Commit)
  BY <1>1, CommitEnds
<1>3. undoing \in Stroke
  <2>1. 1 \in DOMAIN commits /\ Head(commits) = commits[1]
    BY <1>1, TailShifts DEF HistoryTypeOK
  <2>2. QED
    BY <1>1, <2>1 DEF OneUndo, HistoryTypeOK
<1>4. /\ version' \in [Stroke -> 0..MaxVersion]
      /\ version'[undoing] # 1
      /\ \A s \in Stroke : version'[s] = 1 => version[s] = 1
  BY <1>1, <1>3, HistoryBoundAssumption DEF HistoryTypeOK
<1>5. /\ history \in Seq(Stroke) /\ Len(history) \in Nat /\ DOMAIN history = 1..Len(history)
      /\ Len(history) <= Limit /\ Limit \in Nat
  BY LimitAssumption DEF HistoryTypeOK
<1>6. /\ history' \in Seq(Stroke) /\ Len(history') <= Limit
      /\ DOMAIN history' = 1..Len(history')
      /\ Len(history') <= Len(history)
      /\ history # <<>> => Len(history') = Len(history) - 1
      /\ history = <<>> => history' = <<>>
      /\ \A i \in DOMAIN history' : i \in DOMAIN history /\ history'[i] = history[i]
  <2>1. CASE history = <<>>
    <3>1. history' = history
      BY <1>1, <2>1
    <3>2. QED
      BY <1>5, <2>1, <3>1
  <2>2. CASE history # <<>>
    <3>1. history' = SubSeq(history, 1, Len(history) - 1)
      BY <1>1, <2>2 DEF Front
    <3>2. Len(history) - 1 \in 0..Len(history)
      BY <1>5, <2>2
    <3>3. /\ history' \in Seq(Stroke) /\ Len(history') = Len(history) - 1
          /\ DOMAIN history' = 1..(Len(history) - 1)
          /\ \A i \in 1..(Len(history) - 1) : history'[i] = history[i]
      BY <1>5, <3>1, <3>2, PrefixKeeps
    <3>4. QED
      BY <1>5, <2>2, <3>3
  <2>3. QED
    BY <2>1, <2>2
<1>7. HistoryTypeOK'
  BY <1>1, <1>2, <1>4, <1>6 DEF HistoryTypeOK
<1>8. RecordsInOrder'
  <2> SUFFICES ASSUME NEW k \in DOMAIN history'
               PROVE \E p \in DOMAIN made' :
                       made'[p] = history'[k] /\ p + Len(history') <= Len(made') + k
    BY DEF RecordsInOrder
  <2>1. k \in DOMAIN history /\ history'[k] = history[k]
    BY <1>6
  <2>2. PICK p \in DOMAIN made : made[p] = history[k] /\ p + Len(history) <= Len(made) + k
    BY <2>1 DEF RecordsInOrder
  <2>3. Len(made) \in Nat /\ DOMAIN made = 1..Len(made)
    BY DEF HistoryTypeOK
  <2>4. Len(history') = Len(history) - 1
    BY <1>6, <2>1
  <2>5. p + Len(history') <= Len(made) + k
    BY <1>5, <2>1, <2>2, <2>3, <2>4
  <2>6. QED
    BY <1>1, <2>1, <2>2, <2>5
<1>9. HistoryComplete'
  <2> SUFFICES ASSUME ~overlapped', NEW s \in Stroke, Undoable(s)'
               PROVE \E i \in DOMAIN history' : history'[i] = s
    BY <1>1 DEF HistoryComplete
  <2>1. Undoable(s) /\ s # undoing
    BY <1>1, <1>4 DEF Undoable
  <2>2. PICK i \in DOMAIN history : history[i] = s
    BY <1>1, <2>1 DEF HistoryComplete
  <2>3. history # <<>> /\ history[Len(history)] = undoing
    BY <1>1, <1>3, NoStrokeAssumption DEF HistoryComplete
  <2>4. i # Len(history)
    BY <2>1, <2>2, <2>3
  <2>5. i \in DOMAIN history'
    BY <1>5, <1>6, <2>2, <2>3, <2>4
  <2>6. QED
    BY <1>6, <2>2, <2>5
<1>10. Keeps'
  BY <1>1 DEF Keeps
<1>11. QED
  BY <1>2, <1>7, <1>8, <1>9, <1>10

-----------------------------------------------------------------------------
LEMMA HistoryInductive == HistoryInv /\ [HistoryNext]_historyVars => HistoryInv'
<1> SUFFICES ASSUME HistoryInv, [HistoryNext]_historyVars PROVE HistoryInv'
  OBVIOUS
<1>1. ASSUME NEW s \in Stroke, Draw(s) PROVE HistoryInv'
  BY <1>1, DrawStep
<1>2. ASSUME NEW s \in Stroke, Rewrite(s) \/ Vanish(s) PROVE HistoryInv'
  BY <1>2, OtherStep
<1>3. CASE CommitDraw
  BY <1>3, CommitDrawStep
<1>4. CASE StartUndo
  BY <1>4, StartUndoStep
<1>5. CASE CommitUndo
  BY <1>5, CommitUndoStep
<1>6. CASE Abort
  BY <1>6, AbortStep
<1>7. CASE UNCHANGED historyVars
  BY <1>7 DEF historyVars, HistoryInv, HistoryTypeOK, OneUndo, DrawnOnce, RecordsInOrder, HistoryComplete, Undoable, Keeps
<1>8. QED
  BY <1>1, <1>2, <1>3, <1>4, <1>5, <1>6, <1>7 DEF HistoryNext

LEMMA HistoryAlways == HistorySpec => []HistoryInv
  BY InitHistory, HistoryInductive, PTL DEF HistorySpec

\* Every state that undoOwnAction and the dispatches reach has the declared
\* types; in particular the history never outgrows its limit.
THEOREM HistoryTypes == HistorySpec => []HistoryTypeOK
<1>1. HistoryInv => HistoryTypeOK
  BY DEF HistoryInv
<1>2. QED
  BY <1>1, HistoryAlways, PTL

\* As long as no stroke became durable during an undo, a stroke that is as it
\* was drawn and among the last Limit can be undone, whatever transactions
\* failed and whatever others wrote.
THEOREM UndoAlone == HistorySpec => []UndoableAlone
<1>1. HistoryInv => UndoableAlone
  BY DEF HistoryInv, HistoryComplete, UndoableAlone, StrokesAreUndoable, ToSet
<1>2. QED
  BY <1>1, HistoryAlways, PTL

\* The record of a pending undo stays until the undo has succeeded, for the
\* retry after a failed commit, unless newer strokes push it over the limit.
THEOREM PendingIsKept == HistorySpec => []PendingKeepsRecord
<1>1. HistoryInv => PendingKeepsRecord
  BY DEF HistoryInv, Keeps, PendingKeepsRecord, ToSet
<1>2. QED
  BY <1>1, HistoryAlways, PTL
=============================================================================
