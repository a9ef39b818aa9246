------------------------ MODULE AssetRegistryProofs ------------------------
(***************************************************************************)
(* AssetRegistry for any assets, calls, drains and number of faults: a     *)
(* ready asset has its bytes, and bytes that no call is working on belong  *)
(* to a row or wait for their deletion.                                    *)
(*                                                                         *)
(* Until the workspace is deleted nothing is queued, so that only calls on *)
(* the asset itself touch its bytes; from then on there are no rows, and   *)
(* what is left to show is that every object is on its way out.            *)
(***************************************************************************)
EXTENDS AssetRegistry, TLAPS

Uploading == {"put", "markUploaded"}
Finalizing == {"getObject", "reject", "markRejected", "markReady"}
Publishing == {"putDerived", "insertDerived"}

At(c, labels, k) == call[c].key = k /\ call[c].pc \in labels

\* A call works on a key of its kind.
KeyInv == \A c \in Call :
  /\ call[c].pc \in Uploading \cup {"undoUpload"} \cup Finalizing => call[c].key \in Asset
  /\ call[c].pc \in Uploading => call[c].content \in Content
  /\ call[c].pc \in Publishing => call[c].key \in Derived /\ call[c].content \in Derivation

\* Rows end with the workspace; the queue and its drains begin there.
EraseInv ==
  /\ present => /\ \A k \in ObjectKey : queue[k] = "none"
                /\ \A d \in Drainer : drain[d].pc = "idle"
  /\ ~present => derived = {} /\ \A a \in Asset : rows[a] = "none"
  /\ \A c \in Call : call[c].pc = "cascade" =>
       /\ present
       /\ \A b \in Call : call[b].pc = "cascade" => b = c
       /\ \A a \in Asset \ excused : rows[a] # "none" => a \in call[c].batch

\* What a call and a user asset it may be working on owe each other.
Agrees(c, a) ==
  /\ At(c, Uploading, a) => /\ rows[a] = "reserved"
                            /\ \A b \in Call : At(b, Uploading, a) => b = c
  /\ ~At(c, {"undoUpload"}, a)
  /\ At(c, Finalizing, a) => rows[a] \in {"uploaded", "ready", "rejected"}
  /\ At(c, {"markReady"}, a) => objects[a] = "good"
  /\ At(c, {"reject"}, a) => objects[a] # "good"
  /\ At(c, {"markRejected"}, a) => objects[a] = "none"

\* While the workspace is there, the calls on one asset agree with its row and
\* its bytes.
UploadInv == present => \A a \in Asset \ excused, c \in Call : Agrees(c, a)

\* Derived bytes that have been written stay until their row is inserted.
PublishInv == present => \A c \in Call : call[c].pc = "insertDerived" => objects[call[c].key] = "good"

\* The bytes a row stands for.
BytesInv ==
  /\ \A a \in Asset \ excused : /\ rows[a] = "ready" => objects[a] = "good"
                                /\ rows[a] = "rejected" => objects[a] = "none"
  /\ \A row \in derived : objects[row.object] = "good"

\* Someone answers for the bytes under a key.
Owned(k) ==
  \/ k \in Asset /\ rows[k] \in {"reserved", "uploaded", "ready"}
  \/ \E row \in derived : row.object = k
  \/ queue[k] \in {"pending", "leased"}

Written(k) == \E c \in Call : At(c, {"markUploaded", "undoUpload", "insertDerived"}, k)

StrayInv == \A k \in ObjectKey \ excused : objects[k] # "none" => Owned(k) \/ Written(k)

\* An object is recorded as deleted only when it is, or when a call has
\* written it anew and will see that the asset is gone.
DrainInv == \A d \in Drainer : drain[d].pc = "complete" =>
  /\ drain[d].key \in ObjectKey
  /\ drain[d].key \in excused \/ objects[drain[d].key] = "none" \/ Written(drain[d].key)

RegistryInv ==
  /\ TypeOK /\ KeyInv /\ EraseInv /\ UploadInv /\ PublishInv /\ BytesInv
  /\ StrayInv /\ DrainInv

-----------------------------------------------------------------------------
CallState == [pc : {"idle", "put", "markUploaded", "undoUpload", "getObject", "reject",
                    "markRejected", "markReady", "putDerived", "insertDerived", "cascade"},
              key : ObjectKey \cup {"none"}, content : Bytes \cup Derivation,
              batch : SUBSET ObjectKey]
DrainState == [pc : {"idle", "delete", "complete"}, key : ObjectKey \cup {"none"},
               batch : SUBSET ObjectKey]

LEMMA CallTyped ==
  ASSUME TypeOK
  PROVE  call \in [Call -> CallState] /\ drain \in [Drainer -> DrainState]
  BY DEF TypeOK, CallState, DrainState

\* What the three ways to move a call leave of it.
LEMMA GotoFields ==
  ASSUME TypeOK, NEW c \in Call,
         NEW label \in {"markUploaded", "undoUpload", "getObject", "reject", "markRejected",
                        "markReady", "insertDerived"},
         Goto(c, label)
  PROVE  /\ call' \in [Call -> CallState]
         /\ call'[c].pc = label /\ call'[c].key = call[c].key /\ call'[c].content = call[c].content
         /\ \A b \in Call \ {c} : call'[b] = call[b]
<1>1. call \in [Call -> CallState] /\ call[c] \in CallState
  BY CallTyped
<1>2. call' = [call EXCEPT ![c] = [call[c] EXCEPT !.pc = label]]
  BY <1>1 DEF Goto
<1>3. [call[c] EXCEPT !.pc = label] \in CallState
  BY <1>1 DEF CallState
<1>4. QED
  BY <1>1, <1>2, <1>3 DEF CallState

LEMMA AnswerFields ==
  ASSUME TypeOK, NEW c \in Call, Answer(c)
  PROVE  /\ call' \in [Call -> CallState]
         /\ call'[c].pc = "idle" /\ call'[c].key = "none"
         /\ \A b \in Call \ {c} : call'[b] = call[b]
<1>1. Idle \in CallState /\ Idle.pc = "idle" /\ Idle.key = "none"
  BY DEF Idle, CallState, Bytes
<1>2. QED
  BY <1>1, CallTyped DEF Answer

LEMMA BeginFields ==
  ASSUME TypeOK, NEW c \in Call, NEW label \in {"put", "getObject", "putDerived"},
         NEW k \in ObjectKey, NEW x \in Bytes \cup Derivation, Begin(c, label, k, x)
  PROVE  /\ call' \in [Call -> CallState]
         /\ call'[c].pc = label /\ call'[c].key = k /\ call'[c].content = x
         /\ \A b \in Call \ {c} : call'[b] = call[b]
<1> DEFINE new == [pc |-> label, key |-> k, content |-> x, batch |-> {}]
<1>1. new \in CallState /\ new.pc = label /\ new.key = k /\ new.content = x
  BY DEF CallState
<1>2. call' = [call EXCEPT ![c] = new]
  BY DEF Begin
<1> HIDE DEF new
<1>3. QED
  BY <1>1, <1>2, CallTyped

-----------------------------------------------------------------------------
LEMMA TypeStep ==
  ASSUME TypeOK, KeyInv, DrainInv, [Next]_vars
  PROVE  TypeOK'
<1> USE CallTyped DEF ObjectKey
<1>1. /\ present \in BOOLEAN
      /\ rows \in [Asset -> {"none", "reserved", "uploaded", "ready", "rejected"}]
      /\ expired \subseteq Asset
      /\ derived \subseteq [key : Derivation, object : Derived]
      /\ objects \in [ObjectKey -> Bytes]
      /\ queue \in [ObjectKey -> {"none", "pending", "leased", "done"}]
      /\ call \in [Call -> CallState]
      /\ drain \in [Drainer -> DrainState]
      /\ excused \subseteq ObjectKey
      /\ faults \in 0..MaxFaults
  BY DEF TypeOK
<1>2. TypeOK' <=> /\ present' \in BOOLEAN
      /\ rows' \in [Asset -> {"none", "reserved", "uploaded", "ready", "rejected"}]
      /\ expired' \subseteq Asset
      /\ derived' \subseteq [key : Derivation, object : Derived]
      /\ objects' \in [ObjectKey -> Bytes]
      /\ queue' \in [ObjectKey -> {"none", "pending", "leased", "done"}]
      /\ call' \in [Call -> CallState]
      /\ drain' \in [Drainer -> DrainState]
      /\ excused' \subseteq ObjectKey
      /\ faults' \in 0..MaxFaults
  BY DEF TypeOK, CallState, DrainState
<1>3. \A c \in Call : /\ call[c].key \in ObjectKey \cup {"none"} /\ call[c].batch \subseteq ObjectKey
                      /\ call[c].pc \in Publishing => call[c].key \in Derived /\ call[c].content \in Derivation
                      /\ call[c].pc = "put" => call[c].content \in Content
                      /\ call[c].pc \in Uploading \cup {"undoUpload"} \cup Finalizing => call[c].key \in Asset
  BY <1>1 DEF KeyInv, CallState, Uploading
<1>4. \A d \in Drainer : drain[d].key \in ObjectKey \cup {"none"} /\ drain[d].batch \subseteq ObjectKey
  BY <1>1 DEF DrainState
<1>5. \A k, x : x \in Bytes /\ Store(k, x) => objects' \in [ObjectKey -> Bytes]
  BY <1>1 DEF Store
<1>6. \A a, from : \A to \in {"uploaded", "ready", "rejected"} : MarkState(a, from, to) =>
        rows' \in [Asset -> {"none", "reserved", "uploaded", "ready", "rejected"}]
  BY <1>1 DEF MarkState
<1>7. Idle \in CallState /\ Resting \in DrainState
  BY DEF Idle, Resting, CallState, DrainState, Bytes
<1>8. Fault => faults' \in 0..MaxFaults
  BY <1>1, MaxFaultsAssumption DEF Fault
<1>9. "none" \in Bytes /\ "good" \in Bytes /\ Content \subseteq Bytes
  BY DEF Bytes, Content
<1>10. ASSUME NEW a \in Asset, Reserve(a) \/ Expire(a)
       PROVE  TypeOK'
  BY <1>1, <1>2, <1>10 DEF Reserve, InsertReserved, Expire
<1>11. ASSUME NEW c \in Call, NEW a \in Asset, NEW x \in Content, BeginUpload(c, a, x)
       PROVE  TypeOK'
  BY <1>1, <1>2, <1>9, <1>11, BeginFields DEF BeginUpload, database
<1>12. ASSUME NEW c \in Call, NEW a \in Asset, BeginFinalize(c, a)
       PROVE  TypeOK'
  BY <1>1, <1>2, <1>9, <1>12, BeginFields DEF BeginFinalize, database
<1>13. ASSUME NEW c \in Call, NEW d \in Derivation, NEW x \in Derived, BeginPublish(c, d, x)
       PROVE  TypeOK'
  BY <1>1, <1>2, <1>13, BeginFields DEF BeginPublish, database
<1>14. ASSUME NEW c \in Call, PutUpload(c) \/ UndoUpload(c) \/ Reject(c) \/ PutDerived(c)
       PROVE  TypeOK'
  <2>1. objects' \in [ObjectKey -> Bytes]
    BY <1>3, <1>5, <1>9, <1>14 DEF PutUpload, UndoUpload, Reject, PutDerived
  <2>2. call' \in [Call -> CallState]
    BY <1>14, GotoFields, AnswerFields DEF PutUpload, UndoUpload, Reject, PutDerived
  <2>3. QED
    BY <1>1, <1>2, <1>14, <2>1, <2>2 DEF PutUpload, UndoUpload, Reject, PutDerived, database
<1>15. ASSUME NEW c \in Call, MarkUploaded(c) \/ MarkRejected(c) \/ MarkReady(c)
       PROVE  TypeOK'
  <2>1. rows' \in [Asset -> {"none", "reserved", "uploaded", "ready", "rejected"}]
    BY <1>6, <1>15 DEF MarkUploaded, MarkRejected, MarkReady
  <2>2. call' \in [Call -> CallState]
    BY <1>15, GotoFields, AnswerFields DEF MarkUploaded, MarkRejected, MarkReady
  <2>3. QED
    BY <1>1, <1>2, <1>15, <2>1, <2>2 DEF MarkUploaded, MarkRejected, MarkReady
<1>16. ASSUME NEW c \in Call, GetObject(c)
       PROVE  TypeOK'
  BY <1>1, <1>2, <1>16, GotoFields DEF GetObject, database
<1>17. ASSUME NEW c \in Call, InsertDerived(c)
       PROVE  TypeOK'
  <2>1. call[c].key \in Derived /\ call[c].content \in Derivation
    BY <1>3, <1>17 DEF InsertDerived, Publishing
  <2>2. call' \in [Call -> CallState]
    BY <1>17, AnswerFields DEF InsertDerived
  <2>3. QED
    BY <1>1, <1>2, <1>17, <2>1, <2>2 DEF InsertDerived
<1>18. ASSUME NEW c \in Call, BeginErase(c)
       PROVE  TypeOK'
  <2>1. {a \in Asset : rows[a] # "none"} \cup {row.object : row \in derived} \subseteq ObjectKey
    BY <1>1
  <2>2. [Idle EXCEPT !.pc = "cascade", !.batch =
           {a \in Asset : rows[a] # "none"} \cup {row.object : row \in derived}] \in CallState
    BY <2>1 DEF Idle, CallState, Bytes
  <2>3. call' \in [Call -> CallState]
    BY <1>1, <1>18, <2>2 DEF BeginErase
  <2>4. QED
    BY <1>1, <1>2, <1>18, <2>3 DEF BeginErase, database
<1>19. ASSUME NEW c \in Call, Cascade(c)
       PROVE  TypeOK'
  <2>1. call' \in [Call -> CallState]
    BY <1>19, AnswerFields DEF Cascade
  <2>2. {row.object : row \in derived} \subseteq ObjectKey
    BY <1>1
  <2>3. /\ rows' \in [Asset -> {"none", "reserved", "uploaded", "ready", "rejected"}]
        /\ queue' \in [ObjectKey -> {"none", "pending", "leased", "done"}]
        /\ excused' \subseteq ObjectKey
    BY <1>1, <1>19, <2>2 DEF Cascade
  <2>4. QED
    BY <1>1, <1>2, <1>19, <2>1, <2>3 DEF Cascade
<1>20. ASSUME NEW d \in Drainer, Clean(d) \/ FailDeletion(d)
       PROVE  TypeOK'
  <2>1. drain' \in [Drainer -> DrainState]
    <3>1. \A k \in ObjectKey, b \in SUBSET ObjectKey :
            [drain[d] EXCEPT !.pc = "complete", !.key = k] \in DrainState
            /\ [drain[d] EXCEPT !.pc = "delete", !.batch = b] \in DrainState
            /\ [Resting EXCEPT !.pc = "delete", !.batch = b] \in DrainState
      BY <1>1, <1>7 DEF DrainState
    <3>2. ASSUME NEW k, Onwards(d, k)
          PROVE  drain' \in [Drainer -> DrainState]
      BY <1>1, <1>4, <1>7, <3>1, <3>2 DEF Onwards
    <3>3. CASE Claim(d)
      BY <1>1, <3>1, <3>3 DEF Claim
    <3>4. CASE DeleteQueued(d)
      <4>1. PICK k \in drain[d].batch :
              drain' = [drain EXCEPT ![d].pc = "complete", ![d].key = k]
        BY <3>4 DEF DeleteQueued
      <4>2. drain' = [drain EXCEPT ![d] = [drain[d] EXCEPT !.pc = "complete", !.key = k]]
        BY <1>1, <4>1
      <4>3. k \in ObjectKey /\ {} \in SUBSET ObjectKey
        BY <1>4, <4>1
      <4>4. [drain[d] EXCEPT !.pc = "complete", !.key = k] \in DrainState
        BY <3>1, <4>3
      <4>5. QED
        BY <1>1, <4>2, <4>4
    <3>5. QED
      BY <1>20, <3>2, <3>3, <3>4 DEF Clean, CompleteDeletion, FailDeletion
  <2>2. objects' \in [ObjectKey -> Bytes]
    BY <1>1, <1>5, <1>9, <1>20 DEF Clean, Claim, DeleteQueued, CompleteDeletion, FailDeletion
  <2>3. queue' \in [ObjectKey -> {"none", "pending", "leased", "done"}]
    BY <1>1, <1>20 DEF Clean, Claim, DeleteQueued, CompleteDeletion, FailDeletion, database
  <2>4. QED
    BY <1>1, <1>2, <1>8, <1>20, <2>1, <2>2, <2>3 DEF Clean, Claim, DeleteQueued, CompleteDeletion,
       FailDeletion, database
<1>21. ASSUME NEW k \in ObjectKey, LeaseExpires(k)
       PROVE  TypeOK'
  BY <1>1, <1>2, <1>8, <1>21 DEF LeaseExpires
<1>22. CASE Crash
  <2>1. {call[c].key : c \in {c \in Call : call[c].pc \in {"markUploaded", "undoUpload", "insertDerived"}}}
          \subseteq ObjectKey
    BY <1>3 DEF Uploading, Publishing
  <2>2. QED
    BY <1>1, <1>2, <1>7, <1>8, <1>22, <2>1 DEF Crash, database
<1>23. CASE UNCHANGED vars
  BY <1>1, <1>2, <1>23 DEF vars, database
<1>24. QED
  BY <1>10, <1>11, <1>12, <1>13, <1>14, <1>15, <1>16, <1>17, <1>18, <1>19, <1>20, <1>21, <1>22,
     <1>23 DEF Next, Go

-----------------------------------------------------------------------------
\* The steps of a call between two of its statements, in one form: the call
\* moves on with its key, or it ends.
LEMMA GoFields ==
  ASSUME TypeOK, NEW c \in Call, Go(c)
  PROVE  /\ \A b \in Call \ {c} : call'[b] = call[b]
         /\ \/ call'[c].pc = "idle" /\ call'[c].key = "none"
            \/ call'[c].key = call[c].key /\ call'[c].content = call[c].content
         /\ PutUpload(c) => call'[c].pc = "markUploaded"
         /\ MarkUploaded(c) => call'[c].pc =
              IF rows[call[c].key] = "reserved" THEN "idle" ELSE "undoUpload"
         /\ GetObject(c) => call'[c].pc =
              IF objects[call[c].key] = "good" THEN "markReady" ELSE "reject"
         /\ Reject(c) => call'[c].pc = "markRejected"
         /\ PutDerived(c) => call'[c].pc = "insertDerived"
         /\ UndoUpload(c) \/ MarkRejected(c) \/ MarkReady(c) \/ InsertDerived(c) \/ Cascade(c) =>
              call'[c].pc = "idle"
<1>1. CASE PutUpload(c)
  BY <1>1, GotoFields DEF PutUpload, MarkUploaded, GetObject, Reject, PutDerived, UndoUpload,
     MarkRejected, MarkReady, InsertDerived, Cascade
<1>2. CASE MarkUploaded(c)
  BY <1>2, GotoFields, AnswerFields DEF PutUpload, MarkUploaded, GetObject, Reject, PutDerived,
     UndoUpload, MarkRejected, MarkReady, InsertDerived, Cascade
<1>3. CASE GetObject(c)
  BY <1>3, GotoFields DEF PutUpload, MarkUploaded, GetObject, Reject, PutDerived, UndoUpload,
     MarkRejected, MarkReady, InsertDerived, Cascade
<1>4. CASE Reject(c) \/ PutDerived(c)
  BY <1>4, GotoFields DEF PutUpload, MarkUploaded, GetObject, Reject, PutDerived, UndoUpload,
     MarkRejected, MarkReady, InsertDerived, Cascade
<1>5. CASE UndoUpload(c) \/ MarkRejected(c) \/ MarkReady(c) \/ InsertDerived(c) \/ Cascade(c)
  BY <1>5, AnswerFields DEF PutUpload, MarkUploaded, GetObject, Reject, PutDerived, UndoUpload,
     MarkRejected, MarkReady, InsertDerived, Cascade
<1>6. QED
  BY <1>1, <1>2, <1>3, <1>4, <1>5 DEF Go

LEMMA KeyStep ==
  ASSUME TypeOK, KeyInv, [Next]_vars
  PROVE  KeyInv'
<1> USE DEF KeyInv, Uploading, Finalizing, Publishing
<1>1. CASE UNCHANGED call
  BY <1>1
<1>2. ASSUME NEW c \in Call, NEW a \in Asset, NEW x \in Content, BeginUpload(c, a, x)
      PROVE  KeyInv'
  BY <1>2, BeginFields DEF BeginUpload, ObjectKey, Bytes
<1>3. ASSUME NEW c \in Call, NEW a \in Asset, BeginFinalize(c, a)
      PROVE  KeyInv'
  BY <1>3, BeginFields DEF BeginFinalize, ObjectKey, Bytes
<1>4. ASSUME NEW c \in Call, NEW d \in Derivation, NEW x \in Derived, BeginPublish(c, d, x)
      PROVE  KeyInv'
  BY <1>4, BeginFields DEF BeginPublish, ObjectKey
<1>5. ASSUME NEW c \in Call, Go(c)
      PROVE  KeyInv'
  <2>1. CASE PutUpload(c) \/ MarkUploaded(c)
    BY <1>5, <2>1, GoFields DEF PutUpload, MarkUploaded
  <2>2. CASE GetObject(c) \/ Reject(c)
    BY <1>5, <2>2, GoFields DEF GetObject, Reject
  <2>3. CASE PutDerived(c)
    BY <1>5, <2>3, GoFields DEF PutDerived
  <2>4. CASE UndoUpload(c) \/ MarkRejected(c) \/ MarkReady(c) \/ InsertDerived(c) \/ Cascade(c)
    BY <1>5, <2>4, GoFields
  <2>5. QED
    BY <1>5, <2>1, <2>2, <2>3, <2>4 DEF Go
<1>6. ASSUME NEW c \in Call, BeginErase(c)
      PROVE  KeyInv'
  <2>1. call'[c].pc = "cascade" /\ \A b \in Call \ {c} : call'[b] = call[b]
    BY <1>6, CallTyped DEF BeginErase, Idle
  <2>2. QED
    BY <2>1
<1>7. CASE Crash
  BY <1>7 DEF Crash, Idle
<1>8. ASSUME ~UNCHANGED call
      PROVE  \/ Crash
             \/ \E c \in Call : \/ BeginErase(c) \/ Go(c)
                                \/ \E a \in Asset : BeginFinalize(c, a)
                                \/ \E a \in Asset, x \in Content : BeginUpload(c, a, x)
                                \/ \E d \in Derivation, x \in Derived : BeginPublish(c, d, x)
  BY <1>8 DEF Next, vars, Reserve, Expire, Clean, Claim, DeleteQueued, CompleteDeletion,
     FailDeletion, LeaseExpires, database
<1>9. QED
  BY <1>1, <1>2, <1>3, <1>4, <1>5, <1>6, <1>7, <1>8

LEMMA EraseStep ==
  ASSUME TypeOK, EraseInv, [Next]_vars
  PROVE  EraseInv'
<1>1. /\ present \in BOOLEAN /\ rows \in [Asset -> {"none", "reserved", "uploaded", "ready", "rejected"}]
      /\ call \in [Call -> CallState] /\ drain \in [Drainer -> DrainState]
      /\ queue \in [ObjectKey -> {"none", "pending", "leased", "done"}]
  BY CallTyped DEF TypeOK
<1>2. ASSUME NEW a \in Asset, Reserve(a)
      PROVE  EraseInv'
  BY <1>1, <1>2 DEF Reserve, InsertReserved, EraseInv
<1>3. ASSUME NEW a \in Asset, Expire(a)
      PROVE  EraseInv'
  BY <1>3 DEF Expire, EraseInv
<1>4. ASSUME NEW c \in Call, \A b \in Call \ {c} : call'[b] = call[b],
             call'[c].pc # "cascade", UNCHANGED <<present, queue, drain, rows, derived>>,
             excused \subseteq excused'
      PROVE  EraseInv'
  BY <1>4 DEF EraseInv
<1>5. ASSUME NEW c \in Call, NEW a \in Asset,
             (\E x \in Content : BeginUpload(c, a, x)) \/ BeginFinalize(c, a)
      PROVE  EraseInv'
  BY <1>4, <1>5, BeginFields DEF BeginUpload, BeginFinalize, ObjectKey, Bytes, database
<1>6. ASSUME NEW c \in Call, NEW d \in Derivation, NEW x \in Derived, BeginPublish(c, d, x)
      PROVE  EraseInv'
  BY <1>4, <1>6, BeginFields DEF BeginPublish, ObjectKey, database
<1>7. ASSUME NEW c \in Call, PutUpload(c) \/ UndoUpload(c) \/ GetObject(c) \/ Reject(c) \/ PutDerived(c)
      PROVE  EraseInv'
  <2>1. call'[c].pc # "cascade" /\ \A b \in Call \ {c} : call'[b] = call[b]
    BY <1>7, GoFields DEF Go
  <2>2. UNCHANGED <<present, queue, drain, rows, derived, excused>>
    BY <1>7 DEF PutUpload, UndoUpload, GetObject, Reject, PutDerived, database
  <2>3. QED
    BY <1>4, <2>1, <2>2
<1>8. ASSUME NEW c \in Call, MarkUploaded(c) \/ MarkRejected(c) \/ MarkReady(c)
      PROVE  EraseInv'
  <2>1. call'[c].pc # "cascade" /\ \A b \in Call \ {c} : call'[b] = call[b]
    BY <1>8, GoFields DEF Go
  <2>2. /\ UNCHANGED <<present, queue, drain, derived, excused>>
        /\ \A a \in Asset : rows'[a] = "none" <=> rows[a] = "none"
    BY <1>1, <1>8 DEF MarkUploaded, MarkRejected, MarkReady, MarkState
  <2>3. QED
    BY <2>1, <2>2 DEF EraseInv
<1>9. ASSUME NEW c \in Call, InsertDerived(c)
      PROVE  EraseInv'
  <2>1. call'[c].pc # "cascade" /\ \A b \in Call \ {c} : call'[b] = call[b]
    BY <1>9, GoFields DEF Go
  <2>2. /\ UNCHANGED <<present, queue, drain, rows>> /\ excused \subseteq excused'
        /\ ~present => UNCHANGED derived
    BY <1>9 DEF InsertDerived
  <2>3. QED
    BY <2>1, <2>2 DEF EraseInv
<1>10. ASSUME NEW c \in Call, BeginErase(c)
       PROVE  EraseInv'
  <2>1. /\ call'[c].pc = "cascade" /\ \A b \in Call \ {c} : call'[b] = call[b]
        /\ \A a \in Asset : rows[a] # "none" => a \in call'[c].batch
    BY <1>1, <1>10 DEF BeginErase, Idle
  <2>2. /\ UNCHANGED <<present, queue, drain, rows, derived, excused>> /\ present
        /\ \A b \in Call : call[b].pc # "cascade"
    BY <1>10 DEF BeginErase, database
  <2>3. QED
    BY <2>1, <2>2 DEF EraseInv
<1>11. ASSUME NEW c \in Call, Cascade(c)
       PROVE  EraseInv'
  <2>1. \A b \in Call : call'[b].pc # "cascade"
    <3>1. call'[c].pc = "idle" /\ \A b \in Call \ {c} : call'[b] = call[b]
      BY <1>11, GoFields DEF Go
    <3>2. \A b \in Call \ {c} : call[b].pc # "cascade"
      BY <1>11 DEF Cascade, EraseInv
    <3>3. QED
      BY <3>1, <3>2
  <2>2. ~present' /\ derived' = {} /\ \A a \in Asset : rows'[a] = "none"
    BY <1>11 DEF Cascade
  <2>3. QED
    BY <2>1, <2>2 DEF EraseInv
<1>12. ASSUME NEW d \in Drainer, Clean(d) \/ FailDeletion(d)
       PROVE  EraseInv'
  <2>1. ~present
    BY <1>12 DEF EraseInv, Clean, Claim, DeleteQueued, CompleteDeletion, FailDeletion
  <2>2. UNCHANGED <<present, rows, derived, call, excused>>
    BY <1>12 DEF Clean, Claim, DeleteQueued, CompleteDeletion, FailDeletion, database
  <2>3. QED
    BY <2>1, <2>2 DEF EraseInv
<1>13. ASSUME NEW k \in ObjectKey, LeaseExpires(k)
       PROVE  EraseInv'
  BY <1>13 DEF LeaseExpires, EraseInv
<1>14. CASE Crash
  BY <1>14 DEF Crash, Idle, Resting, database, EraseInv
<1>15. CASE UNCHANGED vars
  BY <1>15 DEF vars, database, EraseInv
<1>16. QED
  BY <1>2, <1>3, <1>5, <1>6, <1>7, <1>8, <1>9, <1>10, <1>11, <1>12, <1>13, <1>14, <1>15
     DEF Next, Go

-----------------------------------------------------------------------------
\* A step that changes neither rows nor bytes of user assets, and moves no
\* call into a state in which it owes anything, keeps the agreement.
LEMMA UploadQuiet ==
  ASSUME UploadInv, present' => present, excused \subseteq excused',
         \A a \in Asset \ excused' : rows'[a] = rows[a] /\ objects'[a] = objects[a],
         \A c \in Call : \/ call'[c] = call[c]
                         \/ call'[c].pc \in {"idle", "cascade"}
                         \/ call'[c].key \notin Asset
  PROVE  UploadInv'
  BY DEF UploadInv, Agrees, At, Uploading, Finalizing

LEMMA UploadStep ==
  ASSUME RegistryInv, [Next]_vars
  PROVE  UploadInv'
<1>1. /\ TypeOK /\ KeyInv /\ EraseInv /\ UploadInv /\ BytesInv
      /\ rows \in [Asset -> {"none", "reserved", "uploaded", "ready", "rejected"}]
      /\ objects \in [ObjectKey -> Bytes]
      /\ Asset \subseteq ObjectKey /\ Derived \subseteq ObjectKey /\ Asset \cap Derived = {}
  BY KeyAssumption DEF RegistryInv, TypeOK, ObjectKey
<1> USE DEF At, Uploading, Finalizing, Agrees
<1>2. ASSUME NEW a \in Asset, Reserve(a)
      PROVE  UploadInv'
  <2>1. /\ rows[a] = "none" /\ excused \subseteq excused' /\ UNCHANGED <<present, objects, call>>
        /\ rows' = [rows EXCEPT ![a] = "reserved"]
    BY <1>2 DEF Reserve, InsertReserved, Find
  <2>2. QED
    BY <1>1, <2>1 DEF UploadInv
<1>3. ASSUME NEW c \in Call, NEW a \in Asset, NEW x \in Content, BeginUpload(c, a, x)
      PROVE  UploadInv'
  <2>1. /\ rows[a] = "reserved" /\ excused \subseteq excused' /\ UNCHANGED <<present, rows, objects>>
        /\ a \notin excused' => \A b \in Call \ {c} : ~At(b, Uploading, a)
    BY <1>3 DEF BeginUpload, Find, database
  <2>2. /\ call'[c].pc = "put" /\ call'[c].key = a
        /\ \A b \in Call \ {c} : call'[b] = call[b]
    BY <1>1, <1>3, BeginFields DEF BeginUpload, Bytes
  <2>3. QED
    BY <1>1, <2>1, <2>2 DEF UploadInv
<1>4. ASSUME NEW c \in Call, NEW a \in Asset, BeginFinalize(c, a)
      PROVE  UploadInv'
  <2>1. rows[a] = "uploaded" /\ UNCHANGED <<present, rows, objects, excused>>
    BY <1>4 DEF BeginFinalize, Find, database
  <2>2. /\ call'[c].pc = "getObject" /\ call'[c].key = a
        /\ \A b \in Call \ {c} : call'[b] = call[b]
    BY <1>1, <1>4, BeginFields DEF BeginFinalize, Bytes
  <2>3. QED
    BY <1>1, <2>1, <2>2 DEF UploadInv
<1>5. ASSUME NEW c \in Call, PutUpload(c)
      PROVE  UploadInv'
  <2>1. /\ call[c].pc = "put" /\ UNCHANGED <<present, rows, excused>>
        /\ \A k \in Asset \ {call[c].key} : objects'[k] = objects[k]
    BY <1>1, <1>5 DEF PutUpload, Store, database
  <2>2. /\ call'[c].pc = "markUploaded" /\ call'[c].key = call[c].key
        /\ \A b \in Call \ {c} : call'[b] = call[b]
    BY <1>1, <1>5, GotoFields DEF PutUpload
  <2>3. QED
    BY <1>1, <2>1, <2>2 DEF UploadInv
<1>6. ASSUME NEW c \in Call, MarkUploaded(c)
      PROVE  UploadInv'
  <2>1. /\ call[c].pc = "markUploaded" /\ call[c].key \in Asset
        /\ UNCHANGED <<present, objects, excused>>
        /\ rows' = [rows EXCEPT ![call[c].key] = IF @ = "reserved" THEN "uploaded" ELSE @]
    BY <1>1, <1>6 DEF MarkUploaded, MarkState, KeyInv
  <2>2. /\ call'[c].pc = IF rows[call[c].key] = "reserved" THEN "idle" ELSE "undoUpload"
        /\ call'[c].pc = "undoUpload" => call'[c].key = call[c].key
        /\ \A b \in Call \ {c} : call'[b] = call[b]
    BY <1>1, <1>6, GoFields DEF Go
  <2> SUFFICES ASSUME present', NEW a \in Asset \ excused', NEW b \in Call
               PROVE  Agrees(b, a)'
    BY DEF UploadInv
  <2>3. Agrees(b, a) /\ Agrees(c, a)
    BY <1>1, <2>1 DEF UploadInv
  <2>4. CASE a # call[c].key
    BY <1>1, <2>1, <2>2, <2>3, <2>4
  <2>5. CASE a = call[c].key
    <3>1. rows[a] = "reserved" /\ rows'[a] = "uploaded" /\ call'[c].pc = "idle"
      BY <1>1, <2>1, <2>2, <2>3, <2>5
    <3>2. \A q \in Call \ {c} : ~At(q, Uploading, a) /\ ~At(q, Finalizing, a)
      BY <1>1, <2>1, <2>3, <2>5, <3>1 DEF UploadInv
    <3>3. QED
      BY <2>1, <2>2, <2>3, <2>5, <3>1, <3>2
  <2>6. QED
    BY <2>4, <2>5
<1>7. ASSUME NEW c \in Call, UndoUpload(c)
      PROVE  UploadInv'
  <2>1. /\ call[c].pc = "undoUpload" /\ call[c].key \in Asset
        /\ UNCHANGED <<present, rows, excused>>
        /\ \A k \in Asset \ {call[c].key} : objects'[k] = objects[k]
    BY <1>1, <1>7 DEF UndoUpload, Store, KeyInv, database
  <2>2. call'[c].pc = "idle" /\ \A b \in Call \ {c} : call'[b] = call[b]
    BY <1>1, <1>7, GoFields DEF Go
  <2>3. present' => call[c].key \in excused
    BY <1>1, <2>1 DEF UploadInv
  <2>4. CASE present'
    BY <1>1, <2>1, <2>2, <2>3, <2>4, UploadQuiet
  <2>5. CASE ~present'
    BY <2>5 DEF UploadInv
  <2>6. QED
    BY <2>4, <2>5
<1>8. ASSUME NEW c \in Call, GetObject(c)
      PROVE  UploadInv'
  <2>1. call[c].pc = "getObject" /\ UNCHANGED <<present, rows, objects, excused>>
    BY <1>8 DEF GetObject, database
  <2>2. /\ call'[c].pc = (IF objects[call[c].key] = "good" THEN "markReady" ELSE "reject")
        /\ call'[c].key = call[c].key
        /\ \A b \in Call \ {c} : call'[b] = call[b]
    BY <1>1, <1>8, GotoFields DEF GetObject
  <2>3. QED
    BY <1>1, <2>1, <2>2 DEF UploadInv
<1>9. ASSUME NEW c \in Call, Reject(c)
      PROVE  UploadInv'
  <2>1. /\ call[c].pc = "reject" /\ call[c].key \in Asset
        /\ UNCHANGED <<present, rows, excused>>
        /\ objects' = [objects EXCEPT ![call[c].key] = "none"]
    BY <1>1, <1>9 DEF Reject, Store, KeyInv, database
  <2>2. /\ call'[c].pc = "markRejected" /\ call'[c].key = call[c].key
        /\ \A b \in Call \ {c} : call'[b] = call[b]
    BY <1>1, <1>9, GotoFields DEF Reject
  <2>3. QED
    BY <1>1, <2>1, <2>2 DEF UploadInv
<1>10. ASSUME NEW c \in Call, MarkRejected(c) \/ MarkReady(c)
       PROVE  UploadInv'
  <2>1. /\ call[c].pc \in Finalizing /\ UNCHANGED <<present, objects, excused>>
        /\ \E to \in {"ready", "rejected"} :
             rows' = [rows EXCEPT ![call[c].key] = IF @ = "uploaded" THEN to ELSE @]
    BY <1>10 DEF MarkRejected, MarkReady, MarkState
  <2>2. call'[c].pc = "idle" /\ \A b \in Call \ {c} : call'[b] = call[b]
    BY <1>1, <1>10, GoFields DEF Go
  <2>3. QED
    BY <1>1, <2>1, <2>2 DEF UploadInv
<1>11. ASSUME NEW c \in Call, PutDerived(c)
       PROVE  UploadInv'
  <2>1. /\ call[c].key \in Derived /\ UNCHANGED <<present, rows, excused>>
        /\ objects' = [objects EXCEPT ![call[c].key] = "good"]
    BY <1>1, <1>11 DEF PutDerived, Store, KeyInv, Publishing, database
  <2>2. call'[c].key \notin Asset /\ \A b \in Call \ {c} : call'[b] = call[b]
    BY <1>1, <1>11, <2>1, GotoFields DEF PutDerived
  <2>3. QED
    BY <1>1, <2>1, <2>2, UploadQuiet
<1>12. ASSUME NEW c \in Call, InsertDerived(c) \/ Cascade(c)
       PROVE  UploadInv'
  <2>1. call'[c].pc = "idle" /\ \A b \in Call \ {c} : call'[b] = call[b]
    BY <1>1, <1>12, GoFields DEF Go
  <2>2. CASE InsertDerived(c)
    BY <1>1, <2>1, <2>2, UploadQuiet DEF InsertDerived
  <2>3. CASE Cascade(c)
    BY <2>3 DEF Cascade, UploadInv
  <2>4. QED
    BY <1>12, <2>2, <2>3
<1>13. ASSUME NEW c \in Call,
              \/ BeginErase(c)
              \/ \E d \in Derivation, x \in Derived : BeginPublish(c, d, x)
       PROVE  UploadInv'
  <2>1. call'[c].pc = "cascade" \/ call'[c].key \notin Asset
    <3>1. CASE BeginErase(c)
      BY <1>1, <3>1, CallTyped DEF BeginErase, Idle
    <3>2. ASSUME NEW d \in Derivation, NEW x \in Derived, BeginPublish(c, d, x)
          PROVE  call'[c].key \notin Asset
      BY <1>1, <3>2, BeginFields DEF BeginPublish
    <3>3. QED
      BY <1>13, <3>1, <3>2
  <2>2. \A b \in Call \ {c} : call'[b] = call[b]
    BY <1>1, <1>13, CallTyped DEF BeginErase, BeginPublish, Begin
  <2>3. UNCHANGED <<present, rows, objects, excused>>
    BY <1>13 DEF BeginErase, BeginPublish, database
  <2>4. QED
    BY <1>1, <2>1, <2>2, <2>3, UploadQuiet
<1>14. ASSUME NEW d \in Drainer, Clean(d) \/ FailDeletion(d)
       PROVE  UploadInv'
  <2>1. ~present'
    BY <1>1, <1>14 DEF EraseInv, Clean, Claim, DeleteQueued, CompleteDeletion, FailDeletion, database
  <2>2. QED
    BY <2>1 DEF UploadInv
<1>15. ASSUME \/ \E a \in Asset : Expire(a)
              \/ \E k \in ObjectKey : LeaseExpires(k)
              \/ UNCHANGED vars
       PROVE  UploadInv'
  BY <1>1, <1>15, UploadQuiet DEF Expire, LeaseExpires, vars, database
<1>16. CASE Crash
  BY <1>1, <1>16, UploadQuiet DEF Crash, Idle, database
<1>17. QED
  BY <1>2, <1>3, <1>4, <1>5, <1>6, <1>7, <1>8, <1>9, <1>10, <1>11, <1>12, <1>13, <1>14, <1>15,
     <1>16 DEF Next, Go

LEMMA PublishStep ==
  ASSUME RegistryInv, [Next]_vars
  PROVE  PublishInv'
<1>1. /\ TypeOK /\ KeyInv /\ EraseInv /\ PublishInv
      /\ objects \in [ObjectKey -> Bytes]
      /\ Asset \subseteq ObjectKey /\ Derived \subseteq ObjectKey /\ Asset \cap Derived = {}
      /\ \A c \in Call : call[c].pc = "insertDerived" => call[c].key \in Derived
  BY KeyAssumption DEF RegistryInv, TypeOK, ObjectKey, KeyInv, Publishing
<1>2. ASSUME present' => present,
             \A k \in Derived : objects'[k] = objects[k] \/ objects'[k] = "good",
             \A c \in Call : call'[c] = call[c] \/ call'[c].pc # "insertDerived"
      PROVE  PublishInv'
  BY <1>1, <1>2 DEF PublishInv
<1>3. ASSUME NEW a \in Asset, Reserve(a) \/ Expire(a)
      PROVE  PublishInv'
  BY <1>2, <1>3 DEF Reserve, Expire
<1>4. ASSUME NEW c \in Call,
             \/ BeginErase(c)
             \/ \E a \in Asset : BeginFinalize(c, a) \/ \E x \in Content : BeginUpload(c, a, x)
             \/ \E d \in Derivation, x \in Derived : BeginPublish(c, d, x)
      PROVE  PublishInv'
  <2>1. UNCHANGED <<present, objects>>
    BY <1>4 DEF BeginErase, BeginFinalize, BeginUpload, BeginPublish, database
  <2>2. /\ \A b \in Call \ {c} : call'[b] = call[b]
        /\ call'[c].pc \in {"cascade", "getObject", "put", "putDerived"}
    <3>1. CASE BeginErase(c)
      BY <1>1, <3>1, CallTyped DEF BeginErase, Idle
    <3>2. CASE \E a \in Asset : BeginFinalize(c, a) \/ \E x \in Content : BeginUpload(c, a, x)
      BY <1>1, <3>2, CallTyped DEF BeginFinalize, BeginUpload, Begin
    <3>3. CASE \E d \in Derivation, x \in Derived : BeginPublish(c, d, x)
      BY <1>1, <3>3, CallTyped DEF BeginPublish, Begin
    <3>4. QED
      BY <1>4, <3>1, <3>2, <3>3
  <2>3. QED
    BY <1>2, <2>1, <2>2
<1>5. ASSUME NEW c \in Call, Go(c), ~PutDerived(c)
      PROVE  PublishInv'
  <2>1. \A k \in Derived : objects'[k] = objects[k]
    <3>1. CASE PutUpload(c) \/ UndoUpload(c) \/ Reject(c)
      <4>1. call[c].key \in Asset
        BY <1>1, <3>1 DEF KeyInv, Uploading, Finalizing, PutUpload, UndoUpload, Reject
      <4>2. QED
        BY <1>1, <3>1, <4>1 DEF PutUpload, UndoUpload, Reject, Store
    <3>2. QED
      BY <1>5, <3>1 DEF Go, MarkUploaded, GetObject, MarkRejected, MarkReady, InsertDerived, Cascade
  <2>2. present' => present
    BY <1>5 DEF Go, PutUpload, UndoUpload, Reject, MarkUploaded, GetObject, MarkRejected, MarkReady,
       InsertDerived, Cascade, database
  <2>3. call'[c].pc # "insertDerived" /\ \A b \in Call \ {c} : call'[b] = call[b]
    BY <1>1, <1>5, GoFields DEF Go
  <2>4. QED
    BY <1>2, <2>1, <2>2, <2>3
<1>6. ASSUME NEW c \in Call, PutDerived(c)
      PROVE  PublishInv'
  <2>1. /\ call[c].key \in Derived /\ UNCHANGED present
        /\ objects' = [objects EXCEPT ![call[c].key] = "good"]
    BY <1>1, <1>6 DEF PutDerived, Store, KeyInv, Publishing, database
  <2>2. call'[c].key = call[c].key /\ \A b \in Call \ {c} : call'[b] = call[b]
    BY <1>1, <1>6, GotoFields DEF PutDerived
  <2>3. QED
    BY <1>1, <2>1, <2>2 DEF PublishInv
<1>7. ASSUME NEW d \in Drainer, Clean(d) \/ FailDeletion(d)
      PROVE  PublishInv'
  <2>1. ~present'
    BY <1>1, <1>7 DEF EraseInv, Clean, Claim, DeleteQueued, CompleteDeletion, FailDeletion, database
  <2>2. QED
    BY <2>1 DEF PublishInv
<1>8. ASSUME \/ \E k \in ObjectKey : LeaseExpires(k)
             \/ Crash
             \/ UNCHANGED vars
      PROVE  PublishInv'
  BY <1>2, <1>8 DEF LeaseExpires, Crash, Idle, vars, database
<1>9. QED
  BY <1>3, <1>4, <1>5, <1>6, <1>7, <1>8 DEF Next

-----------------------------------------------------------------------------
LEMMA BytesStep ==
  ASSUME RegistryInv, [Next]_vars
  PROVE  BytesInv'
<1>1. /\ TypeOK /\ KeyInv /\ EraseInv /\ UploadInv /\ BytesInv
      /\ rows \in [Asset -> {"none", "reserved", "uploaded", "ready", "rejected"}]
      /\ objects \in [ObjectKey -> Bytes]
      /\ Asset \subseteq ObjectKey /\ Derived \subseteq ObjectKey /\ Asset \cap Derived = {}
      /\ derived \subseteq [key : Derivation, object : Derived]
  BY KeyAssumption DEF RegistryInv, TypeOK, ObjectKey
<1>2. ASSUME UNCHANGED <<objects, derived>>, excused \subseteq excused',
             \A a \in Asset \ excused : rows'[a] \in {"ready", "rejected"} => rows'[a] = rows[a]
      PROVE  BytesInv'
  BY <1>1, <1>2 DEF BytesInv
<1>3. \A row \in derived : row.object \in Derived
  BY <1>1
<1>4. ASSUME NEW a \in Asset, Reserve(a)
      PROVE  BytesInv'
  <2>1. UNCHANGED <<objects, derived>> /\ excused \subseteq excused' /\ rows' = [rows EXCEPT ![a] = "reserved"]
    BY <1>4 DEF Reserve, InsertReserved
  <2>2. QED
    BY <1>1, <1>2, <2>1
<1>5. ASSUME NEW c \in Call, PutUpload(c) \/ UndoUpload(c) \/ Reject(c)
      PROVE  BytesInv'
  <2>1. call[c].key \in Asset /\ call[c].pc \in {"put", "undoUpload", "reject"}
    BY <1>1, <1>5 DEF KeyInv, Uploading, Finalizing, PutUpload, UndoUpload, Reject
  <2>2. /\ UNCHANGED <<present, rows, derived, excused>>
        /\ \A k \in ObjectKey \ {call[c].key} : objects'[k] = objects[k]
    BY <1>1, <1>5 DEF PutUpload, UndoUpload, Reject, Store, database
  <2>3. ASSUME call[c].key \notin excused PROVE rows[call[c].key] # "ready"
    <3>1. CASE ~present
      BY <1>1, <2>1, <3>1 DEF EraseInv
    <3>2. CASE present
      <4>1. Agrees(c, call[c].key)
        BY <1>1, <2>1, <2>3, <3>2 DEF UploadInv
      <4>2. QED
        BY <1>1, <2>1, <2>3, <4>1 DEF Agrees, At, Uploading, BytesInv
    <3>3. QED
      BY <3>1, <3>2
  <2>4. ASSUME call[c].key \notin excused
        PROVE  rows[call[c].key] = "rejected" => objects'[call[c].key] = "none"
    <3>1. CASE UndoUpload(c) \/ Reject(c)
      BY <1>1, <2>1, <3>1 DEF UndoUpload, Reject, Store
    <3>2. CASE PutUpload(c)
      <4>1. CASE ~present
        BY <1>1, <2>1, <4>1 DEF EraseInv
      <4>2. CASE present
        BY <1>1, <2>1, <2>4, <3>2, <4>2 DEF UploadInv, Agrees, At, Uploading, PutUpload
      <4>3. QED
        BY <4>1, <4>2
    <3>3. QED
      BY <1>5, <3>1, <3>2
  <2>5. QED
    BY <1>1, <1>3, <2>1, <2>2, <2>3, <2>4 DEF BytesInv
<1>6. ASSUME NEW c \in Call, MarkUploaded(c)
      PROVE  BytesInv'
  <2>1. /\ UNCHANGED <<objects, derived, excused>>
        /\ rows' = [rows EXCEPT ![call[c].key] = IF @ = "reserved" THEN "uploaded" ELSE @]
    BY <1>6 DEF MarkUploaded, MarkState
  <2>2. QED
    BY <1>1, <1>2, <2>1
<1>7. ASSUME NEW c \in Call, MarkReady(c) \/ MarkRejected(c)
      PROVE  BytesInv'
  <2>1. /\ UNCHANGED <<present, objects, derived, excused>>
        /\ \A a \in Asset : rows'[a] = IF a = call[c].key /\ rows[a] = "uploaded"
                                      THEN IF call[c].pc = "markReady" THEN "ready" ELSE "rejected"
                                      ELSE rows[a]
        /\ call[c].pc \in {"markReady", "markRejected"}
    BY <1>1, <1>7 DEF MarkReady, MarkRejected, MarkState
  <2>2. \A a \in Asset : rows[a] = "uploaded" => present
    BY <1>1 DEF EraseInv
  <2>3. \A a \in Asset \ excused : rows[a] = "uploaded" /\ a = call[c].key =>
          objects[a] = IF call[c].pc = "markReady" THEN "good" ELSE "none"
    BY <1>1, <2>1, <2>2 DEF UploadInv, Agrees, At
  <2>4. QED
    BY <1>1, <2>1, <2>3 DEF BytesInv
<1>8. ASSUME NEW c \in Call, PutDerived(c)
      PROVE  BytesInv'
  <2>1. /\ call[c].key \in Derived /\ UNCHANGED <<rows, derived, excused>>
        /\ objects' = [objects EXCEPT ![call[c].key] = "good"]
    BY <1>1, <1>8 DEF PutDerived, Store, KeyInv, Publishing, database
  <2>2. QED
    BY <1>1, <1>3, <2>1 DEF BytesInv
<1>9. ASSUME NEW c \in Call, InsertDerived(c)
      PROVE  BytesInv'
  <2>1. UNCHANGED <<rows, objects>> /\ excused \subseteq excused'
    BY <1>9 DEF InsertDerived
  <2>2. CASE UNCHANGED derived
    BY <1>1, <1>2, <2>1, <2>2
  <2>3. CASE present /\ derived' = derived \cup {[key |-> call[c].content, object |-> call[c].key]}
    <3>1. objects[call[c].key] = "good"
      BY <1>1, <1>9, <2>3 DEF RegistryInv, PublishInv, InsertDerived
    <3>2. QED
      BY <1>1, <2>1, <2>3, <3>1 DEF BytesInv
  <2>4. QED
    BY <1>9, <2>2, <2>3 DEF InsertDerived
<1>10. ASSUME NEW c \in Call, Cascade(c)
       PROVE  BytesInv'
  BY <1>10 DEF Cascade, BytesInv
<1>11. ASSUME NEW d \in Drainer, Clean(d) \/ FailDeletion(d)
       PROVE  BytesInv'
  <2>1. ~present
    BY <1>1, <1>11 DEF EraseInv, Clean, Claim, DeleteQueued, CompleteDeletion, FailDeletion
  <2>2. UNCHANGED <<rows, derived>>
    BY <1>11 DEF Clean, Claim, DeleteQueued, CompleteDeletion, FailDeletion, database
  <2>3. QED
    BY <1>1, <2>1, <2>2 DEF EraseInv, BytesInv
<1>12. ASSUME NEW c \in Call,
              \/ GetObject(c) \/ BeginErase(c)
              \/ \E a \in Asset : BeginFinalize(c, a) \/ \E x \in Content : BeginUpload(c, a, x)
              \/ \E d \in Derivation, x \in Derived : BeginPublish(c, d, x)
       PROVE  BytesInv'
  <2>1. UNCHANGED <<rows, objects, derived>> /\ excused \subseteq excused'
    BY <1>12 DEF GetObject, BeginErase, BeginFinalize, BeginUpload, BeginPublish, database
  <2>2. QED
    BY <1>2, <2>1
<1>13. ASSUME \/ \E a \in Asset : Expire(a)
              \/ \E k \in ObjectKey : LeaseExpires(k)
              \/ Crash
              \/ UNCHANGED vars
       PROVE  BytesInv'
  BY <1>2, <1>13 DEF Expire, LeaseExpires, Crash, vars, database
<1>14. QED
  BY <1>4, <1>5, <1>6, <1>7, <1>8, <1>9, <1>10, <1>11, <1>12, <1>13 DEF Next, Go

-----------------------------------------------------------------------------
\* Bytes are still answered for when the keys and the rows of the database
\* change only where somebody else answers for them afterwards.
LEMMA StrayQuiet ==
  ASSUME StrayInv, UNCHANGED objects, excused \subseteq excused',
         \A k \in ObjectKey \ excused' : Owned(k) => Owned(k)',
         \A k \in ObjectKey \ excused' : Written(k) => Owned(k)' \/ Written(k)'
  PROVE  StrayInv'
  BY DEF StrayInv

\* A call that is not about to record what it wrote leaves the others to it.
LEMMA WrittenStays ==
  ASSUME NEW c \in Call, \A b \in Call \ {c} : call'[b] = call[b],
         call[c].pc \notin {"markUploaded", "undoUpload", "insertDerived"},
         NEW k, Written(k)
  PROVE  Written(k)'
  BY DEF Written, At

LEMMA StrayStep ==
  ASSUME RegistryInv, [Next]_vars
  PROVE  StrayInv'
<1>1. /\ TypeOK /\ KeyInv /\ EraseInv /\ UploadInv /\ BytesInv /\ StrayInv /\ DrainInv
      /\ rows \in [Asset -> {"none", "reserved", "uploaded", "ready", "rejected"}]
      /\ objects \in [ObjectKey -> Bytes]
      /\ queue \in [ObjectKey -> {"none", "pending", "leased", "done"}]
      /\ Asset \subseteq ObjectKey /\ Derived \subseteq ObjectKey /\ Asset \cap Derived = {}
      /\ derived \subseteq [key : Derivation, object : Derived]
  BY KeyAssumption DEF RegistryInv, TypeOK, ObjectKey
<1>2. ASSUME NEW a \in Asset, Reserve(a)
      PROVE  StrayInv'
  <2>1. /\ UNCHANGED <<objects, derived, queue, call>> /\ excused \subseteq excused'
        /\ rows' = [rows EXCEPT ![a] = "reserved"]
    BY <1>2 DEF Reserve, InsertReserved
  <2>2. QED
    BY <1>1, <2>1, StrayQuiet DEF Owned, Written, At
<1>3. ASSUME UNCHANGED <<objects, derived, queue, rows, call>>, excused \subseteq excused'
      PROVE  StrayInv'
  BY <1>1, <1>3, StrayQuiet DEF Owned, Written, At
<1>4. ASSUME NEW c \in Call,
             \/ GetObject(c) \/ BeginErase(c)
             \/ \E a \in Asset : BeginFinalize(c, a) \/ \E x \in Content : BeginUpload(c, a, x)
             \/ \E d \in Derivation, x \in Derived : BeginPublish(c, d, x)
      PROVE  StrayInv'
  <2>1. UNCHANGED <<objects, derived, queue, rows>> /\ excused \subseteq excused'
    BY <1>4 DEF GetObject, BeginErase, BeginFinalize, BeginUpload, BeginPublish, database
  <2>2. call[c].pc \in {"idle", "getObject"} /\ \A b \in Call \ {c} : call'[b] = call[b]
    BY <1>1, <1>4, CallTyped DEF GetObject, Goto, BeginErase, BeginFinalize, BeginUpload, BeginPublish, Begin
  <2>3. \A k : Written(k) => Written(k)'
    BY <2>2, WrittenStays
  <2>4. \A k : Owned(k) => Owned(k)'
    BY <2>1 DEF Owned
  <2>5. QED
    BY <1>1, <2>1, <2>3, <2>4, StrayQuiet
<1>5. ASSUME NEW c \in Call, PutUpload(c) \/ PutDerived(c)
      PROVE  StrayInv'
  <2>1. /\ UNCHANGED <<derived, queue, rows, excused>>
        /\ \A k \in ObjectKey \ {call[c].key} : objects'[k] = objects[k]
        /\ call[c].pc \in {"put", "putDerived"}
    BY <1>1, <1>5 DEF PutUpload, PutDerived, Store, database
  <2>2. /\ call'[c].pc \in {"markUploaded", "insertDerived"} /\ call'[c].key = call[c].key
        /\ \A b \in Call \ {c} : call'[b] = call[b]
    BY <1>1, <1>5, GotoFields DEF PutUpload, PutDerived
  <2>3. \A k : Written(k) => Written(k)'
    BY <2>1, <2>2, WrittenStays
  <2>4. PICK key : key = call[c].key
    OBVIOUS
  <2>5. Written(key)'
    BY <2>2, <2>4 DEF Written, At
  <2>6. \A k : Owned(k) => Owned(k)'
    BY <2>1 DEF Owned
  <2>7. QED
    BY <1>1, <2>1, <2>3, <2>4, <2>5, <2>6 DEF StrayInv
<1>6. ASSUME NEW c \in Call, UndoUpload(c) \/ Reject(c)
      PROVE  StrayInv'
  <2>1. /\ UNCHANGED <<derived, queue, rows, excused>>
        /\ \A k \in ObjectKey \ {call[c].key} : objects'[k] = objects[k]
        /\ call[c].key \in ObjectKey => objects'[call[c].key] = "none"
    BY <1>1, <1>6 DEF UndoUpload, Reject, Store, database
  <2>2. \A b \in Call \ {c} : call'[b] = call[b]
    BY <1>1, <1>6, GoFields DEF Go
  <2>3. \A k : k # call[c].key /\ Written(k) => Written(k)'
    BY <2>2 DEF Written, At
  <2>4. \A k : Owned(k) => Owned(k)'
    BY <2>1 DEF Owned
  <2>5. QED
    BY <1>1, <2>1, <2>3, <2>4 DEF StrayInv
<1>7. ASSUME NEW c \in Call, MarkUploaded(c)
      PROVE  StrayInv'
  <2>1. /\ UNCHANGED <<objects, derived, queue, excused>> /\ call[c].key \in Asset
        /\ rows' = [rows EXCEPT ![call[c].key] = IF @ = "reserved" THEN "uploaded" ELSE @]
    BY <1>1, <1>7 DEF MarkUploaded, MarkState, KeyInv, Uploading
  <2>2. /\ \A b \in Call \ {c} : call'[b] = call[b]
        /\ rows[call[c].key] # "reserved" => call'[c].pc = "undoUpload" /\ call'[c].key = call[c].key
    BY <1>1, <1>7, GoFields DEF Go
  <2>3. \A k \in ObjectKey : Owned(k) => Owned(k)'
    BY <1>1, <2>1 DEF Owned
  <2>4. \A k \in ObjectKey : Written(k) => Owned(k)' \/ Written(k)'
    <3>1. PICK key \in Asset : key = call[c].key
      BY <2>1
    <3>2. \A k : k # key /\ Written(k) => Written(k)'
      BY <2>2, <3>1 DEF Written, At
    <3>3. Owned(key)' \/ Written(key)'
      <4>1. CASE rows[key] = "reserved"
        BY <1>1, <2>1, <3>1, <4>1 DEF Owned
      <4>2. CASE rows[key] # "reserved"
        BY <2>2, <3>1, <4>2 DEF Written, At
      <4>3. QED
        BY <4>1, <4>2
    <3>4. QED
      BY <3>2, <3>3
  <2>5. QED
    BY <1>1, <2>1, <2>3, <2>4, StrayQuiet
<1>8. ASSUME NEW c \in Call, MarkReady(c) \/ MarkRejected(c)
      PROVE  StrayInv'
  <2>1. /\ UNCHANGED <<present, objects, derived, queue, excused>> /\ call[c].key \in Asset
        /\ call[c].pc \in {"markReady", "markRejected"}
        /\ \A a \in Asset : rows'[a] = IF a = call[c].key /\ rows[a] = "uploaded"
                                      THEN IF call[c].pc = "markReady" THEN "ready" ELSE "rejected"
                                      ELSE rows[a]
    BY <1>1, <1>8 DEF MarkReady, MarkRejected, MarkState, KeyInv, Finalizing
  <2>2. \A b \in Call \ {c} : call'[b] = call[b]
    BY <1>1, <1>8, GoFields DEF Go
  <2>3. \A k : Written(k) => Written(k)'
    BY <2>1, <2>2, WrittenStays
  <2>4. ASSUME NEW k \in ObjectKey \ excused, Owned(k), objects[k] # "none"
        PROVE  Owned(k)'
    <3>1. CASE k = call[c].key /\ rows[k] = "uploaded"
      <4>1. present
        BY <1>1, <2>1, <3>1 DEF EraseInv
      <4>2. call[c].pc = "markReady"
        BY <1>1, <2>1, <2>4, <3>1, <4>1 DEF UploadInv, Agrees, At
      <4>3. QED
        BY <2>1, <3>1, <4>2 DEF Owned
    <3>2. CASE ~(k = call[c].key /\ rows[k] = "uploaded")
      BY <2>1, <2>4, <3>2 DEF Owned
    <3>3. QED
      BY <3>1, <3>2
  <2>5. QED
    BY <1>1, <2>1, <2>3, <2>4 DEF StrayInv
<1>9. ASSUME NEW c \in Call, InsertDerived(c)
      PROVE  StrayInv'
  <2>1. PICK key : key = call[c].key
    OBVIOUS
  <2>2. /\ UNCHANGED <<objects, rows, queue>> /\ excused \subseteq excused' /\ derived \subseteq derived'
        /\ \/ key \in excused'
           \/ [key |-> call[c].content, object |-> key] \in derived'
    BY <1>9, <2>1 DEF InsertDerived
  <2>3. \A b \in Call \ {c} : call'[b] = call[b]
    BY <1>1, <1>9, GoFields DEF Go
  <2>4. \A k : Owned(k) => Owned(k)'
    BY <2>2 DEF Owned
  <2>5. key \in excused' \/ Owned(key)'
    BY <2>2 DEF Owned
  <2>6. \A k : k # key /\ Written(k) => Written(k)'
    BY <2>1, <2>3 DEF Written, At
  <2>7. QED
    BY <1>1, <2>2, <2>4, <2>5, <2>6, StrayQuiet
<1>10. ASSUME NEW c \in Call, Cascade(c)
       PROVE  StrayInv'
  <2>1. /\ UNCHANGED objects /\ call[c].pc = "cascade"
        /\ excused' = excused \cup ({row.object : row \in derived} \ call[c].batch)
        /\ \A k \in ObjectKey : queue'[k] = IF k \in call[c].batch THEN "pending" ELSE queue[k]
    BY <1>1, <1>10 DEF Cascade
  <2>2. \A b \in Call \ {c} : call'[b] = call[b]
    BY <1>1, <1>10, GoFields DEF Go
  <2>3. ASSUME NEW k \in ObjectKey \ excused', Owned(k)
        PROVE  Owned(k)'
    <3>1. present /\ queue[k] = "none"
      BY <1>1, <2>1 DEF EraseInv
    <3>2. CASE k \in Asset /\ rows[k] # "none"
      BY <1>1, <2>1, <3>2 DEF EraseInv, Owned
    <3>3. CASE \E row \in derived : row.object = k
      BY <2>1, <3>3 DEF Owned
    <3>4. QED
      BY <2>3, <3>1, <3>2, <3>3 DEF Owned
  <2>4. \A k : Written(k) => Written(k)'
    BY <2>1, <2>2, WrittenStays
  <2>5. QED
    BY <1>1, <2>1, <2>3, <2>4, StrayQuiet
<1>11. ASSUME NEW d \in Drainer, Clean(d) \/ FailDeletion(d)
       PROVE  StrayInv'
  <2>0. UNCHANGED <<rows, derived, call, excused>>
    BY <1>11 DEF Clean, Claim, DeleteQueued, CompleteDeletion, FailDeletion, database
  <2>1. CASE Claim(d)
    <3>1. UNCHANGED objects /\ \A k \in ObjectKey : queue[k] \in {"pending", "leased"} =>
            queue'[k] \in {"pending", "leased"}
      BY <1>1, <2>1 DEF Claim
    <3>2. QED
      BY <1>1, <2>0, <3>1, StrayQuiet DEF Owned, Written, At
  <2>2. CASE DeleteQueued(d)
    <3>1. UNCHANGED queue /\ \A k \in ObjectKey : objects'[k] # "none" => objects[k] # "none"
      BY <1>1, <2>2 DEF DeleteQueued, Store, database
    <3>2. QED
      BY <1>1, <2>0, <3>1 DEF StrayInv, Owned, Written, At
  <2>3. CASE CompleteDeletion(d)
    <3>1. /\ UNCHANGED objects /\ drain[d].pc = "complete"
          /\ \A k \in ObjectKey \ {drain[d].key} : queue'[k] = queue[k]
      BY <1>1, <2>3 DEF CompleteDeletion
    <3>2. drain[d].key \in excused \/ objects[drain[d].key] = "none" \/ Written(drain[d].key)
      BY <1>1, <3>1 DEF DrainInv
    <3>3. \A k \in ObjectKey \ {drain[d].key} : Owned(k) => Owned(k)'
      BY <2>0, <3>1 DEF Owned
    <3>4. \A k : Written(k) => Written(k)'
      BY <2>0 DEF Written, At
    <3>5. QED
      BY <1>1, <2>0, <3>1, <3>2, <3>3, <3>4 DEF StrayInv
  <2>4. CASE FailDeletion(d)
    <3>1. UNCHANGED objects /\ \A k \in ObjectKey : queue[k] \in {"pending", "leased"} =>
            queue'[k] \in {"pending", "leased"}
      BY <1>1, <2>4 DEF FailDeletion
    <3>2. QED
      BY <1>1, <2>0, <3>1, StrayQuiet DEF Owned, Written, At
  <2>5. QED
    BY <1>11, <2>1, <2>2, <2>3, <2>4 DEF Clean
<1>12. ASSUME NEW k \in ObjectKey, LeaseExpires(k)
       PROVE  StrayInv'
  <2>1. /\ UNCHANGED <<objects, rows, derived, call, excused>>
        /\ \A j \in ObjectKey : queue[j] \in {"pending", "leased"} => queue'[j] \in {"pending", "leased"}
    BY <1>1, <1>12 DEF LeaseExpires
  <2>2. QED
    BY <1>1, <2>1, StrayQuiet DEF Owned, Written, At
<1>13. CASE Crash
  <2>1. /\ UNCHANGED <<objects, rows, derived, queue>> /\ excused \subseteq excused'
        /\ \A c \in Call : call[c].pc \in {"markUploaded", "undoUpload", "insertDerived"} =>
             call[c].key \in excused'
    BY <1>13 DEF Crash, database
  <2>2. \A k \in ObjectKey \ excused' : ~Written(k)
    BY <2>1 DEF Written, At
  <2>3. QED
    BY <1>1, <2>1, <2>2, StrayQuiet DEF Owned
<1>14. CASE UNCHANGED vars \/ \E a \in Asset : Expire(a)
  BY <1>3, <1>14 DEF vars, database, Expire
<1>15. QED
  BY <1>2, <1>4, <1>5, <1>6, <1>7, <1>8, <1>9, <1>10, <1>11, <1>12, <1>13, <1>14 DEF Next, Go

-----------------------------------------------------------------------------
LEMMA DrainStep ==
  ASSUME RegistryInv, [Next]_vars
  PROVE  DrainInv'
<1>1. /\ TypeOK /\ KeyInv /\ EraseInv /\ DrainInv
      /\ objects \in [ObjectKey -> Bytes] /\ drain \in [Drainer -> DrainState]
      /\ Asset \subseteq ObjectKey /\ Derived \subseteq ObjectKey
  BY CallTyped DEF RegistryInv, TypeOK, ObjectKey
\* A drain that goes on waiting for its record.
<1>2. ASSUME excused \subseteq excused', UNCHANGED drain,
             \A k \in ObjectKey : objects'[k] = objects[k] \/ objects'[k] = "none" \/ Written(k)',
             \A k \in ObjectKey \ excused' : objects'[k] # "none" /\ Written(k) => Written(k)'
      PROVE  DrainInv'
  BY <1>1, <1>2 DEF DrainInv
<1>3. ASSUME present'
      PROVE  DrainInv'
  <2>1. present
    BY <1>3 DEF Next, Go, Reserve, InsertReserved, Expire, BeginFinalize, BeginUpload, BeginPublish,
       BeginErase, PutUpload, MarkUploaded, UndoUpload, GetObject, Reject, MarkRejected, MarkReady,
       PutDerived, InsertDerived, Cascade, Clean, Claim, DeleteQueued, CompleteDeletion,
       FailDeletion, LeaseExpires, Crash, vars, database
  <2>2. \A d \in Drainer : drain[d].pc = "idle" /\ ~Clean(d) /\ ~FailDeletion(d)
    BY <1>1, <2>1 DEF EraseInv, Clean, Claim, DeleteQueued, CompleteDeletion, FailDeletion
  <2>3. UNCHANGED drain \/ \A d \in Drainer : drain'[d].pc = "idle"
    <3>1. CASE Crash
      BY <3>1 DEF Crash, Resting
    <3>2. ASSUME NEW c \in Call, Go(c) PROVE UNCHANGED drain
      BY <3>2 DEF Go, PutUpload, MarkUploaded, UndoUpload, GetObject, Reject, MarkRejected,
         MarkReady, PutDerived, InsertDerived, Cascade
    <3>3. CASE ~Crash /\ \A c \in Call : ~Go(c)
      BY <2>2, <3>3 DEF Next, Reserve, Expire, BeginFinalize, BeginUpload, BeginPublish, BeginErase,
         LeaseExpires, vars
    <3>4. QED
      BY <3>1, <3>2, <3>3
  <2>4. QED
    BY <2>2, <2>3 DEF DrainInv
<1>4. ASSUME NEW c \in Call, Go(c) PROVE DrainInv'
  <2>1. excused \subseteq excused' /\ UNCHANGED drain
    BY <1>4 DEF Go, PutUpload, MarkUploaded, UndoUpload, GetObject, Reject, MarkRejected, MarkReady,
       PutDerived, InsertDerived, Cascade
  <2>2. \A b \in Call \ {c} : call'[b] = call[b]
    BY <1>1, <1>4, GoFields
  <2>3. PICK key : key = call[c].key
    OBVIOUS
  <2>4. \A k : k # key /\ Written(k) => Written(k)'
    BY <2>2, <2>3 DEF Written, At
  <2>5. CASE PutUpload(c) \/ PutDerived(c)
    <3>1. call'[c].pc \in {"markUploaded", "insertDerived"} /\ call'[c].key = key
      BY <1>1, <2>3, <2>5, GotoFields DEF PutUpload, PutDerived
    <3>2. Written(key)'
      BY <3>1 DEF Written, At
    <3>3. \A k \in ObjectKey : k # key => objects'[k] = objects[k]
      BY <1>1, <2>3, <2>5 DEF PutUpload, PutDerived, Store
    <3>4. QED
      BY <1>2, <2>1, <2>4, <3>2, <3>3
  <2>6. CASE UndoUpload(c) \/ Reject(c)
    <3>1. \A k \in ObjectKey : objects'[k] = IF k = key THEN "none" ELSE objects[k]
      BY <1>1, <2>3, <2>6 DEF UndoUpload, Reject, Store
    <3>2. QED
      BY <1>2, <2>1, <2>4, <3>1
  <2>7. CASE GetObject(c) \/ MarkRejected(c) \/ MarkReady(c) \/ Cascade(c)
    <3>1. call[c].pc \notin {"markUploaded", "undoUpload", "insertDerived"} /\ UNCHANGED objects
      BY <2>7 DEF GetObject, MarkRejected, MarkReady, Cascade
    <3>2. \A k : Written(k) => Written(k)'
      BY <2>2, <3>1, WrittenStays
    <3>3. QED
      BY <1>2, <2>1, <3>1, <3>2
  <2>8. CASE MarkUploaded(c)
    <3>1. CASE present'
      BY <1>3, <3>1
    <3>2. CASE ~present'
      <4>1. call[c].key \in Asset /\ ~present /\ UNCHANGED objects
        BY <1>1, <2>8, <3>2 DEF MarkUploaded, KeyInv, Uploading
      <4>2. rows[call[c].key] # "reserved"
        BY <1>1, <4>1 DEF EraseInv
      <4>3. call'[c].pc = "undoUpload" /\ call'[c].key = key
        BY <1>1, <2>3, <2>8, <4>2, GoFields DEF Go
      <4>4. Written(key)'
        BY <4>3 DEF Written, At
      <4>5. QED
        BY <1>2, <2>1, <2>4, <4>1, <4>4
    <3>3. QED
      BY <3>1, <3>2
  <2>9. CASE InsertDerived(c)
    <3>1. CASE present'
      BY <1>3, <3>1
    <3>2. CASE ~present'
      <4>1. key \in excused' /\ UNCHANGED objects
        BY <2>3, <2>9, <3>2 DEF InsertDerived
      <4>2. QED
        BY <1>2, <2>1, <2>4, <4>1
    <3>3. QED
      BY <3>1, <3>2
  <2>10. QED
    BY <1>4, <2>5, <2>6, <2>7, <2>8, <2>9 DEF Go
<1>5. ASSUME NEW c \in Call,
             \/ BeginErase(c)
             \/ \E a \in Asset : BeginFinalize(c, a) \/ \E x \in Content : BeginUpload(c, a, x)
             \/ \E d \in Derivation, x \in Derived : BeginPublish(c, d, x)
      PROVE  DrainInv'
  <2>1. UNCHANGED <<objects, drain>> /\ excused \subseteq excused'
    BY <1>5 DEF BeginErase, BeginFinalize, BeginUpload, BeginPublish
  <2>2. call[c].pc = "idle" /\ \A b \in Call \ {c} : call'[b] = call[b]
    BY <1>1, <1>5, CallTyped DEF BeginErase, BeginFinalize, BeginUpload, BeginPublish, Begin
  <2>3. \A k : Written(k) => Written(k)'
    BY <2>2, WrittenStays
  <2>4. QED
    BY <1>2, <2>1, <2>3
<1>6. ASSUME NEW d \in Drainer, Clean(d) \/ FailDeletion(d)
      PROVE  DrainInv'
  <2>1. UNCHANGED <<call, excused>>
    BY <1>6 DEF Clean, Claim, DeleteQueued, CompleteDeletion, FailDeletion, database
  <2>2. \A e \in Drainer \ {d} : drain'[e] = drain[e]
    BY <1>1, <1>6 DEF Clean, Claim, DeleteQueued, CompleteDeletion, FailDeletion, Onwards
  <2>3. \A k : Written(k)' <=> Written(k)
    BY <2>1 DEF Written, At
  <2>4. \A k \in ObjectKey : objects'[k] = objects[k] \/ objects'[k] = "none"
    BY <1>1, <1>6 DEF Clean, Claim, DeleteQueued, CompleteDeletion, FailDeletion, Store
  <2>5. drain'[d].pc = "complete" => drain'[d].key \in ObjectKey /\ objects'[drain'[d].key] = "none"
    <3>1. CASE DeleteQueued(d)
      <4>1. PICK k \in drain[d].batch :
              /\ objects' = [objects EXCEPT ![k] = "none"]
              /\ drain' = [drain EXCEPT ![d].pc = "complete", ![d].key = k]
        BY <3>1 DEF DeleteQueued, Store
      <4>2. drain'[d].key = k /\ k \in ObjectKey
        BY <1>1, <4>1 DEF DrainState
      <4>3. QED
        BY <1>1, <4>1, <4>2
    <3>2. CASE Claim(d)
      BY <1>1, <3>2 DEF Claim, DrainState
    <3>3. ASSUME NEW k, Onwards(d, k) PROVE drain'[d].pc # "complete"
      BY <1>1, <3>3 DEF Onwards, Resting
    <3>4. QED
      BY <1>6, <3>1, <3>2, <3>3 DEF Clean, CompleteDeletion, FailDeletion
  <2>6. QED
    BY <1>1, <2>1, <2>2, <2>3, <2>4, <2>5 DEF DrainInv
<1>7. CASE Crash
  BY <1>7 DEF Crash, Resting, DrainInv
<1>8. ASSUME \/ \E a \in Asset : Reserve(a) \/ Expire(a)
             \/ \E k \in ObjectKey : LeaseExpires(k)
             \/ UNCHANGED vars
      PROVE  DrainInv'
  <2>1. UNCHANGED <<objects, drain, call>> /\ excused \subseteq excused'
    BY <1>8 DEF Reserve, Expire, LeaseExpires, vars
  <2>2. \A k : Written(k) => Written(k)'
    BY <2>1 DEF Written, At
  <2>3. QED
    BY <1>2, <2>1, <2>2
<1>9. QED
  BY <1>4, <1>5, <1>6, <1>7, <1>8 DEF Next

LEMMA RegistryInit == Init => RegistryInv
<1> SUFFICES ASSUME Init PROVE RegistryInv
  OBVIOUS
<1>1. Idle \in CallState /\ Resting \in DrainState
  BY DEF Idle, Resting, CallState, DrainState, Bytes
<1>2. TypeOK
  BY <1>1, MaxFaultsAssumption DEF Init, TypeOK, CallState, DrainState, Bytes
<1>3. \A c \in Call : call[c].pc = "idle"
  BY DEF Init, Idle
<1>4. \A d \in Drainer : drain[d].pc = "idle"
  BY DEF Init, Resting
<1>5. KeyInv /\ UploadInv /\ PublishInv
  BY <1>3 DEF KeyInv, UploadInv, PublishInv, Agrees, At, Uploading, Finalizing, Publishing
<1>6. EraseInv /\ DrainInv
  BY <1>3, <1>4 DEF Init, EraseInv, DrainInv
<1>7. BytesInv /\ StrayInv
  BY DEF Init, BytesInv, StrayInv
<1>8. QED
  BY <1>2, <1>5, <1>6, <1>7 DEF RegistryInv

LEMMA RegistryAlways == Spec => []RegistryInv
<1>1. ASSUME RegistryInv, [Next]_vars
      PROVE  RegistryInv'
  BY <1>1, TypeStep, KeyStep, EraseStep, UploadStep, PublishStep, BytesStep, StrayStep, DrainStep
     DEF RegistryInv
<1>2. QED
  BY RegistryInit, <1>1, PTL DEF Spec

\* A ready asset has the bytes its row was checked against, and a derived asset
\* those it was published with.
THEOREM ReadyBytes == Spec => []ReadyHasBytes
<1>1. RegistryInv => ReadyHasBytes
  BY DEF RegistryInv, BytesInv, ReadyHasBytes, Read, Find
<1>2. QED
  BY <1>1, RegistryAlways, PTL

\* Once the calls have ended, every object belongs to a row or is queued.
THEOREM StrayFree == Spec => []NothingStray
<1>1. RegistryInv => NothingStray
  BY DEF RegistryInv, StrayInv, Owned, Written, At, NothingStray
<1>2. QED
  BY <1>1, RegistryAlways, PTL
=============================================================================
