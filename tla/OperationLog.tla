---------------------------- MODULE OperationLog ----------------------------
(***************************************************************************)
(* What the server's journal promises, with every submission taking effect *)
(* in one indivisible step: a log of accepted operations, each accepted    *)
(* once and on a state that admits it, a receipt that numbers the changes  *)
(* of each surface, and the same receipt for every repetition.             *)
(***************************************************************************)
EXTENDS WorkspaceOperations, Sequences, FiniteSets

CONSTANTS
  Request,        \* submissions; several may carry one operation
  NoOperation     \* what an idle request carries, no operation

VARIABLES
  accepted,       \* the accepted operations, in the order they took effect
  carried,        \* carried[r]: the operation request r submits
  answer,         \* answer[r]: what request r is told
  present         \* the workspace has not been deleted

logVars == <<accepted, carried, answer, present>>

AcceptedSet == {accepted[i] : i \in DOMAIN accepted}

\* The revision each surface has once the first n operations are accepted.
RevisionAfter(log, n, s) ==
  Cardinality({i \in 1..n : s \in Touches[log[i]]})

\* The receipt of the i-th accepted operation: 0 for surfaces it leaves alone.
ReceiptOf(log, i) ==
  [s \in Surface |-> IF s \in Touches[log[i]] THEN RevisionAfter(log, i, s) ELSE 0]

NoRevisions == [s \in Surface |-> 0]

Answer == [kind : {"none", "committed", "rejected", "failed"},
           revision : [Surface -> Nat]]

Unanswered == [kind |-> "none", revision |-> NoRevisions]

LogInit ==
  /\ accepted = <<>>
  /\ carried = [r \in Request |-> NoOperation]
  /\ answer = [r \in Request |-> Unanswered]
  /\ present = TRUE

Waiting(r) == carried[r] \in Operation /\ answer[r].kind = "none"

Submitted(r, op) ==
  /\ carried[r] = NoOperation
  /\ carried' = [carried EXCEPT ![r] = op]
  /\ UNCHANGED <<accepted, answer, present>>

Accepted(r) ==
  /\ Waiting(r)
  /\ present
  /\ carried[r] \notin AcceptedSet
  /\ Admissible(carried[r], AcceptedSet)
  /\ accepted' = Append(accepted, carried[r])
  /\ answer' = [answer EXCEPT ![r] =
       [kind |-> "committed", revision |-> ReceiptOf(accepted', Len(accepted'))]]
  /\ UNCHANGED <<carried, present>>

Repeated(r) ==
  /\ Waiting(r)
  /\ \E i \in DOMAIN accepted :
       /\ accepted[i] = carried[r]
       /\ answer' = [answer EXCEPT ![r] =
            [kind |-> "committed", revision |-> ReceiptOf(accepted, i)]]
  /\ UNCHANGED <<accepted, carried, present>>

Rejected(r) ==
  /\ Waiting(r)
  /\ present
  /\ carried[r] \notin AcceptedSet
  /\ ~Admissible(carried[r], AcceptedSet)
  /\ answer' = [answer EXCEPT ![r] = [kind |-> "rejected", revision |-> NoRevisions]]
  /\ UNCHANGED <<accepted, carried, present>>

\* Any number of waiting requests fail together when the server stops.
Failed(R) ==
  /\ \A r \in R : Waiting(r)
  /\ answer' = [r \in Request |->
       IF r \in R THEN [kind |-> "failed", revision |-> NoRevisions] ELSE answer[r]]
  /\ UNCHANGED <<accepted, carried, present>>

Erased ==
  /\ present
  /\ present' = FALSE
  /\ accepted' = <<>>
  /\ UNCHANGED <<carried, answer>>

LogNext ==
  \/ \E r \in Request :
       \/ \E op \in Operation : Submitted(r, op)
       \/ Accepted(r) \/ Repeated(r) \/ Rejected(r)
  \/ \E R \in SUBSET Request : Failed(R)
  \/ Erased

LogSpec == LogInit /\ [][LogNext]_logVars
=============================================================================
