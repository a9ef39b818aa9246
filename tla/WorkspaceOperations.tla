------------------------ MODULE WorkspaceOperations ------------------------
(***************************************************************************)
(* The operations one workspace can receive, and when the server accepts   *)
(* one (domains/synchronization/src/sync-gateway.ts).                      *)
(*                                                                         *)
(* An operation is an opaque value.  What the journal, the gateway and the *)
(* clients tell apart about it is given by constant functions:             *)
(*                                                                         *)
(*   Touches[op]  the surfaces its updates name                            *)
(*   Creates[op]  those of them its intent creates                         *)
(*   Rivals[op]   the operations that write an element op writes           *)
(*   Basis[op]    the rivals op was made on top of: the writes that gave   *)
(*                its elements the versions it expects                     *)
(*   Malformed    operations whose intent and updates disagree: no state   *)
(*                makes them valid                                         *)
(*                                                                         *)
(* The state of a surface is the set of operations integrated in it: the   *)
(* Yjs document is a join semilattice of them.                             *)
(***************************************************************************)
EXTENDS Naturals

CONSTANTS Operation, Surface, Touches, Creates, Rivals, Basis, Malformed

ASSUME TouchesAssumption ==
  /\ Touches \in [Operation -> SUBSET Surface]
  /\ \A op \in Operation : Touches[op] # {}

ASSUME CreatesAssumption ==
  /\ Creates \in [Operation -> SUBSET Surface]
  /\ \A op \in Operation : Creates[op] \subseteq Touches[op]

\* Two operations that write one element name the surface that holds it.
ASSUME RivalsAssumption ==
  /\ Rivals \in [Operation -> SUBSET Operation]
  /\ \A op \in Operation : \A o \in Rivals[op] : Touches[o] \cap Touches[op] # {}

ASSUME BasisAssumption ==
  /\ Basis \in [Operation -> SUBSET Operation]
  /\ \A op \in Operation : Basis[op] \subseteq Rivals[op]

ASSUME MalformedAssumption == Malformed \subseteq Operation

(***************************************************************************)
(* validateOperation and validateMeaning on a workspace in which exactly   *)
(* the operations in `integrated' have been accepted: a created surface is *)
(* new, and every written element still has the version the operation was  *)
(* made on.  A missing version leaves the Yjs update pending, so that it   *)
(* changes nothing; a newer one fails the expected-version comparison.     *)
(***************************************************************************)
AdmissibleOn(op, basis, integrated) ==
  /\ op \notin Malformed
  /\ \A o \in integrated : Touches[o] \cap Creates[op] = {}
  /\ integrated \cap Rivals[op] = basis

\* The same for an operation as its author made it.
Admissible(op, integrated) == AdmissibleOn(op, Basis[op], integrated)
=============================================================================
