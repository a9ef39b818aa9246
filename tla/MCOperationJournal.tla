------------------------- MODULE MCOperationJournal -------------------------
(***************************************************************************)
(* Instances of OperationJournal for TLC.                                  *)
(*                                                                         *)
(* o1 and o2 write one element of the board without knowing each other;    *)
(* o3 writes it again on top of o1 and creates the surface "page"; o4 is   *)
(* malformed.                                                              *)
(***************************************************************************)
EXTENDS OperationJournal

CONSTANTS o1, o2, o3, o4, board, page

MCTouches == [o \in Operation |-> IF o = o3 THEN {board, page} ELSE {board}]
MCCreates == [o \in Operation |-> IF o = o3 THEN {page} ELSE {}]
MCRivals  == [o \in Operation |-> IF o = o4 THEN {} ELSE Operation \ {o, o4}]
MCBasis   == [o \in Operation |-> IF o = o3 THEN {o1} ELSE {}]
MCMalformed == Operation \cap {o4}
=============================================================================
