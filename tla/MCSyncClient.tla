---------------------------- MODULE MCSyncClient ----------------------------
(***************************************************************************)
(* Instances of SyncClient.  The device dispatches `create' (a notebook    *)
(* page), `draw' on that page, `move' of an item on the board and `again', *)
(* a second move; another device moves the same item (`remote') and adds   *)
(* a stroke of its own (`stroke').                                         *)
(***************************************************************************)
EXTENDS SyncClient

CONSTANTS create, draw, move, again, remote, stroke, board, page

MCTouches == [op \in Operation |->
  CASE op = create -> {board, page} [] op = draw -> {page} [] OTHER -> {board}]

MCCreates == [op \in Operation |-> IF op = create THEN {page} ELSE {}]

MCRivals == [op \in Operation |->
  Operation \cap CASE op = move -> {remote, again}
                   [] op = remote -> {move, again}
                   [] op = again -> {move, remote}
                   [] OTHER -> {}]

MCBasis == [op \in Operation |-> IF op = again THEN {move} ELSE {}]

Rank == [op \in Operation |->
  CASE op = create -> 1 [] op = draw -> 2 [] op = move -> 3 [] op = again -> 4 [] OTHER -> 0]

MCTurn == Rank

MCStamp == Rank

\* Every edit in one millisecond.
MCSameStamp == [op \in Operation |-> 0]

\* Keys that sort against the order of the edits.
MCKey == [op \in Operation |-> 9 - Rank[op]]

MCNone == {}

MCCreateIsMalformed == {create}
=============================================================================
