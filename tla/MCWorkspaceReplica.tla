------------------------- MODULE MCWorkspaceReplica -------------------------
(***************************************************************************)
(* Instances of WorkspaceReplica.  The page makes a notebook (`create': the *)
(* board and a page), draws in it (`draw') and on the board (`mark'); other *)
(* devices write on the board (`note'), make a page of their own (`add')   *)
(* and draw on it (`fill').                                                *)
(***************************************************************************)
EXTENDS WorkspaceReplica

CONSTANTS create, draw, mark, note, add, fill, board, page, other

MCTouches == [op \in Operation |->
  CASE op = create -> {board, page}
    [] op = draw -> {page}
    [] op = add -> {board, other}
    [] op = fill -> {other}
    [] OTHER -> {board}]

MCCreates == [op \in Operation |->
  CASE op = create -> {page} [] op = add -> {other} [] OTHER -> {}]

MCNone == [op \in Operation |-> {}]

MCTurn == [op \in Operation |->
  CASE op = create -> 1 [] op = draw -> 2 [] op = mark -> 3 [] OTHER -> 0]

MCAccepted == {}

MCCreateIsMalformed == {create}
=============================================================================
