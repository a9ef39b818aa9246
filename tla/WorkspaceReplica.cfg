\* Edits and remote writes that meet, a rejected notebook, a failing transaction and a reload.
SPECIFICATION Spec
CONSTANTS
  create = create
  draw = draw
  mark = mark
  note = note
  add = add
  fill = fill
  board = board
  page = page
  other = other
  Operation = {create, mark, note, add}
  Own = {create, mark}
  Surface = {board, page, other}
  Board = board
  MaxAborts = 1
  MaxReloads = 1
  Touches <- MCTouches
  Creates <- MCCreates
  Rivals <- MCNone
  Basis <- MCNone
  Malformed <- MCCreateIsMalformed
  Turn <- MCTurn
INVARIANTS WorkIsShown NothingUnsaved
CHECK_DEADLOCK FALSE
