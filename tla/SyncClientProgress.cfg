\* Delivery and progress: two acceptable edits and one failure.
SPECIFICATION FairSpec
CONSTANTS
  create = create
  draw = draw
  move = move
  again = again
  remote = remote
  stroke = stroke
  board = board
  page = page
  Operation = {create, draw}
  Own = {create, draw}
  Surface = {board, page}
  Board = board
  Run = {"load", "retry"}
  FirstRun = "load"
  MaxFailures = 1
  MaxReloads = 0
  Touches <- MCTouches
  Creates <- MCCreates
  Rivals <- MCRivals
  Basis <- MCBasis
  Malformed <- MCNone
  Turn <- MCTurn
  Stamp <- MCStamp
  Key <- MCKey
INVARIANT NoLostWork
PROPERTIES CommittedStays 
CHECK_DEADLOCK FALSE
