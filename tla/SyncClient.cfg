\* Rejections, three failures and a reload: the notebook is malformed, the move
\* meets a remote one.  Overlapping runs are in SyncClientProgress.cfg.
SPECIFICATION Spec
CONSTANTS
  create = create
  draw = draw
  move = move
  again = again
  remote = remote
  stroke = stroke
  board = board
  page = page
  Operation = {create, draw, move, remote}
  Own = {create, draw, move}
  Surface = {board, page}
  Board = board
  Run = {"load"}
  FirstRun = "load"
  MaxFailures = 3
  MaxReloads = 1
  Touches <- MCTouches
  Creates <- MCCreates
  Rivals <- MCRivals
  Basis <- MCBasis
  Malformed <- MCCreateIsMalformed
  Turn <- MCTurn
  Stamp <- MCStamp
  Key <- MCKey
INVARIANTS SendsInOrder ReceiptsAreTrue
PROPERTIES ReceiptsAreFinal
CHECK_DEADLOCK FALSE
