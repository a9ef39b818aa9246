\* Every run of three calls that carry a write, its rival, a dependent notebook
\* or a malformed operation: safety, refinement and progress.
SPECIFICATION FairSpec
CONSTANTS
  o1 = o1
  o2 = o2
  o3 = o3
  o4 = o4
  board = board
  page = page
  Operation = {o1, o2, o3, o4}
  Surface = {board, page}
  Request = {r1, r2, r3}
  NoOperation = NoOperation
  NoRequest = NoRequest
  Malformed <- MCMalformed
  Touches <- MCTouches
  Creates <- MCCreates
  Rivals <- MCRivals
  Basis <- MCBasis
INVARIANTS NoDuplicateInsert SequenceFollowsCommit SurfaceIsItsUpdates
  JournalReplays SnapshotIsExact ErasedLeavesNothing
PROPERTIES ImplementsLog EveryCallSettles
CHECK_DEADLOCK FALSE
