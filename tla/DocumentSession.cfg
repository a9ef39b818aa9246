\* Loading, page changes, edits, states and puts of other devices.
SPECIFICATION SessionSpec
CONSTANTS
  paper = paper
  picture = picture
  counter = counter
  first = first
  other = other
  None = None
  Block = {paper, picture, counter}
  Loaded = {paper, counter}
  Surface = {first, other}
  Page <- MCPage
  Kind <- MCKind
  Parts <- MCParts
  MaxEdits = 2
  MaxViews = 2
  MaxOpens = 1
INVARIANTS UrlsFollowBlocks PageIsCurrent StatesInOrder LeavesNothing
CHECK_DEADLOCK FALSE
