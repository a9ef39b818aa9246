\* Strokes, undos, failures and the writes of others.
SPECIFICATION HistorySpec
CONSTANTS
  Stroke = {s1, s2, s3, s4}
  NoStroke = NoStroke
  Limit = 3
  MaxVersion = 2
  MaxFailures = 2
SYMMETRY Strokes
INVARIANTS UndoableAlone PendingKeepsRecord
CHECK_DEADLOCK FALSE
