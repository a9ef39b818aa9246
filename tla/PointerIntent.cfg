\* A pen, two fingers and a mouse over one notebook and one document.
SPECIFICATION Spec
CONSTANTS
  Pen = {pen}
  Finger = {f1, f2}
  Mouse = {mouse}
  Item = {i1}
  Document = {}
  None = None
  MaxDowns = 4
INVARIANTS Released ShownIsOwned 
CHECK_DEADLOCK FALSE
