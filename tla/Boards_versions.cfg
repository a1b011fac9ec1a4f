SPECIFICATION Spec
CONSTANTS
  Editors = {e1, e2}
  Requests = {r1, r2}
  Changes = {c1, c2, emptied, added}
  Blanks = {emptied}
  Resizes = {added}
  MaxVersion = 3
  None = None
SYMMETRY Symmetry
CONSTRAINT FewOddities
INVARIANTS NothingOverwritten SavedIsStored RefusedForAnother
CHECK_DEADLOCK FALSE
