SPECIFICATION Spec
CONSTANTS
  p = p
  f = f
  h = h
  np = np
  nf = nf
  nh = nh
  Calcs = {c1, c2}
  Editors = {e1}
  Plain = {p}
  Formulas = {f, h}
  Order <- InOrder
  Names = {np, nf, nh}
  Mentions = {p, nf}
  Tables <- Dangling
  Changes <- OnlyP
  MaxRefs = 2
  MaxEdits = 1
  EditsApart = TRUE
  None = None
SYMMETRY Alike
INVARIANTS TypeOK SearchIsExact RecalculatesAsDefined
PROPERTIES CheckedEditsSaveNoCycle
CHECK_DEADLOCK FALSE
