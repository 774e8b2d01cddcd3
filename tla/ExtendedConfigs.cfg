\* Two parsers, or one, on every extends graph over three configs with lists of at most
\* two, and on every graph over four configs with lists of at most one.
SPECIFICATION Spec
CONSTANTS
  p1 = p1
  p2 = p2
  c1 = c1
  c2 = c2
  c3 = c3
  c4 = c4
  Parsers = {p1, p2}
  Configs = {c1, c2, c3, c4}
  Inputs <- SmallOrChains
  None = None
CHECK_DEADLOCK FALSE
INVARIANT OutcomeRight
PROPERTY AllReturn
