\* Two parsers, every graph over four configs with lists of at most one.
SPECIFICATION Spec
CONSTANTS
  p1 = p1
  p2 = p2
  c1 = c1
  c2 = c2
  c3 = c3
  c4 = c4
  Parsers = {p1, p2}
  Configs = {c1, c2, c3, c4}
  Inputs <- AnyChain
  None = None
CHECK_DEADLOCK FALSE
PROPERTY NeverDeadlocks
