\* The nested file is released by one snapshot and needed by another.
SPECIFICATION Spec
CONSTANTS
  a = a
  b = b
  c = c
  x = x
  y = y
  Nil = Nil
  First = s0
  Snapshots = {s0, s1, s2, s3}
  Configs = {a, b, c}
  Files = {x, y}
  Extends <- Graph
  Alphabetical <- YX
  Versions = {1, 2}
  Objs = {o1, o2, o3}
  Sessions <- OnlyNested
SYMMETRY Symmetry
CHECK_DEADLOCK FALSE
INVARIANTS AddOwnerSafe
