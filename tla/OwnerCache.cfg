\* Nested files with changing contents, and a file that two configs extend.
SPECIFICATION Spec
CONSTANTS
  a = a
  b = b
  c = c
  x = x
  y = y
  Nil = Nil
  First = s0
  Snapshots = {s0, s1, s2, s3}
  Configs = {a, b, c}
  Files = {x, y}
  Extends <- Graph
  Alphabetical <- YX
  Versions = {1, 2}
  Objs = {o1, o2, o3}
  Sessions <- NestedAndShared
SYMMETRY Symmetry
CHECK_DEADLOCK FALSE
INVARIANTS OwnedWhileLive ReleasedWhenGone FreshConfigs
