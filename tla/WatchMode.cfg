\* Edits at any time, overflows, and watches that end or fail.
SPECIFICATION Spec
CONSTANTS
  a = a
  b = b
  lib = lib
  src = src
  ext = ext
  Config = Config
  Files <- TheFiles
  Matching = {a, b}
  Imports <- TheImports
  Dirs = {src, ext}
  DirOf <- TheDirs
  MaxEdits = 2
  MaxFaults = 1
CHECK_DEADLOCK FALSE
INVARIANTS FreshWhenQuiet WatchedWhenQuiet
PROPERTY CatchesUp
