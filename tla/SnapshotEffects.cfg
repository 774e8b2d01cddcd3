\* Two watches that may share a glob; tasks overtake each other, a call fails, a clone is adopted.
SPECIFICATION EffectsSpec
CONSTANTS
  Slots = {w1, w2}
  Globs = {A}
  Extensions = {"vue"}
  MaxUpdates = 2
  MaxFailures = 1
  MaxAdoptions = 1
SYMMETRY Symmetry
INVARIANTS WatchesRegistered ExtensionsNewest
CHECK_DEADLOCK FALSE
