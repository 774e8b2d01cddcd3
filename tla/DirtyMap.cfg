\* Goroutines that share a value of the old snapshot and one that is new.
SPECIFICATION Spec
CONSTANTS
  Nil = Nil
  Absent = Absent
  Deleted = Deleted
  Procs = {p1, p2}
  Keys = {k1, k2}
  Base = {k1}
  Entries = {e1, e2, e3, e4}
  Ops = {"change", "changeIf", "delete", "deleteLocked"}
  MaxChanges = 3
  RacingDeletes = FALSE
SYMMETRY Symmetry
INVARIANTS BaseUntouched HandlesAgree
PROPERTY Implements
