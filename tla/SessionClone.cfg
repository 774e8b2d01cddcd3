\* A handler works with a clone that the session has discarded.
SPECIFICATION Spec
CONSTANTS
  r1 = r1
  api = api
  open = open
  timer = timer
  publish = publish
  Nil = Nil
  Calls = {r1, timer}
  Kind <- KindOf
  First = s0
  Snapshots = {s0, s1, s2, s3}
  FirstProgram = p0
  Programs = {p0, p1}
  MaxChanges = 1
  MaxPrefs = 0
INVARIANTS HandlerKeepsAlive
