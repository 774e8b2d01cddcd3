\* All kinds of calls under fair scheduling, with one program.
SPECIFICATION FairSpec
CONSTANTS
  r1 = r1
  api = api
  open = open
  timer = timer
  publish = publish
  Nil = Nil
  Calls = {r1, api, open, timer, publish}
  Kind <- KindOf
  First = s0
  Snapshots = {s0, s1, s2}
  FirstProgram = p0
  Programs = {p0}
  MaxChanges = 1
  MaxPrefs = 0
PROPERTIES OldDisposed
