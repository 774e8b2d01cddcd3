\* An API update flushes a change of the preferences.
SPECIFICATION Spec
CONSTANTS
  r1 = r1
  api = api
  open = open
  timer = timer
  publish = publish
  Nil = Nil
  Calls = {r1, api}
  Kind <- KindOf
  First = s0
  Snapshots = {s0, s1, s2}
  FirstProgram = p0
  Programs = {p0, p1}
  MaxChanges = 1
  MaxPrefs = 1
INVARIANTS PrefsNotLost
