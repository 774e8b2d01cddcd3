\* A request, an API update that may be rejected, an opened file, a scheduled update and
\* the publishing of diagnostics while files and preferences change.
SPECIFICATION Spec
CONSTANTS
  r1 = r1
  api = api
  open = open
  timer = timer
  publish = publish
  Nil = Nil
  Calls = {r1, api, open, timer, publish}
  Kind <- KindOf
  First = s0
  Snapshots = {s0, s1, s2}
  FirstProgram = p0
  Programs = {p0, p1}
  MaxChanges = 1
  MaxPrefs = 1
SYMMETRY Symmetry
INVARIANTS RefsExact ProgramsLive FilesNotLost
