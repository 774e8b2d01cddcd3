\* What the affinity test asserts, for a request with a nested query.
SPECIFICATION Spec
CONSTANTS
  a1 = a1 a2 = a2 b1 = b1 d1 = d1 x1 = x1 ra = ra rb = rb f1 = f1 g1 = g1 g2 = g2
  k1 = k1 k2 = k2 k3 = k3 k4 = k4 k5 = k5
  Calls = {a1, a2, b1}
  Requests = {ra, rb}
  Files = {}
  Diags = {}
  Checkers = {k1, k2, k3}
  MaxCheckers = 3
  ReqOf <- NestReq
  ThreadOf <- NestReq
  Lifetime <- Query
  FileOf <- NoFiles
  Parent <- NestParent
  Anonymous = Anonymous Nobody = Nobody NoChecker = NoChecker NoFile = NoFile NoCall = NoCall
VIEW View
INVARIANTS SameCheckerWhileHeld
