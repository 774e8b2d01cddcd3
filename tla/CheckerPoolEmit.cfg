\* The exclusivity CheckerPool documents, for two goroutines of one request.
SPECIFICATION Spec
CONSTANTS
  a1 = a1 a2 = a2 b1 = b1 d1 = d1 x1 = x1 ra = ra rb = rb f1 = f1 g1 = g1 g2 = g2
  k1 = k1 k2 = k2 k3 = k3 k4 = k4 k5 = k5
  Calls = {a1, a2}
  Requests = {ra}
  Files = {}
  Diags = {}
  Checkers = {k1, k2, k3}
  MaxCheckers = 2
  ReqOf <- OneReq
  ThreadOf <- EmitThread
  Lifetime <- EmitLifetime
  FileOf <- NoFiles
  Parent <- Flat
  Anonymous = Anonymous Nobody = Nobody NoChecker = NoChecker NoFile = NoFile NoCall = NoCall
VIEW View
INVARIANTS Exclusive
