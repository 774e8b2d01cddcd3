\* A request with a nested query, a diagnostics and an API call, and a query beside it, on
\* two query slots.  Callers may wait for ever: a nested query waits for its own request's
\* slot when the association is gone.
SPECIFICATION Spec
CONSTANTS
  a1 = a1 a2 = a2 b1 = b1 d1 = d1 x1 = x1 ra = ra rb = rb f1 = f1 g1 = g1 g2 = g2
  k1 = k1 k2 = k2 k3 = k3 k4 = k4 k5 = k5
  Calls = {a1, a2, b1, d1, x1}
  Requests = {ra}
  Files = {f1}
  Diags = {g1, g2}
  Checkers = {k1, k2, k3, k4, k5}
  MaxCheckers = 3
  ReqOf <- AllReq
  ThreadOf <- AllThread
  Lifetime <- AllLifetime
  FileOf <- AllFile
  Parent <- AllParent
  Anonymous = Anonymous Nobody = Nobody NoChecker = NoChecker NoFile = NoFile NoCall = NoCall
VIEW View
CONSTRAINTS OneExtra OneEach
INVARIANTS TypeOK PanicFree Exclusive CanceledNotOffered AssociationsLive ReleasedMerged
CHECK_DEADLOCK FALSE
