\* Two watches of one directory, made, rolled back and closed concurrently.
SPECIFICATION Spec
CONSTANTS
  Nil = Nil
  Watches = {w1, w2}
  MaxErrors = 2
CHECK_DEADLOCK FALSE
INVARIANTS OpenIsServed NothingLeft
PROPERTY Delivered
