\* Four references that acquire, clone, fail and release in any order.
SPECIFICATION Spec
CONSTANTS
  Refs = {r1, r2, r3, r4}
  Objs = {o1, o2, o3, o4, o5}
  Nil = Nil
SYMMETRY Symmetry
INVARIANTS TypeOK CountExact OwnersFindEntry
PROPERTIES SharesOneValue
