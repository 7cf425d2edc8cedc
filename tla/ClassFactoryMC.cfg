SPECIFICATION Spec
CONSTANTS
  Thread = {t1, t2, t3}
  Obj = {o1, o2, o3}
  NoObj = NoObj
  Fault = {"malloc", "query"}
  MaxFactory = 3
  MaxLocks = 2
  MaxRefs = 2
SYMMETRY Symmetry
INVARIANTS TypeOK UseCountExact NotUnderUse RefsExact FreedAtLast
PROPERTY InstancesLive
