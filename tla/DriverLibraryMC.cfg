SPECIFICATION Spec
CONSTANTS
  Thread = {t1, t2, t3}
  Obj = {o1, o2, o3, o4}
  NoObj = NoObj
  Fault = {"malloc", "query", "dlinfo"}
  MaxHandles = 5
  MaxRefs = 2
  UintRange = 4
SYMMETRY Symmetry
INVARIANTS TypeOK RefsExact AliveWhileHeld UseCountExact LibMapped
PROPERTY InstancesLive
CHECK_DEADLOCK FALSE
