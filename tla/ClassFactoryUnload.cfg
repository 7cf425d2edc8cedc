SPECIFICATION Spec
CONSTANTS
  Thread = {t1}
  Obj = {o1}
  NoObj = NoObj
  Fault = {}
  MaxFactory = 1
  MaxLocks = 0
  MaxRefs = 1
INVARIANTS UnloadableWhenUnused
