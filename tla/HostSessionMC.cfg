SPECIFICATION Spec
CONSTANTS
  Devices = {d1, d2}
  Instances = {o1, o2, o3}
  Names = {n1, n2, n3}
  Long = {n2}
  Full = {n3}
  Fault = {"load", "future"}
  NULL = NULL
  NoName = NoName
  Garbled = Garbled
INVARIANTS Owned NamedAsAsked 
PROPERTIES LoadedAsAsked
SYMMETRY Symmetry
