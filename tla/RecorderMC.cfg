SPECIFICATION FairSpec
CONSTANTS
  HeaderBytes = 44
  BlockBytes = 24
  Modulus = 256
  MaxBlocks = 9
  Fault = {"disk"}
INVARIANTS Conserved WrittenExact 
PROPERTIES Recorded SignalEnds
CHECK_DEADLOCK FALSE
