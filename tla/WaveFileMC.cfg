SPECIFICATION Spec
CONSTANTS
  Bits <- SampleSizes
  Channels = {1, 2}
  MaxSamples = 5
  Largest <- LargestUint32
  IntRange = 24
  Fault = {"write", "fclose", "truncated"}
INVARIANTS TypeOK WithinFile PositionExact DeclaresItsData
CHECK_DEADLOCK FALSE
