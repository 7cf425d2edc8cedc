SPECIFICATION FairSpec
CONSTANTS
  MaxFrames = 10
  MaxBlock = 4
  UintRange = 16
  MaxPlayed = 26
INVARIANTS PlayedInOrder CutShort ToldInTime
PROPERTIES PlaybackEnds
CHECK_DEADLOCK FALSE
