CONSTANTS
  Packet = 2
  Bursts = 2
  SafeFrames = 1
  RingFrames = 9
  TrimPeriod = 3
  Chunks = {1, 3}
SPECIFICATION FairSpec
INVARIANTS ServedSlotsAreWhole
PROPERTIES TrimNeverStarves CushionIsPlayedOut GateReopens StopReturns
