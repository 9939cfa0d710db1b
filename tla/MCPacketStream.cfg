SPECIFICATION PacketSpec
CONSTANTS HnsPerMs = 2  MsPerSec = 2  Rate = 3  Size = 6  Count = 2
          Word = 32  MaxGap = 6  MaxRun = 9
          BlockAlign = 3  Events = {e1}  Idle = Idle  ClientWaits = TRUE
INVARIANTS PositionKeepsTime CompletionsFollowData WalksTheList
PROPERTIES PausedStandsStill NoFalseUnderrun
