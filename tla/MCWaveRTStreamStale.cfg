SPECIFICATION Spec
CONSTANTS HnsPerMs = 2  MsPerSec = 2  Rate = 3  Size = 6  Count = 2
          Word = 32  MaxGap = 9  MaxRun = 14
INVARIANT CompletedWasPlayed
