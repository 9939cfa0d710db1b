SPECIFICATION Spec
CONSTANTS FrameCount = 3  FrameSize = 2  ItemCount = 5  Workers = 1  MaxRequest = 3
INVARIANT SavedAsWritten
