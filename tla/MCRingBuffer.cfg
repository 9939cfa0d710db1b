CONSTANTS
  Capacity = 4
  WriteSizes = {1, 3, 5}
  ReadSizes = {0, 2, 3, 5}
  MaxBytes = 12
SPECIFICATION Spec
INVARIANTS NoDataRace ContentIntact
PROPERTY ImplementsFifo
