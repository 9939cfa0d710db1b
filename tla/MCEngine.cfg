CONSTANTS
  Modes = {"info", "monitor", "run"}
  Levels = {40, 130}
SPECIFICATION PlayFairSpec
INVARIANTS NothingDangles ExitIsClean
PROPERTIES CtrlCStops EveryExitRelaunches SliderIsHeard
