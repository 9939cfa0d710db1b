CONSTANTS
  FrameBytes = 2
  RingBytes = 8
  EndpointPackets = 2
  PacketFrames = {2}
  ReadFrames = {1}
  DrainSpeed = 2
  Burst = 2
  CountLimit = 3
SPECIFICATION FairSpec
INVARIANTS FramesWhole
PROPERTIES PacketsAreRead StopReturns
