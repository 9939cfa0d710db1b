CONSTANTS
  FrameBytes = 3
  RingBytes = 8
  EndpointPackets = 2
  PacketFrames = {1, 2}
  ReadFrames = {1}
  DrainSpeed = 2
  Burst = 1
  CountLimit = 3
SPECIFICATION Spec
INVARIANT FramesAligned
