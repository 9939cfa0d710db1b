SPECIFICATION EndpointSpec
SYMMETRY Symmetry
CONSTANTS
  Streams = {s1, s2, s3}
  MaxSystemStreams = 2
  Contents = {c1, c2}
  MixedContents = {m1, m2}
  MinLevel <- MCMinLevel
  MaxLevel = 0
  Step = 2
  Channels = 1
  Ulong = 3
  Levels <- MCLevels
INVARIANTS
    NothingLeaks
    StreamIsServed
    WaveFilterOrNothing
    PinsMatchStreams
    OneMixture
    MixtureCoversStreams
    RequestsReachHardware
    LevelAsAdvertised
    SizesAsPromised
    ProposalOpens
PROPERTIES
    AllChannelsReturns
