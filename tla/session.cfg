SPECIFICATION FairSpec
CONSTANTS
  f1 = f1
  f2 = f2
  p1 = p1
  p2 = p2
  FrameIds <- TwoFrames
  Pids <- TwoPids
  Programs <- ThreePrograms
  Missing = Missing
  RetryInitial = 1
  RetryMax = 3
  VmCooldown = 1
  MaxStarts = 3
  MaxFaults = 1
INVARIANTS BytesOfResolvedProcess DescriptorsReleased
PROPERTIES DelayResetByReadOnly ImplementsSource Recovers
