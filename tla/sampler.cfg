SPECIFICATION FairSpec
CONSTANTS
  f1 = f1
  f2 = f2
  speed = speed
  speed_invalid = speed_invalid
  gear = gear
  FrameIds <- TwoFrames
  Bytes = {0, 1, 3}
  Missing = Missing
  Zero = 0
  Signals <- ThreeSignals
  FrameOf <- TheFrameOf
  InvalidOf <- TheInvalidOf
  NoFlag = NoFlag
  Raw <- TheRaw
  MaxGenerations = 2
  MaxSamples = 3
INVARIANTS ValidMeansObserved SignalsFollowFrames NothingPending ThreadOutlived
PROPERTIES SignalHistoryKept StopCompletes
