SPECIFICATION FairSpec
CONSTANTS
  Size = 3
  CodecLength = 4
  ForeignLengths = {1, 2, 5}
  MaxFrames = 4
INVARIANTS CodecFrameRealigns PacketsNeverMix LossIsBounded
PROPERTY StopIsNoticed
