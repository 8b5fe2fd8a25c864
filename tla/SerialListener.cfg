SPECIFICATION Spec
CONSTANTS
  HeadSize = 3
  HeadChecked = 2
  TailSize = 1
  MaxReadOnce = 7
  StreamLen <- MCStreamLen
  HeadLen <- MCHeadLen
  Frames <- MCFrames
  Handled <- MCHandled
  Lines <- MCLines
CHECK_DEADLOCK FALSE
INVARIANTS
  BufferBounded
  FramesSound
