SPECIFICATION FairSpec
CONSTANTS
  Chn = {1, 2, 3}
  Slots = 3
  Frame = {f1}
  NoFrame = NoFrame
  QDepth = 1
  Attached = {1, 2, 3}
  Quick = {}
  Priority <- SamePriority
  MaxPri = 1
  NewPri = {}
INVARIANTS OneInFlight
PROPERTIES FrameTaken StopEnds
