SPECIFICATION Spec
CONSTANTS
  Chn = {1, 2}
  Slots = 2
  Frame = {f1, f2, f3}
  NoFrame = NoFrame
  QDepth = 2
  Attached = {1, 2}
  Quick = {2}
  Priority <- OwnPriority
  MaxPri = 1
  NewPri = {0, 1}
SYMMETRY SameFrames
INVARIANTS TypeOK TableMatches FramesKept
PROPERTIES HighestFirst InOrder
