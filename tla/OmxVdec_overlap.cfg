SPECIFICATION Spec
CONSTANTS
  RawBufs = {r1}
  YuvBufs = {y1, y2}
  LastFrame = LastFrame
  NoBuf = NoBuf
  Depth = 7
  Overlap = TRUE
SYMMETRY SameFrames
CONSTRAINT UpToTheFirstRace
CHECK_DEADLOCK FALSE
INVARIANTS TypeOK StreamsKept FramesKept HeldInUse InputFlushed OutputFlushed
