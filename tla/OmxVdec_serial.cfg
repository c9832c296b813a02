SPECIFICATION FairSpec
CONSTANTS
  RawBufs = {r1}
  YuvBufs = {y1, y2}
  LastFrame = LastFrame
  NoBuf = NoBuf
  Depth = 7
  Overlap = FALSE
PROPERTIES Answered
