SPECIFICATION Spec
CONSTANTS
  Size = 6
  Word = 64
  MaxHeld = 3
  InOrder = TRUE
  MayDrop = TRUE
  MayFail = TRUE
  ResetHeld = FALSE
INVARIANTS TypeOK NoOverlap FreezeHasOwner
PROPERTIES HeldStays
