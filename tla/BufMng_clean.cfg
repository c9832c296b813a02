SPECIFICATION FairSpec
CONSTANTS
  Size = 5
  Word = 64
  MaxHeld = 3
  InOrder = TRUE
  MayDrop = FALSE
  MayFail = FALSE
  ResetHeld = FALSE
INVARIANTS Conserved RefusedOnlyWhenFull
PROPERTIES WriterServed
