SPECIFICATION Spec
CONSTANTS
  Blocks = {b1}
  Files = {f1, f2}
  Driver = Driver
  NoBlock = NoBlock
  MaxRef = 3
  Balanced = TRUE
  Together = FALSE
  MayFail = FALSE
INVARIANTS TypeOK CountsAgree FoundIsThere DelayedIsDue
PROPERTIES GivenBackInTime
