SPECIFICATION Spec
CONSTANTS
  NoChan = NoChan
  Thread = {c1,u1,u2}
  Control = {c1}
  Mem = {m1,m2}
  Op = {"use","trick","start","stop","reset","free"}
  MaySignal = FALSE
  FwMayFail = FALSE
  VpssMayFail = FALSE
  ReuseBusy = FALSE
  MaxUse = 3
INVARIANTS TypeOK NoUseAfterFree CountExact StateAgrees
PROPERTY DestroyedStopped
CHECK_DEADLOCK FALSE
