SPECIFICATION FairSpec
CONSTANTS
  NoChan = NoChan
  Thread = {c1,u1}
  Control = {c1}
  Mem = {m1,m2}
  Op = {"use","trick","start","stop","reset","free"}
  MaySignal = FALSE
  FwMayFail = FALSE
  VpssMayFail = FALSE
  ReuseBusy = FALSE
  MaxUse = 3
PROPERTY FreeEnds
CHECK_DEADLOCK FALSE
