SPECIFICATION Spec
CONSTANTS
  NoChan = NoChan
  Thread = {c1,c2}
  Control = {c1,c2}
  Mem = {m1,m2,m3}
  Op = {"use","demux","trick","start","stop","iframe","free"}
  MaySignal = TRUE
  FwMayFail = TRUE
  VpssMayFail = TRUE
  ReuseBusy = FALSE
  MaxUse = 3
INVARIANT OneFreer
CHECK_DEADLOCK FALSE
