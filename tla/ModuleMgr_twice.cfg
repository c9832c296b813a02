SPECIFICATION Spec
CONSTANTS
  Procs = {p1}
  Threads = {t1}
  Kernel = Kernel
  Names = {n1}
  Fixed = {0}
  UserIds = {1, 2}
  Pool = 3
  MaxRegs = 1
INVARIANT StaysRegistered
