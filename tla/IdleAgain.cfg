SPECIFICATION Spec
CONSTANTS
  Threads = {master, u1, idle}
  Systems = {master, idle}
  Master = master
  Idle = idle
INVARIANTS
  OwnMode
