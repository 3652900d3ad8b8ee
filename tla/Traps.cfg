SPECIFICATION Spec
CONSTANTS
  Threads = {master, io, u1, u2}
  Systems = {master, io}
  Master = master
  Idle = idle
INVARIANTS
  OwnCode
  OwnMode
  KernelIsMasked
  SystemsInterruptible
  FramesAreOwn
