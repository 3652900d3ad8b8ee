SPECIFICATION FairSpec
CONSTANTS
  Threads = {master, idle, main, t1}
  Master = master
  Idle = idle
  UserMain = main
  UserSems = {}
  Messages = {}
  Null = null
  DefaultTimeSlice = 1
  CountMod = 4
  FACTOR_32 = 26
  Patterns = {0, 9, 69, 100, 127, 128, 249, 255}
INVARIANTS
  OnePrints
  NumbersComeOutWhole
PROPERTIES
  LockIsReleased
  LockIsTaken
