SPECIFICATION Spec
CONSTANTS
  Threads = {master, idle, main, t1}
  Master = master
  Idle = idle
  UserMain = main
  UserSems = {s1}
  Messages = {}
  Null = null
  DefaultTimeSlice = 1
  CountMod = 4
  Calls <- SemCalls
  MaxTimeout = 1
  MaxInit = 0
  MaxValue = 1
  ShutdownSleep = 1
INVARIANTS
  TimedWaitAnswers
