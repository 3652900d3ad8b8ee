SPECIFICATION FairSpec
CONSTANTS
  Threads = {master, idle, main, t1}
  Master = master
  Idle = idle
  UserMain = main
  UserSems = {s1}
  Messages = {m1}
  Null = null
  DefaultTimeSlice = 2
  CountMod = 4
  Calls <- ProgressCalls
  MaxTimeout = 1
  MaxInit = 0
  MaxValue = 1
  ShutdownSleep = 1
PROPERTIES
  EveryReadyThreadRuns
  TimedCallsReturn
  ProgramEnds
