SPECIFICATION Spec
CONSTANTS
  Threads = {master, idle, main, t1, t2}
  Master = master
  Idle = idle
  UserMain = main
  UserSems = {s1}
  Messages = {}
  Null = null
  DefaultTimeSlice = 1
  CountMod = 5
  Calls <- SemCalls
  MaxTimeout = 1
  MaxInit = 1
  MaxValue = 1
  ShutdownSleep = 1
SYMMETRY Interchangeable
INVARIANTS
  BlockedListsAgree
  WaitersAreShort
  IInv
  ReasonsAreFresh
PROPERTIES
  NoOvertaking
