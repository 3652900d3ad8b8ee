SPECIFICATION Spec
CONSTANTS
  Threads = {master, idle, main, t1}
  Master = master
  Idle = idle
  UserMain = main
  UserSems = {s}
  Messages = {}
  Null = null
  DefaultTimeSlice = 2
  CountMod = 4
  MaxTimeout = 3
  MaxTokens = 2
CHECK_DEADLOCK FALSE
INVARIANTS
  ListsAreWhole
  HeadHasTicksLeft
PROPERTIES
  ImplementsQueues
