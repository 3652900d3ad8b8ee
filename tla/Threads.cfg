SPECIFICATION ProgramSpec
CONSTANTS
  Threads = {master, idle, main, t1, t2}
  Master = master
  Idle = idle
  UserMain = main
  UserSems = {s1}
  Messages = {m1, m2}
  Null = null
  DefaultTimeSlice = 1
  CountMod = 5
  Calls <- AllCalls
  MaxTimeout = 2
  MaxInit = 0
  MaxValue = 1
  ShutdownSleep = 1
  Programs <- ThreadPrograms
SYMMETRY Interchangeable
INVARIANTS
  TypeOK
  NoThreadLost
  SleepListInOrder
  ChildrenAreCounted
  JoinsAreTrue
  OneMessageSlot
  ReceivesAMessage
PROPERTIES
  EndIsFinal
