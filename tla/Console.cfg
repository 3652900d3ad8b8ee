SPECIFICATION Spec
CONSTANTS
  Threads = {master, idle, main, in, out, t1}
  Master = master
  Idle = idle
  UserMain = main
  InputTCB = in
  OutputTCB = out
  UserSems <- ConsoleSems
  Messages = {}
  Null = null
  DefaultTimeSlice = 1
  CountMod = 6
  Chars = {a, b}
  Length = 2
  MaxTyped = 1
  Programs = {{"getc"}, {"putc"}}
INVARIANTS
  SlotsAreCounted
  MutexNeverContended
  DeviceIsReady
  SomebodyCanRun
PROPERTIES
  ImplementsInputPipe
  ImplementsOutputPipe
