SPECIFICATION FairSpec
CONSTANTS
  Threads = {master, idle, main, in, out}
  Master = master
  Idle = idle
  UserMain = main
  InputTCB = in
  OutputTCB = out
  UserSems <- ConsoleSems
  Messages = {}
  Null = null
  DefaultTimeSlice = 1
  CountMod = 5
  Chars = {a}
  Length = 1
  MaxTyped = 1
  Programs = {{"getc", "putc"}}
PROPERTIES
  PutIsTransmitted
  TypedIsRead
