------------------------------ MODULE Console ------------------------------
(***************************************************************************)
(* The console: src/src/io.cpp, the CharBuffer of src/h/io.hpp, the getc   *)
(* and putc handlers and the external interrupt of src/src/kernel.cpp,     *)
(* over the kernel's semaphores and scheduler.                             *)
(*                                                                         *)
(* Each direction has a buffer and a kernel thread between the buffer and  *)
(* the device.  A thread that is not inside a buffer operation runs with   *)
(* interrupts enabled, one access to shared data per step; a buffer        *)
(* operation runs masked and is one step unless it has to wait, and then   *)
(* call[t] keeps where it is.  The UART itself is external.                *)
(***************************************************************************)
EXTENDS TCB

CONSTANTS InputTCB, OutputTCB,  \* IO::inputTCB, IO::outputTCB
          Chars,                \* what is typed and printed
          Length,               \* CharBuffer::length
          MaxTyped,             \* bound on the receiver's FIFO
          Programs              \* of getc and putc, what the users may call

Buffers == {"input", "output"}

semPut(b) == <<"semPut", b>>
semGet(b) == <<"semGet", b>>
mutex(b)  == <<"mutex", b>>
ConsoleSems == UNION {{semPut(b), semGet(b), mutex(b)} : b \in Buffers}

ASSUME ConsoleAssumption ==
  /\ UserSems = ConsoleSems
  /\ {InputTCB, OutputTCB} \subseteq UserThreads \ {UserMain}
  /\ InputTCB # OutputTCB
  /\ Null \notin Chars
  /\ Length \in Nat \ {0} /\ MaxTyped \in Nat
  /\ Programs \subseteq SUBSET {"getc", "putc"}

VARIABLES program, \* the calls the users make in this behaviour
          kernel,  \* the record of KernelState
          ring,    \* ring[b]: the array of buffer b and its two positions
          pc,      \* pc[b]: where the console thread of b is in its loop
          held,    \* held[t]: the character thread t is carrying
          call,    \* call[t]: the buffer operation t is in the middle of
          pass,    \* IO::inputPass, IO::outputPass
          got,     \* what the getc that returns in this step returned
          rx,      \* external: characters received and not read
          tx       \* external: the character being transmitted

vars == <<kernel, ring, pc, held, call, pass, got, rx, tx>>

running  == kernel.running
Users    == UserThreads \ {InputTCB, OutputTCB}
IOTCB(b) == IF b = "input" THEN InputTCB ELSE OutputTCB

NoCall == [op |-> "none", on |-> "none", at |-> "none"]
Call(op, b, at) == [op |-> op, on |-> b, at |-> at]

\* SSTATUS_SIE is set.
Unmasked == call[running] = NoCall

-----------------------------------------------------------------------------
(***************************************************************************)
(* CharBuffer.  kPut and kGet run in a handler, uPut and uGet mask         *)
(* interrupts themselves; they are the same otherwise.                     *)
(***************************************************************************)
RingPut(r, c) ==
  [r EXCEPT !.buffer[r.pos_w] = c, !.pos_w = (@ + 1) % Length]
RingGet(r) == [r EXCEPT !.pos_r = (@ + 1) % Length]

\* What the first wait is for, and what the last signal announces.
Wanted(op, b) == IF op = "put" THEN semPut(b) ELSE semGet(b)
Made(op, b) == IF op = "put" THEN semGet(b) ELSE semPut(b)

\* Mutants of Leave: the mutex stays taken; the last signal goes to the wrong
\* semaphore, or is missing.
LeaveLocked(k, op, b) == Signal(k, Made(op, b))
LeaveUndone(k, op, b) == Signal(Signal(k, mutex(b)), Wanted(op, b))
LeaveSilently(k, op, b) == Signal(k, mutex(b))
Leave(k, op, b) == Signal(Signal(k, mutex(b)), Made(op, b))

\* With the mutex: move the character, signal, and return to the caller.
Exchange(op, b, c, k) ==
  LET x == ring[b].buffer[ring[b].pos_r]
      isIO == running \in {InputTCB, OutputTCB}
  IN  /\ kernel' = Leave(k, op, b)
      /\ ring' = [ring EXCEPT ![b] = IF op = "put" THEN RingPut(@, c)
                                     ELSE RingGet(@)]
      /\ call' = [call EXCEPT ![running] = NoCall]
      /\ held' = [held EXCEPT ![running] =
                    IF isIO /\ op = "get" THEN x ELSE Null]
      /\ pc' = IF isIO THEN [pc EXCEPT ![b] = IF op = "put" THEN "load"
                                              ELSE "device"]
               ELSE pc
      /\ got' = IF ~isIO /\ op = "get" THEN x ELSE Null

Suspend(op, b, c, at, k) ==
  /\ kernel' = Yield(k, FALSE)
  /\ call' = [call EXCEPT ![running] = Call(op, b, at)]
  /\ held' = [held EXCEPT ![running] = c]
  /\ got' = Null
  /\ UNCHANGED <<ring, pc>>

\* mutex->wait()
WaitMutex(op, b, c, k) ==
  IF k.value[mutex(b)] >= 1
  THEN Exchange(op, b, c, Acquire(k, mutex(b), 1))
  ELSE Suspend(op, b, c, "mutex", Block(k, mutex(b), 1))

\* The whole operation, entered by the running thread.
Operate(op, b, c) ==
  /\ IF kernel.value[Wanted(op, b)] >= 1
     THEN WaitMutex(op, b, c, Acquire(kernel, Wanted(op, b), 1))
     ELSE Suspend(op, b, c, "item", Block(kernel, Wanted(op, b), 1))
  /\ UNCHANGED <<pass, rx, tx>>

\* Mutant of Resume: the argument is read again after the wait, from a register
\* that other threads have used since.
ResumeRereads ==
  LET f == call[running]
  IN  /\ ~Unmasked
      /\ \E c \in IF held[running] = Null THEN {Null} ELSE Chars :
           IF f.at = "item" THEN WaitMutex(f.op, f.on, c, kernel)
           ELSE Exchange(f.op, f.on, c, kernel)
      /\ UNCHANGED <<pass, rx, tx>>

\* contextSwitch has come back to a thread that was waiting.
Resume ==
  LET f == call[running]
  IN  /\ ~Unmasked
      /\ IF f.at = "item" THEN WaitMutex(f.op, f.on, held[running], kernel)
         ELSE Exchange(f.op, f.on, held[running], kernel)
      /\ UNCHANGED <<pass, rx, tx>>

-----------------------------------------------------------------------------
(***************************************************************************)
(* The users' calls, and the thread UserMain creating the other users.     *)
(***************************************************************************)
UserRuns == Unmasked /\ running \in Users

handleGetc ==
  /\ UserRuns
  /\ "getc" \in program
  /\ Operate("get", "input", Null)

handlePutc ==
  /\ UserRuns
  /\ "putc" \in program
  /\ \E c \in Chars : Operate("put", "output", c)

CreateUser ==
  /\ UserRuns
  /\ running = UserMain
  /\ \E t \in Users \ kernel.created : kernel' = ThreadCreate(kernel, t)
  /\ got' = Null
  /\ UNCHANGED <<ring, pc, held, call, pass, rx, tx>>

-----------------------------------------------------------------------------
(***************************************************************************)
(* IO::inputRoutine and IO::outputRoutine, which differ in what they do    *)
(* with the device.                                                        *)
(***************************************************************************)
IOAt(b, at) == Unmasked /\ running = IOTCB(b) /\ pc[b] = at

\* while (!pass) thread_dispatch();
Poll(b) ==
  /\ IOAt(b, "poll")
  /\ \/ /\ pass[b]
        /\ pc' = [pc EXCEPT ![b] = "load"]
        /\ UNCHANGED kernel
     \/ /\ ~pass[b]
        /\ kernel' = Yield(kernel, TRUE)
        /\ UNCHANGED pc
  /\ got' = Null
  /\ UNCHANGED <<ring, held, call, pass, rx, tx>>

\* Mutant of LoadStatus: any bit of the register instead of one.
LoadAnyStatus(b) ==
  /\ IOAt(b, "load")
  /\ pc' = [pc EXCEPT ![b] = IF rx # <<>> \/ tx = Null THEN "ready" ELSE "idle"]
  /\ got' = Null
  /\ UNCHANGED <<kernel, ring, held, call, pass, rx, tx>>

\* The device's status bit is read ...
LoadStatus(b) ==
  /\ IOAt(b, "load")
  /\ pc' = [pc EXCEPT ![b] =
              IF IF b = "input" THEN rx # <<>> ELSE tx = Null
              THEN "ready" ELSE "idle"]
  /\ got' = Null
  /\ UNCHANGED <<kernel, ring, held, call, pass, rx, tx>>

\* ... and assigned, over what an interrupt has stored since.
StorePass(b) ==
  /\ \/ /\ IOAt(b, "ready")
        /\ pass' = [pass EXCEPT ![b] = TRUE]
        /\ pc' = [pc EXCEPT ![b] = IF b = "input" THEN "device" ELSE "buffer"]
     \/ /\ IOAt(b, "idle")
        /\ pass' = [pass EXCEPT ![b] = FALSE]
        /\ pc' = [pc EXCEPT ![b] = "poll"]
  /\ got' = Null
  /\ UNCHANGED <<kernel, ring, held, call, rx, tx>>

ReadData ==
  /\ IOAt("input", "device")
  /\ held' = [held EXCEPT ![InputTCB] = Head(rx)]
  /\ rx' = Tail(rx)
  /\ pc' = [pc EXCEPT !["input"] = "buffer"]
  /\ got' = Null
  /\ UNCHANGED <<kernel, ring, call, pass, tx>>

\* inputBuffer->uPut(c), outputBuffer->uGet()
UseBuffer(b) ==
  /\ IOAt(b, "buffer")
  /\ Operate(IF b = "input" THEN "put" ELSE "get", b, held[running])

WriteData ==
  /\ IOAt("output", "device")
  /\ tx' = held[OutputTCB]
  /\ held' = [held EXCEPT ![OutputTCB] = Null]
  /\ pc' = [pc EXCEPT !["output"] = "load"]
  /\ got' = Null
  /\ UNCHANGED <<kernel, ring, call, pass, rx>>

IOStep(b) ==
  \/ Poll(b) \/ LoadStatus(b) \/ StorePass(b) \/ UseBuffer(b)
  \/ b = "input" /\ ReadData
  \/ b = "output" /\ WriteData

-----------------------------------------------------------------------------
(***************************************************************************)
(* Interrupts and the device.                                              *)
(***************************************************************************)
handleTimer ==
  /\ Unmasked
  /\ LET k == OnTick([kernel EXCEPT !.timeSliceCounter = @ + 1])
     IN  kernel' = IF k.timeSliceCounter >= DefaultTimeSlice
                   THEN Yield(k, TRUE) ELSE k
  /\ got' = Null
  /\ UNCHANGED <<ring, pc, held, call, pass, rx, tx>>

\* Mutant of handleExternal: only the receiver's flag.
handleExternalInput ==
  /\ Unmasked
  /\ rx # <<>> \/ tx = Null
  /\ pass' = [pass EXCEPT !["input"] = TRUE]
  /\ got' = Null
  /\ UNCHANGED <<kernel, ring, pc, held, call, rx, tx>>

\* The UART asks for service while it has a character or can take one.
handleExternal ==
  /\ Unmasked
  /\ rx # <<>> \/ tx = Null
  /\ pass' = [b \in Buffers |-> TRUE]
  /\ got' = Null
  /\ UNCHANGED <<kernel, ring, pc, held, call, rx, tx>>

\* Nobody types for a program that does not read.
Type ==
  /\ "getc" \in program
  /\ Len(rx) < MaxTyped
  /\ \E c \in Chars : rx' = Append(rx, c)
  /\ got' = Null
  /\ UNCHANGED <<kernel, ring, pc, held, call, pass, tx>>

Transmitted ==
  /\ tx # Null
  /\ tx' = Null
  /\ got' = Null
  /\ UNCHANGED <<kernel, ring, pc, held, call, pass, rx>>

-----------------------------------------------------------------------------
\* Mutant of NewBuffer: one slot more than the array has.
NewBufferOneMore(k, b) ==
  SemCreate(SemCreate(SemCreate(k, semPut(b), Length + 1), semGet(b), 0),
            mutex(b), 1)

\* new CharBuffer()
NewBuffer(k, b) ==
  SemCreate(SemCreate(SemCreate(k, semPut(b), Length), semGet(b), 0),
            mutex(b), 1)

\* IO::init, then main() creates UserMain and joins it.
Booted ==
  LET buffers == NewBuffer(NewBuffer(AtBoot, "input"), "output")
      io      == ThreadCreate(ThreadCreate(buffers, InputTCB), OutputTCB)
  IN  Yield(Block(ThreadCreate(io, UserMain), semJoin(UserMain), 1), FALSE)

Init ==
  /\ program \in Programs
  /\ kernel = Booted
  /\ ring = [b \in Buffers |-> [buffer |-> [i \in 0 .. Length - 1 |-> Null],
                                pos_w |-> 0, pos_r |-> 0]]
  /\ pc = [b \in Buffers |-> "poll"]
  /\ held = [t \in Threads |-> Null]
  /\ call = [t \in Threads |-> NoCall]
  /\ pass = [b \in Buffers |-> FALSE]
  /\ got = Null
  /\ rx = <<>>
  /\ tx = Null

Step ==
  \/ handleGetc \/ handlePutc \/ CreateUser \/ Resume
  \/ \E b \in Buffers : IOStep(b)
  \/ handleTimer \/ handleExternal \/ Type \/ Transmitted

Next == Step /\ UNCHANGED program

Spec == Init /\ [][Next]_<<program, vars>>

(***************************************************************************)
(* The processor goes on with the handler it is in; every thread gets      *)
(* further with its code in the turns it has; the timer and the UART's     *)
(* request stay pending until they are taken; a transmission ends.         *)
(* Nothing is assumed of the users and of who types.                       *)
(***************************************************************************)
Fairness ==
  /\ WF_vars(Resume)
  /\ SF_vars(handleTimer)
  /\ SF_vars(handleExternal)
  /\ WF_vars(Transmitted)
  /\ \A b \in Buffers : SF_vars(IOStep(b))

FairSpec == Spec /\ Fairness

-----------------------------------------------------------------------------
(***************************************************************************)
(* Properties.                                                             *)
(***************************************************************************)
\* Inside an operation on b that has been granted its item or its slot.
Granted(op, b) ==
  {t \in Threads : /\ call[t].op = op /\ call[t].on = b
                   /\ kernel.blockedAtSem[t] # Wanted(op, b)}

Filled(b) == kernel.value[semGet(b)] + Cardinality(Granted("get", b))
Free(b) == kernel.value[semPut(b)] + Cardinality(Granted("put", b))

\* The characters in the buffer, the oldest first.
Contents(b) ==
  [i \in 1 .. Filled(b) |->
     ring[b].buffer[(ring[b].pos_r + i - 1) % Length]]

Carried(t) == IF held[t] = Null THEN <<>> ELSE <<held[t]>>

\* The two semaphores and the two positions of a buffer tell the same: every
\* slot is filled or free, a token handed to a thread that has not run since
\* included (CharBuffer's put and get, however their callers interleave).
SlotsAreCounted ==
  \A b \in Buffers :
    /\ Filled(b) + Free(b) = Length
    /\ ring[b].pos_w = (ring[b].pos_r + Filled(b)) % Length

\* Nobody is ever inside the mutex of a buffer when another thread runs, so
\* its wait never waits: the masked section around it already excludes.
MutexNeverContended == \A b \in Buffers : kernel.value[mutex(b)] = 1

\* The output thread looks at the status, then waits for a character, then
\* writes: what it saw is still true then, and it never overwrites a character
\* under transmission.  The input thread never reads an empty receiver.
DeviceIsReady ==
  /\ (pc["output"] = "device" \/ call[OutputTCB] # NoCall) => tx = Null
  /\ pc["input"] = "device" => rx # <<>>

\* The console never stops everybody: whatever waits, some thread other than
\* the idle one can run (a buffer that is full has no reader waiting, one that
\* is empty no writer).
SomebodyCanRun == running # Idle

\* The keyboard does not wait for room.
InputPipe == INSTANCE Pipe WITH
  Writers  <- {"keyboard"},
  Capacity <- Length + 1 + MaxTyped,
  contents <- Contents("input") \o Carried(InputTCB) \o rx,
  offered  <- [w \in {"keyboard"} |-> Null],
  out      <- got

\* From the keyboard to getc, across the receiver, the input thread and the
\* buffer, characters keep their order and none is lost, doubled or changed.
ImplementsInputPipe == InputPipe!Spec

OutputPipe == INSTANCE Pipe WITH
  Writers  <- Users,
  Capacity <- Length + 1,
  contents <- Carried(OutputTCB) \o Contents("output"),
  offered  <- [t \in Users |-> held[t]],
  out      <- tx

\* The same from putc to the UART; what a putc that had to wait puts in the
\* end is the character it was called with.
ImplementsOutputPipe == OutputPipe!Spec

\* Every character put is transmitted, although the flag an interrupt sets can
\* be overwritten by the assignment of a status read before it.
PutIsTransmitted ==
  \A c \in Chars :
    c \in Range(Carried(OutputTCB) \o Contents("output")) ~> tx = c

\* A character typed while a thread waits in getc makes a getc return.
TypedIsRead ==
  rx # <<>> /\ (\E t \in Users : call[t].op = "get") ~> got # Null
=============================================================================
