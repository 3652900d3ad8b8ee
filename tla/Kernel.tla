------------------------------ MODULE Kernel ------------------------------
(***************************************************************************)
(* The kernel at work: src/src/kernel.cpp (the trap and system call        *)
(* handlers) over the routines of TCB, kSemaphore, Sleep and Scheduler,    *)
(* with the user's threads as an environment that may make any system call *)
(* of Calls at any moment it has the processor, and main() of              *)
(* src/src/main.cpp in the thread Master.                                  *)
(*                                                                         *)
(* Interrupts are masked in a handler, so a handler is one step, unless it *)
(* switches context: then frame[t] keeps what it was doing, and the rest   *)
(* of it is another step (Resume) when thread t runs again.                *)
(***************************************************************************)
EXTENDS TCB

CONSTANTS Calls,         \* the system calls the program makes
          MaxTimeout,    \* bound on the timeouts it asks for
          MaxInit,       \* bound on the initial value of its semaphores
          MaxValue,      \* it does not signal a semaphore beyond this value
          ShutdownSleep  \* the ticks main() sleeps before it shuts down

VARIABLES kernel,   \* the record of KernelState
          frame,    \* frame[t]: the handler t is in the middle of
          returned, \* the call that returned in this step, if one did
          mainPc    \* where main() is

vars == <<kernel, frame, returned, mainPc>>

CallNames ==
  {"threadCreate", "threadExit", "exception", "dispatch", "join", "timedJoin",
   "joinAll", "timedJoinAll", "semOpen", "semClose", "semWait", "semSignal",
   "semTimedWait", "semTryWait", "timeSleep", "send", "receive"}

ASSUME ParametersAssumption ==
  /\ Calls \subseteq CallNames
  /\ MaxTimeout \in Nat /\ MaxInit \in Nat /\ MaxValue \in Nat
  /\ ShutdownSleep \in Nat \ {0}

Frame(call, on, msg) == [call |-> call, on |-> on, msg |-> msg]
UserMode  == Frame("user", Null, Null)
TickFrame == Frame("tick", Null, Null)

Nothing == [thread |-> Null, call |-> "none", on |-> Null, value |-> 0]

running    == kernel.running
Running    == mainPc # "halted"
InUserMode == Running /\ frame[running] = UserMode

\* The semaphores and the threads the program has a handle of.  That of
\* UserMain is a local variable of main().
OpenSems == kernel.opened \cap UserSems
Handles  == kernel.created \ {Master, Idle, UserMain}

-----------------------------------------------------------------------------
\* Mutant of Rest: receive does not free the slot.
RestKeepsSlot(f, k) ==
  IF f.call = "send"
  THEN Signal([k EXCEPT !.message[f.on] = f.msg], semReceive(f.on))
  ELSE k

\* The part of a handler after its only suspension point.  For send, setMsg
\* and semReceive->signal; for receive, semSend->signal.
Rest(f, k) ==
  CASE f.call = "send" ->
         Signal([k EXCEPT !.message[f.on] = f.msg], semReceive(f.on))
    [] f.call = "receive" -> Signal(k, semSend(k.running))
    [] OTHER -> k

\* What the handler returns; outcome is what its wait() returned.
Result(f, k, outcome) ==
  CASE f.call \in {"joinAll", "send", "dispatch", "timeSleep"} -> 0
    [] f.call = "timedJoinAll" -> k.numOfActiveChildren[k.running]
    [] f.call = "receive"      -> k.message[k.running]
    [] f.call = "threadExit"   -> ERR_THREAD_EXIT
    [] OTHER                   -> outcome

Return(f, k, value) ==
  /\ kernel' = k
  /\ frame' = [frame EXCEPT ![running] = UserMode]
  /\ returned' = IF f = TickFrame THEN Nothing
                 ELSE [thread |-> running, call |-> f.call, on |-> f.on,
                       value |-> value]

Complete(f, k, outcome) == Return(f, Rest(f, k), Result(f, k, outcome))

Suspend(f, k) ==
  /\ kernel' = k
  /\ frame' = [frame EXCEPT ![running] = f]
  /\ returned' = Nothing

\* kSemaphore::wait, called from the handler f.
Wait(f, s, tokens) ==
  \/ /\ s \notin kernel.active
     /\ Complete(f, kernel, ERR_SEM_DEAD)
  \/ /\ s \in kernel.active
     /\ kernel.value[s] >= tokens
     /\ LET k == Acquire(kernel, s, tokens)
        IN  Complete(f, k, ResolveManner(k))
  \/ /\ s \in kernel.active
     /\ kernel.value[s] < tokens
     /\ Suspend(f, Yield(Block(kernel, s, tokens), FALSE))

\* kSemaphore::timedWait.
TimedWait(f, s, timeout, tokens) ==
  \/ /\ s \notin kernel.active
     /\ Complete(f, kernel, ERR_SEM_DEAD)
  \/ /\ s \in kernel.active
     /\ kernel.value[s] >= tokens
     /\ LET k == Acquire(kernel, s, tokens)
        IN  Complete(f, k, ResolveManner(k))
  \/ /\ s \in kernel.active
     /\ kernel.value[s] < tokens
     /\ timeout = 0
     /\ LET k == BlockForNoTime(kernel, s)
        IN  Complete(f, k, ResolveManner(k))
  \/ /\ s \in kernel.active
     /\ kernel.value[s] < tokens
     /\ timeout > 0
     /\ Suspend(f, Yield(SleepPut(Block(kernel, s, tokens), running, timeout),
                         FALSE))

-----------------------------------------------------------------------------
(***************************************************************************)
(* The handlers.  Each is entered from user mode by an ecall.              *)
(***************************************************************************)
Makes(call) ==
  /\ InUserMode
  /\ running \in UserThreads
  /\ call \in Calls

handleThreadCreate ==
  /\ Makes("threadCreate")
  /\ \E t \in UserThreads \ kernel.created :
       \/ Return(Frame("threadCreate", t, Null), ThreadCreate(kernel, t), 0)
       \* no memory for its stacks: what there is of them is given back, and
       \* its four semaphores are closed; nobody has a handle of these, which
       \* stay in the kernel's list until the shutdown
       \/ Return(Frame("threadCreate", t, Null), kernel, ERR_THREAD_CREATE)
  /\ UNCHANGED mainPc

Exit == Suspend(Frame("threadExit", Null, Null), Finish(kernel))

handleThreadExit ==
  /\ Makes("threadExit")
  /\ Exit
  /\ UNCHANGED mainPc

\* A trap that is neither a call nor an interrupt ends the thread.
handleException ==
  /\ Makes("exception")
  /\ Exit
  /\ UNCHANGED mainPc

\* Scheduler::spin returns at once, and so does its wrapper.
IdleExit ==
  /\ InUserMode
  /\ running = Idle
  /\ Exit
  /\ UNCHANGED mainPc

handleThreadDispatch ==
  /\ Makes("dispatch")
  /\ Suspend(Frame("dispatch", Null, Null), Yield(kernel, TRUE))
  /\ UNCHANGED mainPc

Join(t) ==
  LET f == Frame("join", t, Null)
  IN  \/ t = running /\ Return(f, kernel, ERR_THREAD_SELFJOIN)
      \/ t # running /\ t \in kernel.finished /\ Return(f, kernel, 0)
      \/ /\ t # running /\ t \notin kernel.finished
         /\ Wait(f, semJoin(t), 1)

handleJoin ==
  /\ Makes("join")
  /\ \E t \in Handles : Join(t)
  /\ UNCHANGED mainPc

TimedJoin(t, timeout) ==
  LET f == Frame("timedJoin", t, Null)
  IN  \/ t = running /\ Return(f, kernel, ERR_THREAD_SELFJOIN)
      \/ t # running /\ t \in kernel.finished /\ Return(f, kernel, 0)
      \/ /\ t # running /\ t \notin kernel.finished
         /\ TimedWait(f, semJoin(t), timeout, 1)

handleTimedJoin ==
  /\ Makes("timedJoin")
  /\ \E t \in Handles, timeout \in 0 .. MaxTimeout : TimedJoin(t, timeout)
  /\ UNCHANGED mainPc

handleJoinAll ==
  /\ Makes("joinAll")
  /\ Wait(Frame("joinAll", Null, Null), semJoinAll(running),
          kernel.numOfActiveChildren[running])
  /\ UNCHANGED mainPc

handletimedJoinAll ==
  /\ Makes("timedJoinAll")
  /\ \E timeout \in 0 .. MaxTimeout :
       TimedWait(Frame("timedJoinAll", Null, Null), semJoinAll(running),
                 timeout, kernel.numOfActiveChildren[running])
  /\ UNCHANGED mainPc

handleSemOpen ==
  /\ Makes("semOpen")
  /\ \E s \in UserSems \ kernel.opened, init \in 0 .. MaxInit :
       Return(Frame("semOpen", s, Null), SemCreate(kernel, s, init), 0)
  /\ UNCHANGED mainPc

handleSemClose ==
  /\ Makes("semClose")
  /\ \E s \in OpenSems :
       Return(Frame("semClose", s, Null), Close(kernel, s),
              IF s \in kernel.active THEN 0 ELSE ERR_SEM_DEAD)
  /\ UNCHANGED mainPc

handleSemWait ==
  /\ Makes("semWait")
  /\ \E s \in OpenSems : Wait(Frame("semWait", s, Null), s, 1)
  /\ UNCHANGED mainPc

handleSemSignal ==
  /\ Makes("semSignal")
  /\ \E s \in OpenSems :
       /\ kernel.value[s] < MaxValue
       /\ Return(Frame("semSignal", s, Null), Signal(kernel, s),
                 IF s \in kernel.active THEN 0 ELSE ERR_SEM_DEAD)
  /\ UNCHANGED mainPc

handleSemTimedWait ==
  /\ Makes("semTimedWait")
  /\ \E s \in OpenSems, timeout \in 0 .. MaxTimeout :
       TimedWait(Frame("semTimedWait", s, Null), s, timeout, 1)
  /\ UNCHANGED mainPc

handleSemTryWait ==
  /\ Makes("semTryWait")
  /\ \E s \in OpenSems :
       LET f == Frame("semTryWait", s, Null)
       IN  \/ /\ s \notin kernel.active
              /\ Return(f, kernel, ERR_SEM_DEAD)
           \/ /\ s \in kernel.active /\ kernel.value[s] >= 1
              /\ Return(f, Acquire(kernel, s, 1), 0)
           \/ /\ s \in kernel.active /\ kernel.value[s] = 0
              /\ Return(f, Acquire(kernel, s, 0), 1)
  /\ UNCHANGED mainPc

TimeSleep(timeout) ==
  LET f == Frame("timeSleep", Null, Null)
  IN  \/ timeout = 0 /\ Return(f, kernel, ERR_SLEEP_ZERO)
      \/ /\ timeout > 0
         /\ Suspend(f, Yield(SleepPut(kernel, running, timeout), FALSE))

handleTimeSleep ==
  /\ Makes("timeSleep")
  /\ \E timeout \in 0 .. MaxTimeout : TimeSleep(timeout)
  /\ UNCHANGED mainPc

handleSend ==
  /\ Makes("send")
  /\ \E t \in Handles, msg \in Messages :
       LET f == Frame("send", t, msg)
       IN  \/ t = running /\ Return(f, kernel, 0)
           \/ t # running /\ Wait(f, semSend(t), 1)
  /\ UNCHANGED mainPc

handleReceive ==
  /\ Makes("receive")
  /\ Wait(Frame("receive", Null, Null), semReceive(running), 1)
  /\ UNCHANGED mainPc

-----------------------------------------------------------------------------
\* The timer interrupt, taken when SIE is set, that is in user mode only.
handleTimer ==
  /\ InUserMode
  /\ LET k == OnTick([kernel EXCEPT !.timeSliceCounter = @ + 1])
     IN  \/ /\ k.timeSliceCounter >= DefaultTimeSlice
            /\ Suspend(TickFrame, Yield(k, TRUE))
         \/ /\ k.timeSliceCounter < DefaultTimeSlice
            /\ Return(TickFrame, k, 0)
  /\ UNCHANGED mainPc

\* contextSwitch has come back to a thread: the rest of its handler.
Resume ==
  /\ Running
  /\ frame[running] # UserMode
  /\ Complete(frame[running], kernel, ResolveManner(kernel))
  /\ UNCHANGED mainPc

-----------------------------------------------------------------------------
(***************************************************************************)
(* main() from the creation of the thread of userMain on.                  *)
(***************************************************************************)
MainAt(pc, next) ==
  /\ InUserMode
  /\ running = Master
  /\ mainPc = pc
  /\ mainPc' = next

MainCreate ==
  /\ MainAt("create", "join")
  /\ Return(Frame("threadCreate", UserMain, Null),
            ThreadCreate(kernel, UserMain), 0)

MainJoin ==
  /\ MainAt("join", "sleep")
  /\ Join(UserMain)

\* That main() first prints "Kernel finished", by putc under MLOCK, is left out.
MainSleep ==
  /\ MainAt("sleep", "shutdown")
  /\ TimeSleep(ShutdownSleep)

\* With interrupts masked: kSemaphoreDeleteAll, Sleep::wakeUpAll,
\* Scheduler::close, TCB::threadDeleteAll and Kernel::terminate.
Shutdown ==
  /\ MainAt("shutdown", "halted")
  /\ kernel' = [kernel EXCEPT
       !.active = {}, !.opened = {}, !.created = {},
       !.ready = <<>>, !.sleepList = <<>>,
       !.remaining    = [t \in Threads |-> 0],
       !.blocked      = [s \in Sems |-> <<>>],
       !.blockedAtSem = [t \in Threads |-> Null],
       !.tokensNeeded = [t \in Threads |-> 0],
       !.value        = [s \in Sems |-> 0]]
  /\ returned' = Nothing
  /\ UNCHANGED frame

Halted == ~Running /\ UNCHANGED vars

-----------------------------------------------------------------------------
\* main() has initialised the kernel.
Init ==
  /\ kernel = AtBoot
  /\ frame = [t \in Threads |-> UserMode]
  /\ returned = Nothing
  /\ mainPc = "create"

SystemCall ==
  \/ handleThreadCreate \/ handleThreadExit \/ handleThreadDispatch
  \/ handleJoin \/ handleTimedJoin \/ handleJoinAll \/ handletimedJoinAll
  \/ handleSemOpen \/ handleSemClose \/ handleSemWait \/ handleSemSignal
  \/ handleSemTimedWait \/ handleSemTryWait \/ handleTimeSleep
  \/ handleSend \/ handleReceive

MainStep == MainCreate \/ MainJoin \/ MainSleep \/ Shutdown

Next ==
  \/ SystemCall \/ handleException \/ IdleExit \/ handleTimer \/ Resume
  \/ MainStep \/ Halted

Spec == Init /\ [][Next]_vars

(***************************************************************************)
(* The processor goes on executing the handler it is in, main() and the    *)
(* idle loop; the timer keeps ticking and its pending bit (SSIP) stays set *)
(* until the trap is taken, so a tick cannot be missed for ever by masking *)
(* interrupts now and then.  Nothing is assumed of the user's threads: one *)
(* may compute for ever and make no call.                                  *)
(* The first conjunct is weak fairness, the others are strong: the timer   *)
(* stays pending, and main() gets further in each turn it has.  They are   *)
(* written out with the condition that enables the action.                 *)
(***************************************************************************)
Fairness ==
  /\ []<>~(Running /\ frame[running] # UserMode) \/ []<><<Resume>>_vars
  /\ <>[]~InUserMode \/ []<><<handleTimer>>_vars
  /\ <>[]~(InUserMode /\ running = Master) \/ []<><<MainStep>>_vars

FairSpec == Spec /\ Fairness
=============================================================================
