--------------------------- MODULE Kernel_proofs ---------------------------
(***************************************************************************)
(* Theorems about Kernel.tla, for every set of threads, semaphores and     *)
(* messages and every bound: the type of the state, the safety properties  *)
(* of KernelProperties.tla that the invariant of KernelInvariant.tla       *)
(* implies, and the order in which threads are served.                     *)
(***************************************************************************)
EXTENDS KernelInvariant, Routines_proofs

\* What a handler does after its wait keeps the record well typed.
LEMMA RestType ==
  ASSUME NEW k \in Kernels, NEW f \in Frames
  PROVE  Rest(f, k) \in Kernels
<1>1. CASE f.call = "send"
  <2> DEFINE m == [k EXCEPT !.message[f.on] = f.msg]
  <2>1. f.msg \in Messages \cup {Null}
    BY DEF Frames
  <2>2. m \in Kernels
    BY <2>1 DEF Kernels
  <2> HIDE DEF m
  <2>3. Signal(m, semReceive(f.on)) \in Kernels
    BY <2>2, SignalType
  <2> QED  BY <1>1, <2>3 DEF Rest, m
<1>2. CASE f.call = "receive"
  BY <1>2, SignalType DEF Rest
<1>3. CASE f.call # "send" /\ f.call # "receive"
  BY <1>3 DEF Rest
<1> QED  BY <1>1, <1>2, <1>3

\* The answer of a call is a number, a message or nothing.
LEMMA ResultType ==
  ASSUME NEW k \in Kernels, NEW f, NEW outcome \in Int
  PROVE  Result(f, k, outcome) \in Int \cup Messages \cup {Null}
<1>1. /\ k.numOfActiveChildren[k.running] \in Int
      /\ k.message[k.running] \in Messages \cup {Null}
  BY DEF Kernels
<1>2. -1 \in Int
  OBVIOUS
<1> QED  BY <1>1, <1>2 DEF Result, ERR_THREAD_EXIT

-----------------------------------------------------------------------------
(***************************************************************************)
(* The pieces of an action keep the type of the state.                     *)
(***************************************************************************)
StepOK == kernel' \in Kernels /\ frame' \in [Threads -> Frames] /\ returned' \in Returns

\* What a handler leaves on its stack is a frame.
LEMMA FrameType ==
  ASSUME NEW call \in CallNames \cup {"user", "tick"},
         NEW on \in Threads \cup Sems \cup {Null}, NEW msg \in Messages \cup {Null}
  PROVE  Frame(call, on, msg) \in Frames
BY DEF Frame, Frames

\* A handler that returns keeps the type of the state.
LEMMA ReturnType ==
  ASSUME TypeOK, NEW f \in Frames, NEW k \in Kernels,
         NEW v \in Int \cup Messages \cup {Null}, Return(f, k, v)
  PROVE  StepOK
<1>1. kernel' = k /\ running \in Threads
  BY DEF Return, running, TypeOK, Kernels
<1>2. UserMode \in Frames
  BY FrameType DEF UserMode
<1>3. frame' \in [Threads -> Frames]
  BY <1>2 DEF Return, TypeOK
<1>4. Nothing \in Returns
  BY DEF Nothing, Returns
<1>5. [thread |-> running, call |-> f.call, on |-> f.on, value |-> v] \in Returns
  BY <1>1 DEF Frames, Returns
<1> QED  BY <1>1, <1>3, <1>4, <1>5 DEF StepOK, Return

\* So does one that switches context in its middle,
LEMMA SuspendType ==
  ASSUME TypeOK, NEW f \in Frames, NEW k \in Kernels, Suspend(f, k)
  PROVE  StepOK
<1>1. frame' \in [Threads -> Frames]
  BY DEF Suspend, TypeOK
<1>2. Nothing \in Returns
  BY DEF Nothing, Returns
<1> QED  BY <1>1, <1>2 DEF StepOK, Suspend

\* and one that does its rest and returns.
LEMMA CompleteType ==
  ASSUME TypeOK, NEW f \in Frames, NEW k \in Kernels, NEW outcome \in Int,
         Complete(f, k, outcome)
  PROVE  StepOK
<1>1. Rest(f, k) \in Kernels
  BY RestType
<1>2. Result(f, k, outcome) \in Int \cup Messages \cup {Null}
  BY ResultType
<1> QED  BY <1>1, <1>2, ReturnType DEF Complete

\* A call that waits at a semaphore (kSemaphore::wait).
LEMMA WaitType ==
  ASSUME TypeOK, NEW f \in Frames, NEW s, NEW tokens \in Nat, Wait(f, s, tokens)
  PROVE  StepOK
<1>1. kernel \in Kernels
  BY DEF TypeOK
<1>2. s \in kernel.active => s \in Sems
  BY <1>1 DEF Kernels
<1>3. CASE s \notin kernel.active
  <2>1. Complete(f, kernel, ERR_SEM_DEAD)
    BY <1>3 DEF Wait
  <2>2. ERR_SEM_DEAD \in Int
    BY DEF ERR_SEM_DEAD
  <2> QED  BY <1>1, <2>1, <2>2, CompleteType
<1>4. CASE s \in kernel.active /\ kernel.value[s] >= tokens
  <2> DEFINE k == Acquire(kernel, s, tokens)
  <2>1. k \in Kernels
    BY <1>1, <1>2, <1>4, AcquireType
  <2>2. ~(kernel.value[s] < tokens)
    BY <1>1, <1>2, <1>4 DEF Kernels
  <2>3. Complete(f, k, ResolveManner(k))
    BY <1>4, <2>2 DEF Wait
  <2> HIDE DEF k
  <2> QED  BY <2>1, <2>3, CompleteType, ResolveMannerType
<1>5. CASE s \in kernel.active /\ kernel.value[s] < tokens
  <2>1. Block(kernel, s, tokens) \in Kernels
    BY <1>1, <1>2, <1>5, BlockType
  <2>2. ~(kernel.value[s] >= tokens)
    BY <1>1, <1>2, <1>5 DEF Kernels
  <2>3. Suspend(f, Yield(Block(kernel, s, tokens), FALSE))
    BY <1>5, <2>2 DEF Wait
  <2> QED  BY <2>1, <2>3, YieldType, SuspendType
<1>6. s \in kernel.active => kernel.value[s] >= tokens \/ kernel.value[s] < tokens
  BY <1>1, <1>2 DEF Kernels
<1> QED  BY <1>3, <1>4, <1>5, <1>6

\* A call that waits with a timeout (kSemaphore::timedWait).
LEMMA TimedWaitType ==
  ASSUME TypeOK, NEW f \in Frames, NEW s, NEW timeout \in Nat, NEW tokens \in Nat,
         TimedWait(f, s, timeout, tokens)
  PROVE  StepOK
<1>1. kernel \in Kernels /\ running \in Threads
  BY DEF TypeOK, running, Kernels
<1>2. s \in kernel.active => s \in Sems
  BY <1>1 DEF Kernels
<1>3. CASE s \notin kernel.active
  <2>1. Complete(f, kernel, ERR_SEM_DEAD)
    BY <1>3 DEF TimedWait
  <2>2. ERR_SEM_DEAD \in Int
    BY DEF ERR_SEM_DEAD
  <2> QED  BY <1>1, <2>1, <2>2, CompleteType
<1>4. CASE s \in kernel.active /\ kernel.value[s] >= tokens
  <2> DEFINE k == Acquire(kernel, s, tokens)
  <2>1. k \in Kernels
    BY <1>1, <1>2, <1>4, AcquireType
  <2>2. ~(kernel.value[s] < tokens)
    BY <1>1, <1>2, <1>4 DEF Kernels
  <2>3. Complete(f, k, ResolveManner(k))
    BY <1>4, <2>2 DEF TimedWait
  <2> HIDE DEF k
  <2> QED  BY <2>1, <2>3, CompleteType, ResolveMannerType
<1>5. CASE s \in kernel.active /\ kernel.value[s] < tokens
  <2>0. ~(kernel.value[s] >= tokens)
    BY <1>1, <1>2, <1>5 DEF Kernels
  <2>1. CASE timeout = 0
    <3> DEFINE k == BlockForNoTime(kernel, s)
    <3>1. k \in Kernels
      BY <1>1, <1>2, <1>5, BlockForNoTimeType
    <3>2. Complete(f, k, ResolveManner(k))
      BY <1>5, <2>0, <2>1 DEF TimedWait
    <3> HIDE DEF k
    <3> QED  BY <3>1, <3>2, CompleteType, ResolveMannerType
  <2>2. CASE timeout > 0
    <3> DEFINE k == SleepPut(Block(kernel, s, tokens), running, timeout)
    <3>1. k \in Kernels
      BY <1>1, <1>2, <1>5, BlockType, SleepPutType
    <3>2. Suspend(f, Yield(k, FALSE))
      <4>1. timeout # 0
        BY <2>2
      <4> QED  BY <1>5, <2>0, <2>2, <4>1 DEF TimedWait
    <3> HIDE DEF k
    <3> QED  BY <3>1, <3>2, YieldType, SuspendType
  <2> QED  BY <2>1, <2>2
<1>6. s \in kernel.active => kernel.value[s] >= tokens \/ kernel.value[s] < tokens
  BY <1>1, <1>2 DEF Kernels
<1> QED  BY <1>3, <1>4, <1>5, <1>6

\* handleThreadJoin, also of a thread that has finished.
LEMMA JoinType ==
  ASSUME TypeOK, NEW t \in Threads, Join(t)
  PROVE  StepOK
<1> DEFINE f == Frame("join", t, Null)
<1>1. f \in Frames /\ kernel \in Kernels /\ semJoin(t) \in Sems
  BY FrameType DEF CallNames, TypeOK, Sems, SemsOf
<1>2. ERR_THREAD_SELFJOIN \in Int /\ 0 \in Int
  BY DEF ERR_THREAD_SELFJOIN
<1> HIDE DEF f
<1>3. \/ Return(f, kernel, ERR_THREAD_SELFJOIN)
      \/ Return(f, kernel, 0)
      \/ Wait(f, semJoin(t), 1)
  BY DEF Join, f
<1> QED  BY <1>1, <1>2, <1>3, ReturnType, WaitType

\* handleThreadTimedJoin.
LEMMA TimedJoinType ==
  ASSUME TypeOK, NEW t \in Threads, NEW timeout \in Nat, TimedJoin(t, timeout)
  PROVE  StepOK
<1> DEFINE f == Frame("timedJoin", t, Null)
<1>1. f \in Frames /\ kernel \in Kernels
  BY FrameType DEF CallNames, TypeOK
<1>2. ERR_THREAD_SELFJOIN \in Int /\ 0 \in Int
  BY DEF ERR_THREAD_SELFJOIN
<1> HIDE DEF f
<1>3. \/ Return(f, kernel, ERR_THREAD_SELFJOIN)
      \/ Return(f, kernel, 0)
      \/ TimedWait(f, semJoin(t), timeout, 1)
  BY DEF TimedJoin, f
<1> QED  BY <1>1, <1>2, <1>3, ReturnType, TimedWaitType

\* handleTimeSleep.
LEMMA TimeSleepType ==
  ASSUME TypeOK, NEW timeout \in Nat, TimeSleep(timeout)
  PROVE  StepOK
<1> DEFINE f == Frame("timeSleep", Null, Null)
           k == SleepPut(kernel, running, timeout)
<1>1. f \in Frames /\ kernel \in Kernels /\ running \in Threads
  BY FrameType DEF CallNames, TypeOK, Kernels, running
<1>2. Yield(k, FALSE) \in Kernels
  BY <1>1, SleepPutType, YieldType
<1>3. ERR_SLEEP_ZERO \in Int
  BY DEF ERR_SLEEP_ZERO
<1> HIDE DEF f, k
<1>4. Return(f, kernel, ERR_SLEEP_ZERO) \/ Suspend(f, Yield(k, FALSE))
  BY DEF TimeSleep, f, k
<1> QED  BY <1>1, <1>2, <1>3, <1>4, ReturnType, SuspendType

\* handleThreadExit and the end of a thread by an exception.
LEMMA ExitType ==
  ASSUME TypeOK, Exit
  PROVE  StepOK
<1>1. Frame("threadExit", Null, Null) \in Frames
  BY FrameType DEF CallNames
<1>2. Finish(kernel) \in Kernels
  BY FinishType DEF TypeOK
<1> QED  BY <1>1, <1>2, SuspendType DEF Exit

-----------------------------------------------------------------------------
(***************************************************************************)
(* Every action keeps the type of the state.                               *)
(***************************************************************************)
LEMMA InitType == Init => TypeOK
<1> SUFFICES ASSUME Init PROVE TypeOK
  OBVIOUS
<1>1. kernel \in Kernels
  BY BootGood DEF Init
<1>2. UserMode \in Frames
  BY FrameType DEF UserMode
<1>3. Nothing \in Returns
  BY DEF Nothing, Returns
<1> QED  BY <1>1, <1>2, <1>3 DEF Init, TypeOK

\* Every system call keeps the type of the state.
LEMMA SystemCallType ==
  ASSUME TypeOK, SystemCall
  PROVE  StepOK
<1>0. /\ kernel \in Kernels /\ running \in Threads
      /\ \A t \in Threads : t \in Threads \cup Sems \cup {Null}
      /\ \A s \in Sems : s \in Threads \cup Sems \cup {Null}
      /\ kernel.numOfActiveChildren[running] \in Nat
  <2>1. kernel \in Kernels
    BY DEF TypeOK
  <2>2. kernel.running \in Threads
        /\ kernel.numOfActiveChildren \in [Threads -> 0 .. CountMod - 1]
    BY <2>1 DEF Kernels
  <2>3. \A n \in 0 .. CountMod - 1 : n \in Nat
    BY NumbersAssumption
  <2> QED  BY <2>1, <2>2, <2>3 DEF running
<1>1. /\ \A t \in Handles : t \in Threads
      /\ \A s \in OpenSems : s \in Sems
      /\ \A t \in UserThreads : t \in Threads
      /\ \A timeout \in 0 .. MaxTimeout : timeout \in Nat
      /\ \A s \in UserSems : s \in Sems
      /\ \A init \in 0 .. MaxInit : init \in Nat
  BY <1>0, ParametersAssumption DEF Handles, OpenSems, UserThreads, Sems, Kernels
<1>2. /\ ERR_THREAD_CREATE \in Int /\ ERR_SEM_DEAD \in Int /\ 0 \in Int /\ 1 \in Int
      /\ 0 \in Nat /\ 1 \in Nat
  BY DEF ERR_THREAD_CREATE, ERR_SEM_DEAD
<1>3. \A call \in CallNames, on \in Threads \cup Sems \cup {Null},
        msg \in Messages \cup {Null} : Frame(call, on, msg) \in Frames
  BY FrameType
<1>4. CASE handleThreadCreate
  <2>1. PICK t \in UserThreads :
          \/ Return(Frame("threadCreate", t, Null), ThreadCreate(kernel, t), 0)
          \/ Return(Frame("threadCreate", t, Null), kernel, ERR_THREAD_CREATE)
    BY <1>4 DEF handleThreadCreate
  <2>2. ThreadCreate(kernel, t) \in Kernels
    BY <1>0, <1>1, ThreadCreateType
  <2>3. Frame("threadCreate", t, Null) \in Frames
    BY <1>1, <1>3 DEF CallNames
  <2> QED  BY <1>0, <1>2, <2>1, <2>2, <2>3, ReturnType
<1>5. CASE handleThreadExit
  BY <1>5, ExitType DEF handleThreadExit
<1>6. CASE handleThreadDispatch
  <2>1. Yield(kernel, TRUE) \in Kernels
    BY <1>0, YieldType
  <2>2. Frame("dispatch", Null, Null) \in Frames
    BY <1>3 DEF CallNames
  <2> QED  BY <1>6, <2>1, <2>2, SuspendType DEF handleThreadDispatch
<1>7. CASE handleJoin
  BY <1>1, <1>7, JoinType DEF handleJoin
<1>8. CASE handleTimedJoin
  BY <1>1, <1>8, TimedJoinType DEF handleTimedJoin
<1>9. CASE handleJoinAll
  <2>1. Frame("joinAll", Null, Null) \in Frames
    BY <1>3 DEF CallNames
  <2> QED  BY <1>0, <1>9, <2>1, WaitType DEF handleJoinAll
<1>10. CASE handletimedJoinAll
  <2>1. Frame("timedJoinAll", Null, Null) \in Frames
    BY <1>3 DEF CallNames
  <2> QED  BY <1>0, <1>1, <1>10, <2>1, TimedWaitType DEF handletimedJoinAll
<1>11. CASE handleSemOpen
  <2>1. PICK s \in UserSems, init \in 0 .. MaxInit :
          Return(Frame("semOpen", s, Null), SemCreate(kernel, s, init), 0)
    BY <1>11 DEF handleSemOpen
  <2>2. SemCreate(kernel, s, init) \in Kernels
    BY <1>0, <1>1, SemCreateType
  <2>3. Frame("semOpen", s, Null) \in Frames
    BY <1>1, <1>3 DEF CallNames
  <2> QED  BY <1>2, <2>1, <2>2, <2>3, ReturnType
<1>12. CASE handleSemClose
  <2>1. PICK s \in OpenSems :
          Return(Frame("semClose", s, Null), Close(kernel, s),
                 IF s \in kernel.active THEN 0 ELSE ERR_SEM_DEAD)
    BY <1>12 DEF handleSemClose
  <2>2. Close(kernel, s) \in Kernels
    BY <1>0, CloseType
  <2>3. Frame("semClose", s, Null) \in Frames
    BY <1>1, <1>3 DEF CallNames
  <2> QED  BY <1>2, <2>1, <2>2, <2>3, ReturnType
<1>13. CASE handleSemWait
  <2>1. PICK s \in OpenSems : Wait(Frame("semWait", s, Null), s, 1)
    BY <1>13 DEF handleSemWait
  <2>2. Frame("semWait", s, Null) \in Frames
    BY <1>1, <1>3 DEF CallNames
  <2> QED  BY <1>2, <2>1, <2>2, WaitType
<1>14. CASE handleSemSignal
  <2>1. PICK s \in OpenSems :
          Return(Frame("semSignal", s, Null), Signal(kernel, s),
                 IF s \in kernel.active THEN 0 ELSE ERR_SEM_DEAD)
    BY <1>14 DEF handleSemSignal
  <2>2. Signal(kernel, s) \in Kernels
    BY <1>0, SignalType
  <2>3. Frame("semSignal", s, Null) \in Frames
    BY <1>1, <1>3 DEF CallNames
  <2> QED  BY <1>2, <2>1, <2>2, <2>3, ReturnType
<1>15. CASE handleSemTimedWait
  <2>1. PICK s \in OpenSems, timeout \in 0 .. MaxTimeout :
          TimedWait(Frame("semTimedWait", s, Null), s, timeout, 1)
    BY <1>15 DEF handleSemTimedWait
  <2>2. Frame("semTimedWait", s, Null) \in Frames
    BY <1>1, <1>3 DEF CallNames
  <2> QED  BY <1>1, <1>2, <2>1, <2>2, TimedWaitType
<1>16. CASE handleSemTryWait
  <2>1. PICK s \in OpenSems :
          \/ Return(Frame("semTryWait", s, Null), kernel, ERR_SEM_DEAD)
          \/ /\ kernel.value[s] >= 1
             /\ Return(Frame("semTryWait", s, Null), Acquire(kernel, s, 1), 0)
          \/ /\ kernel.value[s] >= 0
             /\ Return(Frame("semTryWait", s, Null), Acquire(kernel, s, 0), 1)
    <3>1. \A s \in OpenSems : kernel.value[s] >= 0
      BY <1>0, <1>1 DEF Kernels
    <3> QED  BY <1>16, <3>1 DEF handleSemTryWait
  <2>2. Frame("semTryWait", s, Null) \in Frames
    BY <1>1, <1>3 DEF CallNames
  <2>3. /\ kernel.value[s] >= 1 => Acquire(kernel, s, 1) \in Kernels
        /\ kernel.value[s] >= 0 => Acquire(kernel, s, 0) \in Kernels
    BY <1>0, <1>1, AcquireType
  <2> QED  BY <1>0, <1>2, <2>1, <2>2, <2>3, ReturnType
<1>17. CASE handleTimeSleep
  BY <1>1, <1>17, TimeSleepType DEF handleTimeSleep
<1>18. CASE handleSend
  <2>1. PICK t \in Handles, msg \in Messages :
          \/ Return(Frame("send", t, msg), kernel, 0)
          \/ Wait(Frame("send", t, msg), semSend(t), 1)
    BY <1>18 DEF handleSend
  <2>2. Frame("send", t, msg) \in Frames
    BY <1>1, <1>3 DEF CallNames
  <2> QED  BY <1>0, <1>2, <2>1, <2>2, ReturnType, WaitType
<1>19. CASE handleReceive
  <2>1. Frame("receive", Null, Null) \in Frames
    BY <1>3 DEF CallNames
  <2> QED  BY <1>2, <1>19, <2>1, WaitType DEF handleReceive
<1> QED
  BY <1>4, <1>5, <1>6, <1>7, <1>8, <1>9, <1>10, <1>11, <1>12, <1>13, <1>14,
     <1>15, <1>16, <1>17, <1>18, <1>19 DEF SystemCall

\* So does the timer interrupt,
LEMMA TimerType ==
  ASSUME TypeOK, handleTimer
  PROVE  StepOK
<1> DEFINE k == OnTick([kernel EXCEPT !.timeSliceCounter = @ + 1])
<1>1. k \in Kernels
  <2>1. kernel.timeSliceCounter + 1 \in Nat /\ kernel \in Kernels
    BY DEF TypeOK, Kernels
  <2>2. [kernel EXCEPT !.timeSliceCounter = @ + 1] \in Kernels
    BY <2>1 DEF Kernels
  <2> QED  BY <2>2, OnTickType
<1>2. TickFrame \in Frames
  BY FrameType DEF TickFrame
<1>3. Suspend(TickFrame, Yield(k, TRUE)) \/ Return(TickFrame, k, 0)
  BY DEF handleTimer
<1> HIDE DEF k
<1>4. Yield(k, TRUE) \in Kernels
  BY <1>1, YieldType
<1>5. 0 \in Int \cup Messages \cup {Null}
  OBVIOUS
<1> QED  BY <1>1, <1>2, <1>3, <1>4, <1>5, SuspendType, ReturnType

\* and the shutdown.
LEMMA ShutdownType ==
  ASSUME TypeOK, Shutdown
  PROVE  StepOK
<1>1. kernel \in Kernels
  BY DEF TypeOK
<1>2. kernel' \in Kernels
  <2>1. /\ [t \in Threads |-> 0] \in [Threads -> Nat]
        /\ [s \in Sems |-> <<>>] \in [Sems -> Seq(Threads)]
        /\ [t \in Threads |-> Null] \in [Threads -> Sems \cup {Null}]
        /\ [s \in Sems |-> 0] \in [Sems -> Nat]
        /\ <<>> \in Seq(Threads)
    OBVIOUS
  <2>2. [kernel EXCEPT
           !.active = {}, !.opened = {}, !.created = {},
           !.ready = <<>>, !.sleepList = <<>>,
           !.remaining    = [t \in Threads |-> 0],
           !.blocked      = [s \in Sems |-> <<>>],
           !.blockedAtSem = [t \in Threads |-> Null],
           !.tokensNeeded = [t \in Threads |-> 0],
           !.value        = [s \in Sems |-> 0]] \in Kernels
    BY <1>1, <2>1 DEF Kernels
  <2> QED  BY <2>2 DEF Shutdown
<1>3. Nothing \in Returns
  BY DEF Nothing, Returns
<1> QED  BY <1>2, <1>3 DEF Shutdown, StepOK, TypeOK

\* TypeOK is inductive by itself.
LEMMA TypeStep == TypeOK /\ [Next]_vars => TypeOK'
<1> SUFFICES ASSUME TypeOK, [Next]_vars
             PROVE  TypeOK'
  OBVIOUS
<1> DEFINE Pcs == {"create", "join", "sleep", "shutdown", "halted"}
<1>0. /\ mainPc \in Pcs /\ kernel \in Kernels /\ running \in Threads
      /\ UserMain \in Threads
  BY ThreadsAssumption DEF TypeOK, running, Kernels
<1>1. ASSUME StepOK, mainPc' \in Pcs
      PROVE  TypeOK'
  BY <1>1 DEF StepOK, TypeOK
<1>2. CASE SystemCall
  <2>1. mainPc' = mainPc
    BY <1>2 DEF SystemCall, handleThreadCreate, handleThreadExit,
         handleThreadDispatch, handleJoin, handleTimedJoin, handleJoinAll,
         handletimedJoinAll, handleSemOpen, handleSemClose, handleSemWait,
         handleSemSignal, handleSemTimedWait, handleSemTryWait,
         handleTimeSleep, handleSend, handleReceive
  <2> QED  BY <1>0, <1>1, <1>2, <2>1, SystemCallType
<1>3. CASE handleException
  BY <1>0, <1>1, <1>3, ExitType DEF handleException
<1>4. CASE IdleExit
  BY <1>0, <1>1, <1>4, ExitType DEF IdleExit
<1>5. CASE handleTimer
  <2>1. mainPc' = mainPc
    BY <1>5 DEF handleTimer
  <2> QED  BY <1>0, <1>1, <1>5, <2>1, TimerType
<1>6. CASE Resume
  <2>1. mainPc' = mainPc /\ Complete(frame[running], kernel, ResolveManner(kernel))
    BY <1>6 DEF Resume
  <2>2. frame[running] \in Frames
    BY <1>0 DEF TypeOK
  <2> QED  BY <1>0, <1>1, <2>1, <2>2, CompleteType, ResolveMannerType
<1>7. CASE MainCreate
  <2>1. Frame("threadCreate", UserMain, Null) \in Frames
    BY <1>0, FrameType DEF CallNames
  <2>2. ThreadCreate(kernel, UserMain) \in Kernels
    BY <1>0, ThreadCreateType
  <2> QED  BY <1>1, <1>7, <2>1, <2>2, ReturnType DEF MainCreate, MainAt
<1>8. CASE MainJoin
  BY <1>0, <1>1, <1>8, JoinType DEF MainJoin, MainAt
<1>9. CASE MainSleep
  <2>1. ShutdownSleep \in Nat
    BY ParametersAssumption
  <2> QED  BY <1>1, <1>9, <2>1, TimeSleepType DEF MainSleep, MainAt
<1>10. CASE Shutdown
  <2>1. mainPc' = "halted"
    BY <1>10 DEF Shutdown, MainAt
  <2> QED  BY <1>1, <1>10, <2>1, ShutdownType
<1>11. CASE UNCHANGED vars
  BY <1>11 DEF vars, TypeOK
<1> QED
  BY <1>2, <1>3, <1>4, <1>5, <1>6, <1>7, <1>8, <1>9, <1>10, <1>11
     DEF Next, MainStep, Halted

\* Type correctness: whatever calls the threads make, the kernel's data keeps
\* its type.  No counter goes below zero or past its width, no list holds
\* anything but threads, and no null pointer is the running thread.
THEOREM TypeCorrect == Spec => []TypeOK
<1>1. Init => TypeOK
  BY InitType
<1>2. TypeOK /\ [Next]_vars => TypeOK'
  BY TypeStep
<1> QED  BY <1>1, <1>2, PTL DEF Spec

-----------------------------------------------------------------------------
(***************************************************************************)
(* Safety.                                                                 *)
(***************************************************************************)
\* What a step of the running kernel leaves behind.
Lasts ==
  /\ kernel.finished \subseteq kernel'.finished
  /\ kernel.opened \subseteq kernel'.opened
  /\ kernel'.active \cap kernel.opened \subseteq kernel.active

SafeStep == Good(kernel') /\ CallsExplain' /\ Lasts

\* The context of every lemma below.
Safe == TypeOK /\ Good(kernel) /\ CallsExplain

\* What the context says of the running thread.
LEMMA SafeFacts ==
  ASSUME Safe
  PROVE  /\ kernel \in Kernels /\ running \in Threads
         /\ frame \in [Threads -> Frames]
         /\ kernel.blockedAtSem[running] = Null /\ ~sleeps(kernel, running)
         /\ Later(kernel, kernel) /\ Null \notin Sems
<1>1. kernel \in Kernels /\ running \in Threads
  BY DEF Safe, TypeOK, running, Kernels
<1>2. kernel.blockedAtSem[running] = Null /\ ~sleeps(kernel, running)
  BY DEF Safe, Good, RunnerRuns, WaitsIn, running
<1>3. Later(kernel, kernel)
  BY DEF Later
<1> QED  BY <1>1, <1>2, <1>3, ThreadsAssumption DEF Safe, TypeOK

\* Where a thread waits is a matter of its frame.
LEMMA FrameWaits ==
  ASSUME NEW t \in Threads, frame'[t] = frame[t]
  PROVE  WaitsAt(t)' = WaitsAt(t)
BY DEF WaitsAt, WaitPoint

\* r is the running thread, as a constant: primed, it is the same.
LEMMA StepSafe ==
  ASSUME Safe, NEW r \in Threads, r = running,
         NEW k, Good(k), NEW f, NEW s,
         kernel' = k, frame' = [frame EXCEPT ![running] = f],
         kernel.finished \subseteq k.finished, kernel.opened \subseteq k.opened,
         k.active \cap kernel.opened \subseteq kernel.active,
         \A t \in Threads \ {running} :
           k.blockedAtSem[t] \in {Null, kernel.blockedAtSem[t]},
         k.blockedAtSem[running] \in {Null, s},
         s # Null => WaitsAt(r)' = s
  PROVE  SafeStep
<1>1. running \in Threads /\ frame \in [Threads -> Frames]
  BY SafeFacts
<1>2. ASSUME NEW t \in Threads, kernel'.blockedAtSem[t] # Null
      PROVE  WaitsAt(t)' = kernel'.blockedAtSem[t]
  <2>1. CASE t = running
    <3>1. t = r /\ k.blockedAtSem[t] # Null
      BY <1>2, <2>1
    <3>2. k.blockedAtSem[t] = s /\ s # Null
      BY <2>1, <3>1
    <3> QED  BY <3>1, <3>2
  <2>2. CASE t # running
    <3>1. frame'[t] = frame[t]
      BY <1>1, <2>2
    <3>2. WaitsAt(t)' = WaitsAt(t)
      BY <3>1, FrameWaits
    <3>3. k.blockedAtSem[t] = kernel.blockedAtSem[t]
      BY <1>2, <2>2
    <3>4. WaitsAt(t) = kernel.blockedAtSem[t]
      BY <1>2, <3>3 DEF Safe, CallsExplain
    <3> QED  BY <3>2, <3>3, <3>4
  <2> QED  BY <2>1, <2>2
<1>3. CallsExplain'
  BY <1>2 DEF CallsExplain
<1> QED  BY <1>3 DEF SafeStep, Lasts

\* A step that leaves a good record and blocks nobody is safe.
LEMMA LaterSafe ==
  ASSUME Safe, NEW k, Good(k), Later(kernel, k), NEW f,
         kernel' = k, frame' = [frame EXCEPT ![running] = f]
  PROVE  SafeStep
<1>1. /\ kernel.finished \subseteq k.finished /\ kernel.opened \subseteq k.opened
      /\ k.active \cap kernel.opened \subseteq kernel.active
      /\ \A t \in Threads : k.blockedAtSem[t] \in {Null, kernel.blockedAtSem[t]}
  BY DEF Later
<1>2. k.blockedAtSem[running] \in {Null, Null}
  BY <1>1, SafeFacts
<1>3. PICK r \in Threads : r = running
  BY SafeFacts
<1> QED  BY <1>1, <1>2, <1>3, StepSafe

\* A handler that returns,
LEMMA ReturnSafe ==
  ASSUME Safe, NEW k, Good(k), Later(kernel, k), NEW f, NEW v, Return(f, k, v)
  PROVE  SafeStep
<1>1. kernel' = k /\ frame' = [frame EXCEPT ![running] = UserMode]
  BY DEF Return
<1> QED  BY <1>1, LaterSafe

\* or switches context without blocking.
LEMMA SuspendSafe ==
  ASSUME Safe, NEW k, Good(k), Later(kernel, k), NEW f, Suspend(f, k)
  PROVE  SafeStep
<1>1. kernel' = k /\ frame' = [frame EXCEPT ![running] = f]
  BY DEF Suspend
<1> QED  BY <1>1, LaterSafe

\* The rest of a handler signals at most.
LEMMA RestKeeps ==
  ASSUME NEW k \in Kernels, Good(k), NEW f \in Frames
  PROVE  Good(Rest(f, k)) /\ Steady(k, Rest(f, k))
<1>1. CASE f.call = "send"
  <2> DEFINE m == [k EXCEPT !.message[f.on] = f.msg]
  <2>1. f.msg \in Messages \cup {Null}
    BY DEF Frames
  <2>2. m \in Kernels
    BY <2>1 DEF Kernels
  <2>3. /\ SameThreads(k, m) /\ m.ready = k.ready /\ m.active = k.active
        /\ m.value = k.value /\ m.blocked = k.blocked /\ m.sleepList = k.sleepList
        /\ m.remaining = k.remaining /\ m.blockedAtSem = k.blockedAtSem
        /\ m.tokensNeeded = k.tokensNeeded
    BY DEF Kernels, SameThreads
  <2> HIDE DEF m
  <2>4. Good(m) /\ Steady(k, m)
    BY <2>3, GoodDepends
  <2>5. /\ Good(Signal(m, semReceive(f.on)))
        /\ Steady(m, Signal(m, semReceive(f.on)))
    BY <2>2, <2>4, SignalKeeps
  <2>6. Rest(f, k) = Signal(m, semReceive(f.on))
    BY <1>1 DEF Rest, m
  <2> QED  BY <2>4, <2>5, <2>6, SteadyTwice
<1>2. CASE f.call = "receive"
  <2>1. Rest(f, k) = Signal(k, semSend(k.running))
    BY <1>2 DEF Rest
  <2> QED  BY <2>1, SignalKeeps
<1>3. CASE f.call # "send" /\ f.call # "receive"
  <2>1. Rest(f, k) = k
    BY <1>3 DEF Rest
  <2> QED  BY <2>1, GoodDepends DEF SameThreads
<1> QED  BY <1>1, <1>2, <1>3

\* A handler that does its rest and returns.
LEMMA CompleteSafe ==
  ASSUME Safe, NEW k \in Kernels, Good(k), Steady(kernel, k), NEW f \in Frames,
         NEW outcome, Complete(f, k, outcome)
  PROVE  SafeStep
<1>1. Good(Rest(f, k)) /\ Steady(k, Rest(f, k))
  BY RestKeeps
<1>2. Later(kernel, Rest(f, k))
  BY <1>1, SteadyTwice, SteadyIsLater
<1> QED  BY <1>1, <1>2, ReturnSafe DEF Complete

-----------------------------------------------------------------------------
\* The running thread is switched away from while it waits: k is the record
\* just before the final yield.
LEMMA WaitingSafe ==
  ASSUME Safe, NEW r \in Threads, r = running, NEW s, NEW f \in Frames,
         NEW k \in Kernels, Consistent(k), SameThreads(kernel, k),
         k.active = kernel.active, WaitsIn(k, running),
         \A t \in Threads : k.blockedAtSem[t] =
           IF t = running THEN s ELSE kernel.blockedAtSem[t],
         s # Null => (frame'[r] = f => WaitsAt(r)' = s),
         Suspend(f, Yield(k, FALSE))
  PROVE  SafeStep
<1> DEFINE y == Yield(k, FALSE)
<1>1. k.running = running
  BY DEF SameThreads, running
<1>2. Good(y) /\ Later(k, y)
  BY <1>1, YieldKeeps
<1> HIDE DEF y
<1>3. kernel' = y /\ frame' = [frame EXCEPT ![running] = f]
  BY DEF Suspend, y
<1>4. frame'[r] = f
  BY <1>3, SafeFacts
<1>5. /\ kernel.finished \subseteq y.finished /\ kernel.opened \subseteq y.opened
      /\ y.active \cap kernel.opened \subseteq kernel.active
      /\ \A t \in Threads : y.blockedAtSem[t] \in {Null, k.blockedAtSem[t]}
  BY <1>2 DEF Later, SameThreads
<1>6. /\ \A t \in Threads \ {running} :
           y.blockedAtSem[t] \in {Null, kernel.blockedAtSem[t]}
      /\ y.blockedAtSem[running] \in {Null, s}
  BY <1>5
<1>7. s # Null => WaitsAt(r)' = s
  BY <1>4
<1> QED  BY <1>2, <1>3, <1>5, <1>6, <1>7, StepSafe

\* A call that waits at s is safe if its frame tells that it waits there.
LEMMA WaitSafe ==
  ASSUME Safe, NEW r \in Threads, r = running, r # Idle, NEW f \in Frames,
         NEW s \in Sems, NEW tokens \in Nat,
         frame'[r] = f => WaitsAt(r)' = s,
         Wait(f, s, tokens)
  PROVE  SafeStep
<1>0. /\ kernel \in Kernels /\ Good(kernel) /\ Steady(kernel, kernel)
      /\ kernel.running = r /\ s # Null
  BY SafeFacts, GoodDepends DEF Safe, SameThreads, running
<1>1. CASE Complete(f, kernel, ERR_SEM_DEAD)
  BY <1>0, <1>1, CompleteSafe
<1>2. CASE /\ kernel.value[s] >= tokens
           /\ Complete(f, Acquire(kernel, s, tokens),
                       ResolveManner(Acquire(kernel, s, tokens)))
  <2> DEFINE k == Acquire(kernel, s, tokens)
  <2>1. k \in Kernels /\ Good(k) /\ Steady(kernel, k)
    BY <1>0, <1>2, AcquireType, AcquireKeeps
  <2>2. Complete(f, k, ResolveManner(k))
    BY <1>2
  <2> HIDE DEF k
  <2> QED  BY <2>1, <2>2, CompleteSafe
<1>3. CASE /\ s \in kernel.active /\ kernel.value[s] < tokens
           /\ Suspend(f, Yield(Block(kernel, s, tokens), FALSE))
  <2> DEFINE k == Block(kernel, s, tokens)
  <2>1. /\ k \in Kernels /\ Consistent(k) /\ SameThreads(kernel, k)
        /\ k.active = kernel.active
        /\ \A t \in Threads : k.blockedAtSem[t] =
             IF t = running THEN s ELSE kernel.blockedAtSem[t]
    BY <1>0, <1>3, BlockType, BlockKeeps DEF running
  <2>2. Suspend(f, Yield(k, FALSE))
    BY <1>3
  <2> HIDE DEF k
  <2>3. WaitsIn(k, running)
    BY <1>0, <2>1 DEF WaitsIn
  <2> QED  BY <2>1, <2>2, <2>3, WaitingSafe
<1> QED  BY <1>1, <1>2, <1>3 DEF Wait

\* The same of a call that waits with a timeout: on both lists or on neither.
LEMMA TimedWaitSafe ==
  ASSUME Safe, NEW r \in Threads, r = running, r # Idle, NEW f \in Frames,
         NEW s \in Sems, NEW timeout \in Nat, NEW tokens \in Nat,
         frame'[r] = f => WaitsAt(r)' = s,
         TimedWait(f, s, timeout, tokens)
  PROVE  SafeStep
<1>0. /\ kernel \in Kernels /\ Good(kernel) /\ Steady(kernel, kernel)
      /\ kernel.running = r /\ s # Null
  BY SafeFacts, GoodDepends DEF Safe, SameThreads, running
<1>1. CASE Complete(f, kernel, ERR_SEM_DEAD)
  BY <1>0, <1>1, CompleteSafe
<1>2. CASE /\ kernel.value[s] >= tokens
           /\ Complete(f, Acquire(kernel, s, tokens),
                       ResolveManner(Acquire(kernel, s, tokens)))
  <2> DEFINE k == Acquire(kernel, s, tokens)
  <2>1. k \in Kernels /\ Good(k) /\ Steady(kernel, k)
    BY <1>0, <1>2, AcquireType, AcquireKeeps
  <2>2. Complete(f, k, ResolveManner(k))
    BY <1>2
  <2> HIDE DEF k
  <2> QED  BY <2>1, <2>2, CompleteSafe
<1>3. CASE Complete(f, BlockForNoTime(kernel, s),
                    ResolveManner(BlockForNoTime(kernel, s)))
  <2> DEFINE k == BlockForNoTime(kernel, s)
  <2>1. k \in Kernels /\ Good(k) /\ Steady(kernel, k)
    BY <1>0, BlockForNoTimeType, BlockForNoTimeKeeps
  <2>2. Complete(f, k, ResolveManner(k))
    BY <1>3
  <2> HIDE DEF k
  <2> QED  BY <2>1, <2>2, CompleteSafe
<1>4. CASE /\ s \in kernel.active /\ kernel.value[s] < tokens /\ timeout > 0
           /\ Suspend(f, Yield(SleepPut(Block(kernel, s, tokens), running, timeout),
                               FALSE))
  <2> DEFINE b == Block(kernel, s, tokens)
             k == SleepPut(b, running, timeout)
  <2>1. /\ b \in Kernels /\ Consistent(b) /\ SameThreads(kernel, b)
        /\ b.active = kernel.active /\ b.remaining = kernel.remaining
        /\ \A t \in Threads : b.blockedAtSem[t] =
             IF t = running THEN s ELSE kernel.blockedAtSem[t]
    BY <1>0, <1>4, BlockType, BlockKeeps DEF running
  <2>2. Suspend(f, Yield(k, FALSE))
    BY <1>4
  <2> HIDE DEF b
  <2>3. /\ b.running = running /\ running # Idle /\ running \notin b.finished
        /\ ~sleeps(b, running)
    BY <1>0, <2>1, SafeFacts DEF SameThreads, Good, RunnerRuns, sleeps, running
  <2>4. /\ Consistent(k) /\ SameThreads(b, k) /\ k.active = b.active
        /\ k.blockedAtSem = b.blockedAtSem /\ WaitsIn(k, running)
    BY <1>4, <2>1, <2>3, SleepPutKeeps
  <2>5. k \in Kernels
    BY <2>1, SleepPutType
  <2> HIDE DEF k
  <2>6. /\ SameThreads(kernel, k) /\ k.active = kernel.active
        /\ \A t \in Threads : k.blockedAtSem[t] =
             IF t = running THEN s ELSE kernel.blockedAtSem[t]
    BY <2>1, <2>4 DEF SameThreads
  <2> QED  BY <2>2, <2>4, <2>5, <2>6, WaitingSafe
<1> QED  BY <1>1, <1>2, <1>3, <1>4 DEF TimedWait

\* A thread that sleeps is on the sleep list and nowhere else.
LEMMA TimeSleepSafe ==
  ASSUME Safe, NEW r \in Threads, r = running, r # Idle, NEW timeout \in Nat,
         TimeSleep(timeout)
  PROVE  SafeStep
<1> DEFINE f == Frame("timeSleep", Null, Null)
           k == SleepPut(kernel, running, timeout)
<1>0. /\ kernel \in Kernels /\ Good(kernel) /\ Later(kernel, kernel)
      /\ kernel.running = running /\ f \in Frames
      /\ kernel.blockedAtSem[running] = Null
      /\ kernel.active = kernel.active /\ SameThreads(kernel, kernel)
  BY SafeFacts, FrameType DEF Safe, SameThreads, running, CallNames
<1> HIDE DEF f
<1>1. CASE Return(f, kernel, ERR_SLEEP_ZERO)
  BY <1>0, <1>1, ReturnSafe
<1>2. CASE timeout > 0 /\ Suspend(f, Yield(k, FALSE))
  <2>1. /\ Consistent(kernel) /\ running # Idle /\ running \notin kernel.finished
        /\ ~sleeps(kernel, running)
    BY <1>0, SafeFacts DEF Good, RunnerRuns
  <2>2. /\ Consistent(k) /\ SameThreads(kernel, k) /\ k.active = kernel.active
        /\ k.blockedAtSem = kernel.blockedAtSem /\ WaitsIn(k, running)
    BY <1>0, <1>2, <2>1, SleepPutKeeps
  <2>3. k \in Kernels
    BY <1>0, SleepPutType
  <2> HIDE DEF k
  <2>4. \A t \in Threads : k.blockedAtSem[t] =
          IF t = running THEN Null ELSE kernel.blockedAtSem[t]
    BY <1>0, <2>2
  <2> QED  BY <1>0, <1>2, <2>2, <2>3, <2>4, WaitingSafe
<1> QED  BY <1>1, <1>2 DEF TimeSleep, f

\* The end of a thread (TCB::finish and the yield after it).
LEMMA ExitSafe ==
  ASSUME Safe, Exit
  PROVE  SafeStep /\ kernel'.created = kernel.created
<1>1. /\ Good(Finish(kernel)) /\ Later(kernel, Finish(kernel))
      /\ Finish(kernel).created = kernel.created
  BY SafeFacts, FinishKeeps DEF Safe
<1>2. Suspend(Frame("threadExit", Null, Null), Finish(kernel))
  BY DEF Exit
<1>3. kernel' = Finish(kernel)
  BY <1>2 DEF Suspend
<1> QED  BY <1>1, <1>2, <1>3, SuspendSafe

\* A thread that joins another waits at that one's semJoin.
LEMMA JoinSafe ==
  ASSUME Safe, NEW r \in Threads, r = running, r # Idle, NEW t \in Threads, Join(t)
  PROVE  SafeStep
<1> DEFINE f == Frame("join", t, Null)
<1>0. /\ Good(kernel) /\ Later(kernel, kernel) /\ f \in Frames
      /\ semJoin(t) \in Sems /\ 1 \in Nat
  BY SafeFacts, FrameType DEF Safe, CallNames, Sems, SemsOf
<1>1. frame'[r] = f => WaitsAt(r)' = semJoin(t)
  BY DEF WaitsAt, WaitPoint, Frame
<1> HIDE DEF f
<1>2. CASE Return(f, kernel, ERR_THREAD_SELFJOIN) \/ Return(f, kernel, 0)
  BY <1>0, <1>2, ReturnSafe
<1>3. CASE Wait(f, semJoin(t), 1)
  BY <1>0, <1>1, <1>3, WaitSafe
<1> QED  BY <1>2, <1>3 DEF Join, f

\* The same with a timeout.
LEMMA TimedJoinSafe ==
  ASSUME Safe, NEW r \in Threads, r = running, r # Idle, NEW t \in Threads,
         NEW timeout \in Nat, TimedJoin(t, timeout)
  PROVE  SafeStep
<1> DEFINE f == Frame("timedJoin", t, Null)
<1>0. /\ Good(kernel) /\ Later(kernel, kernel) /\ f \in Frames
      /\ semJoin(t) \in Sems /\ 1 \in Nat
  BY SafeFacts, FrameType DEF Safe, CallNames, Sems, SemsOf
<1>1. frame'[r] = f => WaitsAt(r)' = semJoin(t)
  BY DEF WaitsAt, WaitPoint, Frame
<1> HIDE DEF f
<1>2. CASE Return(f, kernel, ERR_THREAD_SELFJOIN) \/ Return(f, kernel, 0)
  BY <1>0, <1>2, ReturnSafe
<1>3. CASE TimedWait(f, semJoin(t), timeout, 1)
  BY <1>0, <1>1, <1>3, TimedWaitSafe
<1> QED  BY <1>2, <1>3 DEF TimedJoin, f

-----------------------------------------------------------------------------
\* Every system call is safe.
LEMMA SystemCallSafe ==
  ASSUME Safe, SystemCall
  PROVE  SafeStep
<1>0. /\ kernel \in Kernels /\ Good(kernel) /\ Steady(kernel, kernel)
      /\ Later(kernel, kernel) /\ kernel.running = running /\ 1 \in Nat /\ 0 \in Nat
      /\ kernel.numOfActiveChildren[running] \in Nat
  <2>1. /\ kernel \in Kernels /\ Good(kernel) /\ Steady(kernel, kernel)
        /\ Later(kernel, kernel) /\ kernel.running = running /\ running \in Threads
    BY SafeFacts, GoodDepends DEF Safe, SameThreads, running
  <2>2. kernel.numOfActiveChildren[running] \in 0 .. CountMod - 1
    BY <2>1 DEF Kernels
  <2> QED  BY <2>1, <2>2
<1>1. PICK r \in Threads : r = running
  BY SafeFacts
<1>2. ASSUME NEW call, Makes(call)
      PROVE  r \in UserThreads /\ r # Idle /\ running \in UserThreads
  BY <1>1, <1>2 DEF Makes, UserThreads
<1>3. /\ Handles \subseteq Threads /\ OpenSems \subseteq Sems
      /\ 0 .. MaxTimeout \subseteq Nat /\ 0 .. MaxInit \subseteq Nat
  BY <1>0, SemFrames, KernelFields, ParametersAssumption DEF Handles, OpenSems
<1>4. CASE handleThreadCreate
  <2>1. PICK t \in UserThreads \ kernel.created :
          \/ Return(Frame("threadCreate", t, Null), ThreadCreate(kernel, t), 0)
          \/ Return(Frame("threadCreate", t, Null), kernel, ERR_THREAD_CREATE)
    BY <1>4 DEF handleThreadCreate
  <2>2. t \in Threads \ kernel.created /\ t # Idle
    BY DEF UserThreads
  <2>3. Good(ThreadCreate(kernel, t)) /\ Later(kernel, ThreadCreate(kernel, t))
    BY <1>0, <2>2, ThreadCreateKeeps
  <2> QED  BY <1>0, <2>1, <2>3, ReturnSafe
<1>5. CASE handleThreadExit
  BY <1>5, ExitSafe DEF handleThreadExit
<1>6. CASE handleThreadDispatch
  <2>1. Suspend(Frame("dispatch", Null, Null), Yield(kernel, TRUE))
    BY <1>6 DEF handleThreadDispatch
  <2>2. Good(Yield(kernel, TRUE)) /\ Later(kernel, Yield(kernel, TRUE))
    BY <1>0, YieldKeeps DEF Good
  <2> QED  BY <2>1, <2>2, SuspendSafe
<1>7. CASE handleJoin
  <2>1. PICK t \in Handles : Join(t)
    BY <1>7 DEF handleJoin
  <2> QED  BY <1>1, <1>2, <1>3, <1>7, <2>1, JoinSafe DEF handleJoin
<1>8. CASE handleTimedJoin
  <2>1. PICK t \in Handles, timeout \in 0 .. MaxTimeout : TimedJoin(t, timeout)
    BY <1>8 DEF handleTimedJoin
  <2>2. r # Idle /\ t \in Threads /\ timeout \in Nat
    BY <1>2, <1>3, <1>8 DEF handleTimedJoin
  <2> QED  BY <1>1, <2>1, <2>2, TimedJoinSafe
<1>9. CASE handleJoinAll
  <2> DEFINE f == Frame("joinAll", Null, Null)
  <2>1. /\ Wait(f, semJoinAll(r), kernel.numOfActiveChildren[running])
        /\ r # Idle /\ f \in Frames
    BY <1>1, <1>2, <1>9, FrameType DEF handleJoinAll, CallNames
  <2>2. frame'[r] = f => WaitsAt(r)' = semJoinAll(r)
    BY DEF WaitsAt, WaitPoint, Frame
  <2> HIDE DEF f
  <2> QED  BY <1>0, <1>1, <2>1, <2>2, SemFrames, WaitSafe
<1>10. CASE handletimedJoinAll
  <2> DEFINE f == Frame("timedJoinAll", Null, Null)
  <2>1. PICK timeout \in 0 .. MaxTimeout :
          TimedWait(f, semJoinAll(r), timeout, kernel.numOfActiveChildren[running])
    BY <1>1, <1>10 DEF handletimedJoinAll
  <2>2. r # Idle /\ f \in Frames /\ timeout \in Nat
    BY <1>2, <1>3, <1>10, FrameType DEF handletimedJoinAll, CallNames
  <2>3. frame'[r] = f => WaitsAt(r)' = semJoinAll(r)
    BY DEF WaitsAt, WaitPoint, Frame
  <2> HIDE DEF f
  <2> QED  BY <1>0, <1>1, <2>1, <2>2, <2>3, SemFrames, TimedWaitSafe
<1>11. CASE handleSemOpen
  <2>1. PICK s \in UserSems \ kernel.opened, init \in 0 .. MaxInit :
          Return(Frame("semOpen", s, Null), SemCreate(kernel, s, init), 0)
    BY <1>11 DEF handleSemOpen
  <2>2. Good(SemCreate(kernel, s, init)) /\ Later(kernel, SemCreate(kernel, s, init))
    BY <1>0, <1>3, SemCreateKeeps
  <2> QED  BY <2>1, <2>2, ReturnSafe
<1>12. CASE handleSemClose
  <2>1. PICK s \in OpenSems :
          Return(Frame("semClose", s, Null), Close(kernel, s),
                 IF s \in kernel.active THEN 0 ELSE ERR_SEM_DEAD)
    BY <1>12 DEF handleSemClose
  <2>2. Good(Close(kernel, s)) /\ Later(kernel, Close(kernel, s))
    BY <1>0, <1>3, CloseKeeps, SteadyIsLater
  <2> QED  BY <2>1, <2>2, ReturnSafe
<1>13. CASE handleSemWait
  <2>1. PICK s \in OpenSems : Wait(Frame("semWait", s, Null), s, 1)
    BY <1>13 DEF handleSemWait
  <2> DEFINE f == Frame("semWait", s, Null)
  <2>2. r # Idle /\ f \in Frames /\ s \in Sems
    BY <1>2, <1>3, <1>13, FrameType DEF handleSemWait, CallNames
  <2>3. frame'[r] = f => WaitsAt(r)' = s
    BY DEF WaitsAt, WaitPoint, Frame
  <2> HIDE DEF f
  <2> QED  BY <1>0, <1>1, <2>1, <2>2, <2>3, WaitSafe DEF f
<1>14. CASE handleSemSignal
  <2>1. PICK s \in OpenSems :
          Return(Frame("semSignal", s, Null), Signal(kernel, s),
                 IF s \in kernel.active THEN 0 ELSE ERR_SEM_DEAD)
    BY <1>14 DEF handleSemSignal
  <2>2. Good(Signal(kernel, s)) /\ Later(kernel, Signal(kernel, s))
    BY <1>0, SignalKeeps, SteadyIsLater
  <2> QED  BY <2>1, <2>2, ReturnSafe
<1>15. CASE handleSemTimedWait
  <2>1. PICK s \in OpenSems, timeout \in 0 .. MaxTimeout :
          TimedWait(Frame("semTimedWait", s, Null), s, timeout, 1)
    BY <1>15 DEF handleSemTimedWait
  <2> DEFINE f == Frame("semTimedWait", s, Null)
  <2>2. r # Idle /\ f \in Frames /\ s \in Sems /\ timeout \in Nat
    BY <1>2, <1>3, <1>15, FrameType DEF handleSemTimedWait, CallNames
  <2>3. frame'[r] = f => WaitsAt(r)' = s
    BY DEF WaitsAt, WaitPoint, Frame
  <2> HIDE DEF f
  <2> QED  BY <1>0, <1>1, <2>1, <2>2, <2>3, TimedWaitSafe DEF f
<1>16. CASE handleSemTryWait
  <2>1. PICK s \in OpenSems :
          LET f == Frame("semTryWait", s, Null)
          IN  \/ /\ s \notin kernel.active
                 /\ Return(f, kernel, ERR_SEM_DEAD)
              \/ /\ s \in kernel.active /\ kernel.value[s] >= 1
                 /\ Return(f, Acquire(kernel, s, 1), 0)
              \/ /\ s \in kernel.active /\ kernel.value[s] = 0
                 /\ Return(f, Acquire(kernel, s, 0), 1)
    BY <1>16 DEF handleSemTryWait
  <2>2. \A n \in Nat : kernel.value[s] >= n =>
          Good(Acquire(kernel, s, n)) /\ Later(kernel, Acquire(kernel, s, n))
    BY <1>0, <1>3, AcquireKeeps, SteadyIsLater
  <2>3. kernel.value[s] = 0 => kernel.value[s] >= 0
    OBVIOUS
  <2> QED  BY <1>0, <2>1, <2>2, <2>3, ReturnSafe
<1>17. CASE handleTimeSleep
  <2>1. PICK timeout \in 0 .. MaxTimeout : TimeSleep(timeout)
    BY <1>17 DEF handleTimeSleep
  <2>2. r # Idle /\ timeout \in Nat
    BY <1>2, <1>3, <1>17 DEF handleTimeSleep
  <2> QED  BY <1>1, <2>1, <2>2, TimeSleepSafe
<1>18. CASE handleSend
  <2>1. PICK t \in Handles, msg \in Messages :
          \/ Return(Frame("send", t, msg), kernel, 0)
          \/ Wait(Frame("send", t, msg), semSend(t), 1)
    BY <1>18 DEF handleSend
  <2> DEFINE f == Frame("send", t, msg)
  <2>2. r # Idle /\ f \in Frames /\ semSend(t) \in Sems
    BY <1>2, <1>3, <1>18, FrameType, SemFrames DEF handleSend, CallNames
  <2>3. frame'[r] = f => WaitsAt(r)' = semSend(t)
    BY DEF WaitsAt, WaitPoint, Frame
  <2>4. Return(f, kernel, 0) \/ Wait(f, semSend(t), 1)
    BY <2>1
  <2> HIDE DEF f
  <2>5. CASE Return(f, kernel, 0)
    BY <1>0, <2>5, ReturnSafe
  <2>6. CASE Wait(f, semSend(t), 1)
    BY <1>0, <1>1, <2>2, <2>3, <2>6, WaitSafe
  <2> QED  BY <2>4, <2>5, <2>6
<1>19. CASE handleReceive
  <2> DEFINE f == Frame("receive", Null, Null)
  <2>1. Wait(f, semReceive(r), 1) /\ r # Idle /\ f \in Frames
    BY <1>1, <1>2, <1>19, FrameType DEF handleReceive, CallNames
  <2>2. frame'[r] = f => WaitsAt(r)' = semReceive(r)
    BY DEF WaitsAt, WaitPoint, Frame
  <2> HIDE DEF f
  <2> QED  BY <1>0, <1>1, <2>1, <2>2, SemFrames, WaitSafe
<1> QED  BY <1>4, <1>5, <1>6, <1>7, <1>8, <1>9, <1>10, <1>11, <1>12, <1>13, <1>14,
            <1>15, <1>16, <1>17, <1>18, <1>19 DEF SystemCall

-----------------------------------------------------------------------------
\* The timer interrupt is safe, whatever it wakes and whether or not it yields.
LEMMA TimerSafe ==
  ASSUME Safe, handleTimer
  PROVE  SafeStep /\ kernel'.created = kernel.created
<1> DEFINE c == [kernel EXCEPT !.timeSliceCounter = @ + 1]
           k == OnTick(c)
<1>0. kernel \in Kernels /\ Good(kernel) /\ kernel.timeSliceCounter \in Nat
  BY SafeFacts DEF Safe, Kernels
<1>1. c \in Kernels /\ Good(c) /\ Steady(kernel, c)
  <2>1. kernel.timeSliceCounter + 1 \in Nat
    BY <1>0
  <2>2. c \in Kernels
    BY <1>0, <2>1 DEF Kernels
  <2>3. /\ SameThreads(kernel, c) /\ c.ready = kernel.ready
        /\ c.active = kernel.active /\ c.value = kernel.value
        /\ c.blocked = kernel.blocked /\ c.sleepList = kernel.sleepList
        /\ c.remaining = kernel.remaining /\ c.blockedAtSem = kernel.blockedAtSem
        /\ c.tokensNeeded = kernel.tokensNeeded
    BY <1>0 DEF Kernels, SameThreads
  <2> HIDE DEF c
  <2> QED  BY <1>0, <2>2, <2>3, GoodDepends
<1> HIDE DEF c
<1>2. k \in Kernels /\ Good(k) /\ Steady(kernel, k)
  BY <1>1, OnTickKeeps, OnTickType, SteadyTwice
<1>3. Suspend(TickFrame, Yield(k, TRUE)) \/ Return(TickFrame, k, 0)
  BY DEF handleTimer, c
<1> HIDE DEF k
<1>4. k.created = kernel.created
  BY <1>2 DEF Steady, SameThreads
<1>5. CASE Return(TickFrame, k, 0)
  <2>1. kernel' = k
    BY <1>5 DEF Return
  <2> QED  BY <1>2, <1>4, <1>5, <2>1, ReturnSafe, SteadyIsLater
<1>6. CASE Suspend(TickFrame, Yield(k, TRUE))
  <2>1. /\ Good(Yield(k, TRUE)) /\ Later(k, Yield(k, TRUE))
        /\ Yield(k, TRUE).created = k.created
    BY <1>2, YieldKeeps DEF Good
  <2>2. Later(kernel, Yield(k, TRUE))
    BY <1>2, <2>1, SteadyThenLater
  <2>3. kernel' = Yield(k, TRUE)
    BY <1>6 DEF Suspend
  <2> QED  BY <1>4, <1>6, <2>1, <2>2, <2>3, SuspendSafe
<1> QED  BY <1>3, <1>5, <1>6

\* The rest of a handler is safe whenever its thread runs again.
LEMMA ResumeSafe ==
  ASSUME Safe, Resume
  PROVE  SafeStep /\ kernel'.created = kernel.created
<1> DEFINE f == frame[running]
<1>1. /\ kernel \in Kernels /\ Good(kernel) /\ Steady(kernel, kernel)
      /\ f \in Frames
  BY SafeFacts, GoodDepends DEF Safe, SameThreads
<1>2. Complete(f, kernel, ResolveManner(kernel))
  BY DEF Resume
<1> HIDE DEF f
<1>3. SafeStep
  BY <1>1, <1>2, CompleteSafe
<1>4. kernel' = Rest(f, kernel)
  BY <1>2 DEF Complete, Return
<1>5. Rest(f, kernel).created = kernel.created
  BY <1>1, RestKeeps DEF Steady, SameThreads
<1> QED  BY <1>3, <1>4, <1>5

-----------------------------------------------------------------------------
\* What EndIsFinal needs of a step besides the invariant.
Finality ==
  /\ kernel.finished \subseteq kernel'.finished
  /\ (kernel.opened \ kernel.active) \cap kernel'.active = {}

\* What is finished or closed stays so.
LEMMA LastsIsFinal == Lasts => Finality
BY DEF Lasts, Finality

\* The invariant holds when main() starts.
LEMMA InitInv == Init => IInv
<1> SUFFICES ASSUME Init PROVE IInv
  OBVIOUS
<1>1. TypeOK
  BY InitType
<1>2. Good(kernel)
  BY BootGood DEF Init
<1>3. /\ kernel.created = {Master, Idle} /\ kernel.finished = {}
      /\ \A t \in Threads : kernel.blockedAtSem[t] = Null
      /\ mainPc = "create" /\ kernel.running = Master
  BY DEF Init, AtBoot
<1>4. CallsExplain /\ NobodyYet /\ Running
  BY <1>3, ThreeThreads DEF CallsExplain, NobodyYet, Running
<1> QED  BY <1>1, <1>2, <1>4 DEF IInv

\* Each step of main() before the shutdown is safe.
LEMMA MainSafe ==
  ASSUME Safe, NobodyYet, MainCreate \/ MainJoin \/ MainSleep
  PROVE  SafeStep /\ mainPc' \in {"join", "sleep", "shutdown"}
<1>0. kernel \in Kernels /\ Good(kernel) /\ running \in Threads
  BY SafeFacts DEF Safe
<1>1. PICK r \in Threads : r = running
  BY <1>0
<1>2. running = Master => r # Idle
  BY <1>1, ThreeThreads
<1>3. CASE MainCreate
  <2>1. /\ mainPc = "create" /\ mainPc' = "join"
        /\ Return(Frame("threadCreate", UserMain, Null),
                  ThreadCreate(kernel, UserMain), 0)
    BY <1>3 DEF MainCreate, MainAt
  <2>2. UserMain \in Threads \ kernel.created /\ UserMain # Idle
    BY <2>1, ThreeThreads DEF NobodyYet
  <2>3. /\ Good(ThreadCreate(kernel, UserMain))
        /\ Later(kernel, ThreadCreate(kernel, UserMain))
    BY <1>0, <2>2, ThreadCreateKeeps
  <2> QED  BY <2>1, <2>3, ReturnSafe
<1>4. CASE MainJoin
  <2>1. Join(UserMain) /\ running = Master /\ mainPc' = "sleep"
    BY <1>4 DEF MainJoin, MainAt
  <2>2. UserMain \in Threads /\ r # Idle
    BY <1>2, <2>1, ThreeThreads
  <2> QED  BY <1>1, <2>1, <2>2, JoinSafe
<1>5. CASE MainSleep
  <2>1. TimeSleep(ShutdownSleep) /\ running = Master /\ mainPc' = "shutdown"
    BY <1>5 DEF MainSleep, MainAt
  <2>2. ShutdownSleep \in Nat /\ r # Idle
    BY <1>2, <2>1, ParametersAssumption
  <2> QED  BY <1>1, <2>1, <2>2, TimeSleepSafe
<1> QED  BY <1>3, <1>4, <1>5

\* The shutdown leaves all lists empty, and only Master.
LEMMA ShutdownSafe ==
  ASSUME Safe, Shutdown
  PROVE  /\ kernel'.running = Master /\ Master \notin kernel'.finished
         /\ kernel'.active = {} /\ kernel'.ready = <<>>
         /\ \A s \in Sems : kernel'.blocked[s] = <<>>
         /\ kernel'.sleepList = <<>>
         /\ \A t \in Threads : ~WaitsIn(kernel', t)
         /\ Finality /\ mainPc' = "halted"
<1>0. kernel \in Kernels
  BY SafeFacts
<1>1. kernel.running = Master /\ mainPc' = "halted"
  BY DEF Shutdown, MainAt, running
<1>2. /\ kernel'.running = Master /\ kernel'.finished = kernel.finished
      /\ kernel'.active = {} /\ kernel'.ready = <<>> /\ kernel'.sleepList = <<>>
      /\ \A s \in Sems : kernel'.blocked[s] = <<>>
      /\ \A t \in Threads : kernel'.blockedAtSem[t] = Null /\ kernel'.remaining[t] = 0
  BY <1>0, <1>1 DEF Shutdown, Kernels
<1>3. Master \notin kernel.finished
  BY <1>1, ThreeThreads DEF Safe, Good, RunnerRuns
<1>4. \A t \in Threads : ~WaitsIn(kernel', t)
  BY <1>2 DEF WaitsIn, sleeps
<1>5. Finality
  BY <1>2 DEF Finality
<1> QED  BY <1>1, <1>2, <1>3, <1>4, <1>5

\* Every step keeps the invariant and undoes no end and no close.
LEMMA InvStep == IInv /\ [Next]_vars => IInv' /\ Finality
<1> SUFFICES ASSUME IInv, [Next]_vars PROVE IInv' /\ Finality
  OBVIOUS
<1>1. TypeOK'
  BY TypeStep DEF IInv
<1>2. CASE UNCHANGED vars
  <2>1. kernel' = kernel /\ frame' = frame /\ mainPc' = mainPc
    BY <1>2 DEF vars
  <2>2. CallsExplain' <=> CallsExplain
    <3>1. \A t \in Threads : WaitsAt(t)' = WaitsAt(t)
      BY <2>1, FrameWaits
    <3> QED  BY <2>1, <3>1 DEF CallsExplain
  <2> QED  BY <1>1, <2>1, <2>2 DEF IInv, Running, NobodyYet, Finality
<1>3. CASE Next /\ ~Running
  <2>1. Halted
    BY <1>3 DEF Next, SystemCall, MainStep, handleThreadCreate, handleThreadExit,
       handleThreadDispatch, handleJoin, handleTimedJoin, handleJoinAll,
       handletimedJoinAll, handleSemOpen, handleSemClose, handleSemWait,
       handleSemSignal, handleSemTimedWait, handleSemTryWait, handleTimeSleep,
       handleSend, handleReceive, Makes, handleException, IdleExit, handleTimer,
       Resume, MainCreate, MainJoin, MainSleep, Shutdown, MainAt, InUserMode
  <2> QED  BY <1>2, <2>1 DEF Halted
<1>4. CASE Next /\ Running
  <2>0. Safe /\ NobodyYet /\ mainPc # "halted"
    BY <1>4 DEF IInv, Safe, Running
  <2>1. ASSUME SafeStep, mainPc' # "halted", NobodyYet'
        PROVE  IInv' /\ Finality
    <3>1. Running'
      BY <2>1 DEF Running
    <3>2. Good(kernel') /\ CallsExplain' /\ Finality
      BY <2>1, LastsIsFinal DEF SafeStep
    <3> QED  BY <1>1, <2>1, <3>1, <3>2 DEF IInv
  <2>2. ASSUME running \in UserThreads  PROVE mainPc # "create"
    <3>1. kernel.running \in kernel.created
      BY <2>0 DEF Safe, Good, Consistent, Registered
    <3> QED  BY <2>0, <2>2, <3>1 DEF NobodyYet, UserThreads, running
  <2>3. CASE SystemCall
    <3>1. running \in UserThreads /\ mainPc' = mainPc
      BY <2>3 DEF SystemCall, handleThreadCreate, handleThreadExit,
         handleThreadDispatch, handleJoin, handleTimedJoin, handleJoinAll,
         handletimedJoinAll, handleSemOpen, handleSemClose, handleSemWait,
         handleSemSignal, handleSemTimedWait, handleSemTryWait, handleTimeSleep,
         handleSend, handleReceive, Makes
    <3> QED  BY <2>0, <2>1, <2>2, <2>3, <3>1, SystemCallSafe DEF NobodyYet
  <2>4. CASE handleException
    <3>1. Exit /\ mainPc' = mainPc
      BY <2>4 DEF handleException
    <3> QED  BY <2>0, <2>1, <3>1, ExitSafe DEF NobodyYet
  <2>5. CASE IdleExit
    <3>1. Exit /\ mainPc' = mainPc
      BY <2>5 DEF IdleExit
    <3> QED  BY <2>0, <2>1, <3>1, ExitSafe DEF NobodyYet
  <2>6. CASE handleTimer
    <3>1. mainPc' = mainPc
      BY <2>6 DEF handleTimer
    <3> QED  BY <2>0, <2>1, <2>6, <3>1, TimerSafe DEF NobodyYet
  <2>7. CASE Resume
    <3>1. mainPc' = mainPc
      BY <2>7 DEF Resume
    <3> QED  BY <2>0, <2>1, <2>7, <3>1, ResumeSafe DEF NobodyYet
  <2>8. CASE MainCreate \/ MainJoin \/ MainSleep
    BY <2>0, <2>1, <2>8, MainSafe DEF NobodyYet
  <2>9. CASE Shutdown
    <3>1. /\ kernel'.running = Master /\ Master \notin kernel'.finished
          /\ kernel'.active = {} /\ kernel'.ready = <<>>
          /\ \A s \in Sems : kernel'.blocked[s] = <<>>
          /\ kernel'.sleepList = <<>>
          /\ \A t \in Threads : ~WaitsIn(kernel', t)
          /\ Finality /\ mainPc' = "halted"
      BY <2>0, <2>9, ShutdownSafe
    <3> QED  BY <1>1, <3>1 DEF IInv, Running, NobodyYet
  <2>10. CASE Halted
    BY <1>2, <2>10 DEF Halted
  <2> QED  BY <1>4, <2>3, <2>4, <2>5, <2>6, <2>7, <2>8, <2>9, <2>10
           DEF Next, MainStep
<1> QED  BY <1>2, <1>3, <1>4

\* The inductive invariant holds in every reachable state.
THEOREM InvAlways == Spec => []IInv
<1>1. Init => IInv
  BY InitInv
<1>2. IInv /\ [Next]_vars => IInv'
  BY InvStep
<1> QED  BY <1>1, <1>2, PTL DEF Spec

-----------------------------------------------------------------------------
(***************************************************************************)
(* What follows from the invariant.                                        *)
(***************************************************************************)
\* No thread is lost and none is in two places (see NoThreadLost).
THEOREM ThreadsNeverLost == Spec => []NoThreadLost
<1>1. IInv => NoThreadLost
  <2> SUFFICES ASSUME IInv, Running
               PROVE  /\ IsInjective(kernel.ready)
                      /\ \A t \in kernel.created \ {Idle} : Cardinality(Places(t)) = 1
                      /\ Idle \notin Range(kernel.ready) /\ ~Waits(Idle)
    BY DEF NoThreadLost
  <2>1. Good(kernel) /\ kernel \in Kernels
    BY DEF IInv, TypeOK
  <2>2. \A t : Waits(t) <=> WaitsIn(kernel, t)
    BY DEF Waits, WaitsIn
  <2>3. ASSUME NEW t \in kernel.created \ {Idle}
        PROVE  Cardinality(Places(t)) = 1
    <3>0. t \in Threads
      BY <2>1, KernelFields
    <3>1. CASE t = running
      <4>1. t \notin Range(kernel.ready) /\ ~Waits(t) /\ t \notin kernel.finished
        BY <2>1, <2>2, <3>1
           DEF Good, Consistent, ReadyCanRun, RunnerRuns, running
      <4>2. Places(t) = {"processor"}
        BY <3>1, <4>1 DEF Places
      <4> QED  BY <4>2, FS_Singleton
    <3>2. CASE t # running /\ t \in Range(kernel.ready)
      <4>1. ~Waits(t) /\ t \notin kernel.finished
        BY <2>1, <2>2, <3>2 DEF Good, Consistent, ReadyCanRun
      <4>2. Places(t) = {"ready"}
        BY <3>2, <4>1 DEF Places
      <4> QED  BY <4>2, FS_Singleton
    <3>3. CASE t # running /\ t \notin Range(kernel.ready) /\ Waits(t)
      <4>1. t \notin kernel.finished
        BY <2>1, <2>2, <3>0, <3>3 DEF Good, Consistent, WaitersLive
      <4>2. Places(t) = {"waiting"}
        BY <3>3, <4>1 DEF Places
      <4> QED  BY <4>2, FS_Singleton
    <3>4. CASE t # running /\ t \notin Range(kernel.ready) /\ ~Waits(t)
      <4>1. t \in kernel.finished
        BY <2>1, <2>2, <3>4 DEF Good, Consistent, Placed, running
      <4>2. Places(t) = {"finished"}
        BY <3>4, <4>1 DEF Places
      <4> QED  BY <4>2, FS_Singleton
    <3> QED  BY <3>1, <3>2, <3>3, <3>4
  <2>4. Idle \notin Range(kernel.ready) /\ ~Waits(Idle) /\ IsInjective(kernel.ready)
    BY <2>1, <2>2, ThreeThreads DEF Good, Consistent, ReadyCanRun, WaitersLive
  <2> QED  BY <2>3, <2>4
<1> QED  BY <1>1, InvAlways, PTL

\* The two views of a blocked thread agree (see BlockedListsAgree).
THEOREM BlockedViewsAgree == Spec => []BlockedListsAgree
<1>1. IInv => BlockedListsAgree
  <2> SUFFICES ASSUME IInv PROVE BlockedListsAgree
    OBVIOUS
  <2>1. CASE Running
    <3>1. ListsAgree(kernel) /\ CallsExplain
      BY <2>1 DEF IInv, Good, Consistent
    <3>2. \A s \in Sems : s # Null
      BY ThreadsAssumption
    <3> SUFFICES ASSUME NEW s \in Sems
                 PROVE  /\ IsInjective(kernel.blocked[s])
                        /\ \A t \in Threads :
                             /\ t \in Range(kernel.blocked[s]) <=> kernel.blockedAtSem[t] = s
                             /\ kernel.blockedAtSem[t] = s => WaitsAt(t) = s
      BY DEF BlockedListsAgree
    <3>3. /\ IsInjective(kernel.blocked[s])
          /\ \A t \in Threads : t \in Range(kernel.blocked[s]) <=> kernel.blockedAtSem[t] = s
      BY <3>1 DEF ListsAgree
    <3>4. \A t \in Threads : kernel.blockedAtSem[t] = s => WaitsAt(t) = s
      BY <3>1, <3>2 DEF CallsExplain
    <3> QED  BY <3>3, <3>4
  <2>2. CASE ~Running
    <3>1. /\ \A s \in Sems : kernel.blocked[s] = <<>>
          /\ \A t \in Threads : kernel.blockedAtSem[t] = Null
      BY <2>2 DEF IInv, WaitsIn
    <3> QED  BY <3>1, EmptyList, ThreadsAssumption DEF BlockedListsAgree
  <2> QED  BY <2>1, <2>2
<1> QED  BY <1>1, InvAlways, PTL

\* Nobody waits for what is there or will never come (see WaitersAreShort).
THEOREM WaitersLackTokens == Spec => []WaitersAreShort
<1>1. IInv => WaitersAreShort
  BY DEF IInv, Good, Consistent, Short, WaitersAreShort
<1> QED  BY <1>1, InvAlways, PTL

\* The sleep list is whole and in order (see SleepListInOrder).
THEOREM SleepersInOrder == Spec => []SleepListInOrder
<1>1. IInv => SleepListInOrder
  <2> SUFFICES ASSUME IInv PROVE SleepListInOrder
    OBVIOUS
  <2>1. CASE Running
    BY <2>1 DEF IInv, Good, Consistent, SleepersListed, InOrder, SleepListInOrder
  <2>2. CASE ~Running
    <3>1. /\ kernel.sleepList = <<>>
          /\ \A t \in Threads : ~sleeps(kernel, t)
      BY <2>2 DEF IInv, WaitsIn
    <3> QED  BY <3>1, EmptyList DEF SleepListInOrder, InOrder
  <2> QED  BY <2>1, <2>2
<1> QED  BY <1>1, InvAlways, PTL

\* The end is final (see EndIsFinal).
THEOREM FinishedForEver == Spec => EndIsFinal
<1> DEFINE A == /\ kernel.finished \subseteq kernel'.finished
                /\ (kernel.opened \ kernel.active) \cap kernel'.active = {}
                /\ \A t \in kernel.finished \ {Idle} :
                     /\ kernel'.running # t
                     /\ t \notin Range(kernel'.ready)
                     /\ ~Waits(t)'
<1>1. IInv /\ [Next]_vars => [A]_vars
  <2> SUFFICES ASSUME IInv, [Next]_vars PROVE A
    OBVIOUS
  <2>1. IInv' /\ Finality
    BY InvStep
  <2>2. \A t \in kernel.finished : t \in kernel'.finished /\ t \in Threads
    BY <2>1, KernelFields DEF Finality, IInv, TypeOK
  <2>3. \A t : Waits(t)' <=> WaitsIn(kernel', t)
    BY DEF Waits, WaitsIn
  <2>4. CASE Running'
    <3>1. Good(kernel')
      BY <2>1, <2>4 DEF IInv
    <3>2. \A t \in kernel.finished \ {Idle} :
            kernel'.running # t /\ t \notin Range(kernel'.ready) /\ ~WaitsIn(kernel', t)
      BY <2>2, <3>1 DEF Good, Consistent, RunnerRuns, ReadyCanRun, WaitersLive
    <3> QED  BY <2>1, <2>3, <3>2 DEF Finality
  <2>5. CASE ~Running'
    <3>1. /\ kernel'.running = Master /\ Master \notin kernel'.finished
          /\ kernel'.ready = <<>> /\ \A t \in Threads : ~WaitsIn(kernel', t)
      BY <2>1, <2>5 DEF IInv
    <3> QED  BY <2>1, <2>2, <2>3, <3>1, EmptyList DEF Finality
  <2> QED  BY <2>4, <2>5
<1>2. Spec => [][A]_vars
  BY <1>1, InvAlways, PTL DEF Spec
<1> QED  BY <1>2 DEF EndIsFinal

-----------------------------------------------------------------------------
(***************************************************************************)
(* First come, first served: nobody passes another thread in the ready     *)
(* list or in the list of a semaphore (NoOvertaking).                      *)
(***************************************************************************)
\* Whoever is in both parts of a list without doubles is in the later
\* one: taking from the front and adding at the end lets nobody pass.
LEMMA FrontToBack ==
  ASSUME NEW S, NEW q \in Seq(S), NEW r \in Seq(S), NEW a \in Seq(S), NEW b \in Seq(S),
         q \o a = b \o r, IsInjective(q \o a)
  PROVE  \A t, u : ~Passes(q, r, t, u)
<1> DEFINE c == q \o a  m == Len(q)  n == Len(r)  o == Len(b)  l == Len(c)
<1>1. /\ m \in Nat /\ n \in Nat /\ o \in Nat /\ l \in Nat /\ l = o + n /\ m <= l
      /\ DOMAIN q = 1 .. m /\ DOMAIN r = 1 .. n /\ DOMAIN c = 1 .. l
  <2>1. /\ c \in Seq(S) /\ Len(c) = m + Len(a) /\ Len(b \o r) = o + n
        /\ Len(a) \in Nat /\ m \in Nat /\ n \in Nat /\ o \in Nat
    BY ConcatProperties, LenProperties
  <2> QED  BY <2>1, LenProperties
<1>2. \A i \in 1 .. m : i \in 1 .. l /\ c[i] = q[i]
  <2>1. \A i \in 1 .. m + Len(a) : c[i] = IF i <= m THEN q[i] ELSE a[i - m]
    BY ConcatProperties
  <2>2. Len(a) \in Nat
    BY LenProperties
  <2> HIDE DEF c, m, l
  <2> QED  BY <1>1, <2>1, <2>2
<1>3. \A i \in 1 .. n : i + o \in 1 .. l /\ c[i + o] = r[i]
  <2>1. \A i \in 1 .. o + n : c[i] = IF i <= o THEN b[i] ELSE r[i - o]
    BY ConcatProperties
  <2> HIDE DEF c, o, n, l
  <2> TAKE i \in 1 .. n
  <2>2. i + o \in 1 .. o + n /\ ~(i + o <= o) /\ (i + o) - o = i
    BY <1>1
  <2>3. c[i + o] = r[(i + o) - o]
    BY <2>1, <2>2
  <2> QED  BY <1>1, <2>2, <2>3
<1>4. \A i, j \in 1 .. l : c[i] = c[j] => i = j
  BY <1>1 DEF IsInjective
<1> HIDE DEF c, m, n, o, l
<1>5. \A i \in 1 .. l : i > o => \E h \in 1 .. n : i = h + o /\ r[h] = c[i]
  <2> SUFFICES ASSUME NEW i \in 1 .. l, i > o
               PROVE  \E h \in 1 .. n : i = h + o /\ r[h] = c[i]
    OBVIOUS
  <2> DEFINE h == i - o
  <2>1. h \in 1 .. n /\ i = h + o
    BY <1>1
  <2> HIDE DEF h
  <2> QED  BY <1>3, <2>1
<1>6. ASSUME NEW t \in Range(q) \cap Range(r), NEW u
      PROVE  /\ Before(q, t, u) => u \in Range(r)
             /\ Before(r, u, t) => Before(q, u, t)
  <2>1. PICK x \in 1 .. m : q[x] = t
    BY <1>1 DEF Range
  <2>2. PICK y \in 1 .. n : r[y] = t
    BY <1>1 DEF Range
  <2>3. x = y + o
    BY <1>2, <1>3, <1>4, <2>1, <2>2
  <2>4. ASSUME Before(q, t, u) PROVE u \in Range(r)
    <3>1. PICK i \in 1 .. m, j \in 1 .. m : i < j /\ q[i] = t /\ q[j] = u
      BY <1>1, <2>4 DEF Before
    <3>2. i = x
      BY <1>2, <1>4, <2>1, <3>1
    <3>3. j \in 1 .. l /\ j > o /\ c[j] = u
      <4>1. j \in 1 .. l /\ c[j] = u
        BY <1>2, <3>1
      <4>2. j > o
        BY <1>1, <2>3, <3>1, <3>2
      <4> QED  BY <4>1, <4>2
    <3>4. PICK h \in 1 .. n : r[h] = c[j]
      BY <1>5, <3>3
    <3> QED  BY <1>1, <3>3, <3>4 DEF Range
  <2>5. ASSUME Before(r, u, t) PROVE Before(q, u, t)
    <3>1. PICK i \in 1 .. n, j \in 1 .. n : i < j /\ r[i] = u /\ r[j] = t
      BY <1>1, <2>5 DEF Before
    <3>2. j + o = x
      <4>1. j + o \in 1 .. l /\ c[j + o] = t
        BY <1>3, <3>1
      <4>2. x \in 1 .. l /\ c[x] = t
        BY <1>2, <2>1
      <4> QED  BY <1>4, <4>1, <4>2
    <3>3. i + o \in 1 .. m /\ i + o < x
      BY <1>1, <3>1, <3>2
    <3>4. q[i + o] = u
      BY <1>2, <1>3, <3>1, <3>3
    <3> QED  BY <1>1, <2>1, <3>3, <3>4 DEF Before
  <2> QED  BY <2>4, <2>5
<1> QED  BY <1>6 DEF Passes

\* A list that stays, or that is emptied, lets nobody pass.
LEMMA NobodyPasses ==
  ASSUME NEW q, NEW t, NEW u
  PROVE  ~Passes(q, q, t, u) /\ ~Passes(q, <<>>, t, u)
<1>1. Before(q, t, u) => u \in Range(q)
  BY DEF Before, Range
<1>2. t \notin Range(<<>>)
  BY EmptyList
<1> QED  BY <1>1, <1>2 DEF Passes

-----------------------------------------------------------------------------
\* Threads that become ready queue behind the others, and waiters leave the
\* list of their semaphore from its front.
Queued(k, u) ==
  /\ \E a \in Seq(Threads) : u.ready = k.ready \o a
  /\ \A s \in Sems : \E b \in Seq(Threads) : k.blocked[s] = b \o u.blocked[s]

\* So does a routine that leaves the lists alone,
LEMMA QueuedSame ==
  ASSUME NEW k \in Kernels, NEW u, u.ready = k.ready,
         \A s \in Sems : u.blocked[s] = k.blocked[s]
  PROVE  Queued(k, u)
<1>1. <<>> \in Seq(Threads)
  BY EmptySeq
<1>2. k.ready = k.ready \o <<>>
  BY KernelFields, ConcatEmptySeq
<1>3. \A s \in Sems : k.blocked[s] = <<>> \o k.blocked[s]
  BY KernelFields, ConcatEmptySeq
<1> QED  BY <1>1, <1>2, <1>3 DEF Queued

\* and one routine after the other.
LEMMA QueuedTwice ==
  ASSUME NEW k \in Kernels, NEW u \in Kernels, NEW w \in Kernels,
         Queued(k, u), Queued(u, w)
  PROVE  Queued(k, w)
<1>1. PICK a \in Seq(Threads) : u.ready = k.ready \o a
  BY DEF Queued
<1>2. PICK c \in Seq(Threads) : w.ready = u.ready \o c
  BY DEF Queued
<1>3. PICK q \in Seq(Threads) : q = k.ready
  BY KernelFields
<1>4. w.ready = k.ready \o (a \o c) /\ a \o c \in Seq(Threads)
  <2>1. (q \o a) \o c = q \o (a \o c)
    BY ConcatAssociative
  <2>2. a \o c \in Seq(Threads)
    BY ConcatProperties
  <2> QED  BY <1>1, <1>2, <1>3, <2>1, <2>2
<1>5. ASSUME NEW s \in Sems
      PROVE  \E b \in Seq(Threads) : k.blocked[s] = b \o w.blocked[s]
  <2>1. PICK b \in Seq(Threads) : k.blocked[s] = b \o u.blocked[s]
    BY DEF Queued
  <2>2. PICK d \in Seq(Threads) : u.blocked[s] = d \o w.blocked[s]
    BY DEF Queued
  <2>3. PICK p \in Seq(Threads) : p = w.blocked[s]
    BY KernelFields
  <2>4. k.blocked[s] = (b \o d) \o w.blocked[s] /\ b \o d \in Seq(Threads)
    <3>1. (b \o d) \o p = b \o (d \o p)
      BY ConcatAssociative, SMTT(30)
    <3>2. b \o d \in Seq(Threads)
      BY ConcatProperties
    <3> QED  BY <2>1, <2>2, <2>3, <3>1, <3>2
  <2> QED  BY <2>4
<1> QED  BY <1>4, <1>5 DEF Queued

\* Waking the head of a semaphore's list, or all of it.
LEMMA WakeQueued ==
  ASSUME NEW k \in Kernels, Good(k), NEW s \in Sems, NEW q \in Seq(Threads), NEW manner,
         \/ k.blocked[s] # <<>> /\ q = <<Head(k.blocked[s])>>
         \/ q = k.blocked[s]
  PROVE  Queued(k, Wake(k, q, manner))
<1> DEFINE w == Wake(k, q, manner)
<1>1. /\ w.ready = k.ready \o q
      /\ \A x \in Sems : w.blocked[x] = Without(k.blocked[x], Range(q))
  <2> DEFINE v == Unlink(k, Range(q))
  <2>1. /\ v.ready = k.ready
        /\ \A x \in Sems : v.blocked[x] = Without(k.blocked[x], Range(q))
    BY UnlinkFields
  <2>2. w.ready = v.ready \o q /\ w.blocked = v.blocked
    BY WakeFields
  <2> HIDE DEF v, w
  <2> QED  BY <2>1, <2>2
<1>2. /\ k.blocked \in [Sems -> Seq(Threads)]
      /\ \A x \in Sems : IsInjective(k.blocked[x])
      /\ \A x \in Sems, t \in Threads : t \in Range(k.blocked[x]) => k.blockedAtSem[t] = x
  BY KernelFields DEF Good, Consistent, ListsAgree
<1>3. Range(q) \subseteq Range(k.blocked[s]) /\ Range(q) \subseteq Threads
  <2>1. k.blocked[s] \in Seq(Threads) /\ Range(q) \subseteq Threads
    BY <1>2, RangeByIndex
  <2>2. CASE k.blocked[s] # <<>> /\ q = <<Head(k.blocked[s])>>
    <3>1. /\ Head(k.blocked[s]) \in Range(k.blocked[s])
          /\ Head(k.blocked[s]) \in Threads
      BY <2>1, <2>2, HeadTailList
    <3>2. Range(q) = {Head(k.blocked[s])}
      BY <2>2, <3>1, SingleList
    <3> QED  BY <2>1, <3>1, <3>2
  <2> QED  BY <2>1, <2>2
<1> HIDE DEF w
<1>4. ASSUME NEW x \in Sems
      PROVE  \E b \in Seq(Threads) : k.blocked[x] = b \o w.blocked[x]
  <2>0. k.blocked[x] \in Seq(Threads) /\ IsInjective(k.blocked[x])
        /\ w.blocked[x] \in Seq(Threads)
    BY <1>1, <1>2, WithoutList
  <2>1. CASE x # s
    <3>1. Range(k.blocked[x]) \cap Range(q) = {}
      BY <1>2, <1>3, <2>1
    <3>2. w.blocked[x] = k.blocked[x]
      BY <1>1, <2>0, <3>1, WithoutNobody
    <3>3. k.blocked[x] = <<>> \o k.blocked[x] /\ <<>> \in Seq(Threads)
      BY <2>0, ConcatEmptySeq, EmptySeq
    <3> QED  BY <3>2, <3>3
  <2>2. CASE x = s /\ q = k.blocked[s]
    <3>1. Range(w.blocked[x]) = {}
      BY <1>1, <2>0, <2>2, WithoutList
    <3>2. w.blocked[x] = <<>>
      BY <2>0, <3>1, RangeByIndex
    <3>3. k.blocked[x] = k.blocked[x] \o <<>>
      BY <2>0, ConcatEmptySeq
    <3> QED  BY <2>0, <3>2, <3>3
  <2>3. CASE x = s /\ k.blocked[s] # <<>> /\ q = <<Head(k.blocked[s])>>
    <3>1. Range(q) = {Head(k.blocked[x])}
      BY <2>0, <2>3, HeadTailList, SingleList
    <3>2. \E b \in Seq(Threads) :
            k.blocked[x] = b \o Without(k.blocked[x], {Head(k.blocked[x])})
      BY <2>0, <2>3, WithoutHead
    <3> QED  BY <1>1, <3>1, <3>2
  <2> QED  BY <2>1, <2>2, <2>3
<1> QED  BY <1>1, <1>4 DEF Queued, w

\* kSemaphore::signal
LEMMA SignalQueued ==
  ASSUME NEW k \in Kernels, Good(k), NEW s
  PROVE  Queued(k, Signal(k, s))
<1>0. s \in k.active => s \in Sems
  BY KernelFields
<1>1. CASE s \notin k.active
  <2>1. Signal(k, s) = k
    BY <1>1 DEF Signal
  <2> QED  BY <2>1, QueuedSame
<1>2. CASE s \in k.active /\ k.blocked[s] = <<>>
  <2> DEFINE u == [k EXCEPT !.value[s] = @ + 1]
  <2>1. Signal(k, s) = u
    BY <1>2 DEF Signal
  <2>2. u.ready = k.ready /\ u.blocked = k.blocked
    BY DEF Kernels
  <2> HIDE DEF u
  <2> QED  BY <2>1, <2>2, QueuedSame
<1>3. CASE s \in k.active /\ k.blocked[s] # <<>>
  <2> DEFINE first == Head(k.blocked[s])
             fewer == [k EXCEPT !.tokensNeeded[first] = @ - 1]
  <2>1. first \in Threads /\ <<first>> \in Seq(Threads)
    BY <1>0, <1>3, KernelFields, HeadTailList
  <2>2. Queued(k, Wake(k, <<first>>, "REGULAR"))
    BY <1>0, <1>3, <2>1, WakeQueued
  <2>3. fewer.ready = k.ready /\ fewer.blocked = k.blocked
    BY DEF Kernels
  <2>4. Signal(k, s) \in {Wake(k, <<first>>, "REGULAR"), fewer}
    BY <1>3 DEF Signal
  <2> HIDE DEF fewer, first
  <2> QED  BY <2>2, <2>3, <2>4, QueuedSame
<1> QED  BY <1>1, <1>2, <1>3

\* kSemaphore::signalAll
LEMMA SignalAllQueued ==
  ASSUME NEW k \in Kernels, Good(k), NEW s \in Sems, NEW manner \in UnblockManners
  PROVE  Queued(k, SignalAll(k, s, manner))
<1>1. CASE s \notin k.active
  <2>1. SignalAll(k, s, manner) = k
    BY <1>1 DEF SignalAll
  <2> QED  BY <2>1, QueuedSame
<1>2. CASE s \in k.active
  <2> DEFINE w == Wake(k, k.blocked[s], manner)
             u == [w EXCEPT !.value[s] = 0]
  <2>1. k.blocked[s] \in Seq(Threads)
    BY KernelFields
  <2>2. w \in Kernels /\ Queued(k, w)
    BY <2>1, WakeQueued, WakeType
  <2>3. SignalAll(k, s, manner) = u
    BY <1>2 DEF SignalAll
  <2> HIDE DEF w
  <2>4. u.ready = w.ready /\ u.blocked = w.blocked
    BY <2>2 DEF Kernels
  <2> HIDE DEF u
  <2> QED  BY <2>2, <2>3, <2>4 DEF Queued
<1> QED  BY <1>1, <1>2

\* kSemaphore::close
LEMMA CloseQueued ==
  ASSUME NEW k \in Kernels, Good(k), NEW s \in Sems
  PROVE  Queued(k, Close(k, s))
<1> DEFINE a == SignalAll(k, s, "ON_CLOSE")
           u == [a EXCEPT !.active = @ \ {s}]
<1>1. a \in Kernels /\ Queued(k, a)
  BY SignalAllType, SignalAllQueued DEF UnblockManners
<1>2. Close(k, s) = u
  BY DEF Close
<1> HIDE DEF a
<1>3. u.ready = a.ready /\ u.blocked = a.blocked
  BY <1>1 DEF Kernels
<1> HIDE DEF u
<1> QED  BY <1>1, <1>2, <1>3 DEF Queued

\* The end of a child.
LEMMA LeaveParentQueued ==
  ASSUME NEW k \in Kernels, Good(k)
  PROVE  Queued(k, LeaveParent(k))
<1> DEFINE p == k.parent[k.running]
           counted == [k EXCEPT !.numOfActiveChildren[p] = CountDown(@)]
<1>1. CASE p = Null \/ p \in k.finished
  <2>1. LeaveParent(k) = k
    BY <1>1 DEF LeaveParent
  <2> QED  BY <2>1, QueuedSame
<1>2. CASE ~(p = Null \/ p \in k.finished)
  <2>1. p \in Threads
    BY <1>2 DEF Kernels
  <2>2. k.numOfActiveChildren[p] \in 0 .. CountMod - 1
    BY <2>1 DEF Kernels
  <2>3. counted \in Kernels
    BY <2>1, <2>2, CountType DEF Kernels
  <2>4. /\ SameThreads(k, counted) /\ counted.ready = k.ready
        /\ counted.active = k.active /\ counted.value = k.value
        /\ counted.blocked = k.blocked /\ counted.sleepList = k.sleepList
        /\ counted.remaining = k.remaining
        /\ counted.blockedAtSem = k.blockedAtSem
        /\ counted.tokensNeeded = k.tokensNeeded
    BY DEF Kernels, SameThreads
  <2>5. LeaveParent(k) \in {Signal(counted, semJoinAll(p)), counted}
    BY <1>2 DEF LeaveParent
  <2> HIDE DEF counted
  <2>6. Good(counted) /\ Queued(k, counted)
    BY <2>4, GoodDepends, QueuedSame
  <2>7. /\ Signal(counted, semJoinAll(p)) \in Kernels
        /\ Queued(counted, Signal(counted, semJoinAll(p)))
    BY <2>1, <2>3, <2>6, SemFrames, SignalType, SignalQueued
  <2> QED  BY <2>3, <2>5, <2>6, <2>7, QueuedTwice
<1> QED  BY <1>1, <1>2

\* The rest of a handler.
LEMMA RestQueued ==
  ASSUME NEW k \in Kernels, Good(k), NEW f \in Frames
  PROVE  Queued(k, Rest(f, k))
<1>1. CASE f.call = "send"
  <2> DEFINE m == [k EXCEPT !.message[f.on] = f.msg]
  <2>1. f.msg \in Messages \cup {Null}
    BY DEF Frames
  <2>2. m \in Kernels
    BY <2>1 DEF Kernels
  <2>3. /\ SameThreads(k, m) /\ m.ready = k.ready /\ m.active = k.active
        /\ m.value = k.value /\ m.blocked = k.blocked /\ m.sleepList = k.sleepList
        /\ m.remaining = k.remaining /\ m.blockedAtSem = k.blockedAtSem
        /\ m.tokensNeeded = k.tokensNeeded
    BY DEF Kernels, SameThreads
  <2>4. Rest(f, k) = Signal(m, semReceive(f.on))
    BY <1>1 DEF Rest
  <2> HIDE DEF m
  <2>5. Good(m)
    BY <2>3, GoodDepends
  <2>6. Queued(m, Signal(m, semReceive(f.on)))
    BY <1>1, <2>2, <2>5, SignalQueued
  <2> QED  BY <2>3, <2>4, <2>6 DEF Queued
<1>2. CASE f.call = "receive"
  <2>1. Rest(f, k) = Signal(k, semSend(k.running))
    BY <1>2 DEF Rest
  <2>2. semSend(k.running) \in Sems
    BY KernelFields, SemFrames
  <2> QED  BY <2>1, <2>2, SignalQueued
<1>3. CASE f.call # "send" /\ f.call # "receive"
  <2>1. Rest(f, k) = k
    BY <1>3 DEF Rest
  <2> QED  BY <2>1, QueuedSame
<1> QED  BY <1>1, <1>2, <1>3

\* TCB::finish until its final yield.
LEMMA FinishQueued ==
  ASSUME NEW k \in Kernels, Good(k)
  PROVE  \E m \in Kernels : Queued(k, m) /\ Finish(k) = Yield(m, FALSE)
<1> DEFINE t        == k.running
           a        == Close(k, semSend(t))
           noMail   == Close(a, semReceive(t))
           told     == SignalAll(noMail, semJoin(t), "REGULAR")
           joined   == Close(told, semJoin(t))
           left     == LeaveParent(joined)
           orphaned == Close(left, semJoinAll(t))
           alone    == Unlink(orphaned, {t})
           ended    == [alone EXCEPT !.finished = @ \cup {t}]
<1>0. /\ t \in Threads /\ semSend(t) \in Sems /\ semReceive(t) \in Sems
      /\ semJoin(t) \in Sems /\ semJoinAll(t) \in Sems /\ Queued(k, k)
      /\ "REGULAR" \in UnblockManners
  BY KernelFields, SemFrames, QueuedSame DEF UnblockManners
<1>1. a \in Kernels /\ Good(a) /\ Queued(k, a) /\ SameThreads(k, a)
  BY <1>0, CloseKeeps, CloseType, CloseQueued DEF Steady
<1> HIDE DEF a
<1>2. noMail \in Kernels /\ Good(noMail) /\ Queued(a, noMail) /\ SameThreads(a, noMail)
  BY <1>0, <1>1, CloseKeeps, CloseType, CloseQueued DEF Steady
<1> HIDE DEF noMail
<1>3. told \in Kernels /\ Good(told) /\ Queued(noMail, told) /\ SameThreads(noMail, told)
  BY <1>0, <1>2, SignalAllKeeps, SignalAllType, SignalAllQueued DEF Steady
<1> HIDE DEF told
<1>4. joined \in Kernels /\ Good(joined) /\ Queued(told, joined) /\ SameThreads(told, joined)
  BY <1>0, <1>3, CloseKeeps, CloseType, CloseQueued DEF Steady
<1> HIDE DEF joined
<1>5. left \in Kernels /\ Good(left) /\ Queued(joined, left) /\ SameThreads(joined, left)
  BY <1>4, LeaveParentKeeps, LeaveParentType, LeaveParentQueued DEF Steady
<1> HIDE DEF left
<1>6. /\ orphaned \in Kernels /\ Good(orphaned) /\ Queued(left, orphaned)
      /\ SameThreads(left, orphaned)
  BY <1>0, <1>5, CloseKeeps, CloseType, CloseQueued DEF Steady
<1> HIDE DEF orphaned
<1>7. orphaned.running = t
  BY <1>1, <1>2, <1>3, <1>4, <1>5, <1>6 DEF SameThreads
<1>8. Queued(k, orphaned)
  <2>1. Queued(k, noMail)
    BY <1>1, <1>2, QueuedTwice
  <2>2. Queued(k, told)
    BY <1>2, <1>3, <2>1, QueuedTwice
  <2>3. Queued(k, joined)
    BY <1>3, <1>4, <2>2, QueuedTwice
  <2>4. Queued(k, left)
    BY <1>4, <1>5, <2>3, QueuedTwice
  <2> QED  BY <1>5, <1>6, <2>4, QueuedTwice
<1>9. /\ alone \in Kernels /\ alone.ready = orphaned.ready
      /\ \A s \in Sems : alone.blocked[s] = orphaned.blocked[s]
  <2>1. /\ alone \in Kernels /\ alone.ready = orphaned.ready
        /\ \A s \in Sems : alone.blocked[s] = Without(orphaned.blocked[s], {t})
    BY <1>6, UnlinkType, UnlinkFields
  <2> HIDE DEF alone
  <2>2. ASSUME NEW s \in Sems
        PROVE  alone.blocked[s] = orphaned.blocked[s]
    <3>1. orphaned.blocked[s] \in Seq(Threads)
      BY <1>6, KernelFields
    <3>2. t \notin Range(orphaned.blocked[s])
      <4>1. orphaned.blockedAtSem[t] = Null
        BY <1>6, <1>7 DEF Good, RunnerRuns, WaitsIn
      <4> QED  BY <1>0, <1>6, <4>1, ThreadsAssumption DEF Good, Consistent, ListsAgree
    <3> QED  BY <2>1, <3>1, <3>2, WithoutNobody
  <2> QED  BY <2>1, <2>2
<1> HIDE DEF alone
<1>10. /\ ended \in Kernels /\ ended.ready = orphaned.ready
       /\ \A s \in Sems : ended.blocked[s] = orphaned.blocked[s]
  BY <1>0, <1>9 DEF Kernels
<1>11. Finish(k) = Yield(ended, FALSE)
  BY DEF Finish, ended, alone, orphaned, left, joined, told, noMail, a
<1> HIDE DEF ended
<1>12. Queued(k, ended)
  BY <1>8, <1>10 DEF Queued
<1> QED  BY <1>10, <1>11, <1>12

-----------------------------------------------------------------------------
\* Between two records nobody passes another, in any list.
Fifo(k, u) ==
  \A t, v : /\ ~Passes(k.ready, u.ready, t, v)
            /\ \A s \in Sems : ~Passes(k.blocked[s], u.blocked[s], t, v)

\* Leaving a list from its front passes nobody.
LEMMA FrontFifo ==
  ASSUME NEW q \in Seq(Threads), NEW r \in Seq(Threads), IsInjective(q),
         \E b \in Seq(Threads) : q = b \o r
  PROVE  \A t, v : ~Passes(q, r, t, v)
<1>1. PICK b \in Seq(Threads) : q = b \o r
  OBVIOUS
<1>2. <<>> \in Seq(Threads) /\ q \o <<>> = q
  BY EmptySeq, ConcatEmptySeq
<1>3. q \o <<>> = b \o r /\ IsInjective(q \o <<>>)
  BY <1>1, <1>2
<1> QED  BY <1>1, <1>2, <1>3, FrontToBack

\* Joining it at the end passes nobody.
LEMMA BackFifo ==
  ASSUME NEW q \in Seq(Threads), NEW r \in Seq(Threads), IsInjective(r),
         \E a \in Seq(Threads) : r = q \o a
  PROVE  \A t, v : ~Passes(q, r, t, v)
<1>1. PICK a \in Seq(Threads) : r = q \o a
  OBVIOUS
<1>2. <<>> \in Seq(Threads) /\ <<>> \o r = r
  BY EmptySeq, ConcatEmptySeq
<1>3. q \o a = <<>> \o r /\ IsInjective(q \o a)
  BY <1>1, <1>2
<1> QED  BY <1>1, <1>2, <1>3, FrontToBack

\* A handler that queues and returns,
LEMMA QueuedFifo ==
  ASSUME NEW k \in Kernels, Good(k), NEW u \in Kernels, Good(u), Queued(k, u)
  PROVE  Fifo(k, u)
<1>1. /\ k.ready \in Seq(Threads) /\ u.ready \in Seq(Threads)
      /\ \A s \in Sems : /\ k.blocked[s] \in Seq(Threads)
                         /\ u.blocked[s] \in Seq(Threads)
  BY KernelFields
<1>2. /\ IsInjective(u.ready)
      /\ \A s \in Sems : IsInjective(k.blocked[s])
  BY DEF Good, Consistent, ReadyCanRun, ListsAgree
<1>3. \A t, v : ~Passes(k.ready, u.ready, t, v)
  BY <1>1, <1>2, BackFifo DEF Queued
<1>4. ASSUME NEW s \in Sems
      PROVE  \A t, v : ~Passes(k.blocked[s], u.blocked[s], t, v)
  BY <1>1, <1>2, FrontFifo DEF Queued
<1> QED  BY <1>3, <1>4 DEF Fifo

\* or yields: the head of the ready list leaves it, the running thread may
\* join it.
LEMMA YieldReady ==
  ASSUME NEW k \in Kernels, NEW m \in Kernels, NEW schPut \in BOOLEAN,
         \E a \in Seq(Threads) : m.ready = k.ready \o a, Good(Yield(m, schPut)),
         NEW u, u = Yield(m, schPut)
  PROVE  u.blocked = m.blocked /\ \A t, v : ~Passes(k.ready, u.ready, t, v)
<1> DEFINE old == m.running
           put == CanContinue(m, old) /\ schPut /\ old # Idle
           q == IF put THEN Append(m.ready, old) ELSE m.ready
<1>1. /\ u.running = (IF q = <<>> THEN Idle ELSE Head(q))
      /\ u.ready = (IF q = <<>> THEN q ELSE Tail(q))
      /\ u.blocked = m.blocked
  BY YieldFields DEF YieldQueue
<1>2. /\ k.ready \in Seq(Threads) /\ m.ready \in Seq(Threads) /\ old \in Threads
  BY KernelFields
<1>3. PICK a \in Seq(Threads) : m.ready = k.ready \o a
  OBVIOUS
<1>4. PICK c \in Seq(Threads) : q = k.ready \o c
  <2>1. CASE put
    <3>1. PICK p \in Seq(Threads) : p = k.ready
      BY <1>2
    <3>2. <<old>> \in Seq(Threads) /\ q = m.ready \o <<old>>
      BY <1>2, <2>1, AppendIsConcat, SingleList
    <3>3. (p \o a) \o <<old>> = p \o (a \o <<old>>) /\ a \o <<old>> \in Seq(Threads)
      <4> HIDE DEF old
      <4>1. (p \o a) \o <<old>> = p \o (a \o <<old>>)
        BY <3>2, ConcatAssociative
      <4>2. a \o <<old>> \in Seq(Threads)
        BY <3>2, ConcatProperties
      <4> QED  BY <4>1, <4>2
    <3> HIDE DEF q
    <3> QED  BY <1>3, <3>1, <3>2, <3>3
  <2>2. CASE ~put
    BY <1>3, <2>2
  <2> QED  BY <2>1, <2>2
<1> HIDE DEF q, put, old
<1>5. q \in Seq(Threads)
  BY <1>2, <1>4, ConcatProperties
<1>6. CASE q = <<>>
  <2>1. u.ready = <<>>
    BY <1>1, <1>6
  <2> QED  BY <1>1, <2>1, NobodyPasses
<1>7. CASE q # <<>>
  <2>1. /\ u.running = Head(q) /\ u.ready = Tail(q) /\ Head(q) \in Threads
        /\ Tail(q) \in Seq(Threads)
    BY <1>1, <1>5, <1>7, HeadTailList
  <2>2. IsInjective(u.ready) /\ u.running \notin Range(u.ready)
    <3>1. ReadyCanRun(u)
      BY DEF Good, Consistent
    <3> QED  BY <3>1 DEF ReadyCanRun
  <2>3. <<u.running>> \in Seq(Threads) /\ Range(<<u.running>>) = {u.running}
        /\ IsInjective(<<u.running>>)
    BY <2>1, SingleList
  <2>4. IsInjective(<<u.running>> \o u.ready)
    <3>1. Range(<<u.running>>) \cap Range(u.ready) = {}
      BY <2>2, <2>3
    <3> QED  BY <2>1, <2>2, <2>3, <3>1, ConcatList
  <2>5. q = <<u.running>> \o u.ready
    BY <1>5, <1>7, <2>1
  <2>6. k.ready \o c = <<u.running>> \o u.ready /\ IsInjective(k.ready \o c)
    BY <1>4, <2>4, <2>5
  <2> QED  BY <1>1, <1>2, <1>4, <2>1, <2>3, <2>6, FrontToBack
<1> QED  BY <1>6, <1>7

\* A handler that queues and yields lets nobody pass.
LEMMA YieldFifo ==
  ASSUME NEW k \in Kernels, Good(k), NEW m \in Kernels, Queued(k, m),
         NEW schPut \in BOOLEAN, Good(Yield(m, schPut))
  PROVE  Fifo(k, Yield(m, schPut))
<1> DEFINE u == Yield(m, schPut)
<1>1. \E a \in Seq(Threads) : m.ready = k.ready \o a
  BY DEF Queued
<1>2. Good(u)
  OBVIOUS
<1>3. u.blocked = m.blocked /\ \A t, v : ~Passes(k.ready, u.ready, t, v)
  BY <1>1, YieldReady
<1> HIDE DEF u
<1>4. ASSUME NEW s \in Sems
      PROVE  \A t, v : ~Passes(k.blocked[s], u.blocked[s], t, v)
  <2>1. k.blocked[s] \in Seq(Threads) /\ m.blocked[s] \in Seq(Threads)
    BY KernelFields
  <2>2. IsInjective(k.blocked[s])
    BY DEF Good, Consistent, ListsAgree
  <2>3. \E b \in Seq(Threads) : k.blocked[s] = b \o m.blocked[s]
    BY DEF Queued
  <2>4. \A t, v : ~Passes(k.blocked[s], m.blocked[s], t, v)
    BY <2>1, <2>2, <2>3, FrontFifo
  <2> QED  BY <1>3, <2>4
<1>5. Fifo(k, u)
  BY <1>3, <1>4 DEF Fifo
<1> QED  BY <1>5 DEF u

\* or blocks: m is the record before the yield.
LEMMA BlockFifo ==
  ASSUME NEW k \in Kernels, NEW m \in Kernels, m.ready = k.ready,
         \A s \in Sems : \E b \in Seq(Threads) : m.blocked[s] = k.blocked[s] \o b,
         Good(Yield(m, FALSE))
  PROVE  Fifo(k, Yield(m, FALSE))
<1> DEFINE u == Yield(m, FALSE)
<1>1. \E a \in Seq(Threads) : m.ready = k.ready \o a
  <2>1. k.ready \in Seq(Threads) /\ <<>> \in Seq(Threads)
    BY KernelFields, EmptySeq
  <2>2. k.ready = k.ready \o <<>>
    BY <2>1, ConcatEmptySeq
  <2>3. m.ready = k.ready \o <<>>
    BY <2>2
  <2> HIDE DEF u
  <2> QED  BY <2>1, <2>3
<1>2. Good(u)
  OBVIOUS
<1>3. u.blocked = m.blocked /\ \A t, v : ~Passes(k.ready, u.ready, t, v)
  BY <1>1, YieldReady
<1> HIDE DEF u
<1>4. ASSUME NEW s \in Sems
      PROVE  \A t, v : ~Passes(k.blocked[s], u.blocked[s], t, v)
  <2>1. k.blocked[s] \in Seq(Threads) /\ m.blocked[s] \in Seq(Threads)
    BY KernelFields
  <2>2. IsInjective(m.blocked[s])
    BY <1>2, <1>3 DEF Good, Consistent, ListsAgree
  <2>3. \E b \in Seq(Threads) : m.blocked[s] = k.blocked[s] \o b
    OBVIOUS
  <2> QED  BY <1>3, <2>1, <2>2, <2>3, BackFifo
<1>5. Fifo(k, u)
  BY <1>3, <1>4 DEF Fifo
<1> QED  BY <1>5 DEF u

-----------------------------------------------------------------------------
\* The context of what follows: the invariant before the step, and what
\* SafeStep and TypeStep say of the record after it.
Stepping == Safe /\ kernel' \in Kernels /\ Good(kernel')

\* A handler that returns,
LEMMA ReturnFifo ==
  ASSUME Stepping, NEW k, Queued(kernel, k), NEW f, NEW v, Return(f, k, v)
  PROVE  Fifo(kernel, kernel')
<1>1. kernel' = k /\ k \in Kernels /\ Good(k) /\ kernel \in Kernels /\ Good(kernel)
  BY SafeFacts DEF Return, Stepping, Safe
<1> QED  BY <1>1, QueuedFifo

\* that does its rest and returns,
LEMMA CompleteFifo ==
  ASSUME Stepping, NEW k \in Kernels, Good(k), Queued(kernel, k), NEW f \in Frames,
         NEW outcome, Complete(f, k, outcome)
  PROVE  Fifo(kernel, kernel')
<1>1. Return(f, Rest(f, k), Result(f, k, outcome))
  BY DEF Complete
<1>2. kernel \in Kernels /\ Rest(f, k) \in Kernels
  BY <1>1, SafeFacts DEF Return, Stepping
<1>3. Queued(kernel, Rest(f, k))
  BY <1>2, RestQueued, QueuedTwice
<1> QED  BY <1>1, <1>3, ReturnFifo

\* or waits.
LEMMA WaitingFifo ==
  ASSUME Stepping, NEW k \in Kernels, k.ready = kernel.ready,
         \A s \in Sems : \E b \in Seq(Threads) : k.blocked[s] = kernel.blocked[s] \o b,
         NEW f, Suspend(f, Yield(k, FALSE))
  PROVE  Fifo(kernel, kernel')
<1>1. kernel' = Yield(k, FALSE) /\ Good(Yield(k, FALSE)) /\ kernel \in Kernels
  BY SafeFacts DEF Suspend, Stepping
<1> QED  BY <1>1, BlockFifo

\* Only the list of the semaphore it waits at grows.
LEMMA BlockAppends ==
  ASSUME NEW k \in Kernels, NEW s \in Sems, NEW tokens \in Nat
  PROVE  /\ Block(k, s, tokens).ready = k.ready
         /\ \A x \in Sems : \E b \in Seq(Threads) :
              Block(k, s, tokens).blocked[x] = k.blocked[x] \o b
<1> DEFINE u == Block(k, s, tokens)
<1>1. /\ u.ready = k.ready
      /\ \A x \in Sems : u.blocked[x] = IF x = s THEN Append(k.blocked[x], k.running)
                                        ELSE k.blocked[x]
  BY DEF Block, Kernels
<1> HIDE DEF u
<1>2. ASSUME NEW x \in Sems
      PROVE  \E b \in Seq(Threads) : u.blocked[x] = k.blocked[x] \o b
  <2>1. PICK q \in Seq(Threads) : q = k.blocked[x]
    BY KernelFields
  <2>2. PICK t \in Threads : t = k.running
    BY KernelFields
  <2>3. CASE x = s
    <3>1. Append(q, t) = q \o <<t>> /\ <<t>> \in Seq(Threads)
      BY AppendIsConcat, SingleList
    <3> QED  BY <1>1, <2>1, <2>2, <2>3, <3>1
  <2>4. CASE x # s
    <3>1. q \o <<>> = q /\ <<>> \in Seq(Threads)
      BY EmptySeq, ConcatEmptySeq
    <3> QED  BY <1>1, <2>1, <2>4, <3>1
  <2> QED  BY <2>3, <2>4
<1> QED  BY <1>1, <1>2 DEF u

\* A call that waits at s,
LEMMA WaitFifo ==
  ASSUME Stepping, NEW f \in Frames, NEW s \in Sems, NEW tokens \in Nat,
         Wait(f, s, tokens)
  PROVE  Fifo(kernel, kernel')
<1>0. kernel \in Kernels /\ Good(kernel) /\ Queued(kernel, kernel)
  BY SafeFacts, QueuedSame DEF Stepping, Safe
<1>1. CASE Complete(f, kernel, ERR_SEM_DEAD)
  BY <1>0, <1>1, CompleteFifo
<1>2. CASE /\ kernel.value[s] >= tokens
           /\ Complete(f, Acquire(kernel, s, tokens),
                       ResolveManner(Acquire(kernel, s, tokens)))
  <2> DEFINE k == Acquire(kernel, s, tokens)
  <2>1. k \in Kernels /\ Good(k)
    BY <1>0, <1>2, AcquireType, AcquireKeeps
  <2>2. Queued(kernel, k)
    <3>1. k.ready = kernel.ready /\ k.blocked = kernel.blocked
      BY <1>0 DEF Kernels, Acquire
    <3> HIDE DEF k
    <3> QED  BY <1>0, <3>1, QueuedSame
  <2>3. Complete(f, k, ResolveManner(k))
    BY <1>2
  <2> HIDE DEF k
  <2> QED  BY <2>1, <2>2, <2>3, CompleteFifo
<1>3. CASE /\ s \in kernel.active /\ kernel.value[s] < tokens
           /\ Suspend(f, Yield(Block(kernel, s, tokens), FALSE))
  <2> DEFINE k == Block(kernel, s, tokens)
  <2>1. k \in Kernels
    BY <1>0, <1>3, BlockType
  <2>2. Suspend(f, Yield(k, FALSE))
    BY <1>3
  <2>3. /\ k.ready = kernel.ready
        /\ \A x \in Sems : \E b \in Seq(Threads) : k.blocked[x] = kernel.blocked[x] \o b
    BY <1>0, BlockAppends
  <2> HIDE DEF k
  <2> QED  BY <2>1, <2>2, <2>3, WaitingFifo
<1> QED  BY <1>1, <1>2, <1>3 DEF Wait

\* with a timeout or without,
LEMMA TimedWaitFifo ==
  ASSUME Stepping, NEW f \in Frames, NEW s \in Sems, NEW timeout \in Nat,
         NEW tokens \in Nat, TimedWait(f, s, timeout, tokens)
  PROVE  Fifo(kernel, kernel')
<1>0. kernel \in Kernels /\ Good(kernel) /\ Queued(kernel, kernel)
      /\ running \in Threads
  BY SafeFacts, QueuedSame DEF Stepping, Safe
<1>1. CASE (s \notin kernel.active \/ kernel.value[s] >= tokens) /\ Wait(f, s, tokens)
  BY <1>1, WaitFifo
<1>2. CASE Complete(f, BlockForNoTime(kernel, s),
                    ResolveManner(BlockForNoTime(kernel, s)))
  <2> DEFINE k == BlockForNoTime(kernel, s)
  <2>1. k \in Kernels /\ Good(k)
    BY <1>0, BlockForNoTimeType, BlockForNoTimeKeeps
  <2>2. Queued(kernel, k)
    <3>1. k.ready = kernel.ready /\ k.blocked = kernel.blocked
      BY <1>0 DEF Kernels, BlockForNoTime
    <3> HIDE DEF k
    <3> QED  BY <1>0, <3>1, QueuedSame
  <2>3. Complete(f, k, ResolveManner(k))
    BY <1>2
  <2> HIDE DEF k
  <2> QED  BY <2>1, <2>2, <2>3, CompleteFifo
<1>3. CASE /\ s \in kernel.active /\ kernel.value[s] < tokens /\ timeout > 0
           /\ Suspend(f, Yield(SleepPut(Block(kernel, s, tokens), running, timeout),
                               FALSE))
  <2> DEFINE b == Block(kernel, s, tokens)
             k == SleepPut(b, running, timeout)
  <2>1. b \in Kernels
    BY <1>0, <1>3, BlockType
  <2>2. Suspend(f, Yield(k, FALSE))
    BY <1>3
  <2>3. /\ b.ready = kernel.ready
        /\ \A x \in Sems : \E c \in Seq(Threads) : b.blocked[x] = kernel.blocked[x] \o c
    BY <1>0, BlockAppends
  <2> HIDE DEF b
  <2>4. k \in Kernels
    BY <1>0, <2>1, SleepPutType
  <2>5. k.ready = b.ready /\ k.blocked = b.blocked
    BY <2>1 DEF SleepPut, Kernels
  <2> HIDE DEF k
  <2>6. k.ready = kernel.ready
    BY <2>3, <2>5
  <2>7. \A x \in Sems : \E c \in Seq(Threads) : k.blocked[x] = kernel.blocked[x] \o c
    BY <2>3, <2>5
  <2> QED  BY <2>2, <2>4, <2>6, <2>7, WaitingFifo
<1> QED  BY <1>1, <1>2, <1>3 DEF TimedWait, Wait

\* one that sleeps,
LEMMA TimeSleepFifo ==
  ASSUME Stepping, NEW timeout \in Nat, TimeSleep(timeout)
  PROVE  Fifo(kernel, kernel')
<1> DEFINE f == Frame("timeSleep", Null, Null)
           k == SleepPut(kernel, running, timeout)
<1>0. kernel \in Kernels /\ Queued(kernel, kernel) /\ running \in Threads
  BY SafeFacts, QueuedSame DEF Stepping
<1>1. CASE Return(f, kernel, ERR_SLEEP_ZERO)
  BY <1>0, <1>1, ReturnFifo
<1>2. CASE Suspend(f, Yield(k, FALSE))
  <2>1. k \in Kernels
    BY <1>0, SleepPutType
  <2>2. k.ready = kernel.ready /\ k.blocked = kernel.blocked
    BY <1>0 DEF SleepPut, Kernels
  <2> HIDE DEF k
  <2>3. ASSUME NEW x \in Sems
        PROVE  \E b \in Seq(Threads) : k.blocked[x] = kernel.blocked[x] \o b
    <3>1. PICK q \in Seq(Threads) : q = kernel.blocked[x]
      BY <1>0, KernelFields
    <3>2. q = q \o <<>> /\ <<>> \in Seq(Threads)
      BY EmptySeq, ConcatEmptySeq
    <3> QED  BY <2>2, <3>1, <3>2
  <2> QED  BY <1>2, <2>1, <2>2, <2>3, WaitingFifo
<1> QED  BY <1>1, <1>2 DEF TimeSleep

\* that ends,
LEMMA ExitFifo ==
  ASSUME Stepping, Exit
  PROVE  Fifo(kernel, kernel')
<1>1. kernel \in Kernels /\ Good(kernel)
  BY SafeFacts DEF Stepping, Safe
<1>2. PICK m \in Kernels : Queued(kernel, m) /\ Finish(kernel) = Yield(m, FALSE)
  BY <1>1, FinishQueued
<1>3. kernel' = Yield(m, FALSE) /\ Good(Yield(m, FALSE))
  BY <1>2 DEF Exit, Suspend, Stepping
<1> QED  BY <1>1, <1>2, <1>3, YieldFifo

\* or joins another.
LEMMA JoinFifo ==
  ASSUME Stepping, NEW t \in Threads, Join(t)
  PROVE  Fifo(kernel, kernel')
<1> DEFINE f == Frame("join", t, Null)
<1>1. kernel \in Kernels /\ Queued(kernel, kernel) /\ f \in Frames
      /\ semJoin(t) \in Sems /\ 1 \in Nat
  BY SafeFacts, QueuedSame, FrameType, SemFrames DEF Stepping, CallNames
<1> HIDE DEF f
<1>2. CASE Return(f, kernel, ERR_THREAD_SELFJOIN) \/ Return(f, kernel, 0)
  BY <1>1, <1>2, ReturnFifo
<1>3. CASE Wait(f, semJoin(t), 1)
  BY <1>1, <1>3, WaitFifo
<1> QED  BY <1>2, <1>3 DEF Join, f

\* The same with a timeout.
LEMMA TimedJoinFifo ==
  ASSUME Stepping, NEW t \in Threads, NEW timeout \in Nat, TimedJoin(t, timeout)
  PROVE  Fifo(kernel, kernel')
<1> DEFINE f == Frame("timedJoin", t, Null)
<1>1. kernel \in Kernels /\ Queued(kernel, kernel) /\ f \in Frames
      /\ semJoin(t) \in Sems /\ 1 \in Nat
  BY SafeFacts, QueuedSame, FrameType, SemFrames DEF Stepping, CallNames
<1> HIDE DEF f
<1>2. CASE Return(f, kernel, ERR_THREAD_SELFJOIN) \/ Return(f, kernel, 0)
  BY <1>1, <1>2, ReturnFifo
<1>3. CASE TimedWait(f, semJoin(t), timeout, 1)
  BY <1>1, <1>3, TimedWaitFifo
<1> QED  BY <1>2, <1>3 DEF TimedJoin, f

-----------------------------------------------------------------------------
\* Taking the value of a semaphore moves nobody.
LEMMA AcquireQueued ==
  ASSUME NEW k \in Kernels, NEW s \in Sems, NEW tokens \in Nat
  PROVE  Queued(k, Acquire(k, s, tokens))
<1> DEFINE u == Acquire(k, s, tokens)
<1>1. u.ready = k.ready /\ u.blocked = k.blocked
  BY DEF Kernels, Acquire
<1> HIDE DEF u
<1>2. Queued(k, u)
  BY <1>1, QueuedSame
<1> QED  BY <1>2 DEF u

\* A new thread queues behind the ready ones, a new semaphore has no waiters.
LEMMA CreateQueued ==
  ASSUME NEW k \in Kernels
  PROVE  /\ \A t \in Threads : Queued(k, ThreadCreate(k, t))
         /\ \A s \in Sems, init \in Nat : Queued(k, SemCreate(k, s, init))
<1>1. ASSUME NEW t \in Threads
      PROVE  Queued(k, ThreadCreate(k, t))
  <2> DEFINE u == ThreadCreate(k, t)
  <2>1. /\ u.ready = IF t = Idle THEN k.ready ELSE Append(k.ready, t)
        /\ u.blocked = k.blocked
    BY DEF ThreadCreate, SchedulerPut, Kernels
  <2> HIDE DEF u
  <2>2. PICK q \in Seq(Threads) : q = k.ready
    BY KernelFields
  <2>3. \E a \in Seq(Threads) : u.ready = q \o a
    <3>1. Append(q, t) = q \o <<t>> /\ <<t>> \in Seq(Threads)
      BY AppendIsConcat, SingleList
    <3>2. q = q \o <<>> /\ <<>> \in Seq(Threads)
      BY EmptySeq, ConcatEmptySeq
    <3> QED  BY <2>1, <2>2, <3>1, <3>2
  <2>4. \A s \in Sems : \E b \in Seq(Threads) : k.blocked[s] = b \o u.blocked[s]
    <3>1. Queued(k, k)
      BY QueuedSame
    <3> QED  BY <2>1, <3>1 DEF Queued
  <2>5. Queued(k, u)
    BY <2>2, <2>3, <2>4 DEF Queued
  <2> QED  BY <2>5 DEF u
<1>2. ASSUME NEW s \in Sems, NEW init \in Nat
      PROVE  Queued(k, SemCreate(k, s, init))
  <2> DEFINE u == SemCreate(k, s, init)
  <2>1. u.ready = k.ready /\ u.blocked = k.blocked
    BY DEF SemCreate, Kernels
  <2> HIDE DEF u
  <2>2. Queued(k, u)
    BY <2>1, QueuedSame
  <2> QED  BY <2>2 DEF u
<1> QED  BY <1>1, <1>2

\* No system call lets a thread pass another.
LEMMA SystemCallFifo ==
  ASSUME Stepping, SystemCall
  PROVE  Fifo(kernel, kernel')
<1>0. /\ kernel \in Kernels /\ Good(kernel) /\ Queued(kernel, kernel)
      /\ running \in Threads /\ 1 \in Nat /\ 0 \in Nat
      /\ kernel.numOfActiveChildren[running] \in Nat
  <2>1. /\ kernel \in Kernels /\ Good(kernel) /\ running \in Threads
        /\ Queued(kernel, kernel)
    BY SafeFacts, QueuedSame DEF Stepping, Safe
  <2>2. kernel.numOfActiveChildren[running] \in 0 .. CountMod - 1
    BY <2>1 DEF Kernels
  <2> QED  BY <2>1, <2>2
<1>1. /\ Handles \subseteq Threads /\ OpenSems \subseteq Sems
      /\ 0 .. MaxTimeout \subseteq Nat /\ 0 .. MaxInit \subseteq Nat
  BY <1>0, SemFrames, KernelFields, ParametersAssumption DEF Handles, OpenSems
<1>2. CASE handleThreadCreate
  <2>1. PICK t \in UserThreads \ kernel.created :
          \/ Return(Frame("threadCreate", t, Null), ThreadCreate(kernel, t), 0)
          \/ Return(Frame("threadCreate", t, Null), kernel, ERR_THREAD_CREATE)
    BY <1>2 DEF handleThreadCreate
  <2>2. Queued(kernel, ThreadCreate(kernel, t))
    BY <1>0, CreateQueued DEF UserThreads
  <2> QED  BY <1>0, <2>1, <2>2, ReturnFifo
<1>3. CASE handleThreadExit
  BY <1>3, ExitFifo DEF handleThreadExit
<1>4. CASE handleThreadDispatch
  <2>1. kernel' = Yield(kernel, TRUE) /\ Good(Yield(kernel, TRUE))
    BY <1>4 DEF handleThreadDispatch, Suspend, Stepping
  <2> QED  BY <1>0, <2>1, YieldFifo
<1>5. CASE handleJoin
  BY <1>1, <1>5, JoinFifo DEF handleJoin
<1>6. CASE handleTimedJoin
  BY <1>1, <1>6, TimedJoinFifo DEF handleTimedJoin
<1>7. CASE handleJoinAll
  <2>1. Frame("joinAll", Null, Null) \in Frames /\ semJoinAll(running) \in Sems
    BY <1>0, FrameType, SemFrames DEF CallNames
  <2> QED  BY <1>0, <1>7, <2>1, WaitFifo DEF handleJoinAll
<1>8. CASE handletimedJoinAll
  <2>1. Frame("timedJoinAll", Null, Null) \in Frames /\ semJoinAll(running) \in Sems
    BY <1>0, FrameType, SemFrames DEF CallNames
  <2>2. PICK timeout \in 0 .. MaxTimeout :
          TimedWait(Frame("timedJoinAll", Null, Null), semJoinAll(running),
                    timeout, kernel.numOfActiveChildren[running])
    BY <1>8 DEF handletimedJoinAll
  <2> QED  BY <1>0, <1>1, <2>1, <2>2, TimedWaitFifo
<1>9. CASE handleSemOpen
  <2>1. PICK s \in UserSems \ kernel.opened, init \in 0 .. MaxInit :
          Return(Frame("semOpen", s, Null), SemCreate(kernel, s, init), 0)
    BY <1>9 DEF handleSemOpen
  <2>2. Queued(kernel, SemCreate(kernel, s, init))
    BY <1>0, <1>1, SemFrames, CreateQueued
  <2> QED  BY <2>1, <2>2, ReturnFifo
<1>10. CASE handleSemClose
  <2>1. PICK s \in OpenSems :
          Return(Frame("semClose", s, Null), Close(kernel, s),
                 IF s \in kernel.active THEN 0 ELSE ERR_SEM_DEAD)
    BY <1>10 DEF handleSemClose
  <2>2. Queued(kernel, Close(kernel, s))
    BY <1>0, <1>1, CloseQueued
  <2> QED  BY <2>1, <2>2, ReturnFifo
<1>11. CASE handleSemWait
  <2>1. PICK s \in OpenSems : Wait(Frame("semWait", s, Null), s, 1)
    BY <1>11 DEF handleSemWait
  <2>2. Frame("semWait", s, Null) \in Frames /\ s \in Sems
    BY <1>1, FrameType DEF CallNames
  <2> QED  BY <1>0, <2>1, <2>2, WaitFifo
<1>12. CASE handleSemSignal
  <2>1. PICK s \in OpenSems :
          Return(Frame("semSignal", s, Null), Signal(kernel, s),
                 IF s \in kernel.active THEN 0 ELSE ERR_SEM_DEAD)
    BY <1>12 DEF handleSemSignal
  <2>2. Queued(kernel, Signal(kernel, s))
    BY <1>0, SignalQueued
  <2> QED  BY <2>1, <2>2, ReturnFifo
<1>13. CASE handleSemTimedWait
  <2>1. PICK s \in OpenSems, timeout \in 0 .. MaxTimeout :
          TimedWait(Frame("semTimedWait", s, Null), s, timeout, 1)
    BY <1>13 DEF handleSemTimedWait
  <2>2. Frame("semTimedWait", s, Null) \in Frames /\ s \in Sems
    BY <1>1, FrameType DEF CallNames
  <2> QED  BY <1>0, <1>1, <2>1, <2>2, TimedWaitFifo
<1>14. CASE handleSemTryWait
  <2>1. PICK s \in OpenSems :
          LET f == Frame("semTryWait", s, Null)
          IN  \/ /\ s \notin kernel.active
                 /\ Return(f, kernel, ERR_SEM_DEAD)
              \/ /\ s \in kernel.active /\ kernel.value[s] >= 1
                 /\ Return(f, Acquire(kernel, s, 1), 0)
              \/ /\ s \in kernel.active /\ kernel.value[s] = 0
                 /\ Return(f, Acquire(kernel, s, 0), 1)
    BY <1>14 DEF handleSemTryWait
  <2>2. \A n \in Nat : Queued(kernel, Acquire(kernel, s, n))
    BY <1>0, <1>1, AcquireQueued
  <2> QED  BY <1>0, <2>1, <2>2, ReturnFifo
<1>15. CASE handleTimeSleep
  BY <1>1, <1>15, TimeSleepFifo DEF handleTimeSleep
<1>16. CASE handleSend
  <2>1. PICK t \in Handles, msg \in Messages :
          \/ Return(Frame("send", t, msg), kernel, 0)
          \/ Wait(Frame("send", t, msg), semSend(t), 1)
    BY <1>16 DEF handleSend
  <2>2. Frame("send", t, msg) \in Frames /\ semSend(t) \in Sems
    BY <1>1, FrameType, SemFrames DEF CallNames
  <2> QED  BY <1>0, <2>1, <2>2, ReturnFifo, WaitFifo
<1>17. CASE handleReceive
  <2>1. Frame("receive", Null, Null) \in Frames /\ semReceive(running) \in Sems
    BY <1>0, FrameType, SemFrames DEF CallNames
  <2> QED  BY <1>0, <1>17, <2>1, WaitFifo DEF handleReceive
<1> QED  BY <1>2, <1>3, <1>4, <1>5, <1>6, <1>7, <1>8, <1>9, <1>10, <1>11, <1>12,
            <1>13, <1>14, <1>15, <1>16, <1>17 DEF SystemCall

\* Nor does a step of main() before the shutdown.
LEMMA MainFifo ==
  ASSUME Stepping, MainCreate \/ MainJoin \/ MainSleep
  PROVE  Fifo(kernel, kernel')
<1>0. kernel \in Kernels /\ UserMain \in Threads /\ ShutdownSleep \in Nat
  BY SafeFacts, ThreeThreads, ParametersAssumption DEF Stepping
<1>1. CASE MainCreate
  <2>1. Queued(kernel, ThreadCreate(kernel, UserMain))
    BY <1>0, CreateQueued
  <2> QED  BY <1>1, <2>1, ReturnFifo DEF MainCreate
<1>2. CASE MainJoin
  BY <1>0, <1>2, JoinFifo DEF MainJoin
<1>3. CASE MainSleep
  BY <1>0, <1>3, TimeSleepFifo DEF MainSleep
<1> QED  BY <1>1, <1>2, <1>3

-----------------------------------------------------------------------------
\* Whoever leaves the list of a semaphore before one ahead of it has run out
\* of time.
Served(k, u) ==
  \A t, v :
    /\ ~Passes(k.ready, u.ready, t, v)
    /\ \A s \in Sems : Passes(k.blocked[s], u.blocked[s], t, v) =>
                         v \notin Range(u.blocked[s]) /\ u.unblockManner[v] = "WAIT_TIMEOUT"

\* Leaving a list from anywhere passes only for those who leave.
LEMMA WithoutPasses ==
  ASSUME NEW S, NEW q \in Seq(S), NEW W, NEW t, NEW v, Passes(q, Without(q, W), t, v)
  PROVE  v \in Range(q) \cap W /\ v \notin Range(Without(q, W))
<1> DEFINE w == Without(q, W)
<1>1. Range(w) = Range(q) \ W
  BY WithoutList
<1>2. \A a, b \in DOMAIN w : a < b =>
        \E i, j \in DOMAIN q : i < j /\ q[i] = w[a] /\ q[j] = w[b]
  BY WithoutOrder
<1> HIDE DEF w
<1>3. Before(w, v, t) => Before(q, v, t)
  BY <1>2 DEF Before
<1>4. Passes(q, w, t, v)
  BY DEF w
<1>5. Before(q, t, v) /\ v \notin Range(w)
  BY <1>3, <1>4 DEF Passes
<1>6. v \in Range(q)
  BY <1>5 DEF Before, Range
<1> QED  BY <1>1, <1>5, <1>6 DEF w

\* A tick: those whose time is out leave the lists they wait in.
LEMMA TickServes ==
  ASSUME NEW k \in Kernels, Good(k), NEW u, u = OnTick(k)
  PROVE  /\ \E a \in Seq(Threads) : u.ready = k.ready \o a
         /\ \A s \in Sems : \A t, v :
              Passes(k.blocked[s], u.blocked[s], t, v) =>
                v \notin Range(u.blocked[s]) /\ u.unblockManner[v] = "WAIT_TIMEOUT"
<1> DEFINE due == {t \in Threads : k.remaining[t] = 1}
           c == [k EXCEPT !.remaining =
                   [t \in Threads |-> IF @[t] > 0 THEN @[t] - 1 ELSE 0]]
           q == Only(k.sleepList, due)
           v0 == Unlink(c, Range(q))
<1>1. c \in Kernels
  <2>1. k.remaining \in [Threads -> Nat]
    BY KernelFields
  <2>2. [t \in Threads |-> IF k.remaining[t] > 0 THEN k.remaining[t] - 1 ELSE 0]
          \in [Threads -> Nat]
    BY <2>1
  <2> QED  BY <2>2 DEF Kernels
<1>2. c.ready = k.ready /\ c.blocked = k.blocked /\ c.blockedAtSem = k.blockedAtSem
  BY DEF Kernels
<1>3. u = Wake(c, q, "WAIT_TIMEOUT")
  BY DEF OnTick
<1>4. q \in Seq(Threads)
  BY KernelFields, OnlyList
<1> HIDE DEF c, q
<1>5. v0.ready = c.ready /\ \A s \in Sems : v0.blocked[s] = Without(c.blocked[s], Range(q))
  BY <1>1, UnlinkFields
<1>6. u.ready = v0.ready \o q /\ u.blocked = v0.blocked
  BY <1>1, <1>3, WakeFields
<1>7. \A t \in Threads : t \in Range(q) /\ c.blockedAtSem[t] # Null =>
                           u.unblockManner[t] = "WAIT_TIMEOUT"
  <2>1. v0 \in Kernels
    BY <1>1, UnlinkType
  <2>2. u = [v0 EXCEPT !.ready = @ \o q,
                       !.unblockManner = [t \in Threads |->
                          IF t \in Range(q) /\ c.blockedAtSem[t] # Null
                          THEN "WAIT_TIMEOUT" ELSE @[t]]]
    BY <1>3 DEF Wake
  <2> HIDE DEF v0
  <2> QED  BY <2>1, <2>2 DEF Kernels
<1> HIDE DEF v0
<1>8. u.ready = k.ready \o q
  BY <1>2, <1>5, <1>6
<1>9. ASSUME NEW s \in Sems, NEW t, NEW v, Passes(k.blocked[s], u.blocked[s], t, v)
      PROVE  v \notin Range(u.blocked[s]) /\ u.unblockManner[v] = "WAIT_TIMEOUT"
  <2>1. u.blocked[s] = Without(k.blocked[s], Range(q)) /\ k.blocked[s] \in Seq(Threads)
    BY <1>2, <1>5, <1>6, KernelFields
  <2>2. v \in Range(k.blocked[s]) \cap Range(q) /\ v \notin Range(u.blocked[s])
    BY <1>9, <2>1, WithoutPasses
  <2>3. v \in Threads
    BY <2>1, <2>2, RangeByIndex
  <2>4. k.blockedAtSem[v] = s /\ s # Null
    BY <2>2, <2>3, ThreadsAssumption DEF Good, Consistent, ListsAgree
  <2> QED  BY <1>2, <1>7, <2>2, <2>3, <2>4
<1> QED  BY <1>4, <1>8, <1>9

\* The timer interrupt: the tick, and the yield when the time slice is over.
LEMMA TimerServes ==
  ASSUME Stepping, handleTimer
  PROVE  Served(kernel, kernel')
<1> DEFINE c == [kernel EXCEPT !.timeSliceCounter = @ + 1]
           k == OnTick(c)
<1>0. kernel \in Kernels /\ Good(kernel) /\ kernel.timeSliceCounter \in Nat
  BY SafeFacts DEF Stepping, Safe, Kernels
<1>1. c \in Kernels
  <2>1. kernel.timeSliceCounter + 1 \in Nat
    BY <1>0
  <2> QED  BY <1>0, <2>1 DEF Kernels
<1>2. /\ SameThreads(kernel, c) /\ c.ready = kernel.ready
      /\ c.active = kernel.active /\ c.value = kernel.value
      /\ c.blocked = kernel.blocked /\ c.sleepList = kernel.sleepList
      /\ c.remaining = kernel.remaining /\ c.blockedAtSem = kernel.blockedAtSem
      /\ c.tokensNeeded = kernel.tokensNeeded
  BY <1>0 DEF Kernels, SameThreads
<1>3. kernel' = k \/ kernel' = Yield(k, TRUE)
  BY DEF handleTimer, Suspend, Return
<1> HIDE DEF c
<1>4. Good(c)
  BY <1>0, <1>2, GoodDepends
<1>5. k \in Kernels /\ Good(k)
  BY <1>1, <1>4, OnTickKeeps, OnTickType
<1>6. /\ \E a \in Seq(Threads) : k.ready = c.ready \o a
      /\ \A s \in Sems : \A t, v :
           Passes(c.blocked[s], k.blocked[s], t, v) =>
             v \notin Range(k.blocked[s]) /\ k.unblockManner[v] = "WAIT_TIMEOUT"
  BY <1>1, <1>4, TickServes
<1> HIDE DEF k
<1>7. CASE kernel' = k
  <2>1. \A t, v : ~Passes(kernel.ready, k.ready, t, v)
    <3>1. kernel.ready \in Seq(Threads) /\ k.ready \in Seq(Threads) /\ IsInjective(k.ready)
      BY <1>0, <1>5, KernelFields DEF Good, Consistent, ReadyCanRun
    <3>2. \E a \in Seq(Threads) : k.ready = kernel.ready \o a
      BY <1>2, <1>6
    <3> QED  BY <3>1, <3>2, BackFifo
  <2>2. Served(kernel, k)
    BY <1>2, <1>6, <2>1 DEF Served
  <2> QED  BY <1>7, <2>2
<1>8. CASE kernel' = Yield(k, TRUE)
  <2> DEFINE u == Yield(k, TRUE)
  <2>1. Good(u)
    BY <1>8 DEF Stepping
  <2>2. \E a \in Seq(Threads) : k.ready = kernel.ready \o a
    BY <1>2, <1>6
  <2>3. u.blocked = k.blocked /\ \A t, v : ~Passes(kernel.ready, u.ready, t, v)
    BY <1>0, <1>5, <2>1, <2>2, YieldReady
  <2>4. u.unblockManner = k.unblockManner
    BY <1>5 DEF Yield, SchedulerGet, SchedulerPut, Kernels
  <2> HIDE DEF u
  <2>5. Served(kernel, u)
    BY <1>2, <1>6, <2>3, <2>4 DEF Served
  <2> QED  BY <1>8, <2>5 DEF u
<1> QED  BY <1>3, <1>7, <1>8

-----------------------------------------------------------------------------
\* Every step serves the ready threads and the waiters in their order.
LEMMA StepServes ==
  ASSUME IInv, [Next]_vars
  PROVE  Served(kernel, kernel')
<1>0. kernel \in Kernels /\ kernel' \in Kernels /\ IInv'
  BY InvStep DEF IInv, TypeOK
<1>1. CASE kernel' = kernel
  BY <1>1, NobodyPasses DEF Served
<1>2. CASE Shutdown
  <2>1. /\ kernel'.ready = <<>>
        /\ \A s \in Sems : kernel'.blocked[s] = <<>>
    BY <1>0, <1>2 DEF Shutdown, Kernels
  <2> QED  BY <2>1, NobodyPasses DEF Served
<1>3. CASE kernel' # kernel /\ Next /\ ~Shutdown
  <2>1. Running /\ mainPc # "halted"
    BY <1>3 DEF Next, SystemCall, MainStep, handleThreadCreate, handleThreadExit,
       handleThreadDispatch, handleJoin, handleTimedJoin, handleJoinAll,
       handletimedJoinAll, handleSemOpen, handleSemClose, handleSemWait,
       handleSemSignal, handleSemTimedWait, handleSemTryWait, handleTimeSleep,
       handleSend, handleReceive, Makes, handleException, IdleExit, handleTimer,
       Resume, MainCreate, MainJoin, MainSleep, MainAt, InUserMode, Running,
       Halted, vars
  <2>2. mainPc' # "halted"
    BY <1>3, <2>1 DEF Next, SystemCall, MainStep, handleThreadCreate, handleThreadExit,
       handleThreadDispatch, handleJoin, handleTimedJoin, handleJoinAll,
       handletimedJoinAll, handleSemOpen, handleSemClose, handleSemWait,
       handleSemSignal, handleSemTimedWait, handleSemTryWait, handleTimeSleep,
       handleSend, handleReceive, handleException, IdleExit, handleTimer,
       Resume, MainCreate, MainJoin, MainSleep, MainAt, Halted, vars
  <2>3. Stepping
    BY <1>0, <2>1, <2>2 DEF IInv, Running, Stepping, Safe
  <2>4. CASE SystemCall \/ MainCreate \/ MainJoin \/ MainSleep \/ Exit
    <3>1. Fifo(kernel, kernel')
      BY <2>3, <2>4, SystemCallFifo, MainFifo, ExitFifo
    <3> QED  BY <3>1 DEF Fifo, Served
  <2>5. CASE handleTimer
    BY <2>3, <2>5, TimerServes
  <2>6. CASE Resume
    <3>1. /\ Complete(frame[running], kernel, ResolveManner(kernel))
          /\ frame[running] \in Frames /\ Good(kernel) /\ Queued(kernel, kernel)
      BY <1>0, <2>3, <2>6, SafeFacts, QueuedSame DEF Resume, Stepping, Safe
    <3>2. Fifo(kernel, kernel')
      BY <1>0, <2>3, <3>1, CompleteFifo
    <3> QED  BY <3>2 DEF Fifo, Served
  <2> QED  BY <1>3, <2>4, <2>5, <2>6
           DEF Next, MainStep, handleException, IdleExit, Halted, vars
<1> QED  BY <1>1, <1>2, <1>3 DEF vars

\* First come, first served (see NoOvertaking): in no step does a thread pass
\* another in the ready list, and in the list of a semaphore it does only
\* when its own time is out.
THEOREM NobodyOvertakes == Spec => NoOvertaking
<1> DEFINE A == /\ \A t, u \in Range(kernel.ready) \cup Range(kernel'.ready) :
                     ~Passes(kernel.ready, kernel'.ready, t, u)
                /\ \A s \in Sems :
                     \A t, u \in Range(kernel.blocked[s]) \cup Range(kernel'.blocked[s]) :
                       Passes(kernel.blocked[s], kernel'.blocked[s], t, u) =>
                         /\ u \notin Range(kernel'.blocked[s])
                         /\ kernel'.unblockManner[u] = "WAIT_TIMEOUT"
<1>1. IInv /\ [Next]_vars => [A]_vars
  <2> SUFFICES ASSUME IInv, [Next]_vars PROVE A
    OBVIOUS
  <2> QED  BY StepServes DEF Served
<1>2. Spec => [][A]_vars
  BY <1>1, InvAlways, PTL DEF Spec
<1> QED  BY <1>2 DEF NoOvertaking
=============================================================================
