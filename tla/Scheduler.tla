---------------------------- MODULE Scheduler ----------------------------
(***************************************************************************)
(* src/src/scheduler.cpp, and TCB::yield, its only client besides the      *)
(* routines that make threads ready.                                       *)
(***************************************************************************)
EXTENDS KernelState

\* Mutant of SchedulerPut: a list with only a head is a stack.
SchedulerPutFirst(k, t) ==
  IF t = Idle THEN k ELSE [k EXCEPT !.ready = <<t>> \o @]

\* Scheduler::put: the idle thread is never queued.
SchedulerPut(k, t) ==
  IF t = Idle THEN k ELSE [k EXCEPT !.ready = Append(@, t)]

\* Scheduler::get, with TCB::running assigned what it returns.
SchedulerGet(k) ==
  IF k.ready = <<>>
  THEN [k EXCEPT !.running = Idle]
  ELSE [k EXCEPT !.running = Head(k.ready), !.ready = Tail(@)]

CanContinue(k, t) ==
  /\ t \notin k.finished
  /\ k.blockedAtSem[t] = Null
  /\ ~sleeps(k, t)

\* TCB::yield up to the context switch.  What follows the call in the
\* handler runs when the thread is next given the processor.
Yield(k, schPut) ==
  LET old    == k.running
      queued == IF CanContinue(k, old) /\ schPut
                THEN SchedulerPut(k, old) ELSE k
  IN  [SchedulerGet(queued) EXCEPT !.timeSliceCounter = 0]
=============================================================================
