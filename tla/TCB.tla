------------------------------- MODULE TCB -------------------------------
(***************************************************************************)
(* src/src/tcb.cpp: creation and end of threads.                           *)
(***************************************************************************)
EXTENDS KSemaphore

CountUp(n)   == (n + 1) % CountMod
\* Mutant of CountDown: a signed counter.
CountDownSigned(n) == n - 1
CountDown(n) == (n + CountMod - 1) % CountMod

\* Mutant of ThreadCreate: the mailbox starts full.
ThreadCreateWithMail(k, t) ==
  LET made == [k EXCEPT
                 !.created   = @ \cup {t},
                 !.parent[t] = k.running,
                 !.active    = @ \cup SemsOf(t),
                 !.opened    = @ \cup SemsOf(t),
                 !.value     = [s \in Sems |-> IF s = semReceive(t) THEN 1
                                               ELSE IF s \in SemsOf(t) THEN 0
                                               ELSE @[s]],
                 !.numOfActiveChildren[k.running] = CountUp(@)]
  IN  SchedulerPut(made, t)

\* The constructor with its four semaphores, and TCB::threadCreate: the new
\* thread is ready and counts as a child of the running one.
ThreadCreate(k, t) ==
  LET made == [k EXCEPT
                 !.created   = @ \cup {t},
                 !.parent[t] = k.running,
                 !.active    = @ \cup SemsOf(t),
                 !.opened    = @ \cup SemsOf(t),
                 !.value     = [s \in Sems |-> IF s = semSend(t) THEN 1
                                               ELSE IF s \in SemsOf(t) THEN 0
                                               ELSE @[s]],
                 !.numOfActiveChildren[k.running] = CountUp(@)]
  IN  SchedulerPut(made, t)

\* Mutant of LeaveParent: counts only for a parent that is waiting.
LeaveWaitingParent(k) ==
  LET p == k.parent[k.running]
      counted == [k EXCEPT !.numOfActiveChildren[p] = CountDown(@)]
  IN  IF p = Null \/ p \in k.finished THEN k
      ELSE IF k.blockedAtSem[p] = semJoinAll(p)
           THEN Signal(counted, semJoinAll(p))
           ELSE k

\* The parent's part in the end of its child.
LeaveParent(k) ==
  LET p == k.parent[k.running]
      counted == [k EXCEPT !.numOfActiveChildren[p] = CountDown(@)]
  IN  IF p = Null \/ p \in k.finished THEN k
      ELSE IF k.blockedAtSem[p] = semJoinAll(p)
           THEN Signal(counted, semJoinAll(p))
           ELSE counted

\* Mutants of Finish: semJoin is closed before its waiters are signalled;
\* nobody joined is told; the thread yields before it is marked finished.
FinishClosesFirst(k) ==
  LET t        == k.running
      noMail   == Close(Close(k, semSend(t)), semReceive(t))
      joined   == SignalAll(Close(noMail, semJoin(t)), semJoin(t), "REGULAR")
      orphaned == Close(LeaveParent(joined), semJoinAll(t))
  IN  Yield([orphaned EXCEPT !.finished = @ \cup {t}], FALSE)
FinishSilently(k) ==
  LET t        == k.running
      noMail   == Close(Close(k, semSend(t)), semReceive(t))
      orphaned == Close(LeaveParent(noMail), semJoinAll(t))
  IN  Yield([orphaned EXCEPT !.finished = @ \cup {t}], FALSE)
FinishYieldsFirst(k) ==
  LET t        == k.running
      noMail   == Close(Close(k, semSend(t)), semReceive(t))
      joined   == Close(SignalAll(noMail, semJoin(t), "REGULAR"), semJoin(t))
      orphaned == Close(LeaveParent(joined), semJoinAll(t))
  IN  [Yield(orphaned, TRUE) EXCEPT !.finished = @ \cup {t}]

\* TCB::finish for the running thread, the final yield included.
Finish(k) ==
  LET t        == k.running
      noMail   == Close(Close(k, semSend(t)), semReceive(t))
      joined   == Close(SignalAll(noMail, semJoin(t), "REGULAR"), semJoin(t))
      orphaned == Close(LeaveParent(joined), semJoinAll(t))
      alone    == Unlink(orphaned, {t})
  IN  Yield([alone EXCEPT !.finished = @ \cup {t}], FALSE)
\* After Kernel::init and Scheduler::init: Master runs, Idle is its child.
AtBoot ==
  [running |-> Master, timeSliceCounter |-> 0, ready |-> <<>>,
   created |-> {Master, Idle}, finished |-> {},
   parent |-> [t \in Threads |-> IF t = Idle THEN Master ELSE Null],
   numOfActiveChildren |-> [t \in Threads |-> IF t = Master THEN 1 ELSE 0],
   sleepList |-> <<>>, remaining |-> [t \in Threads |-> 0],
   blockedAtSem |-> [t \in Threads |-> Null],
   tokensNeeded |-> [t \in Threads |-> 0],
   unblockManner |-> [t \in Threads |-> "REGULAR"],
   opened |-> SemsOf(Master) \cup SemsOf(Idle),
   active |-> SemsOf(Master) \cup SemsOf(Idle),
   value |-> [s \in Sems |->
                IF s \in {semSend(Master), semSend(Idle)} THEN 1 ELSE 0],
   blocked |-> [s \in Sems |-> <<>>],
   message |-> [t \in Threads |-> Null]]
=============================================================================
