------------------------------ MODULE Sleep ------------------------------
(***************************************************************************)
(* src/src/sleep.cpp at the level of "how many ticks remain".              *)
(***************************************************************************)
EXTENDS Scheduler

\* Mutant of SleepPut: always at the end of the list.
SleepPutLast(k, t, timeout) ==
  [k EXCEPT !.sleepList = Append(@, t), !.remaining[t] = timeout]

\* Sleep::put: behind every thread that wakes no later than this one.
SleepPut(k, t, timeout) ==
  LET earlier == {u \in Threads : sleeps(k, u) /\ k.remaining[u] <= timeout}
  IN  [k EXCEPT !.sleepList = Only(@, earlier) \o <<t>> \o Without(@, earlier),
                !.remaining[t] = timeout]

\* Mutant of Unlink: the lists are updated, the member blockedAtSem is not.
UnlinkKeepsMember(k, W) ==
  [k EXCEPT
     !.sleepList    = Without(@, W),
     !.remaining    = [t \in Threads |-> IF t \in W THEN 0 ELSE @[t]],
     !.blocked      = [s \in Sems |-> Without(@[s], W)],
     !.tokensNeeded = [t \in Threads |-> IF t \in W THEN 0 ELSE @[t]]]

\* kSemaphore::get and Sleep::get for every thread of W: each leaves the list
\* of the semaphore it is blocked at and the sleep list.
Unlink(k, W) ==
  [k EXCEPT
     !.sleepList    = Without(@, W),
     !.remaining    = [t \in Threads |-> IF t \in W THEN 0 ELSE @[t]],
     !.blocked      = [s \in Sems |-> Without(@[s], W)],
     !.blockedAtSem = [t \in Threads |-> IF t \in W THEN Null ELSE @[t]],
     !.tokensNeeded = [t \in Threads |-> IF t \in W THEN 0 ELSE @[t]]]

\* Mutant of Wake: no "if (tcb->sleeps) Sleep::get(tcb)".
WakeKeepsTimer(k, q, manner) ==
  [Unlink(k, Range(q)) EXCEPT
     !.ready         = @ \o q,
     !.sleepList     = k.sleepList,
     !.remaining     = k.remaining,
     !.unblockManner = [t \in Threads |->
                          IF t \in Range(q) /\ k.blockedAtSem[t] # Null
                          THEN manner ELSE @[t]]]

\* The threads of q, in that order, stop waiting and become ready; one that
\* was blocked at a semaphore is told why.
Wake(k, q, manner) ==
  [Unlink(k, Range(q)) EXCEPT
     !.ready         = @ \o q,
     !.unblockManner = [t \in Threads |->
                          IF t \in Range(q) /\ k.blockedAtSem[t] # Null
                          THEN manner ELSE @[t]]]

\* Mutant of OnTick: an "if" instead of the loop over those that wake
\* together.
OnTickFirstOnly(k) ==
  LET due    == {t \in Threads : k.remaining[t] = 1}
      ticked == [k EXCEPT !.remaining =
                   [t \in Threads |-> IF @[t] > 0 THEN @[t] - 1 ELSE 0]]
  IN  IF due = {} THEN ticked
      ELSE Wake(ticked, <<Head(k.sleepList)>>, "WAIT_TIMEOUT")

\* Sleep::onTick: one tick less for every sleeper; those with none left
\* wake in the order of the list.
OnTick(k) ==
  LET due    == {t \in Threads : k.remaining[t] = 1}
      ticked == [k EXCEPT !.remaining =
                   [t \in Threads |-> IF @[t] > 0 THEN @[t] - 1 ELSE 0]]
  IN  Wake(ticked, Only(k.sleepList, due), "WAIT_TIMEOUT")
=============================================================================
