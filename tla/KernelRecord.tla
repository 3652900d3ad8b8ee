--------------------------- MODULE KernelRecord ---------------------------
(***************************************************************************)
(* What has to be true of the kernel's record between two routines: the    *)
(* parts of an inductive invariant, as predicates on the record k, for     *)
(* whatever program runs on the kernel's routines (Kernel.tla and          *)
(* Console.tla).                                                           *)
(***************************************************************************)
EXTENDS TCB

WaitsIn(k, t) == k.blockedAtSem[t] # Null \/ sleeps(k, t)

\* blockedAtSem and the lists of the semaphores tell the same.
ListsAgree(k) ==
  \A s \in Sems :
    /\ IsInjective(k.blocked[s])
    /\ \A t \in Threads : t \in Range(k.blocked[s]) <=> k.blockedAtSem[t] = s

\* A semaphore with waiters is active and has no tokens; each waiter needs some.
Short(k) ==
  \A s \in Sems :
    k.blocked[s] # <<>> =>
      /\ s \in k.active
      /\ k.value[s] = 0
      /\ \A t \in Range(k.blocked[s]) : k.tokensNeeded[t] > 0

\* The sleep list has the sleepers, in the order they wake.
InOrder(q, remaining) ==
  \A i, j \in DOMAIN q : i < j => remaining[q[i]] <= remaining[q[j]]

SleepersListed(k) ==
  /\ IsInjective(k.sleepList)
  /\ Range(k.sleepList) = {t \in Threads : sleeps(k, t)}
  /\ InOrder(k.sleepList, k.remaining)

\* The ready list has threads that may run and do not.
ReadyCanRun(k) ==
  /\ IsInjective(k.ready)
  /\ \A t \in Range(k.ready) :
       /\ t # Idle /\ t # k.running
       /\ t \in k.created /\ t \notin k.finished
       /\ ~WaitsIn(k, t)

WaitersLive(k) ==
  \A t \in Threads :
    WaitsIn(k, t) => t # Idle /\ t \in k.created /\ t \notin k.finished

\* Whoever has been created and has not finished is somewhere.
Placed(k) ==
  \A t \in k.created \ k.finished :
    t = Idle \/ t = k.running \/ t \in Range(k.ready) \/ WaitsIn(k, t)

\* Semaphores that are opened are the program's or belong to a thread that
\* has been created.
Registered(k) ==
  /\ Idle \in k.created /\ k.running \in k.created
  /\ k.finished \subseteq k.created
  /\ k.active \subseteq k.opened
  /\ k.opened \subseteq UserSems \cup UNION {SemsOf(t) : t \in k.created}

\* What holds even while the running thread is being put to sleep.
Consistent(k) ==
  /\ ListsAgree(k) /\ Short(k) /\ SleepersListed(k)
  /\ ReadyCanRun(k) /\ WaitersLive(k) /\ Placed(k) /\ Registered(k)

\* The running thread runs: it waits for nothing, and only the idle thread
\* runs after its end.
RunnerRuns(k) ==
  /\ ~WaitsIn(k, k.running)
  /\ k.running \in k.finished => k.running = Idle

Good(k) == Consistent(k) /\ RunnerRuns(k)
=============================================================================
