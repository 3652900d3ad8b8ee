---------------------------- MODULE LinkedLists ----------------------------
(***************************************************************************)
(* The lists of threads at the level of their pointers: the ready list of  *)
(* Scheduler (nextReady), the sleep list of Sleep (nextSleep, each thread  *)
(* with the ticks it wakes after the one before it) and the list of each   *)
(* semaphore (nextSemBlocked).  All are singly linked through members of   *)
(* the TCB, so a TCB can be on one list of each kind, and kSemaphore and   *)
(* Scheduler keep a pointer to the last one besides.                       *)
(*                                                                         *)
(* The routines put and get of the three classes are named for what they   *)
(* work on; they map the memory d to the memory after them.                *)
(***************************************************************************)
EXTENDS KernelState

CONSTANTS MaxTimeout, \* bound on the timeouts asked for
          MaxTokens   \* bound on a semaphore's value and on the tokens of a wait

ASSUME BoundsAssumption ==
  /\ IsFiniteSet(UserSems)
  /\ MaxTimeout \in Nat /\ MaxTokens \in Nat

VARIABLE mem  \* the static heads, and the members of TCBs and semaphores

\* No loop of this code goes round more often, where the lists are whole.
Rounds == Cardinality(Threads) + Cardinality(UserSems) + 1

\* while (going) body;
While(going(_), body(_), from) ==
  LET after[i \in 0 .. Rounds] ==
        IF i = 0 THEN from
        ELSE LET now == after[i - 1] IN IF going(now) THEN body(now) ELSE now
  IN  after[Rounds]

\* The thread before tcb on a list: prev of the loops that search for one,
\* null for the head.
previous(next, head, tcb) ==
  LET going(at) == at.curr # Null /\ at.curr # tcb
      step(at)  == [prev |-> at.curr, curr |-> next[at.curr]]
  IN  While(going, step, [prev |-> Null, curr |-> head]).prev

-----------------------------------------------------------------------------
(***************************************************************************)
(* Scheduler, and TCB::yield up to the context switch.                     *)
(***************************************************************************)
readyPut(d, tcb) ==
  LET cleared == [d EXCEPT !.nextReady[tcb] = Null]
      linked  == IF d.readyTail = Null THEN [cleared EXCEPT !.readyHead = tcb]
                 ELSE [cleared EXCEPT !.nextReady[d.readyTail] = tcb]
  IN  IF tcb = Idle THEN d ELSE [linked EXCEPT !.readyTail = tcb]

readyGet(d) ==
  LET h == d.readyHead
      n == d.nextReady[h]
  IN  IF h = Null THEN [d EXCEPT !.running = Idle]
      ELSE [d EXCEPT !.running = h, !.readyHead = n, !.nextReady[h] = Null,
                     !.readyTail = IF n = Null THEN Null ELSE @]

yield(d, schPut) ==
  LET old == d.running
  IN  readyGet(IF schPut /\ d.blockedAtSem[old] = Null /\ old \notin d.sleeps
               THEN readyPut(d, old) ELSE d)

-----------------------------------------------------------------------------
(***************************************************************************)
(* Sleep.                                                                  *)
(***************************************************************************)
\* Sleep::put: the last thread to wake no later than timeout, and what is
\* left of timeout after it.
search(d, target, timeout) ==
  LET next(at)  == d.nextSleep[at.target]
      going(at) == next(at) # Null /\ d.timeSleepRelative[next(at)] <= at.left
      step(at)  == [target |-> next(at),
                    left   |-> at.left - d.timeSleepRelative[next(at)]]
  IN  While(going, step, [target |-> target, left |-> timeout])

\* Mutant of putAfter: the follower keeps its difference.
putAfterKeeps(d, target, tcb, left) ==
  [d EXCEPT !.timeSleepRelative[tcb] = left,
            !.nextSleep[tcb] = d.nextSleep[target], !.nextSleep[target] = tcb]

putAfter(d, target, tcb, left) ==
  LET n       == d.nextSleep[target]
      shorter == IF n = Null THEN d
                 ELSE [d EXCEPT !.timeSleepRelative[n] = @ - left]
  IN  [shorter EXCEPT !.timeSleepRelative[tcb] = left,
                      !.nextSleep[tcb] = n, !.nextSleep[target] = tcb]

putFirst(d, tcb, timeout) ==
  LET h       == d.sleepHead
      shorter == IF h = Null THEN d
                 ELSE [d EXCEPT !.timeSleepRelative[h] = @ - timeout]
  IN  [shorter EXCEPT !.timeSleepRelative[tcb] = timeout,
                      !.nextSleep[tcb] = h, !.sleepHead = tcb]

sleepPut(d, tcb, timeout) ==
  LET h      == d.sleepHead
      found  == search(d, h, timeout - d.timeSleepRelative[h])
      linked == IF h = Null \/ timeout < d.timeSleepRelative[h]
                THEN putFirst(d, tcb, timeout)
                ELSE putAfter(d, found.target, tcb, found.left)
  IN  [linked EXCEPT !.sleeps = @ \cup {tcb}]

\* Sleep::get for a thread that sleeps; without an argument, for the head.
sleepGet(d, tcb) ==
  LET n        == d.nextSleep[tcb]
      prev     == previous(d.nextSleep, d.sleepHead, tcb)
      unlinked == IF prev = Null THEN [d EXCEPT !.sleepHead = n]
                  ELSE [d EXCEPT !.nextSleep[prev] = n]
      longer   == IF n = Null THEN unlinked
                  ELSE [unlinked EXCEPT !.timeSleepRelative[n] =
                                          @ + d.timeSleepRelative[tcb]]
  IN  [longer EXCEPT !.timeSleepRelative[tcb] = 0, !.nextSleep[tcb] = Null,
                     !.sleeps = @ \ {tcb}]

wakeUpAll(d) ==
  LET going(x) == x.sleepHead # Null
      step(x)  == sleepGet(x, x.sleepHead)
  IN  While(going, step, d)

-----------------------------------------------------------------------------
(***************************************************************************)
(* kSemaphore.                                                             *)
(***************************************************************************)
semPut(d, s, tcb, tokens) ==
  LET linked == IF d.blockedHead[s] = Null
                THEN [d EXCEPT !.blockedHead[s] = tcb]
                ELSE [d EXCEPT !.nextSemBlocked[d.blockedTail[s]] = tcb]
  IN  [linked EXCEPT !.blockedTail[s] = tcb, !.blockedAtSem[tcb] = s,
                     !.nextSemBlocked[tcb] = Null, !.tokensNeeded[tcb] = tokens]

\* Mutant of semGet: the last thread leaves, blockedTail still points to it.
semGetKeepsTail(d, tcb) ==
  LET s        == d.blockedAtSem[tcb]
      n        == d.nextSemBlocked[tcb]
      prev     == previous(d.nextSemBlocked, d.blockedHead[s], tcb)
      unlinked == IF prev = Null
                  THEN [d EXCEPT !.blockedHead[s] = n,
                                 !.blockedTail[s] = IF n = Null THEN Null ELSE @]
                  ELSE [d EXCEPT !.nextSemBlocked[prev] = n]
  IN  [unlinked EXCEPT !.blockedAtSem[tcb] = Null,
                       !.nextSemBlocked[tcb] = Null, !.tokensNeeded[tcb] = 0]

\* kSemaphore::get of the semaphore tcb is blocked at; without an argument,
\* for the head.
semGet(d, tcb) ==
  LET s        == d.blockedAtSem[tcb]
      n        == d.nextSemBlocked[tcb]
      prev     == previous(d.nextSemBlocked, d.blockedHead[s], tcb)
      unlinked == IF prev = Null
                  THEN [d EXCEPT !.blockedHead[s] = n,
                                 !.blockedTail[s] = IF n = Null THEN Null ELSE @]
                  ELSE [d EXCEPT !.nextSemBlocked[prev] = n,
                                 !.blockedTail[s] = IF @ = tcb THEN prev ELSE @]
  IN  [unlinked EXCEPT !.blockedAtSem[tcb] = Null,
                       !.nextSemBlocked[tcb] = Null, !.tokensNeeded[tcb] = 0]

\* The body of the loops of signal and signalAll.
release(d, s, manner) ==
  LET tcb   == d.blockedHead[s]
      taken == semGet(d, tcb)
      awake == IF tcb \in d.sleeps THEN sleepGet(taken, tcb) ELSE taken
  IN  readyPut([awake EXCEPT !.unblockManner[tcb] = manner], tcb)

signal(d, s, tokens) ==
  LET first(at)  == at.mem.blockedHead[s]
      needed(at) == at.mem.tokensNeeded[first(at)]
      going(at)  == first(at) # Null /\ at.tokens > 0
      step(at)   == IF at.tokens >= needed(at)
                    THEN [mem    |-> release(at.mem, s, "REGULAR"),
                          tokens |-> at.tokens - needed(at)]
                    ELSE [mem    |-> [at.mem EXCEPT !.tokensNeeded[first(at)] =
                                                      @ - at.tokens],
                          tokens |-> 0]
      done       == While(going, step, [mem |-> d, tokens |-> tokens])
  IN  [done.mem EXCEPT !.value[s] = @ + done.tokens]

signalAll(d, s, manner) ==
  LET going(x) == x.blockedHead[s] # Null
      step(x)  == release(x, s, manner)
  IN  [While(going, step, d) EXCEPT !.value[s] = 0]

close(d, s) == [signalAll(d, s, "ON_CLOSE") EXCEPT !.active = @ \ {s}]

\* kSemaphoreDeleteAll.
closeAll(d) ==
  LET going(x) == x.active # {}
      step(x)  == close(x, CHOOSE s \in x.active : TRUE)
  IN  While(going, step, d)

\* The part of wait and timedWait that takes what there is of the tokens.
block(d, s, tokens) ==
  [semPut(d, s, d.running, tokens - d.value[s]) EXCEPT !.value[s] = 0]

-----------------------------------------------------------------------------
(***************************************************************************)
(* Sleep::onTick takes threads from the sleep list and from those of the   *)
(* semaphores.                                                             *)
(***************************************************************************)
timedOut(d, tcb) ==
  IF d.blockedAtSem[tcb] = Null THEN d
  ELSE [semGet(d, tcb) EXCEPT !.unblockManner[tcb] = "WAIT_TIMEOUT"]

wakeHead(d) ==
  LET tcb == d.sleepHead
  IN  readyPut(timedOut(sleepGet(d, tcb), tcb), tcb)

\* Mutant of due: an "if" in the place of the loop.
dueFirst(d) ==
  IF d.sleepHead # Null /\ d.timeSleepRelative[d.sleepHead] = 0
  THEN wakeHead(d) ELSE d

due(d) ==
  LET going(x) == x.sleepHead # Null /\ x.timeSleepRelative[x.sleepHead] = 0
  IN  While(going, wakeHead, d)

onTick(d) ==
  due(IF d.sleepHead = Null THEN d
      ELSE [d EXCEPT !.timeSleepRelative[d.sleepHead] = @ - 1])

-----------------------------------------------------------------------------
(***************************************************************************)
(* The calls.                                                              *)
(***************************************************************************)
Callers == Threads \ {Idle}

\* Only joinAll waits for several tokens, and only its owner waits there.
JoinAllSem == semJoinAll(UserMain)
Used == UserSems \cup {JoinAllSem}
Requests ==
  [caller : Callers, sem : UserSems, tokens : {1}]
  \cup [caller : {UserMain}, sem : {JoinAllSem}, tokens : 1 .. MaxTokens]

TakeTokens(r) ==
  /\ mem.running = r.caller /\ r.sem \in mem.active
  /\ mem.value[r.sem] >= r.tokens
  /\ mem' = [mem EXCEPT !.value[r.sem] = @ - r.tokens,
                        !.unblockManner[r.caller] = "REGULAR"]

\* The caller of a wait that cannot be met.
Blocks(r) ==
  /\ mem.running = r.caller /\ r.sem \in mem.active
  /\ mem.value[r.sem] < r.tokens

Wait(r) ==
  /\ Blocks(r)
  /\ mem' = yield(block(mem, r.sem, r.tokens), FALSE)

\* put, and then Sleep::sleep: with a timeout of 0 it takes the caller out
\* of the list again.
TimedWait(r) ==
  /\ Blocks(r)
  /\ LET d == block(mem, r.sem, r.tokens)
     IN  \/ mem' = timedOut(d, r.caller)
         \/ \E timeout \in 1 .. MaxTimeout :
              mem' = yield(sleepPut(d, r.caller, timeout), FALSE)

GoToSleep ==
  /\ mem.running \in Callers
  /\ \E timeout \in 1 .. MaxTimeout :
       mem' = yield(sleepPut(mem, mem.running, timeout), FALSE)

\* A program signals its own semaphores; the end of a child signals the
\* semaphore its parent waits for its children at.
SignalOne(s) ==
  /\ mem.running \in Callers /\ s \in mem.active
  /\ \/ s \in UserSems /\ mem.value[s] < MaxTokens
     \/ /\ s = JoinAllSem /\ mem.running # UserMain
        /\ mem.blockedAtSem[UserMain] = s
  /\ mem' = signal(mem, s, 1)

CloseOne(s) ==
  /\ mem.running \in Callers /\ s \in mem.active
  /\ mem' = close(mem, s)

Dispatch == mem.running # Null /\ mem' = yield(mem, TRUE)

Tick == mem.running # Null /\ mem' = onTick(mem)

\* main(), with interrupts masked: kSemaphoreDeleteAll, Sleep::wakeUpAll,
\* Scheduler::close and Kernel::terminate.
ShutDown ==
  /\ mem.running = Master
  /\ mem' = [wakeUpAll(closeAll(mem)) EXCEPT
                !.readyHead = Null, !.readyTail = Null,
                !.nextReady = [t \in Threads |-> Null], !.running = Null]

-----------------------------------------------------------------------------
NoThread == [t \in Threads |-> Null]

\* The main thread runs; the others have been made ready by threadCreate, one
\* behind the other.
Init ==
  LET order == InSomeOrder(Callers \ {Master})
      last  == Len(order)
  IN  mem = [running           |-> Master,
             readyHead         |-> order[1],
             readyTail         |-> order[last],
             nextReady         |-> [t \in Threads |->
                                      IF \E i \in 1 .. last - 1 : order[i] = t
                                      THEN order[1 + CHOOSE i \in 1 .. last - 1 :
                                                       order[i] = t]
                                      ELSE Null],
             sleepHead         |-> Null,
             nextSleep         |-> NoThread,
             timeSleepRelative |-> [t \in Threads |-> 0],
             sleeps            |-> {},
             blockedHead       |-> [s \in Sems |-> Null],
             blockedTail       |-> [s \in Sems |-> Null],
             nextSemBlocked    |-> NoThread,
             blockedAtSem      |-> NoThread,
             tokensNeeded      |-> [t \in Threads |-> 0],
             unblockManner     |-> [t \in Threads |-> "REGULAR"],
             active            |-> Used,
             value             |-> [s \in Sems |-> 0]]

Next ==
  \/ \E r \in Requests : TakeTokens(r) \/ Wait(r) \/ TimedWait(r)
  \/ \E s \in Used : SignalOne(s) \/ CloseOne(s)
  \/ GoToSleep \/ Dispatch \/ Tick \/ ShutDown

Spec == Init /\ [][Next]_mem

-----------------------------------------------------------------------------
\* The threads from head on, in the order of the links; one more than there
\* are if the links go round.
Chain(next, head) ==
  LET N == Cardinality(Threads)
      follower == [t \in Threads \cup {Null} |-> IF t = Null THEN Null ELSE next[t]]
      at[i \in 0 .. N] == IF i = 0 THEN head ELSE follower[at[i - 1]]
  IN  [i \in 1 .. Cardinality({h \in 0 .. N : at[h] # Null}) |-> at[i - 1]]

readyList(d)  == Chain(d.nextReady, d.readyHead)
sleepList(d)  == Chain(d.nextSleep, d.sleepHead)
blocked(d, s) == Chain(d.nextSemBlocked, d.blockedHead[s])

\* The ticks of each thread and of all that wake before it.
remaining(d) ==
  LET upTo[t \in Threads] ==
        d.timeSleepRelative[t]
          + IF \E u \in Threads : d.nextSleep[u] = t
            THEN upTo[CHOOSE u \in Threads : d.nextSleep[u] = t] ELSE 0
  IN  upTo

TailIsLast(tail, list) ==
  tail = IF list = <<>> THEN Null ELSE list[Len(list)]

LinksBelong(next, members) == \A t \in Threads \ members : next[t] = Null

\* Every list is whole: no thread twice, the pointer to the last one points
\* to the last one whatever was taken from the head, the middle or the end
\* (kSemaphore::get and put, Scheduler::get and put), the members sleeps and
\* blockedAtSem of a TCB tell which lists it is on, and a thread that has
\* left a list keeps no link into it.
ListsAreWhole ==
  LET ready    == readyList(mem)
      sleeping == sleepList(mem)
      waiting  == [s \in Used |-> blocked(mem, s)]
  IN  /\ IsInjective(ready) /\ IsInjective(sleeping)
      /\ \A s \in Used : IsInjective(waiting[s])
      /\ TailIsLast(mem.readyTail, ready)
      /\ \A s \in Used : TailIsLast(mem.blockedTail[s], waiting[s])
      /\ Range(sleeping) = mem.sleeps
      /\ \A s \in Used :
           Range(waiting[s]) = {t \in Threads : mem.blockedAtSem[t] = s}
      /\ LinksBelong(mem.nextReady, Range(ready))
      /\ LinksBelong(mem.nextSleep, mem.sleeps)
      /\ LinksBelong(mem.nextSemBlocked, UNION {Range(waiting[s]) : s \in Used})

\* Between two calls the head has at least one tick left, so the decrement
\* of onTick does not wrap, whoever left the list before (Sleep::get adds
\* the difference of the thread that leaves to its follower's).
HeadHasTicksLeft ==
  mem.sleepHead # Null => mem.timeSleepRelative[mem.sleepHead] > 0

\* The linked lists do what the kernel's model says of its sequences and of
\* the ticks that remain: whoever was put, taken out of the middle, woken
\* early or timed out in between, the threads run, wake and get their tokens
\* in the same order and at the same time.
QueuesOf(d) ==
  [running             |-> d.running,
   timeSliceCounter    |-> 0,
   ready               |-> readyList(d),
   created             |-> Threads,
   finished            |-> {},
   parent              |-> NoThread,
   numOfActiveChildren |-> [t \in Threads |-> 0],
   sleepList           |-> sleepList(d),
   remaining           |-> remaining(d),
   blockedAtSem        |-> d.blockedAtSem,
   tokensNeeded        |-> d.tokensNeeded,
   unblockManner       |-> d.unblockManner,
   opened              |-> Used,
   active              |-> d.active,
   value               |-> d.value,
   blocked             |-> [s \in Sems |-> blocked(d, s)],
   message             |-> NoThread]

Abstract == INSTANCE Queues WITH lists <- QueuesOf(mem)

ImplementsQueues == Abstract!Spec
=============================================================================
