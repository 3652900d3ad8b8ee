------------------------------- MODULE Queues -------------------------------
(***************************************************************************)
(* What the lists of threads promise, alone: the ready list, the sleep     *)
(* list and the lists of blocked threads as the sequences of the kernel    *)
(* model, worked on by the operators the kernel model is built from.  It   *)
(* is the specification the linked lists of LinkedLists.tla implement.     *)
(* Each step is a call the running thread makes of Scheduler, Sleep or     *)
(* kSemaphore, or a tick.                                                  *)
(***************************************************************************)
EXTENDS KSemaphore

CONSTANTS MaxTimeout, \* bound on the timeouts asked for
          MaxTokens   \* bound on a semaphore's value and on the tokens of a wait

VARIABLE lists  \* the kernel's record, of which the three classes share members

\* The threads that are suspended and woken; the idle thread never is.
Callers == Threads \ {Idle}

\* Only joinAll waits for several tokens, and only its owner waits there.
JoinAllSem == semJoinAll(UserMain)
Requests ==
  [caller : Callers, sem : UserSems, tokens : {1}]
  \cup [caller : {UserMain}, sem : {JoinAllSem}, tokens : 1 .. MaxTokens]

Wait(r) ==
  /\ lists.running = r.caller /\ r.sem \in lists.active
  /\ lists' = IF lists.value[r.sem] >= r.tokens
              THEN Acquire(lists, r.sem, r.tokens)
              ELSE Yield(Block(lists, r.sem, r.tokens), FALSE)

TimedWait(r) ==
  /\ lists.running = r.caller /\ r.sem \in lists.active
  /\ lists.value[r.sem] < r.tokens
  /\ \/ lists' = BlockForNoTime(lists, r.sem)
     \/ \E timeout \in 1 .. MaxTimeout :
          lists' = Yield(SleepPut(Block(lists, r.sem, r.tokens),
                                  r.caller, timeout), FALSE)

\* A program signals its own semaphores; the end of a child signals the
\* semaphore its parent waits for its children at.
SignalOne(s) ==
  /\ lists.running \in Callers
  /\ \/ s \in UserSems /\ lists.value[s] < MaxTokens
     \/ s = JoinAllSem /\ lists.running # UserMain
        /\ lists.blockedAtSem[UserMain] = s
  /\ lists' = Signal(lists, s)

CloseOne(s) ==
  /\ lists.running \in Callers /\ s \in lists.active
  /\ lists' = Close(lists, s)

GoToSleep ==
  /\ lists.running \in Callers
  /\ \E timeout \in 1 .. MaxTimeout :
       lists' = Yield(SleepPut(lists, lists.running, timeout), FALSE)

Dispatch == lists.running # Null /\ lists' = Yield(lists, TRUE)

Tick == lists.running # Null /\ lists' = OnTick(lists)

\* main(): kSemaphoreDeleteAll, wakeUpAll and Scheduler::close; nothing runs
\* after it.
ShutDown ==
  /\ lists.running = Master
  /\ lists' = [lists EXCEPT
                 !.running = Null,
                 !.ready = <<>>,
                 !.sleepList = <<>>,
                 !.remaining = [t \in Threads |-> 0],
                 !.active = {},
                 !.value = [s \in Sems |-> IF s \in lists.active THEN 0 ELSE @[s]],
                 !.blocked = [s \in Sems |-> <<>>],
                 !.blockedAtSem = [t \in Threads |-> Null],
                 !.tokensNeeded = [t \in Threads |->
                                     IF lists.blockedAtSem[t] # Null THEN 0
                                     ELSE @[t]],
                 !.unblockManner = [t \in Threads |->
                                      IF lists.blockedAtSem[t] # Null
                                      THEN "ON_CLOSE" ELSE @[t]]]

-----------------------------------------------------------------------------
\* The semaphores the calls above name.
Used == UserSems \cup {JoinAllSem}

NoThread == [t \in Threads |-> Null]

Init ==
  lists = [running             |-> Master,
           timeSliceCounter    |-> 0,
           ready               |-> InSomeOrder(Callers \ {Master}),
           created             |-> Threads,
           finished            |-> {},
           parent              |-> NoThread,
           numOfActiveChildren |-> [t \in Threads |-> 0],
           sleepList           |-> <<>>,
           remaining           |-> [t \in Threads |-> 0],
           blockedAtSem        |-> NoThread,
           tokensNeeded        |-> [t \in Threads |-> 0],
           unblockManner       |-> [t \in Threads |-> "REGULAR"],
           opened              |-> Used,
           active              |-> Used,
           value               |-> [s \in Sems |-> 0],
           blocked             |-> [s \in Sems |-> <<>>],
           message             |-> NoThread]

Next ==
  \/ \E r \in Requests : Wait(r) \/ TimedWait(r)
  \/ \E s \in Used : SignalOne(s) \/ CloseOne(s)
  \/ GoToSleep \/ Dispatch \/ Tick \/ ShutDown

Spec == Init /\ [][Next]_lists
=============================================================================
