------------------------- MODULE KernelProperties -------------------------
(***************************************************************************)
(* What the kernel of Kernel.tla promises.                                 *)
(***************************************************************************)
EXTENDS Kernel

Waits(t) == kernel.blockedAtSem[t] # Null \/ sleeps(kernel, t)

Children(p) == {t \in kernel.created : kernel.parent[t] = p}
LiveChildren(p) == Children(p) \ kernel.finished

Frames == [call : CallNames \cup {"user", "tick"},
           on   : Threads \cup Sems \cup {Null},
           msg  : Messages \cup {Null}]

Returns == [thread : Threads \cup {Null},
            call   : CallNames \cup {"user", "tick", "none"},
            on     : Threads \cup Sems \cup {Null},
            value  : Int \cup Messages \cup {Null}]

\* The type of the state.
TypeOK ==
  /\ kernel \in Kernels
  /\ frame \in [Threads -> Frames]
  /\ returned \in Returns
  /\ mainPc \in {"create", "join", "sleep", "shutdown", "halted"}

-----------------------------------------------------------------------------
(***************************************************************************)
(* Safety.                                                                 *)
(***************************************************************************)

\* No thread is lost and none is in two places: whatever signals, closes,
\* time-outs, yields and ends have happened, a thread that was created is
\* in exactly one of four places, the ready list holds it once, and the
\* idle thread is never queued or blocked (TCB::yield, Scheduler::put,
\* kSemaphore::get and Sleep::get agree on who owns a TCB).
Places(t) ==
  {p \in {"processor", "ready", "waiting", "finished"} :
     \/ p = "processor" /\ t = running
     \/ p = "ready"     /\ t \in Range(kernel.ready)
     \/ p = "waiting"   /\ Waits(t)
     \/ p = "finished"  /\ t \in kernel.finished}

NoThreadLost ==
  Running =>
    /\ IsInjective(kernel.ready)
    /\ \A t \in kernel.created \ {Idle} : Cardinality(Places(t)) = 1
    /\ Idle \notin Range(kernel.ready) /\ ~Waits(Idle)

\* The two views of a blocked thread agree: the member blockedAtSem names
\* the semaphore whose list holds the thread, and no other list does; and
\* the thread is in the middle of a call that waits at that semaphore
\* (kSemaphore::put and get, called from signal, close, time-out and end).
WaitPoint(t, f) ==
  CASE f.call = "join"         -> semJoin(f.on)
    [] f.call = "timedJoin"    -> semJoin(f.on)
    [] f.call = "joinAll"      -> semJoinAll(t)
    [] f.call = "timedJoinAll" -> semJoinAll(t)
    [] f.call = "send"         -> semSend(f.on)
    [] f.call = "receive"      -> semReceive(t)
    [] f.call = "semWait"      -> f.on
    [] f.call = "semTimedWait" -> f.on
    [] OTHER -> Null

WaitsAt(t) == WaitPoint(t, frame[t])

BlockedListsAgree ==
  \A s \in Sems :
    /\ IsInjective(kernel.blocked[s])
    /\ \A t \in Threads :
         /\ t \in Range(kernel.blocked[s]) <=> kernel.blockedAtSem[t] = s
         /\ kernel.blockedAtSem[t] = s => WaitsAt(t) = s

\* Nobody waits for what is there or for what will never come: a semaphore
\* with waiters is active and has no token left, and each of them lacks at
\* least one (kSemaphore::wait, signal, signalAll and close).
WaitersAreShort ==
  \A s \in Sems :
    kernel.blocked[s] # <<>> =>
      /\ s \in kernel.active
      /\ kernel.value[s] = 0
      /\ \A t \in Range(kernel.blocked[s]) : kernel.tokensNeeded[t] > 0

\* The sleep list holds the sleepers, once each, in the order they wake, so
\* onTick may stop at the first that does not wake yet (Sleep::put, which
\* also inserts behind threads that were put earlier with more ticks).
SleepListInOrder ==
  /\ IsInjective(kernel.sleepList)
  /\ Range(kernel.sleepList) = {t \in Threads : sleeps(kernel, t)}
  /\ \A i, j \in DOMAIN kernel.sleepList :
       i < j => kernel.remaining[kernel.sleepList[i]]
                  <= kernel.remaining[kernel.sleepList[j]]

\* joinAll waits for the right number of tokens: numOfActiveChildren is the
\* number of children that have not finished, and a parent blocked at
\* semJoinAll needs exactly that many, however many children ended while it
\* was blocked and whatever it gave up waiting for before (TCB::finish and
\* handleJoinAll keep the two counts separately).  Not for Master, whose
\* count the idle thread decrements again and again.
ChildrenAreCounted ==
  Running =>
  \A p \in kernel.created \ (kernel.finished \cup {Master, Idle}) :
    /\ kernel.numOfActiveChildren[p] = Cardinality(LiveChildren(p))
    /\ kernel.blockedAtSem[p] = semJoinAll(p) =>
         kernel.tokensNeeded[p] = kernel.numOfActiveChildren[p]

\* A join that reports success is true: the thread joined with has finished,
\* all children have after joinAll, and timedJoinAll returns the number of
\* those that have not; join never ends because its semaphore was closed
\* under it (TCB::finish signals semJoin before it closes it).
JoinsAreTrue ==
  /\ returned.call \in {"join", "timedJoin"} =>
       /\ returned.value = 0 => returned.on \in kernel.finished
       /\ returned.value # ERR_SEM_WAITCLOSE
       /\ returned.value # ERR_SEM_DEAD
  /\ returned.call = "joinAll" => LiveChildren(returned.thread) = {}
  /\ returned.call = "timedJoinAll" =>
       returned.value = Cardinality(LiveChildren(returned.thread))

\* The reason a wait reports is its own, not one that unblockManner still
\* holds from an earlier wait: only a call with a timeout times out, and a
\* wait is told of a close only if its semaphore was closed.
ReasonsAreFresh ==
  /\ returned.value = TIMEOUT =>
       returned.call \in {"timedJoin", "semTimedWait", "timedJoinAll"}
  /\ returned.value = ERR_SEM_WAITCLOSE =>
       returned.call \in {"semWait", "semTimedWait"}
         /\ returned.on \notin kernel.active

\* sem_timedwait answers 0, SEMDEAD or TIMEOUT, as the assignment the system
\* was written for says.  A wait that a close ended answers ERR_SEM_WAITCLOSE
\* (kSemaphore::resolveManner), which is none of them.
TimedWaitAnswers ==
  returned.call = "semTimedWait" => returned.value \in {0, SEMDEAD, TIMEOUT}

\* The mailbox of a thread is one slot with one token: it is free, or
\* full, or in the hands of one sender or of the receiver that was let in
\* and has not finished its call.  Two senders never both write it and none
\* writes while the receiver has not taken the message (handleSend and
\* handleReceive, each suspended between its wait and its signal).
LetIn(t, call, on) ==
  /\ frame[t].call = call /\ frame[t].on = on
  /\ ~Waits(t) /\ kernel.unblockManner[t] = "REGULAR"

SlotTokens(t) ==
  kernel.value[semSend(t)] + kernel.value[semReceive(t)]
    + Cardinality({u \in Threads : LetIn(u, "send", t)})
    + Cardinality({u \in {t} : LetIn(u, "receive", Null)})

OneMessageSlot ==
  Running =>
    \A t \in kernel.created \ kernel.finished : SlotTokens(t) = 1

\* receive returns a message somebody sent, never the empty mailbox.
ReceivesAMessage ==
  returned.call = "receive" => returned.value \in Messages

-----------------------------------------------------------------------------
(***************************************************************************)
(* What a step may never do.                                               *)
(***************************************************************************)
Before(q, t, u) == \E i, j \in DOMAIN q : i < j /\ q[i] = t /\ q[j] = u

\* Threads get the processor in the order they became ready, and a token
\* goes to the thread that has waited longest: u passes t if it leaves the
\* list before t though it was behind it, or comes in ahead of t.  In the
\* list of a semaphore that happens only to a thread whose time is out.
Passes(q, r, t, u) ==
  /\ t \in Range(q) \cap Range(r)
  /\ \/ Before(q, t, u) /\ u \notin Range(r)
     \/ Before(r, u, t) /\ ~Before(q, u, t)

NoOvertaking ==
  [][/\ \A t, u \in Range(kernel.ready) \cup Range(kernel'.ready) :
          ~Passes(kernel.ready, kernel'.ready, t, u)
     /\ \A s \in Sems :
        \A t, u \in Range(kernel.blocked[s]) \cup Range(kernel'.blocked[s]) :
          Passes(kernel.blocked[s], kernel'.blocked[s], t, u) =>
            /\ u \notin Range(kernel'.blocked[s])
            /\ kernel'.unblockManner[u] = "WAIT_TIMEOUT"]_vars

\* The end is final: a finished thread never runs, is never made ready and
\* never waits again, and a closed semaphore stays closed.  The idle thread
\* is the exception, it runs after its end.
EndIsFinal ==
  [][/\ kernel.finished \subseteq kernel'.finished
     /\ (kernel.opened \ kernel.active) \cap kernel'.active = {}
     /\ \A t \in kernel.finished \ {Idle} :
          /\ kernel'.running # t
          /\ t \notin Range(kernel'.ready)
          /\ ~Waits(t)']_vars

-----------------------------------------------------------------------------
(***************************************************************************)
(* What must happen in the end.                                            *)
(***************************************************************************)

\* A ready thread gets the processor, whatever the others do: the time
\* slice ends the turn of a thread that makes no call.
EveryReadyThreadRuns ==
  \A t \in Threads \ {Idle} : t \in Range(kernel.ready) ~> (running = t \/ ~Running)

\* A call with a timeout returns: by its grant, by a close or by the tick
\* that ends it, and in every race of the three.
TimedCallsReturn ==
  \A t \in UserThreads :
    frame[t].call \in {"timeSleep", "timedJoin", "timedJoinAll", "semTimedWait"}
      ~> (frame[t] = UserMode \/ ~Running)

\* When the thread of userMain has finished the kernel shuts down.
ProgramEnds == UserMain \in kernel.finished ~> ~Running
=============================================================================
