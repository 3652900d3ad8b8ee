--------------------------- MODULE KernelAnswers ---------------------------
(***************************************************************************)
(* The inductive invariant behind the properties of KernelProperties.tla   *)
(* about what system calls answer: the frames of suspended threads, the    *)
(* reasons they were woken for, the children counted and the mailboxes.    *)
(*                                                                         *)
(* Its parts are predicates on a record k and the frames fr, so that they  *)
(* can be stated in the middle of a handler: over are the threads whose    *)
(* end has begun, left those whose parent has been told of it, and taken   *)
(* those whose mailbox the running thread has in its hands.                *)
(***************************************************************************)
EXTENDS KernelInvariant

TimedCalls == {"timedJoin", "timedJoinAll", "semTimedWait"}

\* The calls that wait at a semaphore.
WaitCalls == TimedCalls \cup {"join", "joinAll", "send", "receive", "semWait"}

-----------------------------------------------------------------------------
\* A handler is suspended in a call that waits, or in one of these, and what
\* it works on is still there.
FrameFits(k, t, f, over) ==
  /\ f.call \in WaitCalls \cup {"user", "tick", "dispatch", "timeSleep", "threadExit"}
  /\ t \notin k.created => f = UserMode
  /\ f.call \in WaitCalls => t \in k.created \ over
  /\ f.call \in {"join", "timedJoin", "send"} => f.on \in k.created
  /\ f.call = "send" => f.msg \in Messages
  /\ f.call \in {"semWait", "semTimedWait"} => f.on \in UserSems \cap k.opened
  /\ f.call \in {"joinAll", "timedJoinAll"} => t \in UserThreads
  /\ f.call = "receive" => f.on = Null
  /\ f.call \in {"user", "tick"} => f \in {UserMode, TickFrame}

\* A waiting thread waits where its call says, with a timeout only if that
\* has one.
WaitFits(k, t, f) ==
  /\ k.blockedAtSem[t] # Null => k.blockedAtSem[t] = WaitPoint(t, f)
  /\ sleeps(k, t) =>
       f.call \in IF k.blockedAtSem[t] = Null THEN {"timeSleep"} ELSE TimedCalls

\* The reason a thread was woken for is true, and stays so until it runs.
Told(k, t, f, over) ==
  /\ k.unblockManner[t] = "WAIT_TIMEOUT" => f.call \in TimedCalls
  /\ k.unblockManner[t] = "ON_CLOSE" =>
       /\ f.call \in {"send", "semWait", "semTimedWait"}
       /\ WaitPoint(t, f) \in k.opened \ k.active
  /\ k.unblockManner[t] = "REGULAR" /\ f.call \in {"join", "timedJoin"} =>
       f.on \in over
  /\ f.call = "joinAll" => k.numOfActiveChildren[t] = 0

FrameTrue(k, t, f, over) ==
  /\ FrameFits(k, t, f, over) /\ WaitFits(k, t, f)
  /\ f.call \in WaitCalls /\ ~WaitsIn(k, t) => Told(k, t, f, over)

FramesTrue(k, fr, over) == \A t \in Threads : FrameTrue(k, t, fr[t], over)

\* A joinAll wants a token of every child, any other wait wants one.
Needs(k) ==
  \A t \in Threads : k.blockedAtSem[t] # Null =>
    k.tokensNeeded[t] = IF k.blockedAtSem[t] = semJoinAll(t)
                        THEN k.numOfActiveChildren[t] ELSE 1

-----------------------------------------------------------------------------
\* The semaphores of a thread live as long as it does; those of the joins
\* never hold a token.
OwnSems(k, over) ==
  /\ \A t \in k.created \ over : SemsOf(t) \subseteq k.active
  /\ \A t \in Threads : k.value[semJoin(t)] = 0 /\ k.value[semJoinAll(t)] = 0

\* numOfActiveChildren counts the children that have not left.
Offspring(k, p, left) == {c \in k.created : k.parent[c] = p} \ left

Counted(k, over, left) ==
  /\ k.parent[Idle] = Master
  /\ \A t \in k.created : k.parent[t] \in k.created \cup {Null}
  /\ \A t \in Threads \ k.created : k.numOfActiveChildren[t] = 0
  /\ \A p \in k.created \ (over \cup {Master, Idle}) :
       k.numOfActiveChildren[p] = Cardinality(Offspring(k, p, left))

\* The threads that were let in to the mailbox of t.
Enters(k, u, f, t) ==
  /\ \/ f.call = "send" /\ f.on = t
     \/ f.call = "receive" /\ u = t
  /\ ~WaitsIn(k, u)
  /\ k.unblockManner[u] = "REGULAR"

Inside(k, fr, t) == {u \in Threads : Enters(k, u, fr[u], t)}

Slot(k, fr, t) ==
  \/ k.value[semSend(t)] = 1 /\ k.value[semReceive(t)] = 0 /\ Inside(k, fr, t) = {}
  \/ k.value[semSend(t)] = 0 /\ k.value[semReceive(t)] = 1 /\ Inside(k, fr, t) = {}
  \/ /\ k.value[semSend(t)] = 0 /\ k.value[semReceive(t)] = 0
     /\ \E u \in Threads : Inside(k, fr, t) = {u}

NoSlot(k, fr, t) ==
  k.value[semSend(t)] = 0 /\ k.value[semReceive(t)] = 0 /\ Inside(k, fr, t) = {}

Mailbox(k, fr, t, out) ==
  /\ IF out THEN NoSlot(k, fr, t) ELSE Slot(k, fr, t)
  /\ k.value[semReceive(t)] = 1 \/ (fr[t].call = "receive" /\ Enters(k, t, fr[t], t))
       => k.message[t] \in Messages

Mailboxes(k, fr, over, taken) ==
  \A t \in k.created \ over : Mailbox(k, fr, t, t \in taken)

Answers(k, fr, over, left, taken) ==
  /\ FramesTrue(k, fr, over) /\ Needs(k) /\ OwnSems(k, over)
  /\ Counted(k, over, left) /\ Mailboxes(k, fr, over, taken)

\* The inductive invariant, on top of IInv.
AnswersInv ==
  /\ Running => Answers(kernel, frame, kernel.finished, kernel.finished, {})
  /\ mainPc = "join" => UserMain \in kernel.created
  /\ ReasonsAreFresh /\ JoinsAreTrue /\ ReceivesAMessage
=============================================================================
