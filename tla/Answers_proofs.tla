--------------------------- MODULE Answers_proofs ---------------------------
(***************************************************************************)
(* What system calls answer is true, for every set of threads, semaphores  *)
(* and messages and every bound: the invariant of KernelAnswers.tla and    *)
(* the properties of KernelProperties.tla it implies.                      *)
(***************************************************************************)
EXTENDS KernelAnswers, Kernel_proofs

\* Which call waits at a semaphore.
LEMMA PointKinds ==
  ASSUME NEW k \in Kernels, NEW t \in Threads, NEW f, NEW over,
         FrameFits(k, t, f, over), WaitPoint(t, f) # Null
  PROVE  /\ f.call \in WaitCalls
         /\ \A x \in Threads :
              /\ WaitPoint(t, f) = semSend(x) => f.call = "send" /\ f.on = x
              /\ WaitPoint(t, f) = semReceive(x) => f.call = "receive" /\ t = x
              /\ WaitPoint(t, f) = semJoin(x) =>
                   f.call \in {"join", "timedJoin"} /\ f.on = x
              /\ WaitPoint(t, f) = semJoinAll(x) =>
                   f.call \in {"joinAll", "timedJoinAll"} /\ t = x
         /\ WaitPoint(t, f) \in UserSems => f.call \in {"semWait", "semTimedWait"}
<1>1. f.call \in WaitCalls
  BY DEF WaitPoint, FrameFits, WaitCalls, TimedCalls
<1>2. /\ f.call \in {"join", "timedJoin", "send"} => f.on \in Threads
      /\ f.call \in {"semWait", "semTimedWait"} => f.on \in UserSems
  BY KernelFields DEF FrameFits
<1>3. CASE f.call \in {"join", "timedJoin"}
  <2>1. WaitPoint(t, f) = semJoin(f.on)
    BY <1>3 DEF WaitPoint
  <2> QED  BY <1>1, <1>2, <1>3, <2>1, SemsApart
<1>4. CASE f.call \in {"joinAll", "timedJoinAll"}
  <2>1. WaitPoint(t, f) = semJoinAll(t)
    BY <1>4 DEF WaitPoint
  <2> QED  BY <1>1, <1>4, <2>1, SemsApart
<1>5. CASE f.call = "send"
  <2>1. WaitPoint(t, f) = semSend(f.on)
    BY <1>5 DEF WaitPoint
  <2> QED  BY <1>1, <1>2, <1>5, <2>1, SemsApart
<1>6. CASE f.call = "receive"
  <2>1. WaitPoint(t, f) = semReceive(t)
    BY <1>6 DEF WaitPoint
  <2> QED  BY <1>1, <1>6, <2>1, SemsApart
<1>7. CASE f.call \in {"semWait", "semTimedWait"}
  <2>1. WaitPoint(t, f) = f.on
    BY <1>7 DEF WaitPoint
  <2> QED  BY <1>1, <1>2, <1>7, <2>1, SemsApart
<1> QED  BY <1>1, <1>3, <1>4, <1>5, <1>6, <1>7 DEF WaitCalls, TimedCalls

-----------------------------------------------------------------------------
\* Threads that stop waiting leave the frames true, if they are told why.
LEMMA FramesMove ==
  ASSUME NEW k \in Kernels, NEW m, NEW fr, NEW over, NEW W, NEW manner,
         FramesTrue(k, fr, over), Moves(k, m, W, manner), m.active \subseteq k.active,
         \A t \in Threads : t \in W /\ k.blockedAtSem[t] # Null => Told(m, t, fr[t], over)
  PROVE  FramesTrue(m, fr, over)
<1> SUFFICES ASSUME NEW t \in Threads
             PROVE  FrameTrue(m, t, fr[t], over)
  BY DEF FramesTrue
<1> DEFINE f == fr[t]
<1>0. /\ FrameFits(k, t, f, over) /\ WaitFits(k, t, f)
      /\ f.call \in WaitCalls /\ ~WaitsIn(k, t) => Told(k, t, f, over)
  BY DEF FramesTrue, FrameTrue
<1>1. /\ m.blockedAtSem[t] = IF t \in W THEN Null ELSE k.blockedAtSem[t]
      /\ sleeps(m, t) <=> sleeps(k, t) /\ t \notin W
      /\ m.unblockManner[t] = IF t \in W /\ k.blockedAtSem[t] # Null
                              THEN manner ELSE k.unblockManner[t]
      /\ SameCounts(k, m)
  BY DEF Moves
<1>2. t \in W /\ k.blockedAtSem[t] # Null => Told(m, t, f, over)
  OBVIOUS
<1> HIDE DEF f
<1>3. FrameFits(m, t, f, over)
  BY <1>0, <1>1 DEF FrameFits, SameCounts
<1>4. WaitFits(m, t, f)
  BY <1>0, <1>1 DEF WaitFits
<1>5. ASSUME f.call \in WaitCalls, ~WaitsIn(m, t)
      PROVE  Told(m, t, f, over)
  <2>1. CASE t \in W /\ k.blockedAtSem[t] # Null
    BY <1>2, <2>1
  <2>2. CASE ~(t \in W /\ k.blockedAtSem[t] # Null)
    <3>1. k.blockedAtSem[t] = Null /\ m.unblockManner[t] = k.unblockManner[t]
      BY <1>1, <1>5, <2>2 DEF WaitsIn
    <3>2. ~sleeps(k, t)
      BY <1>0, <1>5, <3>1 DEF WaitFits, WaitCalls, TimedCalls
    <3>3. Told(k, t, f, over)
      BY <1>0, <1>5, <3>1, <3>2 DEF WaitsIn
    <3> QED  BY <1>1, <3>1, <3>3 DEF Told, SameCounts
  <2> QED  BY <2>1, <2>2
<1> QED  BY <1>3, <1>4, <1>5 DEF FrameTrue, f

\* Nobody is let in to a mailbox by a routine that lets nobody in there.
LEMMA EntersMove ==
  ASSUME NEW k \in Kernels, NEW m, NEW fr, NEW over, NEW W, NEW manner,
         FramesTrue(k, fr, over), Moves(k, m, W, manner), NEW t, NEW u \in Threads,
         u \in W /\ k.blockedAtSem[u] # Null =>
           manner # "REGULAR" \/ k.blockedAtSem[u] \notin {semSend(t), semReceive(t)}
  PROVE  Enters(m, u, fr[u], t) <=> Enters(k, u, fr[u], t)
<1> DEFINE f == fr[u]
<1>0. FrameFits(k, u, f, over) /\ WaitFits(k, u, f)
  BY DEF FramesTrue, FrameTrue
<1>1. /\ m.blockedAtSem[u] = IF u \in W THEN Null ELSE k.blockedAtSem[u]
      /\ sleeps(m, u) <=> sleeps(k, u) /\ u \notin W
      /\ m.unblockManner[u] = IF u \in W /\ k.blockedAtSem[u] # Null
                              THEN manner ELSE k.unblockManner[u]
  BY DEF Moves
<1> HIDE DEF f
<1>2. CASE u \notin W \/ ~WaitsIn(k, u)
  <2>1. m.unblockManner[u] = k.unblockManner[u] /\ (WaitsIn(m, u) <=> WaitsIn(k, u))
    BY <1>1, <1>2 DEF WaitsIn
  <2> QED  BY <2>1 DEF Enters, f
<1>3. CASE u \in W /\ k.blockedAtSem[u] # Null
  <2>1. ~Enters(k, u, f, t)
    BY <1>3 DEF Enters, WaitsIn
  <2>2. k.blockedAtSem[u] = WaitPoint(u, f)
    BY <1>0, <1>3 DEF WaitFits
  <2>3. ASSUME Enters(m, u, f, t)
        PROVE  WaitPoint(u, f) \in {semSend(t), semReceive(t)} /\ manner = "REGULAR"
    <3>1. manner = "REGULAR"
      BY <1>1, <1>3, <2>3 DEF Enters
    <3>2. CASE f.call = "send" /\ f.on = t
      BY <3>1, <3>2 DEF WaitPoint
    <3>3. CASE f.call = "receive" /\ u = t
      BY <3>1, <3>3 DEF WaitPoint
    <3> QED  BY <2>3, <3>2, <3>3 DEF Enters
  <2> QED  BY <1>3, <2>1, <2>2, <2>3 DEF f
<1>4. CASE u \in W /\ k.blockedAtSem[u] = Null /\ sleeps(k, u)
  <2>1. f.call = "timeSleep"
    BY <1>0, <1>4 DEF WaitFits
  <2> QED  BY <2>1 DEF Enters, f
<1> QED  BY <1>2, <1>3, <1>4 DEF WaitsIn

\* What a mailbox depends on.
SameMail(k, fr, m, gr, t) ==
  /\ m.value[semSend(t)] = k.value[semSend(t)]
  /\ m.value[semReceive(t)] = k.value[semReceive(t)]
  /\ m.message[t] = k.message[t]
  /\ \A u \in Threads : Enters(m, u, gr[u], t) <=> Enters(k, u, fr[u], t)
  /\ gr[t].call = "receive" /\ Enters(m, t, gr[t], t) =>
       fr[t].call = "receive" /\ Enters(k, t, fr[t], t)

\* A mailbox whose slot, semaphores and frames stay is as it was.
LEMMA MailboxDepends ==
  ASSUME NEW k, NEW m, NEW fr, NEW gr, NEW t, NEW out,
         SameMail(k, fr, m, gr, t), Mailbox(k, fr, t, out)
  PROVE  Mailbox(m, gr, t, out)
<1>1. Inside(m, gr, t) = Inside(k, fr, t)
  BY DEF SameMail, Inside
<1>2. Slot(m, gr, t) <=> Slot(k, fr, t)
  BY <1>1 DEF SameMail, Slot
<1>3. NoSlot(m, gr, t) <=> NoSlot(k, fr, t)
  BY <1>1 DEF SameMail, NoSlot
<1> HIDE DEF Slot, NoSlot, Inside, Enters
<1> QED  BY <1>2, <1>3 DEF SameMail, Mailbox

\* A routine that lets threads go on, and tells them the truth, keeps all
\* but perhaps the mailboxes,
LEMMA StoryMove ==
  ASSUME NEW k \in Kernels, NEW m, NEW fr, NEW over, NEW left, NEW W, NEW manner,
         FramesTrue(k, fr, over), Needs(k), OwnSems(k, over), Counted(k, over, left),
         Moves(k, m, W, manner), m.active \subseteq k.active,
         \A t \in k.created \ over : SemsOf(t) \cap k.active \subseteq m.active,
         \A t \in Threads : m.value[semJoin(t)] = 0 /\ m.value[semJoinAll(t)] = 0,
         \A t \in Threads : t \in W /\ k.blockedAtSem[t] # Null => Told(m, t, fr[t], over)
  PROVE  FramesTrue(m, fr, over) /\ Needs(m) /\ OwnSems(m, over) /\ Counted(m, over, left)
<1>0. SameCounts(k, m)
  BY DEF Moves
<1>1. FramesTrue(m, fr, over)
  BY FramesMove
<1>2. Needs(m)
  <2> SUFFICES ASSUME NEW t \in Threads, m.blockedAtSem[t] # Null
               PROVE  m.tokensNeeded[t] = IF m.blockedAtSem[t] = semJoinAll(t)
                                          THEN m.numOfActiveChildren[t] ELSE 1
    BY DEF Needs
  <2>1. /\ m.blockedAtSem[t] = k.blockedAtSem[t]
        /\ m.tokensNeeded[t] = k.tokensNeeded[t]
    BY DEF Moves
  <2>2. k.tokensNeeded[t] = IF k.blockedAtSem[t] = semJoinAll(t)
                            THEN k.numOfActiveChildren[t] ELSE 1
    BY <2>1 DEF Needs
  <2> QED  BY <1>0, <2>1, <2>2 DEF SameCounts
<1>3. OwnSems(m, over)
  BY <1>0 DEF OwnSems, SameCounts
<1>4. Counted(m, over, left)
  <2>1. \A p : Offspring(m, p, left) = Offspring(k, p, left)
    BY <1>0 DEF Offspring, SameCounts
  <2> QED  BY <1>0, <2>1 DEF Counted, SameCounts
<1> QED  BY <1>1, <1>2, <1>3, <1>4

\* and a mailbox, if nobody is let in to it.
LEMMA MailMove ==
  ASSUME NEW k \in Kernels, NEW m, NEW fr, NEW over, NEW W, NEW manner, NEW out,
         FramesTrue(k, fr, over), Moves(k, m, W, manner), NEW t \in Threads,
         m.value[semSend(t)] = k.value[semSend(t)],
         m.value[semReceive(t)] = k.value[semReceive(t)],
         \A u \in Threads : u \in W /\ k.blockedAtSem[u] # Null =>
           manner # "REGULAR" \/ k.blockedAtSem[u] \notin {semSend(t), semReceive(t)},
         Mailbox(k, fr, t, out)
  PROVE  Mailbox(m, fr, t, out)
<1>1. \A u \in Threads : Enters(m, u, fr[u], t) <=> Enters(k, u, fr[u], t)
  BY EntersMove
<1>2. SameMail(k, fr, m, fr, t)
  BY <1>1 DEF SameMail, Moves, SameCounts
<1> QED  BY <1>2, MailboxDepends

\* Together.
LEMMA AnswersMove ==
  ASSUME NEW k \in Kernels, NEW m, NEW fr, NEW over, NEW left, NEW taken,
         NEW W, NEW manner,
         Answers(k, fr, over, left, taken),
         Moves(k, m, W, manner), m.active \subseteq k.active,
         \A t \in k.created \ over : SemsOf(t) \cap k.active \subseteq m.active,
         \A t \in Threads : m.value[semJoin(t)] = 0 /\ m.value[semJoinAll(t)] = 0,
         \A t \in k.created \ over :
           /\ m.value[semSend(t)] = k.value[semSend(t)]
           /\ m.value[semReceive(t)] = k.value[semReceive(t)],
         \A t \in Threads : t \in W /\ k.blockedAtSem[t] # Null => Told(m, t, fr[t], over),
         \A u \in Threads, t \in k.created \ over :
           u \in W /\ k.blockedAtSem[u] # Null =>
             manner # "REGULAR" \/ k.blockedAtSem[u] \notin {semSend(t), semReceive(t)}
  PROVE  Answers(m, fr, over, left, taken)
<1>1. FramesTrue(m, fr, over) /\ Needs(m) /\ OwnSems(m, over) /\ Counted(m, over, left)
  BY StoryMove DEF Answers
<1>2. Mailboxes(m, fr, over, taken)
  <2> SUFFICES ASSUME NEW t \in k.created \ over
               PROVE  Mailbox(m, fr, t, t \in taken)
    BY DEF Mailboxes, Moves, SameCounts
  <2>1. t \in Threads
    BY KernelFields
  <2>2. FramesTrue(k, fr, over) /\ Mailbox(k, fr, t, t \in taken)
    BY DEF Answers, Mailboxes
  <2> QED  BY <2>1, <2>2, MailMove
<1> QED  BY <1>1, <1>2 DEF Answers

\* A semaphore that no thread's life or mailbox depends on.
Loose(k, s, over) == s \in Sems /\ \A t \in k.created \ over : s \notin SemsOf(t)

\* So waking those that wait there touches no mailbox and no join.
LEMMA LooseFacts ==
  ASSUME NEW k \in Kernels, NEW s, NEW over, Loose(k, s, over)
  PROVE  /\ s \in Sems
         /\ \A t \in k.created \ over : /\ semSend(t) \in Sems \ {s}
                                        /\ semReceive(t) \in Sems \ {s}
  BY KernelFields, SemFrames DEF Loose, SemsOf

\* A signal that is not for a join or a live mailbox.
LEMMA SignalAnswers ==
  ASSUME NEW k \in Kernels, Good(k), NEW fr, NEW over, NEW left, NEW taken,
         Answers(k, fr, over, left, taken), NEW s, Loose(k, s, over),
         \A t \in Threads : s \notin {semJoin(t), semJoinAll(t)}
  PROVE  Answers(Signal(k, s), fr, over, left, taken)
<1> DEFINE m == Signal(k, s)
<1>0. /\ s \in Sems
      /\ \A t \in k.created \ over : /\ semSend(t) \in Sems \ {s}
                                     /\ semReceive(t) \in Sems \ {s}
  BY LooseFacts
<1>1. \A t \in Threads : k.blockedAtSem[t] = s => k.tokensNeeded[t] = 1
  <2> SUFFICES ASSUME NEW t \in Threads, k.blockedAtSem[t] = s
               PROVE  k.tokensNeeded[t] = 1
    OBVIOUS
  <2>1. s # Null /\ s # semJoinAll(t)
    BY <1>0, ThreadsAssumption
  <2> QED  BY <2>1 DEF Answers, Needs
<1>2. /\ m.active = k.active
      /\ \/ s \notin k.active /\ m = k
         \/ /\ s \in k.active /\ Moves(k, m, {}, "REGULAR")
            /\ m.value = [k.value EXCEPT ![s] = @ + 1]
         \/ \E u \in Threads :
              /\ s \in k.active /\ k.blockedAtSem[u] = s
              /\ k.value[s] = 0 /\ m.value = k.value
              /\ Moves(k, m, {u}, "REGULAR")
  BY <1>0, <1>1, SignalMoves
<1> HIDE DEF m
<1>3. k.value \in [Sems -> Nat]
  BY KernelFields
<1>4. \A t \in Threads : semJoin(t) \in Sems \ {s} /\ semJoinAll(t) \in Sems \ {s}
  BY SemFrames
<1>5. \A t \in Threads : k.value[semJoin(t)] = 0 /\ k.value[semJoinAll(t)] = 0
  BY DEF Answers, OwnSems
<1>6. CASE m = k
  BY <1>6 DEF m
<1>7. CASE Moves(k, m, {}, "REGULAR") /\ m.value = [k.value EXCEPT ![s] = @ + 1]
  <2>1. \A x \in Sems \ {s} : m.value[x] = k.value[x]
    BY <1>3, <1>7
  <2>2. \A t \in Threads : m.value[semJoin(t)] = 0 /\ m.value[semJoinAll(t)] = 0
    BY <1>4, <1>5, <2>1
  <2>3. \A t \in k.created \ over : /\ m.value[semSend(t)] = k.value[semSend(t)]
                                    /\ m.value[semReceive(t)] = k.value[semReceive(t)]
    BY <1>0, <2>1
  <2>4. Moves(k, m, {}, "REGULAR") /\ m.active = k.active
    BY <1>2, <1>7
  <2>5. Answers(m, fr, over, left, taken)
    BY <2>2, <2>3, <2>4, AnswersMove
  <2> QED  BY <2>5 DEF m
<1>8. ASSUME NEW u \in Threads, s \in k.active, k.blockedAtSem[u] = s,
             m.value = k.value, Moves(k, m, {u}, "REGULAR")
      PROVE  Answers(m, fr, over, left, taken)
  <2>1. s # Null
    BY <1>0, ThreadsAssumption
  <2>2. FrameFits(k, u, fr[u], over) /\ WaitPoint(u, fr[u]) = s
    BY <1>8, <2>1 DEF Answers, FramesTrue, FrameTrue, WaitFits
  <2>3. fr[u].call \in WaitCalls
    BY <2>1, <2>2, PointKinds
  <2>4. fr[u].call \in {"join", "timedJoin"} => s = semJoin(fr[u].on) /\ fr[u].on \in Threads
    BY <2>2, KernelFields DEF WaitPoint, FrameFits
  <2>5. fr[u].call \in {"joinAll", "timedJoinAll"} => s = semJoinAll(u)
    BY <2>2 DEF WaitPoint
  <2>6. fr[u].call \in {"send", "receive", "semWait", "semTimedWait"}
    BY <2>3, <2>4, <2>5 DEF WaitCalls, TimedCalls
  <2>7. m.unblockManner[u] = "REGULAR"
    BY <1>8, <2>1 DEF Moves
  <2>8. Told(m, u, fr[u], over)
    BY <2>6, <2>7 DEF Told
  <2>9. \A t \in k.created \ over : s \notin {semSend(t), semReceive(t)}
    BY <1>0
  <2> QED  BY <1>2, <1>5, <1>8, <2>8, <2>9, AnswersMove
<1> QED  BY <1>2, <1>6, <1>7, <1>8 DEF m

\* A close of a semaphore nobody joins at.
LEMMA CloseAnswers ==
  ASSUME NEW k \in Kernels, Good(k), NEW fr, NEW over, NEW left, NEW taken,
         Answers(k, fr, over, left, taken), NEW s, Loose(k, s, over),
         \A t, u \in Threads : k.blockedAtSem[t] = s => s # semJoin(u)
  PROVE  Answers(Close(k, s), fr, over, left, taken)
<1> DEFINE a == SignalAll(k, s, "ON_CLOSE")
           m == [a EXCEPT !.active = @ \ {s}]
<1>0. /\ s \in Sems
      /\ \A t \in k.created \ over : /\ semSend(t) \in Sems \ {s}
                                     /\ semReceive(t) \in Sems \ {s}
  BY LooseFacts
<1>1. PICK W : /\ Moves(k, a, W, "ON_CLOSE") /\ a.active = k.active
               /\ \A t \in W : t \in Threads /\ k.blockedAtSem[t] = s /\ s \in k.active
               /\ \A x \in Sems : a.value[x] \in {k.value[x], 0}
               /\ \A x \in Sems \ {s} : a.value[x] = k.value[x]
  BY <1>0, SignalAllMoves DEF UnblockManners
<1>2. a \in Kernels
  BY SignalAllType DEF UnblockManners
<1> HIDE DEF a
<1>3. /\ SameCounts(a, m) /\ m.active = a.active \ {s} /\ m.value = a.value
      /\ m.blockedAtSem = a.blockedAtSem /\ m.remaining = a.remaining
      /\ m.tokensNeeded = a.tokensNeeded /\ m.unblockManner = a.unblockManner
  BY <1>2 DEF Kernels, SameCounts
<1> HIDE DEF m
<1>4. Moves(k, m, W, "ON_CLOSE")
  BY <1>1, <1>3 DEF Moves, SameCounts, sleeps
<1>5. ASSUME NEW t \in Threads, t \in W /\ k.blockedAtSem[t] # Null
      PROVE  Told(m, t, fr[t], over)
  <2>1. s # Null /\ k.blockedAtSem[t] = s /\ s \in k.active
    BY <1>1, <1>5
  <2>2. FrameFits(k, t, fr[t], over) /\ WaitPoint(t, fr[t]) = s
    BY <2>1 DEF Answers, FramesTrue, FrameTrue, WaitFits
  <2>3. fr[t].call \in WaitCalls
    BY <2>1, <2>2, PointKinds
  <2>4. fr[t].call \notin {"join", "timedJoin"}
    BY <2>1, <2>2, KernelFields DEF WaitPoint, FrameFits
  <2>5. t \in k.created \ over
    BY <2>2, <2>3 DEF FrameFits
  <2>6. fr[t].call \notin {"joinAll", "timedJoinAll", "receive"}
    BY <2>2, <2>5 DEF WaitPoint, Loose, SemsOf
  <2>7. fr[t].call \in {"send", "semWait", "semTimedWait"}
    BY <2>3, <2>4, <2>6 DEF WaitCalls, TimedCalls
  <2>8. s \in m.opened \ m.active
    BY <1>1, <1>3, <1>4, <2>1 DEF Moves, SameCounts, Good, Consistent, Registered
  <2>9. m.unblockManner[t] = "ON_CLOSE"
    BY <1>4, <1>5 DEF Moves
  <2> QED  BY <2>2, <2>7, <2>8, <2>9 DEF Told
<1>6. \A t \in Threads : m.value[semJoin(t)] = 0 /\ m.value[semJoinAll(t)] = 0
  BY <1>1, <1>3, SemFrames DEF Answers, OwnSems
<1>7. \A t \in k.created \ over : /\ m.value[semSend(t)] = k.value[semSend(t)]
                                  /\ m.value[semReceive(t)] = k.value[semReceive(t)]
  BY <1>0, <1>1, <1>3
<1>8. /\ m.active \subseteq k.active
      /\ \A t \in k.created \ over : SemsOf(t) \cap k.active \subseteq m.active
  BY <1>1, <1>3 DEF Loose
<1>9. Answers(m, fr, over, left, taken)
  BY <1>4, <1>5, <1>6, <1>7, <1>8, AnswersMove
<1> QED  BY <1>9 DEF Close, a, m

\* Those who joined a thread that ends are told so.
LEMMA JoinedAnswers ==
  ASSUME NEW k \in Kernels, Good(k), NEW fr, NEW over, NEW left, NEW taken,
         Answers(k, fr, over, left, taken), NEW r \in Threads, r \in over
  PROVE  LET m == SignalAll(k, semJoin(r), "REGULAR")
         IN  /\ Answers(m, fr, over, left, taken)
             /\ \A t \in Threads : m.blockedAtSem[t] = semJoin(r) => semJoin(r) \notin k.active
<1> DEFINE s == semJoin(r)
           m == SignalAll(k, s, "REGULAR")
<1>0. s \in Sems /\ s # Null
  BY SemFrames, ThreadsAssumption
<1>1. PICK W : /\ Moves(k, m, W, "REGULAR") /\ m.active = k.active
               /\ \A t \in W : t \in Threads /\ k.blockedAtSem[t] = s /\ s \in k.active
               /\ \A x \in Sems : m.value[x] \in {k.value[x], 0}
               /\ \A x \in Sems \ {s} : m.value[x] = k.value[x]
               /\ \A t \in Threads : m.blockedAtSem[t] = s => s \notin k.active
  BY <1>0, SignalAllMoves DEF UnblockManners
<1> HIDE DEF m
<1>2. ASSUME NEW t \in Threads, t \in W /\ k.blockedAtSem[t] # Null
      PROVE  Told(m, t, fr[t], over)
  <2>1. FrameFits(k, t, fr[t], over) /\ WaitPoint(t, fr[t]) = s
    BY <1>0, <1>1, <1>2 DEF Answers, FramesTrue, FrameTrue, WaitFits
  <2>2. fr[t].call \in {"join", "timedJoin"} /\ fr[t].on = r
    BY <1>0, <2>1, PointKinds
  <2>3. m.unblockManner[t] = "REGULAR"
    BY <1>1, <1>2 DEF Moves
  <2> QED  BY <2>2, <2>3 DEF Told
<1>3. \A t \in Threads : s \notin {semSend(t), semReceive(t)}
  BY SemsApart
<1>4. k.created \subseteq Threads
  BY KernelFields
<1>5. \A t \in Threads : m.value[semJoin(t)] = 0 /\ m.value[semJoinAll(t)] = 0
  BY <1>1, SemFrames DEF Answers, OwnSems
<1>6. \A t \in k.created \ over : /\ m.value[semSend(t)] = k.value[semSend(t)]
                                  /\ m.value[semReceive(t)] = k.value[semReceive(t)]
  BY <1>1, <1>3, <1>4, SemFrames
<1>7. \A u \in Threads, t \in k.created \ over :
        u \in W => k.blockedAtSem[u] \notin {semSend(t), semReceive(t)}
  BY <1>1, <1>3, <1>4
<1>8. Answers(m, fr, over, left, taken)
  BY <1>1, <1>2, <1>5, <1>6, <1>7, AnswersMove
<1> QED  BY <1>1, <1>8 DEF m

\* The tick tells only calls with a timeout that their time is out.
LEMMA OnTickAnswers ==
  ASSUME NEW k \in Kernels, Good(k), NEW fr, NEW over, NEW left, NEW taken,
         Answers(k, fr, over, left, taken)
  PROVE  Answers(OnTick(k), fr, over, left, taken)
<1> DEFINE m == OnTick(k)
           W == {t \in Threads : k.remaining[t] = 1}
<1>1. Moves(k, m, W, "WAIT_TIMEOUT") /\ m.active = k.active /\ m.value = k.value
  BY OnTickMoves
<1> HIDE DEF m
<1>2. ASSUME NEW t \in Threads, t \in W /\ k.blockedAtSem[t] # Null
      PROVE  Told(m, t, fr[t], over)
  <2>1. sleeps(k, t)
    BY <1>2 DEF sleeps
  <2>2. fr[t].call \in TimedCalls
    BY <1>2, <2>1 DEF Answers, FramesTrue, FrameTrue, WaitFits
  <2>3. m.unblockManner[t] = "WAIT_TIMEOUT"
    BY <1>1, <1>2 DEF Moves
  <2> QED  BY <2>2, <2>3 DEF Told, TimedCalls
<1> HIDE DEF W
<1>3. \A t \in Threads : m.value[semJoin(t)] = 0 /\ m.value[semJoinAll(t)] = 0
  BY <1>1 DEF Answers, OwnSems
<1>4. Answers(m, fr, over, left, taken)
  BY <1>1, <1>2, <1>3, AnswersMove
<1> QED  BY <1>4 DEF m

\* A step that changes only who runs leaves the answers true.
LEMMA StoryAnswers ==
  ASSUME NEW k \in Kernels, NEW m, SameStory(k, m),
         NEW fr, NEW over, NEW left, NEW taken, Answers(k, fr, over, left, taken)
  PROVE  Answers(m, fr, over, left, taken)
<1>1. Moves(k, m, {}, "REGULAR")
  BY DEF SameStory, Moves, sleeps
<1>2. \A t \in Threads : m.value[semJoin(t)] = 0 /\ m.value[semJoinAll(t)] = 0
  BY DEF Answers, OwnSems, SameStory
<1>3. m.active = k.active /\ m.value = k.value
  BY DEF SameStory
<1> QED  BY <1>1, <1>2, <1>3, AnswersMove

-----------------------------------------------------------------------------
\* Whoever has a mailbox in his hands gives it on: to the next that waits for
\* it, or as a token.
LEMMA MailAnswers ==
  ASSUME NEW k \in Kernels, Good(k), NEW fr, NEW over, NEW left,
         NEW x \in k.created \ over, Answers(k, fr, over, left, {x}),
         NEW s, s \in {semSend(x), semReceive(x)},
         s = semReceive(x) => k.message[x] \in Messages
  PROVE  Answers(Signal(k, s), fr, over, left, {})
<1> DEFINE m == Signal(k, s)
<1>0. /\ x \in Threads /\ s \in Sems /\ s # Null /\ semSend(x) # semReceive(x)
      /\ semSend(x) \in Sems /\ semReceive(x) \in Sems
  BY KernelFields, SemFrames, SemsApart, ThreadsAssumption
<1>1. \A t \in Threads : k.blockedAtSem[t] = s => k.tokensNeeded[t] = 1
  <2> SUFFICES ASSUME NEW t \in Threads, k.blockedAtSem[t] = s
               PROVE  k.tokensNeeded[t] = 1
    OBVIOUS
  <2>1. s # semJoinAll(t)
    BY <1>0, SemsApart
  <2> QED  BY <1>0, <2>1 DEF Answers, Needs
<1>2. /\ m.active = k.active
      /\ \/ s \notin k.active /\ m = k
         \/ /\ s \in k.active /\ Moves(k, m, {}, "REGULAR")
            /\ m.value = [k.value EXCEPT ![s] = @ + 1]
         \/ \E u \in Threads :
              /\ s \in k.active /\ k.blockedAtSem[u] = s
              /\ k.value[s] = 0 /\ m.value = k.value
              /\ Moves(k, m, {u}, "REGULAR")
  BY <1>0, <1>1, SignalMoves
<1> HIDE DEF m
<1>3. s \in k.active
  BY DEF Answers, OwnSems, SemsOf
<1>4. /\ k.value \in [Sems -> Nat] /\ k.created \subseteq Threads
      /\ FramesTrue(k, fr, over) /\ Mailboxes(k, fr, over, {x})
      /\ Needs(k) /\ OwnSems(k, over) /\ Counted(k, over, left)
      /\ k.value[semSend(x)] = 0 /\ k.value[semReceive(x)] = 0 /\ Inside(k, fr, x) = {}
  BY KernelFields DEF Answers, Mailboxes, Mailbox, NoSlot
<1>5. \A t \in Threads : k.value[semJoin(t)] = 0 /\ k.value[semJoinAll(t)] = 0
  BY DEF Answers, OwnSems
<1>6. \A t \in Threads : semJoin(t) \in Sems \ {s} /\ semJoinAll(t) \in Sems \ {s}
  BY <1>0, SemFrames, SemsApart
<1>7. \A t \in Threads \ {x} : /\ semSend(t) \in Sems \ {s}
                               /\ semReceive(t) \in Sems \ {s}
  BY <1>0, SemFrames, SemsApart
<1>8. CASE Moves(k, m, {}, "REGULAR") /\ m.value = [k.value EXCEPT ![s] = @ + 1]
  <2>1. \A y \in Sems : m.value[y] = IF y = s THEN k.value[y] + 1 ELSE k.value[y]
    BY <1>4, <1>8
  <2>2. \A t \in Threads : m.value[semJoin(t)] = 0 /\ m.value[semJoinAll(t)] = 0
    BY <1>5, <1>6, <2>1
  <2>3. /\ Moves(k, m, {}, "REGULAR") /\ m.active \subseteq k.active
        /\ \A t \in k.created \ over : SemsOf(t) \cap k.active \subseteq m.active
    BY <1>2, <1>8
  <2>4. FramesTrue(m, fr, over) /\ Needs(m) /\ OwnSems(m, over) /\ Counted(m, over, left)
    BY <1>4, <2>2, <2>3, StoryMove
  <2>5. ASSUME NEW t \in k.created \ over, t # x
        PROVE  Mailbox(m, fr, t, FALSE)
    <3>1. /\ m.value[semSend(t)] = k.value[semSend(t)]
          /\ m.value[semReceive(t)] = k.value[semReceive(t)] /\ t \in Threads
      BY <1>4, <1>7, <2>1, <2>5
    <3>2. Mailbox(k, fr, t, FALSE)
      BY <1>4, <2>5 DEF Mailboxes, Mailbox
    <3> QED  BY <1>4, <2>3, <3>1, <3>2, MailMove
  <2>6. \A u \in Threads : Enters(m, u, fr[u], x) <=> Enters(k, u, fr[u], x)
    BY <1>4, <2>3, EntersMove
  <2>7. Inside(m, fr, x) = {}
    BY <1>4, <2>6 DEF Inside
  <2>8. \/ m.value[semSend(x)] = 1 /\ m.value[semReceive(x)] = 0 /\ s = semSend(x)
        \/ m.value[semSend(x)] = 0 /\ m.value[semReceive(x)] = 1 /\ s = semReceive(x)
    BY <1>0, <1>4, <2>1
  <2>9. m.message = k.message /\ ~Enters(m, x, fr[x], x)
    BY <1>0, <2>3, <2>7 DEF Moves, SameCounts, Inside
  <2>10. Mailbox(m, fr, x, FALSE)
    BY <2>7, <2>8, <2>9 DEF Mailbox, Slot
  <2>11. Mailboxes(m, fr, over, {})
    BY <2>3, <2>5, <2>10 DEF Mailboxes, Mailbox, Moves, SameCounts
  <2> QED  BY <2>4, <2>11 DEF Answers, m
<1>9. ASSUME NEW u \in Threads, k.blockedAtSem[u] = s,
             m.value = k.value, Moves(k, m, {u}, "REGULAR")
      PROVE  Answers(m, fr, over, left, {})
  <2>1. FrameFits(k, u, fr[u], over) /\ WaitPoint(u, fr[u]) = s
    BY <1>0, <1>4, <1>9 DEF FramesTrue, FrameTrue, WaitFits
  <2>2. /\ s = semSend(x) => fr[u].call = "send" /\ fr[u].on = x
        /\ s = semReceive(x) => fr[u].call = "receive" /\ u = x
    BY <1>0, <2>1, PointKinds
  <2>3. m.unblockManner[u] = "REGULAR" /\ ~WaitsIn(m, u)
    BY <1>0, <1>9 DEF Moves, WaitsIn
  <2>4. Told(m, u, fr[u], over)
    BY <2>2, <2>3 DEF Told
  <2>5. /\ \A t \in Threads : m.value[semJoin(t)] = 0 /\ m.value[semJoinAll(t)] = 0
        /\ m.active \subseteq k.active
        /\ \A t \in k.created \ over : SemsOf(t) \cap k.active \subseteq m.active
    BY <1>2, <1>5, <1>9
  <2>6. FramesTrue(m, fr, over) /\ Needs(m) /\ OwnSems(m, over) /\ Counted(m, over, left)
    <3>1. \A t \in Threads : t \in {u} /\ k.blockedAtSem[t] # Null => Told(m, t, fr[t], over)
      BY <2>4
    <3> HIDE DEF m
    <3> QED  BY <1>4, <1>9, <2>5, <3>1, StoryMove
  <2>7. ASSUME NEW t \in k.created \ over, t # x
        PROVE  Mailbox(m, fr, t, FALSE)
    <3>1. k.blockedAtSem[u] \notin {semSend(t), semReceive(t)} /\ t \in Threads
      BY <1>4, <1>7, <1>9, <2>7
    <3>2. Mailbox(k, fr, t, FALSE)
      BY <1>4, <2>7 DEF Mailboxes, Mailbox
    <3>3. \A w \in Threads : w \in {u} =>
            k.blockedAtSem[w] \notin {semSend(t), semReceive(t)}
      BY <3>1
    <3>4. m.value[semSend(t)] = k.value[semSend(t)] /\ m.value[semReceive(t)] = k.value[semReceive(t)]
      BY <1>9
    <3> HIDE DEF m
    <3> QED  BY <1>4, <1>9, <3>1, <3>2, <3>3, <3>4, MailMove
  <2>8. \A w \in Threads \ {u} : Enters(m, w, fr[w], x) <=> Enters(k, w, fr[w], x)
    BY <1>4, <1>9, EntersMove
  <2>9. Enters(m, u, fr[u], x)
    BY <2>2, <2>3 DEF Enters
  <2>10. Inside(m, fr, x) = {u}
    BY <1>4, <2>8, <2>9 DEF Inside
  <2>11. ASSUME fr[x].call = "receive", Enters(m, x, fr[x], x)
         PROVE  s = semReceive(x)
    <3>1. x = u
      BY <1>0, <2>10, <2>11 DEF Inside
    <3> QED  BY <2>2, <2>11, <3>1
  <2>12. m.message = k.message
    BY <1>9 DEF Moves, SameCounts
  <2>13. Slot(m, fr, x)
    BY <1>4, <1>9, <2>10 DEF Slot
  <2>14. Mailbox(m, fr, x, FALSE)
    BY <1>4, <1>9, <2>11, <2>12, <2>13 DEF Mailbox
  <2>15. Mailboxes(m, fr, over, {})
    BY <1>9, <2>7, <2>14 DEF Mailboxes, Mailbox, Moves, SameCounts
  <2> QED  BY <2>6, <2>15 DEF Answers, m
<1> QED  BY <1>2, <1>3, <1>8, <1>9 DEF m

-----------------------------------------------------------------------------
\* The count of children goes up and down by one and does not wrap.
LEMMA CountSteps ==
  ASSUME NEW n \in Nat
  PROVE  /\ n + 1 < CountMod => CountUp(n) = n + 1
         /\ n > 0 /\ n < CountMod => CountDown(n) = n - 1
<1>1. CountMod \in Nat /\ \A a, b \in Nat : b > 0 /\ a < b => a % b = a
  BY NumbersAssumption
<1>2. n + 1 < CountMod => CountUp(n) = n + 1
  BY <1>1 DEF CountUp
<1>3. ASSUME n > 0, n < CountMod
      PROVE  (n - 1 + CountMod) % CountMod = (n - 1) % CountMod
  BY <1>1, <1>3
<1>4. ASSUME n > 0, n < CountMod
      PROVE  CountDown(n) = n - 1
  <2>1. n + CountMod - 1 = n - 1 + CountMod
    BY <1>1
  <2>2. n - 1 \in Nat /\ n - 1 < CountMod /\ CountMod > 0
    BY <1>1, <1>4
  <2> QED  BY <1>1, <1>3, <1>4, <2>1, <2>2 DEF CountDown
<1> QED  BY <1>2, <1>4

\* The children of a thread that have not left are finitely many.
LEMMA OffspringCount ==
  ASSUME NEW k \in Kernels, NEW p, NEW left
  PROVE  /\ IsFiniteSet(Offspring(k, p, left))
         /\ Cardinality(Offspring(k, p, left)) \in Nat
<1>1. Offspring(k, p, left) \in SUBSET Threads
  BY KernelFields DEF Offspring
<1> QED  BY <1>1, ThreadsAssumption, FS_Subset, FS_CardinalityType

\* A thread whose end begins is in no call, and nobody counts on it.
LEMMA OverGrows ==
  ASSUME NEW k, NEW fr, NEW over, NEW left, NEW taken, NEW r,
         Answers(k, fr, over, left, taken), fr[r] = UserMode
  PROVE  Answers(k, fr, over \cup {r}, left, taken)
<1> DEFINE more == over \cup {r}
<1>1. ASSUME NEW t \in Threads
      PROVE  FrameTrue(k, t, fr[t], more)
  <2>1. FrameTrue(k, t, fr[t], over)
    BY DEF Answers, FramesTrue
  <2>2. fr[t].call \in WaitCalls => t # r
    BY DEF UserMode, Frame, WaitCalls, TimedCalls
  <2>3. FrameFits(k, t, fr[t], more)
    BY <2>1, <2>2 DEF FrameTrue, FrameFits
  <2>4. Told(k, t, fr[t], over) => Told(k, t, fr[t], more)
    BY DEF Told
  <2> QED  BY <2>1, <2>3, <2>4 DEF FrameTrue
<1>2. FramesTrue(k, fr, more)
  BY <1>1 DEF FramesTrue
<1>3. k.created \ more \subseteq k.created \ over
  OBVIOUS
<1>4. OwnSems(k, more)
  BY <1>3 DEF Answers, OwnSems
<1>5. Counted(k, more, left)
  BY DEF Answers, Counted
<1>6. Mailboxes(k, fr, more, taken)
  BY <1>3 DEF Answers, Mailboxes
<1> QED  BY <1>2, <1>4, <1>5, <1>6 DEF Answers

\* The end of a thread takes it off the children of its parent,
LEMMA FewerOffspring ==
  ASSUME NEW k \in Kernels, NEW over, NEW left, Counted(k, over, left),
         NEW r \in k.created, r \notin left \/ r = Idle,
         NEW q \in k.created \ (over \cup {Master, Idle})
  PROVE  /\ q # k.parent[r] => Offspring(k, q, left \cup {r}) = Offspring(k, q, left)
         /\ q = k.parent[r] =>
              /\ k.numOfActiveChildren[q] > 0
              /\ Cardinality(Offspring(k, q, left \cup {r}))
                   = k.numOfActiveChildren[q] - 1
<1>1. q # k.parent[r] => Offspring(k, q, left \cup {r}) = Offspring(k, q, left)
  BY DEF Offspring
<1>2. ASSUME q = k.parent[r]
      PROVE  /\ k.numOfActiveChildren[q] > 0
             /\ Cardinality(Offspring(k, q, left \cup {r}))
                  = k.numOfActiveChildren[q] - 1
  <2> DEFINE O == Offspring(k, q, left)
  <2>1. r \notin left
    BY <1>2 DEF Counted
  <2>2. r \in O /\ Offspring(k, q, left \cup {r}) = O \ {r}
    BY <1>2, <2>1 DEF Offspring
  <2>3. IsFiniteSet(O) /\ Cardinality(O) \in Nat
    BY OffspringCount
  <2>4. k.numOfActiveChildren[q] = Cardinality(O)
    BY DEF Counted
  <2> HIDE DEF O
  <2>5. Cardinality(O) # 0
    BY <2>2, <2>3, FS_EmptySet
  <2>6. Cardinality(O \ {r}) = Cardinality(O) - 1
    BY <2>2, <2>3, FS_RemoveElement
  <2>7. k.numOfActiveChildren[q] > 0
    BY <2>3, <2>4, <2>5
  <2>8. Cardinality(O \ {r}) = k.numOfActiveChildren[q] - 1
    BY <2>4, <2>6
  <2> QED  BY <2>2, <2>7, <2>8
<1> QED  BY <1>1, <1>2

\* which, when it waits for all of them, then waits for one less.
LEMMA LeaveParentAnswers ==
  ASSUME NEW k \in Kernels, Good(k), NEW fr, NEW over, NEW left,
         Answers(k, fr, over, left, {}), k.finished \subseteq over,
         k.running \in over, k.running \notin left \/ k.running = Idle
  PROVE  Answers(LeaveParent(k), fr, over, left \cup {k.running}, {})
<1> DEFINE r == k.running
           p == k.parent[r]
           gone == left \cup {r}
<1>0. /\ FramesTrue(k, fr, over) /\ Needs(k) /\ OwnSems(k, over)
      /\ Counted(k, over, left) /\ Mailboxes(k, fr, over, {})
  BY DEF Answers
<1>1. /\ r \in k.created /\ k.created \subseteq Threads /\ Null \notin Threads
      /\ ListsAgree(k) /\ Short(k)
  BY KernelFields, ThreadsAssumption DEF Good, Consistent, Registered
<1>2. p \in k.created \cup {Null}
  BY <1>0, <1>1 DEF Counted
<1>3. ASSUME NEW q \in k.created \ (over \cup {Master, Idle})
      PROVE  /\ q # p => Offspring(k, q, gone) = Offspring(k, q, left)
             /\ q = p => /\ k.numOfActiveChildren[q] > 0
                         /\ Cardinality(Offspring(k, q, gone))
                              = k.numOfActiveChildren[q] - 1
  BY <1>0, <1>1, FewerOffspring
<1>4. CASE p = Null \/ p \in k.finished
  <2>1. LeaveParent(k) = k
    BY <1>4 DEF LeaveParent
  <2>2. \A q \in k.created \ (over \cup {Master, Idle}) : q # p
    BY <1>1, <1>4
  <2> HIDE DEF p, gone
  <2>3. Counted(k, over, gone)
    BY <1>0, <1>3, <2>2 DEF Counted
  <2> QED  BY <1>0, <2>1, <2>3 DEF Answers, gone
<1>5. CASE p # Null /\ p \notin k.finished
  <2> DEFINE n == k.numOfActiveChildren[p]
             c == [k EXCEPT !.numOfActiveChildren[p] = CountDown(@)]
             s == semJoinAll(p)
  <2>1. p \in k.created /\ p \in Threads /\ p # Null
    BY <1>1, <1>2, <1>5
  <2>2. n \in 0 .. CountMod - 1 /\ CountDown(n) \in 0 .. CountMod - 1
    BY <2>1, CountType DEF Kernels
  <2>3. c \in Kernels
    BY <2>1, <2>2 DEF Kernels
  <2>4. /\ c.created = k.created /\ c.opened = k.opened /\ c.parent = k.parent
        /\ c.message = k.message /\ c.active = k.active /\ c.value = k.value
        /\ c.blockedAtSem = k.blockedAtSem /\ c.remaining = k.remaining
        /\ c.tokensNeeded = k.tokensNeeded /\ c.unblockManner = k.unblockManner
        /\ c.blocked = k.blocked
        /\ \A t \in Threads : c.numOfActiveChildren[t] =
             IF t = p THEN CountDown(n) ELSE k.numOfActiveChildren[t]
    BY <2>1 DEF Kernels
  <2>5. LeaveParent(k) = IF k.blockedAtSem[p] = s THEN Signal(c, s) ELSE c
    BY <1>5 DEF LeaveParent
  <2> HIDE DEF c
  <2>6. \A t : (sleeps(c, t) <=> sleeps(k, t)) /\ (WaitsIn(c, t) <=> WaitsIn(k, t))
    BY <2>4 DEF sleeps, WaitsIn
  <2>7. ASSUME p \in k.created \ (over \cup {Master, Idle})
        PROVE  n > 0 /\ CountDown(n) = n - 1 /\ Cardinality(Offspring(k, p, gone)) = n - 1
    <3>1. n > 0 /\ Cardinality(Offspring(k, p, gone)) = n - 1
      BY <1>3, <2>7
    <3> HIDE DEF n, gone
    <3>2. n \in Nat /\ n < CountMod
      BY <2>2, NumbersAssumption
    <3> QED  BY <3>1, <3>2, CountSteps
  <2>8. Counted(c, over, gone)
    <3>1. \A q : Offspring(c, q, gone) = Offspring(k, q, gone)
      BY <2>4 DEF Offspring
    <3>2. ASSUME NEW q \in k.created \ (over \cup {Master, Idle})
          PROVE  c.numOfActiveChildren[q] = Cardinality(Offspring(k, q, gone))
      <4>1. CASE q = p
        BY <2>1, <2>4, <2>7, <3>2, <4>1
      <4>2. CASE q # p
        BY <1>0, <1>1, <1>3, <2>4, <3>2, <4>2 DEF Counted
      <4> QED  BY <4>1, <4>2
    <3> HIDE DEF gone, n, p
    <3> QED  BY <1>0, <2>1, <2>4, <3>1, <3>2 DEF Counted
  <2>9. OwnSems(c, over)
    BY <1>0, <2>4 DEF OwnSems
  <2>10. FramesTrue(c, fr, over)
    <3> SUFFICES ASSUME NEW t \in Threads
                 PROVE  FrameTrue(c, t, fr[t], over)
      BY DEF FramesTrue
    <3>1. FrameTrue(k, t, fr[t], over)
      BY <1>0 DEF FramesTrue
    <3>2. FrameFits(c, t, fr[t], over)
      BY <2>4, <3>1 DEF FrameTrue, FrameFits
    <3>3. WaitFits(c, t, fr[t])
      BY <2>4, <2>6, <3>1 DEF FrameTrue, WaitFits
    <3>4. ASSUME fr[t].call \in WaitCalls, ~WaitsIn(c, t)
          PROVE  Told(c, t, fr[t], over)
      <4>1. Told(k, t, fr[t], over)
        BY <2>6, <3>1, <3>4 DEF FrameTrue
      <4>2. ASSUME fr[t].call = "joinAll"
            PROVE  t # p
        <5>1. k.numOfActiveChildren[t] = 0
          BY <4>1, <4>2 DEF Told
        <5>2. t \in k.created \ (over \cup {Master, Idle})
          BY <3>1, <4>2 DEF FrameTrue, FrameFits, WaitCalls, UserThreads
        <5> QED  BY <2>7, <5>1, <5>2
      <4> HIDE DEF p, n
      <4> QED  BY <2>4, <4>1, <4>2 DEF Told
    <3> QED  BY <3>2, <3>3, <3>4 DEF FrameTrue
  <2>11. ASSUME NEW t \in Threads, t # p, k.blockedAtSem[t] # Null
         PROVE  c.tokensNeeded[t] = IF c.blockedAtSem[t] = semJoinAll(t)
                                    THEN c.numOfActiveChildren[t] ELSE 1
    BY <1>0, <2>4, <2>11 DEF Needs
  <2>12. \A t \in k.created \ over : Mailbox(c, fr, t, FALSE)
    <3> SUFFICES ASSUME NEW t \in k.created \ over
                 PROVE  Mailbox(c, fr, t, FALSE)
      OBVIOUS
    <3>1. SameMail(k, fr, c, fr, t)
      BY <2>4, <2>6 DEF SameMail, Enters
    <3>2. Mailbox(k, fr, t, FALSE)
      BY <1>0 DEF Mailboxes, Mailbox
    <3> QED  BY <3>1, <3>2, MailboxDepends
  <2>13. CASE k.blockedAtSem[p] # s
    <3>1. Needs(c)
      BY <1>0, <2>1, <2>4, <2>11, <2>13 DEF Needs
    <3>2. Mailboxes(c, fr, over, {})
      BY <2>4, <2>12 DEF Mailboxes, Mailbox
    <3>3. LeaveParent(k) = c
      BY <2>5, <2>13
    <3> QED  BY <2>8, <2>9, <2>10, <3>1, <3>2, <3>3 DEF Answers
  <2>14. CASE k.blockedAtSem[p] = s
    <3>1. s \in Sems /\ s # Null
      BY <2>1, SemFrames, ThreadsAssumption
    <3>2. FrameFits(k, p, fr[p], over) /\ WaitPoint(p, fr[p]) = s
      BY <1>0, <2>1, <2>14, <3>1 DEF FramesTrue, FrameTrue, WaitFits
    <3>3. fr[p].call \in {"joinAll", "timedJoinAll"} /\ fr[p].call \in WaitCalls
      BY <2>1, <3>1, <3>2, PointKinds
    <3>4. p \in k.created \ (over \cup {Master, Idle})
      BY <3>2, <3>3 DEF FrameFits, UserThreads
    <3>5. n > 0 /\ CountDown(n) = n - 1 /\ k.tokensNeeded[p] = n
      BY <1>0, <2>1, <2>7, <2>14, <3>1, <3>4 DEF Needs
    <3>6. \A t \in Threads : k.blockedAtSem[t] = s => t = p
      <4> SUFFICES ASSUME NEW t \in Threads, k.blockedAtSem[t] = s
                   PROVE  t = p
        OBVIOUS
      <4>1. FrameFits(k, t, fr[t], over) /\ WaitPoint(t, fr[t]) = s
        BY <1>0, <3>1 DEF FramesTrue, FrameTrue, WaitFits
      <4> QED  BY <2>1, <3>1, <4>1, PointKinds
    <3>7. /\ k.blocked[s] \in Seq(Threads) /\ p \in Range(k.blocked[s])
      BY <1>1, <2>1, <2>14, <3>1, KernelFields DEF ListsAgree
    <3>8. k.blocked[s] # <<>>
      BY <3>7, RangeByIndex
    <3>9. Head(k.blocked[s]) = p /\ s \in k.active
      <4>1. Head(k.blocked[s]) \in Range(k.blocked[s]) /\ Head(k.blocked[s]) \in Threads
        BY <3>7, <3>8, HeadTailList
      <4> QED  BY <1>1, <3>1, <3>6, <3>8, <4>1 DEF ListsAgree, Short
    <3> DEFINE m == Signal(c, s)
    <3>10. LeaveParent(k) = m
      BY <2>5, <2>14
    <3> HIDE DEF p, s, n
    <3>11. CASE n <= 1
      <4>1. m = Wake(c, <<p>>, "REGULAR")
        BY <2>4, <3>5, <3>8, <3>9, <3>11 DEF Signal
      <4>2. Range(<<p>>) = {p}
        BY <2>1, SingleList
      <4>3. Moves(c, m, {p}, "REGULAR") /\ m.active = c.active /\ m.value = c.value
        BY <2>3, <4>1, <4>2, WakeMoves
      <4> HIDE DEF m
      <4>4. n = 1 /\ c.numOfActiveChildren[p] = 0
        BY <2>1, <2>2, <2>4, <3>5, <3>11
      <4>5. m.unblockManner[p] = "REGULAR" /\ m.numOfActiveChildren[p] = 0
        BY <2>1, <2>4, <2>14, <3>1, <4>3, <4>4 DEF Moves, SameCounts
      <4>6. Told(m, p, fr[p], over)
        BY <3>3, <4>5 DEF Told
      <4>7. FramesTrue(m, fr, over)
        <5>1. \A t \in Threads : t \in {p} /\ c.blockedAtSem[t] # Null => Told(m, t, fr[t], over)
          BY <4>6
        <5> QED  BY <2>3, <2>10, <4>3, <5>1, FramesMove
      <4>8. Needs(m)
        <5> SUFFICES ASSUME NEW t \in Threads, m.blockedAtSem[t] # Null
                     PROVE  m.tokensNeeded[t] = IF m.blockedAtSem[t] = semJoinAll(t)
                                                THEN m.numOfActiveChildren[t] ELSE 1
          BY DEF Needs
        <5>1. t # p
          BY <4>3 DEF Moves
        <5>2. /\ m.blockedAtSem[t] = c.blockedAtSem[t]
              /\ m.tokensNeeded[t] = c.tokensNeeded[t]
              /\ m.numOfActiveChildren[t] = c.numOfActiveChildren[t]
          BY <4>3, <5>1 DEF Moves, SameCounts
        <5>3. k.blockedAtSem[t] # Null
          BY <2>4, <5>2
        <5> QED  BY <2>11, <5>1, <5>2, <5>3
      <4>9. OwnSems(m, over)
        BY <2>9, <4>3 DEF OwnSems, Moves, SameCounts
      <4>10. Counted(m, over, gone)
        <5>1. \A q : Offspring(m, q, gone) = Offspring(c, q, gone)
          BY <4>3 DEF Offspring, Moves, SameCounts
        <5> HIDE DEF gone
        <5> QED  BY <2>8, <4>3, <5>1 DEF Counted, Moves, SameCounts
      <4>11. ASSUME NEW t \in k.created \ over
             PROVE  Mailbox(m, fr, t, FALSE)
        <5>1. t \in Threads
          BY <1>1
        <5>2. c.blockedAtSem[p] \notin {semSend(t), semReceive(t)}
          BY <2>1, <2>4, <2>14, <5>1, SemsApart DEF s
        <5>3. \A u \in Threads : u \in {p} /\ c.blockedAtSem[u] # Null =>
                c.blockedAtSem[u] \notin {semSend(t), semReceive(t)}
          BY <5>2
        <5>4. Mailbox(c, fr, t, FALSE)
          BY <2>12
        <5>5. m.value[semSend(t)] = c.value[semSend(t)] /\ m.value[semReceive(t)] = c.value[semReceive(t)]
          BY <4>3
        <5> QED  BY <2>3, <2>10, <4>3, <5>1, <5>3, <5>4, <5>5, MailMove
      <4>12. Mailboxes(m, fr, over, {})
        BY <2>4, <4>3, <4>11 DEF Mailboxes, Mailbox, Moves, SameCounts
      <4> QED  BY <3>10, <4>7, <4>8, <4>9, <4>10, <4>12 DEF Answers, m
    <3>12. CASE n > 1
      <4> DEFINE d == [c EXCEPT !.tokensNeeded[p] = @ - 1]
      <4>1. m = d
        BY <2>2, <2>4, <3>5, <3>8, <3>9, <3>12 DEF Signal
      <4>2. /\ d.created = c.created /\ d.opened = c.opened /\ d.parent = c.parent
            /\ d.message = c.message /\ d.active = c.active /\ d.value = c.value
            /\ d.blockedAtSem = c.blockedAtSem /\ d.remaining = c.remaining
            /\ d.unblockManner = c.unblockManner
            /\ d.numOfActiveChildren = c.numOfActiveChildren
            /\ d.tokensNeeded = [c.tokensNeeded EXCEPT ![p] = @ - 1]
        BY <2>3 DEF Kernels
      <4>3. c.tokensNeeded \in [Threads -> Nat]
        BY <2>3 DEF Kernels
      <4> HIDE DEF d
      <4>4. \A t \in Threads : d.tokensNeeded[t] =
              IF t = p THEN n - 1 ELSE c.tokensNeeded[t]
        BY <2>4, <3>5, <4>2, <4>3
      <4>5. \A t : (sleeps(d, t) <=> sleeps(c, t)) /\ (WaitsIn(d, t) <=> WaitsIn(c, t))
        BY <4>2 DEF sleeps, WaitsIn
      <4>6. FramesTrue(d, fr, over)
        <5> SUFFICES ASSUME NEW t \in Threads
                     PROVE  FrameTrue(d, t, fr[t], over)
          BY DEF FramesTrue
        <5>1. FrameTrue(c, t, fr[t], over)
          BY <2>10 DEF FramesTrue
        <5>2. FrameFits(d, t, fr[t], over)
          BY <4>2, <5>1 DEF FrameTrue, FrameFits
        <5>3. WaitFits(d, t, fr[t])
          BY <4>2, <4>5, <5>1 DEF FrameTrue, WaitFits
        <5>4. Told(c, t, fr[t], over) => Told(d, t, fr[t], over)
          BY <4>2 DEF Told
        <5> QED  BY <4>5, <5>1, <5>2, <5>3, <5>4 DEF FrameTrue
      <4>7. Needs(d)
        <5> SUFFICES ASSUME NEW t \in Threads, d.blockedAtSem[t] # Null
                     PROVE  d.tokensNeeded[t] = IF d.blockedAtSem[t] = semJoinAll(t)
                                                THEN d.numOfActiveChildren[t] ELSE 1
          BY DEF Needs
        <5>1. CASE t = p
          BY <2>1, <2>4, <2>14, <3>5, <4>2, <4>4, <5>1 DEF s
        <5>2. CASE t # p
          BY <2>4, <2>11, <4>2, <4>4, <5>2
        <5> QED  BY <5>1, <5>2
      <4>8. OwnSems(d, over)
        BY <2>9, <4>2 DEF OwnSems
      <4>9. Counted(d, over, gone)
        <5>1. \A q : Offspring(d, q, gone) = Offspring(c, q, gone)
          BY <4>2 DEF Offspring
        <5> HIDE DEF gone
        <5> QED  BY <2>8, <4>2, <5>1 DEF Counted
      <4>10. ASSUME NEW t \in k.created \ over
             PROVE  Mailbox(d, fr, t, FALSE)
        <5>1. SameMail(c, fr, d, fr, t)
          BY <4>2, <4>5 DEF SameMail, Enters
        <5>2. Mailbox(c, fr, t, FALSE)
          BY <2>12
        <5> QED  BY <5>1, <5>2, MailboxDepends
      <4>11. Mailboxes(d, fr, over, {})
        BY <2>4, <4>2, <4>10 DEF Mailboxes, Mailbox
      <4> QED  BY <3>10, <4>1, <4>6, <4>7, <4>8, <4>9, <4>11 DEF Answers
    <3> QED  BY <2>2, <3>11, <3>12
  <2> QED  BY <2>13, <2>14
<1> QED  BY <1>4, <1>5

\* The end of a thread: everybody who waits for it is told the truth.
LEMMA FinishAnswers ==
  ASSUME NEW k \in Kernels, Good(k), NEW fr,
         Answers(k, fr, k.finished, k.finished, {}), fr[k.running] = UserMode
  PROVE  LET m == Finish(k)
         IN  /\ m.finished = k.finished \cup {k.running}
             /\ Answers(m, fr, m.finished, m.finished, {})
<1> DEFINE r        == k.running
           over     == k.finished \cup {r}
           a        == Close(k, semSend(r))
           noMail   == Close(a, semReceive(r))
           told     == SignalAll(noMail, semJoin(r), "REGULAR")
           joined   == Close(told, semJoin(r))
           gone     == LeaveParent(joined)
           orphaned == Close(gone, semJoinAll(r))
           alone    == Unlink(orphaned, {r})
           ended    == [alone EXCEPT !.finished = @ \cup {r}]
<1>0. /\ r \in Threads /\ r \in k.created /\ k.created \subseteq Threads
      /\ semSend(r) \in Sems /\ semReceive(r) \in Sems
      /\ semJoin(r) \in Sems /\ semJoinAll(r) \in Sems
      /\ {semSend(r), semReceive(r), semJoin(r), semJoinAll(r)} \subseteq SemsOf(r)
      /\ \A u \in Threads : /\ semJoin(u) \notin {semSend(r), semReceive(r), semJoinAll(r)}
      /\ "REGULAR" \in UnblockManners /\ r \in over
  BY KernelFields, SemFrames, SemsApart
     DEF SemsOf, UnblockManners, Good, Consistent, Registered
<1>1. \A m : \A s \in SemsOf(r) \cap Sems : Steady(k, m) => Loose(m, s, over)
  BY <1>0, SemsOfApart DEF Loose, Steady, SameThreads
<1>2. r \notin k.finished \/ r = Idle
  BY DEF Good, RunnerRuns
<1>3. Answers(k, fr, over, k.finished, {})
  BY OverGrows
<1>4. Steady(k, k)
  BY GoodDepends DEF SameThreads
<1> HIDE DEF over
<1>5. /\ a \in Kernels /\ Good(a) /\ Steady(k, a)
      /\ Answers(a, fr, over, k.finished, {})
  <2>1. Loose(k, semSend(r), over)
    BY <1>0, <1>1, <1>4
  <2>2. Answers(a, fr, over, k.finished, {})
    BY <1>0, <1>3, <2>1, CloseAnswers
  <2> QED  BY <1>0, <2>2, CloseKeeps, CloseType
<1> HIDE DEF a
<1>6. /\ noMail \in Kernels /\ Good(noMail) /\ Steady(k, noMail)
      /\ Answers(noMail, fr, over, k.finished, {})
  <2>1. Loose(a, semReceive(r), over)
    BY <1>0, <1>1, <1>5
  <2>2. Answers(noMail, fr, over, k.finished, {})
    BY <1>0, <1>5, <2>1, CloseAnswers
  <2> QED  BY <1>0, <1>5, <2>2, CloseKeeps, CloseType, SteadyTwice
<1> HIDE DEF noMail
<1>7. /\ told \in Kernels /\ Good(told) /\ Steady(k, told)
      /\ told.blocked[semJoin(r)] = <<>>
      /\ Answers(told, fr, over, k.finished, {})
  <2>1. Answers(told, fr, over, k.finished, {})
    BY <1>0, <1>6, JoinedAnswers
  <2> QED  BY <1>0, <1>6, <2>1, SignalAllKeeps, SignalAllType, SteadyTwice
<1> HIDE DEF told
<1>8. \A t \in Threads : told.blockedAtSem[t] # semJoin(r)
  BY <1>0, <1>7, EmptyList DEF Good, Consistent, ListsAgree
<1>9. /\ joined \in Kernels /\ Good(joined) /\ Steady(k, joined)
      /\ Answers(joined, fr, over, k.finished, {})
  <2>1. Loose(told, semJoin(r), over)
    BY <1>0, <1>1, <1>7
  <2>2. Answers(joined, fr, over, k.finished, {})
    BY <1>7, <1>8, <2>1, CloseAnswers
  <2> QED  BY <1>0, <1>7, <2>2, CloseKeeps, CloseType, SteadyTwice
<1> HIDE DEF joined
<1>10. /\ gone \in Kernels /\ Good(gone) /\ Steady(k, gone)
       /\ Answers(gone, fr, over, over, {})
  <2>1. joined.running = r /\ joined.finished = k.finished
    BY <1>9 DEF Steady, SameThreads
  <2>2. Answers(gone, fr, over, k.finished \cup {r}, {})
    BY <1>0, <1>2, <1>9, <2>1, LeaveParentAnswers DEF over
  <2> QED  BY <1>9, <2>2, LeaveParentKeeps, LeaveParentType, SteadyTwice DEF over
<1> HIDE DEF gone
<1>11. /\ orphaned \in Kernels /\ Good(orphaned) /\ Steady(k, orphaned)
       /\ Answers(orphaned, fr, over, over, {})
  <2>1. Loose(gone, semJoinAll(r), over)
    BY <1>0, <1>1, <1>10
  <2>2. Answers(orphaned, fr, over, over, {})
    BY <1>0, <1>10, <2>1, CloseAnswers
  <2> QED  BY <1>0, <1>10, <2>2, CloseKeeps, CloseType, SteadyTwice
<1> HIDE DEF orphaned
<1>12. orphaned.running = r /\ orphaned.finished = k.finished
  BY <1>11 DEF Steady, SameThreads
<1>13. orphaned.blockedAtSem[r] = Null /\ ~sleeps(orphaned, r)
  BY <1>11, <1>12 DEF Good, RunnerRuns, WaitsIn
<1>14. /\ SameCounts(orphaned, alone) /\ alone.active = orphaned.active
       /\ alone.value = orphaned.value /\ alone.unblockManner = orphaned.unblockManner
       /\ alone.finished = k.finished /\ alone \in Kernels
       /\ \A t \in Threads :
            /\ alone.remaining[t] = IF t \in {r} THEN 0 ELSE orphaned.remaining[t]
            /\ alone.blockedAtSem[t] = IF t \in {r} THEN Null ELSE orphaned.blockedAtSem[t]
            /\ alone.tokensNeeded[t] = IF t \in {r} THEN 0 ELSE orphaned.tokensNeeded[t]
  BY <1>11, <1>12, UnlinkMoves, UnlinkFields, UnlinkType DEF SameThreads
<1> HIDE DEF alone
<1>15. Moves(orphaned, alone, {r}, "REGULAR")
  <2>1. orphaned.remaining \in [Threads -> Nat]
    BY <1>11, KernelFields
  <2>2. \A t \in Threads : sleeps(alone, t) <=> sleeps(orphaned, t) /\ t \notin {r}
    BY <1>14, <2>1 DEF sleeps
  <2> QED  BY <1>13, <1>14, <2>2 DEF Moves
<1>16. Answers(alone, fr, over, over, {})
  <2>1. \A t \in Threads : t \in {r} => orphaned.blockedAtSem[t] = Null
    BY <1>13
  <2>2. \A t \in Threads : alone.value[semJoin(t)] = 0 /\ alone.value[semJoinAll(t)] = 0
    BY <1>11, <1>14 DEF Answers, OwnSems
  <2>3. alone.active = orphaned.active /\ alone.value = orphaned.value
    BY <1>14
  <2> HIDE DEF r
  <2> QED  BY <1>11, <1>15, <2>1, <2>2, <2>3, AnswersMove
<1>17. ended \in Kernels /\ SameStory(alone, ended) /\ ended.finished = over
  BY <1>0, <1>14 DEF Kernels, SameStory, SameCounts, over
<1>18. Finish(k) = Yield(ended, FALSE)
  BY DEF Finish, ended, alone, orphaned, gone, joined, told, noMail, a
<1> HIDE DEF ended
<1>19. Answers(ended, fr, over, over, {})
  BY <1>14, <1>16, <1>17, StoryAnswers
<1>20. Answers(Finish(k), fr, over, over, {})
  <2>1. SameStory(ended, Yield(ended, FALSE))
    BY <1>17, YieldStory
  <2> QED  BY <1>17, <1>18, <1>19, <2>1, StoryAnswers
<1>21. Finish(k).finished = over
  BY <1>17, <1>18 DEF Yield, SchedulerPut, SchedulerGet, Kernels
<1> QED  BY <1>20, <1>21 DEF over

-----------------------------------------------------------------------------
\* A new semaphore of the program is nobody's mailbox and no reason to wake.
LEMMA SemCreateAnswers ==
  ASSUME NEW k \in Kernels, NEW fr, NEW over, NEW left, NEW taken,
         Answers(k, fr, over, left, taken),
         NEW s \in UserSems \ k.opened, NEW init \in Nat
  PROVE  Answers(SemCreate(k, s, init), fr, over, left, taken)
<1> DEFINE m == SemCreate(k, s, init)
<1>0. k.value \in [Sems -> Nat] /\ s \in Sems /\ k.created \subseteq Threads
  BY KernelFields, SemFrames
<1>1. /\ m.created = k.created /\ m.parent = k.parent
      /\ m.numOfActiveChildren = k.numOfActiveChildren /\ m.message = k.message
      /\ m.blockedAtSem = k.blockedAtSem /\ m.remaining = k.remaining
      /\ m.tokensNeeded = k.tokensNeeded /\ m.unblockManner = k.unblockManner
      /\ m.opened = k.opened \cup {s} /\ m.active = k.active \cup {s}
      /\ m.value = [k.value EXCEPT ![s] = init]
  BY DEF SemCreate, Kernels
<1> HIDE DEF m
<1>2. \A t \in Threads : /\ m.value[semJoin(t)] = k.value[semJoin(t)]
                         /\ m.value[semJoinAll(t)] = k.value[semJoinAll(t)]
                         /\ m.value[semSend(t)] = k.value[semSend(t)]
                         /\ m.value[semReceive(t)] = k.value[semReceive(t)]
  BY <1>0, <1>1, SemsApart
<1>3. \A t : (sleeps(m, t) <=> sleeps(k, t)) /\ (WaitsIn(m, t) <=> WaitsIn(k, t))
  BY <1>1 DEF sleeps, WaitsIn
<1>4. FramesTrue(m, fr, over)
  <2> SUFFICES ASSUME NEW t \in Threads
               PROVE  FrameTrue(m, t, fr[t], over)
    BY DEF FramesTrue
  <2>1. FrameTrue(k, t, fr[t], over)
    BY DEF Answers, FramesTrue
  <2>2. FrameFits(m, t, fr[t], over)
    BY <1>1, <2>1 DEF FrameTrue, FrameFits
  <2>3. WaitFits(m, t, fr[t])
    BY <1>1, <1>3, <2>1 DEF FrameTrue, WaitFits
  <2>4. Told(k, t, fr[t], over) => Told(m, t, fr[t], over)
    BY <1>1 DEF Told
  <2> QED  BY <1>3, <2>1, <2>2, <2>3, <2>4 DEF FrameTrue
<1>5. Needs(m)
  BY <1>1 DEF Answers, Needs
<1>6. OwnSems(m, over)
  BY <1>1, <1>2 DEF Answers, OwnSems
<1>7. Counted(m, over, left)
  <2>1. \A q : Offspring(m, q, left) = Offspring(k, q, left)
    BY <1>1 DEF Offspring
  <2> QED  BY <1>1, <2>1 DEF Answers, Counted
<1>8. Mailboxes(m, fr, over, taken)
  <2> SUFFICES ASSUME NEW t \in k.created \ over
               PROVE  Mailbox(m, fr, t, t \in taken)
    BY <1>1 DEF Mailboxes
  <2>1. SameMail(k, fr, m, fr, t)
    BY <1>0, <1>1, <1>2, <1>3 DEF SameMail, Enters
  <2>2. Mailbox(k, fr, t, t \in taken)
    BY DEF Answers, Mailboxes
  <2> QED  BY <2>1, <2>2, MailboxDepends
<1> QED  BY <1>4, <1>5, <1>6, <1>7, <1>8 DEF Answers, m

\* A new thread counts, has its own semaphores and an empty mailbox.
LEMMA ThreadCreateAnswers ==
  ASSUME NEW k \in Kernels, Good(k), NEW fr, NEW over,
         Answers(k, fr, over, over, {}), fr[k.running] = UserMode,
         NEW c \in Threads \ k.created, c # Idle, c \notin over
  PROVE  Answers(ThreadCreate(k, c), fr, over, over, {})
<1> DEFINE r == k.running
           n == k.numOfActiveChildren[r]
           m == ThreadCreate(k, c)
<1>0. /\ k.value \in [Sems -> Nat] /\ k.created \subseteq Threads /\ r \in k.created
      /\ r \in Threads /\ SemsOf(c) \subseteq Sems /\ Idle \in k.created
      /\ SemsOf(c) \cap k.opened = {} /\ k.blockedAtSem[r] = Null
      /\ k.active \subseteq k.opened
  <2>1. k.opened \subseteq UserSems \cup UNION {SemsOf(t) : t \in k.created}
    BY DEF Good, Consistent, Registered
  <2>2. k.created \subseteq Threads
    BY KernelFields
  <2>3. SemsOf(c) \cap UserSems = {} /\ \A t \in k.created : SemsOf(c) \cap SemsOf(t) = {}
    <3>1. r \in Threads /\ c # r /\ r \in k.created
      BY KernelFields DEF Good, Consistent, Registered
    <3>2. ASSUME NEW t \in k.created
          PROVE  SemsOf(c) \cap SemsOf(t) = {}
      BY <2>2, SemsOfApart
    <3>3. SemsOf(c) \cap UserSems = {}
      BY <3>1, SemsOfApart
    <3> QED  BY <3>2, <3>3
  <2>4. SemsOf(c) \cap k.opened = {}
    BY <2>1, <2>3
  <2> QED  BY <2>2, <2>4, KernelFields, SemFrames
              DEF Good, Consistent, Registered, RunnerRuns, WaitsIn
<1>1. /\ m.created = k.created \cup {c} /\ m.message = k.message
      /\ m.parent = [k.parent EXCEPT ![c] = r]
      /\ m.numOfActiveChildren = [k.numOfActiveChildren EXCEPT ![r] = CountUp(n)]
      /\ m.blockedAtSem = k.blockedAtSem /\ m.remaining = k.remaining
      /\ m.tokensNeeded = k.tokensNeeded /\ m.unblockManner = k.unblockManner
      /\ m.opened = k.opened \cup SemsOf(c) /\ m.active = k.active \cup SemsOf(c)
      /\ m.value = [s \in Sems |-> IF s = semSend(c) THEN 1
                                   ELSE IF s \in SemsOf(c) THEN 0 ELSE k.value[s]]
  BY DEF ThreadCreate, SchedulerPut, Kernels
<1> HIDE DEF m
<1>2. /\ \A t \in Threads \ {c} : /\ m.value[semJoin(t)] = k.value[semJoin(t)]
                                  /\ m.value[semJoinAll(t)] = k.value[semJoinAll(t)]
                                  /\ m.value[semSend(t)] = k.value[semSend(t)]
                                  /\ m.value[semReceive(t)] = k.value[semReceive(t)]
      /\ m.value[semJoin(c)] = 0 /\ m.value[semJoinAll(c)] = 0
      /\ m.value[semSend(c)] = 1 /\ m.value[semReceive(c)] = 0
  <2>1. \A t \in Threads \ {c} : SemsOf(t) \cap SemsOf(c) = {} /\ semSend(c) \in SemsOf(c)
    BY SemsOfApart DEF SemsOf
  <2>2. \A t \in Threads : /\ semJoin(t) \in SemsOf(t) \cap Sems
                           /\ semJoinAll(t) \in SemsOf(t) \cap Sems
                           /\ semSend(t) \in SemsOf(t) \cap Sems
                           /\ semReceive(t) \in SemsOf(t) \cap Sems
    BY SemFrames DEF SemsOf
  <2>3. semSend(c) \notin {semJoin(c), semJoinAll(c), semReceive(c)}
    BY SemsApart
  <2> QED  BY <1>1, <2>1, <2>2, <2>3
<1>3. \A t : (sleeps(m, t) <=> sleeps(k, t)) /\ (WaitsIn(m, t) <=> WaitsIn(k, t))
  BY <1>1 DEF sleeps, WaitsIn
<1>4. FramesTrue(k, fr, over) /\ Needs(k) /\ OwnSems(k, over) /\ Counted(k, over, over)
  BY DEF Answers
<1>5. FramesTrue(m, fr, over)
  <2> SUFFICES ASSUME NEW t \in Threads
               PROVE  FrameTrue(m, t, fr[t], over)
    BY DEF FramesTrue
  <2>1. FrameTrue(k, t, fr[t], over)
    BY <1>4 DEF FramesTrue
  <2>2. FrameFits(m, t, fr[t], over)
    BY <1>1, <2>1 DEF FrameTrue, FrameFits
  <2>3. WaitFits(m, t, fr[t])
    BY <1>1, <1>3, <2>1 DEF FrameTrue, WaitFits
  <2>4. fr[t].call = "joinAll" => t # r
    BY DEF UserMode, Frame
  <2>5. fr[t].call = "joinAll" => m.numOfActiveChildren[t] = k.numOfActiveChildren[t]
    BY <1>1, <2>4 DEF Kernels
  <2>6. Told(k, t, fr[t], over) => Told(m, t, fr[t], over)
    BY <1>0, <1>1, <2>5 DEF Told
  <2> QED  BY <1>3, <2>1, <2>2, <2>3, <2>6 DEF FrameTrue
<1>6. Needs(m)
  <2> SUFFICES ASSUME NEW t \in Threads, m.blockedAtSem[t] # Null
               PROVE  m.tokensNeeded[t] = IF m.blockedAtSem[t] = semJoinAll(t)
                                          THEN m.numOfActiveChildren[t] ELSE 1
    BY DEF Needs
  <2>1. t # r /\ k.blockedAtSem[t] # Null
    BY <1>0, <1>1
  <2>2. m.numOfActiveChildren[t] = k.numOfActiveChildren[t]
    BY <1>1, <2>1 DEF Kernels
  <2> QED  BY <1>1, <1>4, <2>1, <2>2 DEF Needs
<1>7. OwnSems(m, over)
  BY <1>1, <1>2, <1>4 DEF OwnSems
<1>8. Counted(m, over, over)
  <2>0. /\ k.parent[Idle] = Master /\ \A t \in k.created : k.parent[t] \in k.created \cup {Null}
        /\ \A t \in Threads \ k.created : k.numOfActiveChildren[t] = 0
        /\ \A p \in k.created \ (over \cup {Master, Idle}) :
             k.numOfActiveChildren[p] = Cardinality(Offspring(k, p, over))
    BY <1>4 DEF Counted
  <2>1. \A t \in Threads : m.parent[t] = IF t = c THEN r ELSE k.parent[t]
    BY <1>1 DEF Kernels
  <2>2. \A t \in Threads : m.numOfActiveChildren[t] =
          IF t = r THEN CountUp(n) ELSE k.numOfActiveChildren[t]
    BY <1>1 DEF Kernels
  <2>3. ASSUME NEW p \in m.created \ (over \cup {Master, Idle})
        PROVE  m.numOfActiveChildren[p] = Cardinality(Offspring(m, p, over))
    <3> DEFINE O == Offspring(k, p, over)
    <3>1. CASE p = c
      <4>1. Offspring(m, p, over) = {}
        <5>1. c # Null /\ c # r
          BY <1>0, ThreadsAssumption
        <5>2. ASSUME NEW x \in m.created
              PROVE  m.parent[x] # c
          BY <1>0, <1>1, <2>0, <2>1, <5>1
        <5> QED  BY <3>1, <5>2 DEF Offspring
      <4>2. m.numOfActiveChildren[p] = 0
        BY <1>0, <2>0, <2>2, <3>1
      <4> QED  BY <4>1, <4>2, FS_EmptySet
    <3>2. CASE p # c /\ p # r
      <4>1. Offspring(m, p, over) = O
        BY <1>0, <1>1, <2>1, <3>2 DEF Offspring
      <4>2. p \in k.created \ (over \cup {Master, Idle}) /\ p \in Threads
        BY <1>0, <1>1, <3>2
      <4> QED  BY <2>0, <2>2, <3>2, <4>1, <4>2
    <3>3. CASE p = r
      <4>0. p \in k.created \ (over \cup {Master, Idle}) /\ p # c
        BY <1>0, <3>3
      <4>1. c \notin O /\ O \subseteq Threads
        BY <1>0 DEF Offspring
      <4>2. IsFiniteSet(O) /\ Cardinality(O) \in Nat /\ n = Cardinality(O)
        BY <2>0, <3>3, <4>0, OffspringCount
      <4>3. Offspring(m, p, over) = IF c \in over THEN O ELSE O \cup {c}
        BY <1>0, <1>1, <2>1, <3>3 DEF Offspring
      <4>4. Idle \notin O \cup {c} /\ O \cup {c} \subseteq Threads \ {Idle}
        BY <2>0, <4>0, <4>1 DEF Offspring
      <4> HIDE DEF O
      <4>5. Cardinality(O \cup {c}) = Cardinality(O) + 1
        BY <4>1, <4>2, FS_AddElement
      <4>6. IsFiniteSet(Threads \ {Idle})
            /\ Cardinality(Threads \ {Idle}) = Cardinality(Threads) - 1
            /\ Cardinality(Threads) \in Nat
        BY ThreadsAssumption, FS_RemoveElement, FS_CardinalityType
      <4>7. Cardinality(O \cup {c}) <= Cardinality(Threads \ {Idle})
        BY <4>4, <4>6, FS_Subset
      <4>8. n + 1 < CountMod /\ n \in Nat
        BY <4>2, <4>5, <4>6, <4>7, NumbersAssumption
      <4>9. CountUp(n) = n + 1
        BY <4>8, CountSteps
      <4>10. c \notin over
        OBVIOUS
      <4> QED  BY <1>0, <2>2, <3>3, <4>2, <4>3, <4>5, <4>9, <4>10
    <3> QED  BY <3>1, <3>2, <3>3
  <2>4. \A t \in m.created : m.parent[t] \in m.created \cup {Null}
    BY <1>0, <1>1, <2>0, <2>1
  <2>5. m.parent[Idle] = Master
    BY <1>0, <2>0, <2>1
  <2>6. \A t \in Threads \ m.created : m.numOfActiveChildren[t] = 0
    BY <1>0, <1>1, <2>0, <2>2
  <2> QED  BY <2>3, <2>4, <2>5, <2>6 DEF Counted
<1>9. Mailboxes(m, fr, over, {})
  <2>0. \A t \in k.created \ over : Mailbox(k, fr, t, FALSE)
    BY DEF Answers, Mailboxes, Mailbox
  <2>1. ASSUME NEW t \in k.created \ over
        PROVE  Mailbox(m, fr, t, FALSE)
    <3>1. t \in Threads \ {c}
      BY <1>0
    <3>2. SameMail(k, fr, m, fr, t)
      BY <1>1, <1>2, <1>3, <3>1 DEF SameMail, Enters
    <3> QED  BY <2>0, <3>2, MailboxDepends
  <2>2. Mailbox(m, fr, c, FALSE)
    <3>1. ASSUME NEW u \in Threads
          PROVE  ~Enters(m, u, fr[u], c)
      <4>1. FrameFits(k, u, fr[u], over)
        BY <1>4 DEF FramesTrue, FrameTrue
      <4>2. ~(fr[u].call = "send" /\ fr[u].on = c)
        BY <4>1 DEF FrameFits
      <4>3. ~(fr[u].call = "receive" /\ u = c)
        BY <4>1 DEF FrameFits, WaitCalls
      <4> QED  BY <4>2, <4>3 DEF Enters
    <3>2. Inside(m, fr, c) = {}
      BY <3>1 DEF Inside
    <3> QED  BY <1>2, <3>1, <3>2 DEF Mailbox, Slot
  <2> QED  BY <1>1, <2>1, <2>2 DEF Mailboxes, Mailbox
<1> QED  BY <1>5, <1>6, <1>7, <1>8, <1>9 DEF Answers, m

-----------------------------------------------------------------------------
\* Nothing changes but the values of semaphores and what the running thread,
\* in user mode, is told.
Grants(k, m) ==
  /\ SameCounts(k, m) /\ m.active = k.active
  /\ m.blockedAtSem = k.blockedAtSem /\ m.remaining = k.remaining
  /\ \A t \in Threads \ {k.running} : /\ m.tokensNeeded[t] = k.tokensNeeded[t]
                                      /\ m.unblockManner[t] = k.unblockManner[t]

\* What a grant keeps of the answers.
LEMMA GrantStory ==
  ASSUME NEW k \in Kernels, Good(k), NEW m, NEW fr, NEW over, NEW left,
         Answers(k, fr, over, left, {}), fr[k.running] = UserMode, Grants(k, m),
         \A t \in Threads : m.value[semJoin(t)] = 0 /\ m.value[semJoinAll(t)] = 0
  PROVE  /\ FramesTrue(m, fr, over) /\ Needs(m) /\ OwnSems(m, over)
         /\ Counted(m, over, left)
         /\ \A u \in Threads : \A t : Enters(m, u, fr[u], t) <=> Enters(k, u, fr[u], t)
<1> DEFINE r == k.running
<1>0. k.blockedAtSem[r] = Null /\ r \in Threads
  BY KernelFields DEF Good, RunnerRuns, WaitsIn
<1>1. /\ m.created = k.created /\ m.opened = k.opened /\ m.parent = k.parent
      /\ m.numOfActiveChildren = k.numOfActiveChildren /\ m.message = k.message
      /\ m.active = k.active /\ m.blockedAtSem = k.blockedAtSem
      /\ \A t \in Threads \ {r} : /\ m.tokensNeeded[t] = k.tokensNeeded[t]
                                  /\ m.unblockManner[t] = k.unblockManner[t]
      /\ \A t : (sleeps(m, t) <=> sleeps(k, t)) /\ (WaitsIn(m, t) <=> WaitsIn(k, t))
  BY DEF Grants, SameCounts, sleeps, WaitsIn
<1>2. fr[r].call = "user"
  BY DEF UserMode, Frame
<1> HIDE DEF r
<1>3. FramesTrue(m, fr, over)
  <2> SUFFICES ASSUME NEW t \in Threads
               PROVE  FrameTrue(m, t, fr[t], over)
    BY DEF FramesTrue
  <2>1. FrameTrue(k, t, fr[t], over)
    BY DEF Answers, FramesTrue
  <2>2. FrameFits(m, t, fr[t], over)
    BY <1>1, <2>1 DEF FrameTrue, FrameFits
  <2>3. WaitFits(m, t, fr[t])
    BY <1>1, <2>1 DEF FrameTrue, WaitFits
  <2>4. ASSUME fr[t].call \in WaitCalls
        PROVE  Told(k, t, fr[t], over) => Told(m, t, fr[t], over)
    <3>1. t # r
      BY <1>2, <2>4 DEF WaitCalls, TimedCalls
    <3> QED  BY <1>1, <3>1 DEF Told
  <2> QED  BY <1>1, <2>1, <2>2, <2>3, <2>4 DEF FrameTrue
<1>4. Needs(m)
  <2> SUFFICES ASSUME NEW t \in Threads, m.blockedAtSem[t] # Null
               PROVE  m.tokensNeeded[t] = IF m.blockedAtSem[t] = semJoinAll(t)
                                          THEN m.numOfActiveChildren[t] ELSE 1
    BY DEF Needs
  <2>1. t # r /\ k.blockedAtSem[t] # Null
    BY <1>0, <1>1
  <2> QED  BY <1>1, <2>1 DEF Answers, Needs
<1>5. OwnSems(m, over)
  BY <1>1 DEF Answers, OwnSems
<1>6. Counted(m, over, left)
  <2>1. \A q : Offspring(m, q, left) = Offspring(k, q, left)
    BY <1>1 DEF Offspring
  <2> QED  BY <1>1, <2>1 DEF Answers, Counted
<1>7. ASSUME NEW u \in Threads, NEW t
      PROVE  Enters(m, u, fr[u], t) <=> Enters(k, u, fr[u], t)
  <2>1. CASE u = r
    BY <1>2, <2>1 DEF Enters
  <2>2. CASE u # r
    BY <1>1, <2>2 DEF Enters
  <2> QED  BY <2>1, <2>2
<1> QED  BY <1>3, <1>4, <1>5, <1>6, <1>7

\* The same with all mailboxes as they were.
LEMMA GrantAnswers ==
  ASSUME NEW k \in Kernels, Good(k), NEW m, NEW fr, NEW over, NEW left,
         Answers(k, fr, over, left, {}), fr[k.running] = UserMode, Grants(k, m),
         \A t \in Threads : m.value[semJoin(t)] = 0 /\ m.value[semJoinAll(t)] = 0,
         \A t \in k.created \ over : /\ m.value[semSend(t)] = k.value[semSend(t)]
                                     /\ m.value[semReceive(t)] = k.value[semReceive(t)]
  PROVE  Answers(m, fr, over, left, {})
<1>1. /\ FramesTrue(m, fr, over) /\ Needs(m) /\ OwnSems(m, over)
      /\ Counted(m, over, left)
      /\ \A u \in Threads : \A t : Enters(m, u, fr[u], t) <=> Enters(k, u, fr[u], t)
  BY GrantStory
<1>2. m.created = k.created /\ m.message = k.message /\ k.created \subseteq Threads
  BY KernelFields DEF Grants, SameCounts
<1>3. Mailboxes(m, fr, over, {})
  <2> SUFFICES ASSUME NEW t \in k.created \ over
               PROVE  Mailbox(m, fr, t, t \in {})
    BY <1>2 DEF Mailboxes
  <2>1. SameMail(k, fr, m, fr, t)
    BY <1>1, <1>2 DEF SameMail
  <2>2. Mailbox(k, fr, t, t \in {})
    BY DEF Answers, Mailboxes
  <2> QED  BY <2>1, <2>2, MailboxDepends
<1> QED  BY <1>1, <1>3 DEF Answers

\* What Acquire and BlockForNoTime change.
LEMMA AcquireGrants ==
  ASSUME NEW k \in Kernels, NEW s, NEW tokens
  PROVE  /\ Grants(k, Acquire(k, s, tokens))
         /\ \A x \in Sems : Acquire(k, s, tokens).value[x] =
              IF x = s THEN k.value[x] - tokens ELSE k.value[x]
         /\ Acquire(k, s, tokens).unblockManner[k.running] = "REGULAR"
BY DEF Acquire, Grants, SameCounts, Kernels

\* A wait for no time is a grant with another reason.
LEMMA BlockForNoTimeGrants ==
  ASSUME NEW k \in Kernels, NEW s
  PROVE  /\ Grants(k, BlockForNoTime(k, s))
         /\ \A x \in Sems : BlockForNoTime(k, s).value[x] =
              IF x = s THEN 0 ELSE k.value[x]
         /\ BlockForNoTime(k, s).unblockManner[k.running] = "WAIT_TIMEOUT"
BY DEF BlockForNoTime, Grants, SameCounts, Kernels

\* A token that is taken from a semaphore that is not a live mailbox's.
LEMMA AcquireAnswers ==
  ASSUME NEW k \in Kernels, Good(k), NEW fr, NEW over, NEW left,
         Answers(k, fr, over, left, {}), fr[k.running] = UserMode,
         NEW s \in Sems, NEW tokens \in Nat, k.value[s] >= tokens,
         \A t \in k.created \ over : s \notin {semSend(t), semReceive(t)}
  PROVE  Answers(Acquire(k, s, tokens), fr, over, left, {})
<1> DEFINE m == Acquire(k, s, tokens)
<1>1. /\ Grants(k, m)
      /\ \A x \in Sems : m.value[x] = IF x = s THEN k.value[x] - tokens ELSE k.value[x]
  BY AcquireGrants
<1> HIDE DEF m
<1>2. k.value \in [Sems -> Nat] /\ k.created \subseteq Threads
  BY KernelFields
<1>3. \A x \in Sems : x # s => m.value[x] = k.value[x]
  BY <1>1, <1>2
<1>4. k.value[s] = 0 => m.value[s] = 0
  BY <1>1, <1>2
<1>5. \A t \in Threads : m.value[semJoin(t)] = 0 /\ m.value[semJoinAll(t)] = 0
  <2>1. \A t \in Threads : k.value[semJoin(t)] = 0 /\ k.value[semJoinAll(t)] = 0
    BY DEF Answers, OwnSems
  <2> QED  BY <1>3, <1>4, <2>1, SemFrames
<1>6. \A t \in k.created \ over : /\ m.value[semSend(t)] = k.value[semSend(t)]
                                  /\ m.value[semReceive(t)] = k.value[semReceive(t)]
  BY <1>2, <1>3, SemFrames
<1>7. Answers(m, fr, over, left, {})
  BY <1>1, <1>5, <1>6, GrantAnswers
<1> QED  BY <1>7 DEF m

\* The token of a mailbox: the running thread has it in its hands.
LEMMA AcquireMail ==
  ASSUME NEW k \in Kernels, Good(k), NEW fr, NEW over, NEW left,
         Answers(k, fr, over, left, {}), fr[k.running] = UserMode,
         NEW x \in k.created \ over, NEW s, s \in {semSend(x), semReceive(x)},
         k.value[s] >= 1
  PROVE  /\ Answers(Acquire(k, s, 1), fr, over, left, {x})
         /\ s = semReceive(x) => k.message[x] \in Messages
<1> DEFINE m == Acquire(k, s, 1)
<1>1. /\ Grants(k, m)
      /\ \A y \in Sems : m.value[y] = IF y = s THEN k.value[y] - 1 ELSE k.value[y]
  BY AcquireGrants
<1> HIDE DEF m
<1>2. /\ k.value \in [Sems -> Nat] /\ k.created \subseteq Threads
      /\ x \in Threads /\ s \in Sems /\ semSend(x) # semReceive(x)
      /\ semSend(x) \in Sems /\ semReceive(x) \in Sems
  BY KernelFields, SemFrames, SemsApart
<1>3. \A y \in Sems : m.value[y] = IF y = s THEN k.value[y] - 1 ELSE k.value[y]
  BY <1>1, <1>2
<1>4. \A t \in Threads : /\ semJoin(t) \in Sems \ {s} /\ semJoinAll(t) \in Sems \ {s}
                         /\ t # x => semSend(t) \in Sems \ {s} /\ semReceive(t) \in Sems \ {s}
  BY <1>2, SemFrames, SemsApart
<1>5. \A t \in Threads : m.value[semJoin(t)] = 0 /\ m.value[semJoinAll(t)] = 0
  BY <1>3, <1>4 DEF Answers, OwnSems
<1>6. /\ FramesTrue(m, fr, over) /\ Needs(m) /\ OwnSems(m, over)
      /\ Counted(m, over, left)
      /\ \A u \in Threads : \A t : Enters(m, u, fr[u], t) <=> Enters(k, u, fr[u], t)
  BY <1>1, <1>5, GrantStory
<1>7. m.created = k.created /\ m.message = k.message
  BY <1>1 DEF Grants, SameCounts
<1>8. \A t \in k.created \ over : Mailbox(k, fr, t, FALSE)
  BY DEF Answers, Mailboxes, Mailbox
<1>9. Slot(k, fr, x)
  BY <1>8 DEF Mailbox
<1>10. /\ Inside(k, fr, x) = {}
       /\ k.value[semSend(x)] = IF s = semSend(x) THEN 1 ELSE 0
       /\ k.value[semReceive(x)] = IF s = semReceive(x) THEN 1 ELSE 0
  BY <1>2, <1>9 DEF Slot
<1>11. s = semReceive(x) => k.message[x] \in Messages
  BY <1>8, <1>10 DEF Mailbox
<1>12. Inside(m, fr, x) = {}
  BY <1>6, <1>10 DEF Inside
<1>13. m.value[semSend(x)] = 0 /\ m.value[semReceive(x)] = 0
  BY <1>2, <1>3, <1>10
<1>14. Mailbox(m, fr, x, TRUE)
  BY <1>2, <1>12, <1>13 DEF Mailbox, NoSlot, Inside
<1>15. ASSUME NEW t \in k.created \ over, t # x
       PROVE  Mailbox(m, fr, t, FALSE)
  <2>1. SameMail(k, fr, m, fr, t)
    BY <1>2, <1>3, <1>4, <1>6, <1>7, <1>15 DEF SameMail
  <2> QED  BY <1>8, <2>1, MailboxDepends
<1>16. Mailboxes(m, fr, over, {x})
  BY <1>7, <1>14, <1>15 DEF Mailboxes, Mailbox
<1> QED  BY <1>6, <1>11, <1>16 DEF Answers, m

-----------------------------------------------------------------------------
\* Thread r, in user mode before, is suspended in the handler f.
LEMMA SuspendAnswers ==
  ASSUME NEW k \in Kernels, NEW m, NEW fr \in [Threads -> Frames], NEW over, NEW left,
         Answers(k, fr, over, left, {}), NEW r \in Threads, fr[r] = UserMode,
         SameCounts(k, m), m.active = k.active, \A s \in Sems : m.value[s] = k.value[s],
         \A t \in Threads \ {r} : /\ m.blockedAtSem[t] = k.blockedAtSem[t]
                                  /\ m.remaining[t] = k.remaining[t]
                                  /\ m.tokensNeeded[t] = k.tokensNeeded[t]
                                  /\ m.unblockManner[t] = k.unblockManner[t],
         NEW f, FrameFits(m, r, f, over), WaitFits(m, r, f),
         WaitsIn(m, r) \/ f.call \notin WaitCalls,
         m.blockedAtSem[r] # Null =>
           m.tokensNeeded[r] = IF m.blockedAtSem[r] = semJoinAll(r)
                               THEN m.numOfActiveChildren[r] ELSE 1
  PROVE  Answers(m, [fr EXCEPT ![r] = f], over, left, {})
<1> DEFINE gr == [fr EXCEPT ![r] = f]
<1>0. gr[r] = f /\ \A t \in Threads \ {r} : gr[t] = fr[t]
  OBVIOUS
<1> HIDE DEF gr
<1>1. /\ m.created = k.created /\ m.opened = k.opened /\ m.parent = k.parent
      /\ m.numOfActiveChildren = k.numOfActiveChildren /\ m.message = k.message
  BY DEF SameCounts
<1>2. \A t \in Threads \ {r} : /\ sleeps(m, t) <=> sleeps(k, t)
                               /\ WaitsIn(m, t) <=> WaitsIn(k, t)
  BY DEF sleeps, WaitsIn
<1>3. FramesTrue(m, gr, over)
  <2> SUFFICES ASSUME NEW t \in Threads
               PROVE  FrameTrue(m, t, gr[t], over)
    BY DEF FramesTrue
  <2>1. CASE t = r
    BY <1>0, <2>1 DEF FrameTrue
  <2>2. CASE t # r
    <3>1. FrameTrue(k, t, fr[t], over) /\ gr[t] = fr[t]
      BY <1>0, <2>2 DEF Answers, FramesTrue
    <3>2. FrameFits(m, t, fr[t], over)
      BY <1>1, <3>1 DEF FrameTrue, FrameFits
    <3>3. WaitFits(m, t, fr[t])
      BY <1>2, <2>2, <3>1 DEF FrameTrue, WaitFits
    <3>4. Told(k, t, fr[t], over) => Told(m, t, fr[t], over)
      BY <1>1, <2>2 DEF Told
    <3> QED  BY <1>2, <2>2, <3>1, <3>2, <3>3, <3>4 DEF FrameTrue
  <2> QED  BY <2>1, <2>2
<1>4. Needs(m)
  <2> SUFFICES ASSUME NEW t \in Threads, m.blockedAtSem[t] # Null
               PROVE  m.tokensNeeded[t] = IF m.blockedAtSem[t] = semJoinAll(t)
                                          THEN m.numOfActiveChildren[t] ELSE 1
    BY DEF Needs
  <2>1. CASE t # r
    BY <1>1, <2>1 DEF Answers, Needs
  <2> QED  BY <2>1
<1>5. OwnSems(m, over)
  BY <1>1, SemFrames DEF Answers, OwnSems
<1>6. Counted(m, over, left)
  <2>1. \A q : Offspring(m, q, left) = Offspring(k, q, left)
    BY <1>1 DEF Offspring
  <2> QED  BY <1>1, <2>1 DEF Answers, Counted
<1>7. ASSUME NEW u \in Threads, NEW t
      PROVE  Enters(m, u, gr[u], t) <=> Enters(k, u, fr[u], t)
  <2>1. CASE u = r
    <3>1. ~Enters(k, u, fr[u], t)
      BY <2>1 DEF Enters, UserMode, Frame
    <3>2. ~Enters(m, u, gr[u], t)
      BY <1>0, <2>1 DEF Enters, WaitCalls
    <3> QED  BY <3>1, <3>2
  <2>2. CASE u # r
    <3>1. m.unblockManner[u] = k.unblockManner[u] /\ gr[u] = fr[u]
          /\ (WaitsIn(m, u) <=> WaitsIn(k, u))
      BY <1>0, <1>2, <2>2
    <3> QED  BY <3>1 DEF Enters
  <2> QED  BY <2>1, <2>2
<1>8. Mailboxes(m, gr, over, {})
  <2> SUFFICES ASSUME NEW t \in k.created \ over
               PROVE  Mailbox(m, gr, t, t \in {})
    BY <1>1 DEF Mailboxes
  <2>1. t \in Threads
    BY KernelFields
  <2>2. ASSUME gr[t].call = "receive", Enters(m, t, gr[t], t)
        PROVE  fr[t].call = "receive"
    <3>1. Enters(k, t, fr[t], t)
      BY <1>7, <2>1, <2>2
    <3>2. t # r
      BY <3>1 DEF Enters, UserMode, Frame
    <3> QED  BY <1>0, <2>1, <2>2, <3>2
  <2>3. SameMail(k, fr, m, gr, t)
    BY <1>1, <1>7, <2>1, <2>2, SemFrames DEF SameMail
  <2>4. Mailbox(k, fr, t, t \in {})
    BY DEF Answers, Mailboxes
  <2> QED  BY <2>3, <2>4, MailboxDepends
<1> QED  BY <1>3, <1>4, <1>5, <1>6, <1>8 DEF Answers, gr

\* The mailboxes a suspended thread has in its hands when it goes on.
Hands(k, fr, r) == {x \in Threads : Enters(k, r, fr[r], x)}

\* Its frame goes, and the mailboxes are in its hands.
LEMMA LeaveAnswers ==
  ASSUME NEW k \in Kernels, NEW fr \in [Threads -> Frames], NEW over, NEW left,
         Answers(k, fr, over, left, {}), NEW r \in Threads, ~WaitsIn(k, r)
  PROVE  Answers(k, [fr EXCEPT ![r] = UserMode], over, left, Hands(k, fr, r))
<1> DEFINE gr == [fr EXCEPT ![r] = UserMode]
           taken == Hands(k, fr, r)
<1>0. gr[r] = UserMode /\ \A t \in Threads \ {r} : gr[t] = fr[t]
  OBVIOUS
<1> HIDE DEF gr
<1>1. gr[r].call = "user"
  BY <1>0 DEF UserMode, Frame
<1>2. FramesTrue(k, gr, over)
  <2> SUFFICES ASSUME NEW t \in Threads
               PROVE  FrameTrue(k, t, gr[t], over)
    BY DEF FramesTrue
  <2>1. CASE t = r
    <3>1. FrameFits(k, t, gr[t], over)
      BY <1>0, <1>1, <2>1 DEF FrameFits, WaitCalls, TimedCalls
    <3>2. WaitFits(k, t, gr[t])
      BY <2>1 DEF WaitFits, WaitsIn
    <3> QED  BY <1>1, <2>1, <3>1, <3>2 DEF FrameTrue, WaitCalls, TimedCalls
  <2>2. CASE t # r
    BY <1>0, <2>2 DEF Answers, FramesTrue
  <2> QED  BY <2>1, <2>2
<1>3. ASSUME NEW u \in Threads, NEW t
      PROVE  Enters(k, u, gr[u], t) <=> u # r /\ Enters(k, u, fr[u], t)
  BY <1>0, <1>1 DEF Enters
<1>4. ASSUME NEW t \in k.created \ over
      PROVE  Mailbox(k, gr, t, t \in taken)
  <2>0. t \in Threads
    BY KernelFields
  <2>1. Mailbox(k, fr, t, FALSE)
    BY DEF Answers, Mailboxes, Mailbox
  <2>2. Inside(k, gr, t) = Inside(k, fr, t) \ {r}
    BY <1>3 DEF Inside
  <2>3. gr[t].call = "receive" /\ Enters(k, t, gr[t], t) =>
          fr[t].call = "receive" /\ Enters(k, t, fr[t], t)
    BY <1>0, <1>1, <1>3, <2>0
  <2>4. CASE t \in taken
    <3>1. r \in Inside(k, fr, t)
      BY <2>4 DEF Hands, Inside
    <3>2. Slot(k, fr, t)
      BY <2>1 DEF Mailbox
    <3>3. NoSlot(k, gr, t)
      BY <2>2, <3>1, <3>2 DEF Slot, NoSlot
    <3> QED  BY <2>1, <2>3, <2>4, <3>3 DEF Mailbox
  <2>5. CASE t \notin taken
    <3>1. r \notin Inside(k, fr, t)
      BY <2>0, <2>5 DEF Hands, Inside
    <3>2. Inside(k, gr, t) = Inside(k, fr, t)
      BY <2>2, <3>1
    <3>3. Slot(k, gr, t)
      BY <2>1, <3>2 DEF Slot, Mailbox
    <3> QED  BY <2>1, <2>3, <2>5, <3>3 DEF Mailbox
  <2> QED  BY <2>4, <2>5
<1> HIDE DEF taken
<1>5. Mailboxes(k, gr, over, taken)
  BY <1>4 DEF Mailboxes
<1> QED  BY <1>2, <1>5 DEF Answers, gr, taken

-----------------------------------------------------------------------------
\* What is true of a call that returns v to thread r.
Honest(f, k, r, v) ==
  /\ v = TIMEOUT => f.call \in TimedCalls
  /\ v = ERR_SEM_WAITCLOSE => f.call \in {"semWait", "semTimedWait"} /\ f.on \notin k.active
  /\ f.call \in {"join", "timedJoin"} =>
       /\ v = 0 => f.on \in k.finished
       /\ v # ERR_SEM_WAITCLOSE /\ v # ERR_SEM_DEAD
  /\ f.call = "joinAll" => Offspring(k, r, k.finished) = {}
  /\ f.call = "timedJoinAll" => v = Cardinality(Offspring(k, r, k.finished))
  /\ f.call = "receive" => v \in Messages

Truths == ReasonsAreFresh /\ JoinsAreTrue /\ ReceivesAMessage

\* The context of what follows, and what a step of the running kernel does.
Telling ==
  /\ TypeOK /\ Good(kernel)
  /\ Answers(kernel, frame, kernel.finished, kernel.finished, {})

StepTells ==
  /\ Answers(kernel', frame', kernel'.finished, kernel'.finished, {})
  /\ Truths' /\ kernel.created \subseteq kernel'.created

\* A handler whose answer is honest keeps what has been said true.
LEMMA HonestTruths ==
  ASSUME NEW f, NEW m, NEW v, Return(f, m, v), f = TickFrame \/ Honest(f, m, running, v)
  PROVE  Truths'
<1>1. kernel' = m
  BY DEF Return
<1>2. CASE f = TickFrame
  <2>1. returned' = Nothing
    BY <1>2 DEF Return
  <2> QED  BY <2>1 DEF Truths, ReasonsAreFresh, JoinsAreTrue, ReceivesAMessage, Nothing,
                       TIMEOUT, ERR_SEM_WAITCLOSE
<1>3. CASE f # TickFrame /\ Honest(f, m, running, v)
  <2>1. /\ returned'.thread = running /\ returned'.call = f.call
        /\ returned'.on = f.on /\ returned'.value = v
    BY <1>3 DEF Return
  <2>2. LiveChildren(returned.thread)' = Offspring(m, running, m.finished)
    BY <1>1, <2>1 DEF LiveChildren, Children, Offspring
  <2>3. ReasonsAreFresh'
    BY <1>1, <1>3, <2>1 DEF Honest, ReasonsAreFresh, TimedCalls
  <2>4. JoinsAreTrue'
    BY <1>1, <1>3, <2>1, <2>2 DEF Honest, JoinsAreTrue
  <2>5. ReceivesAMessage'
    BY <1>3, <2>1 DEF Honest, ReceivesAMessage
  <2> QED  BY <2>3, <2>4, <2>5 DEF Truths
<1> QED  BY <1>2, <1>3

\* A handler that switches context answers nothing yet.
LEMMA SuspendTruths ==
  ASSUME NEW f, NEW m, Suspend(f, m)
  PROVE  Truths'
<1>1. returned' = Nothing
  BY DEF Suspend
<1> QED  BY <1>1 DEF Truths, ReasonsAreFresh, JoinsAreTrue, ReceivesAMessage, Nothing,
                     TIMEOUT, ERR_SEM_WAITCLOSE

\* What is true of a wait() that returns o to the handler f.
OutcomeFits(f, k, o) ==
  f.call \in WaitCalls =>
    /\ o \in {0, TIMEOUT, ERR_SEM_WAITCLOSE, ERR_SEM_DEAD}
    /\ o = TIMEOUT => f.call \in TimedCalls
    /\ o = ERR_SEM_WAITCLOSE =>
         f.call \in {"send", "semWait", "semTimedWait"}
           /\ WaitPoint(k.running, f) \notin k.active
    /\ f.call \in {"join", "timedJoin"} =>
         /\ o = 0 => f.on \in k.finished
         /\ o # ERR_SEM_WAITCLOSE /\ o # ERR_SEM_DEAD
    /\ f.call = "joinAll" => k.numOfActiveChildren[k.running] = 0
    /\ f.call = "receive" => k.message[k.running] \in Messages

\* The mailbox that a handler has still to give on.
HandsFit(f, k, over, taken) ==
  /\ f.call = "send" => /\ f.on \in Threads /\ f.msg \in Messages
                        /\ taken \subseteq {f.on}
                        /\ f.on \in k.created \ over => taken = {f.on}
  /\ f.call = "receive" => taken = {k.running} /\ k.running \in k.created \ over
  /\ f.call \notin {"send", "receive"} => taken = {}

\* What the handler makes of it is the truth.
LEMMA ResultHonest ==
  ASSUME NEW k \in Kernels, NEW f, NEW o, NEW over, NEW left,
         OutcomeFits(f, k, o), FrameFits(k, k.running, f, k.finished),
         f.call # "user", f # TickFrame,
         Counted(k, k.finished, k.finished)
  PROVE  Honest(f, Rest(f, k), k.running, Result(f, k, o))
<1> DEFINE r == k.running
           v == Result(f, k, o)
           m == Rest(f, k)
<1>0. /\ r \in Threads
      /\ f.call \in WaitCalls \cup {"dispatch", "timeSleep", "threadExit"}
  <2>1. f.call \in {"user", "tick"} => f \in {UserMode, TickFrame}
    BY DEF FrameFits
  <2>2. UserMode.call = "user"
    BY DEF UserMode, Frame
  <2>3. f.call # "tick"
    BY <2>1, <2>2
  <2> QED  BY <2>3, KernelFields DEF FrameFits
<1>1. f.call \notin {"send", "receive"} => m = k
  BY DEF Rest
<1>2. CASE f.call \in {"send", "dispatch", "timeSleep"}
  <2>1. v = 0
    BY <1>2 DEF Result
  <2> QED  BY <1>2, <2>1 DEF Honest, TIMEOUT, ERR_SEM_WAITCLOSE
<1>3. CASE f.call = "threadExit"
  <2>1. v = -1
    BY <1>3 DEF Result, ERR_THREAD_EXIT
  <2> QED  BY <1>3, <2>1 DEF Honest, TIMEOUT, ERR_SEM_WAITCLOSE
<1>4. CASE f.call = "receive"
  <2>1. v = k.message[r] /\ v \in Messages
    BY <1>4 DEF Result, OutcomeFits, WaitCalls
  <2>2. v # TIMEOUT /\ v # ERR_SEM_WAITCLOSE
    BY <2>1, MessagesAssumption
  <2> QED  BY <1>4, <2>1, <2>2 DEF Honest
<1>5. CASE f.call \in {"joinAll", "timedJoinAll"}
  <2>1. r \in k.created \ (k.finished \cup {Master, Idle})
    BY <1>5 DEF FrameFits, UserThreads, WaitCalls, TimedCalls
  <2>2. /\ k.numOfActiveChildren[r] = Cardinality(Offspring(k, r, k.finished))
        /\ IsFiniteSet(Offspring(k, r, k.finished))
        /\ Cardinality(Offspring(k, r, k.finished)) \in Nat
    BY <2>1, OffspringCount DEF Counted
  <2>3. CASE f.call = "joinAll"
    <3>1. v = 0 /\ m = k /\ k.numOfActiveChildren[r] = 0
      BY <1>1, <2>3 DEF Result, OutcomeFits, WaitCalls
    <3>2. Offspring(k, r, k.finished) = {}
      BY <2>2, <3>1, FS_EmptySet
    <3> QED  BY <2>3, <3>1, <3>2 DEF Honest, TIMEOUT, ERR_SEM_WAITCLOSE
  <2>4. CASE f.call = "timedJoinAll"
    <3>1. v = k.numOfActiveChildren[r] /\ m = k
      BY <1>1, <2>4 DEF Result
    <3>2. v # TIMEOUT /\ v # ERR_SEM_WAITCLOSE
      BY <2>2, <3>1 DEF TIMEOUT, ERR_SEM_WAITCLOSE
    <3> QED  BY <2>2, <2>4, <3>1, <3>2 DEF Honest
  <2> QED  BY <1>5, <2>3, <2>4
<1>6. CASE f.call \in {"join", "timedJoin", "semWait", "semTimedWait"}
  <2>1. v = o /\ m = k /\ f.call \in WaitCalls
    BY <1>1, <1>6 DEF Result, WaitCalls, TimedCalls
  <2>2. f.call \in {"semWait", "semTimedWait"} => WaitPoint(r, f) = f.on
    BY DEF WaitPoint
  <2> QED  BY <1>6, <2>1, <2>2 DEF Honest, OutcomeFits
<1> QED  BY <1>0, <1>2, <1>3, <1>4, <1>5, <1>6 DEF WaitCalls, TimedCalls

\* The rest of a handler leaves no mailbox in anybody's hands.
LEMMA RestAnswers ==
  ASSUME NEW k \in Kernels, Good(k), NEW fr, NEW over, NEW left, NEW taken,
         Answers(k, fr, over, left, taken), NEW f \in Frames,
         HandsFit(f, k, over, taken),
         f.call = "receive" => k.message[k.running] \in Messages
  PROVE  Answers(Rest(f, k), fr, over, left, {})
<1>1. CASE f.call \notin {"send", "receive"}
  BY <1>1 DEF Rest, HandsFit
<1>2. CASE f.call = "receive"
  BY <1>2, MailAnswers DEF Rest, HandsFit
<1>3. CASE f.call = "send"
  <2> DEFINE x == f.on
             m == [k EXCEPT !.message[x] = f.msg]
  <2>1. x \in Threads /\ f.msg \in Messages
    BY <1>3 DEF HandsFit
  <2>2. m \in Kernels
    BY <2>1 DEF Kernels
  <2>3. /\ SameThreads(k, m) /\ m.ready = k.ready /\ m.active = k.active
        /\ m.value = k.value /\ m.blocked = k.blocked /\ m.sleepList = k.sleepList
        /\ m.remaining = k.remaining /\ m.blockedAtSem = k.blockedAtSem
        /\ m.tokensNeeded = k.tokensNeeded /\ m.unblockManner = k.unblockManner
        /\ m.parent = k.parent /\ m.numOfActiveChildren = k.numOfActiveChildren
        /\ m.created = k.created /\ m.opened = k.opened
        /\ \A t \in Threads : m.message[t] = IF t = x THEN f.msg ELSE k.message[t]
    BY DEF Kernels, SameThreads
  <2> HIDE DEF m
  <2>4. Good(m)
    BY <2>3, GoodDepends
  <2>5. \A t : (sleeps(m, t) <=> sleeps(k, t)) /\ (WaitsIn(m, t) <=> WaitsIn(k, t))
    BY <2>3 DEF sleeps, WaitsIn
  <2>6. FramesTrue(m, fr, over)
    <3> SUFFICES ASSUME NEW t \in Threads
                 PROVE  FrameTrue(m, t, fr[t], over)
      BY DEF FramesTrue
    <3>1. FrameTrue(k, t, fr[t], over)
      BY DEF Answers, FramesTrue
    <3>2. FrameFits(m, t, fr[t], over)
      BY <2>3, <3>1 DEF FrameTrue, FrameFits
    <3>3. WaitFits(m, t, fr[t])
      BY <2>3, <2>5, <3>1 DEF FrameTrue, WaitFits
    <3>4. Told(k, t, fr[t], over) => Told(m, t, fr[t], over)
      BY <2>3 DEF Told
    <3> QED  BY <2>5, <3>1, <3>2, <3>3, <3>4 DEF FrameTrue
  <2>7. Needs(m) /\ OwnSems(m, over)
    BY <2>3 DEF Answers, Needs, OwnSems
  <2>8. Counted(m, over, left)
    <3>1. \A q : Offspring(m, q, left) = Offspring(k, q, left)
      BY <2>3 DEF Offspring
    <3> QED  BY <2>3, <3>1 DEF Answers, Counted
  <2>9. ASSUME NEW t \in k.created \ over
        PROVE  Mailbox(m, fr, t, t \in taken)
    <3>0. Mailbox(k, fr, t, t \in taken) /\ t \in Threads
      BY KernelFields DEF Answers, Mailboxes
    <3>1. \A u \in Threads : Enters(m, u, fr[u], t) <=> Enters(k, u, fr[u], t)
      BY <2>3, <2>5 DEF Enters
    <3>2. CASE t # x
      <4>1. SameMail(k, fr, m, fr, t)
        BY <2>3, <3>0, <3>1, <3>2 DEF SameMail
      <4> QED  BY <3>0, <4>1, MailboxDepends
    <3>3. CASE t = x
      <4>1. t \in taken
        BY <1>3, <3>3 DEF HandsFit
      <4>2. NoSlot(k, fr, t)
        BY <3>0, <4>1 DEF Mailbox
      <4>3. Inside(m, fr, t) = Inside(k, fr, t)
        BY <3>1 DEF Inside
      <4>4. NoSlot(m, fr, t)
        BY <2>3, <4>2, <4>3 DEF NoSlot
      <4>5. m.message[t] \in Messages
        BY <2>1, <2>3, <3>3
      <4> QED  BY <4>1, <4>4, <4>5 DEF Mailbox
    <3> QED  BY <3>2, <3>3
  <2>10. Mailboxes(m, fr, over, taken)
    BY <2>3, <2>9 DEF Mailboxes
  <2>11. Answers(m, fr, over, left, taken)
    BY <2>6, <2>7, <2>8, <2>10 DEF Answers
  <2>12. Rest(f, k) = Signal(m, semReceive(x))
    BY <1>3 DEF Rest, m
  <2>13. CASE x \in k.created \ over
    <3>1. taken = {x} /\ m.message[x] \in Messages /\ x \in m.created \ over
      BY <1>3, <2>1, <2>3, <2>13 DEF HandsFit
    <3> QED  BY <2>2, <2>4, <2>11, <2>12, <3>1, MailAnswers
  <2>14. CASE x \notin k.created \ over
    <3>1. taken \cap (k.created \ over) = {}
      BY <1>3, <2>14 DEF HandsFit
    <3>2. Mailboxes(m, fr, over, {})
      BY <2>3, <2>9, <3>1 DEF Mailboxes, Mailbox
    <3>3. Answers(m, fr, over, left, {})
      BY <2>6, <2>7, <2>8, <3>2 DEF Answers
    <3>4. Loose(m, semReceive(x), over)
      <4>1. semReceive(x) \in Sems /\ semReceive(x) \in SemsOf(x) /\ m.created \subseteq Threads
        BY <2>1, <2>2, SemFrames, KernelFields DEF SemsOf
      <4> QED  BY <2>1, <2>3, <2>14, <4>1, SemsOfApart DEF Loose
    <3>5. \A t \in Threads : semReceive(x) \notin {semJoin(t), semJoinAll(t)}
      BY <2>1, SemsApart
    <3> QED  BY <2>2, <2>4, <2>12, <3>3, <3>4, <3>5, SignalAnswers
  <2> QED  BY <2>13, <2>14
<1> QED  BY <1>1, <1>2, <1>3

-----------------------------------------------------------------------------
\* A handler that returns at once,
LEMMA ReturnTells ==
  ASSUME Telling, frame[running] = UserMode, NEW m,
         kernel.created \subseteq m.created, NEW f, NEW v,
         Answers(m, frame, m.finished, m.finished, {}),
         Return(f, m, v), f = TickFrame \/ Honest(f, m, running, v)
  PROVE  StepTells
<1>1. frame \in [Threads -> Frames] /\ running \in Threads
  BY DEF Telling, TypeOK, Kernels, running
<1>2. kernel' = m /\ frame' = frame
  BY <1>1 DEF Return
<1>3. Truths'
  BY HonestTruths
<1> QED  BY <1>2, <1>3 DEF StepTells

\* one that has done the rest after its wait,
LEMMA CompleteTells ==
  ASSUME Telling, NEW k \in Kernels, Good(k), k.running = running,
         k.created = kernel.created, NEW f \in Frames, NEW o, NEW taken,
         Answers(k, [frame EXCEPT ![running] = UserMode], k.finished, k.finished, taken),
         HandsFit(f, k, k.finished, taken), OutcomeFits(f, k, o),
         FrameFits(k, running, f, k.finished), f.call # "user",
         Complete(f, k, o)
  PROVE  StepTells
<1> DEFINE m == Rest(f, k)
           fr == [frame EXCEPT ![running] = UserMode]
<1>1. Return(f, m, Result(f, k, o))
  BY DEF Complete
<1>2. kernel' = m /\ frame' = fr
  BY <1>1 DEF Return
<1>3. SameThreads(k, m)
  BY RestKeeps DEF Steady
<1>4. f.call = "receive" => k.message[k.running] \in Messages
  BY DEF OutcomeFits, WaitCalls
<1>5. f = TickFrame \/ Honest(f, m, running, Result(f, k, o))
  <2>1. Counted(k, k.finished, k.finished)
    BY DEF Answers
  <2> QED  BY <2>1, ResultHonest
<1> HIDE DEF fr
<1>6. Answers(m, fr, k.finished, k.finished, {})
  BY <1>4, RestAnswers DEF fr
<1> HIDE DEF m
<1>7. Truths'
  BY <1>1, <1>5, HonestTruths
<1> QED  BY <1>2, <1>3, <1>6, <1>7 DEF StepTells, SameThreads

\* and one that is switched away from.
LEMMA SuspendTells ==
  ASSUME Telling, NEW m, kernel.created \subseteq m.created, NEW f, NEW k \in Kernels,
         Answers(k, [frame EXCEPT ![running] = f], m.finished, m.finished, {}),
         SameStory(k, m), Suspend(f, m)
  PROVE  StepTells
<1>1. kernel' = m /\ frame' = [frame EXCEPT ![running] = f]
  BY DEF Suspend
<1>2. Truths'
  BY SuspendTruths
<1>3. Answers(m, [frame EXCEPT ![running] = f], m.finished, m.finished, {})
  BY StoryAnswers
<1> QED  BY <1>1, <1>2, <1>3 DEF StepTells

\* What the context says of the running thread in user mode.
LEMMA TellingFacts ==
  ASSUME Telling
  PROVE  /\ kernel \in Kernels /\ Good(kernel) /\ running \in Threads
         /\ kernel.running = running /\ running \in kernel.created
         /\ frame \in [Threads -> Frames] /\ Null \notin Sems
         /\ kernel.blockedAtSem[running] = Null /\ ~sleeps(kernel, running)
         /\ running # Idle => running \notin kernel.finished
         /\ frame[running] = UserMode => frame = [frame EXCEPT ![running] = UserMode]
         /\ kernel.finished \subseteq kernel.created
<1>1. kernel \in Kernels /\ running \in Threads /\ frame \in [Threads -> Frames]
  BY DEF Telling, TypeOK, running, Kernels
<1>2. frame[running] = UserMode => frame = [frame EXCEPT ![running] = UserMode]
  BY <1>1
<1>3. /\ kernel.blockedAtSem[running] = Null /\ ~sleeps(kernel, running)
      /\ running # Idle => running \notin kernel.finished
      /\ running \in kernel.created /\ kernel.finished \subseteq kernel.created
  BY DEF Telling, Good, Consistent, Registered, RunnerRuns, WaitsIn, running
<1> QED  BY <1>1, <1>2, <1>3, ThreadsAssumption DEF Telling, running

\* The call of the running thread that waits at s, if it has to.
CallFits(f, s, tokens) ==
  /\ frame[running] = UserMode
  /\ f \in Frames /\ f.call \in WaitCalls
  /\ FrameFits(kernel, running, f, kernel.finished)
  /\ WaitPoint(running, f) = s /\ s \in Sems
  /\ f.call \in {"join", "timedJoin"} => f.on \notin kernel.finished
  /\ tokens = IF f.call \in {"joinAll", "timedJoinAll"}
              THEN kernel.numOfActiveChildren[running] ELSE 1

\* The semaphore and the tokens of a call that fits.
LEMMA CallFacts ==
  ASSUME Telling, NEW f, NEW s, NEW tokens, CallFits(f, s, tokens)
  PROVE  /\ s # Null /\ tokens \in Nat /\ running \in kernel.created \ kernel.finished
         /\ f.call \in {"join", "timedJoin"} =>
              /\ f.on \in kernel.created \ kernel.finished /\ s = semJoin(f.on)
         /\ f.call \in {"joinAll", "timedJoinAll"} => s = semJoinAll(running)
         /\ f.call = "send" =>
              f.on \in kernel.created /\ s = semSend(f.on) /\ f.msg \in Messages
         /\ f.call = "receive" => s = semReceive(running)
         /\ f.call \in {"semWait", "semTimedWait"} => s \in UserSems
         /\ f.call \notin {"joinAll", "timedJoinAll"} => tokens = 1 /\ s # semJoinAll(running)
         /\ f.call \notin {"send", "receive"} =>
              \A t \in kernel.created : s \notin {semSend(t), semReceive(t)}
         /\ s \notin kernel.active =>
              f.call \in {"send", "semWait", "semTimedWait"}
                /\ (f.call = "send" => f.on \in kernel.finished)
         /\ f.call \in {"join", "timedJoin", "joinAll", "timedJoinAll"} =>
              kernel.value[s] = 0
<1>0. /\ kernel \in Kernels /\ running \in Threads /\ Null \notin Sems
      /\ kernel.created \subseteq Threads
  BY TellingFacts, KernelFields
<1>1. /\ f.call \in {"join", "timedJoin"} =>
           f.on \in kernel.created \ kernel.finished /\ s = semJoin(f.on)
      /\ f.call \in {"joinAll", "timedJoinAll"} => s = semJoinAll(running)
      /\ f.call = "send" => f.on \in kernel.created /\ s = semSend(f.on) /\ f.msg \in Messages
      /\ f.call = "receive" => s = semReceive(running)
      /\ f.call \in {"semWait", "semTimedWait"} => s \in UserSems
      /\ s # Null /\ running \in kernel.created \ kernel.finished
  BY <1>0 DEF CallFits, FrameFits, WaitPoint
<1>2. tokens \in Nat
  <2>1. kernel.numOfActiveChildren[running] \in 0 .. CountMod - 1
    BY <1>0 DEF Kernels
  <2> QED  BY <2>1 DEF CallFits
<1>3. /\ \A t \in kernel.created \ kernel.finished : SemsOf(t) \subseteq kernel.active
      /\ \A t \in Threads : kernel.value[semJoin(t)] = 0 /\ kernel.value[semJoinAll(t)] = 0
  BY DEF Telling, Answers, OwnSems
<1>4. f.call \notin {"joinAll", "timedJoinAll"} => tokens = 1 /\ s # semJoinAll(running)
  BY <1>0, <1>1, SemsApart DEF CallFits, WaitCalls, TimedCalls
<1>5. f.call \notin {"send", "receive"} =>
        \A t \in kernel.created : s \notin {semSend(t), semReceive(t)}
  BY <1>0, <1>1, SemsApart DEF CallFits, WaitCalls, TimedCalls
<1>6. s \notin kernel.active =>
        f.call \in {"send", "semWait", "semTimedWait"}
          /\ (f.call = "send" => f.on \in kernel.finished)
  BY <1>0, <1>1, <1>3 DEF SemsOf, CallFits, WaitCalls, TimedCalls
<1>7. f.call \in {"join", "timedJoin", "joinAll", "timedJoinAll"} => kernel.value[s] = 0
  BY <1>0, <1>1, <1>3
<1> QED  BY <1>1, <1>2, <1>4, <1>5, <1>6, <1>7

\* The semaphore is dead: only that of a finished thread or one of the
\* program's can be.
LEMMA DeadTells ==
  ASSUME Telling, NEW f, NEW s, NEW tokens, CallFits(f, s, tokens),
         s \notin kernel.active, Complete(f, kernel, ERR_SEM_DEAD)
  PROVE  StepTells
<1>0. /\ f.call \in {"send", "semWait", "semTimedWait"}
      /\ f.call = "send" => f.on \in kernel.finished /\ f.on \in Threads /\ f.msg \in Messages
  BY CallFacts, TellingFacts, KernelFields
<1>1. OutcomeFits(f, kernel, ERR_SEM_DEAD)
  BY <1>0 DEF OutcomeFits, ERR_SEM_DEAD, TIMEOUT, ERR_SEM_WAITCLOSE
<1>2. HandsFit(f, kernel, kernel.finished, {})
  BY <1>0 DEF HandsFit
<1>3. Answers(kernel, [frame EXCEPT ![running] = UserMode], kernel.finished,
              kernel.finished, {})
  BY TellingFacts DEF Telling, CallFits
<1>4. /\ f \in Frames /\ FrameFits(kernel, running, f, kernel.finished)
      /\ f.call # "user"
  BY <1>0 DEF CallFits
<1>5. kernel \in Kernels /\ Good(kernel) /\ kernel.running = running
  BY TellingFacts
<1> QED  BY <1>1, <1>2, <1>3, <1>4, <1>5, CompleteTells

\* There are tokens: the call is let in.
LEMMA AcquireTells ==
  ASSUME Telling, NEW f, NEW s, NEW tokens, CallFits(f, s, tokens),
         s \in kernel.active, kernel.value[s] >= tokens,
         Complete(f, Acquire(kernel, s, tokens),
                  ResolveManner(Acquire(kernel, s, tokens)))
  PROVE  StepTells
<1> DEFINE k == Acquire(kernel, s, tokens)
           gr == [frame EXCEPT ![running] = UserMode]
           over == kernel.finished
<1>0. /\ kernel \in Kernels /\ Good(kernel) /\ kernel.running = running
      /\ running \in Threads /\ kernel.created \subseteq Threads
      /\ frame[running] = UserMode /\ gr = frame /\ s \in Sems /\ tokens \in Nat
      /\ f \in Frames /\ f.call \in WaitCalls
      /\ FrameFits(kernel, running, f, over)
      /\ Answers(kernel, frame, over, over, {})
  BY TellingFacts, CallFacts, KernelFields DEF CallFits, Telling
<1> HIDE DEF gr
<1>1. k \in Kernels /\ Good(k) /\ Steady(kernel, k)
  BY <1>0, AcquireType, AcquireKeeps
<1>2. /\ k.unblockManner[running] = "REGULAR" /\ Grants(kernel, k)
  BY <1>0, AcquireGrants
<1>3. ResolveManner(k) = 0
  BY <1>0, <1>1, <1>2 DEF ResolveManner, Steady, SameThreads
<1>4. Complete(f, k, 0)
  BY <1>3
<1>5. /\ k.running = running /\ k.created = kernel.created /\ k.finished = over
      /\ k.message = kernel.message /\ k.numOfActiveChildren = kernel.numOfActiveChildren
      /\ k.active = kernel.active /\ k.opened = kernel.opened
  BY <1>0, <1>1, <1>2 DEF Steady, SameThreads, Grants, SameCounts
<1>6. FrameFits(k, running, f, over)
  BY <1>0, <1>5 DEF FrameFits
<1>7. f.call # "user"
  BY <1>0 DEF WaitCalls, TimedCalls
<1>8. CASE f.call \notin {"send", "receive"}
  <2>1. \A t \in kernel.created : s \notin {semSend(t), semReceive(t)}
    BY <1>8, CallFacts
  <2>2. Answers(k, frame, over, over, {})
    BY <1>0, <2>1, AcquireAnswers
  <2>3. HandsFit(f, k, over, {})
    BY <1>8 DEF HandsFit
  <2>4. f.call \notin {"join", "timedJoin"}
    <3>1. f.call \in {"join", "timedJoin"} => tokens = 1 /\ kernel.value[s] = 0
      BY CallFacts
    <3> QED  BY <3>1
  <2>5. f.call = "joinAll" => kernel.numOfActiveChildren[running] = 0
    <3>1. f.call = "joinAll" =>
            /\ kernel.value[s] = 0 /\ tokens = kernel.numOfActiveChildren[running]
            /\ tokens \in Nat
      BY CallFacts DEF CallFits
    <3> QED  BY <3>1
  <2>6. OutcomeFits(f, k, 0)
    BY <1>5, <1>8, <2>4, <2>5 DEF OutcomeFits, TIMEOUT, ERR_SEM_WAITCLOSE, ERR_SEM_DEAD
  <2> HIDE DEF k
  <2> QED  BY <1>0, <1>1, <1>4, <1>5, <1>6, <1>7, <2>2, <2>3, <2>6, CompleteTells DEF gr
<1>9. CASE f.call = "receive"
  <2>1. /\ s = semReceive(running) /\ running \in kernel.created \ over /\ tokens = 1
    BY <1>9, CallFacts
  <2>2. Answers(k, frame, over, over, {running}) /\ kernel.message[running] \in Messages
    BY <1>0, <2>1, AcquireMail
  <2>3. HandsFit(f, k, over, {running})
    BY <1>5, <1>9, <2>1 DEF HandsFit
  <2>4. OutcomeFits(f, k, 0)
    BY <1>5, <1>9, <2>2 DEF OutcomeFits, TIMEOUT, ERR_SEM_WAITCLOSE, ERR_SEM_DEAD
  <2> HIDE DEF k
  <2> QED  BY <1>0, <1>1, <1>4, <1>5, <1>6, <1>7, <2>2, <2>3, <2>4, CompleteTells DEF gr
<1>10. CASE f.call = "send"
  <2>1. /\ s = semSend(f.on) /\ f.on \in kernel.created /\ f.on \in Threads /\ tokens = 1
        /\ f.msg \in Messages
    BY <1>0, <1>10, CallFacts
  <2>2. OutcomeFits(f, k, 0)
    BY <1>10 DEF OutcomeFits, TIMEOUT, ERR_SEM_WAITCLOSE, ERR_SEM_DEAD
  <2>3. CASE f.on \notin over
    <3>1. Answers(k, frame, over, over, {f.on})
      BY <1>0, <2>1, <2>3, AcquireMail
    <3>2. HandsFit(f, k, over, {f.on})
      BY <1>10, <2>1 DEF HandsFit
    <3> HIDE DEF k
    <3> QED  BY <1>0, <1>1, <1>4, <1>5, <1>6, <1>7, <2>2, <3>1, <3>2, CompleteTells DEF gr
  <2>4. CASE f.on \in over
    <3>1. \A t \in kernel.created \ over : s \notin {semSend(t), semReceive(t)}
      BY <1>0, <2>1, <2>4, SemsApart
    <3>2. Answers(k, frame, over, over, {})
      BY <1>0, <3>1, AcquireAnswers
    <3>3. HandsFit(f, k, over, {})
      BY <1>10, <2>1, <2>4 DEF HandsFit
    <3> HIDE DEF k
    <3> QED  BY <1>0, <1>1, <1>4, <1>5, <1>6, <1>7, <2>2, <3>2, <3>3, CompleteTells DEF gr
  <2> QED  BY <2>3, <2>4
<1> QED  BY <1>8, <1>9, <1>10

\* There are not enough, and the call does not wait at all.
LEMMA NoTimeTells ==
  ASSUME Telling, NEW f, NEW s, NEW tokens, CallFits(f, s, tokens),
         f.call \in TimedCalls, kernel.value[s] < tokens,
         Complete(f, BlockForNoTime(kernel, s),
                  ResolveManner(BlockForNoTime(kernel, s)))
  PROVE  StepTells
<1> DEFINE k == BlockForNoTime(kernel, s)
           over == kernel.finished
<1>0. /\ kernel \in Kernels /\ Good(kernel) /\ kernel.running = running
      /\ running \in Threads /\ kernel.created \subseteq Threads
      /\ frame[running] = UserMode /\ [frame EXCEPT ![running] = UserMode] = frame
      /\ s \in Sems /\ f \in Frames /\ f.call \in WaitCalls
      /\ FrameFits(kernel, running, f, over)
      /\ Answers(kernel, frame, over, over, {})
  BY TellingFacts, KernelFields DEF CallFits, Telling
<1>1. k \in Kernels /\ Good(k) /\ Steady(kernel, k)
  BY <1>0, BlockForNoTimeType, BlockForNoTimeKeeps
<1>2. /\ k.unblockManner[running] = "WAIT_TIMEOUT" /\ Grants(kernel, k)
      /\ \A x \in Sems : k.value[x] = IF x = s THEN 0 ELSE kernel.value[x]
  BY <1>0, BlockForNoTimeGrants
<1>3. kernel.value[s] = 0
  <2>1. kernel.value[s] \in Nat
    BY <1>0 DEF Kernels
  <2>2. tokens = 1 \/ kernel.value[s] = 0
    BY CallFacts
  <2> QED  BY <2>1, <2>2
<1> HIDE DEF k
<1>4. \A x \in Sems : k.value[x] = kernel.value[x]
  BY <1>2, <1>3
<1>5. /\ k.running = running /\ k.created = kernel.created /\ k.finished = over
  BY <1>0, <1>1 DEF Steady, SameThreads
<1>6. \A t \in Threads : k.value[semJoin(t)] = 0 /\ k.value[semJoinAll(t)] = 0
  BY <1>0, <1>4, SemFrames DEF Answers, OwnSems
<1>7. \A t \in kernel.created \ over :
         /\ k.value[semSend(t)] = kernel.value[semSend(t)]
         /\ k.value[semReceive(t)] = kernel.value[semReceive(t)]
  BY <1>0, <1>4, SemFrames
<1>8. Answers(k, frame, over, over, {})
  BY <1>0, <1>2, <1>6, <1>7, GrantAnswers
<1>9. ResolveManner(k) = TIMEOUT
  BY <1>2, <1>5 DEF ResolveManner
<1>10. FrameFits(k, running, f, over) /\ f.call # "user"
  BY <1>0, <1>2 DEF FrameFits, Grants, SameCounts, WaitCalls, TimedCalls
<1>11. HandsFit(f, k, over, {})
  BY DEF HandsFit, TimedCalls
<1>12. OutcomeFits(f, k, TIMEOUT)
  BY DEF OutcomeFits, TimedCalls, TIMEOUT, ERR_SEM_WAITCLOSE, ERR_SEM_DEAD
<1>13. Complete(f, k, TIMEOUT)
  BY <1>9 DEF k
<1> QED  BY <1>0, <1>1, <1>5, <1>8, <1>10, <1>11, <1>12, <1>13, CompleteTells

\* What Block changes,
LEMMA BlockFields ==
  ASSUME NEW k \in Kernels, NEW s, NEW tokens
  PROVE  LET m == Block(k, s, tokens)
         IN  /\ SameCounts(k, m) /\ m.active = k.active /\ m.finished = k.finished
             /\ m.remaining = k.remaining /\ m.unblockManner = k.unblockManner
             /\ \A x \in Sems : m.value[x] = IF x = s THEN 0 ELSE k.value[x]
             /\ \A t \in Threads \ {k.running} :
                  /\ m.blockedAtSem[t] = k.blockedAtSem[t]
                  /\ m.tokensNeeded[t] = k.tokensNeeded[t]
             /\ m.blockedAtSem[k.running] = s
             /\ m.tokensNeeded[k.running] = tokens - k.value[s]
BY DEF Block, SameCounts, Kernels

\* and SleepPut.
LEMMA SleepPutFields ==
  ASSUME NEW k \in Kernels, NEW r \in Threads, NEW timeout \in Nat
  PROVE  LET m == SleepPut(k, r, timeout)
         IN  /\ SameCounts(k, m) /\ m.active = k.active /\ m.finished = k.finished
             /\ m.value = k.value /\ m.unblockManner = k.unblockManner
             /\ m.blockedAtSem = k.blockedAtSem /\ m.tokensNeeded = k.tokensNeeded
             /\ \A t \in Threads : m.remaining[t] =
                  IF t = r THEN timeout ELSE k.remaining[t]
BY DEF SleepPut, SameCounts, Kernels

\* The running thread is switched away from in the handler f: k is the record
\* before the yield.
LEMMA AwayTells ==
  ASSUME Telling, frame[running] = UserMode, NEW k \in Kernels,
         SameCounts(kernel, k), k.active = kernel.active, k.finished = kernel.finished,
         \A s \in Sems : k.value[s] = kernel.value[s],
         \A t \in Threads \ {running} :
            /\ k.blockedAtSem[t] = kernel.blockedAtSem[t]
            /\ k.remaining[t] = kernel.remaining[t]
            /\ k.tokensNeeded[t] = kernel.tokensNeeded[t]
            /\ k.unblockManner[t] = kernel.unblockManner[t],
         NEW f, FrameFits(k, running, f, kernel.finished), WaitFits(k, running, f),
         WaitsIn(k, running) \/ f.call \notin WaitCalls,
         k.blockedAtSem[running] # Null =>
           k.tokensNeeded[running] = IF k.blockedAtSem[running] = semJoinAll(running)
                                     THEN k.numOfActiveChildren[running] ELSE 1,
         NEW schPut, Suspend(f, Yield(k, schPut))
  PROVE  StepTells
<1> DEFINE y == Yield(k, schPut)
           over == kernel.finished
<1>0. /\ kernel \in Kernels /\ running \in Threads /\ frame \in [Threads -> Frames]
      /\ Answers(kernel, frame, over, over, {})
  BY TellingFacts DEF Telling
<1>1. Answers(k, [frame EXCEPT ![running] = f], over, over, {})
  BY <1>0, SuspendAnswers
<1>2. SameStory(k, y)
  BY YieldStory
<1>3. y.finished = k.finished
  BY DEF Yield, SchedulerPut, SchedulerGet, Kernels
<1>4. kernel.created \subseteq y.created
  BY <1>2 DEF SameStory, SameCounts
<1> HIDE DEF y
<1>5. Suspend(f, y)
  BY DEF y
<1>6. Answers(k, [frame EXCEPT ![running] = f], y.finished, y.finished, {})
  BY <1>1, <1>3
<1> QED  BY <1>2, <1>4, <1>5, <1>6, SuspendTells

\* A call that waits blocks with what it needs, which is all it asked for.
LEMMA ShortOfTokens ==
  ASSUME Telling, NEW f, NEW s, NEW tokens, CallFits(f, s, tokens),
         kernel.value[s] < tokens
  PROVE  LET b == Block(kernel, s, tokens)
         IN  /\ b \in Kernels /\ SameCounts(kernel, b) /\ b.active = kernel.active
             /\ b.finished = kernel.finished /\ b.remaining = kernel.remaining
             /\ b.unblockManner = kernel.unblockManner
             /\ \A x \in Sems : b.value[x] = kernel.value[x]
             /\ \A t \in Threads \ {running} :
                  /\ b.blockedAtSem[t] = kernel.blockedAtSem[t]
                  /\ b.tokensNeeded[t] = kernel.tokensNeeded[t]
             /\ b.blockedAtSem[running] = s /\ s # Null
             /\ b.tokensNeeded[running] = IF s = semJoinAll(running)
                                          THEN b.numOfActiveChildren[running] ELSE 1
             /\ WaitsIn(b, running)
             /\ FrameFits(b, running, f, kernel.finished)
             /\ WaitPoint(running, f) = s
<1> DEFINE b == Block(kernel, s, tokens)
<1>0. /\ kernel \in Kernels /\ kernel.running = running /\ running \in Threads
      /\ s \in Sems /\ s # Null /\ tokens \in Nat
      /\ FrameFits(kernel, running, f, kernel.finished) /\ WaitPoint(running, f) = s
  BY TellingFacts, CallFacts DEF CallFits
<1>1. kernel.value[s] \in Nat
  BY <1>0 DEF Kernels
<1>2. kernel.value[s] = 0
  <2>1. tokens = 1 \/ kernel.value[s] = 0
    BY CallFacts
  <2> QED  BY <1>1, <2>1
<1>3. tokens - kernel.value[s] = tokens
  BY <1>0, <1>2
<1>4. /\ SameCounts(kernel, b) /\ b.active = kernel.active
      /\ b.finished = kernel.finished /\ b.remaining = kernel.remaining
      /\ b.unblockManner = kernel.unblockManner
      /\ \A x \in Sems : b.value[x] = IF x = s THEN 0 ELSE kernel.value[x]
      /\ \A t \in Threads \ {running} :
           /\ b.blockedAtSem[t] = kernel.blockedAtSem[t]
           /\ b.tokensNeeded[t] = kernel.tokensNeeded[t]
      /\ b.blockedAtSem[running] = s
      /\ b.tokensNeeded[running] = tokens
  BY <1>0, <1>3, BlockFields
<1>5. b \in Kernels
  BY <1>0, <1>2, BlockType
<1> HIDE DEF b
<1>6. \A x \in Sems : b.value[x] = kernel.value[x]
  BY <1>2, <1>4
<1>7. tokens = IF s = semJoinAll(running)
               THEN b.numOfActiveChildren[running] ELSE 1
  <2>1. CASE f.call \in {"joinAll", "timedJoinAll"}
    BY <1>4, <2>1, CallFacts DEF CallFits, SameCounts
  <2>2. CASE f.call \notin {"joinAll", "timedJoinAll"}
    BY <2>2, CallFacts
  <2> QED  BY <2>1, <2>2
<1>8. WaitsIn(b, running)
  BY <1>0, <1>4 DEF WaitsIn
<1>9. FrameFits(b, running, f, kernel.finished)
  BY <1>0, <1>4 DEF FrameFits, SameCounts
<1> QED  BY <1>0, <1>4, <1>5, <1>6, <1>7, <1>8, <1>9 DEF b

\* A call that blocks leaves a frame that is true,
LEMMA BlockTells ==
  ASSUME Telling, NEW f, NEW s, NEW tokens, CallFits(f, s, tokens),
         kernel.value[s] < tokens,
         Suspend(f, Yield(Block(kernel, s, tokens), FALSE))
  PROVE  StepTells
<1> DEFINE b == Block(kernel, s, tokens)
<1>1. /\ b \in Kernels /\ SameCounts(kernel, b) /\ b.active = kernel.active
      /\ b.finished = kernel.finished /\ b.remaining = kernel.remaining
      /\ b.unblockManner = kernel.unblockManner
      /\ \A x \in Sems : b.value[x] = kernel.value[x]
      /\ \A t \in Threads \ {running} :
           /\ b.blockedAtSem[t] = kernel.blockedAtSem[t]
           /\ b.tokensNeeded[t] = kernel.tokensNeeded[t]
      /\ b.blockedAtSem[running] = s
      /\ b.tokensNeeded[running] = IF s = semJoinAll(running)
                                   THEN b.numOfActiveChildren[running] ELSE 1
      /\ WaitsIn(b, running) /\ FrameFits(b, running, f, kernel.finished)
      /\ WaitPoint(running, f) = s
  BY ShortOfTokens
<1>2. Suspend(f, Yield(b, FALSE)) /\ frame[running] = UserMode
  BY DEF CallFits
<1> HIDE DEF b
<1>3. ~sleeps(b, running)
  BY <1>1, TellingFacts DEF sleeps
<1>4. WaitFits(b, running, f)
  BY <1>1, <1>3 DEF WaitFits
<1> QED  BY <1>1, <1>2, <1>4, AwayTells

\* also when it blocks and sleeps.
LEMMA BlockSleepTells ==
  ASSUME Telling, NEW f, NEW s, NEW tokens, CallFits(f, s, tokens),
         f.call \in TimedCalls, NEW timeout \in Nat, timeout > 0,
         kernel.value[s] < tokens,
         Suspend(f, Yield(SleepPut(Block(kernel, s, tokens), running, timeout), FALSE))
  PROVE  StepTells
<1> DEFINE b == Block(kernel, s, tokens)
           k == SleepPut(b, running, timeout)
<1>1. /\ b \in Kernels /\ SameCounts(kernel, b) /\ b.active = kernel.active
      /\ b.finished = kernel.finished /\ b.remaining = kernel.remaining
      /\ b.unblockManner = kernel.unblockManner
      /\ \A x \in Sems : b.value[x] = kernel.value[x]
      /\ \A t \in Threads \ {running} :
           /\ b.blockedAtSem[t] = kernel.blockedAtSem[t]
           /\ b.tokensNeeded[t] = kernel.tokensNeeded[t]
      /\ b.blockedAtSem[running] = s /\ s # Null
      /\ b.tokensNeeded[running] = IF s = semJoinAll(running)
                                   THEN b.numOfActiveChildren[running] ELSE 1
      /\ FrameFits(b, running, f, kernel.finished)
      /\ WaitPoint(running, f) = s
  BY ShortOfTokens
<1>2. /\ Suspend(f, Yield(k, FALSE)) /\ frame[running] = UserMode
      /\ running \in Threads
  BY TellingFacts DEF CallFits
<1> HIDE DEF b
<1>3. /\ SameCounts(b, k) /\ k.active = b.active /\ k.finished = b.finished
      /\ k.value = b.value /\ k.unblockManner = b.unblockManner
      /\ k.blockedAtSem = b.blockedAtSem /\ k.tokensNeeded = b.tokensNeeded
      /\ \A t \in Threads : k.remaining[t] =
           IF t = running THEN timeout ELSE b.remaining[t]
  BY <1>1, <1>2, SleepPutFields
<1>4. k \in Kernels
  BY <1>1, <1>2, SleepPutType
<1> HIDE DEF k
<1>5. /\ SameCounts(kernel, k) /\ k.active = kernel.active
      /\ k.finished = kernel.finished
      /\ \A x \in Sems : k.value[x] = kernel.value[x]
      /\ \A t \in Threads \ {running} :
            /\ k.blockedAtSem[t] = kernel.blockedAtSem[t]
            /\ k.remaining[t] = kernel.remaining[t]
            /\ k.tokensNeeded[t] = kernel.tokensNeeded[t]
            /\ k.unblockManner[t] = kernel.unblockManner[t]
  BY <1>1, <1>3 DEF SameCounts
<1>6. FrameFits(k, running, f, kernel.finished)
  BY <1>1, <1>3 DEF FrameFits, SameCounts
<1>7. WaitFits(k, running, f) /\ WaitsIn(k, running)
  BY <1>1, <1>3 DEF WaitFits, WaitsIn
<1>8. k.blockedAtSem[running] # Null =>
           k.tokensNeeded[running] = IF k.blockedAtSem[running] = semJoinAll(running)
                                     THEN k.numOfActiveChildren[running] ELSE 1
  BY <1>1, <1>3 DEF SameCounts
<1> QED  BY <1>2, <1>4, <1>5, <1>6, <1>7, <1>8, AwayTells

-----------------------------------------------------------------------------
\* kSemaphore::wait and timedWait, in every case of them.
LEMMA WaitTells ==
  ASSUME Telling, NEW f, NEW s, NEW tokens, CallFits(f, s, tokens),
         Wait(f, s, tokens)
  PROVE  StepTells
<1>1. CASE s \notin kernel.active /\ Complete(f, kernel, ERR_SEM_DEAD)
  BY <1>1, DeadTells
<1>2. CASE /\ s \in kernel.active /\ kernel.value[s] >= tokens
           /\ Complete(f, Acquire(kernel, s, tokens),
                       ResolveManner(Acquire(kernel, s, tokens)))
  BY <1>2, AcquireTells
<1>3. CASE /\ kernel.value[s] < tokens
           /\ Suspend(f, Yield(Block(kernel, s, tokens), FALSE))
  BY <1>3, BlockTells
<1> QED  BY <1>1, <1>2, <1>3 DEF Wait

\* Every outcome of a wait with a timeout.
LEMMA TimedWaitTells ==
  ASSUME Telling, NEW f, NEW s, NEW tokens, CallFits(f, s, tokens),
         f.call \in TimedCalls, NEW timeout \in Nat, TimedWait(f, s, timeout, tokens)
  PROVE  StepTells
<1>1. CASE s \notin kernel.active /\ Complete(f, kernel, ERR_SEM_DEAD)
  BY <1>1, DeadTells
<1>2. CASE /\ s \in kernel.active /\ kernel.value[s] >= tokens
           /\ Complete(f, Acquire(kernel, s, tokens),
                       ResolveManner(Acquire(kernel, s, tokens)))
  BY <1>2, AcquireTells
<1>3. CASE /\ kernel.value[s] < tokens
           /\ Complete(f, BlockForNoTime(kernel, s),
                       ResolveManner(BlockForNoTime(kernel, s)))
  BY <1>3, NoTimeTells
<1>4. CASE /\ kernel.value[s] < tokens /\ timeout > 0
           /\ Suspend(f, Yield(SleepPut(Block(kernel, s, tokens), running, timeout),
                               FALSE))
  BY <1>4, BlockSleepTells
<1> QED  BY <1>1, <1>2, <1>3, <1>4 DEF TimedWait

-----------------------------------------------------------------------------
(***************************************************************************)
(* The steps.                                                              *)
(***************************************************************************)
\* What a system call of a thread that is not the idle one may rely on.
LEMMA CallerFacts ==
  ASSUME Telling, running # Idle
  PROVE  /\ running \in kernel.created \ kernel.finished /\ running \in Threads
         /\ Answers(kernel, frame, kernel.finished, kernel.finished, {})
         /\ kernel.created \subseteq Threads /\ Null \notin Sems
BY TellingFacts, KernelFields DEF Telling

\* join,
LEMMA JoinTells ==
  ASSUME Telling, frame[running] = UserMode, running # Idle,
         NEW t \in kernel.created, Join(t)
  PROVE  StepTells
<1> DEFINE f == Frame("join", t, Null)
<1>0. /\ running \in kernel.created \ kernel.finished /\ running \in Threads
      /\ t \in Threads
      /\ Answers(kernel, frame, kernel.finished, kernel.finished, {})
  BY CallerFacts
<1>1. /\ f \in Frames /\ f.call = "join" /\ f.on = t /\ f # TickFrame
      /\ semJoin(t) \in Sems
  BY <1>0, FrameType, SemFrames DEF CallNames, Frame, TickFrame
<1>2. FrameFits(kernel, running, f, kernel.finished)
  BY <1>0, <1>1 DEF FrameFits, WaitCalls, TimedCalls
<1>3. WaitPoint(running, f) = semJoin(t)
  BY <1>1 DEF WaitPoint
<1> HIDE DEF f
<1>4. CASE Return(f, kernel, ERR_THREAD_SELFJOIN)
  <2>1. Honest(f, kernel, running, ERR_THREAD_SELFJOIN)
    BY <1>1 DEF Honest, ERR_THREAD_SELFJOIN, TIMEOUT, ERR_SEM_WAITCLOSE, ERR_SEM_DEAD
  <2> QED  BY <1>0, <1>4, <2>1, ReturnTells
<1>5. CASE t \in kernel.finished /\ Return(f, kernel, 0)
  <2>1. Honest(f, kernel, running, 0)
    BY <1>1, <1>5 DEF Honest, TIMEOUT, ERR_SEM_WAITCLOSE, ERR_SEM_DEAD
  <2> QED  BY <1>0, <1>5, <2>1, ReturnTells
<1>6. CASE t \notin kernel.finished /\ Wait(f, semJoin(t), 1)
  <2>1. CallFits(f, semJoin(t), 1)
    BY <1>1, <1>2, <1>3, <1>6 DEF CallFits, WaitCalls
  <2> QED  BY <1>6, <2>1, WaitTells
<1> QED  BY <1>4, <1>5, <1>6 DEF Join, f

\* the same with a timeout,
LEMMA TimedJoinTells ==
  ASSUME Telling, frame[running] = UserMode, running # Idle,
         NEW t \in kernel.created, NEW timeout \in Nat, TimedJoin(t, timeout)
  PROVE  StepTells
<1> DEFINE f == Frame("timedJoin", t, Null)
<1>0. /\ running \in kernel.created \ kernel.finished /\ running \in Threads
      /\ t \in Threads
      /\ Answers(kernel, frame, kernel.finished, kernel.finished, {})
  BY CallerFacts
<1>1. /\ f \in Frames /\ f.call = "timedJoin" /\ f.on = t /\ f # TickFrame
      /\ semJoin(t) \in Sems
  BY <1>0, FrameType, SemFrames DEF CallNames, Frame, TickFrame
<1>2. FrameFits(kernel, running, f, kernel.finished)
  BY <1>0, <1>1 DEF FrameFits, WaitCalls, TimedCalls
<1>3. WaitPoint(running, f) = semJoin(t)
  BY <1>1 DEF WaitPoint
<1> HIDE DEF f
<1>4. CASE Return(f, kernel, ERR_THREAD_SELFJOIN)
  <2>1. Honest(f, kernel, running, ERR_THREAD_SELFJOIN)
    BY <1>1 DEF Honest, ERR_THREAD_SELFJOIN, TIMEOUT, ERR_SEM_WAITCLOSE, ERR_SEM_DEAD
  <2> QED  BY <1>0, <1>4, <2>1, ReturnTells
<1>5. CASE t \in kernel.finished /\ Return(f, kernel, 0)
  <2>1. Honest(f, kernel, running, 0)
    BY <1>1, <1>5 DEF Honest, TIMEOUT, ERR_SEM_WAITCLOSE, ERR_SEM_DEAD
  <2> QED  BY <1>0, <1>5, <2>1, ReturnTells
<1>6. CASE t \notin kernel.finished /\ TimedWait(f, semJoin(t), timeout, 1)
  <2>1. CallFits(f, semJoin(t), 1) /\ f.call \in TimedCalls
    BY <1>1, <1>2, <1>3, <1>6 DEF CallFits, WaitCalls, TimedCalls
  <2> QED  BY <1>6, <2>1, TimedWaitTells
<1> QED  BY <1>4, <1>5, <1>6 DEF TimedJoin, f

\* time_sleep,
LEMMA TimeSleepTells ==
  ASSUME Telling, frame[running] = UserMode, running # Idle,
         NEW timeout \in Nat, TimeSleep(timeout)
  PROVE  StepTells
<1> DEFINE f == Frame("timeSleep", Null, Null)
           k == SleepPut(kernel, running, timeout)
<1>0. /\ running \in kernel.created /\ running \in Threads /\ kernel \in Kernels
      /\ Answers(kernel, frame, kernel.finished, kernel.finished, {})
      /\ kernel.blockedAtSem[running] = Null
  BY CallerFacts, TellingFacts
<1>1. f.call = "timeSleep"
  BY DEF Frame
<1> HIDE DEF f
<1>2. CASE Return(f, kernel, ERR_SLEEP_ZERO)
  <2>1. Honest(f, kernel, running, ERR_SLEEP_ZERO)
    BY <1>1 DEF Honest, ERR_SLEEP_ZERO, TIMEOUT, ERR_SEM_WAITCLOSE, ERR_SEM_DEAD
  <2> QED  BY <1>0, <1>2, <2>1, ReturnTells
<1>3. CASE Suspend(f, Yield(k, FALSE))
  <2>1. /\ SameCounts(kernel, k) /\ k.active = kernel.active
        /\ k.finished = kernel.finished /\ k.value = kernel.value
        /\ k.unblockManner = kernel.unblockManner
        /\ k.blockedAtSem = kernel.blockedAtSem /\ k.tokensNeeded = kernel.tokensNeeded
        /\ \A t \in Threads : k.remaining[t] =
             IF t = running THEN timeout ELSE kernel.remaining[t]
    BY <1>0, SleepPutFields
  <2>2. k \in Kernels
    BY <1>0, SleepPutType
  <2> HIDE DEF k
  <2>3. FrameFits(k, running, f, kernel.finished)
    BY <1>0, <1>1, <2>1 DEF FrameFits, SameCounts, WaitCalls, TimedCalls
  <2>4. WaitFits(k, running, f)
    BY <1>0, <1>1, <2>1 DEF WaitFits
  <2>5. f.call \notin WaitCalls
    BY <1>1 DEF WaitCalls, TimedCalls
  <2> QED  BY <1>0, <1>3, <2>1, <2>2, <2>3, <2>4, <2>5, AwayTells
<1> QED  BY <1>2, <1>3 DEF TimeSleep, f

\* and the end of a thread.
LEMMA ExitTells ==
  ASSUME Telling, frame[running] = UserMode, Exit
  PROVE  StepTells
<1> DEFINE f == Frame("threadExit", Null, Null)
           m == Finish(kernel)
<1>0. /\ kernel \in Kernels /\ Good(kernel) /\ kernel.running = running
      /\ running \in Threads /\ running \in kernel.created
      /\ frame \in [Threads -> Frames]
      /\ Answers(kernel, frame, kernel.finished, kernel.finished, {})
  BY TellingFacts DEF Telling
<1>1. /\ m.finished = kernel.finished \cup {running}
      /\ Answers(m, frame, m.finished, m.finished, {})
  BY <1>0, FinishAnswers
<1>2. m \in Kernels /\ Good(m) /\ m.created = kernel.created
  BY <1>0, FinishType, FinishKeeps
<1>3. f.call = "threadExit"
  BY DEF Frame
<1>4. Suspend(f, m)
  BY DEF Exit
<1> HIDE DEF f, m
<1>5. ~WaitsIn(m, running)
  BY <1>0, <1>1, <1>2 DEF Good, Consistent, WaitersLive
<1>6. FrameFits(m, running, f, m.finished)
  BY <1>0, <1>2, <1>3 DEF FrameFits, WaitCalls, TimedCalls
<1>7. WaitFits(m, running, f) /\ m.blockedAtSem[running] = Null
  BY <1>5 DEF WaitFits, WaitsIn
<1>8. f.call \notin WaitCalls
  BY <1>3 DEF WaitCalls, TimedCalls
<1>9. SameCounts(m, m) /\ SameStory(m, m)
  BY DEF SameCounts, SameStory
<1>10. Answers(m, [frame EXCEPT ![running] = f], m.finished, m.finished, {})
  BY <1>0, <1>1, <1>2, <1>6, <1>7, <1>8, <1>9, SuspendAnswers
<1> QED  BY <1>2, <1>4, <1>9, <1>10, SuspendTells

\* A call that returns at once and promises nothing: what it returns is none
\* of the reasons a wait gives.
LEMMA PlainTells ==
  ASSUME Telling, frame[running] = UserMode, NEW m, kernel.created \subseteq m.created,
         NEW call, call \notin WaitCalls, NEW on,
         NEW v, v \in {-1, 0, 1}, Return(Frame(call, on, Null), m, v),
         Answers(m, frame, m.finished, m.finished, {})
  PROVE  StepTells
<1> DEFINE f == Frame(call, on, Null)
<1>1. f.call \notin WaitCalls
  BY DEF Frame
<1>2. Return(f, m, v)
  OBVIOUS
<1> HIDE DEF f
<1>3. v # TIMEOUT /\ v # ERR_SEM_WAITCLOSE
  BY DEF TIMEOUT, ERR_SEM_WAITCLOSE
<1>4. Honest(f, m, running, v)
  BY <1>1, <1>3 DEF Honest, WaitCalls, TimedCalls
<1> QED  BY <1>2, <1>4, ReturnTells

\* Creating a thread counts it and opens an empty mailbox.
LEMMA CreateTells ==
  ASSUME Telling, frame[running] = UserMode, NEW t \in Threads \ kernel.created,
         t # Idle, Return(Frame("threadCreate", t, Null), ThreadCreate(kernel, t), 0)
  PROVE  StepTells /\ t \in kernel'.created
<1> DEFINE m == ThreadCreate(kernel, t)
<1>0. /\ kernel \in Kernels /\ Good(kernel) /\ kernel.running = running
      /\ kernel.finished \subseteq kernel.created
      /\ Answers(kernel, frame, kernel.finished, kernel.finished, {})
  BY TellingFacts DEF Telling
<1>1. /\ m.created = kernel.created \cup {t} /\ m.finished = kernel.finished
  BY <1>0 DEF ThreadCreate, SchedulerPut, Kernels
<1>2. Answers(m, frame, kernel.finished, kernel.finished, {})
  BY <1>0, ThreadCreateAnswers
<1>3. Return(Frame("threadCreate", t, Null), m, 0)
  OBVIOUS
<1> HIDE DEF m
<1>4. Answers(m, frame, m.finished, m.finished, {})
  BY <1>1, <1>2
<1>5. kernel' = m
  BY <1>3 DEF Return
<1>6. StepTells
  BY <1>1, <1>3, <1>4, PlainTells DEF WaitCalls, TimedCalls
<1> QED  BY <1>1, <1>5, <1>6

\* Opening, closing, signalling and trying a semaphore of the program.
LEMMA SemaphoreTells ==
  ASSUME Telling, frame[running] = UserMode,
         handleSemOpen \/ handleSemClose \/ handleSemSignal \/ handleSemTryWait
  PROVE  StepTells
<1>0. /\ kernel \in Kernels /\ Good(kernel) /\ kernel.created \subseteq Threads
      /\ Answers(kernel, frame, kernel.finished, kernel.finished, {})
      /\ kernel.created \subseteq kernel.created
  BY TellingFacts, KernelFields DEF Telling
<1>1. ASSUME NEW s \in OpenSems
      PROVE  /\ s \in Sems /\ Loose(kernel, s, kernel.finished)
             /\ \A t \in Threads : s \notin {semJoin(t), semJoinAll(t), semSend(t), semReceive(t)}
  <2>1. s \in UserSems /\ s \in Sems
    BY SemFrames DEF OpenSems
  <2>2. \A t \in Threads :
          s \notin {semJoin(t), semJoinAll(t), semSend(t), semReceive(t)}
    BY <2>1, SemsApart
  <2> QED  BY <1>0, <2>1, <2>2 DEF Loose, SemsOf
<1>2. CASE handleSemOpen
  <2>1. PICK s \in UserSems \ kernel.opened, init \in 0 .. MaxInit :
          Return(Frame("semOpen", s, Null), SemCreate(kernel, s, init), 0)
    BY <1>2 DEF handleSemOpen
  <2> DEFINE m == SemCreate(kernel, s, init)
  <2>2. init \in Nat
    BY ParametersAssumption
  <2>3. m.created = kernel.created /\ m.finished = kernel.finished
    BY <1>0 DEF SemCreate, Kernels
  <2>4. Answers(m, frame, kernel.finished, kernel.finished, {})
    BY <1>0, <2>2, SemCreateAnswers
  <2>5. Return(Frame("semOpen", s, Null), m, 0)
    BY <2>1
  <2> HIDE DEF m
  <2> QED  BY <2>3, <2>4, <2>5, PlainTells DEF WaitCalls, TimedCalls
<1>3. CASE handleSemClose
  <2>1. PICK s \in OpenSems :
          Return(Frame("semClose", s, Null), Close(kernel, s),
                 IF s \in kernel.active THEN 0 ELSE ERR_SEM_DEAD)
    BY <1>3 DEF handleSemClose
  <2> DEFINE m == Close(kernel, s)
             v == IF s \in kernel.active THEN 0 ELSE ERR_SEM_DEAD
  <2>2. Answers(m, frame, kernel.finished, kernel.finished, {})
    <3>1. \A t, u \in Threads : kernel.blockedAtSem[t] = s => s # semJoin(u)
      BY <1>1
    <3> QED  BY <1>0, <1>1, <3>1, CloseAnswers
  <2>3. m.created = kernel.created /\ m.finished = kernel.finished
    BY <1>0, <1>1, CloseKeeps DEF Steady, SameThreads
  <2>4. Return(Frame("semClose", s, Null), m, v) /\ v \in {-1, 0, 1}
    BY <2>1 DEF ERR_SEM_DEAD
  <2> HIDE DEF m, v
  <2> QED  BY <2>2, <2>3, <2>4, PlainTells DEF WaitCalls, TimedCalls
<1>4. CASE handleSemSignal
  <2>1. PICK s \in OpenSems :
          Return(Frame("semSignal", s, Null), Signal(kernel, s),
                 IF s \in kernel.active THEN 0 ELSE ERR_SEM_DEAD)
    BY <1>4 DEF handleSemSignal
  <2> DEFINE m == Signal(kernel, s)
             v == IF s \in kernel.active THEN 0 ELSE ERR_SEM_DEAD
  <2>2. Answers(m, frame, kernel.finished, kernel.finished, {})
    <3>1. \A t \in Threads : s \notin {semJoin(t), semJoinAll(t)}
      BY <1>1
    <3> QED  BY <1>0, <1>1, <3>1, SignalAnswers
  <2>3. m.created = kernel.created /\ m.finished = kernel.finished
    BY <1>0, <1>1, SignalKeeps DEF Steady, SameThreads
  <2>4. Return(Frame("semSignal", s, Null), m, v) /\ v \in {-1, 0, 1}
    BY <2>1 DEF ERR_SEM_DEAD
  <2> HIDE DEF m, v
  <2> QED  BY <2>2, <2>3, <2>4, PlainTells DEF WaitCalls, TimedCalls
<1>5. CASE handleSemTryWait
  <2>1. PICK s \in OpenSems :
          LET f == Frame("semTryWait", s, Null)
          IN  \/ /\ s \notin kernel.active
                 /\ Return(f, kernel, ERR_SEM_DEAD)
              \/ /\ s \in kernel.active /\ kernel.value[s] >= 1
                 /\ Return(f, Acquire(kernel, s, 1), 0)
              \/ /\ s \in kernel.active /\ kernel.value[s] = 0
                 /\ Return(f, Acquire(kernel, s, 0), 1)
    BY <1>5 DEF handleSemTryWait
  <2>2. ASSUME NEW n \in Nat, kernel.value[s] >= n, NEW v \in {-1, 0, 1},
               Return(Frame("semTryWait", s, Null), Acquire(kernel, s, n), v)
        PROVE  StepTells
    <3> DEFINE m == Acquire(kernel, s, n)
    <3>1. Answers(m, frame, kernel.finished, kernel.finished, {})
      <4>1. /\ s \in Sems
            /\ \A t \in kernel.created \ kernel.finished :
                 s \notin {semSend(t), semReceive(t)}
        BY <1>0, <1>1
      <4>2. kernel.running = running
        BY DEF running
      <4> QED  BY <1>0, <2>2, <4>1, <4>2, AcquireAnswers
    <3>2. m.created = kernel.created /\ m.finished = kernel.finished
      BY <1>0, <1>1, <2>2, AcquireKeeps DEF Steady, SameThreads
    <3>3. Return(Frame("semTryWait", s, Null), m, v)
      BY <2>2
    <3> HIDE DEF m
    <3> QED  BY <3>1, <3>2, <3>3, PlainTells DEF WaitCalls, TimedCalls
  <2>3. CASE Return(Frame("semTryWait", s, Null), kernel, ERR_SEM_DEAD)
    <3>1. ERR_SEM_DEAD \in {-1, 0, 1}
      BY DEF ERR_SEM_DEAD
    <3> QED  BY <1>0, <2>3, <3>1, PlainTells DEF WaitCalls, TimedCalls
  <2>4. CASE /\ kernel.value[s] >= 1
             /\ Return(Frame("semTryWait", s, Null), Acquire(kernel, s, 1), 0)
    BY <2>2, <2>4
  <2>5. CASE /\ kernel.value[s] = 0
             /\ Return(Frame("semTryWait", s, Null), Acquire(kernel, s, 0), 1)
    <3>1. kernel.value[s] >= 0
      BY <2>5
    <3> QED  BY <2>2, <2>5, <3>1
  <2> QED  BY <2>1, <2>3, <2>4, <2>5
<1> QED  BY <1>2, <1>3, <1>4, <1>5

\* The calls that wait at a semaphore.
LEMMA WaitingCallTells ==
  ASSUME Telling,
         \/ handleJoin \/ handleTimedJoin \/ handleJoinAll \/ handletimedJoinAll
         \/ handleSemWait \/ handleSemTimedWait \/ handleSend \/ handleReceive
  PROVE  StepTells
<1>0. /\ frame[running] = UserMode /\ running \in UserThreads /\ running # Idle
  BY DEF handleJoin, handleTimedJoin, handleJoinAll, handletimedJoinAll,
     handleSemWait, handleSemTimedWait, handleSend, handleReceive, Makes, InUserMode,
     UserThreads
<1>1. /\ running \in kernel.created \ kernel.finished /\ running \in Threads
      /\ kernel.created \subseteq Threads
      /\ Answers(kernel, frame, kernel.finished, kernel.finished, {})
  BY <1>0, CallerFacts
<1>2. /\ Handles \subseteq kernel.created /\ OpenSems \subseteq UserSems \cap kernel.opened
      /\ 0 .. MaxTimeout \subseteq Nat /\ UserSems \subseteq Sems
  BY SemFrames, ParametersAssumption DEF Handles, OpenSems
<1>3. CASE handleJoin
  <2>1. PICK t \in Handles : Join(t)
    BY <1>3 DEF handleJoin
  <2> QED  BY <1>0, <1>2, <2>1, JoinTells
<1>4. CASE handleTimedJoin
  <2>1. PICK t \in Handles, timeout \in 0 .. MaxTimeout : TimedJoin(t, timeout)
    BY <1>4 DEF handleTimedJoin
  <2> QED  BY <1>0, <1>2, <2>1, TimedJoinTells
<1>5. CASE handleJoinAll
  <2> DEFINE f == Frame("joinAll", Null, Null)
             n == kernel.numOfActiveChildren[running]
  <2>1. Wait(f, semJoinAll(running), n)
    BY <1>5 DEF handleJoinAll
  <2>2. f \in Frames /\ f.call = "joinAll" /\ semJoinAll(running) \in Sems
    BY <1>1, FrameType, SemFrames DEF CallNames, Frame
  <2>3. FrameFits(kernel, running, f, kernel.finished)
    BY <1>0, <1>1, <2>2 DEF FrameFits, WaitCalls, TimedCalls
  <2>4. CallFits(f, semJoinAll(running), n)
    BY <1>0, <2>2, <2>3 DEF CallFits, WaitCalls, WaitPoint
  <2> QED  BY <2>1, <2>4, WaitTells
<1>6. CASE handletimedJoinAll
  <2> DEFINE f == Frame("timedJoinAll", Null, Null)
             n == kernel.numOfActiveChildren[running]
  <2>1. PICK timeout \in 0 .. MaxTimeout :
          TimedWait(f, semJoinAll(running), timeout, n)
    BY <1>6 DEF handletimedJoinAll
  <2>2. f \in Frames /\ f.call = "timedJoinAll" /\ semJoinAll(running) \in Sems
    BY <1>1, FrameType, SemFrames DEF CallNames, Frame
  <2>3. FrameFits(kernel, running, f, kernel.finished)
    BY <1>0, <1>1, <2>2 DEF FrameFits, WaitCalls, TimedCalls
  <2>4. CallFits(f, semJoinAll(running), n) /\ f.call \in TimedCalls
    BY <1>0, <2>2, <2>3 DEF CallFits, WaitCalls, TimedCalls, WaitPoint
  <2>5. timeout \in Nat
    BY <1>2
  <2> QED  BY <2>1, <2>4, <2>5, TimedWaitTells
<1>7. CASE handleSemWait
  <2>1. PICK s \in OpenSems : Wait(Frame("semWait", s, Null), s, 1)
    BY <1>7 DEF handleSemWait
  <2> DEFINE f == Frame("semWait", s, Null)
  <2>2. s \in UserSems \cap kernel.opened /\ s \in Sems
    BY <1>2
  <2>3. f \in Frames /\ f.call = "semWait" /\ f.on = s /\ f.msg = Null
    BY <2>2, FrameType DEF CallNames, Frame
  <2>4. Wait(f, s, 1)
    BY <2>1
  <2> HIDE DEF f
  <2>5. FrameFits(kernel, running, f, kernel.finished)
    BY <1>1, <2>2, <2>3 DEF FrameFits, WaitCalls, TimedCalls
  <2>6. CallFits(f, s, 1)
    BY <1>0, <2>2, <2>3, <2>5 DEF CallFits, WaitCalls, WaitPoint
  <2> QED  BY <2>4, <2>6, WaitTells
<1>8. CASE handleSemTimedWait
  <2>1. PICK s \in OpenSems, timeout \in 0 .. MaxTimeout :
          TimedWait(Frame("semTimedWait", s, Null), s, timeout, 1)
    BY <1>8 DEF handleSemTimedWait
  <2> DEFINE f == Frame("semTimedWait", s, Null)
  <2>2. s \in UserSems \cap kernel.opened /\ s \in Sems /\ timeout \in Nat
    BY <1>2
  <2>3. f \in Frames /\ f.call = "semTimedWait" /\ f.on = s /\ f.msg = Null
    BY <2>2, FrameType DEF CallNames, Frame
  <2>4. TimedWait(f, s, timeout, 1)
    BY <2>1
  <2> HIDE DEF f
  <2>5. FrameFits(kernel, running, f, kernel.finished)
    BY <1>1, <2>2, <2>3 DEF FrameFits, WaitCalls, TimedCalls
  <2>6. CallFits(f, s, 1) /\ f.call \in TimedCalls
    BY <1>0, <2>2, <2>3, <2>5 DEF CallFits, WaitCalls, TimedCalls, WaitPoint
  <2> QED  BY <2>2, <2>4, <2>6, TimedWaitTells
<1>9. CASE handleSend
  <2>1. PICK t \in Handles, msg \in Messages :
          \/ Return(Frame("send", t, msg), kernel, 0)
          \/ Wait(Frame("send", t, msg), semSend(t), 1)
    BY <1>9 DEF handleSend
  <2> DEFINE f == Frame("send", t, msg)
  <2>2. t \in kernel.created /\ t \in Threads /\ semSend(t) \in Sems
    BY <1>1, <1>2, SemFrames
  <2>3. f \in Frames /\ f.call = "send" /\ f.on = t /\ f.msg = msg
    BY <2>2, FrameType DEF CallNames, Frame
  <2>4. Return(f, kernel, 0) \/ Wait(f, semSend(t), 1)
    BY <2>1
  <2> HIDE DEF f
  <2>5. FrameFits(kernel, running, f, kernel.finished)
    BY <1>1, <2>2, <2>3 DEF FrameFits, WaitCalls, TimedCalls
  <2>6. CallFits(f, semSend(t), 1)
    BY <1>0, <2>2, <2>3, <2>5 DEF CallFits, WaitCalls, WaitPoint
  <2>7. Honest(f, kernel, running, 0)
    BY <2>3 DEF Honest, TIMEOUT, ERR_SEM_WAITCLOSE
  <2>8. CASE Return(f, kernel, 0)
    BY <1>0, <1>1, <2>7, <2>8, ReturnTells
  <2> QED  BY <2>4, <2>6, <2>8, WaitTells
<1>10. CASE handleReceive
  <2> DEFINE f == Frame("receive", Null, Null)
  <2>1. Wait(f, semReceive(running), 1)
    BY <1>10 DEF handleReceive
  <2>2. /\ f \in Frames /\ f.call = "receive" /\ f.on = Null
        /\ semReceive(running) \in Sems
    BY <1>1, FrameType, SemFrames DEF CallNames, Frame
  <2>3. FrameFits(kernel, running, f, kernel.finished)
    BY <1>0, <1>1, <2>2 DEF FrameFits, WaitCalls, TimedCalls
  <2>4. CallFits(f, semReceive(running), 1)
    BY <1>0, <2>2, <2>3 DEF CallFits, WaitCalls, WaitPoint
  <2> QED  BY <2>1, <2>4, WaitTells
<1> QED  BY <1>3, <1>4, <1>5, <1>6, <1>7, <1>8, <1>9, <1>10

\* Every system call.
LEMMA SystemCallTells ==
  ASSUME Telling, SystemCall
  PROVE  StepTells
<1>0. /\ frame[running] = UserMode /\ running # Idle
  BY DEF SystemCall, handleThreadCreate, handleThreadExit, handleThreadDispatch,
     handleJoin, handleTimedJoin, handleJoinAll, handletimedJoinAll, handleSemOpen,
     handleSemClose, handleSemWait, handleSemSignal, handleSemTimedWait,
     handleSemTryWait, handleTimeSleep, handleSend, handleReceive, Makes,
     InUserMode, UserThreads
<1>1. /\ kernel \in Kernels /\ kernel.running = running
      /\ running \in kernel.created \ kernel.finished /\ running \in Threads
      /\ Answers(kernel, frame, kernel.finished, kernel.finished, {})
      /\ kernel.blockedAtSem[running] = Null /\ ~sleeps(kernel, running)
  BY <1>0, CallerFacts, TellingFacts
<1>2. CASE handleThreadCreate
  <2>1. PICK t \in UserThreads \ kernel.created :
          \/ Return(Frame("threadCreate", t, Null), ThreadCreate(kernel, t), 0)
          \/ Return(Frame("threadCreate", t, Null), kernel, ERR_THREAD_CREATE)
    BY <1>2 DEF handleThreadCreate
  <2>2. t \in Threads \ kernel.created /\ t # Idle
    BY DEF UserThreads
  <2>3. CASE Return(Frame("threadCreate", t, Null), ThreadCreate(kernel, t), 0)
    BY <1>0, <2>2, <2>3, CreateTells
  <2>4. CASE Return(Frame("threadCreate", t, Null), kernel, ERR_THREAD_CREATE)
    <3>1. ERR_THREAD_CREATE \in {-1, 0, 1}
      BY DEF ERR_THREAD_CREATE
    <3> QED  BY <1>0, <1>1, <2>4, <3>1, PlainTells DEF WaitCalls, TimedCalls
  <2> QED  BY <2>1, <2>3, <2>4
<1>3. CASE handleThreadExit
  BY <1>0, <1>3, ExitTells DEF handleThreadExit
<1>4. CASE handleThreadDispatch
  <2> DEFINE f == Frame("dispatch", Null, Null)
  <2>1. Suspend(f, Yield(kernel, TRUE)) /\ f.call = "dispatch"
    BY <1>4 DEF handleThreadDispatch, Frame
  <2> HIDE DEF f
  <2>2. FrameFits(kernel, running, f, kernel.finished)
    BY <1>1, <2>1 DEF FrameFits, WaitCalls, TimedCalls
  <2>3. WaitFits(kernel, running, f) /\ f.call \notin WaitCalls
    BY <1>1, <2>1 DEF WaitFits, WaitCalls, TimedCalls
  <2>4. SameCounts(kernel, kernel)
    BY DEF SameCounts
  <2> QED  BY <1>0, <1>1, <2>1, <2>2, <2>3, <2>4, AwayTells
<1>5. CASE handleTimeSleep
  <2>1. PICK timeout \in 0 .. MaxTimeout : TimeSleep(timeout)
    BY <1>5 DEF handleTimeSleep
  <2>2. timeout \in Nat
    BY ParametersAssumption
  <2> QED  BY <1>0, <2>1, <2>2, TimeSleepTells
<1>6. CASE handleSemOpen \/ handleSemClose \/ handleSemSignal \/ handleSemTryWait
  BY <1>0, <1>6, SemaphoreTells
<1>7. CASE \/ handleJoin \/ handleTimedJoin \/ handleJoinAll \/ handletimedJoinAll
           \/ handleSemWait \/ handleSemTimedWait \/ handleSend \/ handleReceive
  BY <1>7, WaitingCallTells
<1> QED  BY <1>2, <1>3, <1>4, <1>5, <1>6, <1>7 DEF SystemCall

\* The timer, whether or not it ends the turn of the thread.
LEMMA TimerTells ==
  ASSUME Telling, handleTimer
  PROVE  StepTells
<1> DEFINE c == [kernel EXCEPT !.timeSliceCounter = @ + 1]
           k == OnTick(c)
           over == kernel.finished
<1>0. /\ kernel \in Kernels /\ Good(kernel) /\ kernel.running = running
      /\ running \in Threads /\ running \in kernel.created
      /\ frame \in [Threads -> Frames] /\ frame[running] = UserMode
      /\ Answers(kernel, frame, over, over, {})
  BY TellingFacts DEF Telling, handleTimer, InUserMode
<1>1. c \in Kernels /\ SameThreads(kernel, c) /\ SameStory(kernel, c) /\ Good(c)
  <2>1. kernel.timeSliceCounter + 1 \in Nat
    BY <1>0 DEF Kernels
  <2>2. c \in Kernels
    BY <1>0, <2>1 DEF Kernels
  <2>3. /\ SameThreads(kernel, c) /\ c.ready = kernel.ready
        /\ c.active = kernel.active /\ c.value = kernel.value
        /\ c.blocked = kernel.blocked /\ c.sleepList = kernel.sleepList
        /\ c.remaining = kernel.remaining /\ c.blockedAtSem = kernel.blockedAtSem
        /\ c.tokensNeeded = kernel.tokensNeeded
    BY <1>0 DEF Kernels, SameThreads
  <2>4. SameStory(kernel, c)
    BY <1>0 DEF Kernels, SameStory, SameCounts
  <2> HIDE DEF c
  <2> QED  BY <1>0, <2>2, <2>3, <2>4, GoodDepends
<1> HIDE DEF c
<1>2. Answers(k, frame, over, over, {})
  <2>1. Answers(c, frame, over, over, {})
    BY <1>0, <1>1, StoryAnswers
  <2> QED  BY <1>1, <2>1, OnTickAnswers
<1>3. k \in Kernels /\ Good(k) /\ SameThreads(c, k)
  BY <1>1, OnTickKeeps, OnTickType DEF Steady
<1>4. Suspend(TickFrame, Yield(k, TRUE)) \/ Return(TickFrame, k, 0)
  BY DEF handleTimer, c
<1> HIDE DEF k
<1>5. k.created = kernel.created /\ k.finished = over /\ k.running = running
  BY <1>0, <1>1, <1>3 DEF SameThreads
<1>6. CASE Return(TickFrame, k, 0)
  BY <1>0, <1>2, <1>5, <1>6, ReturnTells
<1>7. CASE Suspend(TickFrame, Yield(k, TRUE))
  <2> DEFINE y == Yield(k, TRUE)
  <2>1. TickFrame.call = "tick"
    BY DEF TickFrame, Frame
  <2>2. FrameFits(k, running, TickFrame, over)
    BY <1>0, <1>5, <2>1 DEF FrameFits, WaitCalls, TimedCalls
  <2>3. k.blockedAtSem[running] = Null /\ ~sleeps(k, running)
    BY <1>3, <1>5 DEF Good, RunnerRuns, WaitsIn
  <2>4. WaitFits(k, running, TickFrame) /\ TickFrame.call \notin WaitCalls
    BY <2>1, <2>3 DEF WaitFits, WaitCalls, TimedCalls
  <2>5. SameCounts(k, k)
    BY DEF SameCounts
  <2>6. Answers(k, [frame EXCEPT ![running] = TickFrame], over, over, {})
    BY <1>0, <1>2, <1>3, <2>2, <2>3, <2>4, <2>5, SuspendAnswers
  <2>7. SameStory(k, y)
    BY <1>3, YieldStory
  <2>8. y.finished = over /\ kernel.created \subseteq y.created
    BY <1>3, <1>5 DEF Yield, SchedulerPut, SchedulerGet, Kernels
  <2>9. Suspend(TickFrame, y)
    BY <1>7
  <2> HIDE DEF y
  <2>10. Answers(k, [frame EXCEPT ![running] = TickFrame], y.finished, y.finished, {})
    BY <2>6, <2>8
  <2> QED  BY <1>3, <2>7, <2>8, <2>9, <2>10, SuspendTells
<1> QED  BY <1>4, <1>6, <1>7

\* A thread that runs again finishes its call: what it was told is still true.
LEMMA ResumeTells ==
  ASSUME Telling, Resume
  PROVE  StepTells
<1> DEFINE f == frame[running]
           over == kernel.finished
           o == ResolveManner(kernel)
           taken == Hands(kernel, frame, running)
           manner == kernel.unblockManner[running]
<1>0. /\ kernel \in Kernels /\ Good(kernel) /\ kernel.running = running
      /\ running \in Threads /\ frame \in [Threads -> Frames] /\ f \in Frames
      /\ kernel.created \subseteq Threads
      /\ Answers(kernel, frame, over, over, {})
  BY TellingFacts, KernelFields DEF Telling
<1>1. f # UserMode /\ Complete(f, kernel, o)
  BY DEF Resume
<1>2. ~WaitsIn(kernel, running)
  BY <1>0 DEF Good, RunnerRuns
<1>3. Answers(kernel, [frame EXCEPT ![running] = UserMode], over, over, taken)
  BY <1>0, <1>2, LeaveAnswers
<1>4. /\ FrameFits(kernel, running, f, over)
      /\ f.call \in WaitCalls => Told(kernel, running, f, over)
  BY <1>0, <1>2 DEF Answers, FramesTrue, FrameTrue
<1>5. f.call # "user"
  <2>1. f.call = "user" => f \in {UserMode, TickFrame}
    BY <1>4 DEF FrameFits
  <2>2. TickFrame.call = "tick"
    BY DEF TickFrame, Frame
  <2> QED  BY <1>1, <2>1, <2>2
<1>6. /\ manner \in UnblockManners
      /\ o = IF manner = "REGULAR" THEN 0
             ELSE IF manner = "ON_CLOSE" THEN ERR_SEM_WAITCLOSE ELSE TIMEOUT
  <2>1. manner \in UnblockManners
    BY <1>0 DEF Kernels
  <2> QED  BY <1>0, <2>1 DEF ResolveManner, UnblockManners
<1>7. f.call = "send" /\ f.on \in kernel.created \ over => manner = "REGULAR"
  <2> SUFFICES ASSUME f.call = "send", f.on \in kernel.created \ over
               PROVE  manner = "REGULAR"
    OBVIOUS
  <2>1. manner # "WAIT_TIMEOUT"
    BY <1>4 DEF Told, WaitCalls, TimedCalls
  <2>2. manner = "ON_CLOSE" => semSend(f.on) \notin kernel.active
    BY <1>4 DEF Told, WaitCalls, WaitPoint
  <2>3. semSend(f.on) \in kernel.active
    BY <1>0 DEF Answers, OwnSems, SemsOf
  <2> QED  BY <1>6, <2>1, <2>2, <2>3 DEF UnblockManners
<1>8. f.call = "receive" => manner = "REGULAR" /\ running \in kernel.created \ over
  <2> SUFFICES ASSUME f.call = "receive"
               PROVE  manner = "REGULAR" /\ running \in kernel.created \ over
    OBVIOUS
  <2>1. manner \notin {"WAIT_TIMEOUT", "ON_CLOSE"}
    BY <1>4 DEF Told, WaitCalls, TimedCalls
  <2>2. running \in kernel.created \ over
    BY <1>4 DEF FrameFits, WaitCalls
  <2> QED  BY <1>6, <2>1, <2>2 DEF UnblockManners
<1> HIDE DEF f, manner
<1>9. \A x : x \in taken <=>
        /\ x \in Threads /\ manner = "REGULAR"
        /\ (f.call = "send" /\ f.on = x) \/ (f.call = "receive" /\ running = x)
  BY <1>2 DEF Hands, Enters, f, manner
<1> HIDE DEF taken
<1>10. HandsFit(f, kernel, over, taken)
  <2>1. f.call = "send" =>
          /\ f.on \in Threads /\ f.msg \in Messages /\ taken \subseteq {f.on}
          /\ f.on \in kernel.created \ over => taken = {f.on}
    <3> SUFFICES ASSUME f.call = "send"
                 PROVE  /\ f.on \in Threads /\ f.msg \in Messages /\ taken \subseteq {f.on}
                        /\ f.on \in kernel.created \ over => taken = {f.on}
      OBVIOUS
    <3>1. f.on \in Threads /\ f.msg \in Messages
      BY <1>0, <1>4 DEF FrameFits
    <3> QED  BY <1>7, <1>9, <3>1
  <2>2. f.call = "receive" => taken = {running}
    BY <1>0, <1>8, <1>9
  <2>3. f.call \notin {"send", "receive"} => taken = {}
    BY <1>9
  <2> QED  BY <1>0, <1>8, <2>1, <2>2, <2>3 DEF HandsFit
<1>11. OutcomeFits(f, kernel, o)
  <2> SUFFICES ASSUME f.call \in WaitCalls
               PROVE  OutcomeFits(f, kernel, o)
    BY DEF OutcomeFits
  <2>0. Told(kernel, running, f, over)
    BY <1>4
  <2>1. /\ o \in {0, TIMEOUT, ERR_SEM_WAITCLOSE}
        /\ o = TIMEOUT => manner = "WAIT_TIMEOUT"
        /\ o = ERR_SEM_WAITCLOSE => manner = "ON_CLOSE"
        /\ o = 0 => manner = "REGULAR"
        /\ o # ERR_SEM_DEAD
    BY <1>6 DEF UnblockManners, TIMEOUT, ERR_SEM_WAITCLOSE, ERR_SEM_DEAD
  <2> HIDE DEF o
  <2>2. manner = "WAIT_TIMEOUT" => f.call \in TimedCalls
    BY <2>0 DEF Told, manner
  <2>3. manner = "ON_CLOSE" => /\ f.call \in {"send", "semWait", "semTimedWait"}
                               /\ WaitPoint(running, f) \notin kernel.active
    BY <2>0 DEF Told, manner
  <2>4. manner = "REGULAR" /\ f.call \in {"join", "timedJoin"} => f.on \in over
    BY <2>0 DEF Told, manner
  <2>5. f.call = "joinAll" => kernel.numOfActiveChildren[running] = 0
    BY <2>0 DEF Told
  <2>6. f.call = "receive" => kernel.message[running] \in Messages
    <3> SUFFICES ASSUME f.call = "receive"
                 PROVE  kernel.message[running] \in Messages
      OBVIOUS
    <3>1. Mailbox(kernel, frame, running, FALSE)
      BY <1>0, <1>8 DEF Answers, Mailboxes, Mailbox
    <3>2. Enters(kernel, running, frame[running], running)
      BY <1>2, <1>8 DEF Enters, f, manner
    <3>3. frame[running].call = "receive"
      BY DEF f
    <3> QED  BY <3>1, <3>2, <3>3 DEF Mailbox
  <2> QED  BY <1>0, <2>1, <2>2, <2>3, <2>4, <2>5, <2>6 DEF OutcomeFits
<1>12. Complete(f, kernel, o) /\ f \in Frames /\ FrameFits(kernel, running, f, over)
  BY <1>0, <1>1, <1>4 DEF f
<1>13. f.call # "user"
  BY <1>5 DEF f
<1> HIDE DEF o
<1> QED  BY <1>0, <1>3, <1>10, <1>11, <1>12, <1>13, CompleteTells

-----------------------------------------------------------------------------
\* What IInv and AnswersInv say while the kernel runs.
LEMMA RunningTells ==
  ASSUME IInv, AnswersInv, Running
  PROVE  Telling /\ NobodyYet
BY DEF IInv, AnswersInv, Telling

\* The steps of main() before the shutdown.
LEMMA MainTells ==
  ASSUME IInv, AnswersInv, Running, MainCreate \/ MainJoin \/ MainSleep
  PROVE  StepTells /\ (mainPc' = "join" => UserMain \in kernel'.created)
<1>0. /\ Telling /\ NobodyYet /\ frame[running] = UserMode /\ running # Idle
  BY RunningTells, ThreeThreads DEF MainCreate, MainJoin, MainSleep, MainAt, InUserMode
<1>1. CASE MainCreate
  <2>1. /\ mainPc = "create" /\ UserMain \in Threads \ kernel.created /\ UserMain # Idle
        /\ Return(Frame("threadCreate", UserMain, Null),
                  ThreadCreate(kernel, UserMain), 0)
    BY <1>0, <1>1, ThreeThreads DEF MainCreate, MainAt, NobodyYet
  <2> QED  BY <1>0, <2>1, CreateTells
<1>2. CASE MainJoin
  <2>1. mainPc = "join" /\ mainPc' = "sleep" /\ Join(UserMain)
    BY <1>2 DEF MainJoin, MainAt
  <2>2. UserMain \in kernel.created
    BY <2>1 DEF AnswersInv
  <2> QED  BY <1>0, <2>1, <2>2, JoinTells
<1>3. CASE MainSleep
  <2>1. mainPc' = "shutdown" /\ TimeSleep(ShutdownSleep) /\ ShutdownSleep \in Nat
    BY <1>3, ParametersAssumption DEF MainSleep, MainAt
  <2> QED  BY <1>0, <2>1, TimeSleepTells
<1> QED  BY <1>1, <1>2, <1>3

\* Every step keeps the invariant.
LEMMA AnswersStep ==
  IInv /\ AnswersInv /\ [Next]_vars => AnswersInv'
<1> SUFFICES ASSUME IInv, AnswersInv, [Next]_vars PROVE AnswersInv'
  OBVIOUS
<1>1. CASE UNCHANGED vars
  <2>1. /\ kernel' = kernel /\ frame' = frame /\ mainPc' = mainPc
        /\ returned' = returned
    BY <1>1 DEF vars
  <2> QED  BY <2>1 DEF AnswersInv, Running, ReasonsAreFresh, JoinsAreTrue,
                       ReceivesAMessage, LiveChildren, Children
<1>2. ASSUME StepTells, mainPc' = "join" => UserMain \in kernel'.created
      PROVE  AnswersInv'
  BY <1>2 DEF StepTells, Truths, AnswersInv
<1>3. ASSUME StepTells, mainPc' = mainPc
      PROVE  AnswersInv'
  BY <1>2, <1>3 DEF StepTells, AnswersInv
<1>4. CASE SystemCall
  <2>1. Running /\ mainPc' = mainPc
    BY <1>4 DEF SystemCall, handleThreadCreate, handleThreadExit,
       handleThreadDispatch, handleJoin, handleTimedJoin, handleJoinAll,
       handletimedJoinAll, handleSemOpen, handleSemClose, handleSemWait,
       handleSemSignal, handleSemTimedWait, handleSemTryWait, handleTimeSleep,
       handleSend, handleReceive, Makes, InUserMode
  <2> QED  BY <1>3, <1>4, <2>1, RunningTells, SystemCallTells
<1>5. CASE handleException \/ IdleExit
  <2>1. Running /\ frame[running] = UserMode /\ Exit /\ mainPc' = mainPc
    BY <1>5 DEF handleException, IdleExit, Makes, InUserMode
  <2> QED  BY <1>3, <2>1, RunningTells, ExitTells
<1>6. CASE handleTimer
  <2>1. Running /\ mainPc' = mainPc
    BY <1>6 DEF handleTimer, InUserMode
  <2> QED  BY <1>3, <1>6, <2>1, RunningTells, TimerTells
<1>7. CASE Resume
  <2>1. Running /\ mainPc' = mainPc
    BY <1>7 DEF Resume
  <2> QED  BY <1>3, <1>7, <2>1, RunningTells, ResumeTells
<1>8. CASE MainCreate \/ MainJoin \/ MainSleep
  <2>1. Running
    BY <1>8 DEF MainCreate, MainJoin, MainSleep, MainAt, InUserMode
  <2> QED  BY <1>2, <1>8, <2>1, MainTells
<1>9. CASE Shutdown
  <2>1. mainPc' = "halted" /\ returned' = Nothing
    BY <1>9 DEF Shutdown, MainAt
  <2>2. Truths'
    BY <2>1 DEF Truths, ReasonsAreFresh, JoinsAreTrue, ReceivesAMessage, Nothing,
                TIMEOUT, ERR_SEM_WAITCLOSE
  <2> QED  BY <2>1, <2>2 DEF AnswersInv, Running, Truths
<1>10. CASE Halted
  BY <1>1, <1>10 DEF Halted
<1> QED  BY <1>1, <1>4, <1>5, <1>6, <1>7, <1>8, <1>9, <1>10 DEF Next, MainStep

\* The invariant holds when main() starts.
LEMMA InitAnswers == Init => AnswersInv
<1> SUFFICES ASSUME Init PROVE AnswersInv
  OBVIOUS
<1>0. /\ Master \in Threads /\ Idle \in Threads /\ Master # Idle
  BY ThreeThreads
<1>1. /\ kernel.created = {Master, Idle} /\ kernel.finished = {}
      /\ kernel.active = SemsOf(Master) \cup SemsOf(Idle)
      /\ kernel.parent[Idle] = Master /\ kernel.parent[Master] = Null
      /\ \A t \in Threads \ {Master} : kernel.numOfActiveChildren[t] = 0
      /\ \A t \in Threads : /\ kernel.blockedAtSem[t] = Null /\ kernel.remaining[t] = 0
                            /\ frame[t] = UserMode
      /\ \A s \in Sems : kernel.value[s] =
           IF s \in {semSend(Master), semSend(Idle)} THEN 1 ELSE 0
      /\ returned = Nothing /\ mainPc = "create"
  BY <1>0 DEF Init, AtBoot
<1>2. UserMode.call = "user"
  BY DEF UserMode, Frame
<1>3. FramesTrue(kernel, frame, {})
  <2> SUFFICES ASSUME NEW t \in Threads
               PROVE  FrameTrue(kernel, t, frame[t], {})
    BY DEF FramesTrue
  <2>1. FrameFits(kernel, t, UserMode, {})
    BY <1>2 DEF FrameFits, WaitCalls, TimedCalls
  <2>2. WaitFits(kernel, t, UserMode)
    BY <1>1 DEF WaitFits, sleeps
  <2> QED  BY <1>1, <1>2, <2>1, <2>2 DEF FrameTrue, WaitCalls, TimedCalls
<1>4. Needs(kernel)
  BY <1>1 DEF Needs
<1>5. OwnSems(kernel, {})
  <2>1. \A t \in {Master, Idle} : SemsOf(t) \subseteq kernel.active
    BY <1>1
  <2>2. \A t \in Threads : /\ semJoin(t) \notin {semSend(Master), semSend(Idle)}
                           /\ semJoinAll(t) \notin {semSend(Master), semSend(Idle)}
    BY <1>0, SemsApart
  <2> QED  BY <1>1, <2>1, <2>2, SemFrames DEF OwnSems
<1>6. Counted(kernel, {}, {})
  BY <1>1 DEF Counted
<1>7. Mailboxes(kernel, frame, {}, {})
  <2> SUFFICES ASSUME NEW t \in {Master, Idle}
               PROVE  Mailbox(kernel, frame, t, FALSE)
    BY <1>1 DEF Mailboxes, Mailbox
  <2>1. kernel.value[semSend(t)] = 1
    BY <1>0, <1>1, SemFrames
  <2>2. kernel.value[semReceive(t)] = 0
    BY <1>0, <1>1, SemFrames, SemsApart
  <2>3. \A u \in Threads : ~Enters(kernel, u, frame[u], t)
    BY <1>1, <1>2 DEF Enters
  <2>4. Inside(kernel, frame, t) = {}
    BY <2>3 DEF Inside
  <2>5. frame[t].call # "receive"
    BY <1>0, <1>1, <1>2
  <2> QED  BY <2>1, <2>2, <2>4, <2>5 DEF Mailbox, Slot
<1>8. Answers(kernel, frame, {}, {}, {})
  BY <1>3, <1>4, <1>5, <1>6, <1>7 DEF Answers
<1>9. ReasonsAreFresh /\ JoinsAreTrue /\ ReceivesAMessage
  BY <1>1 DEF ReasonsAreFresh, JoinsAreTrue, ReceivesAMessage, Nothing,
              TIMEOUT, ERR_SEM_WAITCLOSE
<1> QED  BY <1>1, <1>8, <1>9 DEF AnswersInv

\* The inductive invariant holds in every reachable state.
THEOREM AnswersAlways == Spec => []AnswersInv
<1>1. Init => AnswersInv
  BY InitAnswers
<1>2. IInv /\ AnswersInv /\ [Next]_vars => AnswersInv'
  BY AnswersStep
<1> QED  BY <1>1, <1>2, InvAlways, PTL DEF Spec

-----------------------------------------------------------------------------
(***************************************************************************)
(* What follows from the invariant.                                        *)
(***************************************************************************)
\* The reason a wait reports is its own (see ReasonsAreFresh).
THEOREM ReasonsNeverStale == Spec => []ReasonsAreFresh
<1>1. AnswersInv => ReasonsAreFresh
  BY DEF AnswersInv
<1> QED  BY <1>1, AnswersAlways, PTL

\* A join that reports success is true (see JoinsAreTrue).
THEOREM JoinsNeverLie == Spec => []JoinsAreTrue
<1>1. AnswersInv => JoinsAreTrue
  BY DEF AnswersInv
<1> QED  BY <1>1, AnswersAlways, PTL

\* receive returns a message somebody sent (see ReceivesAMessage).
THEOREM ReceivesWhatWasSent == Spec => []ReceivesAMessage
<1>1. AnswersInv => ReceivesAMessage
  BY DEF AnswersInv
<1> QED  BY <1>1, AnswersAlways, PTL

\* joinAll waits for the right number of tokens (see ChildrenAreCounted).
THEOREM ChildrenAlwaysCounted == Spec => []ChildrenAreCounted
<1>1. IInv /\ AnswersInv => ChildrenAreCounted
  <2> SUFFICES ASSUME IInv, AnswersInv, Running,
                      NEW p \in kernel.created \ (kernel.finished \cup {Master, Idle})
               PROVE  /\ kernel.numOfActiveChildren[p] = Cardinality(LiveChildren(p))
                      /\ kernel.blockedAtSem[p] = semJoinAll(p) =>
                           kernel.tokensNeeded[p] = kernel.numOfActiveChildren[p]
    BY DEF ChildrenAreCounted
  <2>1. /\ Counted(kernel, kernel.finished, kernel.finished) /\ Needs(kernel)
        /\ kernel \in Kernels
    BY DEF AnswersInv, Answers, IInv, TypeOK
  <2>2. LiveChildren(p) = Offspring(kernel, p, kernel.finished)
    BY DEF LiveChildren, Children, Offspring
  <2>3. p \in Threads /\ semJoinAll(p) # Null
    BY <2>1, KernelFields, SemFrames, ThreadsAssumption
  <2> QED  BY <2>1, <2>2, <2>3 DEF Counted, Needs
<1> QED  BY <1>1, InvAlways, AnswersAlways, PTL

\* The mailbox of a thread is one slot with one token (see OneMessageSlot).
THEOREM OneSlotAlways == Spec => []OneMessageSlot
<1>1. IInv /\ AnswersInv => OneMessageSlot
  <2> SUFFICES ASSUME IInv, AnswersInv, Running,
                      NEW t \in kernel.created \ kernel.finished
               PROVE  SlotTokens(t) = 1
    BY DEF OneMessageSlot
  <2> DEFINE senders   == {u \in Threads : LetIn(u, "send", t)}
             receivers == {u \in {t} : LetIn(u, "receive", Null)}
             inside    == Inside(kernel, frame, t)
  <2>1. /\ Slot(kernel, frame, t) /\ t \in Threads
        /\ \A u \in Threads : FrameFits(kernel, u, frame[u], kernel.finished)
    BY KernelFields DEF AnswersInv, Answers, Mailboxes, Mailbox, FramesTrue, FrameTrue,
                        IInv, TypeOK
  <2>2. \A u \in Threads : Enters(kernel, u, frame[u], t) <=>
          LetIn(u, "send", t) \/ (u = t /\ LetIn(u, "receive", Null))
    BY <2>1 DEF Enters, LetIn, FrameFits, Waits, WaitsIn
  <2>3. inside = senders \cup receivers
    BY <2>1, <2>2 DEF Inside
  <2>4. senders \cap receivers = {}
    BY DEF LetIn
  <2>5. SlotTokens(t) = kernel.value[semSend(t)] + kernel.value[semReceive(t)]
                          + Cardinality(senders) + Cardinality(receivers)
    BY DEF SlotTokens
  <2> HIDE DEF senders, receivers
  <2>6. CASE inside = {}
    <3>1. senders = {} /\ receivers = {}
      BY <2>3, <2>6
    <3>2. Cardinality(senders) = 0 /\ Cardinality(receivers) = 0
      BY <3>1, FS_EmptySet
    <3>3. kernel.value[semSend(t)] + kernel.value[semReceive(t)] = 1
      BY <2>1, <2>6 DEF Slot
    <3> QED  BY <2>5, <3>2, <3>3
  <2>7. CASE inside # {}
    <3>1. PICK u \in Threads : inside = {u}
      BY <2>1, <2>7 DEF Slot
    <3>2. kernel.value[semSend(t)] = 0 /\ kernel.value[semReceive(t)] = 0
      BY <2>1, <2>7 DEF Slot
    <3>3. \/ senders = {u} /\ receivers = {}
          \/ senders = {} /\ receivers = {u}
      BY <2>3, <2>4, <3>1
    <3>4. Cardinality({u}) = 1 /\ Cardinality({}) = 0
      BY FS_Singleton, FS_EmptySet
    <3> QED  BY <2>5, <3>2, <3>3, <3>4
  <2> QED  BY <2>6, <2>7
<1> QED  BY <1>1, InvAlways, AnswersAlways, PTL
=============================================================================
