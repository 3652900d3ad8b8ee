-------------------------- MODULE LinkedInvariant --------------------------
(***************************************************************************)
(* The inductive invariant behind the properties of LinkedLists.tla: which *)
(* sequences the links are, as predicates on the memory d and the          *)
(* sequences, so that they can be stated between two steps of a routine.   *)
(***************************************************************************)
EXTENDS LinkedLists, KernelRecord

Links == Threads \cup {Null}

\* The types of the members.
Mems ==
  [running           : Links,
   readyHead         : Links,
   readyTail         : Links,
   nextReady         : [Threads -> Links],
   sleepHead         : Links,
   nextSleep         : [Threads -> Links],
   timeSleepRelative : [Threads -> Nat],
   sleeps            : SUBSET Threads,
   blockedHead       : [Sems -> Links],
   blockedTail       : [Sems -> Links],
   nextSemBlocked    : [Threads -> Links],
   blockedAtSem      : [Threads -> Sems \cup {Null}],
   tokensNeeded      : [Threads -> Nat],
   unblockManner     : [Threads -> UnblockManners],
   active            : SUBSET Sems,
   value             : [Sems -> Nat]]

-----------------------------------------------------------------------------
\* A list holds nobody twice.
IsList(q) == q \in Seq(Threads) /\ IsInjective(q)

\* What a pointer to the thread at position i holds.
At(q, i) == IF i \in DOMAIN q THEN q[i] ELSE Null

\* From head on, the links are q.
Chained(head, next, q) ==
  /\ head = At(q, 1)
  /\ \A i \in DOMAIN q : next[q[i]] = At(q, i + 1)

\* The differences of the threads of q sum up to the ticks that remain.
Differences(diff, q, ticks) ==
  /\ \A i \in DOMAIN q :
       ticks[q[i]] = diff[q[i]] + IF i = 1 THEN 0 ELSE ticks[q[i - 1]]
  /\ \A t \in Threads \ Range(q) : diff[t] = 0 /\ ticks[t] = 0

ReadyIs(d, q) ==
  /\ IsList(q)
  /\ Chained(d.readyHead, d.nextReady, q) /\ d.readyTail = At(q, Len(q))
  /\ LinksBelong(d.nextReady, Range(q))

SleepIs(d, q, ticks) ==
  /\ IsList(q) /\ ticks \in [Threads -> Nat]
  /\ Chained(d.sleepHead, d.nextSleep, q) /\ d.sleeps = Range(q)
  /\ LinksBelong(d.nextSleep, Range(q))
  /\ Differences(d.timeSleepRelative, q, ticks)

\* The list of one semaphore.
SemIs(d, s, q) ==
  /\ IsList(q)
  /\ Chained(d.blockedHead[s], d.nextSemBlocked, q)
  /\ d.blockedTail[s] = At(q, Len(q))
  /\ \A t \in Threads : t \in Range(q) <=> d.blockedAtSem[t] = s

BlockedAre(d, lists) ==
  /\ lists \in [Sems -> Seq(Threads)]
  /\ \A s \in Sems : SemIs(d, s, lists[s])
  /\ \A t \in Threads : d.blockedAtSem[t] = Null => d.nextSemBlocked[t] = Null

\* The members that are the same in both.
SameMembers(d, k) ==
  /\ k.running = d.running /\ k.active = d.active /\ k.value = d.value
  /\ k.blockedAtSem = d.blockedAtSem /\ k.tokensNeeded = d.tokensNeeded
  /\ k.unblockManner = d.unblockManner

\* The members of the kernel's record the lists have nothing to do with.
Elsewhere(k) ==
  /\ k.timeSliceCounter = 0 /\ k.created = Threads /\ k.finished = {}
  /\ k.parent = NoThread /\ k.numOfActiveChildren = [t \in Threads |-> 0]
  /\ k.opened = Used /\ k.message = NoThread

\* Who is at no semaphore needs no tokens of one.
OnlyBlockedNeed(k) ==
  \A t \in Threads : k.blockedAtSem[t] = Null => k.tokensNeeded[t] = 0

Represents(d, k) ==
  /\ SameMembers(d, k) /\ Elsewhere(k) /\ OnlyBlockedNeed(k)
  /\ ReadyIs(d, k.ready)
  /\ SleepIs(d, k.sleepList, k.remaining)
  /\ BlockedAre(d, k.blocked)

-----------------------------------------------------------------------------
\* While a thread runs, the links are lists the kernel's invariant holds of,
Whole(d) ==
  /\ d \in Mems /\ d.running \in Threads
  /\ QueuesOf(d) \in Kernels /\ Good(QueuesOf(d))
  /\ Represents(d, QueuesOf(d))

\* and after the shutdown there are none.
Down(d) ==
  /\ d \in Mems /\ d.running = Null
  /\ ReadyIs(d, <<>>) /\ SleepIs(d, <<>>, [t \in Threads |-> 0])
  /\ BlockedAre(d, [s \in Sems |-> <<>>])

\* The inductive invariant.
ListsInv == Whole(mem) \/ Down(mem)
=============================================================================
