--------------------------- MODULE Console_proofs ---------------------------
(***************************************************************************)
(* The console keeps its promises for every set of threads and of          *)
(* characters and every length of its buffers: the invariant of            *)
(* ConsoleInvariant.tla, the properties of Console.tla it implies, and     *)
(* that each direction implements Pipe.tla.                                *)
(***************************************************************************)
EXTENDS ConsoleInvariant, Routines_proofs

\* The semaphores of the two buffers are six, and none belongs to a thread.
LEMMA SemNames ==
  /\ ConsoleSems \subseteq Sems /\ UserSems = ConsoleSems
  /\ \A b \in Buffers : {semPut(b), semGet(b), mutex(b)} \subseteq ConsoleSems
  /\ \A a, b \in Buffers :
       /\ semPut(a) # semGet(b) /\ semPut(a) # mutex(b) /\ semGet(a) # mutex(b)
       /\ semPut(a) = semPut(b) => a = b
       /\ semGet(a) = semGet(b) => a = b
       /\ mutex(a) = mutex(b) => a = b
  /\ \A t \in Threads : SemsOf(t) \cap ConsoleSems = {} /\ semJoin(t) \notin ConsoleSems
  /\ Null \notin ConsoleSems
<1>1. UserSems = ConsoleSems /\ ConsoleSems \subseteq Sems
  BY ConsoleAssumption DEF Sems
<1>2. \A b \in Buffers : {semPut(b), semGet(b), mutex(b)} \subseteq ConsoleSems
  BY DEF ConsoleSems
<1>3. \A x, y, a, b : <<x, a>> = <<y, b>> => x = y /\ a = b
  OBVIOUS
<1>4. \A a, b \in Buffers :
        /\ semPut(a) # semGet(b) /\ semPut(a) # mutex(b) /\ semGet(a) # mutex(b)
        /\ semPut(a) = semPut(b) => a = b
        /\ semGet(a) = semGet(b) => a = b
        /\ mutex(a) = mutex(b) => a = b
  BY <1>3 DEF semPut, semGet, mutex
<1>5. \A t \in Threads : SemsOf(t) \cap ConsoleSems = {} /\ semJoin(t) \notin ConsoleSems
  BY <1>1, ThreadsAssumption DEF SemsOf
<1>6. Null \notin ConsoleSems
  BY <1>1, ThreadsAssumption
<1> QED  BY <1>1, <1>2, <1>4, <1>5, <1>6

\* The five threads that are always there.
LEMMA CrewThreads ==
  /\ {Master, Idle, UserMain, InputTCB, OutputTCB} \subseteq Threads
  /\ Master # Idle /\ InputTCB # OutputTCB
  /\ {UserMain, InputTCB, OutputTCB} \cap {Master, Idle} = {}
  /\ UserMain \notin {InputTCB, OutputTCB} /\ UserMain \in Users
  /\ Users \subseteq Threads \ {Master, Idle, InputTCB, OutputTCB}
BY ThreeThreads, ConsoleAssumption DEF Users, UserThreads

\* What a thread in an operation of its own is doing.
LEMMA OperationKinds ==
  ASSUME NEW t, NEW c, c \in Operations(t)
  PROVE  /\ c # NoCall /\ c.at = "item" /\ c.on \in Buffers
         /\ c = Call(c.op, c.on, "item")
         /\ \/ c.op = "put" /\ c.on = "input" /\ t = InputTCB
            \/ c.op = "get" /\ c.on = "output" /\ t = OutputTCB
            \/ c.op = "get" /\ c.on = "input" /\ t \notin {InputTCB, OutputTCB}
            \/ c.op = "put" /\ c.on = "output" /\ t \notin {InputTCB, OutputTCB}
BY CrewThreads DEF Operations, Call, NoCall, Buffers

\* What it wants and what it makes are semaphores of the same buffer.
LEMMA WantedMade ==
  ASSUME NEW op \in {"put", "get"}, NEW b \in Buffers
  PROVE  /\ Wanted(op, b) \in ConsoleSems /\ Made(op, b) \in ConsoleSems
         /\ Wanted(op, b) # Made(op, b)
         /\ \A a \in Buffers : Wanted(op, b) # mutex(a) /\ Made(op, b) # mutex(a)
         /\ \A a \in Buffers, o \in {"put", "get"} :
              /\ Wanted(o, a) = Wanted(op, b) => o = op /\ a = b
              /\ Wanted(o, a) = Made(op, b) => o # op /\ a = b
BY SemNames DEF Wanted, Made

-----------------------------------------------------------------------------
(***************************************************************************)
(* Counting slots.                                                         *)
(***************************************************************************)
\* A stock is a number.
LEMMA StockNat ==
  ASSUME NEW k \in Kernels, NEW cl, NEW op \in {"put", "get"}, NEW b \in Buffers
  PROVE  /\ IsFiniteSet(GrantedIn(k, cl, op, b))
         /\ Cardinality(GrantedIn(k, cl, op, b)) \in Nat
         /\ k.value[Wanted(op, b)] \in Nat /\ Stock(k, cl, op, b) \in Nat
<1>1. IsFiniteSet(GrantedIn(k, cl, op, b))
  <2>1. GrantedIn(k, cl, op, b) \in SUBSET Threads
    BY DEF GrantedIn
  <2> QED  BY <2>1, ThreadsAssumption, FS_Subset
<1>2. Cardinality(GrantedIn(k, cl, op, b)) \in Nat
  BY <1>1, FS_CardinalityType
<1>3. k.value[Wanted(op, b)] \in Nat
  BY KernelFields, WantedMade, SemNames
<1> QED  BY <1>1, <1>2, <1>3 DEF Stock

\* One thread more, or one less, has been granted what it waited for.
OneMoreGranted(k, cl, m, cm, op, b, r) ==
  /\ r \notin GrantedIn(k, cl, op, b)
  /\ GrantedIn(m, cm, op, b) = GrantedIn(k, cl, op, b) \cup {r}
OneLessGranted(k, cl, m, cm, op, b, r) ==
  /\ r \in GrantedIn(k, cl, op, b)
  /\ GrantedIn(m, cm, op, b) = GrantedIn(k, cl, op, b) \ {r}
  /\ m.value[Wanted(op, b)] = k.value[Wanted(op, b)]
\* The stock has changed as the value, and by one for the thread.
StockFollows(k, cl, m, cm, op, b) ==
  Stock(m, cm, op, b) = Stock(k, cl, op, b) + 1
                        + m.value[Wanted(op, b)] - k.value[Wanted(op, b)]

\* A stock stays if the semaphore has given a token to one more thread,
LEMMA StockGrants ==
  ASSUME NEW k \in Kernels, NEW m \in Kernels, NEW cl, NEW cm,
         NEW op \in {"put", "get"}, NEW b \in Buffers, NEW r,
         OneMoreGranted(k, cl, m, cm, op, b, r)
  PROVE  StockFollows(k, cl, m, cm, op, b)
<1>1. /\ IsFiniteSet(GrantedIn(k, cl, op, b))
      /\ Cardinality(GrantedIn(k, cl, op, b)) \in Nat
      /\ k.value[Wanted(op, b)] \in Nat /\ m.value[Wanted(op, b)] \in Nat
  BY StockNat
<1>2. Cardinality(GrantedIn(m, cm, op, b)) = Cardinality(GrantedIn(k, cl, op, b)) + 1
  BY <1>1, FS_AddElement DEF OneMoreGranted
<1> QED  BY <1>1, <1>2 DEF Stock, StockFollows

\* and is one less when such a thread is done.
LEMMA StockEnds ==
  ASSUME NEW k \in Kernels, NEW m \in Kernels, NEW cl, NEW cm,
         NEW op \in {"put", "get"}, NEW b \in Buffers, NEW r,
         OneLessGranted(k, cl, m, cm, op, b, r)
  PROVE  Stock(m, cm, op, b) = Stock(k, cl, op, b) - 1
<1>1. /\ IsFiniteSet(GrantedIn(k, cl, op, b))
      /\ Cardinality(GrantedIn(k, cl, op, b)) \in Nat
      /\ k.value[Wanted(op, b)] \in Nat
  BY StockNat
<1>2. Cardinality(GrantedIn(m, cm, op, b)) = Cardinality(GrantedIn(k, cl, op, b)) - 1
  BY <1>1, FS_RemoveElement DEF OneLessGranted
<1>3. m.value[Wanted(op, b)] = k.value[Wanted(op, b)]
  BY DEF OneLessGranted
<1> QED  BY <1>1, <1>2, <1>3 DEF Stock

\* No stock has changed.
SameStocks(k, cl, m, cm) ==
  \A op \in {"put", "get"}, b \in Buffers : Stock(m, cm, op, b) = Stock(k, cl, op, b)

\* What every step of the console leaves alone, or only adds to.
SameCrew(k, m) ==
  /\ k.created \subseteq m.created /\ m.finished = k.finished
  /\ k.active \subseteq m.active
  /\ \A t \in Threads : sleeps(m, t) => sleeps(k, t)

\* A step that nobody's waiting and no buffer's semaphore notices.
LEMMA SoundDepends ==
  ASSUME NEW k \in Kernels, NEW cl, Sound(k, cl), NEW m \in Kernels, Good(m),
         SameCrew(k, m),
         \A t \in Threads : /\ m.blockedAtSem[t] = k.blockedAtSem[t]
                            /\ m.tokensNeeded[t] = k.tokensNeeded[t],
         \A s \in ConsoleSems : m.value[s] = k.value[s]
  PROVE  /\ Sound(m, cl)
         /\ SameStocks(k, cl, m, cl)
<1>1. Manned(m)
  BY CrewThreads DEF Sound, Manned, SameCrew
<1>2. MutexesFree(m)
  BY SemNames DEF Sound, MutexesFree
<1>3. CallsFit(m, cl)
  BY DEF Sound, CallsFit, SameCrew
<1>4. WaitersFit(m, cl)
  BY DEF Sound, WaitersFit
<1>5. ASSUME NEW op \in {"put", "get"}, NEW b \in Buffers
      PROVE  Stock(m, cl, op, b) = Stock(k, cl, op, b)
  <2>1. GrantedIn(m, cl, op, b) = GrantedIn(k, cl, op, b)
    BY DEF GrantedIn
  <2>2. m.value[Wanted(op, b)] = k.value[Wanted(op, b)]
    BY WantedMade
  <2> QED  BY <2>1, <2>2 DEF Stock
<1>6. SlotsFit(m, cl)
  BY <1>5 DEF Sound, SlotsFit
<1> QED  BY <1>1, <1>2, <1>3, <1>4, <1>5, <1>6 DEF Sound, SameStocks

\* A buffer is never full for those who get and empty for those who put: if
\* nobody is ready, nobody idles.
LEMMA SomeoneRuns ==
  ASSUME NEW k \in Kernels, NEW cl, Sound(k, cl), Range(k.ready) = {}
  PROVE  k.running # Idle
<1> SUFFICES ASSUME k.running = Idle PROVE FALSE
  OBVIOUS
<1>1. ASSUME NEW t \in k.created \ {Master, Idle}
      PROVE  /\ cl[t] # NoCall /\ cl[t] \in Operations(t)
             /\ k.blockedAtSem[t] = Wanted(cl[t].op, cl[t].on)
             /\ k.value[k.blockedAtSem[t]] = 0
  <2>1. t \in Threads
    BY KernelFields
  <2>2. k.blockedAtSem[t] # Null
    BY <2>1 DEF Sound, Good, Consistent, Placed, Manned, WaitsIn
  <2>3. /\ cl[t] # NoCall /\ cl[t] \in Operations(t)
        /\ k.blockedAtSem[t] = Wanted(cl[t].op, cl[t].on)
    BY <2>1, <2>2 DEF Sound, WaitersFit, CallsFit
  <2>4. PICK s \in Sems : s = k.blockedAtSem[t]
    BY <2>1, <2>2, KernelFields
  <2>5. t \in Range(k.blocked[s])
    BY <2>1, <2>4 DEF Sound, Good, Consistent, ListsAgree
  <2>6. k.blocked[s] # <<>>
    BY <2>5, EmptyList
  <2>7. k.value[s] = 0
    BY <2>4, <2>6 DEF Sound, Good, Consistent, Short
  <2> QED  BY <2>3, <2>4, <2>7
<1>2. ASSUME NEW op \in {"put", "get"}, NEW b \in Buffers
      PROVE  GrantedIn(k, cl, op, b) = {}
  <2> SUFFICES ASSUME NEW t \in GrantedIn(k, cl, op, b) PROVE FALSE
    OBVIOUS
  <2>1. t \in Threads /\ cl[t].op = op /\ cl[t].on = b /\ k.blockedAtSem[t] # Wanted(op, b)
    BY DEF GrantedIn
  <2>2. cl[t] # NoCall
    BY <2>1 DEF NoCall
  <2>3. t \in k.created \ {Master, Idle}
    BY <2>1, <2>2 DEF Sound, CallsFit
  <2> QED  BY <1>1, <2>1, <2>3
<1>3. ASSUME NEW b \in Buffers PROVE k.value[semPut(b)] # 0 \/ k.value[semGet(b)] # 0
  <2>1. /\ Stock(k, cl, "get", b) = k.value[semGet(b)] + Cardinality({})
        /\ Stock(k, cl, "put", b) = k.value[semPut(b)] + Cardinality({})
    BY <1>2 DEF Stock, Wanted
  <2>2. Stock(k, cl, "get", b) + Stock(k, cl, "put", b) = Length
    BY DEF Sound, SlotsFit
  <2> QED  BY <2>1, <2>2, FS_EmptySet, ConsoleAssumption
<1>4. /\ InputTCB \in k.created \ {Master, Idle} /\ OutputTCB \in k.created \ {Master, Idle}
      /\ UserMain \in k.created \ {Master, Idle}
  BY CrewThreads DEF Sound, Manned
<1>5. k.value[semPut("input")] = 0
  <2>1. cl[InputTCB] = Call("put", "input", "item")
    BY <1>1, <1>4 DEF Operations
  <2> QED  BY <1>1, <1>4, <2>1 DEF Wanted, Call
<1>6. k.value[semGet("output")] = 0
  <2>1. cl[OutputTCB] = Call("get", "output", "item")
    BY <1>1, <1>4, CrewThreads DEF Operations
  <2> QED  BY <1>1, <1>4, <2>1 DEF Wanted, Call
<1>7. k.value[semGet("input")] = 0 \/ k.value[semPut("output")] = 0
  <2>1. cl[UserMain] \in {Call("get", "input", "item"), Call("put", "output", "item")}
    BY <1>1, <1>4, CrewThreads DEF Operations
  <2> QED  BY <1>1, <1>4, <2>1 DEF Wanted, Call
<1> QED  BY <1>3, <1>5, <1>6, <1>7 DEF Buffers

-----------------------------------------------------------------------------
(***************************************************************************)
(* The kernel's routines as the console uses them.                         *)
(***************************************************************************)
\* TCB::yield by a thread that can go on, or waits.
LEMMA YieldRuns ==
  ASSUME NEW m \in Kernels, Consistent(m), NEW schPut \in BOOLEAN
  PROVE  Yield(m, schPut).running = Idle => Range(Yield(m, schPut).ready) = {}
<1> DEFINE u == Yield(m, schPut)
           q == YieldQueue(m, schPut)
<1>1. /\ q \in Seq(Threads) /\ u.running = (IF q = <<>> THEN Idle ELSE Head(q))
      /\ u.ready = (IF q = <<>> THEN q ELSE Tail(q))
  BY YieldFields
<1>2. q # <<>> => Head(q) # Idle
  <2>1. m.ready \in Seq(Threads) /\ m.running \in Threads
    BY KernelFields
  <2>2. \A t \in Range(m.ready) : t # Idle
    BY DEF Consistent, ReadyCanRun
  <2>3. \A t \in Range(q) : t # Idle
    <3>1. CASE CanContinue(m, m.running) /\ schPut /\ m.running # Idle
      <4>1. q = Append(m.ready, m.running)
        BY <3>1 DEF YieldQueue
      <4>2. Range(Append(m.ready, m.running)) = Range(m.ready) \cup {m.running}
        BY <2>1, AppendList
      <4> QED  BY <2>2, <3>1, <4>1, <4>2
    <3>2. CASE ~(CanContinue(m, m.running) /\ schPut /\ m.running # Idle)
      BY <2>2, <3>2 DEF YieldQueue
    <3> QED  BY <3>1, <3>2
  <2> HIDE DEF q
  <2> QED  BY <1>1, <2>3, HeadTailList
<1> HIDE DEF u, q
<1>3. u.running = Idle => q = <<>>
  BY <1>1, <1>2
<1>4. u.running = Idle => u.ready = <<>>
  BY <1>1, <1>3
<1> QED  BY <1>4, EmptyList DEF u

\* A thread that yields leaves the console sound, and somebody running.
LEMMA YieldSound ==
  ASSUME NEW k \in Kernels, NEW cl, Sound(k, cl)
  PROVE  LET u == Yield(k, TRUE)
         IN  /\ u \in Kernels /\ Sound(u, cl) /\ u.running # Idle
             /\ SameStocks(k, cl, u, cl)
<1> DEFINE u == Yield(k, TRUE)
<1>1. u \in Kernels
  BY YieldType
<1>2. Good(u)
  BY YieldKeeps DEF Sound, Good
<1>3. /\ SameCrew(k, u) /\ u.value = k.value
      /\ u.blockedAtSem = k.blockedAtSem /\ u.tokensNeeded = k.tokensNeeded
  BY YieldFields DEF SameCrew, sleeps
<1>4. u.running = Idle => Range(u.ready) = {}
  BY YieldRuns DEF Sound, Good
<1> HIDE DEF u
<1>5. /\ Sound(u, cl)
      /\ SameStocks(k, cl, u, cl)
  BY <1>1, <1>2, <1>3, SoundDepends
<1>6. u.running # Idle
  BY <1>1, <1>4, <1>5, SomeoneRuns
<1> QED  BY <1>1, <1>5, <1>6 DEF u

\* A tick wakes nobody, for nobody sleeps.
LEMMA TickSound ==
  ASSUME NEW k \in Kernels, NEW cl, Sound(k, cl)
  PROVE  LET u == OnTick([k EXCEPT !.timeSliceCounter = @ + 1])
         IN  /\ u \in Kernels /\ Sound(u, cl) /\ u.running = k.running
             /\ SameStocks(k, cl, u, cl)
<1> DEFINE c == [k EXCEPT !.timeSliceCounter = @ + 1]
           u == OnTick(c)
<1>1. /\ c \in Kernels /\ SameThreads(k, c) /\ c.ready = k.ready /\ c.active = k.active
      /\ c.value = k.value /\ c.blocked = k.blocked /\ c.sleepList = k.sleepList
      /\ c.remaining = k.remaining /\ c.blockedAtSem = k.blockedAtSem
      /\ c.tokensNeeded = k.tokensNeeded
  <2>1. k.timeSliceCounter + 1 \in Nat
    BY DEF Kernels
  <2>2. PICK n \in Nat : n = k.timeSliceCounter + 1
    BY <2>1
  <2>3. c = [k EXCEPT !.timeSliceCounter = n]
    BY <2>2
  <2> QED  BY <2>3 DEF Kernels, SameThreads
<1> HIDE DEF c
<1>2. Good(c)
  BY <1>1, GoodDepends DEF Sound
<1>3. u \in Kernels /\ Good(u) /\ Steady(c, u)
  BY <1>1, <1>2, OnTickType, OnTickKeeps
<1>4. {t \in Threads : c.remaining[t] = 1} = {}
  BY <1>1 DEF Sound, Manned, sleeps
<1>5. Moves(c, u, {}, "WAIT_TIMEOUT") /\ u.active = c.active /\ u.value = c.value
  BY <1>1, <1>2, <1>4, OnTickMoves
<1> HIDE DEF u
<1>6. SameCrew(k, u)
  BY <1>1, <1>3, <1>5 DEF SameCrew, Moves, SameCounts, Steady, SameThreads, sleeps
<1>7. \A t \in Threads : /\ u.blockedAtSem[t] = k.blockedAtSem[t]
                         /\ u.tokensNeeded[t] = k.tokensNeeded[t]
  BY <1>1, <1>5 DEF Moves
<1>8. /\ Sound(u, cl)
      /\ SameStocks(k, cl, u, cl)
  BY <1>1, <1>3, <1>5, <1>6, <1>7, SoundDepends
<1>9. u.running = k.running
  BY <1>1, <1>3 DEF Steady, SameThreads
<1> QED  BY <1>3, <1>8, <1>9 DEF u, c

\* UserMain creates a user.
LEMMA CreateSound ==
  ASSUME NEW k \in Kernels, NEW cl, Sound(k, cl),
         NEW t \in Threads \ k.created, t # Idle
  PROVE  LET u == ThreadCreate(k, t)
         IN  /\ u \in Kernels /\ Sound(u, cl) /\ u.running = k.running
             /\ SameStocks(k, cl, u, cl)
<1> DEFINE u == ThreadCreate(k, t)
<1>1. u \in Kernels /\ Good(u)
  BY ThreadCreateType, ThreadCreateKeeps DEF Sound
<1>2. /\ SameCrew(k, u) /\ u.blockedAtSem = k.blockedAtSem
      /\ u.tokensNeeded = k.tokensNeeded /\ u.running = k.running
      /\ \A x \in Sems \ SemsOf(t) : u.value[x] = k.value[x]
  BY ThreadCreateFields DEF SameCrew, sleeps
<1> HIDE DEF u
<1>3. \A s \in ConsoleSems : u.value[s] = k.value[s]
  BY <1>2, SemNames
<1>4. /\ Sound(u, cl)
      /\ SameStocks(k, cl, u, cl)
  BY <1>1, <1>2, <1>3, SoundDepends
<1> QED  BY <1>1, <1>2, <1>4 DEF u

-----------------------------------------------------------------------------
(***************************************************************************)
(* The steps of a buffer operation.  The running thread r enters one of    *)
(* its own, with what it wants or to wait for it, and leaves it with the   *)
(* item moved.                                                             *)
(***************************************************************************)
\* A thread that may enter an operation.
Entering(k, cl, r, op, b) ==
  /\ r = k.running /\ r \in Threads \ {Master, Idle}
  /\ cl[r] = NoCall /\ Call(op, b, "item") \in Operations(r)
  /\ op \in {"put", "get"} /\ b \in Buffers

\* The calls of the threads.
Calls == [Threads -> {NoCall} \cup UNION {Operations(t) : t \in Threads}]

\* Only the call of r changes, and becomes c.
Changes(cl, cm, r, c) ==
  cm \in Calls /\ cm[r] = c /\ \A t \in Threads \ {r} : cm[t] = cl[t]

\* The assignments of the model do that.
LEMMA ExceptChanges ==
  ASSUME NEW cl \in Calls, NEW r \in Threads, NEW c \in {NoCall} \cup Operations(r)
  PROVE  Changes(cl, [cl EXCEPT ![r] = c], r, c)
BY DEF Calls, Changes

\* Entering makes the thread one of those the operation is granted to, unless
\* it is blocked for it.
LEMMA EnterGranted ==
  ASSUME NEW k \in Kernels, NEW m, NEW cl \in Calls,
         NEW r, NEW op, NEW b, Entering(k, cl, r, op, b),
         \A t \in Threads \ {r} : m.blockedAtSem[t] = k.blockedAtSem[t],
         NEW cm, Changes(cl, cm, r, Call(op, b, "item"))
  PROVE  /\ r \notin GrantedIn(k, cl, op, b)
         /\ m.blockedAtSem[r] = Wanted(op, b) =>
              GrantedIn(m, cm, op, b) = GrantedIn(k, cl, op, b)
         /\ m.blockedAtSem[r] # Wanted(op, b) =>
              GrantedIn(m, cm, op, b) = GrantedIn(k, cl, op, b) \cup {r}
         /\ \A o \in {"put", "get"}, a \in Buffers :
              o # op \/ a # b => GrantedIn(m, cm, o, a) = GrantedIn(k, cl, o, a)
<1>1. /\ r \in Threads /\ cl[r].op = "none" /\ op # "none"
      /\ cm[r].op = op /\ cm[r].on = b
      /\ \A t \in Threads \ {r} : cm[t] = cl[t]
  BY DEF Entering, NoCall, Call, Changes
<1>2. r \notin GrantedIn(k, cl, op, b)
  BY <1>1 DEF GrantedIn
<1>3. /\ m.blockedAtSem[r] = Wanted(op, b) =>
           GrantedIn(m, cm, op, b) = GrantedIn(k, cl, op, b)
      /\ m.blockedAtSem[r] # Wanted(op, b) =>
           GrantedIn(m, cm, op, b) = GrantedIn(k, cl, op, b) \cup {r}
  BY <1>1, <1>2 DEF GrantedIn
<1>4. ASSUME NEW o \in {"put", "get"}, NEW a \in Buffers, o # op \/ a # b
      PROVE  GrantedIn(m, cm, o, a) = GrantedIn(k, cl, o, a)
  <2>1. \A t \in Threads : t \in GrantedIn(m, cm, o, a) <=> t \in GrantedIn(k, cl, o, a)
    BY <1>1, <1>4 DEF GrantedIn
  <2> QED  BY <2>1 DEF GrantedIn
<1> QED  BY <1>2, <1>3, <1>4

\* Entering keeps the calls and the mutexes in order.
LEMMA EnterFits ==
  ASSUME NEW k \in Kernels, NEW cl \in Calls, Sound(k, cl),
         NEW r, NEW op, NEW b, Entering(k, cl, r, op, b),
         NEW m, SameCrew(k, m), m.blockedAtSem[Master] = k.blockedAtSem[Master],
         \A s \in ConsoleSems \ {Wanted(op, b)} : m.value[s] = k.value[s],
         NEW cm, Changes(cl, cm, r, Call(op, b, "item"))
  PROVE  Manned(m) /\ MutexesFree(m) /\ CallsFit(m, cm)
<1>1. r \in Threads /\ Call(op, b, "item") \in Operations(r)
  BY DEF Entering
<1>3. Manned(m)
  BY CrewThreads DEF Sound, Manned, SameCrew
<1>4. MutexesFree(m)
  BY WantedMade, SemNames DEF Sound, MutexesFree, Entering
<1>5. r \in k.created
  BY DEF Entering, Sound, Good, Consistent, Registered
<1>6. CallsFit(m, cm)
  BY <1>1, <1>5 DEF Sound, CallsFit, SameCrew, Entering, Changes
<1> QED  BY <1>3, <1>4, <1>6

\* An operation that finds what it wants takes it and goes on.
LEMMA EnterSound ==
  ASSUME NEW k \in Kernels, NEW cl \in Calls, Sound(k, cl),
         NEW r, NEW op, NEW b, Entering(k, cl, r, op, b),
         k.value[Wanted(op, b)] >= 1,
         NEW cm, Changes(cl, cm, r, Call(op, b, "item"))
  PROVE  LET m == Acquire(k, Wanted(op, b), 1)
         IN  /\ m \in Kernels /\ Sound(m, cm) /\ m.running = r
             /\ SameStocks(k, cl, m, cm)
<1> DEFINE s == Wanted(op, b)
           m == Acquire(k, s, 1)
<1>1. op \in {"put", "get"} /\ b \in Buffers /\ r = k.running /\ r \in Threads
  BY DEF Entering
<1>2. s \in Sems /\ s # Null /\ s \in ConsoleSems
  BY <1>1, WantedMade, SemNames
<1> HIDE DEF s
<1>3. m \in Kernels /\ Good(m) /\ Steady(k, m)
  BY <1>2, AcquireType, AcquireKeeps DEF Sound, s
<1>4. /\ m.value = [k.value EXCEPT ![s] = @ - 1] /\ m.active = k.active
      /\ m.remaining = k.remaining /\ m.blockedAtSem = k.blockedAtSem
      /\ m.tokensNeeded = k.tokensNeeded
  BY DEF Acquire, Kernels
<1> HIDE DEF m
<1>5. /\ SameCrew(k, m) /\ m.blockedAtSem[Master] = k.blockedAtSem[Master]
      /\ m.running = r
  BY <1>1, <1>3, <1>4 DEF SameCrew, Steady, SameThreads, sleeps
<1>6. /\ k.value \in [Sems -> Nat] /\ m.value[s] = k.value[s] - 1
      /\ \A x \in Sems : x # s => m.value[x] = k.value[x]
  BY <1>2, <1>4, KernelFields
<1>7. Manned(m) /\ MutexesFree(m) /\ CallsFit(m, cm)
  <2>1. \A x \in ConsoleSems \ {s} : m.value[x] = k.value[x]
    BY <1>6, SemNames
  <2> QED  BY <1>5, <2>1, EnterFits DEF s
<1>8. m.blockedAtSem[r] = Null /\ k.blockedAtSem[r] = Null
  BY <1>1, <1>4, KernelFields DEF Sound, Good, RunnerRuns, WaitsIn
<1>9. WaitersFit(m, cm)
  BY <1>4, <1>8 DEF Sound, WaitersFit, Changes
<1>10. /\ r \notin GrantedIn(k, cl, op, b)
       /\ GrantedIn(m, cm, op, b) = GrantedIn(k, cl, op, b) \cup {r}
       /\ \A o \in {"put", "get"}, a \in Buffers :
            o # op \/ a # b => GrantedIn(m, cm, o, a) = GrantedIn(k, cl, o, a)
  <2>1. m.blockedAtSem[r] # Wanted(op, b)
    BY <1>2, <1>8 DEF s
  <2>2. \A t \in Threads \ {r} : m.blockedAtSem[t] = k.blockedAtSem[t]
    BY <1>4
  <2>3. r \notin GrantedIn(k, cl, op, b)
    BY <2>2, EnterGranted
  <2>4. GrantedIn(m, cm, op, b) = GrantedIn(k, cl, op, b) \cup {r}
    BY <2>1, <2>2, EnterGranted
  <2>5. \A o \in {"put", "get"}, a \in Buffers :
          o # op \/ a # b => GrantedIn(m, cm, o, a) = GrantedIn(k, cl, o, a)
    BY <2>2, EnterGranted
  <2> QED  BY <2>3, <2>4, <2>5
<1>11. ASSUME NEW o \in {"put", "get"}, NEW a \in Buffers
       PROVE  Stock(m, cm, o, a) = Stock(k, cl, o, a)
  <2>1. CASE o = op /\ a = b
    <3>1. Stock(m, cm, op, b) = Stock(k, cl, op, b) + 1 + m.value[s] - k.value[s]
      <4>1. OneMoreGranted(k, cl, m, cm, op, b, r)
        BY <1>10 DEF OneMoreGranted
      <4>2. m \in Kernels /\ op \in {"put", "get"} /\ b \in Buffers
        BY <1>1, <1>3
      <4>3. StockFollows(k, cl, m, cm, op, b)
        BY <4>1, <4>2, StockGrants
      <4> QED  BY <4>3 DEF StockFollows, s
    <3>2. k.value[s] \in Nat /\ Stock(k, cl, op, b) \in Nat
      BY <1>1, StockNat DEF s
    <3>3. m.value[s] = k.value[s] - 1
      BY <1>6
    <3>4. Stock(m, cm, op, b) = Stock(k, cl, op, b)
      BY <3>1, <3>2, <3>3
    <3> QED  BY <2>1, <3>4
  <2>2. CASE o # op \/ a # b
    <3>1. Wanted(o, a) # s /\ Wanted(o, a) \in Sems
      BY <1>1, <2>2, WantedMade, SemNames DEF s
    <3> QED  BY <1>6, <1>10, <2>2, <3>1 DEF Stock
  <2> QED  BY <2>1, <2>2
<1>12. SlotsFit(m, cm)
  BY <1>11 DEF Sound, SlotsFit
<1>13. Sound(m, cm)
  BY <1>3, <1>7, <1>9, <1>12 DEF Sound
<1> QED  BY <1>3, <1>5, <1>11, <1>13 DEF m, s, SameStocks

\* One that does not waits, and gives the processor away.
LEMMA WaitSound ==
  ASSUME NEW k \in Kernels, NEW cl \in Calls, Sound(k, cl),
         NEW r, NEW op, NEW b, Entering(k, cl, r, op, b),
         ~(k.value[Wanted(op, b)] >= 1),
         NEW cm, Changes(cl, cm, r, Call(op, b, "item"))
  PROVE  LET u == Yield(Block(k, Wanted(op, b), 1), FALSE)
         IN  /\ u \in Kernels /\ Sound(u, cm) /\ u.running # Idle
             /\ SameStocks(k, cl, u, cm)
<1> DEFINE s == Wanted(op, b)
           m == Block(k, s, 1)
           u == Yield(m, FALSE)
<1>1. op \in {"put", "get"} /\ b \in Buffers /\ r = k.running /\ r \in Threads \ {Master, Idle}
  BY DEF Entering
<1>2. s \in Sems /\ s # Null /\ s \in ConsoleSems /\ s \in k.active
  BY <1>1, WantedMade, SemNames DEF Sound, Manned
<1> HIDE DEF s
<1>3. k.value[s] = 0 /\ k.value \in [Sems -> Nat]
  BY <1>2, KernelFields DEF s
<1>4. m \in Kernels
  BY <1>2, <1>3, BlockType
<1>5. /\ Consistent(m) /\ SameThreads(k, m) /\ m.active = k.active
      /\ \A t \in Threads : m.blockedAtSem[t] = IF t = r THEN s ELSE k.blockedAtSem[t]
  BY <1>1, <1>2, <1>3, BlockKeeps DEF Sound
<1>6. /\ m.remaining = k.remaining /\ m.value = [k.value EXCEPT ![s] = 0]
      /\ m.tokensNeeded = [k.tokensNeeded EXCEPT ![r] = 1 - k.value[s]]
  BY <1>1 DEF Block, Kernels
<1> HIDE DEF m
<1>7. u \in Kernels
  BY <1>4, YieldType
<1>8. WaitsIn(m, m.running)
  BY <1>1, <1>2, <1>5 DEF WaitsIn, SameThreads
<1>9. Good(u)
  BY <1>4, <1>5, <1>8, YieldKeeps
<1>10. /\ u.created = m.created /\ u.finished = m.finished /\ u.active = m.active
       /\ u.value = m.value /\ u.remaining = m.remaining
       /\ u.blockedAtSem = m.blockedAtSem /\ u.tokensNeeded = m.tokensNeeded
  BY <1>4, YieldFields
<1>11. u.running = Idle => Range(u.ready) = {}
  BY <1>4, <1>5, YieldRuns
<1> HIDE DEF u
<1>12. SameCrew(k, u) /\ u.blockedAtSem[Master] = k.blockedAtSem[Master]
  BY <1>1, <1>5, <1>6, <1>10, CrewThreads DEF SameCrew, SameThreads, sleeps
<1>13. u.value = k.value
  BY <1>2, <1>3, <1>6, <1>10
<1>14. Manned(u) /\ MutexesFree(u) /\ CallsFit(u, cm)
  BY <1>12, <1>13, EnterFits
<1>15. WaitersFit(u, cm)
  <2>1. \A t \in Threads \ {r} : cm[t] = cl[t]
    BY DEF Changes
  <2>2. cm[r] = Call(op, b, "item")
    BY DEF Changes
  <2>3. cm[r].op = op /\ cm[r].on = b /\ cm[r] # NoCall
    BY <2>2 DEF Call, NoCall
  <2>4. u.tokensNeeded[r] = 1
    BY <1>1, <1>3, <1>6, <1>10, KernelFields
  <2>5. \A t \in Threads \ {r} : u.tokensNeeded[t] = k.tokensNeeded[t]
    BY <1>6, <1>10, KernelFields
  <2>6. \A t \in Threads : u.blockedAtSem[t] = IF t = r THEN s ELSE k.blockedAtSem[t]
    BY <1>5, <1>10
  <2> QED  BY <2>1, <2>3, <2>4, <2>5, <2>6 DEF Sound, WaitersFit, s
<1>16. \A o \in {"put", "get"}, a \in Buffers :
         GrantedIn(u, cm, o, a) = GrantedIn(k, cl, o, a)
  <2>1. /\ GrantedIn(u, cm, op, b) = GrantedIn(k, cl, op, b)
        /\ \A o \in {"put", "get"}, a \in Buffers :
             o # op \/ a # b => GrantedIn(u, cm, o, a) = GrantedIn(k, cl, o, a)
    <3>1. u.blockedAtSem[r] = Wanted(op, b)
      BY <1>1, <1>5, <1>10 DEF s
    <3>2. \A t \in Threads \ {r} : u.blockedAtSem[t] = k.blockedAtSem[t]
      BY <1>5, <1>10
    <3> QED  BY <3>1, <3>2, EnterGranted
  <2> QED  BY <2>1
<1>17. SameStocks(k, cl, u, cm)
  BY <1>13, <1>16 DEF SameStocks, Stock
<1>18. SlotsFit(u, cm)
  BY <1>17 DEF Sound, SlotsFit, SameStocks
<1>19. Sound(u, cm)
  BY <1>9, <1>14, <1>15, <1>18 DEF Sound
<1>20. u.running # Idle
  BY <1>7, <1>11, <1>19, SomeoneRuns
<1> QED  BY <1>7, <1>17, <1>19, <1>20 DEF u, m, s

\* A thread that is inside an operation and runs has been granted its item.
LEMMA RunnerGranted ==
  ASSUME NEW k \in Kernels, NEW cl \in Calls, Sound(k, cl), cl[k.running] # NoCall
  PROVE  /\ cl[k.running] \in Operations(k.running)
         /\ k.running \in Threads \ {Master, Idle}
         /\ k.blockedAtSem[k.running] = Null
         /\ k.running \in GrantedIn(k, cl, cl[k.running].op, cl[k.running].on)
<1>1. k.running \in Threads
  BY KernelFields
<1>2. cl[k.running] \in Operations(k.running) /\ k.running \notin {Master, Idle}
  BY <1>1 DEF Sound, CallsFit
<1>3. k.blockedAtSem[k.running] = Null
  BY DEF Sound, Good, RunnerRuns, WaitsIn
<1>4. Wanted(cl[k.running].op, cl[k.running].on) # Null
  BY <1>2, OperationKinds, WantedMade, SemNames
<1> QED  BY <1>1, <1>2, <1>3, <1>4 DEF GrantedIn

\* The other operation on a buffer.
Other(op) == IF op = "put" THEN "get" ELSE "put"

\* What one operation makes the other one wants.
LEMMA OtherWants ==
  ASSUME NEW op \in {"put", "get"}
  PROVE  /\ Other(op) \in {"put", "get"} /\ Other(op) # op
         /\ \A o \in {"put", "get"} : o = op \/ o = Other(op)
         /\ \A b : Wanted(Other(op), b) = Made(op, b)
BY DEF Other, Wanted, Made

\* A thread in the operation op on b.
Leaving(k, cl, r, op, b) ==
  r = k.running /\ cl[r] # NoCall /\ op = cl[r].op /\ b = cl[r].on

\* An operation on b has used one of what it wants and made one of the other.
Passes(k, cl, m, cm, op, b) ==
  /\ Stock(m, cm, op, b) = Stock(k, cl, op, b) - 1
  /\ Stock(m, cm, Other(op), b) = Stock(k, cl, Other(op), b) + 1
  /\ \A o \in {"put", "get"}, a \in Buffers \ {b} :
       Stock(m, cm, o, a) = Stock(k, cl, o, a)

\* The last signal of an operation: who is inside it leaves it, and there is
\* one more for the other operation.
LEMMA EndSound ==
  ASSUME NEW k \in Kernels, NEW cl \in Calls, Sound(k, cl),
         NEW r, NEW op, NEW b, Leaving(k, cl, r, op, b),
         NEW cm, Changes(cl, cm, r, NoCall)
  PROVE  LET m == Signal(k, Made(op, b))
         IN  /\ m \in Kernels /\ Sound(m, cm) /\ m.running = r
             /\ Passes(k, cl, m, cm, op, b)
<1> DEFINE s == Made(op, b)
           m == Signal(k, s)
           p == Other(op)
<1>1. /\ r \in Threads \ {Master, Idle} /\ cl[r] \in Operations(r)
      /\ op \in {"put", "get"} /\ b \in Buffers
      /\ k.blockedAtSem[r] = Null /\ r \in GrantedIn(k, cl, op, b)
  BY RunnerGranted, OperationKinds DEF Leaving
<1>2. /\ p \in {"put", "get"} /\ p # op /\ Wanted(p, b) = s
      /\ \A o \in {"put", "get"} : o = op \/ o = p
  BY <1>1, OtherWants
<1>3. s \in ConsoleSems /\ s \in Sems /\ s # Null /\ s \in k.active /\ Wanted(op, b) # s
  BY <1>1, WantedMade, SemNames DEF Sound, Manned
<1>4. k.blockedAtSem[Master] # s /\ Master \in Threads /\ Master # r
  BY <1>1, <1>3, SemNames, CrewThreads DEF Sound, Manned
<1> HIDE DEF s, p
<1>5. \A t \in Threads : k.blockedAtSem[t] = s =>
        /\ t # Master /\ k.tokensNeeded[t] = 1 /\ cl[t] # NoCall /\ cl[t] \in Operations(t)
        /\ Wanted(cl[t].op, cl[t].on) = s
  BY <1>3, <1>4 DEF Sound, WaitersFit, CallsFit
<1>6. m \in Kernels /\ Good(m) /\ Steady(k, m)
  BY SignalType, SignalKeeps DEF Sound
<1>7. PICK W \in SUBSET Threads :
        /\ \A t \in W : k.blockedAtSem[t] = s
        /\ Moves(k, m, W, "REGULAR") /\ m.active = k.active
        /\ \/ W = {} /\ m.value = [k.value EXCEPT ![s] = @ + 1]
           \/ \E u \in Threads : W = {u} /\ m.value = k.value
  <2>1. /\ m.active = k.active
        /\ \/ Moves(k, m, {}, "REGULAR") /\ m.value = [k.value EXCEPT ![s] = @ + 1]
           \/ \E u \in Threads : /\ k.blockedAtSem[u] = s /\ m.value = k.value
                                 /\ Moves(k, m, {u}, "REGULAR")
    <3>1. \A t \in Threads : k.blockedAtSem[t] = s => k.tokensNeeded[t] = 1
      BY <1>5
    <3> QED  BY <1>3, <3>1, SignalMoves DEF Sound
  <2>2. CASE Moves(k, m, {}, "REGULAR") /\ m.value = [k.value EXCEPT ![s] = @ + 1]
    BY <2>1, <2>2
  <2>3. CASE \E u \in Threads : /\ k.blockedAtSem[u] = s /\ m.value = k.value
                                /\ Moves(k, m, {u}, "REGULAR")
    <3>1. PICK u \in Threads : /\ k.blockedAtSem[u] = s /\ m.value = k.value
                               /\ Moves(k, m, {u}, "REGULAR")
      BY <2>3
    <3>2. {u} \in SUBSET Threads /\ \A t \in {u} : k.blockedAtSem[t] = s
      BY <3>1
    <3> HIDE DEF m
    <3> QED  BY <2>1, <3>1, <3>2
  <2> QED  BY <2>1, <2>2, <2>3
<1> HIDE DEF m
<1>9. cm[r] = NoCall /\ \A t \in Threads \ {r} : cm[t] = cl[t]
  BY DEF Changes
<1>10. /\ SameCrew(k, m) /\ m.running = r /\ m.created = k.created
       /\ m.blockedAtSem[Master] = k.blockedAtSem[Master]
  BY <1>4, <1>6, <1>7 DEF SameCrew, Steady, SameThreads, Moves, SameCounts, sleeps, Leaving
<1>11. \A t \in Threads : /\ m.blockedAtSem[t] = IF t \in W THEN Null ELSE k.blockedAtSem[t]
                          /\ t \notin W => m.tokensNeeded[t] = k.tokensNeeded[t]
  BY <1>7 DEF Moves
<1>12. \A x \in Sems : x # s => m.value[x] = k.value[x]
  BY <1>3, <1>7, KernelFields
<1>13. Manned(m)
  BY <1>10 DEF Sound, Manned, SameCrew
<1>14. MutexesFree(m)
  BY <1>1, <1>12, WantedMade, SemNames DEF Sound, MutexesFree, s
<1>15. CallsFit(m, cm)
  BY <1>9, <1>10 DEF Sound, CallsFit
<1>16. WaitersFit(m, cm)
  BY <1>1, <1>9, <1>11 DEF Sound, WaitersFit
<1>17. ASSUME NEW o \in {"put", "get"}, NEW a \in Buffers
       PROVE  \A t \in Threads :
                t \in GrantedIn(m, cm, o, a) <=>
                  \/ t \in GrantedIn(k, cl, o, a) /\ t # r
                  \/ t \in W /\ o = p /\ a = b
  <2> SUFFICES ASSUME NEW t \in Threads
               PROVE  t \in GrantedIn(m, cm, o, a) <=>
                        \/ t \in GrantedIn(k, cl, o, a) /\ t # r
                        \/ t \in W /\ o = p /\ a = b
    OBVIOUS
  <2>1. CASE t = r
    <3>1. t \notin W
      BY <1>1, <1>3, <1>7, <2>1
    <3>2. t \notin GrantedIn(m, cm, o, a)
      BY <1>9, <2>1 DEF GrantedIn, NoCall
    <3> QED  BY <2>1, <3>1, <3>2
  <2>2. CASE t \in W
    <3>1. t # r /\ cl[t] \in Operations(t) /\ Wanted(cl[t].op, cl[t].on) = s
      BY <1>1, <1>3, <1>5, <1>7, <2>2
    <3>2. cl[t].op \in {"put", "get"} /\ cl[t].on \in Buffers
      BY <3>1, OperationKinds
    <3>3. cl[t].op = p /\ cl[t].on = b
      BY <1>1, <1>2, <3>1, <3>2, WantedMade
    <3>4. m.blockedAtSem[t] = Null /\ k.blockedAtSem[t] = s
      BY <1>7, <1>11, <2>2
    <3>5. Wanted(o, a) # Null
      BY WantedMade, SemNames
    <3>6. t \in GrantedIn(m, cm, o, a) <=> o = p /\ a = b
      BY <1>9, <3>1, <3>3, <3>4, <3>5 DEF GrantedIn
    <3>7. o = p /\ a = b => t \notin GrantedIn(k, cl, o, a)
      BY <1>2, <3>4 DEF GrantedIn
    <3>8. t \in GrantedIn(k, cl, o, a) => o = p /\ a = b
      BY <3>3 DEF GrantedIn
    <3>9. t \notin GrantedIn(k, cl, o, a)
      BY <3>7, <3>8
    <3> QED  BY <2>2, <3>6, <3>9
  <2>3. CASE t # r /\ t \notin W
    BY <1>9, <1>11, <2>3 DEF GrantedIn
  <2> QED  BY <2>1, <2>2, <2>3
<1>18. Stock(m, cm, op, b) = Stock(k, cl, op, b) - 1
  <2>1. GrantedIn(m, cm, op, b) = GrantedIn(k, cl, op, b) \ {r}
    <3>1. \A t \in Threads : t \in GrantedIn(m, cm, op, b) <=>
                               t \in GrantedIn(k, cl, op, b) /\ t # r
      BY <1>1, <1>2, <1>17
    <3> QED  BY <3>1 DEF GrantedIn
  <2>2. m.value[Wanted(op, b)] = k.value[Wanted(op, b)]
    BY <1>1, <1>3, <1>12, WantedMade, SemNames
  <2>3. r \in GrantedIn(k, cl, op, b)
    BY <1>1, <1>6
  <2>4. OneLessGranted(k, cl, m, cm, op, b, r)
    BY <2>1, <2>2, <2>3 DEF OneLessGranted
  <2>5. m \in Kernels /\ op \in {"put", "get"} /\ b \in Buffers
    BY <1>1, <1>6
  <2> QED  BY <2>4, <2>5, StockEnds
<1>19. Stock(m, cm, p, b) = Stock(k, cl, p, b) + 1
  <2>1. \A t \in Threads : t \in GrantedIn(m, cm, p, b) <=>
                             t \in GrantedIn(k, cl, p, b) \/ t \in W
    <3>1. r \notin GrantedIn(k, cl, p, b)
      BY <1>2 DEF GrantedIn, Leaving
    <3> QED  BY <1>1, <1>2, <1>17, <3>1
  <2>2. CASE W = {} /\ m.value = [k.value EXCEPT ![s] = @ + 1]
    <3>1. GrantedIn(m, cm, p, b) = GrantedIn(k, cl, p, b)
      BY <2>1, <2>2 DEF GrantedIn
    <3>2. m.value[s] = k.value[s] + 1 /\ k.value[s] \in Nat
      BY <1>3, <2>2, KernelFields
    <3>3. Cardinality(GrantedIn(k, cl, p, b)) \in Nat
      BY <1>1, <1>2, StockNat
    <3> QED  BY <1>2, <3>1, <3>2, <3>3 DEF Stock
  <2>3. CASE \E u \in Threads : W = {u} /\ m.value = k.value
    <3>1. PICK u \in Threads : W = {u} /\ m.value = k.value
      BY <2>3
    <3>2. GrantedIn(m, cm, p, b) = GrantedIn(k, cl, p, b) \cup {u}
      BY <2>1, <3>1 DEF GrantedIn
    <3>3. u \notin GrantedIn(k, cl, p, b)
      BY <1>2, <1>7, <3>1 DEF GrantedIn
    <3>4. Stock(m, cm, p, b) = Stock(k, cl, p, b) + 1
                               + m.value[Wanted(p, b)] - k.value[Wanted(p, b)]
      <4>1. p \in {"put", "get"} /\ b \in Buffers /\ m \in Kernels
        BY <1>1, <1>2, <1>6
      <4>2. OneMoreGranted(k, cl, m, cm, p, b, u)
        BY <3>2, <3>3 DEF OneMoreGranted
      <4>3. StockFollows(k, cl, m, cm, p, b)
        BY <4>1, <4>2, StockGrants
      <4> QED  BY <4>3 DEF StockFollows
    <3>5. k.value[Wanted(p, b)] \in Nat /\ Stock(k, cl, p, b) \in Nat
      BY <1>1, <1>2, StockNat
    <3> QED  BY <3>1, <3>4, <3>5
  <2> QED  BY <1>7, <2>2, <2>3
<1>20. ASSUME NEW o \in {"put", "get"}, NEW a \in Buffers \ {b}
       PROVE  Stock(m, cm, o, a) = Stock(k, cl, o, a)
  <2>1. r \notin GrantedIn(k, cl, o, a)
    BY DEF GrantedIn, Leaving
  <2>2. GrantedIn(m, cm, o, a) = GrantedIn(k, cl, o, a)
    <3>1. \A t \in Threads : t \in GrantedIn(m, cm, o, a) <=> t \in GrantedIn(k, cl, o, a)
      BY <1>17, <2>1
    <3> QED  BY <3>1 DEF GrantedIn
  <2>3. m.value[Wanted(o, a)] = k.value[Wanted(o, a)]
    BY <1>1, <1>2, <1>12, WantedMade, SemNames
  <2> QED  BY <2>2, <2>3 DEF Stock
<1>21. SlotsFit(m, cm)
  <2>1. ASSUME NEW a \in Buffers
        PROVE  Stock(m, cm, "get", a) + Stock(m, cm, "put", a) = Length
    <3>1. /\ Stock(k, cl, "get", a) + Stock(k, cl, "put", a) = Length
          /\ Stock(k, cl, "get", a) \in Nat /\ Stock(k, cl, "put", a) \in Nat
      BY StockNat DEF Sound, SlotsFit
    <3>2. CASE a = b
      <4>2. (op = "put" /\ p = "get") \/ (op = "get" /\ p = "put")
        BY <1>1, <1>2
      <4>3. CASE op = "put" /\ p = "get"
        <5>1. Stock(m, cm, "get", a) = Stock(k, cl, "get", a) + 1
              /\ Stock(m, cm, "put", a) = Stock(k, cl, "put", a) - 1
          BY <1>18, <1>19, <3>2, <4>3
        <5> QED  BY <3>1, <5>1
      <4>4. CASE op = "get" /\ p = "put"
        <5>1. Stock(m, cm, "get", a) = Stock(k, cl, "get", a) - 1
              /\ Stock(m, cm, "put", a) = Stock(k, cl, "put", a) + 1
          BY <1>18, <1>19, <3>2, <4>4
        <5> QED  BY <3>1, <5>1
      <4> QED  BY <4>2, <4>3, <4>4
    <3>3. CASE a # b
      BY <1>20, <3>1, <3>3
    <3> QED  BY <3>2, <3>3
  <2> QED  BY <2>1 DEF SlotsFit
<1>22. Sound(m, cm)
  BY <1>6, <1>13, <1>14, <1>15, <1>16, <1>21 DEF Sound
<1> QED  BY <1>6, <1>10, <1>18, <1>19, <1>20, <1>22 DEF m, s, p, Passes

\* The mutex is taken and given back, and nobody has waited for it.
LEMMA MutexSound ==
  ASSUME NEW k \in Kernels, NEW cl \in Calls, Sound(k, cl), NEW b \in Buffers
  PROVE  LET n == Signal(Acquire(k, mutex(b), 1), mutex(b))
         IN  /\ k.value[mutex(b)] >= 1
             /\ n \in Kernels /\ Sound(n, cl) /\ n.running = k.running
             /\ SameStocks(k, cl, n, cl)
<1> DEFINE s == mutex(b)
           l == Acquire(k, s, 1)
           n == Signal(l, s)
<1>1. s \in Sems /\ s # Null /\ s \in k.active /\ s \in ConsoleSems
  BY SemNames DEF Sound, Manned
<1>2. k.value[s] = 1 /\ k.value \in [Sems -> Nat]
  BY KernelFields DEF Sound, MutexesFree
<1>3. \A t \in Threads : k.blockedAtSem[t] # s
  <2> SUFFICES ASSUME NEW t \in Threads PROVE k.blockedAtSem[t] # s
    OBVIOUS
  <2>1. CASE t = Master
    BY <1>1, <2>1, SemNames, CrewThreads DEF Sound, Manned
  <2>2. CASE t # Master /\ k.blockedAtSem[t] # Null
    <3>1. cl[t] \in Operations(t) /\ k.blockedAtSem[t] = Wanted(cl[t].op, cl[t].on)
      BY <2>2 DEF Sound, WaitersFit, CallsFit
    <3>2. cl[t].op \in {"put", "get"} /\ cl[t].on \in Buffers
      BY <3>1, OperationKinds
    <3> QED  BY <3>1, <3>2, WantedMade
  <2> QED  BY <1>1, <2>1, <2>2
<1> HIDE DEF s
<1>4. l \in Kernels /\ Good(l) /\ Steady(k, l)
  BY <1>1, <1>2, AcquireType, AcquireKeeps DEF Sound
<1>5. /\ l.value = [k.value EXCEPT ![s] = @ - 1] /\ l.active = k.active
      /\ l.remaining = k.remaining /\ l.blockedAtSem = k.blockedAtSem
      /\ l.tokensNeeded = k.tokensNeeded
  BY DEF Acquire, Kernels
<1> HIDE DEF l
<1>6. n \in Kernels /\ Good(n) /\ Steady(l, n)
  BY <1>4, SignalType, SignalKeeps
<1>7. /\ Moves(l, n, {}, "REGULAR") /\ n.active = l.active
      /\ n.value = [l.value EXCEPT ![s] = @ + 1]
  <2>1. /\ \A t \in Threads : l.blockedAtSem[t] = s => l.tokensNeeded[t] = 1
        /\ ~\E t \in Threads : l.blockedAtSem[t] = s
    BY <1>3, <1>5
  <2>2. s \in l.active
    BY <1>1, <1>5
  <2>3. /\ n.active = l.active
        /\ \/ Moves(l, n, {}, "REGULAR") /\ n.value = [l.value EXCEPT ![s] = @ + 1]
           \/ \E t \in Threads : /\ l.blockedAtSem[t] = s /\ n.value = l.value
                                 /\ Moves(l, n, {t}, "REGULAR")
    BY <1>1, <1>4, <2>1, <2>2, SignalMoves
  <2> HIDE DEF n
  <2> QED  BY <2>1, <2>3
<1> HIDE DEF n
<1>8. SameCrew(k, n) /\ n.running = k.running
  BY <1>4, <1>5, <1>6, <1>7 DEF SameCrew, Steady, SameThreads, Moves, SameCounts, sleeps
<1>9. \A t \in Threads : /\ n.blockedAtSem[t] = k.blockedAtSem[t]
                         /\ n.tokensNeeded[t] = k.tokensNeeded[t]
  BY <1>5, <1>7 DEF Moves
<1>10. \A x \in ConsoleSems : n.value[x] = k.value[x]
  BY <1>1, <1>2, <1>5, <1>7, SemNames
<1>11. /\ Sound(n, cl)
       /\ SameStocks(k, cl, n, cl)
  BY <1>6, <1>8, <1>9, <1>10, SoundDepends
<1> QED  BY <1>2, <1>6, <1>8, <1>11 DEF n, l, s

\* The second half of an operation.
LEMMA LeaveSound ==
  ASSUME NEW k \in Kernels, NEW cl \in Calls, Sound(k, cl),
         NEW r, NEW op, NEW b, Leaving(k, cl, r, op, b),
         NEW cm, Changes(cl, cm, r, NoCall)
  PROVE  LET m == Leave(Acquire(k, mutex(b), 1), op, b)
         IN  /\ k.value[mutex(b)] >= 1
             /\ m \in Kernels /\ Sound(m, cm) /\ m.running = r
             /\ Passes(k, cl, m, cm, op, b)
<1> DEFINE n == Signal(Acquire(k, mutex(b), 1), mutex(b))
           m == Signal(n, Made(op, b))
<1>1. op \in {"put", "get"} /\ b \in Buffers
  BY RunnerGranted, OperationKinds DEF Leaving
<1>2. /\ k.value[mutex(b)] >= 1 /\ n \in Kernels /\ Sound(n, cl) /\ n.running = r
      /\ SameStocks(k, cl, n, cl)
  BY <1>1, MutexSound DEF Leaving
<1> HIDE DEF n
<1>3. m \in Kernels /\ Sound(m, cm) /\ m.running = r /\ Passes(n, cl, m, cm, op, b)
  <2>1. Leaving(n, cl, r, op, b)
    BY <1>2 DEF Leaving
  <2> QED  BY <1>2, <2>1, EndSound
<1>4. Leave(Acquire(k, mutex(b), 1), op, b) = m
  BY DEF Leave, n
<1> HIDE DEF m
<1>5. Other(op) \in {"put", "get"}
  BY <1>1, OtherWants
<1>6. Passes(k, cl, m, cm, op, b)
  BY <1>1, <1>2, <1>3, <1>5 DEF Passes, SameStocks
<1> QED  BY <1>2, <1>3, <1>4, <1>6

-----------------------------------------------------------------------------
(***************************************************************************)
(* The ring.                                                               *)
(***************************************************************************)
\* Positions wrap at most once.
LEMMA Wraps ==
  /\ Length \in Nat \ {0}
  /\ \A x \in 0 .. 2 * Length - 1 : x % Length = IF x < Length THEN x ELSE x - Length
<1>1. Length \in Nat \ {0}
  BY ConsoleAssumption
<1>2. \A a, c \in Nat : c > 0 /\ a < c => a % c = a
  OBVIOUS
<1>3. ASSUME NEW x \in 0 .. 2 * Length - 1, ~(x < Length)
      PROVE  x % Length = x - Length
  <2>1. PICK y \in Nat : y = x - Length /\ y < Length
    BY <1>1, <1>3
  <2>2. (y + Length) % Length = y % Length
    BY <1>1, <2>1
  <2>3. y % Length = y /\ x = y + Length
    BY <1>1, <1>2, <2>1
  <2> QED  BY <2>1, <2>2, <2>3
<1> QED  BY <1>1, <1>2, <1>3

\* Every position that a ring reaches is one.
LEMMA WrapsFrom ==
  ASSUME NEW p \in 0 .. Length - 1, NEW j \in 0 .. Length
  PROVE  /\ (p + j) % Length = IF p + j < Length THEN p + j ELSE p + j - Length
         /\ (p + j) % Length \in 0 .. Length - 1
<1>1. p + j \in 0 .. 2 * Length - 1
  BY Wraps
<1>2. (p + j) % Length = IF p + j < Length THEN p + j ELSE p + j - Length
  BY <1>1, Wraps
<1> QED  BY <1>2, Wraps

\* The characters of a ring with n filled slots, the oldest first.
Text(r, n) == [i \in 1 .. n |-> r.buffer[(r.pos_r + i - 1) % Length]]

\* A character put is the last one.
LEMMA RingPuts ==
  ASSUME NEW r \in Rings, NEW n \in Nat, n < Length, RingFits(r, n), NEW c \in Chars
  PROVE  LET w == RingPut(r, c)
         IN  w \in Rings /\ RingFits(w, n + 1) /\ Text(w, n + 1) = Append(Text(r, n), c)
<1> DEFINE w == RingPut(r, c)
<1>0. PICK p \in 0 .. Length - 1 : p = r.pos_r
  BY DEF Rings
<1>1. /\ r.pos_w \in 0 .. Length - 1 /\ r.pos_w = (p + n) % Length
      /\ r.buffer \in [0 .. Length - 1 -> Chars \cup {Null}]
  BY <1>0 DEF Rings, RingFits
<1>2. /\ w.pos_r = p /\ w.pos_w = (r.pos_w + 1) % Length
      /\ w.buffer = [r.buffer EXCEPT ![r.pos_w] = c] /\ w \in Rings
  <2>1. (r.pos_w + 1) % Length \in 0 .. Length - 1
    <3>1. 1 \in 0 .. Length
      BY Wraps
    <3> QED  BY <1>1, <3>1, WrapsFrom
  <2> QED  BY <1>0, <2>1 DEF RingPut, Rings
<1> HIDE DEF w
<1>3. w.pos_w = (p + (n + 1)) % Length
  <2>1. /\ 1 \in 0 .. Length /\ n \in 0 .. Length /\ n + 1 \in 0 .. Length
        /\ Length \in Nat \ {0}
    BY Wraps
  <2>2. r.pos_w = IF p + n < Length THEN p + n ELSE p + n - Length
    BY <1>1, <2>1, WrapsFrom
  <2>3. (p + (n + 1)) % Length = IF p + (n + 1) < Length THEN p + (n + 1)
                                 ELSE p + (n + 1) - Length
    BY <2>1, WrapsFrom
  <2>4. w.pos_w = IF r.pos_w + 1 < Length THEN r.pos_w + 1 ELSE r.pos_w + 1 - Length
    BY <1>1, <1>2, <2>1, WrapsFrom
  <2> QED  BY <2>1, <2>2, <2>3, <2>4
<1>4. ASSUME NEW i \in 1 .. n
      PROVE  /\ (p + i - 1) % Length \in 0 .. Length - 1
             /\ (p + i - 1) % Length # r.pos_w
  <2>1. PICK h \in 0 .. Length : h = i - 1 /\ h < n
    BY Wraps
  <2>2. p + i - 1 = p + h
    BY <2>1, Wraps
  <2>3. (p + h) % Length = IF p + h < Length THEN p + h ELSE p + h - Length
    BY WrapsFrom
  <2>4. n \in 0 .. Length /\ Length \in Nat \ {0}
    BY Wraps
  <2>5. r.pos_w = IF p + n < Length THEN p + n ELSE p + n - Length
    BY <1>1, <2>4, WrapsFrom
  <2> QED  BY <2>1, <2>2, <2>3, <2>4, <2>5
<1>5. ASSUME NEW i \in 1 .. n
      PROVE  w.buffer[(w.pos_r + i - 1) % Length] = r.buffer[(r.pos_r + i - 1) % Length]
  BY <1>0, <1>1, <1>2, <1>4
<1>6. w.buffer[(w.pos_r + (n + 1) - 1) % Length] = c
  <2>1. w.pos_r + (n + 1) - 1 = p + n
    BY <1>2, Wraps
  <2> QED  BY <1>1, <1>2, <2>1
<1>7. \A i \in 1 .. n + 1 : i \in 1 .. n \/ i = n + 1
  OBVIOUS
<1>8. RingFits(w, n + 1)
  <2>1. ASSUME NEW i \in 1 .. n + 1
        PROVE  w.buffer[(w.pos_r + i - 1) % Length] \in Chars
    BY <1>5, <1>6, <1>7 DEF RingFits
  <2> QED  BY <1>2, <1>3, <2>1 DEF RingFits
<1>9. Text(w, n + 1) = Append(Text(r, n), c)
  <2> DEFINE t == Text(r, n)
             v == Append(t, c)
  <2>1. t \in Seq(Chars) /\ Len(t) = n /\ \A i \in 1 .. n : t[i] = r.buffer[(r.pos_r + i - 1) % Length]
    BY DEF Text, RingFits
  <2> HIDE DEF t
  <2>2. /\ v \in Seq(Chars) /\ Len(v) = n + 1 /\ v[n + 1] = c
        /\ \A i \in 1 .. n : v[i] = t[i]
    BY <2>1, AppendProperties
  <2>3. DOMAIN v = 1 .. n + 1
    BY <2>2
  <2> HIDE DEF v
  <2>4. \A i \in 1 .. n + 1 : v[i] = w.buffer[(w.pos_r + i - 1) % Length]
    BY <1>5, <1>6, <1>7, <2>1, <2>2
  <2>5. v = [i \in 1 .. n + 1 |-> v[i]]
    BY <2>2, <2>3
  <2> QED  BY <2>4, <2>5 DEF Text, v, t
<1> QED  BY <1>2, <1>8, <1>9 DEF w

\* A character got is the first one.
LEMMA RingGets ==
  ASSUME NEW r \in Rings, NEW n \in Nat, 0 < n, n <= Length, RingFits(r, n)
  PROVE  LET w == RingGet(r)
         IN  /\ w \in Rings /\ RingFits(w, n - 1)
             /\ Text(r, n) # <<>> /\ Text(w, n - 1) = Tail(Text(r, n))
             /\ Head(Text(r, n)) = r.buffer[r.pos_r] /\ r.buffer[r.pos_r] \in Chars
<1> DEFINE w == RingGet(r)
<1>0. PICK p \in 0 .. Length - 1 : p = r.pos_r
  BY DEF Rings
<1>1. /\ r.pos_w \in 0 .. Length - 1 /\ r.pos_w = (p + n) % Length
      /\ r.buffer \in [0 .. Length - 1 -> Chars \cup {Null}]
  BY <1>0 DEF Rings, RingFits
<1>11. (p + 1) % Length \in 0 .. Length - 1
  <2>1. 1 \in 0 .. Length
    BY Wraps
  <2> QED  BY <2>1, WrapsFrom
<1>2. /\ w.pos_r = (p + 1) % Length /\ w.pos_w = r.pos_w
      /\ w.buffer = r.buffer /\ w \in Rings
  BY <1>0, <1>11 DEF RingGet, Rings
<1> HIDE DEF w
<1>12. ASSUME NEW j \in 0 .. n - 1
       PROVE  (w.pos_r + j) % Length = (p + (j + 1)) % Length
  <2>1. /\ 1 \in 0 .. Length /\ j \in 0 .. Length /\ j + 1 \in 0 .. Length
        /\ Length \in Nat \ {0} /\ j + 1 <= Length
    BY Wraps
  <2>2. PICK v \in 0 .. Length - 1 : v = w.pos_r
    BY <1>2, <1>11
  <2>3. v = IF p + 1 < Length THEN p + 1 ELSE p + 1 - Length
    BY <1>2, <2>1, <2>2, WrapsFrom
  <2>4. (v + j) % Length = IF v + j < Length THEN v + j ELSE v + j - Length
    BY <2>1, WrapsFrom
  <2>5. (p + (j + 1)) % Length = IF p + (j + 1) < Length THEN p + (j + 1)
                                 ELSE p + (j + 1) - Length
    BY <2>1, WrapsFrom
  <2> QED  BY <2>1, <2>2, <2>3, <2>4, <2>5
<1>3. w.pos_w = (w.pos_r + (n - 1)) % Length
  <2>1. n - 1 \in 0 .. n - 1 /\ n - 1 + 1 = n
    OBVIOUS
  <2> QED  BY <1>1, <1>2, <1>12, <2>1
<1>4. ASSUME NEW i \in 1 .. n - 1
      PROVE  (w.pos_r + i - 1) % Length = (r.pos_r + (i + 1) - 1) % Length
  <2>1. i - 1 \in 0 .. n - 1 /\ i - 1 + 1 = i
    OBVIOUS
  <2>2. w.pos_r + i - 1 = w.pos_r + (i - 1) /\ p + (i + 1) - 1 = p + i
    BY <1>2, <1>11, Wraps
  <2>3. (w.pos_r + (i - 1)) % Length = (p + i) % Length
    BY <1>12, <2>1
  <2> QED  BY <1>0, <2>2, <2>3
<1>5. RingFits(w, n - 1)
  <2>1. ASSUME NEW i \in 1 .. n - 1
        PROVE  w.buffer[(w.pos_r + i - 1) % Length] \in Chars
    <3>1. i + 1 \in 1 .. n
      OBVIOUS
    <3> QED  BY <1>2, <1>4, <3>1 DEF RingFits
  <2> QED  BY <1>3, <2>1 DEF RingFits
<1>6. (r.pos_r + 1 - 1) % Length = r.pos_r
  <2>1. p + 1 - 1 = p + 0 /\ 0 \in 0 .. Length
    BY Wraps
  <2>2. (p + 0) % Length = IF p + 0 < Length THEN p + 0 ELSE p + 0 - Length
    BY <2>1, WrapsFrom
  <2>3. p + 0 = p /\ p < Length
    BY Wraps
  <2> QED  BY <1>0, <2>1, <2>2, <2>3
<1>7. r.buffer[r.pos_r] \in Chars
  <2>1. 1 \in 1 .. n
    OBVIOUS
  <2> QED  BY <1>6, <2>1 DEF RingFits
<1> DEFINE t == Text(r, n)
<1>8. /\ t \in Seq(Chars) /\ Len(t) = n
      /\ \A i \in 1 .. n : t[i] = r.buffer[(r.pos_r + i - 1) % Length]
  BY DEF Text, RingFits
<1> HIDE DEF t
<1>9. t # <<>> /\ Head(t) = r.buffer[r.pos_r]
  <2>1. t # <<>> /\ Head(t) = t[1] /\ 1 \in 1 .. n
    BY <1>8
  <2> QED  BY <1>6, <1>8, <2>1
<1>10. Text(w, n - 1) = Tail(t)
  <2>1. /\ Tail(t) \in Seq(Chars) /\ Len(Tail(t)) = n - 1
        /\ \A i \in 1 .. n - 1 : Tail(t)[i] = t[i + 1]
    BY <1>8, <1>9
  <2>2. DOMAIN Tail(t) = 1 .. n - 1
    BY <2>1
  <2>3. \A i \in 1 .. n - 1 : i + 1 \in 1 .. n
    OBVIOUS
  <2>4. ASSUME NEW i \in 1 .. n - 1
        PROVE  Tail(t)[i] = w.buffer[(w.pos_r + i - 1) % Length]
    BY <1>2, <1>4, <1>8, <2>1, <2>3
  <2>5. Text(w, n - 1) = [i \in 1 .. n - 1 |-> w.buffer[(w.pos_r + i - 1) % Length]]
    BY DEF Text
  <2>6. PICK v \in Seq(Chars) : v = Tail(t)
    BY <2>1
  <2>7. DOMAIN v = 1 .. n - 1
    BY <2>2, <2>6
  <2>8. \A i \in 1 .. n - 1 : v[i] = w.buffer[(w.pos_r + i - 1) % Length]
    BY <2>4, <2>6
  <2>9. v = [i \in DOMAIN v |-> v[i]]
    OBVIOUS
  <2> QED  BY <2>5, <2>6, <2>7, <2>8, <2>9
<1> QED  BY <1>2, <1>5, <1>7, <1>9, <1>10 DEF w, t

-----------------------------------------------------------------------------
(***************************************************************************)
(* The steps of the console.                                               *)
(***************************************************************************)
\* The types of what is neither the kernel's nor a ring.
RestOK ==
  /\ pc \in [Buffers -> {"poll", "load", "ready", "idle", "device", "buffer"}]
  /\ held \in [Threads -> Chars \cup {Null}]
  /\ pass \in [Buffers -> BOOLEAN]
  /\ got \in Chars \cup {Null}
  /\ rx \in Seq(Chars)
  /\ tx \in Chars \cup {Null}

\* The characters of a buffer are the text of its ring,
LEMMA ContentsText ==
  ASSUME NEW b
  PROVE  /\ Filled(b) = Stock(kernel, call, "get", b)
         /\ Free(b) = Stock(kernel, call, "put", b)
         /\ Contents(b) = Text(ring[b], Stock(kernel, call, "get", b))
<1>1. /\ Granted("get", b) = GrantedIn(kernel, call, "get", b)
      /\ Granted("put", b) = GrantedIn(kernel, call, "put", b)
  BY DEF Granted, GrantedIn
<1>2. Wanted("get", b) = semGet(b) /\ Wanted("put", b) = semPut(b)
  BY DEF Wanted
<1>3. /\ Filled(b) = Stock(kernel, call, "get", b)
      /\ Free(b) = Stock(kernel, call, "put", b)
  BY <1>1, <1>2 DEF Filled, Free, Stock
<1> QED  BY <1>3 DEF Contents, Text

\* and are after a step.
LEMMA ContentsAfter ==
  ASSUME NEW CONSTANT b
  PROVE  Contents(b)' = Text(ring'[b], Stock(kernel', call', "get", b))
<1>1. Granted("get", b)' = GrantedIn(kernel', call', "get", b)
  BY DEF Granted, GrantedIn
<1>2. Filled(b)' = Stock(kernel', call', "get", b)
  BY <1>1 DEF Filled, Stock, Wanted
<1> QED  BY <1>2 DEF Contents, Text

\* Nothing has entered or left a buffer.
SameContents == \A b \in Buffers : Contents(b)' = Contents(b)

\* A step that leaves the rings and the stocks alone.
LEMMA QuietKeeps ==
  ASSUME ConsoleInv, NEW m \in Kernels, NEW cm \in Calls, Sound(m, cm),
         m.running # Idle,
         SameStocks(kernel, call, m, cm),
         kernel' = m, call' = cm, ring' = ring, program' = program,
         RestOK', HandsFit', DeviceFits'
  PROVE  ConsoleInv' /\ SameContents
<1>1. \A b \in Buffers : Stock(kernel', call', "get", b) = Stock(kernel, call, "get", b)
  BY DEF SameStocks
<1>2. TypeOK'
  BY DEF ConsoleInv, TypeOK, RestOK, Calls
<1>3. Sound(kernel', call') /\ SomebodyCanRun'
  BY DEF SomebodyCanRun, running
<1>4. \A b \in Buffers : RingFits(ring'[b], Stock(kernel', call', "get", b))
  BY <1>1 DEF ConsoleInv
<1>5. ConsoleInv'
  BY <1>2, <1>3, <1>4 DEF ConsoleInv
<1>6. ASSUME NEW b \in Buffers PROVE Contents(b)' = Contents(b)
  <2>1. Contents(b) = Text(ring[b], Stock(kernel, call, "get", b))
    BY ContentsText
  <2>2. Contents(b)' = Text(ring'[b], Stock(kernel', call', "get", b))
    BY ContentsAfter
  <2> QED  BY <1>1, <2>1, <2>2
<1> QED  BY <1>5, <1>6 DEF SameContents

\* What the invariant says of the state.
LEMMA InvFacts ==
  ASSUME ConsoleInv
  PROVE  /\ RestOK /\ HandsFit /\ DeviceFits
         /\ kernel \in Kernels /\ call \in Calls /\ ring \in [Buffers -> Rings]
         /\ Sound(kernel, call) /\ running # Idle /\ running \in Threads
         /\ \A b \in Buffers : RingFits(ring[b], Stock(kernel, call, "get", b))
BY KernelFields DEF ConsoleInv, TypeOK, RestOK, Calls, SomebodyCanRun, running

\* A step that moves nothing but the device and the console threads.
LEMMA StillKeeps ==
  ASSUME ConsoleInv, kernel' = kernel, call' = call, ring' = ring,
         program' = program, RestOK', HandsFit', DeviceFits'
  PROVE  ConsoleInv' /\ SameContents
<1>1. SameStocks(kernel, call, kernel, call)
  BY DEF SameStocks
<1> QED  BY <1>1, InvFacts, QuietKeeps DEF running

\* The condition of the loop,
LEMMA LoadStatusKeeps ==
  ASSUME ConsoleInv, NEW b \in Buffers, LoadStatus(b), program' = program
  PROVE  ConsoleInv' /\ SameContents
<1>1. /\ pc[b] = "load" /\ running = IOTCB(b) /\ call[running] = NoCall
      /\ pc' \in [Buffers -> {"poll", "load", "ready", "idle", "device", "buffer"}]
      /\ pc'[b] \in {"ready", "idle"}
      /\ pc'[b] = "ready" => IF b = "input" THEN rx # <<>> ELSE tx = Null
      /\ \A a \in Buffers \ {b} : pc'[a] = pc[a]
  BY InvFacts DEF LoadStatus, IOAt, Unmasked, RestOK
<1>2. RestOK'
  BY <1>1, InvFacts DEF RestOK, LoadStatus
<1>3. held' = held /\ call' = call /\ rx' = rx /\ tx' = tx
  BY DEF LoadStatus
<1>4. HandsFit'
  BY <1>1, <1>3, InvFacts DEF HandsFit, Buffers
<1>5. DeviceFits'
  BY <1>1, <1>3, InvFacts DEF DeviceFits, Buffers, IOTCB
<1> QED  BY <1>2, <1>4, <1>5, StillKeeps DEF LoadStatus

\* and the assignment.
LEMMA StorePassKeeps ==
  ASSUME ConsoleInv, NEW b \in Buffers, StorePass(b), program' = program
  PROVE  ConsoleInv' /\ SameContents
<1>1. /\ running = IOTCB(b) /\ call[running] = NoCall
      /\ pc' \in [Buffers -> {"poll", "load", "ready", "idle", "device", "buffer"}]
      /\ pass' \in [Buffers -> BOOLEAN]
      /\ \/ pc[b] = "ready" /\ pc'[b] = IF b = "input" THEN "device" ELSE "buffer"
         \/ pc[b] = "idle" /\ pc'[b] = "poll"
      /\ \A a \in Buffers \ {b} : pc'[a] = pc[a]
  BY InvFacts DEF StorePass, IOAt, Unmasked, RestOK
<1>2. RestOK'
  BY <1>1, InvFacts DEF RestOK, StorePass
<1>3. held' = held /\ call' = call /\ rx' = rx /\ tx' = tx
  BY DEF StorePass
<1>4. HandsFit'
  BY <1>1, <1>3, InvFacts DEF HandsFit, Buffers
<1>5. DeviceFits'
  BY <1>1, <1>3, InvFacts DEF DeviceFits, Buffers, IOTCB
<1> QED  BY <1>2, <1>4, <1>5, StillKeeps DEF StorePass

\* A character comes from the device,
LEMMA ReadDataKeeps ==
  ASSUME ConsoleInv, ReadData, program' = program
  PROVE  ConsoleInv' /\ SameContents /\ held'[InputTCB] \in Chars
         /\ held'[OutputTCB] = held[OutputTCB] /\ held[InputTCB] = Null
<1>1. /\ running = InputTCB /\ call[InputTCB] = NoCall /\ pc["input"] = "device"
      /\ pc' = [pc EXCEPT !["input"] = "buffer"]
      /\ held' = [held EXCEPT ![InputTCB] = Head(rx)] /\ rx' = Tail(rx)
  BY DEF ReadData, IOAt, Unmasked, IOTCB
<1>2. Head(rx) \in Chars /\ Tail(rx) \in Seq(Chars)
  BY <1>1, InvFacts DEF DeviceFits, RestOK
<1>3. RestOK'
  <2>1. PICK c \in Chars : c = Head(rx)
    BY <1>2
  <2>2. held' \in [Threads -> Chars \cup {Null}]
    BY <1>1, <2>1, InvFacts DEF RestOK
  <2>3. pc' \in [Buffers -> {"poll", "load", "ready", "idle", "device", "buffer"}]
    BY <1>1, InvFacts DEF RestOK
  <2>4. rx' \in Seq(Chars) /\ pass' = pass /\ got' = Null /\ tx' = tx
    BY <1>1, <1>2 DEF ReadData
  <2> QED  BY <2>2, <2>3, <2>4, InvFacts DEF RestOK
<1>4. call' = call /\ tx' = tx
  BY DEF ReadData
<1>5. /\ pc'["input"] = "buffer" /\ pc'["output"] = pc["output"]
      /\ held'[InputTCB] \in Chars
      /\ \A t \in Threads \ {InputTCB} : held'[t] = held[t]
  BY <1>1, <1>2, InvFacts, CrewThreads DEF RestOK, Buffers
<1>6. HandsFit'
  BY <1>1, <1>4, <1>5, InvFacts, CrewThreads, ConsoleAssumption DEF HandsFit
<1>7. DeviceFits'
  BY <1>1, <1>4, <1>5, InvFacts DEF DeviceFits, Buffers, IOTCB
<1>8. held'[OutputTCB] = held[OutputTCB] /\ held[InputTCB] = Null
  BY <1>1, <1>5, InvFacts, CrewThreads DEF HandsFit
<1> QED  BY <1>3, <1>5, <1>6, <1>7, <1>8, StillKeeps DEF ReadData

\* or goes to it.
LEMMA WriteDataKeeps ==
  ASSUME ConsoleInv, WriteData, program' = program
  PROVE  ConsoleInv' /\ SameContents /\ held'[InputTCB] = held[InputTCB]
         /\ held'[OutputTCB] = Null /\ held[OutputTCB] \in Chars /\ tx' = held[OutputTCB]
<1>1. /\ running = OutputTCB /\ call[OutputTCB] = NoCall /\ pc["output"] = "device"
      /\ pc' = [pc EXCEPT !["output"] = "load"]
      /\ held' = [held EXCEPT ![OutputTCB] = Null] /\ tx' = held[OutputTCB]
  BY CrewThreads DEF WriteData, IOAt, Unmasked, IOTCB
<1>2. held[OutputTCB] \in Chars
  BY <1>1, InvFacts, CrewThreads DEF HandsFit, RestOK
<1>3. RestOK'
  BY <1>1, <1>2, InvFacts DEF RestOK, WriteData
<1>4. call' = call /\ rx' = rx
  BY DEF WriteData
<1>5. /\ pc'["output"] = "load" /\ pc'["input"] = pc["input"]
      /\ held'[OutputTCB] = Null
      /\ \A t \in Threads \ {OutputTCB} : held'[t] = held[t]
  BY <1>1, InvFacts, CrewThreads DEF RestOK, Buffers
<1>6. HandsFit'
  BY <1>1, <1>4, <1>5, InvFacts, CrewThreads DEF HandsFit, NoCall
<1>7. DeviceFits'
  BY <1>1, <1>4, <1>5, InvFacts DEF DeviceFits, Buffers, IOTCB
<1>8. held'[InputTCB] = held[InputTCB]
  BY <1>5, CrewThreads
<1> QED  BY <1>1, <1>2, <1>3, <1>5, <1>6, <1>7, <1>8, StillKeeps DEF WriteData

\* The interrupts and the device by themselves.
LEMMA DeviceKeeps ==
  ASSUME ConsoleInv, handleExternal \/ Type \/ Transmitted, program' = program
  PROVE  ConsoleInv' /\ SameContents
<1>1. /\ kernel' = kernel /\ ring' = ring /\ pc' = pc /\ held' = held /\ call' = call
      /\ pass' \in [Buffers -> BOOLEAN] /\ got' = Null
      /\ rx' \in Seq(Chars) /\ (rx # <<>> => rx' # <<>>) /\ tx' \in {tx, Null}
  <2>1. CASE handleExternal
    BY <2>1, InvFacts DEF handleExternal, RestOK
  <2>2. CASE Type
    <3>1. PICK c \in Chars : rx' = Append(rx, c)
      BY <2>2 DEF Type
    <3>2. rx \in Seq(Chars)
      BY InvFacts DEF RestOK
    <3>3. rx' \in Seq(Chars) /\ rx' # <<>>
      BY <3>1, <3>2
    <3> QED  BY <2>2, <3>3, InvFacts DEF Type, RestOK
  <2>3. CASE Transmitted
    BY <2>3, InvFacts DEF Transmitted, RestOK
  <2> QED  BY <2>1, <2>2, <2>3
<1>2. RestOK'
  BY <1>1, InvFacts DEF RestOK
<1>3. HandsFit' /\ DeviceFits'
  BY <1>1, InvFacts DEF HandsFit, DeviceFits
<1> QED  BY <1>1, <1>2, <1>3, StillKeeps

\* A step of the kernel alone: nothing that only the console looks at moves.
LEMMA KernelStepKeeps ==
  ASSUME ConsoleInv, NEW m \in Kernels, Sound(m, call), m.running # Idle,
         SameStocks(kernel, call, m, call),
         kernel' = m, got' = Null, program' = program,
         UNCHANGED <<ring, pc, held, call, pass, rx, tx>>
  PROVE  ConsoleInv' /\ SameContents
<1>1. RestOK'
  BY InvFacts DEF RestOK
<1>2. HandsFit'
  BY InvFacts DEF HandsFit
<1>3. DeviceFits'
  BY InvFacts DEF DeviceFits
<1> QED  BY <1>1, <1>2, <1>3, InvFacts, QuietKeeps

\* The timer: a tick, and the end of a time slice.
LEMMA TimerKeeps ==
  ASSUME ConsoleInv, handleTimer, program' = program
  PROVE  ConsoleInv' /\ SameContents
<1>1. PICK k : k = OnTick([kernel EXCEPT !.timeSliceCounter = @ + 1])
  OBVIOUS
<1>2. /\ k \in Kernels /\ Sound(k, call) /\ k.running # Idle
      /\ SameStocks(kernel, call, k, call)
  BY <1>1, InvFacts, TickSound DEF running
<1>3. PICK u : u = Yield(k, TRUE)
  OBVIOUS
<1>4. /\ u \in Kernels /\ Sound(u, call) /\ u.running # Idle
      /\ SameStocks(k, call, u, call)
  <2>1. k \in Kernels /\ Sound(k, call)
    BY <1>2
  <2> QED  BY <2>1, <1>3, YieldSound
<1>5. kernel' \in {k, u} /\ got' = Null /\ UNCHANGED <<ring, pc, held, call, pass, rx, tx>>
  BY <1>1, <1>3 DEF handleTimer
<1>6. CASE kernel' = k
  BY <1>2, <1>5, <1>6, KernelStepKeeps
<1>7. CASE kernel' = u
  <2>1. SameStocks(kernel, call, u, call)
    BY <1>2, <1>4 DEF SameStocks
  <2> QED  BY <1>4, <1>5, <1>7, <2>1, KernelStepKeeps
<1> QED  BY <1>5, <1>6, <1>7

\* The loop of a console thread that has nothing to do.
LEMMA PollKeeps ==
  ASSUME ConsoleInv, NEW b \in Buffers, Poll(b), program' = program
  PROVE  ConsoleInv' /\ SameContents
<1>1. CASE ~pass[b] /\ kernel' = Yield(kernel, TRUE) /\ UNCHANGED pc
  <2> DEFINE u == Yield(kernel, TRUE)
  <2>1. /\ u \in Kernels /\ Sound(u, call) /\ u.running # Idle
        /\ SameStocks(kernel, call, u, call)
    BY InvFacts, YieldSound
  <2>2. kernel' = u
    BY <1>1
  <2> HIDE DEF u
  <2>3. got' = Null /\ UNCHANGED <<ring, pc, held, call, pass, rx, tx>>
    BY <1>1 DEF Poll
  <2> QED  BY <2>1, <2>2, <2>3, KernelStepKeeps
<1>2. CASE pc' = [pc EXCEPT ![b] = "load"] /\ UNCHANGED kernel
  <2>1. /\ pc[b] = "poll" /\ running = IOTCB(b) /\ call[running] = NoCall
        /\ pc' \in [Buffers -> {"poll", "load", "ready", "idle", "device", "buffer"}]
        /\ pc'[b] = "load" /\ \A a \in Buffers \ {b} : pc'[a] = pc[a]
    BY <1>2, InvFacts DEF Poll, IOAt, Unmasked, RestOK
  <2>2. RestOK'
    BY <2>1, InvFacts DEF RestOK, Poll
  <2>3. held' = held /\ call' = call /\ rx' = rx /\ tx' = tx
    BY DEF Poll
  <2>4. HandsFit'
    BY <2>1, <2>3, InvFacts DEF HandsFit, Buffers
  <2>5. DeviceFits'
    BY <2>1, <2>3, InvFacts DEF DeviceFits, Buffers, IOTCB
  <2> QED  BY <1>2, <2>2, <2>4, <2>5, StillKeeps DEF Poll
<1> QED  BY <1>1, <1>2 DEF Poll

\* UserMain creates a user.
LEMMA CreateKeeps ==
  ASSUME ConsoleInv, CreateUser, program' = program
  PROVE  ConsoleInv' /\ SameContents
<1>1. PICK t \in Users \ kernel.created : kernel' = ThreadCreate(kernel, t)
  BY DEF CreateUser
<1>2. t \in Threads \ kernel.created /\ t # Idle
  BY CrewThreads
<1> DEFINE u == ThreadCreate(kernel, t)
<1>3. /\ u \in Kernels /\ Sound(u, call) /\ u.running # Idle
      /\ SameStocks(kernel, call, u, call)
  BY <1>2, InvFacts, CreateSound DEF running
<1>4. kernel' = u
  BY <1>1
<1> HIDE DEF u
<1>5. got' = Null /\ UNCHANGED <<ring, pc, held, call, pass, rx, tx>>
  BY DEF CreateUser
<1> QED  BY <1>3, <1>4, <1>5, KernelStepKeeps

\* What the caller of an operation has in its hands: what it puts, and for a
\* console thread, which is at its line for the buffer, what it carries.
Handing(op, b, c) ==
  /\ c \in Chars \cup {Null}
  /\ op = "put" => c \in Chars
  /\ op = "get" => c = Null
  /\ held[running] \in {c, Null}
  /\ running \in {InputTCB, OutputTCB} =>
       c = held[running] /\ pc[b] = "buffer" /\ running = IOTCB(b)

\* An operation waits: nothing moves.
LEMMA SuspendKeeps ==
  ASSUME ConsoleInv, NEW op, NEW b, NEW c, Entering(kernel, call, running, op, b),
         Handing(op, b, c), ~(kernel.value[Wanted(op, b)] >= 1),
         Suspend(op, b, c, "item", Block(kernel, Wanted(op, b), 1)),
         UNCHANGED <<pass, rx, tx>>, program' = program
  PROVE  /\ ConsoleInv' /\ SameContents
         /\ held'[InputTCB] = held[InputTCB] /\ held'[OutputTCB] = held[OutputTCB]
         /\ got' = Null
         /\ held' = [held EXCEPT ![running] = c]
<1>1. PICK r : r = running
  OBVIOUS
<1>2. /\ r \in Threads /\ Call(op, b, "item") \in Operations(r)
      /\ Call(op, b, "item").op = op /\ call[r] = NoCall
  BY <1>1, InvFacts DEF Entering, Call
<1>3. PICK cm : cm = [call EXCEPT ![r] = Call(op, b, "item")]
  OBVIOUS
<1>4. Changes(call, cm, r, Call(op, b, "item"))
  BY <1>2, <1>3, InvFacts, ExceptChanges
<1>5. PICK u : u = Yield(Block(kernel, Wanted(op, b), 1), FALSE)
  OBVIOUS
<1>6. /\ u \in Kernels /\ Sound(u, cm) /\ u.running # Idle
      /\ SameStocks(kernel, call, u, cm)
  <2>1. kernel \in Kernels /\ call \in Calls /\ Sound(kernel, call)
    BY InvFacts
  <2>2. Entering(kernel, call, r, op, b)
    BY <1>1
  <2> QED  BY <1>4, <1>5, <2>1, <2>2, WaitSound
<1>7. /\ kernel' = u /\ call' = cm /\ got' = Null /\ ring' = ring /\ pc' = pc
      /\ held' = [held EXCEPT ![r] = c]
  BY <1>1, <1>3, <1>5 DEF Suspend
<1>8. cm \in Calls /\ cm[r].op = op /\ \A t \in Threads \ {r} : cm[t] = call[t]
  BY <1>2, <1>4 DEF Changes
<1>9. /\ held' \in [Threads -> Chars \cup {Null}] /\ held'[r] = c
      /\ \A t \in Threads \ {r} : held'[t] = held[t]
  BY <1>2, <1>7, InvFacts DEF RestOK, Handing
<1>10. held'[InputTCB] = held[InputTCB] /\ held'[OutputTCB] = held[OutputTCB]
  BY <1>1, <1>9, CrewThreads DEF Handing
<1>11. RestOK'
  BY <1>7, <1>9, InvFacts DEF RestOK
<1>12. HandsFit'
  <2>1. ASSUME NEW t \in Threads, cm[t].op = "put" PROVE held'[t] \in Chars
    BY <1>8, <1>9, <2>1, InvFacts DEF HandsFit, Handing
  <2>2. ASSUME NEW t \in Users, held'[t] # Null PROVE cm[t].op = "put"
    <3>1. CASE t # r
      BY <1>8, <1>9, <2>2, <3>1, InvFacts, CrewThreads DEF HandsFit
    <3>2. CASE t = r
      <4>1. op \in {"put", "get"}
        BY <1>2, OperationKinds
      <4> QED  BY <1>8, <1>9, <2>2, <3>2, <4>1 DEF Handing
    <3> QED  BY <3>1, <3>2
  <2> QED  BY <1>7, <1>10, <2>1, <2>2, InvFacts DEF HandsFit
<1>13. DeviceFits'
  <2>1. ASSUME NEW a \in Buffers, cm[IOTCB(a)] # NoCall PROVE pc[a] = "buffer"
    <3>1. IOTCB(a) \in Threads
      BY CrewThreads DEF IOTCB
    <3>2. CASE IOTCB(a) # r
      BY <1>8, <2>1, <3>1, <3>2, InvFacts DEF DeviceFits
    <3>3. CASE IOTCB(a) = r
      <4>1. r = IOTCB(b) /\ pc[b] = "buffer"
        BY <1>1, <3>3, CrewThreads DEF Handing, IOTCB
      <4>2. a = b
        BY <3>3, <4>1, CrewThreads DEF IOTCB, Entering, Buffers
      <4> QED  BY <4>1, <4>2
    <3> QED  BY <3>2, <3>3
  <2> QED  BY <1>7, <2>1, InvFacts DEF DeviceFits
<1>14. ConsoleInv' /\ SameContents
  BY <1>6, <1>7, <1>8, <1>11, <1>12, <1>13, QuietKeeps
<1> QED  BY <1>1, <1>7, <1>10, <1>14

\* An operation has moved its character.
Moved(op, b, c) ==
  LET x == Head(Contents(b))
      isIO == running \in {InputTCB, OutputTCB}
  IN  /\ \A a \in Buffers \ {b} : Contents(a)' = Contents(a)
      /\ op = "put" => /\ Len(Contents(b)) < Length
                       /\ Contents(b)' = Append(Contents(b), c)
      /\ op = "get" => /\ Contents(b) # <<>>
                       /\ Contents(b)' = Tail(Contents(b))
      /\ got' = IF ~isIO /\ op = "get" THEN x ELSE Null
      /\ \A t \in Threads :
           held'[t] = IF t # running THEN held[t]
                      ELSE IF isIO /\ op = "get" THEN x ELSE Null

\* What moving a character does to the ring and the stock of what there is to
\* get.
LEMMA RingMoves ==
  ASSUME ConsoleInv, NEW k \in Kernels, NEW cl \in Calls, Sound(k, cl),
         SameStocks(kernel, call, k, cl),
         NEW m \in Kernels, NEW cm \in Calls, Sound(m, cm),
         NEW op \in {"put", "get"}, NEW b \in Buffers, Passes(k, cl, m, cm, op, b),
         NEW c, op = "put" => c \in Chars,
         NEW w, w = IF op = "put" THEN RingPut(ring[b], c) ELSE RingGet(ring[b])
  PROVE  /\ w \in Rings /\ RingFits(w, Stock(m, cm, "get", b))
         /\ op = "put" => /\ Len(Contents(b)) < Length
                          /\ Text(w, Stock(m, cm, "get", b)) = Append(Contents(b), c)
         /\ op = "get" => /\ Contents(b) # <<>>
                          /\ Text(w, Stock(m, cm, "get", b)) = Tail(Contents(b))
                          /\ Head(Contents(b)) = ring[b].buffer[ring[b].pos_r]
                          /\ Head(Contents(b)) \in Chars
<1>1. PICK n : n = Stock(kernel, call, "get", b)
  OBVIOUS
<1>2. PICK i : i = Stock(m, cm, "get", b)
  OBVIOUS
<1>3. /\ n = Stock(k, cl, "get", b) /\ n \in Nat /\ i \in Nat /\ Length \in Nat
      /\ n + Stock(k, cl, "put", b) = Length
      /\ i + Stock(m, cm, "put", b) = Length
      /\ Stock(k, cl, "put", b) \in Nat /\ Stock(m, cm, "put", b) \in Nat
  BY <1>1, <1>2, StockNat, ConsoleAssumption DEF SameStocks, Sound, SlotsFit
<1>4. /\ op = "put" => i = n + 1
      /\ op = "get" => i = n - 1
  BY <1>1, <1>2, <1>3 DEF Passes, Other
<1>5. PICK r \in Rings : r = ring[b]
  BY InvFacts
<1>6. RingFits(r, n)
  BY <1>1, <1>5, InvFacts
<1>7. PICK t : t = Text(r, n)
  OBVIOUS
<1>8. Contents(b) = t
  BY <1>1, <1>5, <1>7, ContentsText
<1>9. CASE op = "put"
  <2>1. n < Length /\ i = n + 1
    BY <1>3, <1>4, <1>9
  <2>2. w = RingPut(r, c)
    BY <1>5, <1>9
  <2>3. w \in Rings /\ RingFits(w, i) /\ Text(w, i) = Append(t, c)
    BY <1>3, <1>6, <1>7, <1>9, <2>1, <2>2, RingPuts
  <2>4. Len(t) = n
    BY <1>3, <1>7 DEF Text
  <2> QED  BY <1>2, <1>8, <1>9, <2>1, <2>3, <2>4
<1>10. CASE op = "get"
  <2>1. 0 < n /\ n <= Length /\ i = n - 1
    BY <1>3, <1>4, <1>10
  <2>2. w = RingGet(r)
    BY <1>5, <1>10
  <2>3. /\ w \in Rings /\ RingFits(w, i) /\ t # <<>> /\ Text(w, i) = Tail(t)
        /\ Head(t) = r.buffer[r.pos_r] /\ r.buffer[r.pos_r] \in Chars
    BY <1>3, <1>6, <1>7, <1>10, <2>1, <2>2, RingGets
  <2> QED  BY <1>2, <1>5, <1>8, <1>10, <2>3
<1> QED  BY <1>9, <1>10

\* With the mutex: the character moves.
LEMMA ExchangeKeeps ==
  ASSUME ConsoleInv, NEW k \in Kernels, NEW cl \in Calls, Sound(k, cl),
         SameStocks(kernel, call, k, cl),
         NEW op, NEW b, NEW c, Leaving(k, cl, running, op, b), Handing(op, b, c),
         \A t \in Threads \ {running} : cl[t] = call[t],
         Exchange(op, b, c, Acquire(k, mutex(b), 1)),
         UNCHANGED <<pass, rx, tx>>, program' = program
  PROVE  ConsoleInv' /\ Moved(op, b, c)
<1>1. PICK r : r = running
  OBVIOUS
<1>2. /\ r \in Threads \ {Master, Idle} /\ cl[r] \in Operations(r)
      /\ op = cl[r].op /\ b = cl[r].on
      /\ op \in {"put", "get"} /\ b \in Buffers
  BY <1>1, RunnerGranted, OperationKinds DEF Leaving
<1>3. PICK cm : cm = [call EXCEPT ![r] = NoCall]
  OBVIOUS
<1>4. Changes(cl, cm, r, NoCall) /\ cm \in Calls
  <2>1. Changes(call, cm, r, NoCall)
    BY <1>2, <1>3, InvFacts, ExceptChanges
  <2> QED  BY <1>1, <2>1 DEF Changes
<1>5. PICK m : m = Leave(Acquire(k, mutex(b), 1), op, b)
  OBVIOUS
<1>6. /\ m \in Kernels /\ Sound(m, cm) /\ m.running = r
      /\ Passes(k, cl, m, cm, op, b)
  BY <1>1, <1>4, <1>5, LeaveSound
<1>7. PICK w : w = IF op = "put" THEN RingPut(ring[b], c) ELSE RingGet(ring[b])
  OBVIOUS
<1>8. /\ w \in Rings /\ RingFits(w, Stock(m, cm, "get", b))
      /\ op = "put" => /\ Len(Contents(b)) < Length
                       /\ Text(w, Stock(m, cm, "get", b)) = Append(Contents(b), c)
      /\ op = "get" => /\ Contents(b) # <<>>
                       /\ Text(w, Stock(m, cm, "get", b)) = Tail(Contents(b))
                       /\ Head(Contents(b)) = ring[b].buffer[ring[b].pos_r]
                       /\ Head(Contents(b)) \in Chars
  BY <1>2, <1>4, <1>6, <1>7, RingMoves DEF Handing
<1>9. PICK x : x = ring[b].buffer[ring[b].pos_r]
  OBVIOUS
<1>10. PICK isIO \in BOOLEAN : isIO <=> r \in {InputTCB, OutputTCB}
  OBVIOUS
<1>11. /\ kernel' = m /\ call' = cm
       /\ ring' = [ring EXCEPT ![b] = w]
       /\ held' = [held EXCEPT ![r] = IF isIO /\ op = "get" THEN x ELSE Null]
       /\ pc' = IF isIO THEN [pc EXCEPT ![b] = IF op = "put" THEN "load" ELSE "device"]
                ELSE pc
       /\ got' = IF ~isIO /\ op = "get" THEN x ELSE Null
  BY <1>1, <1>3, <1>5, <1>7, <1>9, <1>10 DEF Exchange
<1>12. op = "get" => x \in Chars /\ x = Head(Contents(b))
  BY <1>8, <1>9
<1>13. /\ ring' \in [Buffers -> Rings] /\ ring'[b] = w
       /\ \A a \in Buffers \ {b} : ring'[a] = ring[a]
  BY <1>2, <1>8, <1>11, InvFacts
<1>14. ASSUME NEW a \in Buffers \ {b}
       PROVE  Stock(m, cm, "get", a) = Stock(kernel, call, "get", a)
  BY <1>6 DEF Passes, SameStocks
<1>15. \A a \in Buffers : RingFits(ring'[a], Stock(m, cm, "get", a))
  BY <1>8, <1>13, <1>14, InvFacts
<1>16. /\ held' \in [Threads -> Chars \cup {Null}]
       /\ held'[r] = IF isIO /\ op = "get" THEN x ELSE Null
       /\ \A t \in Threads \ {r} : held'[t] = held[t]
  BY <1>2, <1>11, <1>12, InvFacts DEF RestOK
<1>17. RestOK'
  <2>1. got' \in Chars \cup {Null}
    BY <1>11, <1>12
  <2>2. pc' \in [Buffers -> {"poll", "load", "ready", "idle", "device", "buffer"}]
    BY <1>11, InvFacts DEF RestOK
  <2> QED  BY <1>16, <2>1, <2>2, InvFacts DEF RestOK
<1>18. \/ r = InputTCB /\ isIO /\ op = "put" /\ b = "input" /\ pc["input"] = "buffer"
       \/ r = OutputTCB /\ isIO /\ op = "get" /\ b = "output" /\ pc["output"] = "buffer"
       \/ r \notin {InputTCB, OutputTCB} /\ ~isIO
  BY <1>1, <1>2, <1>10, OperationKinds, CrewThreads DEF Handing
<1>19. \A t \in Threads \ {r} : cm[t] = call[t]
  BY <1>1, <1>4 DEF Changes
<1>20. cm[r] = NoCall
  BY <1>4 DEF Changes
<1>21. HandsFit' /\ DeviceFits'
  <2>1. ASSUME NEW t \in Threads, cm[t].op = "put" PROVE held'[t] \in Chars
    <3>1. t # r
      BY <1>20, <2>1 DEF NoCall
    <3> QED  BY <1>16, <1>19, <2>1, <3>1, InvFacts DEF HandsFit
  <2>5. ASSUME NEW t \in Users, held'[t] # Null PROVE cm[t].op = "put"
    <3>1. t # r
      BY <1>16, <1>18, <2>5, CrewThreads
    <3> QED  BY <1>16, <1>19, <2>5, <3>1, InvFacts, CrewThreads DEF HandsFit
  <2>2. CASE r = InputTCB /\ isIO /\ op = "put" /\ b = "input" /\ pc["input"] = "buffer"
    <3>1. /\ pc'["input"] = "load" /\ pc'["output"] = pc["output"]
          /\ held'[InputTCB] = Null /\ held'[OutputTCB] = held[OutputTCB]
      BY <1>11, <1>16, <2>2, CrewThreads, InvFacts DEF RestOK, Buffers
    <3>2. HandsFit'
      BY <1>11, <2>1, <2>5, <3>1, InvFacts DEF HandsFit
    <3>3. cm[InputTCB] = NoCall /\ cm[OutputTCB] = call[OutputTCB]
      BY <1>19, <1>20, <2>2, CrewThreads
    <3>4. DeviceFits'
      BY <1>11, <3>1, <3>3, InvFacts DEF DeviceFits, IOTCB, Buffers
    <3> QED  BY <3>2, <3>4
  <2>3. CASE r = OutputTCB /\ isIO /\ op = "get" /\ b = "output" /\ pc["output"] = "buffer"
    <3>1. /\ pc'["output"] = "device" /\ pc'["input"] = pc["input"]
          /\ held'[OutputTCB] = x /\ held'[InputTCB] = held[InputTCB]
      BY <1>11, <1>16, <2>3, CrewThreads, InvFacts DEF RestOK, Buffers
    <3>2. x # Null
      BY <1>12, <2>3, ConsoleAssumption
    <3>3. HandsFit'
      BY <1>11, <2>1, <2>5, <3>1, <3>2, InvFacts DEF HandsFit
    <3>4. cm[OutputTCB] = NoCall /\ cm[InputTCB] = call[InputTCB]
      BY <1>19, <1>20, <2>3, CrewThreads
    <3>5. DeviceFits'
      BY <1>11, <2>3, <3>1, <3>4, InvFacts DEF DeviceFits, IOTCB, Buffers
    <3> QED  BY <3>3, <3>5
  <2>4. CASE r \notin {InputTCB, OutputTCB} /\ ~isIO
    <3>1. /\ pc' = pc /\ held'[InputTCB] = held[InputTCB]
          /\ held'[OutputTCB] = held[OutputTCB]
      BY <1>11, <1>16, <2>4, CrewThreads
    <3>2. cm[OutputTCB] = call[OutputTCB] /\ cm[InputTCB] = call[InputTCB]
      BY <1>19, <2>4, CrewThreads
    <3>3. HandsFit'
      BY <1>11, <2>1, <2>5, <3>1, InvFacts DEF HandsFit
    <3>4. DeviceFits'
      BY <1>11, <3>1, <3>2, InvFacts DEF DeviceFits, IOTCB
    <3> QED  BY <3>3, <3>4
  <2> QED  BY <1>18, <2>2, <2>3, <2>4
<1>22. ConsoleInv'
  <2>1. TypeOK'
    BY <1>4, <1>6, <1>11, <1>13, <1>17 DEF TypeOK, RestOK, Calls, ConsoleInv
  <2>2. Sound(kernel', call') /\ SomebodyCanRun'
    BY <1>2, <1>6, <1>11 DEF SomebodyCanRun, running
  <2> QED  BY <1>11, <1>15, <1>21, <2>1, <2>2 DEF ConsoleInv
<1>23. /\ Contents(b)' = Text(w, Stock(m, cm, "get", b))
       /\ \A a \in Buffers \ {b} : Contents(a)' = Contents(a)
  <2>1. ASSUME NEW CONSTANT a PROVE Contents(a)' = Text(ring'[a], Stock(m, cm, "get", a))
    BY <1>11, ContentsAfter
  <2>2. ASSUME NEW a \in Buffers \ {b} PROVE Contents(a)' = Contents(a)
    BY <1>13, <1>14, <2>1, ContentsText
  <2> QED  BY <1>13, <2>1, <2>2
<1>24. Moved(op, b, c)
  BY <1>1, <1>8, <1>10, <1>11, <1>12, <1>16, <1>23 DEF Moved
<1> QED  BY <1>22, <1>24

\* A thread that goes on with an operation finds the mutex free.
LEMMA MutexKeeps ==
  ASSUME ConsoleInv, NEW k \in Kernels, NEW cl \in Calls, Sound(k, cl),
         SameStocks(kernel, call, k, cl),
         NEW op, NEW b, NEW c, Leaving(k, cl, running, op, b), Handing(op, b, c),
         \A t \in Threads \ {running} : cl[t] = call[t],
         WaitMutex(op, b, c, k), UNCHANGED <<pass, rx, tx>>, program' = program
  PROVE  ConsoleInv' /\ Moved(op, b, c)
<1>1. b \in Buffers
  BY RunnerGranted, OperationKinds DEF Leaving
<1>2. k.value[mutex(b)] >= 1
  BY <1>1 DEF Sound, MutexesFree
<1>3. Exchange(op, b, c, Acquire(k, mutex(b), 1))
  BY <1>2 DEF WaitMutex
<1> QED  BY <1>3, ExchangeKeeps

\* Who does what at which buffer.
Doing(op, b) ==
  \/ running = InputTCB /\ op = "put" /\ b = "input"
  \/ running = OutputTCB /\ op = "get" /\ b = "output"
  \/ running \in Users /\ op = "get" /\ b = "input"
  \/ running \in Users /\ op = "put" /\ b = "output"

\* Nothing goes in or out, and the console threads keep what they carry; at
\* most a user has a character it waits to put.
Waits ==
  /\ SameContents /\ got' = Null
  /\ held'[InputTCB] = held[InputTCB] /\ held'[OutputTCB] = held[OutputTCB]
  /\ \/ held' = held
     \/ \E t \in Users, c \in Chars : held[t] = Null /\ held' = [held EXCEPT ![t] = c]

\* An operation from its first line.
LEMMA OperateKeeps ==
  ASSUME ConsoleInv, NEW op, NEW b, NEW c, Entering(kernel, call, running, op, b),
         Handing(op, b, c), Operate(op, b, c), program' = program
  PROVE  ConsoleInv' /\ Doing(op, b) /\ (Moved(op, b, c) \/ Waits)
<1>1. PICK r : r = running
  OBVIOUS
<1>2. /\ r \in Threads /\ Call(op, b, "item") \in Operations(r)
      /\ Call(op, b, "item") # NoCall
      /\ Call(op, b, "item").op = op /\ Call(op, b, "item").on = b
  BY <1>1, InvFacts DEF Entering, Call, NoCall
<1>3. Doing(op, b)
  <2>1. running \in {InputTCB, OutputTCB} \cup Users
    BY DEF Entering, Users, UserThreads
  <2> QED  BY <1>1, <1>2, <2>1, OperationKinds DEF Doing
<1>4. CASE kernel.value[Wanted(op, b)] >= 1
  <2>1. PICK k : k = Acquire(kernel, Wanted(op, b), 1)
    OBVIOUS
  <2>2. PICK cl : cl = [call EXCEPT ![r] = Call(op, b, "item")]
    OBVIOUS
  <2>3. Changes(call, cl, r, Call(op, b, "item"))
    BY <1>2, <2>2, InvFacts, ExceptChanges
  <2>4. kernel \in Kernels /\ call \in Calls /\ Sound(kernel, call)
        /\ Entering(kernel, call, r, op, b)
    BY <1>1, InvFacts
  <2>5. k \in Kernels /\ Sound(k, cl) /\ k.running = r /\ SameStocks(kernel, call, k, cl)
    BY <1>4, <2>1, <2>3, <2>4, EnterSound
  <2>6. cl \in Calls /\ Leaving(k, cl, running, op, b)
        /\ \A t \in Threads \ {running} : cl[t] = call[t]
    BY <1>1, <1>2, <2>3, <2>5 DEF Changes, Leaving
  <2>7. WaitMutex(op, b, c, k) /\ UNCHANGED <<pass, rx, tx>>
    BY <1>4, <2>1 DEF Operate
  <2> QED  BY <1>3, <2>5, <2>6, <2>7, MutexKeeps
<1>5. CASE ~(kernel.value[Wanted(op, b)] >= 1)
  <2>1. /\ Suspend(op, b, c, "item", Block(kernel, Wanted(op, b), 1))
        /\ UNCHANGED <<pass, rx, tx>>
    BY <1>5 DEF Operate
  <2>2. /\ ConsoleInv' /\ SameContents /\ got' = Null
        /\ held'[InputTCB] = held[InputTCB] /\ held'[OutputTCB] = held[OutputTCB]
        /\ held' = [held EXCEPT ![running] = c]
    BY <1>5, <2>1, SuspendKeeps
  <2>3. held \in [Threads -> Chars \cup {Null}]
    BY InvFacts DEF RestOK
  <2>4. CASE held[running] = c
    <3>1. held' = held
      BY <1>1, <1>2, <2>2, <2>3, <2>4
    <3> QED  BY <1>3, <2>2, <3>1 DEF Waits
  <2>5. CASE held[running] # c
    <3>1. held[running] = Null /\ c \in Chars
      BY <2>5 DEF Handing
    <3>2. running \in Users
      <4>1. running \notin {InputTCB, OutputTCB} /\ running \in Threads \ {Master, Idle}
        BY <2>5 DEF Handing, Entering
      <4> QED  BY <4>1 DEF Users, UserThreads
    <3> QED  BY <1>3, <2>2, <3>1, <3>2 DEF Waits
  <2> QED  BY <2>4, <2>5
<1> QED  BY <1>4, <1>5

\* The users' calls,
LEMMA UserKeeps ==
  ASSUME ConsoleInv, NEW op, NEW b, NEW c, UserRuns, Operate(op, b, c),
         \/ op = "get" /\ b = "input" /\ c = Null
         \/ op = "put" /\ b = "output" /\ c \in Chars,
         program' = program
  PROVE  ConsoleInv' /\ Doing(op, b) /\ Handing(op, b, c) /\ (Moved(op, b, c) \/ Waits)
<1>1. running \in Threads \ {Master, Idle, InputTCB, OutputTCB} /\ call[running] = NoCall
  BY CrewThreads DEF UserRuns, Unmasked
<1>2. Entering(kernel, call, running, op, b)
  BY <1>1 DEF Entering, Operations, Buffers, running
<1>3. Handing(op, b, c)
  <2>1. running \in Users /\ call[running].op # "put"
    BY <1>1 DEF UserRuns, NoCall
  <2>2. held[running] = Null
    BY <2>1, InvFacts DEF HandsFit
  <2> QED  BY <1>1, <2>2 DEF Handing
<1> QED  BY <1>2, <1>3, OperateKeeps

\* those of the console threads,
LEMMA UseBufferKeeps ==
  ASSUME ConsoleInv, NEW b \in Buffers, UseBuffer(b), program' = program
  PROVE  \E op : /\ ConsoleInv' /\ Doing(op, b) /\ Handing(op, b, held[running])
                 /\ Moved(op, b, held[running]) \/ Waits
<1>1. PICK op : op = IF b = "input" THEN "put" ELSE "get"
  OBVIOUS
<1>2. running = IOTCB(b) /\ call[running] = NoCall /\ pc[b] = "buffer"
  BY DEF UseBuffer, IOAt, Unmasked
<1>3. Operate(op, b, held[running])
  BY <1>1 DEF UseBuffer
<1>4. Entering(kernel, call, running, op, b)
  BY <1>1, <1>2, CrewThreads DEF Entering, Operations, Buffers, IOTCB, running
<1>5. Handing(op, b, held[running])
  <2>1. held[running] \in Chars \cup {Null}
    BY InvFacts DEF RestOK
  <2>2. op = "put" => held[running] \in Chars
    BY <1>1, <1>2, <2>1, InvFacts DEF HandsFit, IOTCB
  <2>3. op = "get" => held[running] = Null
    BY <1>1, <1>2, InvFacts DEF HandsFit, IOTCB, Buffers
  <2> QED  BY <1>2, <2>1, <2>2, <2>3 DEF Handing
<1>6. ConsoleInv' /\ Doing(op, b) /\ (Moved(op, b, held[running]) \/ Waits)
  BY <1>3, <1>4, <1>5, OperateKeeps
<1> QED  BY <1>5, <1>6

\* and an operation that goes on after its wait.
LEMMA ResumeKeeps ==
  ASSUME ConsoleInv, Resume, program' = program
  PROVE  \E op, b : /\ ConsoleInv' /\ Doing(op, b) /\ Handing(op, b, held[running])
                    /\ Moved(op, b, held[running])
<1>1. PICK f : f = call[running]
  OBVIOUS
<1>2. f # NoCall /\ running \in Threads
  BY <1>1, InvFacts DEF Resume, Unmasked
<1>3. f \in Operations(running)
  BY <1>1, <1>2, InvFacts DEF Sound, CallsFit
<1>4. f.at = "item" /\ f.on \in Buffers /\ f.op \in {"put", "get"} /\ Doing(f.op, f.on)
  <2>1. running \in {InputTCB, OutputTCB} \cup Users
    BY <1>1, <1>2, InvFacts DEF Sound, CallsFit, Users, UserThreads
  <2> QED  BY <1>3, <2>1, OperationKinds DEF Doing
<1>5. WaitMutex(f.op, f.on, held[running], kernel) /\ UNCHANGED <<pass, rx, tx>>
  BY <1>1, <1>4 DEF Resume
<1>6. Leaving(kernel, call, running, f.op, f.on)
  BY <1>1, <1>2 DEF Leaving, running
<1>7. Handing(f.op, f.on, held[running])
  <2>1. held[running] \in Chars \cup {Null}
    BY <1>2, InvFacts DEF RestOK
  <2>2. f.op = "put" => held[running] \in Chars
    BY <1>1, <1>2, InvFacts DEF HandsFit
  <2>3. running \in {InputTCB, OutputTCB} => running = IOTCB(f.on)
    BY <1>4, CrewThreads DEF Doing, IOTCB
  <2>4. running = IOTCB(f.on) => pc[f.on] = "buffer"
    BY <1>1, <1>2, <1>4, InvFacts DEF DeviceFits
  <2>5. f.op = "get" => held[running] = Null
    <3>1. CASE running = OutputTCB
      <4>1. f.on = "output"
        BY <1>3, <3>1, OperationKinds, CrewThreads
      <4>2. pc["output"] # "device"
        BY <1>4, <2>3, <2>4, <3>1, <4>1
      <4> QED  BY <3>1, <4>2, InvFacts DEF HandsFit
    <3>2. CASE running = InputTCB
      BY <1>4, <3>2, CrewThreads DEF Doing
    <3>3. CASE running \in Users
      BY <1>1, <3>3, InvFacts DEF HandsFit
    <3> QED  BY <1>4, <3>1, <3>2, <3>3 DEF Doing
  <2> QED  BY <2>1, <2>2, <2>3, <2>4, <2>5 DEF Handing
<1>8. SameStocks(kernel, call, kernel, call)
  BY DEF SameStocks
<1>9. ConsoleInv' /\ Moved(f.op, f.on, held[running])
  BY <1>5, <1>6, <1>7, <1>8, InvFacts, MutexKeeps
<1> QED  BY <1>4, <1>7, <1>9

-----------------------------------------------------------------------------
(***************************************************************************)
(* The pipes.                                                              *)
(***************************************************************************)
\* What the two pipes hold, and what waits at the output's.
Inward == Contents("input") \o Carried(InputTCB) \o rx
Outward == Carried(OutputTCB) \o Contents("output")
Offers == [t \in Users |-> held[t]]

\* A step of each pipe, or none.
PipeSteps ==
  /\ InputPipe!Next \/ (Inward' = Inward /\ got' = got)
  /\ OutputPipe!Next \/ (Outward' = Outward /\ Offers' = Offers /\ tx' = tx)

\* The contents are lists of characters, and what is carried one or none.
LEMMA PipeTypes ==
  ASSUME ConsoleInv
  PROVE  /\ \A b \in Buffers : Contents(b) \in Seq(Chars)
         /\ \A t \in Threads : Carried(t) \in Seq(Chars) /\ Len(Carried(t)) <= 1
<1>1. ASSUME NEW b \in Buffers PROVE Contents(b) \in Seq(Chars)
  <2>1. PICK n : n = Stock(kernel, call, "get", b)
    OBVIOUS
  <2>2. n \in Nat /\ RingFits(ring[b], n)
    BY <2>1, InvFacts, StockNat
  <2>3. Contents(b) = Text(ring[b], n)
    BY <2>1, ContentsText
  <2> QED  BY <2>2, <2>3 DEF Text, RingFits
<1>2. ASSUME NEW t \in Threads
      PROVE  Carried(t) \in Seq(Chars) /\ Len(Carried(t)) <= 1
  <2>1. held[t] = Null \/ held[t] \in Chars
    BY InvFacts DEF RestOK
  <2> QED  BY <2>1 DEF Carried
<1> QED  BY <1>1, <1>2

\* What a thread carries after the step.
LEMMA CarriedAfter ==
  ASSUME NEW CONSTANT t
  PROVE  /\ Carried(t)' = IF held'[t] = Null THEN <<>> ELSE <<held'[t]>>
         /\ held'[t] = held[t] => Carried(t)' = Carried(t)
BY DEF Carried

\* What is offered after a step that changes only what t has in its hands.
LEMMA OffersAfter ==
  /\ held' = held => Offers' = Offers
  /\ \A t \in Users : \A c :
       held' = [held EXCEPT ![t] = c] /\ DOMAIN held = Threads
         => Offers' = [Offers EXCEPT ![t] = c]
  /\ \A t \in Threads \ Users : \A c :
       held' = [held EXCEPT ![t] = c] /\ DOMAIN held = Threads => Offers' = Offers
BY CrewThreads DEF Offers

\* Nothing goes in or out: the input's last character is used, at most a
\* transmission ends and a user begins to wait.
LEMMA WaitsPipes ==
  ASSUME ConsoleInv, Waits, tx' \in {tx, Null}, rx' = rx
  PROVE  PipeSteps
<1>1. Inward' = Inward /\ Outward' = Outward
  BY CarriedAfter DEF Waits, SameContents, Inward, Outward, Buffers
<1>2. InputPipe!Use
  BY <1>1 DEF InputPipe!Use, Inward, Waits
<1>3. OutputPipe!Next \/ (Outward' = Outward /\ Offers' = Offers /\ tx' = tx)
  <2>1. CASE held' = held
    <3>1. Offers' = Offers
      BY <2>1, OffersAfter
    <3>2. (Outward' = Outward /\ Offers' = Offers /\ tx' = tx) \/ OutputPipe!Use
      BY <1>1, <3>1 DEF OutputPipe!Use, Outward, Offers
    <3> QED  BY <3>2 DEF OutputPipe!Next
  <2>2. CASE held' # held
    <3>1. PICK t \in Users, c \in Chars : held[t] = Null /\ held' = [held EXCEPT ![t] = c]
      BY <2>2 DEF Waits
    <3>2. DOMAIN held = Threads
      BY InvFacts DEF RestOK
    <3>3. Offers' = [Offers EXCEPT ![t] = c] /\ Offers[t] = Null
      BY <3>1, <3>2, OffersAfter DEF Offers
    <3>4. OutputPipe!Offer(t, c)
      BY <1>1, <3>3 DEF OutputPipe!Offer, Outward, Offers
    <3> QED  BY <3>4 DEF OutputPipe!Next
  <2> QED  BY <2>1, <2>2
<1> QED  BY <1>2, <1>3 DEF PipeSteps, InputPipe!Next

\* What is appended to two sequences is appended to the second.
LEMMA Appending ==
  ASSUME NEW S, NEW s \in Seq(S), NEW t \in Seq(S), NEW c \in S
  PROVE  Append(t \o s, c) = t \o Append(s, c)
OBVIOUS

\* More about joining sequences.
LEMMA Joining ==
  ASSUME NEW S, NEW s \in Seq(S), NEW t \in Seq(S), NEW c \in S
  PROVE  /\ s \o <<c>> = Append(s, c) /\ s \o <<>> = s /\ <<>> \o s = s
         /\ s # <<>> => /\ Head(s \o t) = Head(s) /\ Tail(s \o t) = Tail(s) \o t
                        /\ s \o t # <<>> /\ <<Head(s)>> \o Tail(s) = s
         /\ Append(t \o s, c) = t \o Append(s, c)
         /\ Head(<<c>> \o s) = c /\ Tail(<<c>> \o s) = s /\ <<c>> \o s # <<>>
         /\ Len(s \o t) = Len(s) + Len(t)
<1>1. /\ s \o <<c>> = Append(s, c) /\ s \o <<>> = s /\ <<>> \o s = s
      /\ Len(s \o t) = Len(s) + Len(t)
  OBVIOUS
<1>2. /\ s # <<>> => /\ Head(s \o t) = Head(s)
                     /\ s \o t # <<>> /\ <<Head(s)>> \o Tail(s) = s
  OBVIOUS
<1>3. s # <<>> => Tail(s \o t) = Tail(s) \o t
  OBVIOUS
<1>4. Append(t \o s, c) = t \o Append(s, c)
  BY Appending
<1>5. Head(<<c>> \o s) = c /\ Tail(<<c>> \o s) = s /\ <<c>> \o s # <<>>
  OBVIOUS
<1> QED  BY <1>1, <1>2, <1>3, <1>4, <1>5

\* A buffer never holds more than its length.
LEMMA ContentsBound ==
  ASSUME ConsoleInv, NEW b \in Buffers
  PROVE  Len(Contents(b)) <= Length
<1>1. PICK n : n = Stock(kernel, call, "get", b)
  OBVIOUS
<1>2. /\ n \in Nat /\ Stock(kernel, call, "put", b) \in Nat
      /\ n + Stock(kernel, call, "put", b) = Length
  BY <1>1, InvFacts, StockNat DEF Sound, SlotsFit
<1>3. Contents(b) = Text(ring[b], n)
  BY <1>1, ContentsText
<1>4. Len(Contents(b)) = n
  BY <1>2, <1>3 DEF Text
<1> QED  BY <1>2, <1>4, ConsoleAssumption

\* An operation that has moved its character is a step of its pipe: getc takes
\* one out, putc puts one in; the console threads move one within.
LEMMA MovedPipes ==
  ASSUME ConsoleInv, NEW op, NEW b, NEW c, Doing(op, b), Moved(op, b, c),
         Handing(op, b, c), UNCHANGED <<rx, tx>>, ConsoleInv'
  PROVE  PipeSteps
<1>1. /\ Contents("input") \in Seq(Chars) /\ Contents("output") \in Seq(Chars)
      /\ Carried(InputTCB) \in Seq(Chars) /\ Carried(OutputTCB) \in Seq(Chars)
      /\ Len(Carried(OutputTCB)) <= 1
  BY PipeTypes, CrewThreads DEF Buffers
<1>2. PICK z \in Seq(Chars) : z = rx /\ z = rx'
  BY InvFacts DEF RestOK
<1>3. /\ held' = [held EXCEPT ![running] = held'[running]] /\ DOMAIN held = Threads
      /\ held = [held EXCEPT ![running] = held[running]]
  <2>1. held \in [Threads -> Chars \cup {Null}] /\ held' \in [Threads -> Chars \cup {Null}]
    BY InvFacts DEF RestOK, ConsoleInv, TypeOK
  <2> QED  BY <2>1 DEF Moved
<1>4. running \notin Users \/ op = "get" => Offers' = Offers
  <2>1. CASE running \in Threads \ Users
    BY <1>3, <2>1, OffersAfter
  <2>2. CASE running \in Users /\ op = "get"
    <3>1. held'[running] = Null /\ held[running] = Null
      BY <2>2, CrewThreads DEF Moved, Handing
    <3>2. held' = held
      BY <1>3, <3>1
    <3> QED  BY <3>2, OffersAfter
  <2> QED  BY <2>1, <2>2, InvFacts
<1>5. CASE running = InputTCB /\ op = "put" /\ b = "input"
  <2>1. /\ Contents("input")' = Append(Contents("input"), c) /\ c \in Chars
        /\ Contents("output")' = Contents("output") /\ got' = Null
        /\ held'[InputTCB] = Null /\ held'[OutputTCB] = held[OutputTCB]
        /\ held[InputTCB] = c
    BY <1>5, CrewThreads DEF Moved, Buffers, Handing
  <2>2. /\ Carried(InputTCB)' = <<>> /\ Carried(OutputTCB)' = Carried(OutputTCB)
        /\ Carried(InputTCB) = <<c>>
    BY <2>1, CarriedAfter, ConsoleAssumption DEF Carried
  <2>3. PICK s \in Seq(Chars) : s = Contents("input")
    BY <1>1
  <2>4. PICK t \in Seq(Chars) : t = Append(s, c)
    <3>1. c \in Chars
      BY <2>1
    <3>2. Append(s, c) \in Seq(Chars)
      BY <3>1
    <3> QED  BY <3>2
  <2>5. s \o <<c>> = t /\ t \o <<>> = t
    BY <2>1, <2>4, Joining
  <2>6. Inward' = Inward /\ Outward' = Outward /\ Offers' = Offers
    BY <1>2, <1>4, <1>5, <2>1, <2>2, <2>3, <2>4, <2>5, CrewThreads DEF Inward, Outward
  <2>7. InputPipe!Use
    BY <2>1, <2>6 DEF InputPipe!Use, Inward
  <2> QED  BY <2>6, <2>7 DEF PipeSteps, InputPipe!Next
<1>6. CASE running = OutputTCB /\ op = "get" /\ b = "output"
  <2>1. PICK x : x = Head(Contents("output"))
    OBVIOUS
  <2>2. /\ Contents("output")' = Tail(Contents("output")) /\ Contents("output") # <<>>
        /\ Contents("input")' = Contents("input") /\ got' = Null
        /\ held'[OutputTCB] = x /\ held'[InputTCB] = held[InputTCB]
        /\ held[OutputTCB] = Null
    BY <1>6, <2>1, CrewThreads DEF Moved, Buffers, Handing
  <2>3. x \in Chars
    BY <1>1, <2>1, <2>2
  <2>4. /\ Carried(OutputTCB)' = <<x>> /\ Carried(InputTCB)' = Carried(InputTCB)
        /\ Carried(OutputTCB) = <<>>
    BY <2>2, <2>3, CarriedAfter, ConsoleAssumption DEF Carried
  <2>5. Inward' = Inward
    BY <2>2, <2>4 DEF Inward
  <2>6. <<x>> \o Tail(Contents("output")) = <<>> \o Contents("output")
    BY <1>1, <2>1, <2>2, <2>3, Joining
  <2>7. Outward' = Outward /\ Offers' = Offers
    BY <1>4, <1>6, <2>2, <2>4, <2>6 DEF Outward
  <2>8. InputPipe!Use
    BY <2>2, <2>5 DEF InputPipe!Use, Inward
  <2> QED  BY <2>7, <2>8 DEF PipeSteps, InputPipe!Next
<1>7. CASE running \in Users /\ op = "get" /\ b = "input"
  <2>1. /\ Contents("input")' = Tail(Contents("input")) /\ Contents("input") # <<>>
        /\ Contents("output")' = Contents("output")
        /\ got' = Head(Contents("input"))
        /\ held'[OutputTCB] = held[OutputTCB] /\ held'[InputTCB] = held[InputTCB]
    BY <1>7, CrewThreads DEF Moved, Buffers
  <2>2. /\ Carried(InputTCB)' = Carried(InputTCB) /\ Carried(OutputTCB)' = Carried(OutputTCB)
    BY <2>1, CarriedAfter
  <2>3. Outward' = Outward /\ Offers' = Offers
    BY <1>4, <1>7, <2>1, <2>2 DEF Outward
  <2>4. PICK s \in Seq(Chars) : s = Contents("input")
    BY <1>1
  <2>5. PICK t \in Seq(Chars) : t = Carried(InputTCB)
    BY <1>1
  <2>6. PICK c0 \in Chars : TRUE
    BY <1>1, <2>1, <2>4
  <2>7. PICK u \in Seq(Chars) : u = s \o t
    <3>1. s \o t \in Seq(Chars)
      OBVIOUS
    <3> QED  BY <3>1
  <2>8. Head(u) = Head(s) /\ Tail(u) = Tail(s) \o t /\ u # <<>>
    BY <2>1, <2>4, <2>6, <2>7, Joining
  <2>9. Head(u \o z) = Head(u) /\ Tail(u \o z) = Tail(u) \o z /\ u \o z # <<>>
    BY <2>6, <2>8, Joining
  <2>10. InputPipe!Get
    BY <1>2, <2>1, <2>2, <2>4, <2>5, <2>7, <2>8, <2>9 DEF InputPipe!Get
  <2> QED  BY <2>3, <2>10 DEF PipeSteps, InputPipe!Next
<1>8. CASE running \in Users /\ op = "put" /\ b = "output"
  <2>1. /\ Contents("output")' = Append(Contents("output"), c) /\ c \in Chars
        /\ Len(Contents("output")) < Length
        /\ Contents("input")' = Contents("input") /\ got' = Null
        /\ held'[OutputTCB] = held[OutputTCB] /\ held'[InputTCB] = held[InputTCB]
        /\ held'[running] = Null /\ held[running] \in {c, Null}
    BY <1>8, CrewThreads DEF Moved, Buffers, Handing
  <2>2. /\ Carried(InputTCB)' = Carried(InputTCB) /\ Carried(OutputTCB)' = Carried(OutputTCB)
    BY <2>1, CarriedAfter
  <2>3. Inward' = Inward
    BY <1>2, <2>1, <2>2 DEF Inward
  <2>4. PICK s \in Seq(Chars) : s = Contents("output")
    BY <1>1
  <2>5. PICK t \in Seq(Chars) : t = Carried(OutputTCB)
    BY <1>1
  <2>6. Append(t \o s, c) = t \o Append(s, c) /\ Len(t \o s) = Len(t) + Len(s)
    <3>1. c \in Chars
      BY <2>1
    <3>2. Append(t \o s, c) = t \o Append(s, c)
      BY <3>1, Appending, Zenon
    <3>3. Len(t \o s) = Len(t) + Len(s)
      OBVIOUS
    <3> QED  BY <3>2, <3>3
  <2>7. Len(t \o s) < Length + 1
    BY <1>1, <2>1, <2>4, <2>5, <2>6, ConsoleAssumption
  <2>8. Offers' = [Offers EXCEPT ![running] = Null] /\ Offers[running] \in {c, Null}
    <3>1. held' = [held EXCEPT ![running] = Null]
      BY <1>3, <2>1
    <3> QED  BY <1>3, <1>8, <2>1, <3>1, OffersAfter DEF Offers
  <2>9. Outward = t \o s /\ Outward' = Append(t \o s, c)
    BY <2>1, <2>2, <2>4, <2>5, <2>6 DEF Outward
  <2>10. OutputPipe!Put(running, c)
    BY <2>1, <2>7, <2>8, <2>9 DEF OutputPipe!Put, Outward, Offers
  <2>11. InputPipe!Use
    BY <2>1, <2>3 DEF InputPipe!Use, Inward
  <2> QED  BY <1>8, <2>1, <2>10, <2>11 DEF PipeSteps, InputPipe!Next, OutputPipe!Next
<1> QED  BY <1>5, <1>6, <1>7, <1>8 DEF Doing

\* The input thread takes a character of the receiver's: it stays in the pipe.
LEMMA ReadDataPipes ==
  ASSUME ConsoleInv, ReadData, program' = program
  PROVE  PipeSteps
<1>1. /\ SameContents /\ held'[InputTCB] \in Chars /\ held'[OutputTCB] = held[OutputTCB]
      /\ held[InputTCB] = Null /\ got' = Null /\ tx' = tx
      /\ held' = [held EXCEPT ![InputTCB] = Head(rx)] /\ rx' = Tail(rx) /\ rx # <<>>
  BY ReadDataKeeps, InvFacts DEF ReadData, IOAt, DeviceFits
<1>2. PICK z \in Seq(Chars) : z = rx
  BY InvFacts DEF RestOK
<1>3. PICK c \in Chars : c = Head(z)
  BY <1>1, <1>2
<1>4. held'[InputTCB] = c
  <2>1. held \in [Threads -> Chars \cup {Null}]
    BY InvFacts DEF RestOK
  <2> QED  BY <1>1, <1>2, <1>3, <2>1, CrewThreads
<1>5. /\ Carried(InputTCB)' = <<c>> /\ Carried(InputTCB) = <<>>
      /\ Carried(OutputTCB)' = Carried(OutputTCB)
  BY <1>1, <1>4, CarriedAfter, ConsoleAssumption DEF Carried
<1>6. Outward' = Outward /\ Offers' = Offers
  <2>1. DOMAIN held = Threads /\ InputTCB \in Threads \ Users
    BY InvFacts, CrewThreads DEF RestOK
  <2> QED  BY <1>1, <1>5, <2>1, OffersAfter DEF Outward, SameContents, Buffers
<1>7. PICK s \in Seq(Chars) : s = Contents("input")
  BY PipeTypes DEF Buffers
<1>8. (s \o <<>>) \o z = (s \o <<c>>) \o Tail(z)
  <2>1. s \o <<>> = s
    BY Joining
  <2>2. <<c>> \o Tail(z) = z /\ Tail(z) \in Seq(Chars)
    BY <1>1, <1>2, <1>3, Joining
  <2>3. (s \o <<c>>) \o Tail(z) = s \o (<<c>> \o Tail(z))
    BY <2>2
  <2> QED  BY <2>1, <2>2, <2>3
<1>9. Inward' = Inward
  BY <1>1, <1>2, <1>5, <1>7, <1>8 DEF Inward, SameContents, Buffers
<1>10. InputPipe!Use
  BY <1>1, <1>9 DEF InputPipe!Use, Inward
<1> QED  BY <1>1, <1>6, <1>10 DEF PipeSteps, InputPipe!Next

\* One to the device comes out of the output pipe,
LEMMA WriteDataPipes ==
  ASSUME ConsoleInv, WriteData, program' = program
  PROVE  PipeSteps
<1>1. /\ SameContents /\ held[OutputTCB] \in Chars /\ held'[OutputTCB] = Null
      /\ held'[InputTCB] = held[InputTCB] /\ got' = Null /\ tx' = held[OutputTCB]
      /\ held' = [held EXCEPT ![OutputTCB] = Null] /\ rx' = rx
  BY WriteDataKeeps DEF WriteData
<1>2. PICK c \in Chars : c = held[OutputTCB]
  BY <1>1
<1>3. /\ Carried(OutputTCB) = <<c>> /\ Carried(OutputTCB)' = <<>>
      /\ Carried(InputTCB)' = Carried(InputTCB)
  BY <1>1, <1>2, CarriedAfter, ConsoleAssumption DEF Carried
<1>4. Inward' = Inward
  BY <1>1, <1>3 DEF Inward, SameContents, Buffers
<1>5. PICK s \in Seq(Chars) : s = Contents("output")
  BY PipeTypes DEF Buffers
<1>6. Head(<<c>> \o s) = c /\ Tail(<<c>> \o s) = s /\ <<c>> \o s # <<>> /\ <<>> \o s = s
  BY Joining
<1>7. Contents("output")' = s
  BY <1>1, <1>5 DEF SameContents, Buffers
<1>8. Offers' = Offers
  <2>1. DOMAIN held = Threads /\ OutputTCB \in Threads \ Users
    BY InvFacts, CrewThreads DEF RestOK
  <2> QED  BY <1>1, <2>1, OffersAfter
<1>9. OutputPipe!Get
  BY <1>1, <1>2, <1>3, <1>5, <1>6, <1>7, <1>8 DEF OutputPipe!Get, Offers
<1>10. InputPipe!Use
  BY <1>1, <1>4 DEF InputPipe!Use, Inward
<1> QED  BY <1>9, <1>10 DEF PipeSteps, InputPipe!Next, OutputPipe!Next

\* and one from the keyboard goes into the input pipe.
LEMMA TypePipes ==
  ASSUME ConsoleInv, Type, SameContents
  PROVE  PipeSteps
<1>1. PICK c \in Chars : rx' = Append(rx, c)
  BY DEF Type
<1>2. Len(rx) < MaxTyped /\ got' = Null /\ held' = held /\ tx' = tx
  BY DEF Type
<1>3. /\ Carried(InputTCB)' = Carried(InputTCB) /\ Outward' = Outward /\ Offers' = Offers
      /\ Contents("input")' = Contents("input")
  BY <1>2, CarriedAfter, OffersAfter DEF Outward, SameContents, Buffers
<1>4. PICK z \in Seq(Chars) : z = rx
  BY InvFacts DEF RestOK
<1>5. PICK s \in Seq(Chars) : s = Contents("input") /\ Len(s) <= Length
  BY PipeTypes, ContentsBound DEF Buffers
<1>6. PICK t \in Seq(Chars) : t = Carried(InputTCB) /\ Len(t) <= 1
  BY PipeTypes, CrewThreads
<1>7. PICK u \in Seq(Chars) : u = s \o t
  <2>1. s \o t \in Seq(Chars)
    OBVIOUS
  <2> QED  BY <2>1
<1>8. /\ Len(u) = Len(s) + Len(t) /\ Len(u \o z) = Len(u) + Len(z)
      /\ Append(u \o z, c) = u \o Append(z, c)
  <2>1. Len(u) = Len(s) + Len(t)
    BY <1>7, Joining
  <2>2. Len(u \o z) = Len(u) + Len(z)
    BY Joining
  <2>3. Append(u \o z, c) = u \o Append(z, c)
    BY Appending, Zenon
  <2> QED  BY <2>1, <2>2, <2>3
<1>9. Len(u \o z) < Length + 1 + MaxTyped
  BY <1>2, <1>4, <1>5, <1>6, <1>8, ConsoleAssumption
<1>10. Inward = u \o z /\ Inward' = Append(u \o z, c)
  BY <1>1, <1>3, <1>4, <1>5, <1>6, <1>7, <1>8 DEF Inward
<1>11. InputPipe!Put("keyboard", c)
  BY <1>2, <1>9, <1>10 DEF InputPipe!Put, Inward
<1> QED  BY <1>2, <1>3, <1>11 DEF PipeSteps, InputPipe!Next

-----------------------------------------------------------------------------
(***************************************************************************)
(* Every step.                                                             *)
(***************************************************************************)
\* A step during which nothing goes in or out of the pipes but what has just
\* been transmitted.
LEMMA StillPipes ==
  ASSUME ConsoleInv, SameContents, got' = Null, held' = held, rx' = rx,
         tx' \in {tx, Null}
  PROVE  PipeSteps
BY WaitsPipes DEF Waits

\* The steps of the console threads.
LEMMA IOStepKeeps ==
  ASSUME ConsoleInv, NEW b \in Buffers, IOStep(b), program' = program
  PROVE  ConsoleInv' /\ PipeSteps
<1>1. CASE Poll(b)
  BY <1>1, PollKeeps, StillPipes DEF Poll
<1>2. CASE LoadStatus(b)
  BY <1>2, LoadStatusKeeps, StillPipes DEF LoadStatus
<1>3. CASE StorePass(b)
  BY <1>3, StorePassKeeps, StillPipes DEF StorePass
<1>4. CASE UseBuffer(b)
  <2>1. PICK op : /\ ConsoleInv' /\ Doing(op, b) /\ Handing(op, b, held[running])
                  /\ Moved(op, b, held[running]) \/ Waits
    BY <1>4, UseBufferKeeps
  <2>2. UNCHANGED <<rx, tx>>
    BY <1>4 DEF UseBuffer, Operate
  <2>3. CASE Moved(op, b, held[running])
    BY <2>1, <2>2, <2>3, MovedPipes
  <2>4. CASE Waits
    BY <2>1, <2>2, <2>4, WaitsPipes
  <2> QED  BY <2>1, <2>3, <2>4
<1>5. CASE ReadData
  BY <1>5, ReadDataKeeps, ReadDataPipes
<1>6. CASE WriteData
  BY <1>6, WriteDataKeeps, WriteDataPipes
<1> QED  BY <1>1, <1>2, <1>3, <1>4, <1>5, <1>6 DEF IOStep

\* The steps of the users, and of a thread that goes on.
LEMMA CallKeeps ==
  ASSUME ConsoleInv, handleGetc \/ handlePutc \/ Resume, program' = program
  PROVE  ConsoleInv' /\ PipeSteps
<1>1. CASE handleGetc \/ handlePutc
  <2>1. PICK op, b, c :
          /\ UserRuns /\ Operate(op, b, c)
          /\ \/ op = "get" /\ b = "input" /\ c = Null
             \/ op = "put" /\ b = "output" /\ c \in Chars
    BY <1>1 DEF handleGetc, handlePutc
  <2>2. /\ ConsoleInv' /\ Doing(op, b) /\ Handing(op, b, c)
        /\ Moved(op, b, c) \/ Waits
    BY <2>1, UserKeeps
  <2>3. UNCHANGED <<rx, tx>>
    BY <2>1 DEF Operate
  <2>4. CASE Moved(op, b, c)
    BY <2>2, <2>3, <2>4, MovedPipes
  <2>5. CASE Waits
    BY <2>2, <2>3, <2>5, WaitsPipes
  <2> QED  BY <2>2, <2>4, <2>5
<1>2. CASE Resume
  <2>1. PICK op, b : /\ ConsoleInv' /\ Doing(op, b) /\ Handing(op, b, held[running])
                     /\ Moved(op, b, held[running])
    BY <1>2, ResumeKeeps
  <2>2. UNCHANGED <<rx, tx>>
    BY <1>2 DEF Resume
  <2> QED  BY <2>1, <2>2, MovedPipes
<1> QED  BY <1>1, <1>2

-----------------------------------------------------------------------------
(***************************************************************************)
(* The start.                                                              *)
(***************************************************************************)
\* While Master boots: the semaphores S are open, with the tokens v, and the
\* threads T are there and have not run.
Booting(k, S, T, v) ==
  /\ k \in Kernels /\ Good(k)
  /\ k.running = Master /\ k.finished = {} /\ k.created = {Master, Idle} \cup T
  /\ \A t \in Threads : k.remaining[t] = 0 /\ k.blockedAtSem[t] = Null
  /\ S \subseteq k.active /\ k.opened \cap UserSems = S
  /\ \A s \in S : k.value[s] = v[s]

\* The tokens the semaphores of the buffers begin with.
FirstTokens == [s \in ConsoleSems |->
                  IF s \in {semPut(b) : b \in Buffers} THEN Length
                  ELSE IF s \in {mutex(b) : b \in Buffers} THEN 1 ELSE 0]

LEMMA FirstValues ==
  \A b \in Buffers : /\ FirstTokens[semPut(b)] = Length
                     /\ FirstTokens[semGet(b)] = 0 /\ FirstTokens[mutex(b)] = 1
BY SemNames DEF FirstTokens

\* A semaphore is opened,
LEMMA BootSem ==
  ASSUME NEW k, NEW S, NEW T, NEW v, Booting(k, S, T, v),
         NEW s \in UserSems \ S, NEW n \in Nat, v[s] = n
  PROVE  Booting(SemCreate(k, s, n), S \cup {s}, T, v)
<1> DEFINE m == SemCreate(k, s, n)
<1>1. k \in Kernels /\ Good(k) /\ s \in UserSems \ k.opened /\ s \in Sems
  BY SemFrames DEF Booting
<1>2. m \in Kernels /\ Good(m)
  BY <1>1, SemCreateType, SemCreateKeeps
<1>3. /\ m.running = k.running /\ m.finished = k.finished /\ m.created = k.created
      /\ m.remaining = k.remaining /\ m.blockedAtSem = k.blockedAtSem
      /\ m.active = k.active \cup {s} /\ m.opened = k.opened \cup {s}
      /\ m.value = [k.value EXCEPT ![s] = n]
  BY <1>1 DEF SemCreate, Kernels
<1>4. m.value[s] = n /\ \A x \in Sems \ {s} : m.value[x] = k.value[x]
  BY <1>1, <1>3, KernelFields
<1> HIDE DEF m
<1>5. m.opened \cap UserSems = S \cup {s}
  BY <1>3 DEF Booting
<1>6. \A x \in S \cup {s} : m.value[x] = v[x]
  BY <1>4, SemFrames DEF Booting
<1>7. Booting(m, S \cup {s}, T, v)
  BY <1>2, <1>3, <1>5, <1>6 DEF Booting
<1> QED  BY <1>7 DEF m

\* the three of a buffer,
LEMMA BootBuffer ==
  ASSUME NEW k, NEW S, NEW b \in Buffers, Booting(k, S, {}, FirstTokens),
         S \cap {semPut(b), semGet(b), mutex(b)} = {}
  PROVE  Booting(NewBuffer(k, b), S \cup {semPut(b), semGet(b), mutex(b)}, {},
                 FirstTokens)
<1>1. /\ semPut(b) \in UserSems /\ semGet(b) \in UserSems /\ mutex(b) \in UserSems
      /\ semPut(b) # semGet(b) /\ semPut(b) # mutex(b) /\ semGet(b) # mutex(b)
      /\ 0 \in Nat /\ 1 \in Nat /\ Length \in Nat
  BY SemNames, ConsoleAssumption
<1>2. PICK k1 : k1 = SemCreate(k, semPut(b), Length)
  OBVIOUS
<1>3. PICK S1 : S1 = S \cup {semPut(b)}
  OBVIOUS
<1>4. Booting(k1, S1, {}, FirstTokens)
  BY <1>1, <1>2, <1>3, FirstValues, BootSem
<1>5. PICK k2 : k2 = SemCreate(k1, semGet(b), 0)
  OBVIOUS
<1>6. PICK S2 : S2 = S1 \cup {semGet(b)}
  OBVIOUS
<1>7. Booting(k2, S2, {}, FirstTokens)
  BY <1>1, <1>3, <1>4, <1>5, <1>6, FirstValues, BootSem
<1>8. mutex(b) \in UserSems \ S2
  BY <1>1, <1>3, <1>6
<1>9. Booting(SemCreate(k2, mutex(b), 1), S2 \cup {mutex(b)}, {}, FirstTokens)
  BY <1>1, <1>7, <1>8, FirstValues, BootSem
<1>10. S2 \cup {mutex(b)} = S \cup {semPut(b), semGet(b), mutex(b)}
  BY <1>3, <1>6
<1> QED  BY <1>2, <1>5, <1>9, <1>10 DEF NewBuffer

\* and a thread is created, which nobody has joined.
LEMMA BootThread ==
  ASSUME NEW k, NEW S, NEW T, NEW v, Booting(k, S, T, v), S \subseteq UserSems,
         NEW t \in Threads \ ({Master, Idle} \cup T)
  PROVE  LET m == ThreadCreate(k, t)
         IN  /\ Booting(m, S, T \cup {t}, v)
             /\ m.value[semJoin(t)] = 0 /\ semJoin(t) \in m.active
<1> DEFINE m == ThreadCreate(k, t)
<1>1. k \in Kernels /\ Good(k) /\ t \in Threads \ k.created /\ t # Idle
  BY DEF Booting
<1>2. m \in Kernels /\ Good(m)
  BY <1>1, ThreadCreateType, ThreadCreateKeeps
<1>3. /\ m.opened = k.opened \cup SemsOf(t) /\ m.active = k.active \cup SemsOf(t)
      /\ m.created = k.created \cup {t} /\ m.finished = k.finished
      /\ m.running = k.running /\ m.remaining = k.remaining
      /\ m.blockedAtSem = k.blockedAtSem
      /\ \A x \in Sems \ SemsOf(t) : m.value[x] = k.value[x]
      /\ m.value[semJoin(t)] = 0
  BY <1>1, ThreadCreateFields
<1> HIDE DEF m
<1>4. SemsOf(t) \cap UserSems = {} /\ semJoin(t) \in SemsOf(t)
  BY ThreadsAssumption DEF SemsOf
<1>5. m.opened \cap UserSems = S
  BY <1>3, <1>4 DEF Booting
<1>6. \A x \in S : m.value[x] = v[x]
  BY <1>3, <1>4, SemFrames DEF Booting
<1>7. Booting(m, S, T \cup {t}, v)
  BY <1>2, <1>3, <1>5, <1>6 DEF Booting
<1> QED  BY <1>3, <1>4, <1>7 DEF m

\* The kernel's record when main() has joined UserMain.
LEMMA BootedSound ==
  ASSUME NEW cl, \A t \in Threads : cl[t] = NoCall
  PROVE  /\ Booted \in Kernels /\ Sound(Booted, cl) /\ Booted.running # Idle
         /\ \A b \in Buffers : Stock(Booted, cl, "get", b) = 0
<1>1. PICK k0 : k0 = AtBoot
  OBVIOUS
<1>2. Booting(k0, {}, {}, FirstTokens)
  <2>1. /\ k0.running = Master /\ k0.finished = {} /\ k0.created = {Master, Idle}
        /\ \A t \in Threads : k0.remaining[t] = 0 /\ k0.blockedAtSem[t] = Null
        /\ k0.opened = SemsOf(Master) \cup SemsOf(Idle)
    BY <1>1 DEF AtBoot
  <2>2. k0.opened \cap UserSems = {}
    BY <2>1, ThreeThreads, ThreadsAssumption
  <2> QED  BY <1>1, <2>1, <2>2, BootGood DEF Booting
<1>3. PICK k1 : k1 = NewBuffer(k0, "input")
  OBVIOUS
<1>4. Booting(k1, {} \cup {semPut("input"), semGet("input"), mutex("input")}, {},
              FirstTokens)
  BY <1>2, <1>3, BootBuffer DEF Buffers
<1>5. PICK S1 : S1 = {} \cup {semPut("input"), semGet("input"), mutex("input")}
  OBVIOUS
<1>6. PICK k2 : k2 = NewBuffer(k1, "output")
  OBVIOUS
<1>7. S1 \cap {semPut("output"), semGet("output"), mutex("output")} = {}
  BY <1>5, SemNames DEF Buffers
<1>8. Booting(k2, S1 \cup {semPut("output"), semGet("output"), mutex("output")}, {},
              FirstTokens)
  BY <1>4, <1>5, <1>6, <1>7, BootBuffer DEF Buffers
<1>9. S1 \cup {semPut("output"), semGet("output"), mutex("output")} = ConsoleSems
  BY <1>5 DEF ConsoleSems, Buffers
<1>10. Booting(k2, ConsoleSems, {}, FirstTokens) /\ ConsoleSems \subseteq UserSems
  BY <1>8, <1>9, SemNames
<1>11. PICK k3 : k3 = ThreadCreate(k2, InputTCB)
  OBVIOUS
<1>12. PICK T3 : T3 = {} \cup {InputTCB}
  OBVIOUS
<1>13. Booting(k3, ConsoleSems, T3, FirstTokens)
  BY <1>10, <1>11, <1>12, BootThread, CrewThreads
<1>14. PICK k4 : k4 = ThreadCreate(k3, OutputTCB)
  OBVIOUS
<1>15. PICK T4 : T4 = T3 \cup {OutputTCB}
  OBVIOUS
<1>16. Booting(k4, ConsoleSems, T4, FirstTokens)
  <2>1. OutputTCB \in Threads \ ({Master, Idle} \cup T3)
    BY <1>12, CrewThreads
  <2> QED  BY <1>10, <1>13, <1>14, <1>15, <2>1, BootThread
<1>17. PICK k : k = ThreadCreate(k4, UserMain)
  OBVIOUS
<1>18. PICK T : T = T4 \cup {UserMain}
  OBVIOUS
<1>19. PICK s : s = semJoin(UserMain)
  OBVIOUS
<1>20. Booting(k, ConsoleSems, T, FirstTokens) /\ k.value[s] = 0 /\ s \in k.active
  <2>1. UserMain \in Threads \ ({Master, Idle} \cup T4)
    BY <1>12, <1>15, CrewThreads
  <2> QED  BY <1>10, <1>16, <1>17, <1>18, <1>19, <2>1, BootThread
<1>21. T = {InputTCB, OutputTCB, UserMain}
  BY <1>12, <1>15, <1>18
<1>22. /\ k \in Kernels /\ Good(k) /\ k.running = Master /\ k.finished = {}
       /\ k.created = {Master, Idle, InputTCB, OutputTCB, UserMain}
       /\ \A t \in Threads : k.remaining[t] = 0 /\ k.blockedAtSem[t] = Null
       /\ ConsoleSems \subseteq k.active
       /\ \A x \in ConsoleSems : k.value[x] = FirstTokens[x]
  BY <1>20, <1>21 DEF Booting
<1>23. s \in Sems /\ s # Null /\ s \notin ConsoleSems
  BY <1>19, SemFrames, CrewThreads, SemNames, ThreadsAssumption
<1>24. PICK m : m = Block(k, s, 1)
  OBVIOUS
<1>25. m \in Kernels
  BY <1>20, <1>22, <1>23, <1>24, BlockType
<1>26. /\ Consistent(m) /\ SameThreads(k, m) /\ m.active = k.active
       /\ m.remaining = k.remaining
       /\ \A t \in Threads : m.blockedAtSem[t] = IF t = Master THEN s ELSE k.blockedAtSem[t]
  BY <1>20, <1>22, <1>24, BlockKeeps, ThreeThreads
<1>27. \A x \in Sems \ {s} : m.value[x] = k.value[x]
  BY <1>22, <1>24, KernelFields DEF Block
<1>28. PICK u : u = Yield(m, FALSE)
  OBVIOUS
<1>29. WaitsIn(m, m.running)
  BY <1>22, <1>23, <1>26, CrewThreads DEF WaitsIn, SameThreads
<1>30. u \in Kernels /\ Good(u) /\ (u.running = Idle => Range(u.ready) = {})
  BY <1>25, <1>26, <1>28, <1>29, YieldType, YieldKeeps, YieldRuns
<1>31. /\ u.created = m.created /\ u.finished = m.finished /\ u.active = m.active
       /\ u.value = m.value /\ u.remaining = m.remaining
       /\ u.blockedAtSem = m.blockedAtSem
  BY <1>25, <1>28, YieldFields
<1>32. Booted = u
  BY <1>1, <1>3, <1>6, <1>11, <1>14, <1>17, <1>19, <1>24, <1>28 DEF Booted
<1>33. Manned(u)
  BY <1>19, <1>22, <1>26, <1>31, CrewThreads DEF Manned, SameThreads, sleeps
<1>34. \A x \in ConsoleSems : u.value[x] = FirstTokens[x]
  BY <1>22, <1>23, <1>27, <1>31, SemNames
<1>35. \A b \in Buffers : /\ u.value[semPut(b)] = Length /\ u.value[semGet(b)] = 0
                          /\ u.value[mutex(b)] = 1
  BY <1>34, SemNames, FirstValues
<1>36. MutexesFree(u) /\ CallsFit(u, cl)
  BY <1>35 DEF MutexesFree, CallsFit
<1>37. WaitersFit(u, cl)
  BY <1>22, <1>26, <1>31 DEF WaitersFit
<1>38. ASSUME NEW op \in {"put", "get"}, NEW b \in Buffers
       PROVE  Stock(u, cl, op, b) = u.value[Wanted(op, b)]
  <2>1. GrantedIn(u, cl, op, b) = {}
    BY DEF GrantedIn, NoCall
  <2>2. u.value[Wanted(op, b)] \in Nat
    BY <1>30, StockNat
  <2> QED  BY <2>1, <2>2, FS_EmptySet DEF Stock
<1>39. \A b \in Buffers : Stock(u, cl, "get", b) = 0 /\ Stock(u, cl, "put", b) = Length
  BY <1>35, <1>38 DEF Wanted
<1>40. SlotsFit(u, cl)
  BY <1>39, ConsoleAssumption DEF SlotsFit
<1>41. Sound(u, cl)
  BY <1>30, <1>33, <1>36, <1>37, <1>40 DEF Sound
<1>42. u.running # Idle
  BY <1>30, <1>41, SomeoneRuns
<1> QED  BY <1>30, <1>32, <1>39, <1>41, <1>42

\* The invariant holds when UserMain starts.
LEMMA InitInv == Init => ConsoleInv
<1> SUFFICES ASSUME Init PROVE ConsoleInv
  OBVIOUS
<1>1. /\ kernel = Booted /\ pc = [b \in Buffers |-> "poll"]
      /\ held = [t \in Threads |-> Null] /\ call = [t \in Threads |-> NoCall]
      /\ pass = [b \in Buffers |-> FALSE] /\ got = Null /\ rx = <<>> /\ tx = Null
      /\ program \in Programs
  BY DEF Init
<1>2. \A t \in Threads : call[t] = NoCall
  BY <1>1
<1>3. /\ kernel \in Kernels /\ Sound(kernel, call) /\ running # Idle
      /\ \A b \in Buffers : Stock(kernel, call, "get", b) = 0
  BY <1>1, <1>2, BootedSound DEF running
<1>4. 0 \in 0 .. Length - 1 /\ 0 % Length = 0
  <2>1. 0 \in 0 .. 2 * Length - 1 /\ 0 < Length
    BY Wraps
  <2> QED  BY <2>1, Wraps
<1>5. PICK a : a = [i \in 0 .. Length - 1 |-> Null]
  OBVIOUS
<1>6. PICK r : r = [buffer |-> a, pos_w |-> 0, pos_r |-> 0]
  OBVIOUS
<1>7. r \in Rings
  BY <1>4, <1>5, <1>6 DEF Rings
<1>8. ring = [b \in Buffers |-> r]
  BY <1>5, <1>6 DEF Init
<1>9. RingFits(r, 0)
  BY <1>4, <1>6 DEF RingFits
<1>10. RestOK
  BY <1>1 DEF RestOK
<1>11. TypeOK
  <2>1. call \in [Threads -> {NoCall} \cup UNION {Operations(t) : t \in Threads}]
    BY <1>1
  <2>2. program \subseteq {"getc", "putc"}
    BY <1>1, ConsoleAssumption
  <2> QED  BY <1>3, <1>7, <1>8, <1>10, <2>1, <2>2 DEF TypeOK, RestOK
<1>12. HandsFit
  BY <1>1, CrewThreads DEF HandsFit, NoCall, Buffers
<1>13. DeviceFits
  BY <1>1, CrewThreads DEF DeviceFits, IOTCB, Buffers
<1>14. \A b \in Buffers : RingFits(ring[b], Stock(kernel, call, "get", b))
  BY <1>3, <1>8, <1>9
<1> QED  BY <1>3, <1>11, <1>12, <1>13, <1>14 DEF ConsoleInv, SomebodyCanRun

-----------------------------------------------------------------------------
\* Each step keeps the invariant and is a step of the pipes.
LEMMA ConsoleStep ==
  ConsoleInv /\ [Next]_<<program, vars>> => ConsoleInv' /\ PipeSteps
<1> SUFFICES ASSUME ConsoleInv, [Next]_<<program, vars>> PROVE ConsoleInv' /\ PipeSteps
  OBVIOUS
<1>1. CASE Next
  <2>1. program' = program
    BY <1>1 DEF Next
  <2>2. CASE handleGetc \/ handlePutc \/ Resume
    BY <2>1, <2>2, CallKeeps
  <2>3. CASE CreateUser
    BY <2>1, <2>3, CreateKeeps, StillPipes DEF CreateUser
  <2>4. ASSUME NEW b \in Buffers, IOStep(b) PROVE ConsoleInv' /\ PipeSteps
    BY <2>1, <2>4, IOStepKeeps
  <2>5. CASE handleTimer
    BY <2>1, <2>5, TimerKeeps, StillPipes DEF handleTimer
  <2>6. CASE handleExternal \/ Transmitted
    BY <2>1, <2>6, DeviceKeeps, StillPipes DEF handleExternal, Transmitted
  <2>7. CASE Type
    BY <2>1, <2>7, DeviceKeeps, TypePipes
  <2> QED  BY <1>1, <2>2, <2>3, <2>4, <2>5, <2>6, <2>7 DEF Next, Step
<1>2. CASE UNCHANGED <<program, vars>>
  <2>1. /\ program' = program /\ kernel' = kernel /\ ring' = ring /\ pc' = pc
        /\ held' = held /\ call' = call /\ pass' = pass /\ got' = got
        /\ rx' = rx /\ tx' = tx
    BY <1>2 DEF vars
  <2>2. RestOK' /\ HandsFit' /\ DeviceFits'
    BY <2>1, InvFacts DEF RestOK, HandsFit, DeviceFits
  <2>3. ConsoleInv' /\ SameContents
    BY <2>1, <2>2, StillKeeps
  <2>4. Inward' = Inward /\ Outward' = Outward /\ Offers' = Offers
    BY <2>1, <2>3, CarriedAfter, OffersAfter DEF Inward, Outward, SameContents, Buffers
  <2> QED  BY <2>1, <2>3, <2>4 DEF PipeSteps
<1> QED  BY <1>1, <1>2

\* The invariant of the console, for every set of threads and of characters,
\* every program of getc and putc and every length of a buffer.
THEOREM ConsoleInvAlways == Spec => []ConsoleInv
<1>1. Init => ConsoleInv
  BY InitInv
<1>2. ConsoleInv /\ [Next]_<<program, vars>> => ConsoleInv'
  BY ConsoleStep
<1> QED  BY <1>1, <1>2, PTL DEF Spec

\* CharBuffer: the two semaphores and the two positions of a buffer tell the
\* same number of characters, whoever has been handed what.
THEOREM SlotsAlwaysCounted == Spec => []SlotsAreCounted
<1>1. ConsoleInv => SlotsAreCounted
  BY ContentsText DEF ConsoleInv, Sound, SlotsFit, RingFits, SlotsAreCounted
<1> QED  BY <1>1, ConsoleInvAlways, PTL

\* CharBuffer's mutex is never waited for.
THEOREM MutexNeverWaits == Spec => []MutexNeverContended
<1>1. ConsoleInv => MutexNeverContended
  BY DEF ConsoleInv, Sound, MutexesFree, MutexNeverContended
<1> QED  BY <1>1, ConsoleInvAlways, PTL

\* IO::inputRoutine and IO::outputRoutine use the device only when it is ready.
THEOREM DeviceAlwaysReady == Spec => []DeviceIsReady
<1>1. ConsoleInv => DeviceIsReady
  BY DEF ConsoleInv, DeviceFits, DeviceIsReady, Buffers, IOTCB
<1> QED  BY <1>1, ConsoleInvAlways, PTL

\* The console never leaves the processor to the idle thread.
THEOREM SomebodyAlwaysRuns == Spec => []SomebodyCanRun
<1>1. ConsoleInv => SomebodyCanRun
  BY DEF ConsoleInv
<1> QED  BY <1>1, ConsoleInvAlways, PTL

\* The first state of the pipes.
LEMMA InitPipes == Init => InputPipe!Init /\ OutputPipe!Init
<1> SUFFICES ASSUME Init PROVE InputPipe!Init /\ OutputPipe!Init
  OBVIOUS
<1>1. got = Null /\ tx = Null /\ rx = <<>> /\ \A t \in Threads : held[t] = Null
  BY DEF Init
<1>2. \A t \in Threads : Carried(t) = <<>>
  BY <1>1 DEF Carried
<1>3. ASSUME NEW b \in Buffers PROVE Contents(b) = <<>>
  <2>1. kernel = Booted /\ \A t \in Threads : call[t] = NoCall
    BY DEF Init
  <2>2. Stock(kernel, call, "get", b) = 0
    BY <2>1, BootedSound
  <2>3. Contents(b) = Text(ring[b], 0)
    BY <2>2, ContentsText
  <2>4. Text(ring[b], 0) \in Seq(Chars) /\ Len(Text(ring[b], 0)) = 0
    BY DEF Text
  <2> QED  BY <2>3, <2>4
<1>4. [t \in Users |-> held[t]] = [t \in Users |-> Null]
  BY <1>1, CrewThreads
<1> QED  BY <1>1, <1>2, <1>3, <1>4, CrewThreads DEF InputPipe!Init, OutputPipe!Init, Buffers

\* From the keyboard to getc the characters keep their order, and none is lost,
\* doubled or changed.
THEOREM InputIsAPipe == Spec => ImplementsInputPipe
<1>1. Init => InputPipe!Init
  BY InitPipes
<1>2. ConsoleInv /\ [Next]_<<program, vars>> =>
        [InputPipe!Next]_<<Contents("input") \o Carried(InputTCB) \o rx,
                           [w \in {"keyboard"} |-> Null], got>>
  BY ConsoleStep DEF PipeSteps, Inward
<1> QED  BY <1>1, <1>2, ConsoleInvAlways, PTL DEF Spec, ImplementsInputPipe, InputPipe!Spec

\* The same from putc to the UART; what a putc that waits puts in the end is its
\* own character.
THEOREM OutputIsAPipe == Spec => ImplementsOutputPipe
<1>1. Init => OutputPipe!Init
  BY InitPipes
<1>2. ConsoleInv /\ [Next]_<<program, vars>> =>
        [OutputPipe!Next]_<<Carried(OutputTCB) \o Contents("output"),
                            [t \in Users |-> held[t]], tx>>
  BY ConsoleStep DEF PipeSteps, Outward, Offers
<1> QED  BY <1>1, <1>2, ConsoleInvAlways, PTL DEF Spec, ImplementsOutputPipe, OutputPipe!Spec
=============================================================================
