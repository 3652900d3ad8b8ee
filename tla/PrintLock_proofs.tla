-------------------------- MODULE PrintLock_proofs --------------------------
(***************************************************************************)
(* Two threads never hold the print lock, whatever their number, and what  *)
(* is printed under it is the number that was asked for.                   *)
(*                                                                         *)
(* That two threads never hold it is not inductive: that a store-          *)
(* conditional succeeds only on the value its load saw is the invariant    *)
(* StillTrue, about the one thread a reservation can belong to, the        *)
(* running one.  That the number is right is a fact about mConvertInt,     *)
(* proved first, and the invariant OwnNumbers, that what is put and what   *)
(* is left are together the text of the one number under the lock.         *)
(***************************************************************************)
EXTENDS PrintLock, SequenceTheorems, FiniteSetTheorems, WellFoundedInduction,
        TLAPS

\* A reservation is the running thread's, and what it saw is still there.
StillTrue ==
  reserved =>
    /\ running \in Printers
    /\ pc[running] \in {"lr", "sc", "fail"}
    /\ pc[running] = "sc" => mLockPrint = Expected(op[running])

IInv == TypeOK /\ OnePrints /\ StillTrue

-----------------------------------------------------------------------------
Schedules ==
  [running : Threads, ready : Seq(Threads), timeSliceCounter : Nat,
   finished : SUBSET Threads, remaining : [Threads -> Nat],
   blockedAtSem : [Threads -> Sems \cup {Null}], waiting : SUBSET Threads]

\* The scheduler's routines keep the types of what they are given.
LEMMA PutType ==
  ASSUME NEW k \in Schedules, NEW t \in Threads
  PROVE  SchedulerPut(k, t) \in Schedules /\ SchedulerPut(k, t).running = k.running
<1>1. Append(k.ready, t) \in Seq(Threads)
  BY DEF Schedules
<1> QED  BY <1>1 DEF SchedulerPut, Schedules

\* Scheduler::get keeps the record well typed,
LEMMA GetType ==
  ASSUME NEW k \in Schedules
  PROVE  SchedulerGet(k) \in Schedules
<1>1. CASE k.ready = <<>>
  <2>1. Idle \in Threads
    BY ThreadsAssumption
  <2> QED  BY <1>1, <2>1 DEF SchedulerGet, Schedules
<1>2. CASE k.ready # <<>>
  <2>1. k.ready \in Seq(Threads)
    BY DEF Schedules
  <2>2. Head(k.ready) \in Threads /\ Tail(k.ready) \in Seq(Threads)
    BY <1>2, <2>1, HeadTailProperties
  <2> QED  BY <1>2, <2>2 DEF SchedulerGet, Schedules
<1> QED  BY <1>1, <1>2

\* and so does TCB::yield.
LEMMA YieldType ==
  ASSUME NEW k \in Schedules, NEW b \in BOOLEAN
  PROVE  Yield(k, b) \in Schedules
<1> DEFINE queued == IF CanContinue(k, k.running) /\ b
                     THEN SchedulerPut(k, k.running) ELSE k
<1>1. k.running \in Threads
  BY DEF Schedules
<1>2. queued \in Schedules
  BY <1>1, PutType
<1>3. SchedulerGet(queued) \in Schedules
  BY <1>2, GetType
<1>4. [SchedulerGet(queued) EXCEPT !.timeSliceCounter = 0] \in Schedules
  BY <1>3 DEF Schedules
<1> QED  BY <1>4 DEF Yield

-----------------------------------------------------------------------------
\* The invariant holds at the start.
LEMMA InitInv == Init => IInv
<1> SUFFICES ASSUME Init PROVE IInv
  OBVIOUS
<1>1. PICK q \in [1 .. Cardinality(Printers) - 1 -> Printers \ {UserMain}] :
        kernel = [running |-> UserMain, ready |-> q, timeSliceCounter |-> 0,
                  finished |-> {}, remaining |-> [t \in Threads |-> 0],
                  blockedAtSem |-> [t \in Threads |-> Null], waiting |-> {}]
  BY DEF Init
<1>2. Printers \subseteq Threads /\ UserMain \in Threads
  BY ThreadsAssumption DEF Printers, UserThreads
<1>3. q \in Seq(Threads)
  <2>1. Cardinality(Printers) \in Nat
    BY <1>2, ThreadsAssumption, FS_Subset, FS_CardinalityType
  <2>2. PICK n \in Nat : 1 .. Cardinality(Printers) - 1 = 1 .. n
    <3>1. CASE Cardinality(Printers) = 0
      <4>1. 1 .. Cardinality(Printers) - 1 = 1 .. 0
        BY <3>1
      <4> QED  BY <4>1
    <3>2. CASE Cardinality(Printers) # 0
      BY <2>1, <3>2
    <3> QED  BY <3>1, <3>2
  <2>3. q \in [1 .. n -> Threads]
    BY <1>2, <2>2
  <2> QED  BY <2>3 DEF Seq
<1>4. kernel \in Schedules
  BY <1>1, <1>2, <1>3 DEF Schedules
<1>5. TypeOK
  BY <1>4 DEF Init, TypeOK, Schedules
<1>6. Holders = {}
  BY <1>2 DEF Init, Holders
<1> QED  BY <1>5, <1>6 DEF Init, IInv, OnePrints, StillTrue

\* What the lock's instructions change is the running thread's own state and,
\* when a store succeeds, the word.
LEMMA StepInv == IInv /\ [Next]_vars => IInv'
<1> SUFFICES ASSUME IInv, [Next]_vars PROVE IInv'
  OBVIOUS
<1> USE DEF IInv, Printers, lock, text
<1>0. Printers \subseteq Threads /\ kernel \in Schedules
  BY DEF UserThreads, TypeOK, Schedules
<1>1. CASE LoadReserved
  <2>1. TypeOK'
    BY <1>1 DEF LoadReserved, At, Goto, TypeOK
  <2>2. Holders' = Holders
    BY <1>0, <1>1 DEF LoadReserved, At, Goto, TypeOK, Holders
  <2>3. StillTrue'
    BY <1>0, <1>1 DEF LoadReserved, At, Goto, TypeOK, StillTrue, running, Expected
  <2> QED  BY <1>1, <2>1, <2>2, <2>3 DEF LoadReserved, OnePrints
<1>2. CASE StoreConditional
  <2>1. TypeOK'
    <3>1. \A call : Desired(call) \in {0, 1}
      BY DEF Desired, Expected
    <3> QED  BY <1>2, <3>1 DEF StoreConditional, At, Goto, TypeOK
  <2>2. StillTrue'
    BY <1>2 DEF StoreConditional, StillTrue
  <2>3. CASE reserved /\ op[running] = "lock"
    <3>1. mLockPrint = 0 /\ running \in Printers /\ Holders = {}
      BY <1>2, <2>3 DEF StoreConditional, At, StillTrue, Expected, OnePrints
    <3>2. Holders' = {running}
      BY <1>0, <1>2, <2>3, <3>1 DEF StoreConditional, Goto, TypeOK, Holders
    <3>3. mLockPrint' = 1
      BY <1>2, <2>3 DEF StoreConditional, Desired, Expected
    <3> QED  BY <2>1, <2>2, <3>2, <3>3 DEF OnePrints
  <2>4. CASE reserved /\ op[running] = "unlock"
    <3>1. running \in Holders
      BY <1>2, <2>4 DEF StoreConditional, At, Holders
    <3>2. Holders = {running}
      BY <3>1 DEF OnePrints
    <3>3. Holders' = {}
      <4>1. /\ op' = op /\ pc' = [pc EXCEPT ![running] = "out"]
            /\ running \in Printers /\ running \in Threads
        BY <1>0, <1>2, <2>4, <3>1 DEF StoreConditional, Goto, Holders
      <4>2. pc'[running] = "out"
        BY <4>1 DEF TypeOK
      <4>3. \A t \in Printers \ {running} : pc'[t] = pc[t] /\ op'[t] = op[t]
        BY <1>0, <4>1 DEF TypeOK
      <4>4. \A t \in Printers \ {running} : t \notin Holders
        BY <3>2
      <4> QED  BY <4>2, <4>3, <4>4 DEF Holders
    <3>4. mLockPrint' = 0
      BY <1>2, <2>4 DEF StoreConditional, Desired, Expected
    <3> QED  BY <2>1, <2>2, <3>3, <3>4 DEF OnePrints
  <2>5. CASE ~reserved
    <3>1. Holders' = Holders /\ mLockPrint' = mLockPrint
      BY <1>0, <1>2, <2>5 DEF StoreConditional, At, Goto, TypeOK, Holders
    <3> QED  BY <2>1, <2>2, <3>1 DEF OnePrints
  <2>6. op[running] \in {"lock", "unlock"}
    BY <1>0 DEF TypeOK, Schedules, running
  <2> QED  BY <2>3, <2>4, <2>5, <2>6
<1>3. CASE TryAgain
  <2>1. running \in Threads /\ kernel' \in Schedules /\ reserved' \in BOOLEAN
    BY <1>0, <1>3, YieldType DEF TryAgain, At, Trap, TypeOK
  <2>2. TypeOK'
    BY <1>3, <2>1 DEF TryAgain, At, Goto, TypeOK, Schedules
  <2>3. Holders' = Holders
    BY <1>0, <1>3 DEF TryAgain, At, Goto, TypeOK, Holders
  <2>4. OnePrints'
    BY <1>3, <2>3 DEF TryAgain, OnePrints
  <2>5. StillTrue'
    <3>1. CASE op[running] = "lock"
      BY <1>3, <3>1 DEF TryAgain, Trap, StillTrue
    <3>2. CASE op[running] # "lock"
      <4>1. /\ kernel' = kernel /\ reserved' = reserved
            /\ pc' = [pc EXCEPT ![running] = "lr"] /\ mLockPrint' = mLockPrint
            /\ running \in Printers
        BY <1>3, <3>2 DEF TryAgain, At, Goto
      <4>2. running' = running /\ pc'[running] = "lr"
        BY <2>1, <4>1 DEF TypeOK, running
      <4> QED  BY <4>1, <4>2 DEF StillTrue
    <3> QED  BY <3>1, <3>2
  <2> QED  BY <2>2, <2>4, <2>5
<1>4. CASE MLock \/ MUnlock
  <2>1. TypeOK'
    BY <1>4 DEF MLock, MUnlock, At, Goto, TypeOK
  <2>2. Holders' = Holders
    BY <1>0, <1>4 DEF MLock, MUnlock, At, Goto, TypeOK, Holders
  <2>3. ~reserved
    BY <1>4 DEF MLock, MUnlock, At, StillTrue
  <2> QED  BY <1>4, <2>1, <2>2, <2>3 DEF MLock, MUnlock, OnePrints, StillTrue
<1>5. CASE WaitForConsole
  <2>1. Yield(kernel, FALSE) \in Schedules /\ running \in Threads
    BY <1>0, YieldType DEF running, Schedules
  <2>2. kernel' \in Schedules
    BY <1>5, <2>1 DEF WaitForConsole, Schedules
  <2> QED  BY <1>5, <2>2 DEF WaitForConsole, Trap, TypeOK, Schedules, OnePrints,
                             Holders, StillTrue
<1>6. CASE ConsoleReady
  <2>1. PICK t \in kernel.waiting :
          kernel' = [SchedulerPut(kernel, t) EXCEPT !.waiting = @ \ {t}]
    BY <1>6 DEF ConsoleReady
  <2>2. t \in Threads
    BY <1>0, <2>1 DEF Schedules
  <2>3. SchedulerPut(kernel, t) \in Schedules
        /\ SchedulerPut(kernel, t).running = kernel.running
    BY <1>0, <2>2, PutType
  <2>4. kernel' \in Schedules /\ kernel'.running = kernel.running
    BY <2>1, <2>3 DEF Schedules
  <2>5. TypeOK'
    BY <1>6, <2>4 DEF ConsoleReady, TypeOK, Schedules
  <2>6. Holders' = Holders
    BY <1>6 DEF ConsoleReady, Holders
  <2>7. OnePrints'
    BY <1>6, <2>6 DEF ConsoleReady, OnePrints
  <2>8. StillTrue'
    BY <1>6, <2>4 DEF ConsoleReady, StillTrue, running
  <2> QED  BY <2>5, <2>7, <2>8
<1>7. CASE Tick
  <2>1. kernel' \in Schedules
    BY <1>0, <1>7, YieldType DEF Tick
  <2> QED  BY <1>7, <2>1 DEF Tick, Trap, TypeOK, Schedules, OnePrints,
                             Holders, StillTrue
<1>8. CASE PrintInt
  <2>1. line' \in [Threads -> Lines \cup {Null}]
    BY <1>8 DEF PrintInt, TypeOK
  <2> QED  BY <1>8, <2>1 DEF PrintInt, TypeOK, OnePrints, Holders, StillTrue,
                             running
<1>9. CASE PutDigit
  BY <1>9 DEF PutDigit, TypeOK, OnePrints, Holders, StillTrue, running
<1>10. CASE UNCHANGED vars
  BY <1>10 DEF vars, TypeOK, OnePrints, Holders, StillTrue, running
<1> QED  BY <1>1, <1>2, <1>3, <1>4, <1>5, <1>6, <1>7, <1>8, <1>9, <1>10 DEF Next, Instruction

\* The variables of the lock keep their types.
THEOREM LockTypeCorrect == Spec => []TypeOK
<1>1. IInv => TypeOK
  BY DEF IInv
<1> QED  BY InitInv, StepInv, <1>1, PTL DEF Spec

\* Any number of threads, preempted anywhere in m_copy_and_swap: at most one
\* prints, and the word is 1 exactly when one does.
THEOREM LockExcludes == Spec => []OnePrints
<1>1. IInv => OnePrints
  BY DEF IInv
<1> QED  BY InitInv, StepInv, <1>1, PTL DEF Spec
-----------------------------------------------------------------------------
(***************************************************************************)
(* The division by multiplication of mConvertInt.                          *)
(***************************************************************************)
\* The product is as far above the tenth as the factor is above a tenth of
\* the word: by less than a half.
LEMMA ProductBounds ==
  ASSUME NEW x \in 0 .. Word - 1, NEW d \in Nat, NEW m \in 0 .. 9,
         x = 10 * d + m
  PROVE  /\ Word * d <= FACTOR_32 * x
         /\ FACTOR_32 * x < Word * (d + 2)
<1> DEFINE F == FACTOR_32
<1>1. F \in Nat \ {0} /\ Word = 10 * F - 4 /\ Word \in Nat
  BY FactorAssumption DEF Word
<1>2. x \in Nat /\ F * x \in Nat /\ F * d \in Nat /\ F * m \in Nat
  BY <1>1
<1>3. F * x = 10 * (F * d) + F * m
  <2>1. F * (10 * d + m) = F * (10 * d) + F * m
    BY <1>1
  <2>2. F * (10 * d) = 10 * (F * d)
    BY <1>1
  <2> QED  BY <2>1, <2>2
<1>4. Word * d = 10 * (F * d) - 4 * d
  <2>1. (10 * F - 4) * d = (10 * F) * d - 4 * d
    BY <1>1
  <2>2. (10 * F) * d = 10 * (F * d)
    BY <1>1
  <2> QED  BY <1>1, <2>1, <2>2
<1>5. Word * (d + 2) = Word * d + 2 * Word
  BY <1>1
<1>6. F * m <= 9 * F
  BY <1>1
<1>7. 10 * d <= Word - 1
  BY <1>1
<1> HIDE DEF F
<1>8. Word * d <= F * x
  BY <1>1, <1>2, <1>3, <1>4
<1>9. F * x < Word * d + 2 * Word
  BY <1>1, <1>2, <1>3, <1>4, <1>6, <1>7
<1> QED  BY <1>5, <1>8, <1>9 DEF F

\* For every number of every width whose factor has the form of FACTOR_32,
\* the upper half of the product is the tenth or one more, the loop corrects
\* it, and what mConvertInt puts into buf is the last digit.
THEOREM TenthIsTenth ==
  ASSUME NEW x \in 0 .. Word - 1
  PROVE  tenth(x) = [q |-> x \div 10, r |-> x % 10]
<1> DEFINE d == x \div 10
           m == x % 10
           p == FACTOR_32 * x
           q == p \div Word
<1>1. /\ d \in Nat /\ m \in 0 .. 9 /\ x = 10 * d + m
      /\ Word \in Nat \ {0} /\ p \in Nat
  BY FactorAssumption DEF Word
<1>2. Word * d <= p /\ p < Word * (d + 2)
  BY <1>1, ProductBounds
<1>3. q \in {d, d + 1}
  <2>1. q \in Nat /\ Word * q <= p /\ p < Word * (q + 1)
    BY <1>1
  <2>2. d < q + 1
    BY <1>1, <1>2, <2>1
  <2>3. q < d + 2
    BY <1>1, <1>2, <2>1
  <2> QED  BY <1>1, <2>1, <2>2, <2>3
<1> HIDE DEF d, m, q
<1>4. CASE q = d
  <2>1. x - 10 * q = m
    BY <1>1, <1>4
  <2> QED  BY <1>1, <1>4, <2>1 DEF tenth, d, m, q
<1>5. CASE q = d + 1
  <2>1. x - 10 * q = m - 10
    BY <1>1, <1>5
  <2>2. (9 - (m - 10)) \div 10 = 1
    BY <1>1
  <2> QED  BY <1>1, <1>5, <2>1, <2>2 DEF tenth, d, m, q
<1> QED  BY <1>3, <1>4, <1>5

-----------------------------------------------------------------------------
(***************************************************************************)
(* The digits of a number.  The loops are recursive functions; what they   *)
(* compute for every number follows by looking at the least number for     *)
(* which it would be wrong.                                                *)
(***************************************************************************)
LEMMA LeastNat ==
  ASSUME NEW T, T \subseteq Nat, T # {}
  PROVE  \E x \in T : \A y \in T : x <= y
<1> DEFINE R == {ss \in Nat \X Nat : ss[1] < ss[2]}
<1>1. IsWellFoundedOn(R, Nat)
  BY NatLessThanWellFounded DEF OpToRel
<1>2. PICK x \in T : \A y \in T : ~(<<y, x>> \in R)
  BY <1>1, WFMin
<1>3. ASSUME NEW y \in T PROVE x <= y
  <2>1. <<y, x>> \notin R /\ x \in Nat /\ y \in Nat
    BY <1>2
  <2> QED  BY <2>1
<1> QED  BY <1>3

\* What a loop does that puts r[x] and goes on with q[x], until that is 0.
Unwinds(f, q, r, N) ==
  f = [x \in 0 .. N - 1 |-> <<r[x]>> \o (IF q[x] = 0 THEN <<>> ELSE f[q[x]])]

\* If it goes on with smaller numbers only it does something.
LEMMA LoopEnds ==
  ASSUME NEW N \in Nat, NEW q, NEW r,
         \A x \in 0 .. N - 1 : q[x] = 0 \/ q[x] \in 0 .. x - 1
  PROVE  \E f : Unwinds(f, q, r, N)
<1> DEFINE T == {n \in 0 .. N : ~ \E f : Unwinds(f, q, r, n)}
<1>1. SUFFICES ASSUME T # {} PROVE FALSE
  <2>1. N \notin T => \E f : Unwinds(f, q, r, N)
    OBVIOUS
  <2> QED  BY <2>1
<1>2. PICK n \in T : \A y \in T : n <= y
  <2>1. T \subseteq Nat
    OBVIOUS
  <2> HIDE DEF T
  <2> QED  BY <1>1, <2>1, LeastNat
<1>3. n \in 0 .. N /\ ~ \E f : Unwinds(f, q, r, n)
  OBVIOUS
<1>4. CASE n = 0
  <2> DEFINE e == [x \in 0 .. n - 1 |-> <<>>]
  <2>1. Unwinds(e, q, r, n)
    <3>1. 0 .. n - 1 = {}
      BY <1>4
    <3> QED  BY <3>1 DEF Unwinds
  <2> QED  BY <1>3, <2>1
<1>5. CASE n # 0
  <2> DEFINE m == n - 1
  <2>1. m \in 0 .. N /\ m \notin T /\ n = m + 1
    BY <1>2, <1>3, <1>5
  <2>2. PICK g : Unwinds(g, q, r, m)
    BY <2>1
  <2> HIDE DEF m
  <2> DEFINE S == 0 .. n - 1
             last == <<r[m]>> \o (IF q[m] = 0 THEN <<>> ELSE g[q[m]])
             f == [x \in S |-> IF x = m THEN last ELSE g[x]]
  <2>3. ASSUME NEW x \in S
        PROVE  f[x] = <<r[x]>> \o (IF q[x] = 0 THEN <<>> ELSE f[q[x]])
    <3>1. q[x] = 0 \/ q[x] \in 0 .. x - 1
      BY <1>3
    <3>2. q[x] # 0 => q[x] \in S /\ q[x] # m /\ f[q[x]] = g[q[x]]
      BY <1>3, <2>1, <3>1
    <3>3. x # m => x \in 0 .. m - 1
      BY <2>1
    <3>4. x # m => g[x] = <<r[x]>> \o (IF q[x] = 0 THEN <<>> ELSE g[q[x]])
      BY <2>2, <3>3 DEF Unwinds
    <3> QED  BY <3>2, <3>4
  <2> DEFINE h == [x \in S |-> <<r[x]>> \o (IF q[x] = 0 THEN <<>> ELSE f[q[x]])]
  <2>4. f = h
    BY <2>3
  <2>5. Unwinds(f, q, r, n)
    BY <2>4 DEF Unwinds
  <2> QED  BY <1>3, <2>5
<1> QED  BY <1>4, <1>5

\* One round, in either base that is used.
LEMMA RoundDivides ==
  ASSUME NEW x \in 0 .. Word - 1, NEW base \in {10, 16}
  PROVE  LET d == round(x, base)
         IN  /\ d.q \in 0 .. Word - 1 /\ d.r \in 0 .. base - 1
             /\ x = base * d.q + d.r
             /\ d.q = 0 \/ d.q \in 0 .. x - 1
<1> DEFINE d == round(x, base)
<1>1. d.q = x \div base /\ d.r = x % base
  BY TenthIsTenth DEF round
<1>2. Word \in Nat \ {0}
  BY FactorAssumption DEF Word
<1> HIDE DEF d
<1>3. /\ d.q \in 0 .. Word - 1 /\ d.r \in 0 .. base - 1
      /\ x = base * d.q + d.r
      /\ d.q = 0 \/ d.q \in 0 .. x - 1
  <2>1. CASE base = 10
    BY <1>1, <1>2, <2>1
  <2>2. CASE base = 16
    BY <1>1, <1>2, <2>2
  <2> QED  BY <2>1, <2>2
<1> QED  BY <1>3 DEF d

\* The loops of mConvertInt put the last digit and go on with the rest.
LEMMA DigitsUnwind ==
  ASSUME NEW base \in {10, 16}, NEW x \in 0 .. Word - 1
  PROVE  digits(base)[x] =
           <<round(x, base).r>> \o
             (IF round(x, base).q = 0 THEN <<>> ELSE digits(base)[round(x, base).q])
<1> DEFINE S == 0 .. Word - 1
           q == [y \in S |-> round(y, base).q]
           r == [y \in S |-> round(y, base).r]
           Body(f) == [y \in S |-> LET d == round(y, base)
                                   IN  <<d.r>> \o (IF d.q = 0 THEN <<>> ELSE f[d.q])]
<1>1. Word \in Nat
  BY FactorAssumption DEF Word
<1>2. \A y \in S : q[y] = 0 \/ q[y] \in 0 .. y - 1
  BY RoundDivides
<1>3. PICK f : Unwinds(f, q, r, Word)
  <2> HIDE DEF q, r
  <2> QED  BY <1>1, <1>2, LoopEnds
<1>4. f = Body(f)
  BY <1>3 DEF Unwinds
<1>5. digits(base) = CHOOSE g : g = Body(g)
  BY DEF digits
<1> HIDE DEF Body
<1>6. digits(base) = Body(digits(base))
  BY <1>4, <1>5
<1> QED  BY <1>6 DEF Body

\* s are the elements of d from the last one,
Backwards(s, d) == \A i \in 1 .. Len(d) : s[i] = d[Len(d) + 1 - i]

\* f[i] is what the first i digits of s stand for,
Reads(f, s, base, n) ==
  f[0] = 0 /\ \A i \in 1 .. n : f[i] = base * f[i - 1] + s[i]

\* and d are the digits of x, the last one first.
Digits(d, x, base) ==
  /\ d \in Seq(0 .. base - 1) /\ Len(d) >= 1
  /\ IF x = 0 THEN Len(d) = 1 ELSE d[Len(d)] # 0
  /\ \A s, f : Backwards(s, d) /\ Reads(f, s, base, Len(d)) => f[Len(d)] = x

LEMMA OneDigit ==
  ASSUME NEW base \in {10, 16}, NEW r \in 0 .. base - 1
  PROVE  Digits(<<r>>, r, base)
<1> DEFINE d == <<r>>
<1>1. d \in Seq(0 .. base - 1) /\ Len(d) = 1 /\ d[1] = r
  OBVIOUS
<1> HIDE DEF d
<1>2. ASSUME NEW s, NEW f, Backwards(s, d), Reads(f, s, base, Len(d))
      PROVE  f[Len(d)] = r
  <2>1. s[1] = r
    BY <1>1, <1>2 DEF Backwards
  <2>2. f[0] = 0 /\ f[1] = base * f[0] + s[1]
    BY <1>1, <1>2 DEF Reads
  <2> QED  BY <1>1, <2>1, <2>2
<1>3. Digits(d, r, base)
  BY <1>1, <1>2 DEF Digits
<1> QED  BY <1>3 DEF d

LEMMA OneMoreDigit ==
  ASSUME NEW base \in {10, 16}, NEW r \in 0 .. base - 1,
         NEW q \in Nat \ {0}, NEW e, Digits(e, q, base)
  PROVE  Digits(<<r>> \o e, base * q + r, base)
<1> DEFINE d == <<r>> \o e
           x == base * q + r
<1>1. e \in Seq(0 .. base - 1) /\ Len(e) \in Nat /\ Len(e) >= 1 /\ e[Len(e)] # 0
  BY DEF Digits
<1>2. d \in Seq(0 .. base - 1) /\ Len(d) = Len(e) + 1
  BY <1>1
<1>3. d[1] = r /\ \A i \in 1 .. Len(e) : d[i + 1] = e[i]
  BY <1>1
<1> HIDE DEF d
<1>4. d[Len(d)] # 0 /\ x # 0
  <2>1. d[Len(e) + 1] = e[Len(e)]
    BY <1>1, <1>3
  <2>2. x >= q
    OBVIOUS
  <2> QED  BY <1>1, <1>2, <2>1, <2>2
<1>5. ASSUME NEW s, NEW f, Backwards(s, d), Reads(f, s, base, Len(d))
      PROVE  f[Len(d)] = x
  <2>1. Backwards(s, e)
    <3> SUFFICES ASSUME NEW i \in 1 .. Len(e) PROVE s[i] = e[Len(e) + 1 - i]
      BY DEF Backwards
    <3>1. i \in 1 .. Len(d) /\ Len(e) + 1 - i \in 1 .. Len(e)
          /\ Len(d) + 1 - i = (Len(e) + 1 - i) + 1
      BY <1>1, <1>2
    <3>2. s[i] = d[Len(d) + 1 - i]
      BY <1>5, <3>1 DEF Backwards
    <3>3. d[(Len(e) + 1 - i) + 1] = e[Len(e) + 1 - i]
      BY <1>3, <3>1
    <3> QED  BY <3>1, <3>2, <3>3
  <2>2. Reads(f, s, base, Len(e))
    BY <1>1, <1>2, <1>5 DEF Reads
  <2>3. f[Len(e)] = q
    BY <2>1, <2>2 DEF Digits
  <2>4. s[Len(d)] = r
    <3>1. Len(d) \in 1 .. Len(d) /\ Len(d) + 1 - Len(d) = 1
      BY <1>1, <1>2
    <3>2. s[Len(d)] = d[Len(d) + 1 - Len(d)]
      BY <1>5, <3>1 DEF Backwards
    <3> QED  BY <1>3, <3>1, <3>2
  <2>5. f[Len(d)] = base * f[Len(e)] + s[Len(d)]
    <3>1. Len(d) \in 1 .. Len(d) /\ Len(d) - 1 = Len(e)
      BY <1>1, <1>2
    <3> QED  BY <1>5, <3>1 DEF Reads
  <2> QED  BY <2>3, <2>4, <2>5
<1>6. Digits(d, x, base)
  <2> HIDE DEF x
  <2> QED  BY <1>1, <1>2, <1>4, <1>5 DEF Digits
<1> QED  BY <1>6 DEF d

\* The loops of mConvertInt end with the digits of the number they start with.
LEMMA DigitsOfAll ==
  ASSUME NEW base \in {10, 16}, NEW x0 \in 0 .. Word - 1
  PROVE  Digits(digits(base)[x0], x0, base)
<1> DEFINE T == {x \in 0 .. Word - 1 : ~ Digits(digits(base)[x], x, base)}
<1>1. SUFFICES ASSUME T # {} PROVE FALSE
  OBVIOUS
<1>2. PICK x \in T : \A y \in T : x <= y
  <2>1. T \subseteq Nat
    OBVIOUS
  <2> HIDE DEF T
  <2> QED  BY <1>1, <2>1, LeastNat
<1>3. x \in 0 .. Word - 1 /\ ~ Digits(digits(base)[x], x, base)
  OBVIOUS
<1> DEFINE q == round(x, base).q
           r == round(x, base).r
<1>4. /\ q \in 0 .. Word - 1 /\ r \in 0 .. base - 1 /\ x = base * q + r
      /\ q = 0 \/ q \in 0 .. x - 1
  BY <1>3, RoundDivides
<1>5. digits(base)[x] = <<r>> \o (IF q = 0 THEN <<>> ELSE digits(base)[q])
  BY <1>3, DigitsUnwind
<1> HIDE DEF q, r
<1>6. CASE q = 0
  <2>1. x = r
    BY <1>4, <1>6
  <2>2. digits(base)[x] = <<r>>
    BY <1>5, <1>6
  <2> QED  BY <1>3, <1>4, <2>1, <2>2, OneDigit
<1>7. CASE q # 0
  <2>1. q \in Nat \ {0} /\ q < x
    BY <1>3, <1>4, <1>7
  <2>2. q \notin T
    BY <1>2, <1>3, <2>1
  <2>3. Digits(digits(base)[q], q, base)
    BY <1>4, <2>2
  <2>4. Digits(<<r>> \o digits(base)[q], base * q + r, base)
    BY <1>4, <2>1, <2>3, OneMoreDigit
  <2> QED  BY <1>3, <1>4, <1>5, <1>7, <2>4
<1> QED  BY <1>6, <1>7

-----------------------------------------------------------------------------
\* Value is what reading the whole text gives.
ReadUpTo(f, s, base, n) ==
  f = [i \in 0 .. n |-> IF i = 0 THEN 0 ELSE base * f[i - 1] + s[i]]

LEMMA ReadingEnds ==
  ASSUME NEW s, NEW base, NEW n \in Nat
  PROVE  \E f : ReadUpTo(f, s, base, n)
<1> DEFINE T == {m \in Nat : ~ \E f : ReadUpTo(f, s, base, m)}
<1>1. SUFFICES ASSUME T # {} PROVE FALSE
  <2>1. n \notin T => \E f : ReadUpTo(f, s, base, n)
    OBVIOUS
  <2> QED  BY <2>1
<1>2. PICK m \in T : \A y \in T : m <= y
  <2>1. T \subseteq Nat
    OBVIOUS
  <2> HIDE DEF T
  <2> QED  BY <1>1, <2>1, LeastNat
<1>3. m \in Nat /\ ~ \E f : ReadUpTo(f, s, base, m)
  OBVIOUS
<1>4. CASE m = 0
  <2> DEFINE f == [i \in 0 .. m |-> 0]
  <2>1. \A i \in 0 .. m : i = 0
    BY <1>4
  <2>2. ReadUpTo(f, s, base, m)
    BY <2>1 DEF ReadUpTo
  <2> QED  BY <1>3, <2>2
<1>5. CASE m # 0
  <2> DEFINE k == m - 1
  <2>1. k \in Nat /\ k \notin T /\ m = k + 1
    BY <1>2, <1>3, <1>5
  <2>2. PICK g : ReadUpTo(g, s, base, k)
    BY <2>1
  <2> HIDE DEF k
  <2> DEFINE f == [i \in 0 .. m |-> IF i = m THEN base * g[k] + s[m] ELSE g[i]]
  <2>3. ASSUME NEW i \in 0 .. m
        PROVE  f[i] = IF i = 0 THEN 0 ELSE base * f[i - 1] + s[i]
    <3>1. CASE i = m
      <4>1. i # 0 /\ i - 1 = k /\ k \in 0 .. m /\ k # m
        BY <1>5, <2>1, <3>1
      <4>2. f[k] = g[k]
        BY <4>1
      <4> QED  BY <3>1, <4>1, <4>2
    <3>2. CASE i # m
      <4>1. i \in 0 .. k
        BY <2>1, <3>2
      <4>2. g[i] = IF i = 0 THEN 0 ELSE base * g[i - 1] + s[i]
        BY <2>2, <4>1 DEF ReadUpTo
      <4>3. i # 0 => i - 1 \in 0 .. m /\ i - 1 # m
        BY <1>3, <3>2
      <4> QED  BY <3>2, <4>2, <4>3
    <3> QED  BY <3>1, <3>2
  <2>4. ReadUpTo(f, s, base, m)
    BY <2>3 DEF ReadUpTo
  <2> QED  BY <1>3, <2>4
<1> QED  BY <1>4, <1>5

LEMMA ValueReads ==
  ASSUME NEW body, NEW base, Len(body) \in Nat
  PROVE  \E f : /\ Reads(f, body, base, Len(body))
                /\ Value(body, base) = f[Len(body)]
<1> DEFINE n == Len(body)
           Body(f) == [i \in 0 .. n |->
                         IF i = 0 THEN 0 ELSE base * f[i - 1] + body[i]]
           f0 == CHOOSE f : f = Body(f)
<1>1. Value(body, base) = f0[n]
  BY DEF Value
<1>2. \E f : f = Body(f)
  <2>1. n \in Nat
    OBVIOUS
  <2> HIDE DEF n
  <2>2. PICK f : ReadUpTo(f, body, base, n)
    BY <2>1, ReadingEnds
  <2>3. f = Body(f)
    BY <2>2 DEF ReadUpTo
  <2> QED  BY <2>3
<1> HIDE DEF Body
<1>3. f0 = Body(f0)
  BY <1>2
<1> HIDE DEF f0
<1>4. Reads(f0, body, base, n)
  <2>1. \A i \in 0 .. n : f0[i] = IF i = 0 THEN 0 ELSE base * f0[i - 1] + body[i]
    BY <1>3 DEF Body
  <2>2. 0 \in 0 .. n
    OBVIOUS
  <2>3. ASSUME NEW i \in 1 .. n PROVE i \in 0 .. n /\ i # 0
    BY <2>3
  <2> QED  BY <2>1, <2>2, <2>3 DEF Reads
<1> QED  BY <1>1, <1>4

\* A text that has the digits of x from the first one stands for x.
LEMMA DigitsStand ==
  ASSUME NEW d, NEW x, NEW base, Digits(d, x, base),
         NEW body, Len(body) = Len(d), Backwards(body, d)
  PROVE  Value(body, base) = x
<1>1. Len(d) \in Nat
  BY DEF Digits
<1>2. PICK f : /\ Reads(f, body, base, Len(body))
               /\ Value(body, base) = f[Len(body)]
  BY <1>1, ValueReads
<1> QED  BY <1>2 DEF Digits

\* The number a line is about: an int of the width of a word.
LEMMA LineTypes ==
  ASSUME NEW l \in Lines
  PROVE  /\ l.base \in {10, 16} /\ l.sgn \in BOOLEAN
         /\ l.xx \in Int /\ 2 * l.xx >= -Word /\ 2 * l.xx < Word
         /\ uint(l.xx) \in 0 .. Word - 1
         /\ l.xx < 0 => uint(-l.xx) = -l.xx /\ -l.xx \in 0 .. Word - 1
<1>1. Word \in Nat \ {0}
  BY FactorAssumption DEF Word
<1>2. PICK w \in Patterns : l.xx = int(w)
  BY DEF Lines
<1>3. l.base \in {10, 16} /\ l.sgn \in BOOLEAN
  BY DEF Lines
<1>4. w \in 0 .. Word - 1
  BY PatternsAssumption
<1> HIDE DEF Word
<1>5. l.xx \in Int /\ 2 * l.xx >= -Word /\ 2 * l.xx < Word
  BY <1>1, <1>2, <1>4 DEF int
<1>6. uint(l.xx) \in 0 .. Word - 1
  BY <1>1, <1>5 DEF uint
<1>7. l.xx < 0 => uint(-l.xx) = -l.xx /\ -l.xx \in 0 .. Word - 1
  BY <1>1, <1>5 DEF uint
<1> QED  BY <1>3, <1>5, <1>6, <1>7

\* What is put from the last character of buf to the first.
Reversed(d) == [i \in 1 .. Len(d) |-> d[Len(d) + 1 - i]]

\* mConvertInt: the text it leaves in buf is the way to write the number.
THEOREM ConvertsToTheNumber ==
  ASSUME NEW l \in Lines
  PROVE  LET d == mConvertInt(l.xx, l.base, l.sgn)
         IN  d \in Seq(0 .. Minus) /\ Writes(Reversed(d), l)
<1> DEFINE base == l.base
           neg == l.sgn /\ l.xx < 0
           x == IF neg THEN uint(-l.xx) ELSE uint(l.xx)
           e == digits(base)[x]
           d == e \o (IF neg THEN <<Minus>> ELSE <<>>)
           put == Reversed(d)
           body == IF neg THEN Tail(put) ELSE put
<1>1. mConvertInt(l.xx, l.base, l.sgn) = d
  <2>1. base \in 2 .. 16
    BY LineTypes
  <2> QED  BY <2>1 DEF mConvertInt
<1>2. /\ base \in {10, 16} /\ x \in 0 .. Word - 1
      /\ x = IF neg THEN -l.xx ELSE uint(l.xx)
  BY LineTypes
<1>3. Digits(e, x, base)
  BY <1>2, DigitsOfAll
<1>4. e \in Seq(0 .. base - 1) /\ Len(e) \in Nat /\ Len(e) >= 1
  BY <1>3 DEF Digits
<1>5. e \in Seq(0 .. Minus)
  <2>1. 0 .. base - 1 \subseteq 0 .. Minus
    BY <1>2 DEF Minus
  <2> HIDE DEF e, base
  <2> QED  BY <1>4, <2>1, SeqMonotonic
<1> HIDE DEF e, x, base
<1>6. /\ d \in Seq(0 .. Minus)
      /\ Len(d) = Len(e) + (IF neg THEN 1 ELSE 0)
      /\ \A i \in 1 .. Len(e) : d[i] = e[i]
      /\ neg => d[Len(d)] = Minus
  <2>1. CASE neg
    <3>1. d = Append(e, Minus)
      BY <1>5, <2>1
    <3>2. Minus \in 0 .. Minus
      BY DEF Minus
    <3> HIDE DEF d
    <3> QED  BY <1>4, <1>5, <2>1, <3>1, <3>2
  <2>2. CASE ~neg
    <3>1. d = e
      BY <1>5, <2>2
    <3> HIDE DEF d
    <3> QED  BY <1>4, <1>5, <2>2, <3>1
  <2> QED  BY <2>1, <2>2
<1> HIDE DEF d
<1>7. /\ put \in Seq(0 .. Minus) /\ Len(put) = Len(d)
      /\ \A i \in 1 .. Len(d) : put[i] = d[Len(d) + 1 - i]
  <2>1. Len(d) \in Nat /\ \A i \in 1 .. Len(d) : Len(d) + 1 - i \in 1 .. Len(d)
    BY <1>6
  <2>2. \A i \in 1 .. Len(d) : d[Len(d) + 1 - i] \in 0 .. Minus
    <3>1. d \in Seq(0 .. Minus)
      BY <1>6
    <3> QED  BY <2>1, <3>1, ElementOfSeq
  <2> QED  BY <2>1, <2>2 DEF Reversed
<1> HIDE DEF put
<1>8. neg => put[1] = Minus
  BY <1>4, <1>6, <1>7
<1>9. Len(body) = Len(e) /\ Backwards(body, e)
  <2>1. CASE neg
    <3>1. /\ body = Tail(put) /\ Len(put) = Len(e) + 1
          /\ Len(d) = Len(e) + 1
      BY <1>6, <1>7, <2>1
    <3>2. Len(body) = Len(e) /\ \A i \in 1 .. Len(e) : body[i] = put[i + 1]
      BY <1>4, <1>7, <3>1
    <3>3. ASSUME NEW i \in 1 .. Len(e) PROVE body[i] = e[Len(e) + 1 - i]
      <4>1. i + 1 \in 1 .. Len(d) /\ Len(e) + 1 - i \in 1 .. Len(e)
            /\ Len(d) + 1 - (i + 1) = Len(e) + 1 - i
        BY <1>4, <3>1
      <4>2. put[i + 1] = d[Len(d) + 1 - (i + 1)]
        BY <1>7, <4>1
      <4> QED  BY <1>6, <3>2, <4>1, <4>2
    <3> QED  BY <3>2, <3>3 DEF Backwards
  <2>2. CASE ~neg
    <3>1. body = put /\ Len(d) = Len(e)
      BY <1>4, <1>6, <2>2
    <3>2. \A i \in 1 .. Len(e) : Len(e) + 1 - i \in 1 .. Len(e)
      BY <1>4
    <3> QED  BY <1>6, <1>7, <3>1, <3>2 DEF Backwards
  <2> QED  BY <2>1, <2>2
<1>10. body \in Seq(0 .. Minus)
  <2>1. put # <<>>
    BY <1>4, <1>6, <1>7
  <2> QED  BY <1>7, <2>1, HeadTailProperties
<1> HIDE DEF body
<1>11. \A i \in 1 .. Len(e) : Len(e) + 1 - i \in 1 .. Len(e)
  BY <1>4
<1>12. \A i \in DOMAIN body : body[i] \in 0 .. base - 1
  <2>1. DOMAIN body = 1 .. Len(e)
    BY <1>9, <1>10
  <2>2. \A i \in 1 .. Len(e) : e[i] \in 0 .. base - 1
    BY <1>4, ElementOfSeq
  <2> QED  BY <1>9, <1>11, <2>1, <2>2 DEF Backwards
<1>13. Len(body) > 1 => body[1] # 0
  <2>1. Len(e) > 1 => e[Len(e)] # 0
    BY <1>3, <1>4 DEF Digits
  <2>2. 1 \in 1 .. Len(e) /\ body[1] = e[Len(e) + 1 - 1] /\ Len(e) + 1 - 1 = Len(e)
    BY <1>4, <1>9 DEF Backwards
  <2> QED  BY <1>9, <2>1, <2>2
<1>14. Value(body, base) = IF neg THEN -l.xx ELSE uint(l.xx)
  BY <1>2, <1>3, <1>9, DigitsStand
<1>15. Writes(put, l)
  BY <1>8, <1>12, <1>13, <1>14 DEF Writes, body, base
<1> QED  BY <1>1, <1>6, <1>15 DEF put

-----------------------------------------------------------------------------
(***************************************************************************)
(* The number under the lock.                                              *)
(***************************************************************************)
Texts == Seq(0 .. Minus)

\* q is left of the text of l, and s is what has been put of it.
Half(l, q, s) ==
  LET d == mConvertInt(l.xx, l.base, l.sgn)
  IN  /\ d \in Texts /\ Len(q) + Len(s) = Len(d)
      /\ \A i \in 1 .. Len(q) : q[i] = d[i]
      /\ \A i \in 1 .. Len(s) : s[i] = d[Len(d) + 1 - i]

\* Each thread prints nothing, or it holds the lock and what is on the screen
\* is of its number.
OwnNumber(t) ==
  \/ line[t] = Null /\ left[t] = <<>>
  \/ /\ t \in Printers /\ pc[t] = "in" /\ line[t] \in Lines
     /\ Half(line[t], left[t], screen)

OwnNumbers ==
  /\ left \in [Threads -> Texts] /\ screen \in Texts
  /\ \A t \in Threads : OwnNumber(t)

\* A number that is begun is all left, and nothing of it is put,
LEMMA HalfBegins ==
  ASSUME NEW l \in Lines
  PROVE  LET d == mConvertInt(l.xx, l.base, l.sgn)
         IN  d \in Texts /\ Half(l, d, <<>>)
<1> DEFINE d == mConvertInt(l.xx, l.base, l.sgn)
<1>1. d \in Texts /\ Len(d) \in Nat
  BY ConvertsToTheNumber DEF Texts
<1>2. Len(<<>>) = 0 /\ 1 .. 0 = {}
  OBVIOUS
<1> HIDE DEF d
<1>3. Len(d) + Len(<<>>) = Len(d) /\ \A i \in 1 .. Len(<<>>) : FALSE
  BY <1>1, <1>2
<1> QED  BY <1>1, <1>3 DEF Half, d

\* each digit goes from what is left to what is put,
LEMMA HalfGoesOn ==
  ASSUME NEW l, NEW q \in Texts, NEW s \in Texts, q # <<>>, Half(l, q, s)
  PROVE  /\ SubSeq(q, 1, Len(q) - 1) \in Texts /\ Append(s, q[Len(q)]) \in Texts
         /\ Half(l, SubSeq(q, 1, Len(q) - 1), Append(s, q[Len(q)]))
<1> DEFINE d == mConvertInt(l.xx, l.base, l.sgn)
           n == Len(q)
           p == SubSeq(q, 1, n - 1)
           r == Append(s, q[n])
<1>1. /\ d \in Texts /\ n + Len(s) = Len(d)
      /\ \A i \in 1 .. n : q[i] = d[i]
      /\ \A i \in 1 .. Len(s) : s[i] = d[Len(d) + 1 - i]
  BY DEF Half
<1>2. n \in Nat /\ n >= 1 /\ n \in 1 .. n /\ Len(s) \in Nat /\ Len(d) \in Nat
  BY <1>1, EmptySeq DEF Texts
<1>3. q[n] \in 0 .. Minus /\ \A i \in 1 .. n - 1 : q[i] \in 0 .. Minus
  <2>1. q \in Seq(0 .. Minus)
    BY DEF Texts
  <2>2. \A i \in 1 .. n : q[i] \in 0 .. Minus
    BY <2>1, ElementOfSeq
  <2>3. \A i \in 1 .. n - 1 : i \in 1 .. n
    BY <1>2
  <2> QED  BY <1>2, <2>2, <2>3
<1>4. p \in Texts /\ Len(p) = n - 1 /\ \A i \in 1 .. n - 1 : p[i] = q[i]
  <2>1. n - 1 \in Int /\ 1 \in Int
    BY <1>2
  <2>2. /\ p \in Seq(0 .. Minus)
        /\ Len(p) = IF 1 <= n - 1 THEN (n - 1) - 1 + 1 ELSE 0
        /\ \A i \in 1 .. (n - 1) - 1 + 1 : p[i] = q[1 + i - 1]
    <3> HIDE DEF n
    <3> QED  BY <1>3, <2>1, SubSeqProperties
  <2> HIDE DEF p, n
  <2>3. Len(p) = n - 1 /\ \A i \in 1 .. n - 1 : i \in 1 .. (n - 1) - 1 + 1 /\ 1 + i - 1 = i
    BY <1>2, <2>2
  <2>4. \A i \in 1 .. n - 1 : p[i] = q[i]
    BY <2>2, <2>3
  <2> QED  BY <2>2, <2>3, <2>4 DEF Texts
<1>5. /\ r \in Texts /\ Len(r) = Len(s) + 1 /\ r[Len(s) + 1] = q[n]
      /\ \A i \in 1 .. Len(s) : r[i] = s[i]
  BY <1>3 DEF Texts
<1> HIDE DEF d, p, r
<1>6. Len(p) + Len(r) = Len(d)
  <2> HIDE DEF n
  <2>1. Len(p) = n - 1 /\ Len(r) = Len(s) + 1 /\ n + Len(s) = Len(d)
    BY <1>1, <1>4, <1>5
  <2>2. n \in Nat /\ Len(s) \in Nat
    BY <1>2
  <2> QED  BY <2>1, <2>2
<1>7. \A i \in 1 .. Len(p) : p[i] = d[i]
  BY <1>1, <1>2, <1>4
<1>8. ASSUME NEW i \in 1 .. Len(r) PROVE r[i] = d[Len(d) + 1 - i]
  <2>1. CASE i = Len(s) + 1
    <3>1. Len(d) + 1 - i = n
      BY <1>1, <1>2, <2>1
    <3> QED  BY <1>1, <1>2, <1>5, <2>1, <3>1
  <2>2. CASE i # Len(s) + 1
    <3>1. i \in 1 .. Len(s)
      BY <1>2, <1>5, <2>2
    <3> QED  BY <1>1, <1>5, <3>1
  <2> QED  BY <2>1, <2>2
<1>9. Half(l, p, r)
  BY <1>1, <1>6, <1>7, <1>8 DEF Half, d
<1> QED  BY <1>4, <1>5, <1>9 DEF p, r

\* and when nothing is left it is all there.
LEMMA HalfEnds ==
  ASSUME NEW l \in Lines, NEW s \in Texts, Half(l, <<>>, s)
  PROVE  Writes(s, l)
<1> DEFINE d == mConvertInt(l.xx, l.base, l.sgn)
<1>1. Len(s) = Len(d) /\ \A i \in 1 .. Len(s) : s[i] = d[Len(d) + 1 - i]
  <2>1. Len(<<>>) + Len(s) = Len(d)
        /\ \A i \in 1 .. Len(s) : s[i] = d[Len(d) + 1 - i]
    BY DEF Half
  <2>2. Len(<<>>) = 0 /\ Len(s) \in Nat
    BY DEF Texts
  <2> QED  BY <2>1, <2>2
<1> HIDE DEF d
<1>2. s = [i \in 1 .. Len(s) |-> s[i]]
  BY LenProperties DEF Texts
<1>3. s = Reversed(d)
  BY <1>1, <1>2 DEF Reversed
<1> QED  BY <1>3, ConvertsToTheNumber DEF d

\* Nobody prints at the start.
LEMMA InitNumbers == Init => OwnNumbers
<1> SUFFICES ASSUME Init PROVE OwnNumbers
  OBVIOUS
<1>1. <<>> \in Texts
  BY EmptySeq DEF Texts
<1> QED  BY <1>1 DEF Init, OwnNumbers, OwnNumber

\* A step that leaves the texts alone and the place of whoever prints.
LEMMA NumbersStay ==
  ASSUME OwnNumbers, UNCHANGED text,
         \A t \in Threads : t \in Printers /\ pc[t] = "in" => pc'[t] = "in"
  PROVE  OwnNumbers'
BY DEF OwnNumbers, OwnNumber, text, Printers, UserThreads

\* Only who holds the lock has a number begun.
LEMMA StepNumbers == IInv /\ OwnNumbers /\ [Next]_vars => OwnNumbers'
<1> SUFFICES ASSUME IInv, OwnNumbers, [Next]_vars PROVE OwnNumbers'
  OBVIOUS
<1>r. PICK r \in Threads : r = running
  BY DEF IInv, TypeOK, running
<1>0. /\ TypeOK /\ OnePrints /\ Printers \subseteq Threads
      /\ left \in [Threads -> Texts] /\ line \in [Threads -> Lines \cup {Null}]
      /\ screen \in Texts /\ pc \in [Threads -> {"out", "lr", "sc", "fail", "in"}]
  BY DEF IInv, TypeOK, Printers, UserThreads, OwnNumbers
<1>1. ASSUME At("in"), NEW t \in Threads \ {r}
      PROVE  line[t] = Null /\ left[t] = <<>>
  <2>1. r \in Holders
    BY <1>r, <1>1 DEF At, Holders
  <2>2. t \notin Holders
    BY <1>0, <1>1, <2>1 DEF OnePrints
  <2>3. ~(t \in Printers /\ pc[t] = "in")
    BY <2>2 DEF Holders
  <2> QED  BY <2>3 DEF OwnNumbers, OwnNumber
<1>2. CASE LoadReserved \/ StoreConditional \/ TryAgain \/ MLock
  <2>1. UNCHANGED text
    BY <1>2 DEF LoadReserved, StoreConditional, TryAgain, MLock
  <2>2. pc[r] # "in" /\ \E place : pc' = [pc EXCEPT ![r] = place]
    BY <1>r, <1>2 DEF LoadReserved, StoreConditional, TryAgain, MLock, At, Goto
  <2>3. \A t \in Threads : t # r => pc'[t] = pc[t]
    BY <1>0, <2>2
  <2> QED  BY <2>1, <2>2, <2>3, NumbersStay
<1>3. CASE WaitForConsole \/ ConsoleReady \/ Tick \/ UNCHANGED vars
  <2>1. UNCHANGED text /\ pc' = pc
    BY <1>3 DEF WaitForConsole, ConsoleReady, Tick, vars, text
  <2> QED  BY <2>1, NumbersStay
<1>4. CASE MUnlock
  <2>1. /\ At("in") /\ left[r] = <<>> /\ left' = left /\ screen' = screen
        /\ line' = [line EXCEPT ![r] = Null]
    BY <1>r, <1>4 DEF MUnlock
  <2>2. ASSUME NEW t \in Threads PROVE line'[t] = Null /\ left'[t] = <<>>
    BY <1>0, <1>1, <2>1
  <2> QED  BY <1>0, <2>1, <2>2 DEF OwnNumbers, OwnNumber
<1>5. CASE PrintInt
  <2>1. PICK l \in Lines :
          /\ line' = [line EXCEPT ![r] = l]
          /\ left' = [left EXCEPT ![r] = mConvertInt(l.xx, l.base, l.sgn)]
    BY <1>r, <1>5 DEF PrintInt
  <2>2. At("in") /\ screen' = <<>> /\ pc' = pc /\ r \in Printers /\ pc[r] = "in"
    BY <1>r, <1>5 DEF PrintInt, At
  <2>3. PICK d : /\ d = mConvertInt(l.xx, l.base, l.sgn)
                 /\ d \in Texts /\ Half(l, d, <<>>)
    BY HalfBegins
  <2>4. left' \in [Threads -> Texts] /\ screen' \in Texts
    BY <1>0, <2>1, <2>2, <2>3, EmptySeq DEF Texts
  <2>5. line'[r] = l /\ left'[r] = d
    BY <1>0, <2>1, <2>3
  <2>6. \A t \in Threads \ {r} : line'[t] = Null /\ left'[t] = <<>>
    BY <1>0, <1>1, <2>1, <2>2
  <2>7. OwnNumber(r)'
    BY <2>2, <2>3, <2>5 DEF OwnNumber
  <2> QED  BY <2>4, <2>6, <2>7 DEF OwnNumbers, OwnNumber
<1>6. CASE PutDigit
  <2>1. /\ At("in") /\ pc' = pc /\ line' = line /\ r \in Printers /\ pc[r] = "in"
        /\ left[r] # <<>>
        /\ screen' = Append(screen, left[r][Len(left[r])])
        /\ left' = [left EXCEPT ![r] = SubSeq(@, 1, Len(left[r]) - 1)]
    BY <1>r, <1>6 DEF PutDigit, At
  <2>2. line[r] \in Lines /\ Half(line[r], left[r], screen) /\ left[r] \in Texts
    BY <1>0, <2>1 DEF OwnNumbers, OwnNumber
  <2>3. PICK p \in Texts, s \in Texts :
          /\ p = SubSeq(left[r], 1, Len(left[r]) - 1)
          /\ s = Append(screen, left[r][Len(left[r])])
          /\ Half(line[r], p, s)
    BY <1>0, <2>1, <2>2, HalfGoesOn
  <2>4. left' = [left EXCEPT ![r] = p] /\ screen' = s
    BY <2>1, <2>3
  <2>5. left' \in [Threads -> Texts] /\ left'[r] = p
    BY <1>0, <2>4
  <2>6. \A t \in Threads \ {r} : line'[t] = Null /\ left'[t] = <<>>
    BY <1>0, <1>1, <2>1, <2>4
  <2>7. \A t \in Threads : OwnNumber(t)'
    <3>1. OwnNumber(r)'
      BY <2>1, <2>2, <2>3, <2>4, <2>5 DEF OwnNumber
    <3> QED  BY <2>6, <3>1 DEF OwnNumber
  <2> QED  BY <2>4, <2>5, <2>7 DEF OwnNumbers
<1> QED  BY <1>2, <1>3, <1>4, <1>5, <1>6 DEF Next, Instruction

\* The number comes out whole, for any number of printers, any width and all
\* the numbers of that width, in the bases of Lines.
THEOREM NumbersAlwaysWhole == Spec => []NumbersComeOutWhole
<1>1. Init => IInv /\ OwnNumbers
  BY InitInv, InitNumbers
<1>2. IInv /\ OwnNumbers /\ [Next]_vars => (IInv /\ OwnNumbers)'
  BY StepInv, StepNumbers
<1>3. IInv /\ OwnNumbers => NumbersComeOutWhole
  <2> SUFFICES ASSUME OwnNumbers, NEW t \in Holders,
                      line[t] # Null, left[t] = <<>>
               PROVE  Writes(screen, line[t])
    BY DEF NumbersComeOutWhole
  <2>1. t \in Threads
    BY DEF Holders, Printers, UserThreads
  <2>2. line[t] \in Lines /\ Half(line[t], <<>>, screen) /\ screen \in Texts
    BY <2>1 DEF OwnNumbers, OwnNumber
  <2> QED  BY <2>2, HalfEnds
<1> QED  BY <1>1, <1>2, <1>3, PTL DEF Spec
=============================================================================
