----------------------------- MODULE PrintLock -----------------------------
(***************************************************************************)
(* The lock of the printing library: m_copy_and_swap of src/util/mLock.S,  *)
(* instruction by instruction, under MLOCK and MUNLOCK of                  *)
(* src/util/mPrint.hpp, with preemption between any two instructions.  The *)
(* retry of a failed sc.w goes to the label copy_and_swap of               *)
(* src/test/lock.S, the same code.  Under the lock mPrintInt_nonatom of     *)
(* src/util/mPrint.cpp puts the digits of a number one by one.             *)
(*                                                                         *)
(* The kernel executes no sc when it switches context.  The model takes    *)
(* the processor to drop its reservation at every trap, as the emulator    *)
(* the kernel is built for does; the exclusion depends on it.              *)
(***************************************************************************)
EXTENDS Scheduler, Numbers

VARIABLES kernel,    \* the scheduler's part of the record of KernelState
          mLockPrint,
          reserved,  \* external: the processor holds a reservation of it
          op,        \* op[t]: "lock" or "unlock", the call t is in or made last
          pc,        \* pc[t]: where t is
          line,      \* line[t]: the number t prints, or has printed
          left,      \* left[t]: what is left in buf of mPrintInt_nonatom
          screen     \* what was put since a number was last begun

lock == <<mLockPrint, reserved, op>>
text == <<line, left, screen>>
vars == <<kernel, lock, pc, text>>

Printers == UserThreads
running  == kernel.running

\* Mutant of Expected: MUNLOCK compares with 0.
ExpectedZero(call) == 0
Expected(call) == IF call = "lock" THEN 0 ELSE 1
Desired(call) == 1 - Expected(call)

At(place) == running \in Printers /\ pc[running] = place
Goto(place) == pc' = [pc EXCEPT ![running] = place]

\* Mutant of Trap: the reservation survives.
TrapKeeps == UNCHANGED reserved
Trap == reserved' = FALSE

-----------------------------------------------------------------------------
\* lr.w, and bne to fail
LoadReserved ==
  /\ At("lr")
  /\ reserved' = TRUE
  /\ Goto(IF mLockPrint = Expected(op[running]) THEN "sc" ELSE "fail")
  /\ UNCHANGED <<kernel, mLockPrint, op, text>>

\* sc.w, and bnez to the retry
StoreConditional ==
  /\ At("sc")
  /\ \/ /\ reserved
        /\ mLockPrint' = Desired(op[running])
        /\ Goto(IF op[running] = "lock" THEN "in" ELSE "out")
     \/ /\ ~reserved
        /\ Goto("lr")
        /\ UNCHANGED mLockPrint
  /\ reserved' = FALSE
  /\ UNCHANGED <<kernel, op, text>>

\* Mutant of TryAgain: the thread gives the processor away for good.
TryAgainNever ==
  /\ At("fail")
  /\ IF op[running] = "lock"
     THEN Trap /\ kernel' = Yield(kernel, FALSE)
     ELSE UNCHANGED <<kernel, reserved>>
  /\ Goto("lr")
  /\ UNCHANGED <<mLockPrint, op, text>>

\* m_copy_and_swap has failed and is called again: the loop of MLOCK
\* dispatches before, that of MUNLOCK has no body.
TryAgain ==
  /\ At("fail")
  /\ IF op[running] = "lock"
     THEN Trap /\ kernel' = Yield(kernel, TRUE)
     ELSE UNCHANGED <<kernel, reserved>>
  /\ Goto("lr")
  /\ UNCHANGED <<mLockPrint, op, text>>

MLock ==
  /\ At("out")
  /\ op' = [op EXCEPT ![running] = "lock"]
  /\ Goto("lr")
  /\ UNCHANGED <<kernel, mLockPrint, reserved, text>>

\* Everything is printed.
MUnlock ==
  /\ At("in") /\ left[running] = <<>>
  /\ op' = [op EXCEPT ![running] = "unlock"]
  /\ line' = [line EXCEPT ![running] = Null]
  /\ Goto("lr")
  /\ UNCHANGED <<kernel, mLockPrint, reserved, left, screen>>

\* mPrintInt_nonatom up to its loop.  That buf has 16 characters is not
\* modelled: in the bases of Lines no text of 32 bits has more than 11.
PrintInt ==
  /\ At("in") /\ left[running] = <<>>
  /\ \E l \in Lines :
       /\ line' = [line EXCEPT ![running] = l]
       /\ left' = [left EXCEPT ![running] = mConvertInt(l.xx, l.base, l.sgn)]
  /\ screen' = <<>>
  /\ UNCHANGED <<kernel, lock, pc>>

\* The loop: the characters of buf from the last one.
PutDigit ==
  /\ At("in") /\ left[running] # <<>>
  /\ LET i == Len(left[running])
     IN  /\ screen' = Append(screen, left[running][i])
         /\ left' = [left EXCEPT ![running] = SubSeq(@, 1, i - 1)]
  /\ UNCHANGED <<kernel, lock, pc, line>>

\* getc in mGetString, putc in mPrintString and mPrintInt: the console may
\* make the holder wait.
WaitForConsole ==
  /\ At("in")
  /\ Trap
  /\ kernel' = [Yield(kernel, FALSE) EXCEPT !.waiting = @ \cup {running}]
  /\ UNCHANGED <<mLockPrint, op, pc, text>>

ConsoleReady ==
  /\ \E t \in kernel.waiting :
       kernel' = [SchedulerPut(kernel, t) EXCEPT !.waiting = @ \ {t}]
  /\ UNCHANGED <<lock, pc, text>>

Tick ==
  /\ Trap
  /\ kernel' = Yield(kernel, TRUE)
  /\ UNCHANGED <<mLockPrint, op, pc, text>>

-----------------------------------------------------------------------------
Init ==
  /\ \E q \in [1 .. Cardinality(Printers) - 1 -> Printers \ {UserMain}] :
       /\ IsInjective(q)
       /\ kernel =
            [running |-> UserMain, ready |-> q, timeSliceCounter |-> 0,
             finished |-> {}, remaining |-> [t \in Threads |-> 0],
             blockedAtSem |-> [t \in Threads |-> Null], waiting |-> {}]
  /\ mLockPrint = 0
  /\ reserved = FALSE
  /\ op = [t \in Threads |-> "unlock"]
  /\ pc = [t \in Threads |-> "out"]
  /\ line = [t \in Threads |-> Null]
  /\ left = [t \in Threads |-> <<>>]
  /\ screen = <<>>

Instruction == LoadReserved \/ StoreConditional \/ TryAgain

Next == \/ Instruction \/ MLock \/ MUnlock \/ PrintInt \/ PutDigit
        \/ WaitForConsole \/ ConsoleReady \/ Tick

Spec == Init /\ [][Next]_vars

(***************************************************************************)
(* A thread gets further in its turns, and prints only so much; the timer  *)
(* keeps ticking; the console answers.  Nobody has to take the lock.       *)
(* Nothing in the code keeps a trap out of an lr/sc sequence; the period   *)
(* of the timer is far longer than one, so it is supposed that not every   *)
(* sequence of all the threads is cut.                                     *)
(***************************************************************************)
Fairness ==
  /\ SF_vars(Tick)
  /\ WF_vars(ConsoleReady)
  /\ SF_vars(reserved /\ StoreConditional)
  /\ \A t \in Printers : /\ SF_vars(running = t /\ Instruction)
                         /\ SF_vars(running = t /\ PutDigit)
                         /\ SF_vars(running = t /\ MUnlock)

FairSpec == Spec /\ Fairness

-----------------------------------------------------------------------------
(***************************************************************************)
(* Properties.                                                             *)
(***************************************************************************)
\* Between a successful MLOCK and the end of MUNLOCK.
Holders ==
  {t \in Printers : pc[t] = "in" \/ (op[t] = "unlock" /\ pc[t] # "out")}

Trying == {t \in Printers : op[t] = "lock" /\ pc[t] \in {"lr", "sc", "fail"}}

\* The values the variables have; the texts are sequences of digits.
TypeOK ==
  /\ kernel \in [running : Threads, ready : Seq(Threads),
                 timeSliceCounter : Nat, finished : SUBSET Threads,
                 remaining : [Threads -> Nat],
                 blockedAtSem : [Threads -> Sems \cup {Null}],
                 waiting : SUBSET Threads]
  /\ mLockPrint \in {0, 1}
  /\ reserved \in BOOLEAN
  /\ op \in [Threads -> {"lock", "unlock"}]
  /\ pc \in [Threads -> {"out", "lr", "sc", "fail", "in"}]
  /\ line \in [Threads -> Lines \cup {Null}]

\* Two threads never print at the same time, and the word tells whether one
\* does, wherever in m_copy_and_swap the others are preempted.
OnePrints ==
  /\ \A t, u \in Holders : t = u
  /\ mLockPrint = 1 <=> Holders # {}

\* A number comes out whole, with the digits of nobody else's among its own,
\* and they are the digits of that number: signed and unsigned, the least
\* int and numbers whose tenth the multiplication gets wrong included.
NumbersComeOutWhole ==
  \A t \in Holders :
    pc[t] = "in" /\ line[t] # Null /\ left[t] = <<>> => Writes(screen, line[t])

\* The printer gives the lock back, also after waiting for keys ...
LockIsReleased == mLockPrint = 1 ~> mLockPrint = 0

\* ... and a free lock that somebody wants is taken: a thread that found it
\* taken comes back from its dispatch and tries again (MLOCK), and retries of
\* the store end.  That not all of them are cut is supposed, not shown.
LockIsTaken == mLockPrint = 0 /\ Trying # {} ~> mLockPrint = 1
=============================================================================
