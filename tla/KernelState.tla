--------------------------- MODULE KernelState ---------------------------
(***************************************************************************)
(* The data every part of the kernel shares: the thread control blocks     *)
(* (src/h/tcb.hpp), the semaphores (src/h/kSemaphore.hpp) and the static   *)
(* heads of the scheduler's and the sleep list's queues.  One record,      *)
(* passed from one kernel routine to the next, holds all of it, because a  *)
(* trap handler runs with interrupts masked: what it calls composes into   *)
(* one atomic change of the record.                                        *)
(*                                                                         *)
(* A Boolean member of a TCB or of a semaphore is the set of those that    *)
(* have it (finished, active); a linked list is a sequence; the pair       *)
(* (sleeps, timeSleepRelative) is the number of ticks remaining, 0 for a   *)
(* thread that does not sleep.  LinkedLists.tla shows that the list of     *)
(* differences the code keeps implements exactly that.                     *)
(***************************************************************************)
EXTENDS Lists

CONSTANTS Threads,          \* every TCB there will ever be
          Master,           \* the kernel's own thread, running main()
          Idle,             \* Scheduler::idle
          UserMain,         \* the thread main() creates for userMain
          UserSems,         \* the semaphores the program opens
          Messages,         \* what threads send each other
          Null,             \* nullptr
          DefaultTimeSlice, \* DEFAULT_TIME_SLICE
          CountMod          \* numOfActiveChildren counts modulo this

semJoin(t)    == <<"semJoin", t>>
semJoinAll(t) == <<"semJoinAll", t>>
semSend(t)    == <<"semSend", t>>
semReceive(t) == <<"semReceive", t>>
SemsOf(t)     == {semJoin(t), semJoinAll(t), semSend(t), semReceive(t)}

Sems == UserSems \cup UNION {SemsOf(t) : t \in Threads}

UserThreads == Threads \ {Master, Idle}

ASSUME ThreadsAssumption ==
  /\ IsFiniteSet(Threads)
  /\ {Master, Idle, UserMain} \subseteq Threads
  /\ Cardinality({Master, Idle, UserMain}) = 3
  /\ Null \notin Threads \cup Sems \cup Messages
  /\ UserSems \cap UNION {SemsOf(t) : t \in Threads} = {}

ASSUME NumbersAssumption ==
  /\ DefaultTimeSlice \in Nat \ {0}
  /\ CountMod \in Nat /\ CountMod >= Cardinality(Threads)

\* Error codes of src/h/syscall_c.h.
ERR_THREAD_CREATE   == -1
ERR_THREAD_EXIT     == -1
ERR_THREAD_SELFJOIN == -3
ERR_SEM_DEAD        == -1
SEMDEAD             == ERR_SEM_DEAD
ERR_SEM_WAITCLOSE   == -4
ERR_SLEEP_ZERO      == -1
TIMEOUT             == -2

\* A message is the address of a string; no string lies at these.
ASSUME MessagesAssumption == {TIMEOUT, ERR_SEM_WAITCLOSE} \cap Messages = {}

UnblockManners == {"REGULAR", "ON_CLOSE", "WAIT_TIMEOUT"}

Kernels ==
  [running             : Threads,
   timeSliceCounter    : Nat,
   ready               : Seq(Threads),
   created             : SUBSET Threads,
   finished            : SUBSET Threads,
   parent              : [Threads -> Threads \cup {Null}],
   numOfActiveChildren : [Threads -> 0 .. CountMod - 1],
   sleepList           : Seq(Threads),
   remaining           : [Threads -> Nat],
   blockedAtSem        : [Threads -> Sems \cup {Null}],
   tokensNeeded        : [Threads -> Nat],
   unblockManner       : [Threads -> UnblockManners],
   opened              : SUBSET Sems,
   active              : SUBSET Sems,
   value               : [Sems -> Nat],
   blocked             : [Sems -> Seq(Threads)],
   message             : [Threads -> Messages \cup {Null}]]

-----------------------------------------------------------------------------
sleeps(k, t) == k.remaining[t] > 0
=============================================================================
