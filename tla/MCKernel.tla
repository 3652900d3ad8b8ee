----------------------------- MODULE MCKernel -----------------------------
(***************************************************************************)
(* What the instances of Kernel for TLC share.  The threads besides        *)
(* Master, Idle and UserMain are interchangeable in the safety runs.       *)
(***************************************************************************)
EXTENDS KernelInvariant, TLC

Interchangeable == Permutations(Threads \ {Master, Idle, UserMain})

SemCalls ==
  {"threadCreate", "semOpen", "semClose", "semWait", "semSignal",
   "semTimedWait", "semTryWait"}
ProgressCalls ==
  {"threadCreate", "threadExit", "exception", "dispatch", "join", "timedJoin",
   "joinAll", "timedJoinAll", "semOpen", "semTimedWait", "timeSleep", "send",
   "receive"}
=============================================================================
