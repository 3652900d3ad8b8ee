---------------------------- MODULE MCPrograms ----------------------------
(***************************************************************************)
(* A safety run of Kernel.  Each behaviour is that of one of Programs:     *)
(* some system calls, and the longest timeout they ask for.  All calls at  *)
(* once would be too many behaviours to follow.                            *)
(***************************************************************************)
EXTENDS MCKernel

CONSTANT Programs
VARIABLE program

Program(calls, timeout) ==
  [calls |-> calls \cup {"threadCreate"}, timeout |-> timeout]

ThreadPrograms ==
  {Program({"threadExit", "join", "timedJoin", "joinAll", "timedJoinAll"}, 1),
   Program({"threadExit", "exception", "dispatch", "timeSleep"}, 2),
   Program({"threadExit", "send", "receive"}, 0),
   Program({"semOpen", "semWait", "semSignal", "semTimedWait", "timeSleep"}, 2)}

AllCalls == UNION {p.calls : p \in ThreadPrograms}

\* The step makes no call that is not the program's.
Keeps ==
  /\ \A t \in UserThreads :
       /\ frame'[t].call \in program.calls \cup {"user", "tick"}
       /\ kernel'.remaining[t] <= program.timeout
  /\ returned'.thread \in UserThreads => returned'.call \in program.calls

ProgramInit == Init /\ program \in Programs
ProgramNext == Next /\ Keeps /\ UNCHANGED program
ProgramSpec == ProgramInit /\ [][ProgramNext]_<<vars, program>>
=============================================================================
