-------------------------- MODULE KernelInvariant --------------------------
(***************************************************************************)
(* The inductive invariant behind the safety properties of                 *)
(* KernelProperties.tla: the record is good (KernelRecord.tla), and the    *)
(* frames of the threads explain it.                                       *)
(***************************************************************************)
EXTENDS KernelProperties, KernelRecord

\* A thread that is blocked is in the middle of a call that waits there.
CallsExplain == \A t \in Threads : kernel.blockedAtSem[t] # Null =>
                                     WaitsAt(t) = kernel.blockedAtSem[t]

\* No user's thread exists before main() has created the first.
NobodyYet == mainPc = "create" => kernel.created = {Master, Idle}

\* The inductive invariant: between two handlers the lists of the scheduler,
\* of the semaphores and of the sleepers and the members of the TCBs tell one
\* story about every thread, and after the shutdown all of them are empty.
IInv ==
  /\ TypeOK /\ NobodyYet
  /\ Running => Good(kernel) /\ CallsExplain
  /\ ~Running => /\ kernel.running = Master /\ Master \notin kernel.finished
                 /\ kernel.active = {} /\ kernel.ready = <<>>
                 /\ \A s \in Sems : kernel.blocked[s] = <<>>
                 /\ kernel.sleepList = <<>>
                 /\ \A t \in Threads : ~WaitsIn(kernel, t)
=============================================================================
