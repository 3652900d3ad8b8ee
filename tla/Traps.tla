------------------------------- MODULE Traps -------------------------------
(***************************************************************************)
(* The processor's trap registers and what the kernel does with them: the  *)
(* frame of src/src/kernel_asm.S, the first and last lines of              *)
(* Kernel::handleSupervisorTrap, the switch of src/src/tcb_asm.S, the      *)
(* masked sections of CharBuffer, and TCB::threadWrapper with popSppSpie,  *)
(* which start a thread.                                                   *)
(*                                                                         *)
(* sepc and sstatus belong to the processor, not to a thread: a handler    *)
(* keeps them in locals, on the stack of the thread it runs on, while      *)
(* other threads trap.  Which thread a handler switches to is left open,   *)
(* up to the order the threads start in.                                   *)
(***************************************************************************)
EXTENDS Naturals, Sequences

CONSTANTS Threads,
          Systems,   \* those created with TCB::Mode::SYSTEM
          Master,    \* the thread that runs main(), one of them
          Idle       \* Scheduler::idle, if it is among the threads

ASSUME TrapsAssumption ==
  /\ Systems \subseteq Threads
  /\ Master \in Systems
  /\ Idle # Master

VARIABLES running,
          hw,        \* the privilege mode and the bits of sstatus, and sepc
          pc,        \* pc[t]: what t executes next: <<whose code, where>>
          saved,     \* saved[t]: the frames on the stack of t, the last on top
          finished

vars == <<running, hw, pc, saved, finished>>

Mode(t) == IF t \in Systems THEN "S" ELSE "U"

(***************************************************************************)
(* Where a thread can be.  "first" and "second" stand for its body,        *)
(* "masked" for a section of CharBuffer, "exit" for the ecall of           *)
(* thread_exit; "wrapper", "csrw" and "sret" are the three instructions    *)
(* that start the body; the others are in the trap handler: "printing" in  *)
(* that of an exception, "ending" before TCB::finish.                      *)
(***************************************************************************)
Places == {"first", "second", "masked", "exit", "wrapper", "csrw", "sret",
           "handler", "printing", "ending"}
InBody == {"first", "second", "exit"}

here == pc[running][2]
In(t, place) == <<t, place>>
Goto(place) == pc' = [pc EXCEPT ![running] = In(running, place)]
Push(frame)  == saved' = [saved EXCEPT ![running] = Append(@, frame)]
Top(t) == saved[t][Len(saved[t])]
Pop == saved' = [saved EXCEPT ![running] = SubSeq(@, 1, Len(@) - 1)]
New(t) == pc[t] = In(t, "wrapper") /\ t # running /\ t \notin finished

-----------------------------------------------------------------------------
\* The processor takes a trap, and the handler reads sepc and sstatus.  The
\* thread will go on at resume.
Trap(resume, handler) ==
  /\ hw' = [mode |-> "S", sie |-> FALSE, spp |-> hw.mode, spie |-> hw.sie,
            sepc |-> pc[running]]
  /\ Push([sepc |-> resume, spp |-> hw.mode, spie |-> hw.sie])
  /\ Goto(handler)
  /\ UNCHANGED <<running, finished>>

\* Sret with the given registers.
Sret(r) ==
  /\ hw' = [mode |-> r.spp, sie |-> r.spie, spp |-> "U", spie |-> TRUE,
            sepc |-> r.sepc]
  /\ pc' = [pc EXCEPT ![running] = r.sepc]

\* Mutants of ReturnFromTrap: sepc, or sstatus, is what the last trap left.
ReturnWithoutSepc ==
  /\ here = "handler"
  /\ Sret([Top(running) EXCEPT !.sepc = hw.sepc])
  /\ Pop
  /\ UNCHANGED <<running, finished>>
ReturnWithoutSstatus ==
  /\ here = "handler"
  /\ Sret([sepc |-> Top(running).sepc, spp |-> hw.spp, spie |-> hw.spie])
  /\ Pop
  /\ UNCHANGED <<running, finished>>

\* Another mutant: the frame stays on the stack.
ReturnKeepsFrame ==
  /\ here = "handler"
  /\ Sret(Top(running))
  /\ UNCHANGED <<running, saved, finished>>

\* w_sstatus, w_sepc, and the sret of supervisorTrap, all masked.
ReturnFromTrap ==
  /\ here = "handler"
  /\ Sret(Top(running))
  /\ Pop
  /\ UNCHANGED <<running, finished>>

-----------------------------------------------------------------------------
\* The thread's own instructions.
Compute ==
  /\ \/ here = "first" /\ Goto("second")
     \/ here = "second" /\ Goto("first")
     \/ here = "second" /\ running # Master /\ Goto("exit")
  /\ UNCHANGED <<running, hw, saved, finished>>

\* An ecall returns behind itself; thread_exit returns, if ever, to the end of
\* the wrapper, whose return address is the wrapper.
Ecall ==
  \/ here = "first" /\ Trap(In(running, "second"), "handler")
  \/ here = "exit" /\ Trap(In(running, "wrapper"), "ending")
  \/ here = "printing" /\ Trap(In(running, "printing"), "handler")

\* A timer or external interrupt.
Interrupt ==
  /\ hw.mode = "U" \/ hw.sie
  /\ Trap(pc[running], "handler")

\* A user thread faults, or executes what user mode may not.
Exception ==
  /\ \/ here \in InBody /\ running \notin Systems
     \/ here \in {"wrapper", "csrw", "sret"} /\ hw.mode = "U"
  /\ Trap(pc[running], "printing")

\* Mutant of Mask: SIE is kept.
MaskNothing ==
  /\ here = "first"
  /\ running \in Systems \ {Master, Idle}
  /\ Push([sepc |-> In(running, "second"), spp |-> "S", spie |-> hw.sie])
  /\ Goto("masked")
  /\ UNCHANGED <<running, hw, finished>>

\* CharBuffer::uPut and uGet
Mask ==
  /\ here = "first"
  /\ running \in Systems \ {Master, Idle}
  /\ Push([sepc |-> In(running, "second"), spp |-> "S", spie |-> hw.sie])
  /\ hw' = [hw EXCEPT !.sie = FALSE]
  /\ Goto("masked")
  /\ UNCHANGED <<running, finished>>

Unmask ==
  /\ here = "masked"
  /\ hw' = [hw EXCEPT !.sie = @ \/ Top(running).spie]
  /\ Pop
  /\ Goto("second")
  /\ UNCHANGED <<running, finished>>

-----------------------------------------------------------------------------
\* Mutant of Wrap: SPP is set for a system thread and not cleared for others.
WrapSystemOnly ==
  /\ here = "wrapper" /\ hw.mode = "S"
  /\ hw' = IF Mode(running) = "S" THEN [hw EXCEPT !.spp = "S"] ELSE hw
  /\ Goto("csrw")
  /\ UNCHANGED <<running, saved, finished>>

\* threadWrapper: SPP from the thread's mode, then popSppSpie's two
\* instructions.
Wrap ==
  /\ here = "wrapper" /\ hw.mode = "S"
  /\ hw' = [hw EXCEPT !.spp = Mode(running)]
  /\ Goto("csrw")
  /\ UNCHANGED <<running, saved, finished>>

WriteSepc ==
  /\ here = "csrw" /\ hw.mode = "S"
  /\ hw' = [hw EXCEPT !.sepc = In(running, "first")]
  /\ Goto("sret")
  /\ UNCHANGED <<running, saved, finished>>

StartBody ==
  /\ here = "sret" /\ hw.mode = "S"
  /\ Sret(hw)
  /\ UNCHANGED <<running, saved, finished>>

-----------------------------------------------------------------------------
\* Whom Scheduler::get may return: the idle thread also when it has finished.
\* The threads of main() and of the console are ahead of every user thread.
MayRun(u) ==
  /\ u \notin finished \/ u = Idle
  /\ New(u) /\ u \notin Systems => \A s \in Systems \ {Idle} : ~New(s)

\* TCB::yield in a handler or in a masked section: the context is switched and
\* the registers stay as they are.
Yield ==
  /\ here \in {"handler", "masked"}
  /\ \E u \in Threads \ {running} : MayRun(u) /\ running' = u
  /\ UNCHANGED <<hw, pc, saved, finished>>

\* TCB::finish.
Finish ==
  /\ here \in {"printing", "ending"}
  /\ finished' = finished \cup {running}
  /\ \E u \in Threads : /\ u \notin finished' \/ u = Idle
                        /\ MayRun(u)
                        /\ running' = u
  /\ Goto("handler")
  /\ UNCHANGED <<hw, saved>>

\* main() runs with interrupts enabled, all other threads are to be started.
Init ==
  /\ running = Master
  /\ hw = [mode |-> "S", sie |-> TRUE, spp |-> "U", spie |-> FALSE,
           sepc |-> In(Master, "first")]
  /\ pc = [t \in Threads |->
             In(t, IF t = Master THEN "first" ELSE "wrapper")]
  /\ saved = [t \in Threads |-> <<>>]
  /\ finished = {}

Next ==
  \/ Compute \/ Ecall \/ Interrupt \/ Exception \/ Mask \/ Unmask
  \/ Wrap \/ WriteSepc \/ StartBody \/ ReturnFromTrap \/ Yield \/ Finish

Spec == Init /\ [][Next]_vars
-----------------------------------------------------------------------------
(***************************************************************************)
(* Properties.                                                             *)
(***************************************************************************)
Points == Threads \X Places
Frames == [sepc : Points, spp : {"U", "S"}, spie : BOOLEAN]

\* The values the variables have.
TypeOK ==
  /\ running \in Threads
  /\ hw \in [mode : {"U", "S"}, sie : BOOLEAN, spp : {"U", "S"},
             spie : BOOLEAN, sepc : Points]
  /\ pc \in [Threads -> Points]
  /\ saved \in [Threads -> Seq(Frames)]
  /\ \A t \in Threads : Len(saved[t]) <= 2
  /\ finished \subseteq Threads

\* Whatever traps the other threads take in the middle of a thread's handler,
\* it comes back to its own code.
OwnCode == \A t \in Threads : pc[t][1] = t

\* A body runs in the mode its thread was created with, also the first time.
OwnMode == here \in InBody => hw.mode = Mode(running)

\* Kernel code that relies on it runs masked and in system mode, although the
\* thread it switches to was suspended by something else: a trap, a nested
\* trap, a masked section or not at all.
KernelIsMasked ==
  here \in {"handler", "masked", "printing", "ending"} =>
    hw.mode = "S" /\ ~hw.sie

\* No system thread runs with interrupts disabled for good.
SystemsInterruptible ==
  here \in InBody /\ running \in Systems => hw.sie

\* The handler of one thread never returns through the frame of another, and a
\* thread in its body has none: each trap and masked section pops what it has
\* pushed.
FramesAreOwn ==
  \A t \in Threads :
    /\ \A i \in 1 .. Len(saved[t]) : saved[t][i].sepc[1] = t
    /\ pc[t][2] \in InBody => saved[t] = <<>>
=============================================================================
