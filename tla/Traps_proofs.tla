---------------------------- MODULE Traps_proofs ----------------------------
(***************************************************************************)
(* For any number of threads of both modes, without the idle thread (which *)
(* alone goes through its wrapper again, see the run IdleAgain): every     *)
(* thread comes back from a trap to its own code, in its own mode, and a   *)
(* system thread with interrupts enabled.                                  *)
(***************************************************************************)
EXTENDS Traps, SequenceTheorems, TLAPS

\* The frame of a trap taken in the body of t, or of its thread_exit.
BodyFrame(t, f) ==
  /\ f.sepc[1] = t
  /\ f.sepc[2] \in InBody \cup {"wrapper"}
  /\ f.spp = Mode(t)
  /\ t \in Systems => f.spie

\* What lies on the stack q of thread t at a place, over if t has finished.
StackOf(t, place, q, over) ==
  /\ place \in InBody \cup {"wrapper", "csrw", "sret"} => q = <<>>
  /\ place \in {"masked", "printing", "ending", "handler"} =>
       /\ Len(q) \in {1, 2} /\ BodyFrame(t, q[1])
       /\ q[1].sepc[2] = "wrapper" => over \/ place = "ending"
  /\ place \in {"masked", "printing", "ending"} => Len(q) = 1
  /\ place = "masked" => t \in Systems /\ q[1].sepc[2] = "second"
  /\ place = "printing" => t \notin Systems /\ q[1].sepc[2] \in InBody
  /\ Len(q) = 2 =>
       /\ t \notin Systems /\ q[1].sepc[2] \in InBody
       /\ q[2] = [sepc |-> In(t, "printing"), spp |-> "S", spie |-> FALSE]

Stacks == \A t \in Threads : StackOf(t, pc[t][2], saved[t], t \in finished)

\* The registers, by where the running thread is.
Registers ==
  /\ running \notin finished
  /\ here \in InBody => /\ hw.mode = Mode(running)
                        /\ running \in Systems => hw.sie
  /\ here \notin InBody => hw.mode = "S" /\ ~hw.sie
  /\ here \in {"csrw", "sret"} => hw.spp = Mode(running)
  /\ here = "sret" => hw.sepc = In(running, "first")
  /\ here \in {"wrapper", "csrw", "sret"} /\ running \in Systems => hw.spie

\* While a system thread is still to be started no user thread has been, and
\* SPIE is set wherever the next thread could be started from.
SystemsFirst ==
  \A s \in Systems : New(s) =>
    /\ \A u \in Threads \ Systems : New(u)
    /\ hw.spie \/ (running = Master /\ here \in InBody)

\* Where a thread is left, or not yet started.
Suspended ==
  \A t \in Threads \ {running} : pc[t][2] \in {"wrapper", "handler", "masked"}

IInv ==
  TypeOK /\ OwnCode /\ Stacks /\ Registers /\ SystemsFirst /\ Suspended

-----------------------------------------------------------------------------
\* The invariant holds when main() starts.
LEMMA InitInv == Init => IInv
<1> SUFFICES ASSUME Init PROVE IInv
  OBVIOUS
<1>1. Master \in Threads
  BY TrapsAssumption
<1>2. TypeOK
  BY <1>1 DEF Init, TypeOK, Points, Frames, Places, In
<1>3. OwnCode
  BY DEF Init, OwnCode, In
<1>4. Stacks
  <2>1. Len(<<>>) = 0
    OBVIOUS
  <2>2. \A t \in Threads : saved[t] = <<>> /\ pc[t][2] \in {"first", "wrapper"}
    BY DEF Init, In
  <2>3. ASSUME NEW t \in Threads
        PROVE  StackOf(t, pc[t][2], saved[t], t \in finished)
    <3>1. saved[t] = <<>> /\ Len(saved[t]) = 0
      BY <2>1, <2>2
    <3>2. pc[t][2] = "first" \/ pc[t][2] = "wrapper"
      BY <2>2
    <3> QED  BY <3>1, <3>2 DEF StackOf
  <2> QED  BY <2>3 DEF Stacks
<1>5. Registers
  BY <1>1, TrapsAssumption DEF Init, Registers, InBody, In, Mode, here
<1>6. SystemsFirst
  BY <1>1, TrapsAssumption DEF Init, SystemsFirst, New, InBody, In, here
<1>7. Suspended
  BY DEF Init, Suspended, In
<1> QED  BY <1>2, <1>3, <1>4, <1>5, <1>6, <1>7 DEF IInv

\* The sequences the stack goes through.
LEMMA PushPop ==
  ASSUME NEW q \in Seq(Frames), NEW f \in Frames
  PROVE  /\ Len(q) <= 1 => Append(q, f) \in Seq(Frames) /\ Len(Append(q, f)) <= 2
         /\ q = <<>> => Append(q, f) = <<f>>
         /\ Len(q) = 1 => /\ Len(Append(q, f)) = 2
                          /\ Append(q, f)[1] = q[1] /\ Append(q, f)[2] = f
                          /\ SubSeq(q, 1, Len(q) - 1) = <<>>
         /\ Len(q) = 2 => /\ SubSeq(q, 1, Len(q) - 1) \in Seq(Frames)
                          /\ Len(SubSeq(q, 1, Len(q) - 1)) = 1
                          /\ SubSeq(q, 1, Len(q) - 1)[1] = q[1]
<1>1. CASE q = <<>>
  BY <1>1
<1>2. CASE Len(q) = 1
  <2>1. Append(q, f) \in Seq(Frames) /\ Len(Append(q, f)) = 2
        /\ Append(q, f)[1] = q[1] /\ Append(q, f)[2] = f
    <3>1. /\ Append(q, f) \in Seq(Frames) /\ Len(Append(q, f)) = Len(q) + 1
          /\ \A i \in 1 .. Len(q) : Append(q, f)[i] = q[i]
          /\ Append(q, f)[Len(q) + 1] = f
      BY AppendProperties
    <3>2. 1 \in 1 .. Len(q) /\ Len(q) + 1 = 2
      BY <1>2
    <3> QED  BY <3>1, <3>2
  <2>2. SubSeq(q, 1, Len(q) - 1) = <<>>
    <3>1. Len(q) - 1 \in Int /\ Len(q) - 1 < 1 /\ 1 \in Int
      BY <1>2
    <3> QED  BY <3>1, SubSeqEmpty
  <2> QED  BY <1>2, <2>1, <2>2
<1>3. CASE Len(q) = 2
  <2>1. /\ 1 \in Int /\ \A i \in 1 .. 1 : q[i] \in Frames
        /\ 1 - 1 + 1 = 1 /\ 1 \in 1 .. 1 /\ 1 + 1 - 1 = 1
    BY <1>3
  <2>2. /\ SubSeq(q, 1, 1) \in Seq(Frames)
        /\ Len(SubSeq(q, 1, 1)) = 1 /\ SubSeq(q, 1, 1)[1] = q[1]
    BY <2>1, SubSeqProperties
  <2>3. Len(q) - 1 = 1
    BY <1>3
  <2>4. Len(q) # 1 /\ ~(Len(q) <= 1)
    BY <1>3
  <2>5. Len(q) = 0 <=> q = <<>>
    OBVIOUS
  <2>6. q # <<>>
    <3>1. Len(q) # 0
      BY <1>3
    <3> QED  BY <2>5, <3>1
  <2> QED  BY <1>3, <2>2, <2>3, <2>4, <2>6
<1>4. Len(q) \in Nat /\ (Len(q) = 0 <=> q = <<>>)
  OBVIOUS
<1> QED  BY <1>1, <1>2, <1>3, <1>4

-----------------------------------------------------------------------------
\* A step of the running thread that leaves the other threads alone.
Alone(place) ==
  /\ running' = running /\ finished' = finished
  /\ pc' = [pc EXCEPT ![running] = In(running, place)]
  /\ saved' = [saved EXCEPT ![running] = saved'[running]]

HwType == [mode : {"U", "S"}, sie : BOOLEAN, spp : {"U", "S"},
           spie : BOOLEAN, sepc : Points]

\* It is enough to look at that thread and at the registers.
LEMMA AloneInv ==
  ASSUME IInv, NEW place \in Places, Alone(place),
         saved'[running] \in Seq(Frames), Len(saved'[running]) <= 2,
         hw' \in HwType,
         StackOf(running, place, saved'[running], running \in finished),
         Registers',
         (\E s \in Systems : New(s)) =>
           hw'.spie \/ (running = Master /\ place \in InBody)
  PROVE  IInv'
<1> USE DEF IInv
<1>1. running \in Threads /\ In(running, place) \in Points
  BY DEF TypeOK, Points, In
<1>2. TypeOK'
  BY <1>1 DEF TypeOK, Alone, HwType
<1>3. /\ pc'[running] = In(running, place)
      /\ \A t \in Threads \ {running} : pc'[t] = pc[t] /\ saved'[t] = saved[t]
  BY <1>1 DEF TypeOK, Alone
<1>4. OwnCode'
  BY <1>1, <1>3 DEF OwnCode, In
<1>5. Stacks'
  <2>1. ASSUME NEW t \in Threads \ {running}
        PROVE  StackOf(t, pc'[t][2], saved'[t], t \in finished')
    BY <1>3 DEF Stacks, Alone
  <2>2. pc'[running][2] = place
    BY <1>3 DEF In
  <2>3. StackOf(running, pc'[running][2], saved'[running], running \in finished')
    BY <2>2 DEF Alone
  <2> QED  BY <2>1, <2>3 DEF Stacks
<1>6. SystemsFirst'
  <2>1. \A t \in Threads : New(t)' <=> New(t)
    BY <1>1, <1>3 DEF New, Alone
  <2>2. here' = place
    BY <1>3 DEF here, In, Alone
  <2> QED  BY <2>1, <2>2, TrapsAssumption DEF SystemsFirst, Alone
<1>7. Suspended'
  BY <1>3 DEF Suspended, Alone
<1> QED  BY <1>2, <1>4, <1>5, <1>6, <1>7

\* A trap out of a body, and one that the handler of an exception takes.
LEMMA TrapInv ==
  ASSUME IInv, NEW at \in Places, NEW handler \in {"handler", "printing", "ending"},
         Trap(In(running, at), handler),
         \/ /\ here \in InBody /\ at \in InBody \cup {"wrapper"}
            /\ at = "wrapper" => handler = "ending"
            /\ handler = "printing" => running \notin Systems /\ at \in InBody
         \/ here = "printing" /\ at = "printing" /\ handler = "handler"
  PROVE  IInv'
<1> USE DEF IInv
<1> DEFINE f == [sepc |-> In(running, at), spp |-> hw.mode, spie |-> hw.sie]
<1>1. /\ running \in Threads /\ here \in Places /\ saved[running] \in Seq(Frames)
      /\ f \in Frames /\ handler \in Places
  BY DEF TypeOK, Points, Frames, In, here, Places
<1>2. StackOf(running, here, saved[running], running \in finished)
  BY <1>1 DEF Stacks, here
<1>3. /\ here \in InBody => saved[running] = <<>>
      /\ here = "printing" => Len(saved[running]) = 1
  BY <1>2 DEF StackOf
<1>4. saved'[running] = Append(saved[running], f)
  BY <1>1 DEF Trap, Push, TypeOK
<1>5. saved'[running] \in Seq(Frames) /\ Len(saved'[running]) <= 2
  BY <1>1, <1>3, <1>4, PushPop
<1>6. Alone(handler)
  BY <1>1 DEF Trap, Push, Goto, Alone, TypeOK
<1>7. hw' = [mode |-> "S", sie |-> FALSE, spp |-> hw.mode, spie |-> hw.sie,
             sepc |-> pc[running]]
  BY DEF Trap
<1>8. hw' \in HwType
  BY <1>1, <1>7 DEF TypeOK, HwType
<1>9. here' = handler
  BY <1>1, <1>6 DEF Alone, here, In, TypeOK
<1>10. Registers'
  BY <1>6, <1>7, <1>9 DEF Registers, InBody, Alone
<1>11. StackOf(running, handler, saved'[running], running \in finished)
  <2>1. CASE here \in InBody
    <3>1. saved'[running] = <<f>>
      BY <1>1, <1>3, <1>4, <2>1, PushPop
    <3>2. BodyFrame(running, f)
      BY <2>1 DEF BodyFrame, Registers, In, InBody
    <3>3. Len(saved'[running]) = 1 /\ saved'[running][1] = f
      BY <3>1
    <3>4. f.sepc[2] = at /\ here # "printing"
      BY <2>1 DEF In, InBody
    <3> QED  BY <2>1, <3>2, <3>3, <3>4 DEF StackOf, InBody
  <2>2. CASE here = "printing"
    <3>1. /\ Len(saved'[running]) = 2 /\ saved'[running][1] = saved[running][1]
          /\ saved'[running][2] = f
      BY <1>1, <1>3, <1>4, <2>2, PushPop
    <3>2. hw.mode = "S" /\ ~hw.sie /\ at = "printing" /\ handler = "handler"
      BY <2>2 DEF Registers, InBody
    <3>3. f = [sepc |-> In(running, "printing"), spp |-> "S", spie |-> FALSE]
      BY <1>1, <3>2 DEF Frames
    <3>4. /\ running \notin Systems /\ saved[running][1].sepc[2] \in InBody
          /\ BodyFrame(running, saved[running][1])
      BY <1>2, <2>2 DEF StackOf
    <3>5. saved[running][1].sepc[2] # "wrapper"
      BY <3>4 DEF InBody
    <3> QED  BY <3>1, <3>2, <3>3, <3>4, <3>5 DEF StackOf, InBody
  <2> QED  BY <2>1, <2>2
<1>12. ASSUME NEW s \in Systems, New(s) PROVE hw'.spie
  <2>1. running \in Systems
    BY <1>1, <1>12 DEF SystemsFirst, New
  <2>2. here \in InBody
    BY <1>2, <2>1 DEF StackOf
  <2> QED  BY <1>7, <2>1, <2>2 DEF Registers
<1> QED  BY <1>1, <1>5, <1>6, <1>8, <1>10, <1>11, <1>12, AloneInv

\* The instructions of a body and of the wrapper, which touch no frame.
LEMMA PlainInv ==
  ASSUME IInv, Compute \/ Wrap \/ WriteSepc \/ StartBody
  PROVE  IInv'
<1> USE DEF IInv
<1>1. /\ running \in Threads /\ here \in Places /\ saved[running] \in Seq(Frames)
      /\ pc[running] = In(running, here) /\ saved' = saved
  BY DEF TypeOK, Points, OwnCode, In, here, Compute, Wrap, WriteSepc, StartBody
<1>2. StackOf(running, here, saved[running], running \in finished)
  BY <1>1 DEF Stacks, here
<1>3. here \in InBody \cup {"wrapper", "csrw", "sret"} /\ saved[running] = <<>>
  BY <1>2 DEF StackOf, InBody, Compute, Wrap, WriteSepc, StartBody
<1>4. ASSUME NEW place \in InBody \cup {"csrw", "sret"}, Alone(place),
             hw' \in HwType, Registers',
             (\E s \in Systems : New(s)) =>
               hw'.spie \/ (running = Master /\ place \in InBody)
      PROVE  IInv'
  <2>1. saved'[running] = <<>> /\ Len(saved'[running]) = 0
    BY <1>1, <1>3
  <2>2. StackOf(running, place, saved'[running], running \in finished)
    BY <2>1 DEF StackOf, InBody
  <2>3. place \in Places /\ saved'[running] \in Seq(Frames)
    BY <1>1 DEF Places, InBody
  <2> QED  BY <1>4, <2>1, <2>2, <2>3, AloneInv
<1>5. \A place \in Places :
        pc' = [pc EXCEPT ![running] = In(running, place)] /\ running' = running
          => here' = place
  BY <1>1 DEF TypeOK, here, In
<1>6. saved' = [saved EXCEPT ![running] = saved'[running]]
  BY <1>1 DEF TypeOK
<1>7. CASE Compute
  <2>1. PICK place \in InBody : Goto(place)
    BY <1>7 DEF Compute, InBody
  <2>2. here' = place /\ here \in InBody /\ Alone(place) /\ hw' = hw
    BY <1>5, <1>6, <1>7, <2>1 DEF Compute, Goto, Alone, InBody, Places
  <2>3. Registers'
    BY <1>7, <2>2 DEF Compute, Registers, InBody
  <2>4. (\E s \in Systems : New(s)) =>
          hw'.spie \/ (running = Master /\ place \in InBody)
    BY <2>2 DEF SystemsFirst
  <2> QED  BY <1>4, <2>2, <2>3, <2>4 DEF TypeOK, HwType
<1>8. CASE Wrap
  <2>1. here' = "csrw" /\ Alone("csrw")
    BY <1>5, <1>6, <1>8 DEF Wrap, Goto, Alone, Places
  <2>2. hw' \in HwType /\ hw'.spie = hw.spie
    BY <1>8 DEF Wrap, TypeOK, HwType, Mode
  <2>3. here = "wrapper"
    BY <1>8 DEF Wrap
  <2>4. Registers'
    BY <1>8, <2>1, <2>3 DEF Wrap, Registers, InBody, TypeOK
  <2>5. (\E s \in Systems : New(s)) => hw'.spie
    BY <2>2, <2>3 DEF SystemsFirst, InBody
  <2> QED  BY <1>4, <2>1, <2>2, <2>4, <2>5
<1>9. CASE WriteSepc
  <2>1. here' = "sret" /\ Alone("sret")
    BY <1>5, <1>6, <1>9 DEF WriteSepc, Goto, Alone, Places
  <2>2. In(running, "first") \in Points
    BY <1>1 DEF Points, In, Places
  <2>3. hw' \in HwType /\ hw'.spie = hw.spie
    BY <1>9, <2>2 DEF WriteSepc, TypeOK, HwType
  <2>4. here = "csrw"
    BY <1>9 DEF WriteSepc
  <2>5. Registers'
    BY <1>9, <2>1, <2>4 DEF WriteSepc, Registers, InBody, TypeOK, Mode
  <2>6. (\E s \in Systems : New(s)) => hw'.spie
    BY <2>3, <2>4 DEF SystemsFirst, InBody
  <2> QED  BY <1>4, <2>1, <2>3, <2>5, <2>6
<1>10. CASE StartBody
  <2>1. hw.sepc = In(running, "first") /\ hw.spp = Mode(running)
        /\ (running \in Systems => hw.spie)
    BY <1>10 DEF StartBody, Registers
  <2>2. here' = "first" /\ Alone("first")
    BY <1>5, <1>6, <1>10, <2>1 DEF StartBody, Sret, Alone, Places
  <2>3. hw' = [mode |-> hw.spp, sie |-> hw.spie, spp |-> "U", spie |-> TRUE,
               sepc |-> hw.sepc]
    BY <1>10 DEF StartBody, Sret
  <2>4. hw' \in HwType
    BY <2>3 DEF TypeOK, HwType
  <2>5. Registers'
    BY <1>10, <2>1, <2>2, <2>3 DEF StartBody, Registers, InBody, Mode
  <2> QED  BY <1>4, <2>2, <2>3, <2>4, <2>5 DEF InBody
<1> QED  BY <1>7, <1>8, <1>9, <1>10

\* The masked sections, and the end of a handler.
LEMMA MaskInv ==
  ASSUME IInv, Mask
  PROVE  IInv'
<1> USE DEF IInv
<1> DEFINE f == [sepc |-> In(running, "second"), spp |-> "S", spie |-> hw.sie]
<1>1. /\ running \in Threads /\ saved[running] \in Seq(Frames) /\ here = "first"
      /\ f \in Frames
  BY DEF TypeOK, Points, Frames, In, Places, Mask
<1>2. saved[running] = <<>>
  BY <1>1 DEF Stacks, StackOf, InBody, here
<1>3. saved'[running] = <<f>>
  BY <1>1, <1>2, PushPop DEF Mask, Push, TypeOK
<1>4. /\ saved'[running] \in Seq(Frames) /\ Len(saved'[running]) = 1
      /\ saved'[running][1] = f
  BY <1>1, <1>3
<1>5. Alone("masked") /\ here' = "masked"
  BY <1>1 DEF Mask, Push, Goto, Alone, TypeOK, here, In
<1>6. running \in Systems /\ running # Master /\ hw.sie /\ hw.mode = "S"
  BY <1>1 DEF Mask, Registers, InBody, Mode
<1>7. BodyFrame(running, f) /\ f.sepc[2] = "second"
  BY <1>6 DEF BodyFrame, In, InBody, Mode
<1>8. StackOf(running, "masked", saved'[running], running \in finished)
  BY <1>4, <1>6, <1>7 DEF StackOf, InBody
<1>9. hw' \in HwType /\ hw'.spie = hw.spie
  BY DEF Mask, TypeOK, HwType
<1>10. Registers'
  BY <1>5, <1>6 DEF Mask, Registers, InBody, TypeOK
<1>11. (\E s \in Systems : New(s)) => hw'.spie
  BY <1>6, <1>9 DEF SystemsFirst
<1>12. "masked" \in Places
  BY DEF Places
<1> QED  BY <1>4, <1>5, <1>8, <1>9, <1>10, <1>11, <1>12, AloneInv

\* A body that enables interrupts.
LEMMA UnmaskInv ==
  ASSUME IInv, Unmask
  PROVE  IInv'
<1> USE DEF IInv
<1>1. running \in Threads /\ saved[running] \in Seq(Frames) /\ here = "masked"
  BY DEF TypeOK, Unmask
<1>2. StackOf(running, "masked", saved[running], running \in finished)
  BY <1>1 DEF Stacks, here
<1>3. Len(saved[running]) = 1 /\ BodyFrame(running, saved[running][1])
  BY <1>2 DEF StackOf
<1>4. \E f \in Frames : f = saved[running][1]
  BY <1>1, <1>3, ElementOfSeq
<1>5. saved'[running] = <<>>
  BY <1>1, <1>3, <1>4, PushPop DEF Unmask, Pop, TypeOK
<1>6. saved'[running] \in Seq(Frames) /\ Len(saved'[running]) = 0
  BY <1>5
<1>7. Alone("second") /\ here' = "second"
  BY <1>1 DEF Unmask, Pop, Goto, Alone, TypeOK, here, In
<1>8. hw.mode = "S" /\ "second" \in Places /\ "second" \in InBody
  BY <1>1 DEF Registers, InBody, Places
<1>9. StackOf(running, "second", saved'[running], running \in finished)
  BY <1>5, <1>6 DEF StackOf
<1>10. hw' = [hw EXCEPT !.sie = @ \/ saved[running][1].spie]
  BY <1>3 DEF Unmask, Top
<1>11. running \in Systems /\ saved[running][1].spie
  BY <1>2, <1>3 DEF StackOf, BodyFrame
<1>12. hw' \in HwType /\ hw'.spie = hw.spie /\ hw'.mode = "S" /\ hw'.sie
  BY <1>8, <1>10, <1>11 DEF TypeOK, HwType
<1>13. Registers'
  BY <1>7, <1>8, <1>11, <1>12 DEF Registers, InBody, Mode, Alone
<1>14. (\E s \in Systems : New(s)) => hw'.spie
  BY <1>1, <1>12 DEF SystemsFirst, InBody
<1> QED  BY <1>6, <1>7, <1>8, <1>9, <1>12, <1>13, <1>14, AloneInv

\* sret: the frame of the handler is taken from its thread's stack.
LEMMA ReturnInv ==
  ASSUME IInv, ReturnFromTrap
  PROVE  IInv'
<1> USE DEF IInv
<1> DEFINE f == Top(running)
<1>1. running \in Threads /\ saved[running] \in Seq(Frames) /\ here = "handler"
  BY DEF TypeOK, ReturnFromTrap
<1>2. StackOf(running, "handler", saved[running], FALSE)
  <2>1. StackOf(running, "handler", saved[running], running \in finished)
    BY <1>1 DEF Stacks, here
  <2>2. running \notin finished
    BY DEF Registers
  <2> QED  BY <2>1, <2>2 DEF StackOf
<1>3. /\ Len(saved[running]) \in {1, 2}
      /\ BodyFrame(running, saved[running][1])
      /\ saved[running][1].sepc[2] \in InBody
  BY <1>2 DEF StackOf, BodyFrame
<1>4. saved[running][1] \in Frames /\ f \in Frames
  BY <1>1, <1>3, ElementOfSeq DEF Top
<1>5. /\ saved' = [saved EXCEPT ![running] = saved'[running]]
      /\ saved'[running] = SubSeq(saved[running], 1, Len(saved[running]) - 1)
  BY <1>1 DEF ReturnFromTrap, Pop, TypeOK
<1>6. /\ pc' = [pc EXCEPT ![running] = f.sepc]
      /\ hw' = [mode |-> f.spp, sie |-> f.spie, spp |-> "U", spie |-> TRUE,
                sepc |-> f.sepc]
      /\ running' = running /\ finished' = finished
  BY DEF ReturnFromTrap, Sret
<1>7. hw' \in HwType /\ hw'.spie
  BY <1>4, <1>6 DEF HwType, Frames
<1>8. CASE Len(saved[running]) = 1
  <2> DEFINE place == f.sepc[2]
  <2>1. f = saved[running][1] /\ BodyFrame(running, f) /\ place \in InBody
    BY <1>3, <1>8 DEF Top
  <2>2. f.sepc = In(running, place) /\ place \in Places
    BY <1>4, <2>1 DEF Frames, Points, In, BodyFrame
  <2>3. saved'[running] = <<>>
    BY <1>1, <1>4, <1>5, <1>8, PushPop
  <2>4. saved'[running] \in Seq(Frames) /\ Len(saved'[running]) = 0
    BY <2>3
  <2>5. StackOf(running, place, saved'[running], running \in finished)
    BY <2>1, <2>3, <2>4 DEF StackOf, InBody
  <2>6. Alone(place) /\ here' = place
    BY <1>1, <1>5, <1>6, <2>2 DEF Alone, here, In, TypeOK
  <2>7. Registers'
    BY <1>6, <2>1, <2>6 DEF Registers, BodyFrame, InBody, Mode
  <2> HIDE DEF f, place
  <2> QED  BY <1>7, <2>2, <2>4, <2>5, <2>6, <2>7, AloneInv
<1>9. CASE Len(saved[running]) = 2
  <2>1. /\ f = [sepc |-> In(running, "printing"), spp |-> "S", spie |-> FALSE]
        /\ running \notin Systems
    BY <1>2, <1>9 DEF StackOf, Top
  <2>2. /\ saved'[running] \in Seq(Frames) /\ Len(saved'[running]) = 1
        /\ saved'[running][1] = saved[running][1]
    BY <1>1, <1>4, <1>5, <1>9, PushPop
  <2>3. StackOf(running, "printing", saved'[running], running \in finished)
    BY <1>3, <2>1, <2>2 DEF StackOf, InBody
  <2>4. Alone("printing") /\ here' = "printing" /\ "printing" \in Places
    BY <1>1, <1>5, <1>6, <2>1 DEF Alone, here, In, TypeOK, Places
  <2>5. Registers'
    BY <1>6, <2>1, <2>4 DEF Registers, InBody
  <2> QED  BY <1>7, <2>2, <2>3, <2>4, <2>5, AloneInv
<1> QED  BY <1>3, <1>8, <1>9

\* A switch: the registers stay, the running thread changes.
LEMMA SwitchInv ==
  ASSUME IInv, Idle \notin Threads, NEW u \in Threads \ {running}, MayRun(u),
         running' = u, hw' = hw, saved' = saved, u \notin finished',
         \/ /\ here \in {"handler", "masked"}
            /\ pc' = pc /\ finished' = finished
         \/ /\ here \in {"printing", "ending"}
            /\ pc' = [pc EXCEPT ![running] = In(running, "handler")]
            /\ finished' = finished \cup {running}
  PROVE  IInv'
<1> USE DEF IInv
<1>1. /\ running \in Threads
      /\ \A t \in Threads \ {running} : pc'[t] = pc[t]
      /\ pc'[running] = pc[running] \/ pc'[running] = In(running, "handler")
      /\ pc'[running][2] \in {"handler", "masked"}
  BY DEF TypeOK, here, In
<1>2. TypeOK'
  <2>1. In(running, "handler") \in Points
    BY <1>1 DEF Points, In, Places
  <2>2. pc' \in [Threads -> Points]
    BY <2>1 DEF TypeOK
  <2>3. finished' \subseteq Threads
    BY <1>1 DEF TypeOK
  <2> QED  BY <2>2, <2>3 DEF TypeOK
<1>3. OwnCode'
  BY <1>1 DEF OwnCode, In
<1>4. Stacks'
  <2>1. ASSUME NEW t \in Threads \ {running}
        PROVE  StackOf(t, pc'[t][2], saved'[t], t \in finished')
    BY <1>1 DEF Stacks
  <2>2. StackOf(running, pc'[running][2], saved'[running], running \in finished')
    <3>1. StackOf(running, here, saved[running], running \in finished)
      BY <1>1 DEF Stacks, here
    <3>2. CASE pc' = pc /\ finished' = finished
      BY <3>1, <3>2 DEF here
    <3>3. CASE here \in {"printing", "ending"} /\ pc'[running][2] = "handler"
               /\ running \in finished'
      BY <3>1, <3>3 DEF StackOf, InBody
    <3> QED  BY <1>1, <3>2, <3>3 DEF TypeOK, In
  <2> QED  BY <2>1, <2>2 DEF Stacks
<1>5. Suspended'
  BY <1>1 DEF Suspended
<1>6. here' \in {"wrapper", "handler", "masked"} /\ here' = pc[u][2]
  BY <1>1 DEF Suspended, here
<1>7. here \notin InBody
  BY DEF InBody
<1>8. \A t \in Threads : New(t)' => New(t)
  BY <1>1 DEF New, In
<1>9. ASSUME u \notin finished, here' = "wrapper" PROVE New(u)
  <2>1. pc[u] \in Points /\ pc[u][1] = u /\ pc[u][2] = "wrapper"
    BY <1>6, <1>9 DEF OwnCode, TypeOK
  <2> QED  BY <1>9, <2>1 DEF New, Points, In
<1>10. u \notin finished
  OBVIOUS
<1>11. Registers'
  BY <1>6, <1>7, <1>9, <1>10 DEF Registers, SystemsFirst, InBody
<1>12. SystemsFirst'
  <2>1. ASSUME NEW s \in Systems, New(s)'
        PROVE  hw.spie /\ \A v \in Threads \ Systems : New(v)'
    <3>1. New(s) /\ s \in Threads \ {Idle}
      BY <1>8, <2>1, TrapsAssumption
    <3>2. hw.spie /\ \A v \in Threads \ Systems : New(v)
      BY <1>7, <3>1 DEF SystemsFirst
    <3>3. u \in Systems
      BY <3>1, <3>2 DEF MayRun
    <3>4. \A v \in Threads \ Systems : v # running
      BY <3>2 DEF New
    <3> QED  BY <1>1, <3>2, <3>3, <3>4 DEF New
  <2> QED  BY <2>1 DEF SystemsFirst
<1> QED  BY <1>2, <1>3, <1>4, <1>5, <1>11, <1>12

-----------------------------------------------------------------------------
\* Every step keeps the invariant.
LEMMA StepInv == IInv /\ Idle \notin Threads /\ [Next]_vars => IInv'
<1> SUFFICES ASSUME IInv, Idle \notin Threads, [Next]_vars PROVE IInv'
  OBVIOUS
<1>0. running \in Threads /\ pc[running] = In(running, here)
      /\ here \in Places
  BY DEF IInv, TypeOK, OwnCode, Points, In, here
<1>1. CASE Compute \/ Wrap \/ WriteSepc \/ StartBody
  BY <1>1, PlainInv
<1>2. CASE Ecall
  <2>1. CASE here = "first" /\ Trap(In(running, "second"), "handler")
    BY <2>1, TrapInv DEF Places, InBody
  <2>2. CASE here = "exit" /\ Trap(In(running, "wrapper"), "ending")
    BY <2>2, TrapInv DEF Places, InBody
  <2>3. CASE here = "printing" /\ Trap(In(running, "printing"), "handler")
    BY <2>3, TrapInv DEF Places, InBody
  <2> QED  BY <1>2, <2>1, <2>2, <2>3 DEF Ecall
<1>3. CASE Interrupt
  <2>1. here \in InBody
    BY <1>3 DEF Interrupt, IInv, Registers
  <2> QED  BY <1>0, <1>3, <2>1, TrapInv DEF Interrupt, InBody
<1>4. CASE Exception
  <2>1. here \in InBody /\ running \notin Systems
    BY <1>4 DEF Exception, IInv, Registers, InBody
  <2> QED  BY <1>0, <1>4, <2>1, TrapInv DEF Exception, InBody
<1>5. CASE Mask
  BY <1>5, MaskInv
<1>6. CASE Unmask
  BY <1>6, UnmaskInv
<1>7. CASE ReturnFromTrap
  BY <1>7, ReturnInv
<1>8. CASE Yield
  <2>1. PICK u \in Threads \ {running} : MayRun(u) /\ running' = u
    BY <1>8 DEF Yield
  <2> QED  BY <1>8, <2>1, SwitchInv DEF Yield, MayRun
<1>9. CASE Finish
  <2>1. PICK u \in Threads : u \notin finished' /\ MayRun(u) /\ running' = u
    BY <1>9 DEF Finish
  <2>2. u # running
    BY <1>9, <2>1 DEF Finish
  <2> QED  BY <1>9, <2>1, <2>2, SwitchInv DEF Finish, Goto
<1>10. CASE UNCHANGED vars
  BY <1>10 DEF vars, IInv, TypeOK, OwnCode, Stacks, Registers, SystemsFirst,
               Suspended, New, here
<1> QED  BY <1>1, <1>2, <1>3, <1>4, <1>5, <1>6, <1>7, <1>8, <1>9, <1>10 DEF Next

\* The invariant, whatever the threads do, when the idle thread is not there.
LEMMA Invariant == ASSUME Idle \notin Threads PROVE Spec => []IInv
<1>1. IInv /\ [Next]_vars => IInv'
  BY StepInv
<1> QED  BY InitInv, <1>1, PTL DEF Spec

\* No thread ever returns from a trap into the code of another.
THEOREM ComesBack == ASSUME Idle \notin Threads PROVE Spec => []OwnCode
<1>1. IInv => OwnCode
  BY DEF IInv
<1> QED  BY Invariant, <1>1, PTL

\* A user thread never runs with the kernel's privilege, and a system thread
\* never without.
THEOREM RunsInItsMode == ASSUME Idle \notin Threads PROVE Spec => []OwnMode
<1>1. IInv => OwnMode
  BY DEF IInv, Registers, OwnMode
<1> QED  BY Invariant, <1>1, PTL

\* Kernel code is never interrupted.
THEOREM KernelRunsMasked ==
  ASSUME Idle \notin Threads PROVE Spec => []KernelIsMasked
<1>1. IInv => KernelIsMasked
  BY DEF IInv, Registers, KernelIsMasked, InBody
<1> QED  BY Invariant, <1>1, PTL

\* A system thread in its body can be interrupted, however it was suspended.
THEOREM SystemsCanBeInterrupted ==
  ASSUME Idle \notin Threads PROVE Spec => []SystemsInterruptible
<1>1. IInv => SystemsInterruptible
  BY DEF IInv, Registers, SystemsInterruptible, InBody
<1> QED  BY Invariant, <1>1, PTL

\* A handler returns through a frame its own thread has pushed, and a body
\* starts and goes on with none left over.
THEOREM FramesStayOwn == ASSUME Idle \notin Threads PROVE Spec => []FramesAreOwn
<1>1. ASSUME IInv, NEW t \in Threads
      PROVE  /\ \A i \in 1 .. Len(saved[t]) : saved[t][i].sepc[1] = t
             /\ pc[t][2] \in InBody => saved[t] = <<>>
  <2>1. StackOf(t, pc[t][2], saved[t], t \in finished)
    BY <1>1 DEF IInv, Stacks
  <2>2. /\ pc[t][2] \in Places
        /\ saved[t] \in Seq(Frames) /\ Len(saved[t]) \in Nat
        /\ Len(saved[t]) = 0 <=> saved[t] = <<>>
    BY <1>1 DEF IInv, TypeOK, Points
  <2>3. pc[t][2] \in InBody => saved[t] = <<>>
    BY <2>1 DEF StackOf
  <2>4. saved[t] = <<>> \/ BodyFrame(t, saved[t][1])
    BY <2>1, <2>2 DEF StackOf, Places, InBody
  <2>5. PICK n \in {0, 1, 2} : Len(saved[t]) = n
    <3>1. Len(saved[t]) <= 2
      BY <1>1 DEF IInv, TypeOK
    <3>2. \A m \in Nat : m <= 2 => m \in {0, 1, 2}
      OBVIOUS
    <3> QED  BY <2>2, <3>1, <3>2
  <2>6. Len(saved[t]) = 2 => saved[t][2].sepc[1] = t
    BY <2>1 DEF StackOf, In
  <2>7. ASSUME NEW i \in 1 .. Len(saved[t])
        PROVE  saved[t][i].sepc[1] = t
    <3>1. i \in 1 .. n /\ n # 0
      BY <2>5
    <3>2. saved[t] # <<>> /\ (i = 1 \/ (i = 2 /\ n = 2))
      BY <2>2, <2>5, <3>1
    <3> QED  BY <2>4, <2>5, <2>6, <3>2 DEF BodyFrame
  <2> QED  BY <2>3, <2>7
<1>2. IInv => FramesAreOwn
  BY <1>1 DEF FramesAreOwn
<1> QED  BY Invariant, <1>2, PTL
=============================================================================
