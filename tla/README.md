# Verification of the kernel of os1-proj-2024

TLA+ modules, TLC configurations and TLAPS proofs for a small preemptive
multithreading kernel for RISC-V. Files of the kernel are named without their
directory (`tcb.cpp`); `PROJECT.json` gives full paths.

## The system

One processor, one interrupt-masked kernel: every trap (system call, timer
interrupt, external interrupt, exception) enters with interrupts masked and stays
so until `sret`. Concurrency comes from four places. A handler may *switch
context* in its middle (`TCB::yield`), and then the rest of it runs when its
thread is next given the processor. The timer may preempt any thread that is not
in the kernel, the kernel's own console threads included. The UART works on its
own. And one thread's call acts on others: it wakes them, closes their semaphores,
ends their joins.

| Component | State | Operations | Acts on |
|---|---|---|---|
| Scheduler (`scheduler.cpp`) | the ready list, the idle thread | `put`, `get`, `close` | `TCB::nextReady` |
| Threads (`tcb.cpp`) | `TCB::running`, the time slice, per thread: `finished`, `parent`, `numOfActiveChildren`, four semaphores, `message` | `threadCreate`, `yield`, `finish`, `threadDeleteAll` | scheduler, semaphores, sleep |
| Semaphores (`kSemaphore.cpp`) | `active`, `value`, list of blocked threads; per thread `blockedAtSem`, `tokensNeeded`, `unblockManner` | `wait`, `timedWait`, `tryWait`, `signal`, `signalAll`, `close` | scheduler, sleep |
| Sleep (`sleep.cpp`) | a list of differences: each thread keeps the ticks it wakes after the one before it | `put`, `get`, `sleep`, `onTick`, `wakeUpAll` | scheduler, semaphores |
| Traps and calls (`kernel.cpp`, `kernel_asm.S`, `tcb_asm.S`) | what a suspended handler is in the middle of (its stack); `sepc` and `sstatus` | one handler for each system call, timer, console, exception; the frame of a trap, the switch, `threadWrapper` | all of the above |
| Messages (`kernel.cpp`, `tcb.hpp`) | a one-slot mailbox per thread and two semaphores of it | `handleSend`, `handleReceive` | semaphores |
| Memory manager (`memoryManager.cpp`) | doubly linked lists of segment headers: free, system, user | `memAlloc_`, `memFree_` | none |
| Start and shutdown (`main.cpp`) | where `main()` is | create and join the thread of `userMain`, sleep, delete everything | all |
| Console (`io.cpp`, `io.hpp`) | two ring buffers with two semaphores and a mutex each, two kernel threads, `inputPass`, `outputPass` | `getc`, `putc`, the external interrupt | semaphores, the UART |
| Printing (`util/mPrint.cpp`, `mLock.S`) | the word of the print lock | `MLOCK`, `MUNLOCK`, printing of numbers and strings | system calls of the console and the scheduler |
| C and C++ interfaces, testers, user tests | none that matters here | wrappers, programs | system calls |

### What is hard about it

* **A thread that waits with a timeout is on two lists.** A signal, a close and
  the tick that ends the wait may each claim it first, and whoever does must take
  it off the other list. Otherwise the thread is made ready twice, or a later
  token goes to a thread that does not wait.
* **State of an earlier wait.** `unblockManner` and `tokensNeeded` are members
  of the TCB that survive the wait that set them.
* **Two counts of the same children.** `numOfActiveChildren` and, while the
  parent is blocked in `joinAll`, the tokens it still needs.
* **The order in `TCB::finish`.** `semJoin` is signalled and then closed;
  `finished` is set before the final yield.
* **Calls suspended between their wait and their signal**: `send` and `receive`.
* **The list of differences**: taking a thread from its middle must leave
  everybody's wake-up tick where it was, and its head must never reach 0
  between two ticks, since the next decrement of the unsigned member wraps.
* **Pointers to the last thread of a list.** A time-out takes a thread from the
  middle or the end of a semaphore's list; a tail that still points to it loses
  the next thread that blocks. The ready list empties and fills all the time.
* **The console threads run with interrupts enabled** and share two flags with
  the interrupt handler: a status read before an interrupt is stored over what
  the interrupt has stored. The output thread reads the status of the transmitter,
  then waits for a character, then writes it.
* **`sepc` and `sstatus` belong to the processor.** While a handler is suspended
  other threads trap and overwrite them, and a thread that is started for the
  first time takes one of its bits from whatever trap came last.
* **The print lock** is taken by a load-reserved and a store-conditional with
  preemption between them, and its holder may wait for the console. The tenth of
  a number is taken by a multiplication that is one too large now and then.
* **The heap**: any order of frees must leave lists that are sorted, linked both
  ways and merged.
* **Progress**: a thread that makes no call, a thread waiting for one that ends
  by an exception, the shutdown.

`PROJECT.json` lists these hazards line by line with the properties that cover
them.

## The modules

```
Lists ─ KernelState ─ Scheduler ─ Sleep ─ KSemaphore ─ TCB ─ Kernel ─ KernelProperties
        TCB ─ KernelRecord, KernelProperties ─ KernelInvariant ─ KernelAnswers
                                               KernelInvariant ─ MCKernel ─ MCPrograms
        TCB ─ Console, KernelRecord ─ ConsoleInvariant
              Console     ··implements·· Pipe
        KernelState ─ LinkedLists ··implements·· Queues ─ KSemaphore
                      LinkedLists, KernelRecord ─ LinkedInvariant
          Scheduler ─ PrintLock ─ Numbers
                      Traps
         HeapLayout ─ MemoryManager ··implements·· Heap
                      MemoryManager ─ MemoryInvariant

proofs: Routines_proofs ─ Kernel_proofs ─ Answers_proofs
        Routines_proofs ─ Console_proofs
        Routines_proofs ─ LinkedLists_proofs
        PrintLock_proofs, Traps_proofs, MemoryManager_proofs
```

* **Lists** — the few operators on queues that everything else uses.
* **KernelState** — the constants and the *record of the kernel*. A handler runs
  with interrupts masked, so what it calls composes into one atomic change; the
  routines of the kernel are therefore operators from a record to a record, and
  one handler is one composition of them. A member that is a `bool` in C++ is a
  set of threads or semaphores; a linked list is a sequence.
* **Scheduler, Sleep, KSemaphore, TCB** — the routines of the four source files.
  `wait` and `timedWait` suspend their caller in the middle, so they appear as
  the pieces before it (`Acquire`, `Block`, `BlockForNoTime`) and after it
  (`ResolveManner`). `Finish` is the whole of `TCB::finish`: close the mailbox,
  signal and close `semJoin`, tell the parent, close `semJoinAll`, leave the
  lists, mark the thread, yield.
* **Kernel** — the state machine. `frame[t]` is what thread `t` is in the middle
  of; `Resume` runs the rest of that handler when `t` has the processor again.
  The user's threads are an environment: whichever has the processor makes any
  call of `Calls` with any argument, or none. `main()` is the thread `Master`;
  the idle thread ends again and again (`IdleExit`), since `threadWrapper` is its
  own return address and `Scheduler::spin` returns at once. `returned` is the
  answer of the call that returned in the last step, for the properties only.
* **KernelProperties** — the properties. **KernelRecord** — the parts of the
  inductive invariant that speak of the record of the kernel alone, which every
  routine keeps; **KernelInvariant** adds what ties the record to the suspended
  handlers, **KernelAnswers** what is true of their answers, of the children
  counted and of the mailboxes. **MCKernel** — the sets of calls the runs use; **MCPrograms** — the behaviours of the run `Threads`, in which the users
  keep to one of several sets of calls.
* **LinkedLists** — the ready list, the sleep list and the lists of blocked
  threads pointer by pointer: heads, tails, `nextReady`, `nextSleep`,
  `nextSemBlocked`, `timeSleepRelative`, the loops as loops (`While`), every
  routine of `Scheduler`, `Sleep` and `kSemaphore` that links or unlinks, and the
  shutdown. **Queues** is a state machine made of the operators of Scheduler.tla,
  Sleep.tla and KSemaphore.tla alone. That the pointers implement it, which the run
  `LinkedLists` checks and `LinkedLists_proofs` proves, is what entitles the kernel
  model to speak of sequences and of "ticks that remain". **LinkedInvariant** is the
  inductive invariant, as predicates on the memory and the sequences.
* **Console** — `io.cpp`, `CharBuffer`, `getc` and `putc`, over the kernel model's
  own semaphores and scheduler. A buffer operation is one step unless it waits;
  then `call[t]` says where it is and `Resume` goes on. The console threads take
  one access to shared data per step, so that interrupts fall between the read of
  the status (`LoadStatus`) and its assignment (`StorePass`), and between those and
  the data register. The UART is external: a receiver's FIFO and a transmitter
  that is busy for a while. **Pipe** is what each direction promises, a bounded
  queue of characters and, for each of its writers, the character it waits to put.
  The refinement maps the slots of the ring between the two positions and the
  character the console thread carries to the queue, on the input side with the
  receiver's FIFO behind them, so that what enters is what is typed. On the output
  side the character a suspended `putc` will put is the one it was called with; a
  `putc` that does not wait goes through the same `RingPut`.
  **ConsoleInvariant** is the inductive invariant of `Console`, on top of
  KernelRecord's.
* **PrintLock** — `m_copy_and_swap` one instruction per step under `MLOCK` and
  `MUNLOCK`, with the holder printing a number digit by digit; **Numbers** —
  `mConvertInt`, with the multiplication by `FACTOR_32`, in words of any width.
* **Traps** — `sepc`, the bits SPP, SPIE and SIE, the frames on each thread's
  stack; traps, `sret`, the switch, masked sections, the start of a thread. Which
  thread a handler switches to is left open, so that every interleaving of
  handlers the scheduler can produce is among them.
* **MemoryManager** — the methods of `MSH` and of the manager on lists of
  headers, with `size_t` arithmetic that wraps, the loops as recursive functions;
  **Heap** is what they promise (lowest run that fits, whole segments back), and the
  run `MemoryManager` shows the lists implement it. **HeapLayout** has the
  parameters both share, **MemoryInvariant** the inductive invariant of the lists.

Every definition that stands for code has its lines in `PROJECT.json` under
"map". Definitions introduced by a comment "Mutant of" are deliberate mistakes,
each of which makes one run fail; nothing uses them.

### Abstractions

* In `Kernel` and `Console`, `contextSwitch` is the point where a handler is
  suspended; what it does to registers and stacks is in `Traps`. The values of the
  general registers are in no model.
* A text passed by `send` is a model value. The *pointer* `receive` returns
  stays valid only until the next sender writes the slot; see "not modelled".
* Logging prints through the console and may suspend the thread. It is left out
  of `Kernel`: on the exception path, where it is the ecall from "printing" in
  `Traps`, and in `main()`, which logs its start and its end (`main.cpp:71-75`,
  `main.cpp:93-94`). `ProgramEnds` supposes that what `main()` itself prints comes
  back.
* When `handleThreadCreate` finds no memory for the stacks, `Kernel` leaves the
  record as it was. In the code the four semaphores of the TCB stay in the list of
  all semaphores until the shutdown, closed and in nobody's hands.
* `buf` of `mPrintInt_nonatom` has 16 characters (`mPrint.cpp:115`), which
  `PrintLock` does not bound. Its numbers are printed in base 10, signed or not, and
  in base 16, the bases the repository uses: at most 11 characters at 32 bits.
* The kernel's input and output threads do not exist in `Kernel`; they are the
  subject of `Console`, whose users make no calls but `getc` and `putc`.
* In `LinkedLists` and `Queues` the only thread that waits for several tokens is
  the owner of the semaphore, as for `joinAll`, and the calls are made one by one
  without the handlers around them.
* The processor drops a reservation at every trap (`PrintLock`), as the emulator
  the kernel is built for does. The kernel itself executes no `sc` at a switch, and
  without this the lock would not exclude: `TrapKeeps` is the mutant.
* Allocation inside the kernel: `handleThreadCreate` may fail for want of memory;
  the allocation of a semaphore does not fail here (`ERR_SEM_CREATE` is not
  produced).
* A finished thread's TCB stays until shutdown, as in the code.
* `numOfActiveChildren` is a `size_t`; `CountMod` stands for 2^64.

## The runs

All bounds are constants of the `.cfg` files. Threads other than `Master`,
`Idle` and `UserMain` are interchangeable and the safety runs use that symmetry;
`Progress` has none, since symmetry is not sound for liveness.

| Run | Question | Bounds |
|---|---|---|
| Threads | Are threads ever lost or in two places; are children counted and joins true; is the slot of a mailbox in one hand; is the end final? | 3 user threads in four kinds of programs: joins with and without timeouts; ends, faults, yields and sleeps; sends and receives of two messages, with ends in between; sleeps and timed waits with timeouts up to 2 |
| Semaphores | Do the two views of a blocked thread agree; is a waiter short of a token; are the reasons reported its own; is the order kept? Does the inductive invariant hold? | 3 user threads, every semaphore call on one semaphore: two waiters and one that acts; values 0..1, timeouts 0..1 |
| Progress | Does every ready thread run, every timed call return, the program end? | 2 user threads; every call but those on a program's semaphore other than opening it and waiting with a timeout (a `join` is signalled and closed, a mailbox is waited for); timeouts of 0 and 1, a slice of 2 ticks |
| LinkedLists | Do the pointers of the three kinds of lists implement the sequences and timers? | 4 threads, a program's semaphore and one of a `joinAll`, up to 2 tokens, timeouts up to 3: a put and a removal at the head, in the middle and at the end of each list, with equal and different ticks, and the list of one |
| MemoryManager | Are the lists linked, complete and merged; do they implement the heap? | 6 blocks of 2 bytes, requests of 0, 1, 2 and 3 blocks and one too large, frees of every address of the heap, allocated or not |
| Console | Are characters kept in order, none lost or doubled; is the device ready when it is used; can somebody always run? | two users that read, or two that write; buffers of 2, two characters |
| Echo | Is everything put transmitted, everything typed read, although flags are overwritten? | one thread that reads and writes, buffers of 1, one character |
| PrintLock | Does one thread print at a time, does a number come out whole and right; is the lock given back and taken? | 2 printers; words of 8 bits (`FACTOR_32` 26) and eight numbers, among them those the multiplication gets wrong (69, 249), the ends of the signed and the unsigned range |
| Traps | Does each thread come back to its own code in its own mode, masked or not as it should be? | 2 system and 2 user threads |
| HugeRequest | *(violation)* does `mem_alloc` give what it was asked for? | `SizeMod` 64, a request of 63 |
| CloseWhileWaiting | *(violation)* does `sem_timedwait` answer as the assignment says? | 2 user threads, one semaphore |
| IdleAgain | *(violation)* does the idle thread run in system mode? | `main()`, one user thread and the idle thread |

Why they are enough. The races of the kernel are between one thread that waits,
one that acts on it and one that is next in a list; three threads make all of them.
They never need more than one program's semaphore, because a thread waits at one
at a time, and the semaphores that come with each thread (two for joins, two for
the mailbox) are there besides. A timeout of 2 has a tick that does not end it. A
ring of two slots is full, half full and empty, and wraps; with two users on one
side there is always one behind the one the console thread serves. `Threads` splits
the calls into programs since all calls together do not fit; what two calls of
different programs do to each other is covered by the proofs, which have no such
split: every invariant, action property and refinement that a passing run checks is
a theorem. So it is with a second semaphore: that a close of one is still in
`unblockManner` when the thread waits at another (`ReasonsAreFresh`) does not occur in
`Semaphores`, where a closed semaphore is not opened again, and is covered by
`ReasonsNeverStale`.

Each property of a passing run has a mutant in `PROJECT.json`: a plausible bug in
the code it is about, with which TLC finds the property violated under the same
configuration.

Deadlock is checked in every run but `LinkedLists`, where nothing runs after the
shutdown. In `Kernel` the halt after the shutdown is the explicit step `Halted`.

### Safety

Of the kernel: `NoThreadLost` (one place per thread), `BlockedListsAgree`,
`WaitersAreShort`, `SleepListInOrder`, `ChildrenAreCounted`, `JoinsAreTrue`,
`ReasonsAreFresh`, `OneMessageSlot`, `ReceivesAMessage`; as action properties
`NoOvertaking` (first come, first served, in the ready list and at every
semaphore) and `EndIsFinal`. Of the lists: `ListsAreWhole` (each list ends at its
tail, a TCB is on one list of a kind at most), `HeadHasTicksLeft`. Of the heap:
`ListsLinked`, `EveryBlockOnce`, `FreeIsMerged`. Of the console: `SlotsAreCounted`
(semaphores and positions tell the same, also while a token is on its way to a
thread), `MutexNeverContended` (the mutex of a buffer is never waited for: the
masked section around it already excludes), `DeviceIsReady`, `SomebodyCanRun`. Of
the registers: `OwnCode`, `OwnMode`, `KernelIsMasked`, `SystemsInterruptible`,
`FramesAreOwn`. Of printing: `OnePrints`, `NumbersComeOutWhole`.

`ChildrenAreCounted` excludes `Master`: the idle thread is its child and ends
without end, so the count of `Master` is not a count of anything; `main()` never
asks for it.

### Liveness and fairness

`EveryReadyThreadRuns`, `TimedCallsReturn`, `ProgramEnds` are checked under
`FairSpec`:

* the processor goes on with the handler it is in (weak fairness of `Resume`);
* the timer is taken again and again if the processor is in user mode again and
  again (strong fairness of `handleTimer`): a tick sets a pending bit in `sip`,
  which stays set while interrupts are masked, so a tick cannot be missed for
  ever by masking them now and then;
* `main()` gets further in each turn it has (strong fairness of `MainStep`): the
  timer interrupts it between two instructions, and a slice is longer than the
  few instructions between two of its calls.

Nothing is assumed of the user's threads, not even that they make calls. The
conditions in `Fairness` are exactly the guards of the three actions.

`Console` assumes the same of the processor and the timer, and besides that the
console threads get further in the turns they have (strong fairness of `IOStep`),
that the UART's request stays pending until it is taken (strong fairness of
`handleExternal`, the PLIC holds it), and that a transmission ends. Under these
`PutIsTransmitted` and `TypedIsRead` hold: a flag that is overwritten is set again
by the next interrupt, which the device asks for as long as it has a character or
can take one. Nobody is assumed to type or to read.

`PrintLock` assumes that the timer ticks, that the console answers its waiters,
that a thread gets further in its turns and prints only so much, and that the
turns are far longer than the few instructions of an lr/sc sequence, so that not
every lr/sc sequence, of all the threads together, is cut off by a trap. The last is
supposed, since nothing in the code bounds the retries: `LockIsTaken` shows that a
thread that found the lock taken comes back from its dispatch and tries again, not
that threads cannot cut each other's sequences for ever. `LockIsReleased` and
`LockIsTaken` follow; that a particular thread gets the lock does not, and the code
does not promise it (a failed try dispatches and starts again). The loop of `MUNLOCK`
is in the model too; `OnePrints` says that it never goes round for a failed
comparison.

## Proofs

| Modules | What they are about | For every |
|---|---|---|
| Lists, Routines, Kernel, Answers | the kernel's lists, routines, handlers and answers | number of threads and semaphores, value, timeout, message, set of calls |
| Console | buffers, console threads, device | set of users and characters, length of the buffers |
| PrintLock | the lock, the digits of a number | number of threads, width of a word |
| LinkedLists | the pointers of the ready list, the sleep list and the semaphores' lists, their refinement | number of threads and semaphores, timeout, tokens |
| Traps | registers and frames | number of system and user threads |
| MemoryManager | the lists of headers, what the heap promises, their refinement | size of the heap and of a block, set of requests and frees |

The assumptions are on the constants, named, and TLC evaluates all of them in
the runs: `ThreadsAssumption` (the three kernel threads are different, the semaphores
of threads are not the program's, nothing of this is null), `NumbersAssumption`
(`CountMod` exceeds the number of threads), `ParametersAssumption`,
`MessagesAssumption` (null is not a message: a text sent is an address),
`ConsoleAssumption` (the threads, semaphores and characters of the console are
different, a buffer has a slot), `PatternsAssumption` (a number is a word),
`BoundsAssumption` (finitely many semaphores of the program; the bounds on timeouts and
tokens are numbers), `HeapAssumption` and `SizesAssumption` (the heap begins above block 1, a block has
two bytes at least, the heap fits in a `size_t` with a block to spare).

The first part of `Routines_proofs` is what the operators on queues do, among them that taking a
set of threads out of a queue keeps the others in their order. `Without` is defined
by the rank of a position, so that these facts need no induction over sequences.

### Types and safety of the kernel

The rest of `Routines_proofs` has two lemmas for each routine: it maps a record of the kernel
to a record of the kernel, and it keeps `Good`, the part of the invariant that
speaks of the record. `Kernel_proofs` composes them as the code composes the
routines: a lemma for each piece a handler is made of, one for each handler.
`TypeCorrect == Spec => []TypeOK` is more than bookkeeping: every queue operation
must yield a sequence of threads again, and the head of a list is only taken where
a guard of the code shows there is one. Then come the properties:

| Theorem | Property |
|---|---|
| `ThreadsNeverLost` | `NoThreadLost` |
| `BlockedViewsAgree` | `BlockedListsAgree` |
| `WaitersLackTokens` | `WaitersAreShort` |
| `SleepersInOrder` | `SleepListInOrder` |
| `FinishedForEver` | `EndIsFinal` |
| `NobodyOvertakes` | `NoOvertaking` |

None of them is inductive. A wake-up is harmless only if the two lists agree
about every waiter; the lists stay in agreement only if a thread is put on them
once, which needs to know where the running thread is *not*; that a thread is not
lost needs both. The invariant that is inductive, `IInv`, is the conjunction of
small statements, most of them in KernelRecord:

* `ListsAgree`, `Short`, `SleepersListed` — the semaphores' lists, the sleep list
  and the members of the TCBs tell the same, and waiters lack tokens;
* `ReadyCanRun`, `WaitersLive`, `Placed` — the ready list holds threads that may
  run and do not, only live threads wait, everybody alive is somewhere;
* `Registered` — a semaphore that is open is the program's or belongs to a thread
  that exists, so the semaphores of a new thread cannot have waiters;
* `RunnerRuns` — the running thread waits for nothing;
* `CallsExplain` — a blocked thread is in a call that waits where it is blocked;
* `NobodyYet` — `main()` has no children but the idle thread before it creates the
  first; and, after the shutdown, that all lists are empty.

The run `Semaphores` checks `IInv` itself; `AnswersInv`, `ConsoleInv` and `ListsInv`
below were checked by TLC in the same way before they were proved, and are theorems
(`AnswersAlways`, `ConsoleInvAlways`, `ListsInvAlways`). `wait`, `timedWait` and `sleep` break
`RunnerRuns` between putting the running thread on a list and yielding, so `Good` is
split: `Consistent` holds even there, and `YieldKeeps` turns `Consistent` back into
`Good`. Two relations between the record before and after go with each lemma:
`Steady` (no thread or semaphore is made, no end or close undone, nobody newly
blocked) and the weaker `Later` (new ones may appear). They carry `CallsExplain` and
`EndIsFinal` over a step.

The order is a third relation of this kind, proved of each routine and composed by
transitivity: the ready list and the list of each semaphore before and after are
`q \o a` and `b \o r` with the same middle, so threads are added at the end and
taken from the front, and only a time-out takes one from between. `NoOvertaking`
is what that means for two threads of one list.

### Answers

What a call reports depends on what was written into the TCB of its thread, or into
a mailbox, while it was suspended, perhaps long before it runs again.
`Answers_proofs` proves that none of this is stale:

| Theorem | Property |
|---|---|
| `ReasonsNeverStale` | `ReasonsAreFresh` |
| `JoinsNeverLie` | `JoinsAreTrue` |
| `ReceivesWhatWasSent` | `ReceivesAMessage` |
| `ChildrenAlwaysCounted` | `ChildrenAreCounted` |
| `OneSlotAlways` | `OneMessageSlot` |

`AnswersInv` (KernelAnswers, on top of `IInv`) is inductive: the frame of a suspended
handler fits what still exists (`FrameFits`) and waits where its call says
(`WaitFits`); a thread woken and not yet run was told the truth, and nothing that
can happen until it runs makes it false (`Told`); a `joinAll` wants exactly the
children that are counted (`Needs`); the semaphores of a live thread are open and
those of the joins hold no token (`OwnSems`); the count is the number of children
whose parent has not yet been told (`Counted`); and of the two tokens of a mailbox
and the threads that were let in to it there is one in all (`Mailboxes`).

Several of these are false in the middle of `TCB::finish` and of `send`: `semJoin` is
signalled before `finished` is set, the token of the slot is taken before the other
is given. So `Answers` has the threads whose end has begun, those whose parent knows,
and the mailbox that is in the running thread's hands as parameters, and each lemma
says how a routine moves them.

### The console

| Theorem | Property |
|---|---|
| `SlotsAlwaysCounted` | `SlotsAreCounted` |
| `MutexNeverWaits` | `MutexNeverContended` |
| `DeviceAlwaysReady` | `DeviceIsReady` |
| `SomebodyAlwaysRuns` | `SomebodyCanRun` |
| `InputIsAPipe` | `ImplementsInputPipe` |
| `OutputIsAPipe` | `ImplementsOutputPipe` |

`ConsoleInv` takes the record's `Good` and the lemmas of `Routines_proofs` as they are
and adds (`Sound`) that each thread is in an operation of its own and waits, if it
does, for one of what that wants; that the mutexes are free between steps; and that
what there is to get and what there is to put make up the length of the buffer. A
token that `signal` gave to a thread which has not run since is in no semaphore's
value: the *stock* counts it with the value, and it is the stock, not the value,
that agrees with the positions of the ring (`RingFits`). `HandsFit` and `DeviceFits`
say what a console thread carries, and that what it read of the device's status is
still so when it uses the device.

Nobody needs to be able to run for a lack of errors, so `SomebodyCanRun` is a theorem
of its own: if the two console threads and the users were all blocked, those at one
buffer would be at both its semaphores or the wrong one, and both stocks would be
0, though their sum is the length. The refinement has one lemma for each step. A
key typed, a `getc` that returns, a `putc` that leaves its character in the ring and
a character written to the transmitter are `Put` or `Get` of a pipe, a `putc` that has
to wait is an `Offer`; whatever the console threads move stays in its pipe.

### The queues of threads

`LinkedLists_proofs` goes below the record: heads, tails, links, differences and the
loops over them do what the routines of the kernel model do to sequences and ticks.

| Theorem | Property |
|---|---|
| `AlwaysWhole` | `ListsAreWhole` |
| `AlwaysTicksLeft` | `HeadHasTicksLeft` |
| `ListsImplementQueues` | `ImplementsQueues` |

The invariant `ListsInv` (`LinkedInvariant.tla`, `ListsInvAlways`) says of the memory
that the record its links show is `Good`, and that its members *represent* that
record: from each head on, the links are the sequence and end in null (`Chained`), the
tail is its last member, threads on no list keep no link, and the differences along
the sleep list sum up to the ticks that remain (`Differences`); after the shutdown
there is nobody on any list (`Down`). `Good` is needed in it: the pointer code may
link a thread only because the running thread is on no list, and a thread that is
released is awake afterwards only because the two lists it may be on agree about it.

The proof has three layers. What linking and unlinking one thread does to a chain is
said once for all three kinds of lists (`InsertChained`, `RemoveChained`), and once for
the differences (`DifferencesWith`, `DifferencesWithout`): a put takes its ticks from
its follower's, a get gives them back, nobody else's sum moves. Then every routine
takes a memory that represents a record to one that represents what the routine of
the kernel model makes of it (`ReadyPutDoes`, `SemGetDoes`, `SleepPutDoes` and so on).

The third is the loops. The model of a kernel routine wakes all its threads at once
(`Wake` takes a sequence), the code one in each round. A loop is followed through
*stages*: the sets of memories in which so many threads are left, each round leading
from one to the next (`LoopExists`, `LoopEnds`, `LoopThere`). `WakeMore` shows that
waking the first of a sequence and then the others is waking the sequence; `SignalLoop`
that one token signalled releases one thread or shortens the need of the first;
`SearchIs` that the search of `Sleep::put` ends behind every thread that wakes no
later. No loop goes round more often than there are threads or semaphores
(`RoundsEnough`), so the bound `Rounds` of `While` never cuts one short. What is left
of the refinement is that `Queues`, under the mapping, is made of the same operators
(the lemmas `Same...`), and one step for each call (`CallImplements`).

### The print lock

`PrintLock_proofs` proves `LockExcludes == Spec => []OnePrints`
and the type invariant for any number of threads. `OnePrints` is not inductive: a
store that succeeds must find the word as its load saw it. `StillTrue` says so: a
reservation, while there is one, is the running thread's, and the word is still what
it expects. Every step that could change either drops the reservation.
`TenthIsTenth` is arithmetic: for every factor, hence every width with
10 * `FACTOR_32` = 2^width + 4 (32 bits with the value in the code among them) and
every word of that width, multiplication, shift and the correction loop give
`x \div 10` and `x % 10`. `kerneltest/mPrintTester.cpp` runs through the 2^32
cases of this on the machine when it is compiled in.

`NumbersAlwaysWhole == Spec => []NumbersComeOutWhole` goes on from there: when
the last digit of a number is out, what stands there reads as that number, for every
width, in base 10 with and without a sign and in base 16. Each round of `mConvertInt` divides by the base (for 10 by
`TenthIsTenth`), so `ConvertsToTheNumber` is induction over the number. The induction
theorems of the library take an operator as a parameter and cannot be used here; its
`WFMin` takes a set, and gives `LeastNat`, that a set of numbers which is not empty
has a least element. The recursive functions are then shown to have a value by the
least argument at which they would not, and to read back by the least number that
would not. `OwnNumbers` keeps the text that is left to print the holder's own.

### The registers

`Traps_proofs` proves `ComesBack` (`OwnCode`), `RunsInItsMode`
(`OwnMode`), `KernelRunsMasked` (`KernelIsMasked`), `SystemsCanBeInterrupted`
(`SystemsInterruptible`) and `FramesStayOwn` (`FramesAreOwn`: no handler returns
through another thread's frame) for any number of system and user threads, provided `Idle \notin Threads`: the idle thread
alone goes through its wrapper again, and `IdleAgain` shows what happens to it. The
inductive invariant describes the stack of a thread for each place it can be in
(`Stacks`: at most a trap in a trap, and which frames), ties the registers to where
the running thread is (`Registers`), and says what makes the SPIE that
`threadWrapper` inherits the right one: the system threads are all started before
the first user thread (`SystemsFirst`), and none is left in the middle of its
wrapper (`Suspended`).

### The heap

`MemoryManager_proofs` shows that `memAlloc_` and `memFree_` do what `Heap` does,
header by header, and what follows from that for a program: no two segments that are
handed out overlap, and all lie in the heap (`SegmentsNeverOverlap`, which no run
states).

| Theorem | Property |
|---|---|
| `ListsStayLinked` | `ListsLinked` |
| `BlocksStayOnce` | `EveryBlockOnce` |
| `FreeStaysMerged` | `FreeIsMerged` |
| `ListsImplementHeap` | `ImplementsHeap` |

None of the three invariants is inductive. `HeapInv` (`MemoryInvariant.tla`,
`HeapStaysWhole`) says of the headers, which are found by following the links, that

* each is in one list, and its links lead to the nearest header of that list above
  and below it (`Linked`): `findByPointer` stops at the right place, and `remove` and
  `reduce` mend the list;
* no link leads down, not even one left in a header out of use (`Ascending`): the
  loops end;
* the segments of all three lists together lie side by side and fill the heap
  (`Tiled`): a segment that is split, merged or moved to another list leaves no gap,
  and where one ends another begins;
* no free segment is followed by a free one (`Unmerged`).

The loops have no induction to rest on (its theorem takes an operator), so each is
followed by the least counterexample: a walk along links that only lead up exists
(`WalkExists`), and what is true where it stops holds where it began
(`WalkReaches`). The loop of `merge` goes round at most once (`MergesAt`): after a
free, only the segment itself and its predecessor may touch what follows.
`OneLess` and `OneMore` say what a header less or more does to "the nearest header",
and every method of `MSH` is one or two of them. The refinement then follows from two
facts: a run of free blocks lies within one free segment, because free segments are
merged (`RunInSegment`), and the first segment that fits is where the lowest run
begins (`TakesAllocates`).

The theorems suppose `CallsInRange`: a number of blocks asked for is less than 2^64 -
1, and the address 64 is not freed; see the notes under Findings for what the code
does there. `ListsImplementHeap` supposes `BytesInRange` besides, that rounding up
does not wrap: the lists stay whole where it does, but the request is met with too
little (`HugeRequest`).

What is proved is about the models. That each operator is the routine it stands for
was established by reading, with the lines in `PROJECT.json`. That the linked lists are
the sequences and timers of the kernel model is `ListsImplementQueues`, call by call;
the handlers of `Kernel`, which make several such calls and link the threads of
programs that begin and end, are not composed of them again at the level of pointers.

### Only model-checked

Liveness: `EveryReadyThreadRuns`, `TimedCallsReturn`, `ProgramEnds`,
`PutIsTransmitted`, `TypedIsRead`, `LockIsReleased`, `LockIsTaken`. The prover handles
neither fairness nor ENABLED.

## Findings

* `mem_alloc` of a size within 63 bytes of 2^64: `ROUNDUP` wraps and the call
  succeeds with a segment that is a header and nothing else (`HugeRequest`).
* A timed wait ended by a close answers `ERR_SEM_WAITCLOSE` (-4), where the
  assignment the system was written for says `SEMDEAD` (-1)
  (`CloseWhileWaiting`).
* The idle thread, which `Scheduler::init` creates as a system thread, may run in
  user mode. It ends whenever it is dispatched, and `threadWrapper` starts it again
  with interrupts enabled; an interrupt between the instruction that sets SPP and
  the `sret` of `popSppSpie` leaves SPP clear (`IdleAgain`). Its body does nothing
  that user mode may not do, but the wrapper does: when the idle thread comes back
  to it, `csrs sstatus` is an illegal instruction there, and the exception handler
  logs it and ends the thread, each time it is dispatched from then on.

Noted while modelling, without a run: `PeriodicThread::terminate` is declared
and never defined; a text returned by `receive` may be overwritten by the next
sender before its reader has read it, since `receive` frees the slot in the same
call; `send` ignores what its `wait` returned; `Thread::start` tests `myHandle` and
creates the thread in two steps (`syscall_cpp.cpp:26`), so two threads that start
one `Thread` object may both pass the test; the characters in the output buffer when
`main()` has slept its 5 ticks are not printed; `mPrintInt` of a number with more than
16 characters, which there are in base 2, in base 3 and, with a sign, in base 4, would
write past the end of `buf` (`mPrint.cpp:115`), but nothing in the repository prints in
these bases; a system call that asks for 2^64 - 1
blocks asks `memAlloc_` for none, which hands out the header of the first free segment
and leaves that in the free list (`memoryManager.cpp:113`); `mem_free` of the address
64 takes the null pointer for a header, since `findByPointer` returns null when it finds
nothing, and follows it (`memoryManager.cpp:142`).

## Not modelled

* **The C++ interface** (`syscall_cpp`) — wrappers that pass their arguments on, and
  keep a handle. Of the C interface only `mem_alloc` computes anything (`ROUNDUP`);
  it is in `MemoryManager`.
* **Strings, `Fractional`, `Complex`, reading of lines** in the printing library —
  formatting, by the same calls under the same lock as the numbers.
* **The print lock in a trap handler.** An exception that is logged while its own
  thread holds the lock dispatches without end in `MLOCK`. The lock is not
  recursive, and no promise in the code covers this.
* **Values of general registers** — saved and restored by macros over all of them.
* **Out of memory inside a constructor** — `operator new` returns null without
  being `noexcept`, and what the compiler then does with `this` is undefined. For
  the same reason `ERR_SEM_CREATE` is not produced.
* **The text behind the pointer `receive` returns**, after the call.
* **The shutdown's second close** — the destructors of the TCBs close semaphores
  `kSemaphoreDeleteAll` has deleted: use of freed memory. Nobody is blocked at them
  by then.
* **Fraction and heap statistics, kernel testers, user tests, hardware layer, linker
  script** — diagnostics, probes, programs that run on the kernel, given binaries.

## Plan

Done, in the order of importance: the kernel's state machine with its routines,
properties and runs; liveness; all linked lists and their refinement; the memory
manager and its refinement; the console with its refinement and liveness; the trap
registers; the print lock. Proved: every safety property and every refinement.

What would come next:

1. **Messages by pointer** — what a reader may rely on after `receive`.
2. **Larger instances of `Progress`**, with three user threads, and with the console
   threads among them.
