-------------------------- MODULE ConsoleInvariant --------------------------
(***************************************************************************)
(* The inductive invariant behind the properties of Console.tla.           *)
(*                                                                         *)
(* Its parts are predicates on a record k and the calls cl of the threads, *)
(* so that they can be stated in the middle of a buffer operation, when    *)
(* the step has taken its item and not yet given anything back.            *)
(***************************************************************************)
EXTENDS Console, KernelRecord

\* The buffer operations of a thread, suspended at their first wait: the
\* second never suspends.
Operations(t) ==
  IF t = InputTCB THEN {Call("put", "input", "item")}
  ELSE IF t = OutputTCB THEN {Call("get", "output", "item")}
  ELSE {Call("get", "input", "item"), Call("put", "output", "item")}

Rings == [buffer : [0 .. Length - 1 -> Chars \cup {Null}],
          pos_w  : 0 .. Length - 1,
          pos_r  : 0 .. Length - 1]

TypeOK ==
  /\ program \subseteq {"getc", "putc"}
  /\ kernel \in Kernels
  /\ ring \in [Buffers -> Rings]
  /\ pc \in [Buffers -> {"poll", "load", "ready", "idle", "device", "buffer"}]
  /\ held \in [Threads -> Chars \cup {Null}]
  /\ call \in [Threads -> {NoCall} \cup UNION {Operations(t) : t \in Threads}]
  /\ pass \in [Buffers -> BOOLEAN]
  /\ got \in Chars \cup {Null}
  /\ rx \in Seq(Chars)
  /\ tx \in Chars \cup {Null}

-----------------------------------------------------------------------------
\* main() joins UserMain; nobody ends and nobody sleeps.
Manned(k) ==
  /\ {UserMain, InputTCB, OutputTCB} \subseteq k.created /\ k.finished = {}
  /\ k.blockedAtSem[Master] = semJoin(UserMain)
  /\ \A t \in Threads : ~sleeps(k, t)
  /\ ConsoleSems \subseteq k.active

\* Each thread is in an operation of its own.
CallsFit(k, cl) ==
  \A t \in Threads :
    cl[t] # NoCall => t \in k.created \ {Master, Idle} /\ cl[t] \in Operations(t)

\* and waits for what that wants, for one of it.
WaitersFit(k, cl) ==
  \A t \in Threads \ {Master} :
    k.blockedAtSem[t] # Null =>
      /\ cl[t] # NoCall
      /\ k.blockedAtSem[t] = Wanted(cl[t].op, cl[t].on)
      /\ k.tokensNeeded[t] = 1

MutexesFree(k) == \A b \in Buffers : k.value[mutex(b)] = 1

\* Granted on any record, and Filled and Free, which are what there is to get
\* and to put, handed to a thread or not.
GrantedIn(k, cl, op, b) ==
  {t \in Threads : /\ cl[t].op = op /\ cl[t].on = b
                   /\ k.blockedAtSem[t] # Wanted(op, b)}
Stock(k, cl, op, b) ==
  k.value[Wanted(op, b)] + Cardinality(GrantedIn(k, cl, op, b))

SlotsFit(k, cl) ==
  \A b \in Buffers : Stock(k, cl, "get", b) + Stock(k, cl, "put", b) = Length

Sound(k, cl) ==
  /\ Good(k) /\ Manned(k) /\ MutexesFree(k)
  /\ CallsFit(k, cl) /\ WaitersFit(k, cl) /\ SlotsFit(k, cl)

-----------------------------------------------------------------------------
\* The positions of a ring with n filled slots, which hold characters.
RingFits(r, n) ==
  /\ r.pos_w = (r.pos_r + n) % Length
  /\ \A i \in 1 .. n : r.buffer[(r.pos_r + i - 1) % Length] \in Chars

\* A thread carries a character where its code has one.
HandsFit ==
  /\ \A t \in Threads : call[t].op = "put" => held[t] \in Chars
  /\ \A t \in Users : held[t] # Null => call[t].op = "put"
  /\ held[InputTCB] # Null <=> pc["input"] = "buffer"
  /\ held[OutputTCB] # Null <=> pc["output"] = "device"

\* What a console thread saw of the device is still true when it acts on it.
DeviceFits ==
  /\ \A b \in Buffers : call[IOTCB(b)] # NoCall => pc[b] = "buffer"
  /\ pc["input"] \in {"ready", "device"} => rx # <<>>
  /\ pc["output"] \in {"ready", "buffer", "device"} => tx = Null

ConsoleInv ==
  /\ TypeOK /\ Sound(kernel, call) /\ SomebodyCanRun
  /\ \A b \in Buffers : RingFits(ring[b], Stock(kernel, call, "get", b))
  /\ HandsFit /\ DeviceFits
=============================================================================
