---------------------------- MODULE KSemaphore ----------------------------
(***************************************************************************)
(* src/src/kSemaphore.cpp.  wait and timedWait suspend their caller in the *)
(* middle, so they appear here as the pieces the handlers of Kernel.tla    *)
(* put together: Acquire (the value suffices), Block (it does not) and     *)
(* ResolveManner (the caller runs again).                                  *)
(***************************************************************************)
EXTENDS Sleep

\* The constructor.
SemCreate(k, s, init) ==
  [k EXCEPT !.opened = @ \cup {s}, !.active = @ \cup {s}, !.value[s] = init]

\* Mutant of Acquire: unblockManner keeps the reason of an earlier wait.
AcquireKeepsManner(k, s, tokens) == [k EXCEPT !.value[s] = @ - tokens]

Acquire(k, s, tokens) ==
  [k EXCEPT !.value[s] = @ - tokens, !.unblockManner[k.running] = "REGULAR"]

\* Mutant of Block: the newest waiter first.
BlockFirst(k, s, tokens) ==
  [k EXCEPT !.value[s]                = 0,
            !.blocked[s]              = <<k.running>> \o @,
            !.blockedAtSem[k.running] = s,
            !.tokensNeeded[k.running] = tokens - k.value[s]]

\* What there is of the tokens is taken, the rest is waited for.
Block(k, s, tokens) ==
  [k EXCEPT !.value[s]                = 0,
            !.blocked[s]              = Append(@, k.running),
            !.blockedAtSem[k.running] = s,
            !.tokensNeeded[k.running] = tokens - k.value[s]]

\* timedWait(0): put, then Sleep::sleep(0) takes the caller out at once.
BlockForNoTime(k, s) ==
  [k EXCEPT !.value[s] = 0, !.unblockManner[k.running] = "WAIT_TIMEOUT",
            !.tokensNeeded[k.running] = 0]

ResolveManner(k) ==
  CASE k.unblockManner[k.running] = "REGULAR"      -> 0
    [] k.unblockManner[k.running] = "ON_CLOSE"     -> ERR_SEM_WAITCLOSE
    [] k.unblockManner[k.running] = "WAIT_TIMEOUT" -> TIMEOUT

\* signal(): every caller in the kernel signals one token.
Signal(k, s) ==
  IF s \notin k.active THEN k
  ELSE IF k.blocked[s] = <<>> THEN [k EXCEPT !.value[s] = @ + 1]
  ELSE LET first == Head(k.blocked[s])
       IN  IF k.tokensNeeded[first] <= 1
           THEN Wake(k, <<first>>, "REGULAR")
           ELSE [k EXCEPT !.tokensNeeded[first] = @ - 1]

SignalAll(k, s, manner) ==
  IF s \notin k.active THEN k
  ELSE [Wake(k, k.blocked[s], manner) EXCEPT !.value[s] = 0]

\* Mutant of Close: inactive before signalAll, which then does nothing.
CloseWakesNobody(k, s) == [k EXCEPT !.active = @ \ {s}]

Close(k, s) ==
  [SignalAll(k, s, "ON_CLOSE") EXCEPT !.active = @ \ {s}]
=============================================================================
