------------------------------- MODULE Pipe -------------------------------
(***************************************************************************)
(* What the console promises in each direction: the characters that its    *)
(* writers put come out in the order they went in, none lost, doubled,     *)
(* changed or made up, and it never holds more than Capacity of them.      *)
(***************************************************************************)
EXTENDS Naturals, Sequences

CONSTANTS Writers, Chars, Capacity, Null

VARIABLES contents,  \* the characters inside
          offered,   \* offered[w]: the one w waits to put, if it does
          out        \* the one that came out last, until it is used

Init ==
  /\ contents = <<>>
  /\ offered = [w \in Writers |-> Null]
  /\ out = Null

\* There is no room: w waits.
Offer(w, c) ==
  /\ offered[w] = Null
  /\ offered' = [offered EXCEPT ![w] = c]
  /\ out' \in {out, Null}
  /\ UNCHANGED contents

\* w puts the character it has waited with, or one at once.
Put(w, c) ==
  /\ offered[w] \in {c, Null}
  /\ Len(contents) < Capacity
  /\ contents' = Append(contents, c)
  /\ offered' = [offered EXCEPT ![w] = Null]
  /\ out' \in {out, Null}

Get ==
  /\ contents # <<>>
  /\ out' = Head(contents)
  /\ contents' = Tail(contents)
  /\ UNCHANGED offered

Use == out' = Null /\ UNCHANGED <<contents, offered>>

Next == (\E w \in Writers, c \in Chars : Offer(w, c) \/ Put(w, c)) \/ Get \/ Use

Spec == Init /\ [][Next]_<<contents, offered, out>>
=============================================================================
