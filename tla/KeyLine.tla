------------------------------ MODULE KeyLine ------------------------------
(***************************************************************************)
(* What the operator of a keyboard is promised: keys arrive one at a time  *)
(* and as they were typed, each before the next is typed.                  *)
(***************************************************************************)
EXTENDS Naturals, Sequences

CONSTANT Codes

VARIABLES
  typed,     \* the keys struck
  received   \* the keys that the software has read

Init == typed = <<>> /\ received = <<>>

Strike(c) ==
  /\ Len(typed) = Len(received)
  /\ typed' = Append(typed, c)
  /\ UNCHANGED received

Receive ==
  /\ Len(received) < Len(typed)
  /\ received' = Append(received, typed[Len(received) + 1])
  /\ UNCHANGED typed

Next == Receive \/ \E c \in Codes : Strike(c)
Spec == Init /\ [][Next]_<<typed, received>>
=============================================================================
