-------------------------------- MODULE Fifo --------------------------------
(***************************************************************************)
(* A first-in first-out queue, and the element that came out last.         *)
(***************************************************************************)
EXTENDS Sequences

CONSTANTS Elements

VARIABLES queue, out

vars == <<queue, out>>

Init == queue = << >> /\ out \in Elements

Push(v) == queue' = Append(queue, v) /\ UNCHANGED out

Pop ==
  /\ queue # << >>
  /\ out' = Head(queue)
  /\ queue' = Tail(queue)

Next == Pop \/ \E v \in Elements : Push(v)

Spec == Init /\ [][Next]_vars
=============================================================================
