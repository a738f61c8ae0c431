----------------------------- MODULE WaiterList -----------------------------
(***************************************************************************)
(* The sequence of waiters as the semaphore sees it (waiters of            *)
(* SemaphoreCore): operations are linked at the back and leave anywhere.   *)
(***************************************************************************)
EXTENDS Integers, Sequences, SequencesExt

CONSTANTS Nodes

VARIABLES list

Init == list = << >>

Link(n) == list' = Append(list, n)

Leave(i) == list' = RemoveAt(list, i)

Next ==
  \/ \E n \in Nodes : n \notin {list[i] : i \in DOMAIN list} /\ Link(n)
  \/ \E i \in DOMAIN list : Leave(i)

Spec == Init /\ [][Next]_list
=============================================================================
