------------------------------- MODULE BiList -------------------------------
(***************************************************************************)
(* The intrusive list of detail::bilist_node: nodes with pointers to their *)
(* neighbours around an anchor that the semaphore owns.  A node is part of *)
(* an operation: its memory is given back when the operation is complete,  *)
(* and may serve another operation later.                                  *)
(***************************************************************************)
EXTENDS Integers, Sequences, FiniteSets

CONSTANTS
  Nodes,   \* the places in memory of operations
  Anchor,  \* async_semaphore_base::waiters_
  Freed    \* the pointers of memory that was given back

ASSUME ListAssumption ==
  /\ IsFiniteSet(Nodes)
  /\ Anchor \notin Nodes
  /\ Freed \notin Nodes \cup {Anchor}

VARIABLES
  next,    \* next_
  prev,    \* prev_
  fresh    \* the operations constructed and not linked yet

vars == <<next, prev, fresh>>

All == Nodes \cup {Anchor}

TypeOK ==
  /\ next \in [All -> All \cup {Freed}]
  /\ prev \in [All -> All \cup {Freed}]
  /\ fresh \in SUBSET Nodes
  /\ \A n \in fresh : next[n] = n /\ prev[n] = n

Init ==
  /\ next = [n \in All |-> IF n = Anchor THEN Anchor ELSE Freed]
  /\ prev = [n \in All |-> IF n = Anchor THEN Anchor ELSE Freed]
  /\ fresh = {}

-----------------------------------------------------------------------------
\* The node's constructor
Construct(n) ==
  /\ next[n] = Freed
  /\ next' = [next EXCEPT ![n] = n]
  /\ prev' = [prev EXCEPT ![n] = n]
  /\ fresh' = fresh \cup {n}

LinkBeforeOneWay(n, x) ==  \* fault: next->prev_ is not assigned
  /\ next' = [next EXCEPT ![n] = x, ![prev[x]] = n]
  /\ prev' = [prev EXCEPT ![n] = prev[x]]

\* link_before(x), of a node that is linked to itself.
LinkBefore(n, x) ==
  /\ next' = [next EXCEPT ![n] = x, ![prev[x]] = n]
  /\ prev' = [prev EXCEPT ![n] = prev[x], ![x] = n]

\* async_semaphore_base::add_waiter
AddWaiter(n) ==
  /\ n \in fresh
  /\ LinkBefore(n, Anchor)
  /\ fresh' = fresh \ {n}

\* The pointers after unlink(); the node's own are left as they are.
NextUnlinked(n) == [next EXCEPT ![prev[n]] = next[n]]

PrevStale(n) == prev  \* fault: the neighbour behind is not told

PrevUnlinked(n) == [prev EXCEPT ![next[n]] = prev[n]]

CompleteLinked(n) ==  \* fault: complete() does not unlink the node
  /\ next[n] # Freed
  /\ next' = [next EXCEPT ![n] = Freed]
  /\ prev' = [prev EXCEPT ![n] = Freed]
  /\ fresh' = fresh \ {n}

\* semaphore_wait_op_model::complete: the node is unlinked and its memory given
\* back.  (So it is when add_waiter fails, without unlink(), which would then
\* change nothing.)
Complete(n) ==
  /\ next[n] # Freed
  /\ next' = [NextUnlinked(n) EXCEPT ![n] = Freed]
  /\ prev' = [PrevUnlinked(n) EXCEPT ![n] = Freed]
  /\ fresh' = fresh \ {n}

Next == \E n \in Nodes : Construct(n) \/ AddWaiter(n) \/ Complete(n)

Spec == Init /\ [][Next]_vars

-----------------------------------------------------------------------------
(***************************************************************************)
(* The loops over the list, as the functions from the number of steps to   *)
(* the node that is reached; they end at the anchor.                       *)
(***************************************************************************)
Walk(pointer) ==
  LET at[i \in 0 .. Cardinality(Nodes)] ==
        IF i = 0 THEN pointer[Anchor]
        ELSE IF at[i - 1] \in Nodes THEN pointer[at[i - 1]] ELSE at[i - 1]
  IN  at

\* size()
Size == Cardinality({i \in DOMAIN Walk(next) : Walk(next)[i] # Anchor})

Forward == [i \in 1 .. Size |-> Walk(next)[i - 1]]

Linked == {n \in Nodes : next[n] # Freed} \ fresh

-----------------------------------------------------------------------------
(***************************************************************************)
(* Properties.                                                             *)
(***************************************************************************)
\* No pointer of a live node is to memory that was given back, and neighbours
\* agree: what unlink() and link_before() dereference and rely on.
NeighboursAgree ==
  \A n \in All : next[n] # Freed =>
    /\ next[n] \in All /\ prev[n] \in All
    /\ prev[next[n]] = n /\ next[prev[n]] = n

\* Both loops end, and pass through every linked node once, in opposite orders.
WalksAgree ==
  /\ \A n \in Linked : Cardinality({i \in DOMAIN Walk(next) : Walk(next)[i] = n}) = 1
  /\ Size = Cardinality(Linked)
  /\ \A i \in 1 .. Size : Walk(prev)[Size - i] = Forward[i]

\* The list is the sequence that the semaphore's specification works with.
Abstract == INSTANCE WaiterList WITH list <- Forward

ImplementsWaiterList == Abstract!Spec
=============================================================================
