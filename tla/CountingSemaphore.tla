------------------------- MODULE CountingSemaphore -------------------------
(***************************************************************************)
(* What async_semaphore promises: Dijkstra's semaphore with a signed       *)
(* value.  Every acquire takes one from the value and every release gives  *)
(* one back, whoever waits; an acquire that finds no permit queues, and    *)
(* permits go to the queue in the order of arrival.  An operation that is  *)
(* cancelled, or outlives the semaphore, gives its claim back.             *)
(* There is no list, count or executor here: an operation has acquired or  *)
(* aborted as soon as that is decided.                                     *)
(***************************************************************************)
EXTENDS Integers, Sequences, SequencesExt

CONSTANTS Ops, InitialCount

VARIABLES
  value,     \* permits less claims
  queue,     \* the claims not served yet, oldest first
  acquired,  \* the operations that got a permit
  aborted    \* the operations that gave up

vars == <<value, queue, acquired, aborted>>

Queued == {queue[i] : i \in DOMAIN queue}

Fresh(o) == o \notin Queued \cup acquired \cup aborted

Init ==
  /\ value = InitialCount
  /\ queue = << >>
  /\ acquired = {}
  /\ aborted = {}

Acquire(o) ==
  /\ Fresh(o)
  /\ value' = value - 1
  /\ \/ value > 0 /\ acquired' = acquired \cup {o} /\ UNCHANGED queue
     \/ value <= 0 /\ queue' = Append(queue, o) /\ UNCHANGED acquired
  /\ UNCHANGED aborted

\* A permit taken without waiting.
Take ==
  /\ value > 0
  /\ value' = value - 1
  /\ UNCHANGED <<queue, acquired, aborted>>

Release ==
  /\ value' = value + 1
  /\ \/ value >= 0 /\ UNCHANGED <<queue, acquired>>
     \/ value < 0 /\ acquired' = acquired \cup {Head(queue)} /\ queue' = Tail(queue)
  /\ UNCHANGED aborted

\* As many releases as there are claims.
Flush ==
  /\ value' = value + Len(queue)
  /\ acquired' = acquired \cup Queued
  /\ queue' = << >>
  /\ UNCHANGED aborted

Abandon(i) ==
  /\ value' = value + 1
  /\ aborted' = aborted \cup {queue[i]}
  /\ queue' = RemoveAt(queue, i)
  /\ UNCHANGED acquired

Close ==
  /\ value' = value + Len(queue)
  /\ aborted' = aborted \cup Queued
  /\ queue' = << >>
  /\ UNCHANGED acquired

Next ==
  \/ \E o \in Ops : Acquire(o)
  \/ Take
  \/ Release
  \/ Flush
  \/ \E i \in DOMAIN queue : Abandon(i)
  \/ Close

Spec == Init /\ [][Next]_vars
=============================================================================
