------------------------- MODULE ConditionVariable -------------------------
(***************************************************************************)
(* asioex::basic_condition_variable: a semaphore constructed with count 0, *)
(* on which notify_one is release and notify_all release_all.              *)
(*                                                                         *)
(* The wait with a predicate is a composed operation that tests the        *)
(* predicate when it is initiated and whenever it is resumed, and waits    *)
(* again as the last when it is false.  The predicate reads what the       *)
(* program shares with its notifiers: here the items of a queue, and       *)
(* whether it is closed; a wait that completes takes an item.              *)
(***************************************************************************)
EXTENDS SemaphoreCore, FiniteSets

CONSTANTS
  Plain,      \* the operations that wait without a predicate
  MaxItems,   \* bound: the items put
  MaxNotify   \* bound: the notifications given without a reason

ASSUME ConditionAssumption ==
  /\ InitialCount = 0    \* the count the constructor passes on
  /\ Plain \subseteq Ops
  /\ MaxItems \in Nat
  /\ MaxNotify \in Nat
  /\ MaxItems + MaxNotify < MaxInt   \* the count does not overflow

VARIABLES
  alive,   \* the condition variable exists
  pc,      \* where each operation is
  items,   \* what the predicate reads
  closed,  \* what the predicate reads
  put,     \* bound: the items put so far
  excess   \* bound: the notifications given without a reason

vars == <<count, waiters, ready, alive, pc, items, closed, put, excess>>

shared == <<items, closed, put, excess>>

(***************************************************************************)
(* idle: no operation;  suspended: in semaphore_.async_acquire or its      *)
(* handler queued;  passed: the predicate held at once, and the completion *)
(* is posted.                                                              *)
(***************************************************************************)
State == {"idle", "suspended", "passed"}

TypeOK ==
  /\ CoreTypeOK
  /\ alive \in BOOLEAN
  /\ pc \in [Ops -> State]
  /\ items \in 0 .. MaxItems
  /\ closed \in BOOLEAN
  /\ put \in 0 .. MaxItems
  /\ excess \in 0 .. MaxNotify

Init ==
  /\ CoreInit
  /\ alive = TRUE
  /\ pc = [o \in Ops |-> "idle"]
  /\ items = 0
  /\ closed = FALSE
  /\ put = 0
  /\ excess = 0

Predicate == items > 0 \/ closed

-----------------------------------------------------------------------------
Goto(o, s) == pc' = [pc EXCEPT ![o] = s]

\* async_wait(token): semaphore_.async_acquire.
Wait(o) ==
  /\ alive
  /\ o \in Plain
  /\ pc[o] = "idle"
  /\ AsyncAcquire(o, ready)
  /\ Goto(o, "suspended")
  /\ UNCHANGED <<alive, shared>>

\* async_wait(predicate, token): the completion is posted when the predicate
\* holds, and the operation suspends when it does not.
WaitUntil(o) ==
  /\ alive
  /\ o \notin Plain
  /\ pc[o] = "idle"
  /\ \/ /\ Predicate
        /\ ready' = Append(ready, Completion(o, "ok"))
        /\ Goto(o, "passed")
        /\ UNCHANGED <<count, waiters>>
     \/ /\ ~Predicate
        /\ AsyncAcquire(o, ready)
        /\ Goto(o, "suspended")
  /\ UNCHANGED <<alive, shared>>

\* The program's handler: it takes an item, if one is left.
Served(o) ==
  /\ items' = IF items > 0 THEN items - 1 ELSE items
  /\ Goto(o, "idle")

\* The executor runs the first handler: one that needs no test, ...
RunPassed(o) ==
  /\ pc[o] = "passed" \/ (o \in Plain /\ Head(ready).ec = "ok")
  /\ ready' = Tail(ready)
  /\ Served(o)
  /\ UNCHANGED <<count, waiters>>

\* ... one that was aborted, ...
RunAborted(o) ==
  /\ Head(ready).ec = "aborted"
  /\ ready' = Tail(ready)
  /\ Goto(o, "idle")
  /\ UNCHANGED <<count, waiters, items>>

\* ... or one that was woken, and completes when the predicate holds, ...
RunTrue(o) ==
  /\ pc[o] = "suspended" /\ o \notin Plain /\ Head(ready).ec = "ok"
  /\ Predicate
  /\ ready' = Tail(ready)
  /\ Served(o)
  /\ UNCHANGED <<count, waiters>>

\* ... and waits again when it does not.
RunFalse(o) ==
  /\ pc[o] = "suspended" /\ o \notin Plain /\ Head(ready).ec = "ok"
  /\ ~Predicate
  /\ AsyncAcquire(o, Tail(ready))
  /\ UNCHANGED <<pc, items>>

Run ==
  /\ ready # << >>
  /\ LET o == Head(ready).op
     IN  RunPassed(o) \/ RunAborted(o) \/ RunTrue(o) \/ RunFalse(o)
  /\ UNCHANGED <<alive, closed, put, excess>>

-----------------------------------------------------------------------------
NotifyWithoutWake ==  \* fault: the notification is only counted
  /\ count' = Incremented(count)
  /\ UNCHANGED <<waiters, ready>>

\* notify_one
NotifyOne == Release

NotifyFirst ==  \* fault: only one of the waiters is notified
  \/ waiters = << >> /\ UNCHANGED coreVars
  \/ waiters # << >> /\ CompleteAt(1, "ok") /\ UNCHANGED count

\* notify_all
NotifyAll == ReleaseAll

\* The program puts an item and notifies a waiter, ...
Put ==
  /\ alive
  /\ put < MaxItems
  /\ items' = items + 1
  /\ put' = put + 1
  /\ NotifyOne
  /\ UNCHANGED <<alive, pc, closed, excess>>

\* ... or closes the queue and notifies all, ...
Close ==
  /\ alive
  /\ ~closed
  /\ closed' = TRUE
  /\ NotifyAll
  /\ UNCHANGED <<alive, pc, items, put, excess>>

\* ... or notifies when nothing changed (test/condition_variable.cpp:45).
Excess ==
  /\ alive
  /\ excess < MaxNotify
  /\ excess' = excess + 1
  /\ NotifyOne \/ NotifyAll
  /\ UNCHANGED <<alive, pc, items, closed, put>>

\* The cancellation signal reaches an operation that is linked.
Cancel(i) ==
  /\ CancelAt(i)
  /\ UNCHANGED <<alive, pc, shared>>

\* A wake-up on its way to an operation that will test its predicate.
WakeUp(i) == ready[i].ec = "ok" /\ pc[ready[i].op] = "suspended"

\* The destructor.  It has the precondition that no operation is woken that will
\* use the semaphore again.
Destroy ==
  /\ alive
  /\ \A i \in DOMAIN ready : WakeUp(i) => ready[i].op \in Plain
  /\ alive' = FALSE
  /\ Destruct
  /\ UNCHANGED <<pc, shared>>

Next ==
  \/ \E o \in Ops : Wait(o) \/ WaitUntil(o)
  \/ Run
  \/ Put
  \/ Close
  \/ Excess
  \/ \E i \in DOMAIN waiters : Cancel(i)
  \/ Destroy

Spec == Init /\ [][Next]_vars

\* io_context::run invokes queued handlers.
FairSpec == Spec /\ WF_vars(Run)

-----------------------------------------------------------------------------
(***************************************************************************)
(* Properties.                                                             *)
(***************************************************************************)
\* While operations wait, every item has a handler on its way that will take it:
\* a notification is never spent on an operation that was cancelled, overtaken
\* or served already.
ItemsSpokenFor ==
  waiters # << >> =>
    items <= Cardinality({i \in DOMAIN ready : ready[i].ec = "ok"})

\* Closing wakes everyone: no operation with a predicate outlives it, not even
\* one that was woken before and has yet to test its predicate.
CloseReleasesAll ==
  \A o \in Ops \ Plain : (closed /\ pc[o] # "idle") ~> (pc[o] = "idle")
=============================================================================
