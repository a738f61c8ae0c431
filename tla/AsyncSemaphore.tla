--------------------------- MODULE AsyncSemaphore ---------------------------
(***************************************************************************)
(* A basic_async_semaphore and its users.  Each operation of Ops is one    *)
(* call of async_acquire with a completion handler of its own; other calls *)
(* (try_acquire, release, release_all, cancellation of a waiting operation *)
(* and destruction of the semaphore) come in any order between handlers.   *)
(***************************************************************************)
EXTENDS SemaphoreCore

VARIABLES
  alive,    \* the semaphore object exists
  armed,    \* the operations whose cancellation slot holds their handler
  outcome,  \* the error code the operation's handler was invoked with
  ticket,   \* history: the position of the operation's call among all calls
  issued    \* history: the number of async_acquire calls so far

vars == <<count, waiters, ready, alive, armed, outcome, ticket, issued>>

None == "none"

TypeOK ==
  /\ CoreTypeOK
  /\ alive \in BOOLEAN
  /\ armed \subseteq Ops
  /\ outcome \in [Ops -> Code \cup {None}]
  /\ ticket \in [Ops -> Nat]
  /\ issued \in Nat

Init ==
  /\ CoreInit
  /\ alive = TRUE
  /\ armed = {}
  /\ outcome = [o \in Ops |-> None]
  /\ ticket = [o \in Ops |-> 0]
  /\ issued = 0

-----------------------------------------------------------------------------
history == <<ticket, issued>>

\* complete() clears the slot of each operation of S that it completes.
SlotsKept(S) ==  \* fault: the slot is not cleared
  armed' = armed

ClearSlots(S) == armed' = armed \ S

LinkedOps == {waiters[i] : i \in DOMAIN waiters}

\* async_acquire: an operation that is linked assigns its cancellation slot.
Acquire(o) ==
  /\ alive
  /\ ticket[o] = 0
  /\ AsyncAcquire(o, ready)
  /\ armed' = IF count = 0 THEN armed \cup {o} ELSE armed
  /\ issued' = issued + 1
  /\ ticket' = [ticket EXCEPT ![o] = issued + 1]
  /\ UNCHANGED <<alive, outcome>>

\* try_acquire
Take ==
  /\ alive
  /\ TryAcquire
  /\ UNCHANGED <<alive, armed, outcome, history>>

\* release, which wraps at INT_MAX.
ReleaseOne ==
  /\ alive
  /\ Release
  /\ ClearSlots(IF waiters = << >> THEN {} ELSE {Head(waiters)})
  /\ UNCHANGED <<alive, outcome, history>>

\* release_all
Flush ==
  /\ alive
  /\ waiters # << >>
  /\ ReleaseAll
  /\ ClearSlots(LinkedOps)
  /\ UNCHANGED <<alive, outcome, history>>

\* The signal of the operation is emitted, at any time: the handler in its slot,
\* if there is one, completes the operation, linked or not.
Cancel(o) ==
  /\ o \in armed
  /\ waiters' = RemoveFirst(waiters, o)
  /\ ready' = Append(ready, Completion(o, "aborted"))
  /\ ClearSlots({o})
  /\ UNCHANGED <<count, alive, outcome, history>>

\* The destructor
Destroy ==
  /\ alive
  /\ Destruct
  /\ ClearSlots(LinkedOps)
  /\ alive' = FALSE
  /\ UNCHANGED <<outcome, history>>

\* The executor invokes the handler at the front of its queue.
Deliver ==
  /\ ready # << >>
  /\ outcome' = [outcome EXCEPT ![Head(ready).op] = Head(ready).ec]
  /\ ready' = Tail(ready)
  /\ UNCHANGED <<count, waiters, alive, armed, history>>

Next ==
  \/ \E o \in Ops : Acquire(o)
  \/ Take
  \/ ReleaseOne
  \/ Flush
  \/ \E o \in Ops : Cancel(o)
  \/ Destroy
  \/ Deliver

Spec == Init /\ [][Next]_vars

Overflows == count = MaxInt /\ count' < 0

\* A program that never releases at INT_MAX: the count does not wrap.
SpecBelowLimit == Init /\ [][Next /\ ~Overflows]_vars

\* io_context::run invokes queued handlers as long as there are any.
FairSpecBelowLimit == SpecBelowLimit /\ WF_vars(Deliver)

-----------------------------------------------------------------------------
(***************************************************************************)
(* Properties.                                                             *)
(***************************************************************************)
Invoked(o) == outcome[o] # None

\* No operation waits while a permit is free: release() hands its permit to a
\* waiter instead of keeping it, and nobody queues behind a positive count.
NoWaitWithPermit == count > 0 => waiters = << >>

\* An operation that was initiated is in exactly one place: linked once, its
\* handler queued once, or its handler invoked.  So complete() never runs twice
\* for an operation, and no handler is lost or invoked twice.
OnePlace ==
  /\ LinkedOnce
  /\ PostedOnce
  /\ \A o \in Ops :
       /\ ticket[o] # 0 <=> Linked(o) \/ Posted(o) \/ Invoked(o)
       /\ Linked(o) => ~Posted(o) /\ ~Invoked(o)
       /\ Posted(o) => ~Invoked(o)

\* async_semaphore.hpp:102-104, "will complete in strict FIFO order": when a
\* handler was invoked with success, so was the handler of every operation
\* initiated before (with success, or because it was cancelled).
FifoCompletion ==
  \A a, b \in Ops :
    (0 < ticket[a] /\ ticket[a] < ticket[b] /\ outcome[b] = "ok") => outcome[a] # None

\* async_semaphore.hpp:104-106: the destruction of the semaphore leaves no
\* operation behind, the handler of every outstanding one is invoked.
NoOrphan ==
  \A o \in Ops : (~alive /\ ticket[o] # 0) ~> (outcome[o] # None)

\* The operations whose completion with ec is decided, invoked or not.
Decided(ec) ==
  {o \in Ops : outcome[o] = ec \/ \E i \in DOMAIN ready : ready[i] = Completion(o, ec)}

\* The semaphore implements the counting semaphore with the value of value().
Abstract == INSTANCE CountingSemaphore WITH
  value <- Value,
  queue <- waiters,
  acquired <- Decided("ok"),
  aborted <- Decided("aborted")

ImplementsCountingSemaphore == Abstract!Spec
=============================================================================
