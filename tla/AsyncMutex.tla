----------------------------- MODULE AsyncMutex -----------------------------
(***************************************************************************)
(* asioex::basic_mutex: a flag, and a semaphore on which the operations    *)
(* that find the flag set suspend.  A client has at most one async_lock    *)
(* outstanding, so the operations of the semaphore are the clients.        *)
(*                                                                         *)
(* The composed operation of async_lock is resumed as the semaphore's      *)
(* handler: it tests the flag again, and suspends once more when another   *)
(* client took the mutex between the wake-up and the resumption.           *)
(***************************************************************************)
EXTENDS SemaphoreCore

CONSTANTS
  Guarded,         \* the clients that lock with async_guard
  TryLockSuccess,  \* the result of try_lock that a client takes for success
  MaxRounds        \* bound: the locks a client asks for

ASSUME MutexAssumption ==
  /\ InitialCount = 1     \* the default of basic_async_semaphore
  /\ Guarded \subseteq Ops
  /\ TryLockSuccess \in BOOLEAN
  /\ MaxRounds \in Nat

VARIABLES
  alive,   \* the mutex object exists
  locked,  \* locked_
  pc,      \* where each client is
  rounds   \* bound: the locks each client asked for

vars == <<count, waiters, ready, alive, locked, pc, rounds>>

(***************************************************************************)
(* idle: no operation, no lock;  suspended: in semaphore_.async_acquire,   *)
(* or its handler queued;  won: the flag is set for it and its completion  *)
(* posted;  holding: in the critical section;  failed: async_guard         *)
(* completed with an error, and the client has a lock_guard all the same.  *)
(***************************************************************************)
State == {"idle", "suspended", "won", "holding", "failed"}

TypeOK ==
  /\ CoreTypeOK
  /\ alive \in BOOLEAN
  /\ locked \in BOOLEAN
  /\ pc \in [Ops -> State]
  /\ rounds \in [Ops -> 0 .. MaxRounds]

Init ==
  /\ CoreInit
  /\ alive = TRUE
  /\ locked = FALSE
  /\ pc = [c \in Ops |-> "idle"]
  /\ rounds = [c \in Ops |-> 0]

-----------------------------------------------------------------------------
Goto(c, s) == pc' = [pc EXCEPT ![c] = s]

Count(c) ==
  /\ rounds[c] < MaxRounds
  /\ rounds' = [rounds EXCEPT ![c] = @ + 1]

\* async_lock, or async_guard, which calls it.
Lock(c) ==
  /\ alive
  /\ pc[c] = "idle"
  /\ Count(c)
  /\ \/ /\ ~locked
        /\ locked' = TRUE
        /\ ready' = Append(ready, Completion(c, "ok"))
        /\ Goto(c, "won")
        /\ UNCHANGED <<count, waiters>>
     \/ /\ locked
        /\ AsyncAcquire(c, ready)
        /\ Goto(c, "suspended")
        /\ UNCHANGED locked
  /\ UNCHANGED alive

\* try_lock returns the flag's old value.
TryLock(c) ==
  /\ alive
  /\ pc[c] = "idle"
  /\ Count(c)
  /\ locked' = TRUE
  /\ IF locked = TryLockSuccess THEN Goto(c, "holding") ELSE UNCHANGED pc
  /\ UNCHANGED <<coreVars, alive>>

UnlockWithoutRelease(c) ==  \* fault: the semaphore is not released
  /\ alive
  /\ pc[c] = "holding"
  /\ locked' = FALSE
  /\ Goto(c, "idle")
  /\ UNCHANGED <<coreVars, alive, rounds>>

UnlockKeepingFlag(c) ==  \* fault: locked_ is not cleared
  /\ alive
  /\ pc[c] = "holding"
  /\ Release
  /\ Goto(c, "idle")
  /\ UNCHANGED <<alive, locked, rounds>>

\* unlock, the call or the destructor of a lock_guard.
Unlock(c) ==
  /\ alive
  /\ pc[c] = "holding"
  /\ locked' = FALSE
  /\ Release
  /\ Goto(c, "idle")
  /\ UNCHANGED <<alive, rounds>>

\* The lock_guard that async_guard made in spite of the error is destroyed: it
\* unlocks the mutex, whether that exists or not.
DropGuard(c) ==
  /\ pc[c] = "failed"
  /\ locked' = FALSE
  /\ Release
  /\ Goto(c, "idle")
  /\ UNCHANGED <<alive, rounds>>

\* The executor runs the first handler: a posted completion, ...
RunWon(c) ==
  /\ pc[c] = "won"
  /\ ready' = Tail(ready)
  /\ Goto(c, "holding")
  /\ UNCHANGED <<count, waiters, locked>>

RunAbortedTesting(c) ==  \* fault: locked_ is tested before the error
  /\ pc[c] = "suspended"
  /\ Head(ready).ec = "aborted"
  /\ ready' = Tail(ready)
  /\ locked' = TRUE
  /\ Goto(c, IF locked THEN "idle" ELSE "holding")
  /\ UNCHANGED <<count, waiters>>

\* ... or the composed operation, with an error, ...
RunAborted(c) ==
  /\ pc[c] = "suspended"
  /\ Head(ready).ec = "aborted"
  /\ ready' = Tail(ready)
  /\ Goto(c, IF c \in Guarded THEN "failed" ELSE "idle")
  /\ UNCHANGED <<count, waiters, locked>>

RunWokenUnchecked(c) ==  \* fault: locked_ is not tested again
  /\ pc[c] = "suspended"
  /\ Head(ready).ec = "ok"
  /\ locked' = TRUE
  /\ ready' = Tail(ready)
  /\ Goto(c, "holding")
  /\ UNCHANGED <<count, waiters>>

\* ... or woken, when it takes the mutex if it is free ...
RunWoken(c) ==
  /\ pc[c] = "suspended"
  /\ Head(ready).ec = "ok"
  /\ ~locked
  /\ locked' = TRUE
  /\ ready' = Tail(ready)
  /\ Goto(c, "holding")
  /\ UNCHANGED <<count, waiters>>

RunOvertakenOnce(c) ==  \* fault: the operation does not wait again
  /\ pc[c] = "suspended"
  /\ Head(ready).ec = "ok"
  /\ locked
  /\ ready' = Tail(ready)
  /\ UNCHANGED <<count, waiters, locked, pc>>

\* ... and otherwise waits again, as the last.
RunOvertaken(c) ==
  /\ pc[c] = "suspended"
  /\ Head(ready).ec = "ok"
  /\ locked
  /\ AsyncAcquire(c, Tail(ready))
  /\ UNCHANGED <<locked, pc>>

Run ==
  /\ ready # << >>
  /\ LET c == Head(ready).op
     IN  RunWon(c) \/ RunAborted(c) \/ RunWoken(c) \/ RunOvertaken(c)
  /\ UNCHANGED <<alive, rounds>>

\* The client's cancellation signal: it reaches an operation that is linked,
\* and only async_lock's, for the handler that async_guard waits with has no
\* cancellation slot.
Cancel(i) ==
  /\ waiters[i] \notin Guarded
  /\ CancelAt(i)
  /\ UNCHANGED <<alive, locked, pc, rounds>>

\* A wake-up on its way to a suspended operation.
WakeUp(i) == ready[i].ec = "ok" /\ pc[ready[i].op] = "suspended"

\* The destructor aborts the operations that wait.  A precondition of its own
\* is that no operation has been woken: that one reads locked_ when it runs.
Destroy ==
  /\ alive
  /\ \A i \in DOMAIN ready : ~WakeUp(i)
  /\ alive' = FALSE
  /\ Destruct
  /\ UNCHANGED <<locked, pc, rounds>>

Next ==
  \/ \E c \in Ops : Lock(c) \/ TryLock(c) \/ Unlock(c) \/ DropGuard(c)
  \/ Run
  \/ \E i \in DOMAIN waiters : Cancel(i)
  \/ Destroy

Spec == Init /\ [][Next]_vars

\* io_context::run invokes queued handlers, and critical sections end.
FairSpec ==
  /\ Spec
  /\ WF_vars(Run)
  /\ \A c \in Ops : WF_vars(Unlock(c)) /\ WF_vars(DropGuard(c))

-----------------------------------------------------------------------------
(***************************************************************************)
(* Properties.                                                             *)
(***************************************************************************)
Owner(c) == pc[c] \in {"won", "holding"}

\* test/mutex.cpp:33-37, the critical sections do not interleave: at most one
\* client was given the mutex, whether or not its handler ran already.
MutualExclusion == \A c, d \in Ops : Owner(c) /\ Owner(d) => c = d

\* The flag says that the mutex is held exactly when a client owns it, through
\* every hand-over by wake-up: it is never left set by a client that is gone.
LockedIffOwned == alive => (locked <=> \E c \in Ops : Owner(c))

\* When the mutex is free and operations wait, one of them has been woken and
\* has yet to run, whatever was cancelled, overtaken or woken for nothing.
NoLostWakeup ==
  alive /\ ~locked /\ waiters # << >> => \E i \in DOMAIN ready : WakeUp(i)

\* A client has one operation at most: linked once, or its handler queued once,
\* so that resuming it never completes a handler that was completed before.
OneOperation ==
  /\ LinkedOnce
  /\ PostedOnce
  /\ \A c \in Ops :
       /\ Linked(c) => pc[c] = "suspended" /\ ~Posted(c)
       /\ Posted(c) => pc[c] \in {"suspended", "won"}
       /\ pc[c] = "suspended" => Linked(c) \/ Posted(c)
       /\ pc[c] = "won" => Posted(c)

\* Every async_lock completes as long as critical sections end: no client stays
\* suspended because a wake-up was spent on an overtaken or cancelled one.
LockCompletes ==
  \A c \in Ops : pc[c] \in {"suspended", "won"} ~> pc[c] \notin {"suspended", "won"}

Aborted == {c \in Ops : \E i \in DOMAIN ready : ready[i] = Completion(c, "aborted")}

Abstract == INSTANCE AsyncLock WITH
  Clients <- Ops,
  Patient <- Guarded,
  open <- alive,
  owners <- {c \in Ops : Owner(c)},
  wanting <- {c \in Ops : pc[c] = "suspended"} \ Aborted,
  aborted <- Aborted

\* The mutex implements a lock.  A client enters when nobody is inside, in the step
\* that finds the flag clear and before its handler runs; one whose abort is decided
\* never enters any more, though it has yet to hear of it; overtaken clients wait on.
ImplementsLock == Abstract!Spec

\* async_semaphore_base.hpp:96, ASIO_ASSERT(count_ > 0) in decrement().
DecrementAssertion == [][count' = Decremented(count) => count > 0]_count

\* async_semaphore.hpp:104-108: operations outstanding at the destruction are
\* aborted, and only success means acquisition.  So nothing that happens later
\* unlocks the mutex.
AbortedNeverUnlocks == [][alive]_<<locked, count>>
=============================================================================
