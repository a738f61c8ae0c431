--------------------------- MODULE SemaphoreCore ---------------------------
(***************************************************************************)
(* The counting semaphore of asioex::async_semaphore_base and              *)
(* asioex::basic_async_semaphore, as the operations on its state.          *)
(*                                                                         *)
(* The semaphore is not thread-safe: every call is made on one executor    *)
(* (the io_context of the tests), so a call runs to its end before another *)
(* call or a queued handler runs, and an action is a whole call.  Calls    *)
(* never run user code: a completed operation is posted to the executor,   *)
(* whose FIFO queue of handlers is part of the state.                      *)
(*                                                                         *)
(* Each operator below constrains count', waiters' and ready' and nothing  *)
(* else, so that a module of clients (the semaphore on its own, the mutex, *)
(* the condition variable) conjoins it with what happens to its own state. *)
(***************************************************************************)
EXTENDS Integers, Sequences, SequencesExt

CONSTANTS
  Ops,           \* the asynchronous operations that may wait
  InitialCount,  \* the count the semaphore is constructed with
  MaxInt         \* INT_MAX, the width of count_

ASSUME CoreAssumption ==
  /\ MaxInt \in Nat \ {0}
  /\ InitialCount \in 0 .. MaxInt

VARIABLES
  count,    \* count_
  waiters,  \* the operations linked at waiters_, least recent first
  ready     \* the executor's queue of posted completion handlers

coreVars == <<count, waiters, ready>>

\* The error codes a handler of the semaphore is posted with.
Code == {"ok", "aborted"}

\* A handler bound to its error code, as asio::experimental::append binds it.
Completion(o, ec) == [op |-> o, ec |-> ec]

CoreTypeOK ==
  /\ count \in (-MaxInt - 1) .. MaxInt
  /\ waiters \in Seq(Ops)
  /\ ready \in Seq([op : Ops, ec : Code])

CoreInit ==
  /\ count = InitialCount
  /\ waiters = << >>
  /\ ready = << >>

(***************************************************************************)
(* ++count_ and --count_: signed overflow is undefined; the builds wrap.   *)
(***************************************************************************)
Incremented(n) == IF n = MaxInt THEN -MaxInt - 1 ELSE n + 1

Decremented(n) == IF n = -MaxInt - 1 THEN MaxInt ELSE n - 1

(***************************************************************************)
(* semaphore_wait_op_model::complete on the i-th waiter: its cancellation  *)
(* slot is cleared (a cancellation finds it no longer), the node unlinked, *)
(* and the handler posted.                                                 *)
(***************************************************************************)
CompleteAt(i, ec) ==
  /\ waiters' = RemoveAt(waiters, i)
  /\ ready' = Append(ready, Completion(waiters[i], ec))

\* What complete() leaves of the waiters and of the handlers.
Completed(s, i, ec) ==
  [waiters |-> RemoveAt(s.waiters, i), ready |-> Append(s.ready, Completion(s.waiters[i], ec))]

(***************************************************************************)
(* The loop of the destructor and of release_all, round by round: every    *)
(* round looks at the front of a list that the round before has shortened  *)
(* and completes what is linked there, until the front is the anchor.      *)
(***************************************************************************)
CompleteAllAdvancing(ec) ==  \* fault: the loop also steps on to the next position
  LET after[k \in 0 .. Len(waiters)] ==
        IF k = 0 THEN [waiters |-> waiters, ready |-> ready]
        ELSE IF k > Len(after[k - 1].waiters) THEN after[k - 1]
        ELSE Completed(after[k - 1], k, ec)
  IN /\ waiters' = after[Len(waiters)].waiters
     /\ ready' = after[Len(waiters)].ready

CompleteAll(ec) ==
  LET after[k \in 0 .. Len(waiters)] ==
        IF k = 0 THEN [waiters |-> waiters, ready |-> ready]
        ELSE IF after[k - 1].waiters = << >> THEN after[k - 1]
        ELSE Completed(after[k - 1], 1, ec)
  IN /\ waiters' = after[Len(waiters)].waiters
     /\ ready' = after[Len(waiters)].ready

(***************************************************************************)
(* async_acquire(o): a nonzero count is decremented and the handler posted *)
(* at once; otherwise the operation is linked behind the waiters.  q is    *)
(* the queue of handlers left when the call is made.                       *)
(***************************************************************************)
AcquireAtFront(o, q) ==  \* fault: the operation is linked before the waiters
  \/ /\ count # 0
     /\ count' = Decremented(count)
     /\ ready' = Append(q, Completion(o, "ok"))
     /\ UNCHANGED waiters
  \/ /\ count = 0
     /\ waiters' = <<o>> \o waiters
     /\ ready' = q
     /\ UNCHANGED count

AcquireWithoutTest(o, q) ==  \* fault: if (count()) is left out
  /\ count' = count - 1
  /\ ready' = Append(q, Completion(o, "ok"))
  /\ UNCHANGED waiters

AsyncAcquire(o, q) ==
  \/ /\ count # 0
     /\ count' = Decremented(count)
     /\ ready' = Append(q, Completion(o, "ok"))
     /\ UNCHANGED waiters
  \/ /\ count = 0
     /\ waiters' = Append(waiters, o)
     /\ ready' = q
     /\ UNCHANGED count

\* try_acquire() when it succeeds; when count_ is not positive it changes nothing.
TryAcquire ==
  /\ count > 0
  /\ count' = count - 1
  /\ UNCHANGED <<waiters, ready>>

(***************************************************************************)
(* release(): the count is incremented; when an operation waits it is      *)
(* decremented again and the front waiter completed.                       *)
(***************************************************************************)
ReleaseWithoutDecrement ==  \* fault: the permit is handed over and kept
  \/ /\ waiters = << >>
     /\ count' = Incremented(count)
     /\ UNCHANGED <<waiters, ready>>
  \/ /\ waiters # << >>
     /\ count' = Incremented(count)
     /\ CompleteAt(1, "ok")

Release ==
  \/ /\ waiters = << >>
     /\ count' = Incremented(count)
     /\ UNCHANGED <<waiters, ready>>
  \/ /\ waiters # << >>
     /\ count' = Decremented(Incremented(count))
     /\ CompleteAt(1, "ok")

\* release_all(): every waiter is completed; the count is left alone.
ReleaseAll ==
  /\ CompleteAll("ok")
  /\ UNCHANGED count

\* The cancellation handler of the i-th waiter (terminal, partial or total).
CancelAt(i) ==
  /\ CompleteAt(i, "aborted")
  /\ UNCHANGED count

\* ~async_semaphore_base(): every waiter is completed with operation_aborted.
Destruct ==
  /\ CompleteAll("aborted")
  /\ UNCHANGED count

-----------------------------------------------------------------------------
(***************************************************************************)
(* Where an operation is.                                                  *)
(***************************************************************************)
Linked(o) == \E i \in DOMAIN waiters : waiters[i] = o

Posted(o) == \E i \in DOMAIN ready : ready[i].op = o

LinkedOnce == \A i, j \in DOMAIN waiters : waiters[i] = waiters[j] => i = j

PostedOnce == \A i, j \in DOMAIN ready : ready[i].op = ready[j].op => i = j

\* value(): negative when operations wait.
Value == count - Len(waiters)
=============================================================================
