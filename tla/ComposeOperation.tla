-------------------------- MODULE ComposeOperation --------------------------
(***************************************************************************)
(* Composed operations written as coroutines (async.hpp): the coroutine    *)
(* frame with its compose_promise, the operations that its body awaits     *)
(* (some through redirect_cancellation), and the completion of the whole.  *)
(* One executor runs the queued handlers; a step is what runs between two  *)
(* suspension points or one statement of the body.  The completion token   *)
(* is one that initiates at once (a handler or use_future).                *)
(***************************************************************************)
EXTENDS Integers, Sequences

CONSTANTS
  Ops,        \* the calls of composed operations
  Types,      \* the kinds of cancellation
  Terminal,   \* the kind that a new promise lets through
  Filters,    \* the filters a body may choose: sets of kinds
  MaxAwaits,  \* bound: awaits of one body
  None        \* no cancellation, or no coroutine

ASSUME ComposeAssumption ==
  /\ Terminal \in Types
  /\ Filters \subseteq SUBSET Types
  /\ MaxAwaits \in Nat
  /\ None \notin Types \cup Ops

VARIABLES
  frame,       \* the coroutine frame of each operation
  turn,        \* the coroutine that runs, and where it was entered from
  didSuspend,  \* did_suspend
  filter,      \* the in filter of the promise's cancellation state
  outFilter,   \* its out filter
  cancelled,   \* state.cancelled()
  awaits,      \* how many awaits the body has made
  pending,     \* the coroutines whose handle a waiting operation owns
  redirect,    \* those whose handler is a redirect_cancellation_handler
  told,        \* the cancellation that reached the awaited operation
  got,         \* what the last await returned; raw: a redirected result before
  queue,       \* the handlers posted to the executor
  fate,        \* how each operation ended
  early,       \* those whose handler was called inside their initiating function
  inlined,     \* those that awaited an operation that did the same
  returned,    \* io_context::run returned
  alive        \* the executor exists

vars == <<frame, turn, didSuspend, filter, outFilter, cancelled, awaits, pending, redirect,
          told, got, queue, fate, early, inlined, returned, alive>>

state == <<filter, outFilter, cancelled>>  \* the cancellation state
inner == <<pending, redirect, told, got>>  \* the awaited operation
context == <<returned, alive>>
outcome == <<fate, early, inlined>>

Results == {"ok", "error", "aborted"}

NoResult == [ec |-> "none", cnc |-> None, raw |-> "none"]

Item(what, o, ec) == [what |-> what, op |-> o, ec |-> ec]

Items ==
  {Item("resume", o, r) : o \in Ops, r \in Results} \cup
  {Item(w, o, "none") : w \in {"complete", "rethrow"}, o \in Ops}

Nobody == [op |-> None, within |-> FALSE, starting |-> FALSE]

TypeOK ==
  /\ frame \in [Ops -> {"none", "running", "suspended", "gone"}]
  /\ turn \in [op : Ops \cup {None}, within : BOOLEAN, starting : BOOLEAN]
  /\ \A o \in Ops : frame[o] = "running" <=> turn.op = o
  /\ didSuspend \subseteq Ops
  /\ filter \in [Ops -> SUBSET Types] /\ outFilter \in [Ops -> SUBSET Types]
  /\ cancelled \in [Ops -> Types \cup {None}]
  /\ \A o \in Ops : cancelled[o] \in filter[o] \cup {None}
  /\ awaits \in [Ops -> 0 .. MaxAwaits]
  /\ pending \subseteq Ops /\ redirect \subseteq Ops
  /\ told \in [Ops -> Types \cup {None}]
  /\ got \in [Ops -> [ec : Results \cup {"none"}, cnc : Types \cup {None},
                      raw : Results \cup {"none"}]]
  /\ queue \in Seq(Items)
  /\ fate \in [Ops -> {"none", "completed", "threw", "dropped"}]
  /\ early \subseteq Ops /\ inlined \subseteq Ops
  /\ returned \in BOOLEAN /\ alive \in BOOLEAN

Init ==
  /\ frame = [o \in Ops |-> "none"]
  /\ turn = Nobody
  /\ didSuspend = {}
  /\ filter = [o \in Ops |-> {}] /\ outFilter = [o \in Ops |-> {}]
  /\ cancelled = [o \in Ops |-> None]
  /\ awaits = [o \in Ops |-> 0]
  /\ pending = {} /\ redirect = {}
  /\ told = [o \in Ops |-> None]
  /\ got = [o \in Ops |-> NoResult]
  /\ queue = << >>
  /\ fate = [o \in Ops |-> "none"]
  /\ early = {} /\ inlined = {}
  /\ returned = FALSE /\ alive = TRUE

-----------------------------------------------------------------------------
Idle == turn = Nobody /\ alive

Running(o) == turn.op = o

Becomes(o, s) == frame' = [frame EXCEPT ![o] = s]

Outstanding == {o \in Ops : frame[o] # "none" /\ fate[o] = "none"}

WorkUntracked == queue # << >>  \* fault: executor_ does not track work

\* What keeps io_context::run from returning: queued handlers, and the tracked
\* executor_ of every promise.
Work == queue # << >> \/ \E o \in Ops : frame[o] \in {"running", "suspended"}

\* A promise's cancellation state lets terminal cancellation in and out.
NewPromise(o) ==
  /\ filter' = [filter EXCEPT ![o] = {Terminal}]
  /\ outFilter' = [outFilter EXCEPT ![o] = {Terminal}]

(***************************************************************************)
(* A call: the promise is made, get_return_object stores the completion    *)
(* handler and the body starts inside the initiating function, called on   *)
(* the executor (within) or from outside.                                  *)
(***************************************************************************)
Initiate(o, within) ==
  /\ Idle
  /\ frame[o] = "none"
  /\ within => ~returned
  /\ Becomes(o, "running")
  /\ turn' = [op |-> o, within |-> within, starting |-> TRUE]
  /\ NewPromise(o)
  /\ returned' = FALSE
  /\ UNCHANGED <<didSuspend, cancelled, awaits, inner, queue, outcome, alive>>

\* co_await this_coro::reset_cancellation_state(...): a new state in the slot, with
\* the filters f and g, one filter for both, or terminal cancellation for both.
Reset(o, f, g) ==
  /\ Running(o)
  /\ filter' = [filter EXCEPT ![o] = f]
  /\ outFilter' = [outFilter EXCEPT ![o] = g]
  /\ cancelled' = [cancelled EXCEPT ![o] = None]
  /\ got' = [got EXCEPT ![o] = NoResult]
  /\ UNCHANGED <<frame, turn, didSuspend, awaits, pending, redirect, told, queue,
                 outcome, context>>

\* await_suspend: the handler of the awaited operation owns the coroutine.
Suspend(o) ==
  /\ Running(o)
  /\ awaits[o] < MaxAwaits
  /\ awaits' = [awaits EXCEPT ![o] = @ + 1]
  /\ Becomes(o, "suspended")
  /\ turn' = Nobody
  /\ told' = [told EXCEPT ![o] = None]
  /\ got' = [got EXCEPT ![o] = NoResult]
  /\ UNCHANGED <<didSuspend, state, outcome, context>>

\* The awaited operation is asio::post, or asio::dispatch from outside.
AwaitPost(o) ==
  /\ Suspend(o)
  /\ queue' = Append(queue, Item("resume", o, "ok"))
  /\ UNCHANGED <<pending, redirect>>

\* The awaited operation waits, for a timer say; r: through redirect_cancellation.
AwaitWait(o, r) ==
  /\ Suspend(o)
  /\ pending' = pending \cup {o}
  /\ redirect' = IF r THEN redirect \cup {o} ELSE redirect
  /\ UNCHANGED queue

\* asio::dispatch on the executor: the completion resumes the coroutine inside
\* await_suspend.
AwaitInline(o) ==
  /\ Running(o)
  /\ turn.within
  /\ awaits[o] < MaxAwaits
  /\ awaits' = [awaits EXCEPT ![o] = @ + 1]
  /\ didSuspend' = didSuspend \cup {o}
  /\ inlined' = IF turn.starting THEN inlined \cup {o} ELSE inlined
  /\ got' = [got EXCEPT ![o] = [ec |-> "ok", cnc |-> None, raw |-> "none"]]
  /\ UNCHANGED <<frame, turn, state, pending, redirect, told, queue, fate, early, context>>

-----------------------------------------------------------------------------
\* The frame of the running coroutine goes, its promise with it.
Leave(o) ==
  /\ Running(o)
  /\ Becomes(o, "gone")
  /\ turn' = Nobody
  /\ didSuspend' = didSuspend \ {o}
  /\ filter' = [filter EXCEPT ![o] = {}] /\ outFilter' = [outFilter EXCEPT ![o] = {}]
  /\ cancelled' = [cancelled EXCEPT ![o] = None]
  /\ awaits' = [awaits EXCEPT ![o] = 0]
  /\ told' = [told EXCEPT ![o] = None]
  /\ got' = [got EXCEPT ![o] = NoResult]
  /\ UNCHANGED <<pending, redirect, inlined, context>>

\* The completion handler is called on the spot.
CallHandler(o) ==
  /\ fate' = [fate EXCEPT ![o] = "completed"]
  /\ early' = IF turn.starting THEN early \cup {o} ELSE early
  /\ UNCHANGED queue

PostHandler(o) ==
  /\ queue' = Append(queue, Item("complete", o, "none"))
  /\ UNCHANGED <<fate, early>>

CompleteByDispatch(o) ==  \* fault: dispatched whether it did suspend or not
  IF turn.within THEN CallHandler(o) ELSE PostHandler(o)

CompleteIfSuspended(o) ==  \* fault: nothing in the place of post
  IF o \in didSuspend THEN CallHandler(o) ELSE UNCHANGED <<queue, fate, early>>

\* ~compose_promise with a result: dispatch when it did suspend, otherwise post.
Complete(o) ==
  IF o \in didSuspend /\ turn.within THEN CallHandler(o) ELSE PostHandler(o)

\* co_return: return_value stores the result, and there is no final suspension.
Return(o) == Leave(o) /\ Complete(o)

ThrowAndComplete(o) ==  \* fault: the destructor does not look for a result
  /\ Leave(o)
  /\ queue' = queue \o <<Item("rethrow", o, "none"), Item("complete", o, "none")>>
  /\ UNCHANGED <<fate, early>>

\* An exception leaves the body: unhandled_exception posts it, and the promise has
\* no result to complete with.
Throw(o) ==
  /\ Leave(o)
  /\ queue' = Append(queue, Item("rethrow", o, "none"))
  /\ UNCHANGED <<fate, early>>

-----------------------------------------------------------------------------
\* redirect_cancellation_handler: the kind goes to cancel_, the error is cleared
\* when there was one.
Redirected(o, ec) ==
  [ec |-> IF o \in redirect /\ told[o] # None THEN "ok" ELSE ec,
   cnc |-> IF o \in redirect THEN told[o] ELSE None,
   raw |-> IF o \in redirect THEN ec ELSE "none"]

\* completion::operator(): the result is stored, the handle released, the
\* coroutine resumed.
Resume(o, ec) ==
  /\ Becomes(o, "running")
  /\ turn' = [op |-> o, within |-> TRUE, starting |-> FALSE]
  /\ didSuspend' = didSuspend \cup {o}
  /\ got' = [got EXCEPT ![o] = Redirected(o, ec)]
  /\ redirect' = redirect \ {o}
  /\ UNCHANGED <<fate, early>>

\* io_context::run takes a handler; a rethrown exception leaves it, and the
\* program calls it again.
Run ==
  /\ Idle /\ ~returned /\ queue # << >>
  /\ LET i == Head(queue) IN
       CASE i.what = "resume" -> Resume(i.op, i.ec)
         [] i.what = "complete" ->
              /\ fate' = [fate EXCEPT ![i.op] = "completed"]
              /\ UNCHANGED <<frame, turn, didSuspend, redirect, got, early>>
         [] i.what = "rethrow" ->
              /\ fate' = [fate EXCEPT ![i.op] = "threw"]
              /\ UNCHANGED <<frame, turn, didSuspend, redirect, got, early>>
  /\ queue' = Tail(queue)
  /\ UNCHANGED <<state, awaits, pending, told, inlined, context>>

RunReturns ==
  /\ Idle /\ ~returned /\ ~Work
  /\ returned' = TRUE
  /\ UNCHANGED <<frame, turn, didSuspend, state, awaits, inner, queue, outcome, alive>>

\* The operation that o awaits ends, well or not.
Finish(o, ec) ==
  /\ pending' = pending \ {o}
  /\ queue' = Append(queue, Item("resume", o, ec))

Fire(o, ec) ==
  /\ Idle
  /\ o \in pending
  /\ Finish(o, ec)
  /\ UNCHANGED <<frame, turn, didSuspend, state, awaits, redirect, told, got, outcome, context>>

(***************************************************************************)
(* A cancellation signal: the promise's state remembers what its in filter *)
(* leaves of it (the last signal only) and hands on what the out filter    *)
(* leaves of that to the slot of the awaited operation, which ends if it   *)
(* still waits: a redirected handler's own state filters nothing.          *)
(***************************************************************************)
EmitUnfiltered(o, c) ==  \* fault: the out filter is left out
  /\ Idle
  /\ frame[o] = "suspended"
  /\ cancelled' = [cancelled EXCEPT ![o] = IF c \in filter[o] THEN c ELSE None]
  /\ told' = IF c \in filter[o] THEN [told EXCEPT ![o] = c] ELSE told
  /\ IF c \in filter[o] /\ o \in pending
     THEN Finish(o, "aborted")
     ELSE UNCHANGED <<pending, queue>>
  /\ UNCHANGED <<frame, turn, didSuspend, filter, outFilter, awaits, redirect, got, outcome, context>>

Emit(o, c) ==
  /\ Idle
  /\ frame[o] = "suspended"
  /\ cancelled' = [cancelled EXCEPT ![o] = IF c \in filter[o] THEN c ELSE None]
  /\ LET out == c \in filter[o] \cap outFilter[o] IN
       /\ told' = IF out THEN [told EXCEPT ![o] = c] ELSE told
       /\ IF out /\ o \in pending
          THEN Finish(o, "aborted")
          ELSE UNCHANGED <<pending, queue>>
  /\ UNCHANGED <<frame, turn, didSuspend, filter, outFilter, awaits, redirect, got, outcome, context>>

ShutdownLeaking ==  \* fault: the handler has a bare handle
  /\ Idle
  /\ alive' = FALSE
  /\ queue' = << >> /\ pending' = {}
  /\ fate' = [o \in Ops |-> IF o \in Outstanding THEN "dropped" ELSE fate[o]]
  /\ UNCHANGED <<frame, turn, didSuspend, state, awaits, redirect, told, got, early, inlined, returned>>

\* The executor is destroyed, and the handlers with it: coro_delete destroys the
\* coroutines they own.
Shutdown ==
  /\ Idle
  /\ alive' = FALSE
  /\ queue' = << >> /\ pending' = {}
  /\ frame' = [o \in Ops |-> IF frame[o] = "suspended" THEN "gone" ELSE frame[o]]
  /\ fate' = [o \in Ops |-> IF o \in Outstanding THEN "dropped" ELSE fate[o]]
  /\ UNCHANGED <<turn, didSuspend, state, awaits, redirect, told, got, early, inlined, returned>>

\* What the body of o does next.
Body(o) ==
  \/ \E f, g \in Filters : Reset(o, f, g)
  \/ AwaitPost(o) \/ AwaitInline(o)
  \/ \E r \in BOOLEAN : AwaitWait(o, r)
  \/ Return(o) \/ Throw(o)

Next ==
  \/ \E o \in Ops :
       \/ \E within \in BOOLEAN : Initiate(o, within)
       \/ Body(o)
       \/ \E ec \in {"ok", "error"} : Fire(o, ec)
       \/ \E c \in Types : Emit(o, c)
  \/ Run \/ RunReturns \/ Shutdown

\* Bodies come to an end, awaited operations end, the executor runs its queue.
Fairness ==
  /\ WF_vars(Run)
  /\ \A o \in Ops :
       /\ WF_vars(Return(o) \/ Throw(o))
       /\ WF_vars(\E ec \in {"ok", "error"} : Fire(o, ec))

Spec == Init /\ [][Next]_vars /\ Fairness

-----------------------------------------------------------------------------
(***************************************************************************)
(* Properties.                                                             *)
(***************************************************************************)
\* Where in the queue the handlers are that own the coroutine of o.
Resumptions(o) == {i \in DOMAIN queue : queue[i].what = "resume" /\ queue[i].op = o}

\* A suspended coroutine is owned by exactly one handler, waiting or queued, and a
\* frame that runs or is gone by none: it is neither leaked nor destroyed twice
\* (the unique_ptr of completion, released before the resumption).
OneOwner ==
  \A o \in Ops :
    /\ frame[o] = "suspended" <=> o \in pending \/ Resumptions(o) # {}
    /\ o \in pending => Resumptions(o) = {}
    /\ \A i, j \in Resumptions(o) : i = j

\* io_context::run does not return while a composed operation is outstanding, also
\* one that waits for something which is no work of this executor (the tracked
\* executor_).
RunOutlivesOperations == returned => Outstanding = {}

\* No handler is called inside its initiating function (did_suspend), unless an
\* operation that the body awaited there completed inside its own.
NotInsideInitiation == early \subseteq inlined

\* What a redirected await returned: no error when it was aborted, and no error that
\* was there only together with a kind that both filters let through.
Honoured(o) ==
  /\ got[o].raw = "aborted" => got[o].ec = "ok"
  /\ got[o].ec = "ok" => got[o].cnc \in filter[o] \cap outFilter[o]

\* A cancellation that the filters in force let through ends the wait, redirected
\* or not, and one that a filter holds back never does.  A redirected one then reports
\* no error and a kind that both filters let through, whatever signals came after it;
\* an error that the operation had by itself is not hidden without such a kind
\* (redirect_cancellation.hpp:95-96).
CancellationHonoured ==
  /\ \A o \in pending : told[o] = None
  /\ \A o \in Ops : got[o].raw \in {"aborted", "error"} => Honoured(o)

\* The coroutine is an asynchronous operation: it ends once, completing, throwing
\* out of run or dropped with the executor.
Operation ==
  INSTANCE AsyncOperation WITH initiated <- {o \in Ops : frame[o] # "none"}

ImplementsAsyncOperation == Operation!Spec

\* Every operation that is initiated ends.
EveryOperationEnds == \A o \in Ops : frame[o] # "none" ~> fate[o] # "none"
=============================================================================
