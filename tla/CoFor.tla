-------------------------------- MODULE CoFor --------------------------------
(***************************************************************************)
(* co_for over range_from(channel) or range_from(coro): the loop awaits    *)
(* wait() before every round; the range keeps the value in raw storage     *)
(* that it constructs in at the first round, assigns to later and destroys *)
(* when the loop is left in whatever way.                                  *)
(***************************************************************************)
EXTENDS Integers

VARIABLES
  over,         \* what the range is over: a channel or a generator
  at,           \* where the loop is
  has_value,    \* has_value
  constructed,  \* history: storage_ holds a value
  destroyed,    \* history: the destructor of the range destroyed one
  stopped,      \* this_coro::cancellation_state is cancelled
  throwing      \* this_coro::throw_if_cancelled

loopVars == <<over, at, has_value, constructed, destroyed, stopped, throwing>>

LoopOver == at \in {"left", "threw", "dropped"}

LoopInit ==
  /\ over \in {"channel", "coro"}
  /\ throwing \in BOOLEAN
  /\ at = "start"
  /\ has_value = FALSE /\ constructed = FALSE /\ destroyed = FALSE
  /\ stopped = FALSE

\* ~range_from_channel, ~range_from_coro
Leave(how) ==
  /\ at' = how
  /\ destroyed' = has_value
  /\ UNCHANGED <<over, has_value, constructed, stopped, throwing>>

MarkAlways ==  \* fault: a generator's range says so too
  has_value' = TRUE

\* A range over a channel says that it has a value before it awaits the first.
MarkBeforeReceive ==
  has_value' = IF over = "channel" THEN TRUE ELSE has_value

(***************************************************************************)
(* wait(), up to the co_await of the next value; isOpen: the channel or    *)
(* the generator is.  Awaiting wait() throws in a coroutine that was       *)
(* cancelled, unless throw_if_cancelled is off.                            *)
(***************************************************************************)
Ask(isOpen) ==
  /\ at \in {"start", "body"}
  /\ ~stopped /\ isOpen
  /\ at' = "receiving"
  /\ MarkBeforeReceive
  /\ UNCHANGED <<over, constructed, destroyed, stopped, throwing>>

Stop(isOpen) ==
  /\ at \in {"start", "body"}
  /\ stopped \/ ~isOpen
  /\ Leave(IF stopped /\ throwing THEN "threw" ELSE "left")

\* The value came: it is constructed or assigned, and the body runs.
Received ==
  /\ at = "receiving"
  /\ at' = "body"
  /\ has_value' = TRUE
  /\ constructed' = TRUE
  /\ UNCHANGED <<over, destroyed, stopped, throwing>>

\* co_await threw inside wait().
Failed == at = "receiving" /\ Leave("threw")

\* The generator returned: its optional is empty.
Exhausted == at = "receiving" /\ over = "coro" /\ Leave("left")

\* The body breaks out of the loop, or throws.
Break(how) == at = "body" /\ Leave(how)

\* The frame of the coroutine is destroyed while it is suspended.
Drop == at \in {"receiving", "body"} /\ Leave("dropped")

CancelLoop ==
  /\ at \in {"receiving", "body"}
  /\ stopped' = TRUE
  /\ UNCHANGED <<over, at, has_value, constructed, destroyed, throwing>>
=============================================================================
