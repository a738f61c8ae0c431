------------------------------- MODULE Channel -------------------------------
(***************************************************************************)
(* asio::experimental::channel as the code uses it: one operation receives *)
(* at a time, completions are posted, messages carry an error code.        *)
(* External: modelled from copy.hpp, for.hpp and their tests.              *)
(***************************************************************************)
EXTENDS Integers, Sequences

CONSTANT Capacity  \* the messages the channel buffers

VARIABLES
  held,    \* the messages sent and not received: buffered ones, then waiting ones
  open,    \* is_open()
  receive  \* async_receive: idle, waiting, or the message posted to its handler

Msg(ec, v) == [ec |-> ec, v |-> v]

Idle == Msg("idle", 0)
Waiting == Msg("waiting", 0)
Fault == Msg("fault", 0)
Closed == Msg("closed", 0)
Cancelled == Msg("cancelled", 0)

ChannelInit == held = << >> /\ open = TRUE /\ receive = Idle

\* The last message waits for room.
SendWaits == Len(held) > Capacity

Posted == receive \notin {Idle, Waiting}

Send(m) ==
  /\ open
  /\ IF receive = Waiting
     THEN receive' = m /\ UNCHANGED held
     ELSE held' = Append(held, m) /\ UNCHANGED receive
  /\ UNCHANGED open

\* What was sent before a close is received after it.
Receive ==
  /\ receive = Idle
  /\ IF held # << >>
     THEN receive' = Head(held) /\ held' = Tail(held)
     ELSE receive' = (IF open THEN Waiting ELSE Closed) /\ UNCHANGED held
  /\ UNCHANGED open

\* The handler of async_receive runs.
Take ==
  /\ Posted
  /\ receive' = Idle
  /\ UNCHANGED <<held, open>>

Close ==
  /\ open
  /\ open' = FALSE
  /\ receive' = IF receive = Waiting THEN Closed ELSE receive
  /\ UNCHANGED held

CancelReceive ==
  /\ receive' = IF receive = Waiting THEN Cancelled ELSE receive
  /\ UNCHANGED <<held, open>>

\* A send that waits is cancelled, its message with it.
CancelSend ==
  /\ held' = IF SendWaits THEN SubSeq(held, 1, Capacity) ELSE held
  /\ UNCHANGED <<open, receive>>

\* cancel(): whatever waits.
Cancel ==
  /\ receive' = IF receive = Waiting THEN Cancelled ELSE receive
  /\ held' = IF SendWaits THEN SubSeq(held, 1, Capacity) ELSE held
  /\ UNCHANGED open
=============================================================================
