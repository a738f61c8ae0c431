------------------------------ MODULE Pipeline ------------------------------
(***************************************************************************)
(* async_copy and co_for at work together: a producer sends to a channel,  *)
(* async_copy takes from it (the source) and sends to a second channel     *)
(* (the sink), and a coroutine loops over that one with co_for.  A copy    *)
(* that failed may be followed by another.  Channels are closed and        *)
(* cancelled, copies and the loop are cancelled, and the executor goes, at *)
(* any time.                                                               *)
(***************************************************************************)
EXTENDS AsyncCopy, CoFor, Sequences, FiniteSets

CONSTANTS
  SourceCapacity,  \* the messages the source buffers
  SinkCapacity,    \* the messages the sink buffers
  MaxCopies        \* bound: the copies, one after the other

ASSUME PipelineAssumption ==
  /\ SourceCapacity \in Nat /\ SinkCapacity \in Nat
  /\ MaxCopies \in Nat \ {0}

VARIABLES
  srcHeld, srcOpen, srcReceive,     \* the channel the copy receives from
  sinkHeld, sinkOpen, sinkReceive,  \* the channel it sends to
  sending,   \* what became of the copy's async_send
  produced,  \* the values sent to the source: 1, 2, ...
  copies,    \* the copies begun
  ended,     \* an error message was sent to end the loop
  seen,      \* history: the values the loop's body saw
  lost,      \* history: the values that copies dropped
  alive      \* the executor exists

copyVars == vars
srcVars == <<srcHeld, srcOpen, srcReceive>>
sinkVars == <<sinkHeld, sinkOpen, sinkReceive>>
progVars == <<produced, copies, ended>>
all == <<copyVars, loopVars, srcVars, sinkVars, sending, progVars, seen, lost, alive>>

Source ==
  INSTANCE Channel WITH Capacity <- SourceCapacity,
                        held <- srcHeld, open <- srcOpen, receive <- srcReceive
Sink ==
  INSTANCE Channel WITH Capacity <- SinkCapacity,
                        held <- sinkHeld, open <- sinkOpen, receive <- sinkReceive

Value(n) == Source!Msg("ok", n)

Messages == {Value(n) : n \in 1 .. MaxValues} \cup {Source!Fault}

Receives == Messages \cup {Source!Idle, Source!Waiting, Source!Closed, Source!Cancelled}

PipelineTypeOK ==
  /\ TypeOK
  /\ over \in {"channel", "coro"} /\ throwing \in BOOLEAN /\ stopped \in BOOLEAN
  /\ at \in {"start", "receiving", "body", "left", "threw", "dropped"}
  /\ has_value \in BOOLEAN /\ constructed \in BOOLEAN /\ destroyed \in BOOLEAN
  /\ srcHeld \in Seq(Messages) /\ sinkHeld \in Seq(Messages)
  /\ srcReceive \in Receives /\ sinkReceive \in Receives
  /\ srcOpen \in BOOLEAN /\ sinkOpen \in BOOLEAN
  /\ sending \in {"idle", "sent", "failed"}
  /\ sending # "idle" <=> phase = "sink"
  /\ produced \in 0 .. MaxValues /\ copies \in 0 .. MaxCopies
  /\ seen \in Seq(Messages) /\ lost \subseteq 1 .. MaxValues
  /\ ended \in BOOLEAN /\ alive \in BOOLEAN

PipelineInit ==
  /\ Init /\ LoopInit
  /\ Source!ChannelInit /\ Sink!ChannelInit
  /\ sending = "idle"
  /\ produced = 0 /\ copies = 1 /\ ended = FALSE
  /\ seen = << >> /\ lost = {}
  /\ alive = TRUE

-----------------------------------------------------------------------------
(***************************************************************************)
(* The program around the two: it sends one value at a time, closes and    *)
(* cancels channels, copies again, and ends the loop.                      *)
(***************************************************************************)
Produce ==
  /\ ~Source!SendWaits
  /\ \/ /\ produced < MaxValues
        /\ produced' = produced + 1
        /\ Source!Send(Value(produced + 1))
     \/ /\ Source!Send(Source!Fault)
        /\ UNCHANGED produced
  /\ UNCHANGED <<copyVars, loopVars, sinkVars, sending, copies, ended, seen, lost>>

CloseSource ==
  /\ Source!Close
  /\ UNCHANGED <<copyVars, loopVars, sinkVars, sending, progVars, seen, lost>>

\* chan.cancel(): a value whose send is cancelled is sent again later.
CancelSource ==
  /\ Source!Cancel
  /\ produced' = IF Source!SendWaits /\ srcHeld[Len(srcHeld)].ec = "ok"
                 THEN produced - 1 ELSE produced
  /\ UNCHANGED <<copyVars, loopVars, sinkVars, sending, copies, ended, seen, lost>>

CloseSink ==
  /\ Sink!Close
  /\ UNCHANGED <<copyVars, loopVars, srcVars, sending, progVars, seen, lost>>

\* What the copy waits to send is taken out of the sink.
SendCancelled ==
  IF phase = "sink" /\ sending = "sent" /\ Sink!SendWaits
  THEN sending' = "failed" /\ lost' = lost \cup {sinkHeld[Len(sinkHeld)].v}
  ELSE UNCHANGED <<sending, lost>>

\* A program whose loop is over closes and cancels its channel.
Abandon ==
  /\ LoopOver
  /\ sinkOpen \/ Sink!SendWaits
  /\ sinkOpen' = FALSE
  /\ sinkHeld' = IF Sink!SendWaits THEN SubSeq(sinkHeld, 1, SinkCapacity) ELSE sinkHeld
  /\ SendCancelled
  /\ UNCHANGED <<copyVars, loopVars, srcVars, sinkReceive, progVars, seen>>

\* Another copy from the same source to the same sink.
Again ==
  /\ phase = "done" /\ ~ended /\ copies < MaxCopies
  /\ copies' = copies + 1
  /\ phase' = "initial" /\ completed' = 0 /\ cancelled' = FALSE
  /\ result' = "none" /\ taken' = 0 /\ stored' = 0
  /\ UNCHANGED <<loopVars, srcVars, sinkVars, sending, produced, ended, seen, lost, alive>>

\* The loop is ended as test/for.cpp:82 does, by an error sent to its channel.
EndStream ==
  /\ phase = "done" /\ ~ended
  /\ ended' = TRUE
  /\ Sink!Send(Sink!Fault)
  /\ UNCHANGED <<copyVars, loopVars, srcVars, sending, produced, copies, seen, lost>>

-----------------------------------------------------------------------------
(***************************************************************************)
(* The copy: a handler ends with the call of the source or of the sink.    *)
(***************************************************************************)
CopyStart ==
  /\ Start
  /\ Source!Receive
  /\ UNCHANGED <<loopVars, sinkVars, sending, progVars, seen, lost>>

CopyReceivedSkipping ==  \* fault: a value that comes after the cancellation is skipped
  /\ Source!Posted /\ srcReceive.ec = "ok" /\ phase = "source" /\ taken < MaxValues
  /\ taken' = taken + 1 /\ completed' = Wrapped(completed + 1)
  /\ IF ~cancelled /\ sinkOpen
     THEN /\ phase' = "sink" /\ sending' = "sent"
          /\ Sink!Send(srcReceive)
          /\ srcReceive' = Source!Idle /\ UNCHANGED <<srcHeld, srcOpen>>
     ELSE /\ srcHeld # << >>
          /\ srcReceive' = Head(srcHeld) /\ srcHeld' = Tail(srcHeld)
          /\ UNCHANGED <<phase, sending, sinkVars, srcOpen>>
  /\ UNCHANGED <<cancelled, result, stored, loopVars, progVars, seen, lost>>

\* The source's handler; the sink refuses the value when it is closed.
CopyReceived ==
  /\ Source!Take
  /\ \/ /\ srcReceive.ec = "ok"
        /\ SourceGave
        /\ \/ /\ ~cancelled /\ sinkOpen
              /\ Sink!Send(srcReceive)
              /\ sending' = "sent"
              /\ UNCHANGED lost
           \/ /\ cancelled \/ ~sinkOpen
              /\ sending' = IF cancelled THEN "idle" ELSE "failed"
              /\ lost' = lost \cup {srcReceive.v}
              /\ UNCHANGED sinkVars
     \/ /\ srcReceive.ec # "ok"
        /\ SourceFailed
        /\ UNCHANGED <<sinkVars, sending, lost>>
  /\ UNCHANGED <<loopVars, progVars, seen>>

CopySentRegardless ==  \* fault: an error of the sink does not end the copy
  /\ sending # "idle"
  /\ sending = "sent" => ~Sink!SendWaits
  /\ sending' = "idle"
  /\ SinkAccepted
  /\ IF cancelled THEN UNCHANGED srcVars ELSE Source!Receive
  /\ UNCHANGED <<loopVars, sinkVars, progVars, seen, lost>>


\* The sink's handler.
CopySent ==
  /\ sending' = "idle"
  /\ \/ /\ sending = "sent" /\ ~Sink!SendWaits
        /\ SinkAccepted
        /\ IF cancelled THEN UNCHANGED srcVars ELSE Source!Receive
     \/ /\ sending = "failed"
        /\ SinkFailed
        /\ UNCHANGED srcVars
  /\ UNCHANGED <<loopVars, sinkVars, progVars, seen, lost>>

\* The signal reaches the copy's state and the operation it waits for.
CancelCopy ==
  /\ Cancel
  /\ IF phase = "source"
     THEN Source!CancelReceive /\ UNCHANGED <<sinkVars, sending, lost>>
     ELSE /\ SendCancelled
          /\ IF sending = "sent" THEN Sink!CancelSend ELSE UNCHANGED sinkVars
          /\ UNCHANGED srcVars
  /\ UNCHANGED <<loopVars, progVars, seen>>

-----------------------------------------------------------------------------
(***************************************************************************)
(* The loop.  A range over a generator has its values by a generator that  *)
(* receives from the sink and ends or throws when that fails.              *)
(***************************************************************************)
LoopAsks ==
  /\ \/ /\ Ask(over = "channel" => sinkOpen)
        /\ Sink!Receive
     \/ /\ Stop(over = "channel" => sinkOpen)
        /\ UNCHANGED sinkVars
  /\ UNCHANGED <<copyVars, srcVars, sending, progVars, seen, lost>>

LoopReceivedTesting ==  \* fault: the value is tested in the place of the optional
  /\ Sink!Take
  /\ IF sinkReceive.ec = "ok"
     THEN \/ Received /\ seen' = Append(seen, sinkReceive)
          \/ Exhausted /\ UNCHANGED seen
     ELSE (Failed \/ Exhausted) /\ UNCHANGED seen
  /\ UNCHANGED <<copyVars, srcVars, sending, progVars, lost>>

LoopReceivedIgnoring ==  \* fault: an error is no reason to leave the loop
  /\ Sink!Take
  /\ IF sinkReceive.ec = "ok"
     THEN Received /\ seen' = Append(seen, sinkReceive)
     ELSE /\ at' = "start"
          /\ UNCHANGED <<over, has_value, constructed, destroyed, stopped, throwing, seen>>
  /\ UNCHANGED <<copyVars, srcVars, sending, progVars, lost>>

LoopReceived ==
  /\ Sink!Take
  /\ IF sinkReceive.ec = "ok"
     THEN Received /\ seen' = Append(seen, sinkReceive)
     ELSE (Failed \/ Exhausted) /\ UNCHANGED seen
  /\ UNCHANGED <<copyVars, srcVars, sending, progVars, lost>>

LoopBroken ==
  /\ \E how \in {"left", "threw"} : Break(how)
  /\ UNCHANGED <<copyVars, srcVars, sinkVars, sending, progVars, seen, lost>>

LoopCancelled ==
  /\ CancelLoop
  /\ Sink!CancelReceive
  /\ UNCHANGED <<copyVars, srcVars, sending, progVars, seen, lost>>

\* The executor is destroyed, and the coroutine that is suspended with it.
Shutdown ==
  /\ alive' = FALSE
  /\ IF at \in {"receiving", "body"} THEN Drop ELSE UNCHANGED loopVars
  /\ UNCHANGED <<copyVars, srcVars, sinkVars, sending, progVars, seen, lost>>

CopyHandles == CopyStart \/ CopyReceived \/ CopySent

LoopHandles == LoopAsks \/ LoopReceived

PipelineNext ==
  /\ alive
  /\ \/ /\ \/ Produce \/ CloseSource \/ CancelSource \/ CloseSink
           \/ Abandon \/ Again \/ EndStream
           \/ CopyHandles \/ CancelCopy
           \/ LoopHandles \/ LoopBroken \/ LoopCancelled
        /\ UNCHANGED alive
     \/ Shutdown

\* The executor runs handlers, the body comes to its end, and the program ends the
\* loop after its last copy and the channel after its loop.
Fairness ==
  /\ WF_all(alive /\ CopyHandles /\ UNCHANGED alive)
  /\ WF_all(alive /\ LoopHandles /\ UNCHANGED alive)
  /\ WF_all(alive /\ EndStream /\ UNCHANGED alive)
  /\ WF_all(alive /\ Abandon /\ UNCHANGED alive)

PipelineSpec == PipelineInit /\ [][PipelineNext]_all /\ Fairness

-----------------------------------------------------------------------------
(***************************************************************************)
(* Properties.                                                             *)
(***************************************************************************)
Values(messages) == {messages[i].v : i \in {j \in DOMAIN messages : messages[j].ec = "ok"}}

Increasing(messages) ==
  \A i, j \in DOMAIN messages :
    i < j /\ messages[i].ec = "ok" /\ messages[j].ec = "ok" => messages[i].v < messages[j].v

\* Where values are, from the body of the loop back to the producer.
Stations == <<seen, <<sinkReceive>>, sinkHeld, <<srcReceive>>, srcHeld>>

\* From the producer to the body of the loop no value is duplicated or overtakes
\* another, and every one that was produced is on its way or was dropped by a copy.
InOrder ==
  /\ \A k \in 1 .. 5 : Increasing(Stations[k])
  /\ \A k, l \in 1 .. 5 : k < l =>
       \A m \in Values(Stations[k]), n \in Values(Stations[l]) : m < n
  /\ \A k \in 1 .. 5 : Values(Stations[k]) \cap lost = {}
  /\ 1 .. produced = lost \cup UNION {Values(Stations[k]) : k \in 1 .. 5}

\* A copy drops one value at most, and reports that it failed, not an error of its
\* source.
LossBounded ==
  Cardinality(lost) <=
    IF sending = "failed" \/ result \in {"aborted", "sink_error"} THEN copies ELSE copies - 1

\* A loop that ends by itself leaves no value in its channel, unless the coroutine
\* was cancelled, or it is over a channel that was closed (for.hpp:31).
LeavesNothing ==
  [][LoopHandles /\ LoopOver' =>
       \/ Values(<<sinkReceive>>) \cup Values(sinkHeld) = {}
       \/ stopped
       \/ over = "channel" /\ ~sinkOpen]_all

\* The range destroys the value it constructed, once it is left; it destroys one
\* that it never constructed only when the first receive of a channel threw or was
\* destroyed (for.hpp:36-37).
ValueLifetime ==
  LoopOver =>
    /\ constructed => destroyed
    /\ destroyed /\ ~constructed => over = "channel" /\ seen = << >> /\ at \in {"threw", "dropped"}

\* What the destructor of the range tests has_value for (for.hpp:52): no value is
\* destroyed that was not constructed.
DestroysOnlyConstructed == destroyed => constructed

\* When the source is closed the copy and the loop end, unless the executor goes.
PipelineEnds ==
  ~srcOpen ~> ~alive \/ (phase = "done" /\ LoopOver)

=============================================================================
